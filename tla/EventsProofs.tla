---------------------------- MODULE EventsProofs ----------------------------
(***************************************************************************)
(* Theorems about Events, for any document, any subscribers and any        *)
(* bounds: as long as callbacks throw in writes only, the copies of the    *)
(* subscribers follow the document.                                        *)
(*                                                                         *)
(* Change sets are understood by where they lead: Leads(d, ops, e) has the *)
(* documents between d and e, so that what the folds of Events compute of  *)
(* a change set (Apply, Followed, Merge) is found once, by induction over  *)
(* its operations, and every step of the engine is first-order after that. *)
(***************************************************************************)
EXTENDS Events, ListLemmas, SequenceTheorems

Docs == [Cells -> Values]
Ops == [cell : Cells, old : Values, new : Values]

(* The document after an operation *)
Stepped(d, op) == [d EXCEPT ![op.cell] = op.new]

(* trace has the documents along ops, and each operation changes the value *)
(* that it says it does.                                                   *)
Trace(trace, ops) ==
  /\ trace \in [0..Len(ops) -> Docs]
  /\ \A n \in 1..Len(ops) :
       /\ trace[n - 1][ops[n].cell] = ops[n].old
       /\ trace[n] = Stepped(trace[n - 1], ops[n])

Leads(d, ops, e) ==
  \E trace : Trace(trace, ops) /\ trace[0] = d /\ trace[Len(ops)] = e

(* The documents that undo goes back to, one after the other, from d; the  *)
(* documents that redo goes on to.                                         *)
UndoChain(stack, d) ==
  \E docs \in [0..Len(stack) -> Docs] :
    /\ docs[Len(stack)] = d
    /\ \A n \in 1..Len(stack) : Leads(docs[n - 1], stack[n], docs[n])

RedoChain(stack, d) ==
  \E docs \in [0..Len(stack) -> Docs] :
    /\ docs[Len(stack)] = d
    /\ \A n \in 1..Len(stack) : Leads(docs[n], stack[n], docs[n - 1])
-----------------------------------------------------------------------------
CommitKinds == {"AfterCommit"}
ApplyKinds == {"AfterApply", "Rollback"}

EventTypes ==
  [kind : {"AfterApply", "AfterCommit", "Rollback"},
   call : {"write", "commit", "rollback", "undo"}, ops : Seq(Ops)]

(* The iterator of publish, at place pos of subs, has not yet passed s.    *)
Waits(subs, pos, s) == \E k \in pos..Len(subs) : subs[k] = s

(* The events of these kinds that s has not had: all of them while s has   *)
(* yet to get the first, then all but the first.                           *)
Pending(subs, pos, evs, s, kinds) ==
  {k \in (IF Waits(subs, pos, s) THEN 1 ELSE 2)..Len(evs) : evs[k].kind \in kinds}

(* What each subscriber has not had leads from its copy to the target.     *)
Follows(subs, pos, evs, conn, copies, target, kinds) ==
  \A s \in conn :
    /\ Pending(subs, pos, evs, s, kinds) = {} => copies[s] = target
    /\ \A k \in Pending(subs, pos, evs, s, kinds) : Leads(copies[s], evs[k].ops, target)

(* The subscriptions are those of different subscribers.                   *)
Distinct(subs) == \A j, k \in DOMAIN subs : subs[j] = subs[k] => j = k

(* The events of one call: an event of a write stands alone, and only undo *)
(* and redo publish two.                                                   *)
OfOneCall(evs) ==
  /\ Len(evs) <= 2
  /\ Len(evs) = 2 => evs[1].kind = "AfterApply" /\ evs[2].kind = "AfterCommit"
  /\ \A k \in DOMAIN evs :
       evs[k].call = "write" => Len(evs) = 1 /\ evs[k].kind = "AfterApply"

EngineTyped ==
  /\ doc \in Docs /\ base \in Docs
  /\ open \in BOOLEAN
  /\ changeSet \in Seq(Ops)
  /\ undoStack \in Seq(Seq(Ops)) /\ redoStack \in Seq(Seq(Ops))

PublishTyped ==
  /\ subscriptions \in Seq(Subscribers)
  /\ connected \subseteq ToSet(subscriptions)
  /\ Distinct(subscriptions)
  /\ position \in Nat \ {0}
  /\ events \in Seq(EventTypes)
  /\ OfOneCall(events)
  /\ commitCopy \in [connected -> Docs]
  /\ applyCopy \in [connected -> Docs]

(* The change set leads from the committed document to the document, and   *)
(* the stacks through the history.                                         *)
EngineSound ==
  /\ Leads(base, changeSet, doc)
  /\ ~open => changeSet = <<>>
  /\ UndoChain(undoStack, base)
  /\ RedoChain(redoStack, base)

CopiesSound ==
  /\ Follows(subscriptions, position, events, connected, commitCopy, base, CommitKinds)
  /\ Follows(subscriptions, position, events, connected, applyCopy, doc, ApplyKinds)

EventsInv ==
  EngineTyped /\ PublishTyped /\ EngineSound /\ CopiesSound
-----------------------------------------------------------------------------
(* Change sets                                                             *)

(* An operation takes a document to a document, and changes one value.     *)
LEMMA SteppedFacts ==
  ASSUME NEW d \in Docs, NEW op \in Ops
  PROVE  /\ op.cell \in Cells /\ op.old \in Values /\ op.new \in Values
         /\ Stepped(d, op) \in Docs
         /\ Stepped(d, op)[op.cell] = op.new
         /\ \A c \in Cells : c # op.cell => Stepped(d, op)[c] = d[c]
PROOF
  BY DEF Docs, Ops, Stepped

(* No operations lead nowhere.                                             *)
LEMMA LeadsNowhere ==
  ASSUME NEW d \in Docs, NEW e, Leads(d, << >>, e)
  PROVE  d = e
PROOF
  BY DEF Leads

LEMMA LeadsStays ==
  ASSUME NEW d \in Docs
  PROVE  Leads(d, << >>, d)
PROOF
<1> DEFINE trace == [n \in 0..0 |-> d]
<1>1. Len(<< >>) = 0
  OBVIOUS
<1>2. trace \in [0..0 -> Docs] /\ trace[0] = d
  OBVIOUS
<1> HIDE DEF trace
<1>3. Trace(trace, << >>)
  BY <1>1, <1>2 DEF Trace
<1> QED BY <1>1, <1>2, <1>3 DEF Leads

(* What leads somewhere leads from a document to a document.               *)
LEMMA LeadsTyped ==
  ASSUME NEW d, NEW ops \in Seq(Ops), NEW e, Leads(d, ops, e)
  PROVE  d \in Docs /\ e \in Docs
PROOF
<1>1. PICK trace : Trace(trace, ops) /\ trace[0] = d /\ trace[Len(ops)] = e
  BY DEF Leads
<1>2. 0 \in 0..Len(ops) /\ Len(ops) \in 0..Len(ops)
  OBVIOUS
<1> QED BY <1>1, <1>2 DEF Trace

(* A write appends its operation to the change set of the transaction.     *)
LEMMA LeadsAppend ==
  ASSUME NEW d \in Docs, NEW ops \in Seq(Ops), NEW e \in Docs, Leads(d, ops, e),
         NEW op \in Ops, e[op.cell] = op.old
  PROVE  Leads(d, Append(ops, op), Stepped(e, op))
PROOF
<1> DEFINE N == Len(ops)
<1> DEFINE more == Append(ops, op)
<1>1. PICK trace : Trace(trace, ops) /\ trace[0] = d /\ trace[N] = e
  BY DEF Leads
<1> DEFINE longer == [n \in 0..(N + 1) |-> IF n = N + 1 THEN Stepped(e, op) ELSE trace[n]]
<1>2. /\ N \in Nat /\ Len(more) = N + 1
      /\ \A n \in 1..N : more[n] = ops[n]
      /\ more[N + 1] = op
  OBVIOUS
<1>3. longer \in [0..(N + 1) -> Docs]
  <2>1. Stepped(e, op) \in Docs
    BY SteppedFacts
  <2>2. \A n \in 0..(N + 1) : n # N + 1 => n \in 0..N
    BY <1>2
  <2> QED BY <1>1, <2>1, <2>2 DEF Trace
<1>4. ASSUME NEW n \in 1..(N + 1)
      PROVE  /\ longer[n - 1][more[n].cell] = more[n].old
             /\ longer[n] = Stepped(longer[n - 1], more[n])
  <2>1. n - 1 \in 0..(N + 1) /\ n \in 0..(N + 1) /\ n - 1 # N + 1
    BY <1>2
  <2>2. longer[n - 1] = trace[n - 1]
    BY <2>1
  <2>3. CASE n = N + 1
    BY <1>1, <1>2, <2>1, <2>2, <2>3
  <2>4. CASE n # N + 1
    <3>1. n \in 1..N
      BY <2>4, <1>2
    <3>2. longer[n] = trace[n] /\ more[n] = ops[n]
      BY <3>1, <2>1, <2>4, <1>2
    <3> QED BY <3>1, <3>2, <2>2, <1>1 DEF Trace
  <2> QED BY <2>3, <2>4
<1>5. longer[0] = d /\ longer[N + 1] = Stepped(e, op)
  BY <1>1, <1>2
<1> HIDE DEF longer
<1>6. Trace(longer, more)
  BY <1>2, <1>3, <1>4 DEF Trace
<1> QED BY <1>2, <1>5, <1>6 DEF Leads

(* The inverse of a change set is a change set that leads back.            *)
LEMMA LeadsBack ==
  ASSUME NEW d, NEW ops \in Seq(Ops), NEW e, Leads(d, ops, e)
  PROVE  Invert(ops) \in Seq(Ops) /\ Leads(e, Invert(ops), d)
PROOF
<1> DEFINE N == Len(ops)
<1> DEFINE inverse == Invert(ops)
<1>1. PICK trace : Trace(trace, ops) /\ trace[0] = d /\ trace[N] = e
  BY DEF Leads
<1>2. N \in Nat /\ DOMAIN ops = 1..N
  OBVIOUS
<1> DEFINE flipped == [k \in DOMAIN ops |-> Update(ops[k].cell, ops[k].new, ops[k].old)]
<1>3. flipped \in [1..N -> Ops]
  <2>1. \A k \in 1..N : ops[k] \in Ops
    BY <1>2
  <2>2. \A k \in 1..N : Update(ops[k].cell, ops[k].new, ops[k].old) \in Ops
    BY <2>1 DEF Update, Ops
  <2> QED BY <1>2, <2>2
<1>4. flipped \in Seq(Ops) /\ Len(flipped) = N
  BY <1>2, <1>3
<1>5. /\ inverse \in [1..N -> Ops]
      /\ \A n \in 1..N : inverse[n] = flipped[N - n + 1]
  <2>1. inverse = [n \in 1..N |-> flipped[N - n + 1]]
    BY <1>4 DEF Invert, Reverse
  <2>2. \A n \in 1..N : N - n + 1 \in 1..N
    BY <1>2
  <2> QED BY <2>1, <2>2, <1>3
<1>6. inverse \in Seq(Ops) /\ Len(inverse) = N
  BY <1>2, <1>5
<1>7. ASSUME NEW n \in 1..N
      PROVE  /\ N - n + 1 \in 1..N
             /\ inverse[n].cell = ops[N - n + 1].cell
             /\ inverse[n].old = ops[N - n + 1].new
             /\ inverse[n].new = ops[N - n + 1].old
  <2>1. N - n + 1 \in 1..N
    BY <1>2
  <2>2. inverse[n] = Update(ops[N - n + 1].cell, ops[N - n + 1].new, ops[N - n + 1].old)
    BY <1>5, <2>1, <1>2
  <2> QED BY <2>1, <2>2 DEF Update
<1> DEFINE back == [n \in 0..N |-> trace[N - n]]
<1>8. back \in [0..N -> Docs] /\ back[0] = e /\ back[N] = d
  <2>1. \A n \in 0..N : N - n \in 0..N
    BY <1>2
  <2> QED BY <1>1, <1>2, <2>1 DEF Trace
<1> HIDE DEF inverse, flipped
<1>9. ASSUME NEW n \in 1..N
      PROVE  /\ back[n - 1][inverse[n].cell] = inverse[n].old
             /\ back[n] = Stepped(back[n - 1], inverse[n])
  <2> DEFINE m == N - n + 1
  <2>1. m \in 1..N /\ m - 1 = N - n /\ n \in 0..N /\ n - 1 \in 0..N /\ N - (n - 1) = m
        /\ m - 1 \in 0..N /\ m \in 0..N
    BY <1>2
  <2>2. back[n] = trace[m - 1] /\ back[n - 1] = trace[m]
    BY <2>1
  <2>3. PICK op \in Ops : op = ops[m]
    BY <2>1, <1>2
  <2>4. PICK before \in Docs : before = trace[m - 1]
    BY <2>1, <1>1 DEF Trace
  <2>5. trace[m] = Stepped(before, op) /\ before[op.cell] = op.old
    BY <2>1, <2>3, <2>4, <1>1 DEF Trace
  <2>6. PICK nop \in Ops : nop = inverse[n]
    BY <1>5
  <2>7. nop.cell = op.cell /\ nop.old = op.new /\ nop.new = op.old
    BY <2>3, <2>6, <1>7
  <2>8. PICK after \in Docs : after = Stepped(before, op)
    BY SteppedFacts
  <2>9. /\ after[nop.cell] = nop.old
        /\ \A c \in Cells : c # op.cell => after[c] = before[c]
    <3>1. /\ Stepped(before, op)[op.cell] = op.new
          /\ \A c \in Cells : c # op.cell => Stepped(before, op)[c] = before[c]
      BY SteppedFacts
    <3> QED BY <3>1, <2>7, <2>8
  <2>10. Stepped(after, nop) = before
    <3>1. /\ Stepped(after, nop) \in Docs
          /\ Stepped(after, nop)[nop.cell] = nop.new
          /\ \A c \in Cells : c # nop.cell => Stepped(after, nop)[c] = after[c]
      BY SteppedFacts
    <3>2. ASSUME NEW c \in Cells PROVE Stepped(after, nop)[c] = before[c]
      <4>1. CASE c = op.cell
        BY <4>1, <2>5, <2>7, <3>1
      <4>2. CASE c # op.cell
        BY <4>2, <2>7, <2>9, <3>1
      <4> QED BY <4>1, <4>2
    <3> QED BY <3>1, <3>2 DEF Docs
  <2> QED BY <2>2, <2>4, <2>5, <2>6, <2>8, <2>9, <2>10
<1> HIDE DEF back
<1>10. Trace(back, inverse)
  BY <1>6, <1>8, <1>9 DEF Trace
<1> QED BY <1>6, <1>8, <1>10 DEF Leads, inverse
(* The recursion of Apply over ops, and of Followed: what iter makes of a  *)
(* set of operations.                                                      *)
AppliesTo(iter, d, ops) ==
  iter = [s \in SUBSET (DOMAIN ops) |->
            IF s = {} THEN d
            ELSE Stepped(iter[s \ {Max(s)}], ops[Max(s)])]

FollowStep(copy, op) ==
  IF copy # Broken /\ copy[op.cell] = op.old
    THEN [copy EXCEPT ![op.cell] = op.new] ELSE Broken

FollowsTo(iter, copy, ops) ==
  iter = [s \in SUBSET (DOMAIN ops) |->
            IF s = {} THEN copy ELSE FollowStep(iter[s \ {Max(s)}], ops[Max(s)])]

(* Both recursions have a solution.                                        *)
LEMMA ApplyRecursion ==
  ASSUME NEW d \in Docs, NEW ops \in Seq(Ops)
  PROVE  \E iter : AppliesTo(iter, d, ops)
PROOF
<1> DEFINE N == Len(ops)
<1> DEFINE F == [p \in Docs \X (1..N) |-> [p[1] EXCEPT ![ops[p[2]].cell] = ops[p[2]].new]]
<1>1. N \in Nat /\ DOMAIN ops = 1..N
  OBVIOUS
<1>2. F \in [Docs \X (1..N) -> Docs]
  <2>1. ASSUME NEW p \in Docs \X (1..N)
        PROVE  [p[1] EXCEPT ![ops[p[2]].cell] = ops[p[2]].new] \in Docs
    <3>1. ops[p[2]] \in Ops /\ p[1] \in Docs
      BY <1>1
    <3> QED BY <3>1 DEF Ops, Docs
  <2> QED BY <2>1
<1>3. ASSUME NEW e \in Docs, NEW n \in 1..N
      PROVE  F[<<e, n>>] = Stepped(e, ops[n])
  BY DEF Stepped
<1> HIDE DEF F
<1>4. PICK iter \in [SUBSET (1..N) -> Docs] : Recurs(iter, N, d, F)
  BY <1>1, <1>2, FoldExists
<1>5. ASSUME NEW s \in SUBSET (1..N)
      PROVE  iter[s] = IF s = {} THEN d ELSE Stepped(iter[s \ {Max(s)}], ops[Max(s)])
  <2>1. CASE s = {}
    BY <2>1, <1>4 DEF Recurs
  <2>2. CASE s # {}
    <3>1. Max(s) \in 1..N
      BY <1>1, <2>2, MaxInside
    <3>2. iter[s \ {Max(s)}] \in Docs
      BY <1>4
    <3>3. iter[s] = F[<<iter[s \ {Max(s)}], Max(s)>>]
      BY <1>4, <2>2 DEF Recurs
    <3> QED BY <2>2, <3>1, <3>2, <3>3, <1>3
  <2> QED BY <2>1, <2>2
<1>6. AppliesTo(iter, d, ops)
  BY <1>1, <1>4, <1>5 DEF AppliesTo
<1> QED BY <1>6

LEMMA FollowedRecursion ==
  ASSUME NEW d \in Docs, NEW ops \in Seq(Ops)
  PROVE  \E iter : FollowsTo(iter, d, ops)
PROOF
<1> DEFINE N == Len(ops)
<1> DEFINE Copies == Docs \cup {Broken}
<1> DEFINE F == [p \in Copies \X (1..N) |-> FollowStep(p[1], ops[p[2]])]
<1>1. N \in Nat /\ DOMAIN ops = 1..N
  OBVIOUS
<1>2. F \in [Copies \X (1..N) -> Copies]
  <2>1. ASSUME NEW p \in Copies \X (1..N) PROVE FollowStep(p[1], ops[p[2]]) \in Copies
    <3>1. ops[p[2]] \in Ops /\ p[1] \in Copies
      BY <1>1
    <3>2. CASE p[1] = Broken
      BY <3>2 DEF FollowStep
    <3>3. CASE p[1] # Broken
      <4>1. p[1] \in Docs
        BY <3>1, <3>3
      <4>2. [p[1] EXCEPT ![ops[p[2]].cell] = ops[p[2]].new] \in Docs
        BY <3>1, <4>1 DEF Ops, Docs
      <4> QED BY <4>2 DEF FollowStep
    <3> QED BY <3>2, <3>3
  <2> QED BY <2>1
<1>3. ASSUME NEW e \in Copies, NEW n \in 1..N PROVE F[<<e, n>>] = FollowStep(e, ops[n])
  OBVIOUS
<1> HIDE DEF F
<1>4. d \in Copies
  OBVIOUS
<1> HIDE DEF Copies
<1>5. PICK iter \in [SUBSET (1..N) -> Copies] : Recurs(iter, N, d, F)
  BY <1>1, <1>2, <1>4, FoldExists
<1>6. ASSUME NEW s \in SUBSET (1..N)
      PROVE  iter[s] = IF s = {} THEN d ELSE FollowStep(iter[s \ {Max(s)}], ops[Max(s)])
  <2>1. CASE s = {}
    BY <2>1, <1>5 DEF Recurs
  <2>2. CASE s # {}
    <3>1. Max(s) \in 1..N
      BY <1>1, <2>2, MaxInside
    <3>2. iter[s \ {Max(s)}] \in Copies
      BY <1>5
    <3>3. iter[s] = F[<<iter[s \ {Max(s)}], Max(s)>>]
      BY <1>5, <2>2 DEF Recurs
    <3> QED BY <2>2, <3>1, <3>2, <3>3, <1>3
  <2> QED BY <2>1, <2>2
<1>7. FollowsTo(iter, d, ops)
  BY <1>1, <1>5, <1>6 DEF FollowsTo
<1> QED BY <1>7

(* Applying a change set ends where it leads.                              *)
LEMMA ApplyLeads ==
  ASSUME NEW d, NEW ops \in Seq(Ops), NEW e, Leads(d, ops, e)
  PROVE  Apply(d, ops) = e
PROOF
<1> DEFINE N == Len(ops)
<1> DEFINE I == CHOOSE iter :
      iter = [s \in SUBSET (DOMAIN ops) |->
                IF s = {} THEN d
                ELSE [iter[s \ {Max(s)}] EXCEPT ![ops[Max(s)].cell] = ops[Max(s)].new]]
<1>1. PICK trace : Trace(trace, ops) /\ trace[0] = d /\ trace[N] = e
  BY DEF Leads
<1>2. N \in Nat /\ DOMAIN ops = 1..N /\ d \in Docs
  BY LeadsTyped
<1>3. Apply(d, ops) = I[DOMAIN ops]
  BY ZenonT(30) DEF Apply, FoldLeft, MapThenFoldSet
<1>4. AppliesTo(I, d, ops)
  BY <1>2, ApplyRecursion DEF AppliesTo, Stepped
<1> HIDE DEF I
<1>5. I[1..0] = d
  <2>1. 1..0 = {} /\ {} \in SUBSET (DOMAIN ops)
    OBVIOUS
  <2> QED BY <1>4, <2>1 DEF AppliesTo
<1>6. ASSUME NEW n \in 1..N PROVE I[1..n] = Stepped(I[1..(n - 1)], ops[n])
  <2>1. 1..n \in SUBSET (DOMAIN ops)
    BY <1>2
  <2>2. Max(1..n) = n /\ (1..n) \ {n} = 1..(n - 1) /\ 1..n # {}
    <3>1. n \in Nat \ {0}
      BY <1>2
    <3> QED BY <3>1, LastPosition
  <2> QED BY <1>4, <2>1, <2>2 DEF AppliesTo
<1> DEFINE T == {n \in 0..N : I[1..n] = trace[n]}
<1>7. 0 \in T
  BY <1>1, <1>2, <1>5
<1>8. ASSUME NEW n \in 0..(N - 1), n \in T PROVE n + 1 \in T
  <2>1. n + 1 \in 1..N /\ (n + 1) - 1 = n /\ n + 1 \in 0..N
    BY <1>2
  <2>2. I[1..(n + 1)] = Stepped(trace[n], ops[n + 1])
    BY <2>1, <1>6, <1>8
  <2>3. trace[n + 1] = Stepped(trace[n], ops[n + 1])
    BY <2>1, <1>1 DEF Trace
  <2> QED BY <2>1, <2>2, <2>3
<1> HIDE DEF T
<1>9. N \in T
  <2>1. 0..N \subseteq T
    BY SMTT(30), <1>2, <1>7, <1>8, Induction
  <2> QED BY <2>1, <1>2
<1> QED BY <1>1, <1>2, <1>3, <1>9 DEF T

(* A copy that a change set leads from ends where the change set leads; it *)
(* is not broken on the way.                                               *)
LEMMA FollowedLeads ==
  ASSUME NEW d, NEW ops \in Seq(Ops), NEW e, Leads(d, ops, e)
  PROVE  Followed(d, ops) = e
PROOF
<1> DEFINE N == Len(ops)
<1> DEFINE I == CHOOSE iter :
      iter = [s \in SUBSET (DOMAIN ops) |->
                IF s = {} THEN d
                ELSE IF iter[s \ {Max(s)}] # Broken
                        /\ iter[s \ {Max(s)}][ops[Max(s)].cell] = ops[Max(s)].old
                       THEN [iter[s \ {Max(s)}] EXCEPT ![ops[Max(s)].cell] = ops[Max(s)].new]
                       ELSE Broken]
<1>1. PICK trace : Trace(trace, ops) /\ trace[0] = d /\ trace[N] = e
  BY DEF Leads
<1>2. N \in Nat /\ DOMAIN ops = 1..N /\ d \in Docs
  BY LeadsTyped
<1>3. Followed(d, ops) = I[DOMAIN ops]
  BY ZenonT(30) DEF Followed, FoldLeft, MapThenFoldSet
<1>4. FollowsTo(I, d, ops)
  BY <1>2, FollowedRecursion DEF FollowsTo, FollowStep
<1> HIDE DEF I
<1>5. I[1..0] = d
  <2>1. 1..0 = {} /\ {} \in SUBSET (DOMAIN ops)
    OBVIOUS
  <2> QED BY <1>4, <2>1 DEF FollowsTo
<1>6. ASSUME NEW n \in 1..N PROVE I[1..n] = FollowStep(I[1..(n - 1)], ops[n])
  <2>1. 1..n \in SUBSET (DOMAIN ops)
    BY <1>2
  <2>2. Max(1..n) = n /\ (1..n) \ {n} = 1..(n - 1) /\ 1..n # {}
    <3>1. n \in Nat \ {0}
      BY <1>2
    <3> QED BY <3>1, LastPosition
  <2> QED BY <1>4, <2>1, <2>2 DEF FollowsTo
<1> DEFINE T == {n \in 0..N : I[1..n] = trace[n]}
<1>7. 0 \in T
  BY <1>1, <1>2, <1>5
<1>8. ASSUME NEW n \in 0..(N - 1), n \in T PROVE n + 1 \in T
  <2>1. n + 1 \in 1..N /\ (n + 1) - 1 = n /\ n + 1 \in 0..N /\ n \in 0..N
    BY <1>2
  <2>2. I[1..(n + 1)] = FollowStep(trace[n], ops[n + 1])
    BY <2>1, <1>6, <1>8
  <2>3. /\ trace[n + 1] = Stepped(trace[n], ops[n + 1])
        /\ trace[n][ops[n + 1].cell] = ops[n + 1].old
        /\ trace[n] \in Docs
    BY <2>1, <1>1 DEF Trace
  <2>4. trace[n] # Broken
    <3> DEFINE op == ops[n + 1]
    <3>0. op \in Ops
      BY <2>1, <1>2
    <3>1. op.cell \in Cells
      BY <3>0 DEF Ops
    <3>2. DOMAIN trace[n] # {}
      BY <2>3, <3>1 DEF Docs
    <3> QED BY <3>2 DEF Broken
  <2> QED BY <2>1, <2>2, <2>3, <2>4 DEF FollowStep, Stepped
<1> HIDE DEF T
<1>9. N \in T
  <2>1. 0..N \subseteq T
    BY <1>2, <1>7, <1>8, Induction
  <2> QED BY <2>1, <1>2
<1> QED BY <1>1, <1>2, <1>3, <1>9 DEF T
(* The operations merged already that change the cell of op, and what      *)
(* ChangeSet::merge makes of the merged ones when it comes to op.          *)
SameCell(merged, op) == {k \in DOMAIN merged : merged[k].cell = op.cell}

Joined(merged, op) ==
  IF SameCell(merged, op) = {} THEN Append(merged, op)
  ELSE [k \in DOMAIN merged |->
          IF k \in SameCell(merged, op) THEN [merged[k] EXCEPT !.new = op.new]
          ELSE merged[k]]

MergesTo(iter, ops) ==
  iter = [s \in SUBSET (DOMAIN ops) |->
            IF s = {} THEN <<>> ELSE Joined(iter[s \ {Max(s)}], ops[Max(s)])]

(* Operations joined are operations: op joins the one of its cell, or goes *)
(* to the end.                                                             *)
LEMMA JoinedFacts ==
  ASSUME NEW m \in Seq(Ops), NEW op \in Ops
  PROVE  /\ Joined(m, op) \in Seq(Ops)
         /\ SameCell(m, op) = {} => Joined(m, op) = Append(m, op)
         /\ SameCell(m, op) # {} =>
              /\ Len(Joined(m, op)) = Len(m)
              /\ \A k \in 1..Len(m) :
                   /\ Joined(m, op)[k].cell = m[k].cell
                   /\ Joined(m, op)[k].old = m[k].old
                   /\ Joined(m, op)[k].new = IF m[k].cell = op.cell THEN op.new ELSE m[k].new
PROOF
<1>1. CASE SameCell(m, op) = {}
  BY <1>1 DEF Joined
<1>2. CASE SameCell(m, op) # {}
  <2> DEFINE J == [k \in DOMAIN m |->
                     IF k \in SameCell(m, op) THEN [m[k] EXCEPT !.new = op.new] ELSE m[k]]
  <2>1. Joined(m, op) = J /\ DOMAIN m = 1..Len(m) /\ Len(m) \in Nat
    BY <1>2 DEF Joined
  <2>2. ASSUME NEW k \in 1..Len(m)
        PROVE  /\ J[k] \in Ops
               /\ J[k].cell = m[k].cell /\ J[k].old = m[k].old
               /\ J[k].new = IF m[k].cell = op.cell THEN op.new ELSE m[k].new
    <3>1. PICK x \in Ops : x = m[k]
      BY <2>1
    <3>2. x = [cell |-> x.cell, old |-> x.old, new |-> x.new]
          /\ x.cell \in Cells /\ x.old \in Values /\ x.new \in Values /\ op.new \in Values
      BY DEF Ops
    <3>3. [x EXCEPT !.new = op.new] = [cell |-> x.cell, old |-> x.old, new |-> op.new]
      BY <3>2
    <3>4. J[k] = IF x.cell = op.cell THEN [cell |-> x.cell, old |-> x.old, new |-> op.new]
                 ELSE x
      BY <2>1, <3>1, <3>3 DEF SameCell
    <3>5. [cell |-> x.cell, old |-> x.old, new |-> op.new] \in Ops
      BY <3>2 DEF Ops
    <3> QED BY <3>1, <3>2, <3>4, <3>5
  <2>3. J \in [1..Len(m) -> Ops]
    BY <2>1, <2>2
  <2> HIDE DEF J
  <2>4. J \in Seq(Ops) /\ Len(J) = Len(m)
    BY <2>1, <2>3
  <2> QED BY <1>2, <2>1, <2>2, <2>4
<1> QED BY <1>1, <1>2

LEMMA MergeRecursion ==
  ASSUME NEW ops \in Seq(Ops)
  PROVE  \E iter : MergesTo(iter, ops)
PROOF
<1> DEFINE N == Len(ops)
<1> DEFINE A == Seq(Ops)
<1> DEFINE F == [p \in A \X (1..N) |-> Joined(p[1], ops[p[2]])]
<1>1. N \in Nat /\ DOMAIN ops = 1..N /\ << >> \in A
  OBVIOUS
<1>2. F \in [A \X (1..N) -> A]
  <2>1. ASSUME NEW p \in A \X (1..N) PROVE Joined(p[1], ops[p[2]]) \in A
    <3>1. ops[p[2]] \in Ops /\ p[1] \in A
      BY <1>1
    <3> QED BY <3>1, JoinedFacts
  <2> QED BY <2>1
<1>3. ASSUME NEW e \in A, NEW n \in 1..N PROVE F[<<e, n>>] = Joined(e, ops[n])
  OBVIOUS
<1> HIDE DEF F, A
<1>4. PICK iter \in [SUBSET (1..N) -> A] : Recurs(iter, N, << >>, F)
  BY <1>1, <1>2, FoldExists
<1>5. ASSUME NEW s \in SUBSET (1..N)
      PROVE  iter[s] = IF s = {} THEN << >> ELSE Joined(iter[s \ {Max(s)}], ops[Max(s)])
  <2>1. CASE s = {}
    BY <2>1, <1>4 DEF Recurs
  <2>2. CASE s # {}
    <3>1. Max(s) \in 1..N
      BY <1>1, <2>2, MaxInside
    <3>2. iter[s \ {Max(s)}] \in A
      BY <1>4
    <3>3. iter[s] = F[<<iter[s \ {Max(s)}], Max(s)>>]
      BY <1>4, <2>2 DEF Recurs
    <3> QED BY <2>2, <3>1, <3>2, <3>3, <1>3
  <2> QED BY <2>1, <2>2
<1>6. MergesTo(iter, ops)
  BY <1>1, <1>4, <1>5 DEF MergesTo
<1> QED BY <1>6

(* m is the difference of d and e: one operation for each cell that ops    *)
(* have written, from its value in d to its value in e.                    *)
Difference(d, m, e) ==
  /\ \A j, k \in 1..Len(m) : m[j].cell = m[k].cell => j = k
  /\ \A k \in 1..Len(m) : m[k].old = d[m[k].cell] /\ m[k].new = e[m[k].cell]
  /\ \A c \in Cells : (\A k \in 1..Len(m) : m[k].cell # c) => e[c] = d[c]

(* A difference leads from the one document to the other.                  *)
LEMMA DifferenceLeads ==
  ASSUME NEW d \in Docs, NEW m \in Seq(Ops), NEW e \in Docs, Difference(d, m, e)
  PROVE  Leads(d, m, e)
PROOF
<1> DEFINE N == Len(m)
<1> DEFINE Reached(c, n) == \E k \in 1..n : m[k].cell = c
<1> DEFINE trace == [n \in 0..N |-> [c \in Cells |-> IF Reached(c, n) THEN e[c] ELSE d[c]]]
<1>1. N \in Nat /\ DOMAIN m = 1..N
  OBVIOUS
<1>2. ASSUME NEW n \in 0..N
      PROVE  /\ trace[n] \in Docs
             /\ \A c \in Cells : trace[n][c] = IF Reached(c, n) THEN e[c] ELSE d[c]
  <2>1. trace[n] = [c \in Cells |-> IF Reached(c, n) THEN e[c] ELSE d[c]]
    OBVIOUS
  <2>2. \A c \in Cells : e[c] \in Values /\ d[c] \in Values
    BY DEF Docs
  <2>3. \A c \in Cells : (IF Reached(c, n) THEN e[c] ELSE d[c]) \in Values
    BY <2>2
  <2> QED BY <2>1, <2>3 DEF Docs
<1>3. trace \in [0..N -> Docs]
  BY <1>2
<1> HIDE DEF trace
<1>4. ASSUME NEW n \in 1..N
      PROVE  /\ trace[n - 1][m[n].cell] = m[n].old
             /\ trace[n] = Stepped(trace[n - 1], m[n])
  <2>1. PICK op \in Ops : op = m[n]
    BY <1>1
  <2>2. n - 1 \in 0..N /\ n \in 0..N /\ op.cell \in Cells
    <3>1. op.cell \in Cells
      BY DEF Ops
    <3> QED BY <1>1, <3>1
  <2>3. PICK before \in Docs : before = trace[n - 1]
    BY <2>2, <1>2
  <2>4. ~Reached(op.cell, n - 1)
    <3> SUFFICES ASSUME NEW k \in 1..(n - 1), m[k].cell = op.cell PROVE FALSE
      OBVIOUS
    <3>1. k \in 1..N /\ k # n
      BY <1>1
    <3> QED BY <2>1, <3>1 DEF Difference
  <2>5. Reached(op.cell, n)
    BY <2>1
  <2>6. op.old = d[op.cell] /\ op.new = e[op.cell]
    BY <2>1 DEF Difference
  <2>7. before[op.cell] = op.old
    BY <2>2, <2>3, <2>4, <2>6, <1>2
  <2>8. /\ Stepped(before, op) \in Docs
        /\ Stepped(before, op)[op.cell] = op.new
        /\ \A c \in Cells : c # op.cell => Stepped(before, op)[c] = before[c]
    BY SteppedFacts
  <2>9. ASSUME NEW c \in Cells PROVE trace[n][c] = Stepped(before, op)[c]
    <3>1. CASE c = op.cell
      BY <3>1, <2>2, <2>5, <2>6, <2>8, <1>2
    <3>2. CASE c # op.cell
      <4>1. Reached(c, n) <=> Reached(c, n - 1)
        <5>1. \A k \in 1..n : k = n \/ k \in 1..(n - 1)
          BY <1>1
        <5>2. \A k \in 1..(n - 1) : k \in 1..n
          BY <1>1
        <5> QED BY <5>1, <5>2, <2>1, <3>2
      <4>2. Stepped(before, op)[c] = before[c]
        BY <3>2, <2>8
      <4>3. before[c] = IF Reached(c, n - 1) THEN e[c] ELSE d[c]
        BY <2>2, <2>3, <1>2
      <4>4. trace[n][c] = IF Reached(c, n) THEN e[c] ELSE d[c]
        BY <2>2, <1>2
      <4> QED BY <4>1, <4>2, <4>3, <4>4
    <3> QED BY <3>1, <3>2
  <2>10. trace[n] = Stepped(before, op)
    <3>1. trace[n] \in Docs
      BY <2>2, <1>2
    <3> QED BY <2>8, <2>9, <3>1 DEF Docs
  <2> QED BY <2>1, <2>3, <2>7, <2>10
<1>5. trace[0] = d
  <2>1. 0 \in 0..N /\ \A c \in Cells : ~Reached(c, 0)
    BY <1>1
  <2>2. trace[0] \in Docs /\ \A c \in Cells : trace[0][c] = d[c]
    BY <2>1, <1>2
  <2> QED BY <2>2 DEF Docs
<1>6. trace[N] = e
  <2>1. N \in 0..N
    BY <1>1
  <2>2. ASSUME NEW c \in Cells PROVE trace[N][c] = e[c]
    <3>1. trace[N][c] = IF Reached(c, N) THEN e[c] ELSE d[c]
      BY <2>1, <1>2
    <3>2. ~Reached(c, N) => e[c] = d[c]
      BY DEF Difference
    <3> QED BY <3>1, <3>2
  <2>3. trace[N] \in Docs
    BY <2>1, <1>2
  <2> QED BY <2>2, <2>3 DEF Docs
<1>7. Trace(trace, m)
  BY <1>3, <1>4 DEF Trace
<1> QED BY <1>5, <1>6, <1>7 DEF Leads

(* Joining the next operation keeps the difference from d.                 *)
LEMMA JoinedDifference ==
  ASSUME NEW d \in Docs, NEW m \in Seq(Ops), NEW e \in Docs, Difference(d, m, e),
         NEW op \in Ops, e[op.cell] = op.old
  PROVE  Difference(d, Joined(m, op), Stepped(e, op))
PROOF
<1> DEFINE J == Joined(m, op)
<1> DEFINE f == Stepped(e, op)
<1> DEFINE N == Len(m)
<1>1. /\ op.cell \in Cells /\ f \in Docs /\ f[op.cell] = op.new
      /\ \A c \in Cells : c # op.cell => f[c] = e[c]
  BY SteppedFacts
<1>2. N \in Nat /\ DOMAIN m = 1..N /\ \A k \in 1..N : m[k] \in Ops
  OBVIOUS
<1>3. \A k \in 1..N : m[k].cell \in Cells
  BY <1>2 DEF Ops
<1>4. CASE SameCell(m, op) = {}
  <2>1. J = Append(m, op)
    BY <1>4, JoinedFacts
  <2>2. /\ Len(J) = N + 1 /\ J[N + 1] = op
        /\ \A k \in 1..N : J[k] = m[k]
        /\ \A k \in 1..(N + 1) : k = N + 1 \/ k \in 1..N
    BY <2>1, <1>2
  <2>3. \A k \in 1..N : m[k].cell # op.cell
    BY <1>2, <1>4 DEF SameCell
  <2> HIDE DEF J, f
  <2>4. op.old = d[op.cell]
    BY <1>1, <2>3 DEF Difference
  <2>5. ASSUME NEW j \in 1..Len(J), NEW k \in 1..Len(J), J[j].cell = J[k].cell PROVE j = k
    BY <2>2, <2>3, <2>5 DEF Difference
  <2>6. ASSUME NEW k \in 1..Len(J)
        PROVE  J[k].old = d[J[k].cell] /\ J[k].new = f[J[k].cell]
    <3>1. CASE k = N + 1
      BY <3>1, <2>2, <2>4, <1>1
    <3>2. CASE k # N + 1
      <4>1. k \in 1..N /\ J[k] = m[k]
        BY <3>2, <2>2
      <4>2. f[m[k].cell] = e[m[k].cell]
        BY <4>1, <2>3, <1>1, <1>3
      <4> QED BY <4>1, <4>2 DEF Difference
    <3> QED BY <3>1, <3>2
  <2>7. ASSUME NEW c \in Cells, \A k \in 1..Len(J) : J[k].cell # c PROVE f[c] = d[c]
    <3>1. N + 1 \in 1..(N + 1) /\ \A k \in 1..N : k \in 1..(N + 1)
      BY <1>2
    <3>2. c # op.cell /\ \A k \in 1..N : m[k].cell # c
      BY <2>2, <2>7, <3>1
    <3> QED BY <3>2, <1>1 DEF Difference
  <2> QED BY <2>5, <2>6, <2>7 DEF Difference, J, f
<1>5. CASE SameCell(m, op) # {}
  <2> HIDE DEF J, N, f
  <2>1. /\ Len(J) = N
        /\ \A k \in 1..N :
             /\ J[k].cell = m[k].cell /\ J[k].old = m[k].old
             /\ J[k].new = IF m[k].cell = op.cell THEN op.new ELSE m[k].new
    <3>1. Len(Joined(m, op)) = Len(m)
      BY <1>5, JoinedFacts
    <3>2. \A k \in 1..Len(m) :
            /\ Joined(m, op)[k].cell = m[k].cell
            /\ Joined(m, op)[k].old = m[k].old
            /\ Joined(m, op)[k].new = IF m[k].cell = op.cell THEN op.new ELSE m[k].new
      BY <1>5, JoinedFacts
    <3> QED BY <3>1, <3>2 DEF J, N
  <2>2. PICK i \in 1..N : m[i].cell = op.cell
    BY <1>2, <1>5 DEF SameCell, N
  <2>3. ASSUME NEW j \in 1..Len(J), NEW k \in 1..Len(J), J[j].cell = J[k].cell PROVE j = k
    BY <1>2, <2>1, <2>3 DEF Difference, N
  <2>4. ASSUME NEW k \in 1..Len(J)
        PROVE  J[k].old = d[J[k].cell] /\ J[k].new = f[J[k].cell]
    <3>1. k \in 1..N
      BY <2>1
    <3>2. m[k].cell # op.cell => f[m[k].cell] = e[m[k].cell]
      BY <3>1, <1>1, <1>3
    <3> QED BY <3>1, <3>2, <2>1, <1>1 DEF Difference, N
  <2>5. ASSUME NEW c \in Cells, \A k \in 1..Len(J) : J[k].cell # c PROVE f[c] = d[c]
    <3>1. \A k \in 1..N : m[k].cell # c
      BY <2>1, <2>5
    <3>2. c # op.cell
      BY <2>2, <3>1
    <3> QED BY <3>1, <3>2, <1>1 DEF Difference, N
  <2>6. Difference(d, J, f)
    BY <2>3, <2>4, <2>5 DEF Difference
  <2> QED BY <2>6 DEF J, f
<1> QED BY <1>4, <1>5

(* ChangeSet::merge: a merged change set is a change set, and leads where  *)
(* the change set leads.                                                   *)
THEOREM MergedLeads ==
  ASSUME NEW d, NEW ops \in Seq(Ops), NEW e, Leads(d, ops, e)
  PROVE  Merge(ops) \in Seq(Ops) /\ Leads(d, Merge(ops), e)
PROOF
<1> DEFINE N == Len(ops)
<1> DEFINE I == CHOOSE iter :
      iter = [s \in SUBSET (DOMAIN ops) |->
                IF s = {} THEN <<>>
                ELSE IF {k \in DOMAIN iter[s \ {Max(s)}] :
                           iter[s \ {Max(s)}][k].cell = ops[Max(s)].cell} = {}
                       THEN Append(iter[s \ {Max(s)}], ops[Max(s)])
                       ELSE [k \in DOMAIN iter[s \ {Max(s)}] |->
                               IF k \in {k_1 \in DOMAIN iter[s \ {Max(s)}] :
                                           iter[s \ {Max(s)}][k_1].cell = ops[Max(s)].cell}
                                 THEN [iter[s \ {Max(s)}][k] EXCEPT !.new = ops[Max(s)].new]
                                 ELSE iter[s \ {Max(s)}][k]]]
<1>1. PICK trace : Trace(trace, ops) /\ trace[0] = d /\ trace[N] = e
  BY DEF Leads
<1>2. N \in Nat /\ DOMAIN ops = 1..N /\ d \in Docs /\ e \in Docs
  BY LeadsTyped
<1>3. Merge(ops) = I[DOMAIN ops]
  BY ZenonT(30) DEF Merge, FoldLeft, MapThenFoldSet
<1>4. MergesTo(I, ops)
  BY <1>2, MergeRecursion DEF MergesTo, Joined, SameCell
<1> HIDE DEF I
<1>5. I[1..0] = << >>
  <2>1. 1..0 = {} /\ {} \in SUBSET (DOMAIN ops)
    OBVIOUS
  <2> QED BY <1>4, <2>1 DEF MergesTo
<1>6. ASSUME NEW n \in 1..N PROVE I[1..n] = Joined(I[1..(n - 1)], ops[n])
  <2>1. 1..n \in SUBSET (DOMAIN ops)
    BY <1>2
  <2>2. Max(1..n) = n /\ (1..n) \ {n} = 1..(n - 1) /\ 1..n # {}
    <3>1. n \in Nat \ {0}
      BY <1>2
    <3> QED BY <3>1, LastPosition
  <2> QED BY <1>4, <2>1, <2>2 DEF MergesTo
<1> DEFINE T == {n \in 0..N : I[1..n] \in Seq(Ops) /\ Difference(d, I[1..n], trace[n])}
<1>7. 0 \in T
  <2>1. Len(<< >>) = 0 /\ << >> \in Seq(Ops) /\ 1..0 = {}
    OBVIOUS
  <2>2. Difference(d, << >>, d)
    BY <2>1 DEF Difference
  <2>3. I[1..0] \in Seq(Ops) /\ Difference(d, I[1..0], trace[0])
    BY <1>1, <1>5, <2>1, <2>2
  <2> QED BY <1>2, <2>3
<1>8. ASSUME NEW n \in 0..(N - 1), n \in T PROVE n + 1 \in T
  <2>1. n + 1 \in 1..N /\ (n + 1) - 1 = n /\ n + 1 \in 0..N /\ n \in 0..N
    BY <1>2
  <2>2. PICK op \in Ops : op = ops[n + 1]
    BY <2>1, <1>2
  <2>3. PICK m \in Seq(Ops) : m = I[1..n]
    BY <1>8
  <2>4. PICK here \in Docs : here = trace[n]
    BY <2>1, <1>1 DEF Trace
  <2>5. Difference(d, m, here)
    BY <2>3, <2>4, <1>8
  <2>6. trace[n + 1] = Stepped(here, op) /\ here[op.cell] = op.old
    BY <2>1, <2>2, <2>4, <1>1 DEF Trace
  <2>7. I[1..(n + 1)] = Joined(m, op)
    BY <2>1, <2>2, <2>3, <1>6
  <2>8. Joined(m, op) \in Seq(Ops)
    BY JoinedFacts
  <2>9. Difference(d, Joined(m, op), Stepped(here, op))
    BY <1>2, <2>5, <2>6, JoinedDifference
  <2> QED BY <2>1, <2>6, <2>7, <2>8, <2>9
<1> HIDE DEF T
<1>9. N \in T
  <2>1. 0..N \subseteq T
    BY <1>2, <1>7, <1>8, Induction
  <2> QED BY <2>1, <1>2
<1>10. Merge(ops) \in Seq(Ops) /\ Difference(d, Merge(ops), e)
  BY <1>1, <1>2, <1>3, <1>9 DEF T
<1> QED BY <1>2, <1>10, DifferenceLeads
-----------------------------------------------------------------------------
(* The stacks                                                              *)

(* A change set that leads on from the present goes on the undo stack, and *)
(* the top of the undo stack leads back.                                   *)
LEMMA UndoPush ==
  ASSUME NEW stack \in Seq(Seq(Ops)), NEW d \in Docs, UndoChain(stack, d),
         NEW ops \in Seq(Ops), NEW e \in Docs, Leads(d, ops, e)
  PROVE  UndoChain(Append(stack, ops), e)
PROOF
<1> DEFINE N == Len(stack)
<1> DEFINE more == Append(stack, ops)
<1>1. PICK docs \in [0..N -> Docs] :
        /\ docs[N] = d
        /\ \A n \in 1..N : Leads(docs[n - 1], stack[n], docs[n])
  BY DEF UndoChain
<1> DEFINE longer == [n \in 0..(N + 1) |-> IF n = N + 1 THEN e ELSE docs[n]]
<1>2. /\ N \in Nat /\ Len(more) = N + 1 /\ more[N + 1] = ops
      /\ \A n \in 1..N : more[n] = stack[n]
  OBVIOUS
<1>3. longer \in [0..(N + 1) -> Docs] /\ longer[N + 1] = e
  <2>1. \A n \in 0..(N + 1) : n # N + 1 => n \in 0..N
    BY <1>2
  <2> QED BY <1>2, <2>1
<1>4. ASSUME NEW n \in 1..(N + 1) PROVE Leads(longer[n - 1], more[n], longer[n])
  <2>1. n - 1 \in 0..(N + 1) /\ n \in 0..(N + 1) /\ n - 1 # N + 1
    BY <1>2
  <2>2. longer[n - 1] = docs[n - 1]
    BY <2>1
  <2>3. CASE n = N + 1
    BY <1>1, <1>2, <1>3, <2>2, <2>3
  <2>4. CASE n # N + 1
    <3>1. n \in 1..N /\ longer[n] = docs[n] /\ more[n] = stack[n]
      BY <1>2, <2>1, <2>4
    <3> QED BY <1>1, <2>2, <3>1
  <2> QED BY <2>3, <2>4
<1> HIDE DEF longer, more
<1>5. Len(more) = N + 1
  BY <1>2
<1> QED BY <1>3, <1>4, <1>5 DEF UndoChain, more

(* Without its top, the undo stack goes on from the document the top leads *)
(* from.                                                                   *)
LEMMA UndoPop ==
  ASSUME NEW stack \in Seq(Seq(Ops)), stack # << >>, NEW d \in Docs, UndoChain(stack, d)
  PROVE  /\ Last(stack) \in Seq(Ops) /\ Front(stack) \in Seq(Seq(Ops))
         /\ \E c \in Docs : UndoChain(Front(stack), c) /\ Leads(c, Last(stack), d)
PROOF
<1> DEFINE N == Len(stack)
<1> DEFINE rest == Front(stack)
<1>1. PICK docs \in [0..N -> Docs] :
        /\ docs[N] = d
        /\ \A n \in 1..N : Leads(docs[n - 1], stack[n], docs[n])
  BY DEF UndoChain
<1>2. /\ N \in Nat /\ N # 0 /\ N - 1 \in Nat /\ N \in 1..N /\ N - 1 \in 0..N
      /\ \A n \in 1..N : stack[n] \in Seq(Ops)
  OBVIOUS
<1>3. rest \in Seq(Seq(Ops)) /\ Len(rest) = N - 1 /\ \A n \in 1..(N - 1) : rest[n] = stack[n]
  BY FrontFacts
<1>4. Last(stack) = stack[N] /\ Last(stack) \in Seq(Ops)
  BY <1>2 DEF Last
<1> HIDE DEF rest
<1> DEFINE shorter == [n \in 0..(N - 1) |-> docs[n]]
<1>5. shorter \in [0..(N - 1) -> Docs] /\ shorter[N - 1] = docs[N - 1]
  <2>1. \A n \in 0..(N - 1) : n \in 0..N
    BY <1>2
  <2>2. N - 1 \in 0..(N - 1)
    BY <1>2
  <2> QED BY <2>1, <2>2
<1>6. ASSUME NEW n \in 1..(N - 1) PROVE Leads(shorter[n - 1], rest[n], shorter[n])
  <2>1. n \in 1..N /\ n \in 0..(N - 1) /\ n - 1 \in 0..(N - 1)
    BY <1>2
  <2>2. shorter[n] = docs[n] /\ shorter[n - 1] = docs[n - 1] /\ rest[n] = stack[n]
    BY <2>1, <1>3
  <2> QED BY <1>1, <2>1, <2>2
<1> HIDE DEF shorter
<1>7. UndoChain(rest, docs[N - 1])
  BY <1>3, <1>5, <1>6 DEF UndoChain
<1>8. Leads(docs[N - 1], stack[N], d) /\ docs[N - 1] \in Docs
  BY <1>1, <1>2
<1> QED BY <1>3, <1>4, <1>7, <1>8 DEF rest

(* A change set that leads to the present goes on the redo stack of the    *)
(* document it leads from.                                                 *)
LEMMA RedoPush ==
  ASSUME NEW stack \in Seq(Seq(Ops)), NEW d \in Docs, RedoChain(stack, d),
         NEW ops \in Seq(Ops), NEW e \in Docs, Leads(e, ops, d)
  PROVE  RedoChain(Append(stack, ops), e)
PROOF
<1> DEFINE N == Len(stack)
<1> DEFINE more == Append(stack, ops)
<1>1. PICK docs \in [0..N -> Docs] :
        /\ docs[N] = d
        /\ \A n \in 1..N : Leads(docs[n], stack[n], docs[n - 1])
  BY DEF RedoChain
<1> DEFINE longer == [n \in 0..(N + 1) |-> IF n = N + 1 THEN e ELSE docs[n]]
<1>2. /\ N \in Nat /\ Len(more) = N + 1 /\ more[N + 1] = ops
      /\ \A n \in 1..N : more[n] = stack[n]
  OBVIOUS
<1>3. longer \in [0..(N + 1) -> Docs] /\ longer[N + 1] = e
  <2>1. \A n \in 0..(N + 1) : n # N + 1 => n \in 0..N
    BY <1>2
  <2> QED BY <1>2, <2>1
<1>4. ASSUME NEW n \in 1..(N + 1) PROVE Leads(longer[n], more[n], longer[n - 1])
  <2>1. n - 1 \in 0..(N + 1) /\ n \in 0..(N + 1) /\ n - 1 # N + 1
    BY <1>2
  <2>2. longer[n - 1] = docs[n - 1]
    BY <2>1
  <2>3. CASE n = N + 1
    BY <1>1, <1>2, <1>3, <2>2, <2>3
  <2>4. CASE n # N + 1
    <3>1. n \in 1..N /\ longer[n] = docs[n] /\ more[n] = stack[n]
      BY <1>2, <2>1, <2>4
    <3> QED BY <1>1, <2>2, <3>1
  <2> QED BY <2>3, <2>4
<1> HIDE DEF longer, more
<1>5. Len(more) = N + 1
  BY <1>2
<1> QED BY <1>3, <1>4, <1>5 DEF RedoChain, more

(* The top of the redo stack leads on from the present.                    *)
LEMMA RedoPop ==
  ASSUME NEW stack \in Seq(Seq(Ops)), stack # << >>, NEW d \in Docs, RedoChain(stack, d)
  PROVE  /\ Last(stack) \in Seq(Ops) /\ Front(stack) \in Seq(Seq(Ops))
         /\ \E c \in Docs : RedoChain(Front(stack), c) /\ Leads(d, Last(stack), c)
PROOF
<1> DEFINE N == Len(stack)
<1> DEFINE rest == Front(stack)
<1>1. PICK docs \in [0..N -> Docs] :
        /\ docs[N] = d
        /\ \A n \in 1..N : Leads(docs[n], stack[n], docs[n - 1])
  BY DEF RedoChain
<1>2. /\ N \in Nat /\ N # 0 /\ N - 1 \in Nat /\ N \in 1..N /\ N - 1 \in 0..N
      /\ \A n \in 1..N : stack[n] \in Seq(Ops)
  OBVIOUS
<1>3. rest \in Seq(Seq(Ops)) /\ Len(rest) = N - 1 /\ \A n \in 1..(N - 1) : rest[n] = stack[n]
  BY FrontFacts
<1>4. Last(stack) = stack[N] /\ Last(stack) \in Seq(Ops)
  BY <1>2 DEF Last
<1> HIDE DEF rest
<1> DEFINE shorter == [n \in 0..(N - 1) |-> docs[n]]
<1>5. shorter \in [0..(N - 1) -> Docs] /\ shorter[N - 1] = docs[N - 1]
  <2>1. \A n \in 0..(N - 1) : n \in 0..N
    BY <1>2
  <2>2. N - 1 \in 0..(N - 1)
    BY <1>2
  <2> QED BY <2>1, <2>2
<1>6. ASSUME NEW n \in 1..(N - 1) PROVE Leads(shorter[n], rest[n], shorter[n - 1])
  <2>1. n \in 1..N /\ n \in 0..(N - 1) /\ n - 1 \in 0..(N - 1)
    BY <1>2
  <2>2. shorter[n] = docs[n] /\ shorter[n - 1] = docs[n - 1] /\ rest[n] = stack[n]
    BY <2>1, <1>3
  <2> QED BY <1>1, <2>1, <2>2
<1> HIDE DEF shorter
<1>7. RedoChain(rest, docs[N - 1])
  BY <1>3, <1>5, <1>6 DEF RedoChain
<1>8. Leads(d, stack[N], docs[N - 1]) /\ docs[N - 1] \in Docs
  BY <1>1, <1>2
<1> QED BY <1>3, <1>4, <1>7, <1>8 DEF rest

(* The empty stacks of a new engine, and of redo after a commit.           *)
LEMMA EmptyChains ==
  ASSUME NEW d \in Docs
  PROVE  UndoChain(<< >>, d) /\ RedoChain(<< >>, d)
PROOF
<1> DEFINE docs == [n \in 0..0 |-> d]
<1>1. docs \in [0..0 -> Docs] /\ docs[0] = d /\ Len(<< >>) = 0
  OBVIOUS
<1> HIDE DEF docs
<1> QED BY <1>1 DEF UndoChain, RedoChain
-----------------------------------------------------------------------------
(* Delivery                                                                *)

(* A copy that no event is under way for is what it follows; between calls *)
(* all of them are.                                                        *)
LEMMA FollowsSettled ==
  ASSUME NEW subs, NEW pos, NEW evs, NEW conn, NEW copies, NEW target, NEW kinds,
         Follows(subs, pos, evs, conn, copies, target, kinds),
         \A k \in 1..Len(evs) : evs[k].kind \notin kinds, Len(evs) \in Nat,
         NEW s \in conn
  PROVE  copies[s] = target
PROOF
<1>1. Pending(subs, pos, evs, s, kinds) = {}
  BY DEF Pending
<1> QED BY <1>1 DEF Follows

(* A call that publishes nothing of these kinds leaves the target alone.   *)
LEMMA FollowsQuiet ==
  ASSUME NEW subs, NEW pos, NEW evs \in Seq(EventTypes),
         NEW conn, NEW copies, NEW target, NEW kinds,
         \A k \in 1..Len(evs) : evs[k].kind \notin kinds,
         \A s \in conn : copies[s] = target
  PROVE  Follows(subs, pos, evs, conn, copies, target, kinds)
PROOF
<1>1. ASSUME NEW s \in conn PROVE Pending(subs, pos, evs, s, kinds) = {}
  BY DEF Pending
<1> QED BY <1>1 DEF Follows

(* When publish begins, everyone waits for the first event.                *)
LEMMA AllWait ==
  ASSUME NEW subs \in Seq(Subscribers), NEW conn, conn \subseteq ToSet(subs), NEW s \in conn
  PROVE  Waits(subs, 1, s)
PROOF
  BY DEF Waits, ToSet

(* A call that publishes one event of these kinds, which leads from the    *)
(* copies to the new target.                                               *)
LEMMA FollowsPublished ==
  ASSUME NEW subs \in Seq(Subscribers), NEW evs \in Seq(EventTypes),
         NEW conn, conn \subseteq ToSet(subs), NEW copies, NEW target, NEW kinds,
         NEW i \in 1..Len(evs), evs[i].kind \in kinds,
         \A k \in 1..Len(evs) : evs[k].kind \in kinds => k = i,
         \A s \in conn : Leads(copies[s], evs[i].ops, target)
  PROVE  Follows(subs, 1, evs, conn, copies, target, kinds)
PROOF
<1>1. ASSUME NEW s \in conn PROVE Pending(subs, 1, evs, s, kinds) = {i}
  BY AllWait DEF Pending
<1> QED BY <1>1 DEF Follows

(* The subscriber at the iterator gets the event, and may disconnect some. *)
LEMMA FollowsDelivered ==
  ASSUME NEW subs \in Seq(Subscribers), Distinct(subs), NEW pos \in 1..Len(subs),
         NEW evs \in Seq(EventTypes), evs # << >>, OfOneCall(evs),
         NEW conn, NEW copies, NEW target \in Docs, NEW kinds,
         ~("AfterApply" \in kinds /\ "AfterCommit" \in kinds),
         Follows(subs, pos, evs, conn, copies, target, kinds),
         NEW left, left \subseteq conn, NEW after,
         \A s \in left : after[s] =
           IF s = subs[pos] /\ evs[1].kind \in kinds THEN Followed(copies[s], evs[1].ops)
           ELSE copies[s]
  PROVE  Follows(subs, pos + 1, evs, left, after, target, kinds)
PROOF
<1>1. /\ Len(subs) \in Nat /\ pos \in Nat /\ Len(evs) \in Nat /\ 1 \in 1..Len(evs)
      /\ DOMAIN subs = 1..Len(subs) /\ Len(evs) <= 2
  BY DEF OfOneCall
<1>2. evs[1].ops \in Seq(Ops)
  <2>1. evs[1] \in EventTypes
    BY <1>1
  <2> QED BY <2>1 DEF EventTypes
<1>3. ASSUME NEW s \in left
      PROVE  /\ Pending(subs, pos + 1, evs, s, kinds) = {} => after[s] = target
             /\ \A k \in Pending(subs, pos + 1, evs, s, kinds) :
                  Leads(after[s], evs[k].ops, target)
  <2>1. s \in conn
    OBVIOUS
  <2>2. CASE s = subs[pos]
    <3>1. Waits(subs, pos, s)
      BY <1>1, <2>2 DEF Waits
    <3>2. ~Waits(subs, pos + 1, s)
      <4> SUFFICES ASSUME NEW k \in (pos + 1)..Len(subs), subs[k] = s PROVE FALSE
        BY DEF Waits
      <4>1. k \in 1..Len(subs) /\ k # pos
        BY <1>1
      <4> QED BY <4>1, <1>1, <2>2 DEF Distinct
    <3>3. Pending(subs, pos, evs, s, kinds) = {k \in 1..Len(evs) : evs[k].kind \in kinds}
      BY <3>1 DEF Pending
    <3>4. Pending(subs, pos + 1, evs, s, kinds) = {k \in 2..Len(evs) : evs[k].kind \in kinds}
      BY <3>2 DEF Pending
    <3>5. CASE evs[1].kind \in kinds
      <4>1. Leads(copies[s], evs[1].ops, target)
        BY <1>1, <2>1, <3>3, <3>5 DEF Follows
      <4>2. after[s] = target
        BY <1>2, <2>2, <3>5, <4>1, FollowedLeads
      <4>3. ASSUME NEW k \in 2..Len(evs), evs[k].kind \in kinds PROVE FALSE
        <5>1. PICK n \in Nat : n = Len(evs)
          BY <1>1
        <5>2. k \in 2..n /\ n <= 2
          BY <1>1, <5>1
        <5>3. n = 2 /\ k = 2
          BY <5>2
        <5> QED BY <3>5, <4>3, <5>1, <5>3 DEF OfOneCall
      <4>4. Pending(subs, pos + 1, evs, s, kinds) = {}
        BY <3>4, <4>3
      <4> QED BY <4>2, <4>4
    <3>6. CASE evs[1].kind \notin kinds
      <4>1. after[s] = copies[s]
        BY <3>6
      <4>2. Pending(subs, pos + 1, evs, s, kinds) = Pending(subs, pos, evs, s, kinds)
        <5>1. \A k \in 1..Len(evs) : evs[k].kind \in kinds => k \in 2..Len(evs)
          BY <1>1, <3>6
        <5>2. \A k \in 2..Len(evs) : k \in 1..Len(evs)
          BY <1>1
        <5> QED BY <3>3, <3>4, <5>1, <5>2
      <4> QED BY <2>1, <4>1, <4>2 DEF Follows
    <3> QED BY <3>5, <3>6
  <2>3. CASE s # subs[pos]
    <3>1. after[s] = copies[s]
      BY <2>3
    <3>2. Waits(subs, pos + 1, s) <=> Waits(subs, pos, s)
      <4>1. \A k \in pos..Len(subs) : k = pos \/ k \in (pos + 1)..Len(subs)
        BY <1>1
      <4>2. \A k \in (pos + 1)..Len(subs) : k \in pos..Len(subs)
        BY <1>1
      <4> QED BY <2>3, <4>1, <4>2 DEF Waits
    <3>3. Pending(subs, pos + 1, evs, s, kinds) = Pending(subs, pos, evs, s, kinds)
      BY <3>2 DEF Pending
    <3> QED BY <2>1, <3>1, <3>3 DEF Follows
  <2> QED BY <2>2, <2>3
<1> QED BY <1>3 DEF Follows

(* The subscription of one that is gone is erased: who waits still waits.  *)
LEMMA FollowsErased ==
  ASSUME NEW subs \in Seq(Subscribers), NEW pos \in 1..Len(subs),
         NEW evs, NEW conn, NEW copies, NEW target, NEW kinds,
         Distinct(subs), conn \subseteq ToSet(subs), subs[pos] \notin conn,
         Follows(subs, pos, evs, conn, copies, target, kinds)
  PROVE  /\ RemoveAt(subs, pos) \in Seq(Subscribers)
         /\ Distinct(RemoveAt(subs, pos))
         /\ conn \subseteq ToSet(RemoveAt(subs, pos))
         /\ Follows(RemoveAt(subs, pos), pos, evs, conn, copies, target, kinds)
PROOF
<1> DEFINE N == Len(subs)
<1> DEFINE rest == RemoveAt(subs, pos)
<1>1. N \in Nat /\ pos \in Nat /\ pos >= 1 /\ pos <= N /\ DOMAIN subs = 1..N
  OBVIOUS
<1>2. /\ rest \in Seq(Subscribers) /\ Len(rest) = N - 1
      /\ \A n \in 1..(pos - 1) : rest[n] = subs[n]
      /\ \A n \in pos..(N - 1) : rest[n] = subs[n + 1]
  BY RemoveAtFacts
<1> HIDE DEF rest, N
<1>3. DOMAIN rest = 1..(N - 1)
  BY <1>2
<1> DEFINE Old(n) == IF n < pos THEN n ELSE n + 1
<1>4. ASSUME NEW n \in 1..(N - 1) PROVE Old(n) \in 1..N /\ rest[n] = subs[Old(n)]
  <2>1. CASE n < pos
    BY <1>1, <1>2, <2>1
  <2>2. CASE ~(n < pos)
    BY <1>1, <1>2, <2>2
  <2> QED BY <2>1, <2>2
<1>5. Distinct(rest)
  <2> SUFFICES ASSUME NEW j \in 1..(N - 1), NEW k \in 1..(N - 1), rest[j] = rest[k]
               PROVE  j = k
    BY <1>3 DEF Distinct
  <2>1. Old(j) \in 1..N /\ Old(k) \in 1..N /\ subs[Old(j)] = subs[Old(k)]
    BY <1>4
  <2>2. Old(j) = Old(k)
    BY <1>1, <2>1 DEF Distinct
  <2> QED BY <1>1, <2>2
<1>6. ASSUME NEW k \in 1..N, k # pos
      PROVE  \E n \in 1..(N - 1) : rest[n] = subs[k] /\ (k >= pos <=> n >= pos)
  <2>1. CASE k < pos
    BY <1>1, <1>2, <2>1
  <2>2. CASE k > pos
    <3>1. k - 1 \in pos..(N - 1) /\ k - 1 \in 1..(N - 1) /\ (k - 1) + 1 = k
      BY <1>1, <2>2
    <3>2. rest[k - 1] = subs[k] /\ k - 1 >= pos
      BY <1>2, <3>1
    <3> QED BY <1>1, <2>2, <3>1, <3>2
  <2> QED BY <1>1, <1>6, <2>1, <2>2
<1>7. ASSUME NEW s \in conn PROVE s \in ToSet(rest)
  <2>1. PICK k \in 1..N : subs[k] = s
    BY <1>1 DEF ToSet
  <2>2. PICK n \in 1..(N - 1) : rest[n] = s
    BY <1>6, <2>1
  <2> QED BY <1>3, <2>2 DEF ToSet
<1>8. ASSUME NEW s \in conn PROVE Waits(rest, pos, s) <=> Waits(subs, pos, s)
  <2>1. ASSUME Waits(subs, pos, s) PROVE Waits(rest, pos, s)
    <3>1. PICK k \in pos..N : subs[k] = s
      BY <2>1 DEF Waits, N
    <3>2. k \in 1..N /\ k # pos /\ k >= pos
      BY <1>1, <3>1
    <3>3. PICK n \in 1..(N - 1) : rest[n] = subs[k] /\ (k >= pos <=> n >= pos)
      BY <1>6, <3>2
    <3>4. n \in pos..Len(rest)
      BY <1>1, <1>2, <3>2, <3>3
    <3> QED BY <3>1, <3>3, <3>4 DEF Waits
  <2>2. ASSUME Waits(rest, pos, s) PROVE Waits(subs, pos, s)
    <3>1. PICK n \in pos..(N - 1) : rest[n] = s
      BY <1>2, <2>2 DEF Waits
    <3>2. n + 1 \in pos..N /\ subs[n + 1] = s
      BY <1>1, <1>2, <3>1
    <3> QED BY <3>2 DEF Waits, N
  <2> QED BY <2>1, <2>2
<1>9. ASSUME NEW s \in conn
      PROVE  Pending(rest, pos, evs, s, kinds) = Pending(subs, pos, evs, s, kinds)
  BY <1>8 DEF Pending
<1>10. Follows(rest, pos, evs, conn, copies, target, kinds)
  BY <1>9 DEF Follows
<1> QED BY <1>2, <1>5, <1>7, <1>10 DEF rest

(* All have had the first event: the next one becomes the first.           *)
LEMMA FollowsNext ==
  ASSUME NEW subs \in Seq(Subscribers), NEW pos \in Nat, pos > Len(subs),
         NEW evs \in Seq(EventTypes), evs # << >>,
         NEW conn, conn \subseteq ToSet(subs), NEW copies, NEW target, NEW kinds,
         Follows(subs, pos, evs, conn, copies, target, kinds)
  PROVE  Follows(subs, 1, Tail(evs), conn, copies, target, kinds)
PROOF
<1> DEFINE next == Tail(evs)
<1> DEFINE N == Len(evs)
<1>1. N \in Nat /\ N # 0 /\ Len(next) = N - 1 /\ \A k \in 1..(N - 1) : next[k] = evs[k + 1]
  OBVIOUS
<1> HIDE DEF next, N
<1>2. ASSUME NEW s \in conn
      PROVE  /\ Pending(subs, 1, next, s, kinds) = {} => copies[s] = target
             /\ \A k \in Pending(subs, 1, next, s, kinds) :
                  Leads(copies[s], next[k].ops, target)
  <2>1. Waits(subs, 1, s)
    BY AllWait
  <2>2. ~Waits(subs, pos, s)
    BY DEF Waits
  <2>3. Pending(subs, 1, next, s, kinds) = {k \in 1..(N - 1) : next[k].kind \in kinds}
    BY <1>1, <2>1 DEF Pending
  <2>4. Pending(subs, pos, evs, s, kinds) = {k \in 2..N : evs[k].kind \in kinds}
    BY <2>2 DEF Pending, N
  <2>5. ASSUME Pending(subs, 1, next, s, kinds) = {} PROVE copies[s] = target
    <3>1. ASSUME NEW k \in 2..N, evs[k].kind \in kinds PROVE FALSE
      <4>1. k - 1 \in 1..(N - 1) /\ (k - 1) + 1 = k
        BY <1>1
      <4>2. k - 1 \in Pending(subs, 1, next, s, kinds)
        BY <1>1, <2>3, <3>1, <4>1
      <4> QED BY <2>5, <4>2
    <3>2. Pending(subs, pos, evs, s, kinds) = {}
      BY <2>4, <3>1
    <3> QED BY <3>2 DEF Follows
  <2>6. ASSUME NEW k \in Pending(subs, 1, next, s, kinds)
        PROVE  Leads(copies[s], next[k].ops, target)
    <3>1. k \in 1..(N - 1) /\ next[k].kind \in kinds /\ next[k] = evs[k + 1]
      BY <1>1, <2>3
    <3>2. k + 1 \in 2..N
      BY <1>1, <3>1
    <3>3. k + 1 \in Pending(subs, pos, evs, s, kinds)
      BY <2>4, <3>1, <3>2
    <3> QED BY <3>1, <3>3 DEF Follows
  <2> QED BY <2>5, <2>6
<1> QED BY <1>2 DEF Follows, next
-----------------------------------------------------------------------------
(* The steps                                                               *)

(* Event lists as the calls publish them                                   *)
LEMMA NoEvents ==
  /\ << >> \in Seq(EventTypes) /\ OfOneCall(<< >>) /\ Len(<< >>) = 0
PROOF
  BY DEF OfOneCall

LEMMA OneEvent ==
  ASSUME NEW e \in EventTypes, e.call = "write" => e.kind = "AfterApply"
  PROVE  /\ <<e>> \in Seq(EventTypes) /\ OfOneCall(<<e>>)
         /\ Len(<<e>>) = 1 /\ <<e>>[1] = e /\ 1 \in 1..Len(<<e>>)
         /\ \A k \in 1..Len(<<e>>) : k = 1
PROOF
<1>1. Len(<<e>>) = 1 /\ <<e>>[1] = e /\ DOMAIN <<e>> = 1..1
  OBVIOUS
<1> QED BY <1>1 DEF OfOneCall

LEMMA TwoEvents ==
  ASSUME NEW e \in EventTypes, e.call # "write", e.kind = "AfterApply",
         NEW f \in EventTypes, f.call # "write", f.kind = "AfterCommit"
  PROVE  /\ <<e, f>> \in Seq(EventTypes) /\ OfOneCall(<<e, f>>)
         /\ Len(<<e, f>>) = 2 /\ <<e, f>>[1] = e /\ <<e, f>>[2] = f
         /\ 1 \in 1..Len(<<e, f>>) /\ 2 \in 1..Len(<<e, f>>)
         /\ \A k \in 1..Len(<<e, f>>) : k = 1 \/ k = 2
PROOF
<1>1. Len(<<e, f>>) = 2 /\ <<e, f>>[1] = e /\ <<e, f>>[2] = f /\ DOMAIN <<e, f>> = 1..2
  OBVIOUS
<1>2. \A k \in 1..2 : k = 1 \/ k = 2
  OBVIOUS
<1> QED BY <1>1, <1>2 DEF OfOneCall

LEMMA EventFacts ==
  ASSUME NEW kind \in {"AfterApply", "AfterCommit", "Rollback"},
         NEW call \in {"write", "commit", "rollback", "undo"}, NEW ops \in Seq(Ops)
  PROVE  /\ Event(kind, call, ops) \in EventTypes
         /\ Event(kind, call, ops).kind = kind
         /\ Event(kind, call, ops).call = call
         /\ Event(kind, call, ops).ops = ops
PROOF
  BY DEF Event, EventTypes

(* What a call finds: copies that are what they follow, and between        *)
(* transactions a document that is the committed one.                      *)
LEMMA IdleFacts ==
  ASSUME EventsInv, Idle
  PROVE  /\ \A s \in connected : commitCopy[s] = base /\ applyCopy[s] = doc
         /\ ~open => changeSet = << >> /\ doc = base
PROOF
<1>1. events = << >> /\ Len(events) = 0 /\ 1..0 = {}
  BY DEF Idle
<1>2. ASSUME NEW s \in connected PROVE commitCopy[s] = base /\ applyCopy[s] = doc
  <2>1. commitCopy[s] = base
    BY <1>1, FollowsSettled DEF EventsInv, CopiesSound
  <2>2. applyCopy[s] = doc
    BY <1>1, FollowsSettled DEF EventsInv, CopiesSound
  <2> QED BY <2>1, <2>2
<1>3. ASSUME ~open PROVE changeSet = << >> /\ doc = base
  <2>1. changeSet = << >> /\ Leads(base, << >>, doc) /\ base \in Docs
    BY <1>3 DEF EventsInv, EngineSound, EngineTyped
  <2> QED BY <2>1, LeadsNowhere
<1> QED BY <1>2, <1>3

(* A new engine satisfies the invariant.                                   *)
LEMMA InitInv == Init => EventsInv
PROOF
<1> SUFFICES ASSUME Init PROVE EventsInv
  OBVIOUS
<1> USE DEF Init
<1>1. doc \in Docs /\ base = doc
  BY DEF Docs, Values
<1>2. EngineTyped
  <2>1. << >> \in Seq(Ops)
    OBVIOUS
  <2> DEFINE S == Seq(Ops)
  <2> HIDE DEF S
  <2>2. << >> \in Seq(S)
    OBVIOUS
  <2> QED BY <1>1, <2>1, <2>2 DEF EngineTyped, S
<1>3. PublishTyped
  <2>1. subscriptions \in Seq(Subscribers) /\ Distinct(subscriptions)
    BY DEF Distinct
  <2>2. commitCopy \in [{} -> Docs] /\ applyCopy \in [{} -> Docs]
    OBVIOUS
  <2>3. position \in Nat \ {0}
    OBVIOUS
  <2> QED BY <2>1, <2>2, <2>3, NoEvents DEF PublishTyped
<1>4. EngineSound
  BY <1>1, LeadsStays, EmptyChains DEF EngineSound
<1>5. CopiesSound
  BY DEF CopiesSound, Follows
<1> QED BY <1>2, <1>3, <1>4, <1>5 DEF EventsInv

LEMMA DeliverInv ==
  ASSUME EventsInv, NEW gone, Deliver(gone)
  PROVE  EventsInv'
PROOF
<1>1. /\ ~Idle /\ position \in 1..Len(subscriptions) /\ events # << >>
      /\ connected' = connected \ gone
      /\ position' = position + 1
      /\ UNCHANGED <<doc, base, open, changeSet, undoStack, redoStack, subscriptions, events>>
  BY DEF Deliver, Arrived, Idle, engineVars, EventsInv, PublishTyped
<1>2. /\ subscriptions \in Seq(Subscribers) /\ Distinct(subscriptions)
      /\ events \in Seq(EventTypes) /\ OfOneCall(events)
      /\ connected \subseteq ToSet(subscriptions) /\ position \in Nat \ {0}
      /\ commitCopy \in [connected -> Docs] /\ applyCopy \in [connected -> Docs]
      /\ doc \in Docs /\ base \in Docs
  BY DEF EventsInv, PublishTyped, EngineTyped
<1>3. /\ Head(events) = events[1] /\ events[1] \in EventTypes /\ events[1].ops \in Seq(Ops)
  <2>1. Head(events) = events[1] /\ events[1] \in EventTypes
    BY <1>1, <1>2
  <2> QED BY <2>1 DEF EventTypes
<1>4. /\ DOMAIN commitCopy' = connected'
      /\ \A s \in connected' : commitCopy'[s] =
           IF s = subscriptions[position] /\ events[1].kind \in CommitKinds
             THEN Followed(commitCopy[s], events[1].ops) ELSE commitCopy[s]
  BY <1>1, <1>2, <1>3 DEF Deliver, Restrict, Received, Subscriber, CommitKinds
<1>5. /\ DOMAIN applyCopy' = connected'
      /\ \A s \in connected' : applyCopy'[s] =
           IF s = subscriptions[position] /\ events[1].kind \in ApplyKinds
             THEN Followed(applyCopy[s], events[1].ops) ELSE applyCopy[s]
  BY <1>1, <1>2, <1>3 DEF Deliver, Restrict, Received, Subscriber, ApplyKinds
<1>6. Follows(subscriptions, position + 1, events, connected', commitCopy', base, CommitKinds)
  <2>1. Follows(subscriptions, position, events, connected, commitCopy, base, CommitKinds)
    BY DEF EventsInv, CopiesSound
  <2>2. ~("AfterApply" \in CommitKinds /\ "AfterCommit" \in CommitKinds)
    BY DEF CommitKinds
  <2>3. connected' \subseteq connected
    BY <1>1
  <2> QED BY <1>1, <1>2, <1>4, <2>1, <2>2, <2>3, FollowsDelivered
<1>7. Follows(subscriptions, position + 1, events, connected', applyCopy', doc, ApplyKinds)
  <2>1. Follows(subscriptions, position, events, connected, applyCopy, doc, ApplyKinds)
    BY DEF EventsInv, CopiesSound
  <2>2. ~("AfterApply" \in ApplyKinds /\ "AfterCommit" \in ApplyKinds)
    BY DEF ApplyKinds
  <2>3. connected' \subseteq connected
    BY <1>1
  <2> QED BY <1>1, <1>2, <1>5, <2>1, <2>2, <2>3, FollowsDelivered
<1>8. ASSUME NEW s \in connected' PROVE commitCopy'[s] \in Docs /\ applyCopy'[s] \in Docs
  <2>1. s \in connected /\ commitCopy[s] \in Docs /\ applyCopy[s] \in Docs
    BY <1>1, <1>2
  <2>2. CASE s = subscriptions[position]
    <3>1. Waits(subscriptions, position, s) /\ 1 \in 1..Len(events)
      BY <1>1, <1>2, <2>2 DEF Waits
    <3>2. ASSUME events[1].kind \in CommitKinds
          PROVE  Followed(commitCopy[s], events[1].ops) = base
      <4>1. 1 \in Pending(subscriptions, position, events, s, CommitKinds)
        BY <3>1, <3>2 DEF Pending
      <4>2. Leads(commitCopy[s], events[1].ops, base)
        BY <2>1, <4>1 DEF EventsInv, CopiesSound, Follows
      <4> QED BY <1>3, <4>2, FollowedLeads
    <3>3. ASSUME events[1].kind \in ApplyKinds
          PROVE  Followed(applyCopy[s], events[1].ops) = doc
      <4>1. 1 \in Pending(subscriptions, position, events, s, ApplyKinds)
        BY <3>1, <3>3 DEF Pending
      <4>2. Leads(applyCopy[s], events[1].ops, doc)
        BY <2>1, <4>1 DEF EventsInv, CopiesSound, Follows
      <4> QED BY <1>3, <4>2, FollowedLeads
    <3> QED BY <1>2, <1>4, <1>5, <2>1, <3>2, <3>3
  <2>3. CASE s # subscriptions[position]
    BY <1>4, <1>5, <2>1, <2>3
  <2> QED BY <2>2, <2>3
<1>9. commitCopy' \in [connected' -> Docs] /\ applyCopy' \in [connected' -> Docs]
  <2>1. commitCopy' = [s \in connected' |-> commitCopy'[s]]
    BY <1>4 DEF Deliver, Restrict
  <2>2. applyCopy' = [s \in connected' |-> applyCopy'[s]]
    BY <1>5 DEF Deliver, Restrict
  <2> QED BY <1>8, <2>1, <2>2
<1>10. PublishTyped'
  BY <1>1, <1>2, <1>9 DEF PublishTyped
<1>11. EngineTyped' /\ EngineSound'
  BY <1>1 DEF EventsInv, EngineTyped, EngineSound
<1>12. CopiesSound'
  BY <1>1, <1>6, <1>7 DEF CopiesSound
<1> QED BY <1>10, <1>11, <1>12 DEF EventsInv

LEMMA EraseInv ==
  ASSUME EventsInv, Erase
  PROVE  EventsInv'
PROOF
<1>1. /\ position \in 1..Len(subscriptions) /\ subscriptions[position] \notin connected
      /\ subscriptions' = RemoveAt(subscriptions, position) /\ position' = position
      /\ UNCHANGED <<doc, base, open, changeSet, undoStack, redoStack, connected, events,
                     commitCopy, applyCopy>>
  BY DEF Erase, Arrived, Subscriber, AfterErase, engineVars, copyVars, EventsInv, PublishTyped
<1>2. /\ subscriptions \in Seq(Subscribers) /\ Distinct(subscriptions)
      /\ connected \subseteq ToSet(subscriptions)
  BY DEF EventsInv, PublishTyped
<1>3. Follows(subscriptions, position, events, connected, commitCopy, base, CommitKinds)
  BY DEF EventsInv, CopiesSound
<1>4. Follows(subscriptions, position, events, connected, applyCopy, doc, ApplyKinds)
  BY DEF EventsInv, CopiesSound
<1>5. /\ subscriptions' \in Seq(Subscribers) /\ Distinct(subscriptions')
      /\ connected \subseteq ToSet(subscriptions')
      /\ Follows(subscriptions', position, events, connected, commitCopy, base, CommitKinds)
  BY <1>1, <1>2, <1>3, FollowsErased
<1>6. Follows(subscriptions', position, events, connected, applyCopy, doc, ApplyKinds)
  BY <1>1, <1>2, <1>4, FollowsErased
<1>7. PublishTyped'
  BY <1>1, <1>5 DEF EventsInv, PublishTyped
<1>8. EngineTyped' /\ EngineSound'
  BY <1>1 DEF EventsInv, EngineTyped, EngineSound
<1>9. CopiesSound'
  BY <1>1, <1>5, <1>6 DEF CopiesSound
<1> QED BY <1>7, <1>8, <1>9 DEF EventsInv

LEMMA PublishedInv ==
  ASSUME EventsInv, Published
  PROVE  EventsInv'
PROOF
<1>1. /\ events # << >> /\ position > Len(subscriptions)
      /\ events' = Tail(events) /\ position' = 1
      /\ UNCHANGED <<doc, base, open, changeSet, undoStack, redoStack,
                     subscriptions, connected, commitCopy, applyCopy>>
  BY DEF Published, Publish, Idle, Arrived, engineVars, copyVars, EventsInv, PublishTyped
<1>2. /\ subscriptions \in Seq(Subscribers) /\ position \in Nat
      /\ connected \subseteq ToSet(subscriptions)
      /\ events \in Seq(EventTypes) /\ OfOneCall(events)
  BY DEF EventsInv, PublishTyped
<1>3. Tail(events) \in Seq(EventTypes) /\ OfOneCall(Tail(events))
  <2>1. /\ Tail(events) \in Seq(EventTypes) /\ Len(Tail(events)) = Len(events) - 1
        /\ Len(events) <= 2 /\ Len(events) \in Nat
        /\ \A k \in 1..Len(Tail(events)) : Tail(events)[k] = events[k + 1]
    BY <1>1, <1>2 DEF OfOneCall
  <2>2. DOMAIN Tail(events) = 1..Len(Tail(events))
    BY <2>1
  <2>3. ASSUME NEW k \in DOMAIN Tail(events), Tail(events)[k].call = "write" PROVE FALSE
    <3>1. k + 1 \in 1..Len(events) /\ Len(events) # 1
      BY <2>1, <2>2
    <3>2. events[k + 1].call = "write" /\ k + 1 \in DOMAIN events
      BY <1>2, <2>1, <2>2, <2>3, <3>1
    <3> QED BY <1>2, <3>1, <3>2 DEF OfOneCall
  <2> QED BY <2>1, <2>3 DEF OfOneCall
<1>4. Follows(subscriptions, 1, Tail(events), connected, commitCopy, base, CommitKinds)
  <2>1. Follows(subscriptions, position, events, connected, commitCopy, base, CommitKinds)
    BY DEF EventsInv, CopiesSound
  <2> QED BY <1>1, <1>2, <2>1, FollowsNext
<1>5. Follows(subscriptions, 1, Tail(events), connected, applyCopy, doc, ApplyKinds)
  <2>1. Follows(subscriptions, position, events, connected, applyCopy, doc, ApplyKinds)
    BY DEF EventsInv, CopiesSound
  <2> QED BY <1>1, <1>2, <2>1, FollowsNext
<1>6. PublishTyped'
  BY <1>1, <1>3 DEF EventsInv, PublishTyped
<1>7. EngineTyped' /\ EngineSound'
  BY <1>1 DEF EventsInv, EngineTyped, EngineSound
<1>8. CopiesSound'
  BY <1>1, <1>4, <1>5 DEF CopiesSound
<1> QED BY <1>6, <1>7, <1>8 DEF EventsInv
(* A failed write: the transaction ends, and the copies are read again.    *)
LEMMA FailFacts ==
  ASSUME EventsInv, FailTransaction
  PROVE  /\ EngineTyped' /\ EngineSound'
         /\ \A s \in connected : applyCopy'[s] = doc'
         /\ applyCopy' \in [connected -> Docs]
         /\ base' = base
PROOF
<1>1. /\ doc' = base /\ base' = base /\ open' = FALSE /\ changeSet' = << >>
      /\ undoStack' = undoStack /\ redoStack' = redoStack
      /\ applyCopy' = [s \in connected |-> base]
  BY DEF FailTransaction
<1>2. base \in Docs /\ undoStack \in Seq(Seq(Ops)) /\ redoStack \in Seq(Seq(Ops))
  BY DEF EventsInv, EngineTyped
<1>3. EngineTyped'
  <2>1. << >> \in Seq(Ops)
    OBVIOUS
  <2> QED BY <1>1, <1>2, <2>1 DEF EngineTyped
<1>4. Leads(base, << >>, base)
  BY <1>2, LeadsStays
<1>5. EngineSound'
  BY <1>1, <1>4 DEF EventsInv, EngineSound
<1> QED BY <1>1, <1>2, <1>3, <1>5

LEMMA ThrowInv ==
  ASSUME MayThrow \subseteq {"write"}, EventsInv, Throw
  PROVE  EventsInv'
PROOF
<1>1. /\ events # << >> /\ Head(events).call = "write"
      /\ events' = << >> /\ position' = 1
      /\ FailTransaction
      /\ commitCopy' = Received(Subscriber, commitCopy, {"AfterCommit"})
      /\ UNCHANGED <<subscriptions, connected>>
  BY DEF Throw, Publish, Arrived, Idle
<1>2. /\ events \in Seq(EventTypes) /\ OfOneCall(events) /\ Head(events) = events[1]
      /\ 1 \in DOMAIN events
  BY <1>1 DEF EventsInv, PublishTyped
<1>3. Len(events) = 1 /\ events[1].kind = "AfterApply"
  BY <1>1, <1>2 DEF OfOneCall
<1>4. commitCopy' = commitCopy
  BY <1>1, <1>2, <1>3 DEF Received
<1>5. ASSUME NEW s \in connected PROVE commitCopy[s] = base
  <2>1. \A k \in 1..Len(events) : events[k].kind \notin CommitKinds
    BY <1>3 DEF CommitKinds
  <2>2. Len(events) \in Nat
    BY <1>3
  <2>3. Follows(subscriptions, position, events, connected, commitCopy, base, CommitKinds)
    BY DEF EventsInv, CopiesSound
  <2> QED BY <2>1, <2>2, <2>3, FollowsSettled
<1>6. /\ EngineTyped' /\ EngineSound' /\ base' = base
      /\ \A s \in connected : applyCopy'[s] = doc'
      /\ applyCopy' \in [connected -> Docs]
  BY <1>1, FailFacts
<1>7. PublishTyped'
  BY <1>1, <1>4, <1>6, NoEvents DEF EventsInv, PublishTyped
<1>8. CopiesSound'
  <2>1. /\ Follows(subscriptions', position', events', connected', commitCopy', base', CommitKinds)
        /\ Follows(subscriptions', position', events', connected', applyCopy', doc', ApplyKinds)
    <3>1. /\ events' \in Seq(EventTypes) /\ \A k \in 1..Len(events') : FALSE
          /\ \A s \in connected' : commitCopy'[s] = base'
          /\ \A s \in connected' : applyCopy'[s] = doc'
      BY <1>1, <1>4, <1>5, <1>6, NoEvents
    <3> QED BY <3>1, FollowsQuiet
  <2> QED BY <2>1 DEF CopiesSound
<1> QED BY <1>6, <1>7, <1>8 DEF EventsInv

LEMMA BeginInv ==
  ASSUME EventsInv, Begin
  PROVE  EventsInv'
PROOF
<1>1. /\ open' = TRUE
      /\ UNCHANGED <<doc, base, changeSet, undoStack, redoStack, subscriptions, connected,
                     events, position, commitCopy, applyCopy>>
  BY DEF Begin, publishVars, copyVars
<1>2. EngineTyped' /\ EngineSound'
  BY <1>1 DEF EventsInv, EngineTyped, EngineSound
<1>3. PublishTyped'
  BY <1>1 DEF EventsInv, PublishTyped
<1>4. CopiesSound'
  BY <1>1 DEF EventsInv, CopiesSound
<1> QED BY <1>2, <1>3, <1>4 DEF EventsInv

LEMMA WriteInv ==
  ASSUME EventsInv, NEW cell \in Cells, NEW value \in Values, Write(cell, value)
  PROVE  EventsInv'
PROOF
<1> DEFINE op == Update(cell, doc[cell], value)
<1> DEFINE e == Event("AfterApply", "write", <<op>>)
<1>1. /\ Idle /\ open
      /\ doc' = [doc EXCEPT ![cell] = value]
      /\ changeSet' = Append(changeSet, op)
      /\ events' = <<e>> /\ position' = 1
      /\ UNCHANGED <<base, open, undoStack, redoStack, subscriptions, connected,
                     commitCopy, applyCopy>>
  BY DEF Write, Publish, copyVars
<1>2. /\ doc \in Docs /\ base \in Docs /\ changeSet \in Seq(Ops)
      /\ Leads(base, changeSet, doc)
      /\ subscriptions \in Seq(Subscribers) /\ connected \subseteq ToSet(subscriptions)
  BY DEF EventsInv, EngineTyped, EngineSound, PublishTyped
<1>3. op \in Ops /\ doc[op.cell] = op.old /\ doc' = Stepped(doc, op)
  <2>1. doc[cell] \in Values
    BY <1>2 DEF Docs
  <2>2. op \in Ops /\ op.cell = cell /\ op.old = doc[cell] /\ op.new = value
    BY <2>1 DEF Update, Ops
  <2> HIDE DEF op
  <2> QED BY <1>1, <2>2 DEF Stepped
<1>4. <<op>> \in Seq(Ops) /\ Append(<< >>, op) = <<op>> /\ << >> \in Seq(Ops)
  BY <1>3
<1> HIDE DEF op
<1>5. doc' \in Docs /\ Leads(base, Append(changeSet, op), doc') /\ Leads(doc, <<op>>, doc')
  <2>1. doc' \in Docs
    BY <1>2, <1>3, SteppedFacts
  <2>2. Leads(base, Append(changeSet, op), doc')
    BY <1>2, <1>3, LeadsAppend
  <2>3. Leads(doc, << >>, doc)
    BY <1>2, LeadsStays
  <2>4. Leads(doc, Append(<< >>, op), doc')
    BY <1>2, <1>3, <1>4, <2>3, LeadsAppend
  <2> QED BY <1>4, <2>1, <2>2, <2>4
<1>6. e \in EventTypes /\ e.kind = "AfterApply" /\ e.ops = <<op>>
  <2> DEFINE ops == <<op>>
  <2>1. ops \in Seq(Ops)
    BY <1>4
  <2> HIDE DEF ops
  <2>2. /\ Event("AfterApply", "write", ops) \in EventTypes
        /\ Event("AfterApply", "write", ops).kind = "AfterApply"
        /\ Event("AfterApply", "write", ops).ops = ops
    BY <2>1, EventFacts
  <2> QED BY <2>2 DEF ops
<1> HIDE DEF e
<1>7. /\ <<e>> \in Seq(EventTypes) /\ OfOneCall(<<e>>) /\ <<e>>[1] = e
      /\ 1 \in 1..Len(<<e>>) /\ \A k \in 1..Len(<<e>>) : k = 1
  BY <1>6, OneEvent
<1>8. \A s \in connected : commitCopy[s] = base /\ applyCopy[s] = doc
  BY <1>1, IdleFacts
<1>9. EngineTyped'
  <2>1. Append(changeSet, op) \in Seq(Ops)
    BY <1>2, <1>3
  <2> QED BY <1>1, <1>5, <2>1 DEF EventsInv, EngineTyped
<1>10. EngineSound'
  BY <1>1, <1>5 DEF EventsInv, EngineSound
<1>11. PublishTyped'
  BY <1>1, <1>7 DEF EventsInv, PublishTyped
<1>12. Follows(subscriptions, 1, <<e>>, connected, commitCopy, base, CommitKinds)
  <2>1. \A k \in 1..Len(<<e>>) : <<e>>[k].kind \notin CommitKinds
    BY <1>6, <1>7 DEF CommitKinds
  <2> QED BY <1>7, <1>8, <2>1, FollowsQuiet
<1>13. Follows(subscriptions, 1, <<e>>, connected, applyCopy, doc', ApplyKinds)
  <2>1. <<e>>[1].kind \in ApplyKinds
    BY <1>6, <1>7 DEF ApplyKinds
  <2>2. \A s \in connected : Leads(applyCopy[s], <<e>>[1].ops, doc')
    BY <1>5, <1>6, <1>7, <1>8
  <2> QED BY <1>2, <1>7, <2>1, <2>2, FollowsPublished
<1>14. CopiesSound'
  BY <1>1, <1>12, <1>13 DEF CopiesSound
<1> QED BY <1>9, <1>10, <1>11, <1>14 DEF EventsInv

LEMMA FailWriteInv ==
  ASSUME EventsInv, FailWrite
  PROVE  EventsInv'
PROOF
<1>1. /\ Idle /\ FailTransaction /\ commitCopy' = commitCopy
      /\ UNCHANGED <<subscriptions, connected, events, position>>
  BY DEF FailWrite, publishVars
<1>2. /\ EngineTyped' /\ EngineSound' /\ base' = base
      /\ \A s \in connected : applyCopy'[s] = doc'
      /\ applyCopy' \in [connected -> Docs]
  BY <1>1, FailFacts
<1>3. \A s \in connected : commitCopy[s] = base
  BY <1>1, IdleFacts
<1>4. events' = << >>
  BY <1>1 DEF Idle
<1>5. PublishTyped'
  BY <1>1, <1>2 DEF EventsInv, PublishTyped
<1>6. /\ Follows(subscriptions', position', events', connected', commitCopy', base', CommitKinds)
      /\ Follows(subscriptions', position', events', connected', applyCopy', doc', ApplyKinds)
  <2>1. /\ events' \in Seq(EventTypes) /\ \A k \in 1..Len(events') : FALSE
        /\ \A s \in connected' : commitCopy'[s] = base'
        /\ \A s \in connected' : applyCopy'[s] = doc'
    BY <1>1, <1>2, <1>3, <1>4, NoEvents
  <2> QED BY <2>1, FollowsQuiet
<1>7. CopiesSound'
  BY <1>6 DEF CopiesSound
<1> QED BY <1>2, <1>5, <1>7 DEF EventsInv

LEMMA CommitInv ==
  ASSUME EventsInv, Commit
  PROVE  EventsInv'
PROOF
<1> DEFINE m == Merge(changeSet)
<1> DEFINE e == Event("AfterCommit", "commit", m)
<1>1. /\ Idle /\ base' = doc /\ open' = FALSE /\ changeSet' = << >>
      /\ undoStack' = IF changeSet # <<>> THEN Append(undoStack, changeSet) ELSE undoStack
      /\ redoStack' = IF changeSet # <<>> THEN <<>> ELSE redoStack
      /\ events' = <<e>> /\ position' = 1
      /\ UNCHANGED <<doc, subscriptions, connected, commitCopy, applyCopy>>
  BY DEF Commit, Publish, copyVars
<1>2. /\ doc \in Docs /\ base \in Docs /\ changeSet \in Seq(Ops)
      /\ undoStack \in Seq(Seq(Ops)) /\ redoStack \in Seq(Seq(Ops))
      /\ Leads(base, changeSet, doc)
      /\ UndoChain(undoStack, base) /\ RedoChain(redoStack, base)
      /\ subscriptions \in Seq(Subscribers) /\ connected \subseteq ToSet(subscriptions)
  BY DEF EventsInv, EngineTyped, EngineSound, PublishTyped
<1>3. m \in Seq(Ops) /\ Leads(base, m, doc)
  BY <1>2, MergedLeads
<1> HIDE DEF m
<1>4. e \in EventTypes /\ e.kind = "AfterCommit" /\ e.call = "commit" /\ e.ops = m
  BY <1>3, EventFacts
<1> HIDE DEF e
<1>5. /\ <<e>> \in Seq(EventTypes) /\ OfOneCall(<<e>>) /\ <<e>>[1] = e
      /\ 1 \in 1..Len(<<e>>) /\ \A k \in 1..Len(<<e>>) : k = 1
  BY <1>4, OneEvent
<1>6. \A s \in connected : commitCopy[s] = base /\ applyCopy[s] = doc
  BY <1>1, IdleFacts
<1>7. /\ undoStack' \in Seq(Seq(Ops)) /\ redoStack' \in Seq(Seq(Ops))
      /\ UndoChain(undoStack', doc) /\ RedoChain(redoStack', doc)
  <2>1. CASE changeSet # << >>
    <3>1. UndoChain(Append(undoStack, changeSet), doc)
      BY <1>2, UndoPush
    <3>2. RedoChain(<< >>, doc)
      BY <1>2, EmptyChains
    <3>3. Append(undoStack, changeSet) \in Seq(Seq(Ops)) /\ << >> \in Seq(Seq(Ops))
      <4> DEFINE S == Seq(Ops)
      <4>1. undoStack \in Seq(S) /\ changeSet \in S
        BY <1>2
      <4> HIDE DEF S
      <4>2. Append(undoStack, changeSet) \in Seq(S) /\ << >> \in Seq(S)
        BY <4>1
      <4> QED BY <4>2 DEF S
    <3> QED BY <1>1, <2>1, <3>1, <3>2, <3>3
  <2>2. CASE changeSet = << >>
    <3>1. base = doc
      BY <1>2, <2>2, LeadsNowhere
    <3> QED BY <1>1, <1>2, <2>2, <3>1
  <2> QED BY <2>1, <2>2
<1>8. EngineTyped'
  <2>1. << >> \in Seq(Ops)
    OBVIOUS
  <2> QED BY <1>1, <1>2, <1>7, <2>1 DEF EngineTyped
<1>9. EngineSound'
  <2>1. Leads(doc, << >>, doc)
    BY <1>2, LeadsStays
  <2> QED BY <1>1, <1>7, <2>1 DEF EngineSound
<1>10. PublishTyped'
  BY <1>1, <1>5 DEF EventsInv, PublishTyped
<1>11. Follows(subscriptions, 1, <<e>>, connected, commitCopy, doc, CommitKinds)
  <2>1. <<e>>[1].kind \in CommitKinds
    BY <1>4, <1>5 DEF CommitKinds
  <2>2. \A s \in connected : Leads(commitCopy[s], <<e>>[1].ops, doc)
    BY <1>3, <1>4, <1>5, <1>6
  <2> QED BY <1>2, <1>5, <2>1, <2>2, FollowsPublished
<1>12. Follows(subscriptions, 1, <<e>>, connected, applyCopy, doc, ApplyKinds)
  <2>1. \A k \in 1..Len(<<e>>) : <<e>>[k].kind \notin ApplyKinds
    BY <1>4, <1>5 DEF ApplyKinds
  <2> QED BY <1>5, <1>6, <2>1, FollowsQuiet
<1>13. CopiesSound'
  BY <1>1, <1>11, <1>12 DEF CopiesSound
<1> QED BY <1>8, <1>9, <1>10, <1>13 DEF EventsInv
LEMMA RollbackInv ==
  ASSUME EventsInv, Rollback
  PROVE  EventsInv'
PROOF
<1> DEFINE back == Invert(changeSet)
<1> DEFINE e == Event("Rollback", "rollback", back)
<1>1. /\ Idle /\ doc' = Apply(doc, back) /\ open' = FALSE /\ changeSet' = << >>
      /\ events' = <<e>> /\ position' = 1
      /\ UNCHANGED <<base, undoStack, redoStack, subscriptions, connected,
                     commitCopy, applyCopy>>
  BY DEF Rollback, RollbackEvent, Publish, copyVars
<1>2. /\ doc \in Docs /\ base \in Docs /\ changeSet \in Seq(Ops)
      /\ Leads(base, changeSet, doc)
      /\ subscriptions \in Seq(Subscribers) /\ connected \subseteq ToSet(subscriptions)
  BY DEF EventsInv, EngineTyped, EngineSound, PublishTyped
<1>3. back \in Seq(Ops) /\ Leads(doc, back, base)
  BY <1>2, LeadsBack
<1>4. doc' = base
  BY <1>1, <1>3, ApplyLeads
<1> HIDE DEF back
<1>5. e \in EventTypes /\ e.kind = "Rollback" /\ e.call = "rollback" /\ e.ops = back
  BY <1>3, EventFacts
<1> HIDE DEF e
<1>6. /\ <<e>> \in Seq(EventTypes) /\ OfOneCall(<<e>>) /\ <<e>>[1] = e
      /\ 1 \in 1..Len(<<e>>) /\ \A k \in 1..Len(<<e>>) : k = 1
  BY <1>5, OneEvent
<1>7. \A s \in connected : commitCopy[s] = base /\ applyCopy[s] = doc
  BY <1>1, IdleFacts
<1>8. EngineTyped'
  <2>1. << >> \in Seq(Ops)
    OBVIOUS
  <2> QED BY <1>1, <1>2, <1>4, <2>1 DEF EventsInv, EngineTyped
<1>9. EngineSound'
  <2>1. Leads(base, << >>, base)
    BY <1>2, LeadsStays
  <2> QED BY <1>1, <1>4, <2>1 DEF EventsInv, EngineSound
<1>10. PublishTyped'
  BY <1>1, <1>6 DEF EventsInv, PublishTyped
<1>11. Follows(subscriptions, 1, <<e>>, connected, commitCopy, base, CommitKinds)
  <2>1. \A k \in 1..Len(<<e>>) : <<e>>[k].kind \notin CommitKinds
    BY <1>5, <1>6 DEF CommitKinds
  <2> QED BY <1>6, <1>7, <2>1, FollowsQuiet
<1>12. Follows(subscriptions, 1, <<e>>, connected, applyCopy, base, ApplyKinds)
  <2>1. <<e>>[1].kind \in ApplyKinds
    BY <1>5, <1>6 DEF ApplyKinds
  <2>2. \A s \in connected : Leads(applyCopy[s], <<e>>[1].ops, base)
    BY <1>3, <1>5, <1>6, <1>7
  <2> QED BY <1>2, <1>6, <2>1, <2>2, FollowsPublished
<1>13. CopiesSound'
  BY <1>1, <1>4, <1>11, <1>12 DEF CopiesSound
<1> QED BY <1>8, <1>9, <1>10, <1>13 DEF EventsInv

(* Undo and redo: a change set that leads from the committed document to c *)
(* leaves c, and publishes what leads there.                               *)
LEMMA ReplayFacts ==
  ASSUME EventsInv, NEW ops \in Seq(Ops), Replay(ops), NEW c, Leads(base, ops, c)
  PROVE  /\ doc' = c /\ base' = c /\ c \in Docs
         /\ changeSet' = << >> /\ open' = open
         /\ PublishTyped' /\ CopiesSound'
PROOF
<1> DEFINE m == Merge(ops)
<1> DEFINE e == Event("AfterApply", "undo", ops)
<1> DEFINE f == Event("AfterCommit", "undo", m)
<1>1. /\ Idle /\ ~open /\ doc' = Apply(doc, ops) /\ base' = doc'
      /\ events' = <<e, f>> /\ position' = 1
      /\ UNCHANGED <<open, changeSet, subscriptions, connected, commitCopy, applyCopy>>
  BY DEF Replay, Publish, copyVars
<1>2. subscriptions \in Seq(Subscribers) /\ connected \subseteq ToSet(subscriptions)
  BY DEF EventsInv, PublishTyped
<1>3. changeSet = << >> /\ doc = base
  BY <1>1, IdleFacts
<1>4. \A s \in connected : commitCopy[s] = base /\ applyCopy[s] = base
  BY <1>1, <1>3, IdleFacts
<1>5. doc' = c /\ c \in Docs
  BY <1>1, <1>3, ApplyLeads, LeadsTyped
<1>6. m \in Seq(Ops) /\ Leads(base, m, c)
  BY MergedLeads
<1> HIDE DEF m
<1>7. e \in EventTypes /\ e.kind = "AfterApply" /\ e.call = "undo" /\ e.ops = ops
  BY EventFacts
<1>8. f \in EventTypes /\ f.kind = "AfterCommit" /\ f.call = "undo" /\ f.ops = m
  BY <1>6, EventFacts
<1> HIDE DEF e, f
<1>9. /\ <<e, f>> \in Seq(EventTypes) /\ OfOneCall(<<e, f>>)
      /\ <<e, f>>[1] = e /\ <<e, f>>[2] = f
      /\ 1 \in 1..Len(<<e, f>>) /\ 2 \in 1..Len(<<e, f>>)
      /\ \A k \in 1..Len(<<e, f>>) : k = 1 \/ k = 2
  BY <1>7, <1>8, TwoEvents
<1> DEFINE both == <<e, f>>
<1>10. /\ both \in Seq(EventTypes) /\ both[1] = e /\ both[2] = f
       /\ 1 \in 1..Len(both) /\ 2 \in 1..Len(both)
       /\ \A k \in 1..Len(both) : k = 1 \/ k = 2
  BY <1>9
<1>11. PublishTyped'
  BY <1>1, <1>9 DEF EventsInv, PublishTyped
<1>12. events' = both
  BY <1>1
<1> HIDE DEF both
<1>13. Follows(subscriptions, 1, both, connected, commitCopy, c, CommitKinds)
  <2>1. both[2].kind \in CommitKinds /\ both[1].kind \notin CommitKinds
    BY <1>7, <1>8, <1>10 DEF CommitKinds
  <2>2. \A k \in 1..Len(both) : both[k].kind \in CommitKinds => k = 2
    BY <1>10, <2>1
  <2>3. \A s \in connected : Leads(commitCopy[s], both[2].ops, c)
    BY <1>4, <1>6, <1>8, <1>10
  <2> QED BY <1>2, <1>10, <2>1, <2>2, <2>3, FollowsPublished
<1>14. Follows(subscriptions, 1, both, connected, applyCopy, c, ApplyKinds)
  <2>1. both[1].kind \in ApplyKinds /\ both[2].kind \notin ApplyKinds
    BY <1>7, <1>8, <1>10 DEF ApplyKinds
  <2>2. \A k \in 1..Len(both) : both[k].kind \in ApplyKinds => k = 1
    BY <1>10, <2>1
  <2>3. \A s \in connected : Leads(applyCopy[s], both[1].ops, c)
    BY <1>4, <1>7, <1>10
  <2> QED BY <1>2, <1>10, <2>1, <2>2, <2>3, FollowsPublished
<1>15. CopiesSound'
  BY <1>1, <1>5, <1>12, <1>13, <1>14 DEF CopiesSound
<1> QED BY <1>1, <1>3, <1>5, <1>11, <1>15

(* A change set goes onto the other stack.                                 *)
LEMMA AppendTyped ==
  ASSUME NEW stack \in Seq(Seq(Ops)), NEW ops \in Seq(Ops)
  PROVE  Append(stack, ops) \in Seq(Seq(Ops))
PROOF
<1> DEFINE S == Seq(Ops)
<1>1. stack \in Seq(S) /\ ops \in S
  OBVIOUS
<1> HIDE DEF S
<1>2. Append(stack, ops) \in Seq(S)
  BY <1>1
<1> QED BY <1>2 DEF S

LEMMA UndoInv ==
  ASSUME EventsInv, Undo
  PROVE  EventsInv'
PROOF
<1>1. /\ undoStack # << >> /\ Replay(Invert(Last(undoStack)))
      /\ undoStack' = Front(undoStack)
      /\ redoStack' = Append(redoStack, Last(undoStack))
  BY DEF Undo
<1>2. /\ base \in Docs /\ undoStack \in Seq(Seq(Ops)) /\ redoStack \in Seq(Seq(Ops))
      /\ UndoChain(undoStack, base) /\ RedoChain(redoStack, base)
      /\ ~open => changeSet = << >>
      /\ open \in BOOLEAN
  BY DEF EventsInv, EngineTyped, EngineSound
<1>3. Last(undoStack) \in Seq(Ops) /\ Front(undoStack) \in Seq(Seq(Ops))
  BY <1>1, <1>2, UndoPop
<1>4. PICK c \in Docs : UndoChain(Front(undoStack), c) /\ Leads(c, Last(undoStack), base)
  BY <1>1, <1>2, UndoPop
<1>5. Invert(Last(undoStack)) \in Seq(Ops) /\ Leads(base, Invert(Last(undoStack)), c)
  BY <1>3, <1>4, LeadsBack
<1>6. /\ doc' = c /\ base' = c /\ changeSet' = << >> /\ open' = open
      /\ PublishTyped' /\ CopiesSound'
  BY <1>1, <1>5, ReplayFacts
<1>7. RedoChain(Append(redoStack, Last(undoStack)), c)
  BY <1>2, <1>3, <1>4, RedoPush
<1>8. EngineTyped'
  <2>1. Append(redoStack, Last(undoStack)) \in Seq(Seq(Ops)) /\ << >> \in Seq(Ops)
    BY <1>2, <1>3, AppendTyped
  <2> QED BY <1>1, <1>2, <1>3, <1>6, <2>1 DEF EngineTyped
<1>9. EngineSound'
  <2>1. Leads(c, << >>, c)
    BY LeadsStays
  <2> QED BY <1>1, <1>4, <1>6, <1>7, <2>1 DEF EngineSound
<1> QED BY <1>6, <1>8, <1>9 DEF EventsInv

LEMMA RedoInv ==
  ASSUME EventsInv, Redo
  PROVE  EventsInv'
PROOF
<1>1. /\ redoStack # << >> /\ Replay(Last(redoStack))
      /\ redoStack' = Front(redoStack)
      /\ undoStack' = Append(undoStack, Last(redoStack))
  BY DEF Redo
<1>2. /\ base \in Docs /\ undoStack \in Seq(Seq(Ops)) /\ redoStack \in Seq(Seq(Ops))
      /\ UndoChain(undoStack, base) /\ RedoChain(redoStack, base)
      /\ open \in BOOLEAN
  BY DEF EventsInv, EngineTyped, EngineSound
<1>3. Last(redoStack) \in Seq(Ops) /\ Front(redoStack) \in Seq(Seq(Ops))
  BY <1>1, <1>2, RedoPop
<1>4. PICK c \in Docs : RedoChain(Front(redoStack), c) /\ Leads(base, Last(redoStack), c)
  BY <1>1, <1>2, RedoPop
<1>5. /\ doc' = c /\ base' = c /\ changeSet' = << >> /\ open' = open
      /\ PublishTyped' /\ CopiesSound'
  BY <1>1, <1>3, <1>4, ReplayFacts
<1>6. UndoChain(Append(undoStack, Last(redoStack)), c)
  BY <1>2, <1>3, <1>4, UndoPush
<1>7. EngineTyped'
  <2>1. Append(undoStack, Last(redoStack)) \in Seq(Seq(Ops)) /\ << >> \in Seq(Ops)
    BY <1>2, <1>3, AppendTyped
  <2> QED BY <1>1, <1>2, <1>3, <1>5, <2>1 DEF EngineTyped
<1>8. EngineSound'
  <2>1. Leads(c, << >>, c)
    BY LeadsStays
  <2> QED BY <1>1, <1>4, <1>5, <1>6, <2>1 DEF EngineSound
<1> QED BY <1>5, <1>7, <1>8 DEF EventsInv

LEMMA SubscribeInv ==
  ASSUME EventsInv, NEW s \in Subscribers, Subscribe(s)
  PROVE  EventsInv'
PROOF
<1>1. /\ Idle /\ ~open /\ s \notin ToSet(subscriptions)
      /\ subscriptions' = Append(subscriptions, s)
      /\ connected' = connected \cup {s}
      /\ commitCopy' = [t \in connected' |-> IF t = s THEN doc ELSE commitCopy[t]]
      /\ applyCopy' = [t \in connected' |-> IF t = s THEN doc ELSE applyCopy[t]]
      /\ UNCHANGED <<doc, base, open, changeSet, undoStack, redoStack, events, position>>
  BY DEF Subscribe, engineVars
<1>2. /\ subscriptions \in Seq(Subscribers) /\ Distinct(subscriptions)
      /\ connected \subseteq ToSet(subscriptions)
      /\ commitCopy \in [connected -> Docs] /\ applyCopy \in [connected -> Docs]
      /\ doc \in Docs
  BY DEF EventsInv, EngineTyped, PublishTyped
<1>3. doc = base /\ \A t \in connected : commitCopy[t] = base /\ applyCopy[t] = doc
  BY <1>1, IdleFacts
<1>4. /\ commitCopy' \in [connected' -> Docs]
      /\ \A t \in connected' : commitCopy'[t] = base
  BY <1>1, <1>2, <1>3
<1>5. /\ applyCopy' \in [connected' -> Docs]
      /\ \A t \in connected' : applyCopy'[t] = doc
  BY <1>1, <1>2, <1>3
<1>6. /\ subscriptions' \in Seq(Subscribers) /\ Distinct(subscriptions')
      /\ connected' \subseteq ToSet(subscriptions')
  <2> DEFINE N == Len(subscriptions)
  <2>1. /\ N \in Nat /\ DOMAIN subscriptions = 1..N
        /\ subscriptions' \in Seq(Subscribers)
        /\ DOMAIN subscriptions' = 1..(N + 1)
        /\ \A k \in 1..N : subscriptions'[k] = subscriptions[k]
        /\ subscriptions'[N + 1] = s
    BY <1>1, <1>2
  <2> HIDE DEF N
  <2>2. \A k \in 1..(N + 1) : k = N + 1 \/ k \in 1..N
    BY <2>1
  <2>3. \A k \in 1..N : subscriptions[k] # s /\ k \in 1..(N + 1)
    BY <1>1, <2>1 DEF ToSet
  <2>4. ASSUME NEW j \in 1..(N + 1), NEW k \in 1..(N + 1), subscriptions'[j] = subscriptions'[k]
        PROVE  j = k
    BY <1>2, <2>1, <2>2, <2>3, <2>4 DEF Distinct
  <2>5. Distinct(subscriptions')
    BY <2>1, <2>4 DEF Distinct
  <2>6. ASSUME NEW t \in connected' PROVE \E k \in 1..(N + 1) : subscriptions'[k] = t
    <3>1. CASE t = s
      <4>1. N + 1 \in 1..(N + 1)
        BY <2>1
      <4> QED BY <2>1, <3>1, <4>1
    <3>2. CASE t # s
      <4>1. PICK k \in 1..N : subscriptions[k] = t
        BY <1>1, <1>2, <2>1, <3>2 DEF ToSet
      <4> QED BY <2>1, <2>3, <4>1
    <3> QED BY <3>1, <3>2
  <2>7. connected' \subseteq ToSet(subscriptions')
    BY <2>1, <2>6 DEF ToSet
  <2> QED BY <2>1, <2>5, <2>7
<1>7. events' = << >>
  BY <1>1 DEF Idle
<1>8. EngineTyped' /\ EngineSound'
  BY <1>1 DEF EventsInv, EngineTyped, EngineSound
<1>9. PublishTyped'
  BY <1>1, <1>4, <1>5, <1>6 DEF EventsInv, PublishTyped
<1>10. /\ Follows(subscriptions', position', events', connected', commitCopy', base', CommitKinds)
       /\ Follows(subscriptions', position', events', connected', applyCopy', doc', ApplyKinds)
  <2>1. events' \in Seq(EventTypes) /\ \A k \in 1..Len(events') : FALSE
    BY <1>7, NoEvents
  <2>2. \A t \in connected' : commitCopy'[t] = base'
    BY <1>1, <1>4
  <2>3. \A t \in connected' : applyCopy'[t] = doc'
    BY <1>1, <1>5
  <2> QED BY <2>1, <2>2, <2>3, FollowsQuiet
<1>11. CopiesSound'
  BY <1>10 DEF CopiesSound
<1> QED BY <1>8, <1>9, <1>11 DEF EventsInv

LEMMA DisconnectInv ==
  ASSUME EventsInv, NEW s \in Subscribers, Disconnect(s)
  PROVE  EventsInv'
PROOF
<1>1. /\ Idle /\ connected' = connected \ {s}
      /\ commitCopy' = Restrict(commitCopy, connected')
      /\ applyCopy' = Restrict(applyCopy, connected')
      /\ UNCHANGED <<doc, base, open, changeSet, undoStack, redoStack, subscriptions,
                     events, position>>
  BY DEF Disconnect, engineVars
<1>2. /\ connected \subseteq ToSet(subscriptions)
      /\ commitCopy \in [connected -> Docs] /\ applyCopy \in [connected -> Docs]
  BY DEF EventsInv, PublishTyped
<1>3. \A t \in connected : commitCopy[t] = base /\ applyCopy[t] = doc
  BY <1>1, IdleFacts
<1>4. /\ commitCopy' \in [connected' -> Docs] /\ applyCopy' \in [connected' -> Docs]
      /\ \A t \in connected' : commitCopy'[t] = base /\ applyCopy'[t] = doc
  BY <1>1, <1>2, <1>3 DEF Restrict
<1>5. events' = << >>
  BY <1>1 DEF Idle
<1>6. EngineTyped' /\ EngineSound'
  BY <1>1 DEF EventsInv, EngineTyped, EngineSound
<1>7. PublishTyped'
  BY <1>1, <1>4 DEF EventsInv, PublishTyped
<1>8. /\ Follows(subscriptions', position', events', connected', commitCopy', base', CommitKinds)
      /\ Follows(subscriptions', position', events', connected', applyCopy', doc', ApplyKinds)
  <2>1. events' \in Seq(EventTypes) /\ \A k \in 1..Len(events') : FALSE
    BY <1>5, NoEvents
  <2>2. \A t \in connected' : commitCopy'[t] = base'
    BY <1>1, <1>4
  <2>3. \A t \in connected' : applyCopy'[t] = doc'
    BY <1>1, <1>4
  <2> QED BY <2>1, <2>2, <2>3, FollowsQuiet
<1>9. CopiesSound'
  BY <1>8 DEF CopiesSound
<1> QED BY <1>6, <1>7, <1>9 DEF EventsInv

(* No step leaves the invariant.                                           *)
LEMMA NextInv ==
  ASSUME MayThrow \subseteq {"write"}, EventsInv, [Next]_vars
  PROVE  EventsInv'
PROOF
<1>1. CASE UNCHANGED vars
  BY <1>1 DEF vars, engineVars, publishVars, copyVars, EventsInv, EngineTyped, PublishTyped,
              EngineSound, CopiesSound
<1>2. ASSUME NEW gone, Deliver(gone) PROVE EventsInv'
  BY <1>2, DeliverInv
<1>3. ASSUME NEW cell \in Cells, NEW value \in Values, Write(cell, value) PROVE EventsInv'
  BY <1>3, WriteInv
<1>4. ASSUME NEW s \in Subscribers, Subscribe(s) \/ Disconnect(s) PROVE EventsInv'
  BY <1>4, SubscribeInv, DisconnectInv
<1> QED BY <1>1, <1>2, <1>3, <1>4, EraseInv, PublishedInv, ThrowInv, BeginInv, FailWriteInv,
           CommitInv, RollbackInv, UndoInv, RedoInv DEF Next
-----------------------------------------------------------------------------
(* EventsInv holds in every state, if callbacks throw in writes only.      *)
THEOREM Invariant ==
  ASSUME MayThrow \subseteq {"write"}
  PROVE  Spec => []EventsInv
PROOF
<1>1. Init => EventsInv
  BY InitInv
<1>2. EventsInv /\ [Next]_vars => EventsInv'
  BY NextInv
<1> QED BY <1>1, <1>2, PTL DEF Spec

(* A subscriber that looks at AfterCommit events only has the committed    *)
(* document after every call, for any document, any subscribers that come  *)
(* and go, any history: publish skips nobody, whoever disconnects during   *)
(* the delivery, and a merged change set leads where the change set leads. *)
THEOREM CommitFollowed ==
  ASSUME MayThrow \subseteq {"write"}
  PROVE  Spec => []CommitCopiesFollow
PROOF
<1>1. EventsInv => CommitCopiesFollow
  BY IdleFacts DEF CommitCopiesFollow
<1> QED BY <1>1, Invariant, PTL

(* A subscriber that looks at AfterApply and Rollback events has the       *)
(* document as it is after every call, inside transactions too: what is    *)
(* published of a rollback leads back to where the transaction began.      *)
THEOREM ApplyFollowed ==
  ASSUME MayThrow \subseteq {"write"}
  PROVE  Spec => []ApplyCopiesFollow
PROOF
<1>1. EventsInv => ApplyCopiesFollow
  BY IdleFacts DEF ApplyCopiesFollow
<1> QED BY <1>1, Invariant, PTL
=============================================================================
