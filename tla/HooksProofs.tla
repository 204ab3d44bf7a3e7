----------------------------- MODULE HooksProofs -----------------------------
(***************************************************************************)
(* Theorems about Hooks, for any number of items, operations and nested    *)
(* hooks, if the hooks are careful.                                        *)
(*                                                                         *)
(* A change set is understood by where it leads: Leads(d, ops, e) says     *)
(* that it takes d to e and its inverse e to d.  The way back is not       *)
(* always the way there through the same documents: an inserted item comes *)
(* with its computed column, the change of that column behind it does      *)
(* nothing, and taking both back makes the column null first.  A hook's    *)
(* change of the item it waits for is in the change set before it is in    *)
(* the document: the change set leads to the document as it would be with  *)
(* what is pending (Expected).                                             *)
(***************************************************************************)
EXTENDS Hooks, ListLemmas, SequenceTheorems

Items == [a : Nat, u : Nat, c : Nat \X Nat]
Docs == [Ids -> Items]
Columns3 == {"a", "u", "c"}

(* A row, as the engine stores it; the value of a is never null. *)
Live(item) == item \in Items /\ item.a # 0
Row(item) == Live(item) /\ item.c = Computed(item.a, item.u)

Unique(d) == \A i, j \in Ids : i # j /\ d[i].u = d[j].u => d[i].u = Null

Ops ==
  [kind : {"ItemInserted", "ItemRemoved"}, id : Ids, item : Items]
    \cup [kind : {"ColumnUpdated"}, id : Ids, column : {"a", "u"}, old : Nat, new : Nat]
    \cup [kind : {"ColumnUpdated"}, id : Ids, column : {"c"},
          old : Nat \X Nat, new : Nat \X Nat]

(* What op says of the item it changes *)
Changes(old, op, new) ==
  \/ op.kind = "ItemInserted" /\ old = Absent /\ new = op.item /\ Live(new)
  \/ op.kind = "ItemRemoved" /\ new = Absent /\ old = op.item /\ Live(old)
  \/ /\ op.kind = "ColumnUpdated" /\ Live(old) /\ Live(new)
     /\ old[op.column] = op.old /\ new[op.column] = op.new
     /\ \A c \in Columns3 \ {op.column} : new[c] = old[c]

(* op leads from d to e. *)
Connects(d, op, e) ==
  /\ \A other \in Ids \ {op.id} : e[other] = d[other]
  /\ Changes(d[op.id], op, e[op.id])

(* ops leads from d to e, and its inverse back.                            *)
Leads(d, ops, e) ==
  /\ d \in Docs /\ Unique(d)
  /\ e \in Docs /\ Unique(e)
  /\ Apply(d, ops) = e
  /\ Apply(e, Invert(ops)) = d
-----------------------------------------------------------------------------
(* An update that waits for its hooks *)
Waits(frame) == frame.kind = "update" /\ frame.phase = "before"

(* The item of a waiting update with what its hooks have changed so far:   *)
(* all but the column of the update, and the computed one.                 *)
Merged(frame, item) ==
  [a |-> IF frame.column = "a" THEN item.a ELSE frame.new.a,
   u |-> IF frame.column = "u" THEN item.u ELSE frame.new.u,
   c |-> item.c]

(* The document the change set leads to: e is d with what is pending.      *)
Expected(d, stack, e) ==
  /\ e \in Docs
  /\ \A id \in Ids :
       \/ \E k \in DOMAIN stack :
            Waits(stack[k]) /\ stack[k].id = id /\ e[id] = Merged(stack[k], d[id])
       \/ /\ \A k \in DOMAIN stack : Waits(stack[k]) => stack[k].id # id
          /\ e[id] = d[id]

Journals == UNION {[S -> Items] : S \in SUBSET Ids}
Txs == [ops : Seq(Ops), journal : Journals]
Frames ==
  [kind : {"insert", "remove", "update"}, id : Ids, column : {"none", "a", "u"},
   old : Items, new : Items, phase : {"before", "after"}, tx : Txs]

Typed ==
  /\ nextId \in Nat \ {0}
  /\ open \in BOOLEAN
  /\ tx \in Txs
  /\ frames \in Seq(Frames)

(* A document as it is outside of change sets: computed columns are up to  *)
(* date, unique values unique, and ids not given out yet not used.         *)
SoundDoc(d, next) ==
  /\ d \in Docs /\ Unique(d)
  /\ \A id \in Ids : d[id] = Absent \/ Row(d[id])
  /\ \A id \in Ids : id >= next => d[id] = Absent

(* Nothing of a transaction is left when it has ended.                     *)
Ended == ~open => doc = base /\ tx = EmptyTx /\ frames = <<>>

(* The journal of the innermost write has what the transaction changed, as *)
(* it was when the transaction began.                                      *)
Covers(journal, b, d) ==
  \A id \in Ids : IF id \in DOMAIN journal THEN journal[id] = b[id] ELSE d[id] = b[id]

(* The writes under way are of different items, and wait for their hooks   *)
(* but for the innermost.                                                  *)
FramesApart(next, stack) ==
  /\ \A j, k \in DOMAIN stack : stack[j].id = stack[k].id => j = k
  /\ \A k \in DOMAIN stack : stack[k].id < next
  /\ \A k \in DOMAIN stack : k < Len(stack) => stack[k].phase = "before"

(* What a write that waits for its hooks is going to change is as it was   *)
(* when the write was validated.                                           *)
SoundFrame(d, frame) ==
  /\ d[frame.id] = frame.old
  /\ frame.kind = "insert" =>
       frame.column = "none" /\ frame.old = Absent /\ Row(frame.new)
  /\ frame.kind = "remove" =>
       frame.column = "none" /\ frame.new = Absent /\ Row(frame.old)
  /\ frame.kind = "update" =>
       /\ Row(frame.old) /\ Row(frame.new)
       /\ \/ frame.column = "a" /\ frame.new.u = frame.old.u
          \/ frame.column = "u" /\ UniqueFree(d, frame.id, frame.new)

FramesSound(d, stack) ==
  \A k \in DOMAIN stack : stack[k].phase = "before" => SoundFrame(d, stack[k])

(* Above an update, no unique value is taken.                              *)
UniquesLeft(stack) ==
  \A j, k \in DOMAIN stack :
    j < k /\ stack[j].kind = "update" /\ stack[k].phase = "before"
      => stack[k].new.u \in {Null, stack[k].old.u}

ChangeSetLeads(b, ops, d, stack) ==
  \E e \in Docs : Expected(d, stack, e) /\ Leads(b, ops, e)

HooksInv ==
  /\ Typed
  /\ SoundDoc(doc, nextId) /\ SoundDoc(base, nextId)
  /\ Ended
  /\ Covers(CurrentTx.journal, base, doc)
  /\ FramesApart(nextId, frames)
  /\ FramesSound(doc, frames)
  /\ UniquesLeft(frames)
  /\ ChangeSetLeads(base, CurrentTx.ops, doc, frames)
-----------------------------------------------------------------------------
(* Items and operations                                                    *)

(* Nothing is there, and that is not a row.                                *)
LEMMA AbsentFacts ==
  /\ Absent \in Items /\ Absent.a = 0 /\ Absent.u = Null /\ ~Live(Absent)
PROOF
  BY DEF Absent, Items, Live, Null, Computed

(* An item is its three columns.                                           *)
LEMMA ItemFacts ==
  ASSUME NEW x \in Items
  PROVE  /\ x.a \in Nat /\ x.u \in Nat /\ x.c \in Nat \X Nat
         /\ x = [a |-> x.a, u |-> x.u, c |-> x.c]
         /\ \A y \in Items : x.a = y.a /\ x.u = y.u /\ x.c = y.c => x = y
PROOF
<1>1. \A y \in Items : y = [a |-> y.a, u |-> y.u, c |-> y.c]
  BY DEF Items
<1> QED BY <1>1 DEF Items

(* An item whose column has another value                                  *)
LEMMA ColumnFacts ==
  ASSUME NEW x \in Items, NEW v, NEW column \in Columns3
  PROVE  [x EXCEPT ![column] = v] =
           [a |-> IF column = "a" THEN v ELSE x.a,
            u |-> IF column = "u" THEN v ELSE x.u,
            c |-> IF column = "c" THEN v ELSE x.c]
PROOF
<1>1. DOMAIN x = Columns3 /\ x = [f \in Columns3 |-> x[f]]
  BY DEF Items, Columns3
<1>2. [x EXCEPT ![column] = v] = [f \in Columns3 |-> IF f = column THEN v ELSE x[f]]
  BY <1>1
<1>3. [f \in Columns3 |-> IF f = column THEN v ELSE x[f]] =
        [a |-> IF column = "a" THEN v ELSE x.a,
         u |-> IF column = "u" THEN v ELSE x.u,
         c |-> IF column = "c" THEN v ELSE x.c]
  BY DEF Columns3
<1> QED BY <1>2, <1>3

(* An item that differs in one column is had by setting that column.       *)
LEMMA ColumnSet ==
  ASSUME NEW x \in Items, NEW y \in Items, NEW column \in Columns3,
         \A other \in Columns3 \ {column} : y[other] = x[other]
  PROVE  [x EXCEPT ![column] = y[column]] = y
PROOF
<1>1. \A z \in Items : DOMAIN z = Columns3 /\ z = [f \in Columns3 |-> z[f]]
  BY DEF Items, Columns3
<1> QED BY <1>1

(* The three kinds of operations                                           *)
LEMMA OpFacts ==
  ASSUME NEW op \in Ops
  PROVE  /\ op.id \in Ids
         /\ \/ op.kind \in {"ItemInserted", "ItemRemoved"} /\ op.item \in Items
            \/ /\ op.kind = "ColumnUpdated" /\ op.column \in {"a", "u"}
               /\ op.old \in Nat /\ op.new \in Nat
            \/ /\ op.kind = "ColumnUpdated" /\ op.column = "c"
               /\ op.old \in Nat \X Nat /\ op.new \in Nat \X Nat
PROOF
  BY DEF Ops

LEMMA OpsBuilt ==
  /\ \A id \in Ids, item \in Items : Inserted(id, item) \in Ops /\ Removed(id, item) \in Ops
  /\ \A id \in Ids, column \in {"a", "u"}, old, new \in Nat :
       Updated(id, column, old, new) \in Ops
  /\ \A id \in Ids, old, new \in Nat \X Nat : Updated(id, "c", old, new) \in Ops
PROOF
  BY DEF Ops, Inserted, Removed, Updated

(* An item that takes no one's unique value may be put anywhere.           *)
LEMMA PutUnique ==
  ASSUME NEW d \in Docs, Unique(d), NEW id \in Ids, NEW item \in Items,
         UniqueFree(d, id, item)
  PROVE  /\ [d EXCEPT ![id] = item] \in Docs
         /\ Unique([d EXCEPT ![id] = item])
PROOF
<1> DEFINE e == [d EXCEPT ![id] = item]
<1>1. e \in Docs /\ e[id] = item /\ \A other \in Ids \ {id} : e[other] = d[other]
  BY DEF Docs
<1> HIDE DEF e
<1>2. Unique(e)
  <2> SUFFICES ASSUME NEW i \in Ids, NEW j \in Ids, i # j, e[i].u = e[j].u PROVE e[i].u = Null
    BY DEF Unique
  <2>1. CASE i = id
    BY <1>1, <2>1 DEF UniqueFree
  <2>2. CASE j = id
    BY <1>1, <2>2 DEF UniqueFree
  <2>3. CASE i # id /\ j # id
    BY <1>1, <2>3 DEF Unique
  <2> QED BY <2>1, <2>2, <2>3
<1> QED BY <1>1, <1>2 DEF e

(* The inverse of an operation is one.                                     *)
LEMMA InvertOperationTyped ==
  ASSUME NEW op \in Ops
  PROVE  InvertOperation(op) \in Ops
PROOF
<1>1. CASE op.kind = "ItemInserted"
  BY <1>1, OpFacts, OpsBuilt DEF InvertOperation
<1>2. CASE op.kind = "ItemRemoved"
  BY <1>2, OpFacts, OpsBuilt DEF InvertOperation
<1>3. CASE op.kind = "ColumnUpdated"
  <2>1. InvertOperation(op) = Updated(op.id, op.column, op.new, op.old)
    BY <1>3 DEF InvertOperation
  <2> QED BY <1>3, <2>1, OpFacts, OpsBuilt
<1> QED BY <1>1, <1>2, <1>3, OpFacts

(* The inverse of an operation leads back.                                 *)
LEMMA InverseConnects ==
  ASSUME NEW d \in Docs, NEW e \in Docs, NEW op \in Ops, Connects(d, op, e)
  PROVE  InvertOperation(op) \in Ops /\ Connects(e, InvertOperation(op), d)
PROOF
<1> DEFINE inverse == InvertOperation(op)
<1>1. op.id \in Ids
  BY OpFacts
<1>2. CASE op.kind = "ItemInserted"
  <2>1. op.item \in Items
    BY <1>2, OpFacts
  <2>2. inverse = Removed(op.id, op.item)
    BY <1>2 DEF InvertOperation
  <2>3. inverse \in Ops /\ inverse.id = op.id /\ inverse.kind = "ItemRemoved"
        /\ inverse.item = op.item
    BY <1>1, <2>1, <2>2, OpsBuilt DEF Removed
  <2> HIDE DEF inverse
  <2>4. Connects(e, inverse, d)
    BY <1>1, <1>2, <2>3 DEF Connects, Changes
  <2> QED BY <2>3, <2>4 DEF inverse
<1>3. CASE op.kind = "ItemRemoved"
  <2>1. op.item \in Items
    BY <1>3, OpFacts
  <2>2. inverse = Inserted(op.id, op.item)
    BY <1>3 DEF InvertOperation
  <2>3. inverse \in Ops /\ inverse.id = op.id /\ inverse.kind = "ItemInserted"
        /\ inverse.item = op.item
    BY <1>1, <2>1, <2>2, OpsBuilt DEF Inserted
  <2> HIDE DEF inverse
  <2>4. Connects(e, inverse, d)
    BY <1>1, <1>3, <2>3 DEF Connects, Changes
  <2> QED BY <2>3, <2>4 DEF inverse
<1>4. CASE op.kind = "ColumnUpdated"
  <2>1. inverse = Updated(op.id, op.column, op.new, op.old)
    BY <1>4 DEF InvertOperation
  <2>2. inverse \in Ops
    <3>1. CASE op.column = "c"
      <4>1. op.old \in Nat \X Nat /\ op.new \in Nat \X Nat
        BY <1>4, <3>1, OpFacts
      <4> QED BY <1>1, <2>1, <3>1, <4>1, OpsBuilt
    <3>2. CASE op.column # "c"
      <4>1. op.column \in {"a", "u"} /\ op.old \in Nat /\ op.new \in Nat
        BY <1>4, <3>2, OpFacts
      <4> QED BY <1>1, <2>1, <4>1, OpsBuilt
    <3> QED BY <3>1, <3>2
  <2>3. inverse.id = op.id /\ inverse.kind = "ColumnUpdated" /\ inverse.column = op.column
        /\ inverse.old = op.new /\ inverse.new = op.old
    BY <2>1 DEF Updated
  <2> HIDE DEF inverse
  <2>4. Connects(e, inverse, d)
    BY <1>1, <1>4, <2>3 DEF Connects, Changes
  <2> QED BY <2>2, <2>4 DEF inverse
<1> QED BY <1>2, <1>3, <1>4, OpFacts

(* Applying an operation to the document it leads from gives the one it    *)
(* leads to: validation finds nothing to refuse.                           *)
LEMMA ApplyConnects ==
  ASSUME NEW d \in Docs, NEW e \in Docs, Unique(e), NEW op \in Ops, Connects(d, op, e)
  PROVE  ApplyOperation(d, op) = e
PROOF
<1> DEFINE id == op.id
<1>1. id \in Ids /\ d[id] \in Items /\ e[id] \in Items
  BY OpFacts DEF Docs
<1>2. d # Broken
  <2>1. DOMAIN d # {}
    BY <1>1 DEF Docs
  <2> QED BY <2>1 DEF Broken
<1>3. ASSUME NEW item, item = e[id] PROVE [d EXCEPT ![id] = item] = e
  BY <1>1, <1>3 DEF Connects, Docs
<1>4. ASSUME NEW item, item.u = e[id].u PROVE UniqueFree(d, id, item)
  BY <1>1, <1>4 DEF UniqueFree, Connects, Unique
<1>5. CASE op.kind = "ItemInserted"
  <2>1. op.item = e[id]
    BY <1>5 DEF Connects, Changes
  <2>2. UniqueFree(d, id, op.item) /\ [d EXCEPT ![id] = op.item] = e
    BY <2>1, <1>3, <1>4
  <2> QED BY <1>2, <1>5, <2>2 DEF ApplyOperation
<1>6. CASE op.kind = "ItemRemoved"
  <2>1. Absent = e[id]
    BY <1>6 DEF Connects, Changes
  <2>2. [d EXCEPT ![id] = Absent] = e
    BY <2>1, <1>3
  <2> QED BY <1>2, <1>6, <2>2 DEF ApplyOperation
<1>7. CASE op.kind = "ColumnUpdated"
  <2> DEFINE new == [d[id] EXCEPT ![op.column] = op.new]
  <2>1. /\ op.column \in Columns3 /\ Live(d[id]) /\ e[id][op.column] = op.new
        /\ \A c \in Columns3 \ {op.column} : e[id][c] = d[id][c]
    BY <1>7, OpFacts DEF Connects, Changes, Columns3
  <2>2. new = e[id]
    BY SMTT(30), <1>1, <2>1, ColumnSet
  <2> HIDE DEF new
  <2>3. Present(d, id)
    BY <2>1, AbsentFacts DEF Present
  <2>4. UniqueFree(d, id, new) /\ [d EXCEPT ![id] = new] = e
    BY <2>2, <1>3, <1>4
  <2> QED BY <1>2, <1>7, <2>3, <2>4 DEF ApplyOperation, new
<1> QED BY <1>5, <1>6, <1>7, OpFacts

(* Applying an operation to any document gives a document, or throws.      *)
LEMMA ApplyTyped ==
  ASSUME NEW d \in Docs \cup {Broken}, NEW op \in Ops
  PROVE  ApplyOperation(d, op) \in Docs \cup {Broken}
PROOF
<1>1. CASE d = Broken
  BY <1>1 DEF ApplyOperation
<1>2. CASE d # Broken
  <2>1. d \in Docs /\ op.id \in Ids /\ d[op.id] \in Items
    BY <1>2, OpFacts DEF Docs
  <2>2. \A item \in Items : [d EXCEPT ![op.id] = item] \in Docs
    BY <2>1 DEF Docs
  <2>3. CASE op.kind = "ItemInserted"
    <3>1. op.item \in Items
      BY <2>3, OpFacts
    <3> QED BY <1>2, <2>2, <2>3, <3>1 DEF ApplyOperation
  <2>4. CASE op.kind = "ItemRemoved"
    BY <1>2, <2>2, <2>4, AbsentFacts DEF ApplyOperation
  <2>5. CASE op.kind = "ColumnUpdated"
    <3> DEFINE new == [d[op.id] EXCEPT ![op.column] = op.new]
    <3>1. new \in Items
      <4>1. CASE op.column = "c"
        <5>1. op.new \in Nat \X Nat
          BY <2>5, <4>1, OpFacts
        <5>2. new = [a |-> d[op.id].a, u |-> d[op.id].u, c |-> op.new]
          BY ZenonT(30), <2>1, <4>1, ColumnFacts DEF Columns3
        <5> QED BY <2>1, <5>1, <5>2, ItemFacts DEF Items
      <4>2. CASE op.column = "a"
        <5>1. op.new \in Nat
          BY <2>5, <4>2, OpFacts
        <5>2. new = [a |-> op.new, u |-> d[op.id].u, c |-> d[op.id].c]
          BY <2>1, <4>2, ColumnFacts DEF Columns3
        <5> QED BY <2>1, <5>1, <5>2, ItemFacts DEF Items
      <4>3. CASE op.column = "u"
        <5>1. op.new \in Nat
          BY <2>5, <4>3, OpFacts
        <5>2. new = [a |-> d[op.id].a, u |-> op.new, c |-> d[op.id].c]
          BY <2>1, <4>3, ColumnFacts DEF Columns3
        <5> QED BY <2>1, <5>1, <5>2, ItemFacts DEF Items
      <4> QED BY <2>5, <4>1, <4>2, <4>3, OpFacts
    <3>2. [d EXCEPT ![op.id] = new] \in Docs
      BY <2>2, <3>1
    <3> HIDE DEF new
    <3> QED BY <1>2, <2>5, <3>2 DEF ApplyOperation, new
  <2> QED BY <2>3, <2>4, <2>5, OpFacts
<1> QED BY <1>1, <1>2
-----------------------------------------------------------------------------
(* Where change sets lead                                                  *)

(* The recursion of Apply over ops, and that it has a solution             *)
AppliesTo(iter, d, ops) ==
  iter = [s \in SUBSET (DOMAIN ops) |->
            IF s = {} THEN d ELSE ApplyOperation(iter[s \ {Max(s)}], ops[Max(s)])]

LEMMA ApplyRecursion ==
  ASSUME NEW d \in Docs, NEW ops \in Seq(Ops)
  PROVE  \E iter : AppliesTo(iter, d, ops)
PROOF
<1> DEFINE N == Len(ops)
<1> DEFINE Copies == Docs \cup {Broken}
<1> DEFINE F == [p \in Copies \X (1..N) |-> ApplyOperation(p[1], ops[p[2]])]
<1>1. N \in Nat /\ DOMAIN ops = 1..N
  OBVIOUS
<1>2. F \in [Copies \X (1..N) -> Copies]
  <2>1. ASSUME NEW p \in Copies \X (1..N) PROVE ApplyOperation(p[1], ops[p[2]]) \in Copies
    <3>1. ops[p[2]] \in Ops /\ p[1] \in Copies
      BY <1>1
    <3> QED BY <3>1, ApplyTyped
  <2> QED BY <2>1
<1>3. ASSUME NEW e \in Copies, NEW n \in 1..N PROVE F[<<e, n>>] = ApplyOperation(e, ops[n])
  OBVIOUS
<1> HIDE DEF F
<1>4. d \in Copies
  OBVIOUS
<1> HIDE DEF Copies
<1>5. PICK iter \in [SUBSET (1..N) -> Copies] : Recurs(iter, N, d, F)
  BY <1>1, <1>2, <1>4, FoldExists
<1>6. ASSUME NEW s \in SUBSET (1..N)
      PROVE  iter[s] = IF s = {} THEN d ELSE ApplyOperation(iter[s \ {Max(s)}], ops[Max(s)])
  <2>1. CASE s = {}
    BY <2>1, <1>5 DEF Recurs
  <2>2. CASE s # {}
    <3>1. Max(s) \in 1..N
      BY <1>1, <2>2, MaxInside
    <3>2. iter[s \ {Max(s)}] \in Copies
      BY <1>5
    <3>3. iter[s] = F[<<iter[s \ {Max(s)}], Max(s)>>]
      BY <1>5, <2>2 DEF Recurs
    <3> QED BY <2>2, <3>1, <3>2, <3>3, <1>3
  <2> QED BY <2>1, <2>2
<1>7. AppliesTo(iter, d, ops)
  BY <1>1, <1>5, <1>6 DEF AppliesTo
<1> QED BY <1>7

(* The documents, or throws, that applying ops goes through from d         *)
Run(docs, d, ops) ==
  /\ docs[0] = d
  /\ \A n \in 1..Len(ops) : docs[n] = ApplyOperation(docs[n - 1], ops[n])

(* Applying a change set ends where its run does.                          *)
LEMMA RunEnds ==
  ASSUME NEW d \in Docs, NEW ops \in Seq(Ops), NEW docs, Run(docs, d, ops)
  PROVE  Apply(d, ops) = docs[Len(ops)]
PROOF
<1> DEFINE N == Len(ops)
<1> DEFINE I == CHOOSE iter :
      iter = [s \in SUBSET (DOMAIN ops) |->
                IF s = {} THEN d ELSE ApplyOperation(iter[s \ {Max(s)}], ops[Max(s)])]
<1>1. N \in Nat /\ DOMAIN ops = 1..N
  OBVIOUS
<1>2. Apply(d, ops) = I[DOMAIN ops]
  BY DEF Apply, FoldLeft, MapThenFoldSet
<1>3. AppliesTo(I, d, ops)
  BY ApplyRecursion DEF AppliesTo
<1> HIDE DEF I
<1>4. I[1..0] = d
  <2>1. 1..0 = {} /\ {} \in SUBSET (DOMAIN ops)
    OBVIOUS
  <2> QED BY <1>3, <2>1 DEF AppliesTo
<1>5. ASSUME NEW n \in 1..N PROVE I[1..n] = ApplyOperation(I[1..(n - 1)], ops[n])
  <2>1. 1..n \in SUBSET (DOMAIN ops)
    BY <1>1
  <2>2. Max(1..n) = n /\ (1..n) \ {n} = 1..(n - 1) /\ 1..n # {}
    BY SMTT(30), LastPosition
  <2> QED BY <1>3, <2>1, <2>2 DEF AppliesTo
<1> DEFINE T == {n \in 0..N : I[1..n] = docs[n]}
<1>6. 0 \in T
  BY <1>1, <1>4 DEF Run
<1>7. ASSUME NEW n \in 0..(N - 1), n \in T PROVE n + 1 \in T
  <2>1. n + 1 \in 1..N /\ (n + 1) - 1 = n /\ n + 1 \in 0..N /\ n \in 0..N
    BY <1>1
  <2>2. I[1..(n + 1)] = ApplyOperation(docs[n], ops[n + 1])
    BY <2>1, <1>5, <1>7
  <2>3. docs[n + 1] = ApplyOperation(docs[n], ops[n + 1])
    BY <2>1 DEF Run
  <2> QED BY <2>1, <2>2, <2>3
<1> HIDE DEF T
<1>8. N \in T
  <2>1. 0..N \subseteq T
    BY <1>1, <1>6, <1>7, Induction
  <2> QED BY <2>1, <1>1
<1> QED BY <1>1, <1>2, <1>8 DEF T

(* Every change set has a run.                                             *)
LEMMA RunExists ==
  ASSUME NEW d \in Docs, NEW ops \in Seq(Ops)
  PROVE  \E docs : Run(docs, d, ops)
PROOF
<1> DEFINE N == Len(ops)
<1>1. N \in Nat /\ DOMAIN ops = 1..N
  OBVIOUS
<1>2. PICK iter : AppliesTo(iter, d, ops)
  BY ApplyRecursion
<1> DEFINE docs == [n \in 0..N |-> iter[1..n]]
<1>3. docs[0] = d
  <2>1. 1..0 = {} /\ {} \in SUBSET (DOMAIN ops) /\ 0 \in 0..N
    BY <1>1
  <2> QED BY <1>2, <2>1 DEF AppliesTo
<1>4. ASSUME NEW n \in 1..N PROVE docs[n] = ApplyOperation(docs[n - 1], ops[n])
  <2>1. 1..n \in SUBSET (DOMAIN ops) /\ n \in 0..N /\ n - 1 \in 0..N
    BY <1>1
  <2>2. Max(1..n) = n /\ (1..n) \ {n} = 1..(n - 1) /\ 1..n # {}
    BY SMTT(30), LastPosition
  <2>3. iter[1..n] = ApplyOperation(iter[1..(n - 1)], ops[n])
    BY <1>2, <2>1, <2>2 DEF AppliesTo
  <2> QED BY <2>1, <2>3
<1> HIDE DEF docs
<1> QED BY <1>3, <1>4 DEF Run

(* An operation at the end is applied last.                                *)
LEMMA ApplyAppend ==
  ASSUME NEW d \in Docs, NEW ops \in Seq(Ops), NEW op \in Ops
  PROVE  Apply(d, Append(ops, op)) = ApplyOperation(Apply(d, ops), op)
PROOF
<1> DEFINE N == Len(ops)
<1> DEFINE more == Append(ops, op)
<1>1. /\ N \in Nat /\ Len(more) = N + 1 /\ more \in Seq(Ops) /\ more[N + 1] = op
      /\ \A n \in 1..N : more[n] = ops[n]
  OBVIOUS
<1>2. PICK docs : Run(docs, d, ops)
  BY RunExists
<1>3. Apply(d, ops) = docs[N]
  BY <1>2, RunEnds
<1> DEFINE longer ==
      [n \in 0..(N + 1) |-> IF n = N + 1 THEN ApplyOperation(docs[N], op) ELSE docs[n]]
<1>4. longer[0] = d /\ longer[N + 1] = ApplyOperation(docs[N], op)
  BY <1>1, <1>2 DEF Run
<1>5. ASSUME NEW n \in 1..(N + 1) PROVE longer[n] = ApplyOperation(longer[n - 1], more[n])
  <2>1. n - 1 \in 0..(N + 1) /\ n \in 0..(N + 1) /\ n - 1 # N + 1
    BY <1>1
  <2>2. longer[n - 1] = docs[n - 1]
    BY <2>1
  <2>3. CASE n = N + 1
    BY <1>1, <1>4, <2>2, <2>3
  <2>4. CASE n # N + 1
    <3>1. n \in 1..N /\ longer[n] = docs[n] /\ more[n] = ops[n]
      BY <1>1, <2>1, <2>4
    <3> QED BY <1>2, <2>2, <3>1 DEF Run
  <2> QED BY <2>3, <2>4
<1> HIDE DEF longer, more
<1>6. Run(longer, d, more)
  BY <1>1, <1>4, <1>5 DEF Run
<1>7. Apply(d, more) = longer[N + 1]
  BY <1>1, <1>6, RunEnds
<1> QED BY <1>3, <1>4, <1>7 DEF more

(* The inverse of a change set is a change set.                            *)
LEMMA InvertTyped ==
  ASSUME NEW ops \in Seq(Ops)
  PROVE  /\ Invert(ops) \in Seq(Ops) /\ Len(Invert(ops)) = Len(ops)
         /\ \A n \in 1..Len(ops) :
              Invert(ops)[n] = InvertOperation(ops[Len(ops) - n + 1])
PROOF
<1> DEFINE N == Len(ops)
<1> DEFINE flipped == [k \in DOMAIN ops |-> InvertOperation(ops[k])]
<1>1. N \in Nat /\ DOMAIN ops = 1..N
  OBVIOUS
<1>2. \A n \in 1..N : InvertOperation(ops[n]) \in Ops
  BY <1>1, InvertOperationTyped
<1>3. flipped \in [1..N -> Ops]
  BY <1>1, <1>2
<1>4. flipped \in Seq(Ops) /\ Len(flipped) = N
  BY <1>1, <1>3
<1>5. Invert(ops) = [n \in 1..N |-> flipped[N - n + 1]]
  BY <1>4 DEF Invert, Reverse
<1>6. \A n \in 1..N : N - n + 1 \in 1..N
  BY <1>1
<1>7. /\ Invert(ops) \in [1..N -> Ops]
      /\ \A n \in 1..N : Invert(ops)[n] = InvertOperation(ops[N - n + 1])
  BY <1>1, <1>3, <1>5, <1>6
<1> QED BY <1>1, <1>7

(* What is at the end of a change set its inverse takes back first.        *)
LEMMA ApplyInverse ==
  ASSUME NEW ops \in Seq(Ops), NEW op \in Ops, NEW f \in Docs, NEW e \in Docs,
         ApplyOperation(f, InvertOperation(op)) = e
  PROVE  Apply(f, Invert(Append(ops, op))) = Apply(e, Invert(ops))
PROOF
<1> DEFINE N == Len(ops)
<1> DEFINE more == Append(ops, op)
<1> DEFINE back == Invert(ops)
<1> DEFINE backMore == Invert(more)
<1>1. /\ N \in Nat /\ Len(more) = N + 1 /\ more \in Seq(Ops) /\ more[N + 1] = op
      /\ \A n \in 1..N : more[n] = ops[n]
  OBVIOUS
<1> HIDE DEF more
<1>2. /\ back \in Seq(Ops) /\ Len(back) = N
      /\ \A n \in 1..N : back[n] = InvertOperation(ops[N - n + 1])
  BY InvertTyped
<1>3. /\ backMore \in Seq(Ops) /\ Len(backMore) = N + 1
      /\ \A n \in 1..(N + 1) : backMore[n] = InvertOperation(more[N + 1 - n + 1])
  BY <1>1, InvertTyped
<1>4. backMore[1] = InvertOperation(op)
  <2>1. 1 \in 1..(N + 1) /\ N + 1 - 1 + 1 = N + 1
    BY <1>1
  <2> QED BY <1>1, <1>3, <2>1
<1>5. ASSUME NEW n \in 2..(N + 1) PROVE backMore[n] = back[n - 1]
  <2>1. /\ n \in 1..(N + 1) /\ n - 1 \in 1..N /\ N + 1 - n + 1 \in 1..N
        /\ N - (n - 1) + 1 = N + 1 - n + 1
    BY <1>1
  <2>2. more[N + 1 - n + 1] = ops[N + 1 - n + 1]
    BY <1>1, <2>1
  <2>3. backMore[n] = InvertOperation(more[N + 1 - n + 1])
    BY <1>3, <2>1
  <2>4. back[n - 1] = InvertOperation(ops[N - (n - 1) + 1])
    BY <1>2, <2>1
  <2> QED BY <2>1, <2>2, <2>3, <2>4
<1> HIDE DEF back, backMore
<1>6. PICK docs : Run(docs, e, back)
  BY <1>2, RunExists
<1>7. Apply(e, back) = docs[N]
  BY <1>2, <1>6, RunEnds
<1> DEFINE longer == [n \in 0..(N + 1) |-> IF n = 0 THEN f ELSE docs[n - 1]]
<1>8. longer[0] = f /\ longer[N + 1] = docs[N]
  BY <1>1
<1>9. ASSUME NEW n \in 1..(N + 1) PROVE longer[n] = ApplyOperation(longer[n - 1], backMore[n])
  <2>1. n - 1 \in 0..(N + 1) /\ n \in 0..(N + 1) /\ n # 0
    BY <1>1
  <2>2. longer[n] = docs[n - 1]
    BY <2>1
  <2>3. CASE n = 1
    <3>1. docs[0] = e
      BY <1>6 DEF Run
    <3> QED BY <1>4, <1>8, <2>2, <2>3, <3>1
  <2>4. CASE n # 1
    <3>1. n \in 2..(N + 1) /\ n - 1 \in 1..N /\ n - 1 # 0
      BY <1>1, <2>4
    <3>2. longer[n - 1] = docs[(n - 1) - 1]
      BY <2>1, <3>1
    <3>3. docs[n - 1] = ApplyOperation(docs[(n - 1) - 1], back[n - 1])
      BY <1>2, <1>6, <3>1 DEF Run
    <3> QED BY <1>5, <2>2, <3>1, <3>2, <3>3
  <2> QED BY <2>3, <2>4
<1> HIDE DEF longer
<1>10. Run(longer, f, backMore)
  BY <1>3, <1>8, <1>9 DEF Run
<1>11. Apply(f, backMore) = longer[N + 1]
  BY <1>3, <1>10, RunEnds
<1> QED BY <1>7, <1>8, <1>11 DEF back, backMore, more

(* The empty change set leads nowhere.                                     *)
LEMMA LeadsStays ==
  ASSUME NEW d \in Docs, Unique(d)
  PROVE  Leads(d, << >>, d)
PROOF
<1> DEFINE docs == [n \in 0..0 |-> d]
<1>1. << >> \in Seq(Ops) /\ Len(<< >>) = 0
  OBVIOUS
<1>2. docs[0] = d
  OBVIOUS
<1> HIDE DEF docs
<1>3. \A ops \in Seq(Ops) : Len(ops) = 0 => Run(docs, d, ops)
  BY <1>2 DEF Run
<1>4. Invert(<< >>) \in Seq(Ops) /\ Len(Invert(<< >>)) = 0
  BY <1>1, InvertTyped
<1>5. \A ops \in Seq(Ops) : Len(ops) = 0 => Apply(d, ops) = d
  BY <1>2, <1>3, RunEnds
<1> QED BY <1>1, <1>4, <1>5 DEF Leads

(* An operation that leads on from where the change set leads              *)
LEMMA LeadsAppend ==
  ASSUME NEW d, NEW ops \in Seq(Ops), NEW e, Leads(d, ops, e),
         NEW op \in Ops, NEW f \in Docs, Unique(f), Connects(e, op, f)
  PROVE  Append(ops, op) \in Seq(Ops) /\ Leads(d, Append(ops, op), f)
PROOF
<1>1. d \in Docs /\ Unique(d) /\ e \in Docs /\ Unique(e) /\ Apply(d, ops) = e
      /\ Apply(e, Invert(ops)) = d
  BY DEF Leads
<1>2. Append(ops, op) \in Seq(Ops)
  OBVIOUS
<1>3. ApplyOperation(e, op) = f
  BY <1>1, ApplyConnects
<1>4. ApplyOperation(f, InvertOperation(op)) = e
  BY <1>1, InverseConnects, ApplyConnects
<1>5. Apply(d, Append(ops, op)) = f
  BY <1>1, <1>3, ApplyAppend
<1>6. Apply(f, Invert(Append(ops, op))) = d
  BY <1>1, <1>4, ApplyInverse
<1> QED BY <1>1, <1>2, <1>5, <1>6 DEF Leads

(* The two operations of an insertion: going there, the second changes     *)
(* nothing; coming back, it makes the computed column null, and then the   *)
(* item is removed as it is.                                               *)
LEMMA LeadsInsert ==
  ASSUME NEW d, NEW ops \in Seq(Ops), NEW e, Leads(d, ops, e),
         NEW id \in Ids, NEW item \in Items, e[id] = Absent, Live(item),
         UniqueFree(e, id, item),
         NEW f, f = [e EXCEPT ![id] = item],
         NEW first, first = Inserted(id, item),
         NEW second, second = Updated(id, "c", Absent.c, item.c)
  PROVE  /\ Append(Append(ops, first), second) \in Seq(Ops)
         /\ Leads(d, Append(Append(ops, first), second), f)
PROOF
<1>1. d \in Docs /\ Unique(d) /\ e \in Docs /\ Unique(e) /\ Apply(d, ops) = e
      /\ Apply(e, Invert(ops)) = d
  BY DEF Leads
<1>2. f \in Docs /\ Unique(f) /\ f[id] = item /\ \A other \in Ids \ {id} : f[other] = e[other]
  <2>1. f \in Docs /\ Unique(f)
    BY <1>1, PutUnique
  <2> QED BY <1>1, <2>1 DEF Docs
<1>3. Absent.c \in Nat \X Nat /\ item.c \in Nat \X Nat
  BY AbsentFacts, ItemFacts
<1>4. /\ first \in Ops /\ first.kind = "ItemInserted" /\ first.id = id /\ first.item = item
      /\ second \in Ops /\ second.kind = "ColumnUpdated" /\ second.id = id
      /\ second.column = "c" /\ second.old = Absent.c /\ second.new = item.c
  BY <1>3, OpsBuilt DEF Inserted, Updated
<1>5. Append(ops, first) \in Seq(Ops) /\ Append(Append(ops, first), second) \in Seq(Ops)
  BY <1>4
<1>6. ApplyOperation(e, first) = f
  <2>1. Connects(e, first, f)
    BY <1>2, <1>4 DEF Connects, Changes
  <2> QED BY <1>1, <1>2, <1>4, <2>1, ApplyConnects
<1>7. ApplyOperation(f, second) = f
  <2>1. [item EXCEPT !["c"] = item.c] = item
    <3>1. item["c"] = item.c
      OBVIOUS
    <3>2. "c" \in Columns3
      BY DEF Columns3
    <3>3. [item EXCEPT !["c"] = item["c"]] = item
      BY <3>2, ColumnSet
    <3> QED BY <3>1, <3>3
  <2>2. f # Broken
    <3>1. DOMAIN f # {}
      BY <1>2 DEF Docs
    <3> QED BY <3>1 DEF Broken
  <2>3. Present(f, id)
    BY <1>2, AbsentFacts DEF Present
  <2>4. [f EXCEPT ![id] = item] = f
    BY <1>2 DEF Docs
  <2>5. [f[id] EXCEPT !["c"] = second.new] = item
    BY <1>2, <1>4, <2>1
  <2> QED BY <1>4, <2>2, <2>3, <2>4, <2>5 DEF ApplyOperation
<1>8. Apply(d, Append(Append(ops, first), second)) = f
  <2> DEFINE more == Append(ops, first)
  <2>1. Apply(d, more) = f
    BY <1>1, <1>4, <1>6, ApplyAppend
  <2>2. more \in Seq(Ops)
    BY <1>5
  <2> HIDE DEF more
  <2>3. Apply(d, Append(more, second)) = ApplyOperation(Apply(d, more), second)
    BY <1>1, <1>4, <2>2, ApplyAppend
  <2> QED BY <1>7, <2>1, <2>3 DEF more
<1> DEFINE half == [a |-> item.a, u |-> item.u, c |-> Absent.c]
<1> DEFINE h == [e EXCEPT ![id] = half]
<1>9. half \in Items /\ Live(half) /\ half.u = item.u /\ half["c"] = Absent.c
      /\ half["a"] = item["a"] /\ half["u"] = item["u"]
  BY <1>3, ItemFacts DEF Items, Live
<1> HIDE DEF half
<1>10. h \in Docs /\ Unique(h) /\ h[id] = half /\ \A other \in Ids \ {id} : h[other] = e[other]
  <2>1. UniqueFree(e, id, half)
    BY <1>9 DEF UniqueFree
  <2>2. h \in Docs /\ Unique(h)
    BY <1>1, <1>9, <2>1, PutUnique
  <2> QED BY <1>1, <2>2 DEF Docs
<1> HIDE DEF h
<1>11. ApplyOperation(f, InvertOperation(second)) = h
  <2> DEFINE op == Updated(id, "c", item.c, Absent.c)
  <2>1. InvertOperation(second) = op
    BY <1>4 DEF InvertOperation
  <2>2. /\ op \in Ops /\ op.kind = "ColumnUpdated" /\ op.id = id
        /\ op.column = "c" /\ op.old = item.c /\ op.new = Absent.c
    BY <1>3, OpsBuilt DEF Updated
  <2> HIDE DEF op
  <2>3. Changes(item, op, half)
    <3>1. item["c"] = item.c
      OBVIOUS
    <3>2. \A other \in Columns3 \ {"c"} : half[other] = item[other]
      BY <1>9 DEF Columns3
    <3> QED BY <1>9, <2>2, <3>1, <3>2 DEF Changes
  <2>4. Connects(f, op, h)
    BY <1>2, <1>10, <2>2, <2>3 DEF Connects
  <2> QED BY <1>2, <1>10, <2>1, <2>2, <2>4, ApplyConnects
<1>12. ApplyOperation(h, InvertOperation(first)) = e
  <2>1. InvertOperation(first) = Removed(id, item)
    BY <1>4 DEF InvertOperation
  <2>2. Removed(id, item).kind = "ItemRemoved" /\ Removed(id, item).id = id
    BY DEF Removed
  <2>3. h # Broken
    <3>1. DOMAIN h # {}
      BY <1>10 DEF Docs
    <3> QED BY <3>1 DEF Broken
  <2>4. [h EXCEPT ![id] = Absent] = e
    BY <1>1, <1>10 DEF Docs
  <2> QED BY <2>1, <2>2, <2>3, <2>4 DEF ApplyOperation
<1>13. Apply(f, Invert(Append(Append(ops, first), second))) = d
  <2> DEFINE more == Append(ops, first)
  <2>1. Apply(h, Invert(more)) = Apply(e, Invert(ops))
    BY <1>1, <1>4, <1>10, <1>12, ApplyInverse
  <2>2. more \in Seq(Ops)
    BY <1>5
  <2> HIDE DEF more
  <2>3. Apply(f, Invert(Append(more, second))) = Apply(h, Invert(more))
    BY <1>2, <1>4, <1>10, <1>11, <2>2, ApplyInverse
  <2> QED BY <1>1, <2>1, <2>3 DEF more
<1> QED BY <1>1, <1>2, <1>5, <1>8, <1>13 DEF Leads
-----------------------------------------------------------------------------
(* Transactions and the writes under way                                   *)

LEMMA TxFacts ==
  /\ EmptyTx \in Txs /\ EmptyTx.ops = <<>> /\ DOMAIN EmptyTx.journal = {}
  /\ \A t \in Txs : /\ t.ops \in Seq(Ops) /\ t.journal \in Journals
                    /\ t = [ops |-> t.ops, journal |-> t.journal]
  /\ \A ops \in Seq(Ops), journal \in Journals : [ops |-> ops, journal |-> journal] \in Txs
PROOF
<1> DEFINE S == Seq(Ops)
<1>1. << >> \in S
  OBVIOUS
<1>2. << >> \in Journals /\ DOMAIN << >> = {}
  <2>1. << >> \in [{} -> Items] /\ {} \in SUBSET Ids
    OBVIOUS
  <2> QED BY <2>1 DEF Journals
<1> HIDE DEF S
<1>3. EmptyTx \in [ops : S, journal : Journals] /\ EmptyTx.ops = <<>>
      /\ EmptyTx.journal = << >>
  BY <1>1, <1>2 DEF EmptyTx
<1>4. \A t \in [ops : S, journal : Journals] :
        t.ops \in S /\ t.journal \in Journals /\ t = [ops |-> t.ops, journal |-> t.journal]
  OBVIOUS
<1>5. \A ops \in S, journal \in Journals :
        [ops |-> ops, journal |-> journal] \in [ops : S, journal : Journals]
  OBVIOUS
<1>6. Txs = [ops : S, journal : Journals]
  BY DEF Txs, S
<1>7. /\ EmptyTx \in Txs /\ EmptyTx.ops = <<>> /\ DOMAIN EmptyTx.journal = {}
      /\ \A t \in Txs : /\ t.ops \in S /\ t.journal \in Journals
                        /\ t = [ops |-> t.ops, journal |-> t.journal]
      /\ \A ops \in S, journal \in Journals : [ops |-> ops, journal |-> journal] \in Txs
  BY <1>2, <1>3, <1>4, <1>5, <1>6
<1> QED BY <1>7 DEF S

LEMMA FrameFacts ==
  ASSUME NEW f \in Frames
  PROVE  /\ f.kind \in {"insert", "remove", "update"} /\ f.id \in Ids
         /\ f.column \in {"none", "a", "u"} /\ f.old \in Items /\ f.new \in Items
         /\ f.phase \in {"before", "after"} /\ f.tx \in Txs
         /\ f = [kind |-> f.kind, id |-> f.id, column |-> f.column, old |-> f.old,
                 new |-> f.new, phase |-> f.phase, tx |-> f.tx]
PROOF
  BY DEF Frames

(* The transaction of the innermost write under way, and the write         *)
LEMMA CurrentFacts ==
  ASSUME Typed
  PROVE  /\ CurrentTx \in Txs
         /\ DOMAIN frames = 1..Len(frames) /\ Len(frames) \in Nat
         /\ \A k \in DOMAIN frames : frames[k] \in Frames
         /\ frames = <<>> => CurrentTx = tx
         /\ frames # <<>> =>
              /\ Len(frames) \in DOMAIN frames /\ Top = frames[Len(frames)]
              /\ CurrentTx = frames[Len(frames)].tx
PROOF
<1>1. frames \in Seq(Frames) /\ tx \in Txs
  BY DEF Typed
<1>2. DOMAIN frames = 1..Len(frames) /\ Len(frames) \in Nat
      /\ (frames # <<>> => Len(frames) > 0)
      /\ \A k \in DOMAIN frames : frames[k] \in Frames
  BY <1>1
<1>3. CASE frames = <<>>
  BY <1>1, <1>2, <1>3 DEF CurrentTx, InHook
<1>4. CASE frames # <<>>
  <2>1. Len(frames) \in DOMAIN frames
    BY <1>2, <1>4
  <2>2. Top = frames[Len(frames)] /\ CurrentTx = frames[Len(frames)].tx
    BY <1>4 DEF Top, Last, CurrentTx, InHook
  <2>3. frames[Len(frames)].tx \in Txs
    BY <1>2, <2>1, FrameFacts
  <2> QED BY <1>2, <1>4, <2>1, <2>2, <2>3
<1> QED BY <1>3, <1>4

(* Nothing waits: the change set leads to the document.                    *)
LEMMA NothingPending ==
  ASSUME NEW d \in Docs
  PROVE  /\ Expected(d, <<>>, d)
         /\ \A e \in Docs : Expected(d, <<>>, e) => e = d
PROOF
<1>1. DOMAIN << >> = {}
  OBVIOUS
<1>2. Expected(d, <<>>, d)
  BY <1>1 DEF Expected
<1>3. ASSUME NEW e \in Docs, Expected(d, <<>>, e) PROVE e = d
  <2>1. \A id \in Ids : e[id] = d[id]
    BY <1>1, <1>3 DEF Expected
  <2> QED BY <2>1 DEF Docs
<1> QED BY <1>2, <1>3

(* Between two transactions all is well.                                   *)
LEMMA Settled ==
  ASSUME NEW d, NEW next, SoundDoc(d, next)
  PROVE  /\ Covers(EmptyTx.journal, d, d)
         /\ FramesApart(next, <<>>) /\ FramesSound(d, <<>>) /\ UniquesLeft(<<>>)
         /\ ChangeSetLeads(d, EmptyTx.ops, d, <<>>)
PROOF
<1>1. DOMAIN << >> = {}
  OBVIOUS
<1>2. Covers(EmptyTx.journal, d, d)
  BY TxFacts DEF Covers
<1>3. FramesApart(next, <<>>) /\ FramesSound(d, <<>>) /\ UniquesLeft(<<>>)
  BY <1>1 DEF FramesApart, FramesSound, UniquesLeft
<1>4. ChangeSetLeads(d, EmptyTx.ops, d, <<>>)
  <2>1. d \in Docs /\ Unique(d)
    BY DEF SoundDoc
  <2>2. Leads(d, EmptyTx.ops, d)
    BY <2>1, LeadsStays, TxFacts
  <2> QED BY <2>1, <2>2, NothingPending DEF ChangeSetLeads
<1> QED BY <1>2, <1>3, <1>4

(* A transaction that ends leaves nothing but the document.                *)
LEMMA EndedInv ==
  ASSUME nextId' \in Nat \ {0}, SoundDoc(doc', nextId'), base' = doc', open' \in BOOLEAN,
         tx' = EmptyTx, frames' = <<>>
  PROVE  HooksInv'
PROOF
<1>1. CurrentTx' = EmptyTx
  BY DEF CurrentTx, InHook
<1>2. Typed'
  BY TxFacts DEF Typed
<1>3. Ended'
  BY DEF Ended
<1> QED BY <1>1, <1>2, <1>3, Settled DEF HooksInv

LEMMA InitInv == Init => HooksInv
PROOF
<1> SUFFICES ASSUME Init PROVE HooksInv
  OBVIOUS
<1>1. nextId \in Nat \ {0} /\ tx = EmptyTx /\ frames = <<>> /\ open = FALSE /\ base = doc
  BY HooksAssumption DEF Init
<1>2. SoundDoc(doc, nextId)
  <2>1. \A id \in Ids : doc[id] = IF id <= InitialItems THEN Item(1, id) ELSE Absent
    BY DEF Init
  <2>2. \A id \in Ids : Item(1, id) \in Items /\ Row(Item(1, id)) /\ Item(1, id).u = id
                        /\ id \in Nat
    BY HooksAssumption DEF Ids, Item, Items, Computed, Row, Live
  <2>3. doc \in Docs
    <3>1. doc = [id \in Ids |-> IF id <= InitialItems THEN Item(1, id) ELSE Absent]
      BY DEF Init
    <3> QED BY <2>2, <3>1, AbsentFacts DEF Docs
  <2>4. Unique(doc)
    <3> SUFFICES ASSUME NEW i \in Ids, NEW j \in Ids, i # j, doc[i].u = doc[j].u
                 PROVE  doc[i].u = Null
      BY DEF Unique
    <3> QED BY <2>1, <2>2, AbsentFacts
  <2>5. \A id \in Ids : doc[id] = Absent \/ Row(doc[id])
    BY <2>1, <2>2
  <2>6. \A id \in Ids : id >= nextId => doc[id] = Absent
    BY <2>1, <2>2, HooksAssumption DEF Init
  <2> QED BY <2>3, <2>4, <2>5, <2>6 DEF SoundDoc
<1>3. CurrentTx = EmptyTx
  BY <1>1 DEF CurrentTx, InHook
<1>4. Typed
  <2>1. << >> \in Seq(Frames) /\ FALSE \in BOOLEAN
    OBVIOUS
  <2>2. frames \in Seq(Frames) /\ open \in BOOLEAN /\ tx \in Txs
    BY <1>1, <2>1, TxFacts
  <2> QED BY <1>1, <2>2 DEF Typed
<1>5. Ended
  BY <1>1 DEF Ended
<1> QED BY <1>1, <1>2, <1>3, <1>4, <1>5, Settled DEF HooksInv

LEMMA BeginInv == HooksInv /\ Begin => HooksInv'
PROOF
<1> SUFFICES ASSUME HooksInv, Begin PROVE HooksInv'
  OBVIOUS
<1>1. CASE open
  BY <1>1 DEF Begin
<1>2. CASE ~open
  <2>1. tx = EmptyTx /\ frames = <<>> /\ doc = base /\ nextId \in Nat \ {0}
        /\ SoundDoc(doc, nextId)
    BY <1>2 DEF HooksInv, Ended, Typed
  <2>2. /\ nextId' \in Nat \ {0} /\ SoundDoc(doc', nextId') /\ base' = doc'
        /\ open' \in BOOLEAN /\ tx' = EmptyTx /\ frames' = <<>>
    BY <2>1 DEF Begin
  <2> QED BY <2>2, EndedInv
<1> QED BY <1>1, <1>2

LEMMA CommitInv == HooksInv /\ Commit => HooksInv'
PROOF
<1> SUFFICES ASSUME HooksInv, Commit PROVE HooksInv'
  OBVIOUS
<1>1. /\ nextId' \in Nat \ {0} /\ SoundDoc(doc', nextId') /\ base' = doc'
      /\ open' \in BOOLEAN /\ tx' = EmptyTx /\ frames' = <<>>
  BY DEF HooksInv, Typed, Commit, InHook
<1> QED BY <1>1, EndedInv

(* What the change set of a transaction explains, when no write is under   *)
(* way                                                                     *)
LEMMA Explained ==
  ASSUME HooksInv, frames = <<>>
  PROVE  Apply(base, tx.ops) = doc /\ Apply(doc, Invert(tx.ops)) = base
PROOF
<1>1. CurrentTx = tx /\ tx.ops \in Seq(Ops)
  BY CurrentFacts, TxFacts DEF HooksInv, Typed
<1>2. PICK e \in Docs : Expected(doc, <<>>, e) /\ Leads(base, tx.ops, e)
  BY <1>1 DEF HooksInv, ChangeSetLeads
<1>3. e = doc
  BY <1>2, NothingPending DEF HooksInv, SoundDoc
<1> QED BY <1>2, <1>3 DEF Leads

LEMMA RollbackInv == HooksInv /\ Rollback => HooksInv'
PROOF
<1> SUFFICES ASSUME HooksInv, Rollback PROVE HooksInv'
  OBVIOUS
<1>1. frames = <<>>
  BY DEF Rollback, InHook
<1>2. doc' = base
  BY <1>1, Explained DEF Rollback
<1>3. /\ nextId' \in Nat \ {0} /\ SoundDoc(doc', nextId') /\ base' = doc'
      /\ open' \in BOOLEAN /\ tx' = EmptyTx /\ frames' = <<>>
  BY <1>1, <1>2 DEF HooksInv, Typed, Rollback
<1> QED BY <1>3, EndedInv

(* The innermost journal has all that is to be restored.                   *)
LEMMA FailInv == HooksInv /\ Fail => HooksInv'
PROOF
<1> SUFFICES ASSUME HooksInv, Fail PROVE HooksInv'
  OBVIOUS
<1>1. doc' = base
  <2>1. doc' = Restored(doc, CurrentTx.journal)
    BY DEF Fail
  <2>2. \A id \in Ids : Restored(doc, CurrentTx.journal)[id] = base[id]
    BY DEF Restored, Covers, HooksInv
  <2>3. base = [id \in Ids |-> base[id]] /\ DOMAIN Restored(doc, CurrentTx.journal) = Ids
    BY DEF HooksInv, SoundDoc, Docs, Restored
  <2>4. Restored(doc, CurrentTx.journal)
          = [id \in Ids |-> Restored(doc, CurrentTx.journal)[id]]
    BY DEF Restored
  <2> QED BY <2>1, <2>2, <2>3, <2>4
<1>2. /\ nextId' \in Nat \ {0} /\ SoundDoc(doc', nextId') /\ base' = doc'
      /\ open' \in BOOLEAN /\ tx' = EmptyTx /\ frames' = <<>>
  BY <1>1 DEF HooksInv, Typed, Fail
<1> QED BY <1>2, EndedInv
-----------------------------------------------------------------------------
(* A write comes to its hooks                                              *)

(* The rows after ids were given out                                       *)
LEMMA SoundLater ==
  ASSUME NEW d, NEW next \in Nat, NEW later \in Nat, later >= next, SoundDoc(d, next)
  PROVE  SoundDoc(d, later)
PROOF
<1>1. \A id \in Ids : id \in Nat
  BY HooksAssumption DEF Ids
<1>2. \A id \in Ids : id >= later => id >= next
  BY <1>1
<1> QED BY <1>2 DEF SoundDoc

(* What all writes have in common when they start: a new frame, of an item *)
(* that no other frame changes.                                            *)
LEMMA StartInv ==
  ASSUME HooksInv, NEW frame \in Frames, Start(frame),
         nextId' \in Nat, nextId' >= nextId, frame.id < nextId',
         frame.tx = CurrentTx, frame.phase = "before",
         \A k \in DOMAIN frames : frames[k].id # frame.id,
         SoundFrame(doc, frame),
         UpdateWaits => frame.new.u \in {Null, frame.old.u},
         frame.kind = "update" => Merged(frame, doc[frame.id]) = doc[frame.id]
  PROVE  HooksInv'
PROOF
<1> DEFINE N == Len(frames)
<1>1. /\ frames \in Seq(Frames) /\ N \in Nat /\ DOMAIN frames = 1..N
      /\ nextId \in Nat \ {0}
  BY CurrentFacts DEF HooksInv, Typed
<1>2. /\ frames' = Append(frames, frame) /\ doc' = doc /\ base' = base /\ open' = open
      /\ tx' = tx /\ open = TRUE
      /\ frames # <<>> => Top.phase = "before"
  <2>1. open \in BOOLEAN
    BY DEF HooksInv, Typed
  <2> QED BY <2>1 DEF Start, MayWrite, InHook
<1>3. /\ frames' \in Seq(Frames) /\ Len(frames') = N + 1 /\ DOMAIN frames' = 1..(N + 1)
      /\ frames'[N + 1] = frame /\ frames' # <<>>
      /\ \A k \in 1..N : frames'[k] = frames[k]
  BY <1>1, <1>2
<1>4. \A k \in 1..(N + 1) : k \in 1..N \/ k = N + 1
  BY <1>1
<1>5. CurrentTx' = CurrentTx
  BY <1>3 DEF CurrentTx, InHook, Top, Last
<1>6. Typed'
  BY <1>1, <1>2, <1>3 DEF HooksInv, Typed
<1>7. SoundDoc(doc', nextId') /\ SoundDoc(base', nextId')
  BY <1>1, <1>2, SoundLater DEF HooksInv
<1>8. Ended'
  BY <1>2 DEF Ended
<1>9. Covers(CurrentTx', base', doc') \/ Covers(CurrentTx'.journal, base', doc')
  BY <1>2, <1>5 DEF HooksInv
<1>10. FramesApart(nextId', frames')
  <2>1. ASSUME NEW j \in 1..(N + 1), NEW k \in 1..(N + 1), frames'[j].id = frames'[k].id
        PROVE  j = k
    <3>1. \A l \in 1..N : frames'[l].id # frame.id
      BY <1>1, <1>3
    <3>2. \A l, m \in 1..N : frames'[l].id = frames'[m].id => l = m
      BY SMTT(30), <1>1, <1>3 DEF HooksInv, FramesApart
    <3> QED BY <1>3, <1>4, <2>1, <3>1, <3>2
  <2>2. \A k \in 1..(N + 1) : frames'[k].id < nextId'
    <3>1. \A k \in 1..N : frames[k].id < nextId /\ frames[k].id \in Nat
      <4>1. \A k \in 1..N : frames[k].id \in Ids
        BY <1>1, FrameFacts
      <4> QED BY <1>1, <4>1, HooksAssumption DEF HooksInv, FramesApart, Ids
    <3>2. \A k \in 1..N : frames[k].id < nextId'
      BY <1>1, <3>1
    <3> QED BY <1>3, <1>4, <3>2
  <2>3. ASSUME NEW k \in 1..(N + 1), k < N + 1 PROVE frames'[k].phase = "before"
    <3>1. k \in 1..N /\ frames'[k] = frames[k] /\ frames # <<>>
      BY <1>1, <1>3, <2>3
    <3>2. CASE k = N
      <4>1. Top = frames[N]
        BY <3>1, CurrentFacts DEF HooksInv
      <4> QED BY <1>2, <3>1, <3>2, <4>1
    <3>3. CASE k # N
      <4>0. k \in 1..N
        BY <3>1
      <4>1. k \in DOMAIN frames /\ k < N
        <5>1. k \in Int /\ N \in Int /\ k <= N
          BY <1>1, <4>0
        <5> HIDE DEF N
        <5>2. k < N
          BY <3>3, <5>1
        <5> QED BY <1>1, <4>0, <5>2
      <4>2. frames[k].phase = "before"
        BY <4>1 DEF HooksInv, FramesApart
      <4> QED BY <3>1, <4>2
    <3> QED BY <3>2, <3>3
  <2> QED BY <1>3, <2>1, <2>2, <2>3 DEF FramesApart
<1>11. FramesSound(doc', frames')
  BY <1>1, <1>2, <1>3, <1>4 DEF HooksInv, FramesSound
<1>12. UniquesLeft(frames')
  <2> SUFFICES ASSUME NEW j \in 1..(N + 1), NEW k \in 1..(N + 1), j < k,
                      frames'[j].kind = "update", frames'[k].phase = "before"
               PROVE  frames'[k].new.u \in {Null, frames'[k].old.u}
    BY <1>3 DEF UniquesLeft
  <2>1. j \in 1..N /\ frames'[j] = frames[j]
    BY <1>1, <1>3
  <2>2. CASE k \in 1..N
    BY <1>1, <1>3, <2>1, <2>2 DEF HooksInv, UniquesLeft
  <2>3. CASE k = N + 1
    <3>1. UpdateWaits
      BY <1>1, <2>1 DEF UpdateWaits
    <3> QED BY <1>3, <2>3, <3>1
  <2> QED BY <1>4, <2>2, <2>3
<1>13. ChangeSetLeads(base', CurrentTx'.ops, doc', frames')
  <2>1. PICK e \in Docs : Expected(doc, frames, e) /\ Leads(base, CurrentTx.ops, e)
    BY DEF HooksInv, ChangeSetLeads
  <2>2. Expected(doc, frames', e)
    <3> SUFFICES ASSUME NEW id \in Ids
                 PROVE  \/ \E k \in 1..(N + 1) : /\ Waits(frames'[k]) /\ frames'[k].id = id
                                                 /\ e[id] = Merged(frames'[k], doc[id])
                        \/ /\ \A k \in 1..(N + 1) : Waits(frames'[k]) => frames'[k].id # id
                           /\ e[id] = doc[id]
      BY <1>3 DEF Expected
    <3>1. CASE \E k \in 1..N : /\ Waits(frames[k]) /\ frames[k].id = id
                               /\ e[id] = Merged(frames[k], doc[id])
      <4>1. PICK k \in 1..N : /\ Waits(frames[k]) /\ frames[k].id = id
                              /\ e[id] = Merged(frames[k], doc[id])
        BY <3>1
      <4>2. k \in 1..(N + 1) /\ frames'[k] = frames[k]
        BY <1>1, <1>3
      <4> QED BY <4>1, <4>2
    <3>2. CASE /\ \A k \in 1..N : Waits(frames[k]) => frames[k].id # id
               /\ e[id] = doc[id]
      <4>1. CASE Waits(frame) /\ frame.id = id
        <5>1. N + 1 \in 1..(N + 1) /\ frames'[N + 1] = frame
          BY <1>1, <1>3
        <5>2. e[id] = Merged(frame, doc[id])
          BY <3>2, <4>1 DEF Waits
        <5> QED BY <4>1, <5>1, <5>2
      <4>2. CASE ~(Waits(frame) /\ frame.id = id)
        BY <1>3, <1>4, <3>2, <4>2
      <4> QED BY <4>1, <4>2
    <3>3. \/ \E k \in 1..N : /\ Waits(frames[k]) /\ frames[k].id = id
                             /\ e[id] = Merged(frames[k], doc[id])
          \/ /\ \A k \in 1..N : Waits(frames[k]) => frames[k].id # id
             /\ e[id] = doc[id]
      BY <1>1, <2>1 DEF Expected
    <3> QED BY <3>1, <3>2, <3>3
  <2> QED BY <1>2, <1>5, <2>1, <2>2 DEF ChangeSetLeads
<1> QED BY <1>6, <1>7, <1>8, <1>2, <1>5, <1>10, <1>11, <1>12, <1>13 DEF HooksInv

(* The frame of a write that starts now                                    *)
LEMMA FrameBuilt ==
  ASSUME Typed, NEW kind \in {"insert", "remove", "update"}, NEW id \in Ids,
         NEW column \in {"none", "a", "u"}, NEW old \in Items, NEW new \in Items
  PROVE  LET f == Frame(kind, id, column, old, new)
         IN  /\ f \in Frames
             /\ f.kind = kind /\ f.id = id /\ f.column = column /\ f.old = old
             /\ f.new = new /\ f.phase = "before" /\ f.tx = CurrentTx
PROOF
<1>1. CurrentTx \in Txs
  BY CurrentFacts
<1> QED BY <1>1 DEF Frame, Frames

(* Careful hooks *)
LEMMA CarefulFacts ==
  ASSUME Careless = {}
  PROVE  /\ \A id : MayTouch(id) => \A k \in DOMAIN frames : frames[k].id # id
         /\ MaySetUnique <=> ~UpdateWaits
PROOF
  BY DEF MayTouch, Overlaps, MaySetUnique

LEMMA InsertInv ==
  ASSUME Careless = {}, HooksInv, NEW a \in ValuesOf("a"), NEW u \in ValuesOf("u"), Insert(a, u)
  PROVE  HooksInv'
PROOF
<1> DEFINE new == Item(a, u)
<1> DEFINE f == Frame("insert", nextId, "none", Absent, new)
<1>1. nextId \in Nat \ {0} /\ nextId <= MaxId /\ nextId' = nextId + 1 /\ Start(f)
      /\ (u # Null => MaySetUnique) /\ nextId \in Ids
  BY HooksAssumption DEF Insert, HooksInv, Typed, Ids
<1>2. new \in Items /\ Row(new) /\ new.u = u
  <2>1. a \in Nat /\ u \in Nat /\ a # 0
    BY DEF ValuesOf, Null
  <2> QED BY <2>1 DEF Item, Items, Row, Live, Computed
<1> HIDE DEF new
<1>3. /\ f \in Frames /\ f.kind = "insert" /\ f.id = nextId /\ f.column = "none"
      /\ f.old = Absent /\ f.new = new /\ f.phase = "before" /\ f.tx = CurrentTx
  <2>1. Typed /\ Absent \in Items
    BY AbsentFacts DEF HooksInv
  <2> QED BY <1>1, <1>2, <2>1, FrameBuilt
<1> HIDE DEF f
<1>4. nextId' \in Nat /\ nextId' >= nextId /\ f.id < nextId'
  BY <1>1, <1>3
<1>5. \A k \in DOMAIN frames : frames[k].id # f.id
  <2>1. \A k \in DOMAIN frames : frames[k].id < nextId
    BY DEF HooksInv, FramesApart
  <2> QED BY <1>1, <1>3, <2>1
<1>6. SoundFrame(doc, f)
  <2>1. doc[nextId] = Absent
    BY <1>1 DEF HooksInv, SoundDoc
  <2> QED BY <1>2, <1>3, <2>1 DEF SoundFrame
<1>7. UpdateWaits => f.new.u \in {Null, f.old.u}
  BY <1>1, <1>2, <1>3, CarefulFacts
<1>8. f.kind = "update" => Merged(f, doc[f.id]) = doc[f.id]
  BY <1>3
<1> QED BY <1>1, <1>3, <1>4, <1>5, <1>6, <1>7, <1>8, StartInv

LEMMA RemoveInv ==
  ASSUME Careless = {}, HooksInv, NEW id \in Ids, RemoveItem(id)
  PROVE  HooksInv'
PROOF
<1> DEFINE f == Frame("remove", id, "none", doc[id], Absent)
<1>1. nextId \in Nat \ {0} /\ nextId' = nextId /\ Start(f) /\ Present(doc, id) /\ MayTouch(id)
  BY DEF RemoveItem, HooksInv, Typed
<1>2. doc[id] \in Items /\ Row(doc[id]) /\ id < nextId
  <2>1. doc[id] # Absent /\ (doc[id] = Absent \/ Row(doc[id]))
        /\ (id >= nextId => doc[id] = Absent)
    BY <1>1 DEF Present, HooksInv, SoundDoc
  <2>2. id \in Nat
    BY HooksAssumption DEF Ids
  <2>3. Row(doc[id]) /\ id < nextId
    BY <1>1, <2>1, <2>2
  <2> QED BY <2>3 DEF Row, Live
<1>3. /\ f \in Frames /\ f.kind = "remove" /\ f.id = id /\ f.column = "none"
      /\ f.old = doc[id] /\ f.new = Absent /\ f.phase = "before" /\ f.tx = CurrentTx
  <2>1. Typed /\ Absent \in Items
    BY AbsentFacts DEF HooksInv
  <2> QED BY <1>2, <2>1, FrameBuilt
<1> HIDE DEF f
<1>4. nextId' \in Nat /\ nextId' >= nextId /\ f.id < nextId'
  BY <1>1, <1>2, <1>3
<1>5. \A k \in DOMAIN frames : frames[k].id # f.id
  BY <1>1, <1>3, CarefulFacts
<1>6. SoundFrame(doc, f)
  BY <1>2, <1>3 DEF SoundFrame
<1>7. UpdateWaits => f.new.u \in {Null, f.old.u}
  BY <1>3, AbsentFacts
<1>8. f.kind = "update" => Merged(f, doc[f.id]) = doc[f.id]
  BY <1>3
<1> QED BY <1>1, <1>3, <1>4, <1>5, <1>6, <1>7, <1>8, StartInv

(* A row with another value in one of its plain columns, computed anew     *)
LEMMA RecomputedFacts ==
  ASSUME NEW x \in Items, NEW column \in Columns, NEW value \in ValuesOf(column), Row(x)
  PROVE  LET y == Recomputed([x EXCEPT ![column] = value])
         IN  /\ y \in Items /\ Row(y)
             /\ y.a = IF column = "a" THEN value ELSE x.a
             /\ y.u = IF column = "u" THEN value ELSE x.u
             /\ y[column] = value
PROOF
<1> DEFINE z == [x EXCEPT ![column] = value]
<1> DEFINE y == Recomputed(z)
<1>1. column \in Columns3 /\ (column = "a" \/ column = "u")
  BY DEF Columns, Columns3
<1>2. x.a \in Nat /\ x.u \in Nat /\ x.c \in Nat \X Nat /\ x.a # 0
  BY ItemFacts DEF Row, Live
<1>3. value \in Nat /\ (column = "a" => value # 0)
  BY <1>1 DEF ValuesOf, Null
<1>4. z = [a |-> IF column = "a" THEN value ELSE x.a,
           u |-> IF column = "u" THEN value ELSE x.u,
           c |-> IF column = "c" THEN value ELSE x.c]
  BY <1>1, ColumnFacts
<1>5. z \in Items /\ z.a # 0
      /\ z.a = (IF column = "a" THEN value ELSE x.a)
      /\ z.u = (IF column = "u" THEN value ELSE x.u)
  BY <1>1, <1>2, <1>3, <1>4 DEF Items
<1> HIDE DEF z
<1>6. y = [z EXCEPT !.c = Computed(z.a, z.u)]
  BY DEF Recomputed
<1>7. y = [a |-> z.a, u |-> z.u, c |-> Computed(z.a, z.u)]
  BY <1>5, <1>6, ItemFacts
<1>8. /\ y \in Items /\ Row(y) /\ y.a = z.a /\ y.u = z.u /\ y["a"] = z.a /\ y["u"] = z.u
  BY <1>5, <1>7 DEF Items, Row, Live, Computed
<1> HIDE DEF y
<1>9. y[column] = value
  BY <1>1, <1>5, <1>8
<1> QED BY <1>5, <1>8, <1>9 DEF y, z

LEMMA UpdateInv ==
  ASSUME Careless = {}, HooksInv, NEW column \in Columns, NEW value \in ValuesOf(column),
         NEW id \in Ids, Update(id, column, value)
  PROVE  HooksInv'
PROOF
<1> DEFINE new == Recomputed([doc[id] EXCEPT ![column] = value])
<1> DEFINE f == Frame("update", id, column, doc[id], new)
<1>1. /\ nextId \in Nat \ {0} /\ nextId' = nextId /\ Start(f)
      /\ Present(doc, id) /\ MayTouch(id)
      /\ column = "u" => MaySetUnique /\ UniqueFree(doc, id, new)
  BY DEF Update, HooksInv, Typed
<1>2. doc[id] \in Items /\ Row(doc[id]) /\ id < nextId
  <2>1. doc[id] # Absent /\ (doc[id] = Absent \/ Row(doc[id]))
        /\ (id >= nextId => doc[id] = Absent)
    BY <1>1 DEF Present, HooksInv, SoundDoc
  <2>2. id \in Nat
    BY HooksAssumption DEF Ids
  <2>3. Row(doc[id]) /\ id < nextId
    BY <1>1, <2>1, <2>2
  <2> QED BY <2>3 DEF Row, Live
<1>3. /\ new \in Items /\ Row(new)
      /\ new.a = (IF column = "a" THEN value ELSE doc[id].a)
      /\ new.u = (IF column = "u" THEN value ELSE doc[id].u)
  BY <1>2, RecomputedFacts
<1> HIDE DEF new
<1>4. /\ f \in Frames /\ f.kind = "update" /\ f.id = id /\ f.column = column
      /\ f.old = doc[id] /\ f.new = new /\ f.phase = "before" /\ f.tx = CurrentTx
  <2>1. Typed /\ column \in {"none", "a", "u"}
    BY DEF HooksInv, Columns
  <2> QED BY <1>2, <1>3, <2>1, FrameBuilt
<1> HIDE DEF f
<1>5. nextId' \in Nat /\ nextId' >= nextId /\ f.id < nextId'
  BY <1>1, <1>2, <1>4
<1>6. \A k \in DOMAIN frames : frames[k].id # f.id
  BY <1>1, <1>4, CarefulFacts
<1>7. column = "a" \/ column = "u"
  BY DEF Columns
<1>8. SoundFrame(doc, f)
  BY <1>1, <1>2, <1>3, <1>4, <1>7 DEF SoundFrame
<1>9. UpdateWaits => f.new.u \in {Null, f.old.u}
  BY <1>1, <1>3, <1>4, <1>7, CarefulFacts
<1>10. Merged(f, doc[f.id]) = doc[f.id]
  <2>1. Merged(f, doc[f.id]) = [a |-> doc[id].a, u |-> doc[id].u, c |-> doc[id].c]
    BY <1>3, <1>4, <1>7 DEF Merged
  <2> QED BY <1>2, <1>4, <2>1, ItemFacts
<1> QED BY <1>1, <1>4, <1>5, <1>6, <1>8, <1>9, <1>10, StartInv
-----------------------------------------------------------------------------
(* A write returns                                                         *)

(* f and g are the same write, with what hooks recorded or without.        *)
SameWrite(f, g) ==
  /\ f.kind = g.kind /\ f.id = g.id /\ f.column = g.column
  /\ f.old = g.old /\ f.new = g.new /\ f.phase = g.phase

(* What the outer write has when the inner one has returned: its change    *)
(* set and its journal.                                                    *)
LEMMA ReturnFacts ==
  ASSUME HooksInv, Return
  PROVE  LET N == Len(frames)
         IN  /\ N \in Nat \ {0} /\ frames \in Seq(Frames) /\ DOMAIN frames = 1..N
             /\ frames[N].phase = "after"
             /\ frames' \in Seq(Frames) /\ Len(frames') = N - 1 /\ tx' \in Txs
             /\ \A k \in 1..(N - 1) : SameWrite(frames'[k], frames[k])
             /\ CurrentTx' = CurrentTx
PROOF
<1> DEFINE N == Len(frames)
<1> DEFINE outer == Front(frames)
<1>1. Typed /\ frames \in Seq(Frames) /\ tx \in Txs /\ frames # <<>> /\ Top.phase = "after"
  BY DEF HooksInv, Typed, Return, InHook
<1>2. /\ N \in Nat \ {0} /\ DOMAIN frames = 1..N /\ frames[N].phase = "after"
      /\ CurrentTx \in Txs /\ Top.tx = CurrentTx
  <2>1. Top = frames[N] /\ CurrentTx = frames[N].tx /\ N \in DOMAIN frames
        /\ DOMAIN frames = 1..N /\ N \in Nat /\ CurrentTx \in Txs
    BY <1>1, CurrentFacts
  <2> QED BY <1>1, <2>1
<1>3. /\ outer \in Seq(Frames) /\ Len(outer) = N - 1 /\ N - 1 \in Nat
      /\ \A k \in 1..(N - 1) : outer[k] = frames[k]
  BY <1>1, FrontFacts
<1>4. IF outer = <<>>
        THEN tx' = CurrentTx /\ frames' = <<>>
        ELSE frames' = [outer EXCEPT ![Len(outer)].tx = CurrentTx] /\ tx' = tx
  BY <1>2 DEF Return, CopiedBack
<1> HIDE DEF outer, N
<1>5. CASE outer = <<>>
  <2>1. N - 1 = 0
    BY <1>3, <1>5
  <2>2. frames' = <<>> /\ tx' = CurrentTx
    BY <1>4, <1>5
  <2>3. frames' \in Seq(Frames) /\ Len(frames') = 0
    BY <2>2
  <2>4. CurrentTx' = CurrentTx
    BY <2>2 DEF CurrentTx, InHook
  <2>5. \A k \in 1..(N - 1) : SameWrite(frames'[k], frames[k])
    BY SMTT(30), <2>1
  <2> QED BY <1>1, <1>2, <2>1, <2>2, <2>3, <2>4, <2>5 DEF N
<1>6. CASE outer # <<>>
  <2> DEFINE M == N - 1
  <2>1. M \in Nat \ {0} /\ M \in 1..M /\ Len(outer) = M
    BY <1>3, <1>6
  <2>2. PICK f \in Frames : f = outer[M]
    BY <1>3, <2>1
  <2> DEFINE g == [kind |-> f.kind, id |-> f.id, column |-> f.column, old |-> f.old,
                   new |-> f.new, phase |-> f.phase, tx |-> CurrentTx]
  <2>3. [f EXCEPT !.tx = CurrentTx] = g
    <3>1. f = [kind |-> f.kind, id |-> f.id, column |-> f.column, old |-> f.old,
               new |-> f.new, phase |-> f.phase, tx |-> f.tx]
      BY FrameFacts
    <3> QED BY <3>1
  <2>4. g \in Frames /\ SameWrite(g, f) /\ g.tx = CurrentTx
    BY <1>2, FrameFacts DEF SameWrite, Frames
  <2> HIDE DEF g
  <2>5. frames' = [outer EXCEPT ![M] = g] /\ tx' = tx
    BY <1>4, <1>6, <2>1, <2>2, <2>3
  <2> HIDE DEF M
  <2>6. /\ frames' \in Seq(Frames) /\ Len(frames') = M /\ frames' # <<>>
        /\ frames'[M] = g /\ \A k \in 1..M : k # M => frames'[k] = outer[k]
    BY <1>3, <2>1, <2>4, <2>5
  <2>7. CurrentTx' = CurrentTx
    BY <2>4, <2>6 DEF CurrentTx, InHook, Top, Last
  <2>8. ASSUME NEW k \in 1..M PROVE SameWrite(frames'[k], frames[k])
    <3>1. outer[k] = frames[k]
      BY <1>3 DEF M
    <3> QED BY <2>2, <2>4, <2>6, <3>1 DEF SameWrite
  <2> QED BY <1>1, <1>2, <2>5, <2>6, <2>7, <2>8 DEF N, M
<1> QED BY <1>5, <1>6

LEMMA ReturnInv == HooksInv /\ Return => HooksInv'
PROOF
<1> SUFFICES ASSUME HooksInv, Return PROVE HooksInv'
  OBVIOUS
<1> DEFINE N == Len(frames)
<1>1. /\ N \in Nat \ {0} /\ frames \in Seq(Frames) /\ DOMAIN frames = 1..N
      /\ frames[N].phase = "after"
      /\ frames' \in Seq(Frames) /\ Len(frames') = N - 1 /\ tx' \in Txs
      /\ \A k \in 1..(N - 1) : SameWrite(frames'[k], frames[k])
      /\ CurrentTx' = CurrentTx
  BY ReturnFacts
<1>2. DOMAIN frames' = 1..(N - 1) /\ \A k \in 1..N : k \in 1..(N - 1) \/ k = N
  <2>1. DOMAIN frames' = 1..(N - 1) /\ N \in Nat \ {0}
    BY <1>1
  <2> HIDE DEF N
  <2> QED BY <2>1
<1>3. doc' = doc /\ base' = base /\ nextId' = nextId /\ open' = open /\ open = TRUE
  <2>1. frames # <<>> /\ open \in BOOLEAN
    BY <1>1 DEF HooksInv, Typed
  <2> QED BY <2>1 DEF Return, HooksInv, Ended
<1> HIDE DEF N
<1>4. \A k \in 1..(N - 1) : k \in 1..N /\ k < N
  BY <1>1
<1>5. Typed' /\ Ended'
  BY <1>1, <1>3 DEF HooksInv, Typed, Ended
<1>6. FramesApart(nextId', frames')
  <2>1. /\ \A j, k \in 1..N : frames[j].id = frames[k].id => j = k
        /\ \A k \in 1..N : frames[k].id < nextId
        /\ \A k \in 1..N : k < N => frames[k].phase = "before"
    BY <1>1 DEF HooksInv, FramesApart, N
  <2> QED BY <1>1, <1>2, <1>3, <1>4, <2>1 DEF FramesApart, SameWrite
<1>7. FramesSound(doc', frames')
  <2> SUFFICES ASSUME NEW k \in 1..(N - 1), frames'[k].phase = "before"
               PROVE  SoundFrame(doc, frames'[k])
    BY <1>2, <1>3 DEF FramesSound
  <2>1. SameWrite(frames'[k], frames[k]) /\ k \in 1..N
    BY <1>1, <1>4
  <2>2. SoundFrame(doc, frames[k])
    BY <1>1, <2>1 DEF HooksInv, FramesSound, SameWrite
  <2> QED BY <2>1, <2>2 DEF SoundFrame, SameWrite
<1>8. UniquesLeft(frames')
  <2>1. \A j, k \in 1..N : j < k /\ frames[j].kind = "update" /\ frames[k].phase = "before"
          => frames[k].new.u \in {Null, frames[k].old.u}
    BY <1>1 DEF HooksInv, UniquesLeft
  <2> QED BY <1>1, <1>2, <1>4, <2>1 DEF UniquesLeft, SameWrite
<1>9. ChangeSetLeads(base', CurrentTx'.ops, doc', frames')
  <2>1. PICK e \in Docs : Expected(doc, frames, e) /\ Leads(base, CurrentTx.ops, e)
    BY DEF HooksInv, ChangeSetLeads
  <2>2. ASSUME NEW id \in Ids
        PROVE  \/ \E k \in 1..(N - 1) : /\ Waits(frames'[k]) /\ frames'[k].id = id
                                        /\ e[id] = Merged(frames'[k], doc[id])
               \/ /\ \A k \in 1..(N - 1) : Waits(frames'[k]) => frames'[k].id # id
                  /\ e[id] = doc[id]
    <3>1. CASE \E k \in 1..N : /\ Waits(frames[k]) /\ frames[k].id = id
                               /\ e[id] = Merged(frames[k], doc[id])
      <4>1. PICK k \in 1..N : /\ Waits(frames[k]) /\ frames[k].id = id
                              /\ e[id] = Merged(frames[k], doc[id])
        BY <3>1
      <4>2. k \in 1..(N - 1)
        BY <1>1, <1>2, <4>1 DEF Waits
      <4>3. Waits(frames'[k]) /\ frames'[k].id = id
            /\ Merged(frames'[k], doc[id]) = Merged(frames[k], doc[id])
        BY <1>1, <4>1, <4>2 DEF SameWrite, Waits, Merged
      <4> QED BY <4>1, <4>2, <4>3
    <3>2. CASE /\ \A k \in 1..N : Waits(frames[k]) => frames[k].id # id
               /\ e[id] = doc[id]
      BY <1>1, <1>4, <3>2 DEF SameWrite, Waits
    <3> QED BY <1>1, <2>1, <3>1, <3>2 DEF Expected
  <2>3. Expected(doc, frames', e)
    BY <1>2, <2>2 DEF Expected
  <2> QED BY <1>1, <1>3, <2>1, <2>3 DEF ChangeSetLeads
<1> QED BY SMTT(30), <1>1, <1>3, <1>5, <1>6, <1>7, <1>8, <1>9 DEF HooksInv
-----------------------------------------------------------------------------
(* A hook changes what is about to be applied                              *)

(* A frame with that change, if it is the pending one, and with more in    *)
(* the change set, if it is the innermost                                  *)
WithPending(f, pending, new, innermost, more) ==
  [f EXCEPT !.new = IF pending THEN new ELSE @,
            !.tx.ops = IF innermost THEN @ \o more ELSE @]

(* Nothing else of the frame changes.                                      *)
LEMMA PendingFrame ==
  ASSUME NEW f \in Frames, NEW new \in Items, NEW more \in Seq(Ops),
         NEW pending \in BOOLEAN, NEW innermost \in BOOLEAN
  PROVE  LET g == WithPending(f, pending, new, innermost, more)
         IN  /\ g \in Frames
             /\ g.kind = f.kind /\ g.id = f.id /\ g.column = f.column /\ g.old = f.old
             /\ g.phase = f.phase
             /\ g.new = IF pending THEN new ELSE f.new
             /\ g.tx.journal = f.tx.journal
             /\ g.tx.ops = IF innermost THEN f.tx.ops \o more ELSE f.tx.ops
PROOF
<1> DEFINE t == f.tx
<1> DEFINE ops == IF innermost THEN t.ops \o more ELSE t.ops
<1> DEFINE item == IF pending THEN new ELSE f.new
<1>1. t \in Txs /\ t.ops \in Seq(Ops) /\ t.journal \in Journals
      /\ t = [ops |-> t.ops, journal |-> t.journal]
  BY FrameFacts, TxFacts
<1>2. ops \in Seq(Ops) /\ item \in Items
  <2>1. t.ops \o more \in Seq(Ops)
    BY <1>1
  <2>2. f.new \in Items
    BY FrameFacts
  <2> QED BY <1>1, <2>1, <2>2
<1> DEFINE s == [ops |-> ops, journal |-> t.journal]
<1> DEFINE g == [f EXCEPT !.new = item, !.tx.ops = ops]
<1> HIDE DEF ops, item
<1>3. s \in Txs /\ s.journal = t.journal /\ s.ops = ops
  BY <1>1, <1>2, TxFacts
<1>4. [t EXCEPT !.ops = ops] = s
  BY <1>1
<1>5. f = [kind |-> f.kind, id |-> f.id, column |-> f.column, old |-> f.old,
           new |-> f.new, phase |-> f.phase, tx |-> t]
  BY FrameFacts
<1>6. g = [kind |-> f.kind, id |-> f.id, column |-> f.column, old |-> f.old,
           new |-> item, phase |-> f.phase, tx |-> [t EXCEPT !.ops = ops]]
  <2>1. g = [[f EXCEPT !.new = item] EXCEPT !.tx = [t EXCEPT !.ops = ops]]
    OBVIOUS
  <2>2. [f EXCEPT !.new = item] =
          [kind |-> f.kind, id |-> f.id, column |-> f.column, old |-> f.old,
           new |-> item, phase |-> f.phase, tx |-> t]
    BY <1>5
  <2>3. PICK h : h = [f EXCEPT !.new = item]
    OBVIOUS
  <2>4. PICK v : v = [t EXCEPT !.ops = ops]
    OBVIOUS
  <2>5. g = [h EXCEPT !.tx = v]
    BY <2>1, <2>3, <2>4
  <2> HIDE DEF g, t
  <2>6. g = [kind |-> f.kind, id |-> f.id, column |-> f.column, old |-> f.old,
             new |-> item, phase |-> f.phase, tx |-> v]
    BY <2>2, <2>3, <2>5
  <2> QED BY <2>4, <2>6
<1> HIDE DEF s
<1>7. g = [kind |-> f.kind, id |-> f.id, column |-> f.column, old |-> f.old,
           new |-> item, phase |-> f.phase, tx |-> s]
  BY <1>4, <1>6
<1> HIDE DEF g, t
<1>8. g \in Frames
  BY <1>2, <1>3, <1>7, FrameFacts DEF Frames
<1>9. /\ g.kind = f.kind /\ g.id = f.id /\ g.column = f.column /\ g.old = f.old
      /\ g.phase = f.phase /\ g.new = item /\ g.tx = s
  BY <1>7
<1>10. WithPending(f, pending, new, innermost, more) = g
  BY DEF WithPending, g, t, ops, item
<1> QED BY <1>3, <1>8, <1>9, <1>10 DEF t, ops, item

(* The frame that updatePendingBeforeApplySource finds: an insert or an    *)
(* update that waits for its hooks.                                        *)
LEMMA PendingFacts ==
  ASSUME HooksInv, MayWrite, PendingFrames # {}
  PROVE  /\ Pending \in DOMAIN frames /\ frames[Pending] \in Frames
         /\ frames[Pending].kind \in {"insert", "update"}
         /\ \A k \in DOMAIN frames : frames[k].phase = "before"
         /\ SoundFrame(doc, frames[Pending]) /\ Row(frames[Pending].new)
         /\ frames # <<>>
PROOF
<1> DEFINE N == Len(frames)
<1>1. /\ N \in Nat /\ DOMAIN frames = 1..N
      /\ \A k \in DOMAIN frames : frames[k] \in Frames
  BY CurrentFacts DEF HooksInv
<1>2. PendingFrames \in SUBSET (1..N)
  BY <1>1 DEF PendingFrames
<1>3. Pending \in PendingFrames
  BY <1>1, <1>2, MaxInside DEF Pending
<1>4. Pending \in DOMAIN frames /\ frames[Pending].kind # "remove"
  BY <1>3 DEF PendingFrames
<1>5. frames[Pending] \in Frames /\ frames[Pending].kind \in {"insert", "update"}
  BY <1>1, <1>4, FrameFacts
<1>6. frames # <<>>
  BY <1>4
<1>7. N \in DOMAIN frames /\ frames[N].phase = "before"
  <2>1. Top = frames[N] /\ N \in DOMAIN frames
    BY <1>6, CurrentFacts DEF HooksInv
  <2> QED BY <1>6, <2>1 DEF MayWrite, InHook
<1>8. ASSUME NEW k \in DOMAIN frames PROVE frames[k].phase = "before"
  <2>1. k \in Int /\ k <= N
    BY <1>1
  <2> HIDE DEF N
  <2>2. CASE k = N
    BY <1>7, <2>2
  <2>3. CASE k # N
    <3>1. k < N
      BY <1>1, <2>1, <2>3
    <3> QED BY <3>1 DEF HooksInv, FramesApart, N
  <2> QED BY <2>2, <2>3
<1>9. SoundFrame(doc, frames[Pending])
  BY <1>4, <1>8 DEF HooksInv, FramesSound
<1>10. Row(frames[Pending].new)
  BY <1>5, <1>9 DEF SoundFrame
<1> QED BY <1>4, <1>5, <1>6, <1>8, <1>9, <1>10

LEMMA UpdatePendingFacts ==
  ASSUME Careless = {}, HooksInv, NEW column \in Columns, NEW value \in ValuesOf(column),
         UpdatePending(column, value)
  PROVE  LET source == frames[Pending]
             new == Recomputed([source.new EXCEPT ![column] = value])
             more == PendingOperations(source, column, value)
         IN  /\ frames' \in Seq(Frames) /\ Len(frames') = Len(frames)
             /\ \A k \in DOMAIN frames :
                  /\ frames'[k].kind = frames[k].kind /\ frames'[k].id = frames[k].id
                  /\ frames'[k].column = frames[k].column /\ frames'[k].old = frames[k].old
                  /\ frames'[k].phase = frames[k].phase
                  /\ frames'[k].new = IF k = Pending THEN new ELSE frames[k].new
             /\ CurrentTx'.journal = CurrentTx.journal
             /\ CurrentTx'.ops = CurrentTx.ops \o more
             /\ source.kind = "insert" => more = <<>>
             /\ source.kind = "update" =>
                  /\ column = "a" /\ source.column = "u"
                  /\ more = <<Updated(source.id, "a", source.new.a, value)>>
                  /\ value \in Nat /\ source.new.a \in Nat
             /\ new \in Items /\ Row(new)
             /\ new.a = (IF column = "a" THEN value ELSE source.new.a)
             /\ new.u = (IF column = "u" THEN value ELSE source.new.u)
             /\ column = "u" => ~UpdateWaits
PROOF
<1> DEFINE source == frames[Pending]
<1> DEFINE new == Recomputed([source.new EXCEPT ![column] = value])
<1> DEFINE more == PendingOperations(source, column, value)
<1> DEFINE N == Len(frames)
<1>1. /\ MayWrite /\ PendingFrames # {} /\ source.column # column
      /\ column = "u" => MaySetUnique
      /\ frames' = [k \in DOMAIN frames |->
           [frames[k] EXCEPT
              !.new = IF k = Pending THEN new ELSE @,
              !.tx.ops = IF k = N THEN @ \o more ELSE @]]
  BY DEF UpdatePending
<1>2. /\ Pending \in DOMAIN frames /\ source \in Frames
      /\ source.kind \in {"insert", "update"} /\ frames # <<>>
      /\ SoundFrame(doc, source) /\ Row(source.new)
  BY <1>1, PendingFacts
<1>3. /\ N \in Nat /\ DOMAIN frames = 1..N /\ N \in DOMAIN frames
      /\ \A k \in DOMAIN frames : frames[k] \in Frames
      /\ CurrentTx = frames[N].tx
  BY <1>2, CurrentFacts DEF HooksInv
<1>4. /\ new \in Items /\ Row(new)
      /\ new.a = (IF column = "a" THEN value ELSE source.new.a)
      /\ new.u = (IF column = "u" THEN value ELSE source.new.u)
  <2>1. source.new \in Items
    BY <1>2, FrameFacts
  <2> QED BY <1>2, <2>1, RecomputedFacts
<1>5. column = "u" => ~UpdateWaits
  BY <1>1, CarefulFacts
<1>6. source.kind = "insert" => more = <<>>
  BY DEF PendingOperations
<1>7. ASSUME source.kind = "update"
      PROVE  /\ column = "a" /\ source.column = "u"
             /\ more = <<Updated(source.id, "a", source.new.a, value)>>
             /\ value \in Nat /\ source.new.a \in Nat
  <2>1. UpdateWaits
    BY <1>2, <1>7 DEF UpdateWaits
  <2>2. column = "a"
    BY <1>5, <2>1 DEF Columns
  <2>3. source.column = "u"
    BY <1>1, <1>2, <1>7, <2>2 DEF SoundFrame
  <2>4. value \in Nat /\ source.new.a \in Nat
    <3>1. source.new \in Items
      BY <1>2, FrameFacts
    <3> QED BY <2>2, <3>1, ItemFacts DEF ValuesOf
  <2>5. more = <<Updated(source.id, "a", source.new.a, value)>>
    BY <1>7, <2>2 DEF PendingOperations
  <2> QED BY <2>2, <2>3, <2>4, <2>5
<1> HIDE DEF source, new, more
<1>8. more \in Seq(Ops)
  <2>1. CASE source.kind = "insert"
    BY <1>6, <2>1
  <2>2. CASE source.kind = "update"
    <3>1. Updated(source.id, "a", source.new.a, value) \in Ops
      <4>1. source.id \in Ids
        BY <1>2, FrameFacts
      <4> QED BY <1>7, <2>2, <4>1, OpsBuilt
    <3>2. PICK op \in Ops : op = Updated(source.id, "a", source.new.a, value)
      BY <3>1
    <3>3. more = <<op>>
      BY <1>7, <2>2, <3>2
    <3> QED BY <3>3
  <2> QED BY <1>2, <2>1, <2>2
<1>9. ASSUME NEW k \in DOMAIN frames
      PROVE  /\ frames'[k] \in Frames
             /\ frames'[k].kind = frames[k].kind /\ frames'[k].id = frames[k].id
             /\ frames'[k].column = frames[k].column /\ frames'[k].old = frames[k].old
             /\ frames'[k].phase = frames[k].phase
             /\ frames'[k].new = IF k = Pending THEN new ELSE frames[k].new
             /\ frames'[k].tx.journal = frames[k].tx.journal
             /\ frames'[k].tx.ops = IF k = N THEN frames[k].tx.ops \o more
                                    ELSE frames[k].tx.ops
  <2>1. PICK f \in Frames : f = frames[k]
    BY <1>3
  <2>2. PICK pending \in BOOLEAN : pending = (k = Pending)
    OBVIOUS
  <2>3. PICK innermost \in BOOLEAN : innermost = (k = N)
    OBVIOUS
  <2>4. frames'[k] = WithPending(f, pending, new, innermost, more)
    BY <1>1, <2>1, <2>2, <2>3 DEF WithPending
  <2> DEFINE g == WithPending(f, pending, new, innermost, more)
  <2>5. /\ g \in Frames
        /\ g.kind = f.kind /\ g.id = f.id /\ g.column = f.column /\ g.old = f.old
        /\ g.phase = f.phase
        /\ g.new = (IF pending THEN new ELSE f.new)
        /\ g.tx.journal = f.tx.journal
        /\ g.tx.ops = (IF innermost THEN f.tx.ops \o more ELSE f.tx.ops)
    <3>1. new \in Items
      BY <1>4
    <3> QED BY <1>8, <3>1, PendingFrame
  <2> HIDE DEF g
  <2> QED BY <2>1, <2>2, <2>3, <2>4, <2>5 DEF g
<1>10. frames' \in Seq(Frames) /\ Len(frames') = N
  <2>1. DOMAIN frames' = 1..N /\ frames' = [k \in 1..N |-> frames'[k]]
    BY <1>1, <1>3
  <2>2. frames' \in [1..N -> Frames]
    BY <1>3, <1>9, <2>1
  <2> QED BY <1>3, <2>2
<1>11. CurrentTx' = frames'[N].tx
  <2>1. frames' # <<>> /\ Len(frames') = N
    BY <1>3, <1>10
  <2> QED BY <2>1 DEF CurrentTx, InHook, Top, Last
<1> HIDE DEF N
<1>12. CurrentTx'.journal = CurrentTx.journal /\ CurrentTx'.ops = CurrentTx.ops \o more
  BY <1>3, <1>9, <1>11
<1> QED BY <1>4, <1>5, <1>6, <1>7, <1>9, <1>10, <1>12 DEF source, new, more, N

(* Unique values are those of the document, in what is expected too.       *)
LEMMA ExpectedUniques ==
  ASSUME NEW d \in Docs, NEW stack, FramesSound(d, stack), NEW e \in Docs,
         Expected(d, stack, e)
  PROVE  \A id \in Ids : e[id].u = d[id].u
PROOF
<1> SUFFICES ASSUME NEW id \in Ids PROVE e[id].u = d[id].u
  OBVIOUS
<1>1. CASE e[id] = d[id]
  BY <1>1
<1>2. CASE \E k \in DOMAIN stack :
             Waits(stack[k]) /\ stack[k].id = id /\ e[id] = Merged(stack[k], d[id])
  <2>1. PICK k \in DOMAIN stack :
             Waits(stack[k]) /\ stack[k].id = id /\ e[id] = Merged(stack[k], d[id])
    BY <1>2
  <2> DEFINE f == stack[k]
  <2>2. f.kind = "update" /\ f.phase = "before" /\ f.id = id
    BY <2>1 DEF Waits
  <2>3. SoundFrame(d, f)
    BY <2>2 DEF FramesSound
  <2>4. d[id] = f.old /\ ((f.column = "a" /\ f.new.u = f.old.u) \/ f.column = "u")
    BY <2>2, <2>3 DEF SoundFrame
  <2>5. e[id].u = IF f.column = "u" THEN d[id].u ELSE f.new.u
    BY <2>1 DEF Merged
  <2> HIDE DEF f
  <2> QED BY <2>4, <2>5
<1> QED BY <1>1, <1>2 DEF Expected

LEMMA UpdatePendingInv ==
  ASSUME Careless = {}, HooksInv, NEW column \in Columns, NEW value \in ValuesOf(column),
         UpdatePending(column, value)
  PROVE  HooksInv'
PROOF
<1> DEFINE N == Len(frames)
<1> DEFINE P == Pending
<1> DEFINE source == frames[P]
<1> DEFINE new == Recomputed([source.new EXCEPT ![column] = value])
<1> DEFINE more == PendingOperations(source, column, value)
<1>1. MayWrite /\ PendingFrames # {} /\ doc' = doc /\ base' = base /\ nextId' = nextId
      /\ open' = open /\ tx' = tx /\ open
      /\ (column = "u" => UniqueFree(doc, source.id, new))
  BY DEF UpdatePending, MayWrite
<1>2. /\ P \in DOMAIN frames /\ source \in Frames
      /\ source.kind \in {"insert", "update"}
      /\ \A k \in DOMAIN frames : frames[k].phase = "before"
      /\ SoundFrame(doc, source) /\ Row(source.new)
  BY <1>1, PendingFacts
<1>3. N \in Nat /\ DOMAIN frames = 1..N /\ frames \in Seq(Frames)
  BY CurrentFacts DEF HooksInv, Typed
<1>4. /\ frames' \in Seq(Frames) /\ Len(frames') = N
      /\ \A k \in DOMAIN frames :
           /\ frames'[k].kind = frames[k].kind /\ frames'[k].id = frames[k].id
           /\ frames'[k].column = frames[k].column /\ frames'[k].old = frames[k].old
           /\ frames'[k].phase = frames[k].phase
           /\ frames'[k].new = IF k = P THEN new ELSE frames[k].new
      /\ CurrentTx'.journal = CurrentTx.journal
      /\ CurrentTx'.ops = CurrentTx.ops \o more
      /\ source.kind = "insert" => more = <<>>
      /\ source.kind = "update" =>
           /\ column = "a" /\ source.column = "u"
           /\ more = <<Updated(source.id, "a", source.new.a, value)>>
           /\ value \in Nat /\ source.new.a \in Nat
      /\ new \in Items /\ Row(new)
      /\ new.a = (IF column = "a" THEN value ELSE source.new.a)
      /\ new.u = (IF column = "u" THEN value ELSE source.new.u)
      /\ column = "u" => ~UpdateWaits
  BY UpdatePendingFacts
<1>5. DOMAIN frames' = DOMAIN frames
  BY <1>3, <1>4
<1> HIDE DEF N, P, source, new, more
<1>6. Typed' /\ Ended'
  BY <1>1, <1>4 DEF HooksInv, Typed, Ended
<1>7. SoundDoc(doc', nextId') /\ SoundDoc(base', nextId')
      /\ Covers(CurrentTx'.journal, base', doc')
  BY <1>1, <1>4 DEF HooksInv
<1>8. FramesApart(nextId', frames')
  <2>1. Len(frames') = Len(frames)
    BY <1>4 DEF N
  <2>2. FramesApart(nextId, frames)
    BY DEF HooksInv
  <2> QED BY <1>1, <1>4, <1>5, <2>1, <2>2 DEF FramesApart
<1>9. FramesSound(doc', frames')
  <2> SUFFICES ASSUME NEW k \in DOMAIN frames PROVE SoundFrame(doc, frames'[k])
    BY <1>1, <1>5 DEF FramesSound
  <2>1. SoundFrame(doc, frames[k])
    BY <1>2 DEF HooksInv, FramesSound
  <2>2. CASE k # P
    BY <1>4, <2>1, <2>2 DEF SoundFrame
  <2>3. CASE k = P
    <3>1. frames[k] = source /\ frames'[k].new = new
      BY <1>4, <2>3 DEF source
    <3>2. CASE source.kind = "insert"
      BY <1>4, <2>1, <3>1, <3>2 DEF SoundFrame
    <3>3. CASE source.kind = "update"
      <4>1. new.u = source.new.u /\ source.column = "u"
        BY <1>4, <3>3
      <4>2. UniqueFree(doc, source.id, source.new) /\ doc[source.id] = source.old
            /\ Row(source.old)
        BY <1>2, <3>3, <4>1 DEF SoundFrame
      <4>3. UniqueFree(doc, source.id, new)
        BY <4>1, <4>2 DEF UniqueFree
      <4> QED BY <1>4, <3>1, <3>3, <4>1, <4>2, <4>3 DEF SoundFrame
    <3> QED BY <1>2, <3>2, <3>3
  <2> QED BY <2>2, <2>3
<1>10. UniquesLeft(frames')
  <2> SUFFICES ASSUME NEW j \in DOMAIN frames, NEW k \in DOMAIN frames, j < k,
                      frames[j].kind = "update"
               PROVE  frames'[k].new.u \in {Null, frames[k].old.u}
    BY <1>4, <1>5 DEF UniquesLeft
  <2>1. frames[k].new.u \in {Null, frames[k].old.u}
    BY <1>2 DEF HooksInv, UniquesLeft
  <2>2. column # "u"
    BY <1>4 DEF UpdateWaits
  <2>3. frames'[k].new.u = frames[k].new.u
    BY <1>4, <2>2 DEF source
  <2> QED BY <2>1, <2>3
<1>11. ChangeSetLeads(base', CurrentTx'.ops, doc', frames')
  <2>1. PICK e \in Docs : Expected(doc, frames, e) /\ Leads(base, CurrentTx.ops, e)
    BY DEF HooksInv, ChangeSetLeads
  <2>2. CurrentTx.ops \in Seq(Ops) /\ source.id \in Ids
    BY <1>2, CurrentFacts, TxFacts, FrameFacts DEF HooksInv
  <2>3. CASE source.kind = "insert"
    <3>1. CurrentTx'.ops = CurrentTx.ops
      <4>1. CurrentTx'.ops = CurrentTx.ops \o <<>>
        BY <1>4, <2>3
      <4>2. CurrentTx.ops \o <<>> = CurrentTx.ops
        BY <2>2
      <4> QED BY <4>1, <4>2
    <3>2. \A k \in DOMAIN frames : /\ Waits(frames'[k]) <=> Waits(frames[k])
                                   /\ frames'[k].id = frames[k].id
      BY <1>4 DEF Waits
    <3>3. ASSUME NEW k \in DOMAIN frames, Waits(frames[k]), NEW x
          PROVE  Merged(frames'[k], x) = Merged(frames[k], x)
      <4>1. k # P
        BY <2>3, <3>3 DEF Waits, source
      <4> QED BY <1>4, <4>1 DEF Merged
    <3>4. Expected(doc, frames', e)
      BY <1>5, <2>1, <3>2, <3>3 DEF Expected
    <3> QED BY <1>1, <2>1, <3>1, <3>4 DEF ChangeSetLeads
  <2>4. CASE source.kind = "update"
    <3> DEFINE id == source.id
    <3> DEFINE op == Updated(id, "a", source.new.a, value)
    <3> DEFINE item == [a |-> value, u |-> doc[id].u, c |-> doc[id].c]
    <3> DEFINE f == [e EXCEPT ![id] = item]
    <3>1. /\ column = "a" /\ source.column = "u" /\ more = <<op>> /\ value \in Nat
          /\ source.new.a \in Nat /\ value # 0 /\ source.new.a # 0
      BY <1>2, <1>4, <2>4 DEF ValuesOf, Row, Live
    <3>2. Waits(source) /\ doc \in Docs /\ doc[id] \in Items
      BY <1>2, <2>2, <2>4 DEF HooksInv, SoundDoc, Docs, Waits, source
    <3>3. e[id] = [a |-> source.new.a, u |-> doc[id].u, c |-> doc[id].c]
      <4>1. e[id] = Merged(source, doc[id])
        <5>1. \A k \in DOMAIN frames : frames[k].id = id => k = P
          BY <1>2 DEF HooksInv, FramesApart, source
        <5> QED BY <1>2, <2>1, <2>2, <3>2, <5>1 DEF Expected, source
      <4> QED BY <3>1, <4>1 DEF Merged
    <3>4. item \in Items /\ Live(item) /\ e[id] \in Items /\ Live(e[id])
      <4>1. doc[id].u \in Nat /\ doc[id].c \in Nat \X Nat
        BY <3>2, ItemFacts
      <4> QED BY <3>1, <3>3, <4>1 DEF Items, Live
    <3>5. op \in Ops /\ op.kind = "ColumnUpdated" /\ op.id = id /\ op.column = "a"
          /\ op.old = source.new.a /\ op.new = value
      BY <2>2, <3>1, OpsBuilt DEF Updated
    <3>6. f \in Docs /\ Unique(f)
      <4>1. Unique(e)
        BY <2>1 DEF Leads
      <4>2. UniqueFree(e, id, item)
        BY <2>2, <3>3, <4>1 DEF Unique, UniqueFree
      <4> QED BY <2>2, <3>4, <4>1, <4>2, PutUnique
    <3>7. f[id] = item /\ \A other \in Ids \ {id} : f[other] = e[other]
      BY <2>2 DEF Docs
    <3>8. Changes(e[id], op, item)
      <4>1. e[id]["a"] = source.new.a /\ item["a"] = value
            /\ item["u"] = e[id]["u"] /\ item["c"] = e[id]["c"]
        BY <3>3
      <4> HIDE DEF op, item
      <4> QED BY <3>4, <3>5, <4>1 DEF Changes, Columns3
    <3>9. Merged(frames'[P], doc[id]) = item
      BY <1>2, <1>4, <3>1 DEF Merged, source
    <3> HIDE DEF f, item, op
    <3>10. Connects(e, op, f)
      BY <3>5, <3>7, <3>8 DEF Connects
    <3>11. Leads(base, CurrentTx'.ops, f)
      <4>1. CurrentTx'.ops = CurrentTx.ops \o <<op>>
        BY <1>4, <3>1
      <4>2. CurrentTx.ops \o <<op>> = Append(CurrentTx.ops, op)
        BY <2>2, <3>5
      <4>3. Leads(base, Append(CurrentTx.ops, op), f)
        BY <2>1, <2>2, <3>5, <3>6, <3>10, LeadsAppend
      <4> QED BY <4>1, <4>2, <4>3
    <3>12. Expected(doc, frames', f)
      <4> SUFFICES ASSUME NEW i \in Ids
                   PROVE  \/ \E k \in DOMAIN frames :
                               /\ Waits(frames'[k]) /\ frames'[k].id = i
                               /\ f[i] = Merged(frames'[k], doc[i])
                          \/ /\ \A k \in DOMAIN frames : Waits(frames'[k]) => frames'[k].id # i
                             /\ f[i] = doc[i]
        BY <1>5, <3>6 DEF Expected
      <4>1. \A k \in DOMAIN frames : /\ Waits(frames'[k]) <=> Waits(frames[k])
                                     /\ frames'[k].id = frames[k].id
        BY <1>4 DEF Waits
      <4>2. CASE i = id
        <5>1. Waits(frames'[P]) /\ frames'[P].id = id
          BY <1>2, <3>2, <4>1 DEF source
        <5> QED BY <1>2, <3>7, <3>9, <4>2, <5>1
      <4>3. CASE i # id
        <5>1. f[i] = e[i]
          BY <3>7, <4>3
        <5>2. \A k \in DOMAIN frames : frames[k].id = i =>
                Merged(frames'[k], doc[i]) = Merged(frames[k], doc[i])
          <6> SUFFICES ASSUME NEW k \in DOMAIN frames, frames[k].id = i
                       PROVE  Merged(frames'[k], doc[i]) = Merged(frames[k], doc[i])
            OBVIOUS
          <6>1. k # P
            BY <4>3 DEF source
          <6> QED BY <1>4, <6>1 DEF Merged
        <5> QED BY <2>1, <4>1, <5>1, <5>2 DEF Expected
      <4> QED BY <4>2, <4>3
    <3> QED BY <1>1, <3>6, <3>11, <3>12 DEF ChangeSetLeads
  <2> QED BY <1>2, <2>3, <2>4
<1> QED BY <1>6, <1>7, <1>8, <1>9, <1>10, <1>11 DEF HooksInv
-----------------------------------------------------------------------------
(* A write is applied                                                      *)

(* The operations of a write lead from e, where the change set leads, to   *)
(* e with the item as the write makes it: an update does it in two steps,  *)
(* if the computed column changes.                                         *)
LEMMA OperationsLead ==
  ASSUME NEW b, NEW ops \in Seq(Ops), NEW d \in Docs, NEW e \in Docs, Leads(b, ops, e),
         NEW frame \in Frames, SoundFrame(d, frame),
         UniqueFree(e, frame.id, frame.new),
         frame.kind = "update" => e[frame.id] = Merged(frame, d[frame.id]),
         frame.kind # "update" => e[frame.id] = d[frame.id]
  PROVE  /\ ops \o OperationsOf(frame) \in Seq(Ops)
         /\ [e EXCEPT ![frame.id] = frame.new] \in Docs
         /\ Leads(b, ops \o OperationsOf(frame), [e EXCEPT ![frame.id] = frame.new])
PROOF
<1> DEFINE id == frame.id
<1> DEFINE old == frame.old
<1> DEFINE new == frame.new
<1> DEFINE f == [e EXCEPT ![id] = new]
<1>1. /\ id \in Ids /\ old \in Items /\ new \in Items /\ d[id] = old
      /\ frame.kind \in {"insert", "remove", "update"}
  BY FrameFacts DEF SoundFrame
<1>2. Unique(e)
  BY DEF Leads
<1>3. f \in Docs /\ Unique(f) /\ f[id] = new /\ \A other \in Ids \ {id} : f[other] = e[other]
  <2>1. f \in Docs /\ Unique(f)
    BY <1>1, <1>2, PutUnique
  <2> QED BY <1>1, <2>1 DEF Docs
<1>4. \A op \in Ops : ops \o <<op>> = Append(ops, op)
  OBVIOUS
<1>5. ASSUME NEW op \in Ops, op.id = id, Changes(e[id], op, new)
      PROVE  ops \o <<op>> \in Seq(Ops) /\ Leads(b, ops \o <<op>>, f)
  <2>1. Connects(e, op, f)
    BY <1>3, <1>5 DEF Connects
  <2> HIDE DEF f
  <2>2. Append(ops, op) \in Seq(Ops) /\ Leads(b, Append(ops, op), f)
    BY <1>3, <2>1, LeadsAppend
  <2> QED BY <1>4, <2>2
<1> HIDE DEF f, id, old, new
<1>6. CASE frame.kind = "insert"
  <2> DEFINE first == Inserted(id, new)
  <2> DEFINE second == Updated(id, "c", Absent.c, new.c)
  <2>1. e[id] = Absent /\ Live(new) /\ new.c = Computed(new.a, new.u)
    BY <1>1, <1>6 DEF SoundFrame, Row, id, old, new
  <2>2. Absent.c # new.c
    <3>1. Absent.c = <<0, 0>> /\ new.c = <<new.a, new.u>> /\ new.a # 0
      BY <2>1 DEF Absent, Computed, Null, Live
    <3> QED BY <3>1
  <2>3. OperationsOf(frame) = <<first>> \o <<second>>
    BY <1>6, <2>2 DEF OperationsOf, InsertOperations, ComputedOperations, id, new
  <2>4. first \in Ops /\ second \in Ops
    BY <1>1, AbsentFacts, ItemFacts, OpsBuilt
  <2>5. UniqueFree(e, id, new)
    BY DEF id, new
  <2>6. /\ Append(Append(ops, first), second) \in Seq(Ops)
        /\ Leads(b, Append(Append(ops, first), second), f)
    <3> HIDE DEF first, second
    <3> QED BY <1>1, <2>1, <2>5, LeadsInsert DEF f, first, second
  <2> HIDE DEF first, second
  <2>7. ops \o (<<first>> \o <<second>>) = Append(Append(ops, first), second)
    BY <2>4
  <2> QED BY <1>3, <2>3, <2>6, <2>7 DEF f, id, new
<1>7. CASE frame.kind = "remove"
  <2> DEFINE op == Removed(id, old)
  <2>1. op \in Ops /\ op.id = id /\ op.kind = "ItemRemoved" /\ op.item = old
    BY <1>1, OpsBuilt DEF Removed
  <2>2. e[id] = old /\ Live(old) /\ new = Absent
    BY <1>1, <1>7 DEF SoundFrame, Row, id, old, new
  <2>3. OperationsOf(frame) = <<op>>
    BY <1>7 DEF OperationsOf, id, old
  <2> HIDE DEF op
  <2>4. Changes(e[id], op, new)
    BY <2>1, <2>2 DEF Changes
  <2> QED BY <1>3, <1>5, <2>1, <2>3, <2>4 DEF f, id, new
<1>8. CASE frame.kind = "update"
  <2> DEFINE column == frame.column
  <2> DEFINE mid == [a |-> new.a, u |-> new.u, c |-> old.c]
  <2>1. /\ Live(old) /\ Live(new) /\ (column = "a" \/ column = "u")
        /\ e[id] = Merged(frame, old)
    BY <1>1, <1>8 DEF SoundFrame, Row, id, old, new
  <2>2. e[id] = [a |-> IF column = "a" THEN old.a ELSE new.a,
                 u |-> IF column = "u" THEN old.u ELSE new.u, c |-> old.c]
    BY <2>1 DEF Merged, new
  <2>3. /\ old.a \in Nat /\ old.u \in Nat /\ old.c \in Nat \X Nat /\ old.a # 0
        /\ new.a \in Nat /\ new.u \in Nat /\ new.c \in Nat \X Nat /\ new.a # 0
    BY <1>1, <2>1, ItemFacts DEF Live
  <2>4. mid \in Items /\ Live(mid) /\ e[id] \in Items /\ Live(e[id])
    BY <2>2, <2>3 DEF Items, Live
  <2> DEFINE op == Updated(id, column, old[column], new[column])
  <2>5. /\ old[column] = (IF column = "a" THEN old.a ELSE old.u)
        /\ new[column] = (IF column = "a" THEN new.a ELSE new.u)
        /\ mid[column] = new[column] /\ e[id][column] = old[column]
        /\ \A other \in Columns3 \ {column} : mid[other] = e[id][other]
    BY <2>1, <2>2 DEF Columns3
  <2>6. /\ op \in Ops /\ op.id = id /\ op.kind = "ColumnUpdated" /\ op.column = column
        /\ op.old = old[column] /\ op.new = new[column]
    <3>1. old[column] \in Nat /\ new[column] \in Nat /\ column \in {"a", "u"}
      BY <2>1, <2>3, <2>5
    <3> HIDE DEF column
    <3> QED BY <1>1, <3>1, OpsBuilt DEF Updated
  <2> HIDE DEF op, column
  <2>7. Changes(e[id], op, mid)
    <3> HIDE DEF mid
    <3> QED BY <2>4, <2>5, <2>6 DEF Changes
  <2>8. CASE old.c = new.c
    <3>1. mid = new
      BY <1>1, <2>8, ItemFacts
    <3>2. OperationsOf(frame) = <<op>> \o << >>
      BY <1>8, <2>8 DEF OperationsOf, UpdateOperations, ComputedOperations, op, column, id, old, new
    <3>3. <<op>> \o << >> = <<op>>
      OBVIOUS
    <3> QED BY <1>3, <1>5, <2>6, <2>7, <3>1, <3>2, <3>3 DEF f, id, new
  <2>9. CASE old.c # new.c
    <3> DEFINE m == [e EXCEPT ![id] = mid]
    <3> DEFINE second == Updated(id, "c", old.c, new.c)
    <3>1. second \in Ops /\ second.id = id /\ second.kind = "ColumnUpdated"
          /\ second.column = "c" /\ second.old = old.c /\ second.new = new.c
      BY <1>1, <2>3, OpsBuilt DEF Updated
    <3>2. OperationsOf(frame) = <<op>> \o <<second>>
      BY <1>8, <2>9 DEF OperationsOf, UpdateOperations, ComputedOperations, op, column, id, old, new
    <3> HIDE DEF second
    <3>3. Changes(mid, second, new)
      <4>1. mid["c"] = old.c /\ new["c"] = new.c /\ new["a"] = mid["a"] /\ new["u"] = mid["u"]
        OBVIOUS
      <4> HIDE DEF mid
      <4> QED BY <2>1, <2>4, <3>1, <4>1 DEF Changes, Columns3
    <3>4. mid.u = new.u
      OBVIOUS
    <3> HIDE DEF mid
    <3>5. m \in Docs /\ Unique(m)
      <4>1. UniqueFree(e, id, mid)
        BY <3>4 DEF UniqueFree, id, new
      <4> QED BY <1>1, <1>2, <2>4, <4>1, PutUnique
    <3>6. m[id] = mid /\ \A other \in Ids \ {id} : m[other] = e[other]
      BY <1>1 DEF Docs
    <3> HIDE DEF m
    <3>7. Connects(e, op, m)
      BY <2>6, <2>7, <3>6 DEF Connects
    <3>8. Connects(m, second, f)
      BY <1>3, <3>1, <3>3, <3>6 DEF Connects
    <3>9. PICK first \in Seq(Ops) : first = Append(ops, op) /\ Leads(b, first, m)
      BY <2>6, <3>5, <3>7, LeadsAppend
    <3>10. Append(first, second) \in Seq(Ops) /\ Leads(b, Append(first, second), f)
      BY <1>3, <3>1, <3>8, <3>9, LeadsAppend
    <3>11. ops \o (<<op>> \o <<second>>) = Append(Append(ops, op), second)
      BY <2>6, <3>1
    <3> QED BY <1>3, <3>2, <3>9, <3>10, <3>11 DEF f, id, new
  <2> QED BY <2>8, <2>9
<1> QED BY <1>1, <1>6, <1>7, <1>8

(* An item recorded is in the journal, and what is there stays.            *)
LEMMA RecordedFacts ==
  ASSUME NEW journal \in Journals, NEW id \in Ids, NEW item \in Items
  PROVE  /\ Recorded(journal, id, item) \in Journals
         /\ DOMAIN Recorded(journal, id, item) = DOMAIN journal \cup {id}
         /\ \A k \in DOMAIN journal : Recorded(journal, id, item)[k] = journal[k]
         /\ id \notin DOMAIN journal => Recorded(journal, id, item)[id] = item
PROOF
<1> DEFINE more == Recorded(journal, id, item)
<1>1. PICK S \in SUBSET Ids : journal \in [S -> Items]
  BY DEF Journals
<1>2. DOMAIN journal = S /\ \A k \in S : journal[k] \in Items
  BY <1>1
<1>3. more = [k \in S \cup {id} |-> IF k \in S THEN journal[k] ELSE item]
  BY <1>2 DEF Recorded
<1>4. more \in [S \cup {id} -> Items]
  BY <1>2, <1>3
<1>5. S \cup {id} \in SUBSET Ids
  OBVIOUS
<1>6. more \in Journals
  BY <1>4, <1>5 DEF Journals
<1>7. /\ DOMAIN more = S \cup {id} /\ \A k \in S : more[k] = journal[k]
      /\ id \notin S => more[id] = item
  BY <1>3
<1> QED BY <1>2, <1>6, <1>7

(* What applying the innermost write changes                               *)
LEMMA ApplyTopFacts ==
  ASSUME HooksInv, ApplyTop
  PROVE  LET N == Len(frames)
             top == frames[N]
         IN  /\ N \in Nat \ {0} /\ DOMAIN frames = 1..N /\ top \in Frames
             /\ \A k \in DOMAIN frames : frames[k] \in Frames
             /\ top.phase = "before" /\ CurrentTx = top.tx
             /\ SoundFrame(doc, top) /\ UniqueFree(doc, top.id, top.new)
             /\ doc' = [doc EXCEPT ![top.id] = top.new]
             /\ frames' = [frames EXCEPT ![N] =
                  [kind |-> top.kind, id |-> top.id, column |-> top.column,
                   old |-> top.old, new |-> top.new, phase |-> "after",
                   tx |-> [ops |-> top.tx.ops \o OperationsOf(top),
                           journal |-> Recorded(top.tx.journal, top.id, doc[top.id])]]]
             /\ base' = base /\ nextId' = nextId /\ open' = open /\ tx' = tx /\ open
PROOF
<1> DEFINE N == Len(frames)
<1> DEFINE top == frames[N]
<1>1. Typed /\ frames # <<>> /\ Top.phase = "before" /\ Applicable(Top)
  BY DEF HooksInv, ApplyTop, InHook
<1>2. /\ N \in Nat \ {0} /\ DOMAIN frames = 1..N /\ N \in DOMAIN frames
      /\ \A k \in DOMAIN frames : frames[k] \in Frames
      /\ Top = top /\ CurrentTx = top.tx
  <2>1. /\ N \in Nat /\ DOMAIN frames = 1..N /\ N \in DOMAIN frames
        /\ \A k \in DOMAIN frames : frames[k] \in Frames
        /\ Top = top /\ CurrentTx = top.tx
    BY <1>1, CurrentFacts
  <2> QED BY <2>1
<1>3. SoundFrame(doc, top)
  BY <1>1, <1>2 DEF HooksInv, FramesSound
<1>4. UniqueFree(doc, top.id, top.new)
  <2> HIDE DEF top
  <2>1. top.id \in Ids /\ top.kind \in {"insert", "remove", "update"}
    BY <1>2, FrameFacts DEF top
  <2>2. CASE top.kind = "insert"
    BY <1>1, <1>2, <2>2 DEF Applicable
  <2>3. CASE top.kind = "remove"
    BY <1>3, <2>3, AbsentFacts DEF SoundFrame, UniqueFree
  <2>4. CASE top.kind = "update"
    <3>1. CASE UniqueFree(doc, top.id, top.new)
      BY <3>1
    <3>2. CASE top.new.u = top.old.u /\ doc[top.id] = top.old
      BY <2>1, <3>2 DEF UniqueFree, HooksInv, SoundDoc, Unique
    <3> QED BY <1>3, <2>4, <3>1, <3>2 DEF SoundFrame
  <2> QED BY <2>1, <2>2, <2>3, <2>4
<1>5. doc' = [doc EXCEPT ![top.id] = top.new]
  BY <1>2 DEF ApplyTop
<1>6. open /\ base' = base /\ nextId' = nextId /\ open' = open /\ tx' = tx
  BY <1>1 DEF ApplyTop, HooksInv, Ended
<1> DEFINE t == [ops |-> top.tx.ops \o OperationsOf(top),
                 journal |-> Recorded(top.tx.journal, top.id, doc[top.id])]
<1> DEFINE g == [kind |-> top.kind, id |-> top.id, column |-> top.column,
                 old |-> top.old, new |-> top.new, phase |-> "after", tx |-> t]
<1>7. frames' = [frames EXCEPT ![N] = g]
  <2>1. frames' = [frames EXCEPT ![N].phase = "after",
                                 ![N].tx =
                      [ops |-> @.ops \o OperationsOf(top),
                       journal |-> Recorded(@.journal, top.id, doc[top.id])]]
    BY <1>2 DEF ApplyTop
  <2>2. top = [kind |-> top.kind, id |-> top.id, column |-> top.column, old |-> top.old,
               new |-> top.new, phase |-> top.phase, tx |-> top.tx]
    BY <1>2, FrameFacts
  <2>3. frames' = [frames EXCEPT ![N].phase = "after", ![N].tx = t]
    <3>1. [frames EXCEPT ![N].phase = "after"][N].tx = top.tx
      <4>1. [frames EXCEPT ![N].phase = "after"][N] = [top EXCEPT !.phase = "after"]
        BY <1>2
      <4> HIDE DEF top
      <4> QED BY <2>2, <4>1
    <3> QED BY <2>1, <3>1
  <2> HIDE DEF t
  <2>4. frames' = [frames EXCEPT ![N] = [[top EXCEPT !.phase = "after"] EXCEPT !.tx = t]]
    BY <1>2, <2>3
  <2> HIDE DEF top
  <2>5. PICK h : h = [top EXCEPT !.phase = "after"]
    OBVIOUS
  <2>6. h = [kind |-> top.kind, id |-> top.id, column |-> top.column, old |-> top.old,
             new |-> top.new, phase |-> "after", tx |-> top.tx]
    BY <2>2, <2>5
  <2>7. [h EXCEPT !.tx = t] = g
    BY <2>6
  <2> HIDE DEF g
  <2> QED BY <2>4, <2>5, <2>7
<1> QED BY <1>1, <1>2, <1>3, <1>4, <1>5, <1>6, <1>7

LEMMA ApplyTopInv == HooksInv /\ ApplyTop => HooksInv'
PROOF
<1> SUFFICES ASSUME HooksInv, ApplyTop PROVE HooksInv'
  OBVIOUS
<1> DEFINE N == Len(frames)
<1> DEFINE top == frames[N]
<1> DEFINE id == top.id
<1> DEFINE new == top.new
<1> DEFINE t == [ops |-> top.tx.ops \o OperationsOf(top),
                 journal |-> Recorded(top.tx.journal, id, doc[id])]
<1> DEFINE g == [kind |-> top.kind, id |-> id, column |-> top.column,
                 old |-> top.old, new |-> new, phase |-> "after", tx |-> t]
<1>1. /\ N \in Nat \ {0} /\ DOMAIN frames = 1..N /\ top \in Frames
      /\ \A k \in DOMAIN frames : frames[k] \in Frames
      /\ top.phase = "before" /\ CurrentTx = top.tx
      /\ SoundFrame(doc, top) /\ UniqueFree(doc, id, new)
      /\ doc' = [doc EXCEPT ![id] = new]
      /\ frames' = [frames EXCEPT ![N] = g]
      /\ base' = base /\ nextId' = nextId /\ open' = open /\ tx' = tx /\ open
  BY ApplyTopFacts
<1>2. /\ id \in Ids /\ new \in Items /\ top.tx \in Txs /\ top.old \in Items
      /\ top.tx.ops \in Seq(Ops) /\ top.tx.journal \in Journals
      /\ N \in DOMAIN frames /\ top.kind \in {"insert", "remove", "update"}
  <2>1. N \in DOMAIN frames
    BY <1>1
  <2> QED BY <1>1, <2>1, FrameFacts, TxFacts
<1>3. /\ doc \in Docs /\ Unique(doc) /\ doc[id] = top.old
      /\ doc' \in Docs /\ Unique(doc') /\ doc'[id] = new
      /\ \A other \in Ids \ {id} : doc'[other] = doc[other]
  <2>1. doc \in Docs /\ Unique(doc) /\ doc[id] = top.old
    BY <1>1 DEF HooksInv, SoundDoc, SoundFrame
  <2>2. doc' \in Docs /\ Unique(doc')
    BY <1>1, <1>2, <2>1, PutUnique
  <2> QED BY <1>1, <1>2, <2>1, <2>2 DEF Docs
<1>4. PICK e \in Docs : Expected(doc, frames, e) /\ Leads(base, CurrentTx.ops, e)
  BY DEF HooksInv, ChangeSetLeads
<1>5. \A k \in DOMAIN frames : frames[k].id = id => k = N
  BY <1>2 DEF HooksInv, FramesApart
<1>6. /\ top.kind = "update" => e[id] = Merged(top, doc[id])
      /\ top.kind # "update" => e[id] = doc[id]
  BY <1>1, <1>2, <1>4, <1>5 DEF Expected, Waits
<1> DEFINE f == [e EXCEPT ![id] = new]
<1>7. /\ top.tx.ops \o OperationsOf(top) \in Seq(Ops) /\ f \in Docs
      /\ Leads(base, top.tx.ops \o OperationsOf(top), f)
  <2>1. UniqueFree(e, id, new)
    <3>1. \A i \in Ids : e[i].u = doc[i].u
      BY <1>3, <1>4, ExpectedUniques DEF HooksInv
    <3> QED BY <1>1, <3>1 DEF UniqueFree
  <2>2. Leads(base, top.tx.ops, e)
    BY <1>1, <1>4
  <2> HIDE DEF top
  <2> QED BY <1>1, <1>2, <1>3, <1>4, <1>6, <2>1, <2>2, OperationsLead
<1>8. f[id] = new /\ \A other \in Ids \ {id} : f[other] = e[other]
  BY SMTT(30), <1>2, <1>4 DEF Docs
<1>9. /\ t \in Txs /\ t.ops = top.tx.ops \o OperationsOf(top)
      /\ t.journal = Recorded(top.tx.journal, id, doc[id])
  <2>1. Recorded(top.tx.journal, id, doc[id]) \in Journals
    BY <1>2, <1>3, RecordedFacts
  <2> QED BY <1>7, <2>1, TxFacts
<1> HIDE DEF f, t
<1>10. /\ g \in Frames /\ g.kind = top.kind /\ g.id = id /\ g.column = top.column
       /\ g.old = top.old /\ g.new = new /\ g.phase = "after" /\ g.tx = t
  <2>1. top.column \in {"none", "a", "u"}
    BY <1>1, FrameFacts
  <2> HIDE DEF top
  <2> QED BY <1>2, <1>9, <2>1 DEF Frames
<1> HIDE DEF g, N, top, id, new
<1>11. /\ frames' \in Seq(Frames) /\ Len(frames') = N /\ DOMAIN frames' = DOMAIN frames
       /\ frames'[N] = g /\ \A k \in DOMAIN frames : k # N => frames'[k] = frames[k]
  <2>1. frames \in Seq(Frames) /\ Len(frames) = N
    BY DEF HooksInv, Typed, N
  <2> QED BY <1>1, <1>2, <1>10, <2>1
<1>12. CurrentTx' = t
  <2>1. frames' # <<>> /\ Len(frames') = N
    BY <1>1, <1>11
  <2>2. CurrentTx' = frames'[N].tx
    BY <2>1 DEF CurrentTx, InHook, Top, Last
  <2> QED BY <1>10, <1>11, <2>2
<1>13. Typed' /\ Ended'
  BY <1>1, <1>11 DEF HooksInv, Typed, Ended
<1>14. SoundDoc(doc', nextId') /\ SoundDoc(base', nextId')
  <2>1. new = Absent \/ Row(new)
    BY <1>1, <1>2 DEF SoundFrame, new
  <2>2. \A i \in Ids : doc'[i] = Absent \/ Row(doc'[i])
    BY <1>3, <2>1 DEF HooksInv, SoundDoc
  <2>3. ~(id >= nextId)
    <3>1. id < nextId
      BY <1>2 DEF HooksInv, FramesApart, id, top
    <3>2. id \in Nat /\ nextId \in Nat
      BY <1>2, HooksAssumption DEF Ids, HooksInv, Typed
    <3> QED BY <3>1, <3>2
  <2>4. \A i \in Ids : i >= nextId => doc'[i] = Absent
    BY <1>3, <2>3 DEF HooksInv, SoundDoc
  <2> QED BY <1>1, <1>3, <2>2, <2>4 DEF HooksInv, SoundDoc
<1>15. Covers(CurrentTx'.journal, base', doc')
  <2> DEFINE journal == top.tx.journal
  <2> DEFINE more == Recorded(journal, id, doc[id])
  <2>1. Covers(journal, base, doc)
    BY <1>1 DEF HooksInv
  <2>2. /\ DOMAIN more = DOMAIN journal \cup {id}
        /\ \A k \in DOMAIN journal : more[k] = journal[k]
        /\ id \notin DOMAIN journal => more[id] = doc[id]
    <3>1. journal \in Journals /\ doc[id] \in Items /\ id \in Ids
      BY <1>2, <1>3
    <3> HIDE DEF journal
    <3> QED BY <3>1, RecordedFacts
  <2>3. CurrentTx'.journal = more
    BY <1>9, <1>12
  <2> HIDE DEF journal, more
  <2>4. Covers(more, base, doc')
    BY <1>2, <1>3, <2>1, <2>2 DEF Covers
  <2> QED BY <1>1, <2>3, <2>4
<1>16. FramesApart(nextId', frames')
  <2>1. FramesApart(nextId, frames) /\ Len(frames') = Len(frames) /\ frames[N].id = id
    BY <1>11 DEF HooksInv, N, id, top
  <2>2. \A k \in DOMAIN frames : frames'[k].id = frames[k].id
    BY <1>10, <1>11, <2>1
  <2>3. \A k \in DOMAIN frames : k < Len(frames) => frames'[k].phase = frames[k].phase
    <3>1. N = Len(frames) /\ ~(N < N)
      BY <1>1 DEF N
    <3> QED BY <1>11, <3>1
  <2> QED BY <1>1, <1>11, <2>1, <2>2, <2>3 DEF FramesApart
<1>17. FramesSound(doc', frames')
  <2> SUFFICES ASSUME NEW k \in DOMAIN frames, frames'[k].phase = "before"
               PROVE  SoundFrame(doc', frames'[k])
    BY <1>11 DEF FramesSound
  <2> DEFINE w == frames[k]
  <2>1. k # N /\ frames'[k] = w
    BY <1>10, <1>11
  <2>2. w \in Frames /\ w.phase = "before" /\ SoundFrame(doc, w) /\ w.id # id /\ w.id \in Ids
    <3>1. w \in Frames /\ w.phase = "before"
      BY <1>1, <2>1
    <3>2. SoundFrame(doc, w)
      BY <3>1 DEF HooksInv, FramesSound
    <3> QED BY <1>5, <2>1, <3>1, <3>2, FrameFacts
  <2>3. doc'[w.id] = doc[w.id]
    BY <1>3, <2>2
  <2>4. w.kind = "update" /\ UniqueFree(doc, w.id, w.new) => UniqueFree(doc', w.id, w.new)
    <3> SUFFICES ASSUME w.kind = "update", UniqueFree(doc, w.id, w.new), w.new.u # Null,
                        NEW other \in Ids \ {w.id}
                 PROVE  doc'[other].u # w.new.u
      BY DEF UniqueFree
    <3>1. CASE other # id
      BY <1>3, <3>1 DEF UniqueFree
    <3>2. CASE other = id
      <4>1. new.u \in {Null, doc[id].u}
        <5>1. k < N
          <6>1. k \in 1..N /\ N \in Nat
            BY <1>1
          <6> QED BY <2>1, <6>1
        <5>2. top.new.u \in {Null, top.old.u}
          BY <1>1, <1>2, <5>1 DEF HooksInv, UniquesLeft, top
        <5> QED BY <1>3, <5>2 DEF new
      <4>2. doc[id].u # w.new.u
        BY <3>2 DEF UniqueFree
      <4> QED BY <1>3, <3>2, <4>1, <4>2
    <3> QED BY <3>1, <3>2
  <2> HIDE DEF w
  <2> QED BY <2>1, <2>2, <2>3, <2>4 DEF SoundFrame
<1>18. UniquesLeft(frames')
  <2> SUFFICES ASSUME NEW j \in DOMAIN frames, NEW k \in DOMAIN frames, j < k,
                      frames'[j].kind = "update", frames'[k].phase = "before"
               PROVE  frames'[k].new.u \in {Null, frames'[k].old.u}
    BY <1>11 DEF UniquesLeft
  <2>1. k # N /\ frames'[k] = frames[k]
    BY <1>10, <1>11
  <2>2. frames[j].kind = "update"
    BY <1>10, <1>11 DEF top
  <2> QED BY <2>1, <2>2 DEF HooksInv, UniquesLeft
<1>19. ChangeSetLeads(base', CurrentTx'.ops, doc', frames')
  <2>1. ASSUME NEW i \in Ids
        PROVE  \/ \E k \in DOMAIN frames : /\ Waits(frames'[k]) /\ frames'[k].id = i
                                           /\ f[i] = Merged(frames'[k], doc'[i])
               \/ /\ \A k \in DOMAIN frames : Waits(frames'[k]) => frames'[k].id # i
                  /\ f[i] = doc'[i]
    <3>1. ~Waits(g) /\ g.id = id
      BY <1>10 DEF Waits
    <3>2. CASE i = id
      <4>1. \A k \in DOMAIN frames : Waits(frames'[k]) => frames'[k].id # i
        BY <1>5, <1>11, <3>1, <3>2
      <4> QED BY <1>3, <1>8, <3>2, <4>1
    <3>3. CASE i # id
      <4>1. f[i] = e[i] /\ doc'[i] = doc[i]
        BY <1>3, <1>8, <3>3
      <4>2. \A k \in DOMAIN frames : frames[k].id = i => k # N /\ frames'[k] = frames[k]
        BY <1>11, <3>3 DEF id, top
      <4>3. \A k \in DOMAIN frames : Waits(frames'[k]) /\ frames'[k].id = i
                                       => frames'[k] = frames[k]
        BY <1>11, <3>1
      <4> QED BY <1>4, <4>1, <4>2, <4>3 DEF Expected
    <3> QED BY <3>2, <3>3
  <2>2. Expected(doc', frames', f)
    BY <1>7, <1>11, <2>1 DEF Expected
  <2>3. Leads(base', CurrentTx'.ops, f)
    BY <1>1, <1>7, <1>9, <1>12
  <2> QED BY <1>7, <2>2, <2>3 DEF ChangeSetLeads
<1> QED BY <1>13, <1>14, <1>15, <1>16, <1>17, <1>18, <1>19 DEF HooksInv
-----------------------------------------------------------------------------
(* Theorems                                                                *)

LEMMA NextInv ==
  ASSUME Careless = {}
  PROVE  HooksInv /\ [Next]_vars => HooksInv'
PROOF
<1> SUFFICES ASSUME HooksInv, [Next]_vars PROVE HooksInv'
  OBVIOUS
<1>1. CASE Begin
  BY <1>1, BeginInv
<1>2. CASE \E a \in ValuesOf("a"), u \in ValuesOf("u") : Insert(a, u)
  BY <1>2, InsertInv
<1>3. CASE \E id \in Ids : RemoveItem(id)
  BY <1>3, RemoveInv
<1>4. CASE \E column \in Columns : \E value \in ValuesOf(column) :
             \E id \in Ids : Update(id, column, value)
  BY <1>4, UpdateInv
<1>5. CASE \E column \in Columns : \E value \in ValuesOf(column) : UpdatePending(column, value)
  BY <1>5, UpdatePendingInv
<1>6. CASE ApplyTop
  BY <1>6, ApplyTopInv
<1>7. CASE Return
  BY <1>7, ReturnInv
<1>8. CASE Fail
  BY <1>8, FailInv
<1>9. CASE Commit
  BY <1>9, CommitInv
<1>10. CASE Rollback
  BY <1>10, RollbackInv
<1>11. CASE UNCHANGED vars
  BY <1>11 DEF vars, HooksInv, Typed, Ended, CurrentTx, InHook, Top
<1> QED BY <1>1, <1>2, <1>3, <1>4, <1>5, <1>6, <1>7, <1>8, <1>9, <1>10, <1>11 DEF Next

(* The inductive invariant holds in every state, if hooks are careful.     *)
THEOREM Invariant ==
  ASSUME Careless = {}
  PROVE  Spec => []HooksInv
PROOF
<1>1. HooksInv /\ [Next]_vars => HooksInv'
  BY NextInv
<1> QED BY <1>1, InitInv, PTL DEF Spec

(* markFailed, engine.cpp: after a failure at any depth of hooks, nothing  *)
(* is left of the transaction.  The journal of the innermost write has the *)
(* item of every write before it, as the transaction found it.             *)
THEOREM FailureUndone ==
  ASSUME Careless = {}
  PROVE  Spec => []FailureUndoesEverything
PROOF
<1>1. HooksInv => FailureUndoesEverything
  BY DEF HooksInv, Ended, FailureUndoesEverything
<1> QED BY <1>1, Invariant, PTL

(* The change set of a transaction, applied to the document it began with, *)
(* gives the one it made, and its inverse leads back, whatever hooks added *)
(* or changed in writes that were under way.                               *)
THEOREM ChangeSetExplains ==
  ASSUME Careless = {}
  PROVE  Spec => []ChangeSetExplainsDocument
PROOF
<1>1. HooksInv => ChangeSetExplainsDocument
  BY Explained DEF ChangeSetExplainsDocument, InHook
<1> QED BY <1>1, Invariant, PTL

(* No two items share a unique value, though an update is validated before *)
(* its hooks run and not again.                                            *)
THEOREM UniqueKept ==
  ASSUME Careless = {}
  PROVE  Spec => []UniqueValues
PROOF
<1>1. HooksInv => UniqueValues
  BY DEF HooksInv, SoundDoc, Unique, UniqueValues
<1> QED BY <1>1, Invariant, PTL
=============================================================================
