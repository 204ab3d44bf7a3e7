-------------------------- MODULE SharedDataProofs --------------------------
(***************************************************************************)
(* Proofs about SharedData, for any finite number of threads and pointers  *)
(* and any blocks and payloads: the counts are exact, and the pointers     *)
(* implement independent values.                                           *)
(***************************************************************************)
EXTENDS SharedData, FiniteSetTheorems, TLAPS

(* Types; a thread runs one operation at most. *)
Typed ==
  /\ data \in [Pointers -> Blocks \cup {Null}]
  /\ refs \in [Blocks -> Nat]
  /\ payload \in [Blocks -> Payloads \cup {NoPayload}]
  /\ live \subseteq Blocks
  /\ \A b \in live : payload[b] \in Payloads
  /\ task \in [Threads -> SUBSET Tasks]
  /\ \A t \in Threads : \A k, j \in task[t] : k = j

(* What the fields of an operation are, by its kind and its place. *)
Shape(k) ==
  /\ k.target # k.source
  /\ k.op = "copy" => k.at \in {"ref", "deref", "delete", "assign"}
  /\ k.op \in {"move", "reset"} => k.at \in {"deref", "delete", "assign"}
  /\ k.op = "write" => k.at # "ref"
  /\ k.source # Null <=> k.op \in {"copy", "move"}
  /\ k.op \in {"copy", "move"} => k.fresh = Null
  /\ k.op = "write" => (k.fresh # Null <=> k.at \in {"deref", "delete", "assign"})

(* A pointer that is written is not null, nor is one whose block is about  *)
(* to be deleted.                                                          *)
Held(k) == (k.op = "write" \/ k.at = "delete") => data[k.target] # Null

(* The rule of use: nobody else uses a pointer that is being written.      *)
Apart(k, j) ==
  /\ k.target # j.target /\ k.target # j.source /\ k.source # j.target
  /\ k.op = "move" => k.source # j.source
  /\ j.op = "move" => k.source # j.source

RuleOfUse ==
  /\ \A t \in Threads : \A k \in task[t] : Shape(k) /\ Held(k)
  /\ \A t, u \in Threads : t # u => \A k \in task[t], j \in task[u] : Apart(k, j)

(* Owners and Takers by pointer and by thread. *)
LetGo(p) == \E t \in Threads : \E k \in task[t] : k.target = p /\ Released(k)
Holders(b) == {p \in Pointers : data[p] = b /\ ~LetGo(p)}
Takes(k, b) == k.fresh = b \/ (k.op = "copy" /\ k.at # "ref" /\ data[k.source] = b)
TakingThreads(b) == {t \in Threads : \E k \in task[t] : Takes(k, b)}
Deleting(b) == {t \in Threads : \E k \in At(t, "delete") : data[k.target] = b}

Count(b) == Cardinality(Holders(b)) + Cardinality(TakingThreads(b))

(* The count is exact, and a block whose last reference has gone has one   *)
(* thread that deletes it; a thread that deletes has taken the last one.   *)
Counted ==
  \A b \in Blocks :
    /\ Count(b) > 0 => b \in live
    /\ b \in live => refs[b] = Count(b)
    /\ b \in live /\ Count(b) = 0 => \E t \in Threads : Deleting(b) = {t}
    /\ Deleting(b) # {} => b \in live /\ Count(b) = 0

CountInv == Typed /\ RuleOfUse /\ Counted
-----------------------------------------------------------------------------
(* Starting an operation, and one of its steps, for all that is not data.  *)

LEMMA InitInv == Init => CountInv
<1> SUFFICES ASSUME Init
             PROVE  CountInv
  OBVIOUS
<1>1. Typed
  BY DEF Init, Typed
<1>2. RuleOfUse
  BY DEF Init, RuleOfUse
<1>3. \A b \in Blocks : Holders(b) = {} /\ TakingThreads(b) = {} /\ Deleting(b) = {}
  BY SharedDataAssumption DEF Init, Holders, TakingThreads, Deleting, At
<1>4. Counted
  BY <1>3, FS_EmptySet DEF Init, Counted, Count
<1> QED
  BY <1>1, <1>2, <1>4 DEF CountInv

(* The sets that are counted are finite. *)
LEMMA CountFinite ==
  ASSUME NEW b
  PROVE  /\ IsFiniteSet(Holders(b)) /\ IsFiniteSet(TakingThreads(b))
         /\ Cardinality(Holders(b)) \in Nat /\ Cardinality(TakingThreads(b)) \in Nat
         /\ Count(b) \in Nat
         /\ Count(b) = 0 <=> Holders(b) = {} /\ TakingThreads(b) = {}
<1>1. Holders(b) \in SUBSET Pointers /\ TakingThreads(b) \in SUBSET Threads
  BY DEF Holders, TakingThreads
<1>2. IsFiniteSet(Holders(b)) /\ IsFiniteSet(TakingThreads(b))
  BY <1>1, FS_Subset, SharedDataAssumption
<1>3. Cardinality(Holders(b)) \in Nat /\ Cardinality(TakingThreads(b)) \in Nat
  BY <1>2, FS_CardinalityType
<1>4. /\ Cardinality(Holders(b)) = 0 <=> Holders(b) = {}
      /\ Cardinality(TakingThreads(b)) = 0 <=> TakingThreads(b) = {}
  BY <1>2, FS_EmptySet
<1> QED
  BY <1>2, <1>3, <1>4 DEF Count

(* The definitions of SharedData count the same sets. *)
LEMMA CountsAgree ==
  ASSUME Typed, RuleOfUse, NEW b \in Blocks
  PROVE  Owners(b) = Holders(b) /\ Cardinality(Takers(b)) = Cardinality(TakingThreads(b))
<1>1. \A k : k \in Underway <=> \E t \in Threads : k \in task[t]
  BY DEF Underway
<1>2. Owners(b) = Holders(b)
  BY <1>1 DEF Owners, Holders, LetGo
<1> DEFINE T == TakingThreads(b)
           f == [t \in T |-> CHOOSE k \in task[t] : Takes(k, b)]
<1>3. \A t \in T : f[t] \in task[t] /\ Takes(f[t], b) /\ t \in Threads
  BY DEF TakingThreads
<1>4. f \in Bijection(T, Takers(b))
  <2>1. \A t \in T : f[t] \in Takers(b)
    BY <1>1, <1>3 DEF Takers, Takes
  <2>2. \A t, u \in T : f[t] = f[u] => t = u
    BY <1>3 DEF RuleOfUse, Apart
  <2>3. \A k \in Takers(b) : \E t \in T : f[t] = k
    <3> SUFFICES ASSUME NEW k \in Takers(b)
                 PROVE  \E t \in T : f[t] = k
      OBVIOUS
    <3>1. PICK t \in Threads : k \in task[t]
      BY <1>1 DEF Takers
    <3>2. Takes(k, b)
      BY DEF Takers, Takes
    <3>3. t \in T
      BY <3>1, <3>2 DEF TakingThreads
    <3> QED
      BY <3>1, <3>3, <1>3 DEF Typed
  <2>4. f \in [T -> Takers(b)]
    BY <2>1
  <2> HIDE DEF f, T
  <2>5. f \in Injection(T, Takers(b))
    BY <2>2, <2>4 DEF Injection, IsInjective
  <2>6. f \in Surjection(T, Takers(b))
    BY <2>3, <2>4 DEF Surjection
  <2> QED
    BY <2>5, <2>6 DEF Bijection
<1>5. ExistsBijection(T, Takers(b))
  BY <1>4 DEF ExistsBijection
<1>6. Cardinality(Takers(b)) = Cardinality(T)
  BY <1>5, CountFinite, FS_Bijection
<1> QED
  BY <1>2, <1>6

(* What the rule of use says of the operation a thread begins. *)
LEMMA StartKeeps ==
  ASSUME Typed, RuleOfUse, NEW t \in Threads, NEW k \in Tasks, Start(t, k),
         Shape(k), Held(k), data' = data,
         k.source \notin Written, k.op = "move" => k.source \notin Used,
         \A b \in live' : payload'[b] \in Payloads,
         refs' \in [Blocks -> Nat], live' \subseteq Blocks,
         payload' \in [Blocks -> Payloads \cup {NoPayload}]
  PROVE  Typed' /\ RuleOfUse'
<1>1. /\ task'[t] = {k} /\ task[t] = {}
      /\ \A u \in Threads : u # t => task'[u] = task[u]
      /\ task' \in [Threads -> SUBSET Tasks]
  BY DEF Start, Typed
<1>2. Typed'
  BY <1>1 DEF Typed
<1>3. ASSUME NEW u \in Threads, NEW j \in task[u]
      PROVE  Apart(k, j) /\ Apart(j, k)
  <2>1. j \in Underway
    BY DEF Underway
  <2>2. k.target # j.target /\ k.target # j.source /\ (j.op = "move" => k.source # j.source)
    BY <2>1 DEF Start, Used, Written
  <2>3. k.source # j.target
    BY <2>1 DEF Written
  <2>4. k.op = "move" => k.source # j.source
    BY <2>1 DEF Used
  <2> QED
    BY <2>2, <2>3, <2>4 DEF Apart
<1>4. \A j : Shape(j)' = Shape(j) /\ Held(j)' = Held(j)
  BY DEF Shape, Held
<1>5. RuleOfUse'
  BY <1>1, <1>3, <1>4 DEF RuleOfUse, Apart
<1> QED
  BY <1>2, <1>5

(* ... and of a step that goes on with the same operation. *)
LEMMA AdvanceKeeps ==
  ASSUME Typed, RuleOfUse, NEW t \in Threads, NEW k \in task[t], NEW j \in Tasks,
         task' = [task EXCEPT ![t] = {j}], data' = data,
         j.op = k.op, j.target = k.target, j.source = k.source, Shape(j), Held(j),
         \A b \in live' : payload'[b] \in Payloads,
         refs' \in [Blocks -> Nat], live' \subseteq Blocks,
         payload' \in [Blocks -> Payloads \cup {NoPayload}]
  PROVE  Typed' /\ RuleOfUse'
<1>1. /\ task'[t] = {j}
      /\ \A u \in Threads : u # t => task'[u] = task[u]
      /\ task' \in [Threads -> SUBSET Tasks]
  BY DEF Typed
<1>2. Typed'
  BY <1>1 DEF Typed
<1>3. \A i : Shape(i)' = Shape(i) /\ Held(i)' = Held(i)
  BY DEF Shape, Held
<1>4. RuleOfUse'
  BY <1>1, <1>3 DEF RuleOfUse, Apart
<1> QED
  BY <1>2, <1>4

(* What is counted, after such a step. *)
Becomes(t, j) == task' = [task EXCEPT ![t] = {j}]

LEMMA AdvanceCounts ==
  ASSUME Typed, RuleOfUse, NEW t \in Threads, NEW k \in task[t], NEW j \in Tasks,
         Becomes(t, j), data' = data,
         j.target = k.target, Released(k) => Released(j), NEW b \in Blocks
  PROVE  /\ Holders(b)' = IF Released(j) THEN Holders(b) \ {k.target} ELSE Holders(b)
         /\ TakingThreads(b)' = IF Takes(j, b) THEN TakingThreads(b) \cup {t}
                                ELSE TakingThreads(b) \ {t}
         /\ Deleting(b)' = IF j.at = "delete" /\ data[k.target] = b THEN Deleting(b) \cup {t}
                           ELSE Deleting(b) \ {t}
<1>1. /\ task'[t] = {j} /\ task[t] = {k}
      /\ \A u \in Threads : u # t => task'[u] = task[u]
  BY DEF Typed, Becomes
<1>2. \A p \in Pointers : LetGo(p)' <=> LetGo(p) \/ (p = k.target /\ Released(j))
  BY <1>1 DEF LetGo, Released
<1>3. Holders(b)' = IF Released(j) THEN Holders(b) \ {k.target} ELSE Holders(b)
  BY <1>2 DEF Holders
<1>4. \A i : Takes(i, b)' = Takes(i, b)
  BY DEF Takes
<1>5. TakingThreads(b)' = IF Takes(j, b) THEN TakingThreads(b) \cup {t}
                          ELSE TakingThreads(b) \ {t}
  BY <1>1, <1>4 DEF TakingThreads
<1>6. Deleting(b)' = IF j.at = "delete" /\ data[k.target] = b THEN Deleting(b) \cup {t}
                     ELSE Deleting(b) \ {t}
  BY <1>1 DEF Deleting, At
<1> QED
  BY <1>3, <1>5, <1>6

LEMMA StartCounts ==
  ASSUME Typed, NEW t \in Threads, NEW k, Start(t, k), data' = data,
         ~Released(k), NEW b \in Blocks
  PROVE  /\ Holders(b)' = Holders(b)
         /\ TakingThreads(b)' = IF Takes(k, b) THEN TakingThreads(b) \cup {t} ELSE TakingThreads(b)
         /\ Deleting(b)' = Deleting(b)
<1>1. /\ task'[t] = {k} /\ task[t] = {}
      /\ \A u \in Threads : u # t => task'[u] = task[u]
  BY DEF Start, Typed
<1>2. \A p \in Pointers : LetGo(p)' <=> LetGo(p)
  BY <1>1 DEF LetGo, Released
<1>3. Holders(b)' = Holders(b)
  BY <1>2 DEF Holders
<1>4. \A i : Takes(i, b)' = Takes(i, b)
  BY DEF Takes
<1>5. TakingThreads(b)' = IF Takes(k, b) THEN TakingThreads(b) \cup {t} ELSE TakingThreads(b)
  BY <1>1, <1>4 DEF TakingThreads
<1>6. Deleting(b)' = Deleting(b)
  BY <1>1 DEF Deleting, At, Released
<1> QED
  BY <1>3, <1>5, <1>6
-----------------------------------------------------------------------------
(* What the invariant says of the pointers and blocks of an operation.     *)

LEMMA Referenced ==
  ASSUME CountInv, NEW b \in Blocks, Holders(b) # {} \/ TakingThreads(b) # {}
  PROVE  /\ b \in live /\ refs[b] = Count(b) /\ refs[b] >= 1
         /\ payload[b] \in Payloads /\ Deleting(b) = {}
<1>1. Count(b) \in Nat /\ Count(b) # 0
  BY CountFinite
<1> QED
  BY <1>1 DEF CountInv, Counted, Typed

LEMMA TargetHolds ==
  ASSUME CountInv, NEW t \in Threads, NEW k \in task[t], ~Released(k)
  PROVE  k.target \in Pointers /\ k.target \in Holders(data[k.target])
<1>1. k \in Tasks
  BY DEF CountInv, Typed
<1>2. ~LetGo(k.target)
  BY DEF CountInv, Typed, RuleOfUse, Apart, LetGo
<1> QED
  BY <1>1, <1>2 DEF Holders, Tasks

LEMMA SourceHolds ==
  ASSUME CountInv, NEW t \in Threads, NEW k \in task[t], k.source # Null
  PROVE  k.source \in Pointers /\ k.source \in Holders(data[k.source])
<1>1. k \in Tasks
  BY DEF CountInv, Typed
<1>2. ~LetGo(k.source)
  BY DEF CountInv, Typed, RuleOfUse, Apart, Shape, LetGo
<1> QED
  BY <1>1, <1>2 DEF Holders, Tasks

(* Nothing that is counted changes. *)
LEMMA CountsKept ==
  ASSUME Counted, live' = live, refs' = refs,
         \A b \in Blocks : /\ Holders(b)' = Holders(b)
                           /\ TakingThreads(b)' = TakingThreads(b)
                           /\ Deleting(b)' = Deleting(b)
  PROVE  Counted'
BY DEF Counted, Count

(* A block is allocated: it had no reference before, and has one now.      *)
LEMMA AllocateCounts ==
  ASSUME CountInv, NEW t \in Threads, NEW a \in Blocks, a \notin live,
         live' = live \cup {a}, refs' = [refs EXCEPT ![a] = 1],
         \A b \in Blocks : /\ Holders(b)' = Holders(b)
                           /\ TakingThreads(b)' = IF b = a THEN TakingThreads(b) \cup {t}
                                                  ELSE TakingThreads(b)
                           /\ Deleting(b)' = Deleting(b)
  PROVE  Counted'
<1>1. Holders(a) = {} /\ TakingThreads(a) = {} /\ Deleting(a) = {}
  BY Referenced DEF CountInv, Counted
<1>2. Count(a)' = 1
  <2>1. Holders(a)' = {} /\ TakingThreads(a)' = {t}
    BY <1>1
  <2> QED
    BY <2>1, FS_EmptySet, FS_Singleton DEF Count
<1>3. \A b \in Blocks \ {a} : Count(b)' = Count(b)
  BY DEF Count
<1>4. \A b \in Blocks \ {a} : refs'[b] = refs[b] /\ (b \in live' <=> b \in live)
  BY DEF CountInv, Typed
<1>5. refs'[a] = 1 /\ a \in live' /\ Deleting(a)' = {}
  BY <1>1 DEF CountInv, Typed
<1> QED
  BY <1>2, <1>3, <1>4, <1>5 DEF Counted, CountInv
-----------------------------------------------------------------------------
(* Every action keeps the invariant.                                       *)

LEMMA StartCopyKeeps ==
  ASSUME CountInv, NEW t \in Threads, NEW p \in Pointers, NEW q \in Pointers, StartCopy(t, p, q)
  PROVE  CountInv'
<1> DEFINE k == [op |-> "copy", at |-> "ref", target |-> p, source |-> q, fresh |-> Null]
<1>1. Start(t, k) /\ k.source \notin Written /\ UNCHANGED <<data, refs, payload, live>>
  BY DEF StartCopy
<1>2. k \in Tasks /\ Shape(k) /\ Held(k) /\ ~Released(k) /\ k.op # "move"
  BY SharedDataAssumption DEF StartCopy, Tasks, Ops, Places, Shape, Held, Released
<1>3. \A b \in Blocks : ~Takes(k, b)
  BY SharedDataAssumption DEF Takes
<1> HIDE DEF k
<1>4. Typed' /\ RuleOfUse'
  BY <1>1, <1>2, StartKeeps DEF CountInv, Typed
<1>5. Counted'
  BY <1>1, <1>2, <1>3, StartCounts, CountsKept DEF CountInv
<1> QED
  BY <1>4, <1>5 DEF CountInv

LEMMA StartMoveKeeps ==
  ASSUME CountInv, NEW t \in Threads, NEW p \in Pointers, NEW q \in Pointers, StartMove(t, p, q)
  PROVE  CountInv'
<1> DEFINE k == [op |-> "move", at |-> "deref", target |-> p, source |-> q, fresh |-> Null]
<1>1. Start(t, k) /\ k.source \notin Used /\ UNCHANGED <<data, refs, payload, live>>
  BY DEF StartMove
<1>2. k \in Tasks /\ Shape(k) /\ Held(k) /\ ~Released(k) /\ k.source \notin Written
  BY <1>1, SharedDataAssumption DEF StartMove, Tasks, Ops, Places, Shape, Held, Released, Used
<1>3. \A b \in Blocks : ~Takes(k, b)
  BY SharedDataAssumption DEF Takes
<1> HIDE DEF k
<1>4. Typed' /\ RuleOfUse'
  BY <1>1, <1>2, StartKeeps DEF CountInv, Typed
<1>5. Counted'
  BY <1>1, <1>2, <1>3, StartCounts, CountsKept DEF CountInv
<1> QED
  BY <1>4, <1>5 DEF CountInv

(* No pointer is named Null. *)
LEMMA NullUnused ==
  ASSUME Typed, RuleOfUse
  PROVE  Null \notin Written
<1>1. \A k \in Underway : \E t \in Threads : k \in task[t]
  BY DEF Underway
<1>2. \A k \in Underway : k \in Tasks /\ Shape(k)
  BY <1>1 DEF Typed, RuleOfUse
<1> QED
  BY <1>2, SharedDataAssumption DEF Written, Tasks, Shape

LEMMA StartReleaseKeeps ==
  ASSUME CountInv, NEW t \in Threads, NEW p \in Pointers, StartRelease(t, p)
  PROVE  CountInv'
<1> DEFINE k == [op |-> "reset", at |-> "deref", target |-> p, source |-> Null, fresh |-> Null]
<1>1. Start(t, k) /\ UNCHANGED <<data, refs, payload, live>> /\ k.source \notin Written
  BY NullUnused DEF StartRelease, CountInv
<1>2. k \in Tasks /\ Shape(k) /\ Held(k) /\ ~Released(k) /\ k.op # "move"
  BY SharedDataAssumption DEF StartRelease, Tasks, Ops, Places, Shape, Held, Released
<1>3. \A b \in Blocks : ~Takes(k, b)
  BY SharedDataAssumption DEF Takes
<1> HIDE DEF k
<1>4. Typed' /\ RuleOfUse'
  BY <1>1, <1>2, StartKeeps DEF CountInv, Typed
<1>5. Counted'
  BY <1>1, <1>2, <1>3, StartCounts, CountsKept DEF CountInv
<1> QED
  BY <1>4, <1>5 DEF CountInv

LEMMA StartWriteKeeps ==
  ASSUME CountInv, NEW t \in Threads, NEW p \in Pointers, StartWrite(t, p)
  PROVE  CountInv'
<1> DEFINE k == [op |-> "write", at |-> "load", target |-> p, source |-> Null, fresh |-> Null]
<1>1. Start(t, k) /\ UNCHANGED <<data, refs, payload, live>> /\ k.source \notin Written
  BY NullUnused DEF StartWrite, CountInv
<1>2. k \in Tasks /\ Shape(k) /\ Held(k) /\ ~Released(k) /\ k.op # "move"
  BY SharedDataAssumption DEF StartWrite, Tasks, Ops, Places, Shape, Held, Released
<1>3. \A b \in Blocks : ~Takes(k, b)
  BY SharedDataAssumption DEF Takes
<1> HIDE DEF k
<1>4. Typed' /\ RuleOfUse'
  BY <1>1, <1>2, StartKeeps DEF CountInv, Typed
<1>5. Counted'
  BY <1>1, <1>2, <1>3, StartCounts, CountsKept DEF CountInv
<1> QED
  BY <1>4, <1>5 DEF CountInv

LEMMA StartMakeKeeps ==
  ASSUME CountInv, NEW t \in Threads, NEW p \in Pointers, NEW a \in Blocks, NEW v \in Payloads,
         StartMake(t, p, a, v)
  PROVE  CountInv'
<1> DEFINE k == [op |-> "reset", at |-> "deref", target |-> p, source |-> Null, fresh |-> a]
<1>1. /\ Start(t, k) /\ data' = data /\ k.source \notin Written
      /\ a \notin live /\ live' = live \cup {a} /\ refs' = [refs EXCEPT ![a] = 1]
      /\ payload' = [payload EXCEPT ![a] = v]
  BY NullUnused DEF StartMake, Allocate, CountInv
<1>2. k \in Tasks /\ Shape(k) /\ Held(k) /\ ~Released(k) /\ k.op # "move"
  BY SharedDataAssumption DEF StartMake, Tasks, Ops, Places, Shape, Held, Released
<1>3. \A b \in Blocks : Takes(k, b) <=> b = a
  BY DEF Takes
<1> HIDE DEF k
<1>4. Typed' /\ RuleOfUse'
  <2>1. /\ \A b \in live' : payload'[b] \in Payloads
        /\ refs' \in [Blocks -> Nat] /\ live' \subseteq Blocks
        /\ payload' \in [Blocks -> Payloads \cup {NoPayload}]
    BY <1>1 DEF CountInv, Typed
  <2> QED
    BY <1>1, <1>2, <2>1, StartKeeps DEF CountInv
<1>5. Counted'
  <2>1. \A b \in Blocks :
          /\ Holders(b)' = Holders(b)
          /\ TakingThreads(b)' = IF b = a THEN TakingThreads(b) \cup {t} ELSE TakingThreads(b)
          /\ Deleting(b)' = Deleting(b)
    BY <1>1, <1>2, <1>3, StartCounts DEF CountInv
  <2> QED
    BY <1>1, <2>1, AllocateCounts
<1> QED
  BY <1>4, <1>5 DEF CountInv

(* The record an operation goes on as. *)
LEMMA AdvancedTask ==
  ASSUME NEW k \in Tasks, NEW place \in Places
  PROVE  /\ [k EXCEPT !.at = place] \in Tasks
         /\ [k EXCEPT !.at = place].at = place
         /\ [k EXCEPT !.at = place].op = k.op
         /\ [k EXCEPT !.at = place].target = k.target
         /\ [k EXCEPT !.at = place].source = k.source
         /\ [k EXCEPT !.at = place].fresh = k.fresh
BY DEF Tasks

LEMMA RefKeeps ==
  ASSUME CountInv, NEW t \in Threads, Ref(t)
  PROVE  CountInv'
<1>1. PICK k \in task[t] :
        /\ k.at = "ref"
        /\ refs' = IF data[k.source] = Null THEN refs ELSE [refs EXCEPT ![data[k.source]] = @ + 1]
        /\ Advance(t, k, "deref") /\ UNCHANGED <<data, payload, live>>
  BY DEF Ref, At
<1> DEFINE j == [k EXCEPT !.at = "deref"]
<1>2. k \in Tasks /\ Shape(k) /\ Held(k) /\ k.op = "copy" /\ k.source # Null /\ k.fresh = Null
  BY <1>1 DEF CountInv, Typed, RuleOfUse, Shape, Tasks, Ops
<1>3. /\ j \in Tasks /\ j.at = "deref" /\ j.op = k.op /\ j.target = k.target
      /\ j.source = k.source /\ j.fresh = Null /\ task' = [task EXCEPT ![t] = {j}] /\ Becomes(t, j)
  BY <1>1, <1>2, AdvancedTask DEF Places, Advance, Becomes
<1> HIDE DEF j
<1>4. Shape(j) /\ Held(j) /\ ~Released(j) /\ ~Released(k)
  BY <1>1, <1>2, <1>3 DEF Shape, Held, Released
<1>5. k.source \in Pointers /\ k.source \in Holders(data[k.source])
  BY <1>2, SourceHolds
<1>6. data[k.source] \in Blocks \cup {Null}
  BY <1>5 DEF CountInv, Typed
<1>7. Typed' /\ RuleOfUse'
  <2>1. refs' \in [Blocks -> Nat]
    BY <1>1, <1>6 DEF CountInv, Typed
  <2> QED
    BY <1>1, <1>3, <1>4, <2>1, AdvanceKeeps DEF CountInv, Typed
<1>8. \A b \in Blocks : /\ Holders(b)' = Holders(b) /\ Deleting(b)' = Deleting(b)
                        /\ t \notin TakingThreads(b)
                        /\ TakingThreads(b)' = IF b = data[k.source] THEN TakingThreads(b) \cup {t}
                                               ELSE TakingThreads(b)
  <2> SUFFICES ASSUME NEW b \in Blocks
               PROVE  /\ Holders(b)' = Holders(b) /\ Deleting(b)' = Deleting(b)
                      /\ t \notin TakingThreads(b)
                      /\ TakingThreads(b)' = IF b = data[k.source] THEN TakingThreads(b) \cup {t}
                                             ELSE TakingThreads(b)
    OBVIOUS
  <2>1. t \notin TakingThreads(b)
    BY <1>1, <1>2, SharedDataAssumption DEF TakingThreads, Takes, CountInv, Typed
  <2>2. t \notin Deleting(b)
    BY <1>1 DEF Deleting, At, CountInv, Typed
  <2>3. Takes(j, b) <=> b = data[k.source]
    BY <1>2, <1>3, SharedDataAssumption DEF Takes
  <2> QED
    <3>1. /\ Holders(b)' = Holders(b)
          /\ TakingThreads(b)' = IF Takes(j, b) THEN TakingThreads(b) \cup {t}
                                 ELSE TakingThreads(b) \ {t}
          /\ Deleting(b)' = Deleting(b) \ {t}
      BY <1>1, <1>3, <1>4, AdvanceCounts DEF CountInv
    <3> QED
      BY <2>1, <2>2, <2>3, <3>1
<1>9. Counted'
  <2>1. CASE data[k.source] = Null
    BY <1>1, <1>8, <2>1, SharedDataAssumption, CountsKept DEF CountInv
  <2>2. CASE data[k.source] \in Blocks
    <3>0. PICK c \in Blocks : c = data[k.source]
      BY <2>2
    <3>1. c # Null /\ refs'[c] = refs[c] + 1 /\ c \in live /\ c \in live'
          /\ refs[c] = Count(c) /\ Deleting(c)' = {} /\ Count(c) \in Nat
      BY <1>1, <1>5, <1>8, <3>0, Referenced, CountFinite, SharedDataAssumption DEF CountInv, Typed
    <3>2. Count(c)' = Count(c) + 1
      <4>1. TakingThreads(c)' = TakingThreads(c) \cup {t} /\ t \notin TakingThreads(c)
            /\ Holders(c)' = Holders(c)
        BY <1>8, <3>0
      <4>2. Cardinality(TakingThreads(c) \cup {t}) = Cardinality(TakingThreads(c)) + 1
        BY <4>1, CountFinite, FS_AddElement
      <4> QED
        BY <4>1, <4>2, CountFinite DEF Count
    <3>3. \A b \in Blocks \ {c} : Count(b)' = Count(b) /\ refs'[b] = refs[b]
                                  /\ (b \in live' <=> b \in live) /\ Deleting(b)' = Deleting(b)
      BY <1>1, <1>8, <3>0, <3>1 DEF Count, CountInv, Typed
    <3>4. Count(c)' > 0 /\ refs'[c] = Count(c)'
      BY <3>1, <3>2
    <3> QED
      BY <3>1, <3>3, <3>4 DEF Counted, CountInv
  <2> QED
    BY <1>6, <2>1, <2>2
<1> QED
  BY <1>7, <1>9 DEF CountInv

LEMMA LoadKeeps ==
  ASSUME CountInv, NEW t \in Threads, Load(t)
  PROVE  CountInv'
<1>1. PICK k \in task[t], place \in {"clone", "store"} :
        k.at = "load" /\ Advance(t, k, place) /\ UNCHANGED <<data, refs, payload, live>>
  BY DEF Load, At
<1> DEFINE j == [k EXCEPT !.at = place]
<1>2. k \in Tasks /\ Shape(k) /\ Held(k) /\ k.op = "write" /\ k.source = Null /\ k.fresh = Null
  BY <1>1 DEF CountInv, Typed, RuleOfUse, Shape, Tasks, Ops
<1>3. /\ j \in Tasks /\ j.at = place /\ j.op = k.op /\ j.target = k.target
      /\ j.source = k.source /\ j.fresh = Null /\ task' = [task EXCEPT ![t] = {j}] /\ Becomes(t, j)
  <2>1. place \in Places
    BY DEF Places
  <2> QED
    BY <1>1, <1>2, <2>1, AdvancedTask DEF Advance, Becomes
<1> HIDE DEF j
<1>4. Shape(j) /\ Held(j) /\ ~Released(j) /\ ~Released(k)
  BY <1>1, <1>2, <1>3 DEF Shape, Held, Released
<1>5. Typed' /\ RuleOfUse'
  BY <1>1, <1>3, <1>4, AdvanceKeeps DEF CountInv, Typed
<1>6. \A b \in Blocks : t \notin TakingThreads(b) /\ t \notin Deleting(b) /\ ~Takes(j, b)
  BY <1>1, <1>2, <1>3, SharedDataAssumption
  DEF TakingThreads, Takes, Deleting, At, CountInv, Typed
<1>7. Counted'
  <2>1. ASSUME NEW b \in Blocks
        PROVE  /\ Holders(b)' = Holders(b)
               /\ TakingThreads(b)' = TakingThreads(b) \ {t}
               /\ Deleting(b)' = Deleting(b) \ {t}
    BY <1>1, <1>3, <1>4, <1>6, AdvanceCounts DEF CountInv
  <2>2. \A b \in Blocks : /\ TakingThreads(b) \ {t} = TakingThreads(b)
                          /\ Deleting(b) \ {t} = Deleting(b)
    BY <1>6
  <2> QED
    BY <1>1, <2>1, <2>2, CountsKept DEF CountInv
<1> QED
  BY <1>5, <1>7 DEF CountInv

LEMMA CloneKeeps ==
  ASSUME CountInv, NEW t \in Threads, Clone(t)
  PROVE  CountInv'
<1>1. PICK k \in task[t], a \in Blocks :
        /\ k.at = "clone" /\ data' = data
        /\ a \notin live /\ live' = live \cup {a} /\ refs' = [refs EXCEPT ![a] = 1]
        /\ payload' = [payload EXCEPT ![a] = payload[data[k.target]]]
        /\ task' = [task EXCEPT ![t] = {[k EXCEPT !.at = "deref", !.fresh = a]}]
  BY DEF Clone, At, Allocate
<1> DEFINE j == [k EXCEPT !.at = "deref", !.fresh = a]
<1>2. k \in Tasks /\ Shape(k) /\ Held(k) /\ k.op = "write" /\ k.source = Null /\ k.fresh = Null
  BY <1>1 DEF CountInv, Typed, RuleOfUse, Shape, Tasks, Ops
<1>3. /\ j \in Tasks /\ j.at = "deref" /\ j.op = k.op /\ j.target = k.target
      /\ j.source = k.source /\ j.fresh = a
  BY <1>2 DEF Tasks, Places
<1>4. task' = [task EXCEPT ![t] = {j}] /\ Becomes(t, j)
  BY <1>1 DEF Becomes
<1> HIDE DEF j
<1>5. Shape(j) /\ Held(j) /\ ~Released(j) /\ ~Released(k)
  BY <1>1, <1>2, <1>3, SharedDataAssumption DEF Shape, Held, Released
<1>6. Typed' /\ RuleOfUse'
  <2>1. data[k.target] \in Blocks
    BY <1>2 DEF Held, Tasks, CountInv, Typed
  <2>2. payload[data[k.target]] \in Payloads
    BY <1>5, <2>1, TargetHolds, Referenced
  <2>3. /\ \A b \in live' : payload'[b] \in Payloads
        /\ refs' \in [Blocks -> Nat] /\ live' \subseteq Blocks
        /\ payload' \in [Blocks -> Payloads \cup {NoPayload}]
    BY <1>1, <2>2 DEF CountInv, Typed
  <2> QED
    BY <1>1, <1>3, <1>4, <1>5, <2>3, AdvanceKeeps DEF CountInv
<1>7. Counted'
  <2>1. \A b \in Blocks : /\ t \notin TakingThreads(b) /\ t \notin Deleting(b)
                          /\ Takes(j, b) <=> b = a
    BY <1>1, <1>2, <1>3, SharedDataAssumption
    DEF TakingThreads, Takes, Deleting, At, CountInv, Typed
  <2>2. \A b \in Blocks :
          /\ Holders(b)' = Holders(b)
          /\ TakingThreads(b)' = IF b = a THEN TakingThreads(b) \cup {t} ELSE TakingThreads(b)
          /\ Deleting(b)' = Deleting(b)
    <3> SUFFICES ASSUME NEW b \in Blocks
                 PROVE  /\ Holders(b)' = Holders(b)
                        /\ TakingThreads(b)' = IF b = a THEN TakingThreads(b) \cup {t}
                                               ELSE TakingThreads(b)
                        /\ Deleting(b)' = Deleting(b)
      OBVIOUS
    <3>1. /\ Holders(b)' = Holders(b)
          /\ TakingThreads(b)' = IF Takes(j, b) THEN TakingThreads(b) \cup {t}
                                 ELSE TakingThreads(b) \ {t}
          /\ Deleting(b)' = Deleting(b) \ {t}
      BY <1>1, <1>3, <1>4, <1>5, AdvanceCounts DEF CountInv
    <3> QED
      BY <2>1, <3>1
  <2> QED
    BY <1>1, <2>2, AllocateCounts
<1> QED
  BY <1>6, <1>7 DEF CountInv

LEMMA DerefKeeps ==
  ASSUME CountInv, NEW t \in Threads, Deref(t)
  PROVE  CountInv'
<1>1. PICK k \in task[t], place \in {"delete", "assign"} :
        /\ k.at = "deref"
        /\ Advance(t, k, place) /\ UNCHANGED <<data, payload, live>>
        /\ data[k.target] = Null => place = "assign" /\ refs' = refs
        /\ data[k.target] # Null =>
             /\ refs' = [refs EXCEPT ![data[k.target]] = @ - 1]
             /\ place = "delete" <=> refs[data[k.target]] = 1
  BY DEF Deref, At, LastReference
<1> DEFINE j == [k EXCEPT !.at = place]
<1>2. k \in Tasks /\ Shape(k) /\ Held(k)
  BY DEF CountInv, Typed, RuleOfUse
<1>3. /\ j \in Tasks /\ j.at = place /\ j.op = k.op /\ j.target = k.target
      /\ j.source = k.source /\ j.fresh = k.fresh
      /\ task' = [task EXCEPT ![t] = {j}] /\ Becomes(t, j)
  <2>1. place \in Places
    BY DEF Places
  <2> QED
    BY <1>1, <1>2, <2>1, AdvancedTask DEF Advance, Becomes
<1> HIDE DEF j
<1>4. Shape(j) /\ Held(j) /\ Released(j) /\ ~Released(k)
  BY <1>1, <1>2, <1>3 DEF Shape, Held, Released
<1>5. k.target \in Pointers /\ k.target \in Holders(data[k.target])
  BY <1>4, TargetHolds
<1>6. data[k.target] \in Blocks \cup {Null}
  BY <1>5 DEF CountInv, Typed
<1>7. Typed' /\ RuleOfUse'
  <2>1. refs' \in [Blocks -> Nat]
    <3>1. CASE data[k.target] = Null
      BY <1>1, <3>1 DEF CountInv, Typed
    <3>2. CASE data[k.target] # Null
      <4>1. data[k.target] \in Blocks /\ refs[data[k.target]] >= 1
        BY <1>5, <1>6, <3>2, Referenced
      <4>2. refs[data[k.target]] - 1 \in Nat
        BY <4>1 DEF CountInv, Typed
      <4> QED
        BY <1>1, <3>2, <4>2 DEF CountInv, Typed
    <3> QED
      BY <3>1, <3>2
  <2> QED
    BY <1>1, <1>3, <1>4, <2>1, AdvanceKeeps DEF CountInv, Typed
<1>8. ASSUME NEW b \in Blocks
      PROVE  /\ Holders(b)' = Holders(b) \ {k.target}
             /\ TakingThreads(b)' = TakingThreads(b)
             /\ t \notin Deleting(b)
             /\ Deleting(b)' = IF place = "delete" /\ data[k.target] = b
                               THEN Deleting(b) \cup {t} ELSE Deleting(b)
  <2>1. /\ Holders(b)' = Holders(b) \ {k.target}
        /\ TakingThreads(b)' = IF Takes(j, b) THEN TakingThreads(b) \cup {t}
                               ELSE TakingThreads(b) \ {t}
        /\ Deleting(b)' = IF place = "delete" /\ data[k.target] = b THEN Deleting(b) \cup {t}
                          ELSE Deleting(b) \ {t}
    BY <1>1, <1>3, <1>4, AdvanceCounts DEF CountInv
  <2>2. t \in TakingThreads(b) <=> Takes(j, b)
    BY <1>1, <1>3 DEF TakingThreads, Takes, CountInv, Typed
  <2>3. t \notin Deleting(b)
    BY <1>1 DEF Deleting, At, CountInv, Typed
  <2> QED
    BY <2>1, <2>2, <2>3
<1>9. Counted'
  <2>1. CASE data[k.target] = Null
    <3>1. \A b \in Blocks : k.target \notin Holders(b)
      BY <2>1, SharedDataAssumption DEF Holders
    <3>2. \A b \in Blocks : /\ Holders(b)' = Holders(b)
                            /\ TakingThreads(b)' = TakingThreads(b)
                            /\ Deleting(b)' = Deleting(b)
      BY <1>1, <1>8, <2>1, <3>1
    <3> QED
      BY <1>1, <2>1, <3>2, CountsKept DEF CountInv
  <2>2. CASE data[k.target] \in Blocks
    <3>0. PICK c \in Blocks : c = data[k.target]
      BY <2>2
    <3>1. /\ c # Null /\ refs'[c] = refs[c] - 1 /\ refs[c] >= 1 /\ c \in live /\ c \in live'
          /\ refs[c] = Count(c) /\ Deleting(c) = {} /\ k.target \in Holders(c)
      BY <1>1, <1>5, <3>0, Referenced, SharedDataAssumption DEF CountInv, Typed
    <3>2. Count(c)' = Count(c) - 1
      <4>1. TakingThreads(c)' = TakingThreads(c) /\ Holders(c)' = Holders(c) \ {k.target}
        BY <1>8, <3>0
      <4>2. Cardinality(Holders(c) \ {k.target}) = Cardinality(Holders(c)) - 1
        BY <3>1, CountFinite, FS_RemoveElement
      <4> QED
        BY <4>1, <4>2, CountFinite DEF Count
    <3>3. \A b \in Blocks \ {c} : Count(b)' = Count(b) /\ refs'[b] = refs[b]
                                  /\ (b \in live' <=> b \in live) /\ Deleting(b)' = Deleting(b)
      <4> SUFFICES ASSUME NEW b \in Blocks \ {c}
                   PROVE  Count(b)' = Count(b) /\ refs'[b] = refs[b]
                          /\ (b \in live' <=> b \in live) /\ Deleting(b)' = Deleting(b)
        OBVIOUS
      <4>1. k.target \notin Holders(b)
        BY <3>0 DEF Holders
      <4>2. Holders(b)' = Holders(b) /\ TakingThreads(b)' = TakingThreads(b)
            /\ Deleting(b)' = Deleting(b)
        BY <1>8, <3>0, <4>1
      <4> QED
        BY <1>1, <3>0, <3>1, <4>2 DEF Count, CountInv, Typed
    <3>4. Count(c) \in Nat
      BY CountFinite
    <3>5. refs'[c] = Count(c)' /\ Count(c)' \in Nat
      BY <3>1, <3>2, <3>4
    <3>6. Deleting(c)' = IF Count(c)' = 0 THEN {t} ELSE {}
      <4>1. place = "delete" <=> Count(c)' = 0
        BY <1>1, <3>0, <3>1, <3>2, <3>4
      <4>2. Deleting(c)' = IF place = "delete" THEN Deleting(c) \cup {t} ELSE Deleting(c)
        BY <1>8, <3>0
      <4> QED
        BY <3>1, <4>1, <4>2
    <3> QED
      BY <3>1, <3>3, <3>5, <3>6 DEF Counted, CountInv
  <2> QED
    BY <1>6, <2>1, <2>2
<1> QED
  BY <1>7, <1>9 DEF CountInv

LEMMA DeleteKeeps ==
  ASSUME CountInv, NEW t \in Threads, Delete(t)
  PROVE  CountInv'
<1>1. PICK k \in task[t] :
        /\ k.at = "delete" /\ Advance(t, k, "assign") /\ UNCHANGED <<data, refs>>
        /\ live' = live \ {data[k.target]}
        /\ payload' = [payload EXCEPT ![data[k.target]] = NoPayload]
  BY DEF Delete, At
<1> DEFINE j == [k EXCEPT !.at = "assign"]
<1>2. k \in Tasks /\ Shape(k) /\ Held(k)
  BY DEF CountInv, Typed, RuleOfUse
<1>3. /\ j \in Tasks /\ j.at = "assign" /\ j.op = k.op /\ j.target = k.target
      /\ j.source = k.source /\ j.fresh = k.fresh
      /\ task' = [task EXCEPT ![t] = {j}] /\ Becomes(t, j)
  BY <1>1, <1>2, AdvancedTask DEF Advance, Becomes, Places
<1> HIDE DEF j
<1>4. Shape(j) /\ Held(j) /\ Released(j) /\ Released(k)
  BY <1>1, <1>2, <1>3 DEF Shape, Held, Released
<1>5. PICK c \in Blocks : c = data[k.target]
  BY <1>1, <1>2 DEF Held, Tasks, CountInv, Typed
<1>6. Count(c) = 0 /\ Deleting(c) = {t}
  <2>1. t \in Deleting(c)
    BY <1>1, <1>5 DEF Deleting, At
  <2> QED
    BY <2>1 DEF CountInv, Counted
<1>7. Typed' /\ RuleOfUse'
  <2>1. /\ \A b \in live' : payload'[b] \in Payloads
        /\ refs' \in [Blocks -> Nat] /\ live' \subseteq Blocks
        /\ payload' \in [Blocks -> Payloads \cup {NoPayload}]
    BY <1>1, <1>5 DEF CountInv, Typed
  <2> QED
    BY <1>1, <1>3, <1>4, <2>1, AdvanceKeeps DEF CountInv
<1>8. ASSUME NEW b \in Blocks
      PROVE  /\ Count(b)' = Count(b)
             /\ Deleting(b)' = Deleting(b) \ {t}
  <2>1. /\ Holders(b)' = Holders(b) \ {k.target}
        /\ TakingThreads(b)' = IF Takes(j, b) THEN TakingThreads(b) \cup {t}
                               ELSE TakingThreads(b) \ {t}
        /\ Deleting(b)' = Deleting(b) \ {t}
    BY <1>1, <1>3, <1>4, AdvanceCounts DEF CountInv
  <2>2. t \in TakingThreads(b) <=> Takes(j, b)
    BY <1>1, <1>3 DEF TakingThreads, Takes, CountInv, Typed
  <2>3. k.target \notin Holders(b)
    BY <1>4 DEF Holders, LetGo
  <2>4. Holders(b)' = Holders(b) /\ TakingThreads(b)' = TakingThreads(b)
    BY <2>1, <2>2, <2>3
  <2> QED
    BY <2>1, <2>4 DEF Count
<1>9. Counted'
  <2>1. \A b \in Blocks \ {c} : t \notin Deleting(b) /\ (b \in live' <=> b \in live)
    BY <1>1, <1>5 DEF Deleting, At, CountInv, Typed
  <2>2. \A b \in Blocks \ {c} : Deleting(b)' = Deleting(b)
    BY ZenonT(30), <1>8, <2>1
  <2>3. Count(c)' = 0 /\ Deleting(c)' = {} /\ c \notin live'
    BY <1>1, <1>5, <1>6, <1>8
  <2> QED
    BY <1>1, <1>8, <2>1, <2>2, <2>3 DEF Counted, CountInv
<1> QED
  BY <1>7, <1>9 DEF CountInv

LEMMA AssignKeeps ==
  ASSUME CountInv, NEW t \in Threads, Assign(t)
  PROVE  CountInv'
<1>1. PICK k \in task[t] :
        /\ k.at = "assign" /\ UNCHANGED <<refs, payload, live>>
        /\ data' = [p \in Pointers |-> CASE p = k.target -> NewData(k)
                                         [] p \in Emptied(k) -> Null
                                         [] OTHER -> data[p]]
        /\ task' = [task EXCEPT ![t] = IF k.op = "write"
                                       THEN {[k EXCEPT !.at = "store", !.fresh = Null]} ELSE {}]
  BY DEF Assign, At
<1>2. k \in Tasks /\ Shape(k) /\ Held(k) /\ Released(k)
  BY <1>1 DEF CountInv, Typed, RuleOfUse, Released
<1> DEFINE p == k.target
           q == k.source
           d == NewData(k)
           j == [k EXCEPT !.at = "store", !.fresh = Null]
<1>3. /\ p \in Pointers /\ p # q /\ p \notin Emptied(k)
      /\ k.op = "move" => q \in Pointers /\ Emptied(k) = {q}
      /\ k.op # "move" => Emptied(k) = {}
      /\ k.op = "copy" => q \in Pointers
  BY <1>2 DEF Tasks, Shape, Emptied
<1>4. d \in Blocks \cup {Null}
  <2>1. k.op \in {"copy", "move"} => data[q] \in Blocks \cup {Null}
    BY <1>3 DEF CountInv, Typed
  <2> QED
    BY <1>2, <2>1 DEF NewData, Tasks
<1>5. /\ data' \in [Pointers -> Blocks \cup {Null}]
      /\ data'[p] = d
      /\ k.op = "move" => data'[q] = Null
      /\ \A r \in Pointers : r # p /\ ~(k.op = "move" /\ r = q) => data'[r] = data[r]
  BY <1>1, <1>3, <1>4 DEF CountInv, Typed
<1>6. /\ j \in Tasks /\ j.at = "store" /\ j.op = k.op /\ j.target = p
      /\ j.source = q /\ j.fresh = Null
  BY <1>2 DEF Tasks, Places
<1>7. /\ task'[t] = IF k.op = "write" THEN {j} ELSE {}
      /\ task[t] = {k}
      /\ \A u \in Threads : u # t => task'[u] = task[u]
      /\ task' \in [Threads -> SUBSET Tasks]
  BY <1>1, <1>6 DEF CountInv, Typed
<1>8. \A u \in Threads : u # t => \A i \in task[u] : i \in Tasks /\ Apart(k, i) /\ Apart(i, k)
                                                     /\ Shape(i) /\ Held(i)
  BY DEF CountInv, Typed, RuleOfUse
<1> HIDE DEF j, d
<1>9. Typed' /\ RuleOfUse'
  <2>1. Typed'
    BY <1>1, <1>5, <1>6, <1>7 DEF CountInv, Typed
  <2>2. k.op = "write" => Shape(j)' /\ Held(j)'
    BY <1>1, <1>2, <1>5, <1>6, SharedDataAssumption DEF Shape, Held, d, NewData
  <2>3. \A u \in Threads : u # t => \A i \in task[u] : Shape(i)' /\ Held(i)'
    <3> SUFFICES ASSUME NEW u \in Threads, u # t, NEW i \in task[u]
                 PROVE  Shape(i)' /\ Held(i)'
      OBVIOUS
    <3>1. i.target \in Pointers /\ data'[i.target] = data[i.target]
      BY <1>5, <1>8 DEF Apart, Tasks
    <3> QED
      BY <1>8, <3>1 DEF Shape, Held
  <2>4. \A u \in Threads : \A i \in task'[u] : Shape(i)' /\ Held(i)'
    BY <1>7, <2>2, <2>3
  <2>5. \A u \in Threads : u # t => \A i \in task[u] : Apart(j, i) /\ Apart(i, j)
    BY <1>6, <1>8 DEF Apart
  <2>6. \A u, w \in Threads : u # w => \A i \in task'[u], l \in task'[w] : Apart(i, l)
    BY <1>7, <2>5 DEF CountInv, RuleOfUse
  <2> QED
    BY <2>1, <2>4, <2>6 DEF RuleOfUse
<1>10. ASSUME NEW b \in Blocks
       PROVE  Count(b)' = Count(b) /\ Deleting(b)' = Deleting(b)
  <2>1. TakingThreads(b)' = TakingThreads(b) \ {t}
    <3>1. \A i \in task'[t] : ~Takes(i, b)'
      BY <1>2, <1>6, <1>7, SharedDataAssumption DEF Takes
    <3>2. ASSUME NEW u \in Threads, u # t, NEW i \in task[u]
          PROVE  Takes(i, b)' <=> Takes(i, b)
      <4>1. i.op = "copy" => i.source \in Pointers /\ data'[i.source] = data[i.source]
        BY <1>5, <1>8, <3>2 DEF Apart, Tasks, Shape
      <4> QED
        BY <4>1 DEF Takes
    <3> QED
      BY <1>7, <3>1, <3>2 DEF TakingThreads
  <2>2. t \in TakingThreads(b) <=> Takes(k, b)
    BY <1>7 DEF TakingThreads
  <2>3. Deleting(b)' = Deleting(b)
    <3>1. t \notin Deleting(b) /\ t \notin Deleting(b)'
      BY <1>1, <1>6, <1>7 DEF Deleting, At
    <3>2. ASSUME NEW u \in Threads, u # t
          PROVE  u \in Deleting(b)' <=> u \in Deleting(b)
      <4>1. \A i \in task[u] : data'[i.target] = data[i.target]
        BY <1>5, <1>8, <3>2 DEF Apart, Tasks
      <4> QED
        BY <1>7, <3>2, <4>1 DEF Deleting, At
    <3>3. Deleting(b) \subseteq Threads /\ Deleting(b)' \subseteq Threads
      BY DEF Deleting
    <3> QED
      BY <3>1, <3>2, <3>3
  <2>4. \A r \in Pointers : LetGo(r)' <=> LetGo(r) /\ r # p
    <3>1. \A i \in task'[t] : ~Released(i)
      BY <1>6, <1>7 DEF Released
    <3>2. LetGo(p)' <=> FALSE
      BY <1>7, <1>8, <3>1 DEF LetGo, Apart
    <3>3. \A r \in Pointers : r # p => (LetGo(r)' <=> LetGo(r))
      BY <1>7, <3>1 DEF LetGo, Released
    <3> QED
      BY <3>2, <3>3
  <2>5. p \notin Holders(b)
    BY <1>2 DEF Holders, LetGo
  <2>6. k.op = "move" => q \in Holders(data[q]) /\ q \notin Holders(b)'
    <3>1. k.op = "move" => q \in Holders(data[q])
      BY <1>2, SourceHolds DEF Shape
    <3>2. k.op = "move" => q \notin Holders(b)'
      BY <1>5, SharedDataAssumption DEF Holders
    <3> QED
      BY <3>1, <3>2
  <2>7. p \in Holders(b)' <=> d = b
    BY <1>3, <1>5, <2>4 DEF Holders
  <2>8. \A r \in Pointers : r # p /\ ~(k.op = "move" /\ r = q)
                              => (r \in Holders(b)' <=> r \in Holders(b))
    BY <1>5, <2>4 DEF Holders
  <2>9. Holders(b) \subseteq Pointers /\ Holders(b)' \subseteq Pointers
    BY DEF Holders
  <2>10. d = b <=> (k.op = "move" /\ data[q] = b) \/ (k.op # "move" /\ Takes(k, b))
    BY <1>1, <1>2, SharedDataAssumption DEF d, NewData, Takes, Shape, Tasks, Ops
  <2>11. ~(k.op = "move" /\ Takes(k, b))
    BY <1>2, SharedDataAssumption DEF Takes, Shape
  <2>12. CASE d # b
    <3>1. TakingThreads(b)' = TakingThreads(b)
      BY <2>1, <2>2, <2>10, <2>11, <2>12
    <3>2. k.op = "move" => q \notin Holders(b)
      BY <2>10, <2>12 DEF Holders
    <3>3. Holders(b)' = Holders(b)
      BY <2>5, <2>6, <2>7, <2>8, <2>9, <2>12, <3>2
    <3> QED
      BY <2>3, <3>1, <3>3 DEF Count
  <2>13. CASE d = b /\ k.op = "move"
    <3>1. TakingThreads(b)' = TakingThreads(b)
      BY <2>1, <2>2, <2>11, <2>13
    <3>2. q \in Holders(b)
      BY <2>6, <2>10, <2>13
    <3>3. Holders(b)' = (Holders(b) \ {q}) \cup {p}
      BY <1>3, <2>5, <2>6, <2>7, <2>8, <2>9, <2>13
    <3>4. p \notin Holders(b) \ {q}
      BY <2>5
    <3>5. /\ IsFiniteSet(Holders(b) \ {q})
          /\ Cardinality(Holders(b) \ {q}) = Cardinality(Holders(b)) - 1
      BY <3>2, CountFinite, FS_RemoveElement
    <3>6. Cardinality((Holders(b) \ {q}) \cup {p}) = Cardinality(Holders(b))
      <4> DEFINE H == Holders(b) \ {q}
      <4>1. IsFiniteSet(H) /\ p \notin H
        BY <3>4, <3>5
      <4>2. Cardinality(H \cup {p}) = Cardinality(H) + 1
        <5> HIDE DEF H
        <5> QED
          BY <4>1, FS_AddElement
      <4> QED
        BY <3>5, <4>2, CountFinite
    <3> QED
      BY <2>3, <3>1, <3>3, <3>6 DEF Count
  <2>14. CASE d = b /\ k.op # "move"
    <3>1. t \in TakingThreads(b) /\ TakingThreads(b)' = TakingThreads(b) \ {t}
      BY <2>1, <2>2, <2>10, <2>14
    <3>2. Holders(b)' = Holders(b) \cup {p}
      BY <1>3, <2>5, <2>7, <2>8, <2>9, <2>14
    <3>3. Cardinality(TakingThreads(b) \ {t}) = Cardinality(TakingThreads(b)) - 1
      BY <3>1, CountFinite, FS_RemoveElement
    <3>4. Cardinality(Holders(b) \cup {p}) = Cardinality(Holders(b)) + 1
      BY <2>5, CountFinite, FS_AddElement
    <3> QED
      BY <2>3, <3>1, <3>2, <3>3, <3>4, CountFinite DEF Count
  <2> QED
    BY <2>12, <2>13, <2>14
<1>11. Counted'
  BY <1>1, <1>10 DEF Counted, CountInv
<1> QED
  BY <1>9, <1>11 DEF CountInv

LEMMA StoreKeeps ==
  ASSUME CountInv, NEW t \in Threads, NEW v \in Payloads, Store(t, v)
  PROVE  CountInv'
<1>1. PICK k \in task[t] :
        /\ k.at = "store" /\ UNCHANGED <<data, refs, live>>
        /\ payload' = [payload EXCEPT ![data[k.target]] = v]
        /\ task' = [task EXCEPT ![t] = {}]
  BY DEF Store, At
<1>2. k \in Tasks /\ Shape(k) /\ k.op = "write" /\ k.fresh = Null /\ ~Released(k)
  BY <1>1 DEF CountInv, Typed, RuleOfUse, Shape, Tasks, Ops, Released
<1>3. /\ task'[t] = {} /\ task[t] = {k}
      /\ \A u \in Threads : u # t => task'[u] = task[u]
      /\ task' \in [Threads -> SUBSET Tasks]
  BY <1>1 DEF CountInv, Typed
<1>4. Typed'
  BY <1>1, <1>3 DEF CountInv, Typed
<1>5. RuleOfUse'
  <2>1. \A i : Shape(i)' = Shape(i) /\ Held(i)' = Held(i)
    BY <1>1 DEF Shape, Held
  <2> QED
    BY <1>3, <2>1 DEF CountInv, RuleOfUse
<1>6. ASSUME NEW b \in Blocks
      PROVE  /\ Holders(b)' = Holders(b) /\ TakingThreads(b)' = TakingThreads(b)
             /\ Deleting(b)' = Deleting(b)
  <2>1. ~Takes(k, b)
    BY <1>2, SharedDataAssumption DEF Takes
  <2>2. \A i : Takes(i, b)' = Takes(i, b)
    BY <1>1 DEF Takes
  <2>3. TakingThreads(b)' = TakingThreads(b)
    BY <1>3, <2>1, <2>2 DEF TakingThreads
  <2>4. \A r \in Pointers : LetGo(r)' <=> LetGo(r)
    BY <1>2, <1>3 DEF LetGo, Released
  <2>5. Holders(b)' = Holders(b)
    BY <1>1, <2>4 DEF Holders
  <2>6. Deleting(b)' = Deleting(b)
    BY <1>1, <1>3 DEF Deleting, At
  <2> QED
    BY <2>3, <2>5, <2>6
<1>7. Counted'
  BY <1>1, <1>6, CountsKept DEF CountInv
<1> QED
  BY <1>4, <1>5, <1>7 DEF CountInv

LEMMA NextKeeps ==
  ASSUME CountInv, Next
  PROVE  CountInv'
<1>1. PICK t \in Threads :
        \/ Step(t)
        \/ \E p \in Pointers :
             \/ StartRelease(t, p)
             \/ StartWrite(t, p)
             \/ \E q \in Pointers : StartCopy(t, p, q) \/ StartMove(t, p, q)
             \/ \E b \in Blocks, v \in Payloads : StartMake(t, p, b, v)
  BY DEF Next
<1>2. CASE Step(t)
  BY <1>2, RefKeeps, LoadKeeps, CloneKeeps, DerefKeeps, DeleteKeeps, AssignKeeps, StoreKeeps
  DEF Step
<1>3. ASSUME NEW p \in Pointers, StartRelease(t, p) \/ StartWrite(t, p)
      PROVE  CountInv'
  BY <1>3, StartReleaseKeeps, StartWriteKeeps
<1>4. ASSUME NEW p \in Pointers, NEW q \in Pointers, StartCopy(t, p, q) \/ StartMove(t, p, q)
      PROVE  CountInv'
  BY <1>4, StartCopyKeeps, StartMoveKeeps
<1>5. ASSUME NEW p \in Pointers, NEW b \in Blocks, NEW v \in Payloads, StartMake(t, p, b, v)
      PROVE  CountInv'
  BY <1>5, StartMakeKeeps
<1> QED
  BY <1>1, <1>2, <1>3, <1>4, <1>5

LEMMA UnchangedKeeps ==
  ASSUME CountInv, UNCHANGED vars
  PROVE  CountInv'
<1>1. Typed' /\ RuleOfUse'
  BY DEF CountInv, vars, Typed, RuleOfUse, Apart, Shape, Held
<1>2. \A b \in Blocks : /\ Holders(b)' = Holders(b) /\ TakingThreads(b)' = TakingThreads(b)
                        /\ Deleting(b)' = Deleting(b)
  BY DEF vars, Holders, LetGo, TakingThreads, Takes, Deleting, At, Released
<1>3. Counted'
  BY <1>2, CountsKept DEF CountInv, vars
<1> QED
  BY <1>1, <1>3 DEF CountInv

LEMMA CountInvariant == Spec => []CountInv
<1>1. CountInv /\ [Next]_vars => CountInv'
  BY NextKeeps, UnchangedKeeps
<1> QED
  BY InitInv, <1>1, PTL DEF Spec

(***************************************************************************)
(* Types, for any finite number of threads and pointers: a thread runs one *)
(* operation of SharedDataPointer at a time, and its accesses leave counts *)
(* that are never negative.                                                *)
(***************************************************************************)
THEOREM TypeCorrect == Spec => []TypeOK
<1>1. ASSUME CountInv
      PROVE  TypeOK
  <2>1. \A t \in Threads : Cardinality(task[t]) <= 1
    <3> SUFFICES ASSUME NEW t \in Threads
                 PROVE  Cardinality(task[t]) <= 1
      OBVIOUS
    <3>1. CASE task[t] = {}
      BY <3>1, FS_EmptySet
    <3>2. CASE task[t] # {}
      <4>1. PICK k \in task[t] : TRUE
        BY <3>2
      <4>2. task[t] = {k}
        BY <1>1, <4>1 DEF CountInv, Typed
      <4> QED
        BY <4>2, FS_Singleton
    <3> QED
      BY <3>1, <3>2
  <2> QED
    BY <1>1, <2>1 DEF CountInv, Typed, TypeOK
<1> QED
  BY CountInvariant, <1>1, PTL

(***************************************************************************)
(* The count in a block is the number of references to it, for any number  *)
(* of threads and pointers: no block is deleted that a pointer still names *)
(* and none is leaked, however the atomic accesses of ref(), deref() and   *)
(* detach() interleave.                                                    *)
(***************************************************************************)
THEOREM CountsExact == Spec => []BlocksCounted
<1>1. ASSUME CountInv
      PROVE  BlocksCounted
  <2> SUFFICES ASSUME NEW b \in Blocks
               PROVE  LET n == Cardinality(Owners(b)) + Cardinality(Takers(b)) IN
                      /\ n > 0 => b \in live
                      /\ b \in live => refs[b] = n
                      /\ b \in live /\ n = 0 =>
                           Cardinality({t \in Threads :
                                          \E k \in At(t, "delete") : data[k.target] = b}) = 1
    BY DEF BlocksCounted
  <2>1. Cardinality(Owners(b)) + Cardinality(Takers(b)) = Count(b)
    BY <1>1, CountsAgree DEF Count, CountInv
  <2>2. /\ Count(b) > 0 => b \in live
        /\ b \in live => refs[b] = Count(b)
        /\ b \in live /\ Count(b) = 0 => \E t \in Threads : Deleting(b) = {t}
    BY <1>1 DEF CountInv, Counted
  <2>3. (\E t \in Threads : Deleting(b) = {t}) => Cardinality(Deleting(b)) = 1
    BY FS_Singleton
  <2> QED
    BY <2>1, <2>2, <2>3 DEF Deleting
<1> QED
  BY CountInvariant, <1>1, PTL
-----------------------------------------------------------------------------
(* The pointers implement independent values: detach() tests the count     *)
(* once, and what it concludes is true until the write.                    *)

(* A block written in place has one reference, and so has a copy made for  *)
(* a write; the copy says what the block it replaces says until deref().   *)
Exclusive(k) ==
  /\ k.at = "store" => refs[data[k.target]] = 1
  /\ k.op = "write" /\ k.fresh # Null => refs[k.fresh] = 1
  /\ k.op = "write" /\ k.at = "deref" => payload[k.fresh] = payload[data[k.target]]

WritesExclusive == \A t \in Threads : \A k \in task[t] : Exclusive(k)

ValueInv == CountInv /\ WritesExclusive

(* The references to the blocks of a write. *)
LEMMA SoleReference ==
  ASSUME ValueInv, NEW t \in Threads, NEW k \in task[t], k.op = "write"
  PROVE  /\ k.target \in Pointers /\ data[k.target] \in Blocks
         /\ ~Released(k) => /\ k.target \in Holders(data[k.target])
                            /\ data[k.target] \in live
         /\ k.at = "store" => /\ Holders(data[k.target]) = {k.target}
                              /\ TakingThreads(data[k.target]) = {}
         /\ k.fresh # Null => /\ k.fresh \in Blocks /\ k.fresh \in live
                              /\ Holders(k.fresh) = {}
                              /\ TakingThreads(k.fresh) = {t}
<1>1. k \in Tasks /\ Shape(k) /\ Held(k) /\ Exclusive(k) /\ k.target \in Pointers
  BY DEF ValueInv, CountInv, Typed, RuleOfUse, WritesExclusive, Tasks
<1>2. data[k.target] \in Blocks
  BY <1>1 DEF Held, ValueInv, CountInv, Typed
<1>3. ~Released(k) => k.target \in Holders(data[k.target]) /\ data[k.target] \in live
  BY <1>2, TargetHolds, Referenced DEF ValueInv
<1>4. CASE k.at = "store"
  <2>1. PICK c \in Blocks : c = data[k.target]
    BY <1>2
  <2>2. ~Released(k) /\ k.fresh = Null
    BY <1>1, <1>4 DEF Released, Shape
  <2>3. k.target \in Holders(c) /\ Count(c) = 1
    BY <1>1, <1>3, <1>4, <2>1, <2>2, Referenced DEF Exclusive, ValueInv
  <2>4. Cardinality(Holders(c)) # 0
    BY <2>3, CountFinite, FS_EmptySet
  <2>5. Cardinality(Holders(c)) = 1 /\ Cardinality(TakingThreads(c)) = 0
    BY <2>3, <2>4, CountFinite DEF Count
  <2>6. TakingThreads(c) = {}
    BY <2>5, CountFinite, FS_EmptySet
  <2>7. \E x : Holders(c) = {x}
    BY <2>5, CountFinite, FS_Singleton
  <2>8. Holders(c) = {k.target}
    BY <2>3, <2>7
  <2> QED
    BY <1>1, <1>2, <1>3, <2>1, <2>2, <2>6, <2>8
<1>5. CASE k.at # "store" /\ k.fresh # Null
  <2>1. PICK f \in Blocks : f = k.fresh
    BY <1>1, <1>5 DEF Tasks
  <2>2. t \in TakingThreads(f)
    BY <2>1 DEF TakingThreads, Takes
  <2>3. Count(f) = 1 /\ f \in live
    BY <1>1, <1>5, <2>1, <2>2, Referenced DEF Exclusive, ValueInv
  <2>4. Cardinality(TakingThreads(f)) # 0
    BY <2>2, CountFinite, FS_EmptySet
  <2>5. Cardinality(Holders(f)) = 0 /\ Cardinality(TakingThreads(f)) = 1
    BY <2>3, <2>4, CountFinite DEF Count
  <2>6. Holders(f) = {}
    BY <2>5, CountFinite, FS_EmptySet
  <2>7. \E x : TakingThreads(f) = {x}
    BY <2>5, CountFinite, FS_Singleton
  <2>8. TakingThreads(f) = {t}
    BY <2>2, <2>7
  <2> QED
    BY <1>1, <1>2, <1>3, <1>5, <2>1, <2>3, <2>6, <2>8
<1> QED
  BY <1>1, <1>2, <1>3, <1>4, <1>5

(* A write that goes on is not disturbed if its pointer, the counts of its *)
(* own blocks and the payloads of its blocks stay what they are.           *)
LEMMA Undisturbed ==
  ASSUME NEW k, Exclusive(k), data'[k.target] = data[k.target],
         k.at = "store" => refs'[data[k.target]] = refs[data[k.target]],
         k.op = "write" /\ k.fresh # Null => refs'[k.fresh] = refs[k.fresh],
         k.op = "write" /\ k.at = "deref" =>
            /\ payload'[k.fresh] = payload[k.fresh]
            /\ payload'[data[k.target]] = payload[data[k.target]]
  PROVE  Exclusive(k)'
BY DEF Exclusive

LEMMA WriteAtStore ==
  ASSUME CountInv, NEW t \in Threads, NEW k \in task[t]
  PROVE  k.at = "store" => k.op = "write" /\ ~Released(k)
BY DEF CountInv, Typed, RuleOfUse, Shape, Released, Tasks, Ops

(* A step that leaves the pointers and the allocated blocks alone. *)
LEMMA QuietExclusive ==
  ASSUME ValueInv, data' = data,
         \A b \in live : refs'[b] = refs[b] /\ payload'[b] = payload[b],
         NEW t \in Threads, NEW k \in task[t]
  PROVE  Exclusive(k)'
<1>1. Exclusive(k) /\ (k.at = "store" => k.op = "write" /\ ~Released(k))
  BY WriteAtStore DEF ValueInv, WritesExclusive
<1>2. k.op = "write" /\ k.at = "deref" => ~Released(k) /\ k.fresh # Null
  BY DEF Released, ValueInv, CountInv, RuleOfUse, Shape
<1> QED
  BY <1>1, <1>2, SoleReference, Undisturbed

LEMMA StartExclusive ==
  ASSUME ValueInv, NEW t \in Threads, NEW p \in Pointers,
         \/ StartRelease(t, p)
         \/ StartWrite(t, p)
         \/ \E q \in Pointers : StartCopy(t, p, q) \/ StartMove(t, p, q)
         \/ \E b \in Blocks, v \in Payloads : StartMake(t, p, b, v)
  PROVE  WritesExclusive'
<1>1. data' = data /\ \A b \in live : refs'[b] = refs[b] /\ payload'[b] = payload[b]
  BY DEF StartRelease, StartWrite, StartCopy, StartMove, StartMake, Allocate,
         ValueInv, CountInv, Typed
<1>2. PICK k : /\ Start(t, k) /\ k.at # "store"
               /\ k.op = "write" => k.fresh = Null /\ k.at # "deref"
  <2> DEFINE Task(op, at, q, b) ==
               [op |-> op, at |-> at, target |-> p, source |-> q, fresh |-> b]
  <2>1. \/ Start(t, Task("reset", "deref", Null, Null))
        \/ Start(t, Task("write", "load", Null, Null))
        \/ \E q \in Pointers : \/ Start(t, Task("copy", "ref", q, Null))
                              \/ Start(t, Task("move", "deref", q, Null))
        \/ \E b \in Blocks : Start(t, Task("reset", "deref", Null, b))
    BY DEF StartRelease, StartWrite, StartCopy, StartMove, StartMake
  <2>2. \A op, at, q, b : /\ Task(op, at, q, b).op = op /\ Task(op, at, q, b).at = at
                          /\ Task(op, at, q, b).fresh = b
    OBVIOUS
  <2> HIDE DEF Task
  <2> QED
    BY <2>1, <2>2
<1>3. task'[t] = {k} /\ \A u \in Threads : u # t => task'[u] = task[u]
  BY <1>2 DEF Start, ValueInv, CountInv, Typed
<1>4. Exclusive(k)'
  BY <1>2 DEF Exclusive
<1> QED
  BY <1>1, <1>3, <1>4, QuietExclusive DEF WritesExclusive

LEMMA RefExclusive ==
  ASSUME ValueInv, NEW t \in Threads, Ref(t)
  PROVE  WritesExclusive'
<1>1. PICK k \in task[t] :
        /\ k.at = "ref"
        /\ refs' = IF data[k.source] = Null THEN refs ELSE [refs EXCEPT ![data[k.source]] = @ + 1]
        /\ task' = [task EXCEPT ![t] = {[k EXCEPT !.at = "deref"]}]
        /\ UNCHANGED <<data, payload, live>>
  BY DEF Ref, At, Advance
<1>2. k \in Tasks /\ k.op = "copy" /\ k.source # Null
  BY <1>1 DEF ValueInv, CountInv, Typed, RuleOfUse, Shape, Tasks, Ops
<1> DEFINE j == [k EXCEPT !.at = "deref"]
<1>3. /\ task'[t] = {j} /\ j.op = "copy" /\ j.at = "deref"
      /\ \A u \in Threads : u # t => task'[u] = task[u]
  BY <1>1, <1>2 DEF ValueInv, CountInv, Typed, Tasks
<1> HIDE DEF j
<1>4. Exclusive(j)'
  BY <1>3 DEF Exclusive
<1>5. k.source \in Holders(data[k.source])
  BY <1>2, SourceHolds DEF ValueInv
<1>6. ASSUME NEW u \in Threads, u # t, NEW i \in task[u]
      PROVE  Exclusive(i)'
  <2>1. Exclusive(i) /\ k.source # i.target
    BY <1>6 DEF ValueInv, CountInv, WritesExclusive, RuleOfUse, Apart
  <2>2. i.at = "store" => i.op = "write"
    BY WriteAtStore DEF ValueInv
  <2>3. \A b \in Blocks : b # data[k.source] => refs'[b] = refs[b]
    BY <1>1 DEF ValueInv, CountInv, Typed
  <2>4. i.at = "store" => data[i.target] \in Blocks /\ data[i.target] # data[k.source]
    BY <1>5, <2>1, <2>2, SoleReference
  <2>5. i.op = "write" /\ i.fresh # Null => i.fresh \in Blocks /\ i.fresh # data[k.source]
    BY <1>5, SoleReference
  <2> QED
    BY <1>1, <2>1, <2>3, <2>4, <2>5, Undisturbed
<1> QED
  BY <1>3, <1>4, <1>6 DEF WritesExclusive

LEMMA LoadExclusive ==
  ASSUME ValueInv, NEW t \in Threads, Load(t)
  PROVE  WritesExclusive'
<1>1. PICK k \in task[t], place \in {"clone", "store"} :
        /\ k.at = "load" /\ UNCHANGED <<data, refs, payload, live>>
        /\ place = "store" => refs[data[k.target]] = 1
        /\ Advance(t, k, place)
  BY DEF Load, At, MustCopy
<1> DEFINE j == [k EXCEPT !.at = place]
<1>2. k \in Tasks /\ k.op = "write" /\ k.fresh = Null
  BY <1>1 DEF ValueInv, CountInv, Typed, RuleOfUse, Shape, Tasks, Ops
<1>3. j.at = place /\ j.fresh = Null /\ j.target = k.target
  BY <1>2 DEF Tasks
<1>4. task'[t] = {j} /\ \A u \in Threads : u # t => task'[u] = task[u]
  BY <1>1 DEF Advance, ValueInv, CountInv, Typed
<1> HIDE DEF j
<1>5. Exclusive(j)'
  BY <1>1, <1>3 DEF Exclusive
<1> QED
  BY <1>1, <1>4, <1>5, QuietExclusive DEF WritesExclusive

LEMMA CloneExclusive ==
  ASSUME ValueInv, NEW t \in Threads, Clone(t)
  PROVE  WritesExclusive'
<1>1. PICK k \in task[t], a \in Blocks :
        /\ k.at = "clone" /\ data' = data
        /\ a \notin live /\ refs' = [refs EXCEPT ![a] = 1]
        /\ payload' = [payload EXCEPT ![a] = payload[data[k.target]]]
        /\ task' = [task EXCEPT ![t] = {[k EXCEPT !.at = "deref", !.fresh = a]}]
  BY DEF Clone, At, Allocate
<1> DEFINE j == [k EXCEPT !.at = "deref", !.fresh = a]
<1>2. k \in Tasks /\ k.op = "write" /\ ~Released(k)
  BY <1>1 DEF ValueInv, CountInv, Typed, RuleOfUse, Shape, Tasks, Ops, Released
<1>3. j.at = "deref" /\ j.fresh = a /\ j.target = k.target
  BY <1>2 DEF Tasks
<1>4. task'[t] = {j} /\ \A u \in Threads : u # t => task'[u] = task[u]
  BY <1>1 DEF ValueInv, CountInv, Typed
<1> HIDE DEF j
<1>5. data[k.target] \in live
  BY <1>2, SoleReference
<1>6. /\ refs'[a] = 1 /\ payload'[a] = payload[data[k.target]]
      /\ \A b \in live : refs'[b] = refs[b] /\ payload'[b] = payload[b]
  BY <1>1, <1>5 DEF ValueInv, CountInv, Typed
<1>7. Exclusive(j)'
  BY <1>1, <1>3, <1>5, <1>6 DEF Exclusive
<1> QED
  BY <1>1, <1>4, <1>6, <1>7, QuietExclusive DEF WritesExclusive

LEMMA DerefExclusive ==
  ASSUME ValueInv, NEW t \in Threads, Deref(t)
  PROVE  WritesExclusive'
<1>1. PICK k \in task[t], place \in {"delete", "assign"} :
        /\ k.at = "deref" /\ UNCHANGED <<data, payload, live>>
        /\ Advance(t, k, place)
        /\ \A b \in Blocks : b # data[k.target] => refs'[b] = refs[b]
  BY DEF Deref, At, ValueInv, CountInv, Typed
<1> DEFINE j == [k EXCEPT !.at = place]
<1>2. k \in Tasks /\ ~Released(k) /\ Exclusive(k)
  BY <1>1 DEF ValueInv, CountInv, Typed, WritesExclusive, Released
<1>3. j.at = place /\ j.fresh = k.fresh /\ j.target = k.target /\ j.op = k.op
  BY <1>2 DEF Tasks
<1>4. task'[t] = {j} /\ \A u \in Threads : u # t => task'[u] = task[u]
  BY <1>1 DEF Advance, ValueInv, CountInv, Typed
<1> HIDE DEF j
<1>5. k.target \in Holders(data[k.target])
  BY <1>2, TargetHolds DEF ValueInv
<1>6. Exclusive(j)'
  <2>1. k.op = "write" /\ k.fresh # Null => k.fresh \in Blocks /\ k.fresh # data[k.target]
    BY <1>5, SoleReference
  <2> QED
    BY <1>1, <1>2, <1>3, <2>1 DEF Exclusive
<1>7. ASSUME NEW u \in Threads, u # t, NEW i \in task[u]
      PROVE  Exclusive(i)'
  <2>1. Exclusive(i) /\ k.target # i.target
    BY <1>7 DEF ValueInv, CountInv, WritesExclusive, RuleOfUse, Apart
  <2>2. i.at = "store" => i.op = "write"
    BY WriteAtStore DEF ValueInv
  <2>3. i.at = "store" => data[i.target] \in Blocks /\ data[i.target] # data[k.target]
    BY <1>5, <2>1, <2>2, SoleReference
  <2>4. i.op = "write" /\ i.fresh # Null => i.fresh \in Blocks /\ i.fresh # data[k.target]
    BY <1>5, SoleReference
  <2> QED
    BY <1>1, <2>1, <2>3, <2>4, Undisturbed
<1> QED
  BY <1>4, <1>6, <1>7 DEF WritesExclusive

(* A block on its way to be deleted is the block of no other operation. *)
LEMMA DeletedUnused ==
  ASSUME CountInv, NEW t \in Threads, NEW k \in task[t], k.at = "delete"
  PROVE  /\ data[k.target] \in Blocks
         /\ Holders(data[k.target]) = {} /\ TakingThreads(data[k.target]) = {}
<1>1. PICK c \in Blocks : c = data[k.target]
  BY DEF CountInv, Typed, RuleOfUse, Held, Tasks
<1>2. t \in Deleting(c)
  BY <1>1 DEF Deleting, At
<1>3. Holders(c) = {} /\ TakingThreads(c) = {}
  BY <1>2, CountFinite DEF CountInv, Counted
<1> QED
  BY <1>1, <1>3

LEMMA DeleteExclusive ==
  ASSUME ValueInv, NEW t \in Threads, Delete(t)
  PROVE  WritesExclusive'
<1>1. PICK k \in task[t] :
        /\ k.at = "delete" /\ Advance(t, k, "assign") /\ UNCHANGED <<data, refs>>
        /\ payload' = [payload EXCEPT ![data[k.target]] = NoPayload]
  BY DEF Delete, At
<1> DEFINE j == [k EXCEPT !.at = "assign"]
<1>2. k \in Tasks /\ Exclusive(k)
  BY <1>1 DEF ValueInv, CountInv, Typed, WritesExclusive
<1>3. j.at = "assign" /\ j.fresh = k.fresh /\ j.target = k.target /\ j.op = k.op
  BY <1>2 DEF Tasks
<1>4. task'[t] = {j} /\ \A u \in Threads : u # t => task'[u] = task[u]
  BY <1>1 DEF Advance, ValueInv, CountInv, Typed
<1> HIDE DEF j
<1>5. Exclusive(j)'
  BY <1>1, <1>2, <1>3 DEF Exclusive
<1>6. /\ Holders(data[k.target]) = {} /\ TakingThreads(data[k.target]) = {}
      /\ \A b \in Blocks : b # data[k.target] => payload'[b] = payload[b]
  BY <1>1, DeletedUnused DEF ValueInv, CountInv, Typed
<1>7. ASSUME NEW u \in Threads, NEW i \in task[u]
      PROVE  Exclusive(i)'
  <2>1. Exclusive(i)
    BY DEF ValueInv, WritesExclusive
  <2>2. CASE i.op = "write" /\ i.at = "deref"
    <3>1. ~Released(i) /\ i.fresh # Null
      BY <2>2 DEF Released, ValueInv, CountInv, RuleOfUse, Shape
    <3>2. /\ data[i.target] \in Blocks /\ data[i.target] # data[k.target]
          /\ i.fresh \in Blocks /\ i.fresh # data[k.target]
      BY <1>6, <2>2, <3>1, SoleReference
    <3> QED
      BY <1>1, <1>6, <2>1, <3>2, Undisturbed
  <2>3. CASE ~(i.op = "write" /\ i.at = "deref")
    BY <1>1, <2>1, <2>3, Undisturbed
  <2> QED
    BY <2>2, <2>3
<1> QED
  BY <1>4, <1>5, <1>7 DEF WritesExclusive

LEMMA AssignExclusive ==
  ASSUME ValueInv, NEW t \in Threads, Assign(t)
  PROVE  WritesExclusive'
<1>1. PICK k \in task[t] :
        /\ k.at = "assign" /\ UNCHANGED <<refs, payload, live>>
        /\ data' = [p \in Pointers |-> CASE p = k.target -> NewData(k)
                                         [] p \in Emptied(k) -> Null
                                         [] OTHER -> data[p]]
        /\ task' = [task EXCEPT ![t] = IF k.op = "write"
                                       THEN {[k EXCEPT !.at = "store", !.fresh = Null]} ELSE {}]
  BY DEF Assign, At
<1> DEFINE j == [k EXCEPT !.at = "store", !.fresh = Null]
<1>2. k \in Tasks /\ Exclusive(k) /\ Shape(k) /\ k.target \in Pointers
  BY DEF ValueInv, CountInv, Typed, WritesExclusive, RuleOfUse, Tasks
<1>3. j.at = "store" /\ j.fresh = Null /\ j.target = k.target
  BY <1>2 DEF Tasks
<1>4. /\ task'[t] = IF k.op = "write" THEN {j} ELSE {}
      /\ \A u \in Threads : u # t => task'[u] = task[u]
  BY <1>1 DEF ValueInv, CountInv, Typed
<1> HIDE DEF j
<1>5. k.op = "write" => Exclusive(j)'
  <2>1. k.op = "write" => data'[k.target] = k.fresh /\ k.fresh # Null
    <3>1. k.op = "write" => NewData(k) = k.fresh /\ Emptied(k) = {}
      BY DEF NewData, Emptied
    <3>2. k.op = "write" => k.fresh # Null
      BY <1>1, <1>2 DEF Shape
    <3> QED
      BY <1>1, <1>2, <3>1, <3>2
  <2> QED
    BY <1>1, <1>2, <1>3, <2>1 DEF Exclusive
<1>6. ASSUME NEW u \in Threads, u # t, NEW i \in task[u]
      PROVE  Exclusive(i)'
  <2>1. Exclusive(i) /\ Apart(k, i) /\ Apart(i, k) /\ i.target \in Pointers
    BY <1>6 DEF ValueInv, CountInv, Typed, WritesExclusive, RuleOfUse, Tasks
  <2>2. data'[i.target] = data[i.target]
    BY <1>1, <2>1 DEF Apart, Emptied
  <2> QED
    BY <1>1, <2>1, <2>2, Undisturbed
<1> QED
  BY <1>4, <1>5, <1>6 DEF WritesExclusive

LEMMA StoreExclusive ==
  ASSUME ValueInv, NEW t \in Threads, NEW v \in Payloads, Store(t, v)
  PROVE  WritesExclusive'
<1>1. PICK k \in task[t] :
        /\ k.at = "store" /\ UNCHANGED <<data, refs, live>>
        /\ payload' = [payload EXCEPT ![data[k.target]] = v]
        /\ task' = [task EXCEPT ![t] = {}]
  BY DEF Store, At
<1>2. task'[t] = {} /\ \A u \in Threads : u # t => task'[u] = task[u]
  BY <1>1 DEF ValueInv, CountInv, Typed
<1>3. /\ Holders(data[k.target]) = {k.target} /\ TakingThreads(data[k.target]) = {}
      /\ \A b \in Blocks : b # data[k.target] => payload'[b] = payload[b]
  BY <1>1, WriteAtStore, SoleReference DEF ValueInv, CountInv, Typed
<1>4. ASSUME NEW u \in Threads, u # t, NEW i \in task[u]
      PROVE  Exclusive(i)'
  <2>1. Exclusive(i) /\ k.target # i.target
    BY <1>4 DEF ValueInv, CountInv, WritesExclusive, RuleOfUse, Apart
  <2>2. CASE i.op = "write" /\ i.at = "deref"
    <3>1. ~Released(i) /\ i.fresh # Null
      BY <2>2 DEF Released, ValueInv, CountInv, RuleOfUse, Shape
    <3>2. /\ data[i.target] \in Blocks /\ data[i.target] # data[k.target]
          /\ i.fresh \in Blocks /\ i.fresh # data[k.target]
      BY <1>3, <2>1, <2>2, <3>1, SoleReference
    <3> QED
      BY <1>1, <1>3, <2>1, <3>2, Undisturbed
  <2>3. CASE ~(i.op = "write" /\ i.at = "deref")
    BY <1>1, <2>1, <2>3, Undisturbed
  <2> QED
    BY <2>2, <2>3
<1> QED
  BY <1>2, <1>4 DEF WritesExclusive

LEMMA ValueInvariant == Spec => []ValueInv
<1>1. Init => ValueInv
  BY InitInv DEF Init, ValueInv, WritesExclusive
<1>2. ASSUME ValueInv, [Next]_vars
      PROVE  ValueInv'
  <2>1. CountInv'
    BY <1>2, NextKeeps, UnchangedKeeps DEF ValueInv
  <2>2. ASSUME UNCHANGED vars
        PROVE  WritesExclusive'
    BY <1>2, <2>2 DEF vars, ValueInv, WritesExclusive, Exclusive
  <2>3. ASSUME NEW t \in Threads, Step(t)
        PROVE  WritesExclusive'
    BY <1>2, <2>3, RefExclusive, LoadExclusive, CloneExclusive, DerefExclusive, DeleteExclusive,
       AssignExclusive, StoreExclusive DEF Step
  <2>4. WritesExclusive'
    BY <1>2, <2>2, <2>3, StartExclusive DEF Next
  <2>5. ValueInv' <=> CountInv' /\ WritesExclusive'
    BY DEF ValueInv
  <2> QED
    BY <2>1, <2>4, <2>5
<1> QED
  BY <1>1, <1>2, PTL DEF Spec
-----------------------------------------------------------------------------
(* What a pointer is worth, by the operation that is changing it, if any.  *)

LetGoFrom(p) ==
  \E t \in Threads : \E k \in task[t] : k.op = "move" /\ k.source = p /\ Released(k)

ValuesKnown ==
  /\ \A t \in Threads : \A k \in task[t] : Released(k) =>
       /\ Value(k.target) = Worth(NewData(k))
       /\ k.op = "move" => Value(k.source) = NoPayload
  /\ \A p \in Pointers : ~LetGo(p) /\ ~LetGoFrom(p) => Value(p) = Worth(data[p])

LEMMA ValueKnown == CountInv => ValuesKnown
<1> SUFFICES ASSUME CountInv
             PROVE  ValuesKnown
  OBVIOUS
<1> DEFINE into(p) == {k \in Underway : k.target = p /\ Released(k)}
           from(p) == {k \in Underway : k.op = "move" /\ k.source = p /\ Released(k)}
<1>1. \A k : k \in Underway <=> \E t \in Threads : k \in task[t]
  BY DEF Underway
<1>2. \A p : Value(p) = IF into(p) # {} THEN Worth(NewData(CHOOSE k \in into(p) : TRUE))
                        ELSE IF from(p) # {} THEN NoPayload ELSE Worth(data[p])
  BY DEF Value
<1>3. ASSUME NEW t \in Threads, NEW k \in task[t], Released(k)
      PROVE  Value(k.target) = Worth(NewData(k))
  <2>1. into(k.target) = {k}
    BY <1>1, <1>3 DEF CountInv, Typed, RuleOfUse, Apart
  <2>2. (CHOOSE i \in into(k.target) : TRUE) = k
    BY <2>1
  <2> HIDE DEF into, from
  <2> QED
    BY <1>2, <2>1, <2>2
<1>4. ASSUME NEW t \in Threads, NEW k \in task[t], Released(k), k.op = "move"
      PROVE  Value(k.source) = NoPayload
  <2>1. into(k.source) = {}
    BY <1>1, <1>4 DEF CountInv, Typed, RuleOfUse, Apart, Shape
  <2>2. k \in from(k.source)
    BY <1>1, <1>4
  <2> HIDE DEF into, from
  <2> QED
    BY <1>2, <2>1, <2>2
<1>5. ASSUME NEW p \in Pointers, ~LetGo(p), ~LetGoFrom(p)
      PROVE  Value(p) = Worth(data[p])
  <2>1. into(p) = {} /\ from(p) = {}
    BY <1>1, <1>5 DEF LetGo, LetGoFrom
  <2> HIDE DEF into, from
  <2> QED
    BY <1>2, <2>1
<1> QED
  BY <1>3, <1>4, <1>5 DEF ValuesKnown

(* The block an operation is about to give its target is a block with a    *)
(* reference, or none.                                                     *)
LEMMA NewDataReferenced ==
  ASSUME CountInv, NEW t \in Threads, NEW k \in task[t], Released(k)
  PROVE  \/ NewData(k) = Null
         \/ /\ NewData(k) \in Blocks
            /\ \/ k.op \in {"copy", "move"} /\ k.source \in Holders(NewData(k))
               \/ t \in TakingThreads(NewData(k))
<1>1. k \in Tasks /\ Shape(k)
  BY DEF CountInv, Typed, RuleOfUse
<1>2. CASE k.op \in {"copy", "move"}
  <2>1. k.source \in Pointers /\ k.source \in Holders(data[k.source])
    BY <1>1, <1>2, SourceHolds DEF Shape
  <2> QED
    BY <1>2, <2>1 DEF NewData, CountInv, Typed
<1>3. CASE k.op \notin {"copy", "move"}
  BY <1>1, <1>3 DEF NewData, TakingThreads, Takes, Tasks
<1> QED
  BY <1>2, <1>3

Referred(b) == Holders(b) # {} \/ TakingThreads(b) # {}

Alike(k, j) ==
  k.op = j.op /\ k.target = j.target /\ k.source = j.source /\ k.fresh = j.fresh

(* The operations past their deref() are the same before and after. *)
NoneReleased ==
  \A t \in Threads :
    /\ \A k \in task[t] : Released(k) => \E j \in task'[t] : Released(j) /\ Alike(k, j)
    /\ \A j \in task'[t] : Released(j) => \E k \in task[t] : Released(k) /\ Alike(k, j)

(* A step that changes no pointer and no payload of a block that is        *)
(* referred to, and takes no operation past its deref(), changes no value. *)
LEMMA QuietStep ==
  ASSUME CountInv, CountInv', data' = data, NoneReleased,
         \A b \in Blocks : Referred(b) => payload'[b] = payload[b]
  PROVE  \A p \in Pointers : Value(p)' = Value(p)
<1>1. ValuesKnown /\ ValuesKnown'
  BY ValueKnown, PTL
<1>2. \A p \in Pointers : data[p] \in Blocks \cup {Null}
  BY DEF CountInv, Typed
<1>3. \A b : b = Null \/ (b \in Blocks /\ Referred(b)) => Worth(b)' = Worth(b)
  BY DEF Worth
<1>4. ASSUME NEW t \in Threads, NEW k \in task[t], Released(k)
      PROVE  /\ Value(k.target)' = Value(k.target)
             /\ k.op = "move" => Value(k.source)' = Value(k.source)
  <2>1. PICK j \in task'[t] : Released(j) /\ Alike(k, j)
    BY <1>4 DEF NoneReleased
  <2>2. NewData(j)' = NewData(k)
    BY <2>1 DEF NewData, Alike
  <2>3. Worth(NewData(k))' = Worth(NewData(k))
    <3>1. PICK b : b = NewData(k)
      OBVIOUS
    <3>2. b = Null \/ (b \in Blocks /\ Referred(b))
      BY <1>4, <3>1, NewDataReferenced DEF Referred
    <3>3. Worth(b)' = Worth(b)
      BY <1>3, <3>2
    <3>4. NewData(k)' = b
      BY <3>1 DEF NewData
    <3> QED
      BY <3>1, <3>3, <3>4 DEF Worth
  <2>4. Worth(NewData(j))' = Worth(NewData(k))
    <3>1. NewData(k)' = NewData(k)
      BY DEF NewData
    <3> QED
      BY <2>2, <2>3, <3>1 DEF Worth
  <2>5. Value(j.target)' = Worth(NewData(j))' /\ (j.op = "move" => Value(j.source)' = NoPayload)
    BY <1>1, <2>1 DEF ValuesKnown, Released
  <2>6. Value(k.target) = Worth(NewData(k)) /\ (k.op = "move" => Value(k.source) = NoPayload)
    BY <1>1, <1>4 DEF ValuesKnown
  <2> QED
    BY <2>1, <2>4, <2>5, <2>6 DEF Alike
<1>5. \A p \in Pointers : (LetGo(p)' <=> LetGo(p)) /\ (LetGoFrom(p)' <=> LetGoFrom(p))
  BY DEF LetGo, LetGoFrom, NoneReleased, Alike, Released
<1>6. ASSUME NEW p \in Pointers, ~LetGo(p), ~LetGoFrom(p)
      PROVE  Value(p)' = Value(p)
  <2>1. PICK b : b = data[p]
    OBVIOUS
  <2>2. b = Null \/ (b \in Blocks /\ Referred(b))
    BY <1>2, <1>6, <2>1 DEF Referred, Holders
  <2>3. Worth(b)' = Worth(b)
    BY <1>3, <2>2
  <2>4. Value(p) = Worth(data[p]) /\ Value(p)' = Worth(data[p])'
    BY <1>1, <1>5, <1>6 DEF ValuesKnown
  <2> QED
    BY <2>1, <2>3, <2>4 DEF Worth
<1> QED
  BY <1>4, <1>6 DEF LetGo, LetGoFrom

LEMMA AllocatedKept ==
  ASSUME CountInv, \A b \in live : payload'[b] = payload[b]
  PROVE  \A b \in Blocks : Referred(b) => payload'[b] = payload[b]
BY Referenced DEF Referred

LEMMA StartValues ==
  ASSUME CountInv, CountInv', NEW t \in Threads, NEW p \in Pointers,
         \/ StartRelease(t, p)
         \/ StartWrite(t, p)
         \/ \E q \in Pointers : StartCopy(t, p, q) \/ StartMove(t, p, q)
         \/ \E b \in Blocks, v \in Payloads : StartMake(t, p, b, v)
  PROVE  \A r \in Pointers : Value(r)' = Value(r)
<1>1. data' = data /\ \A b \in live : payload'[b] = payload[b]
  BY DEF StartRelease, StartWrite, StartCopy, StartMove, StartMake, Allocate, CountInv, Typed
<1>2. PICK k : Start(t, k) /\ ~Released(k)
  <2> DEFINE Task(op, at, q, b) ==
               [op |-> op, at |-> at, target |-> p, source |-> q, fresh |-> b]
  <2>1. \/ Start(t, Task("reset", "deref", Null, Null))
        \/ Start(t, Task("write", "load", Null, Null))
        \/ \E q \in Pointers : \/ Start(t, Task("copy", "ref", q, Null))
                              \/ Start(t, Task("move", "deref", q, Null))
        \/ \E b \in Blocks : Start(t, Task("reset", "deref", Null, b))
    BY DEF StartRelease, StartWrite, StartCopy, StartMove, StartMake
  <2>2. \A op, at, q, b : Released(Task(op, at, q, b)) <=> at \in {"delete", "assign"}
    BY DEF Released
  <2> HIDE DEF Task
  <2> QED
    BY <2>1, <2>2
<1>3. /\ task'[t] = {k} /\ task[t] = {}
      /\ \A u \in Threads : u # t => task'[u] = task[u]
  BY <1>2 DEF Start, CountInv, Typed
<1>4. NoneReleased
  BY <1>2, <1>3 DEF NoneReleased, Alike
<1> QED
  BY <1>1, <1>4, AllocatedKept, QuietStep

LEMMA QuietStepValues ==
  ASSUME CountInv, CountInv', NEW t \in Threads, Ref(t) \/ Load(t) \/ Clone(t) \/ Delete(t)
  PROVE  \A r \in Pointers : Value(r)' = Value(r)
<1>1. PICK k, j :
        /\ k \in task[t]
        /\ task' = [task EXCEPT ![t] = {j}]
        /\ \/ ~Released(k) /\ ~Released(j)
           \/ Released(k) /\ Released(j) /\ Alike(k, j)
  <2>1. ASSUME NEW k \in task[t], NEW place \in Places
        PROVE  /\ Released([k EXCEPT !.at = place]) <=> place \in {"delete", "assign"}
               /\ Alike(k, [k EXCEPT !.at = place])
    BY AdvancedTask DEF CountInv, Typed, Released, Alike
  <2>2. CASE Ref(t)
    <3>1. PICK k \in task[t] : k.at = "ref" /\ Advance(t, k, "deref")
      BY <2>2 DEF Ref, At
    <3> QED
      BY <2>1, <3>1 DEF Advance, Released, Places
  <2>3. CASE Load(t)
    <3>1. PICK k \in task[t], place \in {"clone", "store"} : k.at = "load" /\ Advance(t, k, place)
      BY <2>3 DEF Load, At
    <3>2. place \in Places
      BY DEF Places
    <3>3. ~Released([k EXCEPT !.at = place]) /\ ~Released(k)
      BY <2>1, <3>1, <3>2 DEF Released
    <3> QED
      BY <3>1, <3>3 DEF Advance
  <2>4. CASE Clone(t)
    <3>1. PICK k \in task[t], a \in Blocks :
            /\ k.at = "clone"
            /\ task' = [task EXCEPT ![t] = {[k EXCEPT !.at = "deref", !.fresh = a]}]
      BY <2>4 DEF Clone, At
    <3>2. [k EXCEPT !.at = "deref", !.fresh = a].at = "deref"
      BY DEF CountInv, Typed, Tasks
    <3> QED
      BY <3>1, <3>2 DEF Released
  <2>5. CASE Delete(t)
    <3>1. PICK k \in task[t] : k.at = "delete" /\ Advance(t, k, "assign")
      BY <2>5 DEF Delete, At
    <3> QED
      BY <2>1, <3>1 DEF Advance, Released, Places
  <2> QED
    BY <2>2, <2>3, <2>4, <2>5
<1>2. /\ task'[t] = {j} /\ task[t] = {k}
      /\ \A u \in Threads : u # t => task'[u] = task[u]
  BY <1>1 DEF CountInv, Typed
<1>3. NoneReleased
  BY <1>1, <1>2 DEF NoneReleased, Alike
<1>4. data' = data
  BY DEF Ref, Load, Clone, Delete
<1>5. \A b \in Blocks : Referred(b) => payload'[b] = payload[b]
  <2>1. CASE Ref(t) \/ Load(t) \/ Clone(t)
    <3>1. \A b \in live : payload'[b] = payload[b]
      BY <2>1 DEF Ref, Load, Clone, Allocate, CountInv, Typed
    <3> QED
      BY SMTT(30), <3>1, AllocatedKept
  <2>2. CASE Delete(t)
    <3>1. PICK i \in task[t] :
            i.at = "delete" /\ payload' = [payload EXCEPT ![data[i.target]] = NoPayload]
      BY <2>2 DEF Delete, At
    <3> QED
      BY SMTT(30), <3>1, DeletedUnused DEF Referred, CountInv, Typed
  <2> QED
    BY <2>1, <2>2
<1> QED
  BY <1>3, <1>4, <1>5, QuietStep

(* The deref() of a copy or a move takes effect at once, and so does the   *)
(* one of a reset; the one of a write replaces a block by its copy.        *)
LEMMA DerefValues ==
  ASSUME ValueInv, ValueInv', NEW t \in Threads, Deref(t)
  PROVE  \E p \in Pointers :
           \/ \A r \in Pointers : Value(r)' = Value(r)
           \/ \A r \in Pointers : Value(r)' = IF r = p THEN NoPayload ELSE Value(r)
           \/ \E v \in Payloads : \A r \in Pointers : Value(r)' = IF r = p THEN v ELSE Value(r)
           \/ \E q \in Pointers \ {p} :
                \/ \A r \in Pointers : Value(r)' = IF r = p THEN Value(q) ELSE Value(r)
                \/ \A r \in Pointers : Value(r)' = IF r = p THEN Value(q)
                                                   ELSE IF r = q THEN NoPayload ELSE Value(r)
<1>1. PICK k \in task[t], place \in {"delete", "assign"} :
        k.at = "deref" /\ Advance(t, k, place) /\ UNCHANGED <<data, payload>>
  BY DEF Deref, At
<1> DEFINE j == [k EXCEPT !.at = place]
           p == k.target
           q == k.source
<1>2. CountInv /\ CountInv' /\ ValuesKnown /\ ValuesKnown'
  BY ValueKnown, PTL DEF ValueInv
<1>3. k \in Tasks /\ Shape(k) /\ Exclusive(k) /\ ~Released(k) /\ p \in Pointers
  BY <1>1 DEF ValueInv, CountInv, Typed, RuleOfUse, WritesExclusive, Released, Tasks
<1>4. j.at = place /\ Alike(k, j) /\ Released(j)
  BY <1>3 DEF Tasks, Alike, Released
<1>5. /\ task'[t] = {j} /\ task[t] = {k} /\ \A u \in Threads : u # t => task'[u] = task[u]
  BY <1>1, <1>2 DEF Advance, CountInv, Typed
<1> HIDE DEF j
<1>6. \A u \in Threads : u # t => \A i \in task[u] : Apart(k, i) /\ Apart(i, k)
  BY <1>2 DEF CountInv, RuleOfUse
<1>7. Value(p)' = Worth(NewData(k)) /\ (k.op = "move" => Value(q)' = NoPayload)
  <2>1. NewData(j)' = NewData(k)
    BY <1>1, <1>4 DEF NewData, Alike
  <2>2. Worth(NewData(j))' = Worth(NewData(k))
    BY <1>1, <2>1 DEF Worth
  <2>3. Value(j.target)' = Worth(NewData(j))' /\ (j.op = "move" => Value(j.source)' = NoPayload)
    BY <1>2, <1>4, <1>5 DEF ValuesKnown, Released
  <2> QED
    BY <1>4, <2>2, <2>3 DEF Alike
<1>8. ASSUME NEW r \in Pointers, r # p, ~(k.op = "move" /\ r = q)
      PROVE  Value(r)' = Value(r)
  <2>1. ASSUME NEW u \in Threads, NEW i \in task[u], Released(i), i.target = r
        PROVE  Value(r)' = Value(r)
    <3>1. u # t /\ i \in task'[u]
      BY <1>3, <1>5, <2>1
    <3>2. Value(i.target) = Worth(NewData(i)) /\ Value(i.target)' = Worth(NewData(i))'
      BY <1>2, <2>1, <3>1 DEF ValuesKnown, Released
    <3>3. Worth(NewData(i))' = Worth(NewData(i))
      BY <1>1 DEF Worth, NewData
    <3> QED
      BY <2>1, <3>2, <3>3
  <2>2. ASSUME NEW u \in Threads, NEW i \in task[u], Released(i), i.op = "move", i.source = r
        PROVE  Value(r)' = Value(r)
    <3>1. u # t /\ i \in task'[u]
      BY <1>3, <1>5, <2>2
    <3> QED
      BY <1>2, <2>2, <3>1 DEF ValuesKnown, Released
  <2>3. CASE ~LetGo(r) /\ ~LetGoFrom(r)
    <3>1. ~LetGo(r)' /\ ~LetGoFrom(r)'
      BY <1>4, <1>5, <1>8, <2>3 DEF LetGo, LetGoFrom, Alike, Released
    <3>2. Worth(data[r])' = Worth(data[r])
      BY <1>1 DEF Worth
    <3> QED
      BY <1>2, <2>3, <3>1, <3>2 DEF ValuesKnown
  <2> QED
    BY <2>1, <2>2, <2>3 DEF LetGo, LetGoFrom
<1>9. CASE k.op \in {"copy", "move"}
  <2>1. q \in Pointers \ {p}
    BY <1>3, <1>9 DEF Shape, Tasks
  <2>2. ~LetGo(q) /\ ~LetGoFrom(q)
    BY <1>3, <1>5, <1>6, <1>9 DEF LetGo, LetGoFrom, Apart
  <2>3. Value(p)' = Value(q)
    BY <1>2, <1>7, <1>9, <2>1, <2>2 DEF ValuesKnown, NewData
  <2>4. CASE k.op = "copy"
    <3>1. \A r \in Pointers : Value(r)' = IF r = p THEN Value(q) ELSE Value(r)
      BY <1>8, <2>3, <2>4
    <3> QED
      BY <1>3, <2>1, <3>1
  <2>5. CASE k.op = "move"
    <3>1. \A r \in Pointers : Value(r)' = IF r = p THEN Value(q)
                                          ELSE IF r = q THEN NoPayload ELSE Value(r)
      BY <1>7, <1>8, <2>3, <2>5
    <3> QED
      BY <1>3, <2>1, <3>1
  <2> QED
    BY <1>9, <2>4, <2>5
<1>10. CASE k.op = "reset"
  <2>1. Value(p)' = Worth(k.fresh)
    BY <1>7, <1>10 DEF NewData
  <2>2. k.fresh # Null => k.fresh \in Blocks /\ t \in TakingThreads(k.fresh)
    BY <1>3 DEF Tasks, TakingThreads, Takes
  <2>3. k.fresh # Null => payload[k.fresh] \in Payloads
    BY <1>2, <2>2, Referenced
  <2>4. Value(p)' = NoPayload \/ Value(p)' \in Payloads
    BY <2>1, <2>3 DEF Worth
  <2>5. \A r \in Pointers : r # p => Value(r)' = Value(r)
    BY <1>8, <1>10
  <2>6. PICK v : v = Value(p)'
    OBVIOUS
  <2>7. \A r \in Pointers : Value(r)' = IF r = p THEN v ELSE Value(r)
    BY <2>5, <2>6
  <2> QED
    BY <1>3, <2>4, <2>6, <2>7
<1>11. CASE k.op = "write"
  <2>1. Value(p)' = payload[k.fresh] /\ payload[k.fresh] = payload[data[p]]
    BY <1>1, <1>3, <1>7, <1>11 DEF NewData, Worth, Shape, Exclusive
  <2>2. ~LetGo(p) /\ ~LetGoFrom(p)
    BY <1>3, <1>5, <1>6, <1>11 DEF LetGo, LetGoFrom, Apart
  <2>3. data[p] # Null
    BY <1>11, SoleReference, SharedDataAssumption
  <2>4. Value(p) = payload[data[p]]
    BY <1>2, <1>3, <2>2, <2>3 DEF ValuesKnown, Worth
  <2>5. \A r \in Pointers : Value(r)' = Value(r)
    BY <1>8, <1>11, <2>1, <2>4
  <2> QED
    BY <1>3, <2>5
<1> QED
  BY <1>3, <1>9, <1>10, <1>11 DEF Tasks, Ops

(* The assignment of _data only catches up with what deref() has done. *)
LEMMA AssignValues ==
  ASSUME CountInv, CountInv', NEW t \in Threads, Assign(t)
  PROVE  \A r \in Pointers : Value(r)' = Value(r)
<1>1. PICK k \in task[t] :
        /\ k.at = "assign" /\ UNCHANGED <<refs, payload, live>>
        /\ data' = [p \in Pointers |-> CASE p = k.target -> NewData(k)
                                         [] p \in Emptied(k) -> Null
                                         [] OTHER -> data[p]]
        /\ task' = [task EXCEPT ![t] = IF k.op = "write"
                                       THEN {[k EXCEPT !.at = "store", !.fresh = Null]} ELSE {}]
  BY DEF Assign, At
<1> DEFINE p == k.target
           q == k.source
           j == [k EXCEPT !.at = "store", !.fresh = Null]
<1>2. ValuesKnown /\ ValuesKnown'
  BY ValueKnown, PTL
<1>3. k \in Tasks /\ Shape(k) /\ Released(k) /\ p \in Pointers /\ p # q
      /\ (k.op = "move" => q \in Pointers)
  BY <1>1 DEF CountInv, Typed, RuleOfUse, Released, Tasks, Shape
<1>4. /\ data'[p] = NewData(k)
      /\ k.op = "move" => data'[q] = Null
      /\ \A r \in Pointers : r # p /\ ~(k.op = "move" /\ r = q) => data'[r] = data[r]
  <2>1. p \notin Emptied(k) /\ (k.op = "move" => Emptied(k) = {q})
        /\ (k.op # "move" => Emptied(k) = {})
    BY <1>3 DEF Emptied
  <2> QED
    BY <1>1, <1>3, <2>1
<1>5. ~Released(j)
  BY <1>3 DEF Tasks, Released
<1>6. /\ \A i \in task'[t] : ~Released(i)
      /\ task[t] = {k} /\ \A u \in Threads : u # t => task'[u] = task[u]
  BY <1>1, <1>5 DEF CountInv, Typed
<1> HIDE DEF j
<1>7. \A u \in Threads : u # t => \A i \in task[u] : Apart(k, i) /\ Apart(i, k)
                                                     /\ i \in Tasks /\ Shape(i)
  BY DEF CountInv, Typed, RuleOfUse
<1>8. \A b : Worth(b)' = Worth(b)
  BY <1>1 DEF Worth
<1>9. Value(p)' = Value(p)
  <2>1. ~LetGo(p)' /\ ~LetGoFrom(p)'
    BY <1>6, <1>7 DEF LetGo, LetGoFrom, Apart
  <2>2. Value(p)' = Worth(data[p])'
    BY <1>2, <1>3, <2>1 DEF ValuesKnown
  <2>3. PICK b : b = NewData(k)
    OBVIOUS
  <2>4. Worth(data[p])' = Worth(b)'
    BY <1>4, <2>3 DEF Worth
  <2>5. Value(p) = Worth(b)
    BY <1>2, <1>3, <2>3 DEF ValuesKnown
  <2> QED
    BY <1>8, <2>2, <2>4, <2>5
<1>10. k.op = "move" => Value(q)' = Value(q)
  <2> SUFFICES ASSUME k.op = "move"
               PROVE  Value(q)' = Value(q)
    OBVIOUS
  <2>1. ~LetGo(q)' /\ ~LetGoFrom(q)'
    BY <1>6, <1>7 DEF LetGo, LetGoFrom, Apart
  <2>2. Value(q)' = Worth(data[q])'
    BY <1>2, <1>3, <2>1 DEF ValuesKnown
  <2>3. Worth(data[q])' = NoPayload
    BY <1>4 DEF Worth
  <2>4. Value(q) = NoPayload
    BY <1>2, <1>3 DEF ValuesKnown
  <2> QED
    BY <2>2, <2>3, <2>4
<1>11. ASSUME NEW r \in Pointers, r # p, ~(k.op = "move" /\ r = q)
       PROVE  Value(r)' = Value(r)
  <2>1. ASSUME NEW u \in Threads, NEW i \in task[u], Released(i), i.target = r
        PROVE  Value(r)' = Value(r)
    <3>1. u # t /\ i \in task'[u]
      BY <1>6, <1>11, <2>1
    <3>2. Value(i.target) = Worth(NewData(i)) /\ Value(i.target)' = Worth(NewData(i))'
      BY <1>2, <2>1, <3>1 DEF ValuesKnown, Released
    <3>3. NewData(i)' = NewData(i)
      <4>1. i.op \in {"copy", "move"} =>
              i.source \in Pointers /\ i.source # p /\ ~(k.op = "move" /\ i.source = q)
        BY <1>7, <3>1 DEF Apart, Shape, Tasks
      <4> QED
        BY <1>4, <4>1 DEF NewData
    <3>4. PICK b : b = NewData(i)
      OBVIOUS
    <3>5. Worth(NewData(i))' = Worth(b)'
      BY <3>3, <3>4 DEF Worth
    <3> QED
      BY <1>8, <2>1, <3>2, <3>4, <3>5
  <2>2. ASSUME NEW u \in Threads, NEW i \in task[u], Released(i), i.op = "move", i.source = r
        PROVE  Value(r)' = Value(r)
    <3>1. u # t /\ i \in task'[u]
      BY <1>6, <1>11, <2>2
    <3> QED
      BY <1>2, <2>2, <3>1 DEF ValuesKnown, Released
  <2>3. CASE ~LetGo(r) /\ ~LetGoFrom(r)
    <3>1. ~LetGo(r)' /\ ~LetGoFrom(r)'
      BY <1>6, <2>3 DEF LetGo, LetGoFrom, Released
    <3>2. Worth(data[r])' = Worth(data[r])
      BY <1>1, <1>4, <1>11 DEF Worth
    <3> QED
      BY <1>2, <2>3, <3>1, <3>2 DEF ValuesKnown
  <2> QED
    BY <2>1, <2>2, <2>3 DEF LetGo, LetGoFrom
<1> QED
  BY <1>9, <1>10, <1>11

(* The write through the pointer is seen through no other. *)
LEMMA StoreValues ==
  ASSUME ValueInv, ValueInv', NEW t \in Threads, NEW v \in Payloads, Store(t, v)
  PROVE  \E p \in Pointers : /\ Value(p) # NoPayload
                             /\ \A r \in Pointers : Value(r)' = IF r = p THEN v ELSE Value(r)
<1>1. PICK k \in task[t] :
        /\ k.at = "store" /\ UNCHANGED <<data, refs, live>>
        /\ payload' = [payload EXCEPT ![data[k.target]] = v]
        /\ task' = [task EXCEPT ![t] = {}]
  BY DEF Store, At
<1> DEFINE p == k.target
<1>2. CountInv /\ CountInv' /\ ValuesKnown /\ ValuesKnown'
  BY ValueKnown, PTL DEF ValueInv
<1>3. PICK c \in Blocks : /\ c = data[p] /\ c \in live /\ p \in Pointers
                          /\ Holders(c) = {p} /\ TakingThreads(c) = {}
  BY <1>1, WriteAtStore, SoleReference DEF ValueInv
<1>4. k \in Tasks /\ ~Released(k) /\ k.op = "write"
  BY <1>1, <1>2, WriteAtStore DEF CountInv, Typed
<1>5. /\ task'[t] = {} /\ task[t] = {k}
      /\ \A u \in Threads : u # t => task'[u] = task[u]
  BY <1>1, <1>2 DEF CountInv, Typed
<1>6. /\ payload'[c] = v /\ payload[c] \in Payloads /\ c # Null
      /\ \A b : b = Null \/ (b \in Blocks /\ b # c) => Worth(b)' = Worth(b)
  BY <1>1, <1>2, <1>3, SharedDataAssumption DEF CountInv, Typed, Worth
<1>7. \A u \in Threads : u # t => \A i \in task[u] : Apart(k, i) /\ Apart(i, k)
  BY <1>2 DEF CountInv, RuleOfUse
<1>8. Value(p) # NoPayload /\ Value(p)' = v
  <2>1. ~LetGo(p) /\ ~LetGoFrom(p) /\ ~LetGo(p)' /\ ~LetGoFrom(p)'
    BY <1>4, <1>5, <1>7 DEF LetGo, LetGoFrom, Apart
  <2>2. Value(p) = payload[c] /\ Value(p)' = payload'[c]
    BY <1>1, <1>2, <1>3, <1>6, <2>1 DEF ValuesKnown, Worth
  <2> QED
    BY <1>6, <2>2, SharedDataAssumption
<1>9. ASSUME NEW r \in Pointers, r # p
      PROVE  Value(r)' = Value(r)
  <2>1. ASSUME NEW u \in Threads, NEW i \in task[u], Released(i), i.target = r
        PROVE  Value(r)' = Value(r)
    <3>1. u # t /\ i \in task'[u]
      BY <1>4, <1>5, <2>1
    <3>2. Value(i.target) = Worth(NewData(i)) /\ Value(i.target)' = Worth(NewData(i))'
      BY <1>2, <2>1, <3>1 DEF ValuesKnown, Released
    <3>3. PICK b : b = NewData(i)
      OBVIOUS
    <3>4. b = Null \/ (b \in Blocks /\ b # c)
      <4>1. i.op \in {"copy", "move"} => i.source # p
        BY <1>7, <3>1 DEF Apart
      <4> QED
        BY <1>2, <1>3, <2>1, <3>3, <4>1, NewDataReferenced
    <3>5. Worth(NewData(i))' = Worth(b)'
      BY <1>1, <3>3 DEF Worth, NewData
    <3> QED
      BY <1>6, <2>1, <3>2, <3>3, <3>4, <3>5
  <2>2. ASSUME NEW u \in Threads, NEW i \in task[u], Released(i), i.op = "move", i.source = r
        PROVE  Value(r)' = Value(r)
    <3>1. u # t /\ i \in task'[u]
      BY <1>4, <1>5, <2>2
    <3> QED
      BY <1>2, <2>2, <3>1 DEF ValuesKnown, Released
  <2>3. CASE ~LetGo(r) /\ ~LetGoFrom(r)
    <3>1. ~LetGo(r)' /\ ~LetGoFrom(r)'
      BY <1>5, <2>3 DEF LetGo, LetGoFrom, Released
    <3>2. PICK b : b = data[r]
      OBVIOUS
    <3>3. b = Null \/ (b \in Blocks /\ b # c)
      BY <1>2, <1>3, <1>9, <2>3, <3>2 DEF Holders, CountInv, Typed
    <3>4. Worth(data[r])' = Worth(b)'
      BY <1>1, <3>2 DEF Worth
    <3> QED
      BY <1>2, <1>6, <2>3, <3>1, <3>2, <3>3, <3>4 DEF ValuesKnown
  <2> QED
    BY <2>1, <2>2, <2>3 DEF LetGo, LetGoFrom
<1> QED
  BY <1>3, <1>8, <1>9

(***************************************************************************)
(* SharedDataPointer implements values that are independent of each other, *)
(* for any finite number of threads and pointers and any payloads: every   *)
(* atomic access of a copy, a move, a release or a detach is one step of   *)
(* SharedValues on its pointer, or no step.                                *)
(***************************************************************************)
THEOREM ImplementsValues == Spec => ValueSpec
<1> DEFINE value == [p \in Pointers |-> Value(p)]
<1>1. Init => Values!Init
  <2> SUFFICES ASSUME Init
               PROVE  value = [p \in Pointers |-> NoPayload]
    BY DEF Values!Init
  <2>1. CountInv /\ ValuesKnown
    BY InitInv, ValueKnown
  <2>2. \A p \in Pointers : Value(p) = NoPayload
    BY <2>1 DEF Init, ValuesKnown, LetGo, LetGoFrom, Worth
  <2> QED
    BY <2>2
<1>2. ASSUME ValueInv, ValueInv', [Next]_vars
      PROVE  [Values!Next]_value
  <2>1. CountInv /\ CountInv'
    BY <1>2 DEF ValueInv
  <2>2. ASSUME \A r \in Pointers : Value(r)' = Value(r)
        PROVE  UNCHANGED value
    BY <2>2
  <2>3. CASE UNCHANGED vars
    BY <2>3 DEF vars, Value, Underway, Released, Worth, NewData
  <2>4. ASSUME NEW t \in Threads, Ref(t) \/ Load(t) \/ Clone(t) \/ Delete(t) \/ Assign(t)
        PROVE  UNCHANGED value
    BY <2>1, <2>2, <2>4, QuietStepValues, AssignValues
  <2>5. ASSUME NEW t \in Threads, NEW p \in Pointers,
               \/ StartRelease(t, p)
               \/ StartWrite(t, p)
               \/ \E q \in Pointers : StartCopy(t, p, q) \/ StartMove(t, p, q)
               \/ \E b \in Blocks, v \in Payloads : StartMake(t, p, b, v)
        PROVE  UNCHANGED value
    BY <2>1, <2>2, <2>5, StartValues
  <2>6. ASSUME NEW t \in Threads, Deref(t)
        PROVE  [Values!Next]_value
    <3>1. PICK p \in Pointers :
           \/ \A r \in Pointers : Value(r)' = Value(r)
           \/ \A r \in Pointers : Value(r)' = IF r = p THEN NoPayload ELSE Value(r)
           \/ \E v \in Payloads : \A r \in Pointers : Value(r)' = IF r = p THEN v ELSE Value(r)
           \/ \E q \in Pointers \ {p} :
                \/ \A r \in Pointers : Value(r)' = IF r = p THEN Value(q) ELSE Value(r)
                \/ \A r \in Pointers : Value(r)' = IF r = p THEN Value(q)
                                                   ELSE IF r = q THEN NoPayload ELSE Value(r)
      BY <1>2, <2>6, DerefValues
    <3>2. CASE \A r \in Pointers : Value(r)' = IF r = p THEN NoPayload ELSE Value(r)
      <4>1. value' = [value EXCEPT ![p] = NoPayload]
        BY <3>2
      <4> QED
        BY <4>1 DEF Values!Next, Values!Clear
    <3>3. ASSUME NEW v \in Payloads,
                 \A r \in Pointers : Value(r)' = IF r = p THEN v ELSE Value(r)
          PROVE  [Values!Next]_value
      <4>1. value' = [value EXCEPT ![p] = v]
        BY <3>3
      <4> QED
        BY <4>1 DEF Values!Next, Values!Make
    <3>4. ASSUME NEW q \in Pointers \ {p},
                 \A r \in Pointers : Value(r)' = IF r = p THEN Value(q) ELSE Value(r)
          PROVE  [Values!Next]_value
      <4>1. value' = [value EXCEPT ![p] = value[q]]
        BY <3>4
      <4> QED
        BY <4>1 DEF Values!Next, Values!Copy
    <3>5. ASSUME NEW q \in Pointers \ {p},
                 \A r \in Pointers : Value(r)' = IF r = p THEN Value(q)
                                                 ELSE IF r = q THEN NoPayload ELSE Value(r)
          PROVE  [Values!Next]_value
      <4>1. value' = [value EXCEPT ![p] = value[q], ![q] = NoPayload]
        BY <3>5
      <4> QED
        BY <4>1 DEF Values!Next, Values!Move
    <3> QED
      BY <2>2, <3>1, <3>2, <3>3, <3>4, <3>5
  <2>7. ASSUME NEW t \in Threads, NEW v \in Payloads, Store(t, v)
        PROVE  [Values!Next]_value
    <3>1. PICK p \in Pointers :
            /\ Value(p) # NoPayload
            /\ \A r \in Pointers : Value(r)' = IF r = p THEN v ELSE Value(r)
      BY <1>2, <2>7, StoreValues
    <3>2. value' = [value EXCEPT ![p] = v] /\ value[p] # NoPayload
      BY <3>1
    <3> QED
      BY <3>2 DEF Values!Next, Values!Write
  <2> HIDE DEF value
  <2> QED
    BY <1>2, <2>3, <2>4, <2>5, <2>6, <2>7 DEF Next, Step
<1>3. Spec => []ValueInv
  BY ValueInvariant
<1> QED
  BY <1>1, <1>2, <1>3, PTL DEF Spec, ValueSpec, Values!Spec
=============================================================================
