----------------------------- MODULE SharedData -----------------------------
(***************************************************************************)
(* SharedDataPointer, the copy-on-write pointer behind every public value  *)
(* class (schemas, change sets, handles, queries).  The pointers are the   *)
(* objects of the program, each thread runs one operation at a time, and   *)
(* an operation is the sequence of its atomic accesses: the fetch_add of   *)
(* ref(), the fetch_sub of deref(), the delete, the load and the copy of   *)
(* detach(), the assignment of _data.  Callers obey the rule of every      *)
(* value class of the language: a pointer object being written is used by  *)
(* nobody else, one being copied from may be copied from by others too.    *)
(***************************************************************************)
EXTENDS Naturals, FiniteSets

CONSTANTS Threads, Pointers, Blocks, Payloads, NoPayload, Null

ASSUME SharedDataAssumption ==
  /\ IsFiniteSet(Threads) /\ IsFiniteSet(Pointers)
  /\ Null \notin Blocks \cup Pointers /\ NoPayload \notin Payloads

VARIABLES
  data,     \* [Pointers -> Blocks or Null], SharedDataPointer::_data
  refs,     \* [Blocks -> Nat], SharedData::_ref
  payload,  \* the derived class's members; NoPayload outside a block's life
  live,     \* the blocks that have been allocated and not deleted
  task      \* [Threads -> a set of at most one operation under way]

vars == <<data, refs, payload, live, task>>

Ops == {"copy", "move", "reset", "write"}
Places == {"ref", "load", "clone", "deref", "delete", "assign", "store"}

Tasks == [op: Ops, at: Places, target: Pointers,
          source: Pointers \cup {Null}, fresh: Blocks \cup {Null}]

TypeOK ==
  /\ data \in [Pointers -> Blocks \cup {Null}]
  /\ refs \in [Blocks -> Nat]
  /\ payload \in [Blocks -> Payloads \cup {NoPayload}]
  /\ live \subseteq Blocks
  /\ task \in [Threads -> SUBSET Tasks]
  /\ \A t \in Threads : Cardinality(task[t]) <= 1

Init ==
  /\ data = [p \in Pointers |-> Null]
  /\ refs = [b \in Blocks |-> 0]
  /\ payload = [b \in Blocks |-> NoPayload]
  /\ live = {}
  /\ task = [t \in Threads |-> {}]

Underway == UNION {task[t] : t \in Threads}

\* The pointer objects an operation under way writes, and those it reads.
Written == {k.target : k \in Underway} \cup {k.source : k \in {j \in Underway : j.op = "move"}}
Used == Written \cup {k.source : k \in Underway}

Start(t, k) ==
  /\ task[t] = {}
  /\ k.target \notin Used
  /\ task' = [task EXCEPT ![t] = {k}]

Advance(t, k, place) == task' = [task EXCEPT ![t] = {[k EXCEPT !.at = place]}]

At(t, place) == {k \in task[t] : k.at = place}

-----------------------------------------------------------------------------
(* The operations, as their callers begin them.                            *)

\* Copy construction and copy assignment; assigning to itself does nothing.
StartCopy(t, p, q) ==
  /\ p # q /\ q \notin Written
  /\ Start(t, [op |-> "copy", at |-> "ref", target |-> p, source |-> q, fresh |-> Null])
  /\ UNCHANGED <<data, refs, payload, live>>

\* Move construction and move assignment.
StartMove(t, p, q) ==
  /\ p # q /\ q \notin Used
  /\ Start(t, [op |-> "move", at |-> "deref", target |-> p, source |-> q, fresh |-> Null])
  /\ UNCHANGED <<data, refs, payload, live>>

\* reset() and the destructor; resetting a null pointer returns early.
StartRelease(t, p) ==
  /\ data[p] # Null
  /\ Start(t, [op |-> "reset", at |-> "deref", target |-> p, source |-> Null, fresh |-> Null])
  /\ UNCHANGED <<data, refs, payload, live>>

\* A new block, whose count is one, and who owns nothing yet.
Allocate(b, v) ==
  /\ b \notin live
  /\ live' = live \cup {b}
  /\ refs' = [refs EXCEPT ![b] = 1]
  /\ payload' = [payload EXCEPT ![b] = v]

\* reset(new T) and the constructor from a new block.
StartMake(t, p, b, v) ==
  /\ Allocate(b, v)
  /\ Start(t, [op |-> "reset", at |-> "deref", target |-> p, source |-> Null, fresh |-> b])
  /\ UNCHANGED data

\* data(), operator->() and operator*() on a pointer that is not const, and
\* the write through what they return.
StartWrite(t, p) ==
  /\ data[p] # Null
  /\ Start(t, [op |-> "write", at |-> "load", target |-> p, source |-> Null, fresh |-> Null])
  /\ UNCHANGED <<data, refs, payload, live>>

-----------------------------------------------------------------------------
(* Their steps.                                                            *)

\* ref(): one more reference to the source's block, before anything is released.
Ref(t) ==
  \E k \in At(t, "ref") :
    /\ refs' = IF data[k.source] = Null THEN refs
               ELSE [refs EXCEPT ![data[k.source]] = @ + 1]
    /\ Advance(t, k, "deref")
    /\ UNCHANGED <<data, payload, live>>

\* Mutant of MustCopy: data() without detach().
NeverCopy(b) == FALSE

\* The test of detach(): a block with one reference is written in place.
MustCopy(b) == refs[b] # 1

Load(t) ==
  \E k \in At(t, "load") :
    /\ Advance(t, k, IF MustCopy(data[k.target]) THEN "clone" ELSE "store")
    /\ UNCHANGED <<data, refs, payload, live>>

\* detach() copies the block; the count of the copy starts at one again.
Clone(t) ==
  \E k \in At(t, "clone"), b \in Blocks :
    /\ Allocate(b, payload[data[k.target]])
    /\ task' = [task EXCEPT ![t] = {[k EXCEPT !.at = "deref", !.fresh = b]}]
    /\ UNCHANGED data

\* deref(): the thread that takes the count from one to nothing deletes.
LastReference(b) == refs[b] = 1

Deref(t) ==
  \E k \in At(t, "deref") :
    LET b == data[k.target] IN
    /\ IF b = Null
         THEN Advance(t, k, "assign") /\ UNCHANGED refs
         ELSE /\ refs' = [refs EXCEPT ![b] = @ - 1]
              /\ Advance(t, k, IF LastReference(b) THEN "delete" ELSE "assign")
    /\ UNCHANGED <<data, payload, live>>

Delete(t) ==
  \E k \in At(t, "delete") :
    LET b == data[k.target] IN
    /\ live' = live \ {b}
    /\ payload' = [payload EXCEPT ![b] = NoPayload]
    /\ Advance(t, k, "assign")
    /\ UNCHANGED <<data, refs>>

\* The value _data is given: the source's, the copy's, the new block's or null.
NewData(k) == IF k.op \in {"copy", "move"} THEN data[k.source] ELSE k.fresh

\* Mutant of Emptied: a move that copies _data.
SourceKept(k) == {}

\* A move leaves its source null; every other operation leaves it alone.
Emptied(k) == IF k.op = "move" THEN {k.source} ELSE {}

Assign(t) ==
  \E k \in At(t, "assign") :
    /\ data' = [p \in Pointers |-> CASE p = k.target -> NewData(k)
                                     [] p \in Emptied(k) -> Null
                                     [] OTHER -> data[p]]
    /\ task' = [task EXCEPT ![t] = IF k.op = "write" THEN {[k EXCEPT !.at = "store", !.fresh = Null]}
                                   ELSE {}]
    /\ UNCHANGED <<refs, payload, live>>

\* The write through the pointer the caller was given.
Store(t, v) ==
  \E k \in At(t, "store") :
    /\ payload' = [payload EXCEPT ![data[k.target]] = v]
    /\ task' = [task EXCEPT ![t] = {}]
    /\ UNCHANGED <<data, refs, live>>

Step(t) == \/ Ref(t) \/ Load(t) \/ Clone(t) \/ Deref(t) \/ Delete(t) \/ Assign(t)
           \/ \E v \in Payloads : Store(t, v)

Next ==
  \E t \in Threads :
    \/ Step(t)
    \/ \E p \in Pointers :
         \/ StartRelease(t, p)
         \/ StartWrite(t, p)
         \/ \E q \in Pointers : StartCopy(t, p, q) \/ StartMove(t, p, q)
         \/ \E b \in Blocks, v \in Payloads : StartMake(t, p, b, v)

Spec == Init /\ [][Next]_vars

-----------------------------------------------------------------------------
(* Properties.                                                             *)

Released(k) == k.at \in {"delete", "assign"}

\* The references to b: the pointers that have not let go of it, the copies
\* that have taken theirs and not stored it yet, the block made and not stored.
Owners(b) ==
  {p \in Pointers : data[p] = b /\ \A k \in Underway : ~(k.target = p /\ Released(k))}
Takers(b) ==
  {k \in Underway : \/ k.fresh = b
                    \/ k.op = "copy" /\ k.at # "ref" /\ data[k.source] = b}

(***************************************************************************)
(* The count of a block is the number of references to it, through every   *)
(* interleaving of copies, moves, releases and detaches: the block is      *)
(* allocated as long as there is one, and once there is none the thread    *)
(* that released the last one is on its way to delete it - no pointer that *)
(* will be used again names a deleted block, and no block is leaked.       *)
(***************************************************************************)
BlocksCounted ==
  \A b \in Blocks :
    LET n == Cardinality(Owners(b)) + Cardinality(Takers(b)) IN
    /\ n > 0 => b \in live
    /\ b \in live => refs[b] = n
    /\ b \in live /\ n = 0 =>
         Cardinality({t \in Threads : \E k \in At(t, "delete") : data[k.target] = b}) = 1

\* What a pointer is worth: an operation takes effect with its deref().
Worth(b) == IF b = Null THEN NoPayload ELSE payload[b]

Value(p) ==
  LET into == {k \in Underway : k.target = p /\ Released(k)}
      from == {k \in Underway : k.op = "move" /\ k.source = p /\ Released(k)}
  IN IF into # {} THEN Worth(NewData(CHOOSE k \in into : TRUE))
     ELSE IF from # {} THEN NoPayload
     ELSE Worth(data[p])

Values == INSTANCE SharedValues WITH value <- [p \in Pointers |-> Value(p)]

(***************************************************************************)
(* The pointers implement independent values: a write through one is seen  *)
(* through no other, whatever copies other threads take or drop meanwhile  *)
(* (detach() tests the count before it writes, and nothing stops the count *)
(* from changing after the test).                                          *)
(***************************************************************************)
ValueSpec == Values!Spec
=============================================================================
