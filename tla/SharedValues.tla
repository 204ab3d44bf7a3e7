---------------------------- MODULE SharedValues ----------------------------
(***************************************************************************)
(* What SharedDataPointer promises: every pointer behaves as a value of    *)
(* its own.  A copy gives the target the source's value, a move empties    *)
(* the source, and a write through one pointer is seen through no other.   *)
(***************************************************************************)
CONSTANTS Pointers, Payloads, NoPayload

VARIABLE value

Init == value = [p \in Pointers |-> NoPayload]

Make(p, v) == value' = [value EXCEPT ![p] = v]

Copy(p, q) == value' = [value EXCEPT ![p] = value[q]]

Move(p, q) == value' = [value EXCEPT ![p] = value[q], ![q] = NoPayload]

Clear(p) == value' = [value EXCEPT ![p] = NoPayload]

Write(p, v) ==
  /\ value[p] # NoPayload
  /\ value' = [value EXCEPT ![p] = v]

Next ==
  \E p \in Pointers :
    \/ Clear(p)
    \/ \E v \in Payloads : Make(p, v) \/ Write(p, v)
    \/ \E q \in Pointers \ {p} : Copy(p, q) \/ Move(p, q)

Spec == Init /\ [][Next]_value
=============================================================================
