------------------------------ MODULE ItemIds -------------------------------
(***************************************************************************)
(* Generation of item identifiers (generateItemId and observeItemId in     *)
(* src/engine.cpp) in an engine that is saved, lost and recovered: the     *)
(* host keeps one snapshot and the log of the change sets committed since, *)
(* restores the snapshot and replays the log.                              *)
(*                                                                         *)
(* An ItemId is 64 bits, the second since the engine's epoch in the upper  *)
(* half and a counter within that second in the lower one; here it is the  *)
(* pair <<second, counter>>.                                               *)
(***************************************************************************)
EXTENDS Integers, FiniteSets

CONSTANTS
  ElapsedMod,      \* values of the seconds field (2^32 in the code)
  CounterMod,      \* values of the counter field (2^32 in the code)
  MaxClock,        \* bound: the latest reading of the host's clock
  RestoreInPlace   \* may restoreSnapshot run in an engine already in use?

ASSUME ItemIdsAssumption ==
  /\ ElapsedMod \in Nat \ {0}
  /\ CounterMod \in Nat \ {0, 1}
  /\ MaxClock \in Nat
  /\ RestoreInPlace \in BOOLEAN

Ids == (0..(ElapsedMod - 1)) \X (0..(CounterMod - 1))

VARIABLES
  clock,    \* unixSecondsNow(): the host may set it forward or back
  epoch,    \* DocumentEngine::Impl::epochSeconds
  current,  \* <<currentElapsedSecond, currentSecondCounter>>
  items,    \* the ids in DocumentEngine::Impl::items
  seen,     \* the ids this engine instance has ever held
  image,    \* the host's snapshot: NoImage, or what createSnapshot wrote
  logged    \* the ids inserted by the change sets logged since that snapshot

vars == <<clock, epoch, current, items, seen, image, logged>>

NoImage == [saved |-> FALSE, epoch |-> 0, current |-> <<0, 0>>, items |-> {}]

Images == [saved : BOOLEAN, epoch : 0..MaxClock, current : Ids, items : SUBSET Ids]

TypeOK ==
  /\ clock \in 0..MaxClock
  /\ epoch \in 0..MaxClock
  /\ current \in Ids
  /\ items \subseteq Ids
  /\ seen \subseteq Ids
  /\ image \in Images
  /\ logged \subseteq Ids

-----------------------------------------------------------------------------
(* The order of ids as 64-bit integers *)
AtMost(a, b) == a[1] < b[1] \/ (a[1] = b[1] /\ a[2] <= b[2])

(* elapsed, clamped to the width of the field, and 0 before the epoch *)
Elapsed ==
  LET now == IF clock > epoch THEN clock - epoch ELSE 0
  IN  IF now < ElapsedMod THEN now ELSE ElapsedMod - 1

(* Mutants of NextId: a second already in use starts over; the carry into  *)
(* the seconds field is missing.                                           *)
NextIdRestartsSecond ==
  LET counter == (current[2] + 1) % CounterMod
  IN  IF Elapsed >= current[1] THEN <<Elapsed, 1>>
      ELSE IF counter # 0 THEN <<current[1], counter>>
      ELSE <<(current[1] + 1) % ElapsedMod, 1>>

NextIdNoWrap ==
  IF Elapsed > current[1] THEN <<Elapsed, 1>> ELSE <<current[1], current[2] + 1>>

(* The id generateItemId returns, which is also the generator's new state: *)
(* a new second starts its counter at 1; otherwise the counter goes on in  *)
(* the latest second used, carrying into the next one when it wraps.       *)
NextId ==
  LET counter == (current[2] + 1) % CounterMod
  IN  IF Elapsed > current[1] THEN <<Elapsed, 1>>
      ELSE IF counter # 0 THEN <<current[1], counter>>
      ELSE <<(current[1] + 1) % ElapsedMod, 1>>

(* Bound: the last id has not been used.  With 2^64 ids it never is; past  *)
(* it the generator wraps around to <<0, 1>>.                              *)
IdSpaceLeft == current # <<ElapsedMod - 1, CounterMod - 1>>

(* observeItemId: the generator goes on after the largest id it has met *)
Observe(id) == IF AtMost(id, current) THEN current ELSE id

-----------------------------------------------------------------------------
Init ==
  /\ clock \in 0..MaxClock
  /\ epoch = clock
  /\ current = <<0, 0>>
  /\ items = {}
  /\ seen = {}
  /\ image = NoImage
  /\ logged = {}

Tick(now) ==
  /\ now # clock
  /\ clock' = now
  /\ UNCHANGED <<epoch, current, items, seen, image, logged>>

(* Transaction::insert.  The insert reaches the log when its transaction   *)
(* commits and the host appends the change set; it may never do.           *)
Insert(isLogged) ==
  /\ IdSpaceLeft
  /\ current' = NextId
  /\ items' = items \cup {NextId}
  /\ seen' = seen \cup {NextId}
  /\ logged' = IF isLogged THEN logged \cup {NextId} ELSE logged
  /\ UNCHANGED <<clock, epoch, image>>

(* Transaction::remove, or the rollback or undo of an insert *)
Remove(id) ==
  /\ id \in items
  /\ items' = items \ {id}
  /\ UNCHANGED <<clock, epoch, current, seen, image, logged>>

(* DocumentEngine::createSnapshot; the host starts a new log. *)
CreateSnapshot ==
  /\ image' = [saved |-> TRUE, epoch |-> epoch, current |-> current, items |-> items]
  /\ logged' = {}
  /\ UNCHANGED <<clock, epoch, current, items, seen>>

(* The host process ends, and a DocumentEngine is created anew. *)
Restart ==
  /\ epoch' = clock
  /\ current' = <<0, 0>>
  /\ items' = {}
  /\ seen' = {}
  /\ UNCHANGED <<clock, image, logged>>

(* DocumentEngine::restoreSnapshot: the generator's state is replaced by   *)
(* the saved one before the items are inserted, and observed, again.       *)
RestoreSnapshot ==
  /\ image.saved
  /\ RestoreInPlace \/ seen = {}
  /\ epoch' = image.epoch
  /\ current' = image.current
  /\ items' = image.items
  /\ seen' = seen \cup image.items
  /\ UNCHANGED <<clock, image, logged>>

(* Mutant of ReplayInsert: the replayed id is not observed. *)
ReplayUnobserved(id) ==
  /\ id \in logged
  /\ items' = items \cup {id}
  /\ seen' = seen \cup {id}
  /\ UNCHANGED <<clock, epoch, current, image, logged>>

(* DocumentEngine::replayChangeSet of a logged insert *)
ReplayInsert(id) ==
  /\ id \in logged
  /\ items' = items \cup {id}
  /\ seen' = seen \cup {id}
  /\ current' = Observe(id)
  /\ UNCHANGED <<clock, epoch, image, logged>>

Next ==
  \/ \E now \in 0..MaxClock : Tick(now)
  \/ \E isLogged \in BOOLEAN : Insert(isLogged)
  \/ \E id \in items : Remove(id)
  \/ CreateSnapshot
  \/ Restart
  \/ RestoreSnapshot
  \/ \E id \in logged : ReplayInsert(id)

Spec == Init /\ [][Next]_vars

-----------------------------------------------------------------------------
(***************************************************************************)
(* Properties                                                              *)
(***************************************************************************)

(* The generator is never behind an id the engine has held, removed ones   *)
(* included, nor a saved generator behind the items saved with it.         *)
GeneratorDominates ==
  /\ \A id \in seen : AtMost(id, current)
  /\ \A id \in image.items : AtMost(id, image.current)

(* A new item gets an id that no item of this engine has had before, also  *)
(* after a clock set back, a full counter, a recovery from a snapshot and  *)
(* a replay of the log (include/dini/types.h: implementations "must not    *)
(* reuse an identifier").                                                  *)
FreshIds == [][\A isLogged \in BOOLEAN : Insert(isLogged) => NextId \notin seen]_vars

=============================================================================
