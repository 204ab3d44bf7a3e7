--------------------------- MODULE ItemIdsProofs ----------------------------
(***************************************************************************)
(* Proofs about ItemIds, for every width of the two fields of an id, every *)
(* clock and every sequence of saves, losses and recoveries.               *)
(***************************************************************************)
EXTENDS ItemIds, TLAPS

(* Counting up by one within a width wraps to 0 at its end.                *)
LEMMA CountUp ==
  ASSUME NEW m \in Nat \ {0}, NEW k \in 0..(m - 1)
  PROVE  (k + 1) % m = IF k + 1 < m THEN k + 1 ELSE 0
<1>1. CASE k + 1 < m
  BY <1>1
<1>2. CASE k + 1 = m
  BY <1>2
<1> QED
  BY <1>1, <1>2

LEMMA ElapsedInRange ==
  ASSUME TypeOK
  PROVE  Elapsed \in 0..(ElapsedMod - 1)
BY ItemIdsAssumption DEF TypeOK, Elapsed

(* The generated id is above the generator's state, and above every id     *)
(* that is not above that state.                                           *)
LEMMA NextIdIsNew ==
  ASSUME TypeOK, IdSpaceLeft
  PROVE  /\ NextId \in Ids
         /\ \A id \in Ids : AtMost(id, current) => AtMost(id, NextId) /\ id # NextId
<1> DEFINE second == current[1]
           counter == current[2]
<1>1. /\ current = <<second, counter>>
      /\ second \in 0..(ElapsedMod - 1) /\ counter \in 0..(CounterMod - 1)
  BY DEF TypeOK, Ids
<1>2. Elapsed \in 0..(ElapsedMod - 1)
  BY ElapsedInRange
<1>3. (counter + 1) % CounterMod = IF counter + 1 < CounterMod THEN counter + 1 ELSE 0
  BY <1>1, CountUp, ItemIdsAssumption
<1>4. CASE Elapsed > second
  <2>1. NextId = <<Elapsed, 1>>
    BY <1>4 DEF NextId
  <2> QED
    BY <1>1, <1>2, <1>4, <2>1, ItemIdsAssumption DEF Ids, AtMost
<1>5. CASE ~(Elapsed > second) /\ counter + 1 < CounterMod
  <2>1. NextId = <<second, counter + 1>>
    BY <1>1, <1>3, <1>5 DEF NextId
  <2> QED
    BY <1>1, <1>5, <2>1, ItemIdsAssumption DEF Ids, AtMost
<1>6. CASE ~(Elapsed > second) /\ counter + 1 = CounterMod
  <2>1. second + 1 \in 0..(ElapsedMod - 1)
    BY <1>1, <1>6, ItemIdsAssumption DEF IdSpaceLeft
  <2>2. (second + 1) % ElapsedMod = second + 1
    BY <1>1, <2>1, CountUp, ItemIdsAssumption
  <2>3. NextId = <<second + 1, 1>>
    BY <1>1, <1>3, <1>6, <2>2 DEF NextId
  <2> QED
    BY <1>1, <2>1, <2>3, ItemIdsAssumption DEF Ids, AtMost
<1> QED
  BY <1>1, <1>4, <1>5, <1>6, ItemIdsAssumption

(* Observing an id leaves the generator above it and no lower than before. *)
LEMMA ObserveRaises ==
  ASSUME TypeOK, NEW id \in Ids
  PROVE  /\ Observe(id) \in Ids
         /\ AtMost(id, Observe(id))
         /\ \A other \in Ids : AtMost(other, current) => AtMost(other, Observe(id))
<1>1. /\ current = <<current[1], current[2]>> /\ current[1] \in Int /\ current[2] \in Int
      /\ id = <<id[1], id[2]>> /\ id[1] \in Int /\ id[2] \in Int
  BY DEF TypeOK, Ids
<1>2. \A other \in Ids : other[1] \in Int /\ other[2] \in Int
  BY DEF Ids
<1> QED
  BY <1>1, <1>2 DEF TypeOK, Observe, AtMost

(* A snapshot saves the items, whereas the generator is ahead of the ids   *)
(* seen: the invariant needs that an item is there only if it was seen.    *)
IdsInv == TypeOK /\ GeneratorDominates /\ items \subseteq seen

LEMMA InitIdsInv == Init => IdsInv
BY ItemIdsAssumption DEF Init, IdsInv, TypeOK, GeneratorDominates, Ids, Images, NoImage

LEMMA NextIdsInv ==
  ASSUME ~RestoreInPlace, IdsInv, [Next]_vars
  PROVE  IdsInv'
<1>1. ASSUME NEW now \in 0..MaxClock, Tick(now)
      PROVE  IdsInv'
  BY <1>1 DEF Tick, IdsInv, TypeOK, GeneratorDominates
<1>2. ASSUME NEW isLogged \in BOOLEAN, Insert(isLogged)
      PROVE  IdsInv'
  <2>1. /\ NextId \in Ids
        /\ \A id \in Ids : AtMost(id, current) => AtMost(id, NextId)
        /\ AtMost(NextId, NextId)
    BY <1>2, NextIdIsNew DEF Insert, IdsInv, AtMost, Ids
  <2>2. TypeOK'
    BY <1>2, <2>1 DEF Insert, IdsInv, TypeOK
  <2>3. GeneratorDominates'
    BY <1>2, <2>1 DEF Insert, IdsInv, TypeOK, GeneratorDominates
  <2>4. items' \subseteq seen'
    BY <1>2 DEF Insert, IdsInv
  <2> QED
    BY <2>2, <2>3, <2>4 DEF IdsInv
<1>3. ASSUME NEW id \in items, Remove(id)
      PROVE  IdsInv'
  BY <1>3 DEF Remove, IdsInv, TypeOK, GeneratorDominates
<1>4. CASE CreateSnapshot
  <2>1. image' \in Images /\ image'.items = items /\ image'.current = current
    BY <1>4 DEF CreateSnapshot, IdsInv, TypeOK, Images
  <2>2. UNCHANGED <<clock, epoch, current, items, seen>> /\ logged' = {}
    BY <1>4 DEF CreateSnapshot
  <2>3. TypeOK'
    <3>1. image' \in Images
      BY <2>1
    <3> QED
      BY <2>2, <3>1 DEF IdsInv, TypeOK
  <2>4. GeneratorDominates'
    BY <2>1, <2>2 DEF IdsInv, GeneratorDominates
  <2> QED
    BY <2>2, <2>3, <2>4 DEF IdsInv
<1>5. CASE Restart
  <2>1. <<0, 0>> \in Ids
    BY ItemIdsAssumption DEF Ids
  <2>2. TypeOK'
    BY <1>5, <2>1 DEF Restart, IdsInv, TypeOK
  <2>3. GeneratorDominates'
    BY <1>5 DEF Restart, IdsInv, GeneratorDominates
  <2> QED
    BY <1>5, <2>2, <2>3 DEF Restart, IdsInv
<1>6. CASE RestoreSnapshot
  <2>1. image.epoch \in 0..MaxClock /\ image.current \in Ids /\ image.items \subseteq Ids
    BY DEF IdsInv, TypeOK, Images
  <2>2. /\ seen' = image.items /\ items' = image.items
        /\ current' = image.current
    BY <1>6 DEF RestoreSnapshot
  <2>3. TypeOK'
    BY <1>6, <2>1, <2>2 DEF RestoreSnapshot, IdsInv, TypeOK
  <2>4. GeneratorDominates'
    BY <1>6, <2>2 DEF RestoreSnapshot, IdsInv, GeneratorDominates
  <2> QED
    BY <2>2, <2>3, <2>4 DEF IdsInv
<1>7. ASSUME NEW id \in logged, ReplayInsert(id)
      PROVE  IdsInv'
  <2>1. id \in Ids
    BY DEF IdsInv, TypeOK
  <2>2. /\ Observe(id) \in Ids
        /\ AtMost(id, Observe(id))
        /\ \A other \in Ids : AtMost(other, current) => AtMost(other, Observe(id))
    BY <2>1, ObserveRaises DEF IdsInv
  <2>3. TypeOK'
    BY <1>7, <2>1, <2>2 DEF ReplayInsert, IdsInv, TypeOK
  <2>4. GeneratorDominates'
    BY <1>7, <2>1, <2>2 DEF ReplayInsert, IdsInv, TypeOK, GeneratorDominates
  <2>5. items' \subseteq seen'
    BY <1>7 DEF ReplayInsert, IdsInv
  <2> QED
    BY <2>3, <2>4, <2>5 DEF IdsInv
<1>8. CASE UNCHANGED vars
  BY <1>8 DEF vars, IdsInv, TypeOK, GeneratorDominates
<1> QED
  BY <1>1, <1>2, <1>3, <1>4, <1>5, <1>6, <1>7, <1>8 DEF Next

(* The fields of the generator keep their widths whatever happens, also    *)
(* when a snapshot is restored into an engine in use.                      *)
THEOREM TypeCorrect == Spec => []TypeOK
<1>1. Init => TypeOK
  BY InitIdsInv DEF IdsInv
<1>2. ASSUME TypeOK, [Next]_vars
      PROVE  TypeOK'
  <2>1. ASSUME NEW now \in 0..MaxClock, Tick(now)
        PROVE  TypeOK'
    BY <1>2, <2>1 DEF Tick, TypeOK
  <2>2. ASSUME NEW isLogged \in BOOLEAN, Insert(isLogged)
        PROVE  TypeOK'
    <3>1. NextId \in Ids
      BY <1>2, <2>2, NextIdIsNew DEF Insert
    <3> QED
      BY <1>2, <2>2, <3>1 DEF Insert, TypeOK
  <2>3. ASSUME NEW id \in items, Remove(id)
        PROVE  TypeOK'
    BY <1>2, <2>3 DEF Remove, TypeOK
  <2>4. CASE CreateSnapshot
    <3>1. image' \in Images
      BY <1>2, <2>4 DEF CreateSnapshot, TypeOK, Images
    <3> QED
      BY <1>2, <2>4, <3>1 DEF CreateSnapshot, TypeOK
  <2>5. CASE Restart
    BY <1>2, <2>5, ItemIdsAssumption DEF Restart, TypeOK, Ids
  <2>6. CASE RestoreSnapshot
    <3>1. image.epoch \in 0..MaxClock /\ image.current \in Ids /\ image.items \subseteq Ids
      BY <1>2 DEF TypeOK, Images
    <3> QED
      BY <1>2, <2>6, <3>1 DEF RestoreSnapshot, TypeOK
  <2>7. ASSUME NEW id \in logged, ReplayInsert(id)
        PROVE  TypeOK'
    <3>1. id \in Ids
      BY <1>2 DEF TypeOK
    <3>2. Observe(id) \in Ids
      BY <1>2, <3>1, ObserveRaises
    <3> QED
      BY <1>2, <2>7, <3>1, <3>2 DEF ReplayInsert, TypeOK
  <2>8. CASE UNCHANGED vars
    BY <1>2, <2>8 DEF vars, TypeOK
  <2> QED
    BY <1>2, <2>1, <2>2, <2>3, <2>4, <2>5, <2>6, <2>7, <2>8 DEF Next
<1> QED
  BY <1>1, <1>2, PTL DEF Spec

(* The generator stays ahead of every id the engine has held, for any      *)
(* widths, as long as snapshots are restored into unused engines only.     *)
THEOREM GeneratorStaysAhead ==
  ASSUME ~RestoreInPlace
  PROVE  Spec => [](TypeOK /\ GeneratorDominates)
<1>1. IdsInv /\ [Next]_vars => IdsInv'
  BY NextIdsInv
<1>2. IdsInv => TypeOK /\ GeneratorDominates
  BY DEF IdsInv
<1> QED
  BY <1>1, <1>2, InitIdsInv, PTL DEF Spec

(* Hence a new item never gets an id that was in use before: not after the *)
(* clock is set back, a counter wraps, a recovery or a replay.             *)
THEOREM IdsAreFresh ==
  ASSUME ~RestoreInPlace
  PROVE  Spec => FreshIds
<1>1. IdsInv /\ [Next]_vars => IdsInv'
  BY NextIdsInv
<1>2. IdsInv => (\A isLogged \in BOOLEAN : Insert(isLogged) => NextId \notin seen)
  BY NextIdIsNew DEF IdsInv, Insert, TypeOK, GeneratorDominates
<1> QED
  BY <1>1, <1>2, InitIdsInv, PTL DEF Spec, FreshIds

=============================================================================
