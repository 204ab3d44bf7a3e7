---------------------------- MODULE SchemaProofs ----------------------------
(***************************************************************************)
(* Proofs about Schema, for any number of builders, definitions, columns   *)
(* and restarts: handles resolve in their own schema and in no other,      *)
(* frozen schemas are sound, and a snapshot that a schema accepts means    *)
(* there what it meant when it was written.                                *)
(***************************************************************************)
EXTENDS Schema, SequenceTheorems, FiniteSetTheorems, TLAPS

PartKinds == {"column", "relation", "variant", "ordered", "interval"}
Handles ==
  [kind : PartKinds \cup {"Table", "List"}, schemaId : Nat, container : Nat, id : Nat]

Roles == {"normal", "computed", "variant", "association"}

(* The records of SchemaDefinitionData. *)
ColumnRecords ==
  [id : Nat, type : ColumnTypes, indexed : BOOLEAN, aggregate : BOOLEAN, role : Roles,
   deps : SUBSET Handles, variant : Nat]
RelationRecords == [id : Nat, column : Nat, target : Handles]
VariantRecords == [id : Nat]
OrderedRecords == [id : Nat, group : SUBSET Handles, order : SUBSET Handles]
IntervalRecords == [id : Nat, group : SUBSET Handles, start : Handles, end : Handles]
ContainerRecords ==
  [kind : {"Table", "List"}, id : Nat, association : Nat, columns : Seq(ColumnRecords),
   relations : Seq(RelationRecords), variants : Seq(VariantRecords),
   ranges : Seq(Seq(Handles)), ordered : Seq(OrderedRecords), intervals : Seq(IntervalRecords)]
Definitions ==
  [schemaId : Nat \ {0}, frozen : BOOLEAN, containers : Seq(ContainerRecords),
   next : [PartKinds \cup {"container"} -> Nat \ {0}]]

(* The ids of a builder are all different, and below the next one. *)
Numbered(seq, next) ==
  /\ \A i \in DOMAIN seq : seq[i].id < next
  /\ \A i, j \in DOMAIN seq : seq[i].id = seq[j].id => i = j

(* A column is computed from finitely many columns. *)
ColumnsSound(c, next) ==
  /\ Numbered(c.columns, next)
  /\ \A i \in DOMAIN c.columns :
       IsFiniteSet(c.columns[i].deps) /\ \A h \in c.columns[i].deps : h.kind = "column"

(* A list has one relation, its association, or none yet. *)
AssociationSound(c) ==
  c.kind = "List" =>
    /\ c.association = 0 => c.relations = <<>>
    /\ c.association # 0 => Len(c.relations) = 1 /\ c.relations[1].id = c.association

(* Relations go to containers of the same builder. *)
TargetSound(data, target) ==
  IsContainerHandle(target) /\ target.id = 0 /\ Resolves(data, target)

TargetsSound(data, c) ==
  \A i \in DOMAIN c.relations : TargetSound(data, c.relations[i].target)

(* Indexes are over columns. *)
IndexesSound(c) ==
  /\ \A i \in DOMAIN c.ranges : \A j \in DOMAIN c.ranges[i] : c.ranges[i][j].kind = "column"
  /\ \A i \in DOMAIN c.ordered :
       \A h \in c.ordered[i].group \cup c.ordered[i].order : h.kind = "column"
  /\ \A i \in DOMAIN c.intervals :
       \A h \in c.intervals[i].group \cup {c.intervals[i].start, c.intervals[i].end} :
         h.kind = "column"

ContainerSound(data, c) ==
  /\ ColumnsSound(c, data.next["column"])
  /\ AssociationSound(c)
  /\ TargetsSound(data, c)
  /\ IndexesSound(c)

DataSound(data) ==
  /\ data \in Definitions
  /\ Numbered(data.containers, data.next["container"])
  /\ \A i \in DOMAIN data.containers : ContainerSound(data, data.containers[i])

(* A snapshot was written by a sound schema, whose handles it records. *)
WrittenBy(snapshot, data) ==
  /\ DataSound(data)
  /\ snapshot.schemaId = data.schemaId /\ snapshot.structure = Structure(data)
  /\ \A m \in snapshot.meaning :
       \E h \in Handles : /\ m = <<h, Meaning(data, h)>> /\ Resolves(data, h)
                          /\ IsContainerHandle(h) => h.id = 0

BuilderSound(data, handles, next) ==
  /\ DataSound(data) /\ data.schemaId < next
  /\ \A h \in handles : h.schemaId = data.schemaId => Resolves(data, h)

HandleSound(h, next) ==
  h \in Handles /\ h.schemaId < next /\ (IsContainerHandle(h) => h.id = 0)

SchemaInv ==
  /\ builders \in [Builders -> Definitions \cup {None}]
  /\ nextSchemaId \in Nat \ {0}
  /\ \A b \in Builders : Live(b) => BuilderSound(builders[b], issued, nextSchemaId)
  /\ \A b, d \in Builders :
       Live(b) /\ Live(d) /\ builders[b].schemaId = builders[d].schemaId => b = d
  /\ \A h \in issued : HandleSound(h, nextSchemaId)
  /\ \A s \in schemas : /\ \E b \in Builders : Live(b) /\ builders[b] = s
                        /\ s.frozen /\ Freezable(s)
  /\ \A snapshot \in disk : \E data \in Definitions : WrittenBy(snapshot, data)

-----------------------------------------------------------------------------
(* Lookups.                                                                *)

IdsOf(seq) == {seq[i].id : i \in DOMAIN seq}

(* What the kinds of parts are. *)
LEMMA PartsByKind ==
  ASSUME NEW c
  PROVE  /\ PartsOf(c, "column") = c.columns
         /\ PartsOf(c, "relation") = c.relations
         /\ PartsOf(c, "variant") = c.variants
         /\ PartsOf(c, "ordered") = c.ordered
         /\ PartsOf(c, "interval") = c.intervals
BY DEF PartsOf

(* A part that is found is one of the sequence with the id, and a sequence *)
(* has a part of an id if it is among its ids.                             *)
LEMMA FoundIsThere ==
  ASSUME NEW seq, NEW id
  PROVE  /\ Found(seq, id) = {seq[i] : i \in {j \in DOMAIN seq : seq[j].id = id}}
         /\ Found(seq, id) # {} <=> id \in IdsOf(seq)
BY DEF Found, ToSet, IdsOf

(* A definition is not the builder that is not there. *)
LEMMA DefinitionIsLive ==
  \A data \in Definitions : data # None
BY DEF Definitions, None

(* What resolving a handle comes to. *)
LEMMA Resolution ==
  ASSUME NEW data, NEW h
  PROVE  /\ IsContainerHandle(h) =>
              (Resolves(data, h) <=>
                 /\ h.schemaId = data.schemaId
                 /\ \E i \in DOMAIN data.containers :
                      data.containers[i].id = h.container /\ data.containers[i].kind = h.kind)
         /\ ~IsContainerHandle(h) =>
              (Resolves(data, h) <=>
                 /\ h.schemaId = data.schemaId
                 /\ \E i \in DOMAIN data.containers :
                      /\ data.containers[i].id = h.container
                      /\ h.id \in IdsOf(PartsOf(data.containers[i], h.kind)))
<1>1. Containers(data, h.container) =
        {data.containers[i] : i \in {j \in DOMAIN data.containers :
                                       data.containers[j].id = h.container}}
  BY FoundIsThere DEF Containers
<1>2. \A c : Found(PartsOf(c, h.kind), h.id) # {} <=> h.id \in IdsOf(PartsOf(c, h.kind))
  BY FoundIsThere
<1>3. Part(data, h) # {} <=>
        \E i \in DOMAIN data.containers :
          /\ data.containers[i].id = h.container
          /\ h.id \in IdsOf(PartsOf(data.containers[i], h.kind))
  BY <1>1, <1>2 DEF Part
<1> QED BY <1>1, <1>3 DEF Resolves

-----------------------------------------------------------------------------
(* Definitions only add: what resolved before resolves after.              *)

ContainerGrows(old, new) ==
  /\ new.id = old.id /\ new.kind = old.kind
  /\ \A kind \in PartKinds : IdsOf(PartsOf(old, kind)) \subseteq IdsOf(PartsOf(new, kind))

Grows(old, new) ==
  /\ new.schemaId = old.schemaId /\ new.frozen = old.frozen
  /\ \A i \in DOMAIN old.containers :
       i \in DOMAIN new.containers /\ ContainerGrows(old.containers[i], new.containers[i])

LEMMA GrownResolves ==
  ASSUME NEW old, NEW new, NEW h \in Handles, Grows(old, new), Resolves(old, h)
  PROVE  Resolves(new, h)
<1>1. CASE IsContainerHandle(h)
  BY <1>1, Resolution DEF Grows, ContainerGrows
<1>2. CASE ~IsContainerHandle(h)
  <2>1. h.kind \in PartKinds
    BY <1>2 DEF Handles, IsContainerHandle
  <2> QED BY <1>2, <2>1, Resolution DEF Grows, ContainerGrows
<1> QED BY <1>1, <1>2

(* A definition of a builder keeps the invariant, if it keeps its data     *)
(* sound, adds to it only, and gives handles that resolve in it.           *)
LEMMA DefineStep ==
  ASSUME SchemaInv, NEW b \in Builders, NEW data, NEW handles, Define(b, data, handles),
         DataSound(data), Grows(builders[b], data),
         \A h \in handles : /\ HandleSound(h, nextSchemaId)
                            /\ h.schemaId = data.schemaId /\ Resolves(data, h)
  PROVE  SchemaInv'
<1>1. /\ Live(b) /\ ~builders[b].frozen
      /\ builders' = [builders EXCEPT ![b] = data]
      /\ issued' = issued \cup handles
      /\ UNCHANGED <<schemas, nextSchemaId, disk>>
  BY DEF Define
<1>2. data \in Definitions /\ data # None
  BY DefinitionIsLive DEF DataSound
<1>3. builders' \in [Builders -> Definitions \cup {None}] /\ nextSchemaId' \in Nat \ {0}
  BY <1>1, <1>2 DEF SchemaInv
<1>4. \A d \in Builders : builders'[d] = IF d = b THEN data ELSE builders[d]
  BY <1>1 DEF SchemaInv
<1>5. data.schemaId = builders[b].schemaId
  BY DEF Grows
<1>6. BuilderSound(data, issued', nextSchemaId)
  <2>1. data.schemaId < nextSchemaId
    BY <1>1, <1>5 DEF SchemaInv, BuilderSound
  <2>2. \A h \in issued : h.schemaId = data.schemaId => Resolves(data, h)
    <3>1. \A h \in issued : h.schemaId = data.schemaId => Resolves(builders[b], h)
      BY <1>1, <1>5 DEF SchemaInv, BuilderSound
    <3>2. \A h \in issued : h \in Handles
      BY DEF SchemaInv, HandleSound
    <3> QED BY <3>1, <3>2, GrownResolves
  <2> QED BY <1>1, <2>1, <2>2 DEF BuilderSound
<1>7. \A d \in Builders \ {b} : Live(d) => BuilderSound(builders[d], issued', nextSchemaId)
  <2> SUFFICES ASSUME NEW d \in Builders \ {b}, Live(d)
               PROVE  BuilderSound(builders[d], issued', nextSchemaId)
    OBVIOUS
  <2>1. builders[d].schemaId # data.schemaId
    BY <1>1, <1>5 DEF SchemaInv
  <2>2. BuilderSound(builders[d], issued, nextSchemaId)
    BY DEF SchemaInv
  <2> QED BY <1>1, <2>1, <2>2 DEF BuilderSound
<1>8. \A d \in Builders : Live(d)' <=> Live(d)
  BY <1>1, <1>2, <1>4 DEF Live
<1>9. \A d \in Builders : Live(d)' => BuilderSound(builders[d], issued, nextSchemaId)'
  BY <1>1, <1>4, <1>6, <1>7, <1>8
<1>10. (\A d, e \in Builders :
          Live(d) /\ Live(e) /\ builders[d].schemaId = builders[e].schemaId => d = e)'
  BY <1>4, <1>5, <1>8 DEF SchemaInv
<1>11. \A h \in issued' : HandleSound(h, nextSchemaId)'
  BY <1>1 DEF SchemaInv, HandleSound
<1>12. \A s \in schemas' : /\ \E d \in Builders : Live(d)' /\ builders'[d] = s
                           /\ s.frozen /\ Freezable(s)
  <2> SUFFICES ASSUME NEW s \in schemas
               PROVE  \E d \in Builders : Live(d)' /\ builders'[d] = s
    BY <1>1 DEF SchemaInv
  <2>1. PICK d \in Builders : Live(d) /\ builders[d] = s /\ s.frozen
    BY DEF SchemaInv
  <2> QED BY <1>1, <1>4, <1>8, <2>1
<1>13. \A snapshot \in disk' : \E old \in Definitions : WrittenBy(snapshot, old)
  BY <1>1 DEF SchemaInv
<1> QED BY <1>3, <1>9, <1>10, <1>11, <1>12, <1>13 DEF SchemaInv

-----------------------------------------------------------------------------
(* What a definition does to the data: container i becomes c, and numbers  *)
(* are used up.                                                            *)

Numbers == [PartKinds \cup {"container"} -> Nat \ {0}]

Rebuilt(data, i, c, next) ==
  [schemaId |-> data.schemaId, frozen |-> data.frozen,
   containers |-> [data.containers EXCEPT ![i] = c], next |-> next]

LEMMA RebuiltFields ==
  ASSUME NEW data \in Definitions, NEW i \in DOMAIN data.containers,
         NEW c \in ContainerRecords, NEW next \in Numbers
  PROVE  LET new == Rebuilt(data, i, c, next) IN
         /\ new \in Definitions
         /\ new.schemaId = data.schemaId /\ new.frozen = data.frozen /\ new.next = next
         /\ DOMAIN new.containers = DOMAIN data.containers
         /\ \A j \in DOMAIN data.containers :
              new.containers[j] = IF j = i THEN c ELSE data.containers[j]
<1> DEFINE new == Rebuilt(data, i, c, next)
<1>1. data.containers \in Seq(ContainerRecords) /\ data.schemaId \in Nat \ {0}
      /\ data.frozen \in BOOLEAN
  BY DEF Definitions
<1>2. [data.containers EXCEPT ![i] = c] \in Seq(ContainerRecords)
  BY <1>1
<1> QED BY <1>1, <1>2 DEF Rebuilt, Definitions, Numbers

LEMMA RebuiltSound ==
  ASSUME NEW data, DataSound(data), NEW i \in DOMAIN data.containers,
         NEW c \in ContainerRecords, NEW next \in Numbers,
         \A kind \in DOMAIN next : next[kind] >= data.next[kind],
         ContainerGrows(data.containers[i], c),
         ColumnsSound(c, next["column"]), AssociationSound(c), TargetsSound(data, c),
         IndexesSound(c)
  PROVE  DataSound(Rebuilt(data, i, c, next)) /\ Grows(data, Rebuilt(data, i, c, next))
<1> DEFINE new == Rebuilt(data, i, c, next)
<1>1. data \in Definitions
  BY DEF DataSound
<1>2. /\ new \in Definitions
      /\ new.schemaId = data.schemaId /\ new.frozen = data.frozen /\ new.next = next
      /\ DOMAIN new.containers = DOMAIN data.containers
      /\ \A j \in DOMAIN data.containers :
           new.containers[j] = IF j = i THEN c ELSE data.containers[j]
  BY <1>1, RebuiltFields
<1> HIDE DEF new
<1>3. Grows(data, new)
  BY <1>2 DEF Grows, ContainerGrows
<1>4. \A j \in DOMAIN data.containers : data.containers[j] \in ContainerRecords
  BY <1>1 DEF Definitions
<1>5. Numbered(new.containers, new.next["container"])
  <2>1. \A j \in DOMAIN data.containers :
          new.containers[j].id = data.containers[j].id /\ data.containers[j].id \in Nat
    BY <1>2, <1>4 DEF ContainerGrows, ContainerRecords
  <2>2. next["container"] >= data.next["container"] /\ next["container"] \in Nat
        /\ data.next["container"] \in Nat
    BY <1>1 DEF Numbers, Definitions
  <2> QED BY <1>2, <2>1, <2>2 DEF DataSound, Numbered
<1>6. \A target \in Handles : TargetSound(data, target) => TargetSound(new, target)
  BY <1>3, GrownResolves DEF TargetSound
<1>7. \A d \in ContainerRecords : TargetsSound(data, d) => TargetsSound(new, d)
  <2> SUFFICES ASSUME NEW d \in ContainerRecords, NEW j \in DOMAIN d.relations
               PROVE  d.relations[j].target \in Handles
    BY <1>6 DEF TargetsSound
  <2>1. d.relations \in Seq(RelationRecords)
    BY DEF ContainerRecords
  <2>2. d.relations[j] \in RelationRecords
    BY <2>1
  <2> QED BY <2>2 DEF RelationRecords
<1>8. \A d \in ContainerRecords :
        ColumnsSound(d, data.next["column"]) => ColumnsSound(d, next["column"])
  <2>1. next["column"] >= data.next["column"] /\ next["column"] \in Nat
        /\ data.next["column"] \in Nat
    BY <1>1 DEF Numbers, Definitions, PartKinds
  <2> SUFFICES ASSUME NEW d \in ContainerRecords, NEW j \in DOMAIN d.columns
               PROVE  d.columns[j].id \in Nat
    BY <2>1 DEF ColumnsSound, Numbered
  <2>2. d.columns \in Seq(ColumnRecords)
    BY DEF ContainerRecords
  <2>3. d.columns[j] \in ColumnRecords
    BY <2>2
  <2> QED BY <2>3 DEF ColumnRecords
<1>9. \A j \in DOMAIN new.containers : ContainerSound(new, new.containers[j])
  <2> SUFFICES ASSUME NEW j \in DOMAIN data.containers
               PROVE  ContainerSound(new, new.containers[j])
    BY <1>2
  <2>1. CASE j = i
    BY <1>2, <1>7, <2>1 DEF ContainerSound
  <2>2. CASE j # i
    BY <1>2, <1>4, <1>7, <1>8, <2>2 DEF ContainerSound, DataSound
  <2> QED BY <2>1, <2>2
<1>10. DataSound(new)
  BY <1>2, <1>5, <1>9 DEF DataSound
<1> QED BY <1>3, <1>10 DEF new

(* A part that is appended has its id among the ids. *)
LEMMA AppendedIds ==
  ASSUME NEW R, NEW seq \in Seq(R), NEW x \in R
  PROVE  IdsOf(Append(seq, x)) = IdsOf(seq) \cup {x.id}
<1>1. DOMAIN Append(seq, x) = DOMAIN seq \cup {Len(seq) + 1}
  OBVIOUS
<1>2. \A i \in DOMAIN seq : Append(seq, x)[i] = seq[i]
  OBVIOUS
<1>3. Append(seq, x)[Len(seq) + 1] = x
  OBVIOUS
<1> QED BY <1>1, <1>2, <1>3 DEF IdsOf

LEMMA AppendedNumbered ==
  ASSUME NEW R, \A r \in R : r.id \in Nat, NEW seq \in Seq(R), NEW x \in R,
         Numbered(seq, x.id)
  PROVE  Numbered(Append(seq, x), x.id + 1)
<1>1. DOMAIN Append(seq, x) = DOMAIN seq \cup {Len(seq) + 1}
  OBVIOUS
<1>2. \A i \in DOMAIN seq : Append(seq, x)[i] = seq[i] /\ seq[i] \in R /\ seq[i].id \in Nat
  OBVIOUS
<1>3. Append(seq, x)[Len(seq) + 1] = x
  OBVIOUS
<1>4. x.id \in Nat
  OBVIOUS
<1> QED BY <1>1, <1>2, <1>3, <1>4 DEF Numbered

(* The two steps in which the model makes the new data.                    *)
Put(data, i, c) == [data EXCEPT !.containers = [data.containers EXCEPT ![i] = c]]
Bump(next, kind) == [next EXCEPT ![kind] = @ + 1]

LEMMA UsedAndPut ==
  ASSUME NEW data \in Definitions, NEW i, NEW c, NEW kind
  PROVE  /\ Used(data, kind).containers = data.containers
         /\ Put(Used(data, kind), i, c) = Rebuilt(data, i, c, Bump(data.next, kind))
<1> DEFINE next == [data.next EXCEPT ![kind] = data.next[kind] + 1]
<1>1. data = [schemaId |-> data.schemaId, frozen |-> data.frozen,
              containers |-> data.containers, next |-> data.next]
  BY DEF Definitions
<1>2. Used(data, kind) = [schemaId |-> data.schemaId, frozen |-> data.frozen,
                          containers |-> data.containers, next |-> next]
  BY <1>1 DEF Used
<1> HIDE DEF next
<1>3. [Used(data, kind) EXCEPT !.containers = [data.containers EXCEPT ![i] = c]] =
        [schemaId |-> data.schemaId, frozen |-> data.frozen,
         containers |-> [data.containers EXCEPT ![i] = c], next |-> next]
  BY <1>2
<1> QED BY <1>2, <1>3 DEF Rebuilt, next, Put, Bump

(* The numbers after one of a kind is used up.                             *)
LEMMA NumberUsed ==
  ASSUME NEW data \in Definitions, NEW kind \in PartKinds
  PROVE  LET next == Bump(data.next, kind) IN
         /\ data.next[kind] \in Nat \ {0} /\ next \in Numbers
         /\ next[kind] = data.next[kind] + 1
         /\ \A k \in DOMAIN next : next[k] >= data.next[k]
         /\ kind # "column" => next["column"] = data.next["column"]
<1>1. data.next \in Numbers
  BY DEF Definitions, Numbers
<1> QED BY <1>1 DEF Numbers, PartKinds, Bump

-----------------------------------------------------------------------------
(* The definitions, one by one.                                            *)

Shapes == [type : ColumnTypes, indexed : BOOLEAN, aggregate : BOOLEAN]

DependenciesTyped(deps) ==
  deps \in SUBSET Handles /\ IsFiniteSet(deps) /\ \A h \in deps : h.kind = "column"

Widened(c, column) == [c EXCEPT !.columns = Append(c.columns, column)]

(* addColumnRecord: the new column resolves, whatever its dependencies.    *)
LEMMA ColumnAdded ==
  ASSUME NEW data, DataSound(data), NEW i \in DOMAIN data.containers,
         NEW shape \in Shapes, NEW role \in Roles, NEW deps, DependenciesTyped(deps),
         NEW variant \in Nat
  PROVE  LET new == AddColumnRecord(data, i, shape, role, deps, variant)
             c == data.containers[i] IN
         /\ DataSound(new) /\ Grows(data, new)
         /\ NextColumn(data, i) \in Handles /\ Resolves(new, NextColumn(data, i))
         /\ \E column \in ColumnRecords :
              /\ column.id = data.next["column"]
              /\ new = Rebuilt(data, i, Widened(c, column), Bump(data.next, "column"))
<1> DEFINE id == data.next["column"]
           c == data.containers[i]
           column == [id |-> id, type |-> shape.type, indexed |-> shape.indexed,
                      aggregate |-> shape.aggregate, role |-> role, deps |-> deps,
                      variant |-> variant]
           columns == Append(c.columns, column)
           added == [c EXCEPT !.columns = columns]
           next == Bump(data.next, "column")
           new == Rebuilt(data, i, added, next)
<1>1. /\ data \in Definitions /\ data.next \in Numbers /\ data.schemaId \in Nat
      /\ data.containers \in Seq(ContainerRecords)
  BY DEF DataSound, Definitions, Numbers
<1>2. c \in ContainerRecords /\ c.columns \in Seq(ColumnRecords)
  <2>1. c \in ContainerRecords
    BY <1>1
  <2> QED BY <2>1 DEF ContainerRecords
<1>3. id \in Nat \ {0} /\ next \in Numbers /\ next["column"] = id + 1
      /\ \A kind \in DOMAIN next : next[kind] >= data.next[kind]
  BY <1>1, NumberUsed DEF PartKinds
<1>4. column \in ColumnRecords /\ column.id = id /\ column.deps = deps
  BY <1>3 DEF ColumnRecords, Shapes, DependenciesTyped
<1>5. AddColumnRecord(data, i, shape, role, deps, variant) = new
  <2> DEFINE used == Used(data, "column")
  <2>1. AddColumnRecord(data, i, shape, role, deps, variant) =
          [used EXCEPT !.containers[i].columns = Append(@, column)]
    BY DEF AddColumnRecord
  <2>2. used.containers = data.containers /\ Put(used, i, added) = new
    BY <1>1, UsedAndPut
  <2> HIDE DEF used, column, next
  <2>3. [used EXCEPT !.containers[i].columns = Append(@, column)] = Put(used, i, added)
    BY <2>2 DEF Put
  <2> QED BY <2>1, <2>2, <2>3
<1> HIDE DEF column, id
<1>6. columns \in Seq(ColumnRecords) /\ added \in ContainerRecords
  <2>1. columns \in Seq(ColumnRecords)
    BY <1>2, <1>4
  <2> HIDE DEF columns, c
  <2> QED BY <1>2, <2>1 DEF ContainerRecords
<1>7. /\ added.id = c.id /\ added.kind = c.kind /\ added.association = c.association
      /\ added.columns = columns /\ added.relations = c.relations
      /\ added.variants = c.variants /\ added.ranges = c.ranges
      /\ added.ordered = c.ordered /\ added.intervals = c.intervals
  BY <1>2 DEF ContainerRecords
<1> HIDE DEF added, columns
<1>8. ContainerSound(data, c)
  BY DEF DataSound
<1>9. IdsOf(columns) = IdsOf(c.columns) \cup {id}
  BY <1>2, <1>4, AppendedIds DEF columns
<1>10. ContainerGrows(c, added)
  BY <1>7, <1>9, PartsByKind DEF ContainerGrows, PartKinds
<1>11. ColumnsSound(added, next["column"])
  <2>1. Numbered(columns, id + 1)
    <3>1. \A r \in ColumnRecords : r.id \in Nat
      BY DEF ColumnRecords
    <3>2. Numbered(c.columns, column.id)
      BY <1>4, <1>8 DEF ContainerSound, ColumnsSound, id
    <3> QED BY <1>2, <1>4, <3>1, <3>2, AppendedNumbered DEF columns
  <2>2. \A j \in DOMAIN columns : columns[j] = column \/ (j \in DOMAIN c.columns
                                                            /\ columns[j] = c.columns[j])
    BY SMTT(30), <1>2, <1>4 DEF columns
  <2> QED BY <1>3, <1>4, <1>7, <1>8, <2>1, <2>2
          DEF ColumnsSound, ContainerSound, DependenciesTyped
<1>12. AssociationSound(added) /\ TargetsSound(data, added) /\ IndexesSound(added)
  <2> HIDE DEF added, columns, c
  <2>1. AssociationSound(c) /\ TargetsSound(data, c) /\ IndexesSound(c)
    BY <1>8 DEF ContainerSound
  <2>2. AssociationSound(added)
    BY <1>7, <2>1 DEF AssociationSound
  <2>3. TargetsSound(data, added)
    BY <1>7, <2>1 DEF TargetsSound
  <2>4. IndexesSound(added)
    BY <1>7, <2>1 DEF IndexesSound
  <2> QED BY <2>2, <2>3, <2>4
<1> HIDE DEF next
<1>13. DataSound(new) /\ Grows(data, new)
  BY <1>3, <1>6, <1>10, <1>11, <1>12, RebuiltSound
<1>14. NextColumn(data, i) \in Handles
  BY <1>1, <1>2, <1>3 DEF NextColumn, Handle, Handles, ContainerRecords, PartKinds, id
<1>15. Resolves(new, NextColumn(data, i))
  <2>1. /\ new.schemaId = data.schemaId /\ i \in DOMAIN new.containers
        /\ new.containers[i] = added
    BY <1>1, <1>3, <1>6, RebuiltFields
  <2> DEFINE h == NextColumn(data, i)
  <2>2. /\ h.kind = "column" /\ h.schemaId = data.schemaId /\ h.container = c.id /\ h.id = id
        /\ ~IsContainerHandle(h)
    BY DEF NextColumn, Handle, IsContainerHandle, id
  <2> HIDE DEF h, new
  <2> QED BY <1>7, <1>9, <2>1, <2>2, Resolution, PartsByKind DEF h
<1>16. added = Widened(c, column)
  BY DEF columns, added, Widened
<1> QED BY <1>4, <1>5, <1>13, <1>14, <1>15, <1>16 DEF next, id

(* Variants and indexes are added to a container; the columns, relations   *)
(* and the association stay what they were.                                *)
LEMMA PartAdded ==
  ASSUME NEW data, DataSound(data), NEW i \in DOMAIN data.containers,
         NEW c \in ContainerRecords, NEW next \in Numbers,
         next["column"] = data.next["column"],
         \A kind \in DOMAIN next : next[kind] >= data.next[kind],
         ContainerGrows(data.containers[i], c),
         c.columns = data.containers[i].columns, c.relations = data.containers[i].relations,
         c.association = data.containers[i].association, IndexesSound(c)
  PROVE  DataSound(Rebuilt(data, i, c, next)) /\ Grows(data, Rebuilt(data, i, c, next))
<1>1. ContainerSound(data, data.containers[i])
  BY DEF DataSound
<1>2. ColumnsSound(c, next["column"]) /\ AssociationSound(c) /\ TargetsSound(data, c)
  BY <1>1 DEF ContainerSound, ColumnsSound, AssociationSound, TargetsSound, ContainerGrows
<1> QED BY <1>2, RebuiltSound

(* The handle of the added part resolves.                                  *)
LEMMA PartResolves ==
  ASSUME NEW data \in Definitions, NEW i \in DOMAIN data.containers,
         NEW c \in ContainerRecords, NEW next \in Numbers, c.id = data.containers[i].id,
         NEW kind \in PartKinds, NEW id \in Nat, id \in IdsOf(PartsOf(c, kind))
  PROVE  LET h == Handle(kind, data, data.containers[i].id, id) IN
         /\ h \in Handles /\ ~IsContainerHandle(h) /\ h.schemaId = data.schemaId
         /\ Resolves(Rebuilt(data, i, c, next), h)
<1> DEFINE h == Handle(kind, data, data.containers[i].id, id)
           new == Rebuilt(data, i, c, next)
<1>1. data.containers[i] \in ContainerRecords /\ data.schemaId \in Nat
  BY DEF Definitions
<1>2. data.containers[i].id \in Nat
  BY <1>1 DEF ContainerRecords
<1>3. /\ h \in Handles /\ h.kind = kind /\ h.schemaId = data.schemaId
      /\ h.container = data.containers[i].id /\ h.id = id
  BY <1>1, <1>2 DEF Handle, Handles
<1> HIDE DEF h
<1>4. ~IsContainerHandle(h)
  BY <1>3 DEF IsContainerHandle, PartKinds
<1>5. new.schemaId = data.schemaId /\ i \in DOMAIN new.containers /\ new.containers[i] = c
  BY RebuiltFields
<1> HIDE DEF new
<1>6. Resolves(new, h)
  BY <1>3, <1>4, <1>5, Resolution
<1> QED BY <1>3, <1>4, <1>6 DEF h, new

LEMMA DefinePart ==
  ASSUME SchemaInv, NEW b \in Builders, NEW i \in DOMAIN builders[b].containers,
         NEW c \in ContainerRecords, NEW next \in Numbers,
         next["column"] = builders[b].next["column"],
         \A kind \in DOMAIN next : next[kind] >= builders[b].next[kind],
         ContainerGrows(builders[b].containers[i], c),
         c.columns = builders[b].containers[i].columns,
         c.relations = builders[b].containers[i].relations,
         c.association = builders[b].containers[i].association, IndexesSound(c),
         NEW kind \in PartKinds, NEW id \in Nat, id \in IdsOf(PartsOf(c, kind)),
         Define(b, Rebuilt(builders[b], i, c, next),
                {Handle(kind, builders[b], builders[b].containers[i].id, id)})
  PROVE  SchemaInv'
<1> DEFINE new == Rebuilt(builders[b], i, c, next)
           h == Handle(kind, builders[b], builders[b].containers[i].id, id)
<1>1. BuilderSound(builders[b], issued, nextSchemaId)
  BY DEF Define, SchemaInv
<1>2. DataSound(builders[b]) /\ builders[b] \in Definitions
      /\ builders[b].schemaId < nextSchemaId
  BY <1>1 DEF BuilderSound, DataSound
<1>3. DataSound(new) /\ Grows(builders[b], new)
  BY <1>2, PartAdded
<1>4. /\ h \in Handles /\ ~IsContainerHandle(h) /\ h.schemaId = builders[b].schemaId
      /\ Resolves(new, h)
  BY <1>2, PartResolves DEF ContainerGrows
<1>5. h.schemaId = new.schemaId
  BY <1>3, <1>4 DEF Grows
<1>6. HandleSound(h, nextSchemaId)
  BY <1>2, <1>4 DEF HandleSound
<1>7. Define(b, new, {h})
  OBVIOUS
<1> HIDE DEF new, h
<1> QED BY <1>3, <1>4, <1>5, <1>6, <1>7, DefineStep

LEMMA AddVariantStep ==
  ASSUME SchemaInv, NEW b \in Builders, Live(b), NEW i \in DOMAIN builders[b].containers,
         AddVariant(b, i)
  PROVE  SchemaInv'
<1>0. PICK data : data = builders[b]
  OBVIOUS
<1> DEFINE c == data.containers[i]
           id == data.next["variant"]
           variants == Append(c.variants, [id |-> id])
           added == [c EXCEPT !.variants = variants]
           next == Bump(data.next, "variant")
           used == Used(data, "variant")
<1>1. /\ data \in Definitions /\ DataSound(data) /\ i \in DOMAIN data.containers
      /\ data.containers \in Seq(ContainerRecords)
  BY <1>0 DEF SchemaInv, BuilderSound, DataSound, Definitions
<1>2. c \in ContainerRecords /\ c.variants \in Seq(VariantRecords) /\ IndexesSound(c)
  <2>1. c \in ContainerRecords /\ IndexesSound(c)
    BY <1>1 DEF DataSound, ContainerSound
  <2> QED BY <2>1 DEF ContainerRecords
<1>3. /\ id \in Nat \ {0} /\ next \in Numbers /\ next["column"] = data.next["column"]
      /\ \A kind \in DOMAIN next : next[kind] >= data.next[kind]
  BY <1>1, NumberUsed DEF PartKinds
<1>4. variants \in Seq(VariantRecords) /\ IdsOf(variants) = IdsOf(c.variants) \cup {id}
  <2>1. [id |-> id] \in VariantRecords
    BY <1>3 DEF VariantRecords
  <2> QED BY <1>2, <2>1, AppendedIds
<1>5. Define(b, Rebuilt(data, i, added, next), {Handle("variant", data, c.id, id)})
  <2>1. used.containers = data.containers /\ Put(used, i, added) = Rebuilt(data, i, added, next)
    BY <1>1, UsedAndPut
  <2>2. Define(b, [used EXCEPT !.containers[i].variants = Append(@, [id |-> id])],
               {Handle("variant", data, c.id, id)})
    BY <1>0 DEF AddVariant
  <2>3. [used EXCEPT !.containers[i].variants = Append(@, [id |-> id])] = Put(used, i, added)
    <3> HIDE DEF used, id
    <3> QED BY <2>1 DEF Put
  <2> QED BY <2>1, <2>2, <2>3
<1> HIDE DEF c, variants
<1>6. /\ added \in ContainerRecords
      /\ added.id = c.id /\ added.kind = c.kind /\ added.association = c.association
      /\ added.columns = c.columns /\ added.relations = c.relations
      /\ added.variants = variants /\ added.ranges = c.ranges
      /\ added.ordered = c.ordered /\ added.intervals = c.intervals
  BY <1>2, <1>4 DEF ContainerRecords
<1> HIDE DEF added, next, id
<1>7. ContainerGrows(c, added)
  BY <1>4, <1>6, PartsByKind DEF ContainerGrows, PartKinds
<1>8. IndexesSound(added)
  BY <1>2, <1>6 DEF IndexesSound
<1>9. id \in IdsOf(PartsOf(added, "variant")) /\ "variant" \in PartKinds
  BY <1>4, <1>6, PartsByKind DEF PartKinds
<1> QED BY <1>0, <1>1, <1>3, <1>5, <1>6, <1>7, <1>8, <1>9, DefinePart DEF c
(* The columns that the indexes are defined with. *)
Columned == {h \in Handles : h.kind = "column"}

LEMMA AddOrderedIndexStep ==
  ASSUME SchemaInv, NEW b \in Builders, Live(b), NEW i \in DOMAIN builders[b].containers,
         NEW group \in SUBSET Columned, NEW order \in SUBSET Columned,
         AddOrderedIndex(b, i, group, order)
  PROVE  SchemaInv'
<1>0. PICK data : data = builders[b]
  OBVIOUS
<1> DEFINE c == data.containers[i]
           id == data.next["ordered"]
           part == [id |-> id, group |-> group, order |-> order]
           ordered == Append(c.ordered, part)
           added == [c EXCEPT !.ordered = ordered]
           next == Bump(data.next, "ordered")
           used == Used(data, "ordered")
<1>1. /\ data \in Definitions /\ DataSound(data) /\ i \in DOMAIN data.containers
      /\ data.containers \in Seq(ContainerRecords)
  BY <1>0 DEF SchemaInv, BuilderSound, DataSound, Definitions
<1>2. c \in ContainerRecords /\ c.ordered \in Seq(OrderedRecords) /\ IndexesSound(c)
  <2>1. c \in ContainerRecords /\ IndexesSound(c)
    BY <1>1 DEF DataSound, ContainerSound
  <2> QED BY <2>1 DEF ContainerRecords
<1>3. /\ id \in Nat \ {0} /\ next \in Numbers /\ next["column"] = data.next["column"]
      /\ \A kind \in DOMAIN next : next[kind] >= data.next[kind]
  BY <1>1, NumberUsed DEF PartKinds
<1>4. /\ part \in OrderedRecords /\ part.id = id /\ part.group = group /\ part.order = order
  BY <1>3 DEF OrderedRecords, Columned
<1>5. Define(b, Rebuilt(data, i, added, next), {Handle("ordered", data, c.id, id)})
  <2>1. used.containers = data.containers /\ Put(used, i, added) = Rebuilt(data, i, added, next)
    BY <1>1, UsedAndPut
  <2>2. Define(b, [used EXCEPT !.containers[i].ordered = Append(@, part)],
               {Handle("ordered", data, c.id, id)})
    BY <1>0 DEF AddOrderedIndex
  <2>3. [used EXCEPT !.containers[i].ordered = Append(@, part)] = Put(used, i, added)
    <3> HIDE DEF used, part
    <3> QED BY <2>1 DEF Put
  <2> QED BY <2>1, <2>2, <2>3
<1> HIDE DEF c, part
<1>6. /\ ordered \in Seq(OrderedRecords) /\ IdsOf(ordered) = IdsOf(c.ordered) \cup {id}
      /\ \A j \in DOMAIN ordered :
           ordered[j] = part \/ (j \in DOMAIN c.ordered /\ ordered[j] = c.ordered[j])
  BY <1>2, <1>4, AppendedIds
<1> HIDE DEF ordered
<1>7. /\ added \in ContainerRecords
      /\ added.id = c.id /\ added.kind = c.kind /\ added.association = c.association
      /\ added.columns = c.columns /\ added.relations = c.relations
      /\ added.variants = c.variants /\ added.ranges = c.ranges
      /\ added.ordered = ordered /\ added.intervals = c.intervals
  BY <1>2, <1>6 DEF ContainerRecords
<1> HIDE DEF added, next, id
<1>8. ContainerGrows(c, added)
  BY <1>6, <1>7, PartsByKind DEF ContainerGrows, PartKinds
<1>9. IndexesSound(added)
  BY <1>2, <1>4, <1>6, <1>7 DEF IndexesSound, Columned
<1>10. id \in IdsOf(PartsOf(added, "ordered")) /\ "ordered" \in PartKinds
  BY <1>6, <1>7, PartsByKind DEF PartKinds
<1> QED BY <1>0, <1>1, <1>3, <1>5, <1>7, <1>8, <1>9, <1>10, DefinePart DEF c

LEMMA AddIntervalIndexStep ==
  ASSUME SchemaInv, NEW b \in Builders, Live(b), NEW i \in DOMAIN builders[b].containers,
         NEW group \in SUBSET Columned, NEW start \in Columned, NEW end \in Columned,
         AddIntervalIndex(b, i, group, start, end)
  PROVE  SchemaInv'
<1>0. PICK data : data = builders[b]
  OBVIOUS
<1> DEFINE c == data.containers[i]
           id == data.next["interval"]
           part == [id |-> id, group |-> group, start |-> start, end |-> end]
           intervals == Append(c.intervals, part)
           added == [c EXCEPT !.intervals = intervals]
           next == Bump(data.next, "interval")
           used == Used(data, "interval")
<1>1. /\ data \in Definitions /\ DataSound(data) /\ i \in DOMAIN data.containers
      /\ data.containers \in Seq(ContainerRecords)
  BY <1>0 DEF SchemaInv, BuilderSound, DataSound, Definitions
<1>2. c \in ContainerRecords /\ c.intervals \in Seq(IntervalRecords) /\ IndexesSound(c)
  <2>1. c \in ContainerRecords /\ IndexesSound(c)
    BY <1>1 DEF DataSound, ContainerSound
  <2> QED BY <2>1 DEF ContainerRecords
<1>3. /\ id \in Nat \ {0} /\ next \in Numbers /\ next["column"] = data.next["column"]
      /\ \A kind \in DOMAIN next : next[kind] >= data.next[kind]
  BY <1>1, NumberUsed DEF PartKinds
<1>4. /\ part \in IntervalRecords /\ part.id = id /\ part.group = group /\ part.start = start /\ part.end = end
  BY <1>3 DEF IntervalRecords, Columned
<1>5. Define(b, Rebuilt(data, i, added, next), {Handle("interval", data, c.id, id)})
  <2>1. used.containers = data.containers /\ Put(used, i, added) = Rebuilt(data, i, added, next)
    BY <1>1, UsedAndPut
  <2>2. Define(b, [used EXCEPT !.containers[i].intervals = Append(@, part)],
               {Handle("interval", data, c.id, id)})
    BY <1>0 DEF AddIntervalIndex
  <2>3. [used EXCEPT !.containers[i].intervals = Append(@, part)] = Put(used, i, added)
    <3> HIDE DEF used, part
    <3> QED BY <2>1 DEF Put
  <2> QED BY <2>1, <2>2, <2>3
<1> HIDE DEF c, part
<1>6. /\ intervals \in Seq(IntervalRecords) /\ IdsOf(intervals) = IdsOf(c.intervals) \cup {id}
      /\ \A j \in DOMAIN intervals :
           intervals[j] = part \/ (j \in DOMAIN c.intervals /\ intervals[j] = c.intervals[j])
  BY <1>2, <1>4, AppendedIds
<1> HIDE DEF intervals
<1>7. /\ added \in ContainerRecords
      /\ added.id = c.id /\ added.kind = c.kind /\ added.association = c.association
      /\ added.columns = c.columns /\ added.relations = c.relations
      /\ added.variants = c.variants /\ added.ranges = c.ranges
      /\ added.ordered = c.ordered /\ added.intervals = intervals
  BY <1>2, <1>6 DEF ContainerRecords
<1> HIDE DEF added, next, id
<1>8. ContainerGrows(c, added)
  BY <1>6, <1>7, PartsByKind DEF ContainerGrows, PartKinds
<1>9. IndexesSound(added)
  BY <1>2, <1>4, <1>6, <1>7 DEF IndexesSound, Columned
<1>10. id \in IdsOf(PartsOf(added, "interval")) /\ "interval" \in PartKinds
  BY <1>6, <1>7, PartsByKind DEF PartKinds
<1> QED BY <1>0, <1>1, <1>3, <1>5, <1>7, <1>8, <1>9, <1>10, DefinePart DEF c

(* A range index has no number and no handle.                              *)
LEMMA AddRangeIndexStep ==
  ASSUME SchemaInv, NEW b \in Builders, Live(b), NEW i \in DOMAIN builders[b].containers,
         NEW columns \in Seq(Columned),
         AddRangeIndex(b, i, columns)
  PROVE  SchemaInv'
<1>0. PICK data : data = builders[b]
  OBVIOUS
<1> DEFINE c == data.containers[i]
           ranges == Append(c.ranges, columns)
           added == [c EXCEPT !.ranges = ranges]
           new == Rebuilt(data, i, added, data.next)
<1>1. /\ data \in Definitions /\ DataSound(data) /\ i \in DOMAIN data.containers
      /\ data.containers \in Seq(ContainerRecords)
  BY <1>0 DEF SchemaInv, BuilderSound, DataSound, Definitions
<1>2. c \in ContainerRecords /\ c.ranges \in Seq(Seq(Handles)) /\ IndexesSound(c)
  <2>1. c \in ContainerRecords /\ IndexesSound(c)
    BY <1>1 DEF DataSound, ContainerSound
  <2> QED BY <2>1 DEF ContainerRecords
<1>3. /\ data.next \in Numbers
      /\ \A kind \in DOMAIN data.next : data.next[kind] >= data.next[kind]
  BY <1>1 DEF Definitions, Numbers
<1>4. columns \in Seq(Handles) /\ \A j \in DOMAIN columns : columns[j].kind = "column"
  BY DEF Columned
<1>5. Define(b, new, {})
  <2>1. Define(b, [data EXCEPT !.containers[i].ranges = Append(@, columns)], {})
    BY <1>0 DEF AddRangeIndex
  <2>2. data = [schemaId |-> data.schemaId, frozen |-> data.frozen,
                containers |-> data.containers, next |-> data.next]
    BY <1>1 DEF Definitions
  <2>3. [data EXCEPT !.containers[i].ranges = Append(@, columns)] = Put(data, i, added)
    BY DEF Put
  <2>4. Put(data, i, added) = new
    <3> HIDE DEF added
    <3> QED BY <2>2 DEF Put, Rebuilt
  <2> QED BY <2>1, <2>3, <2>4
<1> HIDE DEF c
<1>6. /\ ranges \in Seq(Seq(Handles))
      /\ \A j \in DOMAIN ranges :
           ranges[j] = columns \/ (j \in DOMAIN c.ranges /\ ranges[j] = c.ranges[j])
  BY <1>2, <1>4
<1> HIDE DEF ranges
<1>7. /\ added \in ContainerRecords
      /\ added.id = c.id /\ added.kind = c.kind /\ added.association = c.association
      /\ added.columns = c.columns /\ added.relations = c.relations
      /\ added.variants = c.variants /\ added.ranges = ranges
      /\ added.ordered = c.ordered /\ added.intervals = c.intervals
  BY <1>2, <1>6 DEF ContainerRecords
<1> HIDE DEF added
<1>8. ContainerGrows(c, added)
  BY <1>7, PartsByKind DEF ContainerGrows, PartKinds
<1>9. IndexesSound(added)
  <2>1. \A j \in DOMAIN c.ranges : \A k \in DOMAIN c.ranges[j] : c.ranges[j][k].kind = "column"
    BY <1>2 DEF IndexesSound
  <2>2. \A j \in DOMAIN ranges : \A k \in DOMAIN ranges[j] : ranges[j][k].kind = "column"
    <3> TAKE j \in DOMAIN ranges
    <3>1. CASE ranges[j] = columns
      BY <1>4, <3>1
    <3>2. CASE j \in DOMAIN c.ranges /\ ranges[j] = c.ranges[j]
      BY <2>1, <3>2
    <3> QED BY <1>6, <3>1, <3>2
  <2> QED BY <1>2, <1>7, <2>2 DEF IndexesSound
<1>10. DataSound(new) /\ Grows(data, new)
  BY <1>1, <1>3, <1>7, <1>8, <1>9, PartAdded DEF c
<1> HIDE DEF new
<1> QED BY <1>0, <1>5, <1>10, DefineStep

(* Columns: whatever the dependencies, which freeze() looks at.            *)
LEMMA ColumnStep ==
  ASSUME SchemaInv, NEW b \in Builders, Live(b), NEW i \in DOMAIN builders[b].containers,
         NEW shape \in Shapes, NEW role \in Roles, NEW deps, DependenciesTyped(deps),
         NEW variant \in Nat,
         Define(b, AddColumnRecord(builders[b], i, shape, role, deps, variant),
                {NextColumn(builders[b], i)})
  PROVE  SchemaInv'
<1> DEFINE new == AddColumnRecord(builders[b], i, shape, role, deps, variant)
           h == NextColumn(builders[b], i)
<1>1. DataSound(builders[b]) /\ builders[b].schemaId < nextSchemaId
  BY DEF SchemaInv, BuilderSound
<1>2. DataSound(new) /\ Grows(builders[b], new) /\ h \in Handles /\ Resolves(new, h)
  BY <1>1, ColumnAdded
<1>3. h.schemaId = builders[b].schemaId /\ ~IsContainerHandle(h)
  BY DEF NextColumn, Handle, IsContainerHandle
<1>4. HandleSound(h, nextSchemaId) /\ h.schemaId = new.schemaId
  BY <1>1, <1>2, <1>3 DEF HandleSound, Grows
<1>5. Define(b, new, {h})
  OBVIOUS
<1> HIDE DEF new, h
<1> QED BY <1>2, <1>4, <1>5, DefineStep

(* A container comes last and is empty.                                    *)
LEMMA CreateContainerStep ==
  ASSUME SchemaInv, NEW b \in Builders, Live(b), NEW kind \in {"Table", "List"},
         CreateContainer(b, kind)
  PROVE  SchemaInv'
<1>0. PICK data : data = builders[b]
  OBVIOUS
<1> DEFINE id == data.next["container"]
           c == NewContainer(kind, id)
           containers == Append(data.containers, c)
           next == Bump(data.next, "container")
           h == Handle(kind, data, id, 0)
           new == [schemaId |-> data.schemaId, frozen |-> data.frozen,
                   containers |-> containers, next |-> next]
<1>1. /\ data \in Definitions /\ DataSound(data) /\ data.schemaId < nextSchemaId
      /\ data.schemaId \in Nat \ {0} /\ data.frozen \in BOOLEAN
      /\ data.containers \in Seq(ContainerRecords) /\ data.next \in Numbers
  BY <1>0 DEF SchemaInv, BuilderSound, DataSound, Definitions, Numbers
<1>2. /\ id \in Nat \ {0} /\ next \in Numbers /\ next["container"] = id + 1
      /\ next["column"] = data.next["column"]
  BY SMTT(30), <1>1 DEF Numbers, PartKinds, Bump
<1>3. Define(b, new, {h})
  <2>1. Define(b, [Used(data, "container") EXCEPT !.containers = Append(@, c)], {h})
    BY <1>0 DEF CreateContainer
  <2>2. data = [schemaId |-> data.schemaId, frozen |-> data.frozen,
                containers |-> data.containers, next |-> data.next]
    BY <1>1 DEF Definitions
  <2>3. Used(data, "container") =
          [schemaId |-> data.schemaId, frozen |-> data.frozen,
           containers |-> data.containers, next |-> next]
    BY <2>2 DEF Used, Bump
  <2>4. [Used(data, "container") EXCEPT !.containers = Append(@, c)] = new
    <3> HIDE DEF c, next
    <3> QED BY <2>3
  <2> QED BY <2>1, <2>4
<1>4. c \in ContainerRecords /\ c.id = id /\ c.kind = kind
  BY <1>2 DEF NewContainer, ContainerRecords
<1>5. ColumnsSound(c, next["column"]) /\ AssociationSound(c) /\ IndexesSound(c)
  BY DEF NewContainer, ColumnsSound, AssociationSound, IndexesSound, Numbered
<1>6. \A d : TargetsSound(d, c)
  BY DEF NewContainer, TargetsSound
<1> HIDE DEF c, h
<1>7. /\ containers \in Seq(ContainerRecords)
      /\ DOMAIN containers = DOMAIN data.containers \cup {Len(data.containers) + 1}
      /\ \A j \in DOMAIN data.containers : containers[j] = data.containers[j]
      /\ containers[Len(data.containers) + 1] = c
  BY <1>1, <1>4
<1>8. Numbered(containers, next["container"])
  <2>1. \A r \in ContainerRecords : r.id \in Nat
    BY DEF ContainerRecords
  <2>2. Numbered(data.containers, c.id)
    BY <1>1, <1>4 DEF DataSound
  <2> QED BY <1>1, <1>2, <1>4, <2>1, <2>2, AppendedNumbered
<1> HIDE DEF containers, next
<1>9. new \in Definitions /\ new.schemaId = data.schemaId /\ new.frozen = data.frozen
      /\ new.containers = containers /\ new.next = next
  BY <1>1, <1>2, <1>7 DEF Definitions, Numbers
<1> HIDE DEF new
<1>10. Grows(data, new)
  BY <1>7, <1>9 DEF Grows, ContainerGrows
<1>11. \A j \in DOMAIN new.containers : ContainerSound(new, new.containers[j])
  <2> SUFFICES ASSUME NEW j \in DOMAIN containers
               PROVE  ContainerSound(new, containers[j])
    BY <1>9
  <2>1. CASE j = Len(data.containers) + 1
    BY <1>5, <1>6, <1>7, <1>9, <2>1 DEF ContainerSound
  <2>2. CASE j \in DOMAIN data.containers
    <3>1. containers[j] \in ContainerRecords /\ ContainerSound(data, containers[j])
      BY <1>1, <1>7, <2>2 DEF DataSound
    <3>2. \A target \in Handles : TargetSound(data, target) => TargetSound(new, target)
      BY <1>10, GrownResolves DEF TargetSound
    <3>3. TargetsSound(new, containers[j])
      <4> SUFFICES ASSUME NEW k \in DOMAIN containers[j].relations
                   PROVE  containers[j].relations[k].target \in Handles
        BY <3>1, <3>2 DEF TargetsSound, ContainerSound
      <4>1. containers[j].relations \in Seq(RelationRecords)
        BY <3>1 DEF ContainerRecords
      <4>2. containers[j].relations[k] \in RelationRecords
        BY <4>1
      <4> QED BY <4>2 DEF RelationRecords
    <3> QED BY <1>2, <1>9, <3>1, <3>3 DEF ContainerSound
  <2> QED BY <1>7, <2>1, <2>2
<1>12. DataSound(new)
  BY <1>8, <1>9, <1>11 DEF DataSound
<1>13. h.kind = kind /\ h.schemaId = data.schemaId /\ h.container = id /\ h.id = 0
       /\ h \in Handles
  BY <1>1, <1>2 DEF h, Handle, Handles
<1>14. IsContainerHandle(h) /\ Resolves(new, h)
  BY <1>4, <1>7, <1>9, <1>13, Resolution DEF IsContainerHandle
<1> QED BY <1>0, <1>1, <1>3, <1>9, <1>10, <1>12, <1>13, <1>14, DefineStep DEF HandleSound

(* An association is a column and a relation; a list gets one only.        *)
LEMMA AddAssociationStep ==
  ASSUME SchemaInv, NEW b \in Builders, Live(b), NEW i \in DOMAIN builders[b].containers,
         NEW target \in issued, IsContainerHandle(target),
         AddAssociation(b, i, target)
  PROVE  SchemaInv'
<1>0. PICK data : data = builders[b]
  OBVIOUS
<1> DEFINE shape == [type |-> "number", indexed |-> TRUE, aggregate |-> FALSE]
           given == data.containers[i]
           id == data.next["relation"]
           columnId == data.next["column"]
           mid == AddColumnRecord(data, i, shape, "association", {}, 0)
           c == mid.containers[i]
           relation == [id |-> id, column |-> columnId, target |-> target]
           association == IF given.kind = "List" THEN id ELSE 0
           relations == Append(c.relations, relation)
           added == [c EXCEPT !.relations = relations, !.association = association]
           next == Bump(mid.next, "relation")
           new == Rebuilt(mid, i, added, next)
           g == NextColumn(data, i)
           h == Handle("relation", data, given.id, id)
<1>1. /\ data \in Definitions /\ DataSound(data) /\ i \in DOMAIN data.containers
      /\ data.schemaId < nextSchemaId /\ data.schemaId \in Nat
      /\ data.containers \in Seq(ContainerRecords)
  BY <1>0 DEF SchemaInv, BuilderSound, DataSound, Definitions
<1>2. /\ target.schemaId = data.schemaId /\ given.association = 0
      /\ Define(b, [Used(mid, "relation") EXCEPT
                      !.containers[i].relations = Append(@, relation),
                      !.containers[i].association = association], {g, h})
  BY <1>0 DEF AddAssociation
<1>3. /\ HandleSound(target, nextSchemaId) /\ target \in Handles /\ target.id = 0
      /\ Resolves(data, target)
  BY <1>0, <1>2 DEF SchemaInv, BuilderSound, HandleSound
<1>4. /\ shape \in Shapes /\ "association" \in Roles /\ 0 \in Nat
  BY DEF Shapes, ColumnTypes, Roles
<1>5. DependenciesTyped({})
  BY FS_EmptySet DEF DependenciesTyped
<1> HIDE DEF shape
<1>6. /\ DataSound(mid) /\ mid \in Definitions /\ Grows(data, mid)
      /\ g \in Handles /\ Resolves(mid, g)
  <2> QED BY <1>1, <1>4, <1>5, ColumnAdded DEF DataSound
<1>7. /\ c.id = given.id /\ c.kind = given.kind /\ c.relations = given.relations
      /\ c.association = 0 /\ mid.next["relation"] = id /\ mid.schemaId = data.schemaId
      /\ i \in DOMAIN mid.containers
  <2>2. PICK column \in ColumnRecords :
          mid = Rebuilt(data, i, Widened(given, column), Bump(data.next, "column"))
    BY <1>1, <1>4, <1>5, ColumnAdded
  <2> DEFINE widened == Widened(given, column)
  <2>3. given \in ContainerRecords
    BY <1>1
  <2> HIDE DEF given, mid
  <2>4. Append(given.columns, column) \in Seq(ColumnRecords)
    BY <2>3 DEF ContainerRecords
  <2>5. /\ widened \in ContainerRecords /\ widened.id = given.id /\ widened.kind = given.kind
        /\ widened.relations = given.relations /\ widened.association = given.association
    BY <2>3, <2>4 DEF ContainerRecords, Widened
  <2>6. Bump(data.next, "column") \in Numbers
        /\ Bump(data.next, "column")["relation"] = data.next["relation"]
    BY <1>1 DEF Definitions, Numbers, PartKinds, Bump
  <2>7. mid = Rebuilt(data, i, widened, Bump(data.next, "column"))
    BY <2>2
  <2> HIDE DEF widened
  <2> QED BY <1>1, <1>2, <2>5, <2>6, <2>7, RebuiltFields
<1> HIDE DEF mid
<1>8. /\ c \in ContainerRecords /\ c.relations \in Seq(RelationRecords)
      /\ ContainerSound(mid, c)
  <2>1. c \in ContainerRecords /\ ContainerSound(mid, c)
    BY <1>6, <1>7 DEF DataSound, Definitions
  <2> QED BY <2>1 DEF ContainerRecords
<1>9. /\ id \in Nat \ {0} /\ columnId \in Nat /\ next \in Numbers
      /\ next["column"] = mid.next["column"]
      /\ \A kind \in DOMAIN next : next[kind] >= mid.next[kind]
  BY <1>1, <1>6, <1>7, NumberUsed DEF PartKinds, Definitions
<1>10. /\ relation \in RelationRecords /\ relation.id = id /\ relation.target = target
      /\ association \in Nat
  BY <1>3, <1>9 DEF RelationRecords
<1>11. Define(b, new, {g, h})
  <2>1. Used(mid, "relation").containers = mid.containers
        /\ Put(Used(mid, "relation"), i, added) = new
    <3> HIDE DEF added
    <3> QED BY <1>6, UsedAndPut
  <2> DEFINE used == Used(mid, "relation")
  <2> HIDE DEF used, relation, association
  <2>2. [used EXCEPT !.containers[i].relations = Append(@, relation),
                     !.containers[i].association = association] = Put(used, i, added)
    BY <1>7, <2>1 DEF Put, used
  <2> QED BY <1>2, <2>1, <2>2 DEF used
<1> HIDE DEF c, relation, association
<1>12. /\ relations \in Seq(RelationRecords) /\ IdsOf(relations) = IdsOf(c.relations) \cup {id}
       /\ Len(relations) = Len(c.relations) + 1 /\ relations[Len(relations)] = relation
       /\ \A j \in DOMAIN relations :
            relations[j] = relation \/ (j \in DOMAIN c.relations
                                          /\ relations[j] = c.relations[j])
  BY <1>8, <1>10, AppendedIds
<1> HIDE DEF relations
<1>13. /\ added \in ContainerRecords
       /\ added.id = c.id /\ added.kind = c.kind /\ added.association = association
       /\ added.columns = c.columns /\ added.relations = relations
       /\ added.variants = c.variants /\ added.ranges = c.ranges
       /\ added.ordered = c.ordered /\ added.intervals = c.intervals
  BY <1>8, <1>10, <1>12 DEF ContainerRecords
<1> HIDE DEF added, next
<1>14. ContainerGrows(c, added)
  BY <1>12, <1>13, PartsByKind DEF ContainerGrows, PartKinds
<1>15. ColumnsSound(added, next["column"]) /\ IndexesSound(added)
  BY <1>8, <1>9, <1>13 DEF ContainerSound, ColumnsSound, IndexesSound
<1>16. AssociationSound(added)
  <2> SUFFICES ASSUME added.kind = "List"
               PROVE  added.association # 0 /\ Len(relations) = 1 /\ relations[1].id = id
                      /\ added.association = id
    BY <1>13 DEF AssociationSound
  <2>1. c.relations = <<>>
    BY <1>7, <1>8, <1>13 DEF ContainerSound, AssociationSound
  <2> QED BY <1>7, <1>9, <1>10, <1>12, <1>13, <2>1 DEF association
<1>17. TargetsSound(mid, added)
  <2>1. TargetSound(mid, target)
    BY <1>3, <1>6, GrownResolves DEF TargetSound
  <2> QED BY <1>8, <1>10, <1>12, <1>13, <2>1 DEF TargetsSound, ContainerSound
<1>18. DataSound(new) /\ Grows(mid, new)
  BY <1>6, <1>7, <1>9, <1>13, <1>14, <1>15, <1>16, <1>17, RebuiltSound DEF c
<1>19. /\ h \in Handles /\ ~IsContainerHandle(h) /\ h.schemaId = data.schemaId
       /\ Resolves(new, h)
  <2>1. id \in IdsOf(PartsOf(added, "relation")) /\ "relation" \in PartKinds
    BY <1>12, <1>13, PartsByKind DEF PartKinds
  <2>2. h = Handle("relation", mid, mid.containers[i].id, id)
    BY <1>7 DEF Handle, c
  <2> HIDE DEF h
  <2> QED BY <1>6, <1>7, <1>9, <1>13, <2>1, <2>2, PartResolves DEF c
<1>20. g.schemaId = data.schemaId /\ ~IsContainerHandle(g) /\ Resolves(new, g)
  BY <1>6, <1>18, GrownResolves DEF NextColumn, Handle, IsContainerHandle
<1>21. Grows(data, new)
  <2> HIDE DEF new
  <2> QED BY <1>6, <1>18 DEF Grows, ContainerGrows
<1>22. \A x \in {g, h} : /\ HandleSound(x, nextSchemaId)
                         /\ x.schemaId = new.schemaId /\ Resolves(new, x)
  <2>1. new.schemaId = data.schemaId
    BY <1>21 DEF Grows
  <2> HIDE DEF new, g, h
  <2> QED BY <1>1, <1>6, <1>19, <1>20, <2>1 DEF HandleSound
<1> HIDE DEF new, g, h
<1> QED BY <1>0, <1>11, <1>18, <1>21, <1>22, DefineStep

-----------------------------------------------------------------------------
(* The other operations, and the invariant.                                *)

(* A new builder has an id of its own, above those of all handles.         *)
LEMMA CreateStep ==
  ASSUME SchemaInv, NEW b \in Builders, Create(b)
  PROVE  SchemaInv'
<1> DEFINE data == NewData(nextSchemaId)
<1>1. /\ ~Live(b) /\ builders' = [builders EXCEPT ![b] = data]
      /\ nextSchemaId' = nextSchemaId + 1
      /\ UNCHANGED <<schemas, issued, disk>> /\ nextSchemaId \in Nat \ {0}
  BY DEF Create, SchemaInv
<1>2. data \in Definitions /\ data.schemaId = nextSchemaId /\ data.containers = <<>>
  BY <1>1 DEF NewData, Definitions, PartKinds
<1> HIDE DEF data
<1>3. DataSound(data) /\ data # None
  BY <1>2, DefinitionIsLive DEF DataSound, Numbered
<1>4. \A d \in Builders : builders'[d] = IF d = b THEN data ELSE builders[d]
  BY <1>1 DEF SchemaInv
<1>5. \A d \in Builders : Live(d)' <=> (d = b \/ Live(d))
  BY <1>3, <1>4 DEF Live
<1>6. \A h \in issued : HandleSound(h, nextSchemaId + 1) /\ h.schemaId < nextSchemaId
  BY <1>1 DEF SchemaInv, HandleSound, Handles
<1>7. BuilderSound(data, issued, nextSchemaId + 1)
  BY <1>1, <1>2, <1>3, <1>6 DEF BuilderSound
<1>8. \A d \in Builders : Live(d) => /\ BuilderSound(builders[d], issued, nextSchemaId + 1)
                                     /\ builders[d].schemaId < nextSchemaId
  <2> TAKE d \in Builders
  <2> HAVE Live(d)
  <2>1. BuilderSound(builders[d], issued, nextSchemaId)
    BY DEF SchemaInv
  <2>2. builders[d].schemaId \in Nat
    BY <2>1 DEF BuilderSound, DataSound, Definitions
  <2> QED BY <1>1, <2>1, <2>2 DEF BuilderSound
<1>9. builders' \in [Builders -> Definitions \cup {None}] /\ nextSchemaId' \in Nat \ {0}
  BY <1>1, <1>2 DEF SchemaInv
<1>10. \A d \in Builders : Live(d)' => BuilderSound(builders'[d], issued', nextSchemaId')
  BY <1>1, <1>4, <1>5, <1>7, <1>8
<1>11. \A d, e \in Builders :
         Live(d)' /\ Live(e)' /\ builders'[d].schemaId = builders'[e].schemaId => d = e
  BY <1>1, <1>2, <1>4, <1>5, <1>8 DEF SchemaInv
<1>12. \A h \in issued' : HandleSound(h, nextSchemaId')
  BY <1>1, <1>6
<1>13. \A s \in schemas' : /\ \E d \in Builders : Live(d)' /\ builders'[d] = s
                           /\ s.frozen /\ Freezable(s)
  <2> SUFFICES ASSUME NEW s \in schemas
               PROVE  \E d \in Builders : Live(d)' /\ builders'[d] = s
    BY <1>1 DEF SchemaInv
  <2>1. PICK d \in Builders : Live(d) /\ builders[d] = s
    BY DEF SchemaInv
  <2> QED BY <1>1, <1>4, <1>5, <2>1
<1>14. \A snapshot \in disk' : \E old \in Definitions : WrittenBy(snapshot, old)
  BY <1>1 DEF SchemaInv
<1> QED BY <1>9, <1>10, <1>11, <1>12, <1>13, <1>14 DEF SchemaInv

(* Freezing changes nothing that handles or checks look at.                *)
LEMMA FrozenIsSame ==
  ASSUME NEW data \in Definitions
  PROVE  LET frozen == [data EXCEPT !.frozen = TRUE] IN
         /\ frozen \in Definitions /\ frozen.frozen /\ frozen.schemaId = data.schemaId
         /\ frozen.containers = data.containers /\ frozen.next = data.next
BY DEF Definitions

LEMMA SameContainers ==
  ASSUME NEW data, NEW new, new.schemaId = data.schemaId, new.containers = data.containers,
         new.next = data.next
  PROVE  /\ \A h : Resolves(data, h) <=> Resolves(new, h)
         /\ Freezable(data) => Freezable(new)
         /\ DataSound(data) /\ new \in Definitions => DataSound(new)
<1>1. \A h : Resolves(data, h) <=> Resolves(new, h)
  BY Resolution
<1>2. Freezable(data) => Freezable(new)
  <2>1. \A c : ColumnsValid(data, c) => ColumnsValid(new, c)
    BY DEF ColumnsValid, DependenciesDeclared
  <2>2. \A c : RelationsValid(data, c) => RelationsValid(new, c)
    BY DEF RelationsValid, Containers
  <2>3. \A c : IndexesValid(data, c) => IndexesValid(new, c)
    <3>1. \A c, h : OwnColumn(data, c, h) = OwnColumn(new, c, h)
      BY DEF OwnColumn
    <3> QED BY <3>1 DEF IndexesValid
  <2> QED BY <2>1, <2>2, <2>3 DEF Freezable
<1>3. \A c : ContainerSound(data, c) => ContainerSound(new, c)
  BY <1>1 DEF ContainerSound, TargetsSound, TargetSound
<1> QED BY <1>1, <1>2, <1>3 DEF DataSound

LEMMA FreezeStep ==
  ASSUME SchemaInv, NEW b \in Builders, Freeze(b)
  PROVE  SchemaInv'
<1>0. PICK data : data = builders[b]
  OBVIOUS
<1> DEFINE new == [data EXCEPT !.frozen = TRUE]
<1>1. /\ Live(b) /\ ~data.frozen /\ Freezable(data)
      /\ builders' = [builders EXCEPT ![b] = new]
      /\ UNCHANGED <<nextSchemaId, issued, disk>>
      /\ BuilderSound(data, issued, nextSchemaId)
  BY <1>0 DEF Freeze, SchemaInv
<1>2. data \in Definitions
  BY <1>1 DEF BuilderSound, DataSound
<1>3. /\ new \in Definitions /\ new.frozen /\ new.schemaId = data.schemaId
      /\ new.containers = data.containers /\ new.next = data.next
  BY <1>2, FrozenIsSame
<1>4. \A d \in Builders : builders'[d] = IF d = b THEN new ELSE builders[d]
  BY <1>1 DEF SchemaInv
<1>5. schemas' = schemas \cup {new}
  BY <1>4 DEF Freeze
<1> HIDE DEF new
<1>6. BuilderSound(new, issued, nextSchemaId) /\ Freezable(new)
  BY <1>1, <1>3, SameContainers DEF BuilderSound
<1>7. \A d \in Builders : Live(d)' <=> Live(d)
  BY <1>1, <1>3, <1>4, DefinitionIsLive DEF Live
<1>8. builders' \in [Builders -> Definitions \cup {None}] /\ nextSchemaId' \in Nat \ {0}
  BY <1>1, <1>3 DEF SchemaInv
<1>9. \A d \in Builders : Live(d)' => BuilderSound(builders'[d], issued', nextSchemaId')
  BY <1>1, <1>4, <1>6, <1>7 DEF SchemaInv
<1>10. \A d, e \in Builders :
         Live(d)' /\ Live(e)' /\ builders'[d].schemaId = builders'[e].schemaId => d = e
  BY <1>0, <1>3, <1>4, <1>7 DEF SchemaInv
<1>11. \A s \in schemas' : /\ \E d \in Builders : Live(d)' /\ builders'[d] = s
                           /\ s.frozen /\ Freezable(s)
  <2> TAKE s \in schemas'
  <2>1. CASE s = new
    BY <1>1, <1>3, <1>4, <1>6, <1>7, <2>1
  <2>2. CASE s \in schemas
    <3>1. PICK d \in Builders : Live(d) /\ builders[d] = s /\ s.frozen /\ Freezable(s)
      BY <2>2 DEF SchemaInv
    <3>2. d # b
      BY <1>0, <1>1, <3>1
    <3> QED BY <1>4, <1>7, <3>1, <3>2
  <2> QED BY <1>5, <2>1, <2>2
<1>12. \A h \in issued' : HandleSound(h, nextSchemaId')
  BY <1>1 DEF SchemaInv
<1>13. \A snapshot \in disk' : \E old \in Definitions : WrittenBy(snapshot, old)
  BY <1>1 DEF SchemaInv
<1> QED BY <1>8, <1>9, <1>10, <1>11, <1>12, <1>13 DEF SchemaInv

(* A snapshot is written by a schema that is sound, of handles that resolve. *)
LEMMA SaveStep ==
  ASSUME SchemaInv, NEW s \in schemas, Save(s)
  PROVE  SchemaInv'
<1>1. UNCHANGED <<builders, schemas, issued, nextSchemaId>>
  BY DEF Save
<1>2. PICK b \in Builders : Live(b) /\ builders[b] = s
  BY DEF SchemaInv
<1>3. BuilderSound(s, issued, nextSchemaId) /\ \A h \in issued : HandleSound(h, nextSchemaId)
  BY <1>2 DEF SchemaInv
<1>4. DataSound(s) /\ s \in Definitions
  BY <1>3 DEF BuilderSound, DataSound
<1> DEFINE meant == {<<h, Meaning(s, h)>> : h \in {g \in issued : g.schemaId = s.schemaId}}
           snapshot == [schemaId |-> s.schemaId, structure |-> Structure(s),
                        meaning |-> meant]
<1>5. disk' = {snapshot}
  BY DEF Save
<1>6. \A m \in meant : \E h \in Handles : /\ m = <<h, Meaning(s, h)>> /\ Resolves(s, h)
                                          /\ IsContainerHandle(h) => h.id = 0
  BY <1>3 DEF BuilderSound, HandleSound
<1> HIDE DEF meant
<1>7. WrittenBy(snapshot, s)
  BY <1>4, <1>6 DEF WrittenBy
<1> HIDE DEF snapshot
<1>8. \A saved \in disk' : \E data \in Definitions : WrittenBy(saved, data)
  BY <1>4, <1>5, <1>7
<1> QED BY <1>1, <1>8 DEF SchemaInv, Live

LEMMA RestartStep ==
  ASSUME SchemaInv, Restart
  PROVE  SchemaInv'
BY DEF SchemaInv, Restart, Live

LEMMA SchemaInit ==
  Init => SchemaInv
BY DEF Init, SchemaInv, Live

LEMMA SchemaNext ==
  ASSUME SchemaInv, [Next]_vars
  PROVE  SchemaInv'
<1>1. CASE UNCHANGED vars
  BY <1>1 DEF vars, SchemaInv, Live
<1>2. ASSUME NEW b \in Builders, Create(b) PROVE SchemaInv'
  BY <1>2, CreateStep
<1>3. ASSUME NEW b \in Builders, Freeze(b) PROVE SchemaInv'
  BY <1>3, FreezeStep
<1>4. ASSUME NEW b \in Builders, Live(b), NEW kind \in {"Table", "List"},
             CreateContainer(b, kind)
      PROVE  SchemaInv'
  BY <1>4, CreateContainerStep
<1>5. ASSUME NEW b \in Builders, Live(b), NEW i \in DOMAIN builders[b].containers,
             \/ AddVariant(b, i)
             \/ ColumnDefinition(b, i)
             \/ \E g \in Issued("column"), h \in Issued("column") :
                  \/ AddRangeIndex(b, i, <<g, h>>)
                  \/ AddOrderedIndex(b, i, {g}, {h})
                  \/ AddIntervalIndex(b, i, {}, g, h)
      PROVE  SchemaInv'
  <2>1. /\ issued \subseteq Handles /\ Issued("column") \subseteq Columned
        /\ builders[b] \in Definitions /\ i \in DOMAIN builders[b].containers
    BY <1>5 DEF SchemaInv, HandleSound, Issued, Columned, BuilderSound, DataSound
  <2>2. CASE AddVariant(b, i)
    BY <1>5, <2>2, AddVariantStep
  <2>3. ASSUME NEW g \in Issued("column"), NEW h \in Issued("column"),
               \/ AddRangeIndex(b, i, <<g, h>>)
               \/ AddOrderedIndex(b, i, {g}, {h})
               \/ AddIntervalIndex(b, i, {}, g, h)
        PROVE  SchemaInv'
    <3>1. g \in Columned /\ h \in Columned
      BY <2>1
    <3>2. CASE AddRangeIndex(b, i, <<g, h>>)
      <4>1. <<g, h>> \in Seq(Columned)
        BY <3>1
      <4> QED BY <1>5, <3>2, <4>1, AddRangeIndexStep
    <3>3. CASE AddOrderedIndex(b, i, {g}, {h})
      <4>1. {g} \in SUBSET Columned /\ {h} \in SUBSET Columned
        BY <3>1
      <4> QED BY <1>5, <3>3, <4>1, AddOrderedIndexStep
    <3>4. CASE AddIntervalIndex(b, i, {}, g, h)
      BY <1>5, <3>1, <3>4, AddIntervalIndexStep
    <3> QED BY <2>3, <3>2, <3>3, <3>4
  <2>4. ASSUME NEW target \in issued, IsContainerHandle(target), AddAssociation(b, i, target)
        PROVE  SchemaInv'
    BY <1>5, <2>4, AddAssociationStep
  <2>5. ASSUME NEW shape \in ColumnShapes,
               \/ AddColumn(b, i, shape)
               \/ \E deps \in AtMostOne(Columns(b, i)) : AddComputedColumn(b, i, shape, deps)
               \/ \E variant \in Issued("variant") : AddVariantColumn(b, i, shape, variant)
        PROVE  SchemaInv'
    <3>1. shape \in Shapes /\ {"normal", "computed", "variant"} \subseteq Roles
      BY SchemaAssumption DEF Shapes, Roles
    <3>2. DependenciesTyped({})
      BY FS_EmptySet DEF DependenciesTyped
    <3>3. CASE AddColumn(b, i, shape)
      BY <1>5, <3>1, <3>2, <3>3, ColumnStep DEF AddColumn
    <3>4. ASSUME NEW deps \in AtMostOne(Columns(b, i)), AddComputedColumn(b, i, shape, deps)
          PROVE  SchemaInv'
      <4>1. Columns(b, i) \subseteq Columned
        <5>1. builders[b].containers[i] \in ContainerRecords /\ builders[b].next \in Numbers
              /\ builders[b].schemaId \in Nat
          BY <2>1 DEF Definitions, Numbers
        <5>2. builders[b].containers[i].id \in Nat /\ builders[b].next["column"] \in Nat
          BY <5>1 DEF ContainerRecords, Numbers, PartKinds
        <5>3. \A n \in {0, 1} : [NextColumn(builders[b], i) EXCEPT !.id = @ + n] \in Columned
          BY <5>1, <5>2 DEF NextColumn, Handle, Columned, Handles, PartKinds
        <5> QED BY <2>1, <5>3 DEF Columns
      <4>2. DependenciesTyped(deps)
        <5>1. deps = {} \/ \E x \in Columned : deps = {x}
          BY <4>1 DEF AtMostOne
        <5> QED BY <5>1, FS_EmptySet, FS_Singleton DEF DependenciesTyped, Columned
      <4> QED BY <1>5, <3>1, <3>4, <4>2, ColumnStep DEF AddComputedColumn
    <3>5. ASSUME NEW variant \in Issued("variant"), AddVariantColumn(b, i, shape, variant)
          PROVE  SchemaInv'
      <4>1. variant.id \in Nat
        BY <2>1 DEF Issued, Handles
      <4> QED BY <1>5, <3>1, <3>2, <3>5, <4>1, ColumnStep DEF AddVariantColumn
    <3> QED BY <2>5, <3>3, <3>4, <3>5
  <2> QED BY <1>5, <2>2, <2>3, <2>4, <2>5 DEF ColumnDefinition
<1>6. ASSUME NEW s \in schemas, Save(s) PROVE SchemaInv'
  BY <1>6, SaveStep
<1>7. CASE Restart
  BY <1>7, RestartStep
<1>8. ASSUME NEW b \in Builders, Live(b), Definition(b) PROVE SchemaInv'
  <2>1. CASE \E kind \in {"Table", "List"} : CreateContainer(b, kind)
    BY <1>4, <1>8, <2>1
  <2>2. CASE \E i \in DOMAIN builders[b].containers :
               \/ AddVariant(b, i)
               \/ ColumnDefinition(b, i)
               \/ \E g \in Issued("column"), h \in Issued("column") :
                    \/ AddRangeIndex(b, i, <<g, h>>)
                    \/ AddOrderedIndex(b, i, {g}, {h})
                    \/ AddIntervalIndex(b, i, {}, g, h)
    BY <1>5, <1>8, <2>2
  <2> QED BY <1>8, <2>1, <2>2 DEF Definition
<1> QED BY <1>1, <1>2, <1>3, <1>6, <1>7, <1>8 DEF Next

(* The invariant holds of every reachable state.                           *)
LEMMA SchemaInvariant ==
  Spec => []SchemaInv
BY SchemaInit, SchemaNext, PTL DEF Spec

-----------------------------------------------------------------------------
(* The properties.                                                         *)

(***************************************************************************)
(* For any number of builders, definitions and restarts of the process, a  *)
(* frozen schema resolves the handles its own builder gave out and no      *)
(* others (validate), as no two builders of a process share a schemaId and *)
(* what is found once is found for ever.                                   *)
(***************************************************************************)
THEOREM ResolveAtHome ==
  Spec => []HandlesResolveAtHome
<1>1. ASSUME SchemaInv PROVE HandlesResolveAtHome
  <2> SUFFICES ASSUME NEW s \in schemas, NEW h \in issued
               PROVE  Resolves(s, h) <=> h.schemaId = s.schemaId
    BY DEF HandlesResolveAtHome
  <2>1. PICK b \in Builders : Live(b) /\ builders[b] = s
    BY <1>1 DEF SchemaInv
  <2>2. h.schemaId = s.schemaId => Resolves(s, h)
    BY <1>1, <2>1 DEF SchemaInv, BuilderSound
  <2> QED BY <2>2 DEF Resolves
<1> QED BY <1>1, SchemaInvariant, PTL

(* The columns that column i of container c is computed from.              *)
Needed(s, c, i) ==
  {j \in DOMAIN c.columns : \E h \in c.columns[i].deps :
     Resolves(s, h) /\ h.container = c.id /\ h.id = c.columns[j].id}

(* What a column is computed from is as many columns as it has             *)
(* dependencies, and all of them are before it.                            *)
LEMMA DependenciesBefore ==
  ASSUME NEW s, DataSound(s), NEW n \in DOMAIN s.containers,
         NEW i \in DOMAIN s.containers[n].columns,
         DependenciesDeclared(s, s.containers[n], i)
  PROVE  LET c == s.containers[n] IN
         /\ Cardinality(Needed(s, c, i)) = Cardinality(c.columns[i].deps)
         /\ \A j \in Needed(s, c, i) : j < i
<1>0. PICK c : c = s.containers[n]
  OBVIOUS
<1> DEFINE deps == c.columns[i].deps
           dependsOn == {j \in DOMAIN c.columns : \E h \in deps :
                           Resolves(s, h) /\ h.container = c.id /\ h.id = c.columns[j].id}
<1>1. c \in ContainerRecords /\ ContainerSound(s, c) /\ s \in Definitions
  BY <1>0 DEF DataSound, Definitions
<1>2. c.columns \in Seq(ColumnRecords) /\ i \in DOMAIN c.columns
  BY <1>0, <1>1 DEF ContainerRecords
<1>3. /\ i \in Nat \ {0}
      /\ \A j, k \in DOMAIN c.columns : c.columns[j].id = c.columns[k].id => j = k
      /\ deps \subseteq Handles /\ IsFiniteSet(deps) /\ \A h \in deps : h.kind = "column"
  <2>1. c.columns[i] \in ColumnRecords
    BY <1>2
  <2> QED BY <1>1, <1>2, <2>1 DEF ContainerSound, ColumnsSound, Numbered, ColumnRecords
<1>4. \A h \in deps : /\ h.schemaId = s.schemaId /\ h.container = c.id
                      /\ \E j \in 1 .. (i - 1) : j \in DOMAIN c.columns
                                                   /\ c.columns[j].id = h.id
  <2> TAKE h \in deps
  <2>1. /\ h.schemaId = s.schemaId /\ h.container = c.id
        /\ Found(SubSeq(c.columns, 1, i - 1), h.id) # {}
    BY <1>0 DEF DependenciesDeclared
  <2>2. PICK j \in DOMAIN SubSeq(c.columns, 1, i - 1) :
          SubSeq(c.columns, 1, i - 1)[j].id = h.id
    <3>1. h.id \in IdsOf(SubSeq(c.columns, 1, i - 1))
      BY <2>1, FoundIsThere
    <3> QED BY <3>1 DEF IdsOf
  <2>3. /\ i - 1 \in 0 .. Len(c.columns)
        /\ DOMAIN SubSeq(c.columns, 1, i - 1) = 1 .. (i - 1)
        /\ SubSeq(c.columns, 1, i - 1)[j] = c.columns[j]
    BY SMTT(30), <1>2, <1>3, <2>2
  <2>4. j \in DOMAIN c.columns
    BY <1>2, <1>3, <2>2, <2>3
  <2> QED BY <2>1, <2>2, <2>3, <2>4
<1>5. \A h \in deps : Resolves(s, h)
  <2> TAKE h \in deps
  <2>1. ~IsContainerHandle(h) /\ h.schemaId = s.schemaId /\ h.container = c.id
    BY <1>3, <1>4 DEF IsContainerHandle
  <2>2. h.id \in IdsOf(PartsOf(c, h.kind))
    BY <1>3, <1>4, PartsByKind DEF IdsOf
  <2> QED BY <1>0, <2>1, <2>2, Resolution
<1>6. \A j \in dependsOn : j < i
  <2> TAKE j \in dependsOn
  <2>1. PICK h \in deps : h.id = c.columns[j].id
    OBVIOUS
  <2>2. PICK k \in 1 .. (i - 1) : k \in DOMAIN c.columns /\ c.columns[k].id = h.id
    BY <1>4
  <2>3. j = k
    BY <1>3, <2>1, <2>2
  <2> QED BY <1>3, <2>2, <2>3
<1>7. Cardinality(dependsOn) = Cardinality(deps)
  <2> DEFINE f == [h \in deps |-> CHOOSE j \in DOMAIN c.columns : c.columns[j].id = h.id]
  <2>1. \A h \in deps : f[h] \in DOMAIN c.columns /\ c.columns[f[h]].id = h.id
    BY <1>4
  <2> HIDE DEF f
  <2>2. \A h \in deps : f[h] \in dependsOn
    BY <1>4, <1>5, <2>1
  <2>3. \A g, h \in deps : f[g] = f[h] => g = h
    <3> TAKE g, h \in deps
    <3> HAVE f[g] = f[h]
    <3>1. g.kind = h.kind /\ g.schemaId = h.schemaId /\ g.container = h.container /\ g.id = h.id
      BY <1>3, <1>4, <2>1
    <3> QED BY <1>3, <3>1 DEF Handles
  <2>4. \A j \in dependsOn : \E h \in deps : f[h] = j
    <3> TAKE j \in dependsOn
    <3>1. PICK h \in deps : h.id = c.columns[j].id
      OBVIOUS
    <3>2. f[h] = j
      BY <1>3, <2>1, <3>1
    <3> QED BY <3>2
  <2>5. f \in [deps -> dependsOn]
    <3>1. f = [h \in deps |-> f[h]]
      BY DEF f
    <3> HIDE DEF dependsOn
    <3> QED BY <2>2, <3>1
  <2> HIDE DEF dependsOn, deps
  <2>6. f \in Bijection(deps, dependsOn)
    BY <2>3, <2>4, <2>5 DEF Bijection, Injection, Surjection, IsInjective
  <2>7. ExistsBijection(deps, dependsOn)
    BY <2>6 DEF ExistsBijection
  <2> QED BY <1>3, <2>7, FS_Bijection
<1>8. dependsOn = Needed(s, c, i)
  BY DEF Needed
<1> HIDE DEF dependsOn
<1> QED BY <1>0, <1>6, <1>7, <1>8

(* A column that an index finds in its container resolves.                 *)
LEMMA OwnResolves ==
  ASSUME NEW s, NEW n \in DOMAIN s.containers, NEW h, h.kind = "column",
         OwnColumn(s, s.containers[n], h) # {}
  PROVE  Resolves(s, h)
<1>1. /\ h.schemaId = s.schemaId /\ h.container = s.containers[n].id
      /\ Found(s.containers[n].columns, h.id) # {}
  BY DEF OwnColumn
<1>2. h.id \in IdsOf(PartsOf(s.containers[n], h.kind))
  BY <1>1, FoundIsThere, PartsByKind
<1>3. ~IsContainerHandle(h)
  BY DEF IsContainerHandle
<1> QED BY <1>1, <1>2, <1>3, Resolution

LEMMA IndexesResolve ==
  ASSUME NEW s, NEW n \in DOMAIN s.containers, IndexesSound(s.containers[n]),
         IndexesValid(s, s.containers[n])
  PROVE  LET c == s.containers[n] IN
         /\ \A x \in ToSet(c.ranges) : \A h \in ToSet(x) : Resolves(s, h)
         /\ \A x \in ToSet(c.ordered) : \A h \in x.group \cup x.order : Resolves(s, h)
         /\ \A x \in ToSet(c.intervals) :
              \A h \in x.group \cup {x.start, x.end} : Resolves(s, h)
<1>0. PICK c : c = s.containers[n]
  OBVIOUS
<1>1. \A h : h.kind = "column" /\ OwnColumn(s, c, h) # {} => Resolves(s, h)
  BY <1>0, OwnResolves
<1>2. \A x \in ToSet(c.ranges) : \A h \in ToSet(x) :
        h.kind = "column" /\ OwnColumn(s, c, h) # {}
  <2> SUFFICES ASSUME NEW j \in DOMAIN c.ranges, NEW k \in DOMAIN c.ranges[j]
               PROVE  LET h == c.ranges[j][k] IN
                      h.kind = "column" /\ OwnColumn(s, c, h) # {}
    BY DEF ToSet
  <2>1. c.ranges[j][k].kind = "column"
    BY <1>0 DEF IndexesSound
  <2>2. c.ranges[j] \in ToSet(c.ranges) /\ c.ranges[j][k] \in ToSet(c.ranges[j])
    BY DEF ToSet
  <2> QED BY <1>0, <2>1, <2>2 DEF IndexesValid
<1>3. \A x \in ToSet(c.ordered) : \A h \in x.group \cup x.order :
        h.kind = "column" /\ OwnColumn(s, c, h) # {}
  BY <1>0 DEF IndexesSound, IndexesValid, ToSet
<1>4. \A x \in ToSet(c.intervals) : \A h \in x.group \cup {x.start, x.end} :
        h.kind = "column" /\ OwnColumn(s, c, h) # {}
  BY <1>0 DEF IndexesSound, IndexesValid, ToSet
<1> QED BY <1>0, <1>1, <1>2, <1>3, <1>4

(***************************************************************************)
(* For any number of definitions, taken with any handles: in a schema that *)
(* validateFrozenSchema lets through, a computed column has all it is      *)
(* computed from before it and in its own container, a list has one        *)
(* relation, its association, and all that relations and indexes name is   *)
(* there.                                                                  *)
(***************************************************************************)
THEOREM FrozenSound ==
  Spec => []FrozenSchemasSound
<1>1. ASSUME SchemaInv PROVE FrozenSchemasSound
  <2>1. SUFFICES ASSUME NEW s \in schemas, NEW c \in ToSet(s.containers)
        PROVE  LET DependsOn(i) == {j \in DOMAIN c.columns : \E h \in c.columns[i].deps :
                           Resolves(s, h) /\ h.container = c.id /\ h.id = c.columns[j].id}
               IN /\ \A i \in DOMAIN c.columns :
                       /\ Cardinality(DependsOn(i)) = Cardinality(c.columns[i].deps)
                       /\ \A j \in DependsOn(i) : j < i
                  /\ c.kind = "List" => Len(c.relations) = 1
                                          /\ c.relations[1].id = c.association
                  /\ \A r \in ToSet(c.relations) : Resolves(s, r.target)
                  /\ \A x \in ToSet(c.ranges) : \A h \in ToSet(x) : Resolves(s, h)
                  /\ \A x \in ToSet(c.ordered) : \A h \in x.group \cup x.order : Resolves(s, h)
                  /\ \A x \in ToSet(c.intervals) :
                       \A h \in x.group \cup {x.start, x.end} : Resolves(s, h)
    BY DEF FrozenSchemasSound
  <2>2. PICK n \in DOMAIN s.containers : c = s.containers[n]
    BY DEF ToSet
  <2>3. DataSound(s) /\ Freezable(s)
    BY <1>1 DEF SchemaInv, BuilderSound
  <2>4. ContainerSound(s, c)
    BY <2>2, <2>3 DEF DataSound
  <2>5. /\ c.kind = "List" => c.association # 0
        /\ ColumnsValid(s, c) /\ IndexesValid(s, c)
    BY <2>3 DEF Freezable
  <2>6. \A i \in DOMAIN c.columns : DependenciesDeclared(s, c, i)
    BY <2>5 DEF ColumnsValid
  <2>7. c.kind = "List" => Len(c.relations) = 1 /\ c.relations[1].id = c.association
    BY <2>4, <2>5 DEF ContainerSound, AssociationSound
  <2>8. \A r \in ToSet(c.relations) : Resolves(s, r.target)
    BY <2>4 DEF ContainerSound, TargetsSound, TargetSound, ToSet
  <2>9. /\ \A x \in ToSet(c.ranges) : \A h \in ToSet(x) : Resolves(s, h)
        /\ \A x \in ToSet(c.ordered) : \A h \in x.group \cup x.order : Resolves(s, h)
        /\ \A x \in ToSet(c.intervals) :
             \A h \in x.group \cup {x.start, x.end} : Resolves(s, h)
    BY <2>2, <2>4, <2>5, IndexesResolve DEF ContainerSound
  <2>10. \A i \in DOMAIN c.columns :
           /\ Cardinality(Needed(s, c, i)) = Cardinality(c.columns[i].deps)
           /\ \A j \in Needed(s, c, i) : j < i
    BY <2>2, <2>3, <2>6, DependenciesBefore
  <2> QED BY <2>7, <2>8, <2>9, <2>10 DEF Needed
<1> QED BY <1>1, SchemaInvariant, PTL

-----------------------------------------------------------------------------
(* Two schemas with the same structure.                                    *)

(* What the structure of a container says of it.                           *)
SameParts(c, d) ==
  /\ d.kind = c.kind /\ d.id = c.id /\ d.association = c.association
  /\ DOMAIN d.columns = DOMAIN c.columns
  /\ \A i \in DOMAIN c.columns : ColumnStructure(d.columns[i]) = ColumnStructure(c.columns[i])
  /\ DOMAIN d.relations = DOMAIN c.relations
  /\ \A i \in DOMAIN c.relations :
       /\ d.relations[i].id = c.relations[i].id
       /\ d.relations[i].column = c.relations[i].column
       /\ d.relations[i].target.container = c.relations[i].target.container
  /\ DOMAIN d.variants = DOMAIN c.variants
  /\ \A i \in DOMAIN c.variants : d.variants[i].id = c.variants[i].id

IdsIn(S) == {Ids(h) : h \in S}

SameIndexes(c, d) ==
  /\ DOMAIN d.ranges = DOMAIN c.ranges
  /\ \A i \in DOMAIN c.ranges :
       [j \in DOMAIN d.ranges[i] |-> Ids(d.ranges[i][j])] =
         [j \in DOMAIN c.ranges[i] |-> Ids(c.ranges[i][j])]
  /\ DOMAIN d.ordered = DOMAIN c.ordered
  /\ \A i \in DOMAIN c.ordered :
       /\ IdsIn(d.ordered[i].group) = IdsIn(c.ordered[i].group)
       /\ IdsIn(d.ordered[i].order) = IdsIn(c.ordered[i].order)
  /\ DOMAIN d.intervals = DOMAIN c.intervals
  /\ \A i \in DOMAIN c.intervals :
       /\ IdsIn(d.intervals[i].group) = IdsIn(c.intervals[i].group)
       /\ Ids(d.intervals[i].start) = Ids(c.intervals[i].start)
       /\ Ids(d.intervals[i].end) = Ids(c.intervals[i].end)

LEMMA SameStructureOfContainer ==
  ASSUME NEW c, NEW d, ContainerStructure(d) = ContainerStructure(c)
  PROVE  SameParts(c, d) /\ SameIndexes(c, d)
<1> DEFINE columns(x) == [i \in DOMAIN x.columns |-> ColumnStructure(x.columns[i])]
           ranges(x) == [i \in DOMAIN x.ranges |->
                           [j \in DOMAIN x.ranges[i] |-> Ids(x.ranges[i][j])]]
           ordered(x) == [i \in DOMAIN x.ordered |->
                            <<IdsIn(x.ordered[i].group), IdsIn(x.ordered[i].order)>>]
           intervals(x) == [i \in DOMAIN x.intervals |->
                              <<IdsIn(x.intervals[i].group),
                                Ids(x.intervals[i].start), Ids(x.intervals[i].end)>>]
           relations(x) == [i \in DOMAIN x.relations |->
                              <<x.relations[i].id, x.relations[i].column,
                                x.relations[i].target.container>>]
           variants(x) == [i \in DOMAIN x.variants |-> x.variants[i].id]
<1>1. \A x : ContainerStructure(x) =
               [kind |-> x.kind, id |-> x.id, association |-> x.association,
                columns |-> columns(x), ranges |-> ranges(x), ordered |-> ordered(x),
                intervals |-> intervals(x), relations |-> relations(x),
                variants |-> variants(x)]
  BY DEF ContainerStructure, IdsIn
<1> HIDE DEF columns, ranges, ordered, intervals, relations, variants
<1>2. /\ d.kind = c.kind /\ d.id = c.id /\ d.association = c.association
      /\ columns(d) = columns(c) /\ ranges(d) = ranges(c) /\ ordered(d) = ordered(c)
      /\ intervals(d) = intervals(c) /\ relations(d) = relations(c)
      /\ variants(d) = variants(c)
  BY <1>1
<1>3. /\ DOMAIN d.columns = DOMAIN c.columns
      /\ \A i \in DOMAIN c.columns :
           ColumnStructure(d.columns[i]) = ColumnStructure(c.columns[i])
  BY <1>2 DEF columns
<1>4. /\ DOMAIN d.relations = DOMAIN c.relations
      /\ \A i \in DOMAIN c.relations :
           /\ d.relations[i].id = c.relations[i].id
           /\ d.relations[i].column = c.relations[i].column
           /\ d.relations[i].target.container = c.relations[i].target.container
  BY <1>2 DEF relations
<1>5. /\ DOMAIN d.variants = DOMAIN c.variants
      /\ \A i \in DOMAIN c.variants : d.variants[i].id = c.variants[i].id
  BY <1>2 DEF variants
<1>6. /\ DOMAIN d.ranges = DOMAIN c.ranges
      /\ \A i \in DOMAIN c.ranges :
           [j \in DOMAIN d.ranges[i] |-> Ids(d.ranges[i][j])] =
             [j \in DOMAIN c.ranges[i] |-> Ids(c.ranges[i][j])]
  BY <1>2 DEF ranges
<1>7. /\ DOMAIN d.ordered = DOMAIN c.ordered
      /\ \A i \in DOMAIN c.ordered :
           /\ IdsIn(d.ordered[i].group) = IdsIn(c.ordered[i].group)
           /\ IdsIn(d.ordered[i].order) = IdsIn(c.ordered[i].order)
  BY <1>2 DEF ordered
<1>8. /\ DOMAIN d.intervals = DOMAIN c.intervals
      /\ \A i \in DOMAIN c.intervals :
           /\ IdsIn(d.intervals[i].group) = IdsIn(c.intervals[i].group)
           /\ Ids(d.intervals[i].start) = Ids(c.intervals[i].start)
           /\ Ids(d.intervals[i].end) = Ids(c.intervals[i].end)
  BY <1>2 DEF intervals
<1> QED BY <1>2, <1>3, <1>4, <1>5, <1>6, <1>7, <1>8 DEF SameParts, SameIndexes

LEMMA SameStructure ==
  ASSUME NEW s, NEW data, Structure(s) = Structure(data)
  PROVE  /\ DOMAIN s.containers = DOMAIN data.containers
         /\ \A i \in DOMAIN data.containers :
              /\ SameParts(data.containers[i], s.containers[i])
              /\ SameIndexes(data.containers[i], s.containers[i])
<1>1. /\ DOMAIN s.containers = DOMAIN data.containers
      /\ \A i \in DOMAIN data.containers :
           ContainerStructure(s.containers[i]) = ContainerStructure(data.containers[i])
  BY DEF Structure
<1> QED BY <1>1, SameStructureOfContainer

(* Then the same indexes are indexes of both.                              *)
LEMMA SameIndexed ==
  ASSUME NEW c, NEW d, SameIndexes(c, d)
  PROVE  Indexed(d) = Indexed(c)
<1> DEFINE ranges(x) == {[j \in DOMAIN r |-> Ids(r[j])] : r \in ToSet(x.ranges)}
           ordered(x) == {<<IdsIn(o.group), IdsIn(o.order)>> : o \in ToSet(x.ordered)}
           intervals(x) == {<<IdsIn(v.group), Ids(v.start), Ids(v.end)>> :
                              v \in ToSet(x.intervals)}
<1>1. \A x : Indexed(x) = [ranges |-> ranges(x), ordered |-> ordered(x),
                           intervals |-> intervals(x)]
  BY DEF Indexed, IdsIn
<1>2. ranges(d) = ranges(c)
  BY DEF SameIndexes, ToSet
<1>3. ordered(d) = ordered(c)
  BY DEF SameIndexes, ToSet
<1>4. intervals(d) = intervals(c)
  BY DEF SameIndexes, ToSet
<1> HIDE DEF ranges, ordered, intervals
<1> QED BY <1>1, <1>2, <1>3, <1>4

(* Where the part that a handle names is.                                  *)
At(data, h, i, k) ==
  /\ i \in DOMAIN data.containers /\ data.containers[i].id = h.container
  /\ k \in DOMAIN PartsOf(data.containers[i], h.kind)
  /\ PartsOf(data.containers[i], h.kind)[k].id = h.id

LEMMA PartIsAt ==
  ASSUME NEW data, NEW h
  PROVE  \A p : p \in Part(data, h) <=>
           \E i, k : At(data, h, i, k) /\ p = PartsOf(data.containers[i], h.kind)[k]
<1>1. Containers(data, h.container) =
        {data.containers[i] : i \in {j \in DOMAIN data.containers :
                                       data.containers[j].id = h.container}}
  BY FoundIsThere DEF Containers
<1>2. \A c : Found(PartsOf(c, h.kind), h.id) =
               {PartsOf(c, h.kind)[k] : k \in {j \in DOMAIN PartsOf(c, h.kind) :
                                                PartsOf(c, h.kind)[j].id = h.id}}
  BY FoundIsThere
<1>3. \A p : p \in Part(data, h) <=>
        \E c \in Containers(data, h.container) : p \in Found(PartsOf(c, h.kind), h.id)
  BY DEF Part
<1> QED BY <1>1, <1>2, <1>3 DEF At

ColumnMeaning(p) == <<p.type, p.role, p.variant, {Ids(d) : d \in p.deps}>>

LEMMA SameColumnMeaning ==
  ASSUME NEW p, NEW q, ColumnStructure(p) = ColumnStructure(q)
  PROVE  p.id = q.id /\ ColumnMeaning(p) = ColumnMeaning(q)
<1> DEFINE ids(x) == {Ids(d) : d \in x.deps}
<1>1. \A x : ColumnStructure(x) = <<x.id, x.type, x.indexed, x.role, x.variant,
                                    x.aggregate, ids(x)>>
  BY DEF ColumnStructure
<1> HIDE DEF ids
<1>2. /\ p.id = q.id /\ p.type = q.type /\ p.role = q.role /\ p.variant = q.variant
      /\ ids(p) = ids(q)
  BY <1>1
<1>3. \A x : ColumnMeaning(x) = <<x.type, x.role, x.variant, ids(x)>>
  BY DEF ColumnMeaning, ids
<1> QED BY <1>2, <1>3

(* A handle but for one of an index means the same in two sound schemas of *)
(* one number and one structure.                                           *)
LEMMA SameMeaning ==
  ASSUME NEW s, NEW data, DataSound(s), DataSound(data), s.schemaId = data.schemaId,
         Structure(s) = Structure(data), NEW h \in Handles, ~IsIndexHandle(h),
         Resolves(data, h)
  PROVE  Resolves(s, h) /\ Meaning(s, h) = Meaning(data, h)
<1>1. /\ DOMAIN s.containers = DOMAIN data.containers
      /\ \A i \in DOMAIN data.containers :
           /\ SameParts(data.containers[i], s.containers[i])
           /\ SameIndexes(data.containers[i], s.containers[i])
  BY SameStructure
<1>2. h.kind \in {"Table", "List", "column", "relation", "variant"}
  BY DEF Handles, PartKinds, IsIndexHandle
<1>3. CASE IsContainerHandle(h)
  <2>1. Resolves(s, h)
    BY <1>1, <1>3, Resolution DEF SameParts
  <2>2. \A i \in DOMAIN data.containers :
          /\ s.containers[i].id = data.containers[i].id
          /\ s.containers[i].kind = data.containers[i].kind
          /\ s.containers[i].association = data.containers[i].association
          /\ Indexed(s.containers[i]) = Indexed(data.containers[i])
    BY <1>1, SameIndexed DEF SameParts
  <2>3. /\ \A c : c \in Containers(s, h.container) <=>
             \E i \in DOMAIN s.containers : s.containers[i].id = h.container
                                              /\ c = s.containers[i]
        /\ \A c : c \in Containers(data, h.container) <=>
             \E i \in DOMAIN data.containers : data.containers[i].id = h.container
                                                 /\ c = data.containers[i]
    BY FoundIsThere DEF Containers
  <2>4. {<<c.kind, c.association, Indexed(c)>> : c \in Containers(s, h.container)} =
          {<<c.kind, c.association, Indexed(c)>> : c \in Containers(data, h.container)}
    BY <1>1, <2>2, <2>3
  <2> QED BY <1>3, <2>1, <2>4 DEF Meaning
<1>4. ASSUME ~IsContainerHandle(h),
             \A i, k : At(data, h, i, k) <=> At(s, h, i, k)
      PROVE  Resolves(s, h)
  <2>1. h.schemaId = data.schemaId /\ Part(data, h) # {}
    BY <1>4 DEF Resolves
  <2>2. PICK i, k : At(data, h, i, k)
    BY <2>1, PartIsAt
  <2>3. PartsOf(s.containers[i], h.kind)[k] \in Part(s, h)
    BY <1>4, <2>2, PartIsAt
  <2> QED BY <1>4, <2>1, <2>3 DEF Resolves
<1>5. CASE h.kind = "column"
  <2>1. \A d, i, k : At(d, h, i, k) <=>
          /\ i \in DOMAIN d.containers /\ d.containers[i].id = h.container
          /\ k \in DOMAIN d.containers[i].columns /\ d.containers[i].columns[k].id = h.id
    BY <1>5, PartsByKind DEF At
  <2>2. \A i \in DOMAIN data.containers : \A k \in DOMAIN data.containers[i].columns :
          LET p == s.containers[i].columns[k]  q == data.containers[i].columns[k] IN
          p.id = q.id /\ ColumnMeaning(p) = ColumnMeaning(q)
    BY <1>1, SameColumnMeaning DEF SameParts
  <2>3. \A i, k : At(data, h, i, k) <=> At(s, h, i, k)
    BY <1>1, <2>1, <2>2 DEF SameParts
  <2>4. ~IsContainerHandle(h)
    BY <1>5 DEF IsContainerHandle
  <2>5. \A i, k : At(data, h, i, k) =>
          ColumnMeaning(s.containers[i].columns[k]) = ColumnMeaning(data.containers[i].columns[k])
    BY <2>1, <2>2
  <2>6. /\ \A p : p \in Part(s, h) <=>
             \E i, k : At(s, h, i, k) /\ p = s.containers[i].columns[k]
        /\ \A p : p \in Part(data, h) <=>
             \E i, k : At(data, h, i, k) /\ p = data.containers[i].columns[k]
    BY <1>5, PartIsAt, PartsByKind
  <2>7. Meaning(s, h) = {ColumnMeaning(p) : p \in Part(s, h)}
        /\ Meaning(data, h) = {ColumnMeaning(p) : p \in Part(data, h)}
    BY <1>5, <2>4 DEF Meaning, ColumnMeaning
  <2>8. {ColumnMeaning(p) : p \in Part(s, h)} = {ColumnMeaning(p) : p \in Part(data, h)}
    BY <2>3, <2>5, <2>6
  <2> QED BY <1>4, <2>3, <2>4, <2>7, <2>8
<1>6. CASE h.kind = "relation"
  <2>1. \A d, i, k : At(d, h, i, k) <=>
          /\ i \in DOMAIN d.containers /\ d.containers[i].id = h.container
          /\ k \in DOMAIN d.containers[i].relations /\ d.containers[i].relations[k].id = h.id
    BY <1>6, PartsByKind DEF At
  <2>2. \A i, k : At(data, h, i, k) <=> At(s, h, i, k)
    BY <1>1, <2>1 DEF SameParts
  <2>3. ~IsContainerHandle(h)
    BY <1>6 DEF IsContainerHandle
  <2> DEFINE meaning(p) == <<p.column, Ids(p.target)>>
  <2>4. \A i, k : At(data, h, i, k) =>
          meaning(s.containers[i].relations[k]) = meaning(data.containers[i].relations[k])
    <3> SUFFICES ASSUME NEW i, NEW k, At(data, h, i, k)
                 PROVE  meaning(s.containers[i].relations[k]) =
                          meaning(data.containers[i].relations[k])
      OBVIOUS
    <3>1. /\ i \in DOMAIN data.containers /\ k \in DOMAIN data.containers[i].relations
          /\ i \in DOMAIN s.containers /\ k \in DOMAIN s.containers[i].relations
          /\ s.containers[i].relations[k].column = data.containers[i].relations[k].column
          /\ s.containers[i].relations[k].target.container =
               data.containers[i].relations[k].target.container
      BY <1>1, <2>1 DEF SameParts
    <3>2. ContainerSound(s, s.containers[i]) /\ ContainerSound(data, data.containers[i])
      BY SMTT(30), <3>1 DEF DataSound
    <3>3. /\ s.containers[i].relations[k].target.id = 0
          /\ data.containers[i].relations[k].target.id = 0
      BY <3>1, <3>2 DEF ContainerSound, TargetsSound, TargetSound
    <3> QED BY <3>1, <3>3 DEF Ids
  <2>5. /\ \A p : p \in Part(s, h) <=>
             \E i, k : At(s, h, i, k) /\ p = s.containers[i].relations[k]
        /\ \A p : p \in Part(data, h) <=>
             \E i, k : At(data, h, i, k) /\ p = data.containers[i].relations[k]
    BY <1>6, PartIsAt, PartsByKind
  <2>6. Meaning(s, h) = {meaning(p) : p \in Part(s, h)}
        /\ Meaning(data, h) = {meaning(p) : p \in Part(data, h)}
    BY <1>6, <2>3 DEF Meaning
  <2> HIDE DEF meaning
  <2>7. {meaning(p) : p \in Part(s, h)} = {meaning(p) : p \in Part(data, h)}
    BY <2>2, <2>4, <2>5
  <2> QED BY <1>4, <2>2, <2>3, <2>6, <2>7
<1>7. CASE h.kind = "variant"
  <2>1. \A d, i, k : At(d, h, i, k) <=>
          /\ i \in DOMAIN d.containers /\ d.containers[i].id = h.container
          /\ k \in DOMAIN d.containers[i].variants /\ d.containers[i].variants[k].id = h.id
    BY <1>7, PartsByKind DEF At
  <2>2. \A i, k : At(data, h, i, k) <=> At(s, h, i, k)
    BY <1>1, <2>1 DEF SameParts
  <2>3. ~IsContainerHandle(h)
    BY <1>7 DEF IsContainerHandle
  <2>4. \A d : \A p \in Part(d, h) : p.id = h.id
    BY PartIsAt DEF At
  <2>5. Part(s, h) # {} /\ Part(data, h) # {}
    BY <1>4, <2>2, <2>3 DEF Resolves
  <2>6. {p.id : p \in Part(s, h)} = {p.id : p \in Part(data, h)}
    BY <2>4, <2>5
  <2> QED BY <1>4, <1>7, <2>2, <2>3, <2>6 DEF Meaning
<1> QED BY <1>2, <1>3, <1>5, <1>6, <1>7 DEF IsContainerHandle

(***************************************************************************)
(* Whatever schemas were built before and after, in this process and in    *)
(* those before it: a snapshot that restoreSnapshot accepts for its number *)
(* and structure was written by a schema whose handles, but for those of   *)
(* indexes, mean the same in the schema that accepts it.                   *)
(***************************************************************************)
THEOREM AcceptedMeansTheSame ==
  Spec => []AcceptedSnapshotsMeanTheSame
<1>1. ASSUME SchemaInv PROVE AcceptedSnapshotsMeanTheSame
  <2> SUFFICES ASSUME NEW s \in schemas, NEW snapshot \in disk, Accepts(s, snapshot),
                      NEW m \in snapshot.meaning, ~IsIndexHandle(m[1])
               PROVE  Resolves(s, m[1]) /\ Meaning(s, m[1]) = m[2]
    BY DEF AcceptedSnapshotsMeanTheSame
  <2>1. DataSound(s)
    BY <1>1 DEF SchemaInv, BuilderSound
  <2>2. PICK data \in Definitions : WrittenBy(snapshot, data)
    BY <1>1 DEF SchemaInv
  <2>3. /\ DataSound(data) /\ s.schemaId = data.schemaId
        /\ Structure(s) = Structure(data)
    BY <2>2 DEF WrittenBy, Accepts
  <2>4. PICK h \in Handles : m = <<h, Meaning(data, h)>> /\ Resolves(data, h)
    BY <2>2 DEF WrittenBy
  <2>5. m[1] = h /\ m[2] = Meaning(data, h)
    BY <2>4
  <2> QED BY <2>1, <2>3, <2>4, <2>5, SameMeaning
<1> QED BY <1>1, SchemaInvariant, PTL
=============================================================================
