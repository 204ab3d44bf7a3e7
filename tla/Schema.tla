------------------------------- MODULE Schema -------------------------------
(***************************************************************************)
(* SchemaBuilder, TableBuilder, ListBuilder and EngineSchema: several      *)
(* builders of one process define containers, columns, relations, variants *)
(* and indexes, hand out handles as they go, and freeze into schemas that  *)
(* never change again.  Every builder numbers its parts from one, so that  *)
(* handles of two schemas differ in nothing but their schemaId, which is   *)
(* the value of a counter that starts over with the process: a snapshot    *)
(* outlives the schema that wrote it and meets another one.                *)
(***************************************************************************)
EXTENDS Integers, FiniteSets, SequencesExt

CONSTANTS
  Builders,        \* the SchemaBuilder objects of the process
  ColumnShapes,    \* the [type, indexed, aggregate] that columns are defined with
  MaxContainers,   \* bound: containers of the process's builders together
  MaxColumns,      \* bound: columns of a builder
  MaxDefinitions,  \* bound: definitions made altogether
  MaxRestarts      \* bound: restarts of the process

\* The types of columns, as far as freezing tells them apart: those with
\* numbers, those with values in an order, and binary ones.
ColumnTypes == {"number", "other", "binary"}

ASSUME SchemaAssumption ==
  ColumnShapes \subseteq [type : ColumnTypes, indexed : BOOLEAN, aggregate : BOOLEAN]

VARIABLES
  builders,      \* [Builders -> SchemaDefinitionData, or None before it is created]
  schemas,       \* the EngineSchemas frozen by this process
  issued,        \* the handles this process has been given
  nextSchemaId,
  disk,          \* the snapshots written: [schemaId, structure, meaning]
  definitions, restarts  \* what the bounds count

vars == <<builders, schemas, issued, nextSchemaId, disk, definitions, restarts>>

None == [schemaId |-> 0]
Live(b) == builders[b] # None

-----------------------------------------------------------------------------
(* SchemaDefinitionData, and the lookups by id.                            *)

Handle(kind, data, container, id) ==
  [kind |-> kind, schemaId |-> data.schemaId, container |-> container, id |-> id]

NewData(id) ==
  [schemaId |-> id, frozen |-> FALSE, containers |-> <<>>,
   next |-> [k \in {"container", "column", "relation", "variant", "ordered", "interval"} |-> 1]]

NewContainer(kind, id) ==
  [kind |-> kind, id |-> id, association |-> 0, columns |-> <<>>, relations |-> <<>>,
   variants |-> <<>>, ranges |-> <<>>, ordered |-> <<>>, intervals |-> <<>>]

\* findContainer, findColumn, ...: at most one, ids being unique in a builder.
Found(seq, id) == {x \in ToSet(seq) : x.id = id}

Containers(data, id) == Found(data.containers, id)

PartsOf(container, kind) ==
  CASE kind = "column" -> container.columns
    [] kind = "relation" -> container.relations
    [] kind = "variant" -> container.variants
    [] kind = "ordered" -> container.ordered
    [] kind = "interval" -> container.intervals

Part(data, h) == UNION {Found(PartsOf(c, h.kind), h.id) : c \in Containers(data, h.container)}

IsContainerHandle(h) == h.kind \in {"Table", "List"}
IsIndexHandle(h) == h.kind \in {"ordered", "interval"}

\* Mutant of Resolves: a handle is looked up by its ids alone.
ResolvesByIds(data, h) ==
  IF IsContainerHandle(h) THEN \E c \in Containers(data, h.container) : c.kind = h.kind
  ELSE Part(data, h) # {}

\* EngineSchema::validate(handle); of a variant, the test in validateSnapshot.
Resolves(data, h) ==
  /\ h.schemaId = data.schemaId
  /\ IF IsContainerHandle(h) THEN \E c \in Containers(data, h.container) : c.kind = h.kind
     ELSE Part(data, h) # {}

-----------------------------------------------------------------------------
(* validateFrozenSchema.                                                   *)

Numeric(column) == column.type = "number"
Comparable(column) == column.type # "binary"

\* Mutant of DependenciesDeclared: the whole container is searched.
DependenciesInContainer(data, c, i) ==
  \A h \in c.columns[i].deps :
    h.schemaId = data.schemaId /\ h.container = c.id /\ Found(c.columns, h.id) # {}

\* A computed column depends on columns of its container declared before it.
DependenciesDeclared(data, c, i) ==
  \A h \in c.columns[i].deps :
    h.schemaId = data.schemaId /\ h.container = c.id
      /\ Found(SubSeq(c.columns, 1, i - 1), h.id) # {}

\* The column of container c that an index of it names by h, if any.
OwnColumn(data, c, h) ==
  {column \in Found(c.columns, h.id) : h.schemaId = data.schemaId /\ h.container = c.id}

ColumnsValid(data, c) ==
  \A i \in DOMAIN c.columns :
    LET column == c.columns[i] IN
    /\ DependenciesDeclared(data, c, i)
    /\ column.role = "variant" => Found(c.variants, column.variant) # {}
    /\ column.aggregate => Numeric(column)

RelationsValid(data, c) ==
  \A r \in ToSet(c.relations) :
    /\ r.target.schemaId = data.schemaId /\ Containers(data, r.target.container) # {}
    /\ Found(c.columns, r.column) # {}

IndexesValid(data, c) ==
  /\ \A x \in ToSet(c.ranges) :
       /\ Len(x) >= 2
       /\ \A h \in ToSet(x) :
            \E column \in OwnColumn(data, c, h) : column.indexed /\ Numeric(column)
  /\ \A x \in ToSet(c.ordered) :
       /\ x.order # {}
       /\ \A h \in x.group : OwnColumn(data, c, h) # {}
       /\ \A h \in x.order : \E column \in OwnColumn(data, c, h) : Comparable(column)
  /\ \A x \in ToSet(c.intervals) :
       /\ \A h \in x.group : OwnColumn(data, c, h) # {}
       /\ \A h \in {x.start, x.end} : \E column \in OwnColumn(data, c, h) : Numeric(column)

Freezable(data) ==
  /\ data.containers # <<>>
  /\ \A c \in ToSet(data.containers) :
       /\ c.kind = "List" => c.association # 0
       /\ ColumnsValid(data, c) /\ RelationsValid(data, c) /\ IndexesValid(data, c)

-----------------------------------------------------------------------------
(* The builders' operations.  One that throws changes nothing.             *)

Init ==
  /\ builders = [b \in Builders |-> None]
  /\ schemas = {} /\ issued = {} /\ disk = {}
  /\ nextSchemaId = 1 /\ definitions = 0 /\ restarts = 0

Create(b) ==
  /\ ~Live(b)
  /\ builders' = [builders EXCEPT ![b] = NewData(nextSchemaId)]
  /\ nextSchemaId' = nextSchemaId + 1
  /\ UNCHANGED <<schemas, issued, disk, definitions, restarts>>

\* requireMutable, and what every definition ends with.
Define(b, data, handles) ==
  /\ Live(b) /\ ~builders[b].frozen
  /\ definitions < MaxDefinitions /\ definitions' = definitions + 1
  /\ builders' = [builders EXCEPT ![b] = data]
  /\ issued' = issued \cup handles
  /\ UNCHANGED <<schemas, nextSchemaId, disk, restarts>>

\* The data with a number of the given kind used up.
Used(data, kind) == [data EXCEPT !.next[kind] = @ + 1]

CreateContainer(b, kind) ==
  LET data == builders[b]  id == data.next["container"] IN
  /\ Live(b) /\ Cardinality({h \in issued : IsContainerHandle(h)}) < MaxContainers
  /\ Define(b, [Used(data, "container") EXCEPT !.containers = Append(@, NewContainer(kind, id))],
            {Handle(kind, data, id, 0)})

AddColumnRecord(data, i, shape, role, deps, variant) ==
  [Used(data, "column") EXCEPT !.containers[i].columns =
     Append(@, [id |-> data.next["column"], type |-> shape.type, indexed |-> shape.indexed,
                aggregate |-> shape.aggregate, role |-> role, deps |-> deps, variant |-> variant])]

NextColumn(data, i) == Handle("column", data, data.containers[i].id, data.next["column"])

\* addColumn and addComputedColumn, whose dependencies are looked at by freeze() only.
AddColumn(b, i, shape) ==
  LET data == builders[b] IN
  Define(b, AddColumnRecord(data, i, shape, "normal", {}, 0), {NextColumn(data, i)})

AddComputedColumn(b, i, shape, deps) ==
  LET data == builders[b] IN
  Define(b, AddColumnRecord(data, i, shape, "computed", deps, 0), {NextColumn(data, i)})

AddVariant(b, i) ==
  LET data == builders[b]  id == data.next["variant"] IN
  Define(b, [Used(data, "variant") EXCEPT !.containers[i].variants = Append(@, [id |-> id])],
         {Handle("variant", data, data.containers[i].id, id)})

\* addVariantColumn refuses a variant of another schema or container at once.
AddVariantColumn(b, i, shape, variant) ==
  LET data == builders[b] IN
  /\ variant.schemaId = data.schemaId /\ variant.container = data.containers[i].id
  /\ Define(b, AddColumnRecord(data, i, shape, "variant", {}, variant.id), {NextColumn(data, i)})

\* addAssociation of a table, setAssociation of a list that has none: an
\* indexed column of ids, and the relation stored in it.
AddAssociation(b, i, target) ==
  LET data == builders[b]
      c == data.containers[i]
      id == data.next["relation"]
      shape == [type |-> "number", indexed |-> TRUE, aggregate |-> FALSE]
      column == AddColumnRecord(data, i, shape, "association", {}, 0)
      relation == [id |-> id, column |-> data.next["column"], target |-> target]
  IN /\ target.schemaId = data.schemaId /\ Containers(data, target.container) # {}
     /\ c.association = 0
     /\ Define(b, [Used(column, "relation") EXCEPT
                     !.containers[i].relations = Append(@, relation),
                     !.containers[i].association = IF c.kind = "List" THEN id ELSE 0],
               {NextColumn(data, i), Handle("relation", data, c.id, id)})

\* The special indexes, whose columns are looked at by freeze() only.
AddRangeIndex(b, i, columns) ==
  Define(b, [builders[b] EXCEPT !.containers[i].ranges = Append(@, columns)], {})

AddOrderedIndex(b, i, group, order) ==
  LET data == builders[b]  id == data.next["ordered"] IN
  Define(b, [Used(data, "ordered") EXCEPT !.containers[i].ordered =
               Append(@, [id |-> id, group |-> group, order |-> order])],
         {Handle("ordered", data, data.containers[i].id, id)})

AddIntervalIndex(b, i, group, start, end) ==
  LET data == builders[b]  id == data.next["interval"] IN
  Define(b, [Used(data, "interval") EXCEPT !.containers[i].intervals =
               Append(@, [id |-> id, group |-> group, start |-> start, end |-> end])],
         {Handle("interval", data, data.containers[i].id, id)})

Freeze(b) ==
  /\ Live(b) /\ ~builders[b].frozen /\ Freezable(builders[b])
  /\ builders' = [builders EXCEPT ![b].frozen = TRUE]
  /\ schemas' = schemas \cup {builders'[b]}
  /\ UNCHANGED <<issued, nextSchemaId, disk, definitions, restarts>>

-----------------------------------------------------------------------------
(* What outlives the process.                                              *)

Ids(h) == <<h.container, h.id>>

\* Mutant of ColumnStructure: the flags of a column are not written.
ColumnStructureUnflagged(column) ==
  <<column.id, column.type, column.indexed, column.variant,
    column.aggregate, {Ids(h) : h \in column.deps}>>

ColumnStructure(column) ==
  <<column.id, column.type, column.indexed, column.role, column.variant,
    column.aggregate, {Ids(h) : h \in column.deps}>>

ContainerStructure(c) ==
  [kind |-> c.kind, id |-> c.id, association |-> c.association,
   columns |-> [i \in DOMAIN c.columns |-> ColumnStructure(c.columns[i])],
   ranges |-> [i \in DOMAIN c.ranges |-> [j \in DOMAIN c.ranges[i] |-> Ids(c.ranges[i][j])]],
   ordered |-> [i \in DOMAIN c.ordered |->
                  <<{Ids(h) : h \in c.ordered[i].group}, {Ids(h) : h \in c.ordered[i].order}>>],
   intervals |-> [i \in DOMAIN c.intervals |->
                    <<{Ids(h) : h \in c.intervals[i].group},
                      Ids(c.intervals[i].start), Ids(c.intervals[i].end)>>],
   relations |-> [i \in DOMAIN c.relations |->
                    <<c.relations[i].id, c.relations[i].column, c.relations[i].target.container>>],
   variants |-> [i \in DOMAIN c.variants |-> c.variants[i].id]]

\* serializeStructure: every id and every reference, no schemaId.
Structure(data) == [i \in DOMAIN data.containers |-> ContainerStructure(data.containers[i])]

\* What the indexes of a container are over.
Indexed(c) ==
  [ranges |-> {[j \in DOMAIN x |-> Ids(x[j])] : x \in ToSet(c.ranges)},
   ordered |-> {<<{Ids(h) : h \in x.group}, {Ids(h) : h \in x.order}>> : x \in ToSet(c.ordered)},
   intervals |-> {<<{Ids(h) : h \in x.group}, Ids(x.start), Ids(x.end)>> : x \in ToSet(c.intervals)}]

\* What the engine does with a handle it resolves.
Meaning(data, h) ==
  IF IsContainerHandle(h)
    THEN {<<c.kind, c.association, Indexed(c)>> : c \in Containers(data, h.container)}
  ELSE IF h.kind = "column"
    THEN {<<p.type, p.role, p.variant, {Ids(d) : d \in p.deps}>> : p \in Part(data, h)}
  ELSE IF h.kind = "relation" THEN {<<p.column, Ids(p.target)>> : p \in Part(data, h)}
  ELSE {p.id : p \in Part(data, h)}

\* createSnapshot of an engine of the schema, once (a bound); meaning is what
\* its handles meant.
Save(s) ==
  /\ s \in schemas /\ disk = {}
  /\ disk' =
       {[schemaId |-> s.schemaId, structure |-> Structure(s),
         meaning |-> {<<h, Meaning(s, h)>> : h \in {g \in issued : g.schemaId = s.schemaId}}]}
  /\ UNCHANGED <<builders, schemas, issued, nextSchemaId, definitions, restarts>>

\* The test of restoreSnapshot.
Accepts(s, snapshot) == snapshot.schemaId = s.schemaId /\ snapshot.structure = Structure(s)

\* The process ends and another begins: only the files are left.
Restart ==
  /\ restarts < MaxRestarts /\ restarts' = restarts + 1
  /\ builders' = [b \in Builders |-> None]
  /\ schemas' = {} /\ issued' = {} /\ nextSchemaId' = 1
  /\ UNCHANGED <<disk, definitions>>

Issued(kind) == {h \in issued : h.kind = kind}

\* Handles can be made up as well as kept: those of the next two columns.
Columns(b, i) ==
  Issued("column") \cup
    {[NextColumn(builders[b], i) EXCEPT !.id = @ + n] : n \in {0, 1}}

AtMostOne(S) == {{}} \cup {{x} : x \in S}

ColumnDefinition(b, i) ==
  \/ \E target \in issued : IsContainerHandle(target) /\ AddAssociation(b, i, target)
  \/ \E shape \in ColumnShapes :
       \/ AddColumn(b, i, shape)
       \/ \E deps \in AtMostOne(Columns(b, i)) : AddComputedColumn(b, i, shape, deps)
       \/ \E variant \in Issued("variant") : AddVariantColumn(b, i, shape, variant)

Definition(b) ==
  \/ \E kind \in {"Table", "List"} : CreateContainer(b, kind)
  \/ \E i \in DOMAIN builders[b].containers :
       \/ AddVariant(b, i)
       \/ MaxColumns >= builders[b].next["column"] /\ ColumnDefinition(b, i)
       \/ \E g \in Issued("column"), h \in Issued("column") :
            \/ AddRangeIndex(b, i, <<g, h>>)
            \/ AddOrderedIndex(b, i, {g}, {h})
            \/ AddIntervalIndex(b, i, {}, g, h)

Next ==
  \/ \E b \in Builders : Create(b) \/ Freeze(b) \/ (Live(b) /\ Definition(b))
  \/ \E s \in schemas : Save(s)
  \/ Restart

Spec == Init /\ [][Next]_vars

-----------------------------------------------------------------------------
(* Properties.                                                             *)

(***************************************************************************)
(* A handle is good for its own schema and for no other: whatever builders *)
(* of the process did in whatever order, a frozen schema resolves exactly  *)
(* the handles its builder gave out, although the ids of the others are    *)
(* the same numbers.                                                       *)
(***************************************************************************)
HandlesResolveAtHome ==
  \A s \in schemas, h \in issued : Resolves(s, h) <=> h.schemaId = s.schemaId

(***************************************************************************)
(* What a frozen schema lets the engine do without looking: the computed   *)
(* columns of an item are evaluated in one pass in the order of their      *)
(* declaration, so that whatever a column is computed from, through any    *)
(* number of others, stands before it and in the same container; a list    *)
(* has one association; and no relation or index names a part the schema   *)
(* does not have - although definitions are taken with any handle.         *)
(***************************************************************************)
FrozenSchemasSound ==
  \A s \in schemas : \A c \in ToSet(s.containers) :
    LET DependsOn(i) == {j \in DOMAIN c.columns : \E h \in c.columns[i].deps :
                           Resolves(s, h) /\ h.container = c.id /\ h.id = c.columns[j].id}
    IN /\ \A i \in DOMAIN c.columns :
            /\ Cardinality(DependsOn(i)) = Cardinality(c.columns[i].deps)
            /\ \A j \in DependsOn(i) : j < i
       /\ c.kind = "List" => Len(c.relations) = 1 /\ c.relations[1].id = c.association
       /\ \A r \in ToSet(c.relations) : Resolves(s, r.target)
       /\ \A x \in ToSet(c.ranges) : \A h \in ToSet(x) : Resolves(s, h)
       /\ \A x \in ToSet(c.ordered) : \A h \in x.group \cup x.order : Resolves(s, h)
       /\ \A x \in ToSet(c.intervals) : \A h \in x.group \cup {x.start, x.end} : Resolves(s, h)

(***************************************************************************)
(* A snapshot that a schema accepts, in this process or in a later one     *)
(* that built other schemas in another order under the same numbers, was   *)
(* written by a schema whose handles mean the same in this one, and whose  *)
(* containers have the same indexes.  The handles of the indexes are left  *)
(* out: their ids are counted over all containers of a builder and are not *)
(* in the structure, so that the same indexes added to two containers in   *)
(* another order make an equal structure and other index handles.          *)
(***************************************************************************)
AcceptedSnapshotsMeanTheSame ==
  \A s \in schemas, snapshot \in disk : Accepts(s, snapshot) =>
    \A m \in snapshot.meaning :
      ~IsIndexHandle(m[1]) => Resolves(s, m[1]) /\ Meaning(s, m[1]) = m[2]
=============================================================================
