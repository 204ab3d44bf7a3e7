---------------------------- MODULE RuntimeIndex ----------------------------
(***************************************************************************)
(* The indexes the engine keeps over the items of a container             *)
(* (RuntimeIndexStore, src/support/runtime_index.cpp) and the places of    *)
(* engine.cpp that keep them up to date.  The store is updated in place,   *)
(* one snapshot at a time, and never compared with the items it indexes.   *)
(*                                                                         *)
(* Values are Null or numbers; Null is smaller than every number, as in    *)
(* compareValues.  The type of a number (Int64, UInt64, Double) is left    *)
(* out, and with it the type of a sum.  A row is what the indexes see of   *)
(* an item: [variant, values], a value for every column, Null where the    *)
(* snapshot has none.  One container is modelled: every index is keyed by  *)
(* the container's id, so that containers do not meet in the store.        *)
(***************************************************************************)
EXTENDS Integers, Sequences, FiniteSets, Bags, TLC
LOCAL INSTANCE SequencesExt

CONSTANTS
  Ids,               \* item ids, numbers
  Rows,              \* the rows items may have
  Columns,           \* the container's columns
  Computed,          \* those that are computed of others
  Indexed,           \* columnIsIndexed: columns with an index or an association
  Relations,         \* columns with an association
  Association,       \* the column that gives an item its list
  HasVariants,       \* whether the container declares variants
  VariantColumns,    \* variant-specific column -> its variant
  AggregateOptions,  \* column -> [sum, minMax, byParent]; only indexed ones are kept
  OrderedIndexes,    \* sequence of [groupBy, orderBy], sequences of columns
  IntervalIndexes,   \* sequence of [groupBy, start, end]
  RangeIndexes,      \* set of sets of columns
  Priority(_),       \* the heap key of an interval entry
  LeafSize           \* points a leaf of the range tree may have

ASSUME LeafSizeAssumption == LeafSize \in Nat \ {0}
ASSUME ColumnsAssumption ==
  /\ Indexed \subseteq Columns /\ Relations \subseteq Indexed
  /\ Association \in Relations /\ DOMAIN VariantColumns \subseteq Columns
  /\ Computed \subseteq Columns \ Relations

Trees == INSTANCE IntervalTree
Points == INSTANCE RangeTree

VARIABLES items,   \* DocumentEngine::Impl::items: id -> row
          groups,  \* DocumentEngine::Impl::listGroups: association value -> ids
          store    \* DocumentEngine::Impl::indexes

vars == <<items, groups, store>>

Null == -1

--------------------------------------------------------------------------
\* What one row contributes to the store.

Applies(row, column) ==
  column \in DOMAIN VariantColumns => VariantColumns[column] = row.variant

KeyValues(row, columns) == [i \in DOMAIN columns |-> row.values[columns[i]]]
HasKey(row, columns) == \A i \in DOMAIN columns : row.values[columns[i]] # Null

IndexedValues(row) == { c \in Indexed : Applies(row, c) }

ScalarEntries(id, row) ==
  (IF HasVariants THEN { <<"variant", row.variant, id>> } ELSE {})
  \cup { <<c, row.values[c], id>> : c \in IndexedValues(row) }

OrderedEntries(id, row) ==
  { <<i, KeyValues(row, OrderedIndexes[i].groupBy), KeyValues(row, OrderedIndexes[i].orderBy), id>> :
      i \in { j \in DOMAIN OrderedIndexes :
                HasKey(row, OrderedIndexes[j].groupBy) /\ HasKey(row, OrderedIndexes[j].orderBy) } }

IntervalKeys(row) ==
  { <<i, KeyValues(row, IntervalIndexes[i].groupBy)>> :
      i \in { j \in DOMAIN IntervalIndexes : HasKey(row, IntervalIndexes[j].groupBy) } }

IntervalEntry(key, id, row) ==
  [start |-> row.values[IntervalIndexes[key[1]].start],
   end |-> row.values[IntervalIndexes[key[1]].end], id |-> id]

IsInterval(entry) == entry.start # Null /\ entry.end # Null /\ entry.start < entry.end

Point(id, row) ==
  LET known == { c \in IndexedValues(row) \cap UNION RangeIndexes : row.values[c] # Null }
  IN  [id |-> id, values |-> [c \in known |-> row.values[c]]]

AggregateColumns(row) ==
  { c \in IndexedValues(row) \cap DOMAIN AggregateOptions :
      AggregateOptions[c].sum \/ AggregateOptions[c].minMax }

\* The total of a column, and its groups by the value of a relation.
AggregateKeys(row) ==
  { <<c, "total", Null>> : c \in AggregateColumns(row) }
  \cup { <<c, r, row.values[r]>> :
           c \in { d \in AggregateColumns(row) : AggregateOptions[d].byParent }, r \in Relations }

ParentKeys(row) == { <<r, row.values[r]>> : r \in Relations }

--------------------------------------------------------------------------
\* The parts of the store, and how one item is added to and removed from each.

EmptyRange == [points |-> {}, tree |-> Points!NoTree]

(* A tree is dropped where the code marks it dirty: until the next query    *)
(* builds it again nothing reads it.                                        *)
AddPoint(range, point) ==
  IF DOMAIN point.values = {} THEN range
  ELSE [points |-> range.points \cup {point}, tree |-> Points!NoTree]

RemovePoint(range, id) ==
  [points |-> { p \in range.points : p.id # id }, tree |-> Points!NoTree]

NumericValue(value) == IF value = Null THEN 0 ELSE value
EmptyBucket == [count |-> 0, sum |-> 0, values |-> EmptyBag]

AddAggregateValue(bucket, options, value) ==
  [count |-> bucket.count + 1,
   sum |-> IF options.sum THEN bucket.sum + NumericValue(value) ELSE bucket.sum,
   values |-> IF options.minMax THEN bucket.values (+) SetToBag({value}) ELSE bucket.values]

\* Mutant of RemoveAggregateValue: the extreme values are left behind.
RemoveAggregateSumOnly(bucket, options, value) ==
  [bucket EXCEPT !.count = @ - 1,
                 !.sum = IF options.sum THEN @ - NumericValue(value) ELSE @]

RemoveAggregateValue(bucket, options, value) ==
  [count |-> IF bucket.count > 0 THEN bucket.count - 1 ELSE 0,
   sum |-> IF options.sum THEN bucket.sum - NumericValue(value) ELSE bucket.sum,
   values |-> IF options.minMax THEN bucket.values (-) SetToBag({value}) ELSE bucket.values]

AddToAggregates(aggregates, row) ==
  LET keys == AggregateKeys(row)
      bucket(k) == IF k \in DOMAIN aggregates THEN aggregates[k] ELSE EmptyBucket
  IN  [k \in DOMAIN aggregates \cup keys |->
         IF k \in keys THEN AddAggregateValue(bucket(k), AggregateOptions[k[1]], row.values[k[1]])
         ELSE aggregates[k]]

\* A group goes with its last item, a column with the last item of its total.
RemoveFromAggregates(aggregates, row) ==
  LET keys == AggregateKeys(row)
      left == [k \in DOMAIN aggregates |->
                 IF k \in keys
                   THEN RemoveAggregateValue(aggregates[k], AggregateOptions[k[1]], row.values[k[1]])
                   ELSE aggregates[k]]
      kept == { k \in DOMAIN left : left[k].count > 0 /\ left[<<k[1], "total", Null>>].count > 0 }
  IN  [k \in kept |-> left[k]]

TreeAt(intervals, key) == IF key \in DOMAIN intervals THEN intervals[key] ELSE Trees!Nil

AddIntervals(intervals, id, row) ==
  LET keys == { k \in IntervalKeys(row) : IsInterval(IntervalEntry(k, id, row)) }
  IN  [k \in DOMAIN intervals \cup keys |->
         IF k \in keys THEN Trees!Insert(TreeAt(intervals, k), IntervalEntry(k, id, row))
         ELSE intervals[k]]

RemoveIntervals(intervals, id, row) ==
  LET left == [k \in DOMAIN intervals |->
                 IF k \in IntervalKeys(row)
                   THEN Trees!Erase(intervals[k], IntervalEntry(k, id, row)) ELSE intervals[k]]
  IN  [k \in { j \in DOMAIN left : left[j] # Trees!Nil } |-> left[k]]

EmptyStore ==
  [containerItems |-> {}, scalar |-> {}, ordered |-> {}, intervals |-> <<>>,
   range |-> EmptyRange, aggregates |-> <<>>, parentCounts |-> EmptyBag]

AddItem(s, id, row) ==
  [containerItems |-> s.containerItems \cup {id},
   scalar |-> s.scalar \cup ScalarEntries(id, row),
   ordered |-> s.ordered \cup OrderedEntries(id, row),
   intervals |-> AddIntervals(s.intervals, id, row),
   range |-> AddPoint(s.range, Point(id, row)),
   aggregates |-> AddToAggregates(s.aggregates, row),
   parentCounts |-> s.parentCounts (+) SetToBag(ParentKeys(row))]

RemoveItem(s, id, row) ==
  [containerItems |-> s.containerItems \ {id},
   scalar |-> s.scalar \ ScalarEntries(id, row),
   ordered |-> s.ordered \ OrderedEntries(id, row),
   intervals |-> RemoveIntervals(s.intervals, id, row),
   range |-> RemovePoint(s.range, id),
   aggregates |-> RemoveFromAggregates(s.aggregates, row),
   parentCounts |-> s.parentCounts (-) SetToBag(ParentKeys(row))]

\* The columns an update must change for the store to be touched.
WatchedColumns(row) ==
  Relations \cup UNION RangeIndexes
  \cup UNION { ToSet(i.groupBy) \cup ToSet(i.orderBy) : i \in ToSet(OrderedIndexes) }
  \cup UNION { ToSet(i.groupBy) \cup {i.start, i.end} : i \in ToSet(IntervalIndexes) }
  \cup { c \in Columns : Applies(row, c) /\ c \in Indexed \cup DOMAIN AggregateOptions }

\* Mutant of UpdateTouches: the ends of an interval are not watched.
UpdateTouchesScalars(old, new) ==
  \/ old.variant # new.variant
  \/ \E c \in Indexed : old.values[c] # new.values[c]

UpdateTouches(old, new) ==
  \/ old.variant # new.variant
  \/ \E c \in WatchedColumns(old) : old.values[c] # new.values[c]

UpdateItem(s, id, old, new) ==
  IF UpdateTouches(old, new) THEN AddItem(RemoveItem(s, id, old), id, new) ELSE s

(* A store filled from nothing, item after item in the order of ids: what   *)
(* rebuildIndexes and eraseSnapshots do, over an unordered map.             *)
AddItems(s, contents) ==
  FoldLeft(LAMBDA t, id : AddItem(t, id, contents[id]), s,
           SetToSortSeq(DOMAIN contents, <))

--------------------------------------------------------------------------
\* The lists: an item with a value in the association column is in the list of it.

\* Mutant of Without: erased items stay in their list.
KeptWhole(seq, ids) == seq

Without(seq, ids) == SelectSeq(seq, LAMBDA id : id \notin ids)
GroupOf(value) == IF value \in DOMAIN groups THEN groups[value] ELSE <<>>

GroupsWithout(ids) ==
  LET left == [v \in DOMAIN groups |-> Without(groups[v], ids)]
  IN  [v \in { u \in DOMAIN left : left[u] # <<>> } |-> left[v]]

Placed(lists, value, id, index) ==
  LET list == IF value \in DOMAIN lists THEN lists[value] ELSE <<>>
  IN  IF value = Null THEN lists
      ELSE (value :> InsertAt(list, index, id)) @@ lists

--------------------------------------------------------------------------
Init == items = <<>> /\ groups = <<>> /\ store = EmptyStore

(* insertSnapshot; index is the position in the list *)
Insert(id, row, index) ==
  LET value == row.values[Association]
  IN  /\ id \notin DOMAIN items
      /\ index \in 1..(Len(GroupOf(value)) + 1)
      /\ value = Null => index = 1
      /\ groups' = Placed(groups, value, id, index)
      /\ items' = (id :> row) @@ items
      /\ store' = AddItem(store, id, row)

(* The writes of an existing item: update, rotate, undo and redo of one.    *)
(* An item that changes its list goes to a given position of the new one.   *)
Update(id, row, index) ==
  LET value == row.values[Association]
      stays == id \in DOMAIN items /\ items[id].values[Association] = value
  IN  /\ id \in DOMAIN items
      /\ items[id] # row
      /\ index \in 1..(Len(GroupOf(value)) + 1)
      /\ stays \/ value = Null => index = 1
      /\ groups' = IF stays THEN groups ELSE Placed(GroupsWithout({id}), value, id, index)
      /\ items' = [items EXCEPT ![id] = row]
      /\ store' = UpdateItem(store, id, items[id], row)

(* eraseSnapshots, for transactions and for change sets: more than half of  *)
(* the items removed means a new store, filled with those that stay.        *)
Erase(removed) ==
  LET kept == DOMAIN items \ removed
      contents == [id \in kept |-> items[id]]
      one(s, id) == RemoveItem(s, id, items[id])
  IN  /\ removed # {} /\ removed \subseteq DOMAIN items
      /\ groups' = GroupsWithout(removed)
      /\ items' = contents
      /\ store' = IF Cardinality(removed) > Cardinality(DOMAIN items) \div 2
                    THEN AddItems(EmptyStore, contents)
                    ELSE FoldLeft(one, store, SetToSortSeq(removed, <))

(* eraseSnapshot; s is the store that the item's entries are taken out of   *)
EraseFrom(s, id) ==
  /\ id \in DOMAIN items
  /\ groups' = GroupsWithout({id})
  /\ items' = [other \in DOMAIN items \ {id} |-> items[other]]
  /\ store' = RemoveItem(s, id, items[id])

(* removeAt, and the only removal of a change set                           *)
EraseOne(id) == EraseFrom(store, id)

(* The inverse of an insertion, by rollback or undo: it makes the computed  *)
(* columns null, in the item and the indexes, and then eraseSnapshot takes  *)
(* out of the indexes what the item had when it was inserted.  With a       *)
(* computed column that is indexed the entry of null is left behind.        *)
TakeBack(id) ==
  LET computedNull == [items[id] EXCEPT !.values =
                         [c \in Columns |-> IF c \in Computed THEN Null ELSE @[c]]]
  IN  EraseFrom(UpdateItem(store, id, items[id], computedNull), id)

(* rebuildIndexes, after a failure and at the end of restoreSnapshot *)
RebuildIndexes ==
  /\ store' = AddItems(EmptyStore, items)
  /\ UNCHANGED <<items, groups>>

(* ContainerRangeIndex::query builds the tree when it is dirty *)
BuiltTree(points) ==
  LET byId == SetToSortSeq(points, LAMBDA p, q : p.id < q.id)
      dimensions == SetToSeq(Points!Dimensions(points))
  IN  Points!BuildTree(byId, dimensions, 0)

RangeQuery ==
  /\ store.range.points # {} /\ store.range.tree = Points!NoTree
  /\ store' = [store EXCEPT !.range.tree = BuiltTree(store.range.points)]
  /\ UNCHANGED <<items, groups>>

Next ==
  \/ \E id \in Ids, row \in Rows, index \in 1..Cardinality(Ids) :
       Insert(id, row, index) \/ Update(id, row, index)
  \/ \E removed \in SUBSET Ids : Erase(removed)
  \/ \E id \in Ids : EraseOne(id) \/ TakeBack(id)
  \/ RebuildIndexes
  \/ RangeQuery

Spec == Init /\ [][Next]_vars

--------------------------------------------------------------------------
\* Reads of the store.

Compare(x, op, y) == Points!Compare(x, op, y)

(* queryField: ids by the value of a field; a container without variants    *)
(* has no entries for the variant, which is null for all its items.         *)
QueryField(field, op, value) ==
  CASE field = "id" -> { id \in store.containerItems : Compare(id, op, value) }
    [] field = "variant" /\ ~HasVariants ->
         IF Compare(Null, op, value) THEN store.containerItems ELSE {}
    [] OTHER -> { e[3] : e \in { f \in store.scalar : f[1] = field /\ Compare(f[2], op, value) } }

QueryRangeIn(constraints) ==
  Points!Visit(IF store.range.tree # Points!NoTree THEN store.range.tree
               ELSE BuiltTree(store.range.points), constraints)

QueryInterval(i, group, start, end) ==
  Trees!Query(TreeAt(store.intervals, <<i, group>>), start, end, {})

KeyLess(k, l) ==
  \E n \in 1..Len(k) : k[n] < l[n] /\ SubSeq(k, 1, n - 1) = SubSeq(l, 1, n - 1)

OrderedLess(e, f) == KeyLess(e[3], f[3]) \/ (e[3] = f[3] /\ e[4] < f[4])
OrderedGroup(i, group) ==
  SetToSortSeq({ e \in store.ordered : e[1] = i /\ e[2] = group }, OrderedLess)

(* OrderedRuntimeIndex::previous and next of a probe: the entry is looked   *)
(* up by its key, and the walk skips excluded ids; Null where none is left. *)
Probe(i, id, row) ==
  <<i, KeyValues(row, OrderedIndexes[i].groupBy), KeyValues(row, OrderedIndexes[i].orderBy), id>>
HasProbe(i, row) ==
  HasKey(row, OrderedIndexes[i].groupBy) /\ HasKey(row, OrderedIndexes[i].orderBy)

Previous(i, id, row, excluded) ==
  LET probe == Probe(i, id, row)
      before == SelectSeq(OrderedGroup(i, probe[2]),
                          LAMBDA e : OrderedLess(e, probe) /\ e[4] \notin excluded)
  IN  IF HasProbe(i, row) /\ before # <<>> THEN Last(before)[4] ELSE Null

(* Mutant of NextOf: lower_bound, which finds the probe itself. *)
NextOrSame(i, id, row, excluded) ==
  LET probe == Probe(i, id, row)
      after == SelectSeq(OrderedGroup(i, probe[2]),
                         LAMBDA e : ~OrderedLess(e, probe) /\ e[4] \notin excluded)
  IN  IF HasProbe(i, row) /\ after # <<>> THEN Head(after)[4] ELSE Null

NextOf(i, id, row, excluded) ==
  LET probe == Probe(i, id, row)
      after == SelectSeq(OrderedGroup(i, probe[2]),
                         LAMBDA e : OrderedLess(probe, e) /\ e[4] \notin excluded)
  IN  IF HasProbe(i, row) /\ after # <<>> THEN Head(after)[4] ELSE Null

Overlapping(i, id, row, excluded) ==
  LET group == KeyValues(row, IntervalIndexes[i].groupBy)
      probe == IntervalEntry(<<i, group>>, id, row)
  IN  IF HasKey(row, IntervalIndexes[i].groupBy)
        THEN Trees!Query(TreeAt(store.intervals, <<i, group>>), probe.start, probe.end,
                         excluded \cup {id})
        ELSE {}

--------------------------------------------------------------------------
\* Properties

TypeOK ==
  /\ DOMAIN items \subseteq Ids /\ \A id \in DOMAIN items : items[id] \in Rows
  /\ \A v \in DOMAIN groups : v # Null /\ groups[v] \in Seq(DOMAIN items)
  /\ store.containerItems = DOMAIN items

AllOver(Entries(_, _)) == UNION { Entries(id, items[id]) : id \in DOMAIN items }

BucketOf(key) ==
  LET of == { id \in DOMAIN items : key \in AggregateKeys(items[id]) }
      column == key[1]
      value(id) == items[id].values[column]
      options == AggregateOptions[column]
      addNumber(x, id) == x + NumericValue(value(id))
      addValue(bag, id) == bag (+) SetToBag({value(id)})
  IN  [count |-> Cardinality(of),
       sum |-> IF options.sum THEN FoldLeft(addNumber, 0, SetToSeq(of)) ELSE 0,
       values |-> IF options.minMax THEN FoldLeft(addValue, EmptyBag, SetToSeq(of)) ELSE EmptyBag]

(* However the items were written, updated, erased one by one or wholesale, *)
(* the store that was maintained in place is what the items alone give: no  *)
(* entry of an item that is gone or of a value it no longer has, sums and   *)
(* extremes over exactly the present items, no empty group left, and every  *)
(* interval tree ordered with the right largest ends (addItem, removeItem,  *)
(* updateItem, eraseSnapshots).                                             *)
IndexIsImage ==
  /\ store.scalar = AllOver(ScalarEntries)
  /\ store.ordered = AllOver(OrderedEntries)
  /\ store.range.points =
       { p \in { Point(id, items[id]) : id \in DOMAIN items } : DOMAIN p.values # {} }
  /\ store.range.tree \in {Points!NoTree, BuiltTree(store.range.points)}
  /\ DOMAIN store.aggregates = UNION { AggregateKeys(items[id]) : id \in DOMAIN items }
  /\ \A key \in DOMAIN store.aggregates : store.aggregates[key] = BucketOf(key)
  /\ \A r \in Relations, id \in DOMAIN items :
       CopiesIn(<<r, items[id].values[r]>>, store.parentCounts)
         = Cardinality({ j \in DOMAIN items : items[j].values[r] = items[id].values[r] })
  /\ BagToSet(store.parentCounts) = UNION { ParentKeys(items[id]) : id \in DOMAIN items }
  /\ \A key \in DOMAIN store.intervals :
       /\ store.intervals[key] # Trees!Nil
       /\ Trees!WellFormed(store.intervals[key])
  /\ \A id \in DOMAIN items : \A key \in IntervalKeys(items[id]) :
       LET entry == IntervalEntry(key, id, items[id])
       IN  IsInterval(entry) => entry \in Trees!Entries(TreeAt(store.intervals, key))
  /\ \A key \in DOMAIN store.intervals : \A entry \in Trees!Entries(store.intervals[key]) :
       /\ entry.id \in DOMAIN items
       /\ key \in IntervalKeys(items[entry.id])
       /\ entry = IntervalEntry(key, entry.id, items[entry.id])

(* The neighbours of a row in an ordered index, whether it is stored or is  *)
(* a probe that is not, are the nearest keys of its group on either side    *)
(* among the ids that are not excluded (previous and next).                 *)
NeighboursFound ==
  \A i \in DOMAIN OrderedIndexes, row \in Rows, id \in Ids, excluded \in SUBSET Ids :
    (id \in DOMAIN items => items[id] = row) =>
      LET of(j) == Probe(i, j, items[j])
          me == Probe(i, id, row)
          peers == { j \in DOMAIN items \ excluded : HasProbe(i, items[j]) /\ of(j)[2] = me[2] }
          before == { j \in peers : OrderedLess(of(j), me) }
          after == { j \in peers : OrderedLess(me, of(j)) }
          previous == Previous(i, id, row, excluded)
          next == NextOf(i, id, row, excluded)
      IN  HasProbe(i, row) =>
            /\ IF before = {} THEN previous = Null
               ELSE previous \in before /\ \A j \in before : ~OrderedLess(of(previous), of(j))
            /\ IF after = {} THEN next = Null
               ELSE next \in after /\ \A j \in after : ~OrderedLess(of(j), of(next))

(* The overlaps of a row are exactly the other intervals of its group that  *)
(* share more than an end point with it, whatever subtrees the search has   *)
(* skipped (overlapping).                                                   *)
OverlapsFound ==
  \A i \in DOMAIN IntervalIndexes, row \in Rows, id \in Ids, excluded \in SUBSET Ids :
    LET group == KeyValues(row, IntervalIndexes[i].groupBy)
        me == IntervalEntry(<<i, group>>, id, row)
        of(j) == IntervalEntry(<<i, group>>, j, items[j])
    IN  IsInterval(me) /\ HasKey(row, IntervalIndexes[i].groupBy) =>
          Overlapping(i, id, row, excluded) =
            { j \in DOMAIN items \ (excluded \cup {id}) :
                /\ KeyValues(items[j], IntervalIndexes[i].groupBy) = group
                /\ IsInterval(of(j))
                /\ of(j).start < me.end /\ me.start < of(j).end }
=============================================================================
