------------------------------- MODULE Queries -------------------------------
(***************************************************************************)
(* Queries and views over the indexed items (DocumentEngine::query and the *)
(* functions it plans with, src/engine.cpp; query.cpp; view.cpp).  A query *)
(* picks candidates from the indexes, walks them in the order of an index  *)
(* when it can and sorts them when it cannot, and evaluates the filter on  *)
(* every item it emits; counts and aggregates of some views come from the  *)
(* indexes alone.                                                          *)
(*                                                                         *)
(* An expression is [kind |-> "empty"], [kind |-> "filter", field, op,     *)
(* value] or [kind |-> "and" | "or" | "not", children].  A field is "id",  *)
(* "variant" or a column; a column with an association stands for the      *)
(* relation (FieldKind::Parent).  A sort key is [field, descending].       *)
(*                                                                         *)
(* table() and list() queries differ in useListDefaultOrder only; both are *)
(* asked of the same items here.                                           *)
(***************************************************************************)
EXTENDS RuntimeIndex
LOCAL INSTANCE SequencesExt

CONSTANTS
  Filters,       \* the expressions asked
  SortKeys,      \* the sequences of sort keys asked
  Pages,         \* the [offset, limit] asked, Unlimited for no limit
  Aggregations   \* [kind, field, groupBy], Null or column for the last two

Unlimited == Null

--------------------------------------------------------------------------
\* What a filter says of an item.

FieldApplies(row, field) == field \notin {"id", "variant"} => Applies(row, field)

FieldValue(id, field) ==
  CASE field = "id" -> id
    [] field = "variant" -> items[id].variant
    [] ~FieldApplies(items[id], field) -> Null
    [] OTHER -> items[id].values[field]

RECURSIVE Matches(_, _)
Matches(id, e) ==
  CASE e.kind = "empty" -> TRUE
    [] e.kind = "filter" ->
         FieldApplies(items[id], e.field) /\ Compare(FieldValue(id, e.field), e.op, e.value)
    [] e.kind = "and" -> \A i \in DOMAIN e.children : Matches(id, e.children[i])
    [] e.kind = "or" -> \E i \in DOMAIN e.children : Matches(id, e.children[i])
    [] e.kind = "not" -> ~Matches(id, e.children[1])

Negation == [op \in {"=", "#", ">", "<", ">=", "<="} |->
  CASE op = "=" -> "#" [] op = "#" -> "=" [] op = ">" -> "<="
    [] op = "<" -> ">=" [] op = ">=" -> "<" [] op = "<=" -> ">"]

AlwaysApplies(field) == field \notin DOMAIN VariantColumns

\* Mutant of Normalized: every filter is reversed.
RECURSIVE NormalizedBlindly(_, _)
NormalizedBlindly(e, negated) ==
  CASE e.kind = "empty" -> IF negated THEN [kind |-> "not", children |-> <<e>>] ELSE e
    [] e.kind = "filter" -> IF negated THEN [e EXCEPT !.op = Negation[@]] ELSE e
    [] e.kind = "not" -> NormalizedBlindly(e.children[1], ~negated)
    [] e.kind \in {"and", "or"} ->
         [kind |-> IF (e.kind = "and") = ~negated THEN "and" ELSE "or",
          children |-> [i \in DOMAIN e.children |-> NormalizedBlindly(e.children[i], negated)]]

(* normalizeNegation: a negation moves to the leaves, and stays above a     *)
(* filter whose field some items do not have.                               *)
RECURSIVE Normalized(_, _)
Normalized(e, negated) ==
  CASE e.kind = "empty" \/ (e.kind = "filter" /\ (~negated \/ ~AlwaysApplies(e.field))) ->
         IF negated THEN [kind |-> "not", children |-> <<e>>] ELSE e
    [] e.kind = "filter" /\ negated /\ AlwaysApplies(e.field) -> [e EXCEPT !.op = Negation[@]]
    [] e.kind = "not" -> Normalized(e.children[1], ~negated)
    [] e.kind \in {"and", "or"} ->
         [kind |-> IF (e.kind = "and") = ~negated THEN "and" ELSE "or",
          children |-> [i \in DOMAIN e.children |-> Normalized(e.children[i], negated)]]

--------------------------------------------------------------------------
\* Candidates: [known, ids]; not known means every item.

NoCandidates == [known |-> FALSE, ids |-> {}]
Known(ids) == [known |-> TRUE, ids |-> ids]

RECURSIVE Equalities(_)
Equalities(e) ==
  CASE e.kind = "filter" /\ e.op = "=" /\ e.field \in Columns -> {<<e.field, e.value>>}
    [] e.kind = "and" -> UNION { Equalities(e.children[i]) : i \in DOMAIN e.children }
    [] OTHER -> {}

(* collectEqualityFilters and groupKeyFromEqualities: the group an index    *)
(* would be asked for.                                                      *)
HasGroupKey(columns, e) ==
  /\ \A p, q \in Equalities(e) : p[1] = q[1] => p[2] = q[2]
  /\ \A c \in ToSet(columns) : \E p \in Equalities(e) : p[1] = c /\ p[2] # Null

GroupKey(columns, e) ==
  [i \in DOMAIN columns |-> (CHOOSE p \in Equalities(e) : p[1] = columns[i])[2]]

FirstOrNull(indexes) == IF indexes = {} THEN Null ELSE CHOOSE i \in indexes : \A j \in indexes : i <= j

Bounding(e, column, op) ==
  SelectSeq(e.children, LAMBDA c : c.kind = "filter" /\ c.field = column /\ c.op = op)

(* intervalCandidatesForExpression: the first index with a whole group and  *)
(* a bound on either side; Null if there is none.                           *)
IntervalPlan(e) ==
  FirstOrNull({ i \in DOMAIN IntervalIndexes :
                  /\ HasGroupKey(IntervalIndexes[i].groupBy, e)
                  /\ Bounding(e, IntervalIndexes[i].start, "<") # <<>>
                  /\ Bounding(e, IntervalIndexes[i].end, ">") # <<>> })

IntervalCandidates(i, e) ==
  QueryInterval(i, GroupKey(IntervalIndexes[i].groupBy, e),
                Last(Bounding(e, IntervalIndexes[i].end, ">")).value,
                Last(Bounding(e, IntervalIndexes[i].start, "<")).value)

\* collectPureAndRangeConstraints
RECURSIVE PureAnd(_)
PureAnd(e) ==
  \/ e.kind = "empty"
  \/ e.kind = "filter" /\ e.value # Null
  \/ e.kind = "and" /\ \A i \in DOMAIN e.children : PureAnd(e.children[i])

RECURSIVE Leaves(_)
Leaves(e) ==
  CASE e.kind = "filter" -> <<[field |-> e.field, op |-> e.op, value |-> e.value]>>
    [] e.kind = "and" -> FlattenSeq([i \in DOMAIN e.children |-> Leaves(e.children[i])])
    [] OTHER -> <<>>

RangePlan(e) ==
  /\ PureAnd(e) /\ Len(Leaves(e)) > 1
  /\ \E index \in RangeIndexes : \A c \in ToSet(Leaves(e)) : c.field \in index

Intersected(known) ==
  IF known = {} THEN NoCandidates
  ELSE Known({ id \in UNION { c.ids : c \in known } : \A c \in known : id \in c.ids })

United(children, known) ==
  IF children = {} \/ children # known THEN NoCandidates
  ELSE Known(UNION { c.ids : c \in children })

AndCandidates(e, intervalPlan, known) ==
  CASE intervalPlan # Null -> Known(IntervalCandidates(intervalPlan, e))
    [] intervalPlan = Null /\ RangePlan(e) -> Known(QueryRangeIn(ToSet(Leaves(e))))
    [] OTHER -> Intersected(known)

RECURSIVE Candidates(_)
Combined(e, children, known) ==
  CASE e.kind = "not" ->
         Known(IF known = {} THEN {} ELSE store.containerItems \ (CHOOSE c \in known : TRUE).ids)
    [] e.kind = "and" -> AndCandidates(e, IntervalPlan(e), known)
    [] e.kind = "or" -> United(children, known)

WithKnown(e, children) == Combined(e, children, { c \in children : c.known })

Candidates(e) ==
  CASE e.kind = "empty" -> NoCandidates
    [] e.kind = "filter" ->
         IF e.field \in Columns \ Indexed THEN NoCandidates
         ELSE Known(QueryField(e.field, e.op, e.value))
    [] OTHER -> WithKnown(e, { Candidates(e.children[i]) : i \in DOMAIN e.children })

--------------------------------------------------------------------------
\* Orders.

Ascending(ids) == SetToSortSeq(ids, <)

StableSortBy(ids, key) ==
  LET before(i, j) ==
        LET x == FieldValue(ids[i], key.field)
            y == FieldValue(ids[j], key.field)
        IN  IF x = y THEN i < j ELSE IF key.descending THEN x > y ELSE x < y
      order == SetToSortSeq(DOMAIN ids, before)
  IN  [i \in DOMAIN ids |-> ids[order[i]]]

(* sortQueryItems: a stable sort by each key, the last key first *)
SortItems(ids, keys) == FoldRight(LAMBDA key, sorted : StableSortBy(sorted, key), keys, ids)

(* orderedField: the buckets of the scalar index, ids ascending in each *)
OrderedIds(field, descending) ==
  LET entries == { e \in store.scalar : e[1] = field }
      less(e, f) == IF e[2] = f[2] THEN e[3] < f[3]
                    ELSE IF descending THEN e[2] > f[2] ELSE e[2] < f[2]
      sorted == SetToSortSeq(entries, less)
  IN  CASE field = "id" -> IF descending THEN SetToSortSeq(store.containerItems, >)
                           ELSE Ascending(store.containerItems)
        [] field = "variant" /\ ~HasVariants -> Ascending(store.containerItems)
        [] OTHER -> [i \in DOMAIN sorted |-> sorted[i][3]]

(* orderedQueryPlanFor: an ordered index whose group the filter fixes and   *)
(* whose columns are the sort keys, all in one direction; Null for none.    *)
SortMatches(keys, orderBy) ==
  /\ keys # <<>> /\ Len(keys) = Len(orderBy)
  /\ \A i \in DOMAIN keys : keys[i].field = orderBy[i] /\ keys[i].descending = keys[1].descending

OrderedPlan(spec) ==
  FirstOrNull({ i \in DOMAIN OrderedIndexes :
                  /\ SortMatches(spec.sortKeys, OrderedIndexes[i].orderBy)
                  /\ HasGroupKey(OrderedIndexes[i].groupBy, spec.filter) })

PlanIds(i, spec) ==
  LET sorted == OrderedGroup(i, GroupKey(OrderedIndexes[i].groupBy, spec.filter))
      ids == [k \in DOMAIN sorted |-> sorted[k][4]]
  IN  IF spec.sortKeys[1].descending THEN Reverse(ids) ELSE ids

(* One sort key or more: the order of the first from its index, every run   *)
(* of equal first values sorted by the other keys.                          *)
RunsSorted(ids, filter, keys) ==
  LET kept == SelectSeq(ids, LAMBDA id : Matches(id, filter))
      value(id) == FieldValue(id, keys[1].field)
      add(runs, id) ==
        IF runs # <<>> /\ value(Last(runs)[1]) = value(id)
          THEN [runs EXCEPT ![Len(runs)] = Append(@, id)] ELSE Append(runs, <<id>>)
      sort(sorted, run) == sorted \o SortItems(run, Tail(keys))
  IN  FoldLeft(sort, <<>>, FoldLeft(add, <<>>, kept))

--------------------------------------------------------------------------
\* executeQueryResults

(* The lambda "emit", folded over the ids that are walked *)
Stream(ids, filter, offset, limit) ==
  LET emit(s, id) ==
        IF ~s.going \/ ~Matches(id, filter) THEN s
        ELSE IF s.skipped < offset THEN [s EXCEPT !.skipped = @ + 1]
        ELSE IF limit # Unlimited /\ Len(s.out) >= limit THEN [s EXCEPT !.going = FALSE]
        ELSE [s EXCEPT !.out = Append(@, id),
                       !.going = limit = Unlimited \/ Len(s.out) + 1 < limit]
  IN  FoldLeft(emit, [skipped |-> 0, out |-> <<>>, going |-> TRUE], ids).out

(* parentSelectionForExpression: the parent values a filter chooses from,   *)
(* if that is all it says.                                                  *)
NoSelection == [relation |-> "none", values |-> <<>>]

RECURSIVE ParentSelection(_)
ParentSelection(e) ==
  LET selections == [i \in DOMAIN e.children |-> ParentSelection(e.children[i])]
      all == FlattenSeq([i \in DOMAIN selections |-> selections[i].values])
      first(i) == \A j \in 1..(i - 1) : all[j] # all[i]
      unique == SelectSeq([i \in DOMAIN all |-> <<all[i], first(i)>>], LAMBDA p : p[2])
  IN CASE e.kind = "filter" /\ e.field \in Relations /\ e.op = "=" ->
            [relation |-> e.field, values |-> <<e.value>>]
       [] e.kind = "or" /\ selections # <<>> ->
            IF \E i \in DOMAIN selections :
                 selections[i] = NoSelection \/ selections[i].relation # selections[1].relation
              THEN NoSelection
              ELSE [relation |-> selections[1].relation,
                    values |-> [i \in DOMAIN unique |-> unique[i][1]]]
       [] OTHER -> NoSelection

Page(seq, offset, limit) ==
  SubSeq(seq, offset + 1,
         IF limit = Unlimited \/ offset + limit > Len(seq) THEN Len(seq) ELSE offset + limit)

IdsByListPosition(ids) ==
  LET position(id) == LET g == GroupOf(items[id].values[Association])
                      IN  IF id \in ToSet(g) THEN CHOOSE i \in DOMAIN g : g[i] = id ELSE 1
  IN  SetToSortSeq(ids, LAMBDA i, j : position(i) < position(j) \/ (position(i) = position(j) /\ i < j))

(* The order in which a query walks the items, the candidates among ids:    *)
(* along an index, or the matching items sorted.                            *)
Matching(ids, filter) == SelectSeq(ids, LAMBDA id : Matches(id, filter))
Only(order, ids) == SelectSeq(order, LAMBDA id : id \in ids)

TableOrder(spec, ids, plan, keys) ==
  CASE plan # Null -> Only(PlanIds(plan, spec), ids)
    [] plan = Null /\ keys = <<>> -> Ascending(ids)
    [] plan = Null /\ Len(keys) > 1 /\ ~AlwaysApplies(keys[1].field) ->
         SortItems(Matching(Ascending(ids), spec.filter), keys)
    [] OTHER ->
         RunsSorted(Only(OrderedIds(keys[1].field, keys[1].descending), ids), spec.filter, keys)

ListOrder(spec, ids, selection) ==
  CASE spec.sortKeys = <<>> /\ Len(selection.values) = 1 -> GroupOf(selection.values[1])
    [] spec.sortKeys = <<>> /\ Len(selection.values) # 1 -> IdsByListPosition(ids)
    [] OTHER -> SortItems(Matching(Ascending(ids), spec.filter), spec.sortKeys)

CandidateIds(candidates) == IF candidates.known THEN candidates.ids ELSE store.containerItems

WalkOrder(spec, listOrder, ids) ==
  IF listOrder THEN ListOrder(spec, ids, ParentSelection(spec.filter))
  ELSE TableOrder(spec, ids, OrderedPlan(spec), spec.sortKeys)

Execute(spec, listOrder, offset, limit) ==
  Stream(WalkOrder(spec, listOrder, CandidateIds(Candidates(spec.filter))),
         spec.filter, offset, limit)

--------------------------------------------------------------------------
\* View

(* DocumentEngine::query *)
Query(filter, keys, listOrder) ==
  [kind |-> "query", listOrder |-> listOrder, offset |-> 0, limit |-> Unlimited,
   spec |-> [filter |-> Normalized(filter, FALSE), sortKeys |-> keys]]

(* View::filter, sort, limit and offset *)
Filtered(view, filter) ==
  [kind |-> "filtered", source |-> view, filter |-> filter, offset |-> 0, limit |-> Unlimited]
Sorted(view, keys) ==
  [kind |-> "sorted", source |-> view, keys |-> keys, offset |-> 0, limit |-> Unlimited]
Limited(view, count) ==
  [view EXCEPT !.limit = IF @ = Unlimited \/ count < @ THEN count ELSE @]
Shifted(view, count) == [view EXCEPT !.offset = @ + count]

RECURSIVE ToVector(_)
ToVector(view) ==
  CASE view.kind = "query" -> Execute(view.spec, view.listOrder, view.offset, view.limit)
    [] view.kind = "filtered" ->
         Page(SelectSeq(ToVector(view.source), LAMBDA id : Matches(id, view.filter)),
              view.offset, view.limit)
    [] view.kind = "sorted" ->
         Page(SortItems(ToVector(view.source), view.keys), view.offset, view.limit)

Min2(x, y) == IF x < y THEN x ELSE y
(* Mutant of CountWithOffsetLimit: the limit is taken before the offset. *)
CountLimitFirst(total, offset, limit) ==
  LET taken == IF limit = Unlimited THEN total ELSE Min2(limit, total)
  IN  IF offset >= taken THEN 0 ELSE taken - offset

CountWithOffsetLimit(total, offset, limit) ==
  IF offset >= total THEN 0
  ELSE IF limit = Unlimited THEN total - offset ELSE Min2(limit, total - offset)

CountParent(selection) ==
  FoldLeft(LAMBDA n, v : n + CopiesIn(<<selection.relation, v>>, store.parentCounts),
           0, selection.values)

Selection(view) ==
  IF view.kind = "query" THEN ParentSelection(view.spec.filter) ELSE NoSelection

Count(view) ==
  IF Selection(view) # NoSelection
    THEN CountWithOffsetLimit(CountParent(Selection(view)), view.offset, view.limit)
    ELSE Len(ToVector(view))

(* View::empty: a query is asked for one item, whatever its limit *)
Empty(view) ==
  IF view.kind = "query" THEN ToVector([view EXCEPT !.limit = 1]) = <<>> ELSE Count(view) = 0

--------------------------------------------------------------------------
\* Aggregates: sets of [group, value], group <<>> or <<the group's key>>.

OneRow(value) == { [group |-> <<>>, value |-> value] }

BucketValue(bucket, kind) ==
  CASE kind = "sum" -> bucket.sum
    [] kind = "minimum" -> IF bucket.values = EmptyBag THEN Null
                           ELSE CHOOSE x \in DOMAIN bucket.values : \A y \in DOMAIN bucket.values : x <= y
    [] kind = "maximum" -> IF bucket.values = EmptyBag THEN Null
                           ELSE CHOOSE x \in DOMAIN bucket.values : \A y \in DOMAIN bucket.values : x >= y

IsKept(aggregation, grouped) ==
  /\ aggregation.field \in { k[1] : k \in DOMAIN store.aggregates }
  /\ grouped => AggregateOptions[aggregation.field].byParent
  /\ aggregation.kind = "sum" => AggregateOptions[aggregation.field].sum
  /\ aggregation.kind # "sum" => AggregateOptions[aggregation.field].minMax

MergedBuckets(b, c) ==
  [count |-> b.count + c.count, sum |-> b.sum + c.sum, values |-> b.values (+) c.values]

(* RuntimeIndexStore::aggregate over the whole container, and               *)
(* aggregateParentSelection; NotIndexed where they return nullopt.          *)
NotIndexed == { [group |-> <<Null, Null>>, value |-> Null] }

AggregateAll(a) ==
  LET ofGroups == { k \in DOMAIN store.aggregates : k[1] = a.field /\ k[2] = a.groupBy }
  IN CASE a.kind = "count" /\ a.groupBy = "none" -> OneRow(Cardinality(store.containerItems))
       [] a.kind = "count" /\ a.groupBy # "none" ->
            { [group |-> <<k[2]>>, value |-> store.parentCounts[k]] :
                k \in { j \in DOMAIN store.parentCounts : j[1] = a.groupBy } }
       [] a.kind # "count" /\ ~IsKept(a, a.groupBy # "none") -> NotIndexed
       [] a.kind # "count" /\ IsKept(a, a.groupBy # "none") /\ a.groupBy = "none" ->
            OneRow(BucketValue(store.aggregates[<<a.field, "total", Null>>], a.kind))
       [] OTHER ->
            { [group |-> <<k[3]>>, value |-> BucketValue(store.aggregates[k], a.kind)] : k \in ofGroups }

AggregateSelection(a, selection) ==
  LET counts == { k \in DOMAIN store.parentCounts :
                    k[1] = selection.relation /\ k[2] \in ToSet(selection.values) }
      chosen == { k \in DOMAIN store.aggregates :
                    k[1] = a.field /\ k[2] = selection.relation /\ k[3] \in ToSet(selection.values) }
      merged == FoldLeft(LAMBDA b, k : MergedBuckets(b, store.aggregates[k]), EmptyBucket, SetToSeq(chosen))
  IN CASE a.groupBy \notin {"none", selection.relation} -> NotIndexed
       [] a.kind = "count" /\ a.groupBy # "none" ->
            { [group |-> <<k[2]>>, value |-> store.parentCounts[k]] : k \in counts }
       [] a.kind = "count" /\ a.groupBy = "none" ->
            IF CountParent(selection) = 0 THEN NotIndexed ELSE OneRow(CountParent(selection))
       [] a.kind # "count" /\ ~IsKept(a, TRUE) -> NotIndexed
       [] a.kind # "count" /\ IsKept(a, TRUE) /\ a.groupBy # "none" ->
            { [group |-> <<k[3]>>, value |-> BucketValue(store.aggregates[k], a.kind)] : k \in chosen }
       [] OTHER -> IF merged.count = 0 THEN NotIndexed ELSE OneRow(BucketValue(merged, a.kind))

(* The fallback of View::aggregate, row by row over the items of the view *)
Accumulated(a, ids) ==
  LET value(id) == FieldValue(id, a.field)
      step(row, id) ==
        CASE a.kind = "count" -> IF row = Null THEN 1 ELSE row + 1
          [] a.kind = "sum" -> NumericValue(row) + NumericValue(value(id))
          [] a.kind = "minimum" -> IF row = Null \/ value(id) < row THEN value(id) ELSE row
          [] a.kind = "maximum" -> IF row = Null \/ value(id) > row THEN value(id) ELSE row
  IN  FoldLeft(step, Null, ids)

EvaluatedAggregate(a, ids) ==
  IF a.groupBy = "none" THEN OneRow(Accumulated(a, ids))
  ELSE { [group |-> <<g>>,
          value |-> Accumulated(a, SelectSeq(ids, LAMBDA id : FieldValue(id, a.groupBy) = g))] :
           g \in { FieldValue(id, a.groupBy) : id \in ToSet(ids) } }

IndexedAggregate(view, a) ==
  CASE view.kind # "query" \/ view.offset # 0 \/ view.limit # Unlimited -> NotIndexed
    [] view.kind = "query" /\ view.spec.filter.kind = "empty" -> AggregateAll(a)
    [] Selection(view) # NoSelection -> AggregateSelection(a, Selection(view))
    [] OTHER -> NotIndexed

Aggregate(view, a) ==
  IF IndexedAggregate(view, a) = NotIndexed THEN EvaluatedAggregate(a, ToVector(view))
  ELSE IndexedAggregate(view, a)

--------------------------------------------------------------------------
\* Properties

RECURSIVE FieldsOf(_)
FieldsOf(e) ==
  CASE e.kind = "empty" -> {}
    [] e.kind = "filter" -> {e.field}
    [] OTHER -> UNION { FieldsOf(e.children[i]) : i \in DOMAIN e.children }

(* The queries that the indexes answer in full.  The plans lose items that  *)
(* an index does not hold: a range index those without a number, an         *)
(* interval index those with no proper interval, an ordered index those     *)
(* without a key, a scalar index those without the column; a list query     *)
(* takes the one parent it selects for the name of a list.                  *)
IndexHolds(filter, keys, listOrder) ==
  LET normalized == Normalized(filter, FALSE)
      spec == [filter |-> normalized, sortKeys |-> keys]
      plan == OrderedPlan(spec)
      selection == ParentSelection(normalized)
      matching == { id \in DOMAIN items : Matches(id, filter) }
  IN  /\ \A id \in matching, c \in FieldsOf(filter) \cap UNION RangeIndexes :
           items[id].values[c] # Null
      /\ \A i \in DOMAIN IntervalIndexes, id \in matching :
           {IntervalIndexes[i].start, IntervalIndexes[i].end} \cap FieldsOf(filter) # {} =>
             IsInterval(IntervalEntry(<<i>>, id, items[id]))
      /\ ~listOrder /\ plan # Null =>
           \A id \in matching : HasKey(items[id], OrderedIndexes[plan].orderBy)
      /\ ~listOrder /\ plan = Null /\ keys # <<>> =>
           /\ keys[1].field \in Indexed \cup {"id", "variant"}
           /\ Len(keys) > 1 \/ AlwaysApplies(keys[1].field)
      /\ listOrder /\ keys = <<>> /\ Len(selection.values) = 1 =>
           selection.relation = Association /\ selection.values[1] # Null

InOrder(ids, keys) ==
  \A i, j \in DOMAIN ids : i < j =>
    \/ \A k \in DOMAIN keys : FieldValue(ids[i], keys[k].field) = FieldValue(ids[j], keys[k].field)
    \/ \E k \in DOMAIN keys :
         LET x == FieldValue(ids[i], keys[k].field)
             y == FieldValue(ids[j], keys[k].field)
         IN  /\ IF keys[k].descending THEN x > y ELSE x < y
             /\ \A m \in 1..(k - 1) :
                  FieldValue(ids[i], keys[m].field) = FieldValue(ids[j], keys[m].field)

(* Whatever indexes a query is planned over, it returns every item its      *)
(* filter holds of, as it was written and not as it was normalised, each    *)
(* once, and in the order of its sort keys, the later keys among equals of  *)
(* the earlier ones (executeQueryResults).                                  *)
QueriesComplete ==
  \A filter \in Filters, keys \in SortKeys, listOrder \in BOOLEAN :
    IndexHolds(filter, keys, listOrder) =>
      LET result == ToVector(Query(filter, keys, listOrder))
      IN  /\ ToSet(result) = { id \in DOMAIN items : Matches(id, filter) }
          /\ Cardinality(ToSet(result)) = Len(result)
          /\ InOrder(result, keys)

(* A page of a query is that part of the whole answer, the count of a page  *)
(* is the number of its items also when it comes from the parent counts,    *)
(* and empty() says whether it has one: streaming stops neither early nor   *)
(* late.  Only empty() does not see a limit of 0.                           *)
Cut(view, p) == Shifted(IF p.limit = Unlimited THEN view ELSE Limited(view, p.limit), p.offset)

PageAgrees(cut, page, p, whole, held) ==
  /\ page = Page(whole, p.offset, p.limit)
  /\ held => Count(cut) = Len(page)
  /\ p.limit # 0 => (Empty(cut) <=> page = <<>>)

ViewAgrees(view, whole, held, keys) ==
  /\ \A p \in Pages : PageAgrees(Cut(view, p), ToVector(Cut(view, p)), p, whole, held)
  /\ ToVector(Filtered(Sorted(view, Reverse(keys)), view.spec.filter)) = SortItems(whole, Reverse(keys))

PagesAgree ==
  \A filter \in Filters, keys \in SortKeys, listOrder \in BOOLEAN :
    LET view == Query(filter, keys, listOrder)
    IN  ViewAgrees(view, ToVector(view), IndexHolds(filter, keys, listOrder), keys)

(* The aggregates kept in the indexes, over all items or over those of some *)
(* parents, are the ones the items of the view give, group by group.  Null  *)
(* is no part of minimum and maximum, where the two differ.                 *)
AggregatesAgree ==
  \A filter \in Filters, a \in Aggregations :
    LET view == Query(filter, <<>>, FALSE)
        ids == ToVector(view)
        hasValues == \A id \in DOMAIN items :
                       a.kind \in {"minimum", "maximum"} => FieldValue(id, a.field) # Null
    IN  hasValues /\ ids # <<>> => Aggregate(view, a) = EvaluatedAggregate(a, ids)
==============================================================================
