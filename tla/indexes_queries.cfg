SPECIFICATION Spec
CONSTANTS
  Ids = {1, 2, 3}
  Rows <- MCRows
  Columns = {"p", "a", "b", "w", "s", "e", "o", "length"}
  Computed = {"length"}
  Indexed = {"p", "a", "b", "w"}
  Relations = {"p"}
  Association = "p"
  HasVariants = TRUE
  VariantColumns <- MCVariantColumns
  AggregateOptions <- MCAggregateOptions
  OrderedIndexes <- MCOrderedIndexes
  IntervalIndexes <- MCIntervalIndexes
  RangeIndexes = {{"a", "b"}}
  Priority <- MCPriority
  LeafSize = 1
  Filters <- MCFilters
  SortKeys <- MCSortKeys
  Pages <- MCPages
  Aggregations <- MCAggregations
INVARIANTS
  TypeOK
  IndexIsImage
  NeighboursFound
  OverlapsFound
  QueriesComplete
  PagesAgree
  AggregatesAgree
CHECK_DEADLOCK FALSE
