----------------------------- MODULE MCQueries -----------------------------
(* A small container with one of each index, and queries that take every    *)
(* plan, for TLC.                                                           *)
EXTENDS Queries

Row(variant, p, a, b, w, s, e, o) ==
  [variant |-> variant,
   values |-> [p |-> p, a |-> a, b |-> b, w |-> w, s |-> s, e |-> e, o |-> o,
              length |-> e - s]]

\* Variants 1 and 2; w belongs to variant 1; length is computed; -1 is Null.
MCRows ==
  { Row(1, 0, 1, 2, 1, 0, 2, 1), Row(1, 0, 1, 2, 1, 1, 3, 1), Row(1, 0, 2, 1, 2, 2, 3, 2),
    Row(1, 1, 3, -1, 1, 3, 0, 2), Row(2, -1, -1, 0, -1, 1, 1, -1) }
MCVariantColumns == [w |-> 1]
MCAggregateOptions ==
  [a |-> [sum |-> TRUE, minMax |-> TRUE, byParent |-> TRUE],
   w |-> [sum |-> TRUE, minMax |-> FALSE, byParent |-> FALSE]]
MCOrderedIndexes == <<[groupBy |-> <<"p">>, orderBy |-> <<"o">>]>>
MCIntervalIndexes == <<[groupBy |-> <<"p">>, start |-> "s", end |-> "e"]>>
MCPriority(entry) == (entry.id * 5 + entry.start * 3 + entry.end) % 7

Where(field, op, value) == [kind |-> "filter", field |-> field, op |-> op, value |-> value]
Not(e) == [kind |-> "not", children |-> <<e>>]
And(e, f) == [kind |-> "and", children |-> <<e, f>>]
Or(e, f) == [kind |-> "or", children |-> <<e, f>>]

MCFilters ==
  { [kind |-> "empty"], Where("p", "=", 0), Where("p", "=", -1), Where("w", "#", 1),
    Not(Where("w", "=", 1)), Not(And(Where("a", ">", 1), Or(Where("w", "=", 2), Where("variant", "=", 2)))),
    And(Where("a", ">=", 1), Where("b", "<", 2)), And(Where("a", "#", 2), Where("b", ">", 1)),
    And(Where("p", "=", 0), And(Where("a", "<=", 1), Where("id", ">", 1))),
    Or(Where("p", "=", 0), Or(Where("p", "=", 1), Where("p", "=", 0))),
    [kind |-> "and", children |-> <<Where("p", "=", 0), Where("s", "<", 3), Where("e", ">", 1)>>],
    Not(Or(Where("a", "<", 2), Where("o", "=", 2))) }

By(field) == [field |-> field, descending |-> FALSE]
Down(field) == [field |-> field, descending |-> TRUE]
MCSortKeys == { <<>>, <<By("o")>>, <<Down("a")>>, <<By("p"), Down("b")>>, <<By("w"), By("id")>> }

MCPages == { [offset |-> 1, limit |-> 1], [offset |-> 1, limit |-> Unlimited],
             [offset |-> 1, limit |-> 0] }

MCAggregations ==
  { [kind |-> "count", field |-> "none", groupBy |-> "none"],
    [kind |-> "count", field |-> "none", groupBy |-> "p"],
    [kind |-> "sum", field |-> "a", groupBy |-> "p"],
    [kind |-> "sum", field |-> "w", groupBy |-> "none"],
    [kind |-> "minimum", field |-> "a", groupBy |-> "none"],
    [kind |-> "maximum", field |-> "a", groupBy |-> "p"] }
=============================================================================
