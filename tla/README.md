# Verification of the dini document engine

dini is a single-threaded, in-memory document engine: tables of rows, lists of
elements ordered per association value, parent relations with cascading removal,
transactions, change sets, undo and redo, snapshots and replay. This directory
models it in TLA+. TLC checks the models on small instances; TLAPS proves some
of their properties for every value of the constants. Every definition is read
off the C++ source; `PROJECT.json` names the lines it stands for.

## Inventory

The engine runs in one thread; only the reference counts of its value classes
are shared between threads. What makes it hard is *order*: several
`Transaction` handles of one engine alive at once, undo and redo between their
calls, hooks and subscribers called back in the middle of a write, exceptions
thrown at any of these points, and positions (list indexes) recorded at one
moment and used at another.

| component | state | operations | interaction | what makes it correct |
|---|---|---|---|---|
| transaction lifecycle (`engine.cpp`, `transaction.h`) | `activeTransaction`; per handle `state`, `changeSet`, `rollbackApplied` | `beginTransaction`, write methods, `markFailed`, `commit`, `rollback`, `~Transaction`, `undo`, `redo` | the flag is shared by all handles and by undo and redo | one writer at a time; the flag says whether there is one; it is given up again; no uncommitted change outlives its writer |
| item ids | `epochSeconds`, `currentElapsedSecond`, `currentSecondCounter` | `generateItemId`, `observeItemId`, `restoreSnapshot` | host clock, snapshots, replayed change sets | an id is never given out twice by an engine instance |
| document and list groups | `items`, `listGroups`; `rollbackItems`, `rollbackListGroups` | `insert`, `remove`, `removeAt`, `update`, `rotate`, `insertSnapshot`, `eraseSnapshots`, `restoreRollbackJournal` | all write methods, undo, redo and replay go through the same helpers | groups, `listIndex` and `parentId` agree; parents exist and form no cycle; a failure leaves nothing behind |
| change sets (`change.cpp`, `applyChangeSet`) | sequence of operations | `append`, `invert`, `merge`, apply | rollback, undo, redo, replay, events | the inverse restores the document, whatever was recorded in whatever order |
| undo history | `undoStack`, `redoStack` | `commit`, `undo`, `redo`, `clearUndoHistory` | transactions that make no step change the document under the steps | history moves through whole documents, in commit order |
| snapshots, recovery | bytes; the host's log of change sets | `createSnapshot`, `restoreSnapshot`, `replayChangeSet` | id generator, history | snapshot and log give back the committed document |
| hooks | `hookStage`, `hookDepth`, pending snapshot of the outer write, copies of `Transaction::Impl` | `runHooks`, `TransactionContext`, `updatePendingBeforeApplySource` | a hook writes inside a write | the change set explains the document; a failure at any depth leaves nothing behind |
| events | subscriptions | `publish`, `subscribe`, `disconnect` | callbacks disconnect, throw, may subscribe and write | a subscriber that applies the events has the document |
| constraints | - | unique, nullable and computed columns | runtime indexes, hooks | no two items share a unique value in their scope |
| runtime indexes (`runtime_index.cpp`) | maps per column and per declared index, interval and range trees, aggregates | add, remove, update, rebuild; lookups, `previous`, `next`, `overlapping` | every document change | the index is the image of the document |
| queries and views (`engine.cpp`, `query.cpp`, `view.cpp`) | - | normalisation, plans, streaming, paging, counts, aggregates | runtime indexes | a plan finds what evaluation of the filter finds |
| schema and handles (`schema.cpp`, `handles.cpp`) | builders' definitions, frozen schemas, a process-wide schema counter | define, freeze, validate, compare with a snapshot | the engine relies on what freezing has checked | a handle means one thing; an accepted snapshot means the same |
| `SharedData` (`shareddata.h`) | reference counts | copy, move, detach, release | threads | every pointer is a value of its own |
| values, serialization (`value.cpp`, `change_log.cpp`) | - | conversions, readers and writers | - | round trips |

`PROJECT.json` lists the components again with what is modelled of them, and
under `hazards` every behaviour of this code that a unit test would hardly
reach, each at its line, with the properties that watch it or the reason why
none does.

## Modules

```
WriterLock   <--implements--  TransactionLifecycle  <-- MCTransactionLifecycle
                                     ^------------------ TransactionLifecycleProofs
                              ItemIds  <-- ItemIdsProofs
ListGroups  <--  BatchInsert
     ^------     Changes  <--  Document  --implements-->  EditHistory
                                  ^---- Recovery
                                  ^---- DocumentProofs  --uses-->  ListLemmas
                              Hooks  <-- HooksProofs  --uses-->  ListLemmas
                              Events  <-- MCEvents
                                ^------ EventsProofs  --uses-->  ListLemmas
IntervalTree, RangeTree  <--  RuntimeIndex  <--  Queries  <-- MCQueries
                              Schema  <-- MCSchema
                                ^------ SchemaProofs
SharedValues  <--implements-- SharedData  <-- MCSharedData
                                 ^------- SharedDataProofs
```

The modules named `MC...` give TLC its instance; `...Proofs` and `ListLemmas`
hold what TLAPS checks. Modules of one row are composed by `EXTENDS` or `INSTANCE`; between rows
the interface is what the code's interface is, a change set or a snapshot, and
each row keeps of it what its properties tell apart.

**TransactionLifecycle** has the handles of one engine, each in the states of
`TransactionState` plus `Unused` (not begun) and `Lost` (destroyed while its
rollback threw). Each public call is an action: `Begin`, `Write` (any write
method that succeeds), `Fail` (`markFailed`), `Commit`, `RollbackActive`,
`RollbackFailed` (the early return of `rollback` when the journal has already
been applied), `RollbackThrows`, `DestroyThrows`, `Undo`, `Redo`,
`ClearUndoHistory`. The document is reduced to the set of handles whose
uncommitted changes it holds, a change set to the kinds `createsUndoStep` tells
apart. Two constants name environments: `LateRollback` (may a failed handle be
rolled back while another transaction is active?) and `RollbackCanThrow`.
**WriterLock** is the abstract promise of `beginTransaction`: write access is
taken while it is free, by one handle, and given up.

**ItemIds** has the id generator next to the host around it: a clock that may be
set forward or back, a saved snapshot, the log of change sets since, restarts,
`restoreSnapshot`, `replayChangeSet`. An id is the pair of its two 32-bit halves;
their widths are constants, so that both wrap within reach. `RestoreInPlace`
says whether a snapshot may be restored into an engine already in use.

**ListGroups** has the functions on one list group: insert, remove, rotate, and
the planner that puts a batch of recorded elements back
(`planInsertedListGroups` with its free-slot index, and the shortcut for
contiguous tails). **BatchInsert** drives it: a list loses elements one by one
or by a cascade, and the inverse puts them back; the reference definition is the
other path of `applyChangeSet`, inserting one by one with retries.

**Changes** has documents (items with kind, parent and index; list groups by
parent) and the change operations on them as functions: `InsertSnapshot`,
`EraseSnapshots`, `UpdateAssociation`, `InvertOperation`, `ApplyOperation`, and
`ApplyChangeSet` with its runs, batches and pending insertions. Operations that
can throw return the document they leave. There are two kinds of items: rows,
which may have a parent (a row or, with `RowTarget = "elem"`, a list element),
and list elements, whose parent is the row they are listed under.

**Document** is the engine's document under one transaction at a time:
`InsertRow`, `InsertElem`, `RemoveItem` (with the cascade, in any order the hash
map may give), `RemoveAtIndex`, `Update`, `Rotate`, each succeeding or failing
(`Write`, `FailTo`), failures before any change (`FailBefore`), `Commit`,
`Rollback`, `Undo`, `Redo`. `FailTo` applies the journal (`Restored`), `Rollback`
the inverse change set, as in the code. **EditHistory** is the abstract promise:
a history of whole documents, in which a transaction ends in a new document or
in the old one, and undo and redo walk from one to the next. `Document`
implements it with the documents recorded beside each step.

**Recovery** adds a host to `Document` that keeps a snapshot and the change sets
of every commit, undo and redo behind it. `Recover` is a crash and restart at any
moment: `restoreSnapshot` of the items in any order (`RestoreRound` is one pass
of its loop), then `replayChangeSet` of the log. `Merge` is `ChangeSet::merge`.

**Hooks** has one transaction and the stack of its writes: a write that has been
validated waits in a frame for its `BeforeApply` hooks; these may start further
writes, each on a copy of the `Transaction::Impl` (`Frame` takes the copy,
`Return` and `CopiedBack` hand it back), or change the pending item in its
snapshot (`UpdatePending`). `Fail` is an exception at any point, with the journal
of the innermost copy. The items carry a plain, a unique and a computed column. As
in the code, an update records a change of the computed column behind its own,
and an insertion one from null, although the inserted item has the value already
(`InsertOperations`): the inverse makes the column null before it removes the item.
`Careless` names two things hooks can do that the code does not survive.

**Events** has `publish` one step per callback: `Deliver`, `Erase`, `Published`,
`Throw`. Each subscriber keeps two copies of a small document, one made from
AfterCommit events and one from AfterApply and Rollback; a copy that is updated
from another value than it has is broken for good.

**RuntimeIndex** has `RuntimeIndexStore` and the places of the engine that
maintain it: every kind of entry, with the early exit of `updateItem`, the
rebuild, and the lookups. Items leave it in three ways: several at once (`Erase`,
which may build the indexes anew), one alone (`EraseOne`), and by the inverse of
its insertion (`TakeBack`), after which the columns in `Computed` are null. **IntervalTree** is the treap with the largest ends,
its priority any function of the entry; **RangeTree** the tree of points that a
query rebuilds when it is dirty, and the search that takes or drops whole nodes.
**Queries** plans and runs queries over it as the engine does
(`normalizeNegation`, the candidates, ordered plans, `executeQueryResults`), and
has the views with their filters, sorts, pages, counts and aggregates. The
reference definition is always the evaluation of the filter, item by item.

**Schema** has several builders in one process, the handles they issue, freezing
(`validateFrozenSchema`), the lookup of a handle in a frozen schema, and
snapshots that outlive the process, compared as `matchesSerializedStructure`
does. Definitions take handles of any builder; only what the code refuses at once
is refused. The comparison does not read the ids of ordered and interval indexes,
and these are counted over all containers of a builder: in two schemas of equal
structure whose indexes were defined in another order, an index handle means
different indexes. That takes six definitions in each schema, more than the run
has; the proof of `AcceptedSnapshotsMeanTheSame` found it, and the property is of
all other handles since.

**SharedData** is `SharedDataPointer` with each atomic access a step of its own,
interleaved by threads that obey the rule of C++ value classes. **SharedValues**
is the abstract promise, a value per pointer.

Each module that models code also has a few definitions marked as mutants:
plausible mistakes in one of its definitions. Every property of a passing run is
violated when some definition is replaced by its mutant (`mutants` in
`PROJECT.json`); nothing else uses them.

## Runs

All runs pass.

| run | question | bounds |
|---|---|---|
| `lifecycle_safety` | Can handles, failures, throwing rollbacks and undo mix up write access or the order of history? | 3 handles, interchangeable; 2 recorded operations |
| `lifecycle_released` | Does the engine become free again, and is it a `WriterLock`? | 2 handles; 2 operations |
| `ids_fresh` | Is an id ever reused by an engine? | 2 seconds x 3 counter values, clock up to 2 |
| `batch_insert` | Does the planner agree with one-by-one insertion, and does undo restore the list? | all removal sequences of 6 elements |
| `doc_edit` | Do lists, indexes and parents stay consistent, and does history restore whole documents, with all write methods? | 5 ids, 1 operation per transaction, 2 steps |
| `doc_tree` | The same for longer transactions on rows below list elements. | 5 ids, 3 operations, 1 step |
| `recovery` | Do snapshot and log give back the committed document, and merged change sets the same step? | 3 ids, 3 operations, log of 3 |
| `hooks` | Does the change set explain the document whatever hooks write, and does a failure leave nothing? | 3 ids, 3 operations (those of computed columns come with them), depth 3 |
| `events` | Does a subscriber that follows the events have the document? | 3 subscribers, 2 values, 2 operations, 2 steps |
| `indexes_queries` | Are the indexes the image of the items, and do plans find what evaluation finds? | 3 items of 5 rows, one index of each kind, a computed column without one, 12 filters, 5 orders, 3 pages, 6 aggregations |
| `schema_handles` | Do handles and snapshots mean the same wherever they are accepted? | 2 builders, 2 containers, 2 columns, 5 definitions, 1 restart |
| `shared_data` | Are counts exact, and is a pointer a value of its own? | 2 threads, 3 pointers, 4 blocks |

*Why the bounds are enough.* Three handles are the least that show a late
rollback harming someone else (one failed, one active, one let in). Two seconds
and three counter values let the counter wrap, borrow from the future, and be
overtaken by the clock. Six elements give the planner runs with gaps, tails and
several elements at one index; the shortest list that distinguishes the orders
has four. Five ids allow two lists, a move between them, a row below an element
below a row, and a fresh id after a failed insert took one. Two steps let undo
follow undo, redo follow redo, and a commit cut the redo stack. Recovery needs a
list whose order matters (two elements), a row that a logged transaction inserts,
and an update before and after it. Depth 3 puts a hook's write below a hook's
write below the client's, the least at which a copy is copied back into a copy;
three ids let an item be removed and its unique value given to a new one. Three
subscribers let the middle one disconnect itself, the one before or the one
after. The rows of `indexes_queries` have nulls, both variants, equal keys, and
an interval that is none; with a leaf size of one (32 in the code) three points
already make a range tree with inner nodes, and the priorities are chosen to make
the interval tree rotate both ways. Two builders and one restart are the least at
which two schemas share their numbers, in one process and across two; four
blocks let each pointer own one and a thread make another.

*Deadlock* is not checked where the model may come to an end: a handle is begun
once, a batch is put back once, schemas have a bounded number of definitions, and
threads may find all blocks in use. A document that is full of items, in
`indexes_queries`, only updates and erases.

## Where code and documentation disagree

The passing runs exclude what is known to go wrong, each by a constant, a
method or a condition that has a name. Lifting it makes TLC show the
disagreement; `findings` in `PROJECT.json` quotes the code and the documentation.

| what | change | violated |
|---|---|---|
| rollback of a failed handle while another is active | `lifecycle_safety`: `LateRollback = TRUE` | `FlagTracksWriter`, `SingleWriter` |
| snapshot restored into an engine in use | `ids_fresh`: `RestoreInPlace = TRUE` | `GeneratorDominates`, `FreshIds` |
| cascade in hash order after other removals | `batch_insert`: `RemovalsUndone` for `OrderedRemovalsUndone`; `doc_tree`: `MixedCascades = TRUE` | `RemovalsUndone`, `HistorySpec` |
| failed write leaves a wrong `listIndex` | `doc_edit`: `FailAnywhere = TRUE` | `ListsConsistent` |
| commit without a step below a step that is undone | `doc_edit`: `UnsteppedCommits = TRUE` | `HistorySpec`, `ParentsSound` |
| `removeAt` of an element that rows have as parent | `doc_tree`: `"removeAt"` in `Methods` | `ParentsSound` |
| merge moves an update before the insertion it needs | `recovery`: `MergedCommitsReplay` without `UpdatesAdjacent` | `MergedCommitsReplay` |
| hook overwrites or removes what a waiting update writes back | `hooks`: `Careless = {"overlap"}` | `ChangeSetExplainsDocument` |
| hook takes a unique value a waiting update was validated with | `hooks`: `Careless = {"uniques"}` | `UniqueValues` |
| subscriber throws in AfterCommit: later ones miss the event | `events`: `"commit"` in `MayThrow` | `CommitCopiesFollow` |
| inverse of an insertion leaves the entry of an indexed computed column | `indexes_queries`: an indexed or aggregated column in `Computed` | `IndexIsImage` |
| plans lose items that an index does not hold | `indexes_queries`: `QueriesComplete` without a conjunct of `IndexHolds` (and with sort keys or rows that meet it) | `QueriesComplete` |
| `empty()` of a view with limit 0 | `indexes_queries`: `PagesAgree` without `p.limit # 0` | `PagesAgree` |

Each constant shuts out what its line shows and as little else as it can:
`FailAnywhere = FALSE` keeps failures after which every `listIndex` is right;
`MixedCascades = FALSE` keeps cascades that come first in their transaction or
collect each list from its end; `IndexHolds` keeps queries whose plan loses no
matching item; `Computed` has columns that no index and no aggregate reads. The
hazards in `PROJECT.json` that are shut out in this way name no property, and
those that are so in part say in their note which part is watched. `markFailed` publishes nothing, so that in `Events` a failed write
makes the AfterApply copies be read again. Found by reading, and outside the
models: a hook that swallows the exception of a nested write, a snapshot of items
with two relations, a replayed insertion of an id that exists.

Aggregates over views differ between plan and evaluation in smaller ways, which
`AggregatesAgree` leaves out: minimum and maximum skip nulls in the index and not
in the evaluation, a count of an empty view is 0 or null, and the sum of an index
stays a Double after it has held one (types of numbers are not modelled).

## Fairness

`FairSpec` assumes that each handle which can end its transaction eventually
does: `Transaction` is an RAII object, so leaving its scope calls
`~Transaction`, which rolls back a transaction that is still active
(`engine.cpp`, `Transaction::~Transaction`). Nothing else is assumed; the
client need not write, undo or begin anything. With `RollbackCanThrow` the
property `WriterReleased` would be false: the destructor swallows the exception
and leaves the flag up (state `Lost`); that is why `lifecycle_released` excludes
it and `FlagTracksWriter` counts a lost handle as a writer. Everything else in
dini happens inside a call of the client, and is over when the call is: there is
no other liveness to state.

## Proofs

TLAPS proves, for every value of the constants, most of the safety properties
that the runs check on small instances. Each proof has an inductive invariant;
TLC checked it on the instance of the run before it was proved, except for that
of *DocumentProofs*, which speaks of ranks and paths TLC cannot enumerate.

*TransactionLifecycleProofs*, for any set of handles and any bound on
operations:

- `TypeCorrect`: `TypeOK` is inductive as it stands. It says of the stacks that
  they hold undo steps only, of transactions that are committed, undoable and
  worth a step; a committed handle changes no more, so that a step stays one.
- `WriterAccess`, `FlagInStep` and `UncommittedOwned` (if not `LateRollback`):
  `SingleWriter`, `FlagTracksWriter` and `UncommittedHasWriter`. They are not
  inductive: a lost handle must count as a writer, or `Begin` could follow it,
  and a handle whose journal has been applied must be on its way out, or `Fail`
  would leave the flag up. `WriterInv` adds both.
- `ImplementsWriterLock` and `UndoSeesCommitted`: each step from a state of
  `WriterInv` takes, keeps or gives up write access; undo and redo find the flag
  down, so no writer, so nothing uncommitted.
- `HistoryInOrder`, unconditionally: with every stacked step committed no later
  than now (`HistoryInv`), a new step is the latest, and moving the top of one
  stack to the other keeps the order of both.

*ItemIdsProofs*, for fields of any width and any clock: `TypeCorrect`; and, if
not `RestoreInPlace`, `GeneratorStaysAhead` (the generator is not behind any id
the engine has held, nor a saved generator behind its snapshot) and
`IdsAreFresh`, which follows because `NextId` is strictly above the generator
until the id space is used up. The proofs assume the id space is not exhausted
(`IdSpaceLeft`, a guard of the model): 2^64 ids.

*SharedDataProofs*, for any finite sets of threads and pointers and any blocks:

- `CountsExact`: `BlocksCounted`. The count of a block is the number of
  references to it, but a thread between two atomic accesses holds one that no
  pointer shows, or has given one up that a pointer still shows. `CountInv`
  counts both, and has the rule of use: no thread works on a pointer that
  another one writes.
- `ImplementsValues`: `SharedData` implements `SharedValues`. `ValueInv` adds
  what detach relies on: a thread about to write in place holds the only
  reference (`WritesExclusive`), although it read the count some steps ago. Every
  step then maps to one write, copy or move of a value, or to none.

*SchemaProofs*, for any number of builders, containers, columns and definitions:

- `ResolveAtHome` and `FrozenSound`, from `SchemaInv`: what a builder has issued
  has its schema number, which no other builder shares, and positions below the
  number of its definitions; a frozen schema is its builder's definitions as
  freezing checked them, since a frozen builder takes no more.
- `AcceptedMeansTheSame`: the structure that is compared determines what each
  handle means, but for index handles (see *Schema* above).

*EventsProofs*, for any subscribers, cells, values and bounds:

- `CommitFollowed` (`CommitCopiesFollow`) and `ApplyFollowed`
  (`ApplyCopiesFollow`), if subscribers throw at most in AfterApply and Rollback
  of a write (`MayThrow` within `{"write"}`; in AfterCommit the first is false,
  see the table above). `EventsInv` says where each subscriber is: it has the
  document the event under way leads to, or, if it has not been called yet, the
  one that it leads from; and which documents the stacks of change sets lead
  through.
- `MergedLeads`: the change set `ChangeSet::merge` makes of a transaction's leads
  where the transaction's does.

*HooksProofs*, for any number of items, operations and nested hooks, if the hooks
are careful (`Careless = {}`; with either kind of carelessness TLC shows a
property violated, see above):

- `FailureUndone` (`FailureUndoesEverything`): `HooksInv` says that the journal
  of the innermost write has every item that differs from when the transaction
  began, as it was then (`Covers`), so that restoring this one is enough though
  the outer writes keep older copies.
- `ChangeSetExplains` (`ChangeSetExplainsDocument`): while writes are under way
  the change set does not lead to the document. A hook's change of the item it
  waits for is recorded at once and applied later, and the invariant therefore
  has it lead to the document with all that is pending (`Expected`, `Merged`).
  An insert that waits can be changed without a trace, since its operations are
  made when it is applied; both of them, the item and its computed column, are
  in the change set, and the way back passes through an item whose computed
  column is null, which the way there does not (`LeadsInsert`).
- `UniqueKept` (`UniqueValues`): an update is validated before its hooks and not
  after them. It holds because above a waiting update no write takes a unique
  value (`UniquesLeft`), so that what was free stays free.

*DocumentProofs*, for any number of ids, rows, elements, undo steps and operations:

- `OperationUndone`, for every sound document: whatever operation a write method
  can record, its inverse applied after it restores the document, each list and
  each index of it, and the document between the two is sound.
- `TypeCorrect`, `ListsStayConsistent`, `ParentsStaySound` and
  `ImplementsHistory`: `TypeOK`, `ListsConsistent`, `ParentsSound` and
  `HistorySpec`, on the instances of `Scope` (below).

A document is sound (`Sound`) when its lists and its indexes agree (`InOrder`)
and its parents are of the right kind and come nearer to a root (`Rooted`: some
rank falls from each item to its parent, which excludes cycles without saying how
far they reach). All write methods but `rotate` are shown to be moves of one item
(`Move`): out of the list it is in, into the list of its new snapshot, with the
indexes behind it refreshed. `Moved` says what a move leaves, `MovedBack` that
the move to the old snapshot undoes it; a rotation is undone by the negative
offset (`ListTurnedBack`, by `Turned`, arithmetic modulo the window). `ValidParent`
follows the parents upwards as far as there are ids; that this is far enough
to find a cycle (`LineageClosed`) is a pigeonhole argument, and with it a new
parent that passes the check gives a document that again has a rank (`Attached`).
Each write method is then an instance of `Written`: the operation it records, if
applied, does what the method did; its inverse undoes it; and the document
changed, but for indexes, only in items and groups that it has put into the
journal.

`DocInv` is the inductive invariant. The properties are not inductive, for undo
applies recorded operations to a document that they must fit. `DocInv` says that
the change set of the open transaction leads from `base` to `doc` by operations
with inverses (`Connects`), that the journal has what is needed to come back
(`JournalOf`), and that both stacks are trails (`Trail`): each step leads from
one sound document to the next, the last to the present one, and none of these
documents has an item whose id is still to be given out (`Fresh`). The journal
needs one more argument: `restoreRollbackJournal` puts groups back and refreshes
no index, so it restores the document exactly if the indexes come out right
(`Numbered`), which is what `FailAnywhere = FALSE` says of the writes that fail.

`Scope` has the instances these four theorems are about: all write methods, and
all values of the constants but those with which the properties do not hold
(`FailAnywhere`, `UnsteppedCommits`, `MixedCascades`, or `removeAt` of elements
that rows have as parents; see *Where code and documentation disagree*).
`doc_edit` and `doc_tree` are instances of it.

`applyChangeSet` makes insertions of items that follow each other at once, and
removals likewise, which is why a change set does not simply lead from document
to document. `InRuns` shows that it ends where its operations lead one by one, for
the change sets that the write methods record and their inverses. `RetainFacts`
says that filtering a list by a set of removed elements is taking them out one
after the other, in any order. Of the planner of insertions, *ListLemmas* says
that it gives the list which the insertions, one after the other at the indexes
recorded, would give if all of them fit (`PlanBuilt`), and that into an empty list
it puts all elements at their final indexes, in whatever order they come
(`PlanListed`). `RemovalsTogether` and `InsertionsTogether` compare the runs with
their operations; and `InRuns` follows the fold that divides a change set into
runs along that which applies them.

`remove` takes an item with everything below it, list by list, and the documents
between its operations are in order but have items without their parents
(`Cut`): soundness comes back with the last operation (`CutSound`). The operations
record each item as it was before the removal, with an index it need not have
any more when it goes. Their inverse still leads back, for the elements join a
list that the cascade has emptied, and there the planner needs no more than final
indexes. So a change set may begin with such a cascade if the lists it empties
stay empty (`Connects`, `CascadeConnects`); further on in a change set a cascade
must take each list from its end, which makes its records exact (`CascadeExact`,
`CascadeLinks`). That is what `MixedCascades = FALSE` demands, and where it fails
the code's undo fails.

*EventsProofs* and *HooksProofs* understand a change set by where it *leads*. In
*EventsProofs* that is a trace of documents, each connected with the next by one
operation: appending an operation extends the trace, inverting reverses it, and
`ApplyLeads` shows that the fold `ApplyChangeSet` is modelled by ends where the
trace does. In *HooksProofs* the documents on the way back need not be those on
the way there, and a change set leads from one document to another if applying
it does, and applying its inverse leads back; `RunEnds` shows what the fold gives,
`ApplyAppend` and `ApplyInverse` take it apart in both directions. They rest on
an induction over the length of the change set. The library's induction theorems
take a predicate, which the provers here cannot instantiate; *ListLemmas* states
induction as a fact about sets of numbers instead (`Induction`, from the
well-foundedness of the order), and shows that the recursive function in the
definition of `FoldLeft` exists (`FoldExists`) and takes the operations in order
(`LastPosition`). It also has what `Front`, `RemoveAt` and `InsertAt` do to the
places of a sequence, and the lemmas about the planner of list insertions.
`applyChangeSet` is three folds one inside the other; *DocumentProofs* treats them, and the folds inside the runs, as one fold with
several kinds of steps (`Folded`, `FoldForms`), so that the induction is made
once (`FoldedIs`).

The assumptions on constants are what the code guarantees (`...Assumption` in
each module: bounds are natural numbers, sets finite where references are
counted, 0 is not a handle), and TLC evaluates them in every run.

*Only model-checked*:

- `WriterReleased`: liveness is out of the prover's reach.
- `IntervalTree`, `RangeTree`, `RuntimeIndex` and `Queries` reach recursive
  operators, which TLAPS does not take; all of `indexes_queries` stays with TLC.
- `BatchInsert` and `Recovery`. `PlanListed` compares the planner with insertions
  one by one that all fit; in a batch whose elements come in another order, the
  planner must be compared with retries whose number depends on that order, and
  a list is in disorder between two of them; the invariant of that is larger
  than those above.

## Not modelled

- *Values and byte formats* (`value.cpp`, `change_log.cpp`): conversions without
  state. Truncated input matters only through the exception it raises.
- *Types and widths of numbers* in values: comparisons and sums are of integers.
  `rotate` adds `startIndex` and `count` in `size_t`; the model does not wrap.
- *Links to derived operations* in change sets: nothing in the engine acts on
  them.
- *Hooks* of list insertion, rotation, `removeAt` and updates of several columns,
  and exceptions that a hook swallows; *callbacks* that subscribe or write, whose
  use of the iterator into a reallocated vector is undefined.
- *Items with more than one relation*, uniqueness scoped by parent or variant,
  nullability.
- *Smaller parts of modelled code*: the negation of a comparison of a variant's
  column that only an ordered, interval or range index serves (`engine.cpp`,
  2512-2514); container handles that no builder has issued, such as a table's
  handle with a list's id (`validateAssociationTarget` does not look at the kind);
  nullability, checks and defaults in what a handle means (`Meaning`).
- *Tests and benchmarks* are read as documentation of intended behaviour.

## Plan

What is left to prove, in the order of what it would add:

1. `BatchInsert`: `PlanMatchesRetries` for lists of any length, along
   `ListLemmas!PlanBuilt`.
2. `Recovery`: `RecoveryExact` from `DocInv`; `MergedCommitsReplay` along
   `EventsProofs!MergedLeads`.
