------------------------------- MODULE Events -------------------------------
(***************************************************************************)
(* Event delivery: DocumentEngine::subscribe, Subscription::disconnect and *)
(* publish (src/engine.cpp, src/event.cpp), driven by the writes, commits, *)
(* rollbacks, undos and redos that publish.                                *)
(*                                                                         *)
(* The document is a few column values.  Every subscriber keeps two copies *)
(* of it, one that follows the AfterCommit events and one that follows     *)
(* AfterApply and Rollback.  When a write has failed, of which no event    *)
(* tells, the application has the latter read again.  A callback may       *)
(* disconnect itself or another subscriber, and throw; it does not write,  *)
(* and does not subscribe.                                                 *)
(***************************************************************************)
EXTENDS Integers, SequencesExt

CONSTANTS
  Cells,        \* the column values of the document
  Subscribers,
  MaxOps,       \* bound: writes of a transaction
  MaxSteps,     \* bound: undo and redo steps
  MayThrow      \* the calls during which a callback may throw: among
                \*   "write", "commit", "rollback", "undo"

ASSUME EventsAssumption ==
  /\ MaxOps \in Nat /\ MaxSteps \in Nat
  /\ MayThrow \subseteq {"write", "commit", "rollback", "undo"}

VARIABLES
  doc,           \* the values
  base,          \* the values when the transaction began
  open,          \* is a transaction active?
  changeSet,     \* what it has written
  undoStack,     \* change sets to undo and to redo
  redoStack,
  subscriptions, \* Impl::subscriptions, a sequence of subscribers
  connected,     \* those whose SubscriptionState is alive and connected
  events,        \* the events the call under way publishes, the first now
  position,      \* of publish's iterator in subscriptions
  commitCopy,    \* the copies of the document the connected subscribers
  applyCopy      \*   have

engineVars == <<doc, base, open, changeSet, undoStack, redoStack>>
publishVars == <<subscriptions, connected, events, position>>
copyVars == <<commitCopy, applyCopy>>
vars == <<engineVars, publishVars, copyVars>>

Values == 0..1
-----------------------------------------------------------------------------
(* Change sets *)

Update(cell, old, new) == [cell |-> cell, old |-> old, new |-> new]

Invert(ops) ==
  Reverse([k \in DOMAIN ops |-> Update(ops[k].cell, ops[k].new, ops[k].old)])

Apply(d, ops) ==
  LET step(acc, op) == [acc EXCEPT ![op.cell] = op.new]
  IN  FoldLeft(step, d, ops)

(* ChangeSet::merge *)
Merge(ops) ==
  LET same(merged, op) == {k \in DOMAIN merged : merged[k].cell = op.cell}
      join(merged, op) ==
        IF same(merged, op) = {} THEN Append(merged, op)
        ELSE [k \in DOMAIN merged |->
                IF k \in same(merged, op) THEN [merged[k] EXCEPT !.new = op.new]
                ELSE merged[k]]
  IN  FoldLeft(join, <<>>, ops)

(* A subscriber's copy after a change set.  Broken, for good, if the       *)
(* change set updates another value than the copy has.                     *)
Broken == << >>

Followed(copy, ops) ==
  LET step(acc, op) ==
        IF acc # Broken /\ acc[op.cell] = op.old
          THEN [acc EXCEPT ![op.cell] = op.new] ELSE Broken
  IN  FoldLeft(step, copy, ops)
-----------------------------------------------------------------------------
(* publish *)

Event(kind, call, ops) == [kind |-> kind, call |-> call, ops |-> ops]

Idle == events = <<>>
Arrived == ~Idle /\ position <= Len(subscriptions)
Subscriber == subscriptions[position]

Publish(list) == events' = list /\ position' = 1

(* The callback of s gets the event. *)
Received(s, copy, kinds) ==
  IF Head(events).kind \in kinds
    THEN [copy EXCEPT ![s] = Followed(@, Head(events).ops)] ELSE copy

(* It may disconnect the subscribers gone, itself included. *)
Deliver(gone) ==
  /\ Arrived /\ Subscriber \in connected
  /\ connected' = connected \ gone
  /\ commitCopy' = Restrict(Received(Subscriber, commitCopy, {"AfterCommit"}), connected')
  /\ applyCopy' = Restrict(Received(Subscriber, applyCopy, {"AfterApply", "Rollback"}),
                           connected')
  /\ position' = position + 1
  /\ UNCHANGED <<engineVars, subscriptions, events>>

(* Mutant of AfterErase: the iterator moves on from the erased place. *)
PastErased(place) == place + 1

(* Where the iterator is after an erasure: on the one that moved up *)
AfterErase(place) == place

(* The state of a disconnected subscription is gone: it is erased. *)
Erase ==
  /\ Arrived /\ Subscriber \notin connected
  /\ subscriptions' = RemoveAt(subscriptions, position)
  /\ position' = AfterErase(position)
  /\ UNCHANGED <<engineVars, connected, events, copyVars>>

(* All have had the event; the call goes on with the next one, if any. *)
Published ==
  /\ ~Idle /\ ~Arrived
  /\ Publish(Tail(events))
  /\ UNCHANGED <<engineVars, subscriptions, connected, copyVars>>

(* markFailed: the transaction ends without an event. *)
FailTransaction ==
  /\ doc' = base
  /\ open' = FALSE
  /\ changeSet' = <<>>
  /\ applyCopy' = [s \in connected |-> base]
  /\ UNCHANGED <<base, undoStack, redoStack>>

(* A callback throws, and so does the call.  A write is undone; a commit,  *)
(* rollback or undo has taken place and stays.                             *)
Throw ==
  /\ Arrived /\ Subscriber \in connected
  /\ Head(events).call \in MayThrow
  /\ Publish(<<>>)
  /\ IF Head(events).call = "write" THEN FailTransaction
     ELSE /\ applyCopy' = Received(Subscriber, applyCopy, {"AfterApply", "Rollback"})
          /\ UNCHANGED engineVars
  /\ commitCopy' = Received(Subscriber, commitCopy, {"AfterCommit"})
  /\ UNCHANGED <<subscriptions, connected>>
-----------------------------------------------------------------------------
(* The calls that publish, by a client that is not a callback *)

Begin ==
  /\ Idle /\ ~open
  /\ open' = TRUE
  /\ UNCHANGED <<doc, base, changeSet, undoStack, redoStack, publishVars, copyVars>>

Write(cell, value) ==
  LET op == Update(cell, doc[cell], value)
  IN  /\ Idle /\ open /\ Len(changeSet) < MaxOps
      /\ doc' = [doc EXCEPT ![cell] = value]
      /\ changeSet' = Append(changeSet, op)
      /\ Publish(<<Event("AfterApply", "write", <<op>>)>>)
      /\ UNCHANGED <<base, open, undoStack, redoStack,
                     subscriptions, connected, copyVars>>

(* A write fails before it is applied: it does not pass validation, or a   *)
(* hook throws.  What it found is restored.                                *)
FailWrite ==
  /\ Idle /\ open
  /\ FailTransaction
  /\ UNCHANGED <<publishVars, commitCopy>>

Commit ==
  /\ Idle /\ open
  /\ changeSet # <<>> => Len(undoStack) < MaxSteps
  /\ base' = doc
  /\ open' = FALSE
  /\ changeSet' = <<>>
  /\ undoStack' = IF changeSet # <<>> THEN Append(undoStack, changeSet) ELSE undoStack
  /\ redoStack' = IF changeSet # <<>> THEN <<>> ELSE redoStack
  /\ Publish(<<Event("AfterCommit", "commit", Merge(changeSet))>>)
  /\ UNCHANGED <<doc, subscriptions, connected, copyVars>>

(* Mutant of RollbackEvent: the changes themselves are published. *)
RollbackEventForward(ops) == Event("Rollback", "rollback", ops)

RollbackEvent(ops) == Event("Rollback", "rollback", Invert(ops))

Rollback ==
  /\ Idle /\ open
  /\ doc' = Apply(doc, Invert(changeSet))
  /\ open' = FALSE
  /\ changeSet' = <<>>
  /\ Publish(<<RollbackEvent(changeSet)>>)
  /\ UNCHANGED <<base, undoStack, redoStack, subscriptions, connected, copyVars>>

(* Undo and redo publish as a write and as a commit. *)
Replay(ops) ==
  /\ Idle /\ ~open
  /\ doc' = Apply(doc, ops) /\ base' = doc'
  /\ Publish(<<Event("AfterApply", "undo", ops), Event("AfterCommit", "undo", Merge(ops))>>)
  /\ UNCHANGED <<open, changeSet, subscriptions, connected, copyVars>>

Undo ==
  /\ undoStack # <<>>
  /\ Replay(Invert(Last(undoStack)))
  /\ undoStack' = Front(undoStack)
  /\ redoStack' = Append(redoStack, Last(undoStack))

Redo ==
  /\ redoStack # <<>>
  /\ Replay(Last(redoStack))
  /\ redoStack' = Front(redoStack)
  /\ undoStack' = Append(undoStack, Last(redoStack))

(* A subscriber begins with what it reads, between transactions. *)
Subscribe(s) ==
  /\ Idle /\ ~open
  /\ s \notin ToSet(subscriptions)
  /\ subscriptions' = Append(subscriptions, s)
  /\ connected' = connected \cup {s}
  /\ commitCopy' = [t \in connected' |-> IF t = s THEN doc ELSE commitCopy[t]]
  /\ applyCopy' = [t \in connected' |-> IF t = s THEN doc ELSE applyCopy[t]]
  /\ UNCHANGED <<engineVars, events, position>>

(* The application drops a Subscription; it stays listed until publish     *)
(* comes upon it.                                                          *)
Disconnect(s) ==
  /\ Idle /\ s \in connected
  /\ connected' = connected \ {s}
  /\ commitCopy' = Restrict(commitCopy, connected')
  /\ applyCopy' = Restrict(applyCopy, connected')
  /\ UNCHANGED <<engineVars, subscriptions, events, position>>

Init ==
  /\ doc = [c \in Cells |-> 0]
  /\ base = doc
  /\ open = FALSE
  /\ changeSet = <<>>
  /\ undoStack = <<>> /\ redoStack = <<>>
  /\ subscriptions = <<>> /\ connected = {}
  /\ events = <<>> /\ position = 1
  /\ commitCopy = << >> /\ applyCopy = << >>

Next ==
  \/ \E gone \in {{}} \cup {{s} : s \in connected} : Deliver(gone)
  \/ Erase
  \/ Published
  \/ Throw
  \/ Begin
  \/ \E cell \in Cells, value \in Values : Write(cell, value)
  \/ FailWrite
  \/ Commit
  \/ Rollback
  \/ Undo
  \/ Redo
  \/ \E s \in Subscribers : Subscribe(s) \/ Disconnect(s)

Spec == Init /\ [][Next]_vars
-----------------------------------------------------------------------------
(***************************************************************************)
(* Properties                                                              *)
(***************************************************************************)

(* A subscriber that looks at AfterCommit events only has the committed    *)
(* document after every call: it gets each commit, undo and redo once and  *)
(* in order, whatever failed or was rolled back in between, whoever        *)
(* disconnects during the delivery.                                        *)
CommitCopiesFollow == Idle => \A s \in connected : commitCopy[s] = base

(* A subscriber that looks at AfterApply and Rollback events has the       *)
(* document as it is, inside transactions too: what a rollback or an undo  *)
(* takes back reaches it, each step once and in order.                     *)
ApplyCopiesFollow == Idle => \A s \in connected : applyCopy[s] = doc

=============================================================================
