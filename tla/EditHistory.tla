---------------------------- MODULE EditHistory -----------------------------
(***************************************************************************)
(* What DocumentEngine and Transaction promise of the history of a         *)
(* document (include/dini/engine.h and transaction.h): "Changes are        *)
(* reversed" by rollback, "document state is reverted" by undo.  The       *)
(* history is a sequence of whole documents.                               *)
(***************************************************************************)
EXTENDS SequencesExt

VARIABLES
  document,  \* what a reader of the engine sees
  draft,     \* is a transaction open?
  base,      \* the document without its uncommitted changes
  past,      \* the documents undo goes back to, the nearest one last
  future     \* the documents redo goes on to, the nearest one last

historyVars == <<document, draft, base, past, future>>

HistoryInit ==
  /\ ~draft
  /\ base = document
  /\ past = <<>>
  /\ future = <<>>

BeginDraft == ~draft /\ draft' /\ UNCHANGED <<document, base, past, future>>

Edit == draft /\ UNCHANGED <<draft, base, past, future>>

(* A draft that changed nothing may be dropped without a step. *)
CommitDraft ==
  /\ draft /\ ~draft'
  /\ base' = document
  /\ \/ past' = Append(past, base) /\ future' = <<>>
     \/ document = base /\ UNCHANGED <<past, future>>
  /\ UNCHANGED document

AbandonDraft ==
  /\ draft /\ ~draft'
  /\ document' = base
  /\ UNCHANGED <<base, past, future>>

StepBack ==
  /\ ~draft /\ past # <<>>
  /\ document' = Last(past) /\ base' = document'
  /\ past' = Front(past)
  /\ future' = Append(future, document)
  /\ UNCHANGED draft

StepForward ==
  /\ ~draft /\ future # <<>>
  /\ document' = Last(future) /\ base' = document'
  /\ future' = Front(future)
  /\ past' = Append(past, document)
  /\ UNCHANGED draft

HistoryNext ==
  BeginDraft \/ Edit \/ CommitDraft \/ AbandonDraft \/ StepBack \/ StepForward

HistorySpec == HistoryInit /\ [][HistoryNext]_historyVars

=============================================================================
