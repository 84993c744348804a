--------------------------- MODULE TransferQueue ---------------------------
(***************************************************************************)
(* The transfer queue of domain/sftp: the statuses of a transfer task, the *)
(* transitions between them, and what each queue operation does to a task. *)
(*                                                                         *)
(* A task is the record [st, bytes, code]: its status, transferredBytes    *)
(* (counted in chunks of the source file, whose length is Size) and        *)
(* errorCode.  totalBytes is Size for every task.  An operation that the   *)
(* code rejects returns the task unchanged; the code's callers look at the *)
(* result only in assertions.                                              *)
(*                                                                         *)
(* Two statuses are not the code's: "new" is a task nobody has enqueued    *)
(* yet, "gone" a task that was removed from m_tasks.                       *)
(***************************************************************************)
EXTENDS Naturals, FiniteSets

CONSTANTS
    Size        \* length of every source file, in chunks

ASSUME SizeAssumption == Size \in Nat \ {0}

(***************************************************************************)
(* Statuses and the transition table.                                      *)
(***************************************************************************)
Statuses == {"Queued", "Running", "Pausing", "Paused", "Cancelling",
             "NeedsAttention", "Completed", "Failed", "Cancelled"}

Outside  == {"new", "gone"}

\* The statuses runningCount() counts against the concurrency limit.
Active   == {"Running", "Pausing", "Cancelling"}

\* The statuses dismiss() and dismissFinished() remove.
Finished == {"Completed", "Failed", "Cancelled"}

Successors ==
    [st \in Statuses \cup Outside |->
        CASE st = "Queued"         -> {"Running", "Paused", "NeedsAttention", "Cancelled"}
          [] st = "Running"        -> {"Pausing", "Cancelling", "NeedsAttention",
                                       "Completed", "Failed", "Cancelled"}
          [] st = "Pausing"        -> {"Paused", "Failed", "Cancelled"}
          [] st = "Paused"         -> {"Queued", "Cancelled"}
          [] st = "Cancelling"     -> {"Completed", "Failed", "Cancelled"}
          [] st = "NeedsAttention" -> {"Queued", "Cancelled"}
          [] st = "Failed"         -> {"Queued"}
          [] OTHER                 -> {}]

\* Seeded fault: a cancelled worker's other results are not foreseen.
CanTransitionStrict(from, to) ==
    from = to \/ (to \in Successors[from] /\ (from = "Cancelling" => to = "Cancelled"))

CanTransition(from, to) == from = to \/ to \in Successors[from]

\* errorCode, as far as the code tells values apart: retry() tests
\* "invalid-task", the recovery journal tests "interrupted", and a task
\* whose provider is missing is the one task that is not retryable.
Codes == {"", "interrupted", "invalid-task", "provider-missing",
          "attention", "error"}

TaskRecords == [st : Statuses \cup Outside, bytes : 0..Size, code : Codes]

NewTask == [st |-> "new", bytes |-> 0, code |-> ""]

Retryable(r) == r.code # "provider-missing"

(***************************************************************************)
(* Operations on one task.                                                 *)
(***************************************************************************)
To(r, st) == IF CanTransition(r.st, st) THEN [r EXCEPT !.st = st] ELSE r

UpdateProgress(r, n) ==
    IF r.st = "Running" /\ n >= r.bytes /\ n <= Size
    THEN [r EXCEPT !.bytes = n] ELSE r

Complete(r) ==
    IF CanTransition(r.st, "Completed")
    THEN [r EXCEPT !.st = "Completed", !.bytes = Size] ELSE r

Fail(r, code) ==
    IF CanTransition(r.st, "Failed")
    THEN [r EXCEPT !.st = "Failed", !.code = code] ELSE r

NeedAttention(r) ==
    IF CanTransition(r.st, "NeedsAttention")
    THEN [r EXCEPT !.st = "NeedsAttention", !.code = "attention"] ELSE r

CancelTarget(r) == IF r.st = "Running" THEN "Cancelling" ELSE "Cancelled"
PauseTarget(r)  == IF r.st = "Running" THEN "Pausing" ELSE "Paused"

CanCancel(r) == CanTransition(r.st, CancelTarget(r))
CanPause(r)  == CanTransition(r.st, PauseTarget(r))
CanResume(r) == CanTransition(r.st, "Queued")
CanRetry(r)  == Retryable(r) /\ CanTransition(r.st, "Queued")

CancelTask(r) == To(r, CancelTarget(r))
PauseTask(r)  == To(r, PauseTarget(r))

MarkPaused(r, n) ==
    IF n <= Size /\ CanTransition(r.st, "Paused")
    THEN [r EXCEPT !.st = "Paused", !.bytes = n] ELSE r

ResumeTask(r) ==
    IF CanResume(r) THEN [r EXCEPT !.st = "Queued", !.code = ""] ELSE r

RetryTask(r) ==
    IF CanRetry(r)
    THEN [st    |-> "Queued",
          bytes |-> IF r.code = "invalid-task" THEN 0 ELSE r.bytes,
          code  |-> ""]
    ELSE r

DismissTask(r) == IF r.st \in Finished THEN [NewTask EXCEPT !.st = "gone"] ELSE r

\* takeNext() clears the error of the task it hands out.
TakeTask(r) == [r EXCEPT !.st = "Running", !.code = ""]

(***************************************************************************)
(* What a worker's result, and the buttons of one transfer, do to a task.  *)
(* A result is a record with the fields kind and bytes.                    *)
(***************************************************************************)
\* Seeded fault: a result with every byte moved counts as completed.
SettledByBytes(r, e) ==
    CASE e.kind \in {"completed", "skipped"} -> Complete(UpdateProgress(r, e.bytes))
      [] e.kind = "cancelled" -> IF r.st = "Pausing" THEN MarkPaused(r, e.bytes)
                                                     ELSE CancelTask(r)
      [] e.kind = "paused"    -> MarkPaused(r, e.bytes)
      [] e.kind = "conflict"  -> NeedAttention(r)
      [] e.kind = "failed"    -> IF e.bytes = Size THEN Complete(r)
                                 ELSE Fail(UpdateProgress(r, e.bytes), "error")
      [] e.kind = "invalid"   -> Fail(UpdateProgress(r, e.bytes), "invalid-task")

\* handleResult(): what each kind of result does to a task that is active.
Settled(r, e) ==
    CASE e.kind \in {"completed", "skipped"} -> Complete(UpdateProgress(r, e.bytes))
      [] e.kind = "cancelled" -> IF r.st = "Pausing" THEN MarkPaused(r, e.bytes)
                                                     ELSE CancelTask(r)
      [] e.kind = "paused"    -> MarkPaused(r, e.bytes)
      [] e.kind = "conflict"  -> NeedAttention(r)
      [] e.kind = "failed"    -> Fail(UpdateProgress(r, e.bytes), "error")
      [] e.kind = "invalid"   -> Fail(UpdateProgress(r, e.bytes), "invalid-task")

\* m_work is erased whether or not the queue accepted the transition.
ErasesWork(r, e) == \/ e.kind \in {"completed", "skipped"}
                    \/ e.kind = "cancelled" /\ r.st # "Pausing"

\* Seeded fault: the pause button stays enabled while the pause is under way.
CenterOffersAgain(call) ==
    CASE call = "cancel"  -> {"Queued", "Running", "Pausing", "Paused", "NeedsAttention"}
      [] call = "pause"   -> {"Queued", "Running", "Pausing"}
      [] call = "resume"  -> {"Paused"}
      [] call = "retry"   -> {"Failed", "NeedsAttention"}
      [] call = "dismiss" -> Finished

\* The statuses in which the Transfer Center offers a call for one transfer,
\* or its "all" button reaches it.  The batch coordinator asks no status.
CenterOffers(call) ==
    CASE call = "cancel"  -> {"Queued", "Running", "Pausing", "Paused", "NeedsAttention"}
      [] call = "pause"   -> {"Queued", "Running"}
      [] call = "resume"  -> {"Paused"}
      [] call = "retry"   -> {"Failed", "NeedsAttention"}
      [] call = "dismiss" -> Finished

(***************************************************************************)
(* Operations on the whole queue: q maps a task to its record, order lists *)
(* the tasks in the order they were appended to m_tasks.                   *)
(***************************************************************************)
ActiveTasks(q)  == {t \in DOMAIN q : q[t].st \in Active}
RunningCount(q) == Cardinality(ActiveTasks(q))

IsFirstQueued(q, order, i) ==
    /\ i \in DOMAIN order
    /\ q[order[i]].st = "Queued"
    /\ \A j \in DOMAIN order : j < i => q[order[j]].st # "Queued"

NoneQueued(q, order) == \A i \in DOMAIN order : q[order[i]].st # "Queued"

(***************************************************************************)
(* The recovery journal (TransferRecoveryStore): which tasks save() keeps, *)
(* what it writes of them, and the task that load() and                    *)
(* restoreInterrupted() make of an entry.                                  *)
(***************************************************************************)
\* Seeded fault: cancelled transfers stay in the journal.
RecoverableUnlessCompleted(r) == r.st \notin Outside \cup {"Completed"}

Recoverable(r) ==
    \/ r.st \in {"Queued", "Running", "Pausing", "Paused", "Cancelling", "NeedsAttention"}
    \/ r.st = "Failed" /\ r.code = "interrupted"

JournalRecords == [st : {"none", "paused", "interrupted"}, bytes : 0..Size]

NoEntry == [st |-> "none", bytes |-> 0]

JournalEntry(r) ==
    IF ~Recoverable(r) THEN NoEntry
    ELSE [st    |-> IF r.st = "Paused" THEN "paused" ELSE "interrupted",
          bytes |-> r.bytes]

Saved(q) == [t \in DOMAIN q |-> JournalEntry(q[t])]

\* Seeded fault: a paused transfer resumes by itself after a restart.
RestoredRunning(e, r) ==
    CASE e.st = "paused"      -> [st |-> "Queued", bytes |-> e.bytes, code |-> ""]
      [] e.st = "interrupted" -> [st |-> "Failed", bytes |-> e.bytes, code |-> "interrupted"]
      [] OTHER                -> IF r.st = "new" THEN r ELSE [NewTask EXCEPT !.st = "gone"]

\* A task without an entry is gone, unless it was never enqueued.
Restored(e, r) ==
    CASE e.st = "paused"      -> [st |-> "Paused", bytes |-> e.bytes, code |-> ""]
      [] e.st = "interrupted" -> [st |-> "Failed", bytes |-> e.bytes, code |-> "interrupted"]
      [] OTHER                -> IF r.st = "new" THEN r ELSE [NewTask EXCEPT !.st = "gone"]

=============================================================================
