------------------------- MODULE TransferProperties -------------------------
(***************************************************************************)
(* What the transfer manager promises, and what the repository says of it  *)
(* that the code does not keep.                                            *)
(***************************************************************************)
EXTENDS TransferManager

LiveThreads == {x \in Tasks \X Slots : Live(worker[x[1]][x[2]])}

\* The final event of a thread of t waits to be delivered.
FinalPending(t) ==
    \E i \in DOMAIN events : events[i].task = t /\ events[i].kind \in Final

HasThread(t) == (\E s \in Slots : Live(worker[t][s])) \/ FinalPending(t)

-----------------------------------------------------------------------------
(***************************************************************************)
(* Invariants.                                                             *)
(***************************************************************************)

\* At no point do more tasks hold a slot than concurrencyLimit allows, not
\* even while cancelled or paused workers unwind (TransferQueue::takeNext,
\* runningCount).
SlotLimit == RunningCount(task) <= Limit

\* Whenever the GUI thread is back in its event loop, no task is queued while
\* a slot is free: every handler that frees a slot or queues a task has run
\* schedule() to its end.  A handler that forgot would leave the task waiting
\* for an unrelated event.
WorkConserving == gui = "idle" => ~SlotFree \/ NoneQueued(task, order)

\* schedule() always finds the request provider of the task it takes: cancel,
\* dismiss and the results that erase m_work never leave a task that can
\* become queued again.  Otherwise the transfer fails for good as
\* "request-provider-missing".
QueuedHasWork == \A t \in Tasks : task[t].st = "Queued" => t \in work

\* A crash between any two steps loses no unfinished transfer: the journal
\* holds every recoverable task with its current byte count and kind, and in
\* the event loop it holds nothing else.
JournalCurrent ==
    /\ \A t \in Tasks : Recoverable(task[t]) => journal[t] = JournalEntry(task[t])
    /\ gui = "idle" => journal = Saved(task)

\* A task that may be started again has no thread left and no result under
\* way, so startWorker() never meets an entry of m_workers with its id; and a
\* task shown as running is run by a thread, or its result is about to be
\* delivered: it does not hold a slot for nothing.  Holds for the calls the
\* Transfer Center offers for single transfers.
ThreadMatchesStatus ==
    \A t \in Tasks :
        /\ gui # "down" /\ task[t].st \in {"Queued", "Paused", "NeedsAttention", "Failed", "Completed"}
              => ~HasThread(t) /\ worker[t].own.phase = "none"
        /\ gui \notin {"closing", "down"} /\ task[t].st = "Running" => HasThread(t)

-----------------------------------------------------------------------------
(***************************************************************************)
(* Action properties.                                                      *)
(***************************************************************************)

\* A completed or cancelled transfer never comes back, whatever result was
\* still under way and however often the process crashes: it stays what it
\* is until it is dismissed or forgotten at a restart.
FinishedStays ==
    [][\A t \in Tasks : task[t].st \in {"Completed", "Cancelled"} =>
          task'[t].st \in {task[t].st, "gone"}]_vars

\* A file that was at the destination before is replaced only by a worker
\* that was started with the decision to replace it.
OverwriteDecided ==
    [][\A t \in Tasks : dest[t] = "old" /\ dest'[t] = "ours" =>
          \E s \in Slots : worker[t][s].opt = "replace"]_vars

\* A transfer becomes completed only when the file it moved is at its
\* destination, or when the result that completes it says the user chose to
\* skip it.  No late or duplicated event completes a transfer that moved
\* nothing.
CompletedMeansDelivered ==
    [][\A t \in Tasks : task[t].st # "Completed" /\ task'[t].st = "Completed" =>
          dest[t] = "ours" \/ (Delivers({"skipped"}) /\ Head(events).task = t)]_vars

\* The manager implements TransferLifecycle.  Pausing and Cancelling still
\* hold the slot; a paused transfer, a failed one and one that waits for a
\* decision rest until the user acts.
PhaseOf(st) ==
    CASE st = "new"                                  -> "new"
      [] st = "Queued"                               -> "waiting"
      [] st \in Active                               -> "active"
      [] st \in {"Paused", "NeedsAttention", "Failed"} -> "resting"
      [] st \in {"Completed", "Cancelled"}           -> "over"
      [] st = "gone"                                 -> "forgotten"

Lifecycle == INSTANCE TransferLifecycle WITH phase <- [t \in Tasks |-> PhaseOf(task[t].st)]

\* Every step of the manager is a step of the lifecycle or leaves every phase
\* alone: slots, terminal transfers and restarts behave as promised.
ImplementsLifecycle == Lifecycle!Spec

-----------------------------------------------------------------------------
(***************************************************************************)
(* Liveness.                                                               *)
(***************************************************************************)

\* The worker's answer is a conflict or a missing credential: needsAttention()
\* refuses a task that is being cancelled.
AsksForAttention(t) ==
    \E i \in DOMAIN events : events[i].task = t /\ events[i].kind \in {"conflict", "credential"}

\* A transfer that holds its slot for ever: its worker has answered, and the
\* queue has refused the answer.
SlotLost(t) == task[t].st \in {"Pausing", "Cancelling"} /\ ~HasThread(t)

\* A cancelled transfer whose worker has yet to answer leaves Cancelling, unless
\* the process ends or the worker asks for the user's attention just then.  Every
\* other answer, one that was under way when the user cancelled included, is
\* accepted.
CancelSettles ==
    \A t \in Tasks : task[t].st = "Cancelling" /\ HasThread(t) ~>
        task[t].st # "Cancelling" \/ gui = "down" \/ AsksForAttention(t)

\* A queued transfer is taken, unless the process ends or every slot is lost to
\* a transfer whose answer was refused: no other end of the transfers that hold
\* the slots (failed, paused, in conflict, without a credential or a thread)
\* keeps it waiting.
QueuedIsTaken ==
    \A t \in Tasks : task[t].st = "Queued" ~>
        \/ task[t].st # "Queued" \/ gui = "down"
        \/ Cardinality({u \in Tasks : SlotLost(u)}) >= Limit

-----------------------------------------------------------------------------
(***************************************************************************)
(* Statements of the repository the code does not keep.                    *)
(***************************************************************************)

\* ADR 0026: transfers run under "a small fixed concurrency limit".  Cancel all
\* reaches a pausing transfer, whose status becomes Cancelled at once: its
\* slot is free while its worker still runs (TransferQueue::cancel).
LiveThreadsWithinLimit == Cardinality(LiveThreads) <= Limit

\* ADR 0033: Cancelling "continues to occupy a concurrency slot until the
\* worker result finalizes it".  A task that holds a slot must have a worker
\* or a result under way; otherwise nothing will ever take the slot back.
ActiveHasThread ==
    gui \notin {"closing", "down"} => \A t \in Tasks : task[t].st \in Active => HasThread(t)

\* handleResult() asserts that the queue accepts the completion of a task it
\* has just found active.
CompletionAccepted ==
    Delivers({"completed", "skipped"}) =>
        LET st == task[Head(events).task].st
        IN  st \in Active => CanTransition(st, "Completed")

\* handleResult() asserts that the queue accepts a Paused result for a task it
\* has just found active.
PauseAccepted ==
    Delivers({"paused"}) =>
        LET st == task[Head(events).task].st
        IN  st \in Active => CanTransition(st, "Paused")

\* ADR 0043: "Cancel requests stop it and remove the partial."
CancelledLeavesNoPartial ==
    \A t \in Tasks : task[t].st = "Cancelled" /\ ~HasThread(t) => partial[t] = NoFile

\* ADR 0043: "Pause requests stop the owned worker and preserve the partial."
\* A paused task that records no byte has its partial deleted when it resumes.
PausedKeepsBytes ==
    \A t \in Tasks : task[t].st = "Paused" /\ partial[t] \in 1..Size => task[t].bytes > 0
=============================================================================
