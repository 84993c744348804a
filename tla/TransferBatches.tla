-------------------------- MODULE TransferBatches --------------------------
(***************************************************************************)
(* The batch coordinator of application/sftp: directories are walked by    *)
(* planner threads, every regular file found becomes a child task of the   *)
(* transfer manager, and the batch shows what became of its children.      *)
(*                                                                         *)
(* Everything here but the planner threads and the results of the workers  *)
(* runs on the GUI thread.  A handler is one step; it is a sequence of     *)
(* calls into the manager, each of which emits tasksChanged, and the       *)
(* process may crash between two of them.  The manager is its queue with   *)
(* the workers reduced to the results they may post: that a task which can *)
(* be queued has its provider, that no slot stays free and that the task   *)
(* journal is current at every moment is shown in TransferManager.         *)
(***************************************************************************)
EXTENDS TransferQueue, SequencesExt

CONSTANTS
    Batches,        \* batches; an identifier is a fresh UUID, used once
    Files,          \* regular files in the tree of a batch, at least one
    Existing,       \* the files whose destination exists before the transfer
    Limit,          \* concurrencyLimit
    Calls,          \* the calls the user makes
    Faults          \* what goes wrong around the coordinator

ASSUME BatchesAssumption == IsFiniteSet(Batches) /\ Files \in Nat \ {0} /\ Limit \in Nat \ {0}
ASSUME EnvironmentAssumption ==
    /\ Existing \subseteq 1..Files
    /\ Calls \subseteq {"cancel", "pause", "resume", "retry", "dismiss", "decide",
                        "child", "pauseAll", "resumeAll", "cancelAll", "clear", "quit"}
    /\ Faults \subseteq {"plan", "reject", "io", "crash"}

\* The regular entries of a batch, in the order the planner found them.
Children == Batches \X (1..Files)

VARIABLES
    task,       \* the manager's queue: the record of every child
    order,      \* the children in the order they were queued
    work,       \* the keys of m_work
    decided,    \* the children whose conflict was decided, in m_work
    live,       \* the children with a worker that has not answered
    batch,      \* m_batches: status, and whether conflicts are decided for all
    entry,      \* m_batches: the status of the entry of every child
    planner,    \* m_planners, and the outcome a planner has posted
    held,       \* m_pauseAllRequested
    timer,      \* the recovery timer runs
    file,       \* the batch file: the entries of every batch it holds
    settled,    \* the children whose file is in place, or skipped by choice
    up          \* the process runs

managerVars     == <<task, order, work, decided, live, settled>>
coordinatorVars == <<batch, entry, timer>>
vars == <<managerVars, coordinatorVars, planner, held, file, up>>

-----------------------------------------------------------------------------
BatchStatuses == {"new", "Discovering", "Running", "Paused", "NeedsAttention",
                  "Completed", "Failed", "Cancelled", "Interrupted", "gone"}

EntryStatuses == {"none", "Queued", "Running", "Paused", "NeedsAttention",
                  "Completed", "Failed", "Cancelled", "Interrupted"}

PlannerStates == {"none", "working", "stopping", "planned", "failed", "cancelled"}

NoBatch == [entries |-> [i \in 1..Files |-> "none"], auto |-> FALSE]

TypeOK ==
    /\ task \in [Children -> TaskRecords]
    /\ order \in Seq(Children)
    /\ work \subseteq Children
    /\ decided \subseteq Children
    /\ live \subseteq Children
    /\ settled \subseteq Children
    /\ batch \in [Batches -> [st : BatchStatuses, auto : BOOLEAN]]
    /\ entry \in [Children -> EntryStatuses]
    /\ planner \in [Batches -> PlannerStates]
    /\ held \in BOOLEAN
    /\ timer \in BOOLEAN
    /\ file \in [Batches -> [entries : [1..Files -> EntryStatuses], auto : BOOLEAN]]
    /\ up \in BOOLEAN

Init ==
    /\ task = [c \in Children |-> NewTask]
    /\ order = <<>>
    /\ work = {} /\ decided = {} /\ live = {} /\ settled = {}
    /\ batch = [b \in Batches |-> [st |-> "new", auto |-> FALSE]]
    /\ entry = [c \in Children |-> "none"]
    /\ planner = [b \in Batches |-> "none"]
    /\ held = FALSE
    /\ timer = FALSE
    /\ file = [b \in Batches |-> NoBatch]
    /\ up = TRUE

\* m_batches holds the batch.
Present(b) == batch[b].st \notin Outside

-----------------------------------------------------------------------------
(***************************************************************************)
(* What a handler works on: the manager's and the coordinator's state as   *)
(* one record, which its calls transform one after the other.              *)
(***************************************************************************)
Now == [task |-> task, order |-> order, work |-> work, decided |-> decided, live |-> live,
        batch |-> batch, entry |-> entry, timer |-> timer]

Becomes(s) ==
    /\ task' = s.task /\ order' = s.order /\ work' = s.work
    /\ decided' = s.decided /\ live' = s.live
    /\ batch' = s.batch /\ entry' = s.entry /\ timer' = s.timer

\* What is left when the process is gone: the task journal, which holds what
\* the queue held, and which batches there once were.
Lost(s) ==
    [s EXCEPT !.work = {}, !.decided = {}, !.live = {}, !.timer = FALSE,
              !.entry = [c \in Children |-> "none"],
              !.batch = [b \in Batches |->
                            [st |-> IF s.batch[b].st = "new" THEN "new" ELSE "gone", auto |-> FALSE]]]

\* publishSnapshot(): the timer that saves the batches is started again.
PublishBatches(s) == [s EXCEPT !.timer = TRUE]

\* entryStatus()
EntryStatus(st) == IF st \in Active THEN "Running" ELSE st

\* Seeded fault: one failed child decides before the others are over.
StatusFailedFirst(entries) ==
    IF "NeedsAttention" \in entries THEN "NeedsAttention"
    ELSE IF "Failed" \in entries THEN "Failed"
    ELSE IF entries \cap {"Queued", "Running"} # {} THEN "Running"
    ELSE IF "Paused" \in entries THEN "Paused"
    ELSE IF "Cancelled" \in entries THEN "Cancelled"
    ELSE "Completed"

\* updateBatchStatus(), over the statuses of the regular entries.
StatusOf(entries) ==
    IF "NeedsAttention" \in entries THEN "NeedsAttention"
    ELSE IF entries \cap {"Queued", "Running"} # {} THEN "Running"
    ELSE IF "Paused" \in entries THEN "Paused"
    ELSE IF "Failed" \in entries THEN "Failed"
    ELSE IF "Cancelled" \in entries THEN "Cancelled"
    ELSE "Completed"

\* applyTaskSnapshot() leaves out a batch without entries: it is still being
\* discovered, or its discovery was cancelled or failed.
HasPlan(s, b) == s.batch[b].st \notin Outside \cup {"Discovering"} /\ s.entry[<<b, 1>>] # "none"

\* applyTaskSnapshot(), called for every tasksChanged.
ApplySnapshot(s) ==
    LET shown == [c \in Children |->
                     IF HasPlan(s, c[1]) /\ s.task[c].st \notin Outside
                     THEN EntryStatus(s.task[c].st) ELSE s.entry[c]]
        after == [b \in Batches |->
                     IF HasPlan(s, b)
                     THEN [s.batch[b] EXCEPT !.st = StatusOf({shown[<<b, i>>] : i \in 1..Files})]
                     ELSE s.batch[b]]
        t == [s EXCEPT !.entry = shown, !.batch = after]
    IN  IF t = s THEN s ELSE PublishBatches(t)

\* schedule(): the first queued tasks take the slots that are free; the queue
\* is shown at the end, whether or not one did.
Taken(s) ==
    LET queued == {i \in DOMAIN s.order : s.task[s.order[i]].st = "Queued"}
        first  == {i \in queued :
                      RunningCount(s.task) + Cardinality({j \in queued : j <= i}) <= Limit}
    IN  {s.order[i] : i \in first}

Take(s) ==
    [s EXCEPT !.task = [c \in Children |->
                           IF c \in Taken(s) THEN TakeTask(s.task[c]) ELSE s.task[c]],
              !.live = @ \cup Taken(s)]

\* Seeded fault: the transfers that take the free slots are not shown.
ScheduleUnseen(s) == Take(s)

Schedule(s) == ApplySnapshot(Take(s))

\* A change of the queue is shown before the slots are filled.
Changed(s) == Schedule(ApplySnapshot(s))

-----------------------------------------------------------------------------
(***************************************************************************)
(* Calls of the manager for one child.                                     *)
(***************************************************************************)
Accepts(s, op, c) ==
    LET r == s.task[c] IN
    /\ r.st \notin Outside
    /\ CASE op = "cancel"  -> CanCancel(r)
         [] op = "pause"   -> CanPause(r)
         [] op = "resume"  -> c \in s.work /\ CanResume(r)
         [] op = "retry"   -> c \in s.work /\ CanRetry(r)
         [] op = "dismiss" -> r.st \in Finished

Applied(op, r) ==
    CASE op = "cancel"  -> CancelTask(r)
      [] op = "pause"   -> PauseTask(r)
      [] op = "resume"  -> ResumeTask(r)
      [] op = "retry"   -> RetryTask(r)
      [] op = "dismiss" -> DismissTask(r)

\* m_work forgets what was cancelled or dismissed.
Erases(op) == op \in {"cancel", "dismiss"}

Forget(s, c) == [s EXCEPT !.work = @ \ {c}, !.decided = @ \ {c}]

\* A call that frees no slot and queues nothing does not schedule.
Schedules(op, r) == op \in {"resume", "retry"} \/ (op \in {"cancel", "pause"} /\ r.st # "Running")

Call(s, op, c) ==
    IF ~Accepts(s, op, c) THEN s
    ELSE LET t     == [s EXCEPT !.task[c] = Applied(op, @)]
             shown == ApplySnapshot(IF Erases(op) THEN Forget(t, c) ELSE t)
         IN  IF Schedules(op, s.task[c]) THEN Schedule(shown) ELSE shown

\* TransferManager::enqueue()
EnqueueChild(s, c) ==
    Changed([s EXCEPT !.task[c] = [st |-> "Queued", bytes |-> 0, code |-> ""],
                      !.order = Append(@, c), !.work = @ \cup {c}])

-----------------------------------------------------------------------------
(***************************************************************************)
(* A handler is a sequence of such calls.  It runs to its end, or the      *)
(* process crashes between two of them: `between' are the states there.    *)
(***************************************************************************)
Handler(between, end) ==
    \/ Becomes(end) /\ up' = TRUE
    \/ /\ "crash" \in Faults
       /\ \E s \in between : Becomes(Lost(s))
       /\ up' = FALSE

\* The same call for the children of a batch, one after the other: after[n] is
\* what n calls leave.
CallEach(op, s, b) ==
    LET after[n \in 0..Files] == IF n = 0 THEN s ELSE Call(after[n - 1], op, <<b, n>>)
    IN  after

Called(op, s, b) == CallEach(op, s, b)[Files]

OnChildren(op, b) == Handler(Range(CallEach(op, Now, b)), Called(op, Now, b))

Clicks(call) == up /\ call \in Calls

\* TransferBatchCoordinator::enqueue(): a placeholder, and a planner thread.
Enqueue(b) ==
    /\ up
    /\ batch[b].st = "new"
    /\ batch' = [batch EXCEPT ![b].st = "Discovering"]
    /\ planner' = [planner EXCEPT ![b] = "working"]
    /\ timer' = TRUE
    /\ UNCHANGED <<managerVars, entry, held, file, up>>

\* The statuses in which the Transfer Center offers a call for a batch.
BatchOffers(call) ==
    CASE call = "pause"   -> {"Discovering", "Running"}
      [] call = "resume"  -> {"Paused"}
      [] call = "cancel"  -> {"Discovering", "Running", "Paused", "NeedsAttention", "Interrupted"}
      [] call = "retry"   -> {"Failed", "NeedsAttention", "Interrupted"}
      [] call = "dismiss" -> {"Completed", "Failed", "Cancelled"}

BatchClicks(call, b) == Clicks(call) /\ batch[b].st \in BatchOffers(call)

PauseBatch(b) ==
    /\ BatchClicks("pause", b)
    /\ OnChildren("pause", b)
    /\ UNCHANGED <<settled, planner, held, file>>

ResumeBatch(b) ==
    /\ BatchClicks("resume", b)
    /\ OnChildren("resume", b)
    /\ UNCHANGED <<settled, planner, held, file>>

RetryBatch(b) ==
    /\ BatchClicks("retry", b)
    /\ OnChildren("retry", b)
    /\ UNCHANGED <<settled, planner, held, file>>

StopPlanner(p) == IF p = "working" THEN "stopping" ELSE p

\* The status is Cancelled until the first snapshot of a child replaces it.
MarkCancelled(s, b) == [s EXCEPT !.batch[b].st = "Cancelled"]

CancelBatch(b) ==
    /\ BatchClicks("cancel", b)
    /\ planner' = [planner EXCEPT ![b] = StopPlanner(@)]
    /\ Handler(Range(CallEach("cancel", MarkCancelled(Now, b), b)),
               PublishBatches(Called("cancel", MarkCancelled(Now, b), b)))
    /\ UNCHANGED <<settled, held, file>>

Dismissible(b) ==
    /\ planner[b] = "none"
    /\ batch[b].st \in {"Completed", "Failed", "Cancelled", "Interrupted"}

Forgotten(s, b) ==
    PublishBatches([s EXCEPT !.batch[b].st = "gone",
                             !.entry = [c \in Children |-> IF c[1] = b THEN "none" ELSE s.entry[c]]])

DismissBatch(b) ==
    /\ BatchClicks("dismiss", b)
    /\ Dismissible(b)
    /\ Handler(Range(CallEach("dismiss", Now, b)), Forgotten(Called("dismiss", Now, b), b))
    /\ UNCHANGED <<settled, planner, held, file>>

-----------------------------------------------------------------------------
(***************************************************************************)
(* Calls for one child, and for all of them.                               *)
(***************************************************************************)

\* The buttons of a single transfer reach the children of a batch as well.
CallChild(c) ==
    /\ Clicks("child")
    /\ \E op \in {"cancel", "pause", "resume", "retry", "dismiss"} :
          /\ task[c].st \in CenterOffers(op)
          /\ Becomes(Call(Now, op, c))
    /\ UNCHANGED <<settled, planner, held, file, up>>

\* resolveTransferConflict(), for this child or, with Skip or Replace, for the
\* rest of its batch.  Which decision it was shows in the answer of the worker.
Decide(c) ==
    /\ Clicks("decide")
    /\ task[c].st = "NeedsAttention"
    /\ \E rest \in BOOLEAN :
          LET s == IF rest /\ Present(c[1])
                   THEN PublishBatches([Now EXCEPT !.batch[c[1]].auto = TRUE]) ELSE Now
          IN  Becomes(IF c \in work THEN Call([s EXCEPT !.decided = @ \cup {c}], "retry", c) ELSE s)
    /\ UNCHANGED <<settled, planner, held, file, up>>

\* TransferManager::pauseAll(), resumeAll() and cancelAll(): the transfers
\* whose status allowed the call at the start, those without a batch included.
CallOffered(op, s) ==
    LET after[n \in 0..Len(s.order)] ==
            IF n = 0 THEN s
            ELSE IF s.task[s.order[n]].st \in CenterOffers(op)
            THEN Call(after[n - 1], op, s.order[n]) ELSE after[n - 1]
    IN  after

OnTasks(op, s) == CallOffered(op, s)[Len(s.order)]

\* pauseAll(), resumeAll() and cancelAll() of the coordinator, for one batch.
Calling(op, s, b) == CallEach(op, IF op = "cancel" THEN MarkCancelled(s, b) ELSE s, b)

OnBatch(op, s, b) ==
    IF op = "cancel" THEN PublishBatches(Called(op, MarkCancelled(s, b), b)) ELSE Called(op, s, b)

OnBatches(op, s, bs) ==
    LET after[n \in 0..Len(bs)] == IF n = 0 THEN s ELSE OnBatch(op, after[n - 1], bs[n])
    IN  after

\* The order of m_batches is left open.
OnAll(op) ==
    \E bs \in SetToSeqs({b \in Batches : Present(b)}) :
        LET after == OnBatches(op, Now, bs)
            last  == after[Len(bs)]
        IN  Handler((UNION {Range(Calling(op, after[i - 1], bs[i])) : i \in 1..Len(bs)})
                       \cup Range(CallOffered(op, last)),
                    OnTasks(op, last))

PauseAll ==
    /\ Clicks("pauseAll")
    /\ OnAll("pause")
    /\ held' = TRUE
    /\ UNCHANGED <<settled, planner, file>>

ResumeAll ==
    /\ Clicks("resumeAll")
    /\ OnAll("resume")
    /\ held' = FALSE
    /\ UNCHANGED <<settled, planner, file>>

CancelAll ==
    /\ Clicks("cancelAll")
    /\ OnAll("cancel")
    /\ planner' = [b \in Batches |-> StopPlanner(planner[b])]
    /\ UNCHANGED <<settled, held, file>>

\* clearFinishedTransfers(): the batches that look finished, then
\* TransferManager::dismissFinished().
DismissTasks(s) ==
    LET over == {c \in Children : s.task[c].st \in Finished}
    IN  IF over = {} THEN s
        ELSE ApplySnapshot([s EXCEPT !.task = [c \in Children |-> DismissTask(s.task[c])],
                                     !.work = @ \ over, !.decided = @ \ over])

\* A batch that a call for an earlier one has set going again is kept.
Cleared(s, b) ==
    IF s.batch[b].st \in BatchOffers("dismiss") THEN Forgotten(Called("dismiss", s, b), b) ELSE s

ClearEach(s, bs) ==
    LET after[n \in 0..Len(bs)] == IF n = 0 THEN s ELSE Cleared(after[n - 1], bs[n])
    IN  after

Clearing(s, b) == IF s.batch[b].st \in BatchOffers("dismiss") THEN Range(CallEach("dismiss", s, b)) ELSE {}

ClearFinished ==
    /\ Clicks("clear")
    /\ \E bs \in SetToSeqs({b \in Batches : batch[b].st \in BatchOffers("dismiss") /\ Dismissible(b)}) :
          LET after == ClearEach(Now, bs)
          IN  Handler(Range(after) \cup (UNION {Clearing(after[i - 1], bs[i]) : i \in 1..Len(bs)}),
                      DismissTasks(after[Len(bs)]))
    /\ UNCHANGED <<settled, planner, held, file>>

-----------------------------------------------------------------------------
(***************************************************************************)
(* Planner threads.                                                        *)
(***************************************************************************)

\* The walk and the creation of the directories end: with the plan, with an
\* error, or early because the stop token was set.
PlannerEnds(b) ==
    /\ up
    /\ \/ planner[b] \in {"working", "stopping"} /\ planner' = [planner EXCEPT ![b] = "planned"]
       \/ /\ planner[b] \in {"working", "stopping"}
          /\ "plan" \in Faults
          /\ planner' = [planner EXCEPT ![b] = "failed"]
       \/ planner[b] = "stopping" /\ planner' = [planner EXCEPT ![b] = "cancelled"]
    /\ UNCHANGED <<managerVars, coordinatorVars, held, file, up>>

\* Seeded fault: the plan of a cancelled batch is carried out.
WantsAnyPlan(b) == Present(b)

\* Whether the batch still wants the plan it asked for.
WantsPlan(b) == Present(b) /\ batch[b].st # "Cancelled"

\* Seeded fault: children queued while everything is paused start to run.
PlacedRunning(s, c, rejected) ==
    IF c \in rejected
    THEN [s EXCEPT !.entry[c] = "Failed", !.batch[c[1]].st = "Failed"]
    ELSE EnqueueChild(s, c)

\* One child of the plan: the manager may refuse it, and it is paused at once
\* while everything is paused.
Placed(s, c, rejected) ==
    IF c \in rejected
    THEN [s EXCEPT !.entry[c] = "Failed", !.batch[c[1]].st = "Failed"]
    ELSE IF held THEN Call(EnqueueChild(s, c), "pause", c) ELSE EnqueueChild(s, c)

Planned(s, b) ==
    [s EXCEPT !.batch[b].st = "Running",
              !.entry = [c \in Children |-> IF c[1] = b THEN "Queued" ELSE s.entry[c]]]

PlaceEach(s, b, rejected) ==
    LET after[n \in 0..Files] == IF n = 0 THEN s ELSE Placed(after[n - 1], <<b, n>>, rejected)
    IN  after

\* completePlanning(), on the GUI thread.
CompletePlanning(b) ==
    /\ up
    /\ planner[b] \in {"planned", "failed", "cancelled"}
    /\ planner' = [planner EXCEPT ![b] = "none"]
    /\ IF ~WantsPlan(b) THEN UNCHANGED <<task, order, work, decided, live, coordinatorVars, up>>
       ELSE IF planner[b] # "planned"
       THEN /\ Becomes(PublishBatches([Now EXCEPT !.batch[b].st =
                                          IF planner[b] = "failed" THEN "Failed" ELSE "Cancelled"]))
            /\ UNCHANGED up
       ELSE \E rejected \in IF "reject" \in Faults THEN SUBSET ({b} \X (1..Files)) ELSE {{}} :
               LET after == PlaceEach(Planned(Now, b), b, rejected)
               IN  Handler(Range(after), PublishBatches(after[Files]))
    /\ UNCHANGED <<settled, held, file>>

-----------------------------------------------------------------------------
(***************************************************************************)
(* The results of the workers, delivered on the GUI thread.                *)
(***************************************************************************)
Undecided(c) == c[2] \in Existing /\ c \notin decided

\* What the worker of a child may answer, whenever it was told to stop, and
\* whatever was decided: Cancel ends it as a stop does, and Rename to a path that
\* exists or Replace by another type fails.
Answers(c) ==
    (IF Undecided(c) THEN {"conflict"} ELSE {"completed"})
    \cup (IF c \in decided THEN {"cancelled", "failed"} ELSE {})
    \cup (IF task[c].st = "Pausing" THEN {"paused", "cancelled"} ELSE {})
    \cup (IF task[c].st \in {"Cancelling", "Cancelled", "gone"} THEN {"cancelled"} ELSE {})
    \cup (IF "io" \in Faults THEN {"failed"} ELSE {})

\* handleResult() for a task that is active.  A conflict in a batch whose
\* policy covers the rest is answered within the same handler.
Answered(s, c, kind) ==
    LET e == [kind |-> kind, bytes |-> 0]
        t == [s EXCEPT !.task[c] = Settled(@, e)]
    IN  IF kind = "conflict" /\ Present(c[1]) /\ batch[c[1]].auto /\ c \in s.work
        THEN Changed(Call([t EXCEPT !.decided = @ \cup {c}], "retry", c))
        ELSE Changed(IF ErasesWork(s.task[c], e) THEN Forget(t, c) ELSE t)

Deliver(c) ==
    /\ up
    /\ c \in live
    /\ \E kind \in Answers(c) :
          LET s == [Now EXCEPT !.live = @ \ {c}]
          IN  /\ Becomes(IF s.task[c].st \in Active THEN Answered(s, c, kind) ELSE Schedule(s))
              /\ settled' = IF kind = "completed" THEN settled \cup {c} ELSE settled
    /\ UNCHANGED <<planner, held, file, up>>

-----------------------------------------------------------------------------
(***************************************************************************)
(* The batch file, the end of the process and its restart.                 *)
(***************************************************************************)
RecoverableBatch(st) == st \in {"Running", "Paused", "NeedsAttention", "Interrupted"}

SavedBatches ==
    [b \in Batches |->
        IF ~RecoverableBatch(batch[b].st) THEN NoBatch
        ELSE [entries |-> [i \in 1..Files |-> entry[<<b, i>>]], auto |-> batch[b].auto]]

SaveBatches ==
    /\ up
    /\ timer
    /\ file' = SavedBatches
    /\ timer' = FALSE
    /\ UNCHANGED <<managerVars, batch, entry, planner, held, up>>

\* The coordinator's destructor joins the planners and saves; then the manager
\* stops its workers, whose answers nobody hears, and saves.
Quit ==
    /\ Clicks("quit")
    /\ up' = FALSE
    /\ file' = SavedBatches
    /\ Becomes(Lost(Now))
    /\ UNCHANGED <<settled, planner, held>>

Crash ==
    /\ "crash" \in Faults
    /\ up
    /\ up' = FALSE
    /\ Becomes(Lost(Now))
    /\ UNCHANGED <<settled, planner, held, file>>

\* Seeded fault: an entry that is not in the journal any more has been done.
RestoredAsDone(st) == IF st \in {"none", "Cancelled"} THEN st ELSE "Completed"

\* load(): an entry that was not over is interrupted.
RestoredEntry(st) == IF st \in {"none", "Completed", "Cancelled"} THEN st ELSE "Interrupted"

\* The manager rebuilds its queue from the journal, then the coordinator
\* loads its file and looks at the queue.
Restart ==
    /\ ~up
    /\ up' = TRUE
    /\ LET restored == [c \in Children |-> Restored(JournalEntry(task[c]), task[c])]
           kept == {c \in Children : restored[c].st \notin Outside}
       IN  Becomes(PublishBatches(ApplySnapshot(
              [task |-> restored, order |-> order, work |-> kept, decided |-> {}, live |-> {},
               batch |-> [b \in Batches |->
                             [st   |-> IF file[b] # NoBatch THEN "Interrupted" ELSE batch[b].st,
                              auto |-> file[b].auto]],
               entry |-> [c \in Children |-> RestoredEntry(file[c[1]].entries[c[2]])],
               timer |-> TRUE])))
    /\ planner' = [b \in Batches |-> "none"]
    /\ held' = FALSE
    /\ UNCHANGED <<settled, file>>

-----------------------------------------------------------------------------
UserNext ==
    \/ \E b \in Batches : \/ Enqueue(b) \/ PauseBatch(b) \/ ResumeBatch(b)
                          \/ RetryBatch(b) \/ CancelBatch(b) \/ DismissBatch(b)
    \/ \E c \in Children : CallChild(c) \/ Decide(c)
    \/ PauseAll \/ ResumeAll \/ CancelAll \/ ClearFinished
    \/ Quit

SystemNext ==
    \/ \E b \in Batches : PlannerEnds(b) \/ CompletePlanning(b)
    \/ \E c \in Children : Deliver(c)
    \/ SaveBatches

Next == UserNext \/ SystemNext \/ Crash \/ Restart

Spec == Init /\ [][Next]_vars

-----------------------------------------------------------------------------
(***************************************************************************)
(* What the coordinator promises.                                          *)
(***************************************************************************)

\* Whenever the GUI thread is in its event loop, the entry of every child
\* shows the task as it is: no call, result, refused child or restart
\* changes a task behind the back of the coordinator.
EntriesMirrorTasks ==
    up => \A c \in Children :
        HasPlan(Now, c[1]) /\ task[c].st \notin Outside => entry[c] = EntryStatus(task[c].st)

\* A file shown as completed is in place, or the user chose to skip it,
\* whatever was cancelled or crashed since; and a batch shown as completed
\* counts every file but those whose transfer a restart has lost.
CompletedMeansSettled ==
    up => \A c \in Children :
        \/ entry[c] = "Completed"
        \/ batch[c[1]].st = "Completed" /\ entry[c] # "Interrupted"
        => c \in settled

\* A dismissed batch leaves no transfer behind that still runs or waits,
\* unless the manager refused one of its children: such a batch counts as
\* failed at once, with the others on their way.
DismissLeavesNothing ==
    [][\A b \in Batches :
          /\ up /\ up' /\ Present(b) /\ batch'[b].st = "gone"
          /\ \A i \in 1..Files : entry[<<b, i>>] # "none" => task[<<b, i>>].st # "new"
          => \A i \in 1..Files : task'[<<b, i>>].st \in Outside]_vars

\* Once a batch was cancelled while its tree was being walked, none of its
\* files is ever queued, although the walk may end with a plan.
CancelledPlanQueuesNothing ==
    [][\A c \in Children : task[c].st = "new" /\ task'[c].st # "new" =>
          batch[c[1]].st = "Discovering"]_vars

\* While everything is paused, nothing but a call of the user sets a
\* transfer going: no plan that comes in and no result that frees a slot.
PauseAllHolds ==
    [][held /\ up' /\ (planner' # planner \/ live \ live' # {}) =>
          \A c \in Children : task[c].st \notin {"Queued", "Running"} =>
                                  task'[c].st \notin {"Queued", "Running"}]_vars

\* V2_12_SCOPE: "Completion is not reported until all children [...] have
\* reached terminal states."
CompletedBatchIsSettled ==
    up => \A b \in Batches : batch[b].st = "Completed" =>
        \A i \in 1..Files : <<b, i>> \in settled
=============================================================================
