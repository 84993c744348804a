-------------------------- MODULE TransferManager --------------------------
(***************************************************************************)
(* The background transfer manager of application/sftp: the transfer queue *)
(* on the GUI thread, one worker thread per running transfer, the event    *)
(* queue through which the workers report, the partial files they leave,   *)
(* and the recovery journal that survives a crash.                         *)
(*                                                                         *)
(* The GUI thread is one process.  Between two GUI actions any number of   *)
(* worker steps may happen.  A worker is one thread running the lambda of  *)
(* startWorker(): it asks for credentials, connects, runs executeTransfer  *)
(* and posts exactly one final event.  A call that blocks the GUI thread   *)
(* on a worker's join is a state of variable gui, not a step.              *)
(***************************************************************************)
EXTENDS TransferQueue, Sequences

CONSTANTS
    Tasks,      \* transfer tasks; an identifier is a fresh UUID, used once
    Uploads,    \* the tasks whose direction is Upload; the others download
    Existing,   \* the tasks whose destination exists before they start
    Limit,      \* concurrencyLimit
    Callers,    \* who calls the manager: "center" the buttons of a single
                \* transfer and the "all" buttons, "batch" the coordinator,
                \* which applies a call to every child of a batch
    Calls,      \* the calls the user makes
    Decisions,  \* the conflict actions the user picks
    Faults,     \* what goes wrong around the manager
    Backlog     \* bound: the user acts only while fewer events are waiting

ASSUME TasksAssumption == IsFiniteSet(Tasks)
ASSUME LimitAssumption == Limit \in Nat \ {0}
ASSUME BacklogAssumption == Backlog \in Nat
ASSUME EnvironmentAssumption ==
    /\ Uploads \subseteq Tasks
    /\ Existing \subseteq Tasks
    /\ Callers \subseteq {"center", "batch"}
    /\ Calls \subseteq {"cancel", "pause", "resume", "retry", "dismiss", "shutdown"}
    /\ Decisions \subseteq {"skip", "replace", "cancel"}
    /\ Faults \subseteq {"credential", "io", "source", "threads", "crash"}

VARIABLES
    task,       \* m_queue: the record of every task
    order,      \* m_queue: the tasks in the order they were appended
    work,       \* the keys of m_work
    opts,       \* m_work: the conflict action recorded for a task
    asked,      \* tasks whose conflict dialog waits for an answer
    gui,        \* what the GUI thread is doing; "closing" is m_stopRequested
    worker,     \* m_workers, and the duplicate a failed emplace destroys
    events,     \* queued invokeMethod calls, oldest first
    partial,    \* length of the .ztermy-part file of a task
    dest,       \* what is at the destination path of a task
    cleaning,   \* tasks whose remote partial a cleanup thread is removing
    journal     \* transfer_recovery.json

queueVars  == <<task, order, work, opts, asked>>
threadVars == <<worker, events>>
fileVars   == <<partial, dest, cleaning>>
vars       == <<queueVars, gui, threadVars, fileVars, journal>>

-----------------------------------------------------------------------------
(***************************************************************************)
(* Threads, events and files.                                              *)
(***************************************************************************)
Slots == {"own", "dup"}

Phases == {"none", "start", "connect", "prepare", "copy", "commit", "done"}

Actions == {"none", "skip", "replace", "cancel"}

Workers == [phase : Phases, stop : BOOLEAN, pause : BOOLEAN,
            n : 0..Size, opt : Actions]

NoWorker   == [phase |-> "none", stop |-> FALSE, pause |-> FALSE, n |-> 0, opt |-> "none"]
DoneWorker == [NoWorker EXCEPT !.phase = "done"]

\* A thread that has not posted its final event.
Live(w) == w.phase \notin {"none", "done"}

EventKinds == {"progress", "credential", "completed", "skipped", "cancelled",
               "paused", "conflict", "failed", "invalid"}

Events == [kind : EventKinds, task : Tasks, bytes : 0..Size]

NoFile == Size + 1

GuiStates == {"idle", "schedule", "joinDuplicate", "joinWorker", "closing", "down"}

\* The worker copies the task and the options when it is started.
FreshWorker(t) == [phase |-> "start", stop |-> FALSE, pause |-> FALSE,
                   n |-> task[t].bytes, opt |-> opts[t]]

TypeOK ==
    /\ task \in [Tasks -> TaskRecords]
    /\ order \in Seq(Tasks)
    /\ work \subseteq Tasks
    /\ opts \in [Tasks -> Actions]
    /\ asked \subseteq Tasks
    /\ gui \in GuiStates
    /\ worker \in [Tasks -> [Slots -> Workers]]
    /\ events \in Seq(Events)
    /\ partial \in [Tasks -> 0..NoFile]
    /\ dest \in [Tasks -> {"absent", "old", "ours"}]
    /\ cleaning \subseteq Tasks
    /\ journal \in [Tasks -> JournalRecords]

Init ==
    /\ task = [t \in Tasks |-> NewTask]
    /\ order = <<>>
    /\ work = {}
    /\ opts = [t \in Tasks |-> "none"]
    /\ asked = {}
    /\ gui = "idle"
    /\ worker = [t \in Tasks |-> [s \in Slots |-> NoWorker]]
    /\ events = <<>>
    /\ partial = [t \in Tasks |-> NoFile]
    /\ dest = [t \in Tasks |-> IF t \in Existing THEN "old" ELSE "absent"]
    /\ cleaning = {}
    /\ journal = [t \in Tasks |-> NoEntry]

\* Seeded fault: a snapshot is shown but not persisted.
ShowOnly == journal' = journal

\* publishSnapshot(): the journal is rewritten from the queue, synchronously.
Publish == journal' = Saved(task')

\* The GUI thread is in its event loop, and the manager is not stopped.
Idle == gui = "idle"

EraseWork(t) == work' = work \ {t} /\ opts' = [opts EXCEPT ![t] = "none"]

KeepWork == UNCHANGED <<work, opts>>

-----------------------------------------------------------------------------
(***************************************************************************)
(* Calls of the user interface, on the GUI thread.                         *)
(***************************************************************************)

Called(call, t) ==
    /\ Idle
    /\ Len(events) < Backlog
    /\ call \in Calls
    /\ task[t].st # "new"
    /\ "batch" \in Callers \/ task[t].st \in CenterOffers(call)

Enqueue(t) ==
    /\ Idle
    /\ task[t].st = "new"
    /\ task' = [task EXCEPT ![t].st = "Queued"]
    /\ order' = Append(order, t)
    /\ work' = work \cup {t}
    /\ Publish
    /\ gui' = "schedule"
    /\ UNCHANGED <<opts, asked, threadVars, fileVars>>

\* Seeded fault: no call schedules, whatever it did to the slots.
StayIdle(t) == "idle"

\* A call on a running task changes no slot until the worker answers; any
\* other call is followed by schedule().
AfterCall(t) == IF task[t].st = "Running" THEN "idle" ELSE "schedule"

\* Any live worker is told to stop and not to keep its partial.
StopForCancel(t) ==
    worker' = [worker EXCEPT ![t].own =
                  IF Live(@) THEN [@ EXCEPT !.stop = TRUE, !.pause = FALSE] ELSE @]

Cancel(t) ==
    /\ Called("cancel", t)
    /\ StopForCancel(t)
    /\ IF CanCancel(task[t])
       THEN /\ task' = [task EXCEPT ![t] = CancelTask(@)]
            /\ EraseWork(t)
            /\ Publish
            /\ gui' = AfterCall(t)
       ELSE UNCHANGED <<task, work, opts, journal, gui>>
    /\ UNCHANGED <<order, asked, events, fileVars>>

Pause(t) ==
    /\ Called("pause", t)
    /\ CanPause(task[t])
    /\ task' = [task EXCEPT ![t] = PauseTask(@)]
    /\ worker' = [worker EXCEPT ![t].own =
                     IF Live(@) THEN [@ EXCEPT !.stop = TRUE, !.pause = TRUE] ELSE @]
    /\ Publish
    /\ gui' = AfterCall(t)
    /\ UNCHANGED <<order, work, opts, asked, events, fileVars>>

Requeue(t, r) ==
    /\ task' = [task EXCEPT ![t] = r]
    /\ Publish
    /\ gui' = "schedule"

\* Seeded fault: a task is queued again although m_work no longer knows it.
WorkAssumed(t) == TRUE

HasWork(t) == t \in work

Resume(t) ==
    /\ Called("resume", t)
    /\ HasWork(t)
    /\ CanResume(task[t])
    /\ Requeue(t, ResumeTask(task[t]))
    /\ UNCHANGED <<order, work, opts, asked, threadVars, fileVars>>

Retry(t) ==
    /\ Called("retry", t)
    /\ HasWork(t)
    /\ CanRetry(task[t])
    /\ Requeue(t, RetryTask(task[t]))
    /\ UNCHANGED <<order, work, opts, asked, threadVars, fileVars>>

\* Removes the tasks in T.  What m_work still holds decides whose partial is
\* removed: a local one at once, a remote one by a cleanup thread.
Remove(T) ==
    /\ task' = [t \in Tasks |-> IF t \in T THEN DismissTask(task[t]) ELSE task[t]]
    /\ work' = work \ T
    /\ opts' = [t \in Tasks |-> IF t \in T THEN "none" ELSE opts[t]]
    /\ cleaning' = cleaning \cup (T \cap work \cap Uploads)
    /\ partial' = [t \in Tasks |-> IF t \in (T \cap work) \ Uploads THEN NoFile ELSE partial[t]]
    /\ Publish
    /\ UNCHANGED <<order, asked, gui, threadVars, dest>>

Dismiss(t) ==
    /\ Called("dismiss", t)
    /\ task[t].st \in Finished
    /\ Remove({t})

DismissFinished ==
    /\ Idle
    /\ "dismiss" \in Calls
    /\ LET finished == {t \in Tasks : task[t].st \in Finished}
       IN  finished # {} /\ Remove(finished)

\* resolveConflict(): the decision is recorded whatever the task's status;
\* the task is queued again only if retry() accepts it.
Decide(t, a) ==
    IF t \in work
    THEN /\ opts' = [opts EXCEPT ![t] = a]
         /\ IF CanRetry(task[t])
            THEN Requeue(t, RetryTask(task[t]))
            ELSE UNCHANGED <<task, journal, gui>>
    ELSE UNCHANGED <<task, opts, journal, gui>>

ResolveConflict(t, a) ==
    /\ Idle
    /\ t \in asked
    /\ asked' = asked \ {t}
    /\ Decide(t, a)
    /\ UNCHANGED <<order, work, threadVars, fileVars>>

-----------------------------------------------------------------------------
(***************************************************************************)
(* schedule(): one action per iteration of its loop.                       *)
(***************************************************************************)
\* Seeded faults: one slot too many, one slot too few.
SlotFreeAtLimit == RunningCount(task) <= Limit
SlotFreeBelow   == RunningCount(task) + 1 < Limit

SlotFree == RunningCount(task) < Limit

\* startWorker(): m_workers.emplace keeps an entry that is already there.
\* The new thread then belongs to the discarded record, whose destructor
\* requests its stop and joins it on the GUI thread.
StartNext(i) ==
    /\ gui = "schedule"
    /\ SlotFree
    /\ IsFirstQueued(task, order, i)
    /\ LET t == order[i] IN
       IF t \in work
       THEN /\ task' = [task EXCEPT ![t] = TakeTask(@)]
            /\ IF worker[t].own.phase = "none"
               THEN worker' = [worker EXCEPT ![t].own = FreshWorker(t)] /\ gui' = gui
               ELSE worker' = [worker EXCEPT ![t].dup = FreshWorker(t)] /\ gui' = "joinDuplicate"
       ELSE /\ task' = [task EXCEPT ![t] = Fail(TakeTask(@), "provider-missing")]
            /\ UNCHANGED <<worker, gui>>
    /\ UNCHANGED <<order, work, opts, asked, events, fileVars, journal>>

StartFails(i) ==
    /\ gui = "schedule"
    /\ "threads" \in Faults
    /\ SlotFree
    /\ IsFirstQueued(task, order, i)
    /\ order[i] \in work
    /\ task' = [task EXCEPT ![order[i]] = Fail(TakeTask(@), "error")]
    /\ UNCHANGED <<order, work, opts, asked, gui, threadVars, fileVars, journal>>

ScheduleDone ==
    /\ gui = "schedule"
    /\ ~SlotFree \/ NoneQueued(task, order)
    /\ journal' = Saved(task)
    /\ gui' = "idle"
    /\ UNCHANGED <<queueVars, threadVars, fileVars>>

StopDuplicate(t) ==
    /\ gui = "joinDuplicate"
    /\ Live(worker[t].dup)
    /\ ~worker[t].dup.stop
    /\ worker' = [worker EXCEPT ![t].dup.stop = TRUE]
    /\ UNCHANGED <<queueVars, gui, events, fileVars, journal>>

DuplicateJoined(t) ==
    /\ gui = "joinDuplicate"
    /\ worker[t].dup.phase = "done"
    /\ worker' = [worker EXCEPT ![t].dup = NoWorker]
    /\ gui' = "schedule"
    /\ UNCHANGED <<queueVars, events, fileVars, journal>>

-----------------------------------------------------------------------------
(***************************************************************************)
(* The workers' events, delivered in order on the GUI thread.              *)
(***************************************************************************)
Delivers(kinds) == events # <<>> /\ Head(events).kind \in kinds

Final == EventKinds \ {"progress"}

DeliverProgress ==
    /\ Idle
    /\ Delivers({"progress"})
    /\ LET e == Head(events) IN
       IF task[e.task].st = "Running" /\ e.bytes >= task[e.task].bytes
       THEN task' = [task EXCEPT ![e.task] = UpdateProgress(@, e.bytes)] /\ Publish
       ELSE UNCHANGED <<task, journal>>
    /\ events' = Tail(events)
    /\ UNCHANGED <<order, work, opts, asked, gui, worker, fileVars>>

\* m_workers.erase(id) destroys the record: a thread that still runs is told
\* to stop and joined.  A thread of the same task may be another one than the
\* thread that posted the event.
JoinWorker ==
    /\ Idle
    /\ Delivers(Final)
    /\ LET t == Head(events).task IN
       /\ Live(worker[t].own)
       /\ worker' = [worker EXCEPT ![t].own.stop = TRUE]
    /\ gui' = "joinWorker"
    /\ UNCHANGED <<queueVars, events, fileVars, journal>>

\* The rest of a handler, once m_workers.erase(id) has returned.
Erased(t) ==
    /\ gui \in {"idle", "joinWorker"}
    /\ ~Live(worker[t].own)
    /\ worker' = [worker EXCEPT ![t].own = NoWorker]
    /\ events' = Tail(events)

DeliverCredentialError ==
    /\ Delivers({"credential"})
    /\ LET t == Head(events).task IN
       /\ Erased(t)
       /\ IF task[t].st = "Running"
          THEN Requeue(t, NeedAttention(task[t]))
          ELSE gui' = "idle" /\ UNCHANGED <<task, journal>>
    /\ UNCHANGED <<order, work, opts, asked, fileVars>>

DeliverResult ==
    /\ Delivers(Final \ {"credential"})
    /\ LET e == Head(events)
           t == e.task
       IN /\ Erased(t)
          /\ gui' = "schedule"
          /\ IF task[t].st \in Active
             THEN /\ task' = [task EXCEPT ![t] = Settled(@, e)]
                  /\ Publish
                  /\ IF ErasesWork(task[t], e) THEN EraseWork(t) ELSE KeepWork
                  /\ asked' = IF e.kind = "conflict" THEN asked \cup {t} ELSE asked
             ELSE UNCHANGED <<task, work, opts, asked, journal>>
    /\ UNCHANGED <<order, fileVars>>

\* A batch whose conflict policy applies to its remaining children answers
\* conflictRequired inside the signal's emission.
DeliverConflictToPolicy(a) ==
    /\ "batch" \in Callers
    /\ Delivers({"conflict"})
    /\ LET t == Head(events).task
           r == NeedAttention(task[t])
       IN /\ task[t].st \in Active
          /\ Erased(t)
          /\ Requeue(t, IF t \in work /\ CanRetry(r) THEN RetryTask(r) ELSE r)
          /\ opts' = IF t \in work THEN [opts EXCEPT ![t] = a] ELSE opts
    /\ UNCHANGED <<order, work, asked, fileVars>>

-----------------------------------------------------------------------------
(***************************************************************************)
(* The worker thread of slot s of task t.                                  *)
(***************************************************************************)
Step(t, s, w) == worker' = [worker EXCEPT ![t][s] = w]

\* Events posted once the manager is stopping are never delivered.
Post(kind, t, n) ==
    events' = IF gui = "closing" THEN events
              ELSE Append(events, [kind |-> kind, task |-> t, bytes |-> n])

\* The thread posts its final event and returns.
Finish(t, s, kind, n) == Step(t, s, DoneWorker) /\ Post(kind, t, n)

At(t, s, phase) == worker[t][s].phase = phase

\* A remote call gives up when the stop token is set; a timeout or an error
\* of the connection or of the local disk is an "io" fault.
RequestCredentials(t, s) ==
    /\ At(t, s, "start")
    /\ \/ Step(t, s, [worker[t][s] EXCEPT !.phase = "connect"]) /\ UNCHANGED events
       \/ "credential" \in Faults /\ Finish(t, s, "credential", 0)
    /\ UNCHANGED <<queueVars, gui, fileVars, journal>>

Connect(t, s) ==
    /\ At(t, s, "connect")
    /\ \/ Step(t, s, [worker[t][s] EXCEPT !.phase = "prepare"]) /\ UNCHANGED events
       \/ worker[t][s].stop /\ Finish(t, s, "cancelled", 0)
       \/ "io" \in Faults /\ Finish(t, s, "failed", 0)
    /\ UNCHANGED <<queueVars, gui, fileVars, journal>>

\* The actual length of the partial wins over the recorded count; a count of
\* zero discards whatever partial there is.
ResumeOffset(t, n) == IF n > 0 /\ partial[t] # NoFile THEN partial[t] ELSE 0

\* Seeded fault: any decision lets the transfer proceed.
Unasked(t, w) == dest[t] # "absent" /\ w.opt = "none"

Undecided(t, w) == dest[t] # "absent" /\ w.opt # "replace"

\* From the first stop check of executeTransfer to the open partial file.
Prepare(t, s) ==
    LET w == worker[t][s]
        n == ResumeOffset(t, w.n)
    IN /\ At(t, s, "prepare")
       /\ ~w.stop
       /\ ~Undecided(t, w)
       /\ Step(t, s, [w EXCEPT !.phase = "copy", !.n = n])
       /\ partial' = [partial EXCEPT ![t] = n]
       /\ UNCHANGED <<queueVars, gui, events, dest, cleaning, journal>>

PrepareEnds(t, s) ==
    LET w == worker[t][s]
    IN /\ At(t, s, "prepare")
       /\ \/ w.stop /\ Finish(t, s, "cancelled", 0)
          \/ /\ ~w.stop
             /\ Undecided(t, w)
             /\ Finish(t, s, CASE w.opt = "skip"   -> "skipped"
                               [] w.opt = "cancel" -> "cancelled"
                               [] OTHER            -> "conflict", 0)
          \/ ~w.stop /\ "io" \in Faults /\ Finish(t, s, "failed", 0)
          \/ ~w.stop /\ "source" \in Faults /\ Finish(t, s, "invalid", w.n)
       /\ UNCHANGED <<queueVars, gui, fileVars, journal>>

\* A file cannot be opened or positioned after the partial was reconciled.
PrepareBreaks(t, s) ==
    LET w == worker[t][s]
        n == ResumeOffset(t, w.n)
    IN /\ At(t, s, "prepare")
       /\ ~Undecided(t, w)
       /\ \E b \in {0, n} :
             \/ w.stop /\ Finish(t, s, "cancelled", b)
             \/ "io" \in Faults /\ Finish(t, s, "failed", b)
       /\ partial' = [partial EXCEPT ![t] = IF n = 0 THEN NoFile ELSE n]
       /\ UNCHANGED <<queueVars, gui, dest, cleaning, journal>>

\* Seeded fault: the copy loop runs one chunk past the end of the source.
CopyPastEnd(w) == w.n <= Size

MoreToCopy(w) == w.n < Size

\* One turn of the copy loop.  Progress is posted at intervals, and always
\* for the last chunk.
CopyChunk(t, s) ==
    LET w == worker[t][s]
        n == w.n + 1
    IN /\ At(t, s, "copy")
       /\ ~w.stop
       /\ MoreToCopy(w)
       /\ Step(t, s, [w EXCEPT !.n = n])
       /\ partial' = [partial EXCEPT ![t] = IF @ = NoFile THEN NoFile ELSE n]
       /\ \/ Post("progress", t, n)
          \/ n < Size /\ UNCHANGED events
       /\ UNCHANGED <<queueVars, gui, dest, cleaning, journal>>

\* The source is at its end, be it shorter by now than its recorded length.
CopyDone(t, s) ==
    /\ At(t, s, "copy")
    /\ ~worker[t][s].stop
    /\ worker[t][s].n = Size \/ "source" \in Faults
    /\ Step(t, s, [worker[t][s] EXCEPT !.phase = "commit"])
    /\ UNCHANGED <<queueVars, gui, events, fileVars, journal>>

\* The executor removes its partial.  Nothing looks at the answer of a server.
Discard(t) ==
    \/ partial' = [partial EXCEPT ![t] = NoFile]
    \/ t \in Uploads /\ "io" \in Faults /\ partial' = partial

\* The loop sees the stop: pauseRequested decides whether the partial stays.
CopyStopped(t, s) ==
    LET w == worker[t][s]
    IN /\ At(t, s, "copy")
       /\ w.stop
       /\ Finish(t, s, IF w.pause THEN "paused" ELSE "cancelled", w.n)
       /\ IF w.pause THEN partial' = partial ELSE Discard(t)
       /\ UNCHANGED <<queueVars, gui, dest, cleaning, journal>>

\* A read or a write returns an error; the partial stays.  The stop token
\* ends a blocked call with the error kind Cancelled.
CopyBreaks(t, s) ==
    LET w == worker[t][s]
    IN /\ At(t, s, "copy")
       /\ \/ w.stop /\ Finish(t, s, "cancelled", w.n)
          \/ "io" \in Faults /\ Finish(t, s, "failed", w.n)
       /\ UNCHANGED <<queueVars, gui, fileVars, journal>>

\* A download replaces what is at the destination; an upload asks the server
\* for a rename that refuses to, unless the decision was to replace.
CanCommit(t, w) ==
    /\ partial[t] # NoFile
    /\ t \in Uploads => ~Undecided(t, w)

Commit(t, s) ==
    LET w == worker[t][s]
    IN /\ At(t, s, "commit")
       /\ CanCommit(t, w)
       /\ Finish(t, s, "completed", w.n)
       /\ partial' = [partial EXCEPT ![t] = NoFile]
       /\ dest' = [dest EXCEPT ![t] = "ours"]
       /\ UNCHANGED <<queueVars, gui, cleaning, journal>>

\* Closing the remote file or committing fails.  An upload removes its remote
\* partial; its rename may have reached the server although no reply came.
CommitFails(t, s) ==
    LET w == worker[t][s]
    IN /\ At(t, s, "commit")
       /\ \/ w.stop /\ Finish(t, s, "cancelled", w.n)
          \/ /\ "io" \in Faults \/ ~CanCommit(t, w)
             /\ Finish(t, s, "failed", w.n)
       /\ \/ /\ IF t \in Uploads THEN Discard(t) ELSE partial' = partial
             /\ dest' = dest
          \/ /\ t \in Uploads
             /\ CanCommit(t, w)
             /\ partial' = [partial EXCEPT ![t] = NoFile]
             /\ dest' = [dest EXCEPT ![t] = "ours"]
       /\ UNCHANGED <<queueVars, gui, cleaning, journal>>

\* A cleanup thread connects on its own and ignores every error.
CleanupPartial(t) ==
    /\ t \in cleaning
    /\ gui # "down"
    /\ cleaning' = cleaning \ {t}
    /\ \/ partial' = [partial EXCEPT ![t] = NoFile]
       \/ Faults \cap {"credential", "io"} # {} /\ partial' = partial
    /\ UNCHANGED <<queueVars, gui, threadVars, dest, journal>>

-----------------------------------------------------------------------------
(***************************************************************************)
(* Shutdown, crash and restart.                                            *)
(***************************************************************************)

\* requestStop(): every worker is stopped, none is asked to keep its partial.
RequestStop ==
    /\ Idle
    /\ "shutdown" \in Calls
    /\ gui' = "closing"
    /\ worker' = [t \in Tasks |->
                     [worker[t] EXCEPT !.own = IF Live(@) THEN [@ EXCEPT !.stop = TRUE] ELSE @]]
    /\ events' = <<>>
    /\ UNCHANGED <<queueVars, fileVars, journal>>

\* shutdown(): the worker and cleanup threads are joined, then the journal is
\* written; results that arrived meanwhile are not applied.
Shutdown ==
    /\ gui = "closing"
    /\ \A t \in Tasks : ~Live(worker[t].own)
    /\ worker' = [t \in Tasks |-> [s \in Slots |-> NoWorker]]
    /\ cleaning' = {}
    /\ journal' = Saved(task)
    /\ gui' = "down"
    /\ UNCHANGED <<queueVars, events, partial, dest>>

Crash ==
    /\ "crash" \in Faults
    /\ gui # "down"
    /\ gui' = "down"
    /\ worker' = [t \in Tasks |-> [s \in Slots |-> NoWorker]]
    /\ events' = <<>>
    /\ cleaning' = {}
    /\ UNCHANGED <<queueVars, partial, dest, journal>>

\* A new process: enableRecovery() rebuilds the queue from the journal, with
\* a fresh request provider and no conflict decision for every entry.
Restart ==
    /\ gui = "down"
    /\ gui' = "idle"
    /\ task' = [t \in Tasks |-> Restored(journal[t], task[t])]
    /\ work' = {t \in Tasks : journal[t].st # "none"}
    /\ opts' = [t \in Tasks |-> "none"]
    /\ asked' = {}
    /\ Publish
    /\ UNCHANGED <<order, threadVars, fileVars>>

-----------------------------------------------------------------------------
UserNext ==
    \/ \E t \in Tasks : \/ Enqueue(t) \/ Cancel(t) \/ Pause(t) \/ Resume(t)
                        \/ Retry(t) \/ Dismiss(t)
                        \/ \E a \in Decisions : ResolveConflict(t, a)
    \/ DismissFinished
    \/ RequestStop

ScheduleNext ==
    \/ \E i \in DOMAIN order : StartNext(i) \/ StartFails(i)
    \/ ScheduleDone
    \/ \E t \in Tasks : StopDuplicate(t) \/ DuplicateJoined(t)

EventNext ==
    \/ DeliverProgress
    \/ JoinWorker
    \/ DeliverCredentialError
    \/ DeliverResult
    \/ \E a \in Decisions \cap {"skip", "replace"} : DeliverConflictToPolicy(a)

WorkerStep(t, s) ==
    \/ RequestCredentials(t, s) \/ Connect(t, s)
    \/ Prepare(t, s) \/ PrepareEnds(t, s) \/ PrepareBreaks(t, s)
    \/ CopyChunk(t, s) \/ CopyDone(t, s) \/ CopyStopped(t, s) \/ CopyBreaks(t, s)
    \/ Commit(t, s) \/ CommitFails(t, s)

WorkerNext == \E t \in Tasks : (\E s \in Slots : WorkerStep(t, s)) \/ CleanupPartial(t)

ProcessNext == Shutdown \/ Crash \/ Restart

Next == UserNext \/ ScheduleNext \/ EventNext \/ WorkerNext \/ ProcessNext

Spec == Init /\ [][Next]_vars

\* Every remote call and every wait of a worker has a deadline, the event
\* loop runs and gets to a queued event however busy the user is, and a
\* shutdown goes through.  Nothing obliges the user.
Fairness ==
    /\ WF_vars(ScheduleNext)
    /\ SF_vars(EventNext)
    /\ \A t \in Tasks : \A s \in Slots : WF_vars(WorkerStep(t, s))
    /\ WF_vars(Shutdown)

FairSpec == Spec /\ Fairness

=============================================================================
