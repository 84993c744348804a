----------------------- MODULE TransferManagerProofs -----------------------
(***************************************************************************)
(* Theorems about the transfer manager, for every number of tasks, every   *)
(* concurrency limit, every file size and every choice of callers, calls   *)
(* and faults.                                                             *)
(***************************************************************************)
EXTENDS TransferProperties, FiniteSetTheorems, SequenceTheorems, TLAPS

-----------------------------------------------------------------------------
(***************************************************************************)
(* The queue operations keep a record a record.                            *)
(***************************************************************************)

\* No byte and every byte are byte counts of a task.
LEMMA SizeBounds == 0 \in 0..Size /\ Size \in 0..Size /\ Size \in Nat
  BY SizeAssumption

\* TransferTask stays well formed under every operation of TransferQueue that
\* only changes the status.
LEMMA StatusOperationsType ==
    ASSUME NEW r \in TaskRecords
    PROVE  /\ CancelTask(r) \in TaskRecords
           /\ PauseTask(r) \in TaskRecords
           /\ ResumeTask(r) \in TaskRecords
           /\ RetryTask(r) \in TaskRecords
           /\ DismissTask(r) \in TaskRecords
           /\ TakeTask(r) \in TaskRecords
           /\ NeedAttention(r) \in TaskRecords
<1>1. CancelTask(r) \in TaskRecords /\ PauseTask(r) \in TaskRecords
  BY DEF TaskRecords, CancelTask, PauseTask, To, CancelTarget, PauseTarget, Statuses
<1>2. ResumeTask(r) \in TaskRecords /\ TakeTask(r) \in TaskRecords
  BY DEF TaskRecords, ResumeTask, TakeTask, Statuses, Codes
<1>3. RetryTask(r) \in TaskRecords
  BY SizeBounds DEF TaskRecords, RetryTask, Statuses, Codes
<1>4. DismissTask(r) \in TaskRecords
  BY SizeBounds DEF TaskRecords, DismissTask, NewTask, Outside, Codes
<1>5. NeedAttention(r) \in TaskRecords
  BY DEF TaskRecords, NeedAttention, Statuses, Codes
<1> QED
  BY <1>1, <1>2, <1>3, <1>4, <1>5

\* ... and under those that take a byte count or an error code of a result.
LEMMA ResultOperationsType ==
    ASSUME NEW r \in TaskRecords, NEW n \in 0..Size, NEW code \in Codes
    PROVE  /\ UpdateProgress(r, n) \in TaskRecords
           /\ MarkPaused(r, n) \in TaskRecords
           /\ Complete(r) \in TaskRecords
           /\ Fail(r, code) \in TaskRecords
<1>1. UpdateProgress(r, n) \in TaskRecords
  BY DEF TaskRecords, UpdateProgress
<1>2. MarkPaused(r, n) \in TaskRecords
  BY DEF TaskRecords, MarkPaused, Statuses
<1>3. Complete(r) \in TaskRecords
  BY SizeBounds DEF TaskRecords, Complete, Statuses
<1>4. Fail(r, code) \in TaskRecords
  BY DEF TaskRecords, Fail, Statuses
<1> QED
  BY <1>1, <1>2, <1>3, <1>4

\* handleResult turns a record and an event into a record.
LEMMA SettledType ==
    ASSUME NEW r \in TaskRecords, NEW e \in Events,
           e.kind \in Final \ {"credential"}
    PROVE  Settled(r, e) \in TaskRecords
<1> DEFINE p == UpdateProgress(r, e.bytes)
<1>0. e.bytes \in 0..Size /\ e.kind \in EventKinds
  BY DEF Events, Final
<1>1. p \in TaskRecords
  BY <1>0, ResultOperationsType DEF Codes
<1>2. /\ Complete(p) \in TaskRecords
      /\ Fail(p, "error") \in TaskRecords
      /\ Fail(p, "invalid-task") \in TaskRecords
  BY <1>0, <1>1, ResultOperationsType DEF Codes
<1>3. /\ MarkPaused(r, e.bytes) \in TaskRecords
      /\ CancelTask(r) \in TaskRecords
      /\ NeedAttention(r) \in TaskRecords
  BY <1>0, ResultOperationsType, StatusOperationsType DEF Codes
<1> QED
  BY <1>0, <1>1, <1>2, <1>3 DEF Settled, EventKinds, Final

-----------------------------------------------------------------------------
(***************************************************************************)
(* Type correctness.                                                       *)
(***************************************************************************)

\* A worker's step changes one record of m_workers.
LEMMA StepType ==
    ASSUME TypeOK, NEW t \in Tasks, NEW s \in Slots, NEW w \in Workers, Step(t, s, w)
    PROVE  worker' \in [Tasks -> [Slots -> Workers]]
  BY DEF TypeOK, Step

\* An event carries a task and a byte count.
LEMMA PostType ==
    ASSUME TypeOK, NEW kind \in EventKinds, NEW t \in Tasks, NEW n \in 0..Size, Post(kind, t, n)
    PROVE  events' \in Seq(Events)
<1> DEFINE e == [kind |-> kind, task |-> t, bytes |-> n]
<1>1. e \in Events
  BY DEF Events
<1>2. events' = events \/ events' = Append(events, e)
  BY DEF Post
<1>3. events \in Seq(Events)
  BY DEF TypeOK
<1> HIDE DEF e
<1> QED
  BY <1>1, <1>2, <1>3

\* Telling a thread to stop, and whether to keep its partial.
LEMMA StopType ==
    ASSUME NEW w \in Workers, NEW b \in BOOLEAN
    PROVE  [w EXCEPT !.stop = TRUE] \in Workers /\ [w EXCEPT !.stop = TRUE, !.pause = b] \in Workers
  BY DEF Workers

LEMMA WorkerType ==
    ASSUME TypeOK, NEW t \in Tasks, NEW s \in Slots
    PROVE  worker[t][s] \in Workers
  BY DEF TypeOK

LEMMA DoneWorkerType == NoWorker \in Workers /\ DoneWorker \in Workers
  BY SizeBounds DEF NoWorker, DoneWorker, Workers, Phases, Actions

LEMMA FinishType ==
    ASSUME TypeOK, NEW kind \in EventKinds, NEW t \in Tasks, NEW s \in Slots, NEW n \in 0..Size,
           Finish(t, s, kind, n)
    PROVE  worker' \in [Tasks -> [Slots -> Workers]] /\ events' \in Seq(Events)
  BY StepType, PostType, DoneWorkerType DEF Finish

\* What startWorker copies of the task and of its options.
LEMMA FreshWorkerType ==
    ASSUME TypeOK, NEW t \in Tasks
    PROVE  FreshWorker(t) \in Workers
  BY DEF TypeOK, FreshWorker, Workers, Phases, TaskRecords

\* The journal is typed because the queue is.
LEMMA SavedType ==
    ASSUME NEW q \in [Tasks -> TaskRecords]
    PROVE  Saved(q) \in [Tasks -> JournalRecords]
  BY SizeBounds DEF Saved, JournalEntry, NoEntry, JournalRecords, TaskRecords

LEMMA RestoredType ==
    ASSUME NEW e \in JournalRecords, NEW r \in TaskRecords
    PROVE  Restored(e, r) \in TaskRecords
  BY SizeBounds DEF Restored, JournalRecords, TaskRecords, NewTask, Statuses, Outside, Codes

LEMMA InitType == Init => TypeOK
<1> SUFFICES ASSUME Init PROVE TypeOK
  OBVIOUS
<1>1. task \in [Tasks -> TaskRecords]
  BY SizeBounds DEF Init, TaskRecords, NewTask, Outside, Codes
<1>2. order \in Seq(Tasks) /\ events \in Seq(Events)
  BY DEF Init
<1>3. work \subseteq Tasks /\ asked \subseteq Tasks /\ cleaning \subseteq Tasks
  BY DEF Init
<1>4. opts \in [Tasks -> Actions] /\ gui \in GuiStates
  BY DEF Init, Actions, GuiStates
<1>5. worker \in [Tasks -> [Slots -> Workers]]
  BY DoneWorkerType DEF Init
<1>6. partial \in [Tasks -> 0..NoFile] /\ dest \in [Tasks -> {"absent", "old", "ours"}]
  BY SizeBounds DEF Init, NoFile
<1>7. journal \in [Tasks -> JournalRecords]
  BY SizeBounds DEF Init, JournalRecords, NoEntry
<1> QED
  BY <1>1, <1>2, <1>3, <1>4, <1>5, <1>6, <1>7 DEF TypeOK

\* The user's calls.
LEMMA UserType == TypeOK /\ UserNext => TypeOK'
<1> SUFFICES ASSUME TypeOK, UserNext PROVE TypeOK'
  OBVIOUS
<1>t. /\ task \in [Tasks -> TaskRecords]
      /\ \A t \in Tasks : task[t] \in TaskRecords
      /\ "own" \in Slots
  BY DEF TypeOK, Slots
<1>g. {"idle", "schedule", "closing"} \subseteq GuiStates
  BY DEF GuiStates
<1>1. ASSUME NEW t \in Tasks, Enqueue(t) PROVE TypeOK'
  <2>1. task' \in [Tasks -> TaskRecords]
    BY <1>1, <1>t DEF Enqueue, TaskRecords, Statuses
  <2>2. order' \in Seq(Tasks)
    BY <1>1 DEF Enqueue, TypeOK
  <2>3. journal' \in [Tasks -> JournalRecords]
    BY <1>1, <2>1, SavedType DEF Enqueue, Publish
  <2> QED
    BY <1>1, <1>g, <2>1, <2>2, <2>3 DEF Enqueue, TypeOK, threadVars, fileVars
<1>2. ASSUME NEW t \in Tasks, Cancel(t) PROVE TypeOK'
  <2> DEFINE own == IF Live(worker[t].own)
                    THEN [worker[t].own EXCEPT !.stop = TRUE, !.pause = FALSE] ELSE worker[t].own
  <2>1. worker' \in [Tasks -> [Slots -> Workers]]
    <3>1. own \in Workers
      BY <1>t, WorkerType, StopType
    <3>2. Step(t, "own", own)
      BY <1>2 DEF Cancel, StopForCancel, Step
    <3> QED
      BY <1>t, <3>1, <3>2, StepType
  <2>2. CASE CanCancel(task[t])
    <3>1. task' = [task EXCEPT ![t] = CancelTask(task[t])] /\ journal' = Saved(task')
      BY <1>2, <2>2 DEF Cancel, Publish
    <3>2. task' \in [Tasks -> TaskRecords]
      BY <1>t, <3>1, StatusOperationsType
    <3>3. journal' \in [Tasks -> JournalRecords]
      BY <3>1, <3>2, SavedType
    <3> QED
      BY <1>2, <1>g, <2>1, <2>2, <3>2, <3>3 DEF Cancel, EraseWork, AfterCall, TypeOK, Actions, fileVars
  <2>3. CASE ~CanCancel(task[t])
    BY <1>2, <2>1, <2>3 DEF Cancel, TypeOK, fileVars
  <2> QED
    BY <2>2, <2>3
<1>3. ASSUME NEW t \in Tasks, Pause(t) PROVE TypeOK'
  <2> DEFINE own == IF Live(worker[t].own)
                    THEN [worker[t].own EXCEPT !.stop = TRUE, !.pause = TRUE] ELSE worker[t].own
  <2>1. worker' \in [Tasks -> [Slots -> Workers]]
    <3>1. own \in Workers
      BY <1>t, WorkerType, StopType
    <3>2. Step(t, "own", own)
      BY <1>3 DEF Pause, Step
    <3> QED
      BY <1>t, <3>1, <3>2, StepType
  <2>2. task' \in [Tasks -> TaskRecords]
    BY <1>3, <1>t, StatusOperationsType DEF Pause
  <2> QED
    BY <1>3, <1>g, <2>1, <2>2, SavedType DEF Pause, Publish, AfterCall, TypeOK, fileVars
<1>4. ASSUME NEW t \in Tasks, Resume(t) PROVE TypeOK'
  <2>1. task' \in [Tasks -> TaskRecords]
    BY <1>4, <1>t, StatusOperationsType DEF Resume, Requeue
  <2> QED
    BY <1>4, <1>g, <2>1, SavedType DEF Resume, Requeue, Publish, TypeOK, threadVars, fileVars
<1>5. ASSUME NEW t \in Tasks, Retry(t) PROVE TypeOK'
  <2>1. task' \in [Tasks -> TaskRecords]
    BY <1>5, <1>t, StatusOperationsType DEF Retry, Requeue
  <2> QED
    BY <1>5, <1>g, <2>1, SavedType DEF Retry, Requeue, Publish, TypeOK, threadVars, fileVars
<1>6. ASSUME NEW T \in SUBSET Tasks, Remove(T) PROVE TypeOK'
  <2>1. task' \in [Tasks -> TaskRecords]
    BY <1>6, <1>t, StatusOperationsType DEF Remove
  <2>2. partial' \in [Tasks -> 0..NoFile]
    BY <1>6, SizeBounds DEF Remove, NoFile, TypeOK
  <2>3. opts' \in [Tasks -> Actions]
    BY <1>6 DEF Remove, Actions, TypeOK
  <2> QED
    BY <1>6, <2>1, <2>2, <2>3, SavedType DEF Remove, Publish, TypeOK, threadVars
<1>7. ASSUME NEW t \in Tasks, NEW a \in Decisions, ResolveConflict(t, a) PROVE TypeOK'
  <2>1. CASE t \in work /\ CanRetry(task[t])
    <3>1. task' = [task EXCEPT ![t] = RetryTask(task[t])] /\ journal' = Saved(task')
      BY <1>7, <2>1 DEF ResolveConflict, Decide, Requeue, Publish
    <3>2. task' \in [Tasks -> TaskRecords]
      BY <1>t, <3>1, StatusOperationsType
    <3>3. opts' \in [Tasks -> Actions]
      BY <1>7, <2>1, EnvironmentAssumption DEF ResolveConflict, Decide, Actions, TypeOK
    <3> QED
      BY <1>7, <1>g, <2>1, <3>1, <3>2, <3>3, SavedType
         DEF ResolveConflict, Decide, Requeue, TypeOK, threadVars, fileVars
  <2>2. CASE ~(t \in work /\ CanRetry(task[t]))
    BY <1>7, <2>2, EnvironmentAssumption
       DEF ResolveConflict, Decide, Actions, TypeOK, threadVars, fileVars
  <2> QED
    BY <2>1, <2>2
<1>8. CASE RequestStop
  <2>1. ASSUME NEW t \in Tasks
        PROVE  worker'[t] \in [Slots -> Workers]
    <3> DEFINE own == IF Live(worker[t].own)
                      THEN [worker[t].own EXCEPT !.stop = TRUE] ELSE worker[t].own
    <3>1. own \in Workers /\ worker[t] \in [Slots -> Workers]
      BY <1>t, WorkerType, StopType DEF TypeOK
    <3>2. worker'[t] = [worker[t] EXCEPT !.own = own]
      BY <1>8 DEF RequestStop
    <3> QED
      BY <1>t, <3>1, <3>2
  <2>2. worker' \in [Tasks -> [Slots -> Workers]]
    BY <1>8, <2>1 DEF RequestStop
  <2>3. events' \in Seq(Events)
    BY <1>8 DEF RequestStop
  <2> QED
    BY <1>8, <1>g, <2>2, <2>3 DEF RequestStop, queueVars, fileVars, TypeOK
<1>9. CASE DismissFinished
  BY <1>6, <1>9 DEF DismissFinished
<1>10. ASSUME NEW t \in Tasks, Dismiss(t) PROVE TypeOK'
  BY <1>6, <1>10 DEF Dismiss
<1> QED
  BY <1>1, <1>2, <1>3, <1>4, <1>5, <1>7, <1>8, <1>9, <1>10 DEF UserNext

\* A queued task that schedule() takes is a task.
LEMMA OrderElement == ASSUME TypeOK, NEW i \in DOMAIN order PROVE order[i] \in Tasks
  BY DEF TypeOK

\* schedule() and the duplicate of a worker.
LEMMA ScheduleType == TypeOK /\ ScheduleNext => TypeOK'
<1> SUFFICES ASSUME TypeOK, ScheduleNext PROVE TypeOK'
  OBVIOUS
<1>t. /\ task \in [Tasks -> TaskRecords]
      /\ \A t \in Tasks : task[t] \in TaskRecords
      /\ Slots = {"own", "dup"}
  BY DEF TypeOK, Slots
<1>g. {"idle", "schedule", "joinDuplicate"} \subseteq GuiStates
  BY DEF GuiStates
<1>1. ASSUME NEW i \in DOMAIN order, StartNext(i) PROVE TypeOK'
  <2> DEFINE t == order[i]
  <2>1. t \in Tasks
    BY OrderElement
  <2>2. CASE t \in work
    <3>1. FreshWorker(t) \in Workers
      BY <2>1, FreshWorkerType
    <3>2. task' = [task EXCEPT ![t] = TakeTask(task[t])]
      BY <1>1, <2>2 DEF StartNext
    <3>3. task' \in [Tasks -> TaskRecords]
      BY <1>t, <2>1, <3>2, StatusOperationsType
    <3>4. (Step(t, "own", FreshWorker(t)) /\ gui' = gui) \/ (Step(t, "dup", FreshWorker(t)) /\ gui' = "joinDuplicate")
      BY <1>1, <2>2 DEF StartNext, Step
    <3>5. worker' \in [Tasks -> [Slots -> Workers]]
      BY <1>t, <2>1, <3>1, <3>4, StepType
    <3> QED
      BY <1>1, <1>g, <3>3, <3>4, <3>5 DEF StartNext, TypeOK, fileVars
  <2>3. CASE t \notin work
    <3>1. task' = [task EXCEPT ![t] = Fail(TakeTask(task[t]), "provider-missing")]
      BY <1>1, <2>3 DEF StartNext
    <3>2. task' \in [Tasks -> TaskRecords]
      BY <1>t, <2>1, <3>1, StatusOperationsType, ResultOperationsType, SizeBounds DEF Codes
    <3> QED
      BY <1>1, <2>3, <3>2 DEF StartNext, TypeOK, fileVars
  <2> QED
    BY <2>2, <2>3
<1>2. ASSUME NEW i \in DOMAIN order, StartFails(i) PROVE TypeOK'
  <2>1. order[i] \in Tasks
    BY OrderElement
  <2>2. task' \in [Tasks -> TaskRecords]
    BY <1>2, <1>t, <2>1, StatusOperationsType, ResultOperationsType, SizeBounds DEF StartFails, Codes
  <2> QED
    BY <1>2, <2>2 DEF StartFails, TypeOK, threadVars, fileVars
<1>3. CASE ScheduleDone
  BY <1>3, <1>t, <1>g, SavedType DEF ScheduleDone, TypeOK, queueVars, threadVars, fileVars
<1>4. ASSUME NEW t \in Tasks, StopDuplicate(t) PROVE TypeOK'
  <2>1. Step(t, "dup", [worker[t]["dup"] EXCEPT !.stop = TRUE])
    BY <1>4 DEF StopDuplicate, Step
  <2>2. worker' \in [Tasks -> [Slots -> Workers]]
    BY <1>t, <2>1, WorkerType, StopType, StepType
  <2> QED
    BY <1>4, <2>2 DEF StopDuplicate, TypeOK, queueVars, fileVars
<1>5. ASSUME NEW t \in Tasks, DuplicateJoined(t) PROVE TypeOK'
  <2>1. Step(t, "dup", NoWorker)
    BY <1>5 DEF DuplicateJoined, Step
  <2>2. worker' \in [Tasks -> [Slots -> Workers]]
    BY <1>t, <2>1, DoneWorkerType, StepType
  <2> QED
    BY <1>5, <1>g, <2>2 DEF DuplicateJoined, TypeOK, queueVars, fileVars
<1> QED
  BY <1>1, <1>2, <1>3, <1>4, <1>5 DEF ScheduleNext

\* The oldest event is an event, and the others stay events.
LEMMA HeadEvent ==
    ASSUME TypeOK, events # <<>>
    PROVE  Head(events) \in Events /\ Tail(events) \in Seq(Events)
  BY DEF TypeOK

\* The handlers of the workers' events.
LEMMA EventType == TypeOK /\ EventNext => TypeOK'
<1> SUFFICES ASSUME TypeOK, EventNext PROVE TypeOK'
  OBVIOUS
<1> DEFINE e == Head(events)
           t == e.task
<1>e. /\ events # <<>>
      /\ t \in Tasks /\ e \in Events /\ e.kind \in EventKinds /\ e.bytes \in 0..Size
      /\ Tail(events) \in Seq(Events)
  <2>1. events # <<>>
    BY DEF EventNext, DeliverProgress, JoinWorker, DeliverCredentialError, DeliverResult,
           DeliverConflictToPolicy, Delivers
  <2>2. e \in Events
    BY <2>1, HeadEvent
  <2> QED
    BY <2>1, <2>2, HeadEvent DEF Events
<1>t. /\ task \in [Tasks -> TaskRecords]
      /\ task[t] \in TaskRecords
      /\ "own" \in Slots
  BY <1>e DEF TypeOK, Slots
<1>g. {"idle", "schedule", "joinWorker"} \subseteq GuiStates
  BY DEF GuiStates
<1>w. ASSUME Erased(t) PROVE worker' \in [Tasks -> [Slots -> Workers]] /\ events' \in Seq(Events)
  <2>1. Step(t, "own", NoWorker)
    BY <1>w DEF Erased, Step
  <2> QED
    BY <1>w, <1>e, <1>t, <2>1, DoneWorkerType, StepType DEF Erased
<1> HIDE DEF e
<1>1. CASE DeliverProgress
  <2>1. \/ task' = [task EXCEPT ![t] = UpdateProgress(task[t], e.bytes)] /\ journal' = Saved(task')
        \/ UNCHANGED <<task, journal>>
    BY <1>1 DEF DeliverProgress, Publish, e
  <2>2. task' \in [Tasks -> TaskRecords]
    BY <1>e, <1>t, <2>1, ResultOperationsType DEF Codes
  <2>3. journal' \in [Tasks -> JournalRecords]
    BY <2>1, <2>2, SavedType DEF TypeOK
  <2> QED
    BY <1>1, <1>e, <2>2, <2>3 DEF DeliverProgress, TypeOK, fileVars
<1>2. CASE JoinWorker
  <2>1. Step(t, "own", [worker[t]["own"] EXCEPT !.stop = TRUE])
    BY <1>2 DEF JoinWorker, Step, e
  <2>2. worker' \in [Tasks -> [Slots -> Workers]]
    BY <1>e, <1>t, <2>1, WorkerType, StopType, StepType
  <2> QED
    BY <1>2, <1>g, <2>2 DEF JoinWorker, TypeOK, queueVars, fileVars
<1>3. CASE DeliverCredentialError
  <2>1. Erased(t)
    BY <1>3 DEF DeliverCredentialError, e
  <2>2. \/ Requeue(t, NeedAttention(task[t]))
        \/ gui' = "idle" /\ UNCHANGED <<task, journal>>
    BY <1>3 DEF DeliverCredentialError, e
  <2>3. task' \in [Tasks -> TaskRecords]
    BY <1>e, <1>t, <2>2, StatusOperationsType DEF Requeue
  <2>4. journal' \in [Tasks -> JournalRecords] /\ gui' \in GuiStates
    BY <1>g, <2>2, <2>3, SavedType DEF Requeue, Publish, TypeOK
  <2> QED
    BY <1>3, <1>w, <2>1, <2>3, <2>4 DEF DeliverCredentialError, TypeOK, fileVars
<1>4. CASE DeliverResult
  <2>1. Erased(t) /\ gui' = "schedule" /\ e.kind \in Final \ {"credential"}
    BY <1>4 DEF DeliverResult, Delivers, e
  <2>2. \/ task' = [task EXCEPT ![t] = Settled(task[t], e)] /\ journal' = Saved(task')
        \/ UNCHANGED <<task, journal>>
    BY <1>4 DEF DeliverResult, Publish, e
  <2>3. task' \in [Tasks -> TaskRecords]
    BY <1>e, <1>t, <2>1, <2>2, SettledType
  <2>4. journal' \in [Tasks -> JournalRecords]
    BY <2>2, <2>3, SavedType DEF TypeOK
  <2>5. /\ EraseWork(t) \/ UNCHANGED <<work, opts>>
        /\ asked' \in {asked, asked \cup {t}}
    BY <1>4 DEF DeliverResult, KeepWork, e
  <2>6. work' \subseteq Tasks /\ opts' \in [Tasks -> Actions] /\ asked' \subseteq Tasks
    BY <1>e, <2>5 DEF EraseWork, Actions, TypeOK
  <2> QED
    BY <1>4, <1>g, <1>w, <2>1, <2>3, <2>4, <2>6 DEF DeliverResult, TypeOK, fileVars
<1>5. ASSUME NEW a \in Decisions \cap {"skip", "replace"}, DeliverConflictToPolicy(a) PROVE TypeOK'
  <2> DEFINE r == NeedAttention(task[t])
  <2>1. Erased(t) /\ Requeue(t, IF t \in work /\ CanRetry(r) THEN RetryTask(r) ELSE r)
    BY <1>5 DEF DeliverConflictToPolicy, e
  <2>2. r \in TaskRecords /\ RetryTask(r) \in TaskRecords
    BY <1>t, StatusOperationsType
  <2>3. task' \in [Tasks -> TaskRecords]
    BY <1>t, <2>1, <2>2 DEF Requeue
  <2>4. journal' \in [Tasks -> JournalRecords] /\ gui' \in GuiStates
    BY <1>g, <2>1, <2>3, SavedType DEF Requeue, Publish
  <2>5. opts' \in [Tasks -> Actions]
    BY <1>5 DEF DeliverConflictToPolicy, Actions, TypeOK, e
  <2> QED
    BY <1>5, <1>w, <2>1, <2>3, <2>4, <2>5 DEF DeliverConflictToPolicy, TypeOK, fileVars
<1> QED
  BY <1>1, <1>2, <1>3, <1>4, <1>5 DEF EventNext

\* The reconciled length of a partial file is a byte count.
LEMMA ResumeOffsetType ==
    ASSUME TypeOK, NEW t \in Tasks, NEW n \in 0..Size
    PROVE  ResumeOffset(t, n) \in 0..Size
  BY SizeBounds DEF TypeOK, ResumeOffset, NoFile

\* Removing a partial, or setting its length, keeps it a file length.
LEMMA PartialType ==
    ASSUME TypeOK, NEW t \in Tasks, NEW n \in 0..NoFile,
           partial' = [partial EXCEPT ![t] = n]
    PROVE  partial' \in [Tasks -> 0..NoFile]
  BY DEF TypeOK

LEMMA DiscardType ==
    ASSUME TypeOK, NEW t \in Tasks, Discard(t)
    PROVE  partial' \in [Tasks -> 0..NoFile]
  BY PartialType, SizeBounds DEF TypeOK, Discard, NoFile

\* A worker thread and a cleanup thread.
LEMMA WorkerStepType ==
    ASSUME TypeOK, NEW t \in Tasks, NEW s \in Slots, WorkerStep(t, s)
    PROVE  TypeOK'
<1> DEFINE w == worker[t][s]
           n == ResumeOffset(t, w.n)
           Frame == UNCHANGED <<queueVars, gui, cleaning, journal>>
<1>w. /\ w \in Workers /\ w.n \in 0..Size
      /\ n \in 0..Size
      /\ 0..Size \subseteq 0..NoFile /\ NoFile \in 0..NoFile /\ 0 \in 0..Size
  <2>1. w \in Workers /\ w.n \in 0..Size
    BY WorkerType DEF Workers
  <2> QED
    BY <2>1, ResumeOffsetType, SizeBounds DEF NoFile
<1>p. ASSUME NEW p \in Phases PROVE [w EXCEPT !.phase = p] \in Workers
  BY <1>w DEF Workers
<1>k. /\ {"connect", "prepare", "copy", "commit"} \subseteq Phases
      /\ {"progress", "credential", "completed", "skipped", "cancelled", "paused", "conflict",
          "failed", "invalid"} \subseteq EventKinds
  BY DEF Phases, EventKinds
<1> HIDE DEF w, n
<1>q. ASSUME Frame, UNCHANGED dest,
             worker' \in [Tasks -> [Slots -> Workers]], events' \in Seq(Events),
             partial' \in [Tasks -> 0..NoFile]
      PROVE  TypeOK'
  BY <1>q DEF TypeOK, queueVars
<1>u. /\ UNCHANGED events => events' \in Seq(Events)
      /\ UNCHANGED partial => partial' \in [Tasks -> 0..NoFile]
  BY DEF TypeOK
<1>1. CASE RequestCredentials(t, s)
  <2>1. \/ Step(t, s, [w EXCEPT !.phase = "connect"]) /\ UNCHANGED events
        \/ Finish(t, s, "credential", 0)
    BY <1>1 DEF RequestCredentials, w
  <2>2. worker' \in [Tasks -> [Slots -> Workers]] /\ events' \in Seq(Events)
    BY <1>w, <1>p, <1>k, <1>u, <2>1, StepType, FinishType
  <2> QED
    BY <1>1, <1>q, <1>u, <2>2 DEF RequestCredentials, fileVars
<1>2. CASE Connect(t, s)
  <2>1. \/ Step(t, s, [w EXCEPT !.phase = "prepare"]) /\ UNCHANGED events
        \/ Finish(t, s, "cancelled", 0)
        \/ Finish(t, s, "failed", 0)
    BY <1>2 DEF Connect, w
  <2>2. worker' \in [Tasks -> [Slots -> Workers]] /\ events' \in Seq(Events)
    BY <1>w, <1>p, <1>k, <1>u, <2>1, StepType, FinishType
  <2> QED
    BY <1>2, <1>q, <1>u, <2>2 DEF Connect, fileVars
<1>3. CASE Prepare(t, s)
  <2>1. /\ Step(t, s, [w EXCEPT !.phase = "copy", !.n = n])
        /\ partial' = [partial EXCEPT ![t] = n]
        /\ UNCHANGED <<queueVars, gui, events, dest, cleaning, journal>>
    BY <1>3 DEF Prepare, w, n
  <2>2. [w EXCEPT !.phase = "copy", !.n = n] \in Workers
    BY <1>w, <1>k DEF Workers
  <2> QED
    BY <1>w, <1>q, <1>u, <2>1, <2>2, StepType, PartialType
<1>4. CASE PrepareEnds(t, s)
  <2>1. /\ \/ Finish(t, s, "cancelled", 0) \/ Finish(t, s, "skipped", 0)
           \/ Finish(t, s, "conflict", 0) \/ Finish(t, s, "failed", 0)
           \/ Finish(t, s, "invalid", w.n)
        /\ UNCHANGED <<queueVars, gui, fileVars, journal>>
    BY <1>4 DEF PrepareEnds, w
  <2>2. worker' \in [Tasks -> [Slots -> Workers]] /\ events' \in Seq(Events)
    BY <1>w, <1>k, <2>1, FinishType
  <2> QED
    BY <1>q, <1>u, <2>1, <2>2 DEF fileVars
<1>5. CASE PrepareBreaks(t, s)
  <2>1. /\ \E b \in {0, n} : Finish(t, s, "cancelled", b) \/ Finish(t, s, "failed", b)
        /\ \E m \in {n, NoFile} : partial' = [partial EXCEPT ![t] = m]
        /\ UNCHANGED <<queueVars, gui, dest, cleaning, journal>>
    BY <1>5 DEF PrepareBreaks, w, n
  <2>2. worker' \in [Tasks -> [Slots -> Workers]] /\ events' \in Seq(Events)
    BY <1>w, <1>k, <2>1, FinishType
  <2>3. partial' \in [Tasks -> 0..NoFile]
    BY <1>w, <2>1, PartialType
  <2> QED
    BY <1>q, <2>1, <2>2, <2>3
<1>6. CASE CopyChunk(t, s)
  <2> DEFINE m == w.n + 1
  <2>1. /\ w.n < Size
        /\ Step(t, s, [w EXCEPT !.n = m])
        /\ \E k \in {m, NoFile} : partial' = [partial EXCEPT ![t] = k]
        /\ Post("progress", t, m) \/ UNCHANGED events
        /\ UNCHANGED <<queueVars, gui, dest, cleaning, journal>>
    BY <1>6 DEF CopyChunk, MoreToCopy, w
  <2>2. m \in 0..Size
    BY <1>w, <2>1, SizeBounds
  <2>3. [w EXCEPT !.n = m] \in Workers
    BY <1>w, <2>2 DEF Workers
  <2>4. events' \in Seq(Events)
    BY <1>k, <1>u, <2>1, <2>2, PostType
  <2>5. partial' \in [Tasks -> 0..NoFile]
    BY <1>w, <2>1, <2>2, PartialType
  <2> QED
    BY <1>q, <2>1, <2>3, <2>4, <2>5, StepType
<1>7. CASE CopyDone(t, s)
  <2>1. Step(t, s, [w EXCEPT !.phase = "commit"])
    BY <1>7 DEF CopyDone, w
  <2>2. worker' \in [Tasks -> [Slots -> Workers]]
    BY <1>p, <1>k, <2>1, StepType
  <2> QED
    BY <1>7, <1>q, <1>u, <2>2 DEF CopyDone, fileVars
<1>8. CASE CopyStopped(t, s)
  <2>1. /\ Finish(t, s, "paused", w.n) \/ Finish(t, s, "cancelled", w.n)
        /\ UNCHANGED partial \/ Discard(t)
        /\ UNCHANGED <<queueVars, gui, dest, cleaning, journal>>
    BY <1>8 DEF CopyStopped, w
  <2>2. worker' \in [Tasks -> [Slots -> Workers]] /\ events' \in Seq(Events)
    BY <1>w, <1>k, <2>1, FinishType
  <2> QED
    BY <1>q, <1>u, <2>1, <2>2, DiscardType
<1>9. CASE CopyBreaks(t, s)
  <2>1. /\ Finish(t, s, "cancelled", w.n) \/ Finish(t, s, "failed", w.n)
        /\ UNCHANGED <<queueVars, gui, fileVars, journal>>
    BY <1>9 DEF CopyBreaks, w
  <2>2. worker' \in [Tasks -> [Slots -> Workers]] /\ events' \in Seq(Events)
    BY <1>w, <1>k, <2>1, FinishType
  <2> QED
    BY <1>q, <1>u, <2>1, <2>2 DEF fileVars
<1>10. ASSUME Commit(t, s) \/ CommitFails(t, s) PROVE TypeOK'
  <2>1. /\ \/ Finish(t, s, "completed", w.n) \/ Finish(t, s, "cancelled", w.n)
           \/ Finish(t, s, "failed", w.n)
        /\ \/ UNCHANGED partial \/ Discard(t) \/ partial' = [partial EXCEPT ![t] = NoFile]
        /\ UNCHANGED dest \/ dest' = [dest EXCEPT ![t] = "ours"]
        /\ UNCHANGED <<queueVars, gui, cleaning, journal>>
    BY <1>10 DEF Commit, CommitFails, w
  <2>2. worker' \in [Tasks -> [Slots -> Workers]] /\ events' \in Seq(Events)
    BY <1>w, <1>k, <2>1, FinishType
  <2>3. partial' \in [Tasks -> 0..NoFile]
    BY <1>w, <1>u, <2>1, DiscardType, PartialType
  <2>4. dest' \in [Tasks -> {"absent", "old", "ours"}]
    BY <2>1 DEF TypeOK
  <2> QED
    BY <2>1, <2>2, <2>3, <2>4 DEF TypeOK, queueVars
<1> QED
  BY <1>1, <1>2, <1>3, <1>4, <1>5, <1>6, <1>7, <1>8, <1>9, <1>10 DEF WorkerStep

LEMMA CleanupType == ASSUME TypeOK, NEW t \in Tasks, CleanupPartial(t) PROVE TypeOK'
<1>1. partial' \in [Tasks -> 0..NoFile]
  BY PartialType, SizeBounds DEF CleanupPartial, NoFile, TypeOK
<1> QED
  BY <1>1 DEF CleanupPartial, TypeOK, queueVars, threadVars

\* Shutdown, crash and restart.
LEMMA ProcessType == TypeOK /\ ProcessNext => TypeOK'
<1> SUFFICES ASSUME TypeOK, ProcessNext PROVE TypeOK'
  OBVIOUS
<1>g. {"idle", "down"} \subseteq GuiStates
  BY DEF GuiStates
<1>1. CASE Shutdown
  <2>1. journal' \in [Tasks -> JournalRecords]
    BY <1>1, SavedType DEF Shutdown, TypeOK
  <2>2. worker' \in [Tasks -> [Slots -> Workers]]
    BY <1>1, DoneWorkerType DEF Shutdown
  <2> QED
    BY <1>1, <1>g, <2>1, <2>2 DEF Shutdown, TypeOK, queueVars
<1>2. CASE Crash
  <2>1. worker' \in [Tasks -> [Slots -> Workers]] /\ events' \in Seq(Events)
    BY <1>2, DoneWorkerType DEF Crash
  <2> QED
    BY <1>2, <1>g, <2>1 DEF Crash, TypeOK, queueVars
<1>3. CASE Restart
  <2>1. task' \in [Tasks -> TaskRecords]
    BY <1>3, RestoredType DEF Restart, TypeOK
  <2>2. journal' \in [Tasks -> JournalRecords]
    BY <1>3, <2>1, SavedType DEF Restart, Publish
  <2> QED
    BY <1>3, <1>g, <2>1, <2>2 DEF Restart, TypeOK, threadVars, fileVars, Actions
<1> QED
  BY <1>1, <1>2, <1>3 DEF ProcessNext

LEMMA TypeStep == TypeOK /\ [Next]_vars => TypeOK'
<1>1. TypeOK /\ UNCHANGED vars => TypeOK'
  BY DEF TypeOK, vars, queueVars, threadVars, fileVars
<1>2. TypeOK /\ WorkerNext => TypeOK'
  BY WorkerStepType, CleanupType DEF WorkerNext
<1> QED
  BY <1>1, <1>2, UserType, ScheduleType, EventType, ProcessType DEF Next

\* The types of the manager's state hold in every reachable state: byte
\* counts stay within the file, and no thread, event or journal entry is
\* ill formed (TransferManager, TransferQueue).
THEOREM TypeCorrect == Spec => []TypeOK
  BY InitType, TypeStep, PTL DEF Spec

-----------------------------------------------------------------------------
(***************************************************************************)
(* Safety: the concurrency limit, by what a step may do to the set of      *)
(* tasks that hold a slot, the request provider of every queued task, and  *)
(* that no slot stays free while a task waits.                             *)
(***************************************************************************)

\* The status a queue operation can leave behind, for each operation that is
\* applied outside schedule(): none of them makes a task active.
Quiet(r, s) == s.st \in Active => r.st \in Active

LEMMA QuietOperations ==
    ASSUME NEW r \in TaskRecords, NEW n \in 0..Size, NEW code \in Codes
    PROVE  /\ Quiet(r, CancelTask(r)) /\ Quiet(r, PauseTask(r)) /\ Quiet(r, ResumeTask(r))
           /\ Quiet(r, RetryTask(r)) /\ Quiet(r, DismissTask(r)) /\ Quiet(r, NeedAttention(r))
           /\ Quiet(r, UpdateProgress(r, n)) /\ Quiet(r, MarkPaused(r, n))
           /\ Quiet(r, Complete(r)) /\ Quiet(r, Fail(r, code))
<1>1. Quiet(r, CancelTask(r)) /\ Quiet(r, PauseTask(r))
  BY DEF Quiet, TaskRecords, CancelTask, PauseTask, To, CancelTarget, PauseTarget, Active
<1>2. Quiet(r, ResumeTask(r)) /\ Quiet(r, RetryTask(r))
  BY DEF Quiet, TaskRecords, ResumeTask, RetryTask, Active
<1>3. Quiet(r, DismissTask(r)) /\ Quiet(r, NeedAttention(r))
  BY DEF Quiet, TaskRecords, DismissTask, NewTask, NeedAttention, Active
<1>4. Quiet(r, UpdateProgress(r, n)) /\ Quiet(r, MarkPaused(r, n))
  BY DEF Quiet, TaskRecords, UpdateProgress, MarkPaused, Active
<1>5. Quiet(r, Complete(r)) /\ Quiet(r, Fail(r, code))
  BY DEF Quiet, TaskRecords, Complete, Fail, Active
<1> QED
  BY <1>1, <1>2, <1>3, <1>4, <1>5

LEMMA QuietSettled ==
    ASSUME NEW r \in TaskRecords, NEW e \in Events, e.kind \in Final \ {"credential"}
    PROVE  Quiet(r, Settled(r, e))
<1> DEFINE p == UpdateProgress(r, e.bytes)
<1>0. e.bytes \in 0..Size /\ e.kind \in EventKinds
  BY DEF Events, Final
<1>1. p \in TaskRecords /\ Quiet(r, p)
  BY <1>0, ResultOperationsType, QuietOperations DEF Codes
<1>2. Quiet(p, Complete(p)) /\ Quiet(p, Fail(p, "error")) /\ Quiet(p, Fail(p, "invalid-task"))
  BY <1>0, <1>1, QuietOperations DEF Codes
<1>3. Quiet(r, Complete(p)) /\ Quiet(r, Fail(p, "error")) /\ Quiet(r, Fail(p, "invalid-task"))
  BY <1>1, <1>2 DEF Quiet
<1>4. Quiet(r, MarkPaused(r, e.bytes)) /\ Quiet(r, CancelTask(r)) /\ Quiet(r, NeedAttention(r))
  BY <1>0, QuietOperations DEF Codes
<1> QED
  BY <1>0, <1>3, <1>4 DEF Settled, EventKinds, Final

\* No task becomes active.
NoNewSlot == \A t \in Tasks : Quiet(task[t], task'[t])

\* schedule() takes one task while a slot is free.
OneNewSlot == SlotFree /\ \E u \in Tasks : \A t \in Tasks \ {u} : task'[t] = task[t]

LEMMA NoNewSlotIf ==
    ASSUME TypeOK, NEW t \in Tasks, NEW r, Quiet(task[t], r), task' = [task EXCEPT ![t] = r]
    PROVE  NoNewSlot
  BY DEF TypeOK, NoNewSlot, Quiet

LEMMA UnchangedTakesNoSlot == UNCHANGED task => NoNewSlot
  BY DEF NoNewSlot, Quiet

\* Every step outside schedule() takes no slot.
LEMMA UserSlots == TypeOK /\ UserNext => NoNewSlot
<1> SUFFICES ASSUME TypeOK, UserNext PROVE NoNewSlot
  OBVIOUS
<1>t. \A t \in Tasks : task[t] \in TaskRecords
  BY DEF TypeOK
<1>q. ASSUME NEW t \in Tasks
      PROVE  /\ Quiet(task[t], CancelTask(task[t])) /\ Quiet(task[t], PauseTask(task[t]))
             /\ Quiet(task[t], ResumeTask(task[t])) /\ Quiet(task[t], RetryTask(task[t]))
             /\ Quiet(task[t], DismissTask(task[t]))
  BY <1>t, QuietOperations, SizeBounds DEF Codes
<1>1. ASSUME NEW t \in Tasks, Enqueue(t) PROVE NoNewSlot
  BY <1>1 DEF Enqueue, NoNewSlot, Quiet, Active, TypeOK, TaskRecords
<1>2. ASSUME NEW t \in Tasks, Cancel(t) PROVE NoNewSlot
  <2>1. task' = [task EXCEPT ![t] = CancelTask(task[t])] \/ UNCHANGED task
    BY <1>2 DEF Cancel
  <2> QED
    BY <1>q, <2>1, NoNewSlotIf, UnchangedTakesNoSlot
<1>3. ASSUME NEW t \in Tasks, Pause(t) PROVE NoNewSlot
  <2>1. task' = [task EXCEPT ![t] = PauseTask(task[t])]
    BY <1>3 DEF Pause
  <2> QED
    BY <1>q, <2>1, NoNewSlotIf
<1>4. ASSUME NEW t \in Tasks, Resume(t) PROVE NoNewSlot
  <2>1. task' = [task EXCEPT ![t] = ResumeTask(task[t])]
    BY <1>4 DEF Resume, Requeue
  <2> QED
    BY <1>q, <2>1, NoNewSlotIf
<1>5. ASSUME NEW t \in Tasks, Retry(t) PROVE NoNewSlot
  <2>1. task' = [task EXCEPT ![t] = RetryTask(task[t])]
    BY <1>5 DEF Retry, Requeue
  <2> QED
    BY <1>q, <2>1, NoNewSlotIf
<1>6. ASSUME NEW T \in SUBSET Tasks, Remove(T) PROVE NoNewSlot
  <2>1. \A t \in Tasks : task'[t] \in {task[t], DismissTask(task[t])}
    BY <1>6 DEF Remove
  <2> QED
    BY <1>q, <2>1 DEF NoNewSlot, Quiet
<1>7. ASSUME NEW t \in Tasks, NEW a \in Decisions, ResolveConflict(t, a) PROVE NoNewSlot
  <2>1. task' = [task EXCEPT ![t] = RetryTask(task[t])] \/ UNCHANGED task
    BY <1>7 DEF ResolveConflict, Decide, Requeue
  <2> QED
    BY <1>q, <2>1, NoNewSlotIf, UnchangedTakesNoSlot
<1>8. CASE RequestStop
  BY <1>8, UnchangedTakesNoSlot DEF RequestStop, queueVars
<1>9. CASE DismissFinished
  BY <1>6, <1>9 DEF DismissFinished
<1>10. ASSUME NEW t \in Tasks, Dismiss(t) PROVE NoNewSlot
  BY <1>6, <1>10 DEF Dismiss
<1> QED
  BY <1>1, <1>2, <1>3, <1>4, <1>5, <1>7, <1>8, <1>9, <1>10 DEF UserNext

LEMMA EventSlots == TypeOK /\ EventNext => NoNewSlot
<1> SUFFICES ASSUME TypeOK, EventNext PROVE NoNewSlot
  OBVIOUS
<1> DEFINE e == Head(events)
           t == e.task
<1>e. t \in Tasks /\ e \in Events /\ e.bytes \in 0..Size
  <2>1. events # <<>>
    BY DEF EventNext, DeliverProgress, JoinWorker, DeliverCredentialError, DeliverResult,
           DeliverConflictToPolicy, Delivers
  <2>2. e \in Events
    BY <2>1, HeadEvent
  <2> QED
    BY <2>2 DEF Events
<1>t. task[t] \in TaskRecords
  BY <1>e DEF TypeOK
<1> HIDE DEF e
<1>1. CASE DeliverProgress
  <2>1. task' = [task EXCEPT ![t] = UpdateProgress(task[t], e.bytes)] \/ UNCHANGED task
    BY <1>1 DEF DeliverProgress, e
  <2> QED
    BY <1>e, <1>t, <2>1, QuietOperations, NoNewSlotIf, UnchangedTakesNoSlot DEF Codes
<1>2. CASE JoinWorker
  BY <1>2, UnchangedTakesNoSlot DEF JoinWorker, queueVars
<1>3. CASE DeliverCredentialError
  <2>1. task' = [task EXCEPT ![t] = NeedAttention(task[t])] \/ UNCHANGED task
    BY <1>3 DEF DeliverCredentialError, Requeue, e
  <2> QED
    BY <1>e, <1>t, <2>1, QuietOperations, NoNewSlotIf, UnchangedTakesNoSlot, SizeBounds DEF Codes
<1>4. CASE DeliverResult
  <2>1. task' = [task EXCEPT ![t] = Settled(task[t], e)] \/ UNCHANGED task
    BY <1>4 DEF DeliverResult, e
  <2>2. e.kind \in Final \ {"credential"}
    BY <1>4 DEF DeliverResult, Delivers, e
  <2> QED
    BY <1>e, <1>t, <2>1, <2>2, QuietSettled, NoNewSlotIf, UnchangedTakesNoSlot
<1>5. ASSUME NEW a \in Decisions \cap {"skip", "replace"}, DeliverConflictToPolicy(a) PROVE NoNewSlot
  <2> DEFINE r == NeedAttention(task[t])
  <2>1. \E x \in {r, RetryTask(r)} : task' = [task EXCEPT ![t] = x]
    BY <1>5 DEF DeliverConflictToPolicy, Requeue, e
  <2>2. r \in TaskRecords /\ Quiet(task[t], r)
    BY <1>t, StatusOperationsType, QuietOperations, SizeBounds DEF Codes
  <2>3. Quiet(r, RetryTask(r))
    BY <2>2, QuietOperations, SizeBounds DEF Codes
  <2>4. Quiet(task[t], RetryTask(r))
    BY <2>2, <2>3 DEF Quiet
  <2> QED
    BY <1>e, <2>1, <2>2, <2>4, NoNewSlotIf
<1> QED
  BY <1>1, <1>2, <1>3, <1>4, <1>5 DEF EventNext

LEMMA ThreadSlots == WorkerNext => NoNewSlot
<1>1. ASSUME NEW t \in Tasks, NEW s \in Slots, WorkerStep(t, s) PROVE UNCHANGED task
  <2>1. CASE RequestCredentials(t, s) \/ Connect(t, s)
    BY <2>1 DEF RequestCredentials, Connect, queueVars
  <2>2. CASE Prepare(t, s) \/ PrepareEnds(t, s) \/ PrepareBreaks(t, s)
    BY <2>2 DEF Prepare, PrepareEnds, PrepareBreaks, queueVars
  <2>3. CASE CopyChunk(t, s) \/ CopyDone(t, s) \/ CopyStopped(t, s) \/ CopyBreaks(t, s)
    BY <2>3 DEF CopyChunk, CopyDone, CopyStopped, CopyBreaks, queueVars
  <2>4. CASE Commit(t, s) \/ CommitFails(t, s)
    BY <2>4 DEF Commit, CommitFails, queueVars
  <2> QED
    BY <1>1, <2>1, <2>2, <2>3, <2>4 DEF WorkerStep
<1>2. ASSUME NEW t \in Tasks, CleanupPartial(t) PROVE UNCHANGED task
  BY <1>2 DEF CleanupPartial, queueVars
<1> QED
  BY <1>1, <1>2, UnchangedTakesNoSlot DEF WorkerNext

\* After a restart no task runs (ADR 0030: nothing resumes by itself).
LEMMA ProcessSlots == TypeOK /\ ProcessNext => NoNewSlot
<1> SUFFICES ASSUME TypeOK, ProcessNext PROVE NoNewSlot
  OBVIOUS
<1>1. CASE Restart
  <2>1. ASSUME NEW t \in Tasks PROVE Quiet(task[t], Restored(journal[t], task[t]))
    BY DEF Restored, Quiet, Active, NewTask
  <2> QED
    BY <1>1, <2>1 DEF Restart, NoNewSlot
<1>2. CASE Shutdown \/ Crash
  BY <1>2, UnchangedTakesNoSlot DEF Shutdown, Crash, queueVars
<1> QED
  BY <1>1, <1>2 DEF ProcessNext

\* schedule() takes a slot only when takeNext() finds one free.
LEMMA ScheduleSlots == TypeOK /\ ScheduleNext => NoNewSlot \/ OneNewSlot
<1> SUFFICES ASSUME TypeOK, ScheduleNext PROVE NoNewSlot \/ OneNewSlot
  OBVIOUS
<1>1. ASSUME NEW i \in DOMAIN order, StartNext(i) PROVE OneNewSlot
  <2>1. \E r : task' = [task EXCEPT ![order[i]] = r]
    BY <1>1 DEF StartNext
  <2> QED
    BY <1>1, <2>1, OrderElement DEF StartNext, OneNewSlot, TypeOK
<1>2. ASSUME NEW i \in DOMAIN order, StartFails(i) PROVE OneNewSlot
  <2>1. \E r : task' = [task EXCEPT ![order[i]] = r]
    BY <1>2 DEF StartFails
  <2> QED
    BY <1>2, <2>1, OrderElement DEF StartFails, OneNewSlot, TypeOK
<1>3. ASSUME ScheduleDone \/ \E t \in Tasks : StopDuplicate(t) \/ DuplicateJoined(t)
      PROVE  NoNewSlot
  BY <1>3, UnchangedTakesNoSlot DEF ScheduleDone, StopDuplicate, DuplicateJoined, queueVars
<1> QED
  BY <1>1, <1>2, <1>3 DEF ScheduleNext

LEMMA SlotsStep == TypeOK /\ [Next]_vars => NoNewSlot \/ OneNewSlot
<1>1. UNCHANGED vars => NoNewSlot
  BY UnchangedTakesNoSlot DEF vars, queueVars
<1> QED
  BY <1>1, UserSlots, EventSlots, ThreadSlots, ProcessSlots, ScheduleSlots DEF Next

-----------------------------------------------------------------------------
LEMMA SlotLimitStep == TypeOK /\ SlotLimit /\ [Next]_vars => SlotLimit'
<1> SUFFICES ASSUME TypeOK, SlotLimit, [Next]_vars PROVE SlotLimit'
  OBVIOUS
<1> DEFINE A == ActiveTasks(task)
           B == ActiveTasks(task')
<1>1. /\ A \subseteq Tasks /\ IsFiniteSet(A) /\ RunningCount(task) \in Nat
      /\ B \subseteq Tasks /\ IsFiniteSet(B) /\ RunningCount(task') \in Nat
  <2>1. task \in [Tasks -> TaskRecords] /\ task' \in [Tasks -> TaskRecords]
    BY TypeStep DEF TypeOK
  <2>2. A \subseteq Tasks /\ B \subseteq Tasks
    BY <2>1 DEF ActiveTasks
  <2> QED
    BY <2>2, TasksAssumption, FS_Subset, FS_CardinalityType DEF RunningCount
<1>2. CASE NoNewSlot
  <2>1. B \subseteq A
    BY <1>1, <1>2, TypeStep DEF NoNewSlot, Quiet, ActiveTasks, TypeOK
  <2>2. RunningCount(task') <= RunningCount(task)
    BY <1>1, <2>1, FS_Subset DEF RunningCount
  <2> QED
    BY <1>1, <2>2, LimitAssumption DEF SlotLimit
<1>3. CASE OneNewSlot
  <2>1. PICK u \in Tasks : \A t \in Tasks \ {u} : task'[t] = task[t]
    BY <1>3 DEF OneNewSlot
  <2>2. B \subseteq A \cup {u}
    BY <1>1, <2>1, TypeStep DEF ActiveTasks, TypeOK
  <2>3. /\ IsFiniteSet(A \cup {u})
        /\ Cardinality(A \cup {u}) <= Cardinality(A) + 1
    <3> HIDE DEF A
    <3>0. IsFiniteSet(A) /\ Cardinality(A) \in Nat
      BY <1>1, FS_CardinalityType
    <3>1. IsFiniteSet(A \cup {u}) /\ Cardinality(A \cup {u}) \in {Cardinality(A), Cardinality(A) + 1}
      BY <3>0, FS_AddElement, Zenon
    <3> QED
      BY <3>0, <3>1
  <2>4. Cardinality(B) <= Cardinality(A \cup {u})
    BY <2>2, <2>3, FS_Subset
  <2>5. Cardinality(A \cup {u}) \in Nat
    BY <2>3, FS_CardinalityType
  <2> QED
    BY <1>1, <1>3, <2>3, <2>4, <2>5, LimitAssumption DEF SlotLimit, OneNewSlot, SlotFree, RunningCount
<1> QED
  BY <1>2, <1>3, SlotsStep

LEMMA SlotLimitInit == Init => SlotLimit
<1> SUFFICES ASSUME Init PROVE SlotLimit
  OBVIOUS
<1>1. ActiveTasks(task) = {}
  BY DEF Init, ActiveTasks, NewTask, Active
<1> QED
  BY <1>1, FS_EmptySet, LimitAssumption DEF SlotLimit, RunningCount

\* For any number of transfers and any limit, whatever is called, fails,
\* arrives late or crashes: no more than concurrencyLimit tasks hold a slot
\* (TransferQueue::runningCount, TransferQueue::takeNext).
THEOREM SlotLimitHolds == Spec => []SlotLimit
<1>1. TypeOK /\ SlotLimit /\ [Next]_vars => (TypeOK /\ SlotLimit)'
  BY TypeStep, SlotLimitStep
<1> QED
  BY <1>1, InitType, SlotLimitInit, PTL DEF Spec

-----------------------------------------------------------------------------
(***************************************************************************)
(* The request provider.                                                   *)
(***************************************************************************)
\* Only resume() and retry() queue a task again, and they ask m_work first.
LEMMA NotQueuedBy ==
    ASSUME NEW r \in TaskRecords
    PROVE  /\ CancelTask(r).st = "Queued" => ~CanCancel(r)
           /\ PauseTask(r).st = "Queued" => r.st = "Queued"
           /\ DismissTask(r).st = "Queued" => r.st = "Queued"
<1>1. CancelTask(r).st = "Queued" => ~CanCancel(r)
  BY DEF CancelTask, To, CanCancel, CancelTarget, TaskRecords
<1>2. PauseTask(r).st = "Queued" => r.st = "Queued"
  BY DEF PauseTask, To, PauseTarget, TaskRecords
<1>3. DismissTask(r).st = "Queued" => r.st = "Queued"
  BY DEF DismissTask, NewTask, TaskRecords
<1> QED
  BY <1>1, <1>2, <1>3

\* A result queues nothing.
LEMMA NotQueuedByResult ==
    ASSUME NEW r \in TaskRecords, r.st \in Active, NEW e \in Events,
           e.kind \in Final \ {"credential"}
    PROVE  Settled(r, e).st # "Queued"
<1> DEFINE p == UpdateProgress(r, e.bytes)
<1>0. e.bytes \in 0..Size /\ e.kind \in EventKinds
  BY DEF Events, Final
<1>1. p \in TaskRecords /\ p.st \in Active
  BY <1>0 DEF UpdateProgress, TaskRecords
<1>2. /\ Complete(p).st # "Queued"
      /\ Fail(p, "error").st # "Queued"
      /\ Fail(p, "invalid-task").st # "Queued"
  BY <1>1 DEF Complete, Fail, TaskRecords, Active
<1>3. /\ MarkPaused(r, e.bytes).st # "Queued"
      /\ CancelTask(r).st # "Queued"
      /\ NeedAttention(r).st # "Queued"
  BY DEF MarkPaused, CancelTask, To, CancelTarget, NeedAttention, TaskRecords, Active
<1> QED
  BY <1>0, <1>2, <1>3 DEF Settled, EventKinds, Final

\* No task becomes queued and the providers of the others stay.
LEMMA SameWork ==
    ASSUME TypeOK, QueuedHasWork, NEW t \in Tasks, NEW r, task' = [task EXCEPT ![t] = r],
           r.st = "Queued" => t \in work',
           work \ {t} \subseteq work'
    PROVE  QueuedHasWork'
  BY DEF TypeOK, QueuedHasWork

LEMMA WorkAside == QueuedHasWork /\ UNCHANGED <<task, work>> => QueuedHasWork'
  BY DEF QueuedHasWork

LEMMA UserWork == TypeOK /\ QueuedHasWork /\ UserNext => QueuedHasWork'
<1> SUFFICES ASSUME TypeOK, QueuedHasWork, UserNext PROVE QueuedHasWork'
  OBVIOUS
<1>t. \A t \in Tasks : task[t] \in TaskRecords
  BY DEF TypeOK
<1>1. ASSUME NEW t \in Tasks, Enqueue(t) PROVE QueuedHasWork'
  <2>1. task' = [task EXCEPT ![t] = [task[t] EXCEPT !.st = "Queued"]] /\ work' = work \cup {t}
    BY <1>1 DEF Enqueue
  <2> QED
    BY <2>1, SameWork
<1>2. ASSUME NEW t \in Tasks, Cancel(t) PROVE QueuedHasWork'
  <2>1. CASE CanCancel(task[t])
    <3>1. task' = [task EXCEPT ![t] = CancelTask(task[t])] /\ work' = work \ {t}
      BY <1>2, <2>1 DEF Cancel, EraseWork
    <3> QED
      BY <1>t, <2>1, <3>1, NotQueuedBy, SameWork
  <2>2. CASE ~CanCancel(task[t])
    BY <1>2, <2>2, WorkAside DEF Cancel
  <2> QED
    BY <2>1, <2>2
<1>3. ASSUME NEW t \in Tasks, Pause(t) PROVE QueuedHasWork'
  <2>1. task' = [task EXCEPT ![t] = PauseTask(task[t])] /\ work' = work
    BY <1>3 DEF Pause
  <2>2. PauseTask(task[t]).st = "Queued" => t \in work
    BY <1>t, NotQueuedBy DEF QueuedHasWork
  <2> QED
    BY <2>1, <2>2, SameWork
<1>4. ASSUME NEW t \in Tasks, Resume(t) \/ Retry(t) PROVE QueuedHasWork'
  <2>1. /\ task' = [task EXCEPT ![t] = ResumeTask(task[t])] \/ task' = [task EXCEPT ![t] = RetryTask(task[t])]
        /\ t \in work /\ work' = work
    BY <1>4 DEF Resume, Retry, Requeue, HasWork
  <2> QED
    BY <2>1, SameWork
<1>5. ASSUME NEW T \in SUBSET Tasks, \A t \in T : task[t].st \in Finished, Remove(T)
      PROVE  QueuedHasWork'
  <2>1. /\ task' = [t \in Tasks |-> IF t \in T THEN DismissTask(task[t]) ELSE task[t]]
        /\ work' = work \ T
    BY <1>5 DEF Remove
  <2>2. \A t \in T : DismissTask(task[t]).st # "Queued"
    BY <1>5 DEF DismissTask, NewTask
  <2> QED
    BY <2>1, <2>2 DEF QueuedHasWork
<1>6. ASSUME NEW t \in Tasks, NEW a \in Decisions, ResolveConflict(t, a) PROVE QueuedHasWork'
  <2>1. \/ task' = [task EXCEPT ![t] = RetryTask(task[t])] /\ t \in work
        \/ UNCHANGED task
    BY <1>6 DEF ResolveConflict, Decide, Requeue
  <2>2. work' = work
    BY <1>6 DEF ResolveConflict
  <2> QED
    BY <2>1, <2>2, SameWork, WorkAside
<1>7. CASE RequestStop
  BY <1>7, WorkAside DEF RequestStop, queueVars
<1>8. CASE DismissFinished
  BY <1>5, <1>8 DEF DismissFinished
<1>9. ASSUME NEW t \in Tasks, Dismiss(t) PROVE QueuedHasWork'
  BY <1>5, <1>9 DEF Dismiss
<1> QED
  BY <1>1, <1>2, <1>3, <1>4, <1>6, <1>7, <1>8, <1>9 DEF UserNext

LEMMA EventWork == TypeOK /\ QueuedHasWork /\ EventNext => QueuedHasWork'
<1> SUFFICES ASSUME TypeOK, QueuedHasWork, EventNext PROVE QueuedHasWork'
  OBVIOUS
<1> DEFINE e == Head(events)
           t == e.task
<1>e. t \in Tasks /\ e \in Events /\ task[t] \in TaskRecords
  <2>1. events # <<>>
    BY DEF EventNext, DeliverProgress, JoinWorker, DeliverCredentialError, DeliverResult,
           DeliverConflictToPolicy, Delivers
  <2>2. e \in Events
    BY <2>1, HeadEvent
  <2> QED
    BY <2>2 DEF Events, TypeOK
<1> HIDE DEF e
<1>1. CASE DeliverProgress
  <2>1. task' = [task EXCEPT ![t] = UpdateProgress(task[t], e.bytes)] \/ UNCHANGED task
    BY <1>1 DEF DeliverProgress, e
  <2>2. UpdateProgress(task[t], e.bytes).st = task[t].st /\ work' = work
    BY <1>1, <1>e DEF DeliverProgress, UpdateProgress, TaskRecords
  <2> QED
    BY <1>e, <2>1, <2>2, SameWork, WorkAside DEF QueuedHasWork
<1>2. CASE JoinWorker
  BY <1>2, WorkAside DEF JoinWorker, queueVars
<1>3. CASE DeliverCredentialError
  <2>1. \/ task[t].st = "Running" /\ task' = [task EXCEPT ![t] = NeedAttention(task[t])]
        \/ UNCHANGED task
    BY <1>3 DEF DeliverCredentialError, Requeue, e
  <2>2. work' = work
    BY <1>3 DEF DeliverCredentialError
  <2>3. task[t].st = "Running" => NeedAttention(task[t]).st # "Queued"
    BY <1>e DEF NeedAttention, TaskRecords
  <2> QED
    BY <1>e, <2>1, <2>2, <2>3, SameWork, WorkAside
<1>4. CASE DeliverResult
  <2>1. CASE task[t].st \in Active
    <3>1. /\ task' = [task EXCEPT ![t] = Settled(task[t], e)]
          /\ work' = work \/ work' = work \ {t}
          /\ e.kind \in Final \ {"credential"}
      BY <1>4, <2>1 DEF DeliverResult, EraseWork, KeepWork, Delivers, e
    <3> QED
      BY <1>e, <2>1, <3>1, NotQueuedByResult, SameWork
  <2>2. CASE task[t].st \notin Active
    BY <1>4, <2>2, WorkAside DEF DeliverResult, e
  <2> QED
    BY <2>1, <2>2
<1>5. ASSUME NEW a \in Decisions \cap {"skip", "replace"}, DeliverConflictToPolicy(a)
      PROVE  QueuedHasWork'
  <2> DEFINE r == NeedAttention(task[t])
  <2>1. /\ task[t].st \in Active /\ work' = work
        /\ task' = [task EXCEPT ![t] = IF t \in work /\ CanRetry(r) THEN RetryTask(r) ELSE r]
    BY <1>5 DEF DeliverConflictToPolicy, Requeue, e
  <2>2. r.st # "Queued"
    BY <1>e, <2>1 DEF NeedAttention, TaskRecords, Active
  <2> QED
    BY <1>e, <2>1, <2>2, SameWork
<1> QED
  BY <1>1, <1>2, <1>3, <1>4, <1>5 DEF EventNext

LEMMA ScheduleWork == TypeOK /\ QueuedHasWork /\ ScheduleNext => QueuedHasWork'
<1> SUFFICES ASSUME TypeOK, QueuedHasWork, ScheduleNext PROVE QueuedHasWork'
  OBVIOUS
<1>1. ASSUME NEW i \in DOMAIN order, StartNext(i) \/ StartFails(i) PROVE QueuedHasWork'
  <2>1. order[i] \in Tasks
    BY OrderElement
  <2>2. /\ work' = work
        /\ \/ task' = [task EXCEPT ![order[i]] = TakeTask(task[order[i]])]
           \/ \E code \in Codes : task' = [task EXCEPT ![order[i]] = Fail(TakeTask(task[order[i]]), code)]
    BY <1>1 DEF StartNext, StartFails, Codes
  <2>3. /\ TakeTask(task[order[i]]).st # "Queued"
        /\ \A code \in Codes : Fail(TakeTask(task[order[i]]), code).st # "Queued"
    <3>1. task[order[i]] \in TaskRecords
      BY <2>1 DEF TypeOK
    <3>2. TakeTask(task[order[i]]).st = "Running" /\ TakeTask(task[order[i]]) \in TaskRecords
      BY <3>1, StatusOperationsType DEF TakeTask, TaskRecords
    <3> QED
      BY <3>2 DEF Fail, TaskRecords
  <2> QED
    BY <2>1, <2>2, <2>3, SameWork
<1>2. ASSUME ScheduleDone \/ \E t \in Tasks : StopDuplicate(t) \/ DuplicateJoined(t)
      PROVE  QueuedHasWork'
  BY <1>2, WorkAside DEF ScheduleDone, StopDuplicate, DuplicateJoined, queueVars
<1> QED
  BY <1>1, <1>2 DEF ScheduleNext

LEMMA ThreadWork == QueuedHasWork /\ WorkerNext => QueuedHasWork'
<1> SUFFICES ASSUME QueuedHasWork, WorkerNext PROVE QueuedHasWork'
  OBVIOUS
<1>1. ASSUME NEW t \in Tasks, NEW s \in Slots, WorkerStep(t, s) PROVE UNCHANGED <<task, work>>
  <2>1. CASE RequestCredentials(t, s) \/ Connect(t, s)
    BY <2>1 DEF RequestCredentials, Connect, queueVars
  <2>2. CASE Prepare(t, s) \/ PrepareEnds(t, s) \/ PrepareBreaks(t, s)
    BY <2>2 DEF Prepare, PrepareEnds, PrepareBreaks, queueVars
  <2>3. CASE CopyChunk(t, s) \/ CopyDone(t, s) \/ CopyStopped(t, s) \/ CopyBreaks(t, s)
    BY <2>3 DEF CopyChunk, CopyDone, CopyStopped, CopyBreaks, queueVars
  <2>4. CASE Commit(t, s) \/ CommitFails(t, s)
    BY <2>4 DEF Commit, CommitFails, queueVars
  <2> QED
    BY <1>1, <2>1, <2>2, <2>3, <2>4 DEF WorkerStep
<1>2. ASSUME NEW t \in Tasks, CleanupPartial(t) PROVE UNCHANGED <<task, work>>
  BY <1>2 DEF CleanupPartial, queueVars
<1> QED
  BY <1>1, <1>2, WorkAside DEF WorkerNext

\* A restart queues nothing.
LEMMA ProcessWork == TypeOK /\ QueuedHasWork /\ ProcessNext => QueuedHasWork'
<1> SUFFICES ASSUME TypeOK, QueuedHasWork, ProcessNext PROVE QueuedHasWork'
  OBVIOUS
<1>1. CASE Restart
  <2>1. ASSUME NEW t \in Tasks PROVE task'[t].st # "Queued"
    <3> DEFINE r == Restored(journal[t], task[t])
    <3>1. task'[t] = r
      BY <1>1 DEF Restart
    <3>2. CASE journal[t].st = "paused"
      <4>1. r.st = "Paused"
        BY <3>2 DEF Restored
      <4> QED
        BY <3>1, <4>1
    <3>3. CASE journal[t].st = "interrupted"
      <4>1. r.st = "Failed"
        BY <3>3 DEF Restored
      <4> QED
        BY <3>1, <4>1
    <3>4. CASE journal[t].st \notin {"paused", "interrupted"}
      <4>1. r = IF task[t].st = "new" THEN task[t] ELSE [NewTask EXCEPT !.st = "gone"]
        BY <3>4 DEF Restored
      <4> QED
        BY <3>1, <4>1 DEF NewTask
    <3> QED
      BY <3>2, <3>3, <3>4
  <2> QED
    BY <2>1 DEF QueuedHasWork
<1>2. CASE Shutdown \/ Crash
  BY <1>2, WorkAside DEF Shutdown, Crash, queueVars
<1> QED
  BY <1>1, <1>2 DEF ProcessNext

\* schedule() never takes a task whose request provider is gone, so no transfer
\* fails as "request-provider-missing" (TransferManager::startWorker, m_work).
THEOREM QueuedHasWorkHolds == Spec => []QueuedHasWork
<1>1. Init => QueuedHasWork
  <2>1. ASSUME Init, NEW t \in Tasks PROVE task[t].st # "Queued"
    <3>1. task[t] = NewTask
      BY <2>1 DEF Init
    <3>2. NewTask.st = "new"
      BY DEF NewTask
    <3> QED
      BY <3>1, <3>2
  <2> QED
    BY <2>1 DEF QueuedHasWork
<1>2. TypeOK /\ QueuedHasWork /\ [Next]_vars => (TypeOK /\ QueuedHasWork)'
  <2>1. UNCHANGED vars /\ QueuedHasWork => QueuedHasWork'
    BY WorkAside DEF vars, queueVars
  <2> QED
    BY <2>1, TypeStep, UserWork, EventWork, ScheduleWork, ThreadWork, ProcessWork DEF Next
<1> QED
  BY <1>1, <1>2, InitType, PTL DEF Spec

-----------------------------------------------------------------------------
(***************************************************************************)
(* No slot is free while a task waits.  The property holds also while the  *)
(* handler of an event waits for a thread: that handler may find nothing   *)
(* to do and return to the event loop.                                     *)
(***************************************************************************)
Resting == {"idle", "joinWorker"}

Served == ~SlotFree \/ NoneQueued(task, order)

ServedAtRest == gui \in Resting => Served

\* Nobody gives a slot back, and nobody begins to wait.
NothingFreed ==
    /\ \A t \in Tasks : task[t].st \in Active => task'[t].st \in Active
    /\ \A t \in Tasks : task'[t].st = "Queued" => task[t].st = "Queued"
    /\ order' = order

\* What a step has to do for it.
Serves ==
    gui' \in Resting =>
        \/ gui \in Resting /\ NothingFreed
        \/ \A t \in Tasks : task'[t].st # "Queued"
        \/ Served'

LEMMA ServedStep == TypeOK /\ TypeOK' /\ ServedAtRest /\ Serves => ServedAtRest'
<1> SUFFICES ASSUME TypeOK, TypeOK', ServedAtRest, Serves, gui' \in Resting PROVE Served'
  BY DEF ServedAtRest
<1>0. \A i \in DOMAIN order' : order'[i] \in Tasks
  BY DEF TypeOK
<1>1. CASE gui \in Resting /\ NothingFreed
  <2>1. CASE NoneQueued(task, order)
    BY <1>0, <1>1, <2>1 DEF NothingFreed, NoneQueued, Served
  <2>2. CASE ~SlotFree
    <3> DEFINE A == ActiveTasks(task)
               B == ActiveTasks(task')
    <3>1. A \subseteq B /\ B \subseteq Tasks
      BY <1>1 DEF NothingFreed, ActiveTasks, TypeOK
    <3>2. IsFiniteSet(B) /\ IsFiniteSet(A)
      BY <3>1, TasksAssumption, FS_Subset
    <3> HIDE DEF A, B
    <3>3. Cardinality(A) <= Cardinality(B) /\ Cardinality(A) \in Nat /\ Cardinality(B) \in Nat
      BY <3>1, <3>2, FS_Subset, FS_CardinalityType
    <3>4. RunningCount(task) = Cardinality(A) /\ RunningCount(task') = Cardinality(B)
      BY DEF RunningCount, A, B
    <3> QED BY <2>2, <3>3, <3>4, LimitAssumption DEF SlotFree, Served
  <2> QED BY <1>1, <2>1, <2>2 DEF ServedAtRest, Served
<1>2. CASE \A t \in Tasks : task'[t].st # "Queued"
  BY <1>0, <1>2 DEF NoneQueued, Served
<1> QED BY <1>1, <1>2 DEF Serves

LEMMA AsideServes == UNCHANGED <<task, order>> /\ (gui' \in Resting => gui \in Resting) => Serves
  BY DEF Serves, NothingFreed

LEMMA UserServes == TypeOK /\ UserNext => Serves
<1> SUFFICES ASSUME TypeOK, UserNext PROVE Serves
  OBVIOUS
<1>1. ASSUME NEW t \in Tasks, Enqueue(t) \/ Resume(t) \/ Retry(t) PROVE Serves
  BY <1>1 DEF Enqueue, Resume, Retry, Requeue, Serves, Resting
<1>2. ASSUME NEW t \in Tasks, NEW r, r \in {CancelTask(task[t]), PauseTask(task[t])},
             gui = "idle", gui' = AfterCall(t), task' = [task EXCEPT ![t] = r], order' = order
      PROVE  Serves
  <2>1. CASE task[t].st = "Running"
    <3>1. task[t] \in TaskRecords
      BY DEF TypeOK
    <3>2. r.st \in Active
      BY <1>2, <2>1, <3>1
         DEF CancelTask, PauseTask, To, CancelTarget, PauseTarget, TaskRecords, Active
    <3> QED BY <1>2, <2>1, <3>2 DEF Serves, NothingFreed, TypeOK, Resting, Active
  <2>2. CASE task[t].st # "Running"
    BY <1>2, <2>2 DEF AfterCall, Serves, Resting
  <2> QED BY <2>1, <2>2
<1>3. ASSUME NEW t \in Tasks, Cancel(t) \/ Pause(t) PROVE Serves
  <2>1. \/ /\ gui = "idle" /\ gui' = AfterCall(t) /\ order' = order
           /\ \/ task' = [task EXCEPT ![t] = CancelTask(task[t])]
              \/ task' = [task EXCEPT ![t] = PauseTask(task[t])]
        \/ UNCHANGED <<task, order, gui>>
    BY <1>3 DEF Cancel, Pause, Called, Idle
  <2> QED BY <1>2, <2>1, AsideServes
<1>4. ASSUME NEW T \in SUBSET Tasks, \A t \in T : task[t].st \in Finished, Remove(T), Idle
      PROVE  Serves
  <2>1. \A t \in T : DismissTask(task[t]).st = "gone" /\ task[t].st \notin Active
    BY <1>4 DEF DismissTask, NewTask, Finished, Active
  <2> QED BY <1>4, <2>1 DEF Remove, Serves, NothingFreed, Idle, Resting
<1>5. ASSUME NEW t \in Tasks, Dismiss(t) PROVE Serves
  BY <1>4, <1>5 DEF Dismiss, Called
<1>6. CASE DismissFinished
  BY <1>4, <1>6 DEF DismissFinished
<1>7. ASSUME NEW t \in Tasks, NEW a \in Decisions, ResolveConflict(t, a) PROVE Serves
  <2>1. gui' = "schedule" \/ UNCHANGED <<task, order, gui>>
    BY <1>7 DEF ResolveConflict, Decide, Requeue
  <2> QED BY <2>1, AsideServes DEF Serves, Resting
<1>8. CASE RequestStop
  BY <1>8 DEF RequestStop, Serves, Resting
<1> QED BY <1>1, <1>3, <1>5, <1>6, <1>7, <1>8 DEF UserNext

LEMMA ScheduleServes == ScheduleNext => Serves
<1>1. ASSUME NEW i \in DOMAIN order, StartNext(i) \/ StartFails(i) PROVE Serves
  BY <1>1 DEF StartNext, StartFails, Serves, Resting
<1>2. ScheduleDone => Serves
  BY DEF ScheduleDone, Serves, Served, SlotFree, RunningCount, ActiveTasks, NoneQueued, queueVars
<1>3. ASSUME NEW t \in Tasks, StopDuplicate(t) \/ DuplicateJoined(t) PROVE Serves
  BY <1>3 DEF StopDuplicate, DuplicateJoined, Serves, Resting
<1> QED BY <1>1, <1>2, <1>3 DEF ScheduleNext

LEMMA EventServes == TypeOK /\ EventNext => Serves
<1> SUFFICES ASSUME TypeOK, EventNext PROVE Serves
  OBVIOUS
<1>1. CASE DeliverProgress
  <2> DEFINE e == Head(events)
             t == e.task
  <2>1. t \in Tasks /\ task[t] \in TaskRecords
    <3>1. e \in Events
      BY <1>1, HeadEvent DEF DeliverProgress, Delivers
    <3>2. t \in Tasks
      BY <3>1 DEF Events
    <3> QED BY <3>2 DEF TypeOK
  <2>2. /\ gui = "idle" /\ order' = order /\ gui' = gui
        /\ task' = [task EXCEPT ![t] = UpdateProgress(task[t], e.bytes)] \/ UNCHANGED task
    BY <1>1 DEF DeliverProgress, Idle
  <2> HIDE DEF e
  <2>3. UpdateProgress(task[t], e.bytes).st = task[t].st
    BY <2>1 DEF UpdateProgress, TaskRecords
  <2> QED BY <2>1, <2>2, <2>3 DEF Serves, NothingFreed, Resting, TypeOK
<1>2. CASE JoinWorker
  BY <1>2, AsideServes DEF JoinWorker, Idle, Resting, queueVars
<1>3. CASE DeliverCredentialError
  <2>1. \/ gui' = "schedule"
        \/ gui \in Resting /\ UNCHANGED <<task, order>>
    BY <1>3 DEF DeliverCredentialError, Requeue, Erased, Resting
  <2> QED BY <2>1, AsideServes DEF Serves, Resting
<1>4. CASE DeliverResult
  BY <1>4 DEF DeliverResult, Serves, Resting
<1>5. ASSUME NEW a \in Decisions \cap {"skip", "replace"}, DeliverConflictToPolicy(a) PROVE Serves
  BY <1>5 DEF DeliverConflictToPolicy, Requeue, Serves, Resting
<1> QED BY <1>1, <1>2, <1>3, <1>4, <1>5 DEF EventNext

LEMMA ThreadServes == WorkerNext => Serves
<1>1. ASSUME NEW t \in Tasks, NEW s \in Slots, WorkerStep(t, s) PROVE UNCHANGED <<queueVars, gui>>
  BY <1>1 DEF WorkerStep, RequestCredentials, Connect, Prepare, PrepareEnds, PrepareBreaks,
              CopyChunk, CopyDone, CopyStopped, CopyBreaks, Commit, CommitFails
<1>2. ASSUME NEW t \in Tasks, CleanupPartial(t) PROVE UNCHANGED <<queueVars, gui>>
  BY <1>2 DEF CleanupPartial
<1>3. UNCHANGED <<queueVars, gui>> => Serves
  BY AsideServes DEF queueVars
<1> QED BY <1>1, <1>2, <1>3 DEF WorkerNext

\* A restart queues nothing.
LEMMA ProcessServes == ProcessNext => Serves
<1>1. CASE Restart
  <2>1. ASSUME NEW t \in Tasks PROVE task'[t].st # "Queued"
    <3> DEFINE r == Restored(journal[t], task[t])
    <3>1. task'[t] = r
      BY <1>1 DEF Restart
    <3>2. journal[t].st = "paused" => r.st = "Paused"
      BY DEF Restored
    <3>3. journal[t].st = "interrupted" => r.st = "Failed"
      BY DEF Restored
    <3>4. journal[t].st \notin {"paused", "interrupted"} => r.st \in {"new", "gone"}
      BY DEF Restored, NewTask
    <3> QED BY <3>1, <3>2, <3>3, <3>4
  <2> QED BY <2>1 DEF Serves
<1>2. Shutdown \/ Crash => Serves
  BY DEF Shutdown, Crash, Serves, Resting
<1> QED BY <1>1, <1>2 DEF ProcessNext

\* Back in its event loop, the GUI thread leaves no task queued while a slot is
\* free: every call and every handler that frees a slot or queues a task runs
\* schedule() to its end (TransferManager::schedule, handleResult).
THEOREM WorkConservingHolds == Spec => []WorkConserving
<1>1. Init => ServedAtRest
  BY DEF Init, ServedAtRest, Served, NoneQueued
<1>2. TypeOK /\ ServedAtRest /\ [Next]_vars => (TypeOK /\ ServedAtRest)'
  <2>1. UNCHANGED vars => Serves
    BY AsideServes DEF vars, queueVars
  <2>2. TypeOK /\ [Next]_vars => Serves
    BY <2>1, UserServes, ScheduleServes, EventServes, ThreadServes, ProcessServes DEF Next
  <2> QED BY <2>2, TypeStep, ServedStep
<1>3. ServedAtRest => WorkConserving
  BY DEF ServedAtRest, Served, WorkConserving, Resting
<1> QED BY <1>1, <1>2, <1>3, InitType, PTL DEF Spec

-----------------------------------------------------------------------------
(***************************************************************************)
(* What becomes of a transfer, for every value of the constants: the       *)
(* recovery journal follows the queue, what is over stays over, and the    *)
(* manager implements TransferLifecycle.                                   *)
(*                                                                         *)
(* Each step of the manager publishes, leaves queue and journal alone, or  *)
(* is schedule() taking a task before the publication at its end.          *)
(***************************************************************************)
\* In its event loop, or in the handler of an event that has done nothing yet.
AtRest == {"idle", "joinWorker"}

\* A finished transfer is not revived by an operation that turns r into s.
Over(r, s) == r.st \in {"Completed", "Cancelled"} => s.st \in {r.st, "gone"}

StaysOver == \A t \in Tasks : Over(task[t], task'[t])

Untouched == UNCHANGED <<task, journal>> /\ (gui' \in AtRest => gui \in AtRest)

\* schedule() took one task and has not published yet.
Taken ==
    /\ UNCHANGED journal
    /\ gui' \notin AtRest
    /\ \E u \in Tasks :
          /\ task[u].st = "Queued"
          /\ \/ task' = [task EXCEPT ![u] = TakeTask(@)]
             \/ \E code \in {"provider-missing", "error"} :
                   task' = [task EXCEPT ![u] = Fail(TakeTask(@), code)]

Recorded == Publish \/ Untouched \/ Taken

-----------------------------------------------------------------------------
\* No queue operation leads out of Completed or Cancelled: the transition
\* table has no successor there.
LEMMA OverOperations ==
    ASSUME NEW r \in TaskRecords, NEW n \in 0..Size, NEW code \in Codes
    PROVE  /\ Over(r, CancelTask(r)) /\ Over(r, PauseTask(r)) /\ Over(r, ResumeTask(r))
           /\ Over(r, RetryTask(r)) /\ Over(r, DismissTask(r)) /\ Over(r, NeedAttention(r))
           /\ Over(r, UpdateProgress(r, n))
<1>0. r.st \in {"Completed", "Cancelled"} => Successors[r.st] = {}
  BY DEF Successors, Statuses, Outside
<1>1. Over(r, CancelTask(r)) /\ Over(r, PauseTask(r))
  BY <1>0 DEF Over, TaskRecords, CancelTask, PauseTask, To, CanTransition, CancelTarget, PauseTarget
<1>2. Over(r, ResumeTask(r)) /\ Over(r, RetryTask(r))
  BY <1>0 DEF Over, TaskRecords, ResumeTask, RetryTask, CanResume, CanRetry, CanTransition
<1>3. Over(r, DismissTask(r)) /\ Over(r, NeedAttention(r))
  BY <1>0 DEF Over, TaskRecords, DismissTask, NewTask, NeedAttention, CanTransition
<1>4. Over(r, UpdateProgress(r, n))
  BY DEF Over, TaskRecords, UpdateProgress
<1> QED
  BY <1>1, <1>2, <1>3, <1>4

LEMMA OverIf ==
    ASSUME TypeOK, NEW t \in Tasks, NEW r, Over(task[t], r), task' = [task EXCEPT ![t] = r]
    PROVE  StaysOver
  BY DEF TypeOK, StaysOver, Over

LEMMA SameOver == UNCHANGED task => StaysOver
  BY DEF StaysOver, Over

-----------------------------------------------------------------------------
\* Every call of the user either publishes or changes nothing that matters to
\* a restart.
LEMMA UserRecorded == TypeOK /\ UserNext => Recorded /\ StaysOver
<1> SUFFICES ASSUME TypeOK, UserNext PROVE Recorded /\ StaysOver
  OBVIOUS
<1>q. ASSUME NEW t \in Tasks
      PROVE  /\ Over(task[t], CancelTask(task[t])) /\ Over(task[t], PauseTask(task[t]))
             /\ Over(task[t], ResumeTask(task[t])) /\ Over(task[t], RetryTask(task[t]))
             /\ Over(task[t], DismissTask(task[t]))
  <2>1. task[t] \in TaskRecords
    BY DEF TypeOK
  <2> QED
    BY <2>1, OverOperations, SizeBounds DEF Codes
<1>1. ASSUME NEW t \in Tasks, Enqueue(t) PROVE Recorded /\ StaysOver
  <2>1. Over(task[t], [task[t] EXCEPT !.st = "Queued"])
    BY <1>1 DEF Enqueue, Over
  <2>2. task' = [task EXCEPT ![t] = [task[t] EXCEPT !.st = "Queued"]] /\ Publish
    BY <1>1 DEF Enqueue
  <2> QED
    BY <2>1, <2>2, OverIf DEF Recorded
<1>2. ASSUME NEW t \in Tasks, Cancel(t) PROVE Recorded /\ StaysOver
  <2>1. \/ task' = [task EXCEPT ![t] = CancelTask(task[t])] /\ Publish
        \/ UNCHANGED <<task, journal, gui>>
    BY <1>2 DEF Cancel
  <2> QED
    BY <1>q, <2>1, OverIf, SameOver DEF Recorded, Untouched
<1>3. ASSUME NEW t \in Tasks, Pause(t) PROVE Recorded /\ StaysOver
  <2>1. task' = [task EXCEPT ![t] = PauseTask(task[t])] /\ Publish
    BY <1>3 DEF Pause
  <2> QED
    BY <1>q, <2>1, OverIf DEF Recorded
<1>4. ASSUME NEW t \in Tasks, Resume(t) PROVE Recorded /\ StaysOver
  <2>1. task' = [task EXCEPT ![t] = ResumeTask(task[t])] /\ Publish
    BY <1>4 DEF Resume, Requeue
  <2> QED
    BY <1>q, <2>1, OverIf DEF Recorded
<1>5. ASSUME NEW t \in Tasks, Retry(t) PROVE Recorded /\ StaysOver
  <2>1. task' = [task EXCEPT ![t] = RetryTask(task[t])] /\ Publish
    BY <1>5 DEF Retry, Requeue
  <2> QED
    BY <1>q, <2>1, OverIf DEF Recorded
<1>6. ASSUME NEW T \in SUBSET Tasks, Remove(T) PROVE Recorded /\ StaysOver
  <2>1. (\A t \in Tasks : task'[t] \in {task[t], DismissTask(task[t])}) /\ Publish
    BY <1>6 DEF Remove
  <2> QED
    BY <1>q, <2>1 DEF Recorded, StaysOver, Over
<1>7. ASSUME NEW t \in Tasks, NEW a \in Decisions, ResolveConflict(t, a)
      PROVE  Recorded /\ StaysOver
  <2>1. \/ task' = [task EXCEPT ![t] = RetryTask(task[t])] /\ Publish
        \/ UNCHANGED <<task, journal, gui>>
    BY <1>7 DEF ResolveConflict, Decide, Requeue
  <2> QED
    BY <1>q, <2>1, OverIf, SameOver DEF Recorded, Untouched
<1>8. CASE RequestStop
  BY <1>8, SameOver DEF RequestStop, Recorded, Untouched, AtRest, queueVars
<1>9. CASE DismissFinished
  BY <1>6, <1>9 DEF DismissFinished
<1>10. ASSUME NEW t \in Tasks, Dismiss(t) PROVE Recorded /\ StaysOver
  BY <1>6, <1>10 DEF Dismiss
<1> QED
  BY <1>1, <1>2, <1>3, <1>4, <1>5, <1>7, <1>8, <1>9, <1>10 DEF UserNext

\* schedule() takes queued tasks only, and publishes when it is done.
LEMMA ScheduleRecorded == TypeOK /\ ScheduleNext => Recorded /\ StaysOver
<1> SUFFICES ASSUME TypeOK, ScheduleNext PROVE Recorded /\ StaysOver
  OBVIOUS
<1>1. ASSUME NEW i \in DOMAIN order, StartNext(i) \/ StartFails(i) PROVE Taken
  <2>1. order[i] \in Tasks /\ task[order[i]].st = "Queued"
    BY <1>1, OrderElement DEF StartNext, StartFails, IsFirstQueued
  <2>2. UNCHANGED journal /\ gui' \notin AtRest
    BY <1>1 DEF StartNext, StartFails, AtRest
  <2>3. \/ task' = [task EXCEPT ![order[i]] = TakeTask(@)]
        \/ \E code \in {"provider-missing", "error"} :
              task' = [task EXCEPT ![order[i]] = Fail(TakeTask(@), code)]
    BY <1>1 DEF StartNext, StartFails
  <2> QED
    BY <2>1, <2>2, <2>3 DEF Taken
<1>2. Taken => StaysOver
  <2> SUFFICES ASSUME Taken PROVE StaysOver
    OBVIOUS
  <2>1. PICK u \in Tasks : task[u].st = "Queued" /\ \E r : task' = [task EXCEPT ![u] = r]
    BY DEF Taken
  <2> QED
    BY <2>1, OverIf DEF Over
<1>3. CASE ScheduleDone
  BY <1>3, SameOver DEF ScheduleDone, Recorded, Publish, queueVars
<1>4. ASSUME NEW t \in Tasks, StopDuplicate(t) \/ DuplicateJoined(t) PROVE Recorded /\ StaysOver
  BY <1>4, SameOver DEF StopDuplicate, DuplicateJoined, Recorded, Untouched, AtRest, queueVars
<1> QED
  BY <1>1, <1>2, <1>3, <1>4 DEF ScheduleNext, Recorded

\* What handleResult makes of a transfer that is over: nothing.
LEMMA ActiveIsNotOver ==
    ASSUME NEW r \in TaskRecords, r.st \in Active, NEW s
    PROVE  Over(r, s)
  BY DEF Over, Active

\* The handlers of the workers' events.
LEMMA EventRecorded == TypeOK /\ EventNext => Recorded /\ StaysOver
<1> SUFFICES ASSUME TypeOK, EventNext PROVE Recorded /\ StaysOver
  OBVIOUS
<1> DEFINE e == Head(events)
           t == e.task
<1>e. t \in Tasks /\ e.bytes \in 0..Size /\ task[t] \in TaskRecords
  <2>1. events # <<>>
    BY DEF EventNext, DeliverProgress, JoinWorker, DeliverCredentialError, DeliverResult,
           DeliverConflictToPolicy, Delivers
  <2>2. e \in Events
    BY <2>1, HeadEvent
  <2> QED
    BY <2>2 DEF Events, TypeOK
<1> HIDE DEF e
<1>1. CASE DeliverProgress
  <2>1. \/ task' = [task EXCEPT ![t] = UpdateProgress(task[t], e.bytes)] /\ Publish
        \/ UNCHANGED <<task, journal, gui>>
    BY <1>1 DEF DeliverProgress, e
  <2>2. Over(task[t], UpdateProgress(task[t], e.bytes))
    BY <1>e, OverOperations DEF Codes
  <2> QED
    BY <1>e, <2>1, <2>2, OverIf, SameOver DEF Recorded, Untouched
<1>2. CASE JoinWorker
  BY <1>2, SameOver DEF JoinWorker, Idle, Recorded, Untouched, AtRest, queueVars
<1>3. CASE DeliverCredentialError
  <2>1. \/ task' = [task EXCEPT ![t] = NeedAttention(task[t])] /\ Publish
        \/ UNCHANGED <<task, journal>> /\ gui \in AtRest
    BY <1>3 DEF DeliverCredentialError, Requeue, Erased, AtRest, e
  <2>2. Over(task[t], NeedAttention(task[t]))
    BY <1>e, OverOperations DEF Codes
  <2> QED
    BY <1>e, <2>1, <2>2, OverIf, SameOver DEF Recorded, Untouched
<1>4. CASE DeliverResult
  <2>1. \/ /\ task[t].st \in Active
           /\ task' = [task EXCEPT ![t] = Settled(task[t], e)]
           /\ Publish
        \/ UNCHANGED <<task, journal>> /\ gui' = "schedule"
    BY <1>4 DEF DeliverResult, e
  <2> QED
    BY <1>e, <2>1, ActiveIsNotOver, OverIf, SameOver DEF Recorded, Untouched, AtRest
<1>5. ASSUME NEW a \in Decisions \cap {"skip", "replace"}, DeliverConflictToPolicy(a)
      PROVE  Recorded /\ StaysOver
  <2>1. /\ task[t].st \in Active
        /\ \E r : task' = [task EXCEPT ![t] = r]
        /\ Publish
    BY <1>5 DEF DeliverConflictToPolicy, Requeue, e
  <2> QED
    BY <1>e, <2>1, ActiveIsNotOver, OverIf DEF Recorded
<1> QED
  BY <1>1, <1>2, <1>3, <1>4, <1>5 DEF EventNext

\* A worker thread touches neither the queue nor the journal.
LEMMA WorkerRecorded == WorkerNext => Recorded /\ StaysOver
<1> DEFINE Aside == UNCHANGED <<task, journal, gui>>
<1>1. ASSUME NEW t \in Tasks, NEW s \in Slots, WorkerStep(t, s) PROVE Aside
  <2>1. CASE RequestCredentials(t, s) \/ Connect(t, s)
    BY <2>1 DEF RequestCredentials, Connect, queueVars
  <2>2. CASE Prepare(t, s) \/ PrepareEnds(t, s) \/ PrepareBreaks(t, s)
    BY <2>2 DEF Prepare, PrepareEnds, PrepareBreaks, queueVars
  <2>3. CASE CopyChunk(t, s) \/ CopyDone(t, s) \/ CopyStopped(t, s) \/ CopyBreaks(t, s)
    BY <2>3 DEF CopyChunk, CopyDone, CopyStopped, CopyBreaks, queueVars
  <2>4. CASE Commit(t, s) \/ CommitFails(t, s)
    BY <2>4 DEF Commit, CommitFails, queueVars
  <2> QED
    BY <1>1, <2>1, <2>2, <2>3, <2>4 DEF WorkerStep
<1>2. ASSUME NEW t \in Tasks, CleanupPartial(t) PROVE Aside
  BY <1>2 DEF CleanupPartial, queueVars
<1>3. Aside => Recorded /\ StaysOver
  BY SameOver DEF Recorded, Untouched
<1> QED
  BY <1>1, <1>2, <1>3 DEF WorkerNext

\* The end of the process.
LEMMA EndRecorded == Shutdown \/ Crash => Recorded /\ StaysOver
<1>1. CASE Shutdown
  BY <1>1, SameOver DEF Shutdown, Recorded, Publish, queueVars
<1>2. CASE Crash
  BY <1>2, SameOver DEF Crash, Recorded, Untouched, AtRest, queueVars
<1> QED
  BY <1>1, <1>2

\* Every step but a restart keeps what is over, and every step is recorded.
LEMMA StepRecorded == TypeOK /\ [Next]_vars => Recorded /\ (StaysOver \/ Restart)
<1>1. UNCHANGED vars => Recorded /\ StaysOver
  BY SameOver DEF vars, queueVars, Recorded, Untouched
<1>2. Restart => Recorded
  BY DEF Restart, Recorded
<1> QED
  BY <1>1, <1>2, UserRecorded, ScheduleRecorded, EventRecorded, WorkerRecorded, EndRecorded
     DEF Next, ProcessNext

-----------------------------------------------------------------------------
(***************************************************************************)
(* The journal.  While the GUI thread is inside schedule() the journal may *)
(* hold an entry of a task that has just failed to start; it never lacks   *)
(* one.                                                                    *)
(***************************************************************************)
JournalHolds ==
    /\ \A t \in Tasks : Recoverable(task[t]) => journal[t] = JournalEntry(task[t])
    /\ \A t \in Tasks : task[t].st \in {"Completed", "Cancelled"} => journal[t] = NoEntry
    /\ gui \in AtRest => journal = Saved(task)

\* What is published is all there is to say.
LEMMA PublishedHolds ==
    ASSUME task' \in [Tasks -> TaskRecords], Publish
    PROVE  JournalHolds'
<1>1. \A t \in Tasks : journal'[t] = JournalEntry(task'[t])
  BY DEF Publish, Saved
<1>2. \A t \in Tasks : task'[t].st \in {"Completed", "Cancelled"} => ~Recoverable(task'[t])
  BY DEF Recoverable
<1> QED
  BY <1>1, <1>2 DEF JournalHolds, Publish, JournalEntry

\* A task that is taken keeps the entry of a queued one, or fails for good.
LEMMA TakenHolds == TypeOK /\ JournalHolds /\ Taken => JournalHolds'
<1> SUFFICES ASSUME TypeOK, JournalHolds, Taken PROVE JournalHolds'
  OBVIOUS
<1>1. PICK u \in Tasks :
         /\ task[u].st = "Queued"
         /\ \/ task' = [task EXCEPT ![u] = TakeTask(@)]
            \/ \E code \in {"provider-missing", "error"} :
                  task' = [task EXCEPT ![u] = Fail(TakeTask(@), code)]
  BY DEF Taken
<1> DEFINE r == task[u]
<1>2. r \in TaskRecords /\ journal[u] = JournalEntry(r)
  BY <1>1 DEF TypeOK, JournalHolds, Recoverable
<1>3. JournalEntry(TakeTask(r)) = JournalEntry(r)
  BY <1>1, <1>2 DEF JournalEntry, Recoverable, TakeTask, TaskRecords
<1>4. ASSUME NEW code \in {"provider-missing", "error"}
      PROVE  /\ ~Recoverable(Fail(TakeTask(r), code))
             /\ Fail(TakeTask(r), code).st \notin {"Completed", "Cancelled"}
  <2>1. TakeTask(r).st = "Running" /\ CanTransition("Running", "Failed")
    BY <1>2 DEF TakeTask, TaskRecords, CanTransition, Successors, Statuses
  <2>2. TakeTask(r) \in TaskRecords
    BY <1>2, StatusOperationsType
  <2> QED
    BY <2>1, <2>2 DEF Fail, Recoverable, TaskRecords
<1>5. TakeTask(r).st \notin {"Completed", "Cancelled"}
  BY <1>2 DEF TakeTask, TaskRecords
<1>6. task \in [Tasks -> TaskRecords] /\ UNCHANGED journal /\ gui' \notin AtRest
  BY DEF Taken, TypeOK
\* What u becomes is recorded already, or need not be.
<1>7. PICK s : /\ task' = [task EXCEPT ![u] = s]
               /\ Recoverable(s) => journal[u] = JournalEntry(s)
               /\ s.st \notin {"Completed", "Cancelled"}
  BY <1>1, <1>2, <1>3, <1>4, <1>5
<1>8. \A t \in Tasks : t # u => task'[t] = task[t]
  BY <1>6, <1>7
<1>9. task'[u] = s
  BY <1>6, <1>7
<1> QED
  BY <1>6, <1>7, <1>8, <1>9 DEF JournalHolds

LEMMA JournalStep == TypeOK /\ JournalHolds /\ [Next]_vars => JournalHolds'
<1> SUFFICES ASSUME TypeOK, JournalHolds, [Next]_vars PROVE JournalHolds'
  OBVIOUS
<1>1. CASE Publish
  BY <1>1, TypeStep, PublishedHolds DEF TypeOK
<1>2. CASE Untouched
  BY <1>2 DEF Untouched, JournalHolds
<1> QED
  BY <1>1, <1>2, StepRecorded, TakenHolds DEF Recorded

LEMMA JournalInit == Init => JournalHolds
<1> SUFFICES ASSUME Init PROVE JournalHolds
  OBVIOUS
<1>1. \A t \in Tasks : task[t] = NewTask /\ journal[t] = NoEntry
  BY DEF Init
<1>2. ~Recoverable(NewTask) /\ NewTask.st \notin {"Completed", "Cancelled"}
  BY DEF Recoverable, NewTask
<1>3. journal = Saved(task)
  <2>1. JournalEntry(NewTask) = NoEntry
    BY <1>2 DEF JournalEntry
  <2> QED
    BY <2>1 DEF Init, Saved
<1> QED
  BY <1>1, <1>2, <1>3 DEF JournalHolds

LEMMA JournalAlwaysHolds == Spec => [](TypeOK /\ JournalHolds)
<1>1. TypeOK /\ JournalHolds /\ [Next]_vars => (TypeOK /\ JournalHolds)'
  BY TypeStep, JournalStep
<1> QED
  BY <1>1, InitType, JournalInit, PTL DEF Spec

\* A crash between any two steps loses no unfinished transfer and no byte it
\* has reported, for any number of transfers (TransferManager::persistRecovery,
\* TransferRecoveryStore::save).
THEOREM JournalCurrentHolds == Spec => []JournalCurrent
<1>1. JournalHolds => JournalCurrent
  BY DEF JournalHolds, JournalCurrent, AtRest
<1> QED
  BY <1>1, JournalAlwaysHolds, PTL

\* A restart forgets what is over: it left no entry.
LEMMA RestartStaysOver == TypeOK /\ JournalHolds /\ Restart => StaysOver
<1> SUFFICES ASSUME TypeOK, JournalHolds, Restart PROVE StaysOver
  OBVIOUS
<1>1. ASSUME NEW t \in Tasks, task[t].st \in {"Completed", "Cancelled"}
      PROVE  task'[t].st = "gone"
  <2>1. task'[t] = Restored(NoEntry, task[t])
    BY <1>1 DEF Restart, JournalHolds
  <2>2. Restored(NoEntry, task[t]) = [NewTask EXCEPT !.st = "gone"]
    BY <1>1 DEF Restored, NoEntry
  <2> QED
    BY <2>1, <2>2 DEF NewTask
<1> QED
  BY <1>1 DEF StaysOver, Over

\* A completed or cancelled transfer never comes back: not by a call, not by a
\* late or duplicated result, not by a crash and a restart.
THEOREM FinishedStaysHolds == Spec => FinishedStays
<1>1. TypeOK /\ JournalHolds /\ [Next]_vars => StaysOver
  BY StepRecorded, RestartStaysOver
<1>2. TypeOK /\ JournalHolds /\ [Next]_vars =>
         [\A t \in Tasks : task[t].st \in {"Completed", "Cancelled"} =>
             task'[t].st \in {task[t].st, "gone"}]_vars
  BY <1>1 DEF StaysOver, Over
<1> QED
  BY <1>2, JournalAlwaysHolds, PTL DEF Spec, FinishedStays

-----------------------------------------------------------------------------
(***************************************************************************)
(* The refinement: whatever the user calls, a worker reports or a restart  *)
(* reads from the journal moves a transfer only as the lifecycle allows.   *)
(***************************************************************************)
PhaseNow == [t \in Tasks |-> PhaseOf(task[t].st)]

\* A single transfer may go from one phase to another without taking a slot.
Goes(p, q) ==
    \/ p = q
    \/ p \in {"new", "resting"} /\ q = "waiting"
    \/ p = "active" /\ q \in {"over", "resting", "waiting"}
    \/ p = "waiting" /\ q \in {"resting", "over"}
    \/ p = "resting" /\ q = "over"

Moved(r, s) == Goes(PhaseOf(r.st), PhaseOf(s.st))

-----------------------------------------------------------------------------
\* The instance counts as the module does.
LEMMA SameCount == ASSUME NEW S PROVE Lifecycle!Cardinality(S) = Cardinality(S)
  BY DEF Lifecycle!Cardinality, Cardinality

LEMMA PhaseValues ==
    /\ PhaseOf("new") = "new" /\ PhaseOf("Queued") = "waiting"
    /\ PhaseOf("Running") = "active" /\ PhaseOf("Pausing") = "active"
    /\ PhaseOf("Cancelling") = "active"
    /\ PhaseOf("Paused") = "resting" /\ PhaseOf("NeedsAttention") = "resting"
    /\ PhaseOf("Failed") = "resting"
    /\ PhaseOf("Completed") = "over" /\ PhaseOf("Cancelled") = "over"
    /\ PhaseOf("gone") = "forgotten"
  BY DEF PhaseOf, Active

\* The queue's operations outside takeNext() and dismiss().
LEMMA CallsMove ==
    ASSUME NEW r \in TaskRecords
    PROVE  /\ Moved(r, CancelTask(r)) /\ Moved(r, PauseTask(r))
           /\ Moved(r, ResumeTask(r)) /\ Moved(r, RetryTask(r))
<1>1. r.st \in Statuses \cup Outside
  BY DEF TaskRecords
<1>2. Moved(r, CancelTask(r))
  BY <1>1, PhaseValues
     DEF Moved, Goes, CancelTask, To, CanTransition, CancelTarget, Successors, Statuses, Outside, TaskRecords
<1>3. Moved(r, PauseTask(r))
  BY <1>1, PhaseValues
     DEF Moved, Goes, PauseTask, To, CanTransition, PauseTarget, Successors, Statuses, Outside, TaskRecords
<1>4. Moved(r, ResumeTask(r))
  BY <1>1, PhaseValues
     DEF Moved, Goes, ResumeTask, CanResume, CanTransition, Successors, Statuses, Outside, TaskRecords
<1>5. Moved(r, RetryTask(r))
  BY <1>1, PhaseValues
     DEF Moved, Goes, RetryTask, CanRetry, CanTransition, Successors, Statuses, Outside, TaskRecords
<1> QED BY <1>2, <1>3, <1>4, <1>5

\* A result, a question or its answer takes an active transfer off its slot or
\* leaves it there.
LEMMA ResultsMove ==
    ASSUME NEW r \in TaskRecords, r.st \in Active
    PROVE  /\ Moved(r, NeedAttention(r))
           /\ CanRetry(NeedAttention(r)) => Moved(r, RetryTask(NeedAttention(r)))
           /\ \A n \in 0..Size : Moved(r, UpdateProgress(r, n)) /\ Moved(r, MarkPaused(r, n))
           /\ \A e \in Events : e.kind \in Final \ {"credential"} => Moved(r, Settled(r, e))
<1>1. r.st \in {"Running", "Pausing", "Cancelling"}
  BY DEF Active
<1>2. \A q : Goes("active", q) <=> q \in {"active", "over", "resting", "waiting"}
  BY DEF Goes
<1>3. PhaseOf(r.st) = "active"
  BY <1>1, PhaseValues
<1>4. \A s : s.st \in Active \cup {"Paused", "NeedsAttention", "Failed", "Completed", "Cancelled", "Queued"}
              => Moved(r, s)
  BY <1>2, <1>3, PhaseValues DEF Moved, Active
<1>5. NeedAttention(r).st \in Active \cup {"NeedsAttention"}
  BY <1>1 DEF NeedAttention, TaskRecords, Active
<1>6. CanRetry(NeedAttention(r)) => RetryTask(NeedAttention(r)).st = "Queued"
  BY DEF RetryTask
<1>7. \A n \in 0..Size : UpdateProgress(r, n).st \in Active /\ MarkPaused(r, n).st \in Active \cup {"Paused"}
  BY <1>1 DEF UpdateProgress, MarkPaused, TaskRecords, Active
<1>8. ASSUME NEW e \in Events, e.kind \in Final \ {"credential"} PROVE Moved(r, Settled(r, e))
  <2> DEFINE p == UpdateProgress(r, e.bytes)
  <2>0. e.bytes \in 0..Size /\ e.kind \in EventKinds
    BY <1>8 DEF Events
  <2>1. p \in TaskRecords /\ p.st \in Active
    BY <1>1, <2>0 DEF UpdateProgress, TaskRecords, Active
  <2>2. Complete(p).st \in Active \cup {"Completed"}
    BY <2>1 DEF Complete, TaskRecords
  <2>3. Fail(p, "error").st \in Active \cup {"Failed"} /\ Fail(p, "invalid-task").st \in Active \cup {"Failed"}
    BY <2>1 DEF Fail, TaskRecords
  <2>4. CancelTask(r).st \in Active \cup {"Cancelled"}
    BY <1>1 DEF CancelTask, To, CancelTarget, TaskRecords, Active
  <2> QED BY <1>4, <1>5, <1>7, <1>8, <2>0, <2>2, <2>3, <2>4 DEF Settled, EventKinds, Final
<1> QED BY <1>4, <1>5, <1>6, <1>7, <1>8

-----------------------------------------------------------------------------
(***************************************************************************)
(* Steps of the manager as steps of the lifecycle.                         *)
(***************************************************************************)
LEMMA OneMoves ==
    ASSUME TypeOK, NEW t \in Tasks, NEW r, Moved(task[t], r), task' = [task EXCEPT ![t] = r]
    PROVE  [Lifecycle!Next]_PhaseNow
<1> DEFINE q == PhaseOf(r.st)
<1>1. PhaseNow' = [PhaseNow EXCEPT ![t] = q] /\ PhaseNow[t] = PhaseOf(task[t].st)
  BY DEF PhaseNow, TypeOK
<1>2. Goes(PhaseNow[t], q)
  BY <1>1 DEF Moved
<1> HIDE DEF q
<1>3. CASE PhaseNow[t] = q
  BY <1>1, <1>3 DEF PhaseNow
<1>4. CASE PhaseNow[t] \in {"new", "resting"} /\ q = "waiting"
  <2>1. Lifecycle!Submit(t)
    BY <1>1, <1>4 DEF Lifecycle!Submit, Lifecycle!Move, PhaseNow
  <2> QED BY <2>1 DEF Lifecycle!Next
<1>5. CASE PhaseNow[t] = "active" /\ q \in {"over", "resting", "waiting"}
  <2>1. Lifecycle!Leave(t)
    BY <1>1, <1>5 DEF Lifecycle!Leave, Lifecycle!Move, PhaseNow
  <2> QED BY <2>1 DEF Lifecycle!Next
<1>6. CASE PhaseNow[t] = "waiting" /\ q \in {"resting", "over"}
  <2>1. Lifecycle!Withdraw(t)
    BY <1>1, <1>6 DEF Lifecycle!Withdraw, Lifecycle!Move, PhaseNow
  <2> QED BY <2>1 DEF Lifecycle!Next
<1>7. CASE PhaseNow[t] = "resting" /\ q = "over"
  <2>1. Lifecycle!Abandon(t)
    BY <1>1, <1>7 DEF Lifecycle!Abandon, Lifecycle!Move, PhaseNow
  <2> QED BY <2>1 DEF Lifecycle!Next
<1> QED BY <1>2, <1>3, <1>4, <1>5, <1>6, <1>7 DEF Goes

LEMMA NoneMoves == UNCHANGED task => [Lifecycle!Next]_PhaseNow
  BY DEF PhaseNow

\* dismiss() and dismissFinished().
LEMMA RemoveForgets ==
    ASSUME TypeOK, NEW T \in SUBSET Tasks, \A t \in T : task[t].st \in Finished, Remove(T)
    PROVE  [Lifecycle!Next]_PhaseNow
<1>1. \A t \in T : PhaseNow[t] \in {"resting", "over"} /\ PhaseOf(DismissTask(task[t]).st) = "forgotten"
  <2>1. ASSUME NEW t \in T
        PROVE  PhaseNow[t] \in {"resting", "over"} /\ PhaseOf(DismissTask(task[t]).st) = "forgotten"
    <3>1. task[t].st \in {"Completed", "Failed", "Cancelled"}
      BY <2>1 DEF Finished
    <3>2. DismissTask(task[t]).st = "gone"
      BY <2>1 DEF DismissTask, NewTask
    <3> QED BY <3>1, <3>2, PhaseValues DEF PhaseNow
  <2> QED BY <2>1
<1>2. PhaseNow' = [t \in Tasks |-> IF t \in T THEN "forgotten" ELSE PhaseNow[t]]
  BY <1>1 DEF PhaseNow, Remove
<1>3. Lifecycle!Forget(T)
  BY <1>1, <1>2 DEF Lifecycle!Forget, Lifecycle!In, PhaseNow
<1> QED BY <1>3 DEF Lifecycle!Next

LEMMA UserMoves == TypeOK /\ UserNext => [Lifecycle!Next]_PhaseNow
<1> SUFFICES ASSUME TypeOK, UserNext PROVE [Lifecycle!Next]_PhaseNow
  OBVIOUS
<1>0. ASSUME NEW t \in Tasks PROVE task[t] \in TaskRecords
  BY DEF TypeOK
<1>1. ASSUME NEW t \in Tasks, Enqueue(t) PROVE [Lifecycle!Next]_PhaseNow
  <2> DEFINE r == [task[t] EXCEPT !.st = "Queued"]
  <2>1. task' = [task EXCEPT ![t] = r] /\ task[t].st = "new" /\ r.st = "Queued"
    BY <1>0, <1>1 DEF Enqueue, TaskRecords
  <2> QED BY <2>1, OneMoves, PhaseValues DEF Moved, Goes
<1>2. ASSUME NEW t \in Tasks, Cancel(t) \/ Pause(t) \/ Resume(t) \/ Retry(t)
      PROVE  [Lifecycle!Next]_PhaseNow
  <2>1. \/ task' = [task EXCEPT ![t] = CancelTask(task[t])]
        \/ task' = [task EXCEPT ![t] = PauseTask(task[t])]
        \/ task' = [task EXCEPT ![t] = ResumeTask(task[t])]
        \/ task' = [task EXCEPT ![t] = RetryTask(task[t])]
        \/ UNCHANGED task
    BY <1>2 DEF Cancel, Pause, Resume, Retry, Requeue
  <2> QED BY <1>0, <2>1, CallsMove, OneMoves, NoneMoves
<1>3. ASSUME NEW t \in Tasks, NEW a \in Decisions, ResolveConflict(t, a)
      PROVE  [Lifecycle!Next]_PhaseNow
  <2>1. task' = [task EXCEPT ![t] = RetryTask(task[t])] \/ UNCHANGED task
    BY <1>3 DEF ResolveConflict, Decide, Requeue
  <2> QED BY <1>0, <2>1, CallsMove, OneMoves, NoneMoves
<1>4. ASSUME NEW t \in Tasks, Dismiss(t) PROVE [Lifecycle!Next]_PhaseNow
  BY <1>4, RemoveForgets DEF Dismiss
<1>5. CASE DismissFinished
  BY <1>5, RemoveForgets DEF DismissFinished
<1>6. CASE RequestStop
  BY <1>6, NoneMoves DEF RequestStop, queueVars
<1> QED BY <1>1, <1>2, <1>3, <1>4, <1>5, <1>6 DEF UserNext

\* schedule() takes a task while a slot is free; one that cannot be started
\* fails within the same step.
LEMMA ScheduleMoves == TypeOK /\ ScheduleNext => [Lifecycle!Next]_PhaseNow
<1> SUFFICES ASSUME TypeOK, ScheduleNext PROVE [Lifecycle!Next]_PhaseNow
  OBVIOUS
<1>1. ASSUME NEW i \in DOMAIN order, StartNext(i) \/ StartFails(i)
      PROVE  [Lifecycle!Next]_PhaseNow
  <2> DEFINE t == order[i]
  <2>1. t \in Tasks /\ task[t].st = "Queued" /\ SlotFree /\ task[t] \in TaskRecords
    BY <1>1, OrderElement DEF StartNext, StartFails, IsFirstQueued, TypeOK
  <2>2. \/ task' = [task EXCEPT ![t] = TakeTask(task[t])]
        \/ \E code \in Codes : task' = [task EXCEPT ![t] = Fail(TakeTask(task[t]), code)]
    BY <1>1 DEF StartNext, StartFails, Codes
  <2> HIDE DEF t
  <2>3. TakeTask(task[t]).st = "Running"
    BY <2>1 DEF TakeTask, TaskRecords
  <2>4. CASE task' = [task EXCEPT ![t] = TakeTask(task[t])]
    <3>1. PhaseNow[t] = "waiting" /\ PhaseNow' = [PhaseNow EXCEPT ![t] = "active"]
      BY <2>1, <2>3, <2>4, PhaseValues DEF PhaseNow, TypeOK
    <3>2. {u \in Tasks : PhaseNow[u] \in {"active"}} = ActiveTasks(task)
      <4>1. ASSUME NEW u \in Tasks PROVE PhaseNow[u] = "active" <=> task[u].st \in Active
        <5>1. task[u].st \in Statuses \cup Outside
          BY DEF TypeOK, TaskRecords
        <5> QED BY <5>1, PhaseValues DEF PhaseNow, Statuses, Outside, Active
      <4>2. DOMAIN task = Tasks
        BY DEF TypeOK
      <4> QED BY <4>1, <4>2 DEF ActiveTasks
    <3>3. Cardinality({u \in Tasks : PhaseNow[u] \in {"active"}}) < Limit
      BY <2>1, <3>2 DEF SlotFree, RunningCount
    <3>4. Lifecycle!Start(t)
      BY <2>1, <3>1, <3>3, SameCount DEF Lifecycle!Start, Lifecycle!Move, Lifecycle!In, PhaseNow
    <3> QED BY <2>1, <3>4 DEF Lifecycle!Next
  <2>5. ASSUME NEW code \in Codes, task' = [task EXCEPT ![t] = Fail(TakeTask(task[t]), code)]
        PROVE  [Lifecycle!Next]_PhaseNow
    <3>1. Fail(TakeTask(task[t]), code).st = "Failed"
      <4>1. CanTransition("Running", "Failed")
        BY DEF CanTransition, Successors, Statuses, Outside
      <4>2. TakeTask(task[t]) \in TaskRecords
        BY <2>1, StatusOperationsType
      <4> QED BY <2>3, <4>1, <4>2 DEF Fail, TaskRecords
    <3> QED BY <2>1, <2>5, <3>1, OneMoves, PhaseValues DEF Moved, Goes
  <2> QED BY <2>2, <2>4, <2>5
<1>2. ASSUME ScheduleDone \/ \E t \in Tasks : StopDuplicate(t) \/ DuplicateJoined(t)
      PROVE  [Lifecycle!Next]_PhaseNow
  BY <1>2, NoneMoves DEF ScheduleDone, StopDuplicate, DuplicateJoined, queueVars
<1> QED BY <1>1, <1>2 DEF ScheduleNext
LEMMA EventMoves == TypeOK /\ EventNext => [Lifecycle!Next]_PhaseNow
<1> SUFFICES ASSUME TypeOK, EventNext PROVE [Lifecycle!Next]_PhaseNow
  OBVIOUS
<1> DEFINE e == Head(events)
           t == e.task
<1>e. t \in Tasks /\ e \in Events /\ e.bytes \in 0..Size /\ task[t] \in TaskRecords
  <2>1. events # <<>>
    BY DEF EventNext, DeliverProgress, JoinWorker, DeliverCredentialError, DeliverResult,
           DeliverConflictToPolicy, Delivers
  <2>2. e \in Events
    BY <2>1, HeadEvent
  <2> QED BY <2>2 DEF Events, TypeOK
<1> HIDE DEF e
<1>1. CASE DeliverProgress
  <2>1. \/ task[t].st = "Running" /\ task' = [task EXCEPT ![t] = UpdateProgress(task[t], e.bytes)]
        \/ UNCHANGED task
    BY <1>1 DEF DeliverProgress, e
  <2> QED BY <1>e, <2>1, ResultsMove, OneMoves, NoneMoves DEF Active
<1>2. CASE JoinWorker
  BY <1>2, NoneMoves DEF JoinWorker, queueVars
<1>3. CASE DeliverCredentialError
  <2>1. \/ task[t].st = "Running" /\ task' = [task EXCEPT ![t] = NeedAttention(task[t])]
        \/ UNCHANGED task
    BY <1>3 DEF DeliverCredentialError, Requeue, e
  <2> QED BY <1>e, <2>1, ResultsMove, OneMoves, NoneMoves DEF Active
<1>4. CASE DeliverResult
  <2>1. \/ /\ task[t].st \in Active /\ e.kind \in Final \ {"credential"}
           /\ task' = [task EXCEPT ![t] = Settled(task[t], e)]
        \/ UNCHANGED task
    BY <1>4 DEF DeliverResult, Delivers, e
  <2> QED BY <1>e, <2>1, ResultsMove, OneMoves, NoneMoves
<1>5. ASSUME NEW a \in Decisions \cap {"skip", "replace"}, DeliverConflictToPolicy(a)
      PROVE  [Lifecycle!Next]_PhaseNow
  <2> DEFINE r == NeedAttention(task[t])
  <2>1. /\ task[t].st \in Active
        /\ \/ task' = [task EXCEPT ![t] = r]
           \/ CanRetry(r) /\ task' = [task EXCEPT ![t] = RetryTask(r)]
    BY <1>5 DEF DeliverConflictToPolicy, Requeue, e
  <2> QED BY <1>e, <2>1, ResultsMove, OneMoves
<1> QED BY <1>1, <1>2, <1>3, <1>4, <1>5 DEF EventNext

LEMMA WorkerMoves == WorkerNext => [Lifecycle!Next]_PhaseNow
<1>1. ASSUME NEW t \in Tasks, NEW s \in Slots, WorkerStep(t, s) PROVE UNCHANGED task
  BY <1>1 DEF WorkerStep, RequestCredentials, Connect, Prepare, PrepareEnds, PrepareBreaks,
              CopyChunk, CopyDone, CopyStopped, CopyBreaks, Commit, CommitFails, queueVars
<1>2. ASSUME NEW t \in Tasks, CleanupPartial(t) PROVE UNCHANGED task
  BY <1>2 DEF CleanupPartial, queueVars
<1> QED BY <1>1, <1>2, NoneMoves DEF WorkerNext

-----------------------------------------------------------------------------
(***************************************************************************)
(* A restart.  What was new or forgotten has no entry in the journal, and  *)
(* neither has what was over.                                              *)
(***************************************************************************)
OutsideHasNoEntry == \A t \in Tasks : task[t].st \in Outside => journal[t] = NoEntry

LEMMA OutsideStep == TypeOK /\ OutsideHasNoEntry /\ [Next]_vars => OutsideHasNoEntry'
<1> SUFFICES ASSUME TypeOK, OutsideHasNoEntry, [Next]_vars PROVE OutsideHasNoEntry'
  OBVIOUS
<1>0. task' \in [Tasks -> TaskRecords]
  <2>1. TypeOK'
    BY TypeStep
  <2> QED BY <2>1 DEF TypeOK
<1>1. CASE Publish
  <2>1. \A t \in Tasks : task'[t].st \in Outside => JournalEntry(task'[t]) = NoEntry
    BY DEF JournalEntry, Recoverable, Outside
  <2>2. \A t \in Tasks : journal'[t] = JournalEntry(task'[t])
    BY <1>0, <1>1 DEF Publish, Saved
  <2> QED BY <2>1, <2>2 DEF OutsideHasNoEntry
<1>2. CASE Untouched
  BY <1>2 DEF Untouched, OutsideHasNoEntry
<1>3. CASE Taken
  <2>1. PICK u \in Tasks :
           \/ task' = [task EXCEPT ![u] = TakeTask(@)]
           \/ \E code \in {"provider-missing", "error"} :
                 task' = [task EXCEPT ![u] = Fail(TakeTask(@), code)]
    BY <1>3 DEF Taken
  <2>2. TakeTask(task[u]) \in TaskRecords /\ TakeTask(task[u]).st = "Running"
    <3>1. task[u] \in TaskRecords
      BY DEF TypeOK
    <3>2. TakeTask(task[u]) \in TaskRecords
      BY <3>1, StatusOperationsType
    <3>3. TakeTask(task[u]).st = "Running"
      BY <3>1 DEF TakeTask, TaskRecords
    <3> QED BY <3>2, <3>3
  <2>3. \A code \in Codes : Fail(TakeTask(task[u]), code).st \in {"Running", "Failed"}
    BY <2>2 DEF Fail, TaskRecords
  <2>4. task'[u].st \in {"Running", "Failed"} /\ \A t \in Tasks \ {u} : task'[t] = task[t]
    BY <2>1, <2>2, <2>3 DEF TypeOK, Codes
  <2> QED BY <1>3, <2>4 DEF Taken, OutsideHasNoEntry, Outside
<1> QED BY <1>1, <1>2, <1>3, StepRecorded DEF Recorded

\* What waited or ran rests, what rested rests or is forgotten, what was over
\* is forgotten.
LEMMA RestartInterrupts ==
    ASSUME TypeOK, JournalHolds, OutsideHasNoEntry, Restart
    PROVE  [Lifecycle!Next]_PhaseNow
<1> DEFINE After(t) == Restored(journal[t], task[t])
           T == {t \in Tasks : PhaseNow[t] = "resting" /\ After(t).st = "gone"}
<1>1. task' = [t \in Tasks |-> After(t)]
  BY DEF Restart
<1>2. ASSUME NEW t \in Tasks
      PROVE  /\ task[t] \in TaskRecords /\ task[t].st \in Statuses \cup Outside
             /\ journal[t].st \in {"none", "paused", "interrupted"}
             /\ journal[t].st = "paused" => After(t).st = "Paused"
             /\ journal[t].st = "interrupted" => After(t).st = "Failed"
             /\ journal[t].st = "none" => After(t).st = IF task[t].st = "new" THEN "new" ELSE "gone"
  BY DEF TypeOK, TaskRecords, JournalRecords, Restored, NewTask
<1>3. ASSUME NEW t \in Tasks, task[t].st \in Statuses, Recoverable(task[t])
      PROVE  journal[t].st \in {"paused", "interrupted"}
  <2>1. journal[t] = JournalEntry(task[t])
    BY <1>3 DEF JournalHolds
  <2>2. JournalEntry(task[t]).st \in {"paused", "interrupted"}
    BY <1>3 DEF JournalEntry
  <2> QED BY <2>1, <2>2
<1>4. ASSUME NEW t \in Tasks
      PROVE  PhaseOf(After(t).st) =
                CASE PhaseNow[t] \in {"waiting", "active"}     -> "resting"
                  [] PhaseNow[t] \in {"over"} \/ t \in T      -> "forgotten"
                  [] OTHER                                     -> PhaseNow[t]
  <2>0. PhaseNow[t] = PhaseOf(task[t].st)
    BY DEF PhaseNow
  <2>1. CASE task[t].st \in {"Queued", "Running", "Pausing", "Cancelling"}
    <3>1. After(t).st \in {"Paused", "Failed"}
      BY <1>2, <1>3, <2>1 DEF Recoverable, Statuses
    <3> QED BY <2>0, <2>1, <3>1, PhaseValues
  <2>2. CASE task[t].st \in {"Paused", "NeedsAttention", "Failed"}
    <3>1. After(t).st \in {"Paused", "Failed", "gone"}
      BY <1>2, <2>2
    <3>2. PhaseNow[t] = "resting"
      BY <2>0, <2>2, PhaseValues
    <3>3. t \in T <=> After(t).st = "gone"
      BY <3>2
    <3> HIDE DEF T
    <3> QED BY <3>1, <3>2, <3>3, PhaseValues
  <2>3. CASE task[t].st \in {"Completed", "Cancelled"}
    <3>1. journal[t].st = "none"
      BY <2>3 DEF JournalHolds, NoEntry
    <3> QED BY <1>2, <2>0, <2>3, <3>1, PhaseValues
  <2>4. CASE task[t].st \in Outside
    <3>1. journal[t].st = "none"
      BY <2>4 DEF OutsideHasNoEntry, NoEntry
    <3>2. After(t).st = task[t].st
      BY <1>2, <2>4, <3>1 DEF Outside
    <3>3. PhaseNow[t] \in {"new", "forgotten"} /\ PhaseOf(After(t).st) = PhaseNow[t]
      BY <2>0, <2>4, <3>2, PhaseValues DEF Outside
    <3> QED BY <3>3
  <2> QED BY <1>2, <2>1, <2>2, <2>3, <2>4 DEF Statuses
<1> HIDE DEF After, T
<1>5. T \subseteq {t \in Tasks : PhaseNow[t] \in {"resting"}}
  BY DEF T
<1>6. PhaseNow' = [t \in Tasks |->
          CASE t \in {u \in Tasks : PhaseNow[u] \in {"waiting", "active"}} -> "resting"
            [] t \in {u \in Tasks : PhaseNow[u] \in {"over"}} \cup T       -> "forgotten"
            [] OTHER                                                       -> PhaseNow[t]]
  <2>1. PhaseNow' = [t \in Tasks |-> PhaseOf(After(t).st)]
    BY <1>1 DEF PhaseNow
  <2> QED BY <1>4, <2>1
<1>7. Lifecycle!Interrupt(T)
  BY <1>5, <1>6 DEF Lifecycle!Interrupt, Lifecycle!In, PhaseNow
<1>8. T \in SUBSET Tasks
  BY <1>5
<1> QED BY <1>7, <1>8 DEF Lifecycle!Next

-----------------------------------------------------------------------------
LEMMA InitMaps == Init => Lifecycle!Init /\ OutsideHasNoEntry
<1>1. Init => \A t \in Tasks : PhaseOf(task[t].st) = "new"
  <2>1. NewTask.st = "new"
    BY DEF NewTask
  <2> QED BY <2>1, PhaseValues DEF Init
<1>2. Init => OutsideHasNoEntry
  BY DEF Init, OutsideHasNoEntry
<1> QED BY <1>1, <1>2 DEF Lifecycle!Init

LEMMA StepMaps == TypeOK /\ JournalHolds /\ OutsideHasNoEntry /\ [Next]_vars
                    => [Lifecycle!Next]_PhaseNow
<1>1. UNCHANGED vars => [Lifecycle!Next]_PhaseNow
  BY NoneMoves DEF vars, queueVars
<1>2. Shutdown \/ Crash => [Lifecycle!Next]_PhaseNow
  BY NoneMoves DEF Shutdown, Crash, queueVars
<1> QED BY <1>1, <1>2, UserMoves, ScheduleMoves, EventMoves, WorkerMoves, RestartInterrupts
        DEF Next, ProcessNext

\* The manager implements the lifecycle: no call, late result, crash or restart
\* takes a transfer where its phase does not lead, and none takes a slot too
\* many (TransferQueue, TransferManager::handleResult, enableRecovery).
THEOREM ManagerImplements == Spec => ImplementsLifecycle
<1>1. TypeOK /\ JournalHolds /\ OutsideHasNoEntry /\ [Next]_vars
        => (TypeOK /\ JournalHolds /\ OutsideHasNoEntry)'
  BY TypeStep, JournalStep, OutsideStep
<1>2. Init => TypeOK /\ JournalHolds /\ OutsideHasNoEntry
  BY InitType, JournalInit, InitMaps
<1>3. Init => Lifecycle!Init
  BY InitMaps
<1>4. TypeOK /\ JournalHolds /\ OutsideHasNoEntry /\ [Next]_vars
        => [Lifecycle!Next]_([t \in Tasks |-> PhaseOf(task[t].st)])
  BY StepMaps DEF PhaseNow
<1> QED BY <1>1, <1>2, <1>3, <1>4, PTL DEF Spec, ImplementsLifecycle, Lifecycle!Spec

-----------------------------------------------------------------------------
(***************************************************************************)
(* What the worker threads do to files and what their results do to tasks, *)
(* for every value of the constants: a file of the user is overwritten     *)
(* only by decision, a transfer is completed only when its file arrived,   *)
(* and the threads of a task match its status.                             *)
(***************************************************************************)
-----------------------------------------------------------------------------
(***************************************************************************)
(* The two ways a thread steps: it goes on, or it posts its final event.   *)
(***************************************************************************)
\* The thread writes, or is about to put the file in its place.
Writes(w) == w.phase \in {"copy", "commit"}

\* Thread s of task t goes on as v.
GoesOn(t, s, v) ==
    /\ Step(t, s, v)
    /\ Live(v) /\ v.pause = worker[t][s].pause /\ v.opt = worker[t][s].opt
    /\ Writes(v) => Writes(worker[t][s]) \/ ~Undecided(t, worker[t][s])
    /\ UNCHANGED dest
    /\ UNCHANGED events \/ \E n \in 0..Size : Post("progress", t, n)

\* Only the commit touches the destination, and what is posted is true of it.
Ends(t, s, kind) ==
    /\ \E n \in 0..Size : Finish(t, s, kind, n)
    /\ kind = "paused" => worker[t][s].pause
    /\ \/ UNCHANGED dest /\ kind # "completed"
       \/ worker[t][s].phase = "commit" /\ dest' = [dest EXCEPT ![t] = "ours"]

\* The first half of executeTransfer.
LEMMA EarlySteps ==
    ASSUME TypeOK, NEW t \in Tasks, NEW s \in Slots,
           \/ RequestCredentials(t, s) \/ Connect(t, s)
           \/ Prepare(t, s) \/ PrepareEnds(t, s) \/ PrepareBreaks(t, s)
    PROVE  /\ Live(worker[t][s]) /\ UNCHANGED <<task, order, work, opts, asked, gui, journal>>
           /\ \/ \E v \in Workers : GoesOn(t, s, v)
              \/ \E kind \in Final : Ends(t, s, kind)
<1> DEFINE w == worker[t][s]
           n == ResumeOffset(t, w.n)
<1>w. w \in Workers /\ w.n \in 0..Size /\ n \in 0..Size /\ 0 \in 0..Size
  <2>1. w \in Workers /\ w.n \in 0..Size
    BY WorkerType DEF Workers
  <2> QED
    BY <2>1, ResumeOffsetType, SizeBounds
<1>k. {"credential", "cancelled", "failed", "skipped", "conflict", "invalid"} \subseteq Final
  BY DEF Final, EventKinds
<1>p. ASSUME NEW p \in {"connect", "prepare"}, Step(t, s, [w EXCEPT !.phase = p]),
             UNCHANGED <<dest, events>>
      PROVE  \E v \in Workers : GoesOn(t, s, v)
  <2>1. [w EXCEPT !.phase = p] \in Workers
    BY <1>w DEF Workers, Phases
  <2>2. GoesOn(t, s, [w EXCEPT !.phase = p])
    BY <1>w, <1>p DEF GoesOn, Live, Writes, Workers
  <2> QED
    BY <2>1, <2>2
<1>e. ASSUME NEW kind \in Final \ {"paused", "completed"}, NEW b \in 0..Size,
             Finish(t, s, kind, b), UNCHANGED dest
      PROVE  \E k \in Final : Ends(t, s, k)
  BY <1>e DEF Ends
<1> HIDE DEF n
<1>1. CASE RequestCredentials(t, s)
  <2>1. /\ w.phase = "start" /\ UNCHANGED <<queueVars, gui, fileVars, journal>>
        /\ \/ Step(t, s, [w EXCEPT !.phase = "connect"]) /\ UNCHANGED events
           \/ Finish(t, s, "credential", 0)
    BY <1>1 DEF RequestCredentials, At
  <2> QED
    BY <1>w, <1>k, <1>p, <1>e, <2>1 DEF Live, queueVars, fileVars
<1>2. CASE Connect(t, s)
  <2>1. /\ w.phase = "connect" /\ UNCHANGED <<queueVars, gui, fileVars, journal>>
        /\ \/ Step(t, s, [w EXCEPT !.phase = "prepare"]) /\ UNCHANGED events
           \/ Finish(t, s, "cancelled", 0)
           \/ Finish(t, s, "failed", 0)
    BY <1>2 DEF Connect, At
  <2> QED
    BY <1>w, <1>k, <1>p, <1>e, <2>1 DEF Live, queueVars, fileVars
<1>3. CASE Prepare(t, s)
  <2> DEFINE v == [w EXCEPT !.phase = "copy", !.n = n]
  <2>1. /\ w.phase = "prepare" /\ ~Undecided(t, w)
        /\ Step(t, s, v)
        /\ UNCHANGED <<queueVars, gui, events, dest, journal>>
    BY <1>3 DEF Prepare, At, n
  <2>2. v \in Workers
    BY <1>w DEF Workers, Phases
  <2>3. Live(v) /\ v.pause = w.pause /\ v.opt = w.opt
    BY <1>w DEF Live, Workers
  <2>4. GoesOn(t, s, v)
    BY <2>1, <2>3 DEF GoesOn
  <2> QED
    BY <2>1, <2>2, <2>4 DEF Live, queueVars
<1>4. CASE PrepareEnds(t, s)
  <2>1. /\ w.phase = "prepare" /\ UNCHANGED <<queueVars, gui, fileVars, journal>>
        /\ \/ Finish(t, s, "cancelled", 0) \/ Finish(t, s, "skipped", 0)
           \/ Finish(t, s, "conflict", 0) \/ Finish(t, s, "failed", 0)
           \/ Finish(t, s, "invalid", w.n)
    BY <1>4 DEF PrepareEnds, At
  <2> QED
    BY <1>w, <1>k, <1>e, <2>1 DEF Live, queueVars, fileVars
<1>5. CASE PrepareBreaks(t, s)
  <2>1. /\ w.phase = "prepare" /\ UNCHANGED <<queueVars, gui, dest, journal>>
        /\ \E b \in {0, n} : Finish(t, s, "cancelled", b) \/ Finish(t, s, "failed", b)
    BY <1>5 DEF PrepareBreaks, At, n
  <2> QED
    BY <1>w, <1>k, <1>e, <2>1 DEF Live, queueVars
<1> QED
  BY <1>1, <1>2, <1>3, <1>4, <1>5

\* The copy loop and the commit.
LEMMA LateSteps ==
    ASSUME TypeOK, NEW t \in Tasks, NEW s \in Slots,
           \/ CopyChunk(t, s) \/ CopyDone(t, s) \/ CopyStopped(t, s) \/ CopyBreaks(t, s)
           \/ Commit(t, s) \/ CommitFails(t, s)
    PROVE  /\ Live(worker[t][s]) /\ UNCHANGED <<task, order, work, opts, asked, gui, journal>>
           /\ \/ \E v \in Workers : GoesOn(t, s, v)
              \/ \E kind \in Final : Ends(t, s, kind)
<1> DEFINE w == worker[t][s]
<1>w. w \in Workers /\ w.n \in 0..Size
  <2>1. w \in Workers
    BY WorkerType
  <2> QED
    BY <2>1 DEF Workers
<1>k. {"cancelled", "failed", "paused", "completed"} \subseteq Final
  BY DEF Final, EventKinds
<1>e. ASSUME NEW kind \in Final \ {"paused", "completed"}, NEW b \in 0..Size,
             Finish(t, s, kind, b), UNCHANGED dest
      PROVE  \E k \in Final : Ends(t, s, k)
  BY <1>e DEF Ends
<1>1. CASE CopyChunk(t, s)
  <2> DEFINE m == w.n + 1
             v == [w EXCEPT !.n = m]
  <2>1. /\ w.phase = "copy" /\ w.n < Size
        /\ Step(t, s, v)
        /\ Post("progress", t, m) \/ UNCHANGED events
        /\ UNCHANGED <<queueVars, gui, dest, journal>>
    BY <1>1 DEF CopyChunk, At, MoreToCopy
  <2>2. m \in 0..Size
    BY <1>w, <2>1, SizeBounds
  <2>3. v \in Workers
    BY <1>w, <2>2 DEF Workers
  <2>4. Live(v) /\ v.pause = w.pause /\ v.opt = w.opt
    BY <1>w, <2>1 DEF Live, Workers
  <2>5. Writes(w) /\ Live(w)
    BY <2>1 DEF Writes, Live
  <2> HIDE DEF v, m
  <2>6. GoesOn(t, s, v)
    BY <2>1, <2>2, <2>4, <2>5 DEF GoesOn
  <2> QED
    BY <2>1, <2>3, <2>5, <2>6 DEF queueVars
<1>2. CASE CopyDone(t, s)
  <2> DEFINE v == [w EXCEPT !.phase = "commit"]
  <2>1. /\ w.phase = "copy"
        /\ Step(t, s, v)
        /\ UNCHANGED <<queueVars, gui, events, dest, journal>>
    BY <1>2 DEF CopyDone, At, fileVars
  <2>2. v \in Workers
    BY <1>w DEF Workers, Phases
  <2>3. Live(v) /\ v.pause = w.pause /\ v.opt = w.opt
    BY <1>w DEF Live, Workers
  <2>4. Writes(w) /\ Live(w)
    BY <2>1 DEF Writes, Live
  <2>5. GoesOn(t, s, v)
    BY <2>1, <2>3, <2>4 DEF GoesOn
  <2> QED
    BY <2>1, <2>2, <2>4, <2>5 DEF queueVars
<1>3. CASE CopyStopped(t, s)
  <2>1. /\ w.phase = "copy"
        /\ Finish(t, s, IF w.pause THEN "paused" ELSE "cancelled", w.n)
        /\ UNCHANGED <<queueVars, gui, dest, journal>>
    BY <1>3 DEF CopyStopped, At
  <2>2. w.pause => Ends(t, s, "paused")
    BY <1>w, <2>1 DEF Ends
  <2> QED
    BY <1>w, <1>k, <1>e, <2>1, <2>2 DEF Live, queueVars
<1>4. CASE CopyBreaks(t, s)
  <2>1. /\ w.phase = "copy"
        /\ Finish(t, s, "cancelled", w.n) \/ Finish(t, s, "failed", w.n)
        /\ UNCHANGED <<queueVars, gui, fileVars, journal>>
    BY <1>4 DEF CopyBreaks, At
  <2> QED
    BY <1>w, <1>k, <1>e, <2>1 DEF Live, queueVars, fileVars
<1>5. CASE Commit(t, s)
  <2>1. /\ w.phase = "commit" /\ Finish(t, s, "completed", w.n)
        /\ dest' = [dest EXCEPT ![t] = "ours"]
        /\ UNCHANGED <<queueVars, gui, journal>>
    BY <1>5 DEF Commit, At
  <2>2. Ends(t, s, "completed")
    BY <1>w, <2>1 DEF Ends
  <2> QED
    BY <1>k, <2>1, <2>2 DEF Live, queueVars
<1>6. CASE CommitFails(t, s)
  <2>1. /\ w.phase = "commit"
        /\ Finish(t, s, "cancelled", w.n) \/ Finish(t, s, "failed", w.n)
        /\ UNCHANGED dest \/ dest' = [dest EXCEPT ![t] = "ours"]
        /\ UNCHANGED <<queueVars, gui, journal>>
    BY <1>6 DEF CommitFails, At
  <2>2. ASSUME NEW kind \in {"cancelled", "failed"}, Finish(t, s, kind, w.n) PROVE Ends(t, s, kind)
    BY <1>w, <2>1, <2>2 DEF Ends
  <2> QED
    BY <1>k, <2>1, <2>2 DEF Live, queueVars
<1> QED
  BY <1>1, <1>2, <1>3, <1>4, <1>5, <1>6

LEMMA ThreadStep ==
    ASSUME TypeOK, NEW t \in Tasks, NEW s \in Slots, WorkerStep(t, s)
    PROVE  /\ Live(worker[t][s]) /\ UNCHANGED <<task, order, work, opts, asked, gui, journal>>
           /\ \/ \E v \in Workers : GoesOn(t, s, v)
              \/ \E kind \in Final : Ends(t, s, kind)
  BY EarlySteps, LateSteps DEF WorkerStep

-----------------------------------------------------------------------------
(***************************************************************************)
(* What the GUI thread does to the threads, the events and the files.      *)
(***************************************************************************)
\* A thread is started, told something, or forgotten; it never advances.
Told(w, v) == Writes(v) => Writes(w) /\ v.opt = w.opt

ThreadsTold == \A t \in Tasks : \A s \in Slots : Told(worker[t][s], worker'[t][s])

\* Events are only taken away.
NothingPosted == \A i \in DOMAIN events' : \E j \in DOMAIN events : events'[i] = events[j]

\* No operation on r but the completion makes a completed task of it.
Uncompleted(r, s) == s.st = "Completed" => r.st = "Completed"

NoneCompleted == \A t \in Tasks : Uncompleted(task[t], task'[t])

\* The one completion: the result at the head of the queue says so.
OneCompleted ==
    /\ Delivers({"completed", "skipped"})
    /\ \A u \in Tasks \ {Head(events).task} : task'[u] = task[u]

Aside == UNCHANGED dest /\ ThreadsTold /\ NothingPosted

LEMMA UncompletedOperations ==
    ASSUME NEW r \in TaskRecords, NEW n \in 0..Size, NEW code \in Codes
    PROVE  /\ Uncompleted(r, CancelTask(r)) /\ Uncompleted(r, PauseTask(r))
           /\ Uncompleted(r, ResumeTask(r)) /\ Uncompleted(r, RetryTask(r))
           /\ Uncompleted(r, DismissTask(r)) /\ Uncompleted(r, NeedAttention(r))
           /\ Uncompleted(r, UpdateProgress(r, n)) /\ Uncompleted(r, MarkPaused(r, n))
           /\ Uncompleted(r, Fail(r, code))
           /\ TakeTask(r).st # "Completed"
           /\ r.st # "Completed" => Fail(r, code).st # "Completed"
<1>1. Uncompleted(r, CancelTask(r)) /\ Uncompleted(r, PauseTask(r))
  BY DEF Uncompleted, TaskRecords, CancelTask, PauseTask, To, CancelTarget, PauseTarget
<1>2. Uncompleted(r, ResumeTask(r)) /\ Uncompleted(r, RetryTask(r)) /\ TakeTask(r).st # "Completed"
  BY DEF Uncompleted, TaskRecords, ResumeTask, RetryTask, TakeTask
<1>3. Uncompleted(r, DismissTask(r)) /\ Uncompleted(r, NeedAttention(r))
  BY DEF Uncompleted, TaskRecords, DismissTask, NewTask, NeedAttention
<1>4. Uncompleted(r, UpdateProgress(r, n)) /\ Uncompleted(r, MarkPaused(r, n))
  BY DEF Uncompleted, TaskRecords, UpdateProgress, MarkPaused
<1>5. Uncompleted(r, Fail(r, code)) /\ (r.st # "Completed" => Fail(r, code).st # "Completed")
  BY DEF Uncompleted, TaskRecords, Fail
<1> QED
  BY <1>1, <1>2, <1>3, <1>4, <1>5

\* Results of other kinds do not complete a task.
LEMMA UncompletedSettled ==
    ASSUME NEW r \in TaskRecords, NEW e \in Events,
           e.kind \in Final \ {"credential", "completed", "skipped"}
    PROVE  Uncompleted(r, Settled(r, e))
<1> DEFINE p == UpdateProgress(r, e.bytes)
<1>0. e.bytes \in 0..Size /\ e.kind \in EventKinds
  BY DEF Events, Final
<1>1. p \in TaskRecords /\ Uncompleted(r, p)
  BY <1>0, ResultOperationsType, UncompletedOperations DEF Codes
<1>2. Uncompleted(p, Fail(p, "error")) /\ Uncompleted(p, Fail(p, "invalid-task"))
  BY <1>0, <1>1, UncompletedOperations DEF Codes
<1>3. Uncompleted(r, Fail(p, "error")) /\ Uncompleted(r, Fail(p, "invalid-task"))
  BY <1>1, <1>2 DEF Uncompleted
<1>4. Uncompleted(r, MarkPaused(r, e.bytes)) /\ Uncompleted(r, CancelTask(r)) /\ Uncompleted(r, NeedAttention(r))
  BY <1>0, UncompletedOperations DEF Codes
<1> QED
  BY <1>0, <1>3, <1>4 DEF Settled, EventKinds, Final

LEMMA UncompletedIf ==
    ASSUME TypeOK, NEW t \in Tasks, NEW r, Uncompleted(task[t], r), task' = [task EXCEPT ![t] = r]
    PROVE  NoneCompleted
  BY DEF TypeOK, NoneCompleted, Uncompleted

LEMMA SameTasks == UNCHANGED task => NoneCompleted
  BY DEF NoneCompleted, Uncompleted

LEMMA AsideIf ==
    ASSUME UNCHANGED <<worker, events, dest>>
    PROVE  Aside
  BY DEF Aside, ThreadsTold, Told, NothingPosted

\* One thread is told something, or replaced by one that has not begun.
LEMMA ToldIf ==
    ASSUME TypeOK, NEW t \in Tasks, NEW s \in Slots, NEW v,
           worker' = [worker EXCEPT ![t][s] = v], Told(worker[t][s], v)
    PROVE  ThreadsTold
  BY DEF TypeOK, ThreadsTold, Told

LEMMA TailPosted == TypeOK /\ events # <<>> /\ events' = Tail(events) => NothingPosted
<1> SUFFICES ASSUME TypeOK, events # <<>>, events' = Tail(events)
             PROVE  \A i \in DOMAIN events' : \E j \in DOMAIN events : events'[i] = events[j]
  BY DEF NothingPosted
<1>1. events \in Seq(Events)
  BY DEF TypeOK
<1>2. ASSUME NEW i \in DOMAIN events' PROVE i + 1 \in DOMAIN events /\ events'[i] = events[i + 1]
  BY <1>1, <1>2
<1> QED
  BY <1>2

\* The calls of the user.
LEMMA UserAside == TypeOK /\ UserNext => Aside /\ NoneCompleted
<1> SUFFICES ASSUME TypeOK, UserNext PROVE Aside /\ NoneCompleted
  OBVIOUS
<1>q. ASSUME NEW t \in Tasks
      PROVE  /\ Uncompleted(task[t], CancelTask(task[t])) /\ Uncompleted(task[t], PauseTask(task[t]))
             /\ Uncompleted(task[t], ResumeTask(task[t])) /\ Uncompleted(task[t], RetryTask(task[t]))
             /\ Uncompleted(task[t], DismissTask(task[t]))
  <2>1. task[t] \in TaskRecords
    BY DEF TypeOK
  <2> QED
    BY <2>1, UncompletedOperations, SizeBounds DEF Codes
<1>w. ASSUME NEW t \in Tasks, NEW v, worker' = [worker EXCEPT ![t].own = v],
             v.phase = worker[t].own.phase, v.opt = worker[t].own.opt, UNCHANGED <<events, dest>>
      PROVE  Aside
  <2>1. "own" \in Slots /\ Told(worker[t]["own"], v)
    BY <1>w DEF Slots, Told, Writes
  <2> QED
    BY <1>w, <2>1, ToldIf DEF Aside, NothingPosted
<1>1. ASSUME NEW t \in Tasks, Enqueue(t) PROVE Aside /\ NoneCompleted
  <2>1. task[t] \in TaskRecords /\ task' = [task EXCEPT ![t] = [task[t] EXCEPT !.st = "Queued"]]
    BY <1>1 DEF Enqueue, TypeOK
  <2>2. Uncompleted(task[t], [task[t] EXCEPT !.st = "Queued"])
    BY <2>1 DEF Uncompleted, TaskRecords
  <2> QED
    BY <1>1, <2>1, <2>2, UncompletedIf, AsideIf DEF Enqueue, threadVars, fileVars
<1>2. ASSUME NEW t \in Tasks, Cancel(t) PROVE Aside /\ NoneCompleted
  <2> DEFINE w == worker[t].own
             v == IF Live(w) THEN [w EXCEPT !.stop = TRUE, !.pause = FALSE] ELSE w
  <2>1. w \in Workers
    BY DEF TypeOK, Slots
  <2>2. worker' = [worker EXCEPT ![t].own = v] /\ UNCHANGED <<events, dest>>
    BY <1>2 DEF Cancel, StopForCancel, fileVars
  <2>3. v.phase = w.phase /\ v.opt = w.opt
    BY <2>1 DEF Workers
  <2>4. task' = [task EXCEPT ![t] = CancelTask(task[t])] \/ UNCHANGED task
    BY <1>2 DEF Cancel
  <2> HIDE DEF v
  <2> QED
    BY <1>q, <1>w, <2>2, <2>3, <2>4, UncompletedIf, SameTasks
<1>3. ASSUME NEW t \in Tasks, Pause(t) PROVE Aside /\ NoneCompleted
  <2> DEFINE w == worker[t].own
             v == IF Live(w) THEN [w EXCEPT !.stop = TRUE, !.pause = TRUE] ELSE w
  <2>1. w \in Workers
    BY DEF TypeOK, Slots
  <2>2. worker' = [worker EXCEPT ![t].own = v] /\ UNCHANGED <<events, dest>>
    BY <1>3 DEF Pause, fileVars
  <2>3. v.phase = w.phase /\ v.opt = w.opt
    BY <2>1 DEF Workers
  <2>4. task' = [task EXCEPT ![t] = PauseTask(task[t])]
    BY <1>3 DEF Pause
  <2> HIDE DEF v
  <2> QED
    BY <1>q, <1>w, <2>2, <2>3, <2>4, UncompletedIf
<1>4. ASSUME NEW t \in Tasks, Resume(t) PROVE Aside /\ NoneCompleted
  <2>1. task' = [task EXCEPT ![t] = ResumeTask(task[t])] /\ UNCHANGED <<worker, events, dest>>
    BY <1>4 DEF Resume, Requeue, threadVars, fileVars
  <2> QED
    BY <1>q, <2>1, UncompletedIf, AsideIf
<1>5. ASSUME NEW t \in Tasks, Retry(t) PROVE Aside /\ NoneCompleted
  <2>1. task' = [task EXCEPT ![t] = RetryTask(task[t])] /\ UNCHANGED <<worker, events, dest>>
    BY <1>5 DEF Retry, Requeue, threadVars, fileVars
  <2> QED
    BY <1>q, <2>1, UncompletedIf, AsideIf
<1>6. ASSUME NEW T \in SUBSET Tasks, Remove(T) PROVE Aside /\ NoneCompleted
  <2>1. /\ \A t \in Tasks : task'[t] \in {task[t], DismissTask(task[t])}
        /\ UNCHANGED <<worker, events, dest>>
    BY <1>6 DEF Remove, threadVars
  <2> QED
    BY <1>q, <2>1, AsideIf DEF NoneCompleted, Uncompleted
<1>7. ASSUME NEW t \in Tasks, NEW a \in Decisions, ResolveConflict(t, a) PROVE Aside /\ NoneCompleted
  <2>1. /\ task' = [task EXCEPT ![t] = RetryTask(task[t])] \/ UNCHANGED task
        /\ UNCHANGED <<worker, events, dest>>
    BY <1>7 DEF ResolveConflict, Decide, Requeue, threadVars, fileVars
  <2> QED
    BY <1>q, <2>1, UncompletedIf, SameTasks, AsideIf
<1>8. CASE RequestStop
  <2>1. ASSUME NEW t \in Tasks, NEW s \in Slots PROVE Told(worker[t][s], worker'[t][s])
    <3> DEFINE own == worker[t].own
               v == IF Live(own) THEN [own EXCEPT !.stop = TRUE] ELSE own
    <3>1. own \in Workers /\ worker[t] \in [Slots -> Workers]
      BY DEF TypeOK, Slots
    <3>2. v.phase = own.phase /\ v.opt = own.opt
      BY <3>1 DEF Workers
    <3>3. worker'[t] = [worker[t] EXCEPT !.own = v]
      BY <1>8 DEF RequestStop
    <3> HIDE DEF v
    <3> QED
      BY <3>1, <3>2, <3>3 DEF Told, Writes
  <2>2. UNCHANGED <<task, dest>> /\ events' = <<>>
    BY <1>8 DEF RequestStop, queueVars, fileVars
  <2>3. NothingPosted
    BY <2>2 DEF NothingPosted
  <2> QED
    BY <2>1, <2>2, <2>3, SameTasks DEF Aside, ThreadsTold
<1>9. CASE DismissFinished
  BY <1>6, <1>9 DEF DismissFinished
<1>10. ASSUME NEW t \in Tasks, Dismiss(t) PROVE Aside /\ NoneCompleted
  BY <1>6, <1>10 DEF Dismiss
<1> QED
  BY <1>1, <1>2, <1>3, <1>4, <1>5, <1>7, <1>8, <1>9, <1>10 DEF UserNext

\* schedule() starts threads that have not begun.
LEMMA ScheduleAside == TypeOK /\ ScheduleNext => Aside /\ NoneCompleted
<1> SUFFICES ASSUME TypeOK, ScheduleNext PROVE Aside /\ NoneCompleted
  OBVIOUS
<1>s. Slots = {"own", "dup"}
  BY DEF Slots
<1>w. ASSUME NEW t \in Tasks, NEW s \in Slots, NEW v, worker' = [worker EXCEPT ![t][s] = v],
             Told(worker[t][s], v), UNCHANGED <<events, dest>>
      PROVE  Aside
  BY <1>w, ToldIf DEF Aside, NothingPosted
<1>1. ASSUME NEW i \in DOMAIN order, StartNext(i) \/ StartFails(i) PROVE NoneCompleted
  <2> DEFINE r == task[order[i]]
  <2>1. order[i] \in Tasks /\ r \in TaskRecords
    BY OrderElement DEF TypeOK
  <2>2. \/ task' = [task EXCEPT ![order[i]] = TakeTask(r)]
        \/ \E code \in {"provider-missing", "error"} :
              task' = [task EXCEPT ![order[i]] = Fail(TakeTask(r), code)]
    BY <1>1 DEF StartNext, StartFails
  <2>3. TakeTask(r) \in TaskRecords /\ TakeTask(r).st # "Completed"
    BY <2>1, StatusOperationsType, UncompletedOperations, SizeBounds DEF Codes
  <2>4. \A code \in {"provider-missing", "error"} : Fail(TakeTask(r), code).st # "Completed"
    BY <2>3, UncompletedOperations, SizeBounds DEF Codes
  <2>5. \E n : task' = [task EXCEPT ![order[i]] = n] /\ n.st # "Completed"
    BY <2>2, <2>3, <2>4
  <2> QED
    BY <2>1, <2>5, UncompletedIf DEF Uncompleted
<1>2. ASSUME NEW i \in DOMAIN order, StartNext(i) PROVE Aside
  <2>1. order[i] \in Tasks
    BY OrderElement
  <2>2. UNCHANGED <<events, dest>> /\ (UNCHANGED worker \/ \E s \in Slots : worker' = [worker EXCEPT ![order[i]][s] = FreshWorker(order[i])])
    BY <1>2, <1>s DEF StartNext, fileVars
  <2>3. ~Writes(FreshWorker(order[i]))
    BY DEF FreshWorker, Writes
  <2> QED
    BY <1>w, <2>1, <2>2, <2>3, AsideIf DEF Told
<1>3. ASSUME NEW i \in DOMAIN order, StartFails(i) PROVE Aside
  BY <1>3, AsideIf DEF StartFails, threadVars, fileVars
<1>4. CASE ScheduleDone
  BY <1>4, AsideIf, SameTasks DEF ScheduleDone, queueVars, threadVars, fileVars
<1>5. ASSUME NEW t \in Tasks, StopDuplicate(t) PROVE Aside /\ NoneCompleted
  <2> DEFINE w == worker[t]["dup"]
             v == [w EXCEPT !.stop = TRUE]
  <2>1. w \in Workers
    BY <1>s, WorkerType
  <2>2. Told(w, v)
    BY <2>1 DEF Told, Writes, Workers
  <2>3. worker' = [worker EXCEPT ![t]["dup"] = v] /\ UNCHANGED <<task, events, dest>>
    BY <1>5 DEF StopDuplicate, queueVars, fileVars
  <2> HIDE DEF v
  <2> QED
    BY <1>s, <1>w, <2>2, <2>3, SameTasks
<1>6. ASSUME NEW t \in Tasks, DuplicateJoined(t) PROVE Aside /\ NoneCompleted
  <2>1. worker' = [worker EXCEPT ![t]["dup"] = NoWorker] /\ UNCHANGED <<task, events, dest>>
    BY <1>6 DEF DuplicateJoined, queueVars, fileVars
  <2>2. Told(worker[t]["dup"], NoWorker)
    BY DEF Told, Writes, NoWorker
  <2> QED
    BY <1>s, <1>w, <2>1, <2>2, SameTasks
<1> QED
  BY <1>1, <1>2, <1>3, <1>4, <1>5, <1>6 DEF ScheduleNext

\* A handler takes the event it handles, and forgets its thread.
LEMMA EventAside == TypeOK /\ EventNext => Aside /\ (NoneCompleted \/ OneCompleted)
<1> SUFFICES ASSUME TypeOK, EventNext PROVE Aside /\ (NoneCompleted \/ OneCompleted)
  OBVIOUS
<1> DEFINE e == Head(events)
           t == e.task
<1>n. events # <<>>
  BY DEF EventNext, DeliverProgress, JoinWorker, DeliverCredentialError, DeliverResult,
         DeliverConflictToPolicy, Delivers
<1>e. e \in Events /\ t \in Tasks /\ e.bytes \in 0..Size /\ task[t] \in TaskRecords
  <2>1. e \in Events
    BY <1>n, HeadEvent
  <2> QED
    BY <2>1 DEF Events, TypeOK
<1> HIDE DEF e
<1>w. ASSUME Erased(t), UNCHANGED dest PROVE Aside
  <2>1. worker' = [worker EXCEPT ![t]["own"] = NoWorker] /\ "own" \in Slots /\ events' = Tail(events)
    BY <1>w DEF Erased, Slots
  <2>2. Told(worker[t]["own"], NoWorker)
    BY DEF Told, Writes, NoWorker
  <2> QED
    BY <1>n, <1>e, <1>w, <2>1, <2>2, ToldIf, TailPosted DEF Aside
<1>1. CASE DeliverProgress
  <2>1. task' = [task EXCEPT ![t] = UpdateProgress(task[t], e.bytes)] \/ UNCHANGED task
    BY <1>1 DEF DeliverProgress, e
  <2>2. Uncompleted(task[t], UpdateProgress(task[t], e.bytes))
    BY <1>e, UncompletedOperations DEF Codes
  <2>3. Aside
    BY <1>1, <1>n, TailPosted DEF DeliverProgress, Aside, ThreadsTold, Told, fileVars
  <2> QED
    BY <1>e, <2>1, <2>2, <2>3, UncompletedIf, SameTasks
<1>2. CASE JoinWorker
  <2> DEFINE w == worker[t]["own"]
             v == [w EXCEPT !.stop = TRUE]
  <2>1. w \in Workers /\ "own" \in Slots
    BY <1>e, WorkerType DEF Slots
  <2>2. Told(w, v)
    BY <2>1 DEF Told, Writes, Workers
  <2>3. worker' = [worker EXCEPT ![t]["own"] = v] /\ UNCHANGED <<task, events, dest>>
    BY <1>2 DEF JoinWorker, queueVars, fileVars, e
  <2> HIDE DEF v
  <2> QED
    BY <1>e, <2>1, <2>2, <2>3, SameTasks, ToldIf DEF Aside, NothingPosted
<1>3. CASE DeliverCredentialError
  <2>1. /\ task' = [task EXCEPT ![t] = NeedAttention(task[t])] \/ UNCHANGED task
        /\ Erased(t) /\ UNCHANGED dest
    BY <1>3 DEF DeliverCredentialError, Requeue, fileVars, e
  <2>2. Uncompleted(task[t], NeedAttention(task[t]))
    BY <1>e, UncompletedOperations DEF Codes
  <2> QED
    BY <1>e, <1>w, <2>1, <2>2, UncompletedIf, SameTasks
<1>4. CASE DeliverResult
  <2>1. /\ task' = [task EXCEPT ![t] = Settled(task[t], e)] \/ UNCHANGED task
        /\ Erased(t) /\ UNCHANGED dest
        /\ e.kind \in Final \ {"credential"}
    BY <1>4 DEF DeliverResult, Delivers, fileVars, e
  <2>2. CASE e.kind \in {"completed", "skipped"}
    <3>1. \A u \in Tasks \ {t} : task'[u] = task[u]
      BY <1>e, <2>1 DEF TypeOK
    <3>2. Delivers({"completed", "skipped"}) /\ t = Head(events).task
      BY <1>n, <2>2 DEF Delivers, e
    <3>3. OneCompleted
      BY <3>1, <3>2 DEF OneCompleted
    <3> QED
      BY <1>w, <2>1, <3>3
  <2>3. CASE e.kind \notin {"completed", "skipped"}
    <3>1. Uncompleted(task[t], Settled(task[t], e))
      BY <1>e, <2>1, <2>3, UncompletedSettled
    <3> QED
      BY <1>e, <1>w, <2>1, <3>1, UncompletedIf, SameTasks
  <2> QED
    BY <2>2, <2>3
<1>5. ASSUME NEW a \in Decisions \cap {"skip", "replace"}, DeliverConflictToPolicy(a)
      PROVE  Aside /\ NoneCompleted
  <2> DEFINE r == NeedAttention(task[t])
  <2>1. /\ task' = [task EXCEPT ![t] = r] \/ task' = [task EXCEPT ![t] = RetryTask(r)]
        /\ Erased(t) /\ UNCHANGED dest
    BY <1>5 DEF DeliverConflictToPolicy, Requeue, fileVars, e
  <2>2. r \in TaskRecords /\ Uncompleted(task[t], r)
    BY <1>e, StatusOperationsType, UncompletedOperations DEF Codes
  <2>3. Uncompleted(r, RetryTask(r))
    BY <1>e, <2>2, UncompletedOperations DEF Codes
  <2> HIDE DEF r
  <2>4. Uncompleted(task[t], RetryTask(r))
    BY <2>2, <2>3 DEF Uncompleted
  <2> QED
    BY <1>e, <1>w, <2>1, <2>2, <2>4, UncompletedIf
<1> QED
  BY <1>1, <1>2, <1>3, <1>4, <1>5 DEF EventNext

\* The end of the process leaves files alone; a restart completes nothing.
LEMMA ProcessAside == TypeOK /\ ProcessNext => Aside /\ NoneCompleted
<1> SUFFICES ASSUME TypeOK, ProcessNext PROVE Aside /\ NoneCompleted
  OBVIOUS
<1>w. ASSUME worker' = [t \in Tasks |-> [s \in Slots |-> NoWorker]] PROVE ThreadsTold
  BY <1>w DEF ThreadsTold, Told, Writes, NoWorker
<1>1. CASE Shutdown
  BY <1>1, <1>w, SameTasks DEF Shutdown, Aside, NothingPosted, queueVars
<1>2. CASE Crash
  BY <1>2, <1>w, SameTasks DEF Crash, Aside, NothingPosted, queueVars
<1>3. CASE Restart
  <2>1. ASSUME NEW t \in Tasks PROVE Uncompleted(task[t], task'[t])
    <3>1. Uncompleted(task[t], Restored(journal[t], task[t]))
      BY DEF Restored, Uncompleted, NewTask
    <3>2. task'[t] = Restored(journal[t], task[t])
      BY <1>3 DEF Restart
    <3> QED
      BY <3>1, <3>2
  <2> QED
    BY <1>3, <2>1, AsideIf DEF Restart, NoneCompleted, threadVars, fileVars
<1> QED
  BY <1>1, <1>2, <1>3 DEF ProcessNext

\* A cleanup thread only removes a partial file.
LEMMA CleanupAside == ASSUME NEW t \in Tasks, CleanupPartial(t) PROVE Aside /\ NoneCompleted
  BY AsideIf, SameTasks DEF CleanupPartial, queueVars, threadVars

-----------------------------------------------------------------------------
(***************************************************************************)
(* Files.  A thread that writes over a file of the user was started with   *)
(* the decision to replace it; a completion that is still under way has    *)
(* put its file in its place.                                              *)
(***************************************************************************)
WritersDecided ==
    \A t \in Tasks : \A s \in Slots :
        Writes(worker[t][s]) /\ dest[t] = "old" => worker[t][s].opt = "replace"

DeliveryTrue ==
    \A i \in DOMAIN events : events[i].kind = "completed" => dest[events[i].task] = "ours"

FilesHold == WritersDecided /\ DeliveryTrue

LEMMA FilesInit == Init => FilesHold
  BY DEF Init, FilesHold, WritersDecided, DeliveryTrue, NoWorker, Writes

LEMMA FilesAside == TypeOK /\ FilesHold /\ Aside => FilesHold'
<1> SUFFICES ASSUME TypeOK, FilesHold, Aside PROVE FilesHold'
  OBVIOUS
<1>1. WritersDecided'
  BY DEF FilesHold, WritersDecided, Aside, ThreadsTold, Told, Writes
<1>2. DeliveryTrue'
  BY DEF FilesHold, DeliveryTrue, Aside, NothingPosted
<1> QED
  BY <1>1, <1>2 DEF FilesHold

\* What posting adds to the queue of events.
LEMMA PostAppends ==
    ASSUME TypeOK, NEW kind \in EventKinds, NEW t \in Tasks, NEW n \in 0..Size, Post(kind, t, n)
    PROVE  \A i \in DOMAIN events' :
               \/ i \in DOMAIN events /\ events'[i] = events[i]
               \/ /\ i = Len(events) + 1 /\ gui # "closing"
                  /\ events'[i].kind = kind /\ events'[i].task = t
<1> DEFINE e == [kind |-> kind, task |-> t, bytes |-> n]
<1>1. e \in Events /\ e.kind = kind /\ e.task = t
  BY DEF Events
<1>2. events' = events \/ (gui # "closing" /\ events' = Append(events, e))
  BY DEF Post
<1>3. events \in Seq(Events)
  BY DEF TypeOK
<1> HIDE DEF e
<1>4. ASSUME events' = Append(events, e)
      PROVE  /\ Len(events') = Len(events) + 1 /\ events'[Len(events) + 1] = e
             /\ DOMAIN events' = 1..(Len(events) + 1) /\ DOMAIN events = 1..Len(events)
             /\ Len(events) \in Nat
             /\ \A i \in DOMAIN events : events'[i] = events[i]
  BY <1>1, <1>3, <1>4, AppendProperties
<1> QED
  BY <1>1, <1>2, <1>4

LEMMA FilesThread ==
    ASSUME TypeOK, FilesHold, NEW t \in Tasks, NEW s \in Slots, WorkerStep(t, s)
    PROVE  FilesHold'
<1> DEFINE w == worker[t][s]
<1>1. ASSUME NEW v \in Workers, GoesOn(t, s, v) PROVE FilesHold'
  <2>1. worker' = [worker EXCEPT ![t][s] = v] /\ v.opt = w.opt /\ UNCHANGED dest
    BY <1>1 DEF GoesOn, Step
  <2>2. Writes(v) /\ dest[t] = "old" => v.opt = "replace"
    <3>1. Writes(v) => Writes(w) \/ ~Undecided(t, w)
      BY <1>1 DEF GoesOn
    <3> QED
      BY <2>1, <3>1 DEF Undecided, FilesHold, WritersDecided
  <2>3. WritersDecided'
    BY <2>1, <2>2 DEF TypeOK, FilesHold, WritersDecided
  <2>4. \A i \in DOMAIN events' :
           (i \in DOMAIN events /\ events'[i] = events[i]) \/ events'[i].kind = "progress"
    <3>1. UNCHANGED events \/ \E n \in 0..Size : Post("progress", t, n)
      BY <1>1 DEF GoesOn
    <3> QED
      BY <3>1, PostAppends DEF EventKinds
  <2>5. DeliveryTrue'
    BY <2>1, <2>4 DEF FilesHold, DeliveryTrue
  <2> QED
    BY <2>3, <2>5 DEF FilesHold
<1>2. ASSUME NEW kind \in Final, Ends(t, s, kind) PROVE FilesHold'
  <2>1. PICK n \in 0..Size : worker' = [worker EXCEPT ![t][s] = DoneWorker] /\ Post(kind, t, n)
    BY <1>2 DEF Ends, Finish, Step
  <2>2. (UNCHANGED dest /\ kind # "completed") \/ dest' = [dest EXCEPT ![t] = "ours"]
    BY <1>2 DEF Ends
  <2>3. \A u \in Tasks : dest'[u] = dest[u] \/ dest'[u] = "ours"
    BY <2>2 DEF TypeOK
  <2>4. WritersDecided'
    <3>1. ~Writes(DoneWorker)
      BY DEF Writes, DoneWorker, NoWorker
    <3> QED
      BY <2>1, <2>3, <3>1 DEF TypeOK, FilesHold, WritersDecided
  <2>5. ASSUME NEW i \in DOMAIN events', events'[i].kind = "completed"
        PROVE  dest'[events'[i].task] = "ours"
    <3>1. \/ i \in DOMAIN events /\ events'[i] = events[i]
          \/ events'[i].kind = kind /\ events'[i].task = t
      BY <2>1, PostAppends DEF Final
    <3>2. CASE i \in DOMAIN events /\ events'[i] = events[i]
      <4>1. events[i].task \in Tasks
        <5>1. events[i] \in Events
          BY <3>2 DEF TypeOK
        <5> QED
          BY <5>1 DEF Events
      <4>2. dest[events[i].task] = "ours"
        BY <2>5, <3>2 DEF FilesHold, DeliveryTrue
      <4> QED
        BY <2>3, <3>2, <4>1, <4>2
    <3>3. CASE events'[i].kind = kind /\ events'[i].task = t
      BY <2>2, <2>5, <3>3 DEF TypeOK
    <3> QED
      BY <3>1, <3>2, <3>3
  <2> QED
    BY <2>4, <2>5 DEF FilesHold, DeliveryTrue
<1> QED
  BY <1>1, <1>2, ThreadStep

LEMMA FilesStep == TypeOK /\ FilesHold /\ [Next]_vars => FilesHold'
<1> SUFFICES ASSUME TypeOK, FilesHold, [Next]_vars PROVE FilesHold'
  OBVIOUS
<1>1. CASE UNCHANGED vars
  BY <1>1, AsideIf, FilesAside DEF vars, threadVars, fileVars
<1>2. CASE WorkerNext
  BY <1>2, FilesThread, CleanupAside, FilesAside DEF WorkerNext
<1> QED
  BY <1>1, <1>2, UserAside, ScheduleAside, EventAside, ProcessAside, FilesAside DEF Next

LEMMA FilesAlwaysHold == Spec => [](TypeOK /\ FilesHold)
<1>1. TypeOK /\ FilesHold /\ [Next]_vars => (TypeOK /\ FilesHold)'
  BY TypeStep, FilesStep
<1> QED
  BY <1>1, InitType, FilesInit, PTL DEF Spec

\* A file that was at the destination is overwritten only by a worker that was
\* started with the decision to replace it: no retry, late answer, duplicate
\* thread or restart turns a missing decision, or one to skip or cancel, into
\* an overwrite (TransferExecutor, resolveConflict).
THEOREM OverwriteDecidedHolds == Spec => OverwriteDecided
<1>1. TypeOK /\ FilesHold /\ [Next]_vars =>
         [\A t \in Tasks : dest[t] = "old" /\ dest'[t] = "ours" =>
             \E s \in Slots : worker[t][s].opt = "replace"]_vars
  <2> SUFFICES ASSUME TypeOK, FilesHold, Next, NEW t \in Tasks, dest[t] = "old", dest'[t] = "ours"
               PROVE  \E s \in Slots : worker[t][s].opt = "replace"
    OBVIOUS
  <2>1. ~Aside
    BY DEF Aside
  <2>2. PICK u \in Tasks, s \in Slots : WorkerStep(u, s)
    BY <2>1, UserAside, ScheduleAside, EventAside, ProcessAside, CleanupAside DEF Next, WorkerNext
  <2>3. dest' # dest
    OBVIOUS
  <2>4. PICK kind \in Final : Ends(u, s, kind)
    BY <2>2, <2>3, ThreadStep DEF GoesOn
  <2>5. worker[u][s].phase = "commit" /\ dest' = [dest EXCEPT ![u] = "ours"]
    BY <2>3, <2>4 DEF Ends
  <2>6. u = t
    BY <2>5 DEF TypeOK
  <2> QED
    BY <2>5, <2>6 DEF FilesHold, WritersDecided, Writes
<1> QED
  BY <1>1, FilesAlwaysHold, PTL DEF Spec, OverwriteDecided

\* A transfer becomes completed only when its file is at its destination, or by
\* the answer to skip it: no late, duplicated or misdirected result completes a
\* transfer that moved nothing (TransferManager::handleResult).
THEOREM CompletedMeansDeliveredHolds == Spec => CompletedMeansDelivered
<1>1. TypeOK /\ FilesHold /\ [Next]_vars =>
         [\A t \in Tasks : task[t].st # "Completed" /\ task'[t].st = "Completed" =>
             dest[t] = "ours" \/ (Delivers({"skipped"}) /\ Head(events).task = t)]_vars
  <2> SUFFICES ASSUME TypeOK, FilesHold, Next,
                      NEW t \in Tasks, task[t].st # "Completed", task'[t].st = "Completed"
               PROVE  dest[t] = "ours" \/ (Delivers({"skipped"}) /\ Head(events).task = t)
    OBVIOUS
  <2>1. ~NoneCompleted
    BY DEF NoneCompleted, Uncompleted
  <2>2. \A u \in Tasks, s \in Slots : WorkerStep(u, s) => NoneCompleted
    BY ThreadStep, SameTasks
  <2>3. OneCompleted
    BY <2>1, <2>2, UserAside, ScheduleAside, EventAside, ProcessAside, CleanupAside
       DEF Next, WorkerNext
  <2>4. Delivers({"completed", "skipped"}) /\ Head(events).task = t
    BY <2>3 DEF OneCompleted
  <2>5. 1 \in DOMAIN events /\ Head(events) = events[1]
    BY <2>4 DEF Delivers, TypeOK
  <2> QED
    BY <2>4, <2>5 DEF Delivers, FilesHold, DeliveryTrue
<1> QED
  BY <1>1, FilesAlwaysHold, PTL DEF Spec, CompletedMeansDelivered

-----------------------------------------------------------------------------
(***************************************************************************)
(* Threads.  With the calls the Transfer Center offers, a task has at most *)
(* one thread and that thread posts at most one final event that is still  *)
(* under way; a task that could be started again has neither.              *)
(***************************************************************************)
FinalAt(q, i, t) == i \in DOMAIN q /\ q[i].task = t /\ q[i].kind \in Final

Pending(q, t) == \E i \in DOMAIN q : FinalAt(q, i, t)

Once(q, t) == \A i, j \in DOMAIN q : FinalAt(q, i, t) /\ FinalAt(q, j, t) => i = j

NoPaused(q, t) == \A i \in DOMAIN q : FinalAt(q, i, t) => q[i].kind # "paused"

\* The statuses from which a task may be started, or stay until it is.
Threadless == {"new", "Queued", "Paused", "NeedsAttention", "Failed", "Completed"}

Ending == {"closing", "down"}

\* The record r of task t fits its threads ws and the events q.  The thread
\* of a running task was not asked to keep its partial, so its result takes
\* the task out of Running.
Fits(t, r, ws, q, ending) ==
    /\ ws["dup"] = NoWorker
    /\ Once(q, t)
    /\ Pending(q, t) => ws["own"].phase = "done"
    /\ ws["own"].phase = "done" => Pending(q, t) \/ ending
    /\ r.st \in Threadless => ws["own"].phase = "none"
    /\ r.st = "Running" /\ ~ending => ws["own"].phase # "none"
    /\ r.st = "Running" => ~ws["own"].pause /\ NoPaused(q, t)

AllFit == \A t \in Tasks : Fits(t, task[t], worker[t], events, gui \in Ending)

ThreadsHold ==
    /\ gui \in Ending => events = <<>>
    /\ gui = "down" => \A t \in Tasks : worker[t]["own"] = NoWorker
    /\ AllFit

-----------------------------------------------------------------------------
\* Taking the oldest event leaves the final events of the others alone.
LEMMA TailFinals ==
    ASSUME NEW q \in Seq(Events), q # <<>>, NEW t \in Tasks
    PROVE  /\ Once(q, t) => Once(Tail(q), t)
           /\ NoPaused(q, t) => NoPaused(Tail(q), t)
           /\ Pending(Tail(q), t) => Pending(q, t)
           /\ ~FinalAt(q, 1, t) /\ Pending(q, t) => Pending(Tail(q), t)
           /\ FinalAt(q, 1, t) /\ Once(q, t) => ~Pending(Tail(q), t)
<1>1. /\ DOMAIN q = 1..Len(q) /\ DOMAIN Tail(q) = 1..(Len(q) - 1) /\ Len(q) \in Nat \ {0}
      /\ \A i \in DOMAIN Tail(q) : Tail(q)[i] = q[i + 1]
  BY HeadTailProperties
<1> DEFINE p == Tail(q)
<1>2. \A i \in DOMAIN p : i \in Int /\ i + 1 \in DOMAIN q /\ i + 1 # 1 /\ p[i] = q[i + 1]
  BY <1>1
<1>3. \A i \in DOMAIN q : i # 1 => i \in Int /\ i - 1 \in DOMAIN p /\ p[i - 1] = q[i]
  BY <1>1
<1>4. 1 \in DOMAIN q
  BY <1>1
<1> HIDE DEF p
<1>5. \A i : FinalAt(p, i, t) => i \in Int /\ FinalAt(q, i + 1, t) /\ i + 1 # 1 /\ p[i] = q[i + 1]
  BY <1>2 DEF FinalAt
<1>6. \A i : FinalAt(q, i, t) /\ i # 1 => FinalAt(p, i - 1, t)
  BY <1>3 DEF FinalAt
<1>7. Once(q, t) => Once(p, t)
  <2> SUFFICES ASSUME Once(q, t), NEW i \in DOMAIN p, NEW j \in DOMAIN p,
                      FinalAt(p, i, t), FinalAt(p, j, t)
               PROVE  i = j
    BY DEF Once
  <2>1. i \in Int /\ j \in Int /\ FinalAt(q, i + 1, t) /\ FinalAt(q, j + 1, t)
    BY <1>5
  <2>2. i + 1 = j + 1
    BY <2>1 DEF Once, FinalAt
  <2> QED
    BY <2>1, <2>2
<1>8. NoPaused(q, t) => NoPaused(p, t)
  BY <1>2, <1>5 DEF NoPaused
<1>9. Pending(p, t) => Pending(q, t)
  BY <1>2, <1>5 DEF Pending
<1>10. ~FinalAt(q, 1, t) /\ Pending(q, t) => Pending(p, t)
  BY <1>3, <1>6 DEF Pending
<1>11. FinalAt(q, 1, t) /\ Once(q, t) => ~Pending(p, t)
  BY <1>2, <1>4, <1>5 DEF Pending, Once
<1> QED
  BY <1>7, <1>8, <1>9, <1>10, <1>11 DEF p

\* Posting an event of another task, or a progress event, adds no final event.
LEMMA AppendOther ==
    ASSUME NEW q \in Seq(Events), NEW e \in Events, NEW t \in Tasks, ~(e.task = t /\ e.kind \in Final)
    PROVE  /\ Once(q, t) => Once(Append(q, e), t)
           /\ NoPaused(q, t) => NoPaused(Append(q, e), t)
           /\ Pending(Append(q, e), t) <=> Pending(q, t)
<1> DEFINE p == Append(q, e)
<1>1. /\ DOMAIN q = 1..Len(q) /\ Len(q) \in Nat
      /\ DOMAIN p = 1..(Len(q) + 1) /\ p[Len(q) + 1] = e
      /\ \A i \in DOMAIN q : p[i] = q[i]
  BY AppendProperties
<1> HIDE DEF p
<1>2. \A i : FinalAt(p, i, t) <=> FinalAt(q, i, t)
  BY <1>1 DEF FinalAt
<1>3. \A i \in DOMAIN q : i \in DOMAIN p
  BY <1>1
<1>4. Once(q, t) => Once(p, t)
  BY <1>2 DEF Once, FinalAt
<1>5. NoPaused(q, t) => NoPaused(p, t)
  BY <1>1, <1>2 DEF NoPaused, FinalAt
<1>6. Pending(p, t) <=> Pending(q, t)
  BY <1>2 DEF Pending, FinalAt
<1> QED
  BY <1>4, <1>5, <1>6 DEF p

\* Posting the final event of a task none of whose final events is under way.
LEMMA AppendFinal ==
    ASSUME NEW q \in Seq(Events), NEW e \in Events, NEW t \in Tasks,
           e.task = t, e.kind \in Final, ~Pending(q, t)
    PROVE  /\ Once(Append(q, e), t) /\ Pending(Append(q, e), t)
           /\ e.kind # "paused" => NoPaused(Append(q, e), t)
<1> DEFINE p == Append(q, e)
<1>1. /\ DOMAIN q = 1..Len(q) /\ Len(q) \in Nat
      /\ DOMAIN p = 1..(Len(q) + 1) /\ p[Len(q) + 1] = e
      /\ \A i \in DOMAIN q : p[i] = q[i]
  BY AppendProperties
<1> HIDE DEF p
<1>2. \A i : FinalAt(p, i, t) <=> i = Len(q) + 1
  BY <1>1 DEF FinalAt, Pending
<1>3. Len(q) + 1 \in DOMAIN p
  BY <1>1
<1>4. Once(p, t) /\ Pending(p, t)
  BY <1>2, <1>3 DEF Once, Pending
<1>5. e.kind # "paused" => NoPaused(p, t)
  BY <1>1, <1>2 DEF NoPaused
<1> QED
  BY <1>4, <1>5 DEF p

LEMMA NoFinals == \A t : Once(<<>>, t) /\ ~Pending(<<>>, t) /\ NoPaused(<<>>, t)
  BY DEF Once, Pending, NoPaused

-----------------------------------------------------------------------------
\* A queue operation that does not ask for the thread: it neither makes a task
\* running nor takes one with a thread where it could be started.
Tame(r, s) ==
    /\ s.st \in Threadless => r.st \in Threadless
    /\ s.st = "Running" => r.st = "Running"

LEMMA TameOperations ==
    ASSUME NEW r \in TaskRecords, NEW n \in 0..Size
    PROVE  /\ Tame(r, CancelTask(r)) /\ Tame(r, ResumeTask(r)) /\ Tame(r, RetryTask(r))
           /\ Tame(r, DismissTask(r)) /\ Tame(r, UpdateProgress(r, n))
           /\ r.st \in {"Queued", "Running"} => Tame(r, PauseTask(r)) /\ PauseTask(r).st # "Running"
<1>0. r.st \in Statuses \cup Outside
  BY DEF TaskRecords
<1>1. Tame(r, CancelTask(r))
  BY DEF Tame, TaskRecords, CancelTask, To, CancelTarget, Threadless
<1>2. CanTransition(r.st, "Queued") => r.st \in Threadless
  BY <1>0 DEF CanTransition, Successors, Statuses, Outside, Threadless
<1>3. Tame(r, ResumeTask(r)) /\ Tame(r, RetryTask(r))
  BY <1>2 DEF Tame, TaskRecords, ResumeTask, RetryTask, CanResume, CanRetry
<1>4. Tame(r, DismissTask(r))
  BY DEF Tame, TaskRecords, DismissTask, NewTask, Threadless
<1>5. Tame(r, UpdateProgress(r, n))
  BY DEF Tame, TaskRecords, UpdateProgress
<1>6. ASSUME r.st \in {"Queued", "Running"}
      PROVE  Tame(r, PauseTask(r)) /\ PauseTask(r).st # "Running"
  <2>1. CanTransition("Queued", "Paused") /\ CanTransition("Running", "Pausing")
    BY DEF CanTransition, Successors, Statuses, Outside
  <2>2. PauseTask(r).st = IF r.st = "Running" THEN "Pausing" ELSE "Paused"
    BY <1>6, <2>1 DEF PauseTask, To, PauseTarget, TaskRecords
  <2> QED
    BY <1>6, <2>2 DEF Tame, Threadless
<1> QED
  BY <1>1, <1>3, <1>4, <1>5, <1>6

\* Every result takes a running task out of Running, except Paused, which the
\* table rejects there.
LEMMA SettledLeavesRunning ==
    ASSUME NEW r \in TaskRecords, NEW e \in Events, e.kind \in Final \ {"credential"},
           r.st = "Running" => e.kind # "paused"
    PROVE  Settled(r, e).st # "Running"
<1> DEFINE p == UpdateProgress(r, e.bytes)
<1>0. e.bytes \in 0..Size /\ e.kind \in EventKinds
  BY DEF Events, Final
<1>1. p \in TaskRecords /\ p.st = r.st
  BY <1>0, ResultOperationsType DEF Codes, UpdateProgress, TaskRecords
<1>2. /\ CanTransition("Running", "Completed") /\ CanTransition("Running", "Failed")
      /\ CanTransition("Running", "NeedsAttention") /\ CanTransition("Running", "Cancelling")
  BY DEF CanTransition, Successors, Statuses, Outside
<1> HIDE DEF p
<1>3. Complete(p).st # "Running"
  BY <1>1, <1>2 DEF Complete, TaskRecords
<1>4. Fail(p, "error").st # "Running" /\ Fail(p, "invalid-task").st # "Running"
  BY <1>1, <1>2 DEF Fail, TaskRecords
<1>5. NeedAttention(r).st # "Running" /\ CancelTask(r).st # "Running"
  BY <1>2 DEF NeedAttention, CancelTask, To, CancelTarget, TaskRecords
<1>6. r.st # "Running" => MarkPaused(r, e.bytes).st # "Running"
  BY DEF MarkPaused, TaskRecords
<1> QED
  BY <1>0, <1>3, <1>4, <1>5, <1>6 DEF Settled, EventKinds, Final, p

\* The thread of t is as far as it was, and the record went from r to s.
LEMMA StillFits ==
    ASSUME NEW t, NEW r, NEW s, NEW ws, NEW vs, NEW q, NEW b,
           Fits(t, r, ws, q, b), Tame(r, s),
           vs["dup"] = ws["dup"], vs["own"].phase = ws["own"].phase,
           s.st = "Running" => ~vs["own"].pause
    PROVE  Fits(t, s, vs, q, b)
  BY DEF Fits, Tame

\* A step on the record of t alone.
LEMMA RecordFits ==
    ASSUME TypeOK, ThreadsHold, NEW t \in Tasks, NEW r, Tame(task[t], r),
           task' = [task EXCEPT ![t] = r], UNCHANGED <<worker, events>>,
           gui \notin Ending, gui' \notin Ending
    PROVE  ThreadsHold'
<1>1. \A u \in Tasks : Tame(task[u], task'[u])
  BY DEF TypeOK, Tame
<1>2. AllFit'
  BY <1>1 DEF ThreadsHold, AllFit, Fits, Tame
<1> QED
  BY <1>2 DEF ThreadsHold, Ending

\* ... and on nothing at all that matters to threads.
LEMMA NothingFits ==
    ASSUME ThreadsHold, UNCHANGED <<task, worker, events>>,
           gui' = gui \/ (gui \notin Ending /\ gui' \notin Ending)
    PROVE  ThreadsHold'
  BY DEF ThreadsHold, AllFit, Ending

\* One entry of m_workers changes.
LEMMA WorkerExcept ==
    ASSUME TypeOK, NEW t \in Tasks, NEW s \in Slots, NEW v, worker' = [worker EXCEPT ![t][s] = v]
    PROVE  /\ worker'[t][s] = v
           /\ \A x \in Slots \ {s} : worker'[t][x] = worker[t][x]
           /\ \A u \in Tasks \ {t} : worker'[u] = worker[u]
  BY DEF TypeOK

-----------------------------------------------------------------------------
\* What the center may call, and what the user decides.
LEMMA UserThreads ==
    ASSUME TypeOK, ThreadsHold, UserNext, "batch" \notin Callers
    PROVE  ThreadsHold'
<1>q. ASSUME NEW t \in Tasks
      PROVE  /\ task[t] \in TaskRecords
             /\ Tame(task[t], CancelTask(task[t])) /\ Tame(task[t], ResumeTask(task[t]))
             /\ Tame(task[t], RetryTask(task[t])) /\ Tame(task[t], DismissTask(task[t]))
             /\ task[t].st \in {"Queued", "Running"} =>
                   Tame(task[t], PauseTask(task[t])) /\ PauseTask(task[t]).st # "Running"
  <2>1. task[t] \in TaskRecords
    BY DEF TypeOK
  <2> QED
    BY <2>1, TameOperations, SizeBounds
\* A thread that is told to stop keeps its phase.
<1>w. ASSUME NEW t \in Tasks, NEW v, NEW r, Tame(task[t], r),
             task' = [task EXCEPT ![t] = r], worker' = [worker EXCEPT ![t]["own"] = v],
             v.phase = worker[t]["own"].phase, r.st = "Running" => ~v.pause,
             UNCHANGED events, gui \notin Ending, gui' \notin Ending
      PROVE  ThreadsHold'
  <2>1. "own" \in Slots /\ "dup" \in Slots \ {"own"}
    BY DEF Slots
  <2>2. /\ worker'[t]["own"] = v /\ worker'[t]["dup"] = worker[t]["dup"]
        /\ \A u \in Tasks \ {t} : worker'[u] = worker[u] /\ task'[u] = task[u]
        /\ task'[t] = r
    BY <1>w, <2>1, WorkerExcept DEF TypeOK
  <2>3. ASSUME NEW u \in Tasks PROVE Fits(u, task'[u], worker'[u], events', gui' \in Ending)
    <3>1. CASE u = t
      BY <1>w, <2>2, <3>1 DEF ThreadsHold, AllFit, Fits, Tame
    <3>2. CASE u # t
      BY <1>w, <2>2, <3>2 DEF ThreadsHold, AllFit, Fits
    <3> QED
      BY <3>1, <3>2
  <2> QED
    BY <1>w, <2>3 DEF ThreadsHold, AllFit, Ending
<1>1. ASSUME NEW t \in Tasks, Enqueue(t) PROVE ThreadsHold'
  <2>1. /\ task' = [task EXCEPT ![t] = [task[t] EXCEPT !.st = "Queued"]]
        /\ task[t].st = "new" /\ UNCHANGED <<worker, events>>
        /\ gui = "idle" /\ gui' = "schedule"
    BY <1>1 DEF Enqueue, Idle, threadVars
  <2>2. Tame(task[t], [task[t] EXCEPT !.st = "Queued"])
    BY <1>q, <2>1 DEF Tame, Threadless, TaskRecords
  <2>3. gui \notin Ending /\ gui' \notin Ending
    BY <2>1 DEF Ending
  <2> QED
    BY <2>1, <2>2, <2>3, RecordFits
<1>2. ASSUME NEW t \in Tasks, Cancel(t) PROVE ThreadsHold'
  <2> DEFINE w == worker[t]["own"]
             v == IF Live(w) THEN [w EXCEPT !.stop = TRUE, !.pause = FALSE] ELSE w
             r == IF CanCancel(task[t]) THEN CancelTask(task[t]) ELSE task[t]
  <2>1. w \in Workers
    BY DEF TypeOK, Slots
  <2>2. /\ worker' = [worker EXCEPT ![t]["own"] = v] /\ UNCHANGED events
        /\ gui = "idle" /\ gui' \in {"idle", "schedule"}
    BY <1>2 DEF Cancel, StopForCancel, AfterCall, Called, Idle
  <2>3. v.phase = w.phase /\ (v.pause => w.pause)
    BY <2>1 DEF Workers
  <2>4. task' = [task EXCEPT ![t] = r]
    BY <1>2 DEF Cancel, TypeOK
  <2>5. Tame(task[t], r)
    BY <1>q DEF Tame
  <2>6. r.st = "Running" => ~v.pause
    BY <2>3, <2>5 DEF ThreadsHold, AllFit, Fits, Tame
  <2>7. gui \notin Ending /\ gui' \notin Ending
    BY <2>2 DEF Ending
  <2> HIDE DEF v, r
  <2> QED
    BY <1>w, <2>2, <2>3, <2>4, <2>5, <2>6, <2>7
<1>3. ASSUME NEW t \in Tasks, Pause(t) PROVE ThreadsHold'
  <2> DEFINE w == worker[t]["own"]
             v == IF Live(w) THEN [w EXCEPT !.stop = TRUE, !.pause = TRUE] ELSE w
             r == PauseTask(task[t])
  <2>1. w \in Workers
    BY DEF TypeOK, Slots
  <2>2. /\ worker' = [worker EXCEPT ![t]["own"] = v] /\ UNCHANGED events
        /\ gui = "idle" /\ gui' \in {"idle", "schedule"}
        /\ task' = [task EXCEPT ![t] = r]
        /\ task[t].st \in CenterOffers("pause")
    BY <1>3 DEF Pause, AfterCall, Called, Idle
  <2>3. v.phase = w.phase
    BY <2>1 DEF Workers
  <2>4. CenterOffers("pause") = {"Queued", "Running"}
    BY DEF CenterOffers
  <2>5. Tame(task[t], r) /\ r.st # "Running"
    BY <1>q, <2>2, <2>4
  <2>6. gui \notin Ending /\ gui' \notin Ending
    BY <2>2 DEF Ending
  <2> HIDE DEF v, r
  <2> QED
    BY <1>w, <2>2, <2>3, <2>5, <2>6
<1>4. ASSUME NEW t \in Tasks, Resume(t) PROVE ThreadsHold'
  <2>1. /\ task' = [task EXCEPT ![t] = ResumeTask(task[t])] /\ UNCHANGED <<worker, events>>
        /\ gui \notin Ending /\ gui' \notin Ending
    BY <1>4 DEF Resume, Requeue, Called, Idle, Ending, threadVars
  <2> QED
    BY <1>q, <2>1, RecordFits
<1>5. ASSUME NEW t \in Tasks, Retry(t) PROVE ThreadsHold'
  <2>1. /\ task' = [task EXCEPT ![t] = RetryTask(task[t])] /\ UNCHANGED <<worker, events>>
        /\ gui \notin Ending /\ gui' \notin Ending
    BY <1>5 DEF Retry, Requeue, Called, Idle, Ending, threadVars
  <2> QED
    BY <1>q, <2>1, RecordFits
<1>6. ASSUME NEW T \in SUBSET Tasks, Remove(T), Idle PROVE ThreadsHold'
  <2>1. /\ \A t \in Tasks : task'[t] \in {task[t], DismissTask(task[t])}
        /\ UNCHANGED <<worker, events, gui>> /\ gui \notin Ending
    BY <1>6 DEF Remove, Idle, Ending, threadVars
  <2>2. \A t \in Tasks : Tame(task[t], task'[t])
    BY <1>q, <2>1 DEF Tame
  <2>3. AllFit'
    BY <2>1, <2>2 DEF ThreadsHold, AllFit, Fits, Tame
  <2> QED
    BY <2>1, <2>3 DEF ThreadsHold, Ending
<1>7. ASSUME NEW t \in Tasks, NEW a \in Decisions, ResolveConflict(t, a) PROVE ThreadsHold'
  <2>1. /\ UNCHANGED <<worker, events>>
        /\ gui \notin Ending /\ gui' \notin Ending
        /\ task' = [task EXCEPT ![t] = RetryTask(task[t])] \/ UNCHANGED task
    BY <1>7 DEF ResolveConflict, Decide, Requeue, Idle, Ending, threadVars, fileVars
  <2> QED
    BY <1>q, <2>1, RecordFits, NothingFits
<1>8. CASE RequestStop
  <2>0. /\ gui' = "closing" /\ events' = <<>> /\ UNCHANGED task
        /\ worker' = [t \in Tasks |-> [worker[t] EXCEPT !["own"] =
                                          IF Live(worker[t]["own"])
                                          THEN [worker[t]["own"] EXCEPT !.stop = TRUE]
                                          ELSE worker[t]["own"]]]
    BY <1>8 DEF RequestStop, queueVars
  <2>1. ASSUME NEW t \in Tasks
        PROVE  /\ worker'[t]["dup"] = worker[t]["dup"]
               /\ worker'[t]["own"].phase = worker[t]["own"].phase
               /\ worker'[t]["own"].pause = worker[t]["own"].pause
    <3> DEFINE own == worker[t]["own"]
               v == IF Live(own) THEN [own EXCEPT !.stop = TRUE] ELSE own
    <3>1. own \in Workers /\ worker[t] \in [Slots -> Workers] /\ Slots = {"own", "dup"}
      BY DEF TypeOK, Slots
    <3>2. v.phase = own.phase /\ v.pause = own.pause
      BY <3>1 DEF Workers
    <3>3. worker'[t] = [worker[t] EXCEPT !["own"] = v]
      BY <2>0
    <3> HIDE DEF v
    <3> QED
      BY <3>1, <3>2, <3>3
  <2>2. ASSUME NEW t \in Tasks PROVE Fits(t, task'[t], worker'[t], events', gui' \in Ending)
    <3>1. Once(events', t) /\ ~Pending(events', t) /\ NoPaused(events', t)
      BY <2>0, NoFinals
    <3>2. gui' \in Ending
      BY <2>0 DEF Ending
    <3> QED
      BY <2>0, <2>1, <3>1, <3>2 DEF ThreadsHold, AllFit, Fits
  <2> QED
    BY <2>0, <2>2 DEF ThreadsHold, AllFit
<1>9. CASE DismissFinished
  BY <1>6, <1>9 DEF DismissFinished
<1>10. ASSUME NEW t \in Tasks, Dismiss(t) PROVE ThreadsHold'
  BY <1>6, <1>10 DEF Dismiss, Called
<1> QED
  BY <1>1, <1>2, <1>3, <1>4, <1>5, <1>7, <1>8, <1>9, <1>10 DEF UserNext

\* schedule() takes a task without a thread, so it never makes a duplicate.
LEMMA ScheduleThreads == ASSUME TypeOK, ThreadsHold, ScheduleNext PROVE ThreadsHold'
<1>s. "own" \in Slots /\ "dup" \in Slots \ {"own"}
  BY DEF Slots
<1>d. \A t \in Tasks : worker[t]["dup"].phase = "none"
  BY DEF ThreadsHold, AllFit, Fits, NoWorker
<1>1. ASSUME NEW i \in DOMAIN order, StartNext(i) \/ StartFails(i) PROVE ThreadsHold'
  <2> DEFINE t == order[i]
  <2>0. /\ t \in Tasks /\ task[t].st = "Queued" /\ gui = "schedule" /\ task[t] \in TaskRecords
    BY <1>1, OrderElement DEF StartNext, StartFails, IsFirstQueued, TypeOK
  <2> HIDE DEF t
  <2>1. worker[t]["own"].phase = "none" /\ ~Pending(events, t) /\ worker[t]["dup"] = NoWorker
    BY <2>0 DEF ThreadsHold, AllFit, Fits, Threadless
  <2>2. TakeTask(task[t]) \in TaskRecords /\ TakeTask(task[t]).st = "Running"
    BY <2>0, StatusOperationsType DEF TakeTask, TaskRecords
  <2>3. CASE \E code : task' = [task EXCEPT ![t] = Fail(TakeTask(task[t]), code)] /\ UNCHANGED <<worker, events, gui>>
    <3>1. PICK code : task' = [task EXCEPT ![t] = Fail(TakeTask(task[t]), code)]
      BY <2>3
    <3>2. CanTransition("Running", "Failed")
      BY DEF CanTransition, Successors, Statuses, Outside
    <3>3. Fail(TakeTask(task[t]), code).st = "Failed"
      BY <2>2, <3>2 DEF Fail, TaskRecords
    <3>4. Tame(task[t], Fail(TakeTask(task[t]), code))
      BY <2>0, <3>3 DEF Tame, Threadless
    <3>5. gui \notin Ending
      BY <2>0 DEF Ending
    <3> QED
      BY <2>0, <2>3, <3>1, <3>4, <3>5, RecordFits
  <2>4. CASE /\ task' = [task EXCEPT ![t] = TakeTask(task[t])] /\ UNCHANGED <<events, gui>>
             /\ worker' = [worker EXCEPT ![t]["own"] = FreshWorker(t)]
    <3>1. /\ worker'[t]["own"] = FreshWorker(t) /\ worker'[t]["dup"] = worker[t]["dup"]
          /\ \A u \in Tasks \ {t} : worker'[u] = worker[u] /\ task'[u] = task[u]
          /\ task'[t] = TakeTask(task[t])
      BY <1>s, <2>0, <2>4, WorkerExcept DEF TypeOK
    <3>2. FreshWorker(t).phase = "start" /\ ~FreshWorker(t).pause
      BY DEF FreshWorker
    <3>3. Once(events, t) /\ NoPaused(events, t)
      BY <2>0, <2>1 DEF ThreadsHold, AllFit, Fits, Pending, NoPaused
    <3>4. ASSUME NEW u \in Tasks PROVE Fits(u, task'[u], worker'[u], events', gui' \in Ending)
      <4>1. CASE u = t
        BY <2>1, <2>2, <2>4, <3>1, <3>2, <3>3, <4>1 DEF Fits, Threadless
      <4>2. CASE u # t
        BY <2>4, <3>1, <4>2 DEF ThreadsHold, AllFit, Fits
      <4> QED
        BY <4>1, <4>2
    <3> QED
      BY <2>0, <2>4, <3>4 DEF ThreadsHold, AllFit, Ending
  <2> QED
    BY <1>1, <2>1, <2>3, <2>4 DEF StartNext, StartFails, threadVars, t
<1>2. CASE ScheduleDone
  BY <1>2, NothingFits DEF ScheduleDone, Ending, queueVars, threadVars
<1>3. ASSUME NEW t \in Tasks, StopDuplicate(t) \/ DuplicateJoined(t) PROVE FALSE
  BY <1>d, <1>3 DEF StopDuplicate, DuplicateJoined, Live
<1> QED
  BY <1>1, <1>2, <1>3 DEF ScheduleNext

\* A handler erases the thread whose final event it takes.
LEMMA EventThreads ==
    ASSUME TypeOK, ThreadsHold, EventNext, "batch" \notin Callers
    PROVE  ThreadsHold'
<1> DEFINE e == Head(events)
           t == e.task
<1>n. events # <<>>
  BY DEF EventNext, DeliverProgress, JoinWorker, DeliverCredentialError, DeliverResult,
         DeliverConflictToPolicy, Delivers
<1>e. /\ e \in Events /\ t \in Tasks /\ e.kind \in EventKinds /\ e.bytes \in 0..Size
      /\ task[t] \in TaskRecords
  <2>1. e \in Events
    BY <1>n, HeadEvent
  <2> QED
    BY <2>1 DEF Events, TypeOK
<1>h. events \in Seq(Events) /\ 1 \in DOMAIN events /\ events[1] = e
  BY <1>n DEF TypeOK
<1>f. \A u \in Tasks : FinalAt(events, 1, u) <=> t = u /\ e.kind \in Final
  BY <1>h DEF FinalAt
<1> HIDE DEF e
\* The queue without its head, as far as any task is concerned.
<1>t. ASSUME events' = Tail(events), NEW u \in Tasks
      PROVE  /\ Once(events', u)
             /\ NoPaused(events, u) => NoPaused(events', u)
             /\ Pending(events', u) => Pending(events, u)
             /\ t # u \/ e.kind \notin Final => (Pending(events', u) <=> Pending(events, u))
             /\ t = u /\ e.kind \in Final => ~Pending(events', u)
  <2>1. Once(events, u)
    BY DEF ThreadsHold, AllFit, Fits
  <2> QED
    BY <1>n, <1>h, <1>f, <1>t, <2>1, TailFinals
<1>w. ASSUME Erased(t), e.kind \in Final, gui' \notin Ending,
             NEW r, task' = [task EXCEPT ![t] = r], r.st # "Running"
      PROVE  ThreadsHold'
  <2>1. /\ worker' = [worker EXCEPT ![t]["own"] = NoWorker] /\ events' = Tail(events)
        /\ gui \in {"idle", "joinWorker"}
    BY <1>w DEF Erased
  <2>2. "own" \in Slots /\ "dup" \in Slots \ {"own"}
    BY DEF Slots
  <2>3. /\ worker'[t]["own"] = NoWorker /\ worker'[t]["dup"] = worker[t]["dup"]
        /\ \A u \in Tasks \ {t} : worker'[u] = worker[u] /\ task'[u] = task[u]
        /\ task'[t] = r
    BY <1>e, <1>w, <2>1, <2>2, WorkerExcept DEF TypeOK
  <2>4. NoWorker.phase = "none"
    BY DEF NoWorker
  <2>5. gui \notin Ending
    BY <2>1 DEF Ending
  <2>6. ASSUME NEW u \in Tasks PROVE Fits(u, task'[u], worker'[u], events', gui' \in Ending)
    <3>1. CASE u = t
      BY <1>t, <1>w, <2>1, <2>3, <2>4, <3>1 DEF ThreadsHold, AllFit, Fits
    <3>2. CASE u # t
      BY <1>t, <1>w, <2>1, <2>3, <2>5, <3>2 DEF ThreadsHold, AllFit, Fits
    <3> QED
      BY <3>1, <3>2
  <2> QED
    BY <1>w, <2>6 DEF ThreadsHold, AllFit, Ending
<1>1. CASE DeliverProgress
  <2>1. /\ task' = [task EXCEPT ![t] = UpdateProgress(task[t], e.bytes)] \/ UNCHANGED task
        /\ UNCHANGED <<worker, gui>> /\ gui = "idle" /\ events' = Tail(events)
        /\ e.kind = "progress"
    BY <1>1 DEF DeliverProgress, Delivers, Idle, e
  <2>2. Tame(task[t], UpdateProgress(task[t], e.bytes))
    BY <1>e, TameOperations
  <2>3. \A u \in Tasks : Tame(task[u], task'[u])
    BY <1>e, <2>1, <2>2 DEF TypeOK, Tame
  <2>4. e.kind \notin Final
    BY <2>1 DEF Final
  <2>5. ASSUME NEW u \in Tasks PROVE Fits(u, task'[u], worker'[u], events', gui' \in Ending)
    <3>1. /\ Once(events', u) /\ (NoPaused(events, u) => NoPaused(events', u))
          /\ Pending(events', u) <=> Pending(events, u)
      BY <1>t, <2>1, <2>4
    <3> QED
      BY <2>1, <2>3, <3>1 DEF ThreadsHold, AllFit, Fits, Tame
  <2> QED
    BY <2>1, <2>5 DEF ThreadsHold, AllFit, Ending
<1>2. CASE JoinWorker
  <2>1. e.kind \in Final /\ Live(worker[t]["own"])
    BY <1>2 DEF JoinWorker, Delivers, e
  <2>2. Pending(events, t)
    BY <1>e, <1>f, <1>h, <2>1 DEF Pending
  <2> QED
    BY <1>e, <2>1, <2>2 DEF Live, ThreadsHold, AllFit, Fits
<1>3. CASE DeliverCredentialError
  <2>1. /\ Erased(t) /\ e.kind = "credential" /\ gui' \in {"idle", "schedule"}
        /\ IF task[t].st = "Running" THEN task' = [task EXCEPT ![t] = NeedAttention(task[t])]
                                     ELSE UNCHANGED task
    BY <1>3 DEF DeliverCredentialError, Delivers, Requeue, e
  <2>2. e.kind \in Final /\ gui' \notin Ending
    BY <1>e, <2>1 DEF Final, Ending
  <2>3. CASE task[t].st = "Running"
    <3>1. NeedAttention(task[t]).st # "Running"
      BY <1>e, <2>3 DEF NeedAttention, CanTransition, Successors, Statuses, Outside, TaskRecords
    <3> QED
      BY <1>w, <2>1, <2>2, <2>3, <3>1
  <2>4. CASE task[t].st # "Running"
    <3>1. task' = [task EXCEPT ![t] = task[t]]
      BY <1>e, <2>1, <2>4 DEF TypeOK
    <3> QED
      BY <1>w, <2>1, <2>2, <2>4, <3>1
  <2> QED
    BY <2>3, <2>4
<1>4. CASE DeliverResult
  <2>1. /\ Erased(t) /\ e.kind \in Final \ {"credential"} /\ gui' = "schedule"
        /\ IF task[t].st \in Active THEN task' = [task EXCEPT ![t] = Settled(task[t], e)]
                                    ELSE UNCHANGED task
    BY <1>4 DEF DeliverResult, Delivers, e
  <2>2. gui' \notin Ending
    BY <2>1 DEF Ending
  <2>3. CASE task[t].st \in Active
    <3>1. task[t].st = "Running" => e.kind # "paused"
      BY <1>e, <1>f, <1>h, <2>1 DEF ThreadsHold, AllFit, Fits, NoPaused
    <3>2. Settled(task[t], e).st # "Running"
      BY <1>e, <2>1, <3>1, SettledLeavesRunning
    <3> QED
      BY <1>w, <2>1, <2>2, <2>3, <3>2
  <2>4. CASE task[t].st \notin Active
    <3>1. task' = [task EXCEPT ![t] = task[t]] /\ task[t].st # "Running"
      BY <1>e, <2>1, <2>4 DEF TypeOK, Active
    <3> QED
      BY <1>w, <2>1, <2>2, <3>1
  <2> QED
    BY <2>3, <2>4
<1>5. ASSUME NEW a \in Decisions \cap {"skip", "replace"}, DeliverConflictToPolicy(a) PROVE FALSE
  BY <1>5 DEF DeliverConflictToPolicy
<1> QED
  BY <1>1, <1>2, <1>3, <1>4, <1>5 DEF EventNext

\* A worker's step: only the one thread of a task steps, and it posts its
\* final event when it returns.
LEMMA WorkerThreads ==
    ASSUME TypeOK, ThreadsHold, NEW t \in Tasks, NEW s \in Slots, WorkerStep(t, s)
    PROVE  ThreadsHold'
<1>1. Live(worker[t][s]) /\ UNCHANGED <<task, gui>>
  BY ThreadStep
<1>2. s = "own"
  BY <1>1 DEF Slots, Live, NoWorker, ThreadsHold, AllFit, Fits
<1>3. gui # "down"
  BY <1>1, <1>2 DEF Live, NoWorker, ThreadsHold
<1>4. events \in Seq(Events)
  BY DEF TypeOK
<1>5. worker[t]["own"].phase \notin {"none", "done"} /\ ~Pending(events, t) /\ task[t].st \notin Threadless
  BY <1>1, <1>2 DEF Live, ThreadsHold, AllFit, Fits
<1>w. ASSUME NEW v, worker' = [worker EXCEPT ![t]["own"] = v]
      PROVE  /\ worker'[t]["own"] = v /\ worker'[t]["dup"] = worker[t]["dup"]
             /\ \A u \in Tasks \ {t} : worker'[u] = worker[u]
  <2>1. "own" \in Slots /\ "dup" \in Slots \ {"own"}
    BY DEF Slots
  <2>2. worker \in [Tasks -> [Slots -> Workers]]
    BY DEF TypeOK
  <2> QED
    BY <1>w, <2>1, <2>2
\* The frame of both cases below.
<1>q. ASSUME gui = "closing" => UNCHANGED events,
             \A u \in Tasks : Fits(u, task[u], worker'[u], events', gui \in Ending)
      PROVE  ThreadsHold'
  <2>1. AllFit'
    BY <1>1, <1>q DEF AllFit
  <2> QED
    BY <1>1, <1>3, <1>q, <2>1 DEF ThreadsHold, Ending
<1>6. ASSUME NEW v \in Workers, GoesOn(t, "own", v) PROVE ThreadsHold'
  <2>1. /\ worker' = [worker EXCEPT ![t]["own"] = v]
        /\ v.phase \notin {"none", "done"} /\ v.pause = worker[t]["own"].pause
        /\ UNCHANGED events \/ \E n \in 0..Size : Post("progress", t, n)
    BY <1>6 DEF GoesOn, Step, Live
  <2>2. ASSUME NEW u \in Tasks
        PROVE  /\ Once(events, u) => Once(events', u)
               /\ NoPaused(events, u) => NoPaused(events', u)
               /\ Pending(events', u) <=> Pending(events, u)
    <3>1. CASE UNCHANGED events
      BY <3>1
    <3>2. ASSUME NEW n \in 0..Size, Post("progress", t, n), events' # events
          PROVE  /\ Once(events, u) => Once(events', u)
                 /\ NoPaused(events, u) => NoPaused(events', u)
                 /\ Pending(events', u) <=> Pending(events, u)
      <4> DEFINE e == [kind |-> "progress", task |-> t, bytes |-> n]
      <4>1. e \in Events /\ e.kind \notin Final /\ events' = Append(events, e)
        BY <3>2 DEF Post, Events, EventKinds, Final
      <4> HIDE DEF e
      <4> QED
        BY <1>4, <4>1, AppendOther
    <3> QED
      BY <2>1, <3>1, <3>2
  <2>3. ASSUME NEW u \in Tasks PROVE Fits(u, task[u], worker'[u], events', gui \in Ending)
    <3>1. CASE u = t
      BY <1>5, <1>w, <2>1, <2>2, <3>1 DEF ThreadsHold, AllFit, Fits
    <3>2. CASE u # t
      BY <1>w, <2>1, <2>2, <3>2 DEF ThreadsHold, AllFit, Fits
    <3> QED
      BY <3>1, <3>2
  <2>4. gui = "closing" => UNCHANGED events
    BY <2>1 DEF Post
  <2> QED
    BY <1>q, <2>3, <2>4
<1>7. ASSUME NEW kind \in Final, Ends(t, "own", kind) PROVE ThreadsHold'
  <2>1. PICK n \in 0..Size : worker' = [worker EXCEPT ![t]["own"] = DoneWorker] /\ Post(kind, t, n)
    BY <1>7 DEF Ends, Finish, Step
  <2>2. DoneWorker.phase = "done" /\ ~DoneWorker.pause
    BY DEF DoneWorker, NoWorker
  <2>3. kind = "paused" => task[t].st # "Running"
    BY <1>7 DEF Ends, ThreadsHold, AllFit, Fits
  <2>4. CASE gui = "closing"
    <3>1. events' = events
      BY <2>1, <2>4 DEF Post
    <3>2. ASSUME NEW u \in Tasks PROVE Fits(u, task[u], worker'[u], events', gui \in Ending)
      <4>1. CASE u = t
        BY <1>5, <1>w, <2>1, <2>2, <2>4, <3>1, <4>1 DEF ThreadsHold, AllFit, Fits, Ending
      <4>2. CASE u # t
        BY <1>w, <2>1, <3>1, <4>2 DEF ThreadsHold, AllFit, Fits
      <4> QED
        BY <4>1, <4>2
    <3> QED
      BY <1>q, <3>1, <3>2
  <2>5. CASE gui # "closing"
    <3> DEFINE e == [kind |-> kind, task |-> t, bytes |-> n]
    <3>1. e \in Events /\ e.kind = kind /\ e.task = t
      BY DEF Events, Final
    <3>2. events' = Append(events, e)
      BY <2>1, <2>5 DEF Post
    <3> HIDE DEF e
    <3>3. ASSUME NEW u \in Tasks PROVE Fits(u, task[u], worker'[u], events', gui \in Ending)
      <4>1. CASE u = t
        <5>1. Once(events', t) /\ Pending(events', t) /\ (kind # "paused" => NoPaused(events', t))
          BY <1>4, <1>5, <3>1, <3>2, AppendFinal
        <5> QED
          BY <1>5, <1>w, <2>1, <2>2, <2>3, <4>1, <5>1 DEF ThreadsHold, AllFit, Fits
      <4>2. CASE u # t
        <5>1. /\ Once(events, u) => Once(events', u)
              /\ NoPaused(events, u) => NoPaused(events', u)
              /\ Pending(events', u) <=> Pending(events, u)
          BY <1>4, <3>1, <3>2, <4>2, AppendOther
        <5> QED
          BY <1>w, <2>1, <4>2, <5>1 DEF ThreadsHold, AllFit, Fits
      <4> QED
        BY <4>1, <4>2
    <3> QED
      BY <1>q, <2>5, <3>3
  <2> QED
    BY <2>4, <2>5
<1> QED
  BY <1>2, <1>6, <1>7, ThreadStep

\* Threads do not survive the process, and a restart runs nothing.
LEMMA ProcessThreads == ASSUME TypeOK, ThreadsHold, ProcessNext PROVE ThreadsHold'
<1>n. NoWorker.phase = "none" /\ ~NoWorker.pause
  BY DEF NoWorker
<1>1. CASE Shutdown \/ Crash
  <2>1. /\ gui' = "down" /\ events' = <<>>
        /\ worker' = [t \in Tasks |-> [s \in Slots |-> NoWorker]]
    BY <1>1 DEF Shutdown, Crash, ThreadsHold, Ending
  <2>2. \A t \in Tasks : worker'[t]["own"] = NoWorker /\ worker'[t]["dup"] = NoWorker
    BY <2>1 DEF Slots
  <2>3. ASSUME NEW t \in Tasks PROVE Fits(t, task'[t], worker'[t], events', gui' \in Ending)
    <3>1. Once(events', t) /\ ~Pending(events', t) /\ NoPaused(events', t)
      BY <2>1, NoFinals
    <3> QED
      BY <1>n, <2>1, <2>2, <3>1 DEF Fits, Ending
  <2> QED
    BY <2>1, <2>2, <2>3 DEF ThreadsHold, AllFit
<1>2. CASE Restart
  <2>1. /\ gui = "down" /\ gui' = "idle" /\ UNCHANGED <<worker, events>>
        /\ \A t \in Tasks : task'[t] = Restored(journal[t], task[t])
    BY <1>2 DEF Restart, threadVars
  <2>2. events' = <<>> /\ \A t \in Tasks : worker'[t]["own"] = NoWorker /\ worker'[t]["dup"] = NoWorker
    BY <2>1 DEF ThreadsHold, AllFit, Fits, Ending
  <2>3. \A t \in Tasks : Restored(journal[t], task[t]).st # "Running"
    BY DEF Restored, NewTask
  <2>4. ASSUME NEW t \in Tasks PROVE Fits(t, task'[t], worker'[t], events', gui' \in Ending)
    <3>1. Once(events', t) /\ ~Pending(events', t) /\ NoPaused(events', t)
      BY <2>2, NoFinals
    <3> QED
      BY <1>n, <2>1, <2>2, <2>3, <3>1 DEF Fits
  <2> QED
    BY <2>1, <2>4 DEF ThreadsHold, AllFit, Ending
<1> QED
  BY <1>1, <1>2 DEF ProcessNext

LEMMA ThreadsInit == Init => ThreadsHold
<1> SUFFICES ASSUME Init PROVE ThreadsHold
  OBVIOUS
<1>1. events = <<>> /\ gui = "idle" /\ \A t \in Tasks : task[t].st = "new"
  BY DEF Init, NewTask
<1>2. \A t \in Tasks : worker[t]["own"] = NoWorker /\ worker[t]["dup"] = NoWorker
  BY DEF Init, Slots
<1>3. ASSUME NEW t \in Tasks PROVE Fits(t, task[t], worker[t], events, gui \in Ending)
  <2>1. Once(events, t) /\ ~Pending(events, t) /\ NoPaused(events, t)
    BY <1>1, NoFinals
  <2> QED
    BY <1>1, <1>2, <2>1 DEF Fits, NoWorker
<1> QED
  BY <1>1, <1>3 DEF ThreadsHold, AllFit, Ending

LEMMA ThreadsStep ==
    ASSUME TypeOK, ThreadsHold, [Next]_vars, "batch" \notin Callers
    PROVE  ThreadsHold'
<1>1. CASE UNCHANGED vars
  BY <1>1, NothingFits DEF vars, queueVars, threadVars
<1>2. ASSUME NEW t \in Tasks, CleanupPartial(t) PROVE ThreadsHold'
  BY <1>2, NothingFits DEF CleanupPartial, queueVars, threadVars
<1> QED
  BY <1>1, <1>2, UserThreads, ScheduleThreads, EventThreads, WorkerThreads, ProcessThreads
     DEF Next, WorkerNext

\* With the calls of the Transfer Center, a task that may be started again has
\* no thread left and no result under way, and a running task has one of them:
\* startWorker never meets an old entry of m_workers, no result is applied to
\* a later run of its task, and no slot is held for nothing (startWorker,
\* finishWorker, handleResult).
THEOREM ThreadMatchesStatusHolds ==
    ASSUME "batch" \notin Callers
    PROVE  Spec => []ThreadMatchesStatus
<1>1. TypeOK /\ ThreadsHold /\ [Next]_vars => (TypeOK /\ ThreadsHold)'
  BY TypeStep, ThreadsStep
<1>2. TypeOK /\ ThreadsHold => ThreadMatchesStatus
  <2> SUFFICES ASSUME TypeOK, ThreadsHold, NEW t \in Tasks
               PROVE  /\ gui # "down" /\ task[t].st \in {"Queued", "Paused", "NeedsAttention", "Failed", "Completed"}
                            => ~HasThread(t) /\ worker[t]["own"].phase = "none"
                      /\ gui \notin {"closing", "down"} /\ task[t].st = "Running" => HasThread(t)
    BY DEF ThreadMatchesStatus
  <2>1. FinalPending(t) <=> Pending(events, t)
    BY DEF FinalPending, Pending, FinalAt
  <2>2. Fits(t, task[t], worker[t], events, gui \in Ending)
    BY DEF ThreadsHold, AllFit
  <2>3. worker[t]["dup"].phase = "none"
    BY <2>2 DEF Fits, NoWorker
  <2>4. task[t].st \in Threadless => ~HasThread(t) /\ worker[t]["own"].phase = "none"
    BY <2>1, <2>2, <2>3 DEF Fits, HasThread, Live, Slots
  <2>5. gui \notin Ending /\ task[t].st = "Running" => HasThread(t)
    BY <2>1, <2>2 DEF Fits, HasThread, Live, Slots
  <2> QED
    BY <2>4, <2>5 DEF Threadless, Ending
<1> QED
  BY <1>1, <1>2, InitType, ThreadsInit, PTL DEF Spec

=============================================================================
