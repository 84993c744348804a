----------------------- MODULE TransferBatchesProofs -----------------------
(***************************************************************************)
(* What the batch coordinator promises, for any number of batches, files   *)
(* and slots.  A handler is a loop of calls into the manager: the first    *)
(* part is what one call does to the state it finds, the second what the   *)
(* loops and the steps make of that.                                       *)
(***************************************************************************)
EXTENDS TransferBatches, Loops, FiniteSetTheorems, TLAPS

(***************************************************************************)
(* The states a handler works on.                                          *)
(***************************************************************************)
BatchRecords == [st : BatchStatuses, auto : BOOLEAN]

States ==
    [task : [Children -> TaskRecords], order : Seq(Children), work : SUBSET Children,
     decided : SUBSET Children, live : SUBSET Children, batch : [Batches -> BatchRecords],
     entry : [Children -> EntryStatuses], timer : BOOLEAN]

HasEntries(s, b) == s.entry[<<b, 1>>] # "none"

\* The entries of a batch come and go together.
Whole(s) ==
    \A b \in Batches, i \in 1..Files : s.entry[<<b, i>>] # "none" <=> HasEntries(s, b)

PlanFitsStatus(s) ==
    \A b \in Batches :
        /\ s.batch[b].st \in Outside \cup {"Discovering"} => ~HasEntries(s, b)
        /\ s.batch[b].st \in {"Running", "Paused", "NeedsAttention", "Interrupted", "Completed"}
              => HasEntries(s, b)

\* No file of a batch without a plan was ever queued.
Untouched(s) ==
    \A b \in Batches : s.batch[b].st # "gone" /\ ~HasEntries(s, b) =>
        \A i \in 1..Files : s.task[<<b, i>>].st = "new"

InPlace(s, done) ==
    \A c \in Children : s.task[c].st = "Completed" \/ s.entry[c] = "Completed" => c \in done

\* What holds between two calls, and within one.
Base(s, done) == Whole(s) /\ PlanFitsStatus(s) /\ Untouched(s) /\ InPlace(s, done)

Mirror(s) ==
    \A c \in Children :
        HasPlan(s, c[1]) /\ s.task[c].st \notin Outside => s.entry[c] = EntryStatus(s.task[c].st)

\* A batch shown as completed has no entry that could still fail.
CountedDone(s) ==
    \A b \in Batches : s.batch[b].st = "Completed" =>
        \A i \in 1..Files : s.entry[<<b, i>>] \in {"Completed", "Interrupted"}

\* Every entry of the batch has been queued.
AllQueued(s, b) == \A i \in 1..Files : s.entry[<<b, i>>] # "none" => s.task[<<b, i>>].st # "new"

Quiet(s, b) == \A i \in 1..Files : s.task[<<b, i>>].st \in Outside \cup Finished

Over == {"Completed", "Failed", "Cancelled"}

\* No transfer of a batch that looks over still runs or waits.
OverIsQuiet(s) == \A b \in Batches : s.batch[b].st \in Over /\ AllQueued(s, b) => Quiet(s, b)

\* What holds once the queue was shown.
Shown(s) == Mirror(s) /\ CountedDone(s) /\ OverIsQuiet(s)

-----------------------------------------------------------------------------
(***************************************************************************)
(* One task.                                                               *)
(***************************************************************************)
Ops == {"cancel", "pause", "resume", "retry", "dismiss"}

Waiting == {"Queued", "Running"}

\* A call makes no task new and completes none; only resume() and retry()
\* queue one.
LEMMA AppliedFacts ==
    ASSUME NEW r \in TaskRecords, r.st # "new", NEW op \in Ops
    PROVE  /\ Applied(op, r) \in TaskRecords
           /\ Applied(op, r).st # "new"
           /\ Applied(op, r).st = "Completed" => r.st = "Completed"
           /\ op \in {"cancel", "pause", "dismiss"} /\ r.st \notin Waiting
                 => Applied(op, r).st \notin Waiting
           /\ r.st = "gone" => Applied(op, r).st = "gone"
<1>0. /\ r.st \in Statuses \cup Outside /\ r.bytes \in 0..Size /\ r.code \in Codes
      /\ 0 \in 0..Size /\ Size \in Nat
  BY SizeAssumption DEF TaskRecords
<1>1. CASE op = "cancel"
  <2>1. Applied(op, r) = CancelTask(r)
    BY <1>1 DEF Applied
  <2>2. CancelTask(r) \in TaskRecords /\ CancelTask(r).st \in {r.st, "Cancelling", "Cancelled"}
    BY DEF TaskRecords, CancelTask, To, CancelTarget, Statuses
  <2>3. r.st = "gone" => CancelTask(r).st = "gone"
    BY <1>0 DEF CancelTask, To, CancelTarget, CanTransition, Successors, Statuses, Outside
  <2> QED BY <1>0, <1>1, <2>1, <2>2, <2>3 DEF Waiting
<1>2. CASE op = "pause"
  <2>1. Applied(op, r) = PauseTask(r)
    BY <1>2 DEF Applied
  <2>2. PauseTask(r) \in TaskRecords /\ PauseTask(r).st \in {r.st, "Pausing", "Paused"}
    BY DEF TaskRecords, PauseTask, To, PauseTarget, Statuses
  <2>3. r.st = "gone" => PauseTask(r).st = "gone"
    BY <1>0 DEF PauseTask, To, PauseTarget, CanTransition, Successors, Statuses, Outside
  <2> QED BY <1>0, <1>2, <2>1, <2>2, <2>3 DEF Waiting
<1>3. CASE op = "resume"
  <2>1. Applied(op, r) = ResumeTask(r)
    BY <1>3 DEF Applied
  <2>2. ResumeTask(r) \in TaskRecords /\ ResumeTask(r).st \in {r.st, "Queued"}
    BY DEF TaskRecords, ResumeTask, Statuses, Codes
  <2>3. r.st = "gone" => ResumeTask(r).st = "gone"
    BY <1>0 DEF ResumeTask, CanResume, CanTransition, Successors, Statuses, Outside
  <2> QED BY <1>0, <1>3, <2>1, <2>2, <2>3
<1>4. CASE op = "retry"
  <2>1. Applied(op, r) = RetryTask(r)
    BY <1>4 DEF Applied
  <2>2. RetryTask(r) \in TaskRecords /\ RetryTask(r).st \in {r.st, "Queued"}
    BY <1>0 DEF TaskRecords, RetryTask, Statuses, Codes
  <2>3. r.st = "gone" => RetryTask(r).st = "gone"
    BY <1>0 DEF RetryTask, CanRetry, CanTransition, Successors, Statuses, Outside
  <2> QED BY <1>0, <1>4, <2>1, <2>2, <2>3
<1>5. CASE op = "dismiss"
  <2>1. Applied(op, r) = DismissTask(r)
    BY <1>5 DEF Applied
  <2>2. DismissTask(r) \in TaskRecords /\ DismissTask(r).st \in {r.st, "gone"}
    BY <1>0 DEF TaskRecords, DismissTask, NewTask, Outside, Codes
  <2> QED BY <1>0, <1>5, <2>1, <2>2 DEF Waiting
<1> QED BY <1>1, <1>2, <1>3, <1>4, <1>5 DEF Ops

AnswerKinds == {"conflict", "completed", "paused", "cancelled", "failed"}

\* A result completes a task only if it says so, and queues none.
LEMMA SettledFacts ==
    ASSUME NEW r \in TaskRecords, r.st \in Active, NEW kind \in AnswerKinds
    PROVE  LET t == Settled(r, [kind |-> kind, bytes |-> 0])
           IN  /\ t \in TaskRecords /\ t.st \notin Outside
               /\ t.st = "Completed" => kind = "completed"
               /\ r.st # "Running" => t.st \notin {"Queued", "Running", "NeedsAttention"}
<1> DEFINE e == [kind |-> kind, bytes |-> 0]
<1>0. r.st \in Active /\ r.bytes \in 0..Size /\ r.code \in Codes /\ 0 \in 0..Size /\ Size \in 0..Size
  BY SizeAssumption DEF TaskRecords
<1>1. PICK p : p = UpdateProgress(r, 0)
  OBVIOUS
<1>2. p \in TaskRecords /\ p.st = r.st
  BY <1>0, <1>1 DEF TaskRecords, UpdateProgress
<1>3. CASE kind = "completed"
  <2>1. Settled(r, e) = Complete(p)
    BY <1>1, <1>3 DEF Settled
  <2>2. Complete(p) \in TaskRecords /\ Complete(p).st \in {r.st, "Completed"}
    BY <1>0, <1>2 DEF Complete, TaskRecords, Statuses
  <2> QED BY <1>0, <1>3, <2>1, <2>2 DEF Active, Outside
<1>4. CASE kind = "cancelled"
  <2>1. Settled(r, e) \in {MarkPaused(r, 0), CancelTask(r)} /\ (r.st # "Pausing" => Settled(r, e) = CancelTask(r))
    BY <1>4 DEF Settled
  <2>2. MarkPaused(r, 0) \in TaskRecords /\ MarkPaused(r, 0).st \in {r.st, "Paused"}
    BY <1>0 DEF MarkPaused, TaskRecords, Statuses
  <2>3. CancelTask(r) \in TaskRecords /\ CancelTask(r).st \in {r.st, "Cancelling", "Cancelled"}
    BY DEF TaskRecords, CancelTask, To, CancelTarget, Statuses
  <2> QED BY <1>0, <1>4, <2>1, <2>2, <2>3 DEF Active, Outside
<1>5. CASE kind = "paused"
  <2>1. Settled(r, e) = MarkPaused(r, 0)
    BY <1>5 DEF Settled
  <2>2. MarkPaused(r, 0) \in TaskRecords /\ MarkPaused(r, 0).st \in {r.st, "Paused"}
    BY <1>0 DEF MarkPaused, TaskRecords, Statuses
  <2> QED BY <1>0, <1>5, <2>1, <2>2 DEF Active, Outside
<1>6. CASE kind = "conflict"
  <2>1. Settled(r, e) = NeedAttention(r)
    BY <1>6 DEF Settled
  <2>2. NeedAttention(r) \in TaskRecords /\ NeedAttention(r).st \in {r.st, "NeedsAttention"}
    BY DEF NeedAttention, TaskRecords, Statuses, Codes
  <2>3. r.st # "Running" => NeedAttention(r).st = r.st
    BY <1>0 DEF NeedAttention, CanTransition, Successors, Statuses, Outside, Active
  <2> QED BY <1>0, <1>6, <2>1, <2>2, <2>3 DEF Active, Outside
<1>7. CASE kind = "failed"
  <2>1. Settled(r, e) = Fail(p, "error")
    BY <1>1, <1>7 DEF Settled
  <2>2. Fail(p, "error") \in TaskRecords /\ Fail(p, "error").st \in {r.st, "Failed"}
    BY <1>2 DEF Fail, TaskRecords, Statuses, Codes
  <2> QED BY <1>0, <1>7, <2>1, <2>2 DEF Active, Outside
<1> QED BY <1>3, <1>4, <1>5, <1>6, <1>7 DEF AnswerKinds

-----------------------------------------------------------------------------
(***************************************************************************)
(* The manager shows its queue, and the coordinator takes it over.         *)
(***************************************************************************)
LEMMA FirstFile == 1 \in 1..Files /\ Files \in Nat
  BY BatchesAssumption

LEMMA ChildrenArePairs ==
    /\ \A b \in Batches, i \in 1..Files : <<b, i>> \in Children /\ <<b, i>>[1] = b
    /\ \A c \in Children : c[1] \in Batches /\ c[2] \in 1..Files /\ c = <<c[1], c[2]>>
  BY DEF Children

LEMMA EntryStatusFacts ==
    ASSUME NEW st \in Statuses
    PROVE  /\ EntryStatus(st) \in EntryStatuses \ {"none"}
           /\ EntryStatus(st) = "Completed" => st = "Completed"
           /\ EntryStatus(st) \in {"Completed", "Failed", "Cancelled", "Interrupted"} => st \in Finished
  BY DEF EntryStatus, EntryStatuses, Statuses, Active, Finished

\* updateBatchStatus() never invents a status, and looks over only if all
\* entries are.
LEMMA StatusOfFacts ==
    ASSUME NEW E \in SUBSET EntryStatuses
    PROVE  /\ StatusOf(E) \in BatchStatuses \ {"new", "gone", "Discovering", "Interrupted"}
           /\ StatusOf(E) \in Over => E \cap {"Queued", "Running", "Paused", "NeedsAttention"} = {}
           /\ StatusOf(E) = "Completed" => E \subseteq {"none", "Completed", "Interrupted"}
  BY DEF StatusOf, BatchStatuses, EntryStatuses, Over

\* The fields of what applyTaskSnapshot() makes of a state.
LEMMA SnapshotFields ==
    ASSUME NEW s \in States
    PROVE  LET t == ApplySnapshot(s)
           IN  /\ t \in States /\ t.task = s.task /\ t.order = s.order /\ t.work = s.work
               /\ t.decided = s.decided /\ t.live = s.live
               /\ \A c \in Children :
                     t.entry[c] = IF HasPlan(s, c[1]) /\ s.task[c].st \notin Outside
                                  THEN EntryStatus(s.task[c].st) ELSE s.entry[c]
               /\ \A b \in Batches :
                     t.batch[b].st = IF HasPlan(s, b)
                                     THEN StatusOf({t.entry[<<b, i>>] : i \in 1..Files})
                                     ELSE s.batch[b].st
<1>1. PICK shown : shown = [c \in Children |->
                               IF HasPlan(s, c[1]) /\ s.task[c].st \notin Outside
                               THEN EntryStatus(s.task[c].st) ELSE s.entry[c]]
  OBVIOUS
<1>2. PICK after : after = [b \in Batches |->
                               IF HasPlan(s, b)
                               THEN [s.batch[b] EXCEPT !.st = StatusOf({shown[<<b, i>>] : i \in 1..Files})]
                               ELSE s.batch[b]]
  OBVIOUS
<1>3. PICK t : t = [s EXCEPT !.entry = shown, !.batch = after]
  OBVIOUS
<1>4. ApplySnapshot(s) = IF t = s THEN s ELSE [t EXCEPT !.timer = TRUE]
  BY <1>1, <1>2, <1>3 DEF ApplySnapshot, PublishBatches
<1>5. shown \in [Children -> EntryStatuses]
  <2>1. ASSUME NEW c \in Children, s.task[c].st \notin Outside PROVE EntryStatus(s.task[c].st) \in EntryStatuses
    BY <2>1, EntryStatusFacts DEF States, TaskRecords
  <2> QED BY <1>1, <2>1 DEF States
<1>6. ASSUME NEW b \in Batches
      PROVE  /\ after[b] \in BatchRecords
             /\ after[b].st = IF HasPlan(s, b) THEN StatusOf({shown[<<b, i>>] : i \in 1..Files})
                              ELSE s.batch[b].st
  <2>1. PICK E : E = {shown[<<b, i>>] : i \in 1..Files}
    OBVIOUS
  <2>2. E \in SUBSET EntryStatuses
    BY <1>5, <2>1, ChildrenArePairs
  <2>3. StatusOf(E) \in BatchStatuses
    BY <2>2, StatusOfFacts
  <2>4. s.batch[b] \in BatchRecords
    BY DEF States
  <2> QED BY <1>2, <2>1, <2>3, <2>4 DEF BatchRecords
<1>7. after \in [Batches -> BatchRecords]
  BY <1>2, <1>6
<1>8. t \in States /\ t.task = s.task /\ t.order = s.order /\ t.work = s.work
      /\ t.decided = s.decided /\ t.live = s.live /\ t.entry = shown /\ t.batch = after
  BY <1>3, <1>5, <1>7 DEF States
<1>9. PICK r : r = ApplySnapshot(s)
  OBVIOUS
<1>10. r \in States /\ r.task = s.task /\ r.order = s.order /\ r.work = s.work
       /\ r.decided = s.decided /\ r.live = s.live /\ r.entry = shown /\ r.batch = after
  BY <1>4, <1>8, <1>9 DEF States
<1>11. \A c \in Children :
          r.entry[c] = IF HasPlan(s, c[1]) /\ s.task[c].st \notin Outside
                       THEN EntryStatus(s.task[c].st) ELSE s.entry[c]
  BY <1>1, <1>10
<1>12. \A b \in Batches :
          r.batch[b].st = IF HasPlan(s, b) THEN StatusOf({r.entry[<<b, i>>] : i \in 1..Files})
                          ELSE s.batch[b].st
  BY <1>6, <1>10
<1> QED BY <1>9, <1>10, <1>11, <1>12

\* No call of the manager makes a batch come or go or gives it a plan.  One
\* without a plan keeps its status, or is marked as cancelled.
SameBatch(s, t, b) ==
    /\ HasEntries(t, b) <=> HasEntries(s, b)
    /\ t.batch[b].st \in Outside \/ s.batch[b].st \in Outside => t.batch[b].st = s.batch[b].st
    /\ ~HasEntries(s, b) => t.batch[b].st \in {s.batch[b].st, "Cancelled"}

SameBatches(s, t) == \A b \in Batches : SameBatch(s, t, b)

LEMMA SnapshotShows ==
    ASSUME NEW s \in States, NEW done, Base(s, done)
    PROVE  LET t == ApplySnapshot(s)
           IN  Base(t, done) /\ Shown(t) /\ SameBatches(s, t)
<1>1. PICK t \in States :
        /\ t = ApplySnapshot(s) /\ t.task = s.task
        /\ \A c \in Children :
              t.entry[c] = IF HasPlan(s, c[1]) /\ s.task[c].st \notin Outside
                           THEN EntryStatus(s.task[c].st) ELSE s.entry[c]
        /\ \A b \in Batches :
              t.batch[b].st = IF HasPlan(s, b)
                              THEN StatusOf({t.entry[<<b, i>>] : i \in 1..Files})
                              ELSE s.batch[b].st
  BY SnapshotFields
<1>2. \A c \in Children : /\ s.task[c].st \in Statuses \cup Outside
                          /\ s.entry[c] \in EntryStatuses /\ t.entry[c] \in EntryStatuses
  BY DEF States, TaskRecords
<1>3. \A b \in Batches : s.batch[b].st \in BatchStatuses
  BY DEF States, BatchRecords
<1>4. ASSUME NEW b \in Batches, NEW i \in 1..Files
      PROVE  t.entry[<<b, i>>] # "none" <=> s.entry[<<b, i>>] # "none"
  <2>1. HasPlan(s, b) => s.entry[<<b, i>>] # "none"
    BY DEF Base, Whole, HasPlan, HasEntries
  <2>2. s.task[<<b, i>>].st \notin Outside => EntryStatus(s.task[<<b, i>>].st) # "none"
    BY <1>2, ChildrenArePairs, EntryStatusFacts
  <2> QED BY <1>1, <2>1, <2>2, ChildrenArePairs
<1>5. \A b \in Batches : HasEntries(t, b) <=> HasEntries(s, b)
  BY <1>4, FirstFile DEF HasEntries
<1>6. ASSUME NEW b \in Batches, HasPlan(s, b)
      PROVE  /\ t.batch[b].st \in BatchStatuses \ {"new", "gone", "Discovering", "Interrupted"}
             /\ t.batch[b].st \in Over => \A i \in 1..Files :
                   t.entry[<<b, i>>] \notin {"Queued", "Running", "Paused", "NeedsAttention"}
             /\ t.batch[b].st = "Completed" => \A i \in 1..Files :
                   t.entry[<<b, i>>] \in {"none", "Completed", "Interrupted"}
  <2>1. PICK E \in SUBSET EntryStatuses : E = {t.entry[<<b, i>>] : i \in 1..Files}
    BY <1>2, ChildrenArePairs
  <2>2. t.batch[b].st = StatusOf(E)
    BY <1>1, <1>6, <2>1
  <2>3. \A i \in 1..Files : t.entry[<<b, i>>] \in E
    BY <2>1
  <2> QED BY <2>2, <2>3, StatusOfFacts
<1>7. SameBatches(s, t)
  BY <1>1, <1>3, <1>5, <1>6 DEF SameBatches, SameBatch, HasPlan, HasEntries, Outside
<1>8. \A b \in Batches : HasPlan(t, b) <=> HasPlan(s, b)
  BY <1>1, <1>5, <1>6 DEF HasPlan, HasEntries, Outside
<1>9. Base(t, done)
  <2>1. Whole(t)
    BY <1>4, <1>5 DEF Base, Whole
  <2>2. PlanFitsStatus(t)
    BY <1>1, <1>3, <1>5, <1>6 DEF Base, PlanFitsStatus, HasPlan, HasEntries, Outside
  <2>3. Untouched(t)
    BY <1>1, <1>5, <1>7 DEF Base, Untouched, SameBatches, SameBatch, Outside
  <2>4. InPlace(t, done)
    <3> SUFFICES ASSUME NEW c \in Children, t.task[c].st = "Completed" \/ t.entry[c] = "Completed"
                 PROVE  c \in done
      BY DEF InPlace
    <3>1. s.task[c].st = "Completed" \/ s.entry[c] = "Completed"
      BY <1>1, <1>2, EntryStatusFacts
    <3> QED BY <3>1 DEF Base, InPlace
  <2> QED BY <2>1, <2>2, <2>3, <2>4 DEF Base
<1>10. Mirror(t)
  BY <1>1, <1>8, ChildrenArePairs DEF Mirror
<1>11. CountedDone(t)
  <2> SUFFICES ASSUME NEW b \in Batches, t.batch[b].st = "Completed", NEW i \in 1..Files
               PROVE  t.entry[<<b, i>>] \in {"Completed", "Interrupted"}
    BY DEF CountedDone
  <2>1. HasEntries(t, b)
    BY <1>9 DEF Base, PlanFitsStatus
  <2>2. HasPlan(s, b)
    BY <1>1, <1>5, <2>1 DEF Base, PlanFitsStatus, HasPlan, HasEntries, Outside
  <2>3. t.entry[<<b, i>>] # "none"
    BY <1>9, <2>1 DEF Base, Whole
  <2> QED BY <1>6, <2>2, <2>3
<1>12. OverIsQuiet(t)
  <2> SUFFICES ASSUME NEW b \in Batches, t.batch[b].st \in Over, AllQueued(t, b), NEW i \in 1..Files
               PROVE  t.task[<<b, i>>].st \in Outside \cup Finished
    BY DEF OverIsQuiet, Quiet
  <2>1. CASE ~HasPlan(s, b)
    <3>1. t.batch[b].st = s.batch[b].st /\ s.batch[b].st \in Over
      BY <1>1, <2>1
    <3>2. ~HasEntries(s, b) /\ s.batch[b].st # "gone"
      BY <2>1, <3>1 DEF HasPlan, HasEntries, Over, Outside
    <3>3. s.task[<<b, i>>].st = "new"
      BY <3>2 DEF Base, Untouched
    <3> QED BY <1>1, <3>3 DEF Outside
  <2>2. CASE HasPlan(s, b)
    <3> SUFFICES ASSUME t.task[<<b, i>>].st \notin Outside PROVE t.task[<<b, i>>].st \in Finished
      OBVIOUS
    <3>1. t.entry[<<b, i>>] = EntryStatus(t.task[<<b, i>>].st) /\ t.task[<<b, i>>].st \in Statuses
      BY <1>1, <1>2, <2>2, ChildrenArePairs
    <3>2. t.entry[<<b, i>>] \notin {"Queued", "Running", "Paused", "NeedsAttention"}
      BY <1>6, <2>2
    <3> QED BY <3>1, <3>2, EntryStatusFacts DEF EntryStatuses
  <2> QED BY <2>1, <2>2
<1> QED BY <1>1, <1>7, <1>9, <1>10, <1>11, <1>12 DEF Shown

-----------------------------------------------------------------------------
(***************************************************************************)
(* The calls of the manager.                                               *)
(***************************************************************************)

\* No call enqueues a task for the first time or brings one back, and no call
\* ends a worker.
SameQueue(s, t) ==
    /\ s.live \subseteq t.live
    /\ \A c \in Children : /\ t.task[c].st = "new" <=> s.task[c].st = "new"
                           /\ s.task[c].st = "gone" => t.task[c].st = "gone"

Kin(s, t) == SameBatches(s, t) /\ SameQueue(s, t)

\* No transfer is set going.
Calm(s, t) == \A c \in Children : s.task[c].st \notin Waiting => t.task[c].st \notin Waiting

LEMMA BatchesChain ==
    ASSUME NEW s, NEW t, NEW u, SameBatches(s, t), SameBatches(t, u)
    PROVE  SameBatches(s, u)
  BY DEF SameBatches, SameBatch

LEMMA KinChain ==
    ASSUME NEW s, NEW t, NEW u
    PROVE  /\ Kin(s, s) /\ Calm(s, s)
           /\ Kin(s, t) /\ Kin(t, u) => Kin(s, u)
           /\ Calm(s, t) /\ Calm(t, u) => Calm(s, u)
<1>1. Kin(s, s) /\ Calm(s, s)
  BY DEF Kin, SameBatches, SameBatch, SameQueue, Calm
<1>2. SameBatches(s, t) /\ SameBatches(t, u) => SameBatches(s, u)
  BY DEF SameBatches, SameBatch
<1>3. SameQueue(s, t) /\ SameQueue(t, u) => SameQueue(s, u)
  BY DEF SameQueue
<1>4. Calm(s, t) /\ Calm(t, u) => Calm(s, u)
  BY DEF Calm
<1> QED BY <1>1, <1>2, <1>3, <1>4 DEF Kin

\* A change of the queue alone keeps what does not depend on the display.
LEMMA QueueKeepsBase ==
    ASSUME NEW s, NEW t, NEW done, Base(s, done), t.batch = s.batch, t.entry = s.entry,
           \A c \in Children : s.task[c].st = "new" => t.task[c].st = "new",
           \A c \in Children : t.task[c].st = "Completed" => c \in done
    PROVE  Base(t, done)
<1>1. Whole(t) /\ PlanFitsStatus(t)
  BY DEF Base, Whole, PlanFitsStatus, HasEntries
<1>2. Untouched(t)
  BY ChildrenArePairs DEF Base, Untouched, HasEntries
<1>3. InPlace(t, done)
  BY DEF Base, InPlace
<1> QED BY <1>1, <1>2, <1>3 DEF Base

LEMMA TakeFacts ==
    ASSUME NEW s \in States
    PROVE  LET t == Take(s)
           IN  /\ t \in States /\ t.order = s.order /\ t.batch = s.batch /\ t.entry = s.entry
               /\ s.live \subseteq t.live
               /\ \A c \in Children :
                     t.task[c] = s.task[c] \/ (s.task[c].st = "Queued" /\ t.task[c].st = "Running")
<1>1. s.order \in Seq(Children)
  BY DEF States
<1>2. PICK T : T = Taken(s)
  OBVIOUS
<1>3. T \subseteq {c \in Children : s.task[c].st = "Queued"}
  <2>1. \A i \in DOMAIN s.order : s.order[i] \in Children
    BY <1>1
  <2> QED BY <1>2, <2>1 DEF Taken
<1>4. PICK q : q = [c \in Children |-> IF c \in T THEN TakeTask(s.task[c]) ELSE s.task[c]]
  OBVIOUS
<1>5. \A c \in Children : s.task[c] \in TaskRecords
  BY DEF States
<1>6. \A c \in Children : TakeTask(s.task[c]) \in TaskRecords /\ TakeTask(s.task[c]).st = "Running"
  BY <1>5 DEF TakeTask, TaskRecords, Statuses, Codes
<1>7. q \in [Children -> TaskRecords]
  BY <1>4, <1>5, <1>6
<1>8. PICK t : t = Take(s)
  OBVIOUS
<1>9. t = [s EXCEPT !.task = q, !.live = @ \cup T]
  BY <1>2, <1>4, <1>8 DEF Take
<1>10. /\ t \in States /\ t.order = s.order /\ t.batch = s.batch /\ t.entry = s.entry
       /\ t.live = s.live \cup T /\ t.task = q
  BY <1>3, <1>7, <1>9 DEF States
<1> QED BY <1>3, <1>4, <1>6, <1>8, <1>10

LEMMA ScheduleFacts ==
    ASSUME NEW s \in States, NEW done, Base(s, done)
    PROVE  LET t == Schedule(s)
           IN  t \in States /\ Base(t, done) /\ Shown(t) /\ Kin(s, t) /\ Calm(s, t)
<1>1. PICK u \in States :
        /\ u = Take(s) /\ u.batch = s.batch /\ u.entry = s.entry /\ s.live \subseteq u.live
        /\ \A c \in Children :
              u.task[c] = s.task[c] \/ (s.task[c].st = "Queued" /\ u.task[c].st = "Running")
  BY TakeFacts
<1>2. Base(u, done)
  <2>1. \A c \in Children : u.task[c].st = "Completed" => c \in done
    BY <1>1 DEF Base, InPlace
  <2>2. \A c \in Children : s.task[c].st = "new" => u.task[c].st = "new"
    BY <1>1
  <2> QED BY <1>1, <2>1, <2>2, QueueKeepsBase
<1>3. PICK t \in States : t = ApplySnapshot(u) /\ t.task = u.task /\ t.live = u.live
  BY SnapshotFields
<1>4. Base(t, done) /\ Shown(t) /\ SameBatches(u, t)
  BY <1>2, <1>3, SnapshotShows
<1>5. SameBatches(s, t)
  BY <1>1, <1>4 DEF SameBatches, SameBatch, HasEntries
<1>6. SameQueue(s, t) /\ Calm(s, t)
  BY <1>1, <1>3 DEF SameQueue, Calm, Waiting
<1> QED BY <1>1, <1>3, <1>4, <1>5, <1>6 DEF Schedule, Kin

\* tasksChanged, then schedule().
LEMMA ChangedFacts ==
    ASSUME NEW s \in States, NEW done, Base(s, done)
    PROVE  LET t == Changed(s)
           IN  t \in States /\ Base(t, done) /\ Shown(t) /\ Kin(s, t) /\ Calm(s, t)
<1>1. PICK u \in States : u = ApplySnapshot(s) /\ u.task = s.task /\ u.live = s.live
  BY SnapshotFields
<1>2. Base(u, done) /\ SameBatches(s, u)
  BY <1>1, SnapshotShows
<1>3. Kin(s, u) /\ Calm(s, u)
  BY <1>1, <1>2 DEF Kin, SameQueue, Calm
<1>4. PICK t \in States : t = Schedule(u) /\ Base(t, done) /\ Shown(t) /\ Kin(u, t) /\ Calm(u, t)
  BY <1>2, ScheduleFacts
<1> QED BY <1>1, <1>3, <1>4, KinChain DEF Changed

\* What one call does to one task, before anybody sees it.
Unseen(s, op, c) ==
    LET r == [s EXCEPT !.task[c] = Applied(op, @)]
    IN  IF Erases(op) THEN Forget(r, c) ELSE r

LEMMA CallChanges ==
    ASSUME NEW s \in States, NEW op \in Ops, NEW c \in Children, s.task[c].st \notin Outside,
           NEW done, Base(s, done)
    PROVE  LET t == Unseen(s, op, c)
           IN  /\ t \in States /\ Base(t, done) /\ Kin(s, t)
               /\ op \in {"cancel", "pause", "dismiss"} => Calm(s, t)
               /\ t.task = [s.task EXCEPT ![c] = Applied(op, @)]
<1>1. PICK a : a = Applied(op, s.task[c])
  OBVIOUS
<1>2. /\ s.task[c] \in TaskRecords /\ a \in TaskRecords /\ a.st # "new"
      /\ a.st = "Completed" => s.task[c].st = "Completed"
      /\ op \in {"cancel", "pause", "dismiss"} /\ s.task[c].st \notin Waiting => a.st \notin Waiting
  BY <1>1, AppliedFacts DEF States, Outside
<1>3. PICK q : q = [s.task EXCEPT ![c] = a]
  OBVIOUS
<1>4. q \in [Children -> TaskRecords] /\ q[c] = a /\ \A d \in Children \ {c} : q[d] = s.task[d]
  BY <1>2, <1>3 DEF States
<1>5. PICK r : r = [s EXCEPT !.task[c] = Applied(op, @)]
  OBVIOUS
<1>6. r = [s EXCEPT !.task = q]
  BY <1>1, <1>3, <1>5 DEF States
<1>7. /\ r \in States /\ r.task = q /\ r.live = s.live /\ r.batch = s.batch /\ r.entry = s.entry
  BY <1>4, <1>6 DEF States
<1>8. PICK t : t = Unseen(s, op, c)
  OBVIOUS
<1>9. t = IF Erases(op) THEN Forget(r, c) ELSE r
  BY <1>5, <1>8 DEF Unseen
<1>10. /\ t \in States /\ t.task = q /\ t.live = s.live /\ t.batch = s.batch /\ t.entry = s.entry
  BY <1>7, <1>9 DEF States, Forget
<1>11. Base(t, done)
  <2>1. \A d \in Children : t.task[d].st = "Completed" => d \in done
    BY <1>2, <1>4, <1>10 DEF Base, InPlace
  <2>2. \A d \in Children : s.task[d].st = "new" => t.task[d].st = "new"
    BY <1>4, <1>10 DEF Outside
  <2> QED BY <1>10, <2>1, <2>2, QueueKeepsBase
<1>12. SameBatches(s, t)
  BY <1>10 DEF SameBatches, SameBatch, HasEntries
<1>13. SameQueue(s, t)
  BY <1>2, <1>4, <1>10 DEF SameQueue, Outside
<1>14. op \in {"cancel", "pause", "dismiss"} => Calm(s, t)
  BY <1>2, <1>4, <1>10 DEF Calm
<1> QED BY <1>1, <1>3, <1>5, <1>8, <1>10, <1>11, <1>12, <1>13, <1>14 DEF Kin

LEMMA CallFacts ==
    ASSUME NEW s \in States, NEW op \in Ops, NEW c \in Children, NEW done, Base(s, done)
    PROVE  LET t == Call(s, op, c)
           IN  /\ t \in States /\ Base(t, done) /\ Kin(s, t)
               /\ Shown(s) \/ Accepts(s, op, c) => Shown(t)
               /\ op \in {"cancel", "pause", "dismiss"} => Calm(s, t)
               /\ ~Accepts(s, op, c) => t = s
               /\ op = "dismiss" /\ Accepts(s, op, c)
                     => t.task = [s.task EXCEPT ![c] = DismissTask(@)]
<1>1. CASE ~Accepts(s, op, c)
  <2>1. Call(s, op, c) = s
    BY <1>1 DEF Call
  <2> QED BY <1>1, <2>1, KinChain
<1>2. CASE Accepts(s, op, c)
  <2>1. s.task[c].st \notin Outside
    BY <1>2 DEF Accepts
  <2>3. PICK t \in States :
          /\ t = Unseen(s, op, c)
          /\ Base(t, done) /\ Kin(s, t)
          /\ op \in {"cancel", "pause", "dismiss"} => Calm(s, t)
          /\ t.task = [s.task EXCEPT ![c] = Applied(op, @)]
    BY <2>1, CallChanges
  <2>4. PICK u \in States : u = ApplySnapshot(t) /\ u.task = t.task /\ u.live = t.live
    BY SnapshotFields
  <2>5. Base(u, done) /\ Shown(u) /\ Kin(t, u) /\ Calm(t, u)
    BY <2>3, <2>4, SnapshotShows DEF Kin, SameQueue, Calm
  <2>6. PICK v \in States : v = Schedule(u) /\ Base(v, done) /\ Shown(v) /\ Kin(u, v) /\ Calm(u, v)
    BY <2>5, ScheduleFacts
  <2>7. PICK w : w = Call(s, op, c)
    OBVIOUS
  <2>8. w = IF Schedules(op, s.task[c]) THEN v ELSE u
    BY <1>2, <2>3, <2>4, <2>6, <2>7 DEF Call, Unseen
  <2>9. Kin(s, u) /\ Kin(s, v)
    BY <2>3, <2>5, <2>6, KinChain
  <2>10. op \in {"cancel", "pause", "dismiss"} => Calm(s, u) /\ Calm(s, v)
    BY <2>3, <2>5, <2>6, KinChain
  <2>11. op = "dismiss" => w.task = [s.task EXCEPT ![c] = DismissTask(@)]
    BY <2>3, <2>4, <2>8 DEF Schedules, Applied
  <2> QED BY <1>2, <2>5, <2>6, <2>7, <2>8, <2>9, <2>10, <2>11
<1> QED BY <1>1, <1>2

-----------------------------------------------------------------------------
(***************************************************************************)
(* The loops.                                                              *)
(***************************************************************************)

\* Where a loop of calls may lead from s.
Reach(op, s, done) ==
    {t \in States : /\ Base(t, done) /\ Kin(s, t)
                    /\ Shown(s) => Shown(t)
                    /\ op \in {"cancel", "pause", "dismiss"} => Calm(s, t)}

LEMMA ReachChain ==
    ASSUME NEW op, NEW done, NEW s \in States, NEW t \in Reach(op, s, done),
           NEW u \in Reach(op, t, done)
    PROVE  u \in Reach(op, s, done)
  BY KinChain DEF Reach

LEMMA CallReaches ==
    ASSUME NEW op \in Ops, NEW done, NEW s \in States, NEW t \in Reach(op, s, done),
           NEW c \in Children
    PROVE  Call(t, op, c) \in Reach(op, s, done)
<1>1. t \in States /\ Base(t, done)
  BY DEF Reach
<1>2. Call(t, op, c) \in Reach(op, t, done)
  BY <1>1, CallFacts DEF Reach
<1> QED BY <1>2, ReachChain

\* CallEach(op, s, b)[i] is the state after i calls.
LEMMA CallEachRuns ==
    ASSUME NEW op \in Ops, NEW done, NEW s \in States, Base(s, done), NEW b \in Batches
    PROVE  LET h == CallEach(op, s, b)
           IN  /\ h \in [0..Files -> Reach(op, s, done)]
               /\ h[0] = s
               /\ \A i \in 1..Files : h[i] = Call(h[i - 1], op, <<b, i>>)
<1> DEFINE S == Reach(op, s, done)
<1>1. s \in S
  BY KinChain DEF Reach
<1>2. \A i \in 1..Files : <<b, i>> \in Children
  BY ChildrenArePairs
<1>3. PICK f : f = [p \in S \X (1..Files) |-> Call(p[1], op, <<b, p[2]>>)]
  OBVIOUS
<1>4. \A t \in S, i \in 1..Files : Call(t, op, <<b, i>>) \in S
  BY <1>2, CallReaches
<1> HIDE DEF S
<1>5. f \in [S \X (1..Files) -> S] /\ \A t \in S, i \in 1..Files : f[<<t, i>>] = Call(t, op, <<b, i>>)
  BY <1>3, <1>4
<1>6. PICK h \in [0..Files -> S] : Follows(h, f, s, Files)
  BY <1>1, <1>5, FirstFile, LoopRuns
<1>7. \A i \in 1..Files : h[i - 1] \in S /\ h[i] = Call(h[i - 1], op, <<b, i>>)
  <2>1. \A i \in 1..Files : i - 1 \in 0..Files
    BY FirstFile
  <2> QED BY <1>5, <1>6, <2>1 DEF Follows
<1>8. h = [i \in 0..Files |-> IF i = 0 THEN s ELSE Call(h[i - 1], op, <<b, i>>)]
  BY <1>6, <1>7, FirstFile DEF Follows
<1>9. PICK g : g = CallEach(op, s, b)
  OBVIOUS
<1>10. g = [i \in 0..Files |-> IF i = 0 THEN s ELSE Call(g[i - 1], op, <<b, i>>)]
  BY <1>8, <1>9 DEF CallEach
<1>11. /\ DOMAIN g = 0..Files /\ g[0] = s
       /\ \A i \in 1..Files : g[i] = Call(g[i - 1], op, <<b, i>>)
  BY <1>10, FirstFile
<1>12. g \in [0..Files -> S]
  <2>1. g = [i \in 0..Files |-> g[i]]
    BY <1>10
  <2>2. \A i \in 1..Files : g[i - 1] \in S => g[i] \in S
    BY <1>4, <1>11
  <2> QED BY <1>1, <1>11, <2>1, <2>2, FirstFile, LoopStays
<1> QED BY <1>9, <1>11, <1>12 DEF S

\* The calls for the transfers of the center.
LEMMA OnTasksReaches ==
    ASSUME NEW op \in Ops, NEW done, NEW s \in States, Base(s, done)
    PROVE  /\ OnTasks(op, s) \in Reach(op, s, done)
           /\ Range(CallOffered(op, s)) \subseteq Reach(op, s, done)
<1> DEFINE S == Reach(op, s, done)
           offered(i) == s.task[s.order[i]].st \in CenterOffers(op)
<1> HIDE DEF offered
<1>1. s \in S
  BY KinChain DEF Reach
<1>2. PICK n \in Nat : n = Len(s.order) /\ \A i \in 1..n : s.order[i] \in Children
  BY DEF States
<1>3. PICK f : f = [p \in S \X (1..n) |-> IF offered(p[2]) THEN Call(p[1], op, s.order[p[2]]) ELSE p[1]]
  OBVIOUS
<1>4. \A t \in S, i \in 1..n : Call(t, op, s.order[i]) \in S
  BY <1>2, CallReaches
<1> HIDE DEF S
<1>5. /\ f \in [S \X (1..n) -> S]
      /\ \A t \in S, i \in 1..n : f[<<t, i>>] = IF offered(i) THEN Call(t, op, s.order[i]) ELSE t
  BY <1>3, <1>4
<1>6. PICK h \in [0..n -> S] : Follows(h, f, s, n)
  BY <1>1, <1>5, LoopRuns
<1>7. \A i \in 1..n : /\ h[i - 1] \in S
                      /\ h[i] = IF offered(i) THEN Call(h[i - 1], op, s.order[i]) ELSE h[i - 1]
  <2>1. \A i \in 1..n : i - 1 \in 0..n
    OBVIOUS
  <2> QED BY <1>5, <1>6, <2>1 DEF Follows
<1>8. h = [i \in 0..n |-> IF i = 0 THEN s
                          ELSE IF offered(i) THEN Call(h[i - 1], op, s.order[i]) ELSE h[i - 1]]
  BY <1>6, <1>7 DEF Follows
<1>9. PICK g : g = CallOffered(op, s)
  OBVIOUS
<1>10. g = [i \in 0..n |-> IF i = 0 THEN s
                           ELSE IF offered(i) THEN Call(g[i - 1], op, s.order[i]) ELSE g[i - 1]]
  BY <1>2, <1>8, <1>9 DEF CallOffered, offered
<1>11. /\ g = [i \in 0..n |-> g[i]] /\ g[0] = s
       /\ \A i \in 1..n : g[i] = IF offered(i) THEN Call(g[i - 1], op, s.order[i]) ELSE g[i - 1]
  BY <1>10
<1>12. \A i \in 1..n : g[i - 1] \in S => g[i] \in S
  BY <1>4, <1>11
<1>13. g \in [0..n -> S]
  BY <1>1, <1>11, <1>12, LoopStays
<1>14. g[n] \in S /\ Range(g) \subseteq S
  BY <1>13 DEF Range
<1> QED BY <1>2, <1>9, <1>14 DEF OnTasks, S

\* What the manager does not cancel is over.
LEMMA NotCancelled ==
    ASSUME NEW s \in States, NEW c \in Children, ~Accepts(s, "cancel", c)
    PROVE  s.task[c].st \in Outside \cup Finished
<1>1. s.task[c].st \in Statuses \cup Outside
  BY DEF States, TaskRecords
<1>2. s.task[c].st \in Outside \/ ~CanCancel(s.task[c])
  BY DEF Accepts
<1> QED
  BY <1>1, <1>2 DEF CanCancel, CanTransition, CancelTarget, Successors, Statuses, Outside, Finished

LEMMA MarkFacts ==
    ASSUME NEW done, NEW s \in States, Base(s, done), NEW b \in Batches, s.batch[b].st \notin Outside
    PROVE  LET m == MarkCancelled(s, b)
           IN  /\ m \in States /\ Base(m, done) /\ Kin(s, m) /\ Calm(s, m)
               /\ Shown(s) /\ Quiet(m, b) => Shown(m)
<1>1. PICK m : m = MarkCancelled(s, b)
  OBVIOUS
<1>2. PICK after : after = [s.batch EXCEPT ![b].st = "Cancelled"]
  OBVIOUS
<1>3. /\ after \in [Batches -> BatchRecords] /\ after[b].st = "Cancelled"
      /\ \A x \in Batches \ {b} : after[x] = s.batch[x]
  BY <1>2 DEF States, BatchRecords, BatchStatuses
<1>4. m \in States /\ m.task = s.task /\ m.entry = s.entry /\ m.live = s.live /\ m.batch = after
  BY <1>1, <1>2, <1>3 DEF MarkCancelled, States
<1>5. \A x \in Batches : HasEntries(m, x) <=> HasEntries(s, x)
  BY <1>4 DEF HasEntries
<1>6. Base(m, done)
  <2>1. Whole(m) /\ InPlace(m, done)
    BY <1>4 DEF Base, Whole, InPlace, HasEntries
  <2>2. PlanFitsStatus(m)
    BY <1>3, <1>4, <1>5 DEF Base, PlanFitsStatus, Outside
  <2>3. Untouched(m)
    BY <1>3, <1>4, <1>5 DEF Base, Untouched, Outside
  <2> QED BY <2>1, <2>2, <2>3 DEF Base
<1>7. Kin(s, m) /\ Calm(s, m)
  BY <1>3, <1>4, <1>5 DEF Kin, SameBatches, SameBatch, SameQueue, Calm, Outside
<1>8. ASSUME Shown(s), Quiet(m, b) PROVE Shown(m)
  <2>1. \A x \in Batches : HasPlan(m, x) => HasPlan(s, x)
    BY <1>3, <1>4, <1>5 DEF Base, PlanFitsStatus, HasPlan, HasEntries
  <2>2. Mirror(m)
    BY <1>4, <1>8, <2>1, ChildrenArePairs DEF Shown, Mirror
  <2>3. CountedDone(m)
    BY <1>3, <1>4, <1>8 DEF Shown, CountedDone
  <2>4. OverIsQuiet(m)
    BY <1>3, <1>4, <1>8 DEF Shown, OverIsQuiet, AllQueued, Quiet
  <2> QED BY <2>2, <2>3, <2>4 DEF Shown
<1> QED BY <1>1, <1>4, <1>6, <1>7, <1>8

\* A batch marked as cancelled is shown as it is at the end of the loop: one of
\* its transfers was cancelled, or all of them were over.
LEMMA CancelLoop ==
    ASSUME NEW done, NEW s \in States, Base(s, done), Shown(s),
           NEW b \in Batches, s.batch[b].st \notin Outside
    PROVE  LET m == MarkCancelled(s, b)
               h == CallEach("cancel", m, b)
           IN  /\ h \in [0..Files -> Reach("cancel", m, done)]
               /\ Shown(h[Files])
               /\ \A i \in 0..Files : Base(h[i], done) /\ h[i] \in States /\ Kin(s, h[i]) /\ Calm(s, h[i])
<1>1. PICK m \in States : /\ m = MarkCancelled(s, b)
                          /\ Base(m, done) /\ Kin(s, m) /\ Calm(s, m)
                          /\ Quiet(m, b) => Shown(m)
  BY MarkFacts
<1>2. PICK h : h = CallEach("cancel", m, b)
  OBVIOUS
<1>3. /\ h \in [0..Files -> Reach("cancel", m, done)] /\ h[0] = m
      /\ \A i \in 1..Files : h[i] = Call(h[i - 1], "cancel", <<b, i>>)
  BY <1>1, <1>2, CallEachRuns DEF Ops
<1>4. \A i \in 0..Files : Base(h[i], done) /\ h[i] \in States /\ Kin(m, h[i]) /\ Calm(m, h[i])
  BY <1>3 DEF Reach
<1>5. \A i \in 0..Files : Kin(s, h[i]) /\ Calm(s, h[i])
  BY <1>1, <1>4, KinChain
<1> DEFINE Over1(i) == h[i] = m /\ \A j \in 1..i : m.task[<<b, j>>].st \in Outside \cup Finished
           T == {i \in 0..Files : Shown(h[i]) \/ Over1(i)}
<1>6. 0 \in T
  BY <1>3, FirstFile
<1>7. ASSUME NEW i \in 1..Files, i - 1 \in T PROVE i \in T
  <2>1. i - 1 \in 0..Files /\ i \in 0..Files
    BY FirstFile
  <2>2. h[i - 1] \in States /\ Base(h[i - 1], done) /\ <<b, i>> \in Children
    BY <1>4, <2>1, ChildrenArePairs
  <2>3. /\ Shown(h[i - 1]) \/ Accepts(h[i - 1], "cancel", <<b, i>>) => Shown(h[i])
        /\ ~Accepts(h[i - 1], "cancel", <<b, i>>) => h[i] = h[i - 1]
    BY <1>3, <2>2, CallFacts DEF Ops
  <2>4. CASE Shown(h[i])
    BY <2>1, <2>4
  <2>5. CASE ~Shown(h[i])
    <3>1. ~Accepts(h[i - 1], "cancel", <<b, i>>) /\ h[i] = h[i - 1] /\ Over1(i - 1)
      BY <1>7, <2>3, <2>5
    <3>2. m.task[<<b, i>>].st \in Outside \cup Finished
      BY <2>2, <3>1, NotCancelled
    <3>3. Over1(i)
      <4>1. \A j \in 1..i : j \in 1..(i - 1) \/ j = i
        OBVIOUS
      <4> QED BY <3>1, <3>2, <4>1
    <3> QED BY <2>1, <3>3
  <2> QED BY <2>4, <2>5
<1>8. Files \in T
  <2> HIDE DEF T
  <2>1. 0..Files \subseteq T
    BY <1>6, <1>7, FirstFile, UpTo
  <2> QED BY <2>1, FirstFile
<1>9. Shown(h[Files])
  BY <1>1, <1>8 DEF Quiet
<1> QED BY <1>1, <1>2, <1>3, <1>4, <1>5, <1>9

\* Starting the recovery timer shows in nothing else.
LEMMA PublishFacts ==
    ASSUME NEW done, NEW s \in States
    PROVE  LET t == PublishBatches(s)
           IN  /\ t \in States /\ t.task = s.task /\ t.entry = s.entry /\ t.batch = s.batch
               /\ t.live = s.live
               /\ Base(s, done) => Base(t, done)
               /\ Shown(s) => Shown(t)
               /\ Kin(s, t) /\ Calm(s, t)
<1>1. PICK t : t = PublishBatches(s)
  OBVIOUS
<1>2. /\ t \in States /\ t.task = s.task /\ t.entry = s.entry /\ t.batch = s.batch
      /\ t.live = s.live
  BY <1>1 DEF PublishBatches, States
<1>3. Base(s, done) => Base(t, done)
  BY <1>2 DEF Base, Whole, PlanFitsStatus, Untouched, InPlace, HasEntries
<1>4. Shown(s) => Shown(t)
  BY <1>2 DEF Shown, Mirror, CountedDone, OverIsQuiet, AllQueued, Quiet, HasPlan
<1>5. Kin(s, t) /\ Calm(s, t)
  BY <1>2 DEF Kin, SameBatches, SameBatch, SameQueue, Calm, HasEntries
<1> QED BY <1>1, <1>2, <1>3, <1>4, <1>5

AllOps == {"pause", "resume", "cancel"}

\* One batch of pauseAll(), resumeAll() or cancelAll().
LEMMA OnBatchReaches ==
    ASSUME NEW op \in AllOps, NEW done, NEW s \in States, Base(s, done), Shown(s),
           NEW b \in Batches, s.batch[b].st \notin Outside
    PROVE  OnBatch(op, s, b) \in Reach(op, s, done) /\ Shown(OnBatch(op, s, b))
<1>1. CASE op # "cancel"
  <2>0. PICK h : h = CallEach(op, s, b)
    OBVIOUS
  <2>1. Called(op, s, b) \in Reach(op, s, done)
    <3>1. h \in [0..Files -> Reach(op, s, done)] /\ op \in Ops
      BY <2>0, CallEachRuns DEF Ops, AllOps
    <3>2. Called(op, s, b) = h[Files] /\ Files \in 0..Files
      BY <2>0, FirstFile DEF Called
    <3> QED BY <3>1, <3>2
  <2>2. OnBatch(op, s, b) = Called(op, s, b)
    BY <1>1 DEF OnBatch
  <2> QED BY <2>1, <2>2 DEF Reach
<1>2. CASE op = "cancel"
  <2>1. PICK t : t = Called("cancel", MarkCancelled(s, b), b)
    OBVIOUS
  <2>2. t \in States /\ Base(t, done) /\ Shown(t) /\ Kin(s, t) /\ Calm(s, t)
    BY <2>1, CancelLoop, FirstFile DEF Called
  <2>3. PICK u \in States : /\ u = PublishBatches(t) /\ Base(u, done) /\ Shown(u)
                            /\ Kin(t, u) /\ Calm(t, u)
    BY <2>2, PublishFacts
  <2>4. Kin(s, u) /\ Calm(s, u)
    BY <2>2, <2>3, KinChain
  <2>5. OnBatch(op, s, b) = u
    BY <1>2, <2>1, <2>3 DEF OnBatch
  <2> QED BY <2>3, <2>4, <2>5 DEF Reach
<1> QED BY <1>1, <1>2

\* Between the calls for one batch.
LEMMA CallingPasses ==
    ASSUME NEW op \in AllOps, NEW done, NEW s \in States, Base(s, done), Shown(s),
           NEW b \in Batches, s.batch[b].st \notin Outside,
           NEW u \in Range(Calling(op, s, b))
    PROVE  u \in States /\ Base(u, done) /\ Kin(s, u)
<1>1. CASE op # "cancel"
  <2>1. PICK h : h = CallEach(op, s, b)
    OBVIOUS
  <2>2. h \in [0..Files -> Reach(op, s, done)]
    BY <2>1, CallEachRuns DEF Ops, AllOps
  <2>3. u \in Range(h)
    BY <1>1, <2>1 DEF Calling
  <2>4. u \in Reach(op, s, done)
    BY <2>2, <2>3 DEF Range
  <2> QED BY <2>4 DEF Reach
<1>2. CASE op = "cancel"
  <2>1. PICK h : h = CallEach("cancel", MarkCancelled(s, b), b)
    OBVIOUS
  <2>2. /\ DOMAIN h = 0..Files
        /\ \A i \in 0..Files : Base(h[i], done) /\ h[i] \in States /\ Kin(s, h[i])
    BY <2>1, CancelLoop
  <2>3. u \in Range(h)
    BY <1>2, <2>1 DEF Calling
  <2> QED BY <2>2, <2>3 DEF Range
<1> QED BY <1>1, <1>2

\* All batches that m_batches holds.
LEMMA OnBatchesReaches ==
    ASSUME NEW op \in AllOps, NEW done, NEW s \in States, Base(s, done), Shown(s),
           NEW bs \in Seq(Batches), \A i \in 1..Len(bs) : s.batch[bs[i]].st \notin Outside
    PROVE  \A i \in 0..Len(bs) : /\ OnBatches(op, s, bs)[i] \in Reach(op, s, done)
                                 /\ Shown(OnBatches(op, s, bs)[i])
<1> DEFINE S == {t \in Reach(op, s, done) : Shown(t)}
<1>1. s \in S
  BY KinChain DEF Reach
<1>2. PICK n \in Nat : n = Len(bs) /\ \A i \in 1..n : bs[i] \in Batches
  OBVIOUS
<1>3. PICK f : f = [p \in S \X (1..n) |-> OnBatch(op, p[1], bs[p[2]])]
  OBVIOUS
<1>4. ASSUME NEW t \in S, NEW i \in 1..n PROVE OnBatch(op, t, bs[i]) \in S
  <2>1. t \in States /\ Base(t, done) /\ Shown(t) /\ Kin(s, t) /\ t \in Reach(op, s, done)
    BY DEF Reach
  <2>2. t.batch[bs[i]].st \notin Outside
    BY <1>2, <2>1 DEF Kin, SameBatches, SameBatch
  <2>3. OnBatch(op, t, bs[i]) \in Reach(op, t, done) /\ Shown(OnBatch(op, t, bs[i]))
    BY <1>2, <2>1, <2>2, OnBatchReaches
  <2> QED BY <2>1, <2>3, ReachChain
<1> HIDE DEF S
<1>5. /\ f \in [S \X (1..n) -> S]
      /\ \A t \in S, i \in 1..n : f[<<t, i>>] = OnBatch(op, t, bs[i])
  BY <1>3, <1>4
<1>6. PICK h \in [0..n -> S] : Follows(h, f, s, n)
  BY <1>1, <1>5, LoopRuns
<1>7. \A i \in 1..n : h[i - 1] \in S /\ h[i] = OnBatch(op, h[i - 1], bs[i])
  <2>1. \A i \in 1..n : i - 1 \in 0..n
    OBVIOUS
  <2> QED BY <1>5, <1>6, <2>1 DEF Follows
<1>8. h = [i \in 0..n |-> IF i = 0 THEN s ELSE OnBatch(op, h[i - 1], bs[i])]
  BY <1>6, <1>7 DEF Follows
<1>9. PICK g : g = OnBatches(op, s, bs)
  OBVIOUS
<1>10. g = [i \in 0..n |-> IF i = 0 THEN s ELSE OnBatch(op, g[i - 1], bs[i])]
  BY <1>2, <1>8, <1>9 DEF OnBatches
<1>11. /\ g = [i \in 0..n |-> g[i]] /\ g[0] = s
       /\ \A i \in 1..n : g[i] = OnBatch(op, g[i - 1], bs[i])
  <2>1. g = [i \in 0..n |-> g[i]] /\ g[0] = s
    BY <1>10
  <2>2. \A i \in 1..n : i \in 0..n /\ i # 0
    OBVIOUS
  <2>3. \A i \in 1..n : g[i] = OnBatch(op, g[i - 1], bs[i])
    BY <1>10, <2>2
  <2> QED BY <2>1, <2>3
<1>12. \A i \in 1..n : g[i - 1] \in S => g[i] \in S
  BY <1>4, <1>11
<1>13. g \in [0..n -> S]
  BY <1>1, <1>11, <1>12, LoopStays
<1> QED BY <1>2, <1>9, <1>13 DEF S

\* Dismissing the transfers of a batch that are over leaves none.
LEMMA DismissLoop ==
    ASSUME NEW done, NEW s \in States, Base(s, done), NEW b \in Batches, Quiet(s, b)
    PROVE  \A i \in 1..Files : Called("dismiss", s, b).task[<<b, i>>].st \in Outside
<1>1. PICK h : h = CallEach("dismiss", s, b)
  OBVIOUS
<1>2. /\ h \in [0..Files -> Reach("dismiss", s, done)] /\ h[0] = s
      /\ \A i \in 1..Files : h[i] = Call(h[i - 1], "dismiss", <<b, i>>)
  BY <1>1, CallEachRuns DEF Ops
<1> DEFINE T == {n \in 0..Files : /\ Quiet(h[n], b)
                                  /\ \A i \in 1..n : h[n].task[<<b, i>>].st \in Outside}
<1>3. 0 \in T
  BY <1>2, FirstFile
<1>4. ASSUME NEW n \in 1..Files, n - 1 \in T PROVE n \in T
  <2>1. n - 1 \in 0..Files /\ n \in 0..Files
    BY FirstFile
  <2>2. PICK u : u = h[n - 1]
    OBVIOUS
  <2>3. PICK v : v = h[n]
    OBVIOUS
  <2>4. u \in States /\ Base(u, done) /\ <<b, n>> \in Children /\ v = Call(u, "dismiss", <<b, n>>)
    BY <1>2, <2>1, <2>2, <2>3, ChildrenArePairs DEF Reach
  <2>5. /\ ~Accepts(u, "dismiss", <<b, n>>) => v = u
        /\ Accepts(u, "dismiss", <<b, n>>) => v.task = [u.task EXCEPT ![<<b, n>>] = DismissTask(@)]
    BY <2>4, CallFacts DEF Ops
  <2>6. Accepts(u, "dismiss", <<b, n>>) <=> u.task[<<b, n>>].st \in Finished
    BY DEF Accepts, Outside, Finished
  <2>7. Quiet(u, b) /\ \A i \in 1..(n - 1) : u.task[<<b, i>>].st \in Outside
    BY <1>4, <2>2
  <2>8. v.task[<<b, n>>].st \in Outside
    <3>1. CASE Accepts(u, "dismiss", <<b, n>>)
      <4>1. v.task[<<b, n>>] = DismissTask(u.task[<<b, n>>])
        BY <2>4, <2>5, <3>1 DEF States
      <4>2. DismissTask(u.task[<<b, n>>]) = [NewTask EXCEPT !.st = "gone"]
        BY <2>6, <3>1 DEF DismissTask
      <4> QED BY <4>1, <4>2 DEF NewTask, Outside
    <3>2. CASE ~Accepts(u, "dismiss", <<b, n>>)
      BY <2>5, <2>6, <2>7, <3>2 DEF Quiet
    <3> QED BY <3>1, <3>2
  <2>9. \A i \in 1..Files : i # n => v.task[<<b, i>>] = u.task[<<b, i>>]
    <3>1. \A i \in 1..Files : i # n => <<b, i>> # <<b, n>> /\ <<b, i>> \in Children
      BY ChildrenArePairs
    <3> QED BY <2>4, <2>5, <3>1 DEF States
  <2>10. \A i \in 1..Files : v.task[<<b, i>>].st \in Outside \cup Finished
    BY <2>7, <2>8, <2>9 DEF Quiet
  <2>11. \A i \in 1..n : v.task[<<b, i>>].st \in Outside
    <3>1. \A i \in 1..n : i \in 1..Files /\ (i = n \/ (i # n /\ i \in 1..(n - 1)))
      BY FirstFile
    <3> QED BY <2>7, <2>8, <2>9, <3>1
  <2> QED BY <2>1, <2>3, <2>10, <2>11 DEF Quiet
<1>5. Files \in T
  <2> HIDE DEF T
  <2>1. 0..Files \subseteq T
    BY <1>3, <1>4, FirstFile, UpTo
  <2> QED BY <2>1, FirstFile
<1> QED BY <1>1, <1>5 DEF Called

\* The coordinator forgets a batch.
LEMMA ForgottenFacts ==
    ASSUME NEW done, NEW s \in States, Base(s, done), Shown(s), NEW b \in Batches
    PROVE  LET t == Forgotten(s, b)
           IN  /\ t \in States /\ Base(t, done) /\ Shown(t) /\ t.task = s.task /\ t.live = s.live
               /\ t.batch[b].st = "gone"
               /\ \A x \in Batches \ {b} : SameBatch(s, t, x)
<1>1. PICK after : after = [s.batch EXCEPT ![b].st = "gone"]
  OBVIOUS
<1>2. PICK left : left = [c \in Children |-> IF c[1] = b THEN "none" ELSE s.entry[c]]
  OBVIOUS
<1>3. /\ after \in [Batches -> BatchRecords] /\ after[b].st = "gone"
      /\ \A x \in Batches \ {b} : after[x] = s.batch[x]
  BY <1>1 DEF States, BatchRecords, BatchStatuses
<1>4. left \in [Children -> EntryStatuses]
  BY <1>2 DEF States, EntryStatuses
<1>5. \A x \in Batches, i \in 1..Files : left[<<x, i>>] = IF x = b THEN "none" ELSE s.entry[<<x, i>>]
  BY <1>2, ChildrenArePairs
<1>6. PICK u : u = [s EXCEPT !.batch[b].st = "gone",
                             !.entry = [c \in Children |-> IF c[1] = b THEN "none" ELSE s.entry[c]]]
  OBVIOUS
<1>7. u = [s EXCEPT !.batch = after, !.entry = left]
  BY <1>1, <1>2, <1>6 DEF States
<1>8. u \in States /\ u.task = s.task /\ u.live = s.live /\ u.batch = after /\ u.entry = left
  BY <1>3, <1>4, <1>7 DEF States
<1>9. ~HasEntries(u, b) /\ \A x \in Batches \ {b} : HasEntries(u, x) <=> HasEntries(s, x)
  BY <1>5, <1>8, FirstFile DEF HasEntries
<1>10. Base(u, done)
  <2>1. Whole(u)
    BY <1>5, <1>8, <1>9 DEF Base, Whole
  <2>2. PlanFitsStatus(u)
    BY <1>3, <1>8, <1>9 DEF Base, PlanFitsStatus
  <2>3. Untouched(u)
    BY <1>3, <1>8, <1>9 DEF Base, Untouched
  <2>4. InPlace(u, done)
    BY <1>2, <1>8 DEF Base, InPlace
  <2> QED BY <2>1, <2>2, <2>3, <2>4 DEF Base
<1>11. Shown(u)
  <2>1. \A x \in Batches : HasPlan(u, x) => x # b /\ HasPlan(s, x)
    BY <1>3, <1>8, <1>9 DEF HasPlan, HasEntries
  <2>2. Mirror(u)
    BY <1>2, <1>8, <2>1, ChildrenArePairs DEF Shown, Mirror
  <2>3. CountedDone(u)
    BY <1>3, <1>5, <1>8 DEF Shown, CountedDone
  <2>4. OverIsQuiet(u)
    BY <1>3, <1>5, <1>8 DEF Shown, OverIsQuiet, AllQueued, Quiet, Over
  <2> QED BY <2>2, <2>3, <2>4 DEF Shown
<1>12. \A x \in Batches \ {b} : SameBatch(s, u, x)
  BY <1>3, <1>8, <1>9 DEF SameBatch
<1>13. PICK t \in States : /\ t = PublishBatches(u) /\ t.task = u.task /\ t.entry = u.entry
                           /\ t.batch = u.batch /\ t.live = u.live /\ Base(t, done) /\ Shown(t)
  BY <1>8, <1>10, <1>11, PublishFacts
<1>14. t = Forgotten(s, b)
  BY <1>6, <1>13 DEF Forgotten
<1>15. \A x \in Batches \ {b} : SameBatch(s, t, x)
  BY <1>12, <1>13 DEF SameBatch, HasEntries
<1> QED BY <1>3, <1>8, <1>13, <1>14, <1>15

\* What becomes of the batches that clearFinishedTransfers() goes through.
ClearedFrom(s, B, done) ==
    {t \in States :
        /\ Base(t, done) /\ Shown(t) /\ SameQueue(s, t)
        /\ \A b \in Batches \ B : SameBatch(s, t, b)
        /\ \A b \in B : \/ SameBatch(s, t, b)
                        \/ /\ t.batch[b].st = "gone"
                           /\ AllQueued(s, b) => \A i \in 1..Files : t.task[<<b, i>>].st \in Outside}

LEMMA ClearedReaches ==
    ASSUME NEW done, NEW s \in States, Base(s, done), NEW B \in SUBSET Batches,
           NEW t \in ClearedFrom(s, B, done), NEW b \in B
    PROVE  /\ Cleared(t, b) \in ClearedFrom(s, B, done)
           /\ t.batch[b].st \in Over => Cleared(t, b).batch[b].st = "gone"
<1>0. /\ t \in States /\ Base(t, done) /\ Shown(t) /\ SameQueue(s, t)
      /\ \A x \in Batches \ B : SameBatch(s, t, x)
      /\ \A x \in B : \/ SameBatch(s, t, x)
                      \/ /\ t.batch[x].st = "gone"
                         /\ AllQueued(s, x) => \A i \in 1..Files : t.task[<<x, i>>].st \in Outside
  BY DEF ClearedFrom
<1>1. CASE t.batch[b].st \notin Over
  BY <1>1 DEF Cleared, BatchOffers, Over
<1>2. CASE t.batch[b].st \in Over
  <2>1. PICK u : u = Called("dismiss", t, b)
    OBVIOUS
  <2>2. u \in States /\ Base(u, done) /\ Shown(u) /\ Kin(t, u)
    <3>1. PICK h : h = CallEach("dismiss", t, b)
      OBVIOUS
    <3>2. h \in [0..Files -> Reach("dismiss", t, done)]
      BY <1>0, <3>1, CallEachRuns DEF Ops
    <3>3. u = h[Files] /\ Files \in 0..Files
      BY <2>1, <3>1, FirstFile DEF Called
    <3> QED BY <1>0, <3>2, <3>3 DEF Reach
  <2>3. PICK v \in States :
          /\ v = Forgotten(u, b) /\ Base(v, done) /\ Shown(v) /\ v.task = u.task /\ v.live = u.live
          /\ v.batch[b].st = "gone" /\ \A x \in Batches \ {b} : SameBatch(u, v, x)
    BY <2>2, ForgottenFacts
  <2>4. Cleared(t, b) = v
    BY <1>2, <2>1, <2>3 DEF Cleared, BatchOffers, Over
  <2>5. SameQueue(s, v)
    BY <1>0, <2>2, <2>3 DEF Kin, SameQueue
  <2>6. \A x \in Batches \ {b} : SameBatch(t, u, x) /\ SameBatch(u, v, x)
    BY <2>2, <2>3 DEF Kin, SameBatches
  <2>7. \A x \in Batches \ {b} : SameBatch(s, t, x) => SameBatch(s, v, x)
    BY <2>6 DEF SameBatch
  <2>8. ASSUME NEW x \in B \ {b}
        PROVE  \/ SameBatch(s, v, x)
               \/ /\ v.batch[x].st = "gone"
                  /\ AllQueued(s, x) => \A i \in 1..Files : v.task[<<x, i>>].st \in Outside
    <3>1. CASE SameBatch(s, t, x)
      BY <2>7, <3>1
    <3>2. CASE ~SameBatch(s, t, x)
      <4>1. v.batch[x].st = "gone"
        BY <1>0, <2>6, <3>2 DEF SameBatch, Outside
      <4>2. ASSUME AllQueued(s, x), NEW i \in 1..Files PROVE v.task[<<x, i>>].st \in Outside
        <5>1. t.task[<<x, i>>].st \in Outside /\ <<x, i>> \in Children
          BY <1>0, <3>2, <4>2, ChildrenArePairs
        <5> QED BY <2>2, <2>3, <5>1 DEF Kin, SameQueue, Outside
      <4> QED BY <4>1, <4>2
    <3> QED BY <3>1, <3>2
  <2>9. ASSUME AllQueued(s, b) PROVE \A i \in 1..Files : v.task[<<b, i>>].st \in Outside
    <3>1. SameBatch(s, t, b)
      BY <1>0, <1>2 DEF Over
    <3>2. AllQueued(t, b)
      <4> SUFFICES ASSUME NEW i \in 1..Files, t.entry[<<b, i>>] # "none"
                   PROVE  t.task[<<b, i>>].st # "new"
        BY DEF AllQueued
      <4>1. HasEntries(t, b) /\ HasEntries(s, b)
        BY <1>0, <3>1 DEF Base, Whole, SameBatch
      <4>2. s.entry[<<b, i>>] # "none" /\ <<b, i>> \in Children
        BY <4>1, ChildrenArePairs DEF Base, Whole
      <4> QED BY <1>0, <2>9, <4>2 DEF AllQueued, SameQueue
    <3>3. Quiet(t, b)
      BY <1>0, <1>2, <3>2 DEF Shown, OverIsQuiet
    <3>4. \A i \in 1..Files : u.task[<<b, i>>].st \in Outside
      BY <1>0, <2>1, <3>3, DismissLoop
    <3> QED BY <2>3, <3>4
  <2>10. \A x \in B : \/ SameBatch(s, v, x)
                      \/ /\ v.batch[x].st = "gone"
                         /\ AllQueued(s, x) => \A i \in 1..Files : v.task[<<x, i>>].st \in Outside
    BY <2>3, <2>8, <2>9
  <2>11. \A x \in Batches \ B : SameBatch(s, v, x)
    BY <1>0, <2>7
  <2>12. v \in ClearedFrom(s, B, done)
    BY <2>3, <2>5, <2>10, <2>11 DEF ClearedFrom
  <2> QED BY <2>3, <2>4, <2>12
<1> QED BY <1>0, <1>1, <1>2

LEMMA ClearEachReaches ==
    ASSUME NEW done, NEW s \in States, Base(s, done), Shown(s),
           NEW B \in SUBSET Batches, NEW bs \in Seq(B)
    PROVE  /\ DOMAIN ClearEach(s, bs) = 0..Len(bs)
           /\ \A i \in 0..Len(bs) : ClearEach(s, bs)[i] \in ClearedFrom(s, B, done)
<1> DEFINE S == ClearedFrom(s, B, done)
<1>1. s \in S
  BY KinChain DEF ClearedFrom, Kin, SameBatches
<1>2. PICK n \in Nat : n = Len(bs) /\ \A i \in 1..n : bs[i] \in B
  OBVIOUS
<1>3. PICK f : f = [p \in S \X (1..n) |-> Cleared(p[1], bs[p[2]])]
  OBVIOUS
<1>4. ASSUME NEW t \in S, NEW i \in 1..n PROVE Cleared(t, bs[i]) \in S
  BY <1>2, ClearedReaches
<1> HIDE DEF S
<1>5. /\ f \in [S \X (1..n) -> S]
      /\ \A t \in S, i \in 1..n : f[<<t, i>>] = Cleared(t, bs[i])
  BY <1>3, <1>4
<1>6. PICK h \in [0..n -> S] : Follows(h, f, s, n)
  BY <1>1, <1>5, LoopRuns
<1>7. \A i \in 1..n : h[i - 1] \in S /\ h[i] = Cleared(h[i - 1], bs[i])
  <2>1. \A i \in 1..n : i - 1 \in 0..n
    OBVIOUS
  <2> QED BY <1>5, <1>6, <2>1 DEF Follows
<1>8. h = [i \in 0..n |-> IF i = 0 THEN s ELSE Cleared(h[i - 1], bs[i])]
  BY <1>6, <1>7 DEF Follows
<1>9. PICK g : g = ClearEach(s, bs)
  OBVIOUS
<1>10. g = [i \in 0..n |-> IF i = 0 THEN s ELSE Cleared(g[i - 1], bs[i])]
  BY <1>2, <1>8, <1>9 DEF ClearEach
<1>11. g = [i \in 0..n |-> g[i]] /\ g[0] = s
  BY <1>10
<1>12. \A i \in 1..n : i \in 0..n /\ i # 0
  OBVIOUS
<1>13. \A i \in 1..n : g[i] = Cleared(g[i - 1], bs[i])
  BY <1>10, <1>12
<1>14. \A i \in 1..n : g[i - 1] \in S => g[i] \in S
  BY <1>4, <1>13
<1>15. g \in [0..n -> S]
  BY <1>1, <1>11, <1>14, LoopStays
<1> QED BY <1>2, <1>9, <1>15 DEF S

\* Between the calls for a batch that is cleared.
LEMMA ClearingPasses ==
    ASSUME NEW done, NEW s \in States, NEW B \in SUBSET Batches, NEW t \in ClearedFrom(s, B, done),
           NEW b \in Batches, NEW u \in Clearing(t, b)
    PROVE  u \in States /\ Base(u, done) /\ SameQueue(s, u)
<1>1. t \in States /\ Base(t, done) /\ SameQueue(s, t)
  BY DEF ClearedFrom
<1>2. PICK h : h = CallEach("dismiss", t, b)
  OBVIOUS
<1>3. h \in [0..Files -> Reach("dismiss", t, done)]
  BY <1>1, <1>2, CallEachRuns DEF Ops
<1>4. u \in Range(h)
  BY <1>2 DEF Clearing
<1>5. u \in Reach("dismiss", t, done)
  BY <1>3, <1>4 DEF Range
<1>6. u \in States /\ Base(u, done) /\ SameQueue(t, u)
  BY <1>5 DEF Reach, Kin
<1> QED BY <1>1, <1>6 DEF SameQueue

\* dismissFinished()
LEMMA DismissTasksFacts ==
    ASSUME NEW done, NEW s \in States, Base(s, done), Shown(s)
    PROVE  LET t == DismissTasks(s)
           IN  t \in States /\ Base(t, done) /\ Shown(t) /\ Kin(s, t) /\ Calm(s, t)
<1>1. PICK over : over = {c \in Children : s.task[c].st \in Finished}
  OBVIOUS
<1>2. CASE over = {}
  <2>1. DismissTasks(s) = s
    BY <1>1, <1>2 DEF DismissTasks
  <2> QED BY <2>1, KinChain
<1>3. CASE over # {}
  <2>1. PICK q : q = [c \in Children |-> DismissTask(s.task[c])]
    OBVIOUS
  <2>2. \A c \in Children :
           /\ s.task[c] \in TaskRecords /\ DismissTask(s.task[c]) \in TaskRecords
           /\ DismissTask(s.task[c]).st \in {s.task[c].st, "gone"}
           /\ s.task[c].st = "new" => DismissTask(s.task[c]).st = "new"
           /\ DismissTask(s.task[c]).st = "new" => s.task[c].st = "new"
    <3> SUFFICES ASSUME NEW r \in TaskRecords
                 PROVE  /\ DismissTask(r) \in TaskRecords /\ DismissTask(r).st \in {r.st, "gone"}
                        /\ r.st = "new" => DismissTask(r).st = "new"
                        /\ DismissTask(r).st = "new" => r.st = "new"
      BY DEF States
    <3>1. 0 \in 0..Size
      BY SizeAssumption
    <3> QED BY <3>1 DEF TaskRecords, DismissTask, NewTask, Outside, Codes, Finished
  <2>3. q \in [Children -> TaskRecords]
    BY <2>1, <2>2
  <2>4. PICK u : u = [s EXCEPT !.task = q, !.work = @ \ over, !.decided = @ \ over]
    OBVIOUS
  <2>5. u \in States /\ u.task = q /\ u.entry = s.entry /\ u.batch = s.batch /\ u.live = s.live
    BY <1>1, <2>3, <2>4 DEF States
  <2>6. Base(u, done)
    <3>1. \A c \in Children : u.task[c].st = "Completed" => c \in done
      BY <2>1, <2>2, <2>5 DEF Base, InPlace
    <3>2. \A c \in Children : s.task[c].st = "new" => u.task[c].st = "new"
      BY <2>1, <2>2, <2>5
    <3> QED BY <2>5, <3>1, <3>2, QueueKeepsBase
  <2>7. SameQueue(s, u) /\ Calm(s, u)
    BY <2>1, <2>2, <2>5 DEF SameQueue, Calm, Waiting
  <2>8. SameBatches(s, u)
    BY <2>5 DEF SameBatches, SameBatch, HasEntries
  <2>9. PICK t \in States : t = ApplySnapshot(u) /\ t.task = u.task /\ t.live = u.live
    BY <2>5, SnapshotFields
  <2>10. Base(t, done) /\ Shown(t) /\ SameBatches(u, t)
    BY <2>5, <2>6, <2>9, SnapshotShows
  <2>11. Kin(u, t) /\ Calm(u, t)
    BY <2>9, <2>10 DEF Kin, SameQueue, Calm
  <2>12. Kin(s, t) /\ Calm(s, t)
    BY <2>7, <2>8, <2>11, KinChain DEF Kin
  <2>13. DismissTasks(s) = t
    BY <1>1, <1>3, <2>1, <2>4, <2>9 DEF DismissTasks
  <2> QED BY <2>9, <2>10, <2>12, <2>13
<1> QED BY <1>2, <1>3

\* enqueue() of one child of a batch that has its plan.
LEMMA EnqueueFacts ==
    ASSUME NEW done, NEW s \in States, Base(s, done), NEW c \in Children, HasEntries(s, c[1])
    PROVE  LET t == EnqueueChild(s, c)
           IN  /\ t \in States /\ Base(t, done) /\ Shown(t) /\ SameBatches(s, t)
               /\ s.live \subseteq t.live
               /\ t.task[c].st \in Waiting
               /\ \A d \in Children \ {c} :
                     /\ t.task[d].st = "new" <=> s.task[d].st = "new"
                     /\ s.task[d].st = "gone" => t.task[d].st = "gone"
                     /\ s.task[d].st \notin Waiting => t.task[d].st \notin Waiting
<1>1. PICK q : q = [s.task EXCEPT ![c] = [st |-> "Queued", bytes |-> 0, code |-> ""]]
  OBVIOUS
<1>2. [st |-> "Queued", bytes |-> 0, code |-> ""] \in TaskRecords
  <2>1. 0 \in 0..Size
    BY SizeAssumption
  <2> QED BY <2>1 DEF TaskRecords, Statuses, Codes
<1>3. /\ q \in [Children -> TaskRecords] /\ q[c].st = "Queued"
      /\ \A d \in Children \ {c} : q[d] = s.task[d]
  BY <1>1, <1>2 DEF States
<1>4. PICK u : u = [s EXCEPT !.task[c] = [st |-> "Queued", bytes |-> 0, code |-> ""],
                             !.order = Append(@, c), !.work = @ \cup {c}]
  OBVIOUS
<1>5. u = [s EXCEPT !.task = q, !.order = Append(@, c), !.work = @ \cup {c}]
  BY <1>1, <1>4 DEF States
<1>6. u \in States /\ u.task = q /\ u.entry = s.entry /\ u.batch = s.batch /\ u.live = s.live
  <2>1. s.order \in Seq(Children) /\ s.work \subseteq Children
    BY DEF States
  <2>2. Append(s.order, c) \in Seq(Children) /\ s.work \cup {c} \subseteq Children
    BY <2>1
  <2> QED BY <1>3, <1>5, <2>2 DEF States
<1>7. SameBatches(s, u)
  BY <1>6 DEF SameBatches, SameBatch, HasEntries
<1>8. Base(u, done)
  <2>1. Whole(u) /\ PlanFitsStatus(u)
    BY <1>6 DEF Base, Whole, PlanFitsStatus, HasEntries
  <2>2. Untouched(u)
    <3> SUFFICES ASSUME NEW b \in Batches, u.batch[b].st # "gone", ~HasEntries(u, b), NEW i \in 1..Files
                 PROVE  u.task[<<b, i>>].st = "new"
      BY DEF Untouched
    <3>1. ~HasEntries(s, b)
      BY <1>6 DEF HasEntries
    <3>2. s.task[<<b, i>>].st = "new" /\ <<b, i>> # c /\ <<b, i>> \in Children
      BY <1>6, <3>1, ChildrenArePairs DEF Base, Untouched
    <3> QED BY <1>3, <1>6, <3>2
  <2>3. InPlace(u, done)
    BY <1>3, <1>6 DEF Base, InPlace
  <2> QED BY <2>1, <2>2, <2>3 DEF Base
<1>9. PICK v \in States : v = ApplySnapshot(u) /\ v.task = u.task /\ v.live = u.live
  BY <1>6, SnapshotFields
<1>10. Base(v, done) /\ SameBatches(u, v)
  BY <1>6, <1>8, <1>9, SnapshotShows
<1>11. PICK w \in States :
         /\ w = Take(v) /\ w.batch = v.batch /\ w.entry = v.entry /\ v.live \subseteq w.live
         /\ \A d \in Children :
               w.task[d] = v.task[d] \/ (v.task[d].st = "Queued" /\ w.task[d].st = "Running")
  BY <1>9, TakeFacts
<1>12. Base(w, done)
  <2>1. \A d \in Children : w.task[d].st = "Completed" => d \in done
    BY <1>10, <1>11 DEF Base, InPlace
  <2>2. \A d \in Children : v.task[d].st = "new" => w.task[d].st = "new"
    BY <1>11
  <2> QED BY <1>10, <1>11, <2>1, <2>2, QueueKeepsBase
<1>13. PICK t \in States : t = ApplySnapshot(w) /\ t.task = w.task /\ t.live = w.live
  BY <1>11, SnapshotFields
<1>14. Base(t, done) /\ Shown(t) /\ SameBatches(w, t)
  BY <1>11, <1>12, <1>13, SnapshotShows
<1>15. t = EnqueueChild(s, c)
  BY <1>4, <1>9, <1>11, <1>13 DEF EnqueueChild, Changed, Schedule
<1>16. SameBatches(s, t)
  <2>1. SameBatches(v, w)
    BY <1>11 DEF SameBatches, SameBatch, HasEntries
  <2>2. SameBatches(s, v)
    BY <1>7, <1>10, BatchesChain
  <2>3. SameBatches(s, w)
    BY <2>1, <2>2, BatchesChain
  <2> QED BY <1>14, <2>3, BatchesChain
<1>17. t.task[c].st \in Waiting /\ s.live \subseteq t.live
  BY <1>3, <1>6, <1>9, <1>11, <1>13 DEF Waiting
<1>18. \A d \in Children \ {c} :
          /\ t.task[d].st = "new" <=> s.task[d].st = "new"
          /\ s.task[d].st = "gone" => t.task[d].st = "gone"
          /\ s.task[d].st \notin Waiting => t.task[d].st \notin Waiting
  BY <1>3, <1>6, <1>9, <1>11, <1>13 DEF Waiting
<1> QED BY <1>14, <1>15, <1>16, <1>17, <1>18

\* The manager refuses a child.
LEMMA RefusedFacts ==
    ASSUME NEW done, NEW s \in States, Base(s, done), NEW c \in Children, HasEntries(s, c[1])
    PROVE  LET t == [s EXCEPT !.entry[c] = "Failed", !.batch[c[1]].st = "Failed"]
           IN  /\ t \in States /\ Base(t, done) /\ SameBatches(s, t)
               /\ t.task = s.task /\ t.live = s.live
               /\ Shown(s) /\ s.task[c].st = "new" => Shown(t)
<1> DEFINE b == c[1]
<1>0. b \in Batches /\ c[2] \in 1..Files /\ c = <<b, c[2]>>
  BY ChildrenArePairs
<1> HIDE DEF b
<1>1. PICK after : after = [s.batch EXCEPT ![b].st = "Failed"]
  OBVIOUS
<1>2. PICK left : left = [s.entry EXCEPT ![c] = "Failed"]
  OBVIOUS
<1>3. /\ after \in [Batches -> BatchRecords] /\ after[b].st = "Failed"
      /\ \A x \in Batches \ {b} : after[x] = s.batch[x]
  BY <1>0, <1>1 DEF States, BatchRecords, BatchStatuses
<1>4. /\ left \in [Children -> EntryStatuses] /\ left[c] = "Failed"
      /\ \A d \in Children \ {c} : left[d] = s.entry[d]
  BY <1>2 DEF States, EntryStatuses
<1>5. PICK t : t = [s EXCEPT !.entry[c] = "Failed", !.batch[b].st = "Failed"]
  OBVIOUS
<1>6. t = [s EXCEPT !.entry = left, !.batch = after]
  BY <1>1, <1>2, <1>5 DEF States
<1>7. t \in States /\ t.task = s.task /\ t.live = s.live /\ t.batch = after /\ t.entry = left
  BY <1>3, <1>4, <1>6 DEF States
<1>8. HasEntries(s, b) /\ s.entry[c] # "none" /\ s.batch[b].st \notin Outside \cup {"Discovering"}
  BY <1>0 DEF Base, Whole, PlanFitsStatus, b
<1>9. \A d \in Children : t.entry[d] # "none" <=> s.entry[d] # "none"
  BY <1>4, <1>7, <1>8
<1>10. \A x \in Batches : HasEntries(t, x) <=> HasEntries(s, x)
  BY <1>9, FirstFile, ChildrenArePairs DEF HasEntries
<1>11. Base(t, done)
  <2>1. Whole(t)
    BY <1>9, <1>10, ChildrenArePairs DEF Base, Whole
  <2>2. PlanFitsStatus(t)
    BY <1>3, <1>7, <1>8, <1>10 DEF Base, PlanFitsStatus, Outside
  <2>3. Untouched(t)
    BY <1>3, <1>7, <1>8, <1>10 DEF Base, Untouched
  <2>4. InPlace(t, done)
    BY <1>4, <1>7 DEF Base, InPlace
  <2> QED BY <2>1, <2>2, <2>3, <2>4 DEF Base
<1>12. SameBatches(s, t)
  BY <1>3, <1>7, <1>8, <1>10 DEF SameBatches, SameBatch, Outside
<1>13. ASSUME Shown(s), s.task[c].st = "new" PROVE Shown(t)
  <2>1. \A x \in Batches : HasPlan(t, x) => HasPlan(s, x)
    BY <1>3, <1>7, <1>8, <1>10 DEF HasPlan, HasEntries
  <2>2. Mirror(t)
    <3> SUFFICES ASSUME NEW d \in Children, HasPlan(t, d[1]), t.task[d].st \notin Outside
                 PROVE  t.entry[d] = EntryStatus(t.task[d].st)
      BY DEF Mirror
    <3>1. d # c
      BY <1>7, <1>13 DEF Outside
    <3>2. HasPlan(s, d[1])
      BY <2>1, ChildrenArePairs
    <3> QED BY <1>4, <1>7, <1>13, <3>1, <3>2 DEF Shown, Mirror
  <2>3. CountedDone(t)
    <3> SUFFICES ASSUME NEW x \in Batches, t.batch[x].st = "Completed", NEW i \in 1..Files
                 PROVE  t.entry[<<x, i>>] \in {"Completed", "Interrupted"}
      BY DEF CountedDone
    <3>1. x # b
      BY <1>3, <1>7
    <3>2. <<x, i>> # c /\ <<x, i>> \in Children
      BY <1>0, <3>1, ChildrenArePairs
    <3> QED BY <1>3, <1>4, <1>7, <1>13, <3>1, <3>2 DEF Shown, CountedDone
  <2>4. OverIsQuiet(t)
    <3> SUFFICES ASSUME NEW x \in Batches, t.batch[x].st \in Over, AllQueued(t, x)
                 PROVE  Quiet(t, x)
      BY DEF OverIsQuiet
    <3>1. x # b
      BY <1>0, <1>7, <1>8, <1>9, <1>13 DEF AllQueued
    <3>2. AllQueued(s, x)
      BY <1>7, <1>9, ChildrenArePairs DEF AllQueued
    <3>3. s.batch[x].st \in Over
      BY <1>3, <1>7, <3>1
    <3> QED BY <1>7, <1>13, <3>2, <3>3 DEF Shown, OverIsQuiet, Quiet
  <2> QED BY <2>2, <2>3, <2>4 DEF Shown
<1> QED BY <1>5, <1>7, <1>11, <1>12, <1>13 DEF b

\* A task that waits or runs is paused when it is told to.
LEMMA PausedAtOnce ==
    ASSUME NEW done, NEW s \in States, Base(s, done), NEW c \in Children, s.task[c].st \in Waiting
    PROVE  Call(s, "pause", c).task[c].st \notin Waiting
<1>1. s.task[c] \in TaskRecords /\ s.task[c].st \notin Outside /\ CanPause(s.task[c])
  BY DEF States, TaskRecords, Waiting, Outside, CanPause, CanTransition, PauseTarget, Successors, Statuses
<1>2. Accepts(s, "pause", c)
  BY <1>1 DEF Accepts
<1>3. PauseTask(s.task[c]).st \notin Waiting
  BY <1>1 DEF PauseTask, To, CanPause, PauseTarget, TaskRecords, Waiting
<1>4. PICK t \in States : /\ t = Unseen(s, "pause", c) /\ Base(t, done)
                          /\ t.task = [s.task EXCEPT ![c] = Applied("pause", @)]
  BY <1>1, CallChanges DEF Ops
<1>5. t.task[c].st \notin Waiting
  <2>1. t.task[c] = Applied("pause", s.task[c])
    BY <1>4 DEF States
  <2>2. Applied("pause", s.task[c]) = PauseTask(s.task[c])
    BY DEF Applied
  <2> QED BY <1>3, <2>1, <2>2
<1>6. PICK u \in States : u = ApplySnapshot(t) /\ u.task = t.task
  BY SnapshotFields
<1>7. Base(u, done)
  BY <1>4, <1>6, SnapshotShows
<1>8. PICK v : v = Schedule(u) /\ Calm(u, v)
  BY <1>7, ScheduleFacts
<1>9. Call(s, "pause", c) \in {u, v}
  BY <1>2, <1>4, <1>6, <1>8 DEF Call, Unseen
<1> QED BY <1>5, <1>6, <1>8, <1>9 DEF Calm

\* One child of the plan.
LEMMA PlacedFacts ==
    ASSUME NEW done, NEW s \in States, Base(s, done), NEW c \in Children, HasEntries(s, c[1]),
           NEW rejected
    PROVE  LET t == Placed(s, c, rejected)
           IN  /\ t \in States /\ Base(t, done) /\ SameBatches(s, t) /\ s.live \subseteq t.live
               /\ Shown(s) /\ s.task[c].st = "new" => Shown(t)
               /\ \A d \in Children \ {c} :
                     /\ t.task[d].st = "new" <=> s.task[d].st = "new"
                     /\ s.task[d].st = "gone" => t.task[d].st = "gone"
               /\ held => Calm(s, t)
<1>1. CASE c \in rejected
  <2>1. PICK t : t = [s EXCEPT !.entry[c] = "Failed", !.batch[c[1]].st = "Failed"]
    OBVIOUS
  <2>2. /\ t \in States /\ Base(t, done) /\ SameBatches(s, t) /\ t.task = s.task /\ t.live = s.live
        /\ Shown(s) /\ s.task[c].st = "new" => Shown(t)
    BY <2>1, RefusedFacts
  <2>3. Placed(s, c, rejected) = t
    BY <1>1, <2>1 DEF Placed
  <2> QED BY <2>2, <2>3 DEF Calm
<1>2. CASE c \notin rejected
  <2>1. PICK u \in States :
          /\ u = EnqueueChild(s, c) /\ Base(u, done) /\ Shown(u) /\ SameBatches(s, u)
          /\ s.live \subseteq u.live /\ u.task[c].st \in Waiting
          /\ \A d \in Children \ {c} :
                /\ u.task[d].st = "new" <=> s.task[d].st = "new"
                /\ s.task[d].st = "gone" => u.task[d].st = "gone"
                /\ s.task[d].st \notin Waiting => u.task[d].st \notin Waiting
    BY EnqueueFacts
  <2>2. CASE ~held
    <3>1. Placed(s, c, rejected) = u
      BY <1>2, <2>1, <2>2 DEF Placed
    <3> QED BY <2>1, <2>2, <3>1
  <2>3. CASE held
    <3>1. PICK t : t = Call(u, "pause", c)
      OBVIOUS
    <3>2. /\ t \in States /\ Base(t, done) /\ Kin(u, t) /\ Shown(t) /\ Calm(u, t)
      BY <2>1, <3>1, CallFacts DEF Ops
    <3>3. Placed(s, c, rejected) = t
      BY <1>2, <2>1, <2>3, <3>1 DEF Placed
    <3>4. SameBatches(s, t) /\ s.live \subseteq t.live
      BY <2>1, <3>2, BatchesChain DEF Kin, SameQueue
    <3>5. \A d \in Children \ {c} :
             /\ t.task[d].st = "new" <=> s.task[d].st = "new"
             /\ s.task[d].st = "gone" => t.task[d].st = "gone"
             /\ s.task[d].st \notin Waiting => t.task[d].st \notin Waiting
      BY <2>1, <3>2 DEF Kin, SameQueue, Calm
    <3>6. t.task[c].st \notin Waiting
      BY <2>1, <3>1, PausedAtOnce
    <3>7. Calm(s, t)
      BY <3>5, <3>6 DEF Calm
    <3> QED BY <3>2, <3>3, <3>4, <3>5, <3>7
  <2> QED BY <2>2, <2>3
<1> QED BY <1>1, <1>2

\* Where placing the children of a batch may lead.
PlacedFrom(s, b, done) ==
    {t \in States : /\ Base(t, done) /\ SameBatches(s, t) /\ s.live \subseteq t.live
                    /\ held => Calm(s, t)
                    /\ \A d \in Children : d[1] # b =>
                          /\ t.task[d].st = "new" <=> s.task[d].st = "new"
                          /\ s.task[d].st = "gone" => t.task[d].st = "gone"}

LEMMA PlacedReaches ==
    ASSUME NEW done, NEW s \in States, NEW b \in Batches, HasEntries(s, b),
           NEW t \in PlacedFrom(s, b, done), NEW i \in 1..Files, NEW rejected
    PROVE  Placed(t, <<b, i>>, rejected) \in PlacedFrom(s, b, done)
<1>1. <<b, i>> \in Children /\ <<b, i>>[1] = b
  BY ChildrenArePairs
<1>2. /\ t \in States /\ Base(t, done) /\ SameBatches(s, t) /\ HasEntries(t, b)
      /\ s.live \subseteq t.live /\ (held => Calm(s, t))
      /\ \A d \in Children : d[1] # b =>
            /\ t.task[d].st = "new" <=> s.task[d].st = "new"
            /\ s.task[d].st = "gone" => t.task[d].st = "gone"
  BY DEF PlacedFrom, SameBatches, SameBatch
<1>3. PICK u : u = Placed(t, <<b, i>>, rejected)
  OBVIOUS
<1>4. /\ u \in States /\ Base(u, done) /\ SameBatches(t, u) /\ t.live \subseteq u.live
      /\ held => Calm(t, u)
      /\ \A d \in Children \ {<<b, i>>} :
            /\ u.task[d].st = "new" <=> t.task[d].st = "new"
            /\ t.task[d].st = "gone" => u.task[d].st = "gone"
  BY <1>1, <1>2, <1>3, PlacedFacts
<1>5. SameBatches(s, u) /\ (held => Calm(s, u)) /\ s.live \subseteq u.live
  BY <1>2, <1>4, BatchesChain, KinChain
<1>6. \A d \in Children : d[1] # b =>
         /\ u.task[d].st = "new" <=> s.task[d].st = "new"
         /\ s.task[d].st = "gone" => u.task[d].st = "gone"
  BY <1>1, <1>2, <1>4
<1> QED BY <1>3, <1>4, <1>5, <1>6 DEF PlacedFrom

LEMMA PlaceEachRuns ==
    ASSUME NEW done, NEW s \in States, Base(s, done), NEW b \in Batches, HasEntries(s, b),
           NEW rejected, Shown(s), \A i \in 1..Files : s.task[<<b, i>>].st = "new"
    PROVE  LET h == PlaceEach(s, b, rejected)
           IN  /\ h \in [0..Files -> PlacedFrom(s, b, done)]
               /\ \A i \in 0..Files : Shown(h[i])
<1> DEFINE S == PlacedFrom(s, b, done)
<1>1. s \in S
  BY KinChain DEF PlacedFrom, Kin
<1>2. S \subseteq States
  BY DEF PlacedFrom
<1>3. PICK f : f = [p \in S \X (1..Files) |-> Placed(p[1], <<b, p[2]>>, rejected)]
  OBVIOUS
<1>4. \A t \in S, i \in 1..Files : Placed(t, <<b, i>>, rejected) \in S
  BY PlacedReaches
<1> HIDE DEF S
<1>5. /\ f \in [S \X (1..Files) -> S]
      /\ \A t \in S, i \in 1..Files : f[<<t, i>>] = Placed(t, <<b, i>>, rejected)
  BY <1>3, <1>4
<1>6. PICK h \in [0..Files -> S] : Follows(h, f, s, Files)
  BY <1>1, <1>5, FirstFile, LoopRuns
<1>7. \A i \in 1..Files : h[i - 1] \in S /\ h[i] = Placed(h[i - 1], <<b, i>>, rejected)
  <2>1. \A i \in 1..Files : i - 1 \in 0..Files
    BY FirstFile
  <2> QED BY <1>5, <1>6, <2>1 DEF Follows
<1>8. h = [i \in 0..Files |-> IF i = 0 THEN s ELSE Placed(h[i - 1], <<b, i>>, rejected)]
  BY <1>6, <1>7, FirstFile DEF Follows
<1>9. PICK g : g = PlaceEach(s, b, rejected)
  OBVIOUS
<1>10. g = [i \in 0..Files |-> IF i = 0 THEN s ELSE Placed(g[i - 1], <<b, i>>, rejected)]
  BY <1>8, <1>9 DEF PlaceEach
<1>11. /\ g = [i \in 0..Files |-> g[i]] /\ g[0] = s
  BY <1>10, FirstFile
<1>12. \A i \in 1..Files : i \in 0..Files /\ i # 0 /\ i - 1 \in 0..Files
  BY FirstFile
<1>13. \A i \in 1..Files : g[i] = Placed(g[i - 1], <<b, i>>, rejected)
  BY <1>10, <1>12
<1>14. \A i \in 1..Files : g[i - 1] \in S => g[i] \in S
  BY <1>4, <1>13
<1>15. g \in [0..Files -> S]
  BY <1>1, <1>11, <1>14, FirstFile, LoopStays
<1> DEFINE T == {n \in 0..Files : /\ Shown(g[n])
                                  /\ \A i \in 1..Files : i > n => g[n].task[<<b, i>>].st = "new"}
<1>16. 0 \in T
  BY <1>11, FirstFile
<1>17. ASSUME NEW n \in 1..Files, n - 1 \in T PROVE n \in T
  <2>1. PICK t : t = g[n - 1]
    OBVIOUS
  <2>2. PICK u : u = g[n]
    OBVIOUS
  <2>3. t \in States /\ Base(t, done) /\ HasEntries(t, b) /\ u = Placed(t, <<b, n>>, rejected)
    BY <1>12, <1>13, <1>15, <2>1, <2>2 DEF S, PlacedFrom, SameBatches, SameBatch
  <2>4. <<b, n>> \in Children /\ <<b, n>>[1] = b
    BY ChildrenArePairs
  <2>5. /\ Shown(t) /\ t.task[<<b, n>>].st = "new" => Shown(u)
        /\ \A d \in Children \ {<<b, n>>} : u.task[d].st = "new" <=> t.task[d].st = "new"
    BY <2>3, <2>4, PlacedFacts
  <2>6. Shown(t) /\ \A i \in 1..Files : i > n - 1 => t.task[<<b, i>>].st = "new"
    BY <1>17, <2>1
  <2>7. Shown(u)
    BY <2>5, <2>6, FirstFile
  <2>8. ASSUME NEW i \in 1..Files, i > n PROVE u.task[<<b, i>>].st = "new"
    <3>1. <<b, i>> \in Children /\ <<b, i>> # <<b, n>> /\ i > n - 1
      BY <2>8, FirstFile, ChildrenArePairs
    <3> QED BY <2>5, <2>6, <3>1
  <2> QED BY <1>12, <2>2, <2>7, <2>8
<1>18. \A i \in 0..Files : Shown(g[i])
  <2> HIDE DEF T
  <2>1. 0..Files \subseteq T
    BY <1>16, <1>17, FirstFile, UpTo
  <2> QED BY <2>1 DEF T
<1> QED BY <1>9, <1>15, <1>18 DEF S

\* A batch gets its plan.
LEMMA PlannedFacts ==
    ASSUME NEW done, NEW s \in States, Base(s, done), Shown(s), NEW b \in Batches,
           s.batch[b].st \notin Outside, ~HasEntries(s, b)
    PROVE  LET t == Planned(s, b)
           IN  /\ t \in States /\ Base(t, done) /\ Shown(t) /\ t.task = s.task /\ t.live = s.live
               /\ HasEntries(t, b) /\ t.batch[b].st \notin Outside
               /\ \A i \in 1..Files : t.task[<<b, i>>].st = "new"
               /\ \A x \in Batches \ {b} : SameBatch(s, t, x)
<1>1. PICK after : after = [s.batch EXCEPT ![b].st = "Running"]
  OBVIOUS
<1>2. PICK plan : plan = [c \in Children |-> IF c[1] = b THEN "Queued" ELSE s.entry[c]]
  OBVIOUS
<1>3. /\ after \in [Batches -> BatchRecords] /\ after[b].st = "Running"
      /\ \A x \in Batches \ {b} : after[x] = s.batch[x]
  BY <1>1 DEF States, BatchRecords, BatchStatuses
<1>4. plan \in [Children -> EntryStatuses]
  BY <1>2 DEF States, EntryStatuses
<1>5. \A x \in Batches, i \in 1..Files : plan[<<x, i>>] = IF x = b THEN "Queued" ELSE s.entry[<<x, i>>]
  BY <1>2, ChildrenArePairs
<1>6. PICK t : t = Planned(s, b)
  OBVIOUS
<1>7. t = [s EXCEPT !.batch = after, !.entry = plan]
  BY <1>1, <1>2, <1>6 DEF States, Planned
<1>8. t \in States /\ t.task = s.task /\ t.live = s.live /\ t.batch = after /\ t.entry = plan
  BY <1>3, <1>4, <1>7 DEF States
<1>9. HasEntries(t, b) /\ \A x \in Batches \ {b} : HasEntries(t, x) <=> HasEntries(s, x)
  BY <1>5, <1>8, FirstFile DEF HasEntries
<1>10. \A i \in 1..Files : s.task[<<b, i>>].st = "new"
  BY DEF Base, Untouched, Outside
<1>11. Base(t, done)
  <2>1. Whole(t)
    <3> SUFFICES ASSUME NEW x \in Batches, NEW i \in 1..Files
                 PROVE  t.entry[<<x, i>>] # "none" <=> HasEntries(t, x)
      BY DEF Whole
    <3>1. CASE x = b
      BY <1>5, <1>8, <1>9, <3>1
    <3>2. CASE x # b
      <4>1. t.entry[<<x, i>>] = s.entry[<<x, i>>]
        BY <1>5, <1>8, <3>2
      <4> QED BY <1>9, <3>2, <4>1 DEF Base, Whole
    <3> QED BY <3>1, <3>2
  <2>2. PlanFitsStatus(t)
    BY <1>3, <1>8, <1>9 DEF Base, PlanFitsStatus, Outside
  <2>3. Untouched(t)
    BY <1>3, <1>8, <1>9 DEF Base, Untouched
  <2>4. InPlace(t, done)
    BY <1>2, <1>8 DEF Base, InPlace
  <2> QED BY <2>1, <2>2, <2>3, <2>4 DEF Base
<1>12. Shown(t)
  <2>1. \A x \in Batches \ {b} : HasPlan(t, x) => HasPlan(s, x)
    BY <1>3, <1>8, <1>9 DEF HasPlan, HasEntries
  <2>2. Mirror(t)
    <3> SUFFICES ASSUME NEW d \in Children, HasPlan(t, d[1]), t.task[d].st \notin Outside
                 PROVE  t.entry[d] = EntryStatus(t.task[d].st)
      BY DEF Mirror
    <3>1. d[1] # b
      BY <1>8, <1>10, ChildrenArePairs DEF Outside
    <3>2. HasPlan(s, d[1])
      BY <2>1, <3>1, ChildrenArePairs
    <3> QED BY <1>2, <1>8, <3>1, <3>2 DEF Shown, Mirror
  <2>3. CountedDone(t)
    BY <1>3, <1>5, <1>8 DEF Shown, CountedDone
  <2>4. OverIsQuiet(t)
    BY <1>3, <1>5, <1>8 DEF Shown, OverIsQuiet, AllQueued, Quiet, Over
  <2> QED BY <2>2, <2>3, <2>4 DEF Shown
<1>13. \A x \in Batches \ {b} : SameBatch(s, t, x)
  BY <1>3, <1>8, <1>9 DEF SameBatch
<1>14. t.batch[b].st \notin Outside
  BY <1>3, <1>8 DEF Outside
<1> QED BY <1>6, <1>8, <1>9, <1>10, <1>11, <1>12, <1>13, <1>14

\* The end of the process leaves the tasks to the journal.
LEMMA LostFacts ==
    ASSUME NEW done, NEW s \in States, Base(s, done)
    PROVE  LET t == Lost(s)
           IN  /\ t \in States /\ Base(t, done) /\ t.task = s.task
               /\ \A b \in Batches : t.batch[b].st \in Outside
<1>1. PICK after : after = [b \in Batches |->
                               [st |-> IF s.batch[b].st = "new" THEN "new" ELSE "gone", auto |-> FALSE]]
  OBVIOUS
<1>2. PICK none : none = [c \in Children |-> "none"]
  OBVIOUS
<1>3. /\ after \in [Batches -> BatchRecords]
      /\ \A b \in Batches : /\ after[b].st \in {"new", "gone"}
                            /\ after[b].st = "new" => s.batch[b].st = "new"
  BY <1>1 DEF BatchRecords, BatchStatuses
<1>4. none \in [Children -> EntryStatuses] /\ \A c \in Children : none[c] = "none"
  BY <1>2 DEF EntryStatuses
<1>5. PICK t : t = Lost(s)
  OBVIOUS
<1>6. t = [s EXCEPT !.work = {}, !.decided = {}, !.live = {}, !.timer = FALSE,
                    !.entry = none, !.batch = after]
  BY <1>1, <1>2, <1>5 DEF Lost
<1>7. t \in States /\ t.task = s.task /\ t.batch = after /\ t.entry = none
  BY <1>3, <1>4, <1>6 DEF States
<1>8. \A b \in Batches : ~HasEntries(t, b)
  BY <1>4, <1>7, FirstFile, ChildrenArePairs DEF HasEntries
<1>9. Base(t, done)
  <2>1. Whole(t)
    BY <1>4, <1>7, <1>8, ChildrenArePairs DEF Whole
  <2>2. PlanFitsStatus(t)
    BY <1>3, <1>7, <1>8 DEF PlanFitsStatus
  <2>3. Untouched(t)
    <3> SUFFICES ASSUME NEW b \in Batches, t.batch[b].st # "gone"
                 PROVE  \A i \in 1..Files : s.task[<<b, i>>].st = "new"
      BY <1>7 DEF Untouched
    <3>1. s.batch[b].st = "new"
      BY <1>3, <1>7
    <3> QED BY <3>1 DEF Base, PlanFitsStatus, Untouched, Outside
  <2>4. InPlace(t, done)
    BY <1>4, <1>7 DEF Base, InPlace
  <2> QED BY <2>1, <2>2, <2>3, <2>4 DEF Base
<1> QED BY <1>3, <1>5, <1>7, <1>9 DEF Outside

-----------------------------------------------------------------------------
(***************************************************************************)
(* The inductive invariant.                                                *)
(***************************************************************************)

\* The batch file holds no batch without a plan, and nothing as completed
\* that is not.
FileTrue ==
    \A b \in Batches :
        /\ file[b] = NoBatch \/ \A i \in 1..Files : file[b].entries[i] # "none"
        /\ \A i \in 1..Files : file[b].entries[i] = "Completed" => <<b, i>> \in settled

\* A planner works for a batch that has no plan yet, and is cancelled at most.
PlannersAwaited ==
    up => \A b \in Batches : planner[b] # "none" =>
              batch[b].st \in {"Discovering", "Cancelled"} /\ ~HasEntries(Now, b)

\* Without a process there is no batch.
Down == ~up => \A b \in Batches : batch[b].st \in Outside

BatchInv ==
    /\ TypeOK
    /\ Base(Now, settled)
    /\ up => Shown(Now)
    /\ FileTrue
    /\ PlannersAwaited
    /\ Down

\* The actions of the three action properties.
QueuesOnlyPlans ==
    \A c \in Children : task[c].st = "new" /\ task'[c].st # "new" => batch[c[1]].st = "Discovering"

HoldsQueue ==
    held /\ up' /\ (planner' # planner \/ live \ live' # {}) =>
        \A c \in Children : task[c].st \notin {"Queued", "Running"} =>
                                task'[c].st \notin {"Queued", "Running"}

DismissedIsEmpty ==
    \A b \in Batches :
        /\ up /\ up' /\ Present(b) /\ batch'[b].st = "gone"
        /\ \A i \in 1..Files : entry[<<b, i>>] # "none" => task[<<b, i>>].st # "new"
        => \A i \in 1..Files : task'[<<b, i>>].st \in Outside

\* What every step does.
Safe == BatchInv' /\ QueuesOnlyPlans /\ HoldsQueue /\ DismissedIsEmpty

LEMMA NowIsState == TypeOK => Now \in States
  BY DEF TypeOK, Now, States, BatchRecords

LEMMA BecomesFacts ==
    ASSUME NEW t \in States, Becomes(t)
    PROVE  /\ Now' = t
           /\ task' = t.task /\ live' = t.live /\ batch' = t.batch /\ entry' = t.entry
           /\ order' \in Seq(Children) /\ work' \subseteq Children /\ decided' \subseteq Children
           /\ live' \subseteq Children /\ task' \in [Children -> TaskRecords] /\ timer' \in BOOLEAN
           /\ batch' \in [Batches -> BatchRecords] /\ entry' \in [Children -> EntryStatuses]
<1>1. t = [task |-> t.task, order |-> t.order, work |-> t.work, decided |-> t.decided,
           live |-> t.live, batch |-> t.batch, entry |-> t.entry, timer |-> t.timer]
  BY DEF States
<1>2. Now' = t
  BY <1>1 DEF Becomes, Now
<1> QED BY <1>2 DEF Becomes, States

LEMMA FromStates ==
    ASSUME NEW t \in States, Becomes(t), Base(t, settled'), up' => Shown(t),
           settled' \subseteq Children, up' \in BOOLEAN, held' \in BOOLEAN,
           planner' \in [Batches -> PlannerStates],
           file' \in [Batches -> [entries : [1..Files -> EntryStatuses], auto : BOOLEAN]],
           FileTrue',
           up' => \A b \in Batches : planner'[b] # "none" =>
                     t.batch[b].st \in {"Discovering", "Cancelled"} /\ ~HasEntries(t, b),
           ~up' => \A b \in Batches : t.batch[b].st \in Outside
    PROVE  BatchInv'
<1>1. TypeOK'
  BY BecomesFacts DEF TypeOK, BatchRecords
<1>2. Base(Now', settled') /\ (up' => Shown(Now'))
  BY BecomesFacts
<1>3. PlannersAwaited'
  BY BecomesFacts DEF PlannersAwaited
<1>4. Down'
  BY BecomesFacts DEF Down
<1> QED BY <1>1, <1>2, <1>3, <1>4 DEF BatchInv

\* A batch is forgotten only with nothing of it left in the queue.
Leaves(t, b) ==
    batch[b].st \notin Outside /\ t.batch[b].st = "gone" /\ AllQueued(Now, b) =>
        \A i \in 1..Files : t.task[<<b, i>>].st \in Outside

LEMMA SameLeaves ==
    ASSUME NEW t, NEW b, SameBatch(Now, t, b)
    PROVE  Leaves(t, b)
  BY DEF Leaves, SameBatch, Outside, Now

\* Only the files of a batch being discovered are queued for the first time.
OnlyPlanned(t) ==
    \A c \in Children : task[c].st = "new" /\ t.task[c].st # "new" => batch[c[1]].st = "Discovering"

\* A handler of the process runs to its end, or crashes after some calls.
LEMMA HandlerSteps ==
    ASSUME BatchInv, up, NEW between, NEW end \in States, Handler(between, end),
           \A s \in between : s \in States /\ Base(s, settled) /\ OnlyPlanned(s),
           Base(end, settled), Shown(end), OnlyPlanned(end),
           live \subseteq end.live, held /\ planner' # planner => Calm(Now, end),
           \A b \in Batches : Leaves(end, b),
           planner' \in [Batches -> PlannerStates],
           \A b \in Batches : planner'[b] # "none" => planner[b] # "none" /\ SameBatch(Now, end, b),
           UNCHANGED <<settled, file>>, held' \in BOOLEAN
    PROVE  Safe
<1>1. /\ TypeOK /\ FileTrue /\ Now \in States
      /\ \A b \in Batches : planner[b] # "none" =>
            batch[b].st \in {"Discovering", "Cancelled"} /\ ~HasEntries(Now, b)
  BY NowIsState DEF BatchInv, PlannersAwaited
<1>2. FileTrue'
  BY <1>1 DEF FileTrue
<1>3. settled' \subseteq Children /\ file' \in [Batches -> [entries : [1..Files -> EntryStatuses], auto : BOOLEAN]]
  BY <1>1 DEF TypeOK
<1>4. CASE Becomes(end) /\ up' = TRUE
  <2>1. \A b \in Batches : planner'[b] # "none" =>
           end.batch[b].st \in {"Discovering", "Cancelled"} /\ ~HasEntries(end, b)
    BY <1>1 DEF SameBatch, Now
  <2>2. BatchInv'
    BY <1>2, <1>3, <1>4, <2>1, FromStates
  <2>3. QueuesOnlyPlans
    BY <1>4, BecomesFacts DEF QueuesOnlyPlans, OnlyPlanned
  <2>4. HoldsQueue
    <3>1. live' = end.live /\ task' = end.task
      BY <1>4, BecomesFacts
    <3>2. live \ live' = {}
      BY <3>1
    <3> QED BY <3>1, <3>2 DEF HoldsQueue, Calm, Waiting, Now
  <2>5. DismissedIsEmpty
    <3> SUFFICES ASSUME NEW b \in Batches, Present(b), batch'[b].st = "gone", AllQueued(Now, b)
                 PROVE  \A i \in 1..Files : task'[<<b, i>>].st \in Outside
      BY DEF DismissedIsEmpty, AllQueued, Now
    <3>1. end.batch[b].st = "gone" /\ batch[b].st \notin Outside
      BY <1>4, BecomesFacts DEF Present
    <3> QED BY <1>4, <3>1, BecomesFacts DEF Leaves
  <2> QED BY <2>2, <2>3, <2>4, <2>5 DEF Safe
<1>5. CASE up' = FALSE /\ \E s \in between : Becomes(Lost(s))
  <2>1. PICK s \in between : Becomes(Lost(s))
    BY <1>5
  <2>2. PICK u \in States : u = s /\ Base(u, settled) /\ OnlyPlanned(u)
    BY <2>1
  <2>3. PICK t \in States : /\ t = Lost(u) /\ Base(t, settled) /\ t.task = u.task
                            /\ \A b \in Batches : t.batch[b].st \in Outside
    BY <2>2, LostFacts
  <2>4. Becomes(t)
    BY <2>1, <2>2, <2>3
  <2>5. BatchInv'
    BY <1>2, <1>3, <1>5, <2>3, <2>4, FromStates
  <2>6. QueuesOnlyPlans
    BY <2>2, <2>3, <2>4, BecomesFacts DEF QueuesOnlyPlans, OnlyPlanned
  <2> QED BY <1>5, <2>5, <2>6 DEF Safe, HoldsQueue, DismissedIsEmpty
<1> QED BY <1>4, <1>5 DEF Handler

\* A call that ends in a state the loops may lead to.
LEMMA ReachSteps ==
    ASSUME BatchInv, up, NEW between, NEW end \in States,
           Handler(between, end),
           \A s \in between : s \in States /\ Base(s, settled) /\ Kin(Now, s),
           Base(end, settled), Shown(end), Kin(Now, end),
           held /\ planner' # planner => Calm(Now, end),
           planner' \in [Batches -> PlannerStates],
           \A b \in Batches : planner'[b] # "none" => planner[b] # "none",
           UNCHANGED <<settled, file>>, held' \in BOOLEAN
    PROVE  Safe
<1>1. \A t : Kin(Now, t) => OnlyPlanned(t) /\ live \subseteq t.live /\ \A b \in Batches : SameBatch(Now, t, b)
  BY DEF Kin, SameQueue, SameBatches, OnlyPlanned, Now
<1> QED BY <1>1, SameLeaves, HandlerSteps

-----------------------------------------------------------------------------
(***************************************************************************)
(* The steps.                                                              *)
(***************************************************************************)
LEMMA NowFacts ==
    ASSUME BatchInv, up
    PROVE  /\ Now \in States /\ Base(Now, settled) /\ Shown(Now)
           /\ Kin(Now, Now) /\ Calm(Now, Now)
           /\ planner \in [Batches -> PlannerStates] /\ held \in BOOLEAN
  BY NowIsState, KinChain DEF BatchInv, TypeOK

LEMMA OnChildrenSteps ==
    ASSUME BatchInv, up, NEW op \in Ops, NEW b \in Batches, OnChildren(op, b),
           UNCHANGED <<settled, planner, held, file>>
    PROVE  Safe
<1>1. PICK h : h = CallEach(op, Now, b)
  OBVIOUS
<1>2. h \in [0..Files -> Reach(op, Now, settled)]
  BY <1>1, NowFacts, CallEachRuns
<1>3. \A i \in 0..Files :
         h[i] \in States /\ Base(h[i], settled) /\ Kin(Now, h[i]) /\ Shown(h[i])
  BY <1>2, NowFacts DEF Reach
<1>4. Handler(Range(h), h[Files])
  BY <1>1 DEF OnChildren, Called
<1>5. Files \in 0..Files
  BY FirstFile
<1>6. \A s \in Range(h) : s \in States /\ Base(s, settled) /\ Kin(Now, s)
  BY <1>2, <1>3 DEF Range
<1> QED BY <1>3, <1>4, <1>5, <1>6, NowFacts, ReachSteps

LEMMA StopPlannerFacts ==
    ASSUME NEW p \in PlannerStates
    PROVE  StopPlanner(p) \in PlannerStates /\ (StopPlanner(p) # "none" => p # "none")
  BY DEF StopPlanner, PlannerStates

LEMMA CancelBatchSteps ==
    ASSUME BatchInv, NEW b \in Batches, CancelBatch(b)
    PROVE  Safe
<1>1. /\ up /\ batch[b].st \notin Outside
      /\ planner' = [planner EXCEPT ![b] = StopPlanner(@)]
      /\ UNCHANGED <<settled, held, file>>
  BY DEF CancelBatch, BatchClicks, Clicks, BatchOffers, Outside
<1>2. PICK h : h = CallEach("cancel", MarkCancelled(Now, b), b)
  OBVIOUS
<1>3. /\ \A i \in 0..Files : Base(h[i], settled) /\ h[i] \in States /\ Kin(Now, h[i]) /\ Calm(Now, h[i])
      /\ Shown(h[Files]) /\ DOMAIN h = 0..Files
  BY <1>1, <1>2, NowFacts, CancelLoop DEF Now
<1>4. Files \in 0..Files
  BY FirstFile
<1>5. PICK t \in States : /\ t = PublishBatches(h[Files]) /\ Base(t, settled) /\ Shown(t)
                          /\ Kin(h[Files], t) /\ Calm(h[Files], t)
  BY <1>3, <1>4, PublishFacts
<1>6. Kin(Now, t) /\ Calm(Now, t)
  BY <1>3, <1>4, <1>5, KinChain
<1>7. Handler(Range(h), t)
  BY <1>2, <1>5 DEF CancelBatch, Called
<1>8. /\ planner' \in [Batches -> PlannerStates]
      /\ \A x \in Batches : planner'[x] # "none" => planner[x] # "none"
  BY <1>1, NowFacts, StopPlannerFacts
<1>9. \A s \in Range(h) : s \in States /\ Base(s, settled) /\ Kin(Now, s)
  BY <1>3 DEF Range
<1> QED BY <1>1, <1>5, <1>6, <1>7, <1>8, <1>9, NowFacts, ReachSteps

LEMMA DismissBatchSteps ==
    ASSUME BatchInv, NEW b \in Batches, DismissBatch(b)
    PROVE  Safe
<1>1. /\ up /\ batch[b].st \in Over /\ planner[b] = "none"
      /\ UNCHANGED <<settled, planner, held, file>>
  BY DEF DismissBatch, BatchClicks, Clicks, Dismissible, BatchOffers, Over
<1>2. PICK h : h = CallEach("dismiss", Now, b)
  OBVIOUS
<1>3. h \in [0..Files -> Reach("dismiss", Now, settled)]
  BY <1>1, <1>2, NowFacts, CallEachRuns DEF Ops
<1>4. \A i \in 0..Files :
         h[i] \in States /\ Base(h[i], settled) /\ Kin(Now, h[i]) /\ Shown(h[i])
  BY <1>1, <1>3, NowFacts DEF Reach
<1>5. Files \in 0..Files
  BY FirstFile
<1>6. PICK u \in States : u = h[Files] /\ Base(u, settled) /\ Kin(Now, u) /\ Shown(u)
  BY <1>4, <1>5
<1>7. PICK t \in States : /\ t = Forgotten(u, b) /\ Base(t, settled) /\ Shown(t)
                          /\ t.task = u.task /\ t.live = u.live
                          /\ \A x \in Batches \ {b} : SameBatch(u, t, x)
  BY <1>6, ForgottenFacts
<1>8. Handler(Range(h), t)
  BY <1>2, <1>6, <1>7 DEF DismissBatch, Called
<1>9. AllQueued(Now, b) => \A i \in 1..Files : t.task[<<b, i>>].st \in Outside
  <2> SUFFICES ASSUME AllQueued(Now, b)
               PROVE  \A i \in 1..Files : t.task[<<b, i>>].st \in Outside
    OBVIOUS
  <2>1. Quiet(Now, b)
    BY <1>1, NowFacts DEF Shown, OverIsQuiet, Now
  <2>2. \A i \in 1..Files : Called("dismiss", Now, b).task[<<b, i>>].st \in Outside
    BY <1>1, <2>1, NowFacts, DismissLoop
  <2> QED BY <1>2, <1>6, <1>7, <2>2 DEF Called
<1>10. \A x \in Batches \ {b} : SameBatch(Now, t, x)
  BY <1>6, <1>7 DEF Kin, SameBatches, SameBatch
<1>11. \A x \in Batches : Leaves(t, x)
  BY <1>9, <1>10, SameLeaves DEF Leaves
<1>12. OnlyPlanned(t) /\ live \subseteq t.live /\ \A i \in 0..Files : OnlyPlanned(h[i])
  BY <1>4, <1>6, <1>7 DEF Kin, SameQueue, OnlyPlanned, Now
<1>13. \A x \in Batches : planner'[x] # "none" => planner[x] # "none" /\ SameBatch(Now, t, x)
  BY <1>1, <1>10
<1>14. \A s \in Range(h) : s \in States /\ Base(s, settled) /\ OnlyPlanned(s)
  BY <1>3, <1>4, <1>12 DEF Range
<1> QED BY <1>1, <1>7, <1>8, <1>11, <1>12, <1>13, <1>14, NowFacts, HandlerSteps

\* A handler that makes a single change.
LEMMA EventSteps ==
    ASSUME BatchInv, up, up' = TRUE, NEW end \in States, Becomes(end),
           Base(end, settled), Shown(end), OnlyPlanned(end),
           live \subseteq end.live, held /\ planner' # planner => Calm(Now, end),
           \A b \in Batches : Leaves(end, b),
           planner' \in [Batches -> PlannerStates],
           \A b \in Batches : planner'[b] # "none" => planner[b] # "none" /\ SameBatch(Now, end, b),
           UNCHANGED <<settled, file>>, held' \in BOOLEAN
    PROVE  Safe
<1>1. Handler({}, end)
  BY DEF Handler
<1> QED BY <1>1, HandlerSteps

LEMMA KinEventSteps ==
    ASSUME BatchInv, up, up' = TRUE, NEW end \in States, Becomes(end),
           Base(end, settled), Shown(end), Kin(Now, end),
           UNCHANGED <<settled, planner, held, file>>
    PROVE  Safe
<1>1. /\ OnlyPlanned(end) /\ live \subseteq end.live
      /\ \A b \in Batches : SameBatch(Now, end, b)
  BY DEF Kin, SameQueue, SameBatches, OnlyPlanned, Now
<1> QED BY <1>1, NowFacts, SameLeaves, EventSteps

LEMMA CallChildSteps ==
    ASSUME BatchInv, NEW c \in Children, CallChild(c)
    PROVE  Safe
<1>1. up /\ up' = TRUE /\ UNCHANGED <<settled, planner, held, file>>
  BY DEF CallChild, Clicks, BatchInv, TypeOK
<1>2. PICK op \in Ops : Becomes(Call(Now, op, c))
  BY DEF CallChild, Ops
<1>3. PICK t \in States : /\ t = Call(Now, op, c) /\ Base(t, settled) /\ Shown(t) /\ Kin(Now, t)
  BY <1>1, NowFacts, CallFacts
<1> QED BY <1>1, <1>2, <1>3, KinEventSteps

\* A decision for the rest of a batch shows in nothing but its policy.
LEMMA PolicyFacts ==
    ASSUME NEW done, NEW s \in States, Base(s, done), Shown(s), NEW b \in Batches
    PROVE  LET t == PublishBatches([s EXCEPT !.batch[b].auto = TRUE])
           IN  t \in States /\ Base(t, done) /\ Shown(t) /\ Kin(s, t) /\ Calm(s, t)
<1>1. PICK after : after = [s.batch EXCEPT ![b].auto = TRUE]
  OBVIOUS
<1>2. after \in [Batches -> BatchRecords] /\ \A x \in Batches : after[x].st = s.batch[x].st
  BY <1>1 DEF States, BatchRecords
<1>3. PICK u : u = [s EXCEPT !.batch[b].auto = TRUE]
  OBVIOUS
<1>4. u = [s EXCEPT !.batch = after]
  BY <1>1, <1>3 DEF States
<1>5. u \in States /\ u.task = s.task /\ u.entry = s.entry /\ u.live = s.live /\ u.batch = after
  BY <1>2, <1>4 DEF States
<1>6. Base(u, done)
  BY <1>2, <1>5 DEF Base, Whole, PlanFitsStatus, Untouched, InPlace, HasEntries
<1>7. Shown(u)
  <2>1. \A x \in Batches : HasPlan(u, x) <=> HasPlan(s, x)
    BY <1>2, <1>5 DEF HasPlan
  <2>2. Mirror(u)
    BY <1>5, <2>1, ChildrenArePairs DEF Shown, Mirror
  <2>3. CountedDone(u)
    BY <1>2, <1>5 DEF Shown, CountedDone
  <2>4. OverIsQuiet(u)
    BY <1>2, <1>5 DEF Shown, OverIsQuiet, AllQueued, Quiet
  <2> QED BY <2>2, <2>3, <2>4 DEF Shown
<1>8. Kin(s, u) /\ Calm(s, u)
  BY <1>2, <1>5 DEF Kin, SameBatches, SameBatch, SameQueue, Calm, HasEntries
<1>9. PICK t \in States : /\ t = PublishBatches(u) /\ Base(t, done) /\ Shown(t)
                          /\ Kin(u, t) /\ Calm(u, t)
  BY <1>5, <1>6, <1>7, PublishFacts
<1> QED BY <1>3, <1>8, <1>9, KinChain

\* So does the decision for a child, until the call that follows it.
LEMMA DecidedFacts ==
    ASSUME NEW done, NEW s \in States, Base(s, done), NEW c \in Children
    PROVE  LET t == [s EXCEPT !.decided = @ \cup {c}]
           IN  /\ t \in States /\ Base(t, done) /\ (Shown(s) => Shown(t)) /\ Kin(s, t) /\ Calm(s, t)
               /\ t.task = s.task
<1>1. PICK t : t = [s EXCEPT !.decided = @ \cup {c}]
  OBVIOUS
<1>2. /\ t \in States /\ t.task = s.task /\ t.entry = s.entry /\ t.batch = s.batch
      /\ t.live = s.live
  BY <1>1 DEF States
<1>3. Base(t, done)
  BY <1>2 DEF Base, Whole, PlanFitsStatus, Untouched, InPlace, HasEntries
<1>4. Shown(s) => Shown(t)
  BY <1>2 DEF Shown, Mirror, CountedDone, OverIsQuiet, AllQueued, Quiet, HasPlan
<1>5. Kin(s, t) /\ Calm(s, t)
  BY <1>2 DEF Kin, SameBatches, SameBatch, SameQueue, Calm, HasEntries
<1> QED BY <1>1, <1>2, <1>3, <1>4, <1>5

LEMMA DecideSteps ==
    ASSUME BatchInv, NEW c \in Children, Decide(c)
    PROVE  Safe
<1>1. up /\ up' = TRUE /\ UNCHANGED <<settled, planner, held, file>>
  BY DEF Decide, Clicks, BatchInv, TypeOK
<1>2. PICK rest \in BOOLEAN :
         LET s == IF rest /\ Present(c[1])
                  THEN PublishBatches([Now EXCEPT !.batch[c[1]].auto = TRUE]) ELSE Now
         IN  Becomes(IF c \in work THEN Call([s EXCEPT !.decided = @ \cup {c}], "retry", c) ELSE s)
  BY DEF Decide
<1>3. PICK s : s = IF rest /\ Present(c[1])
                   THEN PublishBatches([Now EXCEPT !.batch[c[1]].auto = TRUE]) ELSE Now
  OBVIOUS
<1>4. s \in States /\ Base(s, settled) /\ Shown(s) /\ Kin(Now, s)
  BY <1>1, <1>3, NowFacts, PolicyFacts, ChildrenArePairs
<1>5. CASE c \notin work
  BY <1>1, <1>2, <1>3, <1>4, <1>5, KinEventSteps
<1>6. CASE c \in work
  <2>1. PICK u \in States : /\ u = [s EXCEPT !.decided = @ \cup {c}]
                            /\ Base(u, settled) /\ Shown(u) /\ Kin(s, u)
    BY <1>4, DecidedFacts
  <2>2. PICK t \in States : t = Call(u, "retry", c) /\ Base(t, settled) /\ Shown(t) /\ Kin(u, t)
    BY <2>1, CallFacts DEF Ops
  <2>3. Becomes(t)
    BY <1>2, <1>3, <1>6, <2>1, <2>2
  <2>4. Kin(Now, t)
    BY <1>4, <2>1, <2>2, KinChain
  <2> QED BY <1>1, <2>2, <2>3, <2>4, KinEventSteps
<1> QED BY <1>5, <1>6

\* The orders in which a set of batches can be gone through.
LEMMA SequencesOf ==
    ASSUME NEW B \in SUBSET Batches, NEW bs \in SetToSeqs(B)
    PROVE  bs \in Seq(B) /\ Len(bs) \in Nat /\ Len(bs) \in 0..Len(bs)
           /\ \A i \in 1..Len(bs) : bs[i] \in B
<1>1. Cardinality(B) \in Nat
  BY BatchesAssumption, FS_Subset, FS_CardinalityType
<1>2. bs \in [1..Cardinality(B) -> B]
  BY DEF SetToSeqs
<1>3. bs \in Seq(B)
  BY <1>1, <1>2
<1> QED BY <1>3

LEMMA OnAllSteps ==
    ASSUME BatchInv, up, NEW op \in AllOps, OnAll(op), held' \in BOOLEAN,
           planner' \in [Batches -> PlannerStates],
           \A b \in Batches : planner'[b] # "none" => planner[b] # "none",
           op # "cancel" => planner' = planner,
           UNCHANGED <<settled, file>>
    PROVE  Safe
<1>1. PICK B : B = {b \in Batches : Present(b)}
  OBVIOUS
<1>2. PICK bs \in SetToSeqs(B) :
         Handler((UNION {Range(Calling(op, OnBatches(op, Now, bs)[i - 1], bs[i])) : i \in 1..Len(bs)})
                     \cup Range(CallOffered(op, OnBatches(op, Now, bs)[Len(bs)])),
                 OnTasks(op, OnBatches(op, Now, bs)[Len(bs)]))
  BY <1>1 DEF OnAll
<1>3. /\ bs \in Seq(B) /\ Len(bs) \in Nat /\ Len(bs) \in 0..Len(bs)
      /\ \A i \in 1..Len(bs) : bs[i] \in B
  BY <1>1, <1>2, SequencesOf
<1>4. bs \in Seq(Batches)
  BY <1>1, <1>3
<1>5. \A i \in 1..Len(bs) : Now.batch[bs[i]].st \notin Outside
  BY <1>1, <1>3 DEF Present, Now
<1>6. PICK h : h = OnBatches(op, Now, bs)
  OBVIOUS
<1>7. \A i \in 0..Len(bs) : h[i] \in Reach(op, Now, settled) /\ Shown(h[i])
  BY <1>4, <1>5, <1>6, NowFacts, OnBatchesReaches
<1>8. PICK u : u = h[Len(bs)]
  OBVIOUS
<1>9. u \in States /\ Base(u, settled) /\ u \in Reach(op, Now, settled)
  BY <1>3, <1>7, <1>8 DEF Reach
<1>10. PICK t : t = OnTasks(op, u)
  OBVIOUS
<1>11. t \in Reach(op, u, settled) /\ Range(CallOffered(op, u)) \subseteq Reach(op, u, settled)
  BY <1>9, <1>10, OnTasksReaches DEF AllOps, Ops
<1>12. t \in Reach(op, Now, settled)
  BY <1>9, <1>11, NowFacts, ReachChain
<1>13. /\ t \in States /\ Base(t, settled) /\ Shown(t) /\ Kin(Now, t)
       /\ op = "cancel" => Calm(Now, t)
  BY <1>12, NowFacts DEF Reach
<1>14. PICK between :
          between = (UNION {Range(Calling(op, h[i - 1], bs[i])) : i \in 1..Len(bs)})
                        \cup Range(CallOffered(op, u))
  OBVIOUS
<1>15. Handler(between, t)
  BY <1>2, <1>6, <1>8, <1>10, <1>14
<1>16. ASSUME NEW s \in between PROVE s \in States /\ Base(s, settled) /\ Kin(Now, s)
  <2>1. CASE s \in Range(CallOffered(op, u))
    <3>1. s \in Reach(op, Now, settled)
      BY <1>9, <1>11, <2>1, NowFacts, ReachChain
    <3> QED BY <3>1 DEF Reach
  <2>2. CASE \E i \in 1..Len(bs) : s \in Range(Calling(op, h[i - 1], bs[i]))
    <3>1. PICK i \in 1..Len(bs) : s \in Range(Calling(op, h[i - 1], bs[i]))
      BY <2>2
    <3>2. i - 1 \in 0..Len(bs) /\ bs[i] \in Batches
      BY <1>3, <1>4
    <3>3. PICK v \in States : /\ v = h[i - 1] /\ Base(v, settled) /\ Shown(v) /\ Kin(Now, v)
      BY <1>7, <3>2 DEF Reach
    <3>4. v.batch[bs[i]].st \notin Outside
      BY <1>5, <3>2, <3>3 DEF Kin, SameBatches, SameBatch
    <3>5. s \in States /\ Base(s, settled) /\ Kin(v, s)
      BY <3>1, <3>2, <3>3, <3>4, CallingPasses
    <3> QED BY <3>3, <3>5, KinChain
  <2>3. \/ s \in Range(CallOffered(op, u))
        \/ s \in UNION {Range(Calling(op, h[i - 1], bs[i])) : i \in 1..Len(bs)}
    BY <1>14
  <2>4. s \in UNION {Range(Calling(op, h[i - 1], bs[i])) : i \in 1..Len(bs)}
          => \E i \in 1..Len(bs) : s \in Range(Calling(op, h[i - 1], bs[i]))
    OBVIOUS
  <2> QED BY <2>1, <2>2, <2>3, <2>4
<1> QED BY <1>13, <1>15, <1>16, ReachSteps

LEMMA AllSteps ==
    ASSUME BatchInv, PauseAll \/ ResumeAll \/ CancelAll
    PROVE  Safe
<1>1. up
  BY DEF PauseAll, ResumeAll, CancelAll, Clicks
<1>2. CASE PauseAll
  BY <1>1, <1>2, NowFacts, OnAllSteps DEF PauseAll, AllOps
<1>3. CASE ResumeAll
  BY <1>1, <1>3, NowFacts, OnAllSteps DEF ResumeAll, AllOps
<1>4. CASE CancelAll
  <2>1. planner' \in [Batches -> PlannerStates] /\ \A b \in Batches : planner'[b] # "none" => planner[b] # "none"
    BY <1>1, <1>4, NowFacts, StopPlannerFacts DEF CancelAll
  <2> QED BY <1>1, <1>4, <2>1, NowFacts, OnAllSteps DEF CancelAll, AllOps
<1> QED BY <1>2, <1>3, <1>4

LEMMA ClearFinishedSteps ==
    ASSUME BatchInv, ClearFinished
    PROVE  Safe
<1>1. up /\ UNCHANGED <<settled, planner, held, file>>
  BY DEF ClearFinished, Clicks
<1>2. PICK B : B = {b \in Batches : batch[b].st \in BatchOffers("dismiss") /\ Dismissible(b)}
  OBVIOUS
<1>3. \A b \in B : b \in Batches /\ planner[b] = "none"
  BY <1>2 DEF Dismissible
<1>4. PICK bs \in SetToSeqs(B) :
         Handler(Range(ClearEach(Now, bs))
                     \cup (UNION {Clearing(ClearEach(Now, bs)[i - 1], bs[i]) : i \in 1..Len(bs)}),
                 DismissTasks(ClearEach(Now, bs)[Len(bs)]))
  BY <1>2 DEF ClearFinished
<1>5. bs \in Seq(B) /\ Len(bs) \in Nat /\ Len(bs) \in 0..Len(bs) /\ B \in SUBSET Batches
  BY <1>3, <1>4, SequencesOf
<1>6. PICK h : h = ClearEach(Now, bs)
  OBVIOUS
<1>7. \A i \in 0..Len(bs) : h[i] \in ClearedFrom(Now, B, settled)
  BY <1>1, <1>5, <1>6, NowFacts, ClearEachReaches
<1>8. DOMAIN h = 0..Len(bs)
  BY <1>1, <1>5, <1>6, NowFacts, ClearEachReaches
<1>9. PICK u : u = h[Len(bs)]
  OBVIOUS
<1>10. /\ u \in States /\ Base(u, settled) /\ Shown(u) /\ SameQueue(Now, u)
       /\ \A b \in Batches \ B : SameBatch(Now, u, b)
       /\ \A b \in B : \/ SameBatch(Now, u, b)
                       \/ AllQueued(Now, b) => \A i \in 1..Files : u.task[<<b, i>>].st \in Outside
  BY <1>5, <1>7, <1>9 DEF ClearedFrom
<1>11. PICK t \in States : t = DismissTasks(u) /\ Base(t, settled) /\ Shown(t) /\ Kin(u, t)
  BY <1>10, DismissTasksFacts
<1>12. SameQueue(Now, t)
  BY <1>10, <1>11 DEF Kin, SameQueue
<1>13. \A b \in Batches : SameBatch(Now, u, b) => SameBatch(Now, t, b)
  BY <1>11 DEF Kin, SameBatches, SameBatch
<1>14. \A b \in Batches : Leaves(t, b)
  <2> SUFFICES ASSUME NEW b \in Batches, ~SameBatch(Now, t, b), AllQueued(Now, b), NEW i \in 1..Files
               PROVE  t.task[<<b, i>>].st \in Outside
    BY SameLeaves DEF Leaves
  <2>1. u.task[<<b, i>>].st \in Outside
    BY <1>10, <1>13
  <2> QED BY <1>11, <2>1, ChildrenArePairs DEF Kin, SameQueue, Outside
<1>15. \A b \in Batches : planner'[b] # "none" => planner[b] # "none" /\ SameBatch(Now, t, b)
  BY <1>1, <1>3, <1>10, <1>13
<1>16. OnlyPlanned(t) /\ live \subseteq t.live
  BY <1>12 DEF SameQueue, OnlyPlanned, Now
<1>17. PICK between :
          between = Range(h) \cup (UNION {Clearing(h[i - 1], bs[i]) : i \in 1..Len(bs)})
  OBVIOUS
<1>18. Handler(between, t)
  BY <1>4, <1>6, <1>9, <1>11, <1>17
<1>19. ASSUME NEW s \in between PROVE s \in States /\ Base(s, settled) /\ OnlyPlanned(s)
  <2>1. s \in States /\ Base(s, settled) /\ SameQueue(Now, s)
    <3>1. CASE s \in Range(h)
      BY <1>7, <1>8, <3>1 DEF ClearedFrom, Range
    <3>2. CASE \E i \in 1..Len(bs) : s \in Clearing(h[i - 1], bs[i])
      <4>1. PICK i \in 1..Len(bs) : s \in Clearing(h[i - 1], bs[i])
        BY <3>2
      <4>2. i - 1 \in 0..Len(bs) /\ bs[i] \in Batches
        BY <1>5
      <4>3. PICK v \in ClearedFrom(Now, B, settled) : v = h[i - 1]
        BY <1>7, <4>2
      <4> QED BY <1>1, <1>5, <4>1, <4>2, <4>3, NowFacts, ClearingPasses
    <3> QED BY <1>17, <3>1, <3>2
  <2> QED BY <2>1 DEF SameQueue, OnlyPlanned, Now
<1> QED BY <1>1, <1>11, <1>14, <1>15, <1>16, <1>18, <1>19, NowFacts, HandlerSteps

LEMMA PlannerEndsSteps ==
    ASSUME BatchInv, NEW b \in Batches, PlannerEnds(b)
    PROVE  Safe
<1>1. /\ up /\ up' = TRUE /\ planner[b] # "none" /\ UNCHANGED <<settled, held, file>>
      /\ planner' \in [Batches -> PlannerStates]
      /\ \A x \in Batches : planner'[x] # "none" => planner[x] # "none"
  BY DEF PlannerEnds, BatchInv, TypeOK, PlannerStates, managerVars
<1>2. Becomes(Now)
  BY DEF PlannerEnds, managerVars, coordinatorVars, Becomes, Now
<1>3. OnlyPlanned(Now) /\ live \subseteq Now.live /\ \A x \in Batches : SameBatch(Now, Now, x)
  BY <1>1, NowFacts DEF OnlyPlanned, Now, Kin, SameBatches
<1> QED BY <1>1, <1>2, <1>3, NowFacts, SameLeaves, EventSteps

\* The discovery of a batch ends without a plan.
Unplanned(s, b, st) == PublishBatches([s EXCEPT !.batch[b].st = st])

LEMMA UnplannedFacts ==
    ASSUME NEW done, NEW s \in States, Base(s, done), Shown(s), NEW b \in Batches,
           s.batch[b].st \notin Outside, ~HasEntries(s, b), NEW st \in {"Failed", "Cancelled"}
    PROVE  LET t == Unplanned(s, b, st)
           IN  /\ t \in States /\ Base(t, done) /\ Shown(t) /\ t.task = s.task /\ t.live = s.live
               /\ t.batch[b].st = st
               /\ \A x \in Batches \ {b} : SameBatch(s, t, x)
<1>1. PICK after : after = [s.batch EXCEPT ![b].st = st]
  OBVIOUS
<1>2. /\ after \in [Batches -> BatchRecords] /\ after[b].st = st
      /\ \A x \in Batches \ {b} : after[x] = s.batch[x]
  BY <1>1 DEF States, BatchRecords, BatchStatuses
<1>3. PICK u : u = [s EXCEPT !.batch[b].st = st]
  OBVIOUS
<1>4. u = [s EXCEPT !.batch = after]
  BY <1>1, <1>3 DEF States
<1>5. u \in States /\ u.task = s.task /\ u.entry = s.entry /\ u.live = s.live /\ u.batch = after
  BY <1>2, <1>4 DEF States
<1>6. \A x \in Batches : HasEntries(u, x) <=> HasEntries(s, x)
  BY <1>5 DEF HasEntries
<1>7. \A i \in 1..Files : s.task[<<b, i>>].st = "new"
  BY DEF Base, Untouched, Outside
<1>8. Base(u, done)
  <2>1. Whole(u) /\ InPlace(u, done)
    BY <1>5 DEF Base, Whole, InPlace, HasEntries
  <2>2. PlanFitsStatus(u)
    BY <1>2, <1>5, <1>6 DEF Base, PlanFitsStatus, Outside
  <2>3. Untouched(u)
    BY <1>2, <1>5, <1>6 DEF Base, Untouched, Outside
  <2> QED BY <2>1, <2>2, <2>3 DEF Base
<1>9. Shown(u)
  <2>1. \A x \in Batches : HasPlan(u, x) => HasPlan(s, x)
    BY <1>2, <1>5, <1>6 DEF HasPlan, HasEntries
  <2>2. Mirror(u)
    BY <1>5, <2>1, ChildrenArePairs DEF Shown, Mirror
  <2>3. CountedDone(u)
    BY <1>2, <1>5 DEF Shown, CountedDone
  <2>4. OverIsQuiet(u)
    BY <1>2, <1>5, <1>7 DEF Shown, OverIsQuiet, AllQueued, Quiet, Outside
  <2> QED BY <2>2, <2>3, <2>4 DEF Shown
<1>10. \A x \in Batches \ {b} : SameBatch(s, u, x)
  BY <1>2, <1>5, <1>6 DEF SameBatch
<1>11. PICK t \in States : /\ t = PublishBatches(u) /\ t.task = u.task /\ t.entry = u.entry
                           /\ t.batch = u.batch /\ t.live = u.live /\ Base(t, done) /\ Shown(t)
  BY <1>5, <1>8, <1>9, PublishFacts
<1>12. \A x \in Batches \ {b} : SameBatch(s, t, x)
  BY <1>10, <1>11 DEF SameBatch, HasEntries
<1> QED BY <1>2, <1>3, <1>5, <1>11, <1>12 DEF Unplanned

\* The files of a plan are queued one after the other.
LEMMA CarryOutSteps ==
    ASSUME BatchInv, up, NEW b \in Batches, batch[b].st = "Discovering", ~HasEntries(Now, b),
           planner' = [planner EXCEPT ![b] = "none"], UNCHANGED <<settled, held, file>>,
           NEW rejected,
           Handler(Range(PlaceEach(Planned(Now, b), b, rejected)),
                   PublishBatches(PlaceEach(Planned(Now, b), b, rejected)[Files]))
    PROVE  Safe
<1>1. PICK s \in States :
        /\ s = Planned(Now, b) /\ Base(s, settled) /\ Shown(s) /\ s.task = task /\ s.live = live
        /\ HasEntries(s, b) /\ s.batch[b].st \notin Outside
        /\ \A i \in 1..Files : s.task[<<b, i>>].st = "new"
        /\ \A x \in Batches \ {b} : SameBatch(Now, s, x)
  BY NowFacts, PlannedFacts DEF Now, Outside
<1>2. PICK h : h = PlaceEach(s, b, rejected)
  OBVIOUS
<1>3. h \in [0..Files -> PlacedFrom(s, b, settled)] /\ \A i \in 0..Files : Shown(h[i])
  BY <1>1, <1>2, PlaceEachRuns
<1>4. Files \in 0..Files
  BY FirstFile
<1>5. \A i \in 0..Files :
        /\ h[i] \in States /\ Base(h[i], settled) /\ SameBatches(s, h[i]) /\ s.live \subseteq h[i].live
        /\ held => Calm(s, h[i])
        /\ \A d \in Children : d[1] # b => (h[i].task[d].st = "new" <=> s.task[d].st = "new")
  BY <1>3 DEF PlacedFrom
<1>6. \A i \in 0..Files : OnlyPlanned(h[i])
  BY <1>1, <1>5 DEF OnlyPlanned
<1>7. PICK u : u = h[Files]
  OBVIOUS
<1>8. /\ u \in States /\ Base(u, settled) /\ Shown(u) /\ SameBatches(s, u) /\ s.live \subseteq u.live
      /\ held => Calm(s, u)
      /\ OnlyPlanned(u)
  BY <1>3, <1>4, <1>5, <1>6, <1>7
<1>9. PICK t \in States : /\ t = PublishBatches(u) /\ t.task = u.task /\ t.batch = u.batch
                          /\ t.entry = u.entry /\ t.live = u.live /\ Base(t, settled) /\ Shown(t)
  BY <1>8, PublishFacts
<1>10. Handler(Range(h), t)
  BY <1>1, <1>2, <1>7, <1>9
<1>11. OnlyPlanned(t) /\ live \subseteq t.live /\ (held => Calm(Now, t))
  BY <1>1, <1>8, <1>9 DEF OnlyPlanned, Calm, Now
<1>12. ASSUME NEW x \in Batches \ {b} PROVE SameBatch(Now, t, x)
  <2>1. SameBatch(Now, s, x) /\ SameBatch(s, u, x)
    BY <1>1, <1>8 DEF SameBatches
  <2>2. SameBatch(Now, u, x)
    BY <2>1 DEF SameBatch
  <2> QED BY <1>9, <2>2 DEF SameBatch, HasEntries
<1>13. t.batch[b].st # "gone"
  BY <1>1, <1>8, <1>9 DEF SameBatches, SameBatch, Outside
<1>14. \A x \in Batches : Leaves(t, x)
  BY <1>12, <1>13, SameLeaves DEF Leaves
<1>15. /\ planner' \in [Batches -> PlannerStates]
       /\ \A x \in Batches : planner'[x] # "none" => planner[x] # "none" /\ SameBatch(Now, t, x)
  BY <1>12, NowFacts DEF PlannerStates
<1>16. \A v \in Range(h) : v \in States /\ Base(v, settled) /\ OnlyPlanned(v)
  BY <1>3, <1>5, <1>6 DEF Range
<1> QED BY <1>9, <1>10, <1>11, <1>14, <1>15, <1>16, NowFacts, HandlerSteps

LEMMA CompletePlanningSteps ==
    ASSUME BatchInv, NEW b \in Batches, CompletePlanning(b)
    PROVE  Safe
<1>1. /\ up /\ planner[b] \in {"planned", "failed", "cancelled"}
      /\ planner' = [planner EXCEPT ![b] = "none"] /\ UNCHANGED <<settled, held, file>>
  BY DEF CompletePlanning
<1>2. batch[b].st \in {"Discovering", "Cancelled"} /\ ~HasEntries(Now, b)
  BY <1>1 DEF BatchInv, PlannersAwaited
<1>3. /\ planner' \in [Batches -> PlannerStates]
      /\ \A x \in Batches : planner'[x] # "none" => planner[x] # "none" /\ x # b
  BY <1>1, NowFacts DEF PlannerStates
<1>4. CASE ~WantsPlan(b)
  <2>1. Becomes(Now) /\ up' = TRUE
    BY <1>1, <1>4 DEF CompletePlanning, coordinatorVars, Becomes, Now, BatchInv, TypeOK
  <2>2. OnlyPlanned(Now) /\ live \subseteq Now.live /\ \A x \in Batches : SameBatch(Now, Now, x)
    BY <1>1, NowFacts DEF OnlyPlanned, Now, Kin, SameBatches
  <2> QED BY <1>1, <1>3, <2>1, <2>2, NowFacts, SameLeaves, EventSteps
<1>5. CASE WantsPlan(b) /\ planner[b] # "planned"
  <2>1. PICK st \in {"Failed", "Cancelled"} : st = IF planner[b] = "failed" THEN "Failed" ELSE "Cancelled"
    OBVIOUS
  <2>2. Becomes(Unplanned(Now, b, st)) /\ up' = TRUE
    BY <1>1, <1>5, <2>1 DEF CompletePlanning, Unplanned, BatchInv, TypeOK
  <2>3. PICK t \in States : /\ t = Unplanned(Now, b, st)
                            /\ Base(t, settled) /\ Shown(t) /\ t.task = Now.task /\ t.live = Now.live
                            /\ t.batch[b].st = st
                            /\ \A x \in Batches \ {b} : SameBatch(Now, t, x)
    <3>1. Now.batch[b].st \notin Outside
      BY <1>2 DEF Now, Outside
    <3> QED BY <1>1, <1>2, <3>1, NowFacts, UnplannedFacts
  <2>4. OnlyPlanned(t) /\ live \subseteq t.live /\ Calm(Now, t)
    BY <2>3 DEF OnlyPlanned, Now, Calm
  <2>5. \A x \in Batches : Leaves(t, x)
    BY <2>3, SameLeaves DEF Leaves
  <2>6. Becomes(t)
    BY <2>2, <2>3
  <2> QED BY <1>1, <1>3, <2>2, <2>3, <2>4, <2>5, <2>6, NowFacts, EventSteps
<1>6. CASE WantsPlan(b) /\ planner[b] = "planned"
  <2>1. batch[b].st = "Discovering"
    BY <1>2, <1>6 DEF WantsPlan
  <2>2. PICK rejected :
          Handler(Range(PlaceEach(Planned(Now, b), b, rejected)),
                  PublishBatches(PlaceEach(Planned(Now, b), b, rejected)[Files]))
    BY <1>6 DEF CompletePlanning
  <2> QED BY <1>1, <1>2, <2>1, <2>2, CarryOutSteps
<1> QED BY <1>4, <1>5, <1>6

LEMMA EnqueueSteps ==
    ASSUME BatchInv, NEW b \in Batches, Enqueue(b)
    PROVE  Safe
<1>1. /\ up /\ up' = TRUE /\ batch[b].st = "new"
      /\ batch' = [batch EXCEPT ![b].st = "Discovering"]
      /\ planner' = [planner EXCEPT ![b] = "working"]
      /\ timer' = TRUE
      /\ UNCHANGED <<task, order, work, decided, live, settled, entry, held, file>>
  BY DEF Enqueue, managerVars, BatchInv, TypeOK
<1>2. /\ TypeOK /\ FileTrue /\ Now \in States /\ Base(Now, settled) /\ Shown(Now)
      /\ \A x \in Batches : planner[x] # "none" =>
            batch[x].st \in {"Discovering", "Cancelled"} /\ ~HasEntries(Now, x)
  BY <1>1, NowFacts DEF BatchInv, PlannersAwaited
<1>3. /\ batch' \in [Batches -> BatchRecords] /\ batch'[b].st = "Discovering"
      /\ \A x \in Batches \ {b} : batch'[x] = batch[x]
  BY <1>1, <1>2 DEF TypeOK, BatchRecords, BatchStatuses
<1>4. PICK t : t = [Now EXCEPT !.batch = batch', !.timer = TRUE]
  OBVIOUS
<1>5. /\ t \in States /\ t.task = task /\ t.entry = entry /\ t.live = live /\ t.batch = batch'
      /\ t.order = order /\ t.work = work /\ t.decided = decided /\ t.timer = TRUE
  BY <1>2, <1>3, <1>4 DEF States, Now
<1>6. Becomes(t)
  BY <1>1, <1>5 DEF Becomes
<1>7. ~HasEntries(Now, b) /\ \A i \in 1..Files : task[<<b, i>>].st = "new"
  BY <1>1, <1>2 DEF Base, PlanFitsStatus, Untouched, Outside, Now
<1>8. \A x \in Batches : HasEntries(t, x) <=> HasEntries(Now, x)
  BY <1>5 DEF HasEntries, Now
<1>9. Base(t, settled)
  <2>1. Whole(t) /\ InPlace(t, settled)
    BY <1>2, <1>5 DEF Base, Whole, InPlace, HasEntries, Now
  <2>2. PlanFitsStatus(t)
    BY <1>2, <1>3, <1>5, <1>7, <1>8 DEF Base, PlanFitsStatus, Outside, Now
  <2>3. Untouched(t)
    BY <1>2, <1>3, <1>5, <1>7, <1>8 DEF Base, Untouched, Outside, Now
  <2> QED BY <2>1, <2>2, <2>3 DEF Base
<1>10. Shown(t)
  <2>1. \A x \in Batches : HasPlan(t, x) => HasPlan(Now, x)
    BY <1>3, <1>5, <1>7, <1>8 DEF HasPlan, HasEntries, Now
  <2>2. Mirror(t)
    BY <1>2, <1>5, <2>1, ChildrenArePairs DEF Shown, Mirror, Now
  <2>3. CountedDone(t)
    BY <1>2, <1>3, <1>5 DEF Shown, CountedDone, Now
  <2>4. OverIsQuiet(t)
    BY <1>2, <1>3, <1>5, <1>7 DEF Shown, OverIsQuiet, AllQueued, Quiet, Outside, Now
  <2> QED BY <2>2, <2>3, <2>4 DEF Shown
<1>11. BatchInv'
  <2>1. planner' \in [Batches -> PlannerStates]
    BY <1>1, <1>2 DEF TypeOK, PlannerStates
  <2>2. \A x \in Batches : planner'[x] # "none" =>
           t.batch[x].st \in {"Discovering", "Cancelled"} /\ ~HasEntries(t, x)
    BY <1>1, <1>2, <1>3, <1>5, <1>7, <1>8 DEF TypeOK
  <2>3. FileTrue'
    BY <1>1, <1>2 DEF FileTrue
  <2> QED BY <1>1, <1>2, <1>5, <1>6, <1>9, <1>10, <2>1, <2>2, <2>3, FromStates DEF TypeOK
<1>12. DismissedIsEmpty
  BY <1>1, <1>2, <1>3 DEF DismissedIsEmpty, Present, Outside
<1> QED BY <1>1, <1>11, <1>12 DEF Safe, QueuesOnlyPlans, HoldsQueue

\* What the file may hold: the batches that have their plan.
LEMMA SavedFacts ==
    ASSUME BatchInv
    PROVE  /\ SavedBatches \in [Batches -> [entries : [1..Files -> EntryStatuses], auto : BOOLEAN]]
           /\ \A b \in Batches :
                 /\ SavedBatches[b] = NoBatch \/ \A i \in 1..Files : SavedBatches[b].entries[i] # "none"
                 /\ \A i \in 1..Files : SavedBatches[b].entries[i] = "Completed" => <<b, i>> \in settled
<1>1. TypeOK /\ Base(Now, settled)
  BY DEF BatchInv
<1>2. PICK e : e = [b \in Batches |-> [i \in 1..Files |-> entry[<<b, i>>]]]
  OBVIOUS
<1>3. /\ e \in [Batches -> [1..Files -> EntryStatuses]]
      /\ \A b \in Batches, i \in 1..Files : e[b][i] = entry[<<b, i>>]
  BY <1>1, <1>2, ChildrenArePairs DEF TypeOK
<1>4. NoBatch \in [entries : [1..Files -> EntryStatuses], auto : BOOLEAN] /\ \A i \in 1..Files : NoBatch.entries[i] = "none"
  BY DEF NoBatch, EntryStatuses
<1>5. SavedBatches = [b \in Batches |-> IF ~RecoverableBatch(batch[b].st) THEN NoBatch
                                        ELSE [entries |-> e[b], auto |-> batch[b].auto]]
  BY <1>2 DEF SavedBatches
<1>6. SavedBatches \in [Batches -> [entries : [1..Files -> EntryStatuses], auto : BOOLEAN]]
  BY <1>1, <1>3, <1>4, <1>5 DEF TypeOK
<1>7. ASSUME NEW b \in Batches
      PROVE  /\ SavedBatches[b] = NoBatch \/ \A i \in 1..Files : SavedBatches[b].entries[i] # "none"
             /\ \A i \in 1..Files : SavedBatches[b].entries[i] = "Completed" => <<b, i>> \in settled
  <2>1. CASE ~RecoverableBatch(batch[b].st)
    BY <1>4, <1>5, <2>1
  <2>2. CASE RecoverableBatch(batch[b].st)
    <3>1. \A i \in 1..Files : SavedBatches[b].entries[i] = entry[<<b, i>>]
      BY <1>3, <1>5, <2>2
    <3>2. HasEntries(Now, b)
      BY <1>1, <2>2 DEF RecoverableBatch, Base, PlanFitsStatus, Now
    <3>3. \A i \in 1..Files : entry[<<b, i>>] # "none"
      BY <1>1, <3>2 DEF Base, Whole, Now
    <3>4. \A i \in 1..Files : entry[<<b, i>>] = "Completed" => <<b, i>> \in settled
      BY <1>1, ChildrenArePairs DEF Base, InPlace, Now
    <3> QED BY <3>1, <3>3, <3>4
  <2> QED BY <2>1, <2>2
<1> QED BY <1>6, <1>7

LEMMA SaveBatchesSteps ==
    ASSUME BatchInv, SaveBatches
    PROVE  Safe
<1>1. /\ up /\ up' = TRUE /\ file' = SavedBatches /\ timer' = FALSE
      /\ UNCHANGED <<task, order, work, decided, live, settled, batch, entry, planner, held>>
  BY DEF SaveBatches, managerVars, BatchInv, TypeOK
<1>2. /\ TypeOK /\ Now \in States /\ Base(Now, settled) /\ Shown(Now)
      /\ \A x \in Batches : planner[x] # "none" =>
            batch[x].st \in {"Discovering", "Cancelled"} /\ ~HasEntries(Now, x)
  BY <1>1, NowFacts DEF BatchInv, PlannersAwaited
<1>3. PICK t : t = [Now EXCEPT !.timer = FALSE]
  OBVIOUS
<1>4. /\ t \in States /\ t.task = task /\ t.entry = entry /\ t.live = live /\ t.batch = batch
      /\ t.order = order /\ t.work = work /\ t.decided = decided /\ t.timer = FALSE
  BY <1>2, <1>3 DEF States, Now
<1>5. Becomes(t)
  BY <1>1, <1>4 DEF Becomes
<1>6. Base(t, settled)
  BY <1>2, <1>4 DEF Base, Whole, PlanFitsStatus, Untouched, InPlace, HasEntries, Now
<1>7. Shown(t)
  <2>1. \A x \in Batches : HasPlan(t, x) <=> HasPlan(Now, x)
    BY <1>4 DEF HasPlan, Now
  <2>2. Mirror(t)
    BY <1>2, <1>4, <2>1, ChildrenArePairs DEF Shown, Mirror, Now
  <2>3. CountedDone(t) /\ OverIsQuiet(t)
    BY <1>2, <1>4 DEF Shown, CountedDone, OverIsQuiet, AllQueued, Quiet, Now
  <2> QED BY <2>2, <2>3 DEF Shown
<1>8. FileTrue'
  BY <1>1, SavedFacts DEF FileTrue
<1>9. BatchInv'
  <2>1. \A x \in Batches : planner'[x] # "none" =>
           t.batch[x].st \in {"Discovering", "Cancelled"} /\ ~HasEntries(t, x)
    BY <1>1, <1>2, <1>4 DEF HasEntries, Now
  <2> QED BY <1>1, <1>2, <1>4, <1>5, <1>6, <1>7, <1>8, <2>1, SavedFacts, FromStates DEF TypeOK
<1> QED BY <1>1, <1>9 DEF Safe, QueuesOnlyPlans, HoldsQueue, DismissedIsEmpty, Present, Outside

LEMMA EndSteps ==
    ASSUME BatchInv, Quit \/ Crash
    PROVE  Safe
<1>1. /\ up' = FALSE /\ Becomes(Lost(Now)) /\ file' \in {file, SavedBatches}
      /\ UNCHANGED <<settled, planner, held>>
  BY DEF Quit, Crash
<1>2. TypeOK /\ FileTrue /\ Now \in States /\ Base(Now, settled)
  BY NowIsState DEF BatchInv
<1>3. PICK t \in States : /\ t = Lost(Now) /\ Base(t, settled) /\ t.task = task
                          /\ \A b \in Batches : t.batch[b].st \in Outside
  BY <1>2, LostFacts DEF Now
<1>4. FileTrue' /\ file' \in [Batches -> [entries : [1..Files -> EntryStatuses], auto : BOOLEAN]]
  <2>1. CASE file' = file
    BY <1>1, <1>2, <2>1 DEF FileTrue, TypeOK
  <2>2. CASE file' = SavedBatches
    BY <1>1, <2>2, SavedFacts DEF FileTrue
  <2> QED BY <1>1, <2>1, <2>2
<1>5. Becomes(t)
  BY <1>1, <1>3
<1>6. BatchInv'
  BY <1>1, <1>2, <1>3, <1>4, <1>5, FromStates DEF TypeOK
<1>7. task' = task
  BY <1>3, <1>5, BecomesFacts
<1> QED BY <1>1, <1>6, <1>7 DEF Safe, QueuesOnlyPlans, HoldsQueue, DismissedIsEmpty

LEMMA BaseGrows ==
    ASSUME NEW s, NEW done, NEW more, Base(s, done), done \subseteq more
    PROVE  Base(s, more)
  BY DEF Base, InPlace

\* A call for one child sets no other going.
LEMMA CallElsewhere ==
    ASSUME NEW s \in States, NEW op \in Ops, NEW c \in Children, NEW done, Base(s, done),
           NEW d \in Children, d # c, s.task[d].st \notin Waiting
    PROVE  Call(s, op, c).task[d].st \notin Waiting
<1>1. CASE ~Accepts(s, op, c)
  BY <1>1 DEF Call
<1>2. CASE Accepts(s, op, c)
  <2>1. s.task[c].st \notin Outside
    BY <1>2 DEF Accepts
  <2>2. PICK t \in States : /\ t = Unseen(s, op, c) /\ Base(t, done)
                            /\ t.task = [s.task EXCEPT ![c] = Applied(op, @)]
    BY <2>1, CallChanges
  <2>3. t.task[d] = s.task[d]
    BY <2>2 DEF States
  <2>4. PICK u \in States : u = ApplySnapshot(t) /\ u.task = t.task
    BY SnapshotFields
  <2>5. Base(u, done)
    BY <2>2, <2>4, SnapshotShows
  <2>6. PICK v : v = Schedule(u) /\ Calm(u, v)
    BY <2>5, ScheduleFacts
  <2>7. Call(s, op, c) \in {u, v}
    BY <1>2, <2>2, <2>4, <2>6 DEF Call, Unseen
  <2> QED BY <2>3, <2>4, <2>6, <2>7 DEF Calm
<1> QED BY <1>1, <1>2

\* A worker has answered.
Without(s, c) == [s EXCEPT !.live = @ \ {c}]

LEMMA WithoutFacts ==
    ASSUME NEW done, NEW s \in States, Base(s, done), NEW c \in Children
    PROVE  LET t == Without(s, c)
           IN  /\ t \in States /\ Base(t, done) /\ t.task = s.task /\ t.work = s.work
               /\ SameBatches(s, t)
<1>1. PICK t : t = Without(s, c)
  OBVIOUS
<1>2. /\ t \in States /\ t.task = s.task /\ t.entry = s.entry /\ t.batch = s.batch
      /\ t.work = s.work
  BY <1>1 DEF Without, States
<1>3. Base(t, done)
  BY <1>2 DEF Base, Whole, PlanFitsStatus, Untouched, InPlace, HasEntries
<1>4. SameBatches(s, t)
  BY <1>2 DEF SameBatches, SameBatch, HasEntries
<1> QED BY <1>1, <1>2, <1>3, <1>4

\* Its answer, before anybody sees it.
Heard(s, c, kind) == [s EXCEPT !.task[c] = Settled(@, [kind |-> kind, bytes |-> 0])]

LEMMA HeardFacts ==
    ASSUME NEW done, NEW s \in States, Base(s, done), NEW c \in Children, s.task[c].st \in Active,
           NEW kind \in AnswerKinds, kind = "completed" => c \in done
    PROVE  LET t == Heard(s, c, kind)
           IN  /\ t \in States /\ Base(t, done) /\ SameBatches(s, t)
               /\ t.task[c] = Settled(s.task[c], [kind |-> kind, bytes |-> 0])
               /\ t.task[c].st \notin Outside
               /\ s.task[c].st # "Running" => t.task[c].st \notin Waiting
               /\ \A d \in Children \ {c} : t.task[d] = s.task[d]
<1>1. PICK a : a = Settled(s.task[c], [kind |-> kind, bytes |-> 0])
  OBVIOUS
<1>2. /\ a \in TaskRecords /\ a.st \notin Outside
      /\ a.st = "Completed" => kind = "completed"
      /\ s.task[c].st # "Running" => a.st \notin Waiting
  BY <1>1, SettledFacts DEF States, Waiting
<1>3. PICK q : q = [s.task EXCEPT ![c] = a]
  OBVIOUS
<1>4. q \in [Children -> TaskRecords] /\ q[c] = a /\ \A d \in Children \ {c} : q[d] = s.task[d]
  BY <1>2, <1>3 DEF States
<1>5. PICK t : t = Heard(s, c, kind)
  OBVIOUS
<1>6. t = [s EXCEPT !.task = q]
  BY <1>1, <1>3, <1>5 DEF States, Heard
<1>7. t \in States /\ t.task = q /\ t.batch = s.batch /\ t.entry = s.entry
  BY <1>4, <1>6 DEF States
<1>8. Base(t, done)
  <2>1. \A d \in Children : t.task[d].st = "Completed" => d \in done
    BY <1>2, <1>4, <1>7 DEF Base, InPlace
  <2>2. \A d \in Children : s.task[d].st = "new" => t.task[d].st = "new"
    BY <1>4, <1>7 DEF Active
  <2> QED BY <1>7, <2>1, <2>2, QueueKeepsBase
<1>9. SameBatches(s, t)
  BY <1>7 DEF SameBatches, SameBatch, HasEntries
<1> QED BY <1>1, <1>2, <1>4, <1>5, <1>7, <1>8, <1>9

LEMMA ForgetFacts ==
    ASSUME NEW done, NEW s \in States, Base(s, done), NEW c \in Children
    PROVE  LET t == Forget(s, c)
           IN  t \in States /\ Base(t, done) /\ t.task = s.task /\ SameBatches(s, t)
<1>1. PICK t : t = Forget(s, c)
  OBVIOUS
<1>2. t \in States /\ t.task = s.task /\ t.entry = s.entry /\ t.batch = s.batch
  BY <1>1 DEF Forget, States
<1>3. Base(t, done)
  BY <1>2 DEF Base, Whole, PlanFitsStatus, Untouched, InPlace, HasEntries
<1>4. SameBatches(s, t)
  BY <1>2 DEF SameBatches, SameBatch, HasEntries
<1> QED BY <1>1, <1>2, <1>3, <1>4

\* A conflict that a task on its way out runs into is not retried.
LEMMA NotRetried ==
    ASSUME NEW s \in States, NEW c \in Children, s.task[c].st \in {"Pausing", "Cancelling"},
           NEW t, t.task[c] = Settled(s.task[c], [kind |-> "conflict", bytes |-> 0])
    PROVE  ~Accepts(t, "retry", c)
<1>1. Settled(s.task[c], [kind |-> "conflict", bytes |-> 0]) = NeedAttention(s.task[c])
  BY DEF Settled
<1>2. NeedAttention(s.task[c]) = s.task[c]
  BY DEF NeedAttention, CanTransition, Successors, Statuses, Outside
<1>3. ~CanRetry(s.task[c])
  BY DEF CanRetry, CanTransition, Successors, Statuses, Outside
<1> QED BY <1>1, <1>2, <1>3 DEF Accepts

\* What a result leads to: shown at once, and nothing waits that did not.
LEMMA AnsweredFacts ==
    ASSUME NEW done, NEW s \in States, Base(s, done), NEW c \in Children, s.task[c].st \in Active,
           NEW kind \in AnswerKinds, kind = "completed" => c \in done
    PROVE  LET t == Answered(s, c, kind)
           IN  /\ t \in States /\ Base(t, done) /\ Shown(t) /\ SameBatches(s, t) /\ Calm(s, t)
               /\ \A d \in Children : s.task[d].st = "new" => t.task[d].st = "new"
<1>1. PICK h \in States :
        /\ h = Heard(s, c, kind) /\ Base(h, done) /\ SameBatches(s, h)
        /\ h.task[c] = Settled(s.task[c], [kind |-> kind, bytes |-> 0])
        /\ h.task[c].st \notin Outside
        /\ s.task[c].st # "Running" => h.task[c].st \notin Waiting
        /\ \A d \in Children \ {c} : h.task[d] = s.task[d]
  BY HeardFacts
<1>2. PICK t : t = Answered(s, c, kind)
  OBVIOUS
<1> DEFINE again == kind = "conflict" /\ Present(c[1]) /\ batch[c[1]].auto /\ c \in s.work
<1>3. CASE ~again
  <2>1. PICK u \in States : /\ u \in {Forget(h, c), h} /\ Base(u, done) /\ u.task = h.task
                            /\ SameBatches(h, u)
                            /\ t = Changed(u)
    <3>1. t = Changed(IF ErasesWork(s.task[c], [kind |-> kind, bytes |-> 0]) THEN Forget(h, c) ELSE h)
      BY <1>1, <1>2, <1>3 DEF Answered, Heard
    <3>2. h.task = h.task /\ SameBatches(h, h)
      BY KinChain DEF Kin
    <3> QED BY <1>1, <3>1, <3>2, ForgetFacts
  <2>2. t \in States /\ Base(t, done) /\ Shown(t) /\ Kin(u, t) /\ Calm(u, t)
    BY <2>1, ChangedFacts
  <2>3. SameBatches(s, t)
    BY <1>1, <2>1, <2>2, BatchesChain DEF Kin
  <2>4. Calm(s, t)
    BY <1>1, <2>1, <2>2 DEF Calm, Waiting
  <2>5. \A d \in Children : s.task[d].st = "new" => t.task[d].st = "new"
    BY <1>1, <2>1, <2>2 DEF Kin, SameQueue, Active
  <2> QED BY <1>2, <2>2, <2>3, <2>4, <2>5
<1>4. CASE again
  <2>1. PICK u : u = [h EXCEPT !.decided = @ \cup {c}]
    OBVIOUS
  <2>2. u \in States /\ Base(u, done) /\ Kin(h, u) /\ u.task = h.task
    BY <1>1, <2>1, DecidedFacts
  <2>3. PICK v \in States : v = Call(u, "retry", c) /\ Base(v, done) /\ Kin(u, v)
    BY <2>2, CallFacts DEF Ops
  <2>4. t = Changed(v)
    BY <1>1, <1>2, <1>4, <2>1, <2>3 DEF Answered, Heard
  <2>5. t \in States /\ Base(t, done) /\ Shown(t) /\ Kin(v, t) /\ Calm(v, t)
    BY <2>3, <2>4, ChangedFacts
  <2>6. SameBatches(s, t)
    BY <1>1, <2>2, <2>3, <2>5, BatchesChain DEF Kin
  <2>7. \A d \in Children : s.task[d].st = "new" => t.task[d].st = "new"
    BY <1>1, <2>2, <2>3, <2>5 DEF Kin, SameQueue, Active
  <2>8. ASSUME NEW d \in Children, s.task[d].st \notin Waiting
        PROVE  v.task[d].st \notin Waiting
    <3>1. CASE d # c
      BY <1>1, <2>2, <2>3, <2>8, <3>1, CallElsewhere DEF Ops
    <3>2. CASE d = c
      <4>1. s.task[c].st \in {"Pausing", "Cancelling"}
        BY <2>8, <3>2 DEF Active, Waiting
      <4>2. ~Accepts(u, "retry", c)
        BY <1>1, <1>4, <2>2, <4>1, NotRetried
      <4>3. v = u
        BY <2>3, <4>2 DEF Call
      <4> QED BY <1>1, <2>2, <3>2, <4>1, <4>3
    <3> QED BY <3>1, <3>2
  <2>9. Calm(s, t)
    BY <2>5, <2>8 DEF Calm
  <2> QED BY <1>2, <2>5, <2>6, <2>7, <2>9
<1> QED BY <1>3, <1>4

LEMMA DeliverSteps ==
    ASSUME BatchInv, NEW c \in Children, Deliver(c)
    PROVE  Safe
<1>1. up /\ up' = TRUE /\ UNCHANGED <<planner, held, file>>
  BY DEF Deliver, BatchInv, TypeOK
<1>2. PICK kind \in Answers(c) :
        /\ Becomes(IF Without(Now, c).task[c].st \in Active
                   THEN Answered(Without(Now, c), c, kind) ELSE Schedule(Without(Now, c)))
        /\ settled' = IF kind = "completed" THEN settled \cup {c} ELSE settled
  BY DEF Deliver, Without
<1>3. kind \in AnswerKinds
  BY DEF Answers, AnswerKinds
<1>4. /\ TypeOK /\ FileTrue
      /\ \A b \in Batches : planner[b] # "none" =>
            batch[b].st \in {"Discovering", "Cancelled"} /\ ~HasEntries(Now, b)
  BY <1>1 DEF BatchInv, PlannersAwaited
<1>5. settled \subseteq settled' /\ settled' \subseteq Children /\ (kind = "completed" => c \in settled')
  BY <1>2, <1>4 DEF TypeOK
<1>6. PICK s \in States : /\ s = Without(Now, c) /\ Base(s, settled) /\ s.task = task
                          /\ SameBatches(Now, s)
  BY <1>1, NowFacts, WithoutFacts DEF Now
<1>7. Base(s, settled')
  BY <1>5, <1>6, BaseGrows
<1>8. PICK t \in States :
        /\ Becomes(t) /\ Base(t, settled') /\ Shown(t) /\ SameBatches(s, t) /\ Calm(s, t)
        /\ \A d \in Children : s.task[d].st = "new" => t.task[d].st = "new"
  <2>1. CASE s.task[c].st \in Active
    BY <1>2, <1>3, <1>5, <1>6, <1>7, <2>1, AnsweredFacts
  <2>2. CASE s.task[c].st \notin Active
    BY <1>2, <1>6, <1>7, <2>2, ScheduleFacts DEF Kin, SameQueue
  <2> QED BY <2>1, <2>2
<1>9. SameBatches(Now, t)
  BY <1>6, <1>8, BatchesChain
<1>10. FileTrue'
  BY <1>1, <1>4, <1>5 DEF FileTrue
<1>11. BatchInv'
  <2>1. \A b \in Batches : planner'[b] # "none" =>
           t.batch[b].st \in {"Discovering", "Cancelled"} /\ ~HasEntries(t, b)
    BY <1>1, <1>4, <1>9 DEF SameBatches, SameBatch, Now
  <2> QED BY <1>1, <1>4, <1>5, <1>8, <1>10, <2>1, FromStates DEF TypeOK
<1>12. QueuesOnlyPlans
  BY <1>6, <1>8, BecomesFacts DEF QueuesOnlyPlans
<1>13. HoldsQueue
  BY <1>6, <1>8, BecomesFacts DEF HoldsQueue, Calm, Waiting
<1>14. DismissedIsEmpty
  <2>1. \A b \in Batches : Present(b) => batch'[b].st # "gone"
    BY <1>8, <1>9, BecomesFacts DEF SameBatches, SameBatch, Present, Outside, Now
  <2> QED BY <2>1 DEF DismissedIsEmpty
<1> QED BY <1>11, <1>12, <1>13, <1>14 DEF Safe

\* A restart brings no task back that runs, waits or is over.
LEMMA RestoredFacts ==
    ASSUME NEW r \in TaskRecords
    PROVE  LET t == Restored(JournalEntry(r), r)
           IN  /\ t \in TaskRecords /\ t.st \in {"Paused", "Failed", "new", "gone"}
               /\ t.st = "new" <=> r.st = "new"
<1>1. PICK e : e = JournalEntry(r)
  OBVIOUS
<1>2. r.bytes \in 0..Size /\ 0 \in 0..Size
  BY SizeAssumption DEF TaskRecords
<1>3. e.st \in {"none", "paused", "interrupted"} /\ (e.st # "none" => e.bytes \in 0..Size /\ r.st # "new")
  BY <1>1, <1>2 DEF JournalEntry, NoEntry, Recoverable
<1>4. CASE e.st = "none"
  <2>1. Restored(e, r) = IF r.st = "new" THEN r ELSE [NewTask EXCEPT !.st = "gone"]
    BY <1>4 DEF Restored
  <2> QED BY <1>1, <1>2, <2>1 DEF TaskRecords, NewTask, Outside, Codes
<1>5. CASE e.st = "paused"
  <2>1. Restored(e, r) = [st |-> "Paused", bytes |-> e.bytes, code |-> ""]
    BY <1>5 DEF Restored
  <2>2. e.bytes \in 0..Size /\ r.st # "new"
    BY <1>3, <1>5
  <2>3. PICK n \in 0..Size : n = e.bytes
    BY <2>2
  <2>4. PICK t : t = [st |-> "Paused", bytes |-> n, code |-> ""]
    OBVIOUS
  <2>5. t \in TaskRecords /\ t.st = "Paused"
    BY <2>4 DEF TaskRecords, Statuses, Codes
  <2>6. Restored(JournalEntry(r), r) = t
    BY <1>1, <2>1, <2>3, <2>4
  <2> QED BY <2>2, <2>5, <2>6
<1>6. CASE e.st = "interrupted"
  <2>1. Restored(e, r) = [st |-> "Failed", bytes |-> e.bytes, code |-> "interrupted"]
    BY <1>6 DEF Restored
  <2>2. e.bytes \in 0..Size /\ r.st # "new"
    BY <1>3, <1>6
  <2>3. PICK n \in 0..Size : n = e.bytes
    BY <2>2
  <2>4. PICK t : t = [st |-> "Failed", bytes |-> n, code |-> "interrupted"]
    OBVIOUS
  <2>5. t \in TaskRecords /\ t.st = "Failed"
    BY <2>4 DEF TaskRecords, Statuses, Codes
  <2>6. Restored(JournalEntry(r), r) = t
    BY <1>1, <2>1, <2>3, <2>4
  <2> QED BY <2>2, <2>5, <2>6
<1> QED BY <1>3, <1>4, <1>5, <1>6

\* What the manager and the coordinator load, before the queue is shown.
LEMMA LoadedFacts ==
    ASSUME BatchInv, ~up, NEW q, q = [c \in Children |-> Restored(JournalEntry(task[c]), task[c])],
           NEW s, s.task = q, s \in States,
           \A b \in Batches : s.batch[b].st = IF file[b] # NoBatch THEN "Interrupted" ELSE batch[b].st,
           \A c \in Children : s.entry[c] = RestoredEntry(file[c[1]].entries[c[2]])
    PROVE  Base(s, settled)
<1>1. /\ TypeOK /\ Base(Now, settled) /\ FileTrue
      /\ \A b \in Batches : batch[b].st \in Outside
  BY DEF BatchInv, Down
<1>2. \A c \in Children : /\ q[c].st # "Completed" /\ (q[c].st = "new" <=> task[c].st = "new")
  BY <1>1, RestoredFacts DEF TypeOK
<1>3. \A b \in Batches, i \in 1..Files : s.entry[<<b, i>>] = RestoredEntry(file[b].entries[i])
  BY ChildrenArePairs
<1>4. \A st : RestoredEntry(st) = "none" <=> st = "none"
  BY DEF RestoredEntry
<1>5. ASSUME NEW b \in Batches, NEW i \in 1..Files
      PROVE  s.entry[<<b, i>>] # "none" <=> file[b] # NoBatch
  <2>1. file[b] = NoBatch => file[b].entries[i] = "none"
    BY DEF NoBatch
  <2>2. file[b] # NoBatch => file[b].entries[i] # "none"
    BY <1>1 DEF FileTrue
  <2> QED BY <1>3, <1>4, <2>1, <2>2
<1>6. \A b \in Batches : HasEntries(s, b) <=> file[b] # NoBatch
  BY <1>5, FirstFile DEF HasEntries
<1>7. Whole(s)
  BY <1>5, <1>6 DEF Whole
<1>8. PlanFitsStatus(s)
  BY <1>1, <1>6 DEF PlanFitsStatus, Outside
<1>9. Untouched(s)
  <2> SUFFICES ASSUME NEW b \in Batches, s.batch[b].st # "gone", ~HasEntries(s, b), NEW i \in 1..Files
               PROVE  s.task[<<b, i>>].st = "new"
    BY DEF Untouched
  <2>1. batch[b].st = "new"
    BY <1>1, <1>6 DEF Outside
  <2>2. task[<<b, i>>].st = "new"
    BY <1>1, <2>1 DEF Base, PlanFitsStatus, Untouched, Outside, Now
  <2> QED BY <1>2, <2>2, ChildrenArePairs
<1>10. InPlace(s, settled)
  <2> SUFFICES ASSUME NEW c \in Children, s.entry[c] = "Completed"
               PROVE  c \in settled
    BY <1>2 DEF InPlace
  <2>1. file[c[1]].entries[c[2]] = "Completed"
    BY DEF RestoredEntry
  <2> QED BY <1>1, <2>1, ChildrenArePairs DEF FileTrue
<1> QED BY <1>7, <1>8, <1>9, <1>10 DEF Base

LEMMA RestartSteps ==
    ASSUME BatchInv, Restart
    PROVE  Safe
<1>1. /\ ~up /\ up' = TRUE /\ planner' = [b \in Batches |-> "none"] /\ held' = FALSE
      /\ UNCHANGED <<settled, file>>
  BY DEF Restart
<1>2. TypeOK /\ FileTrue
  BY DEF BatchInv
<1>3. PICK q : q = [c \in Children |-> Restored(JournalEntry(task[c]), task[c])]
  OBVIOUS
<1>4. PICK kept : kept = {c \in Children : q[c].st \notin Outside}
  OBVIOUS
<1>5. PICK loaded : loaded = [b \in Batches |->
                                 [st   |-> IF file[b] # NoBatch THEN "Interrupted" ELSE batch[b].st,
                                  auto |-> file[b].auto]]
  OBVIOUS
<1>6. PICK shown : shown = [c \in Children |-> RestoredEntry(file[c[1]].entries[c[2]])]
  OBVIOUS
<1>7. /\ q \in [Children -> TaskRecords]
      /\ \A c \in Children : q[c].st \notin Waiting /\ (q[c].st = "new" <=> task[c].st = "new")
  BY <1>2, <1>3, RestoredFacts DEF TypeOK, Waiting
<1>8. loaded \in [Batches -> BatchRecords]
  BY <1>2, <1>5 DEF TypeOK, BatchRecords, BatchStatuses
<1>9. shown \in [Children -> EntryStatuses]
  <2>1. \A b \in Batches : file[b].entries \in [1..Files -> EntryStatuses]
    BY <1>2 DEF TypeOK
  <2>2. \A c \in Children : file[c[1]].entries[c[2]] \in EntryStatuses
    BY <2>1, ChildrenArePairs
  <2> QED BY <1>6, <2>2 DEF RestoredEntry, EntryStatuses
<1>10. PICK s : s = [task |-> q, order |-> order, work |-> kept, decided |-> {}, live |-> {},
                     batch |-> loaded, entry |-> shown, timer |-> TRUE]
  OBVIOUS
<1>11. s \in States /\ s.task = q /\ s.batch = loaded /\ s.entry = shown
  BY <1>2, <1>4, <1>7, <1>8, <1>9, <1>10 DEF TypeOK, States
<1>12. Base(s, settled)
  <2>1. \A b \in Batches : s.batch[b].st = IF file[b] # NoBatch THEN "Interrupted" ELSE batch[b].st
    BY <1>5, <1>11
  <2>2. \A c \in Children : s.entry[c] = RestoredEntry(file[c[1]].entries[c[2]])
    BY <1>6, <1>11
  <2> QED BY <1>1, <1>3, <1>11, <2>1, <2>2, LoadedFacts
<1>13. PICK u \in States : u = ApplySnapshot(s) /\ u.task = q /\ Base(u, settled) /\ Shown(u)
  BY <1>11, <1>12, SnapshotFields, SnapshotShows
<1>14. PICK t \in States : t = PublishBatches(u) /\ t.task = q /\ Base(t, settled) /\ Shown(t)
  BY <1>13, PublishFacts
<1>15. Becomes(t)
  BY <1>3, <1>4, <1>5, <1>6, <1>10, <1>13, <1>14 DEF Restart
<1>16. BatchInv'
  <2>1. planner' \in [Batches -> PlannerStates] /\ \A b \in Batches : planner'[b] = "none"
    BY <1>1 DEF PlannerStates
  <2>2. FileTrue'
    BY <1>1, <1>2 DEF FileTrue
  <2> QED BY <1>1, <1>2, <1>14, <1>15, <2>1, <2>2, FromStates DEF TypeOK
<1>17. task' = q
  BY <1>14, <1>15, BecomesFacts
<1>18. QueuesOnlyPlans
  BY <1>7, <1>17 DEF QueuesOnlyPlans
<1>19. HoldsQueue
  BY <1>7, <1>17 DEF HoldsQueue, Waiting
<1> QED BY <1>1, <1>16, <1>18, <1>19 DEF Safe, DismissedIsEmpty

LEMMA StutterSteps ==
    ASSUME BatchInv, UNCHANGED vars
    PROVE  Safe
<1>1. UNCHANGED <<task, order, work, decided, live, settled, batch, entry, timer, planner, held, file, up>>
  BY DEF vars, managerVars, coordinatorVars
<1>2. /\ TypeOK /\ FileTrue /\ Now \in States /\ Base(Now, settled) /\ (up => Shown(Now))
      /\ up => \A b \in Batches : planner[b] # "none" =>
                  batch[b].st \in {"Discovering", "Cancelled"} /\ ~HasEntries(Now, b)
      /\ ~up => \A b \in Batches : batch[b].st \in Outside
  BY NowIsState DEF BatchInv, PlannersAwaited, Down
<1>3. Becomes(Now)
  BY <1>1 DEF Becomes, Now
<1>4. FileTrue'
  BY <1>1, <1>2 DEF FileTrue
<1>5. BatchInv'
  BY <1>1, <1>2, <1>3, <1>4, FromStates DEF TypeOK, Now
<1>6. DismissedIsEmpty
  BY <1>1 DEF DismissedIsEmpty, Present, Outside
<1> QED BY <1>1, <1>5, <1>6 DEF Safe, QueuesOnlyPlans, HoldsQueue

-----------------------------------------------------------------------------
(***************************************************************************)
(* The theorems.                                                           *)
(***************************************************************************)
LEMMA InitHolds ==
    ASSUME Init
    PROVE  BatchInv
<1>1. TypeOK
  <2>1. NewTask \in TaskRecords /\ NoBatch \in [entries : [1..Files -> EntryStatuses], auto : BOOLEAN]
    BY SizeAssumption DEF NewTask, TaskRecords, Outside, Codes, NoBatch, EntryStatuses
  <2>2. task \in [Children -> TaskRecords] /\ file \in [Batches -> [entries : [1..Files -> EntryStatuses], auto : BOOLEAN]]
    BY <2>1 DEF Init
  <2>3. batch \in [Batches -> [st : BatchStatuses, auto : BOOLEAN]]
    BY DEF Init, BatchStatuses
  <2>4. entry \in [Children -> EntryStatuses] /\ planner \in [Batches -> PlannerStates]
    BY DEF Init, EntryStatuses, PlannerStates
  <2>5. order \in Seq(Children)
    BY DEF Init
  <2> QED BY <2>2, <2>3, <2>4, <2>5 DEF Init, TypeOK
<1>2. /\ \A c \in Children : Now.entry[c] = "none" /\ Now.task[c].st = "new"
      /\ \A b \in Batches : Now.batch[b].st = "new"
  BY DEF Init, Now, NewTask
<1>3. \A b \in Batches : ~HasEntries(Now, b) /\ ~HasPlan(Now, b)
  BY <1>2, FirstFile, ChildrenArePairs DEF HasEntries, HasPlan
<1>4. Base(Now, settled)
  BY <1>2, <1>3, ChildrenArePairs DEF Base, Whole, PlanFitsStatus, Untouched, InPlace
<1>5. Shown(Now)
  BY <1>2, <1>3, ChildrenArePairs DEF Shown, Mirror, CountedDone, OverIsQuiet, Over
<1>6. FileTrue /\ PlannersAwaited /\ Down
  BY DEF Init, FileTrue, NoBatch, PlannersAwaited, Down
<1> QED BY <1>1, <1>4, <1>5, <1>6 DEF BatchInv

LEMMA Steps ==
    ASSUME BatchInv, [Next]_vars
    PROVE  Safe
<1>1. ASSUME NEW b \in Batches, Enqueue(b) PROVE Safe
  BY <1>1, EnqueueSteps
<1>2. ASSUME NEW b \in Batches, PauseBatch(b) \/ ResumeBatch(b) \/ RetryBatch(b) PROVE Safe
  BY <1>2, OnChildrenSteps DEF PauseBatch, ResumeBatch, RetryBatch, BatchClicks, Clicks, Ops
<1>3. ASSUME NEW b \in Batches, CancelBatch(b) PROVE Safe
  BY <1>3, CancelBatchSteps
<1>4. ASSUME NEW b \in Batches, DismissBatch(b) PROVE Safe
  BY <1>4, DismissBatchSteps
<1>5. ASSUME NEW c \in Children, CallChild(c) \/ Decide(c) PROVE Safe
  BY <1>5, CallChildSteps, DecideSteps
<1>6. CASE PauseAll \/ ResumeAll \/ CancelAll
  BY <1>6, AllSteps
<1>7. CASE ClearFinished
  BY <1>7, ClearFinishedSteps
<1>8. CASE Quit \/ Crash
  BY <1>8, EndSteps
<1>9. ASSUME NEW b \in Batches, PlannerEnds(b) \/ CompletePlanning(b) PROVE Safe
  BY <1>9, PlannerEndsSteps, CompletePlanningSteps
<1>10. ASSUME NEW c \in Children, Deliver(c) PROVE Safe
  BY <1>10, DeliverSteps
<1>11. CASE SaveBatches
  BY <1>11, SaveBatchesSteps
<1>12. CASE Restart
  BY <1>12, RestartSteps
<1>13. CASE UNCHANGED vars
  BY <1>13, StutterSteps
<1> QED
  BY <1>1, <1>2, <1>3, <1>4, <1>5, <1>6, <1>7, <1>8, <1>9, <1>10, <1>11, <1>12, <1>13
  DEF Next, UserNext, SystemNext

\* The inductive invariant of the coordinator: what it shows of a batch fits
\* its plan and its tasks whenever the GUI thread is in its event loop, what
\* the batch file holds is true, and a planner works for nobody else.
THEOREM BatchesInvariant == Spec => []BatchInv
<1>1. BatchInv /\ [Next]_vars => BatchInv'
  BY Steps DEF Safe
<1> QED BY <1>1, InitHolds, PTL DEF Spec

\* Whatever is called, answered, refused or restarted, the entry of every
\* child shows its task as it is.
THEOREM EntriesAlwaysMirror == Spec => []EntriesMirrorTasks
<1>1. BatchInv => EntriesMirrorTasks
  BY DEF BatchInv, Shown, Mirror, EntriesMirrorTasks, Now
<1> QED BY <1>1, BatchesInvariant, PTL

\* A file shown as completed is in place, and so are those of a batch that
\* is, but for the transfers that a restart has lost.
THEOREM CompletedIsSettled == Spec => []CompletedMeansSettled
<1>1. ASSUME BatchInv PROVE CompletedMeansSettled
  <2>1. ASSUME up, NEW c \in Children, batch[c[1]].st = "Completed", entry[c] # "Interrupted"
        PROVE  entry[c] = "Completed"
    <3>1. c[1] \in Batches /\ c[2] \in 1..Files /\ c = <<c[1], c[2]>>
      BY ChildrenArePairs
    <3> QED BY <1>1, <2>1, <3>1 DEF BatchInv, Shown, CountedDone, Now
  <2>2. \A c \in Children : entry[c] = "Completed" => c \in settled
    BY <1>1 DEF BatchInv, Base, InPlace, Now
  <2> QED BY <2>1, <2>2 DEF CompletedMeansSettled
<1> QED BY <1>1, BatchesInvariant, PTL

\* The plan of a batch that was cancelled during its discovery is not carried
\* out, and nothing else queues a file for the first time.
THEOREM CancelledPlanIsDropped == Spec => CancelledPlanQueuesNothing
<1>1. BatchInv /\ [Next]_vars => QueuesOnlyPlans
  BY Steps DEF Safe
<1> QED BY <1>1, BatchesInvariant, PTL DEF Spec, CancelledPlanQueuesNothing, QueuesOnlyPlans

\* While everything is paused, no plan, no result and no restart sets a
\* transfer going.
THEOREM PausedStaysPaused == Spec => PauseAllHolds
<1>1. BatchInv /\ [Next]_vars => HoldsQueue
  BY Steps DEF Safe
<1> QED BY <1>1, BatchesInvariant, PTL DEF Spec, PauseAllHolds, HoldsQueue

\* Dismissing a batch leaves no transfer of it in the queue.
THEOREM DismissedLeavesNothing == Spec => DismissLeavesNothing
<1>1. BatchInv /\ [Next]_vars => DismissedIsEmpty
  BY Steps DEF Safe
<1> QED BY <1>1, BatchesInvariant, PTL DEF Spec, DismissLeavesNothing, DismissedIsEmpty

=============================================================================
