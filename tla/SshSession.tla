----------------------------- MODULE SshSession -----------------------------
(***************************************************************************)
(* A terminal tab on a saved host: the SSH session object of               *)
(* application/ssh, its worker thread, and the part of the tab that        *)
(* follows its signals and reconnects.                                     *)
(*                                                                         *)
(* Two threads share the command queue, the frame that waits for delivery  *)
(* and a few atomic flags.  What a thread does between two accesses to     *)
(* them is one step; publishing a frame and delivering one are split at    *)
(* every access.  Whatever the worker reports is an event in the queue of  *)
(* the GUI thread, without the number of the run it belongs to; the run    *)
(* written into events, commands and frames here is for the properties.    *)
(*                                                                         *)
(* The host key question is in HostKeyPrompts.  Left out: the geometry,    *)
(* telemetry and keepalive, which only choose when a run fails; the text   *)
(* of the status; a start that fails for want of memory, exceptions thrown *)
(* in the worker, and a picture of the engine that cannot be taken.        *)
(***************************************************************************)
EXTENDS Naturals, Sequences

CONSTANTS
    MaxRuns,        \* bound: connections of the tab
    MaxGeneration,  \* bound: reconnectGeneration
    MaxAttempts,    \* reconnectMaximumAttempts of the profile
    MaxOutput,      \* bound: chunks of output of one run
    MaxInputs,      \* bound: inputs typed
    MaxViews,       \* bound: view commands, such as scrolling
    QueueLimit,     \* maximumQueuedInputBytes; every input has size one
    Retain,         \* retainHistoryOnReconnect
    Synchronized,   \* whether the program asks for synchronized output
    Failures        \* how a run may fail: "lost" is retried, "refused" is not,
                    \* "credential" and "import" fail before the connection

ASSUME BoundsAssumption ==
    {MaxRuns, MaxGeneration, MaxAttempts, MaxOutput, MaxInputs, MaxViews, QueueLimit} \subseteq Nat
ASSUME ModesAssumption ==
    /\ Retain \in BOOLEAN
    /\ Synchronized \in BOOLEAN
    /\ Failures \subseteq {"lost", "refused", "credential", "import"}

VARIABLES
    tab,        \* what the tab shows of its session, and its reconnect budget
    timers,     \* the generations a reconnect timer was started for
    ses,        \* what both threads share
    worker,     \* the worker thread: where it is, its publishing, its commands
    gui,        \* the GUI thread: idle, delivering a frame, joining the worker
    events,     \* the event queue of the GUI thread
    engine,     \* the terminal contents: output and view changes of a run
    sync,       \* synchronized output: off, for less than a second, or longer
    shown,      \* the frame on the screen
    received,   \* the inputs the remote side of this run has received
    runs,       \* runs started
    typed,      \* inputs accepted
    viewed,     \* view commands accepted
    up,         \* the run in progress reached Connected
    retries     \* reconnects nobody asked for since the last healthy run

sharedVars == <<ses, events>>
ghostVars  == <<received, runs, typed, viewed, up, retries>>
vars == <<tab, timers, ses, worker, gui, events, engine, sync, shown,
          received, runs, typed, viewed, up, retries>>

-----------------------------------------------------------------------------
NoFrame   == [run |-> 0, out |-> 0, view |-> 0]
NoFailure == "none"

Snapshot == [kind |-> "snapshot", n |-> 0, run |-> 0]

\* An event of the worker of the present run.
Event(kind, what, frame) == [kind |-> kind, what |-> what, frame |-> frame, run |-> runs]
Phase(p)   == Event("phase", p, NoFrame)
Failure(f) == Event("failure", f, NoFrame)

Init ==
    /\ tab = [open |-> TRUE, running |-> FALSE, phase |-> "Disconnected", failure |-> NoFailure,
              pending |-> FALSE, attempt |-> 0, generation |-> 0, connected |-> "never"]
    /\ timers = {}
    /\ ses = [view |-> FALSE, running |-> FALSE, commands |-> <<>>, bytes |-> 0,
              pending |-> NoFrame, scheduled |-> FALSE, dirty |-> FALSE, timer |-> FALSE,
              stop |-> FALSE, joiner |-> "none"]
    /\ worker = [at |-> "none", pub |-> "no", batch |-> <<>>, end |-> "Disconnected",
                 final |-> NoFrame]
    /\ gui = [at |-> "idle", held |-> NoFrame]
    /\ events = <<>>
    /\ engine = NoFrame
    /\ sync = "off"
    /\ shown = NoFrame
    /\ received = <<>>
    /\ runs = 0 /\ typed = 0 /\ viewed = 0 /\ up = FALSE /\ retries = 0

-----------------------------------------------------------------------------
(* Publishing a frame, by the worker.  At most one frame waits; what comes *)
(* while it waits only marks the engine dirty.                             *)

\* The engine has changed: publishSnapshot marks it dirty, then looks for a
\* waiting frame.
MarkedDirty(s)    == [s EXCEPT !.dirty = TRUE]
Publishing(w)     == [w EXCEPT !.pub = "check"]

\* A change the user made ends synchronized output.
HostInteraction == sync' = "off"

CheckPending ==
    /\ worker.pub = "check"
    /\ worker' = [worker EXCEPT !.pub = IF ses.pending # NoFrame THEN "no" ELSE "build"]
    /\ UNCHANGED <<sharedVars, sync>>

\* buildSnapshot; the last frame of a run does not wait for the end of
\* synchronized output.  An engine whose picture cannot be taken would end it
\* here, not dirty any more and with nothing shown; that is left out.
Forced == worker.at = "take"

BuildFrame ==
    /\ worker.pub = "build"
    /\ IF sync = "young" /\ ~Forced
       THEN /\ worker' = [worker EXCEPT !.pub = "no"]
            /\ UNCHANGED <<ses, sync>>
       ELSE /\ worker' = [worker EXCEPT !.pub = "store"]
            /\ ses' = [ses EXCEPT !.dirty = FALSE]
            /\ sync' = "off"
    /\ UNCHANGED events

StoreFrame ==
    /\ worker.pub = "store"
    /\ ses' = [ses EXCEPT !.pending = engine]
    /\ worker' = [worker EXCEPT !.pub = "post"]
    /\ UNCHANGED <<events, sync>>

PostDelivery ==
    /\ worker.pub = "post"
    /\ ses' = [ses EXCEPT !.scheduled = TRUE]
    /\ events' = IF ses.scheduled THEN events
                 ELSE Append(events, Event("schedule", "", NoFrame))
    /\ worker' = [worker EXCEPT !.pub = "no"]
    /\ UNCHANGED sync

Publish ==
    /\ CheckPending \/ BuildFrame \/ StoreFrame \/ PostDelivery
    /\ UNCHANGED <<tab, timers, gui, engine, shown, ghostVars>>

-----------------------------------------------------------------------------
(* The worker: connecting, the loop of a connected terminal, the end of a  *)
(* run, and the loop that keeps the screen of an ended one usable.         *)

WorkerIs(at) == worker.at = at /\ worker.pub = "no"

\* The run ends; finishWorker follows.
Ending(w, end) == [w EXCEPT !.at = "finish", !.end = end]

FailRun(f) ==
    /\ events' = Append(events, Failure(f))
    /\ worker' = Ending(worker, "Failed")
    /\ UNCHANGED <<ses, engine, sync, received, up>>

\* importRetainedHistory: the new engine starts with the text of the old one.
ImportHistory ==
    /\ WorkerIs("import")
    /\ \/ /\ engine' = [run |-> runs, out |-> 0, view |-> 0]
          /\ HostInteraction
          /\ worker' = Publishing([worker EXCEPT !.at = "connect"])
          /\ ses' = MarkedDirty(ses)
       \/ /\ "import" \in Failures
          /\ worker' = Ending(worker, "Failed")
          /\ UNCHANGED <<ses, engine, sync>>
    /\ UNCHANGED <<events, received, up>>

\* A stop during a connection is a failure of its own, which is not retried.
Losses == (Failures \cap {"lost", "refused"}) \cup (IF ses.stop THEN {"cancelled"} ELSE {})

FailConnect ==
    /\ WorkerIs("connect")
    /\ \E f \in Losses : FailRun(f)

Connect ==
    /\ WorkerIs("connect")
    /\ ses' = MarkedDirty([ses EXCEPT !.running = TRUE])
    /\ events' = events \o <<Phase("Connected"), Event("running", "", NoFrame)>>
    /\ worker' = Publishing([worker EXCEPT !.at = "live"])
    /\ up' = TRUE
    /\ HostInteraction
    /\ UNCHANGED <<engine, received>>

\* consumeOutput, with the state of synchronized output after the chunk.
ConsumeOutput ==
    /\ WorkerIs("live")
    /\ worker.batch = <<>>
    /\ engine.out < MaxOutput
    /\ engine' = [engine EXCEPT !.out = @ + 1]
    /\ \/ sync' = "off"
       \/ Synchronized /\ sync' = IF sync = "off" THEN "young" ELSE sync
    /\ worker' = Publishing(worker)
    /\ ses' = MarkedDirty(ses)
    /\ UNCHANGED <<events, received, up>>

TakeCommands ==
    /\ WorkerIs("live")
    /\ worker.batch = <<>> /\ ses.commands # <<>>
    /\ worker' = [worker EXCEPT !.batch = ses.commands]
    /\ ses' = [ses EXCEPT !.commands = <<>>, !.bytes = 0]
    /\ UNCHANGED <<events, engine, sync, received, up>>

\* publishSnapshotIfDirty on a request of the GUI thread.
PublishIfDirty(w) == IF ses.dirty THEN [w EXCEPT !.pub = "check"] ELSE w

RunCommand ==
    /\ WorkerIs("live")
    /\ worker.batch # <<>>
    /\ LET c    == Head(worker.batch)
           rest == [worker EXCEPT !.batch = Tail(@)]
       IN  \/ /\ c.kind = "snapshot"
              /\ worker' = PublishIfDirty(rest)
              /\ UNCHANGED <<ses, engine, sync, received>>
           \/ /\ c.kind # "snapshot"
              /\ engine' = IF c.kind = "view" THEN [engine EXCEPT !.view = @ + 1] ELSE engine
              /\ received' = IF c.kind = "input" THEN Append(received, c) ELSE received
              /\ ses' = MarkedDirty(ses)
              /\ worker' = Publishing(rest)
              /\ HostInteraction
    /\ UNCHANGED <<events, up>>

\* Reading or writing fails, the peer closes, or keepalive runs out.
LoseConnection ==
    /\ WorkerIs("live")
    /\ \E f \in Losses : FailRun(f)

\* The loop sees the stop request between two batches.
CloseTerminal ==
    /\ WorkerIs("live")
    /\ worker.batch = <<>> /\ ses.stop
    /\ events' = Append(events, Phase("Closing"))
    /\ worker' = Ending(worker, "Disconnected")
    /\ UNCHANGED <<ses, engine, sync, received, up>>

\* Seeded fault: only the waiting frame is handed over, news are forgotten.
EndWithoutNews ==
    /\ WorkerIs("finish")
    /\ worker' = [worker EXCEPT !.at = "take"]
    /\ UNCHANGED <<ses, events, engine, sync, received, up>>

\* finishWorker: a last frame is built if there is news, the waiting frame is
\* taken, and both the frame and the end of the run go into one event.
BuildLast ==
    /\ WorkerIs("finish")
    /\ worker' = [worker EXCEPT !.at = "take", !.pub = IF ses.dirty THEN "build" ELSE "no"]
    /\ UNCHANGED <<ses, events, engine, sync, received, up>>

TakeLast ==
    /\ WorkerIs("take")
    /\ worker' = [worker EXCEPT !.at = "end", !.final = ses.pending]
    /\ ses' = [ses EXCEPT !.pending = NoFrame]
    /\ UNCHANGED <<events, engine, sync, received, up>>

ReportEnd ==
    /\ WorkerIs("end")
    /\ ses' = [ses EXCEPT !.running = FALSE]
    /\ events' = events \o (IF ses.running THEN <<Event("end", "", worker.final)>> ELSE <<>>)
                        \o <<Phase(worker.end)>>
    /\ worker' = [worker EXCEPT !.at = IF ses.stop THEN "done" ELSE "readOnly",
                                !.final = NoFrame, !.batch = <<>>]
    /\ UNCHANGED <<engine, sync, received, up>>

\* readOnlyLoop drops whatever is for the connection.
ReadOnlyCommand ==
    /\ WorkerIs("readOnly")
    /\ ses.view /\ ~ses.stop /\ ses.commands # <<>>
    /\ LET c    == Head(ses.commands)
           rest == [ses EXCEPT !.commands = Tail(@), !.bytes = IF c.kind = "input" THEN @ - 1 ELSE @]
       IN  \/ c.kind = "snapshot" /\ worker' = PublishIfDirty(worker) /\ ses' = rest
              /\ UNCHANGED <<engine, sync>>
           \/ c.kind = "input" /\ ses' = rest
              /\ UNCHANGED <<worker, engine, sync>>
           \/ c.kind = "view" /\ ses' = MarkedDirty(rest)
              /\ engine' = [engine EXCEPT !.view = @ + 1]
              /\ worker' = Publishing(worker)
              /\ HostInteraction
    /\ UNCHANGED <<events, received, up>>

LeaveReadOnly ==
    /\ WorkerIs("readOnly")
    /\ ses.stop \/ ~ses.view
    /\ worker' = [worker EXCEPT !.at = "done"]
    /\ UNCHANGED <<ses, events, engine, sync, received, up>>

Work ==
    /\ \/ ImportHistory \/ FailConnect \/ Connect
       \/ ConsumeOutput \/ TakeCommands \/ RunCommand \/ LoseConnection \/ CloseTerminal
       \/ BuildLast \/ TakeLast \/ ReportEnd \/ ReadOnlyCommand \/ LeaveReadOnly
    /\ UNCHANGED <<tab, timers, gui, shown, runs, typed, viewed, retries>>

-----------------------------------------------------------------------------
(* The frames, on the GUI thread.                                          *)

GuiIs(at) == gui.at = at
Watched   == ses.view \/ ses.running

\* The timer of eight milliseconds has run out: deliverLatestSnapshot.
TakeFrame ==
    /\ GuiIs("idle") /\ ses.timer
    /\ IF Watched
       THEN /\ gui' = [at |-> "draw", held |-> ses.pending]
            /\ ses' = [ses EXCEPT !.timer = FALSE, !.pending = NoFrame]
       ELSE /\ ses' = [ses EXCEPT !.timer = FALSE, !.pending = NoFrame, !.scheduled = FALSE]
            /\ UNCHANGED gui
    /\ UNCHANGED shown

Draw(frame) == shown' = IF frame # NoFrame /\ tab.open THEN frame ELSE shown

DrawFrame ==
    /\ GuiIs("draw")
    /\ Draw(gui.held)
    /\ ses' = [ses EXCEPT !.scheduled = FALSE]
    /\ gui' = [at |-> "more", held |-> NoFrame]

\* A frame stored meanwhile, whose worker found a delivery scheduled.
LookForMore ==
    /\ GuiIs("more")
    /\ IF ses.pending # NoFrame
       THEN /\ ses' = [ses EXCEPT !.scheduled = TRUE, !.timer = @ \/ ~ses.scheduled]
            /\ gui' = [gui EXCEPT !.at = "idle"]
       ELSE /\ gui' = [gui EXCEPT !.at = "dirty"]
            /\ UNCHANGED ses
    /\ UNCHANGED shown

\* At most one request for a frame at the end of the queue.
AskForFrame(s) ==
    IF s.commands # <<>> /\ s.commands[Len(s.commands)] = Snapshot THEN s
    ELSE [s EXCEPT !.commands = Append(@, Snapshot)]

LookForNews ==
    /\ GuiIs("dirty")
    /\ ses' = IF ses.dirty /\ Watched THEN AskForFrame(ses) ELSE ses
    /\ gui' = [gui EXCEPT !.at = "idle"]
    /\ UNCHANGED shown

\* Synchronized output has lasted a second; a build asks the same clock.
SyncTimeout ==
    /\ GuiIs("idle")
    /\ sync = "young"
    /\ sync' = "old"
    /\ ses' = IF ses.running /\ ses.dirty THEN AskForFrame(ses) ELSE ses
    /\ UNCHANGED <<gui, shown>>

Deliver ==
    /\ \/ (TakeFrame \/ DrawFrame \/ LookForMore \/ LookForNews) /\ UNCHANGED sync
       \/ SyncTimeout
    /\ UNCHANGED <<tab, timers, worker, events, engine, ghostVars>>

-----------------------------------------------------------------------------
(* What the user does with a session, on the GUI thread.                   *)

\* queueInput; a full queue refuses.
Type ==
    /\ GuiIs("idle") /\ tab.open
    /\ ses.running /\ typed < MaxInputs
    /\ ses.bytes < QueueLimit
    /\ typed' = typed + 1
    /\ ses' = [ses EXCEPT !.commands = Append(@, [kind |-> "input", n |-> typed + 1, run |-> runs]),
                          !.bytes = @ + 1]
    /\ UNCHANGED <<viewed, retries>>

\* Scrolling, selecting, searching: queueCommand.
ChangeView ==
    /\ GuiIs("idle") /\ tab.open
    /\ Watched /\ viewed < MaxViews
    /\ viewed' = viewed + 1
    /\ ses' = [ses EXCEPT !.commands = Append(@, [kind |-> "view", n |-> 0, run |-> runs])]
    /\ UNCHANGED <<typed, retries>>

Use ==
    /\ Type \/ ChangeView
    /\ UNCHANGED <<tab, timers, worker, gui, events, engine, sync, shown, received, runs, up>>

-----------------------------------------------------------------------------
(* The tab: events, and reconnecting.                                      *)

\* scheduleSshReconnect.  A connection made more than thirty seconds ago
\* restores the budget.
Schedule(t) ==
    LET attempt == IF t.connected = "long" THEN 0 ELSE t.attempt
    IN  IF t.pending \/ t.failure # "lost" THEN t
        ELSE IF attempt >= MaxAttempts THEN [t EXCEPT !.attempt = attempt]
        ELSE [t EXCEPT !.attempt = attempt + 1, !.pending = TRUE, !.generation = @ + 1]

\* The handlers of phaseChanged, failureOccurred and runningChanged; the last
\* sets connectedUtcMs only where the first has just done so.
AfterPhase(p) ==
    CASE p = "Connected" ->
            [tab EXCEPT !.phase = p, !.pending = FALSE, !.failure = NoFailure, !.connected = "recent"]
      [] p = "Failed" /\ tab.failure # NoFailure -> Schedule([tab EXCEPT !.phase = p])
      [] OTHER -> [tab EXCEPT !.phase = p]

Handled(e) ==
    CASE e.kind = "phase"   -> AfterPhase(e.what)
      [] e.kind = "failure" -> [tab EXCEPT !.failure = e.what]
      [] e.kind = "running" -> [tab EXCEPT !.running = TRUE]
      [] e.kind = "end"     -> [tab EXCEPT !.running = FALSE]
      [] OTHER -> tab

\* One event; a closed tab listens to none, but the session still does.
HandleEvent ==
    /\ GuiIs("idle") /\ events # <<>>
    /\ LET e == Head(events)
       IN  /\ events' = Tail(events)
           /\ tab' = IF tab.open THEN Handled(e) ELSE tab
           /\ timers' = timers \cup (IF tab'.generation # tab.generation THEN {tab'.generation} ELSE {})
           /\ retries' = IF timers' # timers THEN retries + 1 ELSE retries
           /\ Draw(e.frame)
           /\ ses' = CASE e.kind # "schedule" -> ses
                       [] e.kind = "schedule" /\ Watched -> [ses EXCEPT !.timer = TRUE]
                       [] OTHER -> [ses EXCEPT !.scheduled = FALSE]
    /\ UNCHANGED <<worker, gui, engine, sync, received, runs, typed, viewed, up>>

\* Thirty seconds go by after the tab saw its connection.
TimePasses ==
    /\ GuiIs("idle") /\ tab.connected = "recent"
    /\ tab' = [tab EXCEPT !.connected = "long"]
    /\ retries' = IF tab.running THEN 0 ELSE retries
    /\ UNCHANGED <<timers, ses, worker, gui, events, engine, sync, shown, received, runs, typed, viewed, up>>

\* The tab takes up a connection: attemptSshReconnect, up to the join of the
\* old worker inside start, for which the GUI thread waits.
Attempt(t) ==
    \/ /\ runs < MaxRuns
       /\ tab' = [t EXCEPT !.pending = FALSE, !.failure = NoFailure, !.phase = "Resolving"]
       /\ gui' = [gui EXCEPT !.at = "join"]
       /\ ses' = [ses EXCEPT !.view = FALSE, !.stop = TRUE]
    \/ /\ "credential" \in Failures
       /\ tab' = [t EXCEPT !.pending = FALSE]
       /\ UNCHANGED <<gui, ses>>

\* Seeded fault: the running state alone decides.
ReconnectWhenStopped == ~tab.running /\ ~tab.pending

CanReconnect ==
    ~tab.running /\ ~tab.pending /\ tab.phase \in {"Disconnected", "Failed"}

\* Opening the tab the first time, and reconnectTerminalTab.
Reconnect ==
    /\ GuiIs("idle") /\ tab.open /\ CanReconnect /\ tab.generation < MaxGeneration
    /\ Attempt([tab EXCEPT !.attempt = 0, !.generation = @ + 1])
    /\ retries' = 0
    /\ UNCHANGED timers

ReconnectTimer(g) ==
    /\ GuiIs("idle") /\ g \in timers
    /\ timers' = timers \ {g}
    /\ IF tab.open /\ tab.pending /\ tab.generation = g
       THEN Attempt(tab)
       ELSE UNCHANGED <<tab, gui, ses>>
    /\ UNCHANGED retries

\* cancelTerminalReconnect.
CancelReconnect ==
    /\ GuiIs("idle") /\ tab.open /\ tab.pending
    /\ tab' = [tab EXCEPT !.pending = FALSE, !.generation = @ + 1]
    /\ UNCHANGED <<timers, gui, ses, retries>>

WorkerGone == worker.at \in {"none", "done"}

\* Seeded fault: start keeps the command queue.
QueueKept(s) ==
    [s EXCEPT !.pending = NoFrame, !.scheduled = FALSE, !.dirty = FALSE, !.timer = FALSE,
              !.running = FALSE]

\* The rest of start: nothing of the old run is left in the session.
Emptied(s) ==
    [s EXCEPT !.commands = <<>>, !.bytes = 0, !.pending = NoFrame, !.scheduled = FALSE,
              !.dirty = FALSE, !.timer = FALSE, !.running = FALSE]

Start ==
    /\ GuiIs("join") /\ WorkerGone
    /\ runs' = runs + 1
    /\ LET again == Retain /\ runs > 0
       IN  /\ worker' = [at |-> IF again THEN "import" ELSE "connect", pub |-> "no",
                         batch |-> <<>>, end |-> "Disconnected", final |-> NoFrame]
           /\ engine' = IF again THEN engine ELSE [run |-> runs + 1, out |-> 0, view |-> 0]
    /\ ses' = [Emptied(ses) EXCEPT !.view = TRUE, !.stop = FALSE]
    /\ sync' = "off"
    /\ gui' = [gui EXCEPT !.at = "idle"]
    /\ received' = <<>> /\ up' = FALSE
    /\ UNCHANGED <<tab, timers, events, shown, typed, viewed, retries>>

\* Closing the tab: the signals are disconnected, requestStop, and a thread
\* of its own joins the worker.
CloseTab ==
    /\ GuiIs("idle") /\ tab.open
    /\ tab' = [tab EXCEPT !.open = FALSE]
    /\ ses' = [ses EXCEPT !.view = FALSE, !.stop = TRUE, !.timer = FALSE, !.joiner = "joining"]
    /\ UNCHANGED <<timers, gui, retries>>

\* The joining thread is done, so the closed tab can be reaped.
WorkerJoined ==
    /\ ses.joiner = "joining" /\ WorkerGone
    /\ ses' = [ses EXCEPT !.joiner = "finished"]
    /\ UNCHANGED <<tab, timers, gui, retries>>

Tab ==
    \/ HandleEvent
    \/ TimePasses
    \/ Start
    \/ /\ Reconnect \/ CancelReconnect \/ CloseTab \/ WorkerJoined
          \/ \E g \in timers : ReconnectTimer(g)
       /\ UNCHANGED <<worker, events, engine, sync, shown, received, runs, typed, viewed, up>>

Next == Publish \/ Work \/ Deliver \/ Use \/ Tab

Spec == Init /\ [][Next]_vars

-----------------------------------------------------------------------------
(* Properties.                                                             *)

\* Nothing is on its way between the two threads.
Quiet ==
    /\ GuiIs("idle") /\ events = <<>> /\ ~ses.timer /\ ses.commands = <<>>
    /\ worker.pub = "no" /\ sync # "young"
    /\ \/ worker.at = "live" /\ worker.batch = <<>>
       \/ worker.at = "readOnly"

\* What a connection has printed is on the screen as soon as nothing is on its
\* way, however output, its delivery, synchronized output and the end of the
\* run interleave: no frame is lost between the flag that asks for one, the
\* one that waits and the event that carries the last, as long as every picture
\* of the engine can be taken.
LastOutputIsShown ==
    Quiet /\ ses.view /\ up => shown.run = engine.run /\ shown.out = engine.out

\* The phase, failure and running state of a tab are never changed by a report
\* of an earlier run: a reconnect is only taken up after all those reports.
StaleEventsChangeNothing ==
    [][HandleEvent /\ Head(events).run # runs =>
        UNCHANGED <<tab.phase, tab.failure, tab.running, timers>>]_vars

\* No terminal input is replayed: the remote side of a run receives only what
\* was typed into this run, each input once and in the order of typing.
InputIsNotReplayed ==
    /\ \A i \in DOMAIN received : received[i].run = runs
    /\ \A i, j \in DOMAIN received : i < j => received[i].n < received[j].n

\* A host that cannot be reached is given up after the attempts of its
\* profile, counted from the last connection the user asked for or that stayed
\* up for thirty seconds.
RetriesBounded == retries <= MaxAttempts

=============================================================================
