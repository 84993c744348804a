-------------------------- MODULE SshSessionProofs --------------------------
(***************************************************************************)
(* Three facts about a terminal tab and its session, for any number of     *)
(* runs, any amount of input and output and any limit of the queue: typed  *)
(* input is never replayed, no report of an earlier run changes the tab,   *)
(* and what a connection has printed gets to the screen.                   *)
(***************************************************************************)
EXTENDS SshSession, Integers, TLAPS

(***************************************************************************)
(* Input passes through three sequences: what the remote side has          *)
(* received, the batch the worker has taken, the queue.  Read in this      *)
(* order they hold what was typed into the present run, each input once    *)
(* and in order; a new run starts with all three empty.                    *)
(***************************************************************************)
Commands == [kind : {"snapshot", "input", "view"}, n : Nat, run : Nat]

\* The fields of the records the threads share and the worker keeps.
SessionFields == {"view", "running", "commands", "bytes", "pending", "scheduled", "dirty",
                  "timer", "stop", "joiner"}
WorkerFields  == {"at", "pub", "batch", "end", "final"}

QueueTypes ==
    /\ ses = [f \in SessionFields |-> ses[f]]
    /\ worker = [f \in WorkerFields |-> worker[f]]
    /\ ses.commands \in Seq(Commands)
    /\ worker.batch \in Seq(Commands)
    /\ received \in Seq(Commands)
    /\ runs \in Nat /\ typed \in Nat

IsInput(c) == c.kind = "input"

\* The inputs among the commands of a sequence belong to run r, the last of them
\* being input m or an earlier one.
Mine(s, r, m) == \A i \in DOMAIN s : IsInput(s[i]) => s[i].run = r /\ s[i].n <= m

\* They are in the order of typing.
Sorted(s) == \A i, j \in DOMAIN s : i < j /\ IsInput(s[i]) /\ IsInput(s[j]) => s[i].n < s[j].n

\* Those of one sequence were typed before those of another.
Before(s, t) == \A i \in DOMAIN s, j \in DOMAIN t : IsInput(s[i]) /\ IsInput(t[j]) => s[i].n < t[j].n

InputsInOrder ==
    /\ \A i \in DOMAIN received : IsInput(received[i])
    /\ Mine(received, runs, typed)
    /\ Mine(worker.batch, runs, typed)
    /\ Mine(ses.commands, runs, typed)
    /\ Sorted(received) /\ Sorted(worker.batch) /\ Sorted(ses.commands)
    /\ Before(received, worker.batch)
    /\ Before(received, ses.commands)
    /\ Before(worker.batch, ses.commands)

QueueInv == QueueTypes /\ InputsInOrder

-----------------------------------------------------------------------------
(* Sequences of commands.                                                  *)

LEMMA TailIsLater ==
    ASSUME NEW s \in Seq(Commands), s # <<>>
    PROVE  /\ Tail(s) \in Seq(Commands) /\ Head(s) \in Commands
           /\ DOMAIN s = 1 .. Len(s) /\ Len(s) \in Nat \ {0}
           /\ DOMAIN Tail(s) = 1 .. Len(s) - 1
           /\ \A i \in DOMAIN Tail(s) : i + 1 \in DOMAIN s /\ Tail(s)[i] = s[i + 1]
           /\ 1 \in DOMAIN s /\ Head(s) = s[1]
  OBVIOUS

LEMMA AppendIsLast ==
    ASSUME NEW s \in Seq(Commands), NEW c \in Commands
    PROVE  /\ Append(s, c) \in Seq(Commands)
           /\ DOMAIN s = 1 .. Len(s) /\ Len(s) \in Nat
           /\ DOMAIN Append(s, c) = 1 .. Len(s) + 1
           /\ \A i \in DOMAIN s : Append(s, c)[i] = s[i]
           /\ Append(s, c)[Len(s) + 1] = c
  OBVIOUS

\* The rest of a sequence.
LEMMA TailKeeps ==
    ASSUME NEW s \in Seq(Commands), s # <<>>, NEW t \in Seq(Commands),
           NEW r \in Nat, NEW m \in Nat
    PROVE  /\ Mine(s, r, m) => Mine(Tail(s), r, m)
           /\ Sorted(s) => Sorted(Tail(s))
           /\ Before(s, t) => Before(Tail(s), t)
           /\ Before(t, s) => Before(t, Tail(s))
<1>1. Mine(s, r, m) => Mine(Tail(s), r, m)
  BY TailIsLater DEF Mine
<1>2. ASSUME Sorted(s), NEW i \in DOMAIN Tail(s), NEW j \in DOMAIN Tail(s), i < j,
             IsInput(Tail(s)[i]), IsInput(Tail(s)[j])
      PROVE  Tail(s)[i].n < Tail(s)[j].n
  <2>1. i + 1 \in DOMAIN s /\ j + 1 \in DOMAIN s /\ i + 1 < j + 1
    BY <1>2, TailIsLater
  <2>2. Tail(s)[i] = s[i + 1] /\ Tail(s)[j] = s[j + 1]
    BY TailIsLater
  <2> QED BY <1>2, <2>1, <2>2 DEF Sorted
<1>3. Before(s, t) => Before(Tail(s), t)
  BY TailIsLater DEF Before
<1>4. Before(t, s) => Before(t, Tail(s))
  BY TailIsLater DEF Before
<1>5. Sorted(s) => Sorted(Tail(s))
  BY <1>2 DEF Sorted
<1> QED BY <1>1, <1>3, <1>4, <1>5

\* A command that is no input changes nothing; an input that was typed after
\* all others goes to the end.
LEMMA AppendKeeps ==
    ASSUME NEW s \in Seq(Commands), NEW c \in Commands, NEW t \in Seq(Commands),
           NEW r \in Nat, NEW m \in Nat
    PROVE  /\ Mine(s, r, m) /\ (IsInput(c) => c.run = r /\ c.n <= m) => Mine(Append(s, c), r, m)
           /\ Sorted(s) /\ (IsInput(c) => \A i \in DOMAIN s : IsInput(s[i]) => s[i].n < c.n)
                => Sorted(Append(s, c))
           /\ Before(t, s) /\ (IsInput(c) => \A i \in DOMAIN t : IsInput(t[i]) => t[i].n < c.n)
                => Before(t, Append(s, c))
           /\ Before(s, t) /\ (IsInput(c) => \A i \in DOMAIN t : IsInput(t[i]) => c.n < t[i].n)
                => Before(Append(s, c), t)
<1>1. \A i \in DOMAIN Append(s, c) : i = Len(s) + 1 \/ i \in DOMAIN s
  BY AppendIsLast
<1>2. Mine(s, r, m) /\ (IsInput(c) => c.run = r /\ c.n <= m) => Mine(Append(s, c), r, m)
  BY <1>1, AppendIsLast DEF Mine
<1>3. Sorted(s) /\ (IsInput(c) => \A i \in DOMAIN s : IsInput(s[i]) => s[i].n < c.n)
        => Sorted(Append(s, c))
  BY <1>1, AppendIsLast DEF Sorted
<1>4. Before(t, s) /\ (IsInput(c) => \A i \in DOMAIN t : IsInput(t[i]) => t[i].n < c.n)
        => Before(t, Append(s, c))
  BY <1>1, AppendIsLast DEF Before
<1>5. Before(s, t) /\ (IsInput(c) => \A i \in DOMAIN t : IsInput(t[i]) => c.n < t[i].n)
        => Before(Append(s, c), t)
  BY <1>1, AppendIsLast DEF Before
<1> QED BY <1>2, <1>3, <1>4, <1>5

\* The head of a sequence and the rest of it.
LEMMA HeadIsFirst ==
    ASSUME NEW s \in Seq(Commands), s # <<>>, NEW t \in Seq(Commands), NEW r \in Nat, NEW m \in Nat
    PROVE  /\ Mine(s, r, m) /\ IsInput(Head(s)) => Head(s).run = r /\ Head(s).n <= m
           /\ Sorted(s) /\ IsInput(Head(s))
                => \A i \in DOMAIN Tail(s) : IsInput(Tail(s)[i]) => Head(s).n < Tail(s)[i].n
           /\ Before(t, s) /\ IsInput(Head(s))
                => \A i \in DOMAIN t : IsInput(t[i]) => t[i].n < Head(s).n
           /\ Before(s, t) /\ IsInput(Head(s))
                => \A i \in DOMAIN t : IsInput(t[i]) => Head(s).n < t[i].n
<1>1. Mine(s, r, m) /\ IsInput(Head(s)) => Head(s).run = r /\ Head(s).n <= m
  BY TailIsLater DEF Mine
<1>2. ASSUME Sorted(s), IsInput(Head(s)), NEW i \in DOMAIN Tail(s), IsInput(Tail(s)[i])
      PROVE  Head(s).n < Tail(s)[i].n
  <2>1. 1 \in DOMAIN s /\ i + 1 \in DOMAIN s /\ 1 < i + 1
    BY TailIsLater
  <2>2. Head(s) = s[1] /\ Tail(s)[i] = s[i + 1]
    BY TailIsLater
  <2> QED BY <1>2, <2>1, <2>2 DEF Sorted
<1>3. Before(t, s) /\ IsInput(Head(s)) => \A i \in DOMAIN t : IsInput(t[i]) => t[i].n < Head(s).n
  BY TailIsLater DEF Before
<1>4. Before(s, t) /\ IsInput(Head(s)) => \A i \in DOMAIN t : IsInput(t[i]) => Head(s).n < t[i].n
  BY TailIsLater DEF Before
<1> QED BY <1>1, <1>2, <1>3, <1>4

\* Nothing is in an empty sequence.
LEMMA EmptyKeeps ==
    ASSUME NEW s \in Seq(Commands), NEW r, NEW m
    PROVE  /\ << >> \in Seq(Commands)
           /\ Mine(<< >>, r, m) /\ Sorted(<< >>) /\ Before(<< >>, s) /\ Before(s, << >>)
  BY DEF Mine, Sorted, Before

-----------------------------------------------------------------------------
(* Which steps touch the three sequences.                                  *)

Sequences == <<ses.commands, worker.batch, received, runs, typed>>

LEMMA PublishTouchesNothing ==
    ASSUME QueueTypes, Publish
    PROVE  QueueTypes' /\ UNCHANGED Sequences
<1>1. CASE CheckPending
  BY <1>1 DEF QueueTypes, Publish, CheckPending, Sequences, ghostVars, sharedVars, WorkerFields
<1>2. CASE BuildFrame
  BY <1>2 DEF QueueTypes, Publish, BuildFrame, Sequences, ghostVars, sharedVars, WorkerFields, SessionFields
<1>3. CASE StoreFrame
  BY <1>3 DEF QueueTypes, Publish, StoreFrame, Sequences, ghostVars, sharedVars, WorkerFields, SessionFields
<1>4. CASE PostDelivery
  BY <1>4 DEF QueueTypes, Publish, PostDelivery, Sequences, ghostVars, sharedVars, WorkerFields, SessionFields
<1> QED BY <1>1, <1>2, <1>3, <1>4 DEF Publish

LEMMA WorkTouchesNothing ==
    ASSUME QueueTypes, Work,
           ~(TakeCommands \/ RunCommand \/ ReportEnd \/ ReadOnlyCommand)
    PROVE  QueueTypes' /\ UNCHANGED Sequences
<1> USE DEF QueueTypes, Work, Sequences, SessionFields, WorkerFields, FailRun, Ending,
            MarkedDirty, Publishing
<1>1. CASE ImportHistory
  BY <1>1 DEF ImportHistory
<1>2. CASE FailConnect
  BY <1>2 DEF FailConnect
<1>3. CASE Connect
  BY <1>3 DEF Connect
<1>4. CASE ConsumeOutput
  BY <1>4 DEF ConsumeOutput
<1>5. CASE LoseConnection
  BY <1>5 DEF LoseConnection
<1>6. CASE CloseTerminal
  BY <1>6 DEF CloseTerminal
<1>7. CASE BuildLast
  BY <1>7 DEF BuildLast
<1>8. CASE TakeLast
  BY <1>8 DEF TakeLast
<1>9. CASE LeaveReadOnly
  BY <1>9 DEF LeaveReadOnly
<1> QED BY <1>1, <1>2, <1>3, <1>4, <1>5, <1>6, <1>7, <1>8, <1>9 DEF Work

LEMMA DeliverTouchesNothing ==
    ASSUME QueueTypes, Deliver, ~(LookForNews \/ SyncTimeout)
    PROVE  QueueTypes' /\ UNCHANGED Sequences
<1> USE DEF QueueTypes, Deliver, Sequences, SessionFields, WorkerFields, ghostVars
<1>1. CASE TakeFrame
  BY <1>1 DEF TakeFrame
<1>2. CASE DrawFrame
  BY <1>2 DEF DrawFrame
<1>3. CASE LookForMore
  BY <1>3 DEF LookForMore
<1> QED BY <1>1, <1>2, <1>3 DEF Deliver

LEMMA AttemptTouchesNothing ==
    ASSUME QueueTypes, NEW t, Attempt(t), UNCHANGED <<worker, received, runs, typed>>
    PROVE  QueueTypes' /\ UNCHANGED Sequences
  BY DEF QueueTypes, Attempt, Sequences, SessionFields, WorkerFields

LEMMA TabTouchesNothing ==
    ASSUME QueueTypes, Tab, ~Start
    PROVE  QueueTypes' /\ UNCHANGED Sequences
<1>1. CASE HandleEvent
  BY <1>1 DEF HandleEvent, QueueTypes, Sequences, SessionFields, WorkerFields
<1>2. CASE TimePasses
  BY <1>2 DEF TimePasses, QueueTypes, Sequences, SessionFields, WorkerFields
<1>3. ASSUME UNCHANGED <<worker, received, runs, typed>>,
             \/ Reconnect \/ CancelReconnect \/ CloseTab \/ WorkerJoined
             \/ \E g \in timers : ReconnectTimer(g)
      PROVE  QueueTypes' /\ UNCHANGED Sequences
  <2>1. CASE Reconnect
    <3>1. PICK t : Attempt(t)
      BY <2>1 DEF Reconnect
    <3> QED BY <1>3, <3>1, AttemptTouchesNothing
  <2>2. CASE \E g \in timers : ReconnectTimer(g)
    <3>1. Attempt(tab) \/ UNCHANGED ses
      BY <2>2 DEF ReconnectTimer
    <3>2. CASE UNCHANGED ses
      BY <1>3, <3>2 DEF QueueTypes, Sequences
    <3> QED BY <1>3, <3>1, <3>2, AttemptTouchesNothing
  <2>3. CASE CancelReconnect
    BY <1>3, <2>3 DEF CancelReconnect, QueueTypes, Sequences
  <2>4. CASE CloseTab
    BY <1>3, <2>4 DEF CloseTab, QueueTypes, Sequences, SessionFields
  <2>5. CASE WorkerJoined
    BY <1>3, <2>5 DEF WorkerJoined, QueueTypes, Sequences, SessionFields
  <2> QED BY <1>3, <2>1, <2>2, <2>3, <2>4, <2>5
<1> QED BY <1>1, <1>2, <1>3 DEF Tab

\* Nothing is on its way when a sequence and its parts are as before.
LEMMA NothingTouched ==
    ASSUME QueueTypes', InputsInOrder, UNCHANGED Sequences
    PROVE  QueueInv'
  BY DEF QueueInv, InputsInOrder, Sequences, Mine, Sorted, Before

-----------------------------------------------------------------------------
(* The steps that touch them.                                              *)

\* A command that is no input goes to the end of the queue.
LEMMA RequestKeeps ==
    ASSUME QueueInv, NEW c \in Commands, ~IsInput(c),
           ses' = [ses EXCEPT !.commands = Append(@, c)],
           UNCHANGED <<worker, received, runs, typed>>
    PROVE  QueueInv'
<1> DEFINE q == Append(ses.commands, c)
<1>1. QueueTypes' /\ ses'.commands = q
  BY AppendIsLast DEF QueueInv, QueueTypes, SessionFields
<1>2. /\ ses.commands \in Seq(Commands) /\ worker.batch \in Seq(Commands)
      /\ received \in Seq(Commands) /\ runs \in Nat /\ typed \in Nat
  BY DEF QueueInv, QueueTypes
<1>3. Mine(q, runs, typed) /\ Sorted(q) /\ Before(received, q) /\ Before(worker.batch, q)
  BY <1>2, AppendKeeps DEF QueueInv, InputsInOrder
<1> HIDE DEF q
<1> QED BY <1>1, <1>3 DEF QueueInv, InputsInOrder, Mine, Sorted, Before

LEMMA AskKeeps ==
    ASSUME QueueInv, ses' = ses \/ ses' = AskForFrame(ses),
           UNCHANGED <<worker, received, runs, typed>>
    PROVE  QueueInv'
<1>1. CASE ses' = ses
  BY <1>1, NothingTouched DEF QueueInv, QueueTypes, Sequences
<1>2. CASE ses' = [ses EXCEPT !.commands = Append(@, Snapshot)]
  <2>1. Snapshot \in Commands /\ ~IsInput(Snapshot)
    BY DEF Snapshot, Commands, IsInput
  <2> QED BY <1>2, <2>1, RequestKeeps
<1> QED BY <1>1, <1>2 DEF AskForFrame

LEMMA DeliverKeeps ==
    ASSUME QueueInv, Deliver
    PROVE  QueueInv'
<1>1. CASE LookForNews \/ SyncTimeout
  <2>1. ses' = ses \/ ses' = AskForFrame(ses)
    BY <1>1 DEF LookForNews, SyncTimeout
  <2> QED BY <2>1, AskKeeps DEF Deliver, ghostVars
<1> QED BY <1>1, DeliverTouchesNothing, NothingTouched DEF QueueInv

LEMMA UseKeeps ==
    ASSUME QueueInv, Use
    PROVE  QueueInv'
<1>1. CASE ChangeView
  <2> DEFINE c == [kind |-> "view", n |-> 0, run |-> runs]
  <2>1. c \in Commands /\ ~IsInput(c)
    BY DEF QueueInv, QueueTypes, Commands, IsInput
  <2> QED BY <1>1, <2>1, RequestKeeps DEF ChangeView, Use
<1>2. CASE Type
  <2> DEFINE c == [kind |-> "input", n |-> typed + 1, run |-> runs]
             q == Append(ses.commands, c)
  <2>1. /\ ses.commands \in Seq(Commands) /\ worker.batch \in Seq(Commands)
        /\ received \in Seq(Commands) /\ runs \in Nat /\ typed \in Nat /\ typed' = typed + 1
    BY <1>2 DEF QueueInv, QueueTypes, Type
  <2>2. c \in Commands /\ c.n = typed + 1 /\ c.run = runs /\ typed + 1 \in Nat
    BY <2>1 DEF Commands
  <2>3. QueueTypes' /\ ses'.commands = q
    BY <1>2, <2>2, AppendIsLast DEF QueueInv, QueueTypes, SessionFields, Type, Use
  <2>4. ASSUME NEW s \in Seq(Commands), Mine(s, runs, typed)
        PROVE  /\ Mine(s, runs, typed + 1)
               /\ \A i \in DOMAIN s : IsInput(s[i]) => s[i].n < c.n
    <3>1. ASSUME NEW i \in DOMAIN s, IsInput(s[i])
          PROVE  s[i].run = runs /\ s[i].n <= typed + 1 /\ s[i].n < c.n
      <4>1. s[i].n \in Nat
        <5>1. s[i] \in Commands
          BY <2>4
        <5> QED BY <5>1 DEF Commands
      <4> QED BY <2>1, <2>2, <2>4, <3>1, <4>1 DEF Mine
    <3> QED BY <3>1 DEF Mine
  <2> HIDE DEF c
  <2>5. /\ Mine(received, runs, typed + 1) /\ Mine(worker.batch, runs, typed + 1)
        /\ Mine(ses.commands, runs, typed + 1)
    BY <2>1, <2>4 DEF QueueInv, InputsInOrder
  <2>6. Mine(q, runs, typed + 1) /\ Sorted(q) /\ Before(received, q) /\ Before(worker.batch, q)
    BY <2>1, <2>2, <2>4, <2>5, AppendKeeps DEF QueueInv, InputsInOrder
  <2> QED BY <1>2, <2>1, <2>3, <2>5, <2>6 DEF QueueInv, InputsInOrder, Use
<1> QED BY <1>1, <1>2 DEF Use

LEMMA WorkKeeps ==
    ASSUME QueueInv, Work
    PROVE  QueueInv'
<1>0. /\ ses.commands \in Seq(Commands) /\ worker.batch \in Seq(Commands)
      /\ received \in Seq(Commands) /\ runs \in Nat /\ typed \in Nat
      /\ runs' = runs /\ typed' = typed
  BY DEF QueueInv, QueueTypes, Work
\* What is queued becomes the batch, which was empty.
<1>1. CASE TakeCommands
  <2>1. /\ QueueTypes' /\ received' = received
        /\ worker'.batch = ses.commands /\ ses'.commands = << >>
    BY <1>0, <1>1, EmptyKeeps
       DEF QueueInv, QueueTypes, TakeCommands, SessionFields, WorkerFields
  <2> QED BY <1>0, <2>1, EmptyKeeps DEF QueueInv, InputsInOrder
\* The first of the batch goes to the remote side, if it is an input.
<1>2. CASE RunCommand
  <2> DEFINE c == Head(worker.batch)
  <2>1. /\ QueueTypes' /\ worker'.batch = Tail(worker.batch) /\ ses'.commands = ses.commands
        /\ received' = received \/ (IsInput(c) /\ received' = Append(received, c))
    <3>1. worker.batch # << >> /\ c \in Commands /\ Tail(worker.batch) \in Seq(Commands)
      BY <1>0, <1>2, TailIsLater DEF RunCommand
    <3>2. Append(received, c) \in Seq(Commands)
      BY <1>0, <3>1, AppendIsLast
    <3> QED BY <1>0, <1>2, <3>1, <3>2
            DEF QueueInv, QueueTypes, RunCommand, PublishIfDirty, Publishing, MarkedDirty, IsInput,
                SessionFields, WorkerFields
  <2>2. worker.batch # << >> /\ c \in Commands /\ Tail(worker.batch) \in Seq(Commands)
    BY <1>0, <1>2, TailIsLater DEF RunCommand
  <2>3. /\ Mine(Tail(worker.batch), runs, typed) /\ Sorted(Tail(worker.batch))
        /\ Before(received, Tail(worker.batch)) /\ Before(Tail(worker.batch), ses.commands)
    BY <1>0, <2>2, TailKeeps DEF QueueInv, InputsInOrder
  <2>4. CASE received' = received
    BY <1>0, <2>1, <2>3, <2>4 DEF QueueInv, InputsInOrder
  <2>5. CASE IsInput(c) /\ received' = Append(received, c)
    <3> DEFINE a == Append(received, c)
    <3> HIDE DEF c
    <3>1. /\ c.run = runs /\ c.n <= typed
          /\ \A i \in DOMAIN Tail(worker.batch) :
                IsInput(Tail(worker.batch)[i]) => c.n < Tail(worker.batch)[i].n
          /\ \A i \in DOMAIN received : IsInput(received[i]) => received[i].n < c.n
          /\ \A i \in DOMAIN ses.commands : IsInput(ses.commands[i]) => c.n < ses.commands[i].n
      BY <1>0, <2>2, <2>5, HeadIsFirst DEF QueueInv, InputsInOrder, c
    <3>2. Mine(a, runs, typed) /\ Sorted(a)
      BY <1>0, <2>2, <3>1, AppendKeeps DEF QueueInv, InputsInOrder
    <3>3. Before(a, Tail(worker.batch)) /\ Before(a, ses.commands)
      BY <1>0, <2>2, <2>3, <3>1, AppendKeeps DEF QueueInv, InputsInOrder
    <3>4. \A i \in DOMAIN a : IsInput(a[i])
      BY <1>0, <2>2, <2>5, AppendIsLast DEF QueueInv, InputsInOrder
    <3> QED BY <1>0, <2>1, <2>3, <2>5, <3>2, <3>3, <3>4 DEF QueueInv, InputsInOrder
  <2> QED BY <2>1, <2>4, <2>5
\* The end of a run drops the rest of the batch.
<1>3. CASE ReportEnd
  <2>1. /\ QueueTypes' /\ received' = received
        /\ worker'.batch = << >> /\ ses'.commands = ses.commands
    BY <1>0, <1>3, EmptyKeeps DEF QueueInv, QueueTypes, ReportEnd, SessionFields, WorkerFields
  <2> QED BY <1>0, <2>1, EmptyKeeps DEF QueueInv, InputsInOrder
\* An ended terminal drops the first of the queue.
<1>4. CASE ReadOnlyCommand
  <2>1. ses.commands # << >> /\ Tail(ses.commands) \in Seq(Commands)
    BY <1>0, <1>4, TailIsLater DEF ReadOnlyCommand
  <2>2. /\ QueueTypes' /\ received' = received
        /\ worker'.batch = worker.batch /\ ses'.commands = Tail(ses.commands)
    BY <1>0, <1>4, <2>1
       DEF QueueInv, QueueTypes, ReadOnlyCommand, PublishIfDirty, Publishing, MarkedDirty,
           SessionFields, WorkerFields
  <2>3. /\ Mine(Tail(ses.commands), runs, typed) /\ Sorted(Tail(ses.commands))
        /\ Before(received, Tail(ses.commands)) /\ Before(worker.batch, Tail(ses.commands))
    BY <1>0, <2>1, TailKeeps DEF QueueInv, InputsInOrder
  <2> QED BY <1>0, <2>2, <2>3 DEF QueueInv, InputsInOrder
<1> QED BY <1>1, <1>2, <1>3, <1>4, WorkTouchesNothing, NothingTouched DEF QueueInv

\* A run starts with three empty sequences.
LEMMA StartKeeps ==
    ASSUME QueueInv, Start
    PROVE  QueueInv'
<1>1. worker' = [f \in WorkerFields |-> worker'[f]] /\ worker'.batch = << >>
  BY DEF Start, WorkerFields
<1>2. ses' = [f \in SessionFields |-> ses'[f]] /\ ses'.commands = << >>
  BY DEF QueueInv, QueueTypes, Start, Emptied, SessionFields
<1>3. received' = << >> /\ runs' \in Nat /\ typed' \in Nat /\ << >> \in Seq(Commands)
  BY DEF QueueInv, QueueTypes, Start
<1>4. QueueTypes'
  BY <1>1, <1>2, <1>3 DEF QueueTypes
<1>5. Mine(<< >>, runs', typed') /\ Sorted(<< >>) /\ Before(<< >>, << >>)
  BY DEF Mine, Sorted, Before
<1> QED BY <1>1, <1>2, <1>3, <1>4, <1>5 DEF QueueInv, InputsInOrder

-----------------------------------------------------------------------------
LEMMA InitQueue == Init => QueueInv
<1> SUFFICES ASSUME Init PROVE QueueInv
  OBVIOUS
<1>1. QueueTypes
  BY EmptyKeeps DEF Init, QueueTypes, SessionFields, WorkerFields
<1>2. received = << >> /\ worker.batch = << >> /\ ses.commands = << >>
  BY DEF Init
<1> QED BY <1>1, <1>2, EmptyKeeps DEF QueueInv, InputsInOrder, QueueTypes

LEMMA NextQueue == QueueInv /\ [Next]_vars => QueueInv'
<1> SUFFICES ASSUME QueueInv, [Next]_vars PROVE QueueInv'
  OBVIOUS
<1>1. CASE Publish
  BY <1>1, PublishTouchesNothing, NothingTouched DEF QueueInv
<1>2. CASE Tab
  BY <1>2, TabTouchesNothing, NothingTouched, StartKeeps DEF QueueInv
<1>3. CASE UNCHANGED vars
  <2>1. QueueTypes' /\ UNCHANGED Sequences
    BY <1>3 DEF QueueInv, QueueTypes, Sequences, vars
  <2> QED BY <2>1, NothingTouched DEF QueueInv
<1> QED BY <1>1, <1>2, <1>3, WorkKeeps, DeliverKeeps, UseKeeps DEF Next

\* No terminal input is replayed (SshTerminalSession::start clears the queue,
\* runTerminal drops its batch): for every number of runs and inputs and every
\* limit of the queue, a run receives its own inputs only, once and in order.
THEOREM InputIsNotReplayedHolds == Spec => []InputIsNotReplayed
<1>1. QueueInv => InputIsNotReplayed
  BY DEF QueueInv, InputsInOrder, Mine, Sorted, InputIsNotReplayed
<1> QED BY <1>1, InitQueue, NextQueue, PTL DEF Spec

-----------------------------------------------------------------------------
(***************************************************************************)
(* The reports of a run.  The last one that changes the tab says that the  *)
(* run is over; a tab takes up a connection only after it has heard it,    *)
(* so an old report that is still to come asks for a frame and no more.    *)
(***************************************************************************)
Frames  == [run : Nat, out : Nat, view : Nat]
Words   == {"", "Connected", "Closing", "Disconnected", "Failed",
            "lost", "refused", "credential", "import", "cancelled"}
Reports == [kind : {"phase", "failure", "running", "end", "schedule"}, what : Words,
            frame : Frames, run : Nat]

TabFields == {"open", "running", "phase", "failure", "pending", "attempt", "generation", "connected"}

\* Where the worker is when it has reported the end of its run.
Over == {"readOnly", "done"}
Places == {"none", "import", "connect", "live", "finish", "take", "end"} \cup Over
EndPhases == {"Disconnected", "Failed"}

GuiStates == [at : {"idle", "draw", "more", "dirty", "join"}, held : Frames]

ReportTypes ==
    /\ events \in Seq(Reports)
    /\ tab = [f \in TabFields |-> tab[f]]
    /\ worker.at \in Places /\ worker.end \in EndPhases
    /\ engine \in Frames /\ ses.pending \in Frames /\ worker.final \in Frames
    /\ gui \in GuiStates

IsLast(e) == e.kind = "phase" /\ e.what \in EndPhases

OnlySchedules(q) == \A i \in DOMAIN q : q[i].kind = "schedule"

\* The queue of reports q during run r, whose worker is at a place.
Ordered(q, r, at) ==
    /\ \A i \in DOMAIN q : q[i].run # r => q[i].kind = "schedule"
    /\ \A i \in DOMAIN q : q[i].kind = "end" \/ IsLast(q[i]) => at \in Over
    /\ \A i, j \in DOMAIN q : i < j /\ IsLast(q[i]) => q[j].kind = "schedule"
    /\ \A i \in DOMAIN q : q[i].kind # "end" => q[i].frame = NoFrame

\* The tab has heard all the run had to say of itself.
Settled == OnlySchedules(events) /\ worker.at \in {"none"} \cup Over

TabFollows ==
    /\ tab.open /\ (tab.phase \in EndPhases \/ tab.pending) => Settled
    /\ gui.at = "join" => Settled /\ tab.open /\ tab.phase = "Resolving" /\ ~tab.pending

ReportsInv == ReportTypes /\ Ordered(events, runs, worker.at) /\ TabFollows

LEMMA ReportsTail ==
    ASSUME NEW q \in Seq(Reports), q # << >>, NEW r, NEW at, Ordered(q, r, at)
    PROVE  /\ Tail(q) \in Seq(Reports) /\ Head(q) \in Reports
           /\ Ordered(Tail(q), r, at)
           /\ Head(q).run # r => Head(q).kind = "schedule"
           /\ IsLast(Head(q)) => OnlySchedules(Tail(q)) /\ at \in Over
           /\ Head(q).kind # "end" => Head(q).frame = NoFrame
           /\ OnlySchedules(q) => OnlySchedules(Tail(q)) /\ Head(q).kind = "schedule"
<1>1. /\ Tail(q) \in Seq(Reports) /\ Head(q) \in Reports
      /\ 1 \in DOMAIN q /\ Head(q) = q[1]
      /\ \A i \in DOMAIN Tail(q) : i \in Nat /\ i > 0 /\ i + 1 \in DOMAIN q /\ Tail(q)[i] = q[i + 1]
  OBVIOUS
<1>2. ASSUME NEW i \in DOMAIN Tail(q), NEW j \in DOMAIN Tail(q), i < j, IsLast(Tail(q)[i])
      PROVE  Tail(q)[j].kind = "schedule"
  <2>1. /\ i + 1 \in DOMAIN q /\ j + 1 \in DOMAIN q /\ i + 1 < j + 1
        /\ Tail(q)[i] = q[i + 1] /\ Tail(q)[j] = q[j + 1]
    BY <1>1, <1>2
  <2> QED BY <1>2, <2>1 DEF Ordered
<1>3. ASSUME NEW i \in DOMAIN Tail(q)
      PROVE  /\ Tail(q)[i].run # r => Tail(q)[i].kind = "schedule"
             /\ Tail(q)[i].kind = "end" \/ IsLast(Tail(q)[i]) => at \in Over
             /\ Tail(q)[i].kind # "end" => Tail(q)[i].frame = NoFrame
             /\ IsLast(q[1]) => Tail(q)[i].kind = "schedule"
  BY <1>1 DEF Ordered
<1>4. Ordered(Tail(q), r, at)
  BY <1>2, <1>3 DEF Ordered
<1>5. /\ q[1].run # r => q[1].kind = "schedule"
      /\ IsLast(q[1]) => at \in Over
      /\ q[1].kind # "end" => q[1].frame = NoFrame
  BY <1>1 DEF Ordered
<1>6. IsLast(q[1]) => OnlySchedules(Tail(q))
  BY <1>3 DEF OnlySchedules
<1>7. OnlySchedules(q) => OnlySchedules(Tail(q)) /\ Head(q).kind = "schedule"
  BY <1>1 DEF OnlySchedules
<1> QED BY <1>1, <1>4, <1>5, <1>6, <1>7

\* A report is posted by the worker of the present run, one that changes the tab
\* before the end of the run was reported.
LEMMA ReportsAppend ==
    ASSUME NEW q \in Seq(Reports), NEW e \in Reports, NEW r, NEW at, NEW b,
           Ordered(q, r, at), e.run = r, at \in Over => b \in Over,
           e.kind # "schedule" => at \notin Over,
           e.kind = "end" \/ IsLast(e) => b \in Over,
           e.kind # "end" => e.frame = NoFrame
    PROVE  Append(q, e) \in Seq(Reports) /\ Ordered(Append(q, e), r, b)
<1>1. /\ Append(q, e) \in Seq(Reports)
      /\ DOMAIN q = 1 .. Len(q) /\ Len(q) \in Nat
      /\ DOMAIN Append(q, e) = 1 .. Len(q) + 1
      /\ \A i \in DOMAIN q : Append(q, e)[i] = q[i]
      /\ Append(q, e)[Len(q) + 1] = e
  OBVIOUS
<1> DEFINE a == Append(q, e)
<1>2. \A i \in DOMAIN a : (i \in DOMAIN q /\ a[i] = q[i]) \/ (i = Len(q) + 1 /\ a[i] = e)
  BY <1>1
<1> HIDE DEF a
<1>3. ASSUME NEW i \in DOMAIN a
      PROVE  /\ a[i].run # r => a[i].kind = "schedule"
             /\ a[i].kind = "end" \/ IsLast(a[i]) => b \in Over
             /\ a[i].kind # "end" => a[i].frame = NoFrame
  BY <1>2 DEF Ordered
<1>4. ASSUME NEW i \in DOMAIN a, NEW j \in DOMAIN a, i < j, IsLast(a[i])
      PROVE  a[j].kind = "schedule"
  <2>1. i \in DOMAIN q /\ a[i] = q[i]
    BY <1>1, <1>2, <1>4 DEF a
  <2>2. CASE j \in DOMAIN q /\ a[j] = q[j]
    BY <1>4, <2>1, <2>2 DEF Ordered
  <2>3. CASE a[j] = e
    BY <1>4, <2>1, <2>3 DEF Ordered
  <2> QED BY <1>2, <2>2, <2>3
<1>5. Ordered(a, r, b)
  BY <1>3, <1>4 DEF Ordered
<1> QED BY <1>1, <1>5 DEF a

\* A place follows another.
LEMMA ReportsStay ==
    ASSUME NEW q, NEW r, NEW at, NEW b, Ordered(q, r, at), at \in Over => b \in Over
    PROVE  Ordered(q, r, b)
  BY DEF Ordered

LEMMA SchedulesAppend ==
    ASSUME NEW q \in Seq(Reports), NEW e \in Reports
    PROVE  OnlySchedules(q) /\ e.kind = "schedule" => OnlySchedules(Append(q, e))
<1>1. \A i \in DOMAIN Append(q, e) : Append(q, e)[i] = e \/ (i \in DOMAIN q /\ Append(q, e)[i] = q[i])
  OBVIOUS
<1> QED BY <1>1 DEF OnlySchedules

LEMMA AppendIsReport ==
    ASSUME NEW q \in Seq(Reports), NEW e \in Reports
    PROVE  Append(q, e) \in Seq(Reports)
  OBVIOUS

LEMMA ConcatIsAppend ==
    ASSUME NEW q \in Seq(Reports), NEW e \in Reports, NEW f \in Reports
    PROVE  q \o <<e, f>> = Append(Append(q, e), f) /\ q \o <<e>> = Append(q, e) /\ q \o << >> = q
  OBVIOUS

LEMMA EventIsReport ==
    ASSUME runs \in Nat, NEW k \in {"phase", "failure", "running", "end", "schedule"},
           NEW w \in Words, NEW f \in Frames
    PROVE  /\ Event(k, w, f) \in Reports
           /\ Event(k, w, f).kind = k /\ Event(k, w, f).what = w
           /\ Event(k, w, f).frame = f /\ Event(k, w, f).run = runs
  BY DEF Event, Reports

LEMMA NoFrameType == NoFrame \in Frames
  BY DEF NoFrame, Frames

\* The worker reports nothing that changes the tab, and goes nowhere.
LEMMA NothingReported ==
    ASSUME ReportsInv, ReportTypes', UNCHANGED <<events, runs, tab>>,
           gui.at' = "join" => gui.at = "join",
           worker.at \in Over => worker.at' \in Over,
           worker.at = "none" => worker.at' = "none"
    PROVE  ReportsInv'
<1>1. Ordered(events, runs, worker.at')
  BY ReportsStay DEF ReportsInv
<1>2. Settled => Settled'
  BY DEF Settled
<1>3. TabFollows'
  BY <1>2 DEF ReportsInv, TabFollows
<1> QED BY <1>1, <1>3 DEF ReportsInv

\* A run in progress goes on, with or without a report.
LEMMA RunGoesOn ==
    ASSUME ReportsInv, ReportTypes', Ordered(events', runs, worker.at'),
           worker.at \notin {"none"} \cup Over, UNCHANGED <<runs, tab, gui>>
    PROVE  ReportsInv'
<1>1. ~Settled
  BY DEF Settled
<1>2. TabFollows'
  BY <1>1 DEF ReportsInv, TabFollows
<1> QED BY <1>2 DEF ReportsInv

LEMMA PublishReports ==
    ASSUME QueueInv, ReportsInv, Publish
    PROVE  ReportsInv'
<1>1. UNCHANGED <<tab, gui, runs, engine>> /\ worker.at' = worker.at /\ worker.end' = worker.end
      /\ worker.final' = worker.final /\ ses.pending' \in {ses.pending, engine}
  <2> USE DEF Publish, QueueInv, QueueTypes, SessionFields, WorkerFields, ghostVars, sharedVars
  <2>1. CASE CheckPending
    BY <2>1 DEF CheckPending
  <2>2. CASE BuildFrame
    BY <2>2 DEF BuildFrame
  <2>3. CASE StoreFrame
    BY <2>3 DEF StoreFrame
  <2>4. CASE PostDelivery
    BY <2>4 DEF PostDelivery
  <2> QED BY <2>1, <2>2, <2>3, <2>4
<1> DEFINE e == Event("schedule", "", NoFrame)
<1>2. e \in Reports /\ e.kind = "schedule" /\ e.run = runs /\ e.frame = NoFrame
  <2>1. runs \in Nat /\ "" \in Words
    BY DEF QueueInv, QueueTypes, Words
  <2> QED BY <2>1, NoFrameType DEF Event, Reports
<1>3. events' = events \/ events' = Append(events, e)
  BY DEF Publish, CheckPending, BuildFrame, StoreFrame, PostDelivery, sharedVars
<1>4. /\ events' \in Seq(Reports)
      /\ Ordered(events', runs, worker.at)
      /\ OnlySchedules(events) => OnlySchedules(events')
  <2> HIDE DEF e
  <2>1. ~IsLast(e)
    BY <1>2 DEF IsLast
  <2>2. events \in Seq(Reports) /\ Ordered(events, runs, worker.at)
    BY DEF ReportsInv, ReportTypes
  <2>3. CASE events' = Append(events, e)
    BY <1>2, <2>1, <2>2, <2>3, ReportsAppend, SchedulesAppend
  <2> QED BY <1>3, <2>2, <2>3
<1>5. ReportTypes'
  BY <1>1, <1>4 DEF ReportsInv, ReportTypes
<1>6. Settled => Settled'
  BY <1>1, <1>4 DEF Settled
<1>7. TabFollows'
  BY <1>1, <1>6 DEF ReportsInv, TabFollows
<1> QED BY <1>1, <1>4, <1>5, <1>7 DEF ReportsInv

\* A report of a run in progress goes to the end of the queue.
LEMMA SpokenReports ==
    ASSUME QueueInv, ReportsInv, worker.at \notin Over,
           NEW k \in {"phase", "failure", "running", "end"}, NEW w \in Words, NEW f \in Frames,
           NEW b, k = "end" \/ (k = "phase" /\ w \in EndPhases) => b \in Over, k # "end" => f = NoFrame
    PROVE  /\ Append(events, Event(k, w, f)) \in Seq(Reports)
           /\ Ordered(Append(events, Event(k, w, f)), runs, b)
<1> DEFINE e == Event(k, w, f)
<1>1. e \in Reports /\ e.kind = k /\ e.run = runs /\ e.frame = f /\ e.what = w
  BY EventIsReport DEF QueueInv, QueueTypes
<1> HIDE DEF e
<1>2. events \in Seq(Reports) /\ Ordered(events, runs, worker.at)
  BY DEF ReportsInv, ReportTypes
<1>3. e.kind = "end" \/ IsLast(e) => b \in Over
  BY <1>1 DEF IsLast
<1> QED BY <1>1, <1>2, <1>3, ReportsAppend DEF e

LEMMA FailureReports ==
    ASSUME QueueInv, ReportsInv, UNCHANGED <<runs, tab, gui>>, worker.at \in {"connect", "live"},
           NEW f \in Losses, FailRun(f)
    PROVE  ReportsInv'
<1>1. f \in Words
  BY ModesAssumption DEF Losses, Words
<1>2. events' = Append(events, Event("failure", f, NoFrame))
  BY DEF FailRun, Failure
<1>3. worker.at' = "finish" /\ worker.end' = "Failed" /\ worker.final' = worker.final
      /\ UNCHANGED <<ses, engine>>
  BY DEF FailRun, Ending, QueueInv, QueueTypes, WorkerFields
<1>4. events' \in Seq(Reports) /\ Ordered(events', runs, "finish")
  BY <1>1, <1>2, NoFrameType, SpokenReports DEF Over
<1>5. ReportTypes'
  BY <1>3, <1>4 DEF ReportsInv, ReportTypes, Places, EndPhases
<1> QED BY <1>3, <1>4, <1>5, RunGoesOn DEF Over

\* The end of a run and its last phase are posted together.
LEMMA EndThenLast ==
    ASSUME NEW q \in Seq(Reports), NEW e \in Reports, NEW f \in Reports, NEW r, NEW at, NEW b \in Over,
           Ordered(q, r, at), at \notin Over,
           e.run = r, e.kind = "end", f.run = r, f.kind = "phase", f.frame = NoFrame
    PROVE  Append(Append(q, e), f) \in Seq(Reports) /\ Ordered(Append(Append(q, e), f), r, b)
<1> DEFINE a == Append(Append(q, e), f)
<1>1. /\ a \in Seq(Reports)
      /\ DOMAIN q = 1 .. Len(q) /\ Len(q) \in Nat
      /\ DOMAIN a = 1 .. Len(q) + 2
      /\ \A i \in DOMAIN q : a[i] = q[i]
      /\ a[Len(q) + 1] = e /\ a[Len(q) + 2] = f
  OBVIOUS
<1> HIDE DEF a
<1>2. \A i \in DOMAIN a : \/ i \in DOMAIN q /\ a[i] = q[i]
                          \/ i = Len(q) + 1 /\ a[i] = e
                          \/ i = Len(q) + 2 /\ a[i] = f
  BY <1>1
<1>3. \A i \in DOMAIN q : ~IsLast(q[i])
  BY DEF Ordered
<1>4. ~IsLast(e)
  BY DEF IsLast
<1>5. ASSUME NEW i \in DOMAIN a, NEW j \in DOMAIN a, i < j PROVE ~IsLast(a[i])
  BY <1>1, <1>2, <1>3, <1>4, <1>5
<1>6. ASSUME NEW i \in DOMAIN a
      PROVE  /\ a[i].run # r => a[i].kind = "schedule"
             /\ a[i].kind # "end" => a[i].frame = NoFrame
  BY <1>2 DEF Ordered
<1>7. Ordered(a, r, b)
  BY <1>5, <1>6 DEF Ordered
<1> QED BY <1>1, <1>7 DEF a

LEMMA WorkReports ==
    ASSUME QueueInv, ReportsInv, Work
    PROVE  ReportsInv'
<1>0. UNCHANGED <<runs, tab, gui>>
  BY DEF Work
<1>a. ses = [f \in SessionFields |-> ses[f]] /\ worker = [f \in WorkerFields |-> worker[f]] /\ runs \in Nat
  BY DEF QueueInv, QueueTypes
<1>t. /\ events \in Seq(Reports) /\ tab = [f \in TabFields |-> tab[f]]
      /\ worker.at \in Places /\ worker.end \in EndPhases
      /\ engine \in Frames /\ ses.pending \in Frames /\ worker.final \in Frames
      /\ Ordered(events, runs, worker.at) /\ NoFrame \in Frames /\ gui \in GuiStates
  BY NoFrameType DEF ReportsInv, ReportTypes
\* A run in progress that reports nothing.
<1>s. ASSUME worker.at \notin {"none"} \cup Over, worker'.at \in Places, worker'.end \in EndPhases,
             engine' \in Frames, ses'.pending \in Frames, worker'.final \in Frames, UNCHANGED events
      PROVE  ReportsInv'
  <2>1. Ordered(events', runs, worker'.at)
    BY <1>t, <1>s, ReportsStay
  <2> QED BY <1>0, <1>t, <1>s, <2>1, RunGoesOn DEF ReportTypes
<1> USE DEF SessionFields, WorkerFields, WorkerIs, Places, Over
<1>1. CASE ImportHistory
  <2>1. UNCHANGED events /\ worker.at = "import" /\ worker'.at \in {"connect", "finish"}
        /\ worker'.end \in EndPhases /\ worker'.final = worker.final /\ ses'.pending = ses.pending
    BY <1>1, <1>a, <1>t DEF ImportHistory, Publishing, MarkedDirty, Ending, EndPhases
  <2>2. engine' \in Frames
    BY <1>1, <1>a, <1>t DEF ImportHistory, Frames
  <2> QED BY <1>t, <1>s, <2>1, <2>2
<1>2. CASE FailConnect \/ LoseConnection
  BY <1>0, <1>2, FailureReports DEF FailConnect, LoseConnection
<1>3. CASE Connect
  <2> DEFINE e == Event("phase", "Connected", NoFrame)
             f == Event("running", "", NoFrame)
  <2>1. /\ e \in Reports /\ e.kind = "phase" /\ e.what = "Connected" /\ e.run = runs /\ e.frame = NoFrame
        /\ f \in Reports /\ f.kind = "running" /\ f.run = runs /\ f.frame = NoFrame
    <3>1. "Connected" \in Words /\ "" \in Words
      BY DEF Words
    <3> QED BY <1>a, <1>t, <3>1 DEF Event, Reports
  <2>2. events' = events \o <<e, f>> /\ worker.at = "connect" /\ worker'.at = "live"
        /\ worker'.end = worker.end /\ worker'.final = worker.final /\ ses'.pending = ses.pending
        /\ engine' = engine
    BY <1>3, <1>a DEF Connect, Publishing, MarkedDirty, Phase
  <2> HIDE DEF e, f
  <2>3. Append(events, e) \in Seq(Reports) /\ Ordered(Append(events, e), runs, "live")
    BY <1>t, <2>1, <2>2, ReportsAppend DEF IsLast, EndPhases
  <2>4. Append(Append(events, e), f) \in Seq(Reports) /\ Ordered(Append(Append(events, e), f), runs, "live")
    BY <2>1, <2>3, ReportsAppend DEF IsLast
  <2>5. events' = Append(Append(events, e), f)
    BY <1>t, <2>1, <2>2, ConcatIsAppend
  <2> QED BY <1>0, <1>t, <2>2, <2>4, <2>5, RunGoesOn DEF ReportTypes
<1>4. CASE ConsumeOutput
  <2>1. UNCHANGED events /\ worker.at = "live" /\ worker'.at = "live"
        /\ worker'.end = worker.end /\ worker'.final = worker.final /\ ses'.pending = ses.pending
    BY <1>4, <1>a DEF ConsumeOutput, Publishing, MarkedDirty
  <2>2. engine' \in Frames
    <3>1. engine' = [engine EXCEPT !.out = @ + 1]
      BY <1>4 DEF ConsumeOutput
    <3>2. engine \in Frames
      BY <1>t
    <3> QED BY <3>1, <3>2 DEF Frames
  <2> QED BY <1>t, <1>s, <2>1, <2>2
<1>5. CASE TakeCommands
  BY <1>5, <1>a, <1>t, <1>s DEF TakeCommands
<1>6. CASE RunCommand
  <2>1. UNCHANGED events /\ worker.at = "live" /\ worker'.at = "live"
        /\ worker'.end = worker.end /\ worker'.final = worker.final /\ ses'.pending = ses.pending
    BY <1>6, <1>a DEF RunCommand, Publishing, MarkedDirty, PublishIfDirty
  <2>2. engine' \in Frames
    <3>1. engine' = engine \/ engine' = [engine EXCEPT !.view = @ + 1]
      BY <1>6 DEF RunCommand
    <3> QED BY <1>t, <3>1 DEF Frames
  <2> QED BY <1>t, <1>s, <2>1, <2>2
<1>7. CASE CloseTerminal
  <2>1. events' = Append(events, Event("phase", "Closing", NoFrame))
        /\ worker.at = "live" /\ worker'.at = "finish" /\ worker'.end = "Disconnected"
        /\ worker'.final = worker.final /\ ses'.pending = ses.pending /\ engine' = engine
    BY <1>7, <1>a DEF CloseTerminal, Ending, Phase
  <2>2. "Closing" \in Words \ EndPhases
    BY DEF Words, EndPhases
  <2>3. events' \in Seq(Reports) /\ Ordered(events', runs, "finish")
    BY <1>t, <2>1, <2>2, SpokenReports
  <2> QED BY <1>0, <1>t, <2>1, <2>3, RunGoesOn DEF ReportTypes, EndPhases
<1>8. CASE BuildLast
  BY <1>8, <1>a, <1>t, <1>s DEF BuildLast
<1>9. CASE TakeLast
  BY <1>9, <1>a, <1>t, <1>s DEF TakeLast
<1>10. CASE ReportEnd
  <2> DEFINE e == Event("end", "", worker.final)
             f == Event("phase", worker.end, NoFrame)
             q == IF ses.running THEN Append(events, e) ELSE events
  <2>0. "" \in Words /\ worker.end \in Words
    BY <1>t DEF Words, EndPhases
  <2>1. /\ e \in Reports /\ e.kind = "end" /\ e.run = runs
        /\ f \in Reports /\ f.kind = "phase" /\ f.run = runs /\ f.frame = NoFrame
    BY <1>a, <1>t, <2>0 DEF Event, Reports
  <2>2. events' = (events \o (IF ses.running THEN <<e>> ELSE <<>>)) \o <<f>>
        /\ worker.at = "end" /\ worker'.at \in {"readOnly", "done"} /\ worker'.end = worker.end
        /\ worker'.final = NoFrame /\ ses'.pending = ses.pending /\ engine' = engine
    BY <1>10, <1>a DEF ReportEnd, Phase
  <2> HIDE DEF e, f
  <2>3. Append(events, e) \in Seq(Reports)
    BY <1>t, <2>1
  <2>4. events' = Append(q, f) /\ q \in Seq(Reports)
    BY <1>t, <2>1, <2>2, <2>3, ConcatIsAppend
  <2>5. Ordered(Append(q, f), runs, worker'.at) /\ Append(q, f) \in Seq(Reports)
    <3>1. CASE ~ses.running
      BY <1>t, <2>1, <2>2, <3>1, ReportsAppend
    <3>2. CASE ses.running
      BY <1>t, <2>1, <2>2, <3>2, EndThenLast DEF IsLast
    <3> QED BY <3>1, <3>2
  <2> QED BY <1>0, <1>t, <2>2, <2>4, <2>5, RunGoesOn DEF ReportTypes
<1>11. CASE ReadOnlyCommand \/ LeaveReadOnly
  <2>1. UNCHANGED events /\ worker.at = "readOnly" /\ worker'.at \in Over
        /\ worker'.end = worker.end /\ worker'.final = worker.final /\ ses'.pending = ses.pending
    <3>1. CASE ReadOnlyCommand
      BY <1>a, <3>1 DEF ReadOnlyCommand, Publishing, MarkedDirty, PublishIfDirty
    <3>2. CASE LeaveReadOnly
      BY <1>a, <3>2 DEF LeaveReadOnly
    <3> QED BY <1>11, <3>1, <3>2
  <2>2. engine' \in Frames
    <3>1. engine' = engine \/ engine' = [engine EXCEPT !.view = @ + 1]
      BY <1>11 DEF ReadOnlyCommand, LeaveReadOnly
    <3> QED BY <1>t, <3>1 DEF Frames
  <2> QED BY <1>0, <1>t, <2>1, <2>2, NothingReported DEF ReportTypes
<1> QED BY <1>1, <1>2, <1>3, <1>4, <1>5, <1>6, <1>7, <1>8, <1>9, <1>10, <1>11 DEF Work

LEMMA DeliverReports ==
    ASSUME QueueInv, ReportsInv, Deliver
    PROVE  ReportsInv'
<1>1. /\ UNCHANGED <<events, runs, tab, worker, engine>>
      /\ gui'.at = "join" => gui.at = "join"
      /\ gui' \in GuiStates
      /\ ses'.pending \in {ses.pending, NoFrame}
  <2>t. /\ gui \in GuiStates
        /\ ses.pending \in Frames /\ NoFrame \in Frames
        /\ ses = [f \in SessionFields |-> ses[f]]
    BY NoFrameType DEF ReportsInv, ReportTypes, QueueInv, QueueTypes
  <2> USE <2>t DEF Deliver, SessionFields, ghostVars, GuiStates
  <2>1. CASE TakeFrame
    <3>1. ses'.pending = NoFrame
      BY <2>1 DEF TakeFrame
    <3>2. gui' \in GuiStates /\ (gui'.at = "join" => gui.at = "join")
      BY <2>1 DEF TakeFrame
    <3> QED BY <2>1, <3>1, <3>2
  <2>2. CASE DrawFrame
    BY <2>2 DEF DrawFrame
  <2>3. CASE LookForMore
    BY <2>3 DEF LookForMore
  <2>4. CASE LookForNews
    BY <2>4 DEF LookForNews, AskForFrame
  <2>5. CASE SyncTimeout
    BY <2>5 DEF SyncTimeout, AskForFrame
  <2> QED BY <2>1, <2>2, <2>3, <2>4, <2>5
<1>2. ReportTypes'
  BY <1>1, NoFrameType DEF ReportsInv, ReportTypes
<1> QED BY <1>1, <1>2, NothingReported

LEMMA UseReports ==
    ASSUME QueueInv, ReportsInv, Use
    PROVE  ReportsInv'
<1>1. UNCHANGED <<events, runs, tab, worker, engine, gui>> /\ ses'.pending = ses.pending
  BY DEF Use, Type, ChangeView, QueueInv, QueueTypes, SessionFields
<1>2. ReportTypes'
  BY <1>1 DEF ReportsInv, ReportTypes
<1> QED BY <1>1, <1>2, NothingReported

\* What a report changes in the tab: a stale one nothing, the last one leaves
\* only requests for a frame behind it.
LEMMA HandleReports ==
    ASSUME QueueInv, ReportsInv, HandleEvent
    PROVE  ReportsInv'
<1> DEFINE e == Head(events)
<1>1. events # << >> /\ events' = Tail(events) /\ gui.at = "idle"
      /\ UNCHANGED <<worker, gui, engine, runs>> /\ ses'.pending = ses.pending
      /\ tab' = IF tab.open THEN Handled(e) ELSE tab
  BY DEF HandleEvent, GuiIs, QueueInv, QueueTypes, SessionFields
<1>2. /\ Tail(events) \in Seq(Reports) /\ e \in Reports
      /\ Ordered(Tail(events), runs, worker.at)
      /\ IsLast(e) => OnlySchedules(Tail(events)) /\ worker.at \in Over
      /\ OnlySchedules(events) => OnlySchedules(Tail(events)) /\ e.kind = "schedule"
  BY <1>1, ReportsTail DEF ReportsInv, ReportTypes
<1> HIDE DEF e
<1>t. tab = [f \in TabFields |-> tab[f]]
  BY DEF ReportsInv, ReportTypes
<1>3. tab' = [f \in TabFields |-> tab'[f]] /\ tab'.open = tab.open
  BY <1>1, <1>t DEF Handled, AfterPhase, Schedule, TabFields
<1>4. ReportTypes'
  BY <1>1, <1>2, <1>3 DEF ReportsInv, ReportTypes
<1>5. ASSUME tab'.open, tab'.phase \in EndPhases \/ tab'.pending PROVE Settled'
  <2>1. tab.open /\ tab' = Handled(e)
    BY <1>1, <1>3, <1>5
  <2>2. CASE Settled
    BY <1>1, <1>2, <2>2 DEF Settled
  <2>3. CASE ~Settled
    <3>1. tab.phase \notin EndPhases /\ ~tab.pending
      BY <2>1, <2>3 DEF ReportsInv, TabFollows
    <3>2. e.kind = "phase"
      BY <1>t, <1>5, <2>1, <3>1 DEF Handled, TabFields
    <3>3. e.what \in EndPhases
      <4>1. tab' = AfterPhase(e.what)
        BY <2>1, <3>2 DEF Handled
      <4> QED BY <1>t, <1>5, <3>1, <4>1 DEF AfterPhase, TabFields, EndPhases
    <3> QED BY <1>1, <1>2, <3>2, <3>3 DEF IsLast, Settled
  <2> QED BY <2>2, <2>3
<1>6. TabFollows'
  BY <1>1, <1>5 DEF TabFollows
<1> QED BY <1>1, <1>2, <1>4, <1>6 DEF ReportsInv

\* The tab moves by itself, or on a call of the user.
LEMMA TabMoves ==
    ASSUME ReportsInv, UNCHANGED <<events, runs, worker, engine>>, ses'.pending = ses.pending,
           tab' = [f \in TabFields |-> tab'[f]],
           tab'.open /\ (tab'.phase \in EndPhases \/ tab'.pending) => Settled,
           gui' \in GuiStates,
           gui'.at = "join" => Settled /\ tab'.open /\ tab'.phase = "Resolving" /\ ~tab'.pending
    PROVE  ReportsInv'
<1>1. ReportTypes'
  BY DEF ReportsInv, ReportTypes
<1>2. Settled => Settled'
  BY DEF Settled
<1>3. TabFollows'
  BY <1>2 DEF TabFollows
<1> QED BY <1>1, <1>3 DEF ReportsInv

\* A connection is taken up.
LEMMA AttemptReports ==
    ASSUME QueueInv, ReportsInv, Settled, gui.at = "idle", UNCHANGED <<events, runs, worker, engine>>,
           NEW t, t = [f \in TabFields |-> t[f]], t.open,
           Attempt(t)
    PROVE  ReportsInv'
<1>1. /\ tab' = [f \in TabFields |-> tab'[f]] /\ ses'.pending = ses.pending
      /\ gui' \in GuiStates
      /\ gui'.at = "join" => tab'.open /\ tab'.phase = "Resolving" /\ ~tab'.pending
  BY DEF Attempt, TabFields, QueueInv, QueueTypes, SessionFields, ReportsInv, ReportTypes, GuiStates
<1> QED BY <1>1, TabMoves

LEMMA TabReports ==
    ASSUME QueueInv, ReportsInv, Tab
    PROVE  ReportsInv'
<1>t. tab = [f \in TabFields |-> tab[f]] /\ ses = [f \in SessionFields |-> ses[f]] /\ TabFollows
      /\ runs \in Nat /\ gui \in GuiStates
  BY DEF ReportsInv, ReportTypes, QueueInv, QueueTypes
<1>1. CASE HandleEvent
  BY <1>1, HandleReports
<1>2. CASE TimePasses
  BY <1>2, <1>t, TabMoves DEF TimePasses, GuiIs, TabFields, TabFollows
<1>3. CASE Start
  <2>1. /\ Settled /\ tab.open /\ tab.phase = "Resolving" /\ ~tab.pending /\ UNCHANGED <<events, tab>>
        /\ runs' = runs + 1 /\ worker'.at \in {"import", "connect"} /\ worker'.end = "Disconnected"
        /\ worker'.final = NoFrame /\ ses'.pending = NoFrame /\ gui'.at = "idle"
        /\ gui' \in GuiStates
        /\ engine' = engine \/ engine' = [run |-> runs + 1, out |-> 0, view |-> 0]
    <3>1. gui.at = "join"
      BY <1>3 DEF Start, GuiIs
    <3>2. ses'.pending = NoFrame
      BY <1>3, <1>t DEF Start, Emptied, SessionFields
    <3>3. /\ gui'.at = "idle" /\ UNCHANGED <<events, tab>>
          /\ gui' \in GuiStates
      BY <1>3, <1>t DEF Start, GuiStates
    <3>4. /\ runs' = runs + 1 /\ worker'.at \in {"import", "connect"} /\ worker'.end = "Disconnected"
          /\ worker'.final = NoFrame
          /\ engine' = engine \/ engine' = [run |-> runs + 1, out |-> 0, view |-> 0]
      BY <1>3 DEF Start
    <3> QED BY <1>t, <3>1, <3>2, <3>3, <3>4 DEF TabFollows
  <2>2. engine' \in Frames
    BY <1>t, <2>1 DEF Frames, ReportsInv, ReportTypes
  <2>3. ReportTypes'
    BY <2>1, <2>2, NoFrameType DEF ReportsInv, ReportTypes, Places, EndPhases
  <2>4. Ordered(events', runs', worker'.at)
    <3>1. \A i \in DOMAIN events : events[i].kind = "schedule"
      BY <2>1 DEF Settled, OnlySchedules
    <3>2. Ordered(events, runs, worker.at)
      BY DEF ReportsInv
    <3> QED BY <2>1, <3>1, <3>2 DEF Ordered, IsLast
  <2>6. TabFollows'
    BY <2>1 DEF TabFollows, EndPhases
  <2> QED BY <2>3, <2>4, <2>6 DEF ReportsInv
<1>4. ASSUME UNCHANGED <<worker, events, engine, runs>>,
             \/ Reconnect \/ CancelReconnect \/ CloseTab \/ WorkerJoined
             \/ \E g \in timers : ReconnectTimer(g)
      PROVE  ReportsInv'
  <2>1. CASE Reconnect
    <3> DEFINE t == [tab EXCEPT !.attempt = 0, !.generation = @ + 1]
    <3>1. t = [f \in TabFields |-> t[f]] /\ t.open /\ Attempt(t) /\ Settled /\ gui.at = "idle"
      BY <1>t, <2>1 DEF Reconnect, CanReconnect, TabFollows, TabFields, GuiIs, EndPhases
    <3> QED BY <1>4, <3>1, AttemptReports
  <2>2. CASE \E g \in timers : ReconnectTimer(g)
    <3>1. gui.at = "idle" /\ \/ tab.open /\ tab.pending /\ Attempt(tab)
                             \/ UNCHANGED <<tab, gui, ses>>
      BY <2>2 DEF ReconnectTimer, GuiIs
    <3>2. CASE tab.open /\ tab.pending /\ Attempt(tab)
      BY <1>4, <1>t, <3>1, <3>2, AttemptReports DEF TabFollows
    <3>3. CASE UNCHANGED <<tab, gui, ses>>
      BY <1>4, <1>t, <3>3, TabMoves DEF TabFollows
    <3> QED BY <3>1, <3>2, <3>3
  <2>3. CASE CancelReconnect
    BY <1>4, <1>t, <2>3, TabMoves DEF CancelReconnect, TabFollows, TabFields, GuiIs
  <2>4. CASE CloseTab
    BY <1>4, <1>t, <2>4, TabMoves DEF CloseTab, TabFields, SessionFields, GuiIs
  <2>5. CASE WorkerJoined
    BY <1>4, <1>t, <2>5, TabMoves DEF WorkerJoined, TabFollows, SessionFields
  <2> QED BY <1>4, <2>1, <2>2, <2>3, <2>4, <2>5
<1> QED BY <1>1, <1>2, <1>3, <1>4 DEF Tab

LEMMA InitReports == Init => ReportsInv
<1> SUFFICES ASSUME Init PROVE ReportsInv
  OBVIOUS
<1>1. events = << >> /\ DOMAIN << >> = {} /\ << >> \in Seq(Reports)
  BY DEF Init
<1>2. ReportTypes
  BY <1>1, NoFrameType DEF Init, ReportTypes, TabFields, Places, EndPhases, GuiStates
<1>3. Ordered(events, runs, worker.at) /\ OnlySchedules(events)
  BY <1>1 DEF Ordered, OnlySchedules
<1>4. TabFollows
  BY <1>3 DEF Init, TabFollows, Settled
<1> QED BY <1>2, <1>3, <1>4 DEF ReportsInv

LEMMA NextReports == QueueInv /\ ReportsInv /\ [Next]_vars => ReportsInv'
<1> SUFFICES ASSUME QueueInv, ReportsInv, [Next]_vars PROVE ReportsInv'
  OBVIOUS
<1>1. CASE UNCHANGED vars
  <2>1. ReportTypes'
    BY <1>1 DEF vars, ReportsInv, ReportTypes
  <2> QED BY <1>1, <2>1, NothingReported DEF vars
<1> QED BY <1>1, PublishReports, WorkReports, DeliverReports, UseReports, TabReports DEF Next

\* A report of an earlier run changes neither phase, failure nor running state
\* of the tab and starts no timer: a reconnect (attemptSshReconnect) comes after
\* all that a run has to say, for any number of runs, attempts and failures.
THEOREM StaleEventsChangeNothingHolds == Spec => StaleEventsChangeNothing
<1>1. QueueInv /\ ReportsInv /\ [Next]_vars =>
        [HandleEvent /\ Head(events).run # runs =>
            UNCHANGED <<tab.phase, tab.failure, tab.running, timers>>]_vars
  <2> SUFFICES ASSUME QueueInv, ReportsInv, HandleEvent, Head(events).run # runs
               PROVE  UNCHANGED <<tab.phase, tab.failure, tab.running, timers>>
    OBVIOUS
  <2>1. events # << >>
    BY DEF HandleEvent
  <2>2. Head(events).kind = "schedule"
    BY <2>1, ReportsTail DEF ReportsInv, ReportTypes
  <2>3. tab' = tab
    BY <2>2 DEF HandleEvent, Handled
  <2>4. timers' = timers
    BY <2>3 DEF HandleEvent
  <2> QED BY <2>3, <2>4
<1> QED BY <1>1, InitQueue, NextQueue, InitReports, NextReports, PTL
        DEF Spec, StaleEventsChangeNothing

-----------------------------------------------------------------------------
(***************************************************************************)
(* The screen.  While what is on it is not the newest output, something    *)
(* is under way that will change this: the engine is marked dirty and      *)
(* somebody will look at the mark, a frame waits and somebody will fetch   *)
(* it, or the last frame of the run is in its final report.                *)
(***************************************************************************)
Has(q, k) == \E i \in DOMAIN q : q[i].kind = k

\* Frame f shows the output of engine g.
Fresh(f, g) == f.run = g.run /\ f.out = g.out

Framed(q) == \E i \in DOMAIN q : q[i].frame # NoFrame
AllFresh(q, g) == \A i \in DOMAIN q : q[i].frame = NoFrame \/ Fresh(q[i].frame, g)

\* What the flags say of the run in progress.
RunHolds ==
    /\ runs > 0 => engine.run > 0
    /\ worker.at # "none" => runs > 0
    /\ up => runs > 0 /\ worker.at \in {"live", "finish", "take", "end"} \cup Over
    /\ up /\ worker.at \notin Over => ses.running
    /\ worker.at = "live" => up
    /\ ses.view => tab.open /\ ~ses.stop
    /\ sync = "young" => up /\ (worker.at \in Over => ~ses.dirty)
    /\ worker.pub = "store" => ~ses.dirty
    /\ worker.at = "take" /\ ses.dirty => worker.pub = "build"
    /\ worker.at = "end" => ~ses.dirty /\ worker.pub = "no"
    /\ gui.at # "draw" => gui.held = NoFrame

\* A delivery that is announced comes.
DeliveryComes ==
    ses.view /\ ses.scheduled => ses.timer \/ Has(events, "schedule") \/ gui.at = "draw"

\* A frame that waits is fetched.
PendingIsFetched ==
    ses.view /\ ses.pending # NoFrame =>
        worker.pub = "post" \/ ses.timer \/ Has(events, "schedule") \/ gui.at \in {"draw", "more"}

\* News are looked at.
NewsAreSeen ==
    ses.view /\ ses.dirty =>
        \/ worker.pub \in {"check", "build"}
        \/ sync = "young"
        \/ ses.pending # NoFrame
        \/ gui.at \in {"draw", "more", "dirty"}
        \/ Has(ses.commands, "snapshot")
        \/ worker.at = "live" /\ Has(worker.batch, "snapshot")
        \/ worker.at = "finish"

\* With no news, the newest of the frames that are built is of the newest output.
NewestIsFresh ==
    ses.view /\ up =>
        /\ worker.at = "end" => worker.final = NoFrame \/ Fresh(worker.final, engine)
        /\ AllFresh(events, engine)
        /\ ~ses.dirty /\ worker.pub # "store" =>
              \/ ses.pending # NoFrame /\ Fresh(ses.pending, engine)
              \/ /\ ses.pending = NoFrame
                 /\ \/ worker.at = "end" /\ worker.final # NoFrame
                    \/ Framed(events)
                    \/ gui.held # NoFrame /\ Fresh(gui.held, engine)
                    \/ gui.held = NoFrame /\ Fresh(shown, engine)

ScreenInv == RunHolds /\ DeliveryComes /\ PendingIsFetched /\ NewsAreSeen /\ NewestIsFresh

LEMMA HasAppend ==
    ASSUME NEW S, NEW q \in Seq(S), NEW c \in S, NEW k
    PROVE  Has(Append(q, c), k) <=> Has(q, k) \/ c.kind = k
<1>1. /\ DOMAIN q = 1 .. Len(q) /\ Len(q) \in Nat
      /\ DOMAIN Append(q, c) = 1 .. Len(q) + 1
      /\ \A i \in DOMAIN q : Append(q, c)[i] = q[i]
      /\ Append(q, c)[Len(q) + 1] = c
  OBVIOUS
<1>2. Has(q, k) => Has(Append(q, c), k)
  <2> SUFFICES ASSUME NEW i \in DOMAIN q, q[i].kind = k PROVE Has(Append(q, c), k)
    BY DEF Has
  <2>1. i \in DOMAIN Append(q, c)
    BY <1>1
  <2> QED BY <1>1, <2>1 DEF Has
<1>3. c.kind = k => Has(Append(q, c), k)
  <2>1. Len(q) + 1 \in DOMAIN Append(q, c)
    BY <1>1
  <2> QED BY <1>1, <2>1 DEF Has
<1>4. Has(Append(q, c), k) => Has(q, k) \/ c.kind = k
  <2> SUFFICES ASSUME NEW i \in DOMAIN Append(q, c), Append(q, c)[i].kind = k
               PROVE  Has(q, k) \/ c.kind = k
    BY DEF Has
  <2>1. i \in DOMAIN q \/ i = Len(q) + 1
    BY <1>1
  <2> QED BY <1>1, <2>1 DEF Has
<1> QED BY <1>2, <1>3, <1>4

LEMMA HasTail ==
    ASSUME NEW S, NEW q \in Seq(S), q # << >>, NEW k
    PROVE  Has(q, k) => Head(q).kind = k \/ Has(Tail(q), k)
<1>1. ASSUME NEW i \in DOMAIN q
      PROVE  q[i] = Head(q) \/ (i - 1 \in DOMAIN Tail(q) /\ Tail(q)[i - 1] = q[i])
  OBVIOUS
<1> QED BY <1>1 DEF Has

LEMMA FramedAppend ==
    ASSUME NEW q \in Seq(Reports), NEW e \in Reports, NEW g
    PROVE  /\ Framed(Append(q, e)) <=> Framed(q) \/ e.frame # NoFrame
           /\ AllFresh(Append(q, e), g) <=> AllFresh(q, g) /\ (e.frame = NoFrame \/ Fresh(e.frame, g))
<1>1. /\ DOMAIN q = 1 .. Len(q) /\ Len(q) \in Nat
      /\ DOMAIN Append(q, e) = 1 .. Len(q) + 1
      /\ \A i \in DOMAIN q : Append(q, e)[i] = q[i]
      /\ Append(q, e)[Len(q) + 1] = e
  OBVIOUS
<1> DEFINE a == Append(q, e)
<1>2. /\ \A i \in DOMAIN q : i \in DOMAIN a /\ a[i] = q[i]
      /\ \E i \in DOMAIN a : a[i] = e
      /\ \A i \in DOMAIN a : (i \in DOMAIN q /\ a[i] = q[i]) \/ a[i] = e
  BY <1>1
<1> HIDE DEF a
<1>3. Framed(a) <=> Framed(q) \/ e.frame # NoFrame
  BY <1>2 DEF Framed
<1>4. AllFresh(a, g) <=> AllFresh(q, g) /\ (e.frame = NoFrame \/ Fresh(e.frame, g))
  BY <1>2 DEF AllFresh
<1> QED BY <1>3, <1>4 DEF a

LEMMA FramedTail ==
    ASSUME NEW q \in Seq(Reports), q # << >>, NEW g
    PROVE  /\ Framed(q) => Head(q).frame # NoFrame \/ Framed(Tail(q))
           /\ AllFresh(q, g) => AllFresh(Tail(q), g) /\ (Head(q).frame = NoFrame \/ Fresh(Head(q).frame, g))
<1>1. /\ \A i \in DOMAIN q : q[i] = Head(q) \/ (i - 1 \in DOMAIN Tail(q) /\ Tail(q)[i - 1] = q[i])
      /\ \A i \in DOMAIN Tail(q) : i + 1 \in DOMAIN q /\ Tail(q)[i] = q[i + 1]
      /\ 1 \in DOMAIN q /\ Head(q) = q[1]
  OBVIOUS
<1>2. Framed(q) => Head(q).frame # NoFrame \/ Framed(Tail(q))
  BY <1>1 DEF Framed
<1>3. AllFresh(q, g) => AllFresh(Tail(q), g) /\ (Head(q).frame = NoFrame \/ Fresh(Head(q).frame, g))
  BY <1>1 DEF AllFresh
<1> QED BY <1>2, <1>3

\* Only the end of a run carries a frame, and only the last report of it is one.
LEMMA NoFrameReported ==
    ASSUME ReportsInv, worker.at \notin Over, NEW g
    PROVE  ~Framed(events) /\ AllFresh(events, g)
  BY DEF ReportsInv, Ordered, Framed, AllFresh

\* The types of what the screen depends on.
LEMMA ScreenTypes ==
    ASSUME QueueInv, ReportsInv
    PROVE  /\ ses = [f \in SessionFields |-> ses[f]] /\ worker = [f \in WorkerFields |-> worker[f]]
           /\ ses.commands \in Seq(Commands) /\ worker.batch \in Seq(Commands)
           /\ events \in Seq(Reports) /\ tab = [f \in TabFields |-> tab[f]]
           /\ worker.at \in Places /\ gui \in GuiStates /\ runs \in Nat
           /\ engine \in Frames /\ ses.pending \in Frames /\ worker.final \in Frames
           /\ NoFrame \in Frames
  BY NoFrameType DEF QueueInv, QueueTypes, ReportsInv, ReportTypes

LEMMA PublishScreen ==
    ASSUME QueueInv, ReportsInv, ScreenInv, Publish
    PROVE  ScreenInv'
<1>t. /\ ses = [f \in SessionFields |-> ses[f]] /\ worker = [f \in WorkerFields |-> worker[f]]
      /\ events \in Seq(Reports) /\ engine \in Frames /\ NoFrame \in Frames /\ runs \in Nat
  BY ScreenTypes
<1>u. UNCHANGED <<tab, gui, engine, shown, runs, up>> /\ worker'.at = worker.at
      /\ worker'.batch = worker.batch /\ worker'.final = worker.final
  BY <1>t DEF Publish, ghostVars, CheckPending, BuildFrame, StoreFrame, PostDelivery, WorkerFields
<1> USE DEF SessionFields, WorkerFields
<1>1. CASE CheckPending
  <2>1. UNCHANGED <<ses, events, sync>> /\ worker.pub = "check"
        /\ worker'.pub = IF ses.pending # NoFrame THEN "no" ELSE "build"
    BY <1>1, <1>t DEF CheckPending, sharedVars
  <2> QED BY <1>u, <2>1
          DEF ScreenInv, RunHolds, DeliveryComes, PendingIsFetched, NewsAreSeen, NewestIsFresh
<1>2. CASE BuildFrame
  <2>1. worker.pub = "build" /\ UNCHANGED events
    BY <1>2 DEF BuildFrame
  <2>2. CASE sync = "young" /\ worker.at # "take"
    <3>1. worker'.pub = "no" /\ UNCHANGED <<ses, sync>>
      BY <1>2, <1>t, <2>2 DEF BuildFrame, Forced
    <3> QED BY <1>u, <2>1, <2>2, <3>1
            DEF ScreenInv, RunHolds, DeliveryComes, PendingIsFetched, NewsAreSeen, NewestIsFresh
  <2>3. CASE ~(sync = "young" /\ worker.at # "take")
    <3>1. /\ worker'.pub = "store" /\ sync' = "off" /\ ses'.dirty = FALSE
          /\ \A f \in SessionFields \ {"dirty"} : ses'[f] = ses[f]
      BY <1>2, <1>t, <2>3 DEF BuildFrame, Forced
    <3> QED BY <1>u, <2>1, <3>1
            DEF ScreenInv, RunHolds, DeliveryComes, PendingIsFetched, NewsAreSeen, NewestIsFresh
  <2> QED BY <2>2, <2>3
<1>3. CASE StoreFrame
  <2>1. /\ worker.pub = "store" /\ worker'.pub = "post" /\ UNCHANGED <<events, sync>>
        /\ ses'.pending = engine
        /\ \A f \in SessionFields \ {"pending"} : ses'[f] = ses[f]
    BY <1>3, <1>t DEF StoreFrame
  <2>2. up => engine # NoFrame
    BY <1>t DEF ScreenInv, RunHolds, NoFrame, Frames
  <2>3. Fresh(engine, engine)
    BY DEF Fresh
  <2>4. RunHolds' /\ DeliveryComes' /\ PendingIsFetched'
    BY <1>u, <2>1 DEF ScreenInv, RunHolds, DeliveryComes, PendingIsFetched
  <2>5. NewsAreSeen'
    BY <1>u, <2>1 DEF ScreenInv, RunHolds, NewsAreSeen
  <2>6. NewestIsFresh'
    BY <1>u, <2>1, <2>2, <2>3 DEF ScreenInv, NewestIsFresh
  <2> QED BY <2>4, <2>5, <2>6 DEF ScreenInv
<1>4. CASE PostDelivery
  <2> DEFINE e == Event("schedule", "", NoFrame)
  <2>1. e \in Reports /\ e.kind = "schedule" /\ e.frame = NoFrame
    <3>1. "" \in Words
      BY DEF Words
    <3> QED BY <1>t, <3>1 DEF Event, Reports
  <2>2. /\ worker.pub = "post" /\ worker'.pub = "no" /\ UNCHANGED sync
        /\ ses'.scheduled = TRUE
        /\ \A f \in SessionFields \ {"scheduled"} : ses'[f] = ses[f]
        /\ events' = IF ses.scheduled THEN events ELSE Append(events, e)
    BY <1>4, <1>t DEF PostDelivery
  <2> HIDE DEF e
  <2>3. /\ Has(events', "schedule") <=> Has(events, "schedule") \/ ~ses.scheduled
        /\ Framed(events') <=> Framed(events)
        /\ AllFresh(events', engine) <=> AllFresh(events, engine)
    BY <1>t, <2>1, <2>2, HasAppend, FramedAppend
  <2>4. RunHolds' /\ DeliveryComes' /\ PendingIsFetched'
    BY <1>u, <2>2, <2>3 DEF ScreenInv, RunHolds, DeliveryComes, PendingIsFetched
  <2>5. NewsAreSeen' /\ NewestIsFresh'
    BY <1>u, <2>2, <2>3 DEF ScreenInv, NewsAreSeen, NewestIsFresh
  <2> QED BY <2>4, <2>5 DEF ScreenInv
<1> QED BY <1>1, <1>2, <1>3, <1>4 DEF Publish

LEMMA WorkScreen ==
    ASSUME QueueInv, ReportsInv, ScreenInv, Work
    PROVE  ScreenInv'
<1>t. /\ ses = [f \in SessionFields |-> ses[f]] /\ worker = [f \in WorkerFields |-> worker[f]]
      /\ ses.commands \in Seq(Commands) /\ worker.batch \in Seq(Commands)
      /\ events \in Seq(Reports) /\ engine \in Frames /\ NoFrame \in Frames /\ runs \in Nat
      /\ ses.pending \in Frames /\ worker.final \in Frames /\ gui \in GuiStates
  BY ScreenTypes
<1>u. UNCHANGED <<tab, gui, shown, runs>>
  BY DEF Work
<1> USE DEF SessionFields, WorkerFields, WorkerIs, Over
\* A report without a frame.
<1>e. ASSUME NEW k \in {"phase", "failure", "running"}, NEW w \in Words, NEW q \in Seq(Reports)
      PROVE  LET e == Event(k, w, NoFrame)
             IN  /\ e \in Reports
                 /\ Has(Append(q, e), "schedule") <=> Has(q, "schedule")
                 /\ Framed(Append(q, e)) <=> Framed(q)
                 /\ \A g : AllFresh(Append(q, e), g) <=> AllFresh(q, g)
  <2> DEFINE e == Event(k, w, NoFrame)
  <2>1. e \in Reports /\ e.kind = k /\ e.frame = NoFrame
    BY <1>t DEF Event, Reports
  <2> HIDE DEF e
  <2>2. e.kind # "schedule"
    BY <2>1
  <2>3. Has(Append(q, e), "schedule") <=> Has(q, "schedule")
    BY <2>1, <2>2, HasAppend
  <2>4. ASSUME NEW g
        PROVE  /\ Framed(Append(q, e)) <=> Framed(q)
               /\ AllFresh(Append(q, e), g) <=> AllFresh(q, g)
    BY <2>1, FramedAppend
  <2> QED BY <2>1, <2>3, <2>4 DEF e
<1>1. CASE ImportHistory
  <2>1. worker.at = "import" /\ worker.pub = "no" /\ UNCHANGED <<events, up>>
        /\ worker'.batch = worker.batch /\ worker'.final = worker.final
    BY <1>1, <1>t DEF ImportHistory, Publishing, Ending
  <2>2. \/ /\ worker'.at = "connect" /\ worker'.pub = "check" /\ sync' = "off"
           /\ ses'.dirty = TRUE /\ \A f \in SessionFields \ {"dirty"} : ses'[f] = ses[f]
           /\ engine' = [run |-> runs, out |-> 0, view |-> 0]
        \/ /\ worker'.at = "finish" /\ worker'.pub = "no" /\ UNCHANGED <<ses, engine, sync>>
    BY <1>1, <1>t DEF ImportHistory, Publishing, MarkedDirty, Ending, HostInteraction
  <2>3. ~up
    BY <2>1 DEF ScreenInv, RunHolds
  <2>4. RunHolds'
    <3>1. runs > 0 => engine'.run > 0
      BY <1>t, <2>2 DEF ScreenInv, RunHolds
    <3> QED BY <1>u, <2>1, <2>2, <2>3, <3>1 DEF ScreenInv, RunHolds
  <2>5. DeliveryComes' /\ PendingIsFetched' /\ NewsAreSeen' /\ NewestIsFresh'
    BY <1>u, <2>1, <2>2, <2>3
       DEF ScreenInv, DeliveryComes, PendingIsFetched, NewsAreSeen, NewestIsFresh
  <2> QED BY <2>4, <2>5 DEF ScreenInv
<1>2. CASE FailConnect \/ LoseConnection
  <2>1. PICK f \in Losses : FailRun(f)
    BY <1>2 DEF FailConnect, LoseConnection
  <2>2. f \in Words
    BY ModesAssumption DEF Losses, Words
  <2>3. /\ worker.at \in {"connect", "live"} /\ worker.pub = "no"
        /\ worker'.at = "finish" /\ worker'.pub = "no"
        /\ UNCHANGED <<ses, engine, sync, up>>
        /\ events' = Append(events, Event("failure", f, NoFrame))
    BY <1>2, <1>t, <2>1 DEF FailConnect, LoseConnection, FailRun, Ending, Failure
  <2>4. /\ Has(events', "schedule") <=> Has(events, "schedule")
        /\ Framed(events') <=> Framed(events)
        /\ AllFresh(events', engine) <=> AllFresh(events, engine)
    BY <1>e, <1>t, <2>2, <2>3
  <2>5. RunHolds' /\ DeliveryComes' /\ PendingIsFetched' /\ NewsAreSeen'
    BY <1>u, <2>3, <2>4 DEF ScreenInv, RunHolds, DeliveryComes, PendingIsFetched, NewsAreSeen
  <2>6. NewestIsFresh'
    BY <1>u, <2>3, <2>4 DEF ScreenInv, RunHolds, NewestIsFresh
  <2> QED BY <2>5, <2>6 DEF ScreenInv
<1>3. CASE Connect
  <2> DEFINE e == Event("phase", "Connected", NoFrame)
             f == Event("running", "", NoFrame)
  <2>1. /\ worker.at = "connect" /\ worker.pub = "no"
        /\ worker'.at = "live" /\ worker'.pub = "check" /\ worker'.batch = worker.batch
        /\ ses'.running = TRUE /\ ses'.dirty = TRUE
        /\ \A x \in SessionFields \ {"dirty", "running"} : ses'[x] = ses[x]
        /\ engine' = engine /\ up' = TRUE /\ sync' = "off"
        /\ events' = events \o <<e, f>>
    BY <1>3, <1>t DEF Connect, Publishing, MarkedDirty, HostInteraction, Phase
  <2>2. "Connected" \in Words /\ "" \in Words
    BY DEF Words
  <2>a. e \in Reports /\ f \in Reports
    BY <1>t, <2>2 DEF Event, Reports
  <2>3. events' = Append(Append(events, e), f)
    BY <1>t, <2>1, <2>a, ConcatIsAppend
  <2>4. Append(events, e) \in Seq(Reports)
    BY <1>t, <2>a, AppendIsReport
  <2>5. /\ Has(events', "schedule") <=> Has(events, "schedule")
        /\ AllFresh(events', engine) <=> AllFresh(events, engine)
    BY <1>e, <1>t, <2>2, <2>3, <2>4
  <2>6. AllFresh(events, engine)
    BY <2>1, NoFrameReported
  <2>7. runs > 0
    BY <2>1 DEF ScreenInv, RunHolds
  <2>8. RunHolds' /\ DeliveryComes' /\ PendingIsFetched' /\ NewsAreSeen'
    BY <1>u, <2>1, <2>5, <2>7 DEF ScreenInv, RunHolds, DeliveryComes, PendingIsFetched, NewsAreSeen
  <2>9. NewestIsFresh'
    BY <1>u, <2>1, <2>5, <2>6 DEF ScreenInv, RunHolds, NewestIsFresh
  <2> QED BY <2>8, <2>9 DEF ScreenInv
\* The engine changes, and is marked so.
<1>4. CASE ConsumeOutput
  <2>1. /\ worker.at = "live" /\ worker.pub = "no" /\ worker'.at = "live" /\ worker'.pub = "check"
        /\ worker'.batch = worker.batch
        /\ ses'.dirty = TRUE /\ \A x \in SessionFields \ {"dirty"} : ses'[x] = ses[x]
        /\ engine'.run = engine.run /\ UNCHANGED <<events, up>>
    <3>1. engine' = [engine EXCEPT !.out = @ + 1]
      BY <1>4 DEF ConsumeOutput
    <3>2. engine'.run = engine.run
      BY <1>t, <3>1 DEF Frames
    <3> QED BY <1>4, <1>t, <3>2 DEF ConsumeOutput, Publishing, MarkedDirty
  <2>2. AllFresh(events, engine')
    BY <2>1, NoFrameReported
  <2>3. RunHolds' /\ DeliveryComes' /\ PendingIsFetched' /\ NewsAreSeen'
    BY <1>u, <2>1 DEF ScreenInv, RunHolds, DeliveryComes, PendingIsFetched, NewsAreSeen
  <2>4. NewestIsFresh'
    BY <1>u, <2>1, <2>2 DEF ScreenInv, NewestIsFresh
  <2> QED BY <2>3, <2>4 DEF ScreenInv
<1>5. CASE TakeCommands
  <2>1. /\ worker.at = "live" /\ worker'.at = "live" /\ worker'.pub = worker.pub
        /\ worker'.batch = ses.commands /\ worker'.final = worker.final
        /\ \A x \in SessionFields \ {"commands", "bytes"} : ses'[x] = ses[x]
        /\ UNCHANGED <<events, engine, sync, up>> /\ worker.batch = << >>
    BY <1>5, <1>t DEF TakeCommands
  <2>2. ~Has(worker.batch, "snapshot")
    BY <2>1 DEF Has
  <2>3. RunHolds' /\ DeliveryComes' /\ PendingIsFetched' /\ NewestIsFresh'
    BY <1>u, <2>1 DEF ScreenInv, RunHolds, DeliveryComes, PendingIsFetched, NewestIsFresh
  <2>4. NewsAreSeen'
    BY <1>u, <2>1, <2>2 DEF ScreenInv, NewsAreSeen
  <2> QED BY <2>3, <2>4 DEF ScreenInv
<1>6. CASE RunCommand
  <2> DEFINE c == Head(worker.batch)
  <2>1. /\ worker.at = "live" /\ worker.pub = "no" /\ worker'.at = "live" /\ worker'.batch = Tail(worker.batch)
        /\ worker'.final = worker.final
        /\ worker.batch # << >> /\ UNCHANGED <<events, up>>
    BY <1>6, <1>t DEF RunCommand, Publishing, PublishIfDirty
  <2>2. CASE c.kind = "snapshot"
    <3>1. /\ worker'.pub = IF ses.dirty THEN "check" ELSE "no"
          /\ UNCHANGED <<ses, engine, sync>>
      BY <1>6, <1>t, <2>1, <2>2 DEF RunCommand, PublishIfDirty
    <3> QED BY <1>u, <2>1, <3>1
            DEF ScreenInv, RunHolds, DeliveryComes, PendingIsFetched, NewsAreSeen, NewestIsFresh
  <2>3. CASE c.kind # "snapshot"
    <3>1. /\ worker'.pub = "check" /\ sync' = "off"
          /\ ses'.dirty = TRUE /\ \A x \in SessionFields \ {"dirty"} : ses'[x] = ses[x]
      BY <1>6, <1>t, <2>1, <2>3 DEF RunCommand, Publishing, MarkedDirty, HostInteraction
    <3>2. engine'.run = engine.run
      BY <1>6, <1>t, <2>3 DEF RunCommand, Frames
    <3>3. AllFresh(events, engine')
      BY <2>1, NoFrameReported
    <3>4. RunHolds' /\ DeliveryComes' /\ PendingIsFetched' /\ NewsAreSeen'
      BY <1>u, <2>1, <3>1, <3>2 DEF ScreenInv, RunHolds, DeliveryComes, PendingIsFetched, NewsAreSeen
    <3>5. NewestIsFresh'
      BY <1>u, <2>1, <3>1, <3>3 DEF ScreenInv, NewestIsFresh
    <3> QED BY <3>4, <3>5 DEF ScreenInv
  <2> QED BY <2>2, <2>3
<1>7. CASE CloseTerminal
  <2>1. /\ worker.at = "live" /\ worker.pub = "no" /\ worker'.at = "finish" /\ worker'.pub = "no"
        /\ UNCHANGED <<ses, engine, sync, up>>
        /\ events' = Append(events, Event("phase", "Closing", NoFrame))
    BY <1>7, <1>t DEF CloseTerminal, Ending, Phase
  <2>2. "Closing" \in Words
    BY DEF Words
  <2>3. /\ Has(events', "schedule") <=> Has(events, "schedule")
        /\ Framed(events') <=> Framed(events)
        /\ AllFresh(events', engine) <=> AllFresh(events, engine)
    BY <1>e, <1>t, <2>1, <2>2
  <2>4. RunHolds' /\ DeliveryComes' /\ PendingIsFetched' /\ NewsAreSeen'
    BY <1>u, <2>1, <2>3 DEF ScreenInv, RunHolds, DeliveryComes, PendingIsFetched, NewsAreSeen
  <2>5. NewestIsFresh'
    BY <1>u, <2>1, <2>3 DEF ScreenInv, NewestIsFresh
  <2> QED BY <2>4, <2>5 DEF ScreenInv
<1>8. CASE BuildLast
  <2>1. /\ worker.at = "finish" /\ worker.pub = "no" /\ worker'.at = "take"
        /\ worker'.pub = IF ses.dirty THEN "build" ELSE "no"
        /\ UNCHANGED <<ses, events, engine, sync, up>>
    BY <1>8, <1>t DEF BuildLast
  <2> QED BY <1>u, <2>1
          DEF ScreenInv, RunHolds, DeliveryComes, PendingIsFetched, NewsAreSeen, NewestIsFresh
\* The frame that waits becomes that of the final report.
<1>9. CASE TakeLast
  <2>1. /\ worker.at = "take" /\ worker.pub = "no" /\ worker'.at = "end" /\ worker'.pub = "no"
        /\ worker'.final = ses.pending /\ ses'.pending = NoFrame
        /\ \A x \in SessionFields \ {"pending"} : ses'[x] = ses[x]
        /\ UNCHANGED <<events, engine, sync, up>>
    BY <1>9, <1>t DEF TakeLast
  <2>2. ~ses.dirty
    BY <2>1 DEF ScreenInv, RunHolds
  <2>3. RunHolds' /\ DeliveryComes' /\ PendingIsFetched' /\ NewsAreSeen'
    BY <1>u, <2>1, <2>2 DEF ScreenInv, RunHolds, DeliveryComes, PendingIsFetched, NewsAreSeen
  <2>4. NewestIsFresh'
    BY <1>u, <2>1, <2>2 DEF ScreenInv, NewestIsFresh
  <2> QED BY <2>3, <2>4 DEF ScreenInv
<1>10. CASE ReportEnd
  <2> DEFINE e == Event("end", "", worker.final)
             f == Event("phase", worker.end, NoFrame)
             q == IF ses.running THEN Append(events, e) ELSE events
  <2>0. "" \in Words /\ worker.end \in Words
    BY DEF ReportsInv, ReportTypes, Words, EndPhases
  <2>1. /\ e \in Reports /\ e.kind = "end" /\ e.frame = worker.final /\ f \in Reports
    BY <1>t, <2>0 DEF Event, Reports
  <2>2. /\ worker.at = "end" /\ worker.pub = "no" /\ worker'.pub = "no"
        /\ worker'.at = IF ses.stop THEN "done" ELSE "readOnly"
        /\ ses'.running = FALSE /\ \A x \in SessionFields \ {"running"} : ses'[x] = ses[x]
        /\ UNCHANGED <<engine, sync, up>>
        /\ events' = (events \o (IF ses.running THEN <<e>> ELSE <<>>)) \o <<f>>
    BY <1>10, <1>t DEF ReportEnd, Phase
  <2>3. q \in Seq(Reports) /\ events' = Append(q, f)
    <3> HIDE DEF e, f
    <3>1. CASE ses.running
      <4>1. events \o <<e>> = Append(events, e) /\ Append(events, e) \in Seq(Reports)
        BY <1>t, <2>1, ConcatIsAppend
      <4>2. Append(events, e) \o <<f>> = Append(Append(events, e), f)
        BY <2>1, <4>1, ConcatIsAppend
      <4> QED BY <2>2, <3>1, <4>1, <4>2
    <3>2. CASE ~ses.running
      <4>1. events \o << >> = events /\ events \o <<f>> = Append(events, f)
        BY <1>t, <2>1, ConcatIsAppend
      <4> QED BY <1>t, <2>2, <3>2, <4>1
    <3> QED BY <3>1, <3>2
  <2>4. /\ Has(events', "schedule") <=> Has(q, "schedule")
        /\ Framed(events') <=> Framed(q)
        /\ AllFresh(events', engine) <=> AllFresh(q, engine)
    BY <1>e, <2>0, <2>3
  <2> HIDE DEF e, f
  <2>5. Has(q, "schedule") <=> Has(events, "schedule")
    BY <1>t, <2>1, HasAppend
  <2>6. up => /\ Framed(q) <=> Framed(events) \/ worker.final # NoFrame
              /\ AllFresh(q, engine) <=>
                    AllFresh(events, engine) /\ (worker.final = NoFrame \/ Fresh(worker.final, engine))
    <3>1. up => ses.running
      BY <2>2 DEF ScreenInv, RunHolds
    <3> QED BY <1>t, <2>1, <3>1, FramedAppend
  <2> HIDE DEF q
  <2>7. ~ses.dirty
    BY <2>2 DEF ScreenInv, RunHolds
  <2>8. RunHolds' /\ DeliveryComes' /\ PendingIsFetched' /\ NewsAreSeen'
    BY <1>u, <2>2, <2>4, <2>5, <2>7
       DEF ScreenInv, RunHolds, DeliveryComes, PendingIsFetched, NewsAreSeen
  <2>9. NewestIsFresh'
    BY <1>u, <2>2, <2>4, <2>6 DEF ScreenInv, NewestIsFresh
  <2> QED BY <2>8, <2>9 DEF ScreenInv
<1>11. CASE ReadOnlyCommand
  <2> DEFINE c == Head(ses.commands)
  <2>1. /\ worker.at = "readOnly" /\ worker.pub = "no" /\ worker'.at = "readOnly"
        /\ ses.commands # << >> /\ UNCHANGED <<events, up>>
    BY <1>11, <1>t DEF ReadOnlyCommand, Publishing, PublishIfDirty
  <2>2. /\ ses'.commands = Tail(ses.commands)
        /\ \A x \in SessionFields \ {"commands", "bytes", "dirty"} : ses'[x] = ses[x]
    BY <1>11, <1>t DEF ReadOnlyCommand, MarkedDirty
  <2>3. Has(ses.commands, "snapshot") => c.kind = "snapshot" \/ Has(ses'.commands, "snapshot")
    BY <1>t, <2>1, <2>2, HasTail
  <2>4. CASE c.kind \in {"snapshot", "input"}
    <3>1. /\ ses'.dirty = ses.dirty /\ UNCHANGED <<engine, sync>>
          /\ worker'.pub = IF c.kind = "snapshot" /\ ses.dirty THEN "check" ELSE "no"
      BY <1>11, <1>t, <2>1, <2>4 DEF ReadOnlyCommand, PublishIfDirty
    <3>2. RunHolds' /\ DeliveryComes' /\ PendingIsFetched' /\ NewsAreSeen'
      BY <1>u, <2>1, <2>2, <2>3, <3>1
         DEF ScreenInv, RunHolds, DeliveryComes, PendingIsFetched, NewsAreSeen
    <3>3. NewestIsFresh'
      BY <1>u, <2>1, <2>2, <3>1 DEF ScreenInv, NewestIsFresh
    <3> QED BY <3>2, <3>3 DEF ScreenInv
  \* What was printed stays when the view changes.
  <2>5. CASE c.kind = "view"
    <3>1. /\ ses'.dirty = TRUE /\ sync' = "off" /\ worker'.pub = "check"
          /\ engine' = [engine EXCEPT !.view = @ + 1]
      BY <1>11, <1>t, <2>1, <2>5 DEF ReadOnlyCommand, MarkedDirty, Publishing, HostInteraction
    <3>2. engine'.run = engine.run /\ engine'.out = engine.out
      BY <1>t, <3>1 DEF Frames
    <3>3. AllFresh(events, engine) => AllFresh(events, engine')
      BY <3>2 DEF AllFresh, Fresh
    <3>4. RunHolds' /\ DeliveryComes' /\ PendingIsFetched' /\ NewsAreSeen'
      BY <1>u, <2>1, <2>2, <3>1, <3>2
         DEF ScreenInv, RunHolds, DeliveryComes, PendingIsFetched, NewsAreSeen
    <3>5. NewestIsFresh'
      BY <1>u, <2>1, <2>2, <3>1, <3>3 DEF ScreenInv, NewestIsFresh
    <3> QED BY <3>4, <3>5 DEF ScreenInv
  <2> QED BY <1>11, <2>4, <2>5 DEF ReadOnlyCommand
<1>12. CASE LeaveReadOnly
  <2>1. /\ worker.at = "readOnly" /\ worker'.at = "done" /\ worker'.pub = worker.pub
        /\ UNCHANGED <<ses, events, engine, sync, up>>
    BY <1>12, <1>t DEF LeaveReadOnly
  <2> QED BY <1>u, <2>1
          DEF ScreenInv, RunHolds, DeliveryComes, PendingIsFetched, NewsAreSeen, NewestIsFresh
<1> QED BY <1>1, <1>2, <1>3, <1>4, <1>5, <1>6, <1>7, <1>8, <1>9, <1>10, <1>11, <1>12 DEF Work

\* At most one request for a frame is added to the queue; then there is one.
LEMMA AskAsks ==
    ASSUME QueueInv
    PROVE  LET s == AskForFrame(ses)
           IN  /\ Has(s.commands, "snapshot")
               /\ \A x \in SessionFields \ {"commands"} : s[x] = ses[x]
<1>t. ses = [f \in SessionFields |-> ses[f]] /\ ses.commands \in Seq(Commands)
  BY DEF QueueInv, QueueTypes
<1> DEFINE s == AskForFrame(ses)
<1>1. CASE ses.commands # << >> /\ ses.commands[Len(ses.commands)] = Snapshot
  <2>1. s = ses /\ Len(ses.commands) \in DOMAIN ses.commands
    BY <1>t, <1>1 DEF AskForFrame
  <2>2. ses.commands[Len(ses.commands)].kind = "snapshot"
    BY <1>1 DEF Snapshot
  <2> QED BY <2>1, <2>2 DEF Has
<1>2. CASE ~(ses.commands # << >> /\ ses.commands[Len(ses.commands)] = Snapshot)
  <2>1. s = [ses EXCEPT !.commands = Append(@, Snapshot)]
    BY <1>2 DEF AskForFrame
  <2>2. Snapshot \in Commands /\ Snapshot.kind = "snapshot"
    BY DEF Snapshot, Commands
  <2>3. Has(Append(ses.commands, Snapshot), "snapshot")
    BY <1>t, <2>2, HasAppend
  <2>4. s.commands = Append(ses.commands, Snapshot) /\ \A x \in SessionFields \ {"commands"} : s[x] = ses[x]
    BY <1>t, <2>1 DEF SessionFields
  <2> QED BY <2>3, <2>4
<1> QED BY <1>1, <1>2

LEMMA DeliverScreen ==
    ASSUME QueueInv, ReportsInv, ScreenInv, Deliver
    PROVE  ScreenInv'
<1>t. ses = [f \in SessionFields |-> ses[f]] /\ gui \in GuiStates /\ NoFrame \in Frames
  BY ScreenTypes
<1>u. UNCHANGED <<tab, worker, events, engine, runs, up>>
  BY DEF Deliver, ghostVars
<1> USE DEF SessionFields, GuiIs
<1>1. CASE TakeFrame /\ UNCHANGED sync
  <2>1. gui.at = "idle" /\ UNCHANGED <<sync, shown>>
    BY <1>1 DEF TakeFrame
  <2>2. CASE Watched
    <3>1. gui' = [at |-> "draw", held |-> ses.pending]
      BY <1>1, <2>2 DEF TakeFrame
    <3>2. /\ ses'.timer = FALSE /\ ses'.pending = NoFrame
          /\ \A x \in SessionFields \ {"timer", "pending"} : ses'[x] = ses[x]
      BY <1>1, <1>t, <2>2 DEF TakeFrame
    <3>3. RunHolds' /\ DeliveryComes' /\ PendingIsFetched' /\ NewsAreSeen'
      BY <1>u, <2>1, <3>1, <3>2 DEF ScreenInv, RunHolds, DeliveryComes, PendingIsFetched, NewsAreSeen
    <3>4. NewestIsFresh'
      BY <1>u, <2>1, <3>1, <3>2 DEF ScreenInv, RunHolds, NewestIsFresh
    <3> QED BY <3>3, <3>4 DEF ScreenInv
  <2>3. CASE ~Watched
    <3>1. ~ses.view /\ UNCHANGED gui
      BY <1>1, <2>3 DEF TakeFrame, Watched
    <3>2. \A x \in SessionFields \ {"timer", "pending", "scheduled"} : ses'[x] = ses[x]
      BY <1>1, <1>t, <2>3 DEF TakeFrame
    <3> QED BY <1>u, <2>1, <3>1, <3>2
            DEF ScreenInv, RunHolds, DeliveryComes, PendingIsFetched, NewsAreSeen, NewestIsFresh
  <2> QED BY <2>2, <2>3
<1>2. CASE DrawFrame /\ UNCHANGED sync
  <2>1. /\ gui.at = "draw" /\ gui' = [at |-> "more", held |-> NoFrame] /\ UNCHANGED sync
        /\ ses'.scheduled = FALSE
        /\ \A x \in SessionFields \ {"scheduled"} : ses'[x] = ses[x]
        /\ shown' = IF gui.held # NoFrame /\ tab.open THEN gui.held ELSE shown
    BY <1>2, <1>t DEF DrawFrame, Draw
  <2>2. RunHolds' /\ DeliveryComes' /\ PendingIsFetched' /\ NewsAreSeen'
    BY <1>u, <2>1 DEF ScreenInv, RunHolds, DeliveryComes, PendingIsFetched, NewsAreSeen
  <2>3. NewestIsFresh'
    BY <1>u, <2>1 DEF ScreenInv, RunHolds, NewestIsFresh
  <2> QED BY <2>2, <2>3 DEF ScreenInv
<1>3. CASE LookForMore /\ UNCHANGED sync
  <2>1. gui.at = "more" /\ gui'.held = gui.held /\ UNCHANGED <<sync, shown>>
    BY <1>3, <1>t DEF LookForMore, GuiStates
  <2>2. CASE ses.pending # NoFrame
    <3>1. /\ gui'.at = "idle" /\ ses'.scheduled = TRUE /\ (ses'.timer <=> ses.timer \/ ~ses.scheduled)
          /\ \A x \in SessionFields \ {"scheduled", "timer"} : ses'[x] = ses[x]
      BY <1>3, <1>t, <2>2 DEF LookForMore, GuiStates
    <3>2. RunHolds' /\ DeliveryComes' /\ PendingIsFetched' /\ NewsAreSeen'
      BY <1>u, <2>1, <2>2, <3>1
         DEF ScreenInv, RunHolds, DeliveryComes, PendingIsFetched, NewsAreSeen
    <3>3. NewestIsFresh'
      BY <1>u, <2>1, <2>2, <3>1 DEF ScreenInv, RunHolds, NewestIsFresh
    <3> QED BY <3>2, <3>3 DEF ScreenInv
  <2>3. CASE ses.pending = NoFrame
    <3>1. gui'.at = "dirty" /\ UNCHANGED ses
      BY <1>3, <1>t, <2>3 DEF LookForMore, GuiStates
    <3> QED BY <1>u, <2>1, <2>3, <3>1
            DEF ScreenInv, RunHolds, DeliveryComes, PendingIsFetched, NewsAreSeen, NewestIsFresh
  <2> QED BY <2>2, <2>3
<1>4. CASE LookForNews /\ UNCHANGED sync
  <2>1. gui.at = "dirty" /\ gui'.at = "idle" /\ gui'.held = gui.held /\ UNCHANGED <<sync, shown>>
        /\ ses' = IF ses.dirty /\ Watched THEN AskForFrame(ses) ELSE ses
    BY <1>4, <1>t DEF LookForNews, GuiStates
  <2>2. /\ \A x \in SessionFields \ {"commands"} : ses'[x] = ses[x]
        /\ ses.dirty /\ ses.view => Has(ses'.commands, "snapshot")
    BY <2>1, AskAsks DEF Watched
  <2>3. RunHolds' /\ DeliveryComes' /\ PendingIsFetched' /\ NewsAreSeen'
    BY <1>u, <2>1, <2>2 DEF ScreenInv, RunHolds, DeliveryComes, PendingIsFetched, NewsAreSeen
  <2>4. NewestIsFresh'
    BY <1>u, <2>1, <2>2 DEF ScreenInv, RunHolds, NewestIsFresh
  <2> QED BY <2>3, <2>4 DEF ScreenInv
\* A run that is over has left no news behind synchronized output.
<1>5. CASE SyncTimeout
  <2>1. sync = "young" /\ sync' = "old" /\ UNCHANGED <<gui, shown>>
        /\ ses' = IF ses.running /\ ses.dirty THEN AskForFrame(ses) ELSE ses
    BY <1>5 DEF SyncTimeout
  <2>2. /\ \A x \in SessionFields \ {"commands"} : ses'[x] = ses[x]
        /\ ses.dirty => Has(ses'.commands, "snapshot")
    <3>1. ses.dirty => ses.running
      BY <2>1 DEF ScreenInv, RunHolds
    <3> QED BY <2>1, <3>1, AskAsks
  <2>3. RunHolds' /\ DeliveryComes' /\ PendingIsFetched' /\ NewsAreSeen'
    BY <1>u, <2>1, <2>2 DEF ScreenInv, RunHolds, DeliveryComes, PendingIsFetched, NewsAreSeen
  <2>4. NewestIsFresh'
    BY <1>u, <2>1, <2>2 DEF ScreenInv, NewestIsFresh
  <2> QED BY <2>3, <2>4 DEF ScreenInv
<1> QED BY <1>1, <1>2, <1>3, <1>4, <1>5 DEF Deliver

LEMMA UseScreen ==
    ASSUME QueueInv, ReportsInv, ScreenInv, Use
    PROVE  ScreenInv'
<1>t. ses = [f \in SessionFields |-> ses[f]] /\ ses.commands \in Seq(Commands)
      /\ runs \in Nat /\ typed \in Nat
  BY DEF QueueInv, QueueTypes
<1>1. UNCHANGED <<tab, worker, gui, events, engine, sync, shown, runs, up>>
  BY DEF Use
<1>2. /\ \A x \in SessionFields \ {"commands", "bytes"} : ses'[x] = ses[x]
      /\ \E c \in Commands : ses'.commands = Append(ses.commands, c)
  <2>1. CASE Type
    <3> DEFINE c == [kind |-> "input", n |-> typed + 1, run |-> runs]
    <3>1. c \in Commands
      BY <1>t DEF Commands
    <3>2. ses' = [ses EXCEPT !.commands = Append(@, c), !.bytes = @ + 1]
      BY <2>1 DEF Type
    <3> HIDE DEF c
    <3> QED BY <1>t, <3>1, <3>2 DEF SessionFields
  <2>2. CASE ChangeView
    <3> DEFINE c == [kind |-> "view", n |-> 0, run |-> runs]
    <3>1. c \in Commands
      BY <1>t DEF Commands
    <3>2. ses' = [ses EXCEPT !.commands = Append(@, c)]
      BY <2>2 DEF ChangeView
    <3> HIDE DEF c
    <3> QED BY <1>t, <3>1, <3>2 DEF SessionFields
  <2> QED BY <2>1, <2>2 DEF Use
<1>3. Has(ses.commands, "snapshot") => Has(ses'.commands, "snapshot")
  BY <1>t, <1>2, HasAppend
<1>4. RunHolds' /\ DeliveryComes' /\ PendingIsFetched' /\ NewsAreSeen'
  BY <1>1, <1>2, <1>3
     DEF ScreenInv, RunHolds, DeliveryComes, PendingIsFetched, NewsAreSeen, SessionFields
<1>5. NewestIsFresh'
  BY <1>1, <1>2 DEF ScreenInv, NewestIsFresh, SessionFields
<1> QED BY <1>4, <1>5 DEF ScreenInv

\* A report changes the flags of the session only if it announces a delivery.
LEMMA HandleScreen ==
    ASSUME QueueInv, ReportsInv, ScreenInv, HandleEvent
    PROVE  ScreenInv'
<1> DEFINE e == Head(events)
<1>t. ses = [f \in SessionFields |-> ses[f]] /\ events \in Seq(Reports) /\ tab = [f \in TabFields |-> tab[f]]
  BY ScreenTypes
<1>1. /\ gui.at = "idle" /\ events # << >> /\ events' = Tail(events)
      /\ UNCHANGED <<worker, gui, engine, sync, runs, up>>
      /\ shown' = IF e.frame # NoFrame /\ tab.open THEN e.frame ELSE shown
  BY DEF HandleEvent, GuiIs, Draw
<1>2. tab'.open = tab.open
  <2>1. tab' = tab \/ tab' = Handled(e)
    BY DEF HandleEvent
  <2> HIDE DEF e
  <2> QED BY <1>t, <2>1 DEF Handled, AfterPhase, Schedule, TabFields
<1>3. /\ \A x \in SessionFields \ {"timer", "scheduled"} : ses'[x] = ses[x]
      /\ e.kind # "schedule" => ses' = ses
      /\ e.kind = "schedule" /\ ses.view => ses'.timer = TRUE /\ ses'.scheduled = ses.scheduled
  BY <1>t DEF HandleEvent, Watched, SessionFields
<1>4. Has(events, "schedule") => e.kind = "schedule" \/ Has(events', "schedule")
  BY <1>t, <1>1, HasTail
<1>5. /\ Framed(events) => e.frame # NoFrame \/ Framed(events')
      /\ AllFresh(events, engine) =>
            AllFresh(events', engine) /\ (e.frame = NoFrame \/ Fresh(e.frame, engine))
  BY <1>t, <1>1, FramedTail
<1> HIDE DEF e
<1>6. RunHolds' /\ NewsAreSeen'
  BY <1>1, <1>2, <1>3 DEF ScreenInv, RunHolds, NewsAreSeen, SessionFields
<1>7. DeliveryComes' /\ PendingIsFetched'
  BY <1>1, <1>3, <1>4 DEF ScreenInv, DeliveryComes, PendingIsFetched, SessionFields
<1>8. NewestIsFresh'
  BY <1>1, <1>3, <1>5 DEF ScreenInv, RunHolds, NewestIsFresh, SessionFields
<1> QED BY <1>6, <1>7, <1>8 DEF ScreenInv

\* The tab gives up a session, or leaves it alone.
LEMMA SessionLeft ==
    ASSUME ScreenInv, UNCHANGED <<worker, events, engine, sync, shown, runs, up>>,
           gui'.held = gui.held, gui.at # "draw", gui'.at # "draw",
           \A x \in SessionFields \ {"view", "stop", "timer", "joiner"} : ses'[x] = ses[x],
           \/ ~ses'.view
           \/ /\ gui' = gui /\ tab'.open = tab.open /\ ses'.view = ses.view /\ ses'.stop = ses.stop
              /\ ses'.timer = ses.timer
    PROVE  ScreenInv'
<1>1. CASE ~ses'.view
  BY <1>1 DEF ScreenInv, RunHolds, DeliveryComes, PendingIsFetched, NewsAreSeen, NewestIsFresh,
              SessionFields
<1>2. CASE /\ gui' = gui /\ tab'.open = tab.open /\ ses'.view = ses.view /\ ses'.stop = ses.stop
           /\ ses'.timer = ses.timer
  BY <1>2 DEF ScreenInv, RunHolds, DeliveryComes, PendingIsFetched, NewsAreSeen, NewestIsFresh,
              SessionFields
<1> QED BY <1>1, <1>2

LEMMA AttemptLeaves ==
    ASSUME QueueInv, ReportsInv, ScreenInv, gui.at = "idle", NEW t, t = [f \in TabFields |-> t[f]],
           t.open = tab.open, Attempt(t), UNCHANGED <<worker, events, engine, sync, shown, runs, up>>
    PROVE  ScreenInv'
<1>t. ses = [f \in SessionFields |-> ses[f]] /\ gui \in GuiStates
  BY ScreenTypes
<1>1. CASE gui' = [gui EXCEPT !.at = "join"] /\ ses' = [ses EXCEPT !.view = FALSE, !.stop = TRUE]
  <2>1. gui'.held = gui.held /\ gui'.at # "draw" /\ ~ses'.view
        /\ \A x \in SessionFields \ {"view", "stop", "timer", "joiner"} : ses'[x] = ses[x]
    BY <1>1, <1>t DEF GuiStates, SessionFields
  <2> QED BY <2>1, SessionLeft
<1>2. CASE UNCHANGED <<gui, ses>> /\ tab' = [t EXCEPT !.pending = FALSE]
  <2>1. tab'.open = tab.open
    BY <1>2 DEF TabFields
  <2> QED BY <1>2, <2>1, SessionLeft
<1> QED BY <1>1, <1>2 DEF Attempt

LEMMA TabScreen ==
    ASSUME QueueInv, ReportsInv, ScreenInv, Tab
    PROVE  ScreenInv'
<1>t. /\ ses = [f \in SessionFields |-> ses[f]] /\ tab = [f \in TabFields |-> tab[f]]
      /\ gui \in GuiStates /\ runs \in Nat /\ engine \in Frames
  BY ScreenTypes
<1>1. CASE HandleEvent
  BY <1>1, HandleScreen
<1>2. CASE TimePasses
  <2>1. tab'.open = tab.open /\ gui.at = "idle"
        /\ UNCHANGED <<ses, worker, gui, events, engine, sync, shown, runs, up>>
    BY <1>2, <1>t DEF TimePasses, TabFields, GuiIs
  <2> QED BY <2>1, SessionLeft
<1>3. CASE Start
  <2>1. gui.at = "join" /\ gui'.at = "idle" /\ gui'.held = gui.held /\ up' = FALSE
        /\ UNCHANGED <<tab, events, shown>> /\ sync' = "off" /\ runs' = runs + 1
    BY <1>3, <1>t DEF Start, GuiIs, GuiStates
  <2>2. worker'.at \in {"import", "connect"} /\ worker'.pub = "no"
    BY <1>3 DEF Start
  <2>3. /\ ses'.view = TRUE /\ ses'.stop = FALSE /\ ses'.pending = NoFrame
        /\ ses'.scheduled = FALSE /\ ses'.dirty = FALSE
    BY <1>3, <1>t DEF Start, Emptied, SessionFields
  <2>4. engine'.run > 0
    BY <1>3, <1>t DEF Start, ScreenInv, RunHolds
  <2>5. tab.open
    BY <2>1 DEF ReportsInv, TabFollows
  <2>6. RunHolds'
    BY <1>t, <2>1, <2>2, <2>3, <2>4, <2>5 DEF ScreenInv, RunHolds, Over
  <2>7. DeliveryComes' /\ PendingIsFetched' /\ NewsAreSeen' /\ NewestIsFresh'
    BY <2>1, <2>3 DEF DeliveryComes, PendingIsFetched, NewsAreSeen, NewestIsFresh
  <2> QED BY <2>6, <2>7 DEF ScreenInv
<1>4. ASSUME UNCHANGED <<worker, events, engine, sync, shown, runs, up>>,
             \/ Reconnect \/ CancelReconnect \/ CloseTab \/ WorkerJoined
             \/ \E g \in timers : ReconnectTimer(g)
      PROVE  ScreenInv'
  <2>1. CASE Reconnect
    <3> DEFINE t == [tab EXCEPT !.attempt = 0, !.generation = @ + 1]
    <3>1. t = [f \in TabFields |-> t[f]] /\ t.open = tab.open /\ Attempt(t) /\ gui.at = "idle"
      BY <1>t, <2>1 DEF Reconnect, TabFields, GuiIs
    <3> QED BY <1>4, <3>1, AttemptLeaves
  <2>2. CASE \E g \in timers : ReconnectTimer(g)
    <3>1. gui.at = "idle" /\ (Attempt(tab) \/ UNCHANGED <<tab, gui, ses>>)
      BY <2>2 DEF ReconnectTimer, GuiIs
    <3>2. CASE Attempt(tab)
      BY <1>4, <1>t, <3>1, <3>2, AttemptLeaves
    <3>3. CASE UNCHANGED <<tab, gui, ses>>
      BY <1>4, <3>1, <3>3, SessionLeft
    <3> QED BY <3>1, <3>2, <3>3
  <2>3. CASE CancelReconnect
    <3>1. tab'.open = tab.open /\ gui.at = "idle" /\ UNCHANGED <<gui, ses>>
      BY <1>t, <2>3 DEF CancelReconnect, TabFields, GuiIs
    <3> QED BY <1>4, <3>1, SessionLeft
  <2>4. CASE CloseTab
    <3>1. gui.at = "idle" /\ gui' = gui /\ ~ses'.view
          /\ \A x \in SessionFields \ {"view", "stop", "timer", "joiner"} : ses'[x] = ses[x]
      BY <1>t, <2>4 DEF CloseTab, SessionFields, GuiIs
    <3> QED BY <1>4, <3>1, SessionLeft
  <2>5. CASE WorkerJoined
    <3>1. UNCHANGED <<tab, gui>> /\ \A x \in SessionFields \ {"joiner"} : ses'[x] = ses[x]
      BY <1>t, <2>5 DEF WorkerJoined, SessionFields
    <3> QED BY <1>4, <3>1
            DEF ScreenInv, RunHolds, DeliveryComes, PendingIsFetched, NewsAreSeen, NewestIsFresh,
                SessionFields
  <2> QED BY <1>4, <2>1, <2>2, <2>3, <2>4, <2>5
<1> QED BY <1>1, <1>2, <1>3, <1>4 DEF Tab

LEMMA InitScreen == Init => ScreenInv
  BY DEF Init, ScreenInv, RunHolds, DeliveryComes, PendingIsFetched, NewsAreSeen, NewestIsFresh, NoFrame

LEMMA NextScreen == QueueInv /\ ReportsInv /\ ScreenInv /\ [Next]_vars => ScreenInv'
<1> SUFFICES ASSUME QueueInv, ReportsInv, ScreenInv, [Next]_vars PROVE ScreenInv'
  OBVIOUS
<1>1. CASE UNCHANGED vars
  BY <1>1 DEF vars, ScreenInv, RunHolds, DeliveryComes, PendingIsFetched, NewsAreSeen, NewestIsFresh
<1> QED BY <1>1, PublishScreen, WorkScreen, DeliverScreen, UseScreen, TabScreen DEF Next

\* What a connection has printed is on the screen as soon as nothing is on its
\* way (publishSnapshot, deliverLatestSnapshot, finishWorker), however the two
\* threads interleave and for any amount of output, input and view changes.
THEOREM LastOutputIsShownHolds == Spec => []LastOutputIsShown
<1>1. QueueInv /\ ReportsInv /\ ScreenInv => LastOutputIsShown
  <2> SUFFICES ASSUME QueueInv, ReportsInv, ScreenInv, Quiet, ses.view, up
               PROVE  shown.run = engine.run /\ shown.out = engine.out
    BY DEF LastOutputIsShown
  <2>1. /\ gui.at = "idle" /\ ~ses.timer /\ worker.pub = "no" /\ sync # "young"
        /\ worker.at \in {"live", "readOnly"}
        /\ ~Has(events, "schedule") /\ ~Has(ses.commands, "snapshot") /\ ~Framed(events)
        /\ worker.at = "live" => ~Has(worker.batch, "snapshot")
    BY DEF Quiet, GuiIs, Has, Framed
  <2>2. ses.pending = NoFrame
    BY <2>1 DEF ScreenInv, PendingIsFetched
  <2>3. ~ses.dirty
    BY <2>1, <2>2 DEF ScreenInv, NewsAreSeen
  <2>4. Fresh(shown, engine)
    BY <2>1, <2>2, <2>3 DEF ScreenInv, RunHolds, NewestIsFresh
  <2> QED BY <2>4 DEF Fresh
<1> QED BY <1>1, InitQueue, NextQueue, InitReports, NextReports, InitScreen, NextScreen, PTL DEF Spec

=============================================================================
