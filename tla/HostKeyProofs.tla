---------------------------- MODULE HostKeyProofs ----------------------------
(***************************************************************************)
(* The one dialog has an owner whenever it is on the screen, for any       *)
(* number of tabs, panels, transfers and rules.  The owner fields name     *)
(* nobody by accident only if a handler is given a question without an     *)
(* asker; so the types of questions, answers and dialog come first.  Then: *)
(* in which two ways a waiting connection can lose its question, and what  *)
(* was on the screen when a transfer's key was accepted.                   *)
(***************************************************************************)
EXTENDS HostKeyProperties, SequenceTheorems, TLAPS

Owners == [visible : BOOLEAN, changed : BOOLEAN, tab : Tabs \cup {Nobody},
           forSftp : BOOLEAN, transfer : Transfers \cup {Nobody},
           rule : Rules \cup {Nobody}, shown : Questions \cup {NoQuestion}]

\* A connection that was started has a number.
StartedHasRun == \A a \in Askers : conn[a].phase # "idle" => conn[a].run \in 1 .. Runs

HostInv == TypeOK /\ StartedHasRun /\ DialogHasOwner

-----------------------------------------------------------------------------
\* An asker is a tab, the panel of a tab, a transfer or a rule.
LEMMA AskerKinds ==
    ASSUME NEW a \in Askers
    PROVE  /\ a.kind \in {"ssh", "sftp", "transfer", "rule"}
           /\ a = [kind |-> a.kind, id |-> a.id]
           /\ a.kind \in {"ssh", "sftp"} => a.id \in Tabs
           /\ a.kind = "sftp" => a.id \in Panels
           /\ a.kind = "transfer" => a.id \in Transfers /\ a.id # Nobody
           /\ a.kind = "rule" => a.id \in Rules /\ a.id # Nobody
  BY PromptAssumption DEF Askers, Asker

\* The records of the two kinds the GUI thread names by their identifier.
LEMMA NamedAskers ==
    /\ \A t \in Panels : Panel(t) \in Askers
    /\ \A r \in Rules : [kind |-> "rule", id |-> r] \in Askers
  BY DEF Panel, Askers, Asker

\* What a connection and its slot are made of, and the dialog.
ConnectionParts == {"phase", "run", "hop", "awaiting", "decision", "stop"}
LEMMA ConnectionFields ==
    ASSUME NEW c \in Connections
    PROVE  /\ c = [f \in ConnectionParts |-> c[f]]
           /\ c.phase \in Phases /\ c.run \in 0 .. Runs /\ c.hop \in 0 .. Hops
           /\ c.awaiting \in BOOLEAN /\ c.decision \in Answers /\ c.stop \in BOOLEAN
  BY DEF Connections, ConnectionParts

DialogParts == {"visible", "changed", "tab", "forSftp", "transfer", "rule", "shown"}
LEMMA DialogFields ==
    TypeOK => prompt = [f \in DialogParts |-> prompt[f]]
  BY DEF TypeOK, DialogParts

\* The answers the program knows are answers.
LEMMA AnswerTypes ==
    /\ NoAnswer \in Answers
    /\ \A value \in {"accept", "reject"}, q \in Questions \cup {NoQuestion} :
          Answer(value, q) \in Answers
    /\ NoQuestion \in Questions \cup {NoQuestion}
  BY DEF NoAnswer, Answers, Answer

\* A slot that is given an answer, or ignores it, keeps its type and phase.
LEMMA ResolveTypes ==
    ASSUME TypeOK, StartedHasRun, NEW a \in Askers, NEW answer \in Answers
    PROVE  /\ Resolve(a, answer) \in [Askers -> Connections]
           /\ \A b \in Askers : /\ Resolve(a, answer)[b].phase = conn[b].phase
                                /\ Resolve(a, answer)[b].run = conn[b].run
  BY ConnectionFields DEF TypeOK, Resolve, Connections

\* The dialog that is not on the screen.
LEMMA NoPromptType == NoPrompt \in Owners /\ ~NoPrompt.visible
  BY PromptAssumption DEF NoPrompt, Owners

\* Clearing keeps what the dialog promises as long as no tab closes.
LEMMA ClearedKeeps ==
    ASSUME TypeOK, DialogHasOwner, NEW owned \in BOOLEAN, prompt' = ClearedIf(owned),
           open' = open
    PROVE  prompt' \in Owners /\ DialogHasOwner'
  BY NoPromptType DEF TypeOK, DialogHasOwner, ClearedIf, Owners, NoPrompt
-----------------------------------------------------------------------------
(***************************************************************************)
(* Steps of a connection's thread: the dialog is not theirs to touch.      *)
(***************************************************************************)
\* One connection takes a step, the others keep their state.
OneChanges(a, c) == conn' = [conn EXCEPT ![a] = c]

LEMMA OneConnection ==
    ASSUME TypeOK, StartedHasRun, NEW a \in Askers, NEW c \in Connections,
           c.phase # "idle" => c.run \in 1 .. Runs, OneChanges(a, c)
    PROVE  conn' \in [Askers -> Connections] /\ StartedHasRun'
  BY DEF TypeOK, StartedHasRun, OneChanges

\* A thread changes its own connection, which was started and stays so.
LEMMA ThreadChanges ==
    ASSUME TypeOK, NEW a \in Askers, Thread(a)
    PROVE  /\ conn[a].phase # "idle"
           /\ \E c \in Connections :
                 c.run = conn[a].run /\ c.phase # "idle" /\ OneChanges(a, c)
<1>0. /\ conn[a] \in Connections /\ conn[a].hop \in 0 .. Hops
      /\ conn[a].decision \in Answers /\ NoAnswer \in Answers
  BY ConnectionFields, AnswerTypes DEF TypeOK
<1>1. conn[a].phase # "idle"
  BY DEF Thread, Wake, WakeForStop, Ask, KeyChanged, Connect, End
<1>2. CASE Wake(a)
  <2> DEFINE phase == IF conn[a].decision.value = "accept" THEN "connecting" ELSE "ended"
             decision == IF a.kind = "rule" THEN NoAnswer ELSE conn[a].decision
  <2> DEFINE c == [conn[a] EXCEPT !.phase = phase, !.awaiting = FALSE, !.decision = decision]
  <2>1. OneChanges(a, c)
    BY <1>2 DEF Wake, OneChanges
  <2>2. phase \in Phases /\ phase # "idle" /\ decision \in Answers
    BY <1>0 DEF Phases
  <2> HIDE DEF phase, decision
  <2>3. c \in Connections /\ c.run = conn[a].run /\ c.phase # "idle"
    BY <1>0, <2>2 DEF Connections, Phases
  <2> QED BY <1>1, <2>1, <2>3
<1>3. CASE WakeForStop(a)
  <2> DEFINE c == [conn[a] EXCEPT !.phase = "ended", !.awaiting = FALSE]
  <2>1. OneChanges(a, c)
    BY <1>3 DEF WakeForStop, OneChanges
  <2>3. c \in Connections /\ c.run = conn[a].run /\ c.phase # "idle"
    BY <1>0 DEF Connections, Phases
  <2> QED BY <1>1, <2>1, <2>3
<1>4. CASE Ask(a)
  <2> DEFINE c == [conn[a] EXCEPT !.phase = "waiting", !.hop = @ + 1, !.awaiting = TRUE,
                               !.decision = NoAnswer]
  <2>1. OneChanges(a, c)
    BY <1>4 DEF Ask, OneChanges
  <2>2. conn[a].hop + 1 \in 0 .. Hops
    BY <1>0, <1>4, PromptAssumption DEF Ask
  <2>3. c \in Connections /\ c.run = conn[a].run /\ c.phase # "idle"
    BY <1>0, <2>2 DEF Connections, Phases
  <2> QED BY <1>1, <2>1, <2>3
<1>5. CASE KeyChanged(a)
  <2> DEFINE c == [conn[a] EXCEPT !.phase = "ended", !.hop = @ + 1]
  <2>1. OneChanges(a, c)
    BY <1>5 DEF KeyChanged, OneChanges
  <2>2. conn[a].hop + 1 \in 0 .. Hops
    BY <1>0, <1>5, PromptAssumption DEF KeyChanged
  <2>3. c \in Connections /\ c.run = conn[a].run /\ c.phase # "idle"
    BY <1>0, <2>2 DEF Connections, Phases
  <2> QED BY <1>1, <2>1, <2>3
<1>6. CASE Connect(a)
  <2> DEFINE c == [conn[a] EXCEPT !.phase = "connected"]
  <2>1. OneChanges(a, c)
    BY <1>6 DEF Connect, OneChanges
  <2>3. c \in Connections /\ c.run = conn[a].run /\ c.phase # "idle"
    BY <1>0 DEF Connections, Phases
  <2> QED BY <1>1, <2>1, <2>3
<1>7. CASE End(a)
  <2> DEFINE c == [conn[a] EXCEPT !.phase = "ended"]
  <2>1. OneChanges(a, c)
    BY <1>7 DEF End, OneChanges
  <2>3. c \in Connections /\ c.run = conn[a].run /\ c.phase # "idle"
    BY <1>0 DEF Connections, Phases
  <2> QED BY <1>1, <2>1, <2>3
<1> QED BY <1>2, <1>3, <1>4, <1>5, <1>6, <1>7 DEF Thread

LEMMA ThreadKeeps ==
    ASSUME HostInv, NEW a \in Askers, Thread(a)
    PROVE  HostInv'
<1> USE DEF HostInv
<1>0. prompt' = prompt /\ open' = open /\ joining' = joining /\ quit' = quit
  BY DEF Thread, Wake, WakeForStop, Ask, KeyChanged, Connect, End
<1>1. conn' \in [Askers -> Connections] /\ StartedHasRun'
  <2>1. PICK c \in Connections :
          c.run = conn[a].run /\ c.phase # "idle" /\ OneChanges(a, c)
    BY ThreadChanges
  <2>2. conn[a].run \in 1 .. Runs
    BY ThreadChanges DEF TypeOK, StartedHasRun
  <2> QED BY <2>1, <2>2, OneConnection
<1>2. events' \in Seq([question : Questions, changed : BOOLEAN])
  <2>1. CASE UNCHANGED events BY <2>1 DEF TypeOK
  <2>2. CASE Ask(a) \/ KeyChanged(a)
    <3>1. /\ conn[a] \in Connections /\ conn[a].run \in 1 .. Runs
          /\ conn[a].hop \in 0 .. Hops
      BY ThreadChanges, ConnectionFields DEF TypeOK, StartedHasRun
    <3>2. conn'[a].run = conn[a].run /\ conn'[a].hop = conn[a].hop + 1 /\ conn[a].hop < Hops
      BY <2>2, <3>1, ConnectionFields DEF Ask, KeyChanged, TypeOK, ConnectionParts
    <3>4. conn'[a].run \in 1 .. Runs /\ conn'[a].hop \in 1 .. Hops
      BY <3>1, <3>2, PromptAssumption
    <3>5. Current(a)' \in Questions
      BY <3>4 DEF Current, Questions
    <3>3. events' = Append(events, [question |-> Current(a)', changed |-> FALSE])
          \/ events' = Append(events, [question |-> Current(a)', changed |-> TRUE])
      BY <2>2 DEF Ask, KeyChanged
    <3> DEFINE S == [question : Questions, changed : BOOLEAN]
    <3>6. PICK e \in S : events' = Append(events, e)
      BY <3>3, <3>5
    <3> QED BY <3>6, AppendProperties DEF TypeOK
  <2> QED BY <2>1, <2>2 DEF Thread, Wake, WakeForStop, Connect, End
<1> QED BY <1>0, <1>1, <1>2 DEF TypeOK, DialogHasOwner

-----------------------------------------------------------------------------
(***************************************************************************)
(* Steps of the GUI thread.                                                *)
(***************************************************************************)
\* What is posted keeps its type when the oldest is taken.
LEMMA Taken ==
    ASSUME TypeOK, events # << >>
    PROVE  /\ Head(events).question \in Questions
           /\ Head(events).changed \in BOOLEAN
           /\ Head(events).question.asker \in Askers
           /\ Tail(events) \in Seq([question : Questions, changed : BOOLEAN])
<1> DEFINE S == [question : Questions, changed : BOOLEAN]
<1>1. events \in Seq(S) BY DEF TypeOK
<1>2. Head(events) \in S /\ Tail(events) \in Seq(S)
  <2> HIDE DEF S
  <2> QED BY <1>1, HeadTailProperties
<1> QED BY <1>2 DEF Questions

\* A tab or panel that is heard is open, so the dialog gets an open tab.
LEMMA TabShown ==
    ASSUME HostInv, NEW a \in Askers, a.kind \in {"ssh", "sftp"}, a.id \in open,
           NEW q \in Questions, NEW changed \in BOOLEAN, ShowForTab(a, q, changed),
           open' = open
    PROVE  prompt' \in Owners /\ DialogHasOwner' /\ conn' = conn
<1>1. a.id \in Tabs
  BY AskerKinds
<1>2. prompt' \in Owners /\ prompt'.visible /\ prompt'.tab = a.id /\ conn' = conn
  BY <1>1, DialogFields DEF HostInv, TypeOK, Owners, ShowForTab, DialogParts
<1> QED BY <1>2 DEF DialogHasOwner

\* A background connection finds the dialog taken, or becomes its owner.
LEMMA BackgroundShown ==
    ASSUME HostInv, NEW a \in Askers, a.kind \in {"transfer", "rule"},
           NEW q \in Questions, NEW changed \in BOOLEAN, ShowInBackground(a, q, changed),
           open' = open
    PROVE  /\ prompt' \in Owners /\ DialogHasOwner'
           /\ conn' = conn \/ conn' = Resolve(a, Answer("reject", NoQuestion))
<1>1. CASE prompt.visible
  BY <1>1 DEF HostInv, TypeOK, Owners, ShowInBackground, DialogHasOwner
<1>2. CASE ~prompt.visible /\ a.kind = "transfer"
  <2>1. a.id \in Transfers /\ a.id # Nobody
    BY <1>2, AskerKinds
  <2>2. /\ conn' = conn
        /\ prompt' = [prompt EXCEPT !.visible = TRUE, !.changed = changed, !.tab = Nobody,
                                    !.forSftp = FALSE, !.transfer = a.id, !.shown = q]
    BY <1>2 DEF ShowInBackground
  <2>3. prompt' = [visible |-> TRUE, changed |-> changed, tab |-> Nobody, forSftp |-> FALSE,
                   transfer |-> a.id, rule |-> prompt.rule, shown |-> q]
    BY <2>2, DialogFields DEF HostInv, DialogParts
  <2>4. prompt' \in Owners /\ prompt'.visible /\ prompt'.transfer = a.id
    BY <2>1, <2>3, DialogFields DEF HostInv, TypeOK, Owners
  <2> QED BY <2>1, <2>2, <2>4 DEF DialogHasOwner
<1>3. CASE ~prompt.visible /\ a.kind = "rule"
  <2>1. a.id \in Rules /\ a.id # Nobody
    BY <1>3, AskerKinds
  <2>2. /\ conn' = conn
        /\ prompt' = [prompt EXCEPT !.visible = TRUE, !.changed = changed, !.rule = a.id,
                                    !.shown = q]
    BY <1>3 DEF ShowInBackground
  <2>3. prompt' = [visible |-> TRUE, changed |-> changed, tab |-> prompt.tab,
                   forSftp |-> prompt.forSftp, transfer |-> prompt.transfer, rule |-> a.id,
                   shown |-> q]
    BY <2>2, DialogFields DEF HostInv, DialogParts
  <2>4. prompt' \in Owners /\ prompt'.visible /\ prompt'.rule = a.id
    BY <2>1, <2>3, DialogFields DEF HostInv, TypeOK, Owners
  <2> QED BY <2>1, <2>2, <2>4 DEF DialogHasOwner
<1> QED BY <1>1, <1>2, <1>3

\* A handler of a question keeps the invariant.
LEMMA DeliverKeeps == HostInv /\ Deliver => HostInv'
<1> SUFFICES ASSUME HostInv, Deliver PROVE HostInv'
  OBVIOUS
<1> DEFINE q == Head(events).question
           changed == Head(events).changed
           a == q.asker
<1>1. /\ q \in Questions /\ changed \in BOOLEAN /\ a \in Askers
      /\ events' \in Seq([question : Questions, changed : BOOLEAN])
      /\ open' = open /\ joining' = joining /\ quit' = quit
  BY Taken DEF Deliver, HostInv
<1>2. \/ ~Heard(q) /\ UNCHANGED <<conn, prompt>>
      \/ Heard(q) /\ a.kind \in {"ssh", "sftp"} /\ ShowForTab(a, q, changed)
      \/ Heard(q) /\ a.kind \notin {"ssh", "sftp"} /\ ShowInBackground(a, q, changed)
  BY DEF Deliver
<1> HIDE DEF q, changed, a
<1>3. /\ prompt' \in Owners /\ DialogHasOwner'
      /\ conn' = conn \/ conn' = Resolve(a, Answer("reject", NoQuestion))
  <2>1. CASE UNCHANGED <<conn, prompt>>
    BY <1>1, <2>1 DEF HostInv, TypeOK, Owners, DialogHasOwner
  <2>2. CASE Heard(q) /\ a.kind \in {"ssh", "sftp"} /\ ShowForTab(a, q, changed)
    <3>1. a.id \in open
      BY <2>2 DEF Heard, a
    <3> QED BY <1>1, <2>2, <3>1, TabShown
  <2>3. CASE a.kind \notin {"ssh", "sftp"} /\ ShowInBackground(a, q, changed)
    BY <1>1, <2>3, AskerKinds, BackgroundShown
  <2> QED BY <1>2, <2>1, <2>2, <2>3
<1>4. conn' \in [Askers -> Connections] /\ StartedHasRun'
  <2>1. CASE conn' = conn
    BY <2>1 DEF HostInv, TypeOK, StartedHasRun
  <2>2. CASE conn' = Resolve(a, Answer("reject", NoQuestion))
    <3>1. Answer("reject", NoQuestion) \in Answers
      BY AnswerTypes
    <3> QED BY <1>1, <2>2, <3>1, ResolveTypes DEF HostInv, StartedHasRun
  <2> QED BY <1>3, <2>1, <2>2
<1> QED BY <1>1, <1>3, <1>4 DEF HostInv, TypeOK, Owners

\* A connection that has not been started.
LEMMA NewConnectionType == NewConnection \in Connections /\ NewConnection.phase = "idle"
  BY AnswerTypes, PromptAssumption DEF NewConnection, Connections, Phases

\* What a connection is replaced by, started again with, or told to do.
LEMMA NewConnections ==
    ASSUME TypeOK, NEW a \in Askers
    PROVE  /\ Replaced(a) \in Connections /\ Replaced(a).phase = "idle"
           /\ conn[a].run < Runs => /\ Started(a) \in Connections
                                    /\ Started(a).run \in 1 .. Runs
           /\ [conn[a] EXCEPT !.stop = TRUE] \in Connections
           /\ [conn[a] EXCEPT !.stop = TRUE].phase = conn[a].phase
           /\ [conn[a] EXCEPT !.stop = TRUE].run = conn[a].run
<1>1. conn[a] \in Connections /\ conn[a].run \in 0 .. Runs /\ NoAnswer \in Answers
  BY ConnectionFields, AnswerTypes DEF TypeOK
<1>0. NewConnection \in Connections /\ NewConnection.phase = "idle"
  BY NewConnectionType
<1>2. Replaced(a) \in Connections /\ Replaced(a).phase = "idle"
  BY <1>0, <1>1 DEF Replaced, Connections
<1>3. CASE conn[a].run < Runs
  <2>1. conn[a].run + 1 \in 0 .. Runs /\ conn[a].run + 1 \in 1 .. Runs
    BY <1>1, <1>3, PromptAssumption
  <2>2. "connecting" \in Phases
    BY DEF Phases
  <2>3. Started(a) \in Connections /\ Started(a).run \in 1 .. Runs
    BY <1>0, <2>1, <2>2 DEF Started, Connections
  <2> QED BY <1>1, <1>2, <2>3 DEF Connections
<1> QED BY <1>1, <1>2, <1>3 DEF Connections

\* Starting a connection, replacing a panel's session, pausing a transfer.
LEMMA StartKeeps ==
    ASSUME HostInv, NEW a \in Askers,
           Start(a) \/ PauseTransfer(a) \/ (\E t \in Panels : a = Panel(t) /\ RestartPanel(t))
    PROVE  HostInv'
<1> USE DEF HostInv
<1>1. events' = events /\ open' = open /\ joining' = joining /\ quit' = quit
  BY DEF Start, PauseTransfer, RestartPanel
<1>2. prompt' \in Owners /\ DialogHasOwner'
  <2>1. CASE Start(a)
    BY <1>1, <2>1, ClearedKeeps DEF Start
  <2>2. CASE prompt' = prompt
    BY <1>1, <2>2 DEF DialogHasOwner, TypeOK, Owners
  <2> QED BY <2>1, <2>2 DEF PauseTransfer, RestartPanel
<1>3. conn' \in [Askers -> Connections] /\ StartedHasRun'
  <2>1. CASE Start(a)
    <3>1. \A b \in Askers :
             conn'[b] = Started(a) \/ conn'[b] = Replaced(b) \/ conn'[b] = conn[b]
      BY <2>1 DEF Start
    <3>2. conn[a].run < Runs /\ conn' = [b \in Askers |-> conn'[b]]
      BY <2>1 DEF Start
    <3>3. Started(a) \in Connections /\ Started(a).run \in 1 .. Runs
      BY <3>2, NewConnections
    <3>4. ASSUME NEW b \in Askers
          PROVE  conn'[b] \in Connections /\ (conn'[b].phase # "idle" => conn'[b].run \in 1 .. Runs)
      <4>1. CASE conn'[b] = Started(a)
        BY <3>3, <4>1
      <4>2. CASE conn'[b] = Replaced(b)
        BY <4>2, NewConnections
      <4>3. CASE conn'[b] = conn[b]
        BY <4>3 DEF TypeOK, StartedHasRun
      <4> QED BY <3>1, <4>1, <4>2, <4>3
    <3> QED BY <3>2, <3>4 DEF StartedHasRun
  <2>2. CASE PauseTransfer(a)
    <3> DEFINE c == [conn[a] EXCEPT !.stop = TRUE]
    <3>1. OneChanges(a, c)
      BY <2>2 DEF PauseTransfer, OneChanges
    <3>2. c \in Connections /\ (c.phase # "idle" => c.run \in 1 .. Runs)
      BY NewConnections DEF StartedHasRun
    <3> QED BY <3>1, <3>2, OneConnection
  <2>3. CASE \E t \in Panels : a = Panel(t) /\ RestartPanel(t)
    <3>1. OneChanges(a, Started(a)) /\ conn[a].run < Runs
      BY <2>3 DEF RestartPanel, OneChanges
    <3> QED BY <3>1, NewConnections, OneConnection
  <2> QED BY <2>1, <2>2, <2>3
<1> QED BY <1>1, <1>2, <1>3 DEF TypeOK, Owners

\* The user's answer takes the dialog off the screen.
LEMMA AnswerKeeps ==
    ASSUME HostInv, NEW value \in {"accept", "reject"}, UserAnswers(value)
    PROVE  HostInv'
<1> USE DEF HostInv
<1>1. /\ prompt' = NoPrompt
      /\ events' = events /\ open' = open /\ joining' = joining /\ quit' = quit
  BY DEF UserAnswers
<1>2. Addressee \subseteq Askers
  BY NamedAskers DEF Addressee, TypeOK, Askers, Asker
<1>3. conn' \in [Askers -> Connections] /\ StartedHasRun'
  <2>1. CASE conn' = conn
    BY <2>1 DEF TypeOK, StartedHasRun
  <2>2. CASE Addressee # {} /\ conn' # conn
    <3>1. PICK a \in Askers : conn' = Resolve(a, Answer(value, prompt.shown))
      BY <1>2, <2>2 DEF UserAnswers
    <3>2. Answer(value, prompt.shown) \in Answers
      BY AnswerTypes DEF TypeOK
    <3> QED BY <3>1, <3>2, ResolveTypes DEF StartedHasRun
  <2> QED BY <2>1, <2>2 DEF UserAnswers
<1> QED BY <1>1, <1>3, NoPromptType DEF TypeOK, Owners, DialogHasOwner

\* A closed tab takes its dialog with it; the quit takes any.
LEMMA CloseKeeps ==
    ASSUME HostInv, QuitRest \/ \E t \in Tabs : CloseTab(t)
    PROVE  HostInv'
<1> USE DEF HostInv
<1>1. events' = events /\ joining' = joining /\ quit' \in {"no", "stopping", "down"}
  BY DEF QuitRest, CloseTab, TypeOK
<1>2. prompt' \in Owners /\ DialogHasOwner' /\ open' \subseteq Tabs
  <2>1. CASE QuitRest
    BY <2>1, NoPromptType DEF QuitRest, DialogHasOwner, TypeOK
  <2>2. ASSUME NEW t \in Tabs, CloseTab(t) PROVE prompt' \in Owners /\ DialogHasOwner'
    <3>1. CASE prompt.tab = t
      BY <2>2, <3>1, NoPromptType DEF CloseTab, ClearedIf, DialogHasOwner
    <3>2. CASE prompt.tab # t
      BY <2>2, <3>2 DEF CloseTab, ClearedIf, DialogHasOwner, TypeOK, Owners
    <3> QED BY <3>1, <3>2
  <2> QED BY <2>1, <2>2 DEF CloseTab, TypeOK
<1>3. \A a \in Askers : conn'[a] = conn[a] \/ conn'[a] = [conn[a] EXCEPT !.stop = TRUE]
  <2>1. CASE QuitRest
    BY <2>1 DEF QuitRest
  <2>2. ASSUME NEW t \in Tabs, CloseTab(t), NEW a \in Askers
        PROVE  conn'[a] = conn[a] \/ conn'[a] = [conn[a] EXCEPT !.stop = TRUE]
    <3>1. conn'[a] = IF a \in OfTab(t) THEN [conn[a] EXCEPT !.stop = TRUE] ELSE conn[a]
      BY <2>2 DEF CloseTab
    <3> QED BY <3>1
  <2> QED BY <2>1, <2>2
<1>4. conn' = [a \in Askers |-> conn'[a]]
  BY DEF QuitRest, CloseTab
<1>5. ASSUME NEW a \in Askers
      PROVE  /\ conn'[a] \in Connections
             /\ conn'[a].phase = conn[a].phase /\ conn'[a].run = conn[a].run
  <2>1. CASE conn'[a] = conn[a]
    BY <2>1 DEF TypeOK
  <2>2. CASE conn'[a] = [conn[a] EXCEPT !.stop = TRUE]
    <3> DEFINE c == [conn[a] EXCEPT !.stop = TRUE]
    <3>1. c \in Connections /\ c.phase = conn[a].phase /\ c.run = conn[a].run
      BY NewConnections
    <3>2. conn'[a] = c
      BY <2>2
    <3> HIDE DEF c
    <3> QED BY <3>1, <3>2
  <2> QED BY <1>3, <2>1, <2>2
<1> QED BY <1>1, <1>2, <1>4, <1>5 DEF TypeOK, Owners, StartedHasRun

\* Stopping the worker of a rule answers for the user.
LEMMA StopKeeps ==
    ASSUME HostInv, NEW r \in Rules, StopRule(r) \/ QuitRule(r)
    PROVE  HostInv'
<1> USE DEF HostInv
<1> DEFINE a == [kind |-> "rule", id |-> r]
           answered == Resolve(a, Answer("reject", NoQuestion))
<1>1. /\ conn' = [answered EXCEPT ![a].stop = TRUE] /\ joining' = r
      /\ events' = events /\ open' = open /\ prompt' = prompt /\ quit' = quit
  BY DEF StopRule, QuitRule, StopWorker
<1>2. /\ a \in Askers /\ answered \in [Askers -> Connections]
      /\ \A b \in Askers : answered[b].phase = conn[b].phase /\ answered[b].run = conn[b].run
  BY NamedAskers, AnswerTypes, ResolveTypes
<1> HIDE DEF a, answered
<1>3. /\ [answered[a] EXCEPT !.stop = TRUE] \in Connections
      /\ [answered[a] EXCEPT !.stop = TRUE].phase = answered[a].phase
      /\ [answered[a] EXCEPT !.stop = TRUE].run = answered[a].run
  BY <1>2 DEF Connections
<1>4. conn' = [answered EXCEPT ![a] = [answered[a] EXCEPT !.stop = TRUE]]
  BY <1>1
<1>5. conn' \in [Askers -> Connections] /\ StartedHasRun'
  BY <1>2, <1>3, <1>4 DEF StartedHasRun
<1> QED BY <1>1, <1>5 DEF TypeOK, DialogHasOwner

\* The joined job is gone, and so is its dialog.
LEMMA JoinedKeeps ==
    ASSUME HostInv, NEW r \in Rules, RuleJoined(r)
    PROVE  HostInv'
<1> USE DEF HostInv
<1> DEFINE a == [kind |-> "rule", id |-> r]
<1>1. /\ a \in Askers /\ OneChanges(a, Replaced(a))
      /\ events' = events /\ open' = open /\ joining' = Nobody /\ quit' = quit
  BY NamedAskers DEF RuleJoined, OneChanges
<1>2. prompt' \in Owners /\ DialogHasOwner'
  BY <1>1, ClearedKeeps DEF RuleJoined
<1> HIDE DEF a
<1>3. conn' \in [Askers -> Connections] /\ StartedHasRun'
  BY <1>1, NewConnections, OneConnection
<1> QED BY <1>1, <1>2, <1>3 DEF TypeOK, Owners

-----------------------------------------------------------------------------
\* No program starts with a dialog.
LEMMA InitHolds == Init => HostInv
<1> SUFFICES ASSUME Init PROVE HostInv
  OBVIOUS
<1> QED BY NewConnectionType, NoPromptType
        DEF Init, HostInv, TypeOK, StartedHasRun, DialogHasOwner, Owners

LEMMA NextKeeps == HostInv /\ [Next]_vars => HostInv'
<1> SUFFICES ASSUME HostInv, [Next]_vars PROVE HostInv'
  OBVIOUS
<1>1. CASE UNCHANGED vars
  BY <1>1 DEF vars, HostInv, TypeOK, StartedHasRun, DialogHasOwner
<1>2. CASE \E a \in Askers : Thread(a)
  BY <1>2, ThreadKeeps
<1>3. CASE Deliver
  BY <1>3, DeliverKeeps
<1>4. CASE Answering
  BY <1>4, AnswerKeeps DEF Answering
<1>5. CASE User
  <2>1. CASE \E a \in Askers : Start(a) \/ PauseTransfer(a)
    BY <2>1, StartKeeps
  <2>2. CASE \E t \in Panels : RestartPanel(t)
    BY <2>2, NamedAskers, StartKeeps
  <2>3. CASE \E t \in Tabs : CloseTab(t)
    BY <2>3, CloseKeeps
  <2>4. CASE \E r \in Rules : StopRule(r)
    BY <2>4, StopKeeps
  <2>5. CASE Quit
    BY <2>5 DEF Quit, HostInv, TypeOK, StartedHasRun, DialogHasOwner
  <2> QED BY <1>5, <2>1, <2>2, <2>3, <2>4, <2>5 DEF User
<1>6. CASE \E r \in Rules : RuleJoined(r)
  BY <1>6, JoinedKeeps
<1>7. CASE Shutdown
  BY <1>7, CloseKeeps, StopKeeps DEF Shutdown
<1> QED BY <1>1, <1>2, <1>3, <1>4, <1>5, <1>6, <1>7 DEF Next

\* The dialog on the screen always belongs to an open tab, a transfer or a
\* rule, and a hidden one keeps nothing of its last owner, whichever tabs
\* close, rules stop, routes ask and answers are given.
THEOREM DialogHasOwnerHolds == Spec => []DialogHasOwner
<1>1. HostInv => DialogHasOwner
  BY DEF HostInv
<1> QED BY InitHolds, NextKeeps, <1>1, PTL DEF Spec

\* Every question that is queued or shown names a hop of its asker's route,
\* and no connection runs past its bounds.
THEOREM TypeCorrect == Spec => []TypeOK
<1>1. HostInv => TypeOK
  BY DEF HostInv
<1> QED BY InitHolds, NextKeeps, <1>1, PTL DEF Spec

-----------------------------------------------------------------------------
(***************************************************************************)
(* No background connection loses its question unless a tab closes.  The   *)
(* handlers of transfers and rules answer at once when the dialog is       *)
(* taken, except for a warning: so a queued warning must never be all that *)
(* a waiting connection has.  Each lemma is about the connections that     *)
(* have not lost theirs yet.                                               *)
(***************************************************************************)
\* What is queued was asked by this run or an earlier one, and a connection
\* that has warned of a changed key does not ask again in that run.
SoundFor(a, e) ==
    /\ e.question.run <= conn[a].run
    /\ e.changed => e.question.run < conn[a].run \/ conn[a].phase \in {"ended", "idle"}

\* A slot takes answers exactly while its connection waits for one.
Asked(a, kept) ==
    /\ conn[a].awaiting <=> conn[a].phase = "waiting"
    /\ \A e \in Queued : e.question.asker = a => SoundFor(a, e)
    /\ a \in kept => NotLost(a)

AskedInv(kept) == HostInv /\ \A a \in Background : Asked(a, kept)

\* Posting a question and taking the oldest.
LEMMA QueueGrows ==
    ASSUME TypeOK, NEW e, events' = Append(events, e)
    PROVE  Queued' = Queued \cup {e}
<1> DEFINE S == [question : Questions, changed : BOOLEAN]
<1>1. events \in Seq(S) BY DEF TypeOK
<1> HIDE DEF S
<1>2. Len(events) \in Nat /\ DOMAIN events = 1 .. Len(events)
  BY <1>1, LenProperties
<1>3. DOMAIN Append(events, e) = 1 .. (Len(events) + 1)
      /\ \A i \in 1 .. Len(events) : Append(events, e)[i] = events[i]
      /\ Append(events, e)[Len(events) + 1] = e
  BY <1>1, <1>2
<1>4. DOMAIN events' = DOMAIN events \cup {Len(events) + 1}
  BY <1>2, <1>3
<1> QED BY <1>2, <1>3, <1>4 DEF Queued

LEMMA QueueShrinks ==
    ASSUME TypeOK, events # << >>, events' = Tail(events)
    PROVE  /\ Queued' \subseteq Queued
           /\ Queued \subseteq Queued' \cup {Head(events)}
           /\ Head(events) \in Queued
<1> DEFINE S == [question : Questions, changed : BOOLEAN]
<1>1. events \in Seq(S) BY DEF TypeOK
<1> HIDE DEF S
<1>2. Len(events) \in Nat \ {0} /\ DOMAIN events = 1 .. Len(events) /\ Head(events) = events[1]
  BY <1>1
<1>3. /\ DOMAIN Tail(events) = 1 .. (Len(events) - 1)
      /\ \A i \in 1 .. (Len(events) - 1) : Tail(events)[i] = events[i + 1]
  BY <1>1, <1>2
<1>4. \A i \in DOMAIN events : i = 1 \/ (i - 1 \in DOMAIN Tail(events)
                                         /\ Tail(events)[i - 1] = events[i])
  BY <1>2, <1>3
<1>5. \A i \in DOMAIN Tail(events) : i + 1 \in DOMAIN events
                                     /\ Tail(events)[i] = events[i + 1]
  BY <1>2, <1>3
<1>6. Queued' \subseteq Queued
  BY <1>5 DEF Queued
<1>7. Queued \subseteq Queued' \cup {Head(events)}
  BY <1>2, <1>4 DEF Queued
<1>8. Head(events) \in Queued
  BY <1>2 DEF Queued
<1> QED BY <1>6, <1>7, <1>8

\* What is queued has the type of a question.
LEMMA QueuedType ==
    ASSUME TypeOK
    PROVE  \A e \in Queued : e.question \in Questions /\ e.changed \in BOOLEAN
<1> DEFINE S == [question : Questions, changed : BOOLEAN]
<1>1. events \in Seq(S) BY DEF TypeOK
<1>2. \A i \in DOMAIN events : events[i] \in S
  <2> HIDE DEF S
  <2> QED BY <1>1
<1> QED BY <1>2 DEF Queued

\* A background connection is answered exactly when the dialog names it, and
\* the dialog then names no other.
LEMMA BackgroundAddressee ==
    ASSUME TypeOK, NEW a \in Background
    PROVE  /\ a \in Askers /\ a.kind \in {"transfer", "rule"} /\ a.id # Nobody
           /\ a \in Addressee <=> IF a.kind = "rule" THEN prompt.rule = a.id
                                  ELSE prompt.rule = Nobody /\ prompt.transfer = a.id
           /\ a \in Addressee => Addressee = {a}
<1>1. a \in Askers /\ a.kind \in {"transfer", "rule"}
  BY DEF Background, Asker, Askers
<1>2. a.id # Nobody /\ a = [kind |-> a.kind, id |-> a.id]
  BY <1>1, AskerKinds
<1>3. CASE prompt.rule # Nobody
  <2>1. Addressee = {[kind |-> "rule", id |-> prompt.rule]}
    BY <1>3 DEF Addressee
  <2> QED BY <1>1, <1>2, <1>3, <2>1
<1>4. CASE prompt.rule = Nobody /\ prompt.transfer # Nobody
  <2>1. Addressee = {[kind |-> "transfer", id |-> prompt.transfer]}
    BY <1>4 DEF Addressee
  <2> QED BY <1>1, <1>2, <1>4, <2>1
<1>5. CASE prompt.rule = Nobody /\ prompt.transfer = Nobody
  <2>1. \A b \in Addressee : b.kind \in {"ssh", "sftp"}
    BY <1>5 DEF Addressee, Panel
  <2> QED BY <1>1, <1>2, <1>5, <2>1
<1> QED BY <1>1, <1>2, <1>3, <1>4, <1>5

\* The connection whose owner fields a step sets is the one it names.
LEMMA NextAddressee ==
    ASSUME NEW a \in Background,
           IF a.kind = "rule" THEN prompt'.rule = a.id
           ELSE prompt'.rule = Nobody /\ prompt'.transfer = a.id
    PROVE  a \in Addressee'
<1>1. a \in Askers /\ a.kind \in {"transfer", "rule"}
  BY DEF Background, Asker, Askers
<1>2. a.id # Nobody /\ a = [kind |-> a.kind, id |-> a.id]
  BY <1>1, AskerKinds
<1>3. CASE a.kind = "rule"
  <2>1. Addressee' = {[kind |-> "rule", id |-> prompt'.rule]}
    BY <1>2, <1>3 DEF Addressee
  <2> QED BY <1>2, <1>3, <2>1
<1>4. CASE a.kind = "transfer"
  <2>1. Addressee' = {[kind |-> "transfer", id |-> prompt'.transfer]}
    BY <1>2, <1>4 DEF Addressee
  <2> QED BY <1>2, <1>4, <2>1
<1> QED BY <1>1, <1>3, <1>4

-----------------------------------------------------------------------------
\* The steps of a connection's thread, by what they do to its connection.
Posts(a, changed) == events' = Append(events, [question |-> Current(a)', changed |-> changed])

ThreadMove(a) ==
    \/ /\ conn[a].phase = "connecting" /\ conn'[a].phase = "waiting"
       /\ conn'[a].awaiting = TRUE /\ conn'[a].decision = NoAnswer
       /\ Posts(a, FALSE)
    \/ /\ conn[a].phase = "connecting" /\ conn'[a].phase = "ended"
       /\ conn'[a].awaiting = conn[a].awaiting
       /\ Posts(a, TRUE)
    \/ /\ conn[a].phase = "waiting" /\ conn[a].decision # NoAnswer
       /\ conn'[a].phase \in {"connecting", "ended"} /\ conn'[a].awaiting = FALSE
       /\ events' = events
    \/ /\ conn[a].phase = "waiting" /\ conn[a].decision = NoAnswer
       /\ conn'[a].phase = "ended" /\ conn'[a].awaiting = FALSE
       /\ conn'[a].hop = conn[a].hop
       /\ events' = events
    \/ /\ conn[a].phase \in {"connecting", "connected"}
       /\ conn'[a].phase \in {"connected", "ended"} /\ conn'[a].awaiting = conn[a].awaiting
       /\ events' = events

LEMMA ThreadMoves ==
    ASSUME TypeOK, NEW a \in Askers, Thread(a)
    PROVE  /\ prompt' = prompt
           /\ \A b \in Askers \ {a} : conn'[b] = conn[b]
           /\ conn'[a].run = conn[a].run /\ conn'[a].stop = conn[a].stop
           /\ ThreadMove(a)
<1>0. /\ conn[a] = [f \in ConnectionParts |-> conn[a][f]]
      /\ conn \in [Askers -> Connections]
  BY ConnectionFields DEF TypeOK
<1>1. CASE Wake(a)
  <2>1. /\ prompt' = prompt /\ events' = events
        /\ \A b \in Askers \ {a} : conn'[b] = conn[b]
    BY <1>0, <1>1 DEF Wake
  <2>2. /\ conn'[a].run = conn[a].run /\ conn'[a].stop = conn[a].stop
        /\ conn'[a].awaiting = FALSE
        /\ conn'[a].phase = IF conn[a].decision.value = "accept" THEN "connecting" ELSE "ended"
    BY <1>0, <1>1 DEF Wake, ConnectionParts
  <2> QED BY <1>1, <2>1, <2>2 DEF Wake, ThreadMove
<1>2. CASE WakeForStop(a)
  <2>1. /\ prompt' = prompt /\ events' = events
        /\ \A b \in Askers \ {a} : conn'[b] = conn[b]
    BY <1>0, <1>2 DEF WakeForStop
  <2>2. /\ conn'[a].run = conn[a].run /\ conn'[a].stop = conn[a].stop
        /\ conn'[a].awaiting = FALSE /\ conn'[a].phase = "ended" /\ conn'[a].hop = conn[a].hop
    BY <1>0, <1>2 DEF WakeForStop, ConnectionParts
  <2> QED BY <1>2, <2>1, <2>2 DEF WakeForStop, ThreadMove
<1>3. CASE Ask(a)
  <2>1. /\ prompt' = prompt /\ Posts(a, FALSE)
        /\ \A b \in Askers \ {a} : conn'[b] = conn[b]
    BY <1>0, <1>3 DEF Ask, Posts
  <2>2. /\ conn'[a].run = conn[a].run /\ conn'[a].stop = conn[a].stop
        /\ conn'[a].awaiting = TRUE /\ conn'[a].phase = "waiting"
        /\ conn'[a].decision = NoAnswer
    BY <1>0, <1>3 DEF Ask, ConnectionParts
  <2> QED BY <1>3, <2>1, <2>2 DEF Ask, ThreadMove
<1>4. CASE KeyChanged(a)
  <2>1. /\ prompt' = prompt /\ Posts(a, TRUE)
        /\ \A b \in Askers \ {a} : conn'[b] = conn[b]
    BY <1>0, <1>4 DEF KeyChanged, Posts
  <2>2. /\ conn'[a].run = conn[a].run /\ conn'[a].stop = conn[a].stop
        /\ conn'[a].awaiting = conn[a].awaiting /\ conn'[a].phase = "ended"
    BY <1>0, <1>4 DEF KeyChanged, ConnectionParts
  <2> QED BY <1>4, <2>1, <2>2 DEF KeyChanged, ThreadMove
<1>5. CASE Connect(a) \/ End(a)
  <2>1. /\ prompt' = prompt /\ events' = events
        /\ \A b \in Askers \ {a} : conn'[b] = conn[b]
    BY <1>0, <1>5 DEF Connect, End
  <2>2. /\ conn'[a].run = conn[a].run /\ conn'[a].stop = conn[a].stop
        /\ conn'[a].awaiting = conn[a].awaiting /\ conn'[a].phase \in {"connected", "ended"}
    BY <1>0, <1>5 DEF Connect, End, ConnectionParts
  <2> QED BY <1>5, <2>1, <2>2 DEF Connect, End, ThreadMove
<1> QED BY <1>1, <1>2, <1>3, <1>4, <1>5 DEF Thread

-----------------------------------------------------------------------------
\* A step that leaves a background connection alone, keeps its question
\* queued, posts nothing in its name and does not take its dialog away.
LEMMA OtherAsked ==
    ASSUME TypeOK, NEW kept, NEW b \in Background, Asked(b, kept), conn'[b] = conn[b],
           b \in Addressee /\ prompt.visible
              => prompt'.visible /\ prompt'.rule = prompt.rule /\ prompt'.transfer = prompt.transfer,
           \A e \in Queued : e.question = Current(b) => e \in Queued',
           \A e \in Queued' : e.question.asker = b => e \in Queued
    PROVE  Asked(b, kept)'
<1>1. Current(b)' = Current(b)
  BY DEF Current
<1>2. CASE b \in Addressee /\ prompt.visible
  <2>1. b \in Addressee' /\ prompt'.visible
    BY <1>2, BackgroundAddressee, NextAddressee
  <2> QED BY <2>1 DEF NotLost, Asked, SoundFor
<1>3. CASE ~(b \in Addressee /\ prompt.visible)
  <2>1. b \in kept => NotLost(b)'
    BY <1>1, <1>3 DEF Asked, NotLost
  <2> QED BY <2>1 DEF Asked, SoundFor
<1> QED BY <1>2, <1>3

\* A connection that is told to stop keeps its place in the conversation.
LEMMA StoppedAsked ==
    ASSUME NEW kept, NEW b \in Background, Asked(b, kept), Queued' \subseteq Queued,
           conn'[b].phase = conn[b].phase, conn'[b].run = conn[b].run,
           conn'[b].awaiting = conn[b].awaiting, conn'[b].stop
    PROVE  Asked(b, kept)'
  BY DEF Asked, SoundFor, NotLost

LEMMA ThreadAsked ==
    ASSUME NEW kept, AskedInv(kept), NEW a \in Askers, Thread(a)
    PROVE  AskedInv(kept)'
<1> USE DEF AskedInv
<1>1. TypeOK /\ HostInv'
  BY ThreadKeeps DEF HostInv
<1>2. /\ prompt' = prompt
      /\ \A b \in Askers \ {a} : conn'[b] = conn[b]
      /\ conn'[a].run = conn[a].run /\ conn'[a].stop = conn[a].stop
      /\ ThreadMove(a)
  BY <1>1, ThreadMoves
<1>3. /\ Queued \subseteq Queued'
      /\ \A e \in Queued' : e \in Queued \/ \E changed \in BOOLEAN :
                              /\ e = [question |-> Current(a)', changed |-> changed]
                              /\ Posts(a, changed)
  <2>1. CASE events' = events
    BY <2>1 DEF Queued
  <2>2. ASSUME NEW changed \in BOOLEAN, Posts(a, changed)
        PROVE  Queued' = Queued \cup {[question |-> Current(a)', changed |-> changed]}
    BY <1>1, <2>2, QueueGrows DEF Posts
  <2> QED BY <1>2, <2>1, <2>2 DEF ThreadMove
<1>4. \A b \in Background : b \in Askers
  BY BackgroundAddressee, <1>1
<1>5. Current(a)'.asker = a /\ Current(a)'.run = conn[a].run
  BY <1>2 DEF Current
<1>6. ASSUME NEW b \in Background, b # a
      PROVE  Asked(b, kept)'
  <2>1. conn'[b] = conn[b] /\ Asked(b, kept)
    BY <1>2, <1>4, <1>6
  <2>2. \A e \in Queued' : e.question.asker = b => e \in Queued
    BY <1>3, <1>5, <1>6
  <2> QED BY <1>1, <1>2, <1>3, <2>1, <2>2, OtherAsked
<1>7. ASSUME a \in Background
      PROVE  Asked(a, kept)'
  <2>0. /\ conn[a].awaiting <=> conn[a].phase = "waiting"
        /\ \A e \in Queued : e.question.asker = a => SoundFor(a, e)
        /\ conn[a].run \in Int
    BY <1>1, <1>7, ConnectionFields DEF Asked, TypeOK
  <2>1. CASE conn[a].phase = "connecting" /\ conn'[a].phase = "waiting"
             /\ conn'[a].awaiting = TRUE /\ Posts(a, FALSE)
    <3>0. PICK new : new = [question |-> Current(a)', changed |-> FALSE]
      OBVIOUS
    <3>1. /\ Queued' = Queued \cup {new} /\ new.question = Current(a)'
          /\ new.question.run = conn[a].run /\ new.changed = FALSE
      BY <3>0, <1>1, <1>5, <2>1, QueueGrows DEF Posts
    <3>2. NotLost(a)'
      BY <3>1 DEF NotLost
    <3>3. \A e \in Queued : e.question.asker = a => SoundFor(a, e)'
      BY <1>2, <2>0, <2>1 DEF SoundFor
    <3>4. SoundFor(a, new)'
      BY <3>1, <1>2, <2>0 DEF SoundFor
    <3> QED BY <2>1, <3>1, <3>2, <3>3, <3>4 DEF Asked
  <2>2. CASE conn[a].phase = "connecting" /\ conn'[a].phase = "ended"
             /\ conn'[a].awaiting = conn[a].awaiting /\ Posts(a, TRUE)
    <3>0. PICK new : new = [question |-> Current(a)', changed |-> TRUE]
      OBVIOUS
    <3>1. /\ Queued' = Queued \cup {new} /\ new.question = Current(a)'
          /\ new.question.run = conn[a].run /\ new.changed = TRUE
      BY <3>0, <1>1, <1>5, <2>2, QueueGrows DEF Posts
    <3>2. NotLost(a)'
      BY <2>2 DEF NotLost
    <3>3. \A e \in Queued : e.question.asker = a => SoundFor(a, e)'
      BY <1>2, <2>0, <2>2 DEF SoundFor
    <3>4. SoundFor(a, new)'
      BY <3>1, <1>2, <2>0, <2>2 DEF SoundFor
    <3> QED BY <2>0, <2>2, <3>1, <3>2, <3>3, <3>4 DEF Asked
  <2>3. CASE /\ events' = events /\ conn'[a].phase # "waiting" /\ ~conn'[a].awaiting
             /\ conn[a].phase \notin {"ended", "idle"}
    <3>1. Queued' = Queued
      BY <2>3 DEF Queued
    <3>2. \A e \in Queued : e.question.asker = a => SoundFor(a, e)'
      BY <1>2, <2>0, <2>3 DEF SoundFor
    <3> QED BY <2>3, <3>1, <3>2 DEF NotLost, Asked
  <2> QED BY <1>2, <2>0, <2>1, <2>2, <2>3 DEF ThreadMove
<1> QED BY <1>1, <1>6, <1>7

\* Starting a connection, replacing a panel's session, pausing a transfer.
LEMMA StartAsked ==
    ASSUME NEW kept, AskedInv(kept), NEW a \in Askers,
           Start(a) \/ PauseTransfer(a) \/ (\E t \in Panels : a = Panel(t) /\ RestartPanel(t))
    PROVE  AskedInv(kept)'
<1> USE DEF AskedInv
<1>1. TypeOK /\ HostInv'
  BY StartKeeps DEF HostInv
<1>2. Queued' = Queued
  BY DEF Start, PauseTransfer, RestartPanel, Queued
<1>3. ASSUME NEW b \in Background
      PROVE  Asked(b, kept)'
  <2>0. /\ Asked(b, kept) /\ b \in Askers /\ b.kind \in {"transfer", "rule"}
        /\ conn[b] = [f \in ConnectionParts |-> conn[b][f]]
        /\ conn[b].run \in Int /\ conn \in [Askers -> Connections]
    BY <1>1, BackgroundAddressee, ConnectionFields DEF TypeOK
  <2>1. CASE Start(a) /\ a = b
    <3>1. conn'[b] = [NewConnection EXCEPT !.phase = "connecting", !.run = conn[b].run + 1]
      BY <2>0, <2>1 DEF Start, Started
    <3>2. /\ conn'[b].phase = "connecting" /\ conn'[b].run = conn[b].run + 1
          /\ conn'[b].awaiting = FALSE
      BY <3>1 DEF NewConnection
    <3>3. \A e \in Queued : e.question.asker = b => SoundFor(b, e)'
      <4> SUFFICES ASSUME NEW e \in Queued, e.question.asker = b PROVE SoundFor(b, e)'
        OBVIOUS
      <4>1. e.question.run \in Int /\ e.question.run <= conn[b].run
        BY <1>1, <2>0, QueuedType DEF Asked, SoundFor, Questions
      <4> QED BY <2>0, <3>2, <4>1 DEF SoundFor
    <3> QED BY <1>2, <3>2, <3>3 DEF Asked, NotLost
  <2>2. CASE Start(a) /\ a # b
    <3>1. b # Panel(a.id)
      BY <2>0 DEF Panel
    <3>2. conn'[b] = conn[b]
      BY <2>0, <2>2, <3>1 DEF Start
    <3>3. prompt' = prompt \/ (a.kind = "rule" /\ prompt.rule = a.id)
      BY <2>2 DEF Start, ClearedIf
    <3>4. b \in Addressee => prompt' = prompt
      <4>1. a.kind = "rule" /\ prompt.rule = a.id => a.id # Nobody /\ a = [kind |-> "rule", id |-> a.id]
        BY AskerKinds
      <4>2. b = [kind |-> b.kind, id |-> b.id]
        BY <2>0, AskerKinds
      <4> QED BY <1>1, <2>2, <3>3, <4>1, <4>2, BackgroundAddressee
    <3> QED BY <1>1, <1>2, <2>0, <3>2, <3>4, OtherAsked
  <2>3. CASE PauseTransfer(a) /\ a = b
    <3>1. conn'[b] = [conn[b] EXCEPT !.stop = TRUE]
      BY <2>0, <2>3 DEF PauseTransfer
    <3>2. /\ conn'[b].phase = conn[b].phase /\ conn'[b].run = conn[b].run
          /\ conn'[b].awaiting = conn[b].awaiting /\ conn'[b].stop
      BY <2>0, <3>1 DEF ConnectionParts
    <3> QED BY <1>2, <2>0, <3>2, StoppedAsked
  <2>4. CASE conn'[b] = conn[b] /\ prompt' = prompt
    BY <1>1, <1>2, <2>0, <2>4, OtherAsked
  <2>5. PauseTransfer(a) /\ a # b => conn'[b] = conn[b] /\ prompt' = prompt
    BY <2>0 DEF PauseTransfer
  <2>6. (\E t \in Panels : a = Panel(t) /\ RestartPanel(t)) => conn'[b] = conn[b] /\ prompt' = prompt
    BY <2>0 DEF RestartPanel, Panel
  <2> QED BY <2>1, <2>2, <2>3, <2>4, <2>5, <2>6
<1> QED BY <1>1, <1>3

\* The user's answer goes to the connection the dialog names, and takes the
\* dialog off the screen for it alone.
LEMMA AnswerAsked ==
    ASSUME NEW kept, AskedInv(kept), NEW value \in {"accept", "reject"}, UserAnswers(value)
    PROVE  AskedInv(kept)'
<1> USE DEF AskedInv
<1>1. TypeOK /\ HostInv'
  BY AnswerKeeps DEF HostInv
<1>2. Queued' = Queued
  BY DEF UserAnswers, Queued
<1>3. ASSUME NEW b \in Background
      PROVE  Asked(b, kept)'
  <2>0. /\ Asked(b, kept) /\ b \in Askers /\ b.kind \in {"transfer", "rule"}
        /\ conn[b] = [f \in ConnectionParts |-> conn[b][f]]
        /\ conn \in [Askers -> Connections]
    BY <1>1, BackgroundAddressee, ConnectionFields DEF TypeOK
  <2>1. CASE b \in Addressee
    <3>1. Addressee = {b}
      BY <1>1, <2>1, BackgroundAddressee
    <3>2. conn' = Resolve(b, Answer(value, prompt.shown))
      BY <3>1 DEF UserAnswers
    <3>3. CASE Takes(b)
      <4>1. conn'[b] = [conn[b] EXCEPT !.decision = Answer(value, prompt.shown)]
        BY <2>0, <3>2, <3>3 DEF Resolve
      <4>2. /\ conn'[b].phase = conn[b].phase /\ conn'[b].run = conn[b].run
            /\ conn'[b].awaiting = conn[b].awaiting
            /\ conn'[b].decision = Answer(value, prompt.shown)
        BY <2>0, <4>1 DEF ConnectionParts
      <4>3. Answer(value, prompt.shown) # NoAnswer
        BY DEF Answer, NoAnswer
      <4> QED BY <1>2, <2>0, <4>2, <4>3 DEF Asked, SoundFor, NotLost
    <3>4. CASE ~Takes(b)
      <4>1. conn'[b] = conn[b]
        BY <3>2, <3>4 DEF Resolve
      <4>2. conn[b].phase # "waiting"
        BY <2>0, <3>4 DEF Takes, Asked
      <4> QED BY <1>2, <2>0, <4>1, <4>2 DEF Asked, SoundFor, NotLost
    <3> QED BY <3>3, <3>4
  <2>2. CASE b \notin Addressee
    <3>1. conn'[b] = conn[b]
      <4>1. CASE Addressee = {}
        BY <4>1 DEF UserAnswers
      <4>2. CASE Addressee # {}
        <5>1. PICK a \in Addressee : conn' = Resolve(a, Answer(value, prompt.shown))
          BY <4>2 DEF UserAnswers
        <5> QED BY <2>0, <2>2, <5>1 DEF Resolve
      <4> QED BY <4>1, <4>2
    <3> QED BY <1>1, <1>2, <2>0, <2>2, <3>1, OtherAsked
  <2> QED BY <2>1, <2>2
<1> QED BY <1>1, <1>3

\* The handler of a background question shows it or answers it; a warning
\* that finds the dialog taken is dropped, and nobody waits for its answer.
LEMMA DeliverAsked ==
    ASSUME NEW kept, AskedInv(kept), Deliver
    PROVE  AskedInv(kept)'
<1> USE DEF AskedInv
<1>1. TypeOK /\ HostInv'
  BY DeliverKeeps DEF HostInv
<1>2. PICK e : e = Head(events)
  OBVIOUS
<1>3. /\ Queued' \subseteq Queued /\ Queued \subseteq Queued' \cup {e} /\ e \in Queued
      /\ e.question.asker \in Askers /\ e.changed \in BOOLEAN
  BY <1>1, <1>2, QueueShrinks, Taken DEF Deliver
<1>4. \/ ~Heard(e.question) /\ UNCHANGED <<conn, prompt>>
      \/ /\ Heard(e.question) /\ e.question.asker.kind \in {"ssh", "sftp"}
         /\ ShowForTab(e.question.asker, e.question, e.changed)
      \/ /\ Heard(e.question) /\ e.question.asker.kind \notin {"ssh", "sftp"}
         /\ ShowInBackground(e.question.asker, e.question, e.changed)
  BY <1>2 DEF Deliver
<1>5. ASSUME NEW b \in Background
      PROVE  Asked(b, kept)'
  <2>0. /\ Asked(b, kept) /\ b \in Askers /\ b.kind \in {"transfer", "rule"}
        /\ conn[b] = [f \in ConnectionParts |-> conn[b][f]]
        /\ conn \in [Askers -> Connections]
    BY <1>1, BackgroundAddressee, ConnectionFields DEF TypeOK
  <2>1. Current(b).asker = b /\ Current(b).run = conn[b].run
    BY DEF Current
  <2>2. ~prompt.visible => prompt.rule = Nobody /\ prompt.transfer = Nobody
    BY DEF HostInv, DialogHasOwner, NoPrompt
  <2>3. CASE e.question.asker # b
    <3>1. \A x \in Queued : x.question = Current(b) => x \in Queued'
      BY <1>3, <2>1, <2>3
    <3>2. conn'[b] = conn[b]
      BY <1>4, <2>0, <2>3 DEF ShowForTab, ShowInBackground, Resolve
    <3>3. prompt.visible => prompt'.visible /\ prompt'.rule = prompt.rule
                                            /\ prompt'.transfer = prompt.transfer
      <4>1. CASE prompt' = prompt
        BY <4>1
      <4>2. CASE ShowForTab(e.question.asker, e.question, e.changed)
        BY <1>1, <4>2, DialogFields DEF ShowForTab, DialogParts
      <4> QED BY <1>4, <4>1, <4>2 DEF ShowInBackground
    <3> QED BY <1>1, <1>3, <2>0, <3>1, <3>2, <3>3, OtherAsked
  <2>4. CASE e.question.asker = b
    <3>1. \/ b.kind = "rule" /\ conn[b].phase = "idle" /\ conn' = conn
          \/ ShowInBackground(b, e.question, e.changed)
      <4>1. Heard(e.question) \/ (b.kind = "rule" /\ conn[b].phase = "idle")
        BY <2>0, <2>4 DEF Heard
      <4> QED BY <1>4, <2>0, <2>4, <4>1
    <3>2. CASE conn[b].phase = "idle" /\ conn' = conn
      BY <1>3, <2>0, <3>2 DEF Asked, SoundFor, NotLost
    <3>3. CASE ~prompt.visible /\ ShowInBackground(b, e.question, e.changed)
      <4>1. conn'[b] = conn[b] /\ prompt'.visible
        BY <1>1, <3>3, DialogFields DEF ShowInBackground, DialogParts
      <4>2. IF b.kind = "rule" THEN prompt'.rule = b.id
            ELSE prompt'.rule = Nobody /\ prompt'.transfer = b.id
        BY <1>1, <2>0, <2>2, <3>3, DialogFields DEF ShowInBackground, DialogParts
      <4>3. b \in Addressee'
        BY <4>2, NextAddressee
      <4> QED BY <1>3, <2>0, <4>1, <4>3 DEF Asked, SoundFor, NotLost
    <3>4. CASE prompt.visible /\ e.changed /\ conn' = conn
      <4>1. Current(b)' = Current(b)
        BY <3>4 DEF Current
      <4>2. \/ conn[b].phase # "waiting"
            \/ e.question # Current(b)
        <5>1. /\ e.question.run < conn[b].run \/ conn[b].phase \in {"ended", "idle"}
              /\ conn[b].run \in Int
          BY <1>1, <1>3, <2>0, <2>4, <3>4, ConnectionFields DEF Asked, SoundFor, TypeOK
        <5> QED BY <2>1, <5>1
      <4>3. prompt' = prompt
        BY <2>0, <2>4, <3>1, <3>4, <1>4 DEF ShowInBackground
      <4>4. CASE conn[b].phase # "waiting"
        BY <1>3, <2>0, <3>4, <4>4 DEF Asked, SoundFor, NotLost
      <4>5. CASE e.question # Current(b)
        <5>1. \A x \in Queued : x.question = Current(b) => x \in Queued'
          BY <1>3, <4>5
        <5> QED BY <1>1, <1>3, <2>0, <3>4, <4>3, <5>1, OtherAsked
      <4> QED BY <4>2, <4>4, <4>5
    <3>5. CASE conn' = Resolve(b, Answer("reject", NoQuestion))
      <4>1. Answer("reject", NoQuestion) # NoAnswer
        BY DEF Answer, NoAnswer
      <4>2. CASE Takes(b)
        <5>1. conn'[b] = [conn[b] EXCEPT !.decision = Answer("reject", NoQuestion)]
          BY <2>0, <3>5, <4>2 DEF Resolve
        <5>2. /\ conn'[b].phase = conn[b].phase /\ conn'[b].run = conn[b].run
              /\ conn'[b].awaiting = conn[b].awaiting
              /\ conn'[b].decision = Answer("reject", NoQuestion)
          BY <2>0, <5>1 DEF ConnectionParts
        <5> QED BY <1>3, <2>0, <4>1, <5>2 DEF Asked, SoundFor, NotLost
      <4>3. CASE ~Takes(b)
        <5>1. conn'[b] = conn[b]
          BY <3>5, <4>3 DEF Resolve
        <5>2. conn[b].phase # "waiting"
          BY <2>0, <4>3 DEF Takes, Asked
        <5> QED BY <1>3, <2>0, <5>1, <5>2 DEF Asked, SoundFor, NotLost
      <4> QED BY <4>2, <4>3
    <3>6. prompt.visible /\ ShowInBackground(b, e.question, e.changed)
             => (e.changed /\ conn' = conn) \/ conn' = Resolve(b, Answer("reject", NoQuestion))
      BY DEF ShowInBackground
    <3> QED BY <3>1, <3>2, <3>3, <3>4, <3>5, <3>6
  <2> QED BY <2>3, <2>4
<1> QED BY <1>1, <1>5

\* The end of the shutdown tells every connection to stop.
LEMMA QuitAsked ==
    ASSUME NEW kept, AskedInv(kept), QuitRest
    PROVE  AskedInv(kept)'
<1> USE DEF AskedInv
<1>1. TypeOK /\ HostInv'
  BY CloseKeeps DEF HostInv
<1>2. Queued' = Queued
  BY DEF QuitRest, Queued
<1>3. ASSUME NEW b \in Background
      PROVE  Asked(b, kept)'
  <2>0. /\ Asked(b, kept) /\ b \in Askers
        /\ conn[b] = [f \in ConnectionParts |-> conn[b][f]]
    BY <1>1, BackgroundAddressee, ConnectionFields DEF TypeOK
  <2>1. conn'[b] = [conn[b] EXCEPT !.stop = TRUE]
    BY <2>0 DEF QuitRest
  <2>2. /\ conn'[b].phase = conn[b].phase /\ conn'[b].run = conn[b].run
        /\ conn'[b].awaiting = conn[b].awaiting /\ conn'[b].stop
    BY <2>0, <2>1 DEF ConnectionParts
  <2> QED BY <1>2, <2>0, <2>2, StoppedAsked
<1> QED BY <1>1, <1>3

\* Stopping a rule's worker tells it to stop and leaves the others alone.
LEMMA StopAsked ==
    ASSUME NEW kept, AskedInv(kept), NEW r \in Rules, StopRule(r) \/ QuitRule(r)
    PROVE  AskedInv(kept)'
<1> USE DEF AskedInv
<1>1. TypeOK /\ HostInv'
  BY StopKeeps DEF HostInv
<1>2. Queued' = Queued /\ prompt' = prompt
  BY DEF StopRule, QuitRule, Queued
<1> DEFINE a == [kind |-> "rule", id |-> r]
           answered == Resolve(a, Answer("reject", NoQuestion))
<1>3. /\ conn' = [answered EXCEPT ![a].stop = TRUE] /\ a \in Askers
      /\ answered \in [Askers -> Connections]
      /\ \A b \in Askers : answered[b].phase = conn[b].phase /\ answered[b].run = conn[b].run
  BY <1>1, NamedAskers, AnswerTypes, ResolveTypes DEF StopRule, QuitRule, StopWorker, HostInv
<1>4. \A b \in Askers : /\ b # a => answered[b] = conn[b]
                        /\ answered[b].awaiting = conn[b].awaiting
  <2>1. CASE Takes(a)
    <3>1. /\ conn \in [Askers -> Connections]
          /\ conn[a] = [f \in ConnectionParts |-> conn[a][f]]
      BY <1>1, <1>3, ConnectionFields DEF TypeOK
    <3> QED BY <2>1, <3>1 DEF Resolve, ConnectionParts
  <2> QED BY <2>1 DEF Resolve
<1> HIDE DEF a, answered
<1>5. ASSUME NEW b \in Background
      PROVE  Asked(b, kept)'
  <2>0. Asked(b, kept) /\ b \in Askers
    BY <1>1, BackgroundAddressee
  <2>1. CASE b = a
    <3>1. answered[b] = [f \in ConnectionParts |-> answered[b][f]]
      BY <1>3, <2>0, ConnectionFields
    <3>2. conn'[b] = [answered[b] EXCEPT !.stop = TRUE]
      BY <1>3, <2>0, <2>1
    <3>3. /\ conn'[b].phase = conn[b].phase /\ conn'[b].run = conn[b].run
          /\ conn'[b].awaiting = conn[b].awaiting /\ conn'[b].stop
      BY <1>3, <1>4, <2>0, <3>1, <3>2 DEF ConnectionParts
    <3> QED BY <1>2, <2>0, <3>3, StoppedAsked
  <2>2. CASE b # a
    <3>1. conn'[b] = conn[b]
      BY <1>3, <1>4, <2>0, <2>2
    <3> QED BY <1>1, <1>2, <2>0, <3>1, OtherAsked
  <2> QED BY <2>1, <2>2
<1> QED BY <1>1, <1>5

\* The job of a joined rule asks nothing, and takes only its own dialog along.
LEMMA JoinedAsked ==
    ASSUME NEW kept, AskedInv(kept), NEW r \in Rules, RuleJoined(r)
    PROVE  AskedInv(kept)'
<1> USE DEF AskedInv
<1>1. TypeOK /\ HostInv'
  BY JoinedKeeps DEF HostInv
<1>2. Queued' = Queued
  BY DEF RuleJoined, Queued
<1> DEFINE a == [kind |-> "rule", id |-> r]
<1>3. /\ a \in Askers /\ conn' = [conn EXCEPT ![a] = Replaced(a)] /\ conn[a].phase = "ended"
      /\ prompt' = prompt \/ prompt.rule = r
      /\ a.kind = "rule" /\ a.id = r
  BY NamedAskers DEF RuleJoined, ClearedIf
<1> HIDE DEF a
<1>4. ASSUME NEW b \in Background
      PROVE  Asked(b, kept)'
  <2>0. /\ Asked(b, kept) /\ b \in Askers /\ conn \in [Askers -> Connections]
        /\ b = [kind |-> b.kind, id |-> b.id] /\ a = [kind |-> a.kind, id |-> a.id]
        /\ a.id # Nobody
    BY <1>1, <1>3, BackgroundAddressee, AskerKinds DEF TypeOK
  <2>1. CASE b = a
    <3>1. conn'[b] = [NewConnection EXCEPT !.run = conn[b].run]
      BY <1>3, <2>0, <2>1 DEF Replaced
    <3>2. conn'[b].phase = "idle" /\ conn'[b].run = conn[b].run /\ conn'[b].awaiting = FALSE
      BY <3>1 DEF NewConnection
    <3> QED BY <1>2, <1>3, <2>0, <2>1, <3>2 DEF Asked, SoundFor, NotLost
  <2>2. CASE b # a
    <3>1. conn'[b] = conn[b]
      BY <1>3, <2>0, <2>2
    <3>2. b \in Addressee => prompt' = prompt
      BY <1>1, <1>3, <2>0, <2>2, BackgroundAddressee
    <3> QED BY <1>1, <1>2, <2>0, <3>1, <3>2, OtherAsked
  <2> QED BY <2>1, <2>2
<1> QED BY <1>1, <1>4

\* A closing tab hides the dialog it has taken over; no other dialog.
LEMMA CloseAsked ==
    ASSUME NEW kept, AskedInv(kept), NEW t \in Tabs, CloseTab(t),
           prompt.visible /\ prompt.tab = t => kept = {}
    PROVE  AskedInv(kept)'
<1> USE DEF AskedInv
<1>1. TypeOK /\ HostInv'
  BY CloseKeeps DEF HostInv
<1>2. Queued' = Queued
  BY DEF CloseTab, Queued
<1>3. ASSUME NEW b \in Background
      PROVE  Asked(b, kept)'
  <2>0. Asked(b, kept) /\ b \in Askers /\ b.kind \in {"transfer", "rule"}
    BY <1>1, BackgroundAddressee
  <2>1. conn'[b] = conn[b]
    BY <2>0 DEF CloseTab, OfTab
  <2>2. CASE kept = {}
    BY <1>2, <2>0, <2>1, <2>2 DEF Asked, SoundFor
  <2>3. CASE ~(prompt.visible /\ prompt.tab = t)
    <3>1. prompt.visible => prompt' = prompt
      BY <2>3 DEF CloseTab, ClearedIf
    <3> QED BY <1>1, <1>2, <2>0, <2>1, <3>1, OtherAsked
  <2> QED BY <2>2, <2>3
<1> QED BY <1>1, <1>3

LEMMA AskedNext ==
    ASSUME NEW kept, AskedInv(kept), [Next]_vars, ClosesWithDialog => kept = {}
    PROVE  AskedInv(kept)'
<1>0. HostInv /\ TypeOK
  BY DEF AskedInv, HostInv
<1>1. CASE UNCHANGED vars
  <2>1. HostInv'
    BY <1>0, <1>1, NextKeeps
  <2>2. ASSUME NEW b \in Background, Asked(b, kept) PROVE Asked(b, kept)'
    <3>1. Queued' = Queued /\ conn' = conn /\ prompt' = prompt
      BY <1>1 DEF vars, Queued
    <3> QED BY <1>0, <2>2, <3>1, OtherAsked
  <2> QED BY <2>1, <2>2 DEF AskedInv
<1>2. CASE \E a \in Askers : Thread(a)
  BY <1>2, ThreadAsked
<1>3. CASE Deliver
  BY <1>3, DeliverAsked
<1>4. CASE Answering
  BY <1>4, AnswerAsked DEF Answering
<1>5. CASE User
  <2>1. CASE \E a \in Askers : Start(a) \/ PauseTransfer(a)
    BY <2>1, StartAsked
  <2>2. CASE \E t \in Panels : RestartPanel(t)
    BY <2>2, NamedAskers, StartAsked
  <2>3. CASE \E t \in Tabs : CloseTab(t)
    BY <2>3, CloseAsked DEF ClosesWithDialog
  <2>4. CASE \E r \in Rules : StopRule(r)
    BY <2>4, StopAsked
  <2>5. CASE Quit
    <3>1. HostInv'
      BY <1>0, <1>5, NextKeeps DEF Next
    <3>2. ASSUME NEW b \in Background, Asked(b, kept) PROVE Asked(b, kept)'
      <4>1. Queued' = Queued /\ conn' = conn /\ prompt' = prompt
        BY <2>5 DEF Quit, Queued
      <4> QED BY <1>0, <3>2, <4>1, OtherAsked
    <3> QED BY <3>1, <3>2 DEF AskedInv
  <2> QED BY <1>5, <2>1, <2>2, <2>3, <2>4, <2>5 DEF User
<1>6. CASE \E r \in Rules : RuleJoined(r)
  BY <1>6, JoinedAsked
<1>7. CASE Shutdown
  BY <1>7, QuitAsked, StopAsked DEF Shutdown
<1> QED BY <1>1, <1>2, <1>3, <1>4, <1>5, <1>6, <1>7 DEF Next

LEMMA AskedInit == ASSUME NEW kept PROVE Init => AskedInv(kept)
<1> SUFFICES ASSUME Init PROVE AskedInv(kept)
  OBVIOUS
<1>1. HostInv /\ TypeOK
  BY InitHolds DEF HostInv
<1>2. ASSUME NEW b \in Background PROVE Asked(b, kept)
  <2>1. b \in Askers
    BY <1>1, BackgroundAddressee
  <2>2. conn[b].phase = "idle" /\ conn[b].awaiting = FALSE
    BY <2>1 DEF Init, NewConnection
  <2>3. Queued = {}
    BY DEF Init, Queued
  <2> QED BY <2>2, <2>3 DEF Asked, NotLost
<1> QED BY <1>1, <1>2 DEF AskedInv

\* As long as no tab closes, no transfer and no rule waits for an answer that
\* cannot come, whatever tabs and panels do to the dialog meanwhile.
THEOREM BackgroundKeepsQuestions ==
    ASSUME Tabs = {} \/ "closeTab" \notin Calls
    PROVE  Spec => [](\A a \in Background : NotLost(a))
<1>1. AskedInv(Background) => \A a \in Background : NotLost(a)
  BY DEF AskedInv, Asked
<1>2. ~ClosesWithDialog
  BY DEF ClosesWithDialog, CloseTab
<1>3. AskedInv(Background) /\ [Next]_vars => AskedInv(Background)'
  BY <1>2, AskedNext
<1>4. Init => AskedInv(Background)
  BY AskedInit
<1> QED BY <1>1, <1>3, <1>4, PTL DEF Spec

-----------------------------------------------------------------------------
(***************************************************************************)
(* No tab and no panel loses its question unless another takes the dialog  *)
(* over.  Which of a tab's two sessions the dialog answers depends on      *)
(* whether the panel was started: what keeps the question of the terminal  *)
(* is that a panel shown in the dialog has been.                           *)
(***************************************************************************)
Ends == Asker("ssh", Tabs) \cup Asker("sftp", Panels)

PanelShown ==
    prompt.visible /\ prompt.forSftp /\ prompt.tab \in Panels => conn[Panel(prompt.tab)].run # 0

\* The sessions of a closed tab are told to stop.
TabAsked(a, kept) ==
    /\ conn[a].phase = "waiting" => conn[a].awaiting
    /\ a.id \notin open /\ conn[a].phase # "idle" => conn[a].stop
    /\ a \in kept => NotLost(a)

TabInv(kept) == HostInv /\ PanelShown /\ \A a \in Ends : TabAsked(a, kept)

LEMMA EndAskers ==
    ASSUME NEW b \in Ends
    PROVE  /\ b \in Askers /\ b.kind \in {"ssh", "sftp"} /\ b = [kind |-> b.kind, id |-> b.id]
           /\ b.id \in Tabs /\ b.id # Nobody
           /\ b.kind = "sftp" => b.id \in Panels /\ b = Panel(b.id)
<1>1. b \in Askers /\ b.kind \in {"ssh", "sftp"}
  BY DEF Ends, Asker, Askers
<1> QED BY <1>1, AskerKinds, PromptAssumption DEF Panel

\* The dialog answers a tab or panel only if no other owner is named.
LEMMA EndAddressee ==
    ASSUME NEW b \in Ends
    PROVE  /\ b \in Addressee <=>
                /\ prompt.rule = Nobody /\ prompt.transfer = Nobody /\ prompt.tab = b.id
                /\ IF b.id \in Panels /\ prompt.forSftp /\ conn[Panel(b.id)].phase # "idle"
                   THEN b.kind = "sftp" ELSE b.kind = "ssh" /\ b.id \in open
           /\ b \in Addressee => Addressee = {b}
<1>0. /\ b.kind \in {"ssh", "sftp"} /\ b = [kind |-> b.kind, id |-> b.id]
      /\ b.kind = "sftp" => b = Panel(b.id)
  BY EndAskers
<1>1. CASE prompt.rule # Nobody \/ prompt.transfer # Nobody
  <2>1. \A c \in Addressee : c.kind \in {"rule", "transfer"}
    BY <1>1 DEF Addressee
  <2> QED BY <1>0, <1>1, <2>1
<1>2. CASE prompt.rule = Nobody /\ prompt.transfer = Nobody
  <2> DEFINE shown == prompt.tab \in Panels /\ prompt.forSftp /\ conn[Panel(prompt.tab)].phase # "idle"
  <2>1. CASE shown
    <3>1. Addressee = {Panel(prompt.tab)}
      BY <1>2, <2>1 DEF Addressee
    <3>2. Panel(prompt.tab).kind = "sftp" /\ Panel(prompt.tab).id = prompt.tab
      BY DEF Panel
    <3> QED BY <1>0, <1>2, <2>1, <3>1, <3>2
  <2>2. CASE ~shown /\ prompt.tab \in open
    <3>1. Addressee = {[kind |-> "ssh", id |-> prompt.tab]}
      BY <1>2, <2>2 DEF Addressee
    <3> QED BY <1>0, <1>2, <2>2, <3>1
  <2>3. CASE ~shown /\ prompt.tab \notin open
    <3>1. Addressee = {}
      BY <1>2, <2>3 DEF Addressee
    <3> QED BY <1>0, <1>2, <2>3, <3>1
  <2> QED BY <2>1, <2>2, <2>3
<1> QED BY <1>1, <1>2

\* A step that leaves a tab or panel alone, keeps its question queued and
\* leaves it the dialog that answers it.
LEMMA OtherTab ==
    ASSUME NEW kept, NEW b \in Ends, TabAsked(b, kept), conn'[b] = conn[b],
           b.id \in open => b.id \in open',
           b \in Addressee /\ prompt.visible => b \in Addressee' /\ prompt'.visible,
           \A e \in Queued : e.question = Current(b) => e \in Queued'
    PROVE  TabAsked(b, kept)'
<1>1. Current(b)' = Current(b)
  BY DEF Current
<1>2. b \in kept => NotLost(b)'
  BY <1>1 DEF TabAsked, NotLost
<1> QED BY <1>2 DEF TabAsked

\* A dialog that stays, with a panel that stays, answers whom it answered.
LEMMA SameAddressee ==
    ASSUME NEW b \in Ends, b \in Addressee,
           prompt' = prompt, b.id \in open => b.id \in open',
           b.id \in Panels /\ prompt.forSftp
             => (conn'[Panel(b.id)].phase = "idle" <=> conn[Panel(b.id)].phase = "idle")
    PROVE  b \in Addressee'
<1>0. /\ b.kind \in {"ssh", "sftp"} /\ b = [kind |-> b.kind, id |-> b.id]
      /\ b.kind = "sftp" => b = Panel(b.id)
  BY EndAskers
<1>1. /\ prompt'.rule = Nobody /\ prompt'.transfer = Nobody /\ prompt'.tab = b.id
      /\ prompt'.forSftp = prompt.forSftp
  BY EndAddressee
<1>2. CASE b.id \in Panels /\ prompt.forSftp /\ conn[Panel(b.id)].phase # "idle"
  <2>1. Addressee' = {Panel(prompt'.tab)}
    BY <1>1, <1>2 DEF Addressee
  <2> QED BY <1>0, <1>1, <1>2, <2>1, EndAddressee
<1>3. CASE ~(b.id \in Panels /\ prompt.forSftp /\ conn[Panel(b.id)].phase # "idle")
  <2>1. Addressee' = {[kind |-> "ssh", id |-> prompt'.tab]}
    BY <1>1, <1>3, EndAddressee DEF Addressee
  <2> QED BY <1>0, <1>1, <1>3, <2>1, EndAddressee
<1> QED BY <1>2, <1>3

\* A step of a background connection or of the shutdown: the tabs and panels
\* stay as they are, and a dialog is hidden only if it answers a rule.
LEMMA RestTab ==
    ASSUME NEW kept, TabInv(kept), HostInv', events' = events, open' = open,
           \A b \in Ends : conn'[b] = conn[b],
           prompt' = prompt \/ (prompt.rule # Nobody /\ ~prompt'.visible)
    PROVE  TabInv(kept)'
<1> USE DEF TabInv
<1>1. Queued' = Queued
  BY DEF Queued
<1>2. \A t \in Panels : Panel(t) \in Ends
  BY PromptAssumption DEF Ends, Asker, Panel
<1>3. PanelShown'
  BY <1>2 DEF PanelShown
<1>4. ASSUME NEW b \in Ends PROVE TabAsked(b, kept)'
  <2>1. b \in Addressee /\ prompt.visible => b \in Addressee' /\ prompt'.visible
    <3> SUFFICES ASSUME b \in Addressee, prompt.visible PROVE b \in Addressee' /\ prompt'.visible
      OBVIOUS
    <3>1. prompt' = prompt
      BY EndAddressee
    <3> QED BY <1>2, <3>1, SameAddressee
  <2> QED BY <1>1, <2>1, OtherTab
<1> QED BY <1>3, <1>4

LEMMA ThreadTab ==
    ASSUME NEW kept, TabInv(kept), NEW a \in Askers, Thread(a)
    PROVE  TabInv(kept)'
<1> USE DEF TabInv
<1>1. TypeOK /\ HostInv'
  BY ThreadKeeps DEF HostInv
<1>2. /\ prompt' = prompt
      /\ \A b \in Askers \ {a} : conn'[b] = conn[b]
      /\ conn'[a].run = conn[a].run /\ conn'[a].stop = conn[a].stop
      /\ ThreadMove(a)
  BY <1>1, ThreadMoves
<1>3. open' = open
  BY DEF Thread, Wake, WakeForStop, Ask, KeyChanged, Connect, End
<1>4. conn[a].phase # "idle" /\ conn'[a].phase # "idle"
  BY <1>2 DEF ThreadMove
<1>5. \A b \in Askers : /\ conn'[b].phase = "idle" <=> conn[b].phase = "idle"
                        /\ conn'[b].run = conn[b].run
  BY <1>2, <1>4
<1>6. PanelShown'
  BY <1>2, <1>5, NamedAskers DEF PanelShown
<1>7. ASSUME NEW b \in Ends PROVE TabAsked(b, kept)'
  <2>0. TabAsked(b, kept) /\ b \in Askers
    BY EndAskers
  <2>1. Queued \subseteq Queued'
    <3>1. CASE events' = events
      BY <3>1 DEF Queued
    <3>2. ASSUME NEW changed \in BOOLEAN, Posts(a, changed)
          PROVE  Queued \subseteq Queued'
      BY <1>1, <3>2, QueueGrows DEF Posts
    <3> QED BY <1>2, <3>1, <3>2 DEF ThreadMove
  <2>2. CASE b # a
    <3>1. b \in Addressee => b \in Addressee'
      BY <1>2, <1>3, <1>5, NamedAskers, SameAddressee
    <3> QED BY <1>2, <1>3, <2>0, <2>1, <2>2, <3>1, OtherTab
  <2>3. CASE b = a
    <3>1. b.id \notin open' => conn'[b].stop
      BY <1>2, <1>3, <1>4, <2>0, <2>3 DEF TabAsked
    <3>2. CASE conn'[a].phase = "waiting" /\ conn'[a].awaiting = TRUE /\ Posts(a, FALSE)
      <4>0. PICK new : new = [question |-> Current(a)', changed |-> FALSE]
        OBVIOUS
      <4>1. Queued' = Queued \cup {new} /\ new.question = Current(a)'
        BY <1>1, <3>2, <4>0, QueueGrows DEF Posts
      <4>2. NotLost(b)'
        BY <2>3, <4>1 DEF NotLost
      <4> QED BY <2>3, <3>1, <3>2, <4>2 DEF TabAsked
    <3>3. CASE conn'[a].phase # "waiting"
      BY <2>3, <3>1, <3>3 DEF TabAsked, NotLost
    <3> QED BY <1>2, <3>2, <3>3 DEF ThreadMove
  <2> QED BY <2>2, <2>3
<1> QED BY <1>1, <1>6, <1>7

\* Starting a tab replaces its panel; while the dialog shows a panel, that
\* panel is not started for the first time.
LEMMA StartTab ==
    ASSUME NEW kept, TabInv(kept), NEW a \in Askers, Start(a)
    PROVE  TabInv(kept)'
<1> USE DEF TabInv
<1>1. TypeOK /\ HostInv'
  BY StartKeeps DEF HostInv
<1>2. Queued' = Queued /\ open' = open
  BY DEF Start, Queued
<1>3. prompt' = prompt \/ (~prompt'.visible /\ prompt.rule # Nobody)
  <2>1. a.kind = "rule" => a.id # Nobody
    BY AskerKinds
  <2> QED BY <2>1, NoPromptType DEF Start, ClearedIf
<1>4. ASSUME NEW b \in Askers
      PROVE  \/ b = a /\ conn'[b].phase = "connecting" /\ conn'[b].run = conn[b].run + 1
             \/ /\ b # a /\ a.kind = "ssh" /\ b = Panel(a.id)
                /\ conn'[b].phase = "idle" /\ conn'[b].run = conn[b].run
             \/ b # a /\ conn'[b] = conn[b]
  <2>1. CASE b = a
    <3>1. conn'[b] = [NewConnection EXCEPT !.phase = "connecting", !.run = conn[b].run + 1]
      BY <2>1 DEF Start, Started
    <3> QED BY <2>1, <3>1 DEF NewConnection
  <2>2. CASE b # a /\ a.kind = "ssh" /\ b = Panel(a.id)
    <3>1. conn'[b] = [NewConnection EXCEPT !.run = conn[b].run]
      BY <2>2 DEF Start, Replaced
    <3> QED BY <2>2, <3>1 DEF NewConnection
  <2>3. CASE b # a /\ ~(a.kind = "ssh" /\ b = Panel(a.id))
    BY <2>3 DEF Start
  <2> QED BY <2>1, <2>2, <2>3
<1>5. \A b \in Askers : conn[b].run \in Nat
  BY <1>1, ConnectionFields DEF TypeOK
<1>6. PanelShown'
  <2> SUFFICES ASSUME prompt'.visible, prompt'.forSftp, prompt'.tab \in Panels
               PROVE  conn'[Panel(prompt'.tab)].run # 0
    BY DEF PanelShown
  <2>1. prompt' = prompt /\ conn[Panel(prompt.tab)].run # 0
    BY <1>3 DEF PanelShown
  <2>2. Panel(prompt.tab) \in Askers
    BY <2>1, NamedAskers
  <2> QED BY <1>4, <1>5, <2>1, <2>2
<1>7. ASSUME NEW b \in Ends PROVE TabAsked(b, kept)'
  <2>0. TabAsked(b, kept) /\ b \in Askers /\ b.kind \in {"ssh", "sftp"}
        /\ (b.kind = "sftp" => b = Panel(b.id))
    BY EndAskers
  <2>1. CASE b = a
    <3>1. conn'[b].phase = "connecting" /\ b.id \in open'
      <4>1. conn'[b].phase = "connecting"
        BY <1>4, <2>0, <2>1
      <4> QED BY <1>2, <2>0, <2>1, <4>1 DEF Start, MayStart
    <3> QED BY <3>1 DEF TabAsked, NotLost
  <2>2. CASE b # a /\ conn'[b].phase = "idle"
    BY <2>2 DEF TabAsked, NotLost
  <2>3. CASE b # a /\ conn'[b] = conn[b]
    <3>1. ASSUME b \in Addressee, prompt.visible
          PROVE  b \in Addressee' /\ prompt'.visible
      <4>1. prompt' = prompt
        BY <1>3, <3>1, EndAddressee
      <4>2. ASSUME b.id \in Panels, prompt.forSftp
            PROVE  conn'[Panel(b.id)].phase = "idle" <=> conn[Panel(b.id)].phase = "idle"
        <5>1. prompt.tab = b.id /\ Panel(b.id) \in Askers
          BY <3>1, <4>2, EndAddressee, NamedAskers
        <5>2. conn[Panel(b.id)].run # 0
          BY <3>1, <4>2, <5>1 DEF PanelShown
        <5>3. a # Panel(b.id)
          BY <3>1, <5>2 DEF Start, Uncovered, Panel
        <5>4. CASE conn'[Panel(b.id)] = conn[Panel(b.id)]
          BY <5>4
        <5>5. CASE a.kind = "ssh" /\ Panel(b.id) = Panel(a.id)
          <6>1. b.id = a.id /\ a = [kind |-> "ssh", id |-> a.id]
            BY <5>5, AskerKinds DEF Panel
          <6>2. b.kind = "sftp"
            BY <2>3, <6>1, EndAskers
          <6> QED BY <2>0, <2>3, <6>2
        <5> QED BY <1>4, <5>1, <5>3, <5>4, <5>5
      <4> QED BY <1>2, <3>1, <4>1, <4>2, SameAddressee
    <3> QED BY <1>2, <2>0, <2>3, <3>1, OtherTab
  <2> QED BY <1>4, <2>0, <2>1, <2>2, <2>3
<1> QED BY <1>1, <1>6, <1>7

\* A panel is restarted only while no dialog is up.
LEMMA RestartTab ==
    ASSUME NEW kept, TabInv(kept), NEW t \in Panels, RestartPanel(t)
    PROVE  TabInv(kept)'
<1> USE DEF TabInv
<1>1. TypeOK /\ HostInv'
  BY NamedAskers, StartKeeps DEF HostInv
<1>2. Queued' = Queued /\ open' = open /\ ~prompt.visible /\ prompt' = prompt /\ t \in open
  BY DEF RestartPanel, Queued
<1>3. ASSUME NEW b \in Ends PROVE TabAsked(b, kept)'
  <2>0. TabAsked(b, kept) /\ b \in Askers /\ b = [kind |-> b.kind, id |-> b.id]
    BY EndAskers
  <2>1. CASE b = Panel(t)
    <3>1. conn'[b] = [NewConnection EXCEPT !.phase = "connecting", !.run = conn[b].run + 1]
      BY <1>1, <2>0, <2>1 DEF RestartPanel, Started, TypeOK
    <3>2. conn'[b].phase = "connecting" /\ b.id = t
      BY <2>1, <3>1 DEF NewConnection, Panel
    <3> QED BY <1>2, <3>2 DEF TabAsked, NotLost
  <2>2. CASE b # Panel(t)
    <3>1. conn'[b] = conn[b]
      BY <2>0, <2>2 DEF RestartPanel
    <3> QED BY <1>2, <2>0, <3>1, OtherTab
  <2> QED BY <2>1, <2>2
<1> QED BY <1>1, <1>2, <1>3 DEF PanelShown

\* The session the dialog answers gets the answer, unless it has one.
LEMMA AnswerTab ==
    ASSUME NEW kept, TabInv(kept), NEW value \in {"accept", "reject"}, UserAnswers(value)
    PROVE  TabInv(kept)'
<1> USE DEF TabInv
<1>1. TypeOK /\ HostInv'
  BY AnswerKeeps DEF HostInv
<1>2. Queued' = Queued /\ open' = open /\ prompt.visible /\ ~prompt'.visible
  BY NoPromptType DEF UserAnswers, Queued
<1>3. ASSUME NEW b \in Ends PROVE TabAsked(b, kept)'
  <2>0. /\ TabAsked(b, kept) /\ b \in Askers /\ b.kind \in {"ssh", "sftp"}
        /\ conn[b] = [f \in ConnectionParts |-> conn[b][f]]
        /\ conn \in [Askers -> Connections]
    BY <1>1, EndAskers, ConnectionFields DEF TypeOK
  <2>1. CASE b \in Addressee /\ Takes(b)
    <3>1. conn' = Resolve(b, Answer(value, prompt.shown))
      BY <2>1, EndAddressee DEF UserAnswers
    <3>2. conn'[b] = [conn[b] EXCEPT !.decision = Answer(value, prompt.shown)]
      BY <2>0, <2>1, <3>1 DEF Resolve
    <3>3. /\ conn'[b].phase = conn[b].phase /\ conn'[b].awaiting = conn[b].awaiting
          /\ conn'[b].stop = conn[b].stop
          /\ conn'[b].decision = Answer(value, prompt.shown)
      BY <2>0, <3>2 DEF ConnectionParts
    <3>4. Answer(value, prompt.shown) # NoAnswer
      BY DEF Answer, NoAnswer
    <3> QED BY <1>2, <2>0, <3>3, <3>4 DEF TabAsked, NotLost
  <2>2. CASE b \in Addressee /\ ~Takes(b)
    <3>1. conn' = Resolve(b, Answer(value, prompt.shown))
      BY <2>2, EndAddressee DEF UserAnswers
    <3>2. conn'[b] = conn[b]
      BY <2>2, <3>1 DEF Resolve
    <3>3. conn[b].phase = "waiting" => conn[b].decision # NoAnswer
      BY <2>0, <2>2 DEF Takes, TabAsked
    <3> QED BY <1>2, <2>0, <3>2, <3>3 DEF TabAsked, NotLost
  <2>3. CASE b \notin Addressee
    <3>1. conn'[b] = conn[b]
      <4>1. CASE Addressee = {}
        BY <4>1 DEF UserAnswers
      <4>2. CASE Addressee # {}
        <5>1. PICK a \in Addressee : conn' = Resolve(a, Answer(value, prompt.shown))
          BY <4>2 DEF UserAnswers
        <5> QED BY <2>0, <2>3, <5>1 DEF Resolve
      <4> QED BY <4>1, <4>2
    <3> QED BY <1>2, <2>0, <2>3, <3>1, OtherTab
  <2> QED BY <2>1, <2>2, <2>3
<1> QED BY <1>1, <1>2, <1>3 DEF PanelShown

\* A tab's question that finds no dialog is shown, if its tab is open and its
\* panel not replaced; a question of another takes no dialog from a tab unless
\* it is a tab's too.
LEMMA DeliverTab ==
    ASSUME NEW kept, TabInv(kept), Deliver, TakesDialogOver => kept = {}
    PROVE  TabInv(kept)'
<1> USE DEF TabInv
<1>1. TypeOK /\ HostInv'
  BY DeliverKeeps DEF HostInv
<1>2. PICK e : e = Head(events)
  OBVIOUS
<1>3. /\ Queued \subseteq Queued' \cup {e} /\ e \in Queued /\ open' = open
      /\ e.question.asker \in Askers /\ e.changed \in BOOLEAN
  BY <1>1, <1>2, QueueShrinks, Taken DEF Deliver
<1>4. \/ ~Heard(e.question) /\ UNCHANGED <<conn, prompt>>
      \/ /\ Heard(e.question) /\ e.question.asker.kind \in {"ssh", "sftp"}
         /\ ShowForTab(e.question.asker, e.question, e.changed)
      \/ /\ Heard(e.question) /\ e.question.asker.kind \notin {"ssh", "sftp"}
         /\ ShowInBackground(e.question.asker, e.question, e.changed)
  BY <1>2 DEF Deliver
<1>5. prompt.visible /\ e.question.asker.kind \in {"ssh", "sftp"} => kept = {}
  BY <1>2 DEF TakesDialogOver
<1>6. ~prompt.visible => /\ prompt.rule = Nobody /\ prompt.transfer = Nobody
                         /\ prompt.forSftp = FALSE
  BY DEF HostInv, DialogHasOwner, NoPrompt
<1>7. ASSUME NEW b \in Ends PROVE conn'[b] = conn[b]
  <2>1. b \in Askers /\ b.kind \in {"ssh", "sftp"} /\ conn \in [Askers -> Connections]
    BY <1>1, EndAskers DEF TypeOK
  <2>2. CASE conn' = conn
    BY <2>2
  <2>3. CASE /\ e.question.asker.kind \notin {"ssh", "sftp"}
             /\ conn' = Resolve(e.question.asker, Answer("reject", NoQuestion))
    <3>1. PICK a : a = e.question.asker
      OBVIOUS
    <3>2. a # b
      BY <2>1, <2>3, <3>1
    <3> QED BY <2>1, <2>3, <3>1, <3>2 DEF Resolve
  <2> QED BY <1>4, <2>2, <2>3 DEF ShowForTab, ShowInBackground
<1>8. \A t \in Panels : Panel(t) \in Ends
  BY PromptAssumption DEF Ends, Asker, Panel
<1>9. PanelShown'
  <2>1. CASE prompt' = prompt
    BY <1>7, <1>8, <2>1 DEF PanelShown
  <2>2. CASE /\ Heard(e.question) /\ e.question.asker.kind \in {"ssh", "sftp"}
             /\ ShowForTab(e.question.asker, e.question, e.changed)
    <3>1. /\ prompt'.tab = e.question.asker.id
          /\ prompt'.forSftp <=> e.question.asker.kind = "sftp"
      BY <1>1, <2>2, DialogFields DEF ShowForTab, DialogParts
    <3>2. e.question.asker.kind = "sftp" => e.question.asker = Panel(e.question.asker.id)
      BY <1>3, AskerKinds DEF Panel
    <3>3. e.question.asker.kind = "sftp" => conn[e.question.asker].run \in 1 .. Runs
      BY <1>3, <2>2 DEF Heard, HostInv, StartedHasRun
    <3>4. e.question.asker.kind = "sftp" => conn[e.question.asker].run # 0
      BY <3>3
    <3> QED BY <1>7, <1>8, <3>1, <3>2, <3>4 DEF PanelShown
  <2>3. CASE ~prompt.visible /\ ShowInBackground(e.question.asker, e.question, e.changed)
    <3>1. prompt'.forSftp = FALSE
      BY <1>1, <1>6, <2>3, DialogFields DEF ShowInBackground, DialogParts
    <3> QED BY <3>1 DEF PanelShown
  <2> QED BY <1>4, <2>1, <2>2, <2>3 DEF ShowInBackground
<1>10. ASSUME NEW b \in Ends PROVE TabAsked(b, kept)'
  <2>0. /\ TabAsked(b, kept) /\ b \in Askers /\ b.kind \in {"ssh", "sftp"}
        /\ conn'[b] = conn[b] /\ b = [kind |-> b.kind, id |-> b.id]
    BY <1>7, EndAskers
  <2>1. Current(b).asker = b /\ Current(b)' = Current(b)
    BY <2>0 DEF Current
  <2>2. CASE kept = {}
    BY <1>3, <2>0, <2>2 DEF TabAsked
  <2>3. CASE kept # {} /\ e.question # Current(b)
    <3>1. \A x \in Queued : x.question = Current(b) => x \in Queued'
      BY <1>3, <2>3
    <3>2. prompt.visible => prompt' = prompt
      BY <1>4, <1>5, <2>3 DEF ShowInBackground
    <3>3. b \in Addressee /\ prompt.visible => b \in Addressee' /\ prompt'.visible
      BY <1>3, <1>7, <1>8, <3>2, SameAddressee
    <3> QED BY <1>3, <2>0, <3>1, <3>3, OtherTab
  <2>4. CASE kept # {} /\ e.question = Current(b)
    <3>1. ~prompt.visible /\ e.question.run = conn[b].run
      BY <1>5, <2>0, <2>1, <2>4 DEF Current
    <3>2. CASE ~Heard(e.question)
      <4>1. conn[b].phase = "idle" \/ conn[b].stop
        BY <2>0, <2>1, <2>4, <3>1, <3>2 DEF Heard, TabAsked
      <4> QED BY <1>3, <2>0, <4>1 DEF TabAsked, NotLost
    <3>3. CASE Heard(e.question)
      <4>1. ShowForTab(b, e.question, e.changed)
        BY <1>4, <2>0, <2>1, <2>4, <3>3
      <4>2. /\ prompt'.visible /\ prompt'.rule = Nobody /\ prompt'.transfer = Nobody
            /\ prompt'.tab = b.id /\ (prompt'.forSftp <=> b.kind = "sftp")
        BY <1>1, <1>6, <3>1, <4>1, DialogFields DEF ShowForTab, DialogParts
      <4>3. b \in Addressee'
        <5>1. CASE b.kind = "sftp"
          <6>1. b.id \in Panels /\ b = Panel(b.id) /\ conn'[b].phase # "idle"
            BY <2>0, <2>1, <2>4, <3>3, <5>1, EndAskers DEF Heard
          <6>2. Addressee' = {Panel(prompt'.tab)}
            BY <4>2, <5>1, <6>1 DEF Addressee
          <6> QED BY <4>2, <6>1, <6>2
        <5>2. CASE b.kind = "ssh"
          <6>1. b.id \in open'
            BY <1>3, <2>1, <2>4, <3>3, <5>2 DEF Heard
          <6>2. Addressee' = {[kind |-> "ssh", id |-> prompt'.tab]}
            BY <4>2, <5>2, <6>1 DEF Addressee
          <6> QED BY <2>0, <4>2, <5>2, <6>2
        <5> QED BY <2>0, <5>1, <5>2
      <4> QED BY <1>3, <2>0, <4>2, <4>3 DEF TabAsked, NotLost
    <3> QED BY <3>2, <3>3
  <2> QED BY <2>2, <2>3, <2>4
<1> QED BY <1>1, <1>9, <1>10

\* A closed tab stops its own sessions and hides its own dialog.
LEMMA ClosedTab ==
    ASSUME NEW kept, TabInv(kept), NEW t \in Tabs, CloseTab(t)
    PROVE  TabInv(kept)'
<1> USE DEF TabInv
<1>1. TypeOK /\ HostInv'
  BY CloseKeeps DEF HostInv
<1>2. /\ Queued' = Queued /\ open' = open \ {t}
      /\ prompt' = prompt \/ (prompt.tab = t /\ ~prompt'.visible)
  BY NoPromptType DEF CloseTab, ClearedIf, Queued
<1>3. ASSUME NEW b \in Askers
      PROVE  /\ conn'[b].phase = conn[b].phase /\ conn'[b].run = conn[b].run
             /\ conn'[b].awaiting = conn[b].awaiting
             /\ IF b \in OfTab(t) THEN conn'[b].stop ELSE conn'[b] = conn[b]
  <2>1. conn[b] = [f \in ConnectionParts |-> conn[b][f]]
    BY <1>1, ConnectionFields DEF TypeOK
  <2>2. conn'[b] = IF b \in OfTab(t) THEN [conn[b] EXCEPT !.stop = TRUE] ELSE conn[b]
    BY DEF CloseTab
  <2> QED BY <2>1, <2>2 DEF ConnectionParts
<1>4. PanelShown'
  BY <1>2, <1>3, NamedAskers DEF PanelShown
<1>5. ASSUME NEW b \in Ends PROVE TabAsked(b, kept)'
  <2>0. TabAsked(b, kept) /\ b \in Askers /\ b.kind \in {"ssh", "sftp"}
    BY EndAskers
  <2>1. CASE b.id = t
    <3>1. conn'[b].stop
      BY <1>3, <2>0, <2>1 DEF OfTab
    <3> QED BY <1>3, <2>0, <3>1 DEF TabAsked, NotLost
  <2>2. CASE b.id # t
    <3>1. conn'[b] = conn[b]
      BY <1>3, <2>0, <2>2 DEF OfTab
    <3>2. b \in Addressee => prompt' = prompt
      BY <1>2, <2>2, EndAddressee
    <3>3. b \in Addressee => b \in Addressee'
      BY <1>2, <1>3, <2>2, <3>2, NamedAskers, SameAddressee
    <3> QED BY <1>2, <2>0, <2>2, <3>1, <3>2, <3>3, OtherTab
  <2> QED BY <2>1, <2>2
<1> QED BY <1>1, <1>4, <1>5

\* The end of the shutdown tells every session to stop.
LEMMA QuitTab ==
    ASSUME NEW kept, TabInv(kept), QuitRest
    PROVE  TabInv(kept)'
<1> USE DEF TabInv
<1>1. TypeOK /\ HostInv'
  BY CloseKeeps DEF HostInv
<1>2. Queued' = Queued /\ open' = open /\ ~prompt'.visible
  BY NoPromptType DEF QuitRest, Queued
<1>3. ASSUME NEW b \in Ends PROVE TabAsked(b, kept)'
  <2>0. /\ TabAsked(b, kept) /\ b \in Askers
        /\ conn[b] = [f \in ConnectionParts |-> conn[b][f]]
    BY <1>1, EndAskers, ConnectionFields DEF TypeOK
  <2>1. conn'[b] = [conn[b] EXCEPT !.stop = TRUE]
    BY <2>0 DEF QuitRest
  <2>2. /\ conn'[b].phase = conn[b].phase /\ conn'[b].awaiting = conn[b].awaiting
        /\ conn'[b].stop
    BY <2>0, <2>1 DEF ConnectionParts
  <2> QED BY <2>0, <2>2 DEF TabAsked, NotLost
<1> QED BY <1>1, <1>2, <1>3 DEF PanelShown

LEMMA TabNext ==
    ASSUME NEW kept, TabInv(kept), [Next]_vars, TakesDialogOver => kept = {}
    PROVE  TabInv(kept)'
<1>0. /\ HostInv /\ HostInv' /\ TypeOK
      /\ \A r \in Rules : r # Nobody
  BY NextKeeps, PromptAssumption DEF TabInv, HostInv
<1>1. CASE Quit \/ UNCHANGED vars
  BY <1>0, <1>1, RestTab DEF Quit, vars
<1>2. CASE \E a \in Askers : Thread(a)
  BY <1>2, ThreadTab
<1>3. CASE Deliver
  BY <1>3, DeliverTab
<1>4. CASE Answering
  BY <1>4, AnswerTab DEF Answering
<1>5. ASSUME NEW a \in Askers, Start(a) \/ PauseTransfer(a)
      PROVE  TabInv(kept)'
  <2>1. CASE Start(a)
    BY <2>1, StartTab
  <2>2. CASE PauseTransfer(a)
    <3>1. \A b \in Ends : conn'[b] = conn[b]
      BY <1>0, <2>2, EndAskers DEF PauseTransfer, TypeOK
    <3> QED BY <1>0, <2>2, <3>1, RestTab DEF PauseTransfer
  <2> QED BY <1>5, <2>1, <2>2
<1>6. CASE \E t \in Panels : RestartPanel(t)
  BY <1>6, RestartTab
<1>7. CASE \E t \in Tabs : CloseTab(t)
  BY <1>7, ClosedTab
<1>8. ASSUME NEW r \in Rules, StopRule(r) \/ QuitRule(r) \/ RuleJoined(r)
      PROVE  TabInv(kept)'
  <2> DEFINE a == [kind |-> "rule", id |-> r]
             answered == Resolve(a, Answer("reject", NoQuestion))
  <2>0. \A b \in Ends : b \in Askers /\ b # a
    BY EndAskers
  <2>1. \A b \in Ends : conn'[b] = conn[b]
    <3>1. CASE RuleJoined(r)
      BY <1>0, <2>0, <3>1 DEF RuleJoined, TypeOK
    <3>2. CASE StopRule(r) \/ QuitRule(r)
      <4>1. conn' = [answered EXCEPT ![a].stop = TRUE]
        BY <3>2 DEF StopRule, QuitRule, StopWorker
      <4>2. a \in Askers /\ answered \in [Askers -> Connections]
        BY <1>0, NamedAskers, AnswerTypes, ResolveTypes DEF HostInv
      <4>3. \A b \in Ends : answered[b] = conn[b]
        BY <2>0 DEF Resolve
      <4> HIDE DEF a, answered
      <4> QED BY <2>0, <4>1, <4>2, <4>3
    <3> QED BY <1>8, <3>1, <3>2
  <2>2. /\ events' = events /\ open' = open
        /\ prompt' = prompt \/ (prompt.rule # Nobody /\ ~prompt'.visible)
    BY <1>0, <1>8, NoPromptType DEF StopRule, QuitRule, RuleJoined, ClearedIf
  <2> QED BY <1>0, <2>1, <2>2, RestTab
<1>9. CASE QuitRest
  BY <1>9, QuitTab
<1> QED BY <1>1, <1>2, <1>3, <1>4, <1>5, <1>6, <1>7, <1>8, <1>9 DEF Next, User, Shutdown

LEMMA TabInit == ASSUME NEW kept PROVE Init => TabInv(kept)
<1> SUFFICES ASSUME Init PROVE TabInv(kept)
  OBVIOUS
<1>1. HostInv /\ ~prompt.visible
  BY InitHolds, NoPromptType DEF Init
<1>2. ASSUME NEW b \in Ends PROVE TabAsked(b, kept)
  <2>1. conn[b].phase = "idle"
    BY EndAskers DEF Init, NewConnection
  <2> QED BY <2>1 DEF TabAsked, NotLost
<1> QED BY <1>1, <1>2 DEF TabInv, PanelShown

\* Whoever asks, closes, restarts, stops or answers, a waiting connection
\* loses its question only with a tab that closes after it took the dialog
\* over (a transfer, a rule) or to a tab that takes the dialog over (a tab, a
\* panel).
THEOREM QuestionKeptHolds == Spec => QuestionKept
<1> DEFINE I == AskedInv({}) /\ TabInv({})
<1>1. I /\ [Next]_vars => I'
  BY AskedNext, TabNext
<1>2. Init => I
  BY AskedInit, TabInit
<1>3. I /\ [Next]_vars =>
        [\A a \in Askers :
            NotLost(a) => \/ NotLost(a)'
                          \/ IF a \in Background THEN ClosesWithDialog
                                                  ELSE TakesDialogOver]_vars
  <2> SUFFICES ASSUME I, [Next]_vars, NEW a \in Askers, NotLost(a)
               PROVE  \/ NotLost(a)'
                      \/ IF a \in Background THEN ClosesWithDialog ELSE TakesDialogOver
    OBVIOUS
  <2>1. CASE a \in Background
    <3>1. AskedInv({a})
      BY DEF AskedInv, Asked
    <3>2. ~ClosesWithDialog => AskedInv({a})'
      BY <3>1, AskedNext
    <3>3. AskedInv({a})' => NotLost(a)'
      BY <2>1 DEF AskedInv, Asked
    <3> QED BY <2>1, <3>2, <3>3
  <2>2. CASE a \notin Background
    <3>0. a \in Ends
      BY <2>2 DEF Askers, Background, Ends
    <3>1. TabInv({a})
      BY DEF TabInv, TabAsked
    <3>2. ~TakesDialogOver => TabInv({a})'
      BY <3>1, TabNext
    <3>3. TabInv({a})' => NotLost(a)'
      BY <3>0 DEF TabInv, TabAsked
    <3> QED BY <2>2, <3>2, <3>3
  <2> QED BY <2>1, <2>2
<1> QED BY <1>1, <1>2, <1>3, PTL DEF Spec, QuestionKept

-----------------------------------------------------------------------------
(***************************************************************************)
(* An acceptance answers the question that was on the screen.  Nothing     *)
(* compares the two when the answer is given: what makes them agree is     *)
(* that a transfer has at most one question between its thread and the     *)
(* user, and does not move while it has.                                   *)
(***************************************************************************)
Moving == Asker("transfer", Transfers)

\* A connection whose question has not been answered, or that has ended.
Pending(a) == (conn[a].phase = "waiting" /\ conn[a].decision = NoAnswer) \/ conn[a].phase = "ended"

OneQueued(a) ==
    \A i, j \in DOMAIN events :
        events[i].question.asker = a /\ events[j].question.asker = a => i = j

\* The question of a tab or panel.
OfTabs(q) == q.asker.kind \in {"ssh", "sftp"}

Posed(a) ==
    /\ OneQueued(a)
    /\ \A e \in Queued : e.question.asker = a => e.question = Current(a) /\ Pending(a)
    /\ prompt.visible /\ prompt.transfer = a.id
          => /\ \A e \in Queued : e.question.asker # a
             /\ Pending(a)
             /\ prompt.shown = Current(a) \/ OfTabs(prompt.shown)
    /\ conn[a].phase = "waiting" /\ conn[a].decision.value = "accept"
          => conn[a].decision.shown = Current(a) \/ OfTabs(conn[a].decision.shown)

PosedInv == HostInv /\ \A a \in Moving : Posed(a)

\* A transfer is a background connection.
LEMMA MovingAskers ==
    ASSUME NEW a \in Moving
    PROVE  /\ a \in Background /\ a \in Askers /\ a.kind = "transfer"
           /\ a.id # Nobody /\ a = [kind |-> a.kind, id |-> a.id]
<1>1. a \in Background /\ a \in Askers /\ a.kind = "transfer"
  BY DEF Moving, Background, Askers, Asker
<1> QED BY <1>1, AskerKinds

LEMMA OneQueuedGrows ==
    ASSUME TypeOK, NEW b, OneQueued(b), NEW e, events' = Append(events, e),
           e.question.asker = b => \A x \in Queued : x.question.asker # b
    PROVE  OneQueued(b)'
<1> DEFINE S == [question : Questions, changed : BOOLEAN]
<1>1. events \in Seq(S) BY DEF TypeOK
<1> HIDE DEF S
<1>2. Len(events) \in Nat /\ DOMAIN events = 1 .. Len(events)
  BY <1>1
<1>3. /\ DOMAIN events' = 1 .. (Len(events) + 1)
      /\ \A i \in 1 .. Len(events) : events'[i] = events[i]
      /\ events'[Len(events) + 1] = e
  BY <1>1, <1>2
<1>4. e.question.asker = b => \A i \in DOMAIN events : events[i].question.asker # b
  BY DEF Queued
<1>5. \A i \in DOMAIN events' : i \in DOMAIN events \/ i = Len(events) + 1
  BY <1>2, <1>3
<1>6. SUFFICES ASSUME NEW i \in DOMAIN events', NEW j \in DOMAIN events',
                      events'[i].question.asker = b, events'[j].question.asker = b
               PROVE  i = j
  BY DEF OneQueued
<1>7. CASE e.question.asker = b
  BY <1>2, <1>3, <1>4, <1>5, <1>6, <1>7
<1>8. CASE e.question.asker # b
  <2>1. i \in DOMAIN events /\ j \in DOMAIN events
    BY <1>3, <1>5, <1>6, <1>8
  <2>2. events[i].question.asker = b /\ events[j].question.asker = b
    BY <1>2, <1>3, <1>6, <2>1
  <2> QED BY <2>1, <2>2 DEF OneQueued
<1> QED BY <1>7, <1>8

LEMMA OneQueuedShrinks ==
    ASSUME TypeOK, NEW b, OneQueued(b), events # << >>, events' = Tail(events)
    PROVE  /\ OneQueued(b)'
           /\ Head(events).question.asker = b => \A x \in Queued' : x.question.asker # b
<1> DEFINE S == [question : Questions, changed : BOOLEAN]
<1>1. events \in Seq(S) BY DEF TypeOK
<1> HIDE DEF S
<1>2. Len(events) \in Nat \ {0} /\ DOMAIN events = 1 .. Len(events) /\ Head(events) = events[1]
  BY <1>1
<1>3. /\ DOMAIN events' = 1 .. (Len(events) - 1)
      /\ \A i \in 1 .. (Len(events) - 1) : events'[i] = events[i + 1]
  BY <1>1, <1>2
<1>4. \A i \in DOMAIN events' : /\ i \in Int /\ i + 1 \in DOMAIN events /\ i + 1 # 1
                                /\ events'[i] = events[i + 1]
  BY <1>2, <1>3
<1>5. 1 \in DOMAIN events
  BY <1>2
<1>6. OneQueued(b)'
  <2> SUFFICES ASSUME NEW i \in DOMAIN events', NEW j \in DOMAIN events',
                      events'[i].question.asker = b, events'[j].question.asker = b
               PROVE  i = j
    BY DEF OneQueued
  <2>1. i + 1 = j + 1
    BY <1>4 DEF OneQueued
  <2> QED BY <1>4, <2>1
<1>7. ASSUME Head(events).question.asker = b
      PROVE  \A i \in DOMAIN events' : events'[i].question.asker # b
  BY <1>2, <1>4, <1>5, <1>7 DEF OneQueued
<1> QED BY <1>6, <1>7 DEF Queued

\* A step that leaves a transfer's conversation with the user alone.
LEMMA OtherPosed ==
    ASSUME NEW b, Posed(b),
           conn'[b].phase = conn[b].phase, conn'[b].run = conn[b].run,
           conn'[b].hop = conn[b].hop, conn'[b].decision = conn[b].decision,
           OneQueued(b)', \A e \in Queued' : e.question.asker = b => e \in Queued,
           \/ prompt' = prompt \/ ~prompt'.visible \/ prompt'.transfer # b.id
           \/ prompt.visible /\ prompt'.transfer = prompt.transfer /\ OfTabs(prompt'.shown)
    PROVE  Posed(b)'
<1>1. Current(b)' = Current(b)
  BY DEF Current
<1>2. Pending(b)' <=> Pending(b)
  BY DEF Pending
<1>3. CASE prompt' = prompt \/ ~prompt'.visible \/ prompt'.transfer # b.id
  BY <1>1, <1>2, <1>3 DEF Posed, OfTabs
<1>4. CASE prompt.visible /\ prompt'.transfer = prompt.transfer /\ OfTabs(prompt'.shown)
  BY <1>1, <1>2, <1>4 DEF Posed, OfTabs
<1> QED BY <1>3, <1>4

LEMMA SameQueue ==
    ASSUME events' = events
    PROVE  Queued' = Queued /\ \A b : OneQueued(b)' <=> OneQueued(b)
  BY DEF Queued, OneQueued

LEMMA ThreadPosed ==
    ASSUME PosedInv, NEW a \in Askers, Thread(a)
    PROVE  PosedInv'
<1> USE DEF PosedInv
<1>1. TypeOK /\ HostInv'
  BY ThreadKeeps DEF HostInv
<1>2. /\ prompt' = prompt
      /\ \A b \in Askers \ {a} : conn'[b] = conn[b]
      /\ conn'[a].run = conn[a].run
      /\ ThreadMove(a)
  BY <1>1, ThreadMoves
<1>3. Current(a)'.asker = a
  BY DEF Current
<1>4. ASSUME NEW b \in Moving, b # a
      PROVE  Posed(b)'
  <2>1. conn'[b] = conn[b] /\ Posed(b) /\ OneQueued(b)
    BY <1>2, <1>4, MovingAskers DEF Posed
  <2>2. /\ OneQueued(b)'
        /\ \A e \in Queued' : e.question.asker = b => e \in Queued
    <3>1. CASE events' = events
      BY <2>1, <3>1, SameQueue
    <3>2. ASSUME NEW changed \in BOOLEAN, Posts(a, changed)
          PROVE  /\ OneQueued(b)'
                 /\ \A e \in Queued' : e.question.asker = b => e \in Queued
      <4>1. PICK new : new = [question |-> Current(a)', changed |-> changed]
        OBVIOUS
      <4>2. events' = Append(events, new) /\ new.question.asker # b
        BY <1>3, <1>4, <3>2, <4>1 DEF Posts
      <4>3. OneQueued(b)'
        BY <1>1, <2>1, <4>2, OneQueuedGrows
      <4>4. Queued' = Queued \cup {new}
        BY <1>1, <4>2, QueueGrows
      <4> QED BY <4>2, <4>3, <4>4
    <3> QED BY <1>2, <3>1, <3>2 DEF ThreadMove
  <2> QED BY <1>2, <2>1, <2>2, OtherPosed
<1>5. ASSUME a \in Moving
      PROVE  Posed(a)'
  <2>0. Posed(a) /\ OneQueued(a)
    BY <1>5 DEF Posed
  <2>1. ASSUME NEW changed \in BOOLEAN, Posts(a, changed), conn[a].phase = "connecting",
               \/ conn'[a].phase = "waiting" /\ conn'[a].decision = NoAnswer
               \/ conn'[a].phase = "ended"
        PROVE  Posed(a)'
    <3>1. /\ \A e \in Queued : e.question.asker # a
          /\ ~(prompt.visible /\ prompt.transfer = a.id)
      BY <2>0, <2>1 DEF Posed, Pending
    <3>2. PICK new : new = [question |-> Current(a)', changed |-> changed]
      OBVIOUS
    <3>3. events' = Append(events, new) /\ new.question = Current(a)'
      BY <2>1, <3>2 DEF Posts
    <3>4. OneQueued(a)' /\ Queued' = Queued \cup {new}
      BY <1>1, <2>0, <3>1, <3>3, OneQueuedGrows, QueueGrows
    <3>5. Pending(a)'
      BY <2>1 DEF Pending
    <3>6. ~(conn'[a].phase = "waiting" /\ conn'[a].decision.value = "accept")
      BY <2>1 DEF NoAnswer
    <3> QED BY <1>2, <3>1, <3>3, <3>4, <3>5, <3>6 DEF Posed
  <2>2. CASE /\ events' = events /\ ~Pending(a) /\ conn'[a].phase # "waiting"
    <3>1. /\ \A e \in Queued : e.question.asker # a
          /\ ~(prompt.visible /\ prompt.transfer = a.id)
      BY <2>0, <2>2 DEF Posed
    <3> QED BY <1>2, <2>0, <2>2, <3>1, SameQueue DEF Posed
  <2>3. CASE /\ events' = events /\ conn'[a].phase = "ended" /\ conn'[a].hop = conn[a].hop
    <3>1. Current(a)' = Current(a) /\ Pending(a)'
      BY <1>2, <2>3 DEF Current, Pending
    <3> QED BY <1>2, <2>0, <2>3, <3>1, SameQueue DEF Posed
  <2> QED BY <1>2, <2>1, <2>2, <2>3 DEF ThreadMove, Pending
<1> QED BY <1>1, <1>4, <1>5

LEMMA StartPosed ==
    ASSUME PosedInv, NEW a \in Askers,
           Start(a) \/ PauseTransfer(a) \/ (\E t \in Panels : a = Panel(t) /\ RestartPanel(t))
    PROVE  PosedInv'
<1> USE DEF PosedInv
<1>1. TypeOK /\ HostInv'
  BY StartKeeps DEF HostInv
<1>2. events' = events /\ (prompt' = prompt \/ ~prompt'.visible)
  BY NoPromptType DEF Start, PauseTransfer, RestartPanel, ClearedIf
<1>3. ASSUME NEW b \in Moving
      PROVE  Posed(b)'
  <2>0. /\ Posed(b) /\ b \in Askers /\ b.kind = "transfer"
        /\ conn[b] = [f \in ConnectionParts |-> conn[b][f]]
        /\ conn \in [Askers -> Connections]
    BY <1>1, MovingAskers, ConnectionFields DEF TypeOK
  <2>1. CASE Start(a) /\ a = b
    <3>1. conn'[b] = [NewConnection EXCEPT !.phase = "connecting", !.run = conn[b].run + 1]
      BY <2>0, <2>1 DEF Start, Started
    <3>2. conn'[b].phase = "connecting"
      BY <3>1 DEF NewConnection
    <3>3. \A e \in Queued : e.question.asker # b
      <4>1. MayStart(a) /\ a.kind = "transfer"
        BY <2>0, <2>1 DEF Start
      <4>2. \A i \in 1 .. Len(events) : events[i].question.asker # b
        BY <2>1, <4>1 DEF MayStart
      <4>3. DOMAIN events = 1 .. Len(events)
        <5> DEFINE S == [question : Questions, changed : BOOLEAN]
        <5>1. events \in Seq(S) BY <1>1 DEF TypeOK
        <5> HIDE DEF S
        <5> QED BY <5>1
      <4> QED BY <4>2, <4>3 DEF Queued
    <3>4. ~(prompt.visible /\ prompt.transfer = b.id)
      <4> SUFFICES ASSUME prompt.visible, prompt.transfer = b.id PROVE FALSE
        OBVIOUS
      <4>1. conn[b].run = 0
        BY <2>0, <2>1 DEF Start, Uncovered
      <4>2. conn[b].phase # "idle"
        BY <2>0 DEF Posed, Pending
      <4> QED BY <2>0, <4>1, <4>2 DEF HostInv, StartedHasRun
    <3>5. prompt'.visible => prompt' = prompt
      BY <1>2
    <3> QED BY <1>2, <2>0, <3>2, <3>3, <3>4, <3>5, SameQueue DEF Posed
  <2>2. CASE ~(Start(a) /\ a = b)
    <3>1. conn'[b] = conn[b] \/ conn'[b] = [conn[b] EXCEPT !.stop = TRUE]
      <4>1. CASE Start(a)
        <5>1. b # Panel(a.id)
          BY <2>0 DEF Panel
        <5> QED BY <2>0, <2>2, <4>1, <5>1 DEF Start
      <4>2. CASE PauseTransfer(a)
        BY <2>0, <4>2 DEF PauseTransfer
      <4>3. CASE \E t \in Panels : a = Panel(t) /\ RestartPanel(t)
        BY <2>0, <4>3 DEF RestartPanel, Panel
      <4> QED BY <4>1, <4>2, <4>3
    <3>2. /\ conn'[b].phase = conn[b].phase /\ conn'[b].run = conn[b].run
          /\ conn'[b].hop = conn[b].hop /\ conn'[b].decision = conn[b].decision
      BY <2>0, <3>1 DEF ConnectionParts
    <3>3. OneQueued(b)' /\ Queued' = Queued
      BY <1>2, <2>0, SameQueue DEF Posed
    <3> QED BY <1>2, <2>0, <3>2, <3>3, OtherPosed
  <2> QED BY <2>1, <2>2
<1> QED BY <1>1, <1>3

\* The handler of a transfer's question shows the one it asks.
LEMMA DeliverPosed ==
    ASSUME PosedInv, Deliver
    PROVE  PosedInv'
<1> USE DEF PosedInv
<1>1. TypeOK /\ HostInv'
  BY DeliverKeeps DEF HostInv
<1>2. PICK e : e = Head(events)
  OBVIOUS
<1>3. /\ Queued' \subseteq Queued /\ Queued \subseteq Queued' \cup {e} /\ e \in Queued
      /\ e.question.asker \in Askers /\ e.changed \in BOOLEAN
  BY <1>1, <1>2, QueueShrinks, Taken DEF Deliver
<1>4. \/ ~Heard(e.question) /\ UNCHANGED <<conn, prompt>>
      \/ /\ Heard(e.question) /\ e.question.asker.kind \in {"ssh", "sftp"}
         /\ ShowForTab(e.question.asker, e.question, e.changed)
      \/ /\ Heard(e.question) /\ e.question.asker.kind \notin {"ssh", "sftp"}
         /\ ShowInBackground(e.question.asker, e.question, e.changed)
  BY <1>2 DEF Deliver
<1>5. ASSUME NEW b \in Moving
      PROVE  Posed(b)'
  <2>0. /\ Posed(b) /\ b \in Askers /\ b.kind = "transfer" /\ b.id # Nobody
        /\ conn[b] = [f \in ConnectionParts |-> conn[b][f]]
        /\ conn \in [Askers -> Connections]
    BY <1>1, MovingAskers, ConnectionFields DEF TypeOK
  <2>1. /\ OneQueued(b)'
        /\ e.question.asker = b => \A x \in Queued' : x.question.asker # b
    BY <1>1, <1>2, <2>0, OneQueuedShrinks DEF Deliver, Posed
  <2>2. ~prompt.visible => prompt.rule = Nobody /\ prompt.transfer = Nobody
    BY DEF HostInv, DialogHasOwner, NoPrompt
  <2>3. /\ e.question.asker.kind \in {"ssh", "sftp", "transfer", "rule"}
        /\ e.question.asker = [kind |-> e.question.asker.kind, id |-> e.question.asker.id]
    BY <1>3, AskerKinds
  <2>4. CASE e.question.asker # b
    <3>1. conn'[b] = conn[b]
      BY <1>4, <2>0, <2>4 DEF ShowForTab, ShowInBackground, Resolve
    <3>2. \/ prompt' = prompt \/ prompt'.transfer # b.id
          \/ prompt.visible /\ prompt'.transfer = prompt.transfer /\ OfTabs(prompt'.shown)
      <4>0. CASE /\ ShowForTab(e.question.asker, e.question, e.changed)
                 /\ e.question.asker.kind \in {"ssh", "sftp"}
        <5>1. prompt'.transfer = prompt.transfer /\ prompt'.shown = e.question
          BY <1>1, <4>0, DialogFields DEF ShowForTab, DialogParts
        <5> QED BY <2>0, <2>2, <4>0, <5>1 DEF OfTabs
      <4>1. CASE prompt' = prompt
        BY <4>1
      <4>2. CASE /\ ShowInBackground(e.question.asker, e.question, e.changed)
                 /\ ~prompt.visible /\ e.question.asker.kind = "transfer"
        <5>1. prompt'.transfer = e.question.asker.id
          BY <1>1, <4>2, DialogFields DEF ShowInBackground, DialogParts
        <5> QED BY <2>0, <2>3, <2>4, <4>2, <5>1, MovingAskers
      <4>3. CASE /\ ShowInBackground(e.question.asker, e.question, e.changed)
                 /\ ~prompt.visible /\ e.question.asker.kind = "rule"
        <5>1. prompt'.transfer = Nobody
          BY <1>1, <2>2, <4>3, DialogFields DEF ShowInBackground, DialogParts
        <5> QED BY <2>0, <5>1
      <4> QED BY <1>4, <2>3, <4>0, <4>1, <4>2, <4>3 DEF ShowInBackground
    <3> QED BY <1>3, <2>0, <2>1, <3>1, <3>2, OtherPosed
  <2>5. CASE e.question.asker = b
    <3>0. /\ e.question = Current(b) /\ Pending(b) /\ \A x \in Queued' : x.question.asker # b
          /\ ~(prompt.visible /\ prompt.transfer = b.id)
      BY <1>3, <2>0, <2>1, <2>5 DEF Posed
    <3>1. ShowInBackground(b, e.question, e.changed)
      <4>1. Heard(e.question)
        BY <2>0, <2>5 DEF Heard
      <4> QED BY <1>4, <2>0, <2>5, <4>1
    <3>2. CASE ~prompt.visible
      <4>1. conn'[b] = conn[b] /\ prompt'.shown = Current(b)
        BY <1>1, <2>0, <3>0, <3>1, <3>2, DialogFields DEF ShowInBackground, DialogParts
      <4>2. Current(b)' = Current(b) /\ (Pending(b)' <=> Pending(b))
        BY <4>1 DEF Current, Pending
      <4> QED BY <2>0, <2>1, <3>0, <4>1, <4>2 DEF Posed
    <3>3. CASE prompt.visible
      <4>1. prompt' = prompt /\ (conn' = conn \/ conn' = Resolve(b, Answer("reject", NoQuestion)))
        BY <3>1, <3>3 DEF ShowInBackground
      <4>2. \/ conn'[b] = conn[b]
            \/ conn'[b] = [conn[b] EXCEPT !.decision = Answer("reject", NoQuestion)]
        BY <2>0, <4>1 DEF Resolve
      <4>3. /\ conn'[b].phase = conn[b].phase /\ conn'[b].run = conn[b].run
            /\ conn'[b].hop = conn[b].hop
            /\ conn'[b].decision = conn[b].decision \/ conn'[b].decision.value = "reject"
        BY <2>0, <4>2 DEF ConnectionParts, Answer
      <4>4. Current(b)' = Current(b)
        BY <4>3 DEF Current
      <4> QED BY <2>0, <2>1, <3>0, <4>1, <4>3, <4>4 DEF Posed
    <3> QED BY <3>2, <3>3
  <2> QED BY <2>4, <2>5
<1> QED BY <1>1, <1>5

\* An answer to a transfer is given while its present question is shown.
LEMMA AnswerPosed ==
    ASSUME PosedInv, NEW value \in {"accept", "reject"}, UserAnswers(value)
    PROVE  PosedInv'
<1> USE DEF PosedInv
<1>1. TypeOK /\ HostInv'
  BY AnswerKeeps DEF HostInv
<1>2. events' = events /\ ~prompt'.visible /\ prompt.visible
  BY NoPromptType DEF UserAnswers
<1>3. ASSUME NEW b \in Moving
      PROVE  Posed(b)'
  <2>0. /\ Posed(b) /\ b \in Background /\ b \in Askers /\ b.kind = "transfer"
        /\ conn[b] = [f \in ConnectionParts |-> conn[b][f]]
        /\ conn \in [Askers -> Connections]
    BY <1>1, MovingAskers, ConnectionFields DEF TypeOK
  <2>1. OneQueued(b)' /\ Queued' = Queued
    BY <1>2, <2>0, SameQueue DEF Posed
  <2>2. CASE b \in Addressee
    <3>1. Addressee = {b} /\ prompt.transfer = b.id
      BY <1>1, <2>0, <2>2, BackgroundAddressee
    <3>2. conn' = Resolve(b, Answer(value, prompt.shown))
      BY <3>1 DEF UserAnswers
    <3>3. \/ conn'[b] = conn[b]
          \/ conn'[b] = [conn[b] EXCEPT !.decision = Answer(value, prompt.shown)]
      BY <2>0, <3>2 DEF Resolve
    <3>4. /\ conn'[b].phase = conn[b].phase /\ conn'[b].run = conn[b].run
          /\ conn'[b].hop = conn[b].hop
          /\ conn'[b].decision = conn[b].decision \/ conn'[b].decision.shown = prompt.shown
      BY <2>0, <3>3 DEF ConnectionParts, Answer
    <3>5. /\ prompt.shown = Current(b) \/ OfTabs(prompt.shown)
          /\ Current(b)' = Current(b)
          /\ \A e \in Queued : e.question.asker # b
      BY <1>2, <2>0, <3>1, <3>4 DEF Posed, Current
    <3> QED BY <1>2, <2>0, <2>1, <3>4, <3>5 DEF Posed, OfTabs
  <2>3. CASE b \notin Addressee
    <3>1. conn'[b] = conn[b]
      <4>1. CASE Addressee = {}
        BY <4>1 DEF UserAnswers
      <4>2. CASE Addressee # {}
        <5>1. PICK a \in Addressee : conn' = Resolve(a, Answer(value, prompt.shown))
          BY <4>2 DEF UserAnswers
        <5> QED BY <2>0, <2>3, <5>1 DEF Resolve
      <4> QED BY <4>1, <4>2
    <3> QED BY <1>2, <2>0, <2>1, <3>1, OtherPosed
  <2> QED BY <2>2, <2>3
<1> QED BY <1>1, <1>3

\* Stops, joins, closed tabs and the quit do not move a transfer.
LEMMA StopsPosed ==
    ASSUME PosedInv, QuitRest \/ Quit \/ UNCHANGED vars \/ (\E t \in Tabs : CloseTab(t))
                     \/ (\E r \in Rules : StopRule(r) \/ QuitRule(r) \/ RuleJoined(r))
    PROVE  PosedInv'
<1> USE DEF PosedInv
<1>1. /\ TypeOK
      /\ HostInv'
  BY NextKeeps DEF HostInv, Next, User, Shutdown
<1>2. events' = events /\ (prompt' = prompt \/ ~prompt'.visible)
  BY NoPromptType DEF QuitRest, Quit, vars, CloseTab, StopRule, QuitRule, RuleJoined, ClearedIf
<1>3. ASSUME NEW b \in Moving
      PROVE  Posed(b)'
  <2>0. /\ Posed(b) /\ b \in Askers /\ b.kind = "transfer"
        /\ conn[b] = [f \in ConnectionParts |-> conn[b][f]]
        /\ conn \in [Askers -> Connections]
    BY <1>1, MovingAskers, ConnectionFields DEF TypeOK
  <2>1. OneQueued(b)' /\ Queued' = Queued
    BY <1>2, <2>0, SameQueue DEF Posed
  <2>2. conn'[b] = conn[b] \/ conn'[b] = [conn[b] EXCEPT !.stop = TRUE]
    <3>1. CASE QuitRest
      BY <2>0, <3>1 DEF QuitRest
    <3>2. CASE Quit \/ UNCHANGED vars
      BY <3>2 DEF Quit, vars
    <3>3. ASSUME NEW r \in Rules, StopRule(r) \/ QuitRule(r)
          PROVE  conn'[b] = conn[b]
      <4> DEFINE a == [kind |-> "rule", id |-> r]
                 answered == Resolve(a, Answer("reject", NoQuestion))
      <4>1. a # b /\ a \in Askers
        BY <2>0, NamedAskers
      <4>2. conn' = [answered EXCEPT ![a].stop = TRUE]
        BY <3>3 DEF StopRule, QuitRule, StopWorker
      <4>3. answered \in [Askers -> Connections]
        BY <4>1, AnswerTypes, ResolveTypes DEF HostInv
      <4>4. answered[b] = conn[b]
        BY <2>0, <4>1 DEF Resolve
      <4> HIDE DEF a, answered
      <4> QED BY <2>0, <4>1, <4>2, <4>3, <4>4
    <3>4. ASSUME NEW r \in Rules, RuleJoined(r)
          PROVE  conn'[b] = conn[b]
      BY <2>0, <3>4 DEF RuleJoined
    <3>5. CASE \E t \in Tabs : CloseTab(t)
      BY <2>0, <3>5 DEF CloseTab, OfTab
    <3> QED BY <3>1, <3>2, <3>3, <3>4, <3>5
  <2>3. /\ conn'[b].phase = conn[b].phase /\ conn'[b].run = conn[b].run
        /\ conn'[b].hop = conn[b].hop /\ conn'[b].decision = conn[b].decision
    BY <2>0, <2>2 DEF ConnectionParts
  <2> QED BY <1>2, <2>0, <2>1, <2>3, OtherPosed
<1> QED BY <1>1, <1>3

LEMMA PosedNext ==
    ASSUME PosedInv, [Next]_vars
    PROVE  PosedInv'
<1>1. CASE \E t \in Tabs : CloseTab(t)
  BY <1>1, StopsPosed
<1>2. CASE \E a \in Askers : Thread(a)
  BY <1>2, ThreadPosed
<1>3. CASE Deliver
  BY <1>3, DeliverPosed
<1>4. CASE Answering
  BY <1>4, AnswerPosed DEF Answering
<1>5. CASE \E a \in Askers : Start(a) \/ PauseTransfer(a)
  BY <1>5, StartPosed
<1>6. CASE \E t \in Panels : RestartPanel(t)
  BY <1>6, NamedAskers, StartPosed
<1>7. CASE QuitRest \/ Quit \/ UNCHANGED vars
            \/ (\E r \in Rules : StopRule(r) \/ QuitRule(r) \/ RuleJoined(r))
  BY <1>7, StopsPosed
<1> QED BY <1>1, <1>2, <1>3, <1>4, <1>5, <1>6, <1>7 DEF Next, User, Shutdown

LEMMA PosedInit == Init => PosedInv
<1> SUFFICES ASSUME Init PROVE PosedInv
  OBVIOUS
<1>1. HostInv
  BY InitHolds
<1>2. ASSUME NEW b \in Moving PROVE Posed(b)
  <2>1. b \in Askers
    BY MovingAskers
  <2>2. conn[b].phase = "idle"
    BY <2>1 DEF Init, NewConnection
  <2>3. events = << >> /\ ~prompt.visible
    BY NoPromptType DEF Init
  <2> QED BY <2>2, <2>3 DEF Posed, OneQueued, Queued
<1> QED BY <1>1, <1>2 DEF PosedInv

\* Whatever tabs, transfers and rules ask at the same time, and however often
\* they are restarted, an acceptance a transfer acts on was given while its
\* present question was on the screen, or that of a tab which took its dialog
\* over.
THEOREM AcceptedAsShownHolds == Spec => []AcceptedAsShown
<1>1. PosedInv => AcceptedAsShown
  BY DEF PosedInv, Posed, AcceptedAsShown, Moving, OfTabs
<1>2. PosedInv /\ [Next]_vars => PosedInv'
  BY PosedNext
<1> QED BY PosedInit, <1>1, <1>2, PTL DEF Spec
=============================================================================
