--------------------------- MODULE HostKeyPrompts ---------------------------
(***************************************************************************)
(* One host key dialog for every SSH connection of the program.            *)
(*                                                                         *)
(* Terminal tabs, their SFTP panels, background transfers and forwarding   *)
(* rules each connect on a thread of their own.  A connection that meets   *)
(* an unknown key, once per hop of its jump route, posts a question to the *)
(* GUI thread and waits; AppController shows it in the one dialog and      *)
(* sends the user's answer to the connection named by the owner fields     *)
(* m_hostKeyTabId, m_hostKeyForSftp, m_hostKeyTransferTaskId and           *)
(* m_hostKeyForwardingRuleId.                                              *)
(***************************************************************************)
EXTENDS Integers, Sequences, FiniteSets

CONSTANTS
    Tabs,       \* open SSH terminal tabs
    Panels,     \* the tabs whose SFTP panel may connect
    Transfers,  \* background transfers
    Rules,      \* port forwarding rules
    Nobody,     \* no tab, transfer, rule or connection
    Runs,       \* bound: connections one asker makes
    Hops,       \* bound: unknown keys on one route
    Calls       \* what the user does besides connecting and answering

ASSUME PromptAssumption ==
    /\ Panels \subseteq Tabs
    /\ Runs \in Nat \ {0} /\ Hops \in Nat \ {0}
    /\ Nobody \notin Tabs \cup Transfers \cup Rules
    /\ Calls \subseteq {"closeTab", "restartPanel", "pause", "stopRule", "quit"}

VARIABLES
    conn,       \* per asker: its connection thread and its answer slot
    events,     \* queued questions and key-change warnings, oldest first
    prompt,     \* the dialog and its owner fields
    open,       \* m_tabs
    joining,    \* the rule whose worker the GUI thread is joining
    quit        \* "no", "stopping" after shutdown() began, "down" when the
                \* rules are joined and every other worker was told to stop

vars == <<conn, events, prompt, open, joining, quit>>

-----------------------------------------------------------------------------
Asker(kind, ids) == [kind : {kind}, id : ids]
Askers == Asker("ssh", Tabs) \cup Asker("sftp", Panels)
            \cup Asker("transfer", Transfers) \cup Asker("rule", Rules)

\* A question is the hop of a connection that asks it; the dialog shows its
\* endpoint, algorithm and fingerprint.
Questions  == [asker : Askers, run : 1 .. Runs, hop : 1 .. Hops]
NoQuestion == [asker |-> Nobody, run |-> 0, hop |-> 0]

\* An answer remembers what was on the screen when it was given; the
\* rejections the program makes itself were given without a question.
NoAnswer == [value |-> "none", shown |-> NoQuestion]
Answer(value, shown) == [value |-> value, shown |-> shown]
Answers == [value : {"none", "accept", "reject"}, shown : Questions \cup {NoQuestion}]

Phases == {"idle", "connecting", "waiting", "connected", "ended"}
Connections == [phase : Phases, run : 0 .. Runs, hop : 0 .. Hops,
                awaiting : BOOLEAN, decision : Answers, stop : BOOLEAN]
NewConnection == [phase |-> "idle", run |-> 0, hop |-> 0, awaiting |-> FALSE,
                  decision |-> NoAnswer, stop |-> FALSE]

NoPrompt == [visible |-> FALSE, changed |-> FALSE, tab |-> Nobody, forSftp |-> FALSE,
             transfer |-> Nobody, rule |-> Nobody, shown |-> NoQuestion]

Current(a) == [asker |-> a, run |-> conn[a].run, hop |-> conn[a].hop]

Init ==
    /\ conn = [a \in Askers |-> NewConnection]
    /\ events = << >>
    /\ prompt = NoPrompt
    /\ open = Tabs
    /\ joining = Nobody
    /\ quit = "no"

-----------------------------------------------------------------------------
(***************************************************************************)
(* The answer slots.  A session or a transfer takes an answer only while   *)
(* it waits, a terminal session only the first; a forwarding rule takes    *)
(* whatever it is given.                                                   *)
(***************************************************************************)
Takes(a) ==
    CASE a.kind = "ssh"  -> conn[a].awaiting /\ conn[a].decision = NoAnswer
      [] a.kind = "rule" -> conn[a].phase # "idle"
      [] OTHER           -> conn[a].awaiting

Resolve(a, answer) ==
    IF Takes(a) THEN [conn EXCEPT ![a].decision = answer] ELSE conn

\* The connection acceptHostKey() and rejectHostKey() answer to.
Panel(t) == [kind |-> "sftp", id |-> t]
Addressee ==
    IF prompt.rule # Nobody THEN {[kind |-> "rule", id |-> prompt.rule]}
    ELSE IF prompt.transfer # Nobody THEN {[kind |-> "transfer", id |-> prompt.transfer]}
    ELSE IF prompt.tab \in Panels /\ prompt.forSftp /\ conn[Panel(prompt.tab)].phase # "idle"
         THEN {Panel(prompt.tab)}
    ELSE IF prompt.tab \in open THEN {[kind |-> "ssh", id |-> prompt.tab]} ELSE {}

-----------------------------------------------------------------------------
(***************************************************************************)
(* Connection threads: establishAuthenticatedSshConnection() and its       *)
(* confirmUnknownHostKey callbacks.                                        *)
(***************************************************************************)
\* Seeded fault: the slot keeps the answer to the previous hop.
AskWithoutReset(a) ==
    /\ conn[a].phase = "connecting" /\ conn[a].hop < Hops
    /\ conn' = [conn EXCEPT ![a].phase = "waiting", ![a].hop = @ + 1, ![a].awaiting = TRUE]
    /\ events' = Append(events, [question |-> Current(a)', changed |-> FALSE])
    /\ UNCHANGED <<prompt, open, joining, quit>>

\* The thread need not have noticed a stop when it asks.
Ask(a) ==
    /\ conn[a].phase = "connecting" /\ conn[a].hop < Hops
    /\ conn' = [conn EXCEPT ![a].phase = "waiting", ![a].hop = @ + 1,
                            ![a].awaiting = TRUE, ![a].decision = NoAnswer]
    /\ events' = Append(events, [question |-> Current(a)', changed |-> FALSE])
    /\ UNCHANGED <<prompt, open, joining, quit>>

KeyChanged(a) ==
    /\ conn[a].phase = "connecting" /\ conn[a].hop < Hops
    /\ conn' = [conn EXCEPT ![a].phase = "ended", ![a].hop = @ + 1]
    /\ events' = Append(events, [question |-> Current(a)', changed |-> TRUE])
    /\ UNCHANGED <<prompt, open, joining, quit>>

\* A rule clears its slot when it takes the answer, the others when they ask.
Wake(a) ==
    /\ conn[a].phase = "waiting" /\ conn[a].decision # NoAnswer
    /\ conn' = [conn EXCEPT
         ![a].phase = IF conn[a].decision.value = "accept" THEN "connecting" ELSE "ended",
         ![a].awaiting = FALSE,
         ![a].decision = IF a.kind = "rule" THEN NoAnswer ELSE @]
    /\ UNCHANGED <<events, prompt, open, joining, quit>>

\* The wait of a rule has no stop token.
WakeForStop(a) ==
    /\ a.kind # "rule"
    /\ conn[a].phase = "waiting" /\ conn[a].stop /\ conn[a].decision = NoAnswer
    /\ conn' = [conn EXCEPT ![a].phase = "ended", ![a].awaiting = FALSE]
    /\ UNCHANGED <<events, prompt, open, joining, quit>>

Connect(a) ==
    /\ conn[a].phase = "connecting"
    /\ conn' = [conn EXCEPT ![a].phase = "connected"]
    /\ UNCHANGED <<events, prompt, open, joining, quit>>

End(a) ==
    /\ conn[a].phase \in {"connecting", "connected"}
    /\ conn' = [conn EXCEPT ![a].phase = "ended"]
    /\ UNCHANGED <<events, prompt, open, joining, quit>>

-----------------------------------------------------------------------------
(***************************************************************************)
(* The GUI thread                                                          *)
(***************************************************************************)
GuiFree == joining = Nobody /\ quit = "no"

\* Seeded fault: a dialog outlives its owner.
KeptIf(owned) == prompt

ClearedIf(owned) == IF owned THEN NoPrompt ELSE prompt

\* A failed terminal or transfer is started again only by events that follow
\* its questions in the queue, a failed panel only after its session was
\* replaced; a rule by the snapshot of its job, whatever is still queued.
MayStart(a) ==
    CASE a.kind = "sftp" -> a.id \in open /\ conn[a].phase = "idle"
      [] a.kind = "rule" -> conn[a].phase \in {"idle", "ended"}
      [] OTHER -> /\ a.kind = "ssh" => a.id \in open
                  /\ conn[a].phase \in {"idle", "ended"}
                  /\ \A i \in 1 .. Len(events) : events[i].question.asker # a

\* The dialog covers the main window.  While it is up a tab may be started or
\* closed from a detached window, and a transfer or rule for the first time
\* by the scheduler or the automatic start.
Uncovered(a) == a.kind = "ssh" \/ conn[a].run = 0 \/ ~prompt.visible

Replaced(a) == [NewConnection EXCEPT !.run = conn[a].run]
Started(a) == [NewConnection EXCEPT !.phase = "connecting", !.run = conn[a].run + 1]

\* A reconnecting terminal drops the session of its panel.
Start(a) ==
    /\ GuiFree /\ MayStart(a) /\ Uncovered(a) /\ conn[a].run < Runs
    /\ conn' = [b \in Askers |-> IF b = a THEN Started(a)
                                 ELSE IF a.kind = "ssh" /\ b = Panel(a.id) THEN Replaced(b)
                                 ELSE conn[b]]
    /\ prompt' = ClearedIf(a.kind = "rule" /\ conn[a].phase = "ended" /\ prompt.rule = a.id)
    /\ UNCHANGED <<events, open, joining, quit>>

\* Tab and panel handlers take the dialog over and leave the other owner
\* fields; transfer and rule handlers answer for the user while it is up.
ShowForTab(a, q, changed) ==
    /\ prompt' = [prompt EXCEPT !.visible = TRUE, !.changed = changed, !.tab = a.id,
                                !.forSftp = a.kind = "sftp", !.shown = q]
    /\ conn' = conn

\* Seeded fault: a background question takes the dialog over as a tab does.
ShowOverOthers(a, q, changed) ==
    /\ prompt' = [NoPrompt EXCEPT !.visible = TRUE, !.changed = changed, !.shown = q,
                    !.transfer = IF a.kind = "transfer" THEN a.id ELSE Nobody,
                    !.rule = IF a.kind = "rule" THEN a.id ELSE Nobody]
    /\ conn' = conn

\* Seeded fault: a question that finds the dialog taken is dropped.
ShowOrDrop(a, q, changed) ==
    /\ prompt' = IF prompt.visible THEN prompt
                 ELSE [NoPrompt EXCEPT !.visible = TRUE, !.changed = changed, !.shown = q,
                         !.transfer = IF a.kind = "transfer" THEN a.id ELSE Nobody,
                         !.rule = IF a.kind = "rule" THEN a.id ELSE Nobody]
    /\ conn' = conn

ShowInBackground(a, q, changed) ==
    IF prompt.visible
    THEN /\ conn' = IF changed THEN conn ELSE Resolve(a, Answer("reject", NoQuestion))
         /\ prompt' = prompt
    ELSE /\ prompt' = IF a.kind = "transfer"
                      THEN [prompt EXCEPT !.visible = TRUE, !.changed = changed, !.tab = Nobody,
                                          !.forSftp = FALSE, !.transfer = a.id, !.shown = q]
                      ELSE [prompt EXCEPT !.visible = TRUE, !.changed = changed, !.rule = a.id,
                                          !.shown = q]
         /\ conn' = conn

\* The sessions of a closed tab and a replaced panel session are disconnected,
\* and a rule that has no job is not found.
Heard(q) ==
    CASE q.asker.kind = "ssh"  -> q.asker.id \in open
      [] q.asker.kind = "sftp" -> /\ q.asker.id \in open
                                  /\ conn[q.asker].phase # "idle" /\ conn[q.asker].run = q.run
      [] q.asker.kind = "rule" -> conn[q.asker].phase # "idle"
      [] OTHER                 -> TRUE

Deliver ==
    /\ GuiFree /\ events # << >>
    /\ LET q == Head(events).question
           changed == Head(events).changed
       IN  CASE ~Heard(q) -> UNCHANGED <<conn, prompt>>
             [] Heard(q) /\ q.asker.kind \in {"ssh", "sftp"} -> ShowForTab(q.asker, q, changed)
             [] OTHER -> ShowInBackground(q.asker, q, changed)
    /\ events' = Tail(events)
    /\ UNCHANGED <<open, joining, quit>>

\* acceptHostKey() and rejectHostKey(); a changed key can only be rejected.
UserAnswers(value) ==
    /\ GuiFree /\ prompt.visible
    /\ value = "accept" => ~prompt.changed
    /\ conn' = IF Addressee = {} THEN conn
               ELSE Resolve(CHOOSE a \in Addressee : TRUE, Answer(value, prompt.shown))
    /\ prompt' = NoPrompt
    /\ UNCHANGED <<events, open, joining, quit>>

\* A closed tab takes its dialog with it and tells its sessions to stop.
OfTab(t) == {a \in Askers : a.kind \in {"ssh", "sftp"} /\ a.id = t}

CloseTab(t) ==
    /\ GuiFree /\ "closeTab" \in Calls /\ t \in open
    /\ open' = open \ {t}
    /\ prompt' = ClearedIf(prompt.tab = t)
    /\ conn' = [a \in Askers |-> IF a \in OfTab(t) THEN [conn[a] EXCEPT !.stop = TRUE]
                                                   ELSE conn[a]]
    /\ UNCHANGED <<events, joining, quit>>

\* A panel whose filename encoding changes replaces its session.
RestartPanel(t) ==
    /\ GuiFree /\ "restartPanel" \in Calls /\ t \in open /\ ~prompt.visible
    /\ conn[Panel(t)].phase # "idle" /\ conn[Panel(t)].run < Runs
    /\ conn' = [conn EXCEPT ![Panel(t)] = Started(Panel(t))]
    /\ UNCHANGED <<events, prompt, open, joining, quit>>

\* TransferManager::pause(); cancel() stops the worker in the same way.
PauseTransfer(a) ==
    /\ GuiFree /\ "pause" \in Calls /\ a.kind = "transfer" /\ ~prompt.visible
    /\ conn[a].phase \notin {"idle", "ended"} /\ ~conn[a].stop
    /\ conn' = [conn EXCEPT ![a].stop = TRUE]
    /\ UNCHANGED <<events, prompt, open, joining, quit>>

\* stopPortForwardingRule() answers for the user, stops the job and joins it.
StopWorker(r) ==
    LET a == [kind |-> "rule", id |-> r]
    IN  /\ conn[a].phase # "idle"
        /\ conn' = [Resolve(a, Answer("reject", NoQuestion)) EXCEPT ![a].stop = TRUE]
        /\ joining' = r

StopRule(r) ==
    /\ GuiFree /\ "stopRule" \in Calls /\ ~prompt.visible
    /\ StopWorker(r)
    /\ UNCHANGED <<events, prompt, open, quit>>

RuleJoined(r) ==
    LET a == [kind |-> "rule", id |-> r]
    IN  /\ joining = r /\ conn[a].phase = "ended"
        /\ conn' = [conn EXCEPT ![a] = Replaced(a)]
        /\ prompt' = ClearedIf(quit = "no" /\ prompt.rule = r)
        /\ joining' = Nobody
        /\ UNCHANGED <<events, open, quit>>

\* shutdown(): the rules one after the other, then the dialog, then the rest.
Quit ==
    /\ GuiFree /\ "quit" \in Calls
    /\ quit' = "stopping"
    /\ UNCHANGED <<conn, events, prompt, open, joining>>

QuitRule(r) ==
    /\ quit = "stopping" /\ joining = Nobody
    /\ StopWorker(r)
    /\ UNCHANGED <<events, prompt, open, quit>>

QuitRest ==
    /\ quit = "stopping" /\ joining = Nobody
    /\ \A a \in Asker("rule", Rules) : conn[a].phase = "idle"
    /\ prompt' = NoPrompt
    /\ conn' = [a \in Askers |-> [conn[a] EXCEPT !.stop = TRUE]]
    /\ quit' = "down"
    /\ UNCHANGED <<events, open, joining>>

-----------------------------------------------------------------------------
Thread(a) == Wake(a) \/ WakeForStop(a) \/ Ask(a) \/ KeyChanged(a) \/ Connect(a) \/ End(a)

User ==
    \/ \E a \in Askers : Start(a) \/ PauseTransfer(a)
    \/ \E t \in Tabs : CloseTab(t)
    \/ \E t \in Panels : RestartPanel(t)
    \/ \E r \in Rules : StopRule(r)
    \/ Quit

Answering == \E value \in {"accept", "reject"} : UserAnswers(value)

Shutdown == QuitRest \/ \E r \in Rules : QuitRule(r)

Next ==
    \/ \E a \in Askers : Thread(a)
    \/ Deliver \/ Answering
    \/ User
    \/ \E r \in Rules : RuleJoined(r)
    \/ Shutdown

Spec == Init /\ [][Next]_vars

(***************************************************************************)
(* The event loop runs, a woken thread runs, the user answers a dialog on  *)
(* the screen, and a stopped connection ends: its socket calls have        *)
(* deadlines and take the stop token.                                      *)
(***************************************************************************)
Fairness ==
    /\ WF_vars(Deliver) /\ WF_vars(Answering) /\ WF_vars(Shutdown)
    /\ \A a \in Askers : WF_vars(Wake(a)) /\ WF_vars(WakeForStop(a))
    /\ \A a \in Askers : WF_vars(conn[a].stop /\ End(a))
    /\ \A r \in Rules : WF_vars(RuleJoined(r))

FairSpec == Spec /\ Fairness
=============================================================================
