-------------------------- MODULE HostKeyProperties --------------------------
(***************************************************************************)
(* What the host key dialog promises, and what its documents say of it.    *)
(***************************************************************************)
EXTENDS HostKeyPrompts

\* Types of the dialog, the answer slots and the queued questions: every
\* question that is posted names a hop of the asker's route.
TypeOK ==
    /\ conn \in [Askers -> Connections]
    /\ events \in Seq([question : Questions, changed : BOOLEAN])
    /\ prompt \in [visible : BOOLEAN, changed : BOOLEAN, tab : Tabs \cup {Nobody},
                   forSftp : BOOLEAN, transfer : Transfers \cup {Nobody},
                   rule : Rules \cup {Nobody}, shown : Questions \cup {NoQuestion}]
    /\ open \subseteq Tabs
    /\ joining \in Rules \cup {Nobody}
    /\ quit \in {"no", "stopping", "down"}

-----------------------------------------------------------------------------
\* The owner fields belong to the dialog on the screen.  A hidden dialog has
\* none (hostKeyConfirmationRequired of a transfer clears the tab but relies
\* on there being no rule), and a visible one belongs to a tab that is still
\* open, to a transfer or to a rule: retireTerminalTab() and the job's stop
\* take their dialogs with them, so no dialog is left that answers nobody
\* and that makes every background connection be rejected.
DialogHasOwner ==
    IF prompt.visible
    THEN prompt.tab \in open \/ prompt.transfer # Nobody \/ prompt.rule # Nobody
    ELSE prompt = NoPrompt

\* An acceptance in the slot of a waiting transfer was given while its present
\* question was on the screen, or that of a tab whose handler had taken the
\* dialog over and left m_hostKeyTransferTaskId: never an earlier hop of the
\* route or an earlier run, and nothing another transfer or a rule asked.  (A
\* rule and a reconnecting terminal can be started again while a question of
\* theirs is still queued or shown: see NoStaleConfirmation.)
AcceptedAsShown ==
    \A a \in Asker("transfer", Transfers) :
        conn[a].phase = "waiting" /\ conn[a].decision.value = "accept"
           => \/ conn[a].decision.shown = Current(a)
              \/ conn[a].decision.shown.asker.kind \in {"ssh", "sftp"}

Background == Asker("transfer", Transfers) \cup Asker("rule", Rules)
Queued == {events[i] : i \in DOMAIN events}

\* A connection that waits was answered, or the dialog will answer it, or its
\* question is still queued.
NotLost(a) ==
    conn[a].phase = "waiting" /\ ~conn[a].stop
       => \/ conn[a].decision # NoAnswer
          \/ a \in Addressee /\ prompt.visible
          \/ \E e \in Queued : e.question = Current(a)

\* The handler of a tab or panel overwrites the dialog on the screen.
TakesDialogOver == Deliver /\ prompt.visible /\ Head(events).question.asker.kind \in {"ssh", "sftp"}

\* A tab closes with the dialog that names it, and whatever else it names.
ClosesWithDialog == prompt.visible /\ \E t \in Tabs : prompt.tab = t /\ CloseTab(t)

\* A question is lost in two ways only.  That of a transfer or a rule, when a
\* tab that had taken its dialog over closes and hides it; that of a tab or a
\* panel, when another tab or panel asks and overwrites the dialog.  No answer,
\* no stop, no restart, no join and no background connection loses one:
\* TransferManager and the rules reject at once when the dialog is taken.
QuestionKept ==
    [][\A a \in Askers :
          NotLost(a) => \/ NotLost(a)'
                        \/ IF a \in Background THEN ClosesWithDialog
                                                ELSE TakesDialogOver]_vars

\* A transfer or rule that waits for the user, and whose question was not lost
\* with a tab, gets an answer and goes on, unless a tab shows its own question
\* in the dialog that answers it (and may then close), or the GUI thread joins
\* a worker (see JoinedWorkerCanEnd).
TakenOver(a) == prompt.visible /\ a \in Addressee /\ prompt.shown.asker # a
EveryQuestionAnswered ==
    \A a \in Background :
        conn[a].phase = "waiting" /\ NotLost(a)
           ~> conn[a].phase # "waiting" \/ TakenOver(a) \/ ~GuiFree

-----------------------------------------------------------------------------
(***************************************************************************)
(* What the documents say and the code does not keep.                      *)
(***************************************************************************)
\* ADR 0008: "the originating tab is explicit, so a decision cannot be applied
\* to a different connection".
DecisionStaysWithAsker ==
    \A a \in Askers :
        conn[a].decision.shown.asker \in {a, Nobody}

\* V2_10_SCOPE: "stop/app shutdown joins all workers": a worker the GUI thread
\* is joining does not wait for an answer only the GUI thread can give.
JoinedWorkerCanEnd ==
    \A r \in Rules :
        LET a == [kind |-> "rule", id |-> r]
        IN  joining = r /\ conn[a].phase = "waiting" => conn[a].decision # NoAnswer

\* V2_10_SCOPE: every authentication prompt of a rule "is generation-owned;
\* late results from a stopped job are discarded": the dialog of a rule shows
\* a question of the job the rule has now.
RulePromptIsCurrent ==
    \A r \in Rules :
        prompt.visible /\ prompt.rule = r /\ prompt.shown.asker = [kind |-> "rule", id |-> r]
           => prompt.shown.run = conn[[kind |-> "rule", id |-> r]].run

\* ADR 0005: "A stale or premature confirmation must not trust a host": an
\* acceptance any connection acts on was given for the question it asks.
NoStaleConfirmation ==
    \A a \in Askers :
        conn[a].phase = "waiting" /\ conn[a].decision.value = "accept"
           => conn[a].decision.shown = Current(a)
=============================================================================
