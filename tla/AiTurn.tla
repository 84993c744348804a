------------------------------- MODULE AiTurn -------------------------------
(***************************************************************************)
(* A turn of the terminal assistant: application/ai/AiTurnRunner with the  *)
(* provider's HTTP client below it and the tool handlers of AppController, *)
(* the dispatch ledgers and the pending approvals around it, for one       *)
(* terminal tab and its conversation.                                      *)
(*                                                                         *)
(* Everything runs on the GUI thread, so a handler is one step.  What is   *)
(* concurrent is what the handlers wait for: a reply of the provider, the  *)
(* user's approval, a command or an MCP server that answers, timers, and   *)
(* the SSH connection of the tab, which may be lost under all of them.     *)
(* An aborted reply still reports that it finished, later.                 *)
(***************************************************************************)
EXTENDS Integers, Sequences, FiniteSets, SequencesExt

CONSTANTS
    Turns,          \* turns the user starts
    MaxRetries,     \* AiProviderRetryLimits::maxRetries
    MaxPauses,      \* maximumPauseContinuations
    MaxCalls,       \* maximumToolCalls of a turn
    Capacity,       \* AiToolDispatchLimits::maximumRecords
    Offered,        \* the kinds of tools offered to the model
    Names,          \* how a provider names its calls: "fresh" ids, or ids it reuses
    MaxGeneration,  \* bound: reconnectGeneration
    Faults          \* what goes wrong around the turn

\* "sftp" is a read through the SFTP session of the tab.
Tools == {"read", "sftp", "command", "mcp"}

ASSUME TurnAssumption ==
    /\ Turns \in Nat \ {0} /\ MaxCalls \in Nat \ {0} /\ Capacity \in Nat \ {0}
    /\ MaxRetries \in Nat /\ MaxPauses \in Nat /\ MaxGeneration \in Nat
    /\ Offered \subseteq Tools
    /\ Names \subseteq {"fresh", "reused"}
    /\ Faults \subseteq {"unstartable", "network", "oversize", "lost", "giveUp", "large", "quick"}

\* The calls a response may make; a turn that asks for more than its budget ends.
Batches == UNION {[1..n -> Offered] : n \in 1..MaxCalls}

\* The client numbers its requests upwards.  A turn makes its next request when
\* the one before has been released, so a request is known here by its turn;
\* those of the turns before may still be on their way out.
Requests == 1..Turns

VARIABLES
    run,        \* AiTurnRunner's members
    nextTurn,   \* m_nextTurnId
    net,        \* m_requests of the client
    ledger,     \* the records of m_aiActionToolDispatcher's ledger and of m_mcpDispatchLedger
    action,     \* pendingAiAction, at most one: its dispatch key and target
    mcp,        \* pendingAiMcpCall, at most one
    server,     \* m_pendingCalls of the MCP client
    ticks,      \* who will answer a command or a read: its timer, or the SFTP session
    gen,        \* reconnectGeneration
    link,       \* the tab's connection, and whether a reconnect is pending
    ran         \* the side effects the turn started, in order

vars == <<run, nextTurn, net, ledger, action, mcp, server, ticks, gen, link, ran>>

-----------------------------------------------------------------------------
None == "none"
Idle == [turn |-> 0, gen |-> 0, req |-> 0, err |-> None, seen |-> FALSE, irreversible |-> FALSE,
         retries |-> 0, pauses |-> 0, calls |-> 0, pending |-> <<>>, next |-> None,
         exchange |-> <<>>, index |-> 0, waiting |-> FALSE, closure |-> None, timer |-> FALSE]

Errors == {"retryable", "overflow", "fatal", "cancelled"}
CallIds == (0..(MaxCalls + 1)) \X (1..MaxCalls)
Calls   == [id : CallIds, tool : Tools, made : 1..(MaxCalls + 1)]
Keys    == (1..Turns) \X CallIds
Ledgers == {"command", "mcp"}
\* "over" stands for the terminal states: which one it is changes no decision.
Records == [key : Keys, tool : Tools, gen : 0..MaxGeneration, made : 1..(MaxCalls + 1),
            st : {"pending", "awaiting", "running", "over"}]

Runs == [turn : 0..Turns, gen : 0..MaxGeneration, req : {0} \cup Requests,
         err : {None} \cup Errors, seen : BOOLEAN, irreversible : BOOLEAN,
         retries : 0..MaxRetries, pauses : 0..MaxPauses, calls : 0..MaxCalls,
         pending : Seq(Calls), next : {None, "tools", "pause"},
         exchange : Seq(Calls), index : 0..MaxCalls, waiting : BOOLEAN,
         closure : {None, "approval", "command", "read", "mcp"}, timer : BOOLEAN]
Nets      == [Requests -> {None, "open", "ended", "failed"}]
Approvals == [key : Keys, gen : 0..MaxGeneration]
McpCalls  == [key : Keys, active : BOOLEAN]
Effects   == [key : Keys, tool : Tools]

TypeOK ==
    /\ run \in Runs
    /\ nextTurn \in 1..(Turns + 1)
    /\ net \in Nets
    /\ ledger \in [Ledgers -> Seq(Records)]
    /\ \A l \in Ledgers : Len(ledger[l]) <= Capacity
    /\ action \subseteq Approvals /\ \A p, q \in action : p = q
    /\ mcp \subseteq McpCalls /\ \A p, q \in mcp : p = q
    /\ server \subseteq Approvals
    /\ ticks \subseteq Effects
    /\ gen \in 0..MaxGeneration
    /\ link \in {"up", "waiting", "down"}
    /\ ran \in Seq(Effects)

Init ==
    /\ run = Idle
    /\ nextTurn = 1
    /\ net = [r \in Requests |-> None]
    /\ ledger = [l \in Ledgers |-> <<>>]
    /\ action = {} /\ mcp = {}
    /\ server = {} /\ ticks = {}
    /\ gen = 0 /\ link = "up"
    /\ ran = <<>>

\* What the handlers of a step work on, and what they leave.
Now == [run |-> run, net |-> net, ledger |-> ledger,
        action |-> action, mcp |-> mcp, server |-> server, ticks |-> ticks, ran |-> ran]

Becomes(s) ==
    /\ run' = s.run /\ net' = s.net /\ ledger' = s.ledger
    /\ action' = s.action /\ mcp' = s.mcp /\ server' = s.server /\ ticks' = s.ticks /\ ran' = s.ran

-----------------------------------------------------------------------------
(***************************************************************************)
(* AiToolDispatchLedger                                                    *)
(***************************************************************************)
\* record(): at most one, begin() admits no key twice.
RecordsOf(l, key) == {r \in Range(l) : r.key = key}

\* transitionAllowed()
TransitionAllowed(from, to) ==
    CASE from = "pending"  -> to # "pending"
      [] from = "awaiting" -> to \in {"running", "over"}
      [] from = "running"  -> to = "over"
      [] OTHER             -> FALSE

\* transition(), of the records of some keys; for a result it refuses for its
\* size, see AnswerTooLarge.
Transition(l, keys, to) ==
    [i \in DOMAIN l |->
        IF l[i].key \in keys /\ TransitionAllowed(l[i].st, to)
        THEN [l[i] EXCEPT !.st = to] ELSE l[i]]

\* makeRoom(): the oldest terminal record goes when the ledger is full.
MakeRoom(l) ==
    LET over == {i \in DOMAIN l : l[i].st = "over"}
    IN  CASE Len(l) < Capacity -> l
          [] Len(l) >= Capacity /\ over # {} -> RemoveAt(l, CHOOSE i \in over : \A j \in over : i <= j)
          [] OTHER -> l

\* Seeded fault: a key that is over is admitted again.
AdmissionForgets(l, rec) ==
    IF \E r \in RecordsOf(l, rec.key) : r.st # "over" THEN "joined"
    ELSE IF Len(MakeRoom(l)) < Capacity THEN "accepted" ELSE "full"

\* begin(): what it makes of a request, and the ledger it leaves.
Admission(l, rec) ==
    LET known == RecordsOf(l, rec.key)
    IN  IF known = {} THEN IF Len(MakeRoom(l)) < Capacity THEN "accepted" ELSE "full"
        ELSE IF \E r \in known : r.tool # rec.tool \/ r.gen # rec.gen THEN "mismatch"
        ELSE IF \E r \in known : r.st = "over" THEN "cached" ELSE "joined"

Begin(l, rec) == IF Admission(l, rec) = "accepted" THEN Append(MakeRoom(l), rec) ELSE l

-----------------------------------------------------------------------------
(***************************************************************************)
(* AiTurnRunner and ProviderHttpClient                                     *)
(***************************************************************************)
Active(s) == s.run.turn # 0

\* finishTurn() and clearTurn(); what the user is told is left out.
FinishTurn(s) == [s EXCEPT !.run = Idle]

\* ProviderHttpClient::cancel(): the runner's handler keeps the first cause of
\* the failure, and the reply is aborted; that it finished is reported later.
Abort(s, r) ==
    IF r \in Requests /\ s.net[r] \in {"open", "ended"}
    THEN [s EXCEPT !.net[r] = "failed",
                   !.run.err = IF s.run.req = r /\ s.run.err = None THEN "cancelled" ELSE @]
    ELSE s

\* startAttempt(), and the error that ends the turn when the attempt cannot be
\* made: the secret is gone, or a payload compacted once is still too large.
StartAttempt(s, goes) ==
    IF ~goes THEN FinishTurn(s)
    ELSE [s EXCEPT !.run = [@ EXCEPT !.req = s.run.turn, !.err = None, !.seen = FALSE,
                                     !.pending = <<>>, !.next = None],
                   !.net[s.run.turn] = "open"]

\* The call of the exchange the runner has reached, and its dispatch key.
Current(s) == s.run.exchange[s.run.index + 1]
KeyOf(s, call) == <<s.run.turn, call.id>>

\* What becomes of a call: the permission rules and the mode allow it, ask or
\* refuse it, or its target does not take it; "done" answers at once.
Verdicts == {"allow", "ask", "refuse", "done"}

Answered(s) == [s EXCEPT !.run.index = @ + 1]

\* The runner waits for the tool; what its cancel closure would do.
WaitFor(s, closure) == [s EXCEPT !.run.waiting = TRUE, !.run.closure = closure]

Watch(s, call) == [s EXCEPT !.ticks = @ \cup {[key |-> KeyOf(s, call), tool |-> call.tool]}]
Ran(s, call)   == [s EXCEPT !.ran = Append(@, [key |-> KeyOf(s, call), tool |-> call.tool])]
Record(s, key, l, to) == [s EXCEPT !.ledger[l] = Transition(@, {key}, to)]
SideEffecting(s) == [s EXCEPT !.run.irreversible = TRUE]

NewRecord(s, call, g) ==
    [key |-> KeyOf(s, call), tool |-> call.tool, gen |-> g, made |-> call.made, st |-> "pending"]

\* Seeded fault: the timer that watches the command is not started.
RunUnwatched(s, call, v, closure) ==
    CASE v = "refuse" -> Answered(Record(s, KeyOf(s, call), "command", "over"))
      [] v = "done"   -> Answered(Record(Ran(s, call), KeyOf(s, call), "command", "over"))
      [] OTHER        -> WaitFor(Ran(s, call), closure)

\* handleAiRunCommand() once the command is allowed, directly or by the user:
\* it is refused while the user types, else typed into the terminal; a timer
\* watches it unless it is over already.
RunCommand(s, call, v, closure) ==
    CASE v = "refuse" -> Answered(Record(s, KeyOf(s, call), "command", "over"))
      [] v = "done"   -> Answered(Record(Ran(s, call), KeyOf(s, call), "command", "over"))
      [] OTHER        -> WaitFor(Watch(Ran(s, call), call), closure)

\* AiActionToolDispatcher::prepare() and what the tool handler makes of its plan.
\* What needs no terminal to write to, a runbook or a transfer to queue, asks or
\* is done while the tab is not connected.
CommandTool(s, call, v) ==
    LET rec    == NewRecord(s, call, s.run.gen)
        key    == KeyOf(s, call)
        begun  == SideEffecting([s EXCEPT !.ledger["command"] = Begin(@, rec)])
        usable == gen = s.run.gen /\ (link = "up" \/ v \in {"ask", "done"})
    IN  IF Admission(s.ledger["command"], rec) # "accepted" THEN SideEffecting(Answered(s))
        ELSE IF ~usable \/ v = "refuse" THEN Answered(Record(begun, key, "command", "over"))
        ELSE IF v = "ask"
        THEN WaitFor([Record(begun, key, "command", "awaiting") EXCEPT
                         !.action = {[key |-> key, gen |-> s.run.gen]}], "approval")
        ELSE RunCommand(Record(begun, key, "command", "running"), call, v, "command")

\* The branch of the tool handler for MCP tools.
McpTool(s, call, v) ==
    LET rec   == NewRecord(s, call, gen)
        key   == KeyOf(s, call)
        begun == SideEffecting([s EXCEPT !.ledger["mcp"] = Begin(@, rec)])
        held(st, active) == [Record(begun, key, "mcp", st) EXCEPT
                                !.mcp = {[key |-> key, active |-> active]}]
    IN  IF s.mcp # {} \/ Admission(s.ledger["mcp"], rec) # "accepted" THEN SideEffecting(Answered(s))
        ELSE IF v = "refuse" THEN Answered(Record(begun, key, "mcp", "over"))
        ELSE IF v = "ask" THEN WaitFor(held("awaiting", FALSE), "mcp")
        ELSE WaitFor(Ran([held("running", TRUE) EXCEPT
                             !.server = @ \cup {[key |-> key, gen |-> gen]}], call), "mcp")

\* The tool handler of a turn: a read answers at once, or waits for its timer or
\* for the SFTP session.
HandleTool(s, call, v) ==
    CASE call.tool = "command" -> CommandTool(s, call, v)
      [] call.tool = "mcp"     -> McpTool(s, call, v)
      [] call.tool \in {"read", "sftp"} /\ v = "allow" -> WaitFor(Watch(s, call), "read")
      [] OTHER -> Answered(s)

\* One round of executeNextTool(): the loop ends with the last call, or where a
\* call has to be waited for.
NextTool(s, v) ==
    IF s.run.waiting \/ s.run.index = Len(s.run.exchange) THEN s
    ELSE HandleTool(s, Current(s), v[s.run.index + 1])

\* What n rounds of the loop leave.
Rounds(s, v) ==
    LET after[n \in 0..Len(s.run.exchange)] == IF n = 0 THEN s ELSE NextTool(after[n - 1], v)
    IN  after

\* executeNextTool(): with every call answered the next request is made.
ExecuteNextTool(s, v, goes) ==
    LET t == Rounds(s, v)[Len(s.run.exchange)]
    IN  IF t.run.waiting THEN t
        ELSE StartAttempt([t EXCEPT !.run = [t.run EXCEPT !.calls = @ + Len(t.run.exchange),
                                                          !.exchange = <<>>, !.index = 0, !.next = None]],
                          goes)

\* The tool-call budget of a turn.
WithinBudget(s) == Len(s.run.pending) <= MaxCalls - s.run.calls

\* continueWithTools()
ContinueWithTools(s, v, goes) ==
    IF ~WithinBudget(s) THEN FinishTurn(s)
    ELSE ExecuteNextTool([s EXCEPT !.run = [@ EXCEPT !.exchange = s.run.pending, !.pending = <<>>,
                                                     !.index = 0]], v, goes)

\* continuePausedProviderTurn()
ContinuePaused(s, goes) ==
    IF s.run.pauses >= MaxPauses THEN FinishTurn(s)
    ELSE StartAttempt([s EXCEPT !.run.pauses = @ + 1], goes)

\* Seeded fault: an effect of an earlier exchange is not looked at.
RetryUnlessSeen(s) ==
    ~s.run.seen /\ s.run.err \in {"retryable", "overflow"} /\ s.run.retries < MaxRetries

\* The condition of a retry, with the part of AiProviderRetryPolicy::decide().
MayRetry(s) ==
    /\ ~s.run.seen /\ ~s.run.irreversible
    /\ s.run.err \in {"retryable", "overflow"}
    /\ s.run.retries < MaxRetries

\* Seeded fault: a retry is not counted.
RetryUncounted(s) == [s EXCEPT !.run.err = None]

Retried(s) == [s EXCEPT !.run.retries = @ + 1, !.run.err = None]

\* Seeded fault: the end of any request is taken for that of the current one.
WhileActive(s, r) == Active(s)

\* The guard of handleFinished().
IsCurrent(s, r) == s.run.req = r /\ Active(s)

\* handleFinished(): a payload that was too large is retried at once.
HandleFinished(s, r, v, goes) ==
    LET t == [s EXCEPT !.run.req = 0]
        again == Retried(t)
    IN  IF ~IsCurrent(s, r) THEN s
        ELSE IF t.run.err = None /\ t.run.next = "pause" THEN ContinuePaused(t, goes)
        ELSE IF t.run.err = None /\ t.run.next = "tools" THEN ContinueWithTools(t, v, goes)
        ELSE IF MayRetry(t) /\ t.run.err = "overflow"  THEN StartAttempt(again, goes)
        ELSE IF MayRetry(t) /\ t.run.err = "retryable" THEN [again EXCEPT !.run.timer = TRUE]
        ELSE FinishTurn(t)

\* completePendingTool(): an answer that is not to the call the runner waits
\* for is not taken.  One over 64 KiB is not either: see AnswerTooLarge.
Takes(s, id, tool) ==
    Active(s) /\ s.run.waiting /\ Current(s).id = id /\ Current(s).tool = tool

CompletePendingTool(s, id, tool, v, goes) ==
    IF ~Takes(s, id, tool) THEN s
    ELSE ExecuteNextTool(Answered([s EXCEPT !.run.waiting = FALSE, !.run.closure = None]), v, goes)

-----------------------------------------------------------------------------
(***************************************************************************)
(* AppController                                                           *)
(***************************************************************************)
\* completeAiMcpTool(), for a call made in some generation of the tab.
CompleteMcp(s, call, v, goes) ==
    LET t == Record(s, call.key, "mcp", "over")
    IN  IF call.gen = gen /\ Active(s) /\ \E m \in s.mcp : m.key = call.key
        THEN CompletePendingTool([t EXCEPT !.mcp = {}], call.key[2], "mcp", v, goes)
        ELSE t

\* Seeded fault: the approval that is cancelled stays on the screen.
ClosureLeavesApproval(s) ==
    [s EXCEPT !.ledger["command"] = Transition(@, {a.key : a \in s.action}, "over")]

\* Seeded fault: the record of the cancelled approval is left to wait.
ClosureLeavesRecord(s) == [s EXCEPT !.action = {}]

\* The cancel closure of an approval: whatever action is pending is cancelled.
ApprovalClosure(s) ==
    [s EXCEPT !.action = {},
              !.ledger["command"] = Transition(@, {a.key : a \in s.action}, "over")]

\* The cancel closure of an MCP call: McpStdioClient::cancel() answers one that
\* is on its way with an error on the spot.  The runner waits no longer, so
\* completeAiMcpTool() does for that answer what the closure goes on to do.
McpClosure(s, key) ==
    LET asked == {c \in server : c.key = key /\ \E m \in s.mcp : m.active}
    IN  IF \E m \in s.mcp : m.key = key
        THEN [Record(s, key, "mcp", "over") EXCEPT !.mcp = {}, !.server = @ \ asked]
        ELSE s

\* cancel()
CancelTurn(s) ==
    LET call == Current(s)
        key  == KeyOf(s, call)
        t    == [s EXCEPT !.run.waiting = FALSE, !.run.closure = None]
        off  == [t EXCEPT !.ticks = @ \ {[key |-> key, tool |-> call.tool]}]
    IN  IF ~Active(s) THEN s
        ELSE IF s.run.timer THEN FinishTurn(s)
        ELSE IF s.run.waiting
        THEN FinishTurn(CASE s.run.closure = "approval" -> ApprovalClosure(t)
                          [] s.run.closure = "command"  -> Record(off, key, "command", "over")
                          [] s.run.closure = "read"     -> off
                          [] s.run.closure = "mcp"      -> McpClosure(t, key))
        ELSE FinishTurn(Abort(s, s.run.req))

\* What the steps below choose: the verdicts on the calls to come, and whether
\* an attempt can be made.
Rulings(from, calls) == [from..Len(calls) -> Verdicts]
Later   == Rulings(run.index + 2, run.exchange)
Starts  == IF "unstartable" \in Faults THEN BOOLEAN ELSE {TRUE}
Rest    == UNCHANGED <<nextTurn, gen, link>>

\* sendAiMessage(): start(), which gives no turn away when it cannot start.
\* The timer of a cancelled turn ends within its interval; only a user quicker
\* than that ("quick") can send while it runs.
Send ==
    /\ run.turn = 0 /\ nextTurn <= Turns
    /\ ticks = {} \/ "quick" \in Faults
    /\ \E goes \in Starts :
          Becomes(StartAttempt([Now EXCEPT !.run = [Idle EXCEPT !.turn = nextTurn, !.gen = gen],
                                           !.action = {}, !.mcp = {}, !.ran = <<>>], goes))
    /\ nextTurn' = nextTurn + 1
    /\ UNCHANGED <<gen, link>>

\* handleEvent() with something the user sees.
Text(r) ==
    /\ net[r] = "open" /\ run.req = r /\ ~run.seen
    /\ run' = [run EXCEPT !.seen = TRUE]
    /\ Rest /\ UNCHANGED <<net, ledger, action, mcp, server, ticks, ran>>

\* observeToolEvent(): the calls of a response.  A provider that numbers its
\* calls from one in every response names two calls of a turn alike.
ToolEvents(r) ==
    /\ net[r] = "open" /\ run.req = r /\ run.pending = <<>>
    /\ \E tools \in Batches, name \in Names :
          run' = [run EXCEPT !.seen = TRUE,
                             !.pending = [i \in DOMAIN tools |->
                                 [id |-> <<IF name = "fresh" THEN run.calls + 1 ELSE 0, i>>,
                                  tool |-> tools[i], made |-> run.calls + 1]]]
    /\ Rest /\ UNCHANGED <<net, ledger, action, mcp, server, ticks, ran>>

\* responseCompleted; a paused turn may not have calls.
ResponseCompleted(r) ==
    /\ net[r] = "open" /\ run.req = r
    /\ \E paused \in BOOLEAN :
          run' = IF paused /\ run.pending # <<>> THEN [run EXCEPT !.err = "fatal"]
                 ELSE IF paused THEN [run EXCEPT !.next = "pause"]
                 ELSE IF run.pending # <<>> THEN [run EXCEPT !.next = "tools"]
                 ELSE [run EXCEPT !.seen = TRUE]
    /\ net' = [net EXCEPT ![r] = "ended"]
    /\ Rest /\ UNCHANGED <<ledger, action, mcp, server, ticks, ran>>

\* A limit of the runner is exceeded: it remembers why and aborts the request.
Oversize(r) ==
    /\ "oversize" \in Faults
    /\ net[r] = "open" /\ run.req = r
    /\ Becomes(Abort([Now EXCEPT !.run.err = "fatal"], r))
    /\ Rest

\* finish() and release(): a reply that ended without a completion, with an error
\* the provider streamed, or with one of the network or of HTTP has failed; an
\* aborted one has already.
Finished(r) ==
    /\ net[r] # None
    /\ \E how \in {None} \cup (IF "network" \in Faults THEN Errors \ {"cancelled"} ELSE {}),
          v \in Rulings(1, run.pending), goes \in Starts :
          LET err == IF how = None /\ net[r] = "open" THEN "retryable" ELSE how
              told == IF net[r] # "failed" /\ err # None /\ run.req = r /\ run.err = None
                      THEN [Now EXCEPT !.run.err = err] ELSE Now
          IN  Becomes(HandleFinished([told EXCEPT !.net[r] = None], r, v, goes))
    /\ Rest

\* The retry timer.
RetryFires ==
    /\ run.timer
    /\ \E goes \in Starts : Becomes(StartAttempt([Now EXCEPT !.run.timer = FALSE], goes))
    /\ Rest

\* cancelAiMessage()
Cancel ==
    /\ run.turn # 0
    /\ Becomes(CancelTurn(Now))
    /\ Rest

\* approveAiTool(): the target is looked at again, and the cancel closure of
\* the command that is started now is not kept.
ApproveCommand ==
    /\ run.turn # 0 /\ mcp = {} /\ run.waiting
    /\ \E a \in action, w \in Verdicts \ {"ask"}, v \in Later, goes \in Starts :
          LET call == Current(Now)
              rec  == RecordsOf(ledger["command"], a.key)
              s    == Record([Now EXCEPT !.action = {}], a.key, "command", "running")
              same == a.gen = gen /\ (link = "up" \/ w = "done")
              t    == RunCommand(s, call, IF same THEN w ELSE "refuse", "approval")
              over == ~same \/ w # "allow"
          IN  /\ call.id = a.key[2]
              /\ \E r \in rec : TransitionAllowed(r.st, "running")
              /\ Becomes(IF over THEN CompletePendingTool([t EXCEPT !.run = run], call.id, call.tool, v, goes)
                         ELSE t)
    /\ Rest

\* denyAiTool()
DenyCommand ==
    /\ run.turn # 0 /\ mcp = {} /\ run.waiting
    /\ \E a \in action, v \in Later, goes \in Starts :
          LET rec == RecordsOf(ledger["command"], a.key)
          IN  /\ Current(Now).id = a.key[2]
              /\ \E r \in rec : TransitionAllowed(r.st, "over")
              /\ Becomes(CompletePendingTool(Record([Now EXCEPT !.action = {}], a.key, "command", "over"),
                                             a.key[2], "command", v, goes))
    /\ Rest

\* approveAiMcpTool(): a call the server does not take is answered at once.
ApproveMcp ==
    /\ run.turn # 0 /\ run.waiting
    /\ \E m \in mcp, taken \in BOOLEAN, v \in Later, goes \in Starts :
          LET rec  == RecordsOf(ledger["mcp"], m.key)
              s    == Record(Now, m.key, "mcp", "running")
              made == [key |-> m.key, gen |-> gen]
          IN  /\ Current(Now).id = m.key[2] /\ m.key[1] = run.turn
              /\ \E r \in rec : r.gen = gen /\ TransitionAllowed(r.st, "running")
              /\ Becomes(IF taken
                         THEN Ran([s EXCEPT !.mcp = {[key |-> m.key, active |-> TRUE]},
                                            !.server = @ \cup {made}], Current(Now))
                         ELSE CompleteMcp(s, made, v, goes))
    /\ Rest

\* denyAiMcpTool()
DenyMcp ==
    /\ run.turn # 0 /\ run.waiting
    /\ \E m \in mcp, v \in Later, goes \in Starts :
          /\ Current(Now).id = m.key[2]
          /\ Becomes(CompletePendingTool(Record([Now EXCEPT !.mcp = {}], m.key, "mcp", "over"),
                                         m.key[2], "mcp", v, goes))
    /\ Rest

\* A call of the MCP client is answered: with a result, by its deadline, or
\* because the server stopped or failed.
McpAnswers ==
    /\ \E c \in server, v \in Later, goes \in Starts :
          Becomes(CompleteMcp([Now EXCEPT !.server = @ \ {c}], c, v, goes))
    /\ Rest

\* The timer of a command or of a wait: it ends without an active turn, and
\* answers when what it watches is over or its time is.  The SFTP session answers
\* a read that is still pending, in whatever generation.
TickFires ==
    /\ \E k \in ticks, v \in Later, goes \in Starts :
          LET s == [Now EXCEPT !.ticks = @ \ {k}]
              t == IF k.tool = "command" THEN Record(s, k.key, "command", "over") ELSE s
          IN  Becomes(IF Active(s) THEN CompletePendingTool(t, k.key[2], k.tool, v, goes) ELSE s)
    /\ Rest

\* stopSftpSession(): the user changes the encoding of the file names, or the
\* session ends; what it was asked for is answered by nobody.
SftpStops ==
    /\ \E k \in ticks : k.tool = "sftp"
    /\ ticks' = {k \in ticks : k.tool # "sftp"}
    /\ Rest /\ UNCHANGED <<run, net, ledger, action, mcp, server, ran>>

\* completeAiMcpTool() with an answer over 64 KiB: neither the ledger nor the
\* runner takes it, and the call is pending no longer.
McpAnswerTooLarge ==
    /\ \E c \in server :
          /\ server' = server \ {c}
          /\ mcp' = IF c.gen = gen /\ run.turn # 0 /\ \E m \in mcp : m.active /\ m.key = c.key
                    THEN {} ELSE mcp
    /\ Rest /\ UNCHANGED <<run, net, ledger, action, ticks, ran>>

\* The same of a timer, which stops with its answer, or of the SFTP session.
ReadAnswerTooLarge ==
    /\ \E k \in ticks : ticks' = ticks \ {k}
    /\ Rest /\ UNCHANGED <<run, net, ledger, action, mcp, server, ran>>

AnswerTooLarge == "large" \in Faults /\ (McpAnswerTooLarge \/ ReadAnswerTooLarge)

\* clearAiConversation()
Clear ==
    /\ run.turn = 0 /\ nextTurn > 1
    /\ action' = {} /\ mcp' = {}
    /\ ledger' = [l \in Ledgers |-> <<>>]
    /\ Rest /\ UNCHANGED <<run, net, server, ticks, ran>>

\* The connection is lost: scheduleSshReconnect() raises the generation at
\* once, or gives up when it has tried often enough or is not asked to.
ConnectionLost ==
    /\ "lost" \in Faults /\ link = "up"
    /\ \/ gen < MaxGeneration /\ gen' = gen + 1 /\ link' = "waiting"
       \/ gen' = gen /\ link' = "down"
    /\ UNCHANGED <<run, nextTurn, net, ledger, action, mcp, server, ticks, ran>>

\* attemptSshReconnect(): bindSshConnectionContext() cancels the turn.
AttemptReconnect ==
    /\ link = "waiting" /\ link' = "up"
    /\ Becomes(CancelTurn(Now))
    /\ UNCHANGED <<nextTurn, gen>>

\* The attempt needs a profile and a credential, or cancelTerminalReconnect()
\* comes first: the turn goes on, in another generation.
GiveUpReconnect ==
    /\ "giveUp" \in Faults
    /\ link = "waiting" /\ link' = "down"
    /\ gen' \in {gen} \cup (IF gen < MaxGeneration THEN {gen + 1} ELSE {})
    /\ UNCHANGED <<run, nextTurn, net, ledger, action, mcp, server, ticks, ran>>

\* reconnectTerminalTab(), which attempts it at once.
Reconnect ==
    /\ link = "down" /\ link' = "up"
    /\ gen < MaxGeneration /\ gen' = gen + 1
    /\ Becomes(CancelTurn(Now))
    /\ UNCHANGED nextTurn

Next ==
    \/ Send \/ RetryFires \/ Cancel
    \/ \E r \in Requests : \/ Text(r) \/ ToolEvents(r) \/ ResponseCompleted(r)
                            \/ Oversize(r) \/ Finished(r)
    \/ ApproveCommand \/ DenyCommand \/ ApproveMcp \/ DenyMcp
    \/ McpAnswers \/ TickFires \/ SftpStops \/ AnswerTooLarge \/ Clear
    \/ ConnectionLost \/ AttemptReconnect \/ GiveUpReconnect \/ Reconnect

Spec == Init /\ [][Next]_vars

\* What does not wait for the user: a reply ends within its transfer timeout, an
\* MCP call within its deadline, a watched command within its time limit, an
\* SFTP session that is not stopped gets to its requests, and timers fire.
Progress ==
    \/ \E r \in Requests : Finished(r)
    \/ RetryFires \/ McpAnswers \/ TickFires \/ AttemptReconnect

\* The event loop gets to it; nothing makes the user answer or cancel.
FairSpec == Spec /\ WF_vars(Progress)

-----------------------------------------------------------------------------
(***************************************************************************)
(* Properties                                                              *)
(***************************************************************************)
\* What is shown for the user to decide, or counts as the MCP call in flight, is
\* the call the active turn waits for: an answer cannot reach another call.
PendingIsAwaited ==
    /\ \A p \in action \cup mcp : run.waiting /\ p.key = KeyOf(Now, Current(Now))
    /\ action = {} \/ mcp = {}

\* A turn that waits for a tool has somebody who will answer it: the user, the
\* MCP server, a timer, the SFTP session, or the reconnect that will cancel it.
HasAnswerer ==
    run.waiting =>
        \/ action # {}
        \/ \E m \in mcp : ~m.active
        \/ \E c \in server : c.gen = gen /\ \E m \in mcp : m.key = c.key
        \/ \E k \in ticks : k.key = KeyOf(Now, Current(Now))
        \/ link = "waiting"

\* The steps after which nobody may be left: the reconnect is given up, the SFTP
\* session stops, or the answer is not taken for its size.
LeavesUnanswered == GiveUpReconnect \/ SftpStops \/ AnswerTooLarge

\* A turn that waits for a tool keeps somebody who will answer it, and none
\* begins to wait without: only the three steps above ever leave one to wait
\* until the user cancels it.
AnswererKept == [][HasAnswerer => HasAnswerer' \/ LeavesUnanswered]_vars

\* No dispatch key has its side effect twice: not when a provider names two
\* calls alike, and not by a second approval.
EffectsOnce == IsInjective(ran)

\* An approval is waited for in the ledger as long as it is on the screen, and
\* no longer: the user cannot approve what the ledger will not start.
ApprovalsMatchLedger ==
    \A l \in Ledgers : \A i \in DOMAIN ledger[l] :
        ledger[l][i].st = "awaiting" =>
            ledger[l][i].key \in {p.key : p \in action} \cup {m.key : m \in {x \in mcp : ~x.active}}

\* A request is only repeated while its turn has had no side effect: a command
\* or MCP call whose outcome the provider lost is not run again by a retry.
RetryRepeatsNothing ==
    [][run.turn # 0 /\ run'.turn = run.turn /\ run'.retries > run.retries
          => ran = <<>>]_vars

\* The late end of a request that was aborted changes nothing of the turn that
\* is running now.
LateEndIsIgnored ==
    [][\A r \in Requests : net[r] # None /\ net'[r] = None /\ r # run.req => run' = run]_vars

\* Every turn ends, or waits for the user to decide about a call, or is one that
\* a step of LeavesUnanswered has left to wait.
TurnEnds ==
    \A t \in 1..Turns :
        run.turn = t ~> \/ run.turn # t \/ ~HasAnswerer
                        \/ action # {} \/ \E m \in mcp : ~m.active

-----------------------------------------------------------------------------
(* A statement of the repository the code does not keep.                   *)

\* AI_ARCHITECTURE: an "identical replay" is answered from the ledger, "the same
\* ID with different arguments fails closed".  A command the model asks for is
\* dispatched, or refused for what it is: it is not answered with what became
\* of an earlier call of the turn.
AnsweredForItself ==
    [][run.turn # 0 /\ run'.turn = run.turn /\ run'.calls > run.calls =>
          \A call \in Range(run.exchange) \cup Range(run.pending) :
              \A i \in DOMAIN ledger'["command"] :
                  call.tool = "command" /\ ledger'["command"][i].key = KeyOf(Now, call)
                      => ledger'["command"][i].made = call.made]_vars

=============================================================================
