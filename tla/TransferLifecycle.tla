------------------------- MODULE TransferLifecycle -------------------------
(***************************************************************************)
(* What the transfer manager promises, without threads, events or files:   *)
(* a transfer waits, holds one of Limit slots, rests until the user acts,  *)
(* or is over for good.  The end of the process takes every slot back and  *)
(* leaves nothing that would run by itself afterwards.                     *)
(***************************************************************************)
EXTENDS Naturals, FiniteSets

CONSTANTS
    Tasks,      \* transfer tasks
    Limit       \* how many may hold a slot

VARIABLE phase  \* of each task

Phases == {"new", "waiting", "active", "resting", "over", "forgotten"}

TypeOK == phase \in [Tasks -> Phases]

Init == phase = [t \in Tasks |-> "new"]

In(ps) == {t \in Tasks : phase[t] \in ps}

Move(t, from, to) ==
    /\ phase[t] \in from
    /\ \E p \in to : phase' = [phase EXCEPT ![t] = p]

\* The user queues a transfer, or an interrupted or paused one again.
Submit(t) == Move(t, {"new", "resting"}, {"waiting"})

\* A waiting transfer is taken while a slot is free.
Start(t) == Cardinality(In({"active"})) < Limit /\ Move(t, {"waiting"}, {"active"})

\* A transfer gives its slot back: it is over, it rests, or a decision taken
\* in advance queues it again.
Leave(t) == Move(t, {"active"}, {"over", "resting", "waiting"})

\* A waiting transfer is paused, cancelled, or fails to start.
Withdraw(t) == Move(t, {"waiting"}, {"resting", "over"})

\* A resting transfer is cancelled.
Abandon(t) == Move(t, {"resting"}, {"over"})

\* Transfers that do not run are removed from the list.
Forget(T) ==
    /\ T \subseteq In({"resting", "over"})
    /\ phase' = [t \in Tasks |-> IF t \in T THEN "forgotten" ELSE phase[t]]

\* The process ends.  What waited or ran rests; what was over is forgotten,
\* as are the resting transfers in T, which no journal kept.
Interrupt(T) ==
    /\ T \subseteq In({"resting"})
    /\ phase' = [t \in Tasks |->
                    CASE t \in In({"waiting", "active"}) -> "resting"
                      [] t \in In({"over"}) \cup T       -> "forgotten"
                      [] OTHER                           -> phase[t]]

Next ==
    \/ \E t \in Tasks : Submit(t) \/ Start(t) \/ Leave(t) \/ Withdraw(t) \/ Abandon(t)
    \/ \E T \in SUBSET Tasks : Forget(T) \/ Interrupt(T)

Spec == Init /\ [][Next]_phase
=============================================================================
