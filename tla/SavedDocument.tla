--------------------------- MODULE SavedDocument ---------------------------
(***************************************************************************)
(* What a settings or profile file promises: the document a load returns   *)
(* is the latest one that was saved, or, after that was damaged, the one   *)
(* before it.  A document is only replaced once it is remembered as the    *)
(* earlier one, and a document written by a newer version is not replaced. *)
(***************************************************************************)
CONSTANT Documents

VARIABLES
    latest,     \* what a load returns
    earlier     \* what is left if the latest document is damaged

None  == "none"
Newer == "newer"

Init == latest = None /\ earlier = None

\* The latest document is kept as the earlier one.
Remember ==
    /\ latest \in Documents
    /\ earlier' = latest
    /\ UNCHANGED latest

\* A document is saved over one that has been remembered.
Replace ==
    /\ latest # Newer
    /\ earlier = latest
    /\ latest' \in Documents
    /\ UNCHANGED earlier

\* The latest document is damaged.
FallBack ==
    /\ earlier # None
    /\ latest' = earlier
    /\ UNCHANGED earlier

\* The earlier document is damaged.
Forget ==
    /\ latest # None
    /\ earlier' = None
    /\ UNCHANGED latest

\* A newer version of the program saves a document of its own.
Upgrade ==
    /\ latest' = Newer
    /\ earlier' \in {latest, earlier, None} \ {Newer}

Next == Remember \/ Replace \/ FallBack \/ Forget \/ Upgrade

Spec == Init /\ [][Next]_<<latest, earlier>>

=============================================================================
