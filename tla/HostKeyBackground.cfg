\* A transfer and a rule compete for the dialog with each other and with a tab.
SPECIFICATION FairSpec
CONSTANTS
    t = t
    x = x
    r = r
    Nobody = Nobody
    Tabs = {t}
    Panels = {}
    Transfers = {x}
    Rules = {r}
    Runs = 2
    Hops = 1
    Calls = {"closeTab", "stopRule", "quit"}
INVARIANTS DialogHasOwner
PROPERTIES EveryQuestionAnswered
\* Nothing runs once every connection has ended and the user rests.
CHECK_DEADLOCK FALSE
