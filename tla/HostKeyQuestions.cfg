\* A terminal, its panel and a transfer over two hops and two runs.
SPECIFICATION Spec
CONSTANTS
    t = t
    x = x
    Nobody = Nobody
    Tabs = {t}
    Panels = {t}
    Transfers = {x}
    Rules = {}
    Runs = 2
    Hops = 2
    Calls = {"closeTab", "restartPanel", "pause", "quit"}
INVARIANTS AcceptedAsShown
 
\* Nothing runs once every connection has ended and the user rests.
CHECK_DEADLOCK FALSE
