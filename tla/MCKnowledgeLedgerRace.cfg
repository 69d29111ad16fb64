SPECIFICATION LedgerSpec
CONSTANTS
    a = a
    b = b
    c1 = c1
    c2 = c2
    s1 = s1
    e1 = e1
    e2 = e2
    None = None
    Ids = {a, b}
    Clients = {c1, c2}
    Sources = {s1}
    Evidence = {e1}
    Time = {1, 2}
SYMMETRY Symmetry
INVARIANTS
    FactsHold
    HistoriesLegal
PROPERTIES
    DecidesAtOnce
CHECK_DEADLOCK FALSE
