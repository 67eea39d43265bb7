SPECIFICATION Spec
CONSTANTS
    Workers = {w1, w2}
    Invoices = {i1}
    n1 = n1
    Nodes = {n1}
    LineIds = {l1}
    Refs = {r1, r2}
    Keys = {k1}
    None = None
    Entries <- MCEntries
    EffectiveCost <- MCCost
INVARIANTS
    SettledOnce
CHECK_DEADLOCK FALSE
