SPECIFICATION Spec
CONSTANTS
    Workers = {w1}
    Invoices = {i1, i2}
    n1 = n1
    Nodes = {n1}
    LineIds = {l1, l2, l3}
    Refs = {r1, r2}
    Keys = {k1}
    None = None
    Entries <- MCEntries
    EffectiveCost <- MCCost
PROPERTIES
    SettlesAsPromised
CHECK_DEADLOCK FALSE
