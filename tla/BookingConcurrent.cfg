SPECIFICATION Spec
CONSTANTS
    Workers = {w1, w2}
    hotel = hotel
    flight = flight
    Nodes = {hotel}
    Flights = {}
    Supplied = {hotel}
    Cost <- MCCost
    Quotes = {}
    Invoices = {1, 2}
    Lines <- OneCharge
    Attempts = {a1, a2}
    None = None
SYMMETRY Symmetry
INVARIANTS
    OperatorLetsGoFirst
CHECK_DEADLOCK FALSE
