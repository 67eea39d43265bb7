SPECIFICATION Spec
CONSTANTS
    Workers = {w1}
    hotel = hotel
    flight = flight
    Nodes = {hotel, flight}
    Flights = {flight}
    Supplied = {hotel}
    Cost <- MCCost
    Quotes = {3, 5}
    Invoices = {1, 2, 3, 4}
    Lines <- HotelAndFlight
    Attempts = {a1, a2}
    None = None
SYMMETRY Symmetry
INVARIANTS
    MoneyGate
    OrdersAccounted
CHECK_DEADLOCK FALSE
