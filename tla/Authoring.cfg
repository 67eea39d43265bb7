SPECIFICATION AuthoringSpec
CONSTANTS
    Runs = {r1, r2}
    Askers = {page, other}
    Me = page
    Cancellers = {c1}
    MaxCrashes = 1
    None = None
    Items = {i1, i2}
    MaxPolls = 1
    MaxClicks = 3
    MaxMishaps = 1
INVARIANTS
    OneInFlight
    SectionsAgree
PROPERTIES
    TerminalFinal
    RunsEnd
    PanelSettles
CHECK_DEADLOCK FALSE
