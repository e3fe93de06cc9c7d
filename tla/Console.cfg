SPECIFICATION ConsoleSpec
CONSTANTS
    Collections = {A, B}
    Names = {n}
    Calls = {k1, k2}
    PollLimit = 1
    None = None
INVARIANTS
    ConsoleTypeOK
    ScreenIsOfCollection
    ButtonsHaveCalls
PROPERTIES
    QuerySettles
    DeletingSettles
    PollingStops
