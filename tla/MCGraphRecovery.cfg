CONSTANTS
    a = a
    b = b
    Clients = {c1, c2}
    Blocks = {a, b}
    NumPlaces = 4
    BlockOf <- MCBlockOf
    MaxIds = 2
    MaxOps = 3
    MaxRestarts = 2
    MaxEvictions = 1
SYMMETRY Interchangeable
SPECIFICATION Spec
INVARIANTS
    IndexSound
    LoggedSurvives
    VerticesSurvive
CHECK_DEADLOCK FALSE
