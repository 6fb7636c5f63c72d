CONSTANTS
    a = a
    b = b
    Clients = {c1}
    Blocks = {a, b}
    NumPlaces = 4
    BlockOf <- MCBlockOf
    MaxIds = 1
    MaxOps = 3
    MaxRestarts = 1
    MaxEvictions = 0
SPECIFICATION Spec
INVARIANT ReopenSucceeds
CHECK_DEADLOCK FALSE
