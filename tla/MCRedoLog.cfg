CONSTANTS
    Appenders = {a1, a2}
    Importers = {}
    Owner = owner
    Timer = timer
    MaxAge = FALSE
    BatchSize = 128
    MaxOps = 2
    Faults = {"rotate"}
    MaxFaults = 1
    Off = Off
    Torn = Torn
    NoTask = NoTask
SYMMETRY Interchangeable
SPECIFICATION Spec
INVARIANTS
    NothingDropped
    ReplayInOrder
PROPERTY TrimsOnlyFlushed
