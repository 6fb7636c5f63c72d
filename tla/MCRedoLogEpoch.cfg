CONSTANTS
    Appenders = {a1, a2}
    Importers = {}
    Owner = owner
    Timer = timer
    MaxAge = FALSE
    BatchSize = 128
    MaxOps = 1
    Faults = {}
    MaxFaults = 0
    Off = Off
    Torn = Torn
    NoTask = NoTask
SPECIFICATION Spec
INVARIANT AckedSurvives
