CONSTANTS
    Appenders = {i1}
    Importers = {i1}
    Owner = owner
    Timer = timer
    MaxAge = TRUE
    BatchSize = 2
    MaxOps = 3
    Faults = {"renew"}
    MaxFaults = 1
    Off = Off
    Torn = Torn
    NoTask = NoTask
SPECIFICATION Spec
INVARIANT AckedSurvives
