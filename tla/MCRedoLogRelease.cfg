CONSTANTS
    Appenders = {a1, i1}
    Importers = {i1}
    Owner = owner
    Timer = timer
    MaxAge = TRUE
    BatchSize = 2
    MaxOps = 1
    Faults = {"rotate", "write", "renew"}
    MaxFaults = 1
    Off = Off
    Torn = Torn
    NoTask = NoTask
SPECIFICATION FairSpec
PROPERTY CallersReleased
