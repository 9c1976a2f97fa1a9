CONSTANTS
    Conns = {c1}
    MaxSignals = 2
SPECIFICATION Spec
CHECK_DEADLOCK FALSE
PROPERTIES SecondSignalKills
