CONSTANTS
    Conns = {c1, c2, c3}
    MaxSignals = 2
    Absent = Absent
    Blank = Blank
    Garbled = Garbled
    Forgotten = Forgotten
    Machines <- MCMachines
    Corrections <- MCCorrections
    SchemaWidth = 1536
    ConnectTicks = 4
    RetryTicks = 2
SPECIFICATION FairBootSpec
CHECK_DEADLOCK FALSE
INVARIANTS IndInv CleanExitDropsNothing ListenerFailureReported NothingLeftOpen StoresOutliveRequests LaterChecksAgree OnePassSuffices
PROPERTIES StopEnds ReadyStoreIsFound
