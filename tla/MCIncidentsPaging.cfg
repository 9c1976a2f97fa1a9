CONSTANTS
    Teams = {t1}
    Ids <- FourIds
    ExtIds = {}
    Statuses = {open, resolved}
    open = open
    Filters <- OpenOnly
    StartTimes <- MCStarts
    EndTimes = {}
    Limits <- MCLimits
    Offsets <- MCOffsets
    DefaultIncidentLimit = 1
    MaxIncidentLimit = 2
    None = None
    Keep = Keep
SPECIFICATION Spec
CHECK_DEADLOCK FALSE
INVARIANTS WalkMissesNothing WalkRepeatsNothing
