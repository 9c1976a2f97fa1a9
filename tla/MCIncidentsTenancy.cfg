CONSTANTS
    Teams = {t1, t2}
    Ids <- TwoIds
    ExtIds = {e1}
    Statuses = {open, resolved}
    open = open
    Filters <- MCFilters
    StartTimes <- MCStarts
    EndTimes <- MCEnds
    Limits <- MCLimits
    Offsets <- MCOffsets
    DefaultIncidentLimit = 1
    MaxIncidentLimit = 2
    None = None
    Keep = Keep
SPECIFICATION Spec
SYMMETRY Symmetry
CHECK_DEADLOCK FALSE
INVARIANTS IndInv TeamsAreBlind
PROPERTIES TeamsApart
