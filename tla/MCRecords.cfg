SPECIFICATION Spec
CONSTANTS
    NaN = NaN
    None = None
    MaxInteger = 9
    Drafts <- MCDrafts
INVARIANTS
    AcceptedIsStored
    OneRoundTrip
\* A record is written once.
CHECK_DEADLOCK FALSE
