CONSTANTS
    r1 = r1
    r2 = r2
    r3 = r3
    Requests <- Three
    Asks <- MCAsks
    Emails = {e1}
    Teams = {t1, t2, t3}
    PoolSize = 2
    Checks = {postgres, redis}
    PooledChecks = {postgres}
    InnerStatuses <- MCStatuses
    None = None
SPECIFICATION FairSpec
CHECK_DEADLOCK FALSE
INVARIANTS IndInv LogTellsWhatWasSent OneDocument AnswersTrue HealthTellsAll
PROPERTIES RegistrationIsAtomic RequestsEnd
