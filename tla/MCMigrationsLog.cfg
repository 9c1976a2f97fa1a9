CONSTANTS
    Instances = {i1, i2}
    Versions <- MCVersions
    Checksums <- MCChecksums
    Broken <- MCBroken
    Builds <- ManyBuilds
    MaxStarts = 3
    None = None
    Ghost = Ghost
    good = good
    edited = edited
    bad = bad
SPECIFICATION Spec
SYMMETRY Symmetry
CHECK_DEADLOCK FALSE
INVARIANTS IndInv RecordedIffRan GapsComeFromBuilds ServersAgree StartsFailAlone
PROPERTIES MigrateKeepsLog
