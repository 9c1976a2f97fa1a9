CONSTANTS
    Instances = {i1, i2}
    Versions <- MCVersions
    Checksums <- MCChecksums
    Broken <- MCBroken
    Builds <- TwoBuilds
    MaxStarts = 3
    None = None
    Ghost = Ghost
    good = good
    edited = edited
    bad = bad
SPECIFICATION FairSpec
CHECK_DEADLOCK FALSE
PROPERTIES StartsEnd
