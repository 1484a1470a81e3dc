SPECIFICATION FairSpec
CONSTANTS
    Reqs = {r1, r2, r3}
    Unlucky = {r3}
    Tracings = {"off", "store", "export"}
    MaxSpans = 2
    ChannelSize = 1
    BatchSize = 2
INVARIANT FinalStatusRecorded
INVARIANT RecentSpans
PROPERTY StopDrains
CHECK_DEADLOCK FALSE
