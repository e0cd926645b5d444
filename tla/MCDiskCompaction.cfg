CONSTANTS
    Attempts = 100
    Steps = 4
    MayCancel = TRUE
    DiskFallible = {"event", "start", "wait", "query", "disk"}
SPECIFICATION DiskFairSpec
INVARIANTS FrameOutlivesTheWork OkMeansDone
PROPERTY AbandonEnds
CHECK_DEADLOCK FALSE
