CONSTANTS
    out = out  err = err
    Stream = {out, err}
    FirstStream = out
    Nothing = nothing
    Capacity = 2
    Output = 3
    Budget = 3
    Endless = FALSE
    RunFallible = {"start", "wait", "read", "kill", "code"}
SPECIFICATION RunFairSpec
INVARIANTS OutputIsWhole
PROPERTIES RunEnds NeverBlocked
CHECK_DEADLOCK FALSE
