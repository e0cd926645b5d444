CONSTANTS
    d = d  e = e
    dir = dir
    ext4 = ext4  other = other
    w1 = w1  w2 = w2  p = p  s = s
    Distro = {d}
    Wsl2 = {d}
    Stray = stray
    Dir = {dir}
    Volume <- VolumeOf
    Name = {ext4, other}
    DefaultName = ext4
    NoVhdName = noVhdName
    NoFile = noFile
    Off = off
    Write = {w1}
    Process = {p, s}
    Self = p
    Scanners = {s}
    Fallible = {"running", "snapshot", "trim", "rejected", "terminate", "shutdown", "linger", "stale", "open", "compact", "boot"}
    UnlockTimeout = 2
    VmIdleTimeout = 2
    UsedMeanwhile = FALSE
SPECIFICATION FairSpec
INVARIANTS NeverSeenToGrow
PROPERTIES BusyMeansHeld CompactEnds
CHECK_DEADLOCK FALSE
