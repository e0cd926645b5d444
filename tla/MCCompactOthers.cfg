CONSTANTS
    d = d  e = e
    dir = dir
    ext4 = ext4  other = other
    w1 = w1  w2 = w2  p = p  s = s
    Distro = {d, e}
    Wsl2 = {d, e}
    Stray = stray
    Dir = {dir}
    Volume <- VolumeOf
    Name = {ext4, other}
    DefaultName = ext4
    NoVhdName = noVhdName
    NoFile = noFile
    Off = off
    Write = {}
    Process = {p, s}
    Self = p
    Scanners = {}
    Fallible = {"running", "terminate", "locked", "measure", "open", "compact"}
    UnlockTimeout = 2
    VmIdleTimeout = 2
    UsedMeanwhile = FALSE
SPECIFICATION Spec
INVARIANTS OnlyTargetsAreStopped RestartsTheOne
SYMMETRY Either
CHECK_DEADLOCK FALSE
