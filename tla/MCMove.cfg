CONSTANTS
    d = d  e = e
    old = old  near = near  far = far
    ext4 = ext4
    w1 = w1 w2 = w2 p = p
    Distro = {d, e}
    Wsl2 = {d, e}
    Stray = stray
    Dir = {old, near, far}
    Volume <- VolumeOf
    Name = {ext4}
    DefaultName = ext4
    NoVhdName = noVhdName
    NoFile = noFile
    Off = off
    Write = {w1}
    Process = {p}
    Self = p
    Fallible = {"running", "volume", "rename", "copy", "write", "boot", "remove", "read", "directory"}
    UsedMeanwhile = FALSE
    StrangersWrite = FALSE
SPECIFICATION Spec
INVARIANTS TypeOK Lossless RollbackRestores SuccessMeansMoved
PROPERTIES DeletedOnlyAfterBoot StraysSurvive MoveIsRelocation
CHECK_DEADLOCK FALSE
