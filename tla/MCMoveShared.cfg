CONSTANTS
    d = d  e = e
    old = old  near = near  far = far
    ext4 = ext4
    w1 = w1 w2 = w2 p = p
    Distro = {d, e}
    Wsl2 = {d}
    Stray = stray
    Dir = {old, near, far}
    Volume <- VolumeOf
    Name = {ext4}
    DefaultName = ext4
    NoVhdName = noVhdName
    NoFile = noFile
    Off = off
    Write = {}
    Process = {p}
    Self = p
    Fallible = {"running", "volume", "rename", "copy", "write", "boot", "remove", "read", "restore", "directory"}
    UsedMeanwhile = TRUE
    StrangersWrite = TRUE
SPECIFICATION FairSpec
INVARIANT EntryIsPutBack
PROPERTIES CopyNeverDangles MoveEnds
CHECK_DEADLOCK FALSE
