CONSTANTS
    d = d  e = e
    old = old  new = new
    ext4 = ext4  other = other
    w1 = w1  p = p
    Distro = {d}
    Wsl2 = {d}
    Stray = stray
    Dir = {old, new}
    Volume <- VolumeOf
    Name = {ext4, other}
    DefaultName = ext4
    NoVhdName = noVhdName
    NoFile = noFile
    Off = off
    Write = {}
    Process = {p}
    Self = p
    Fallible = {"running", "write", "boot", "read", "restore"}
    UsedMeanwhile = FALSE
    StrangersWrite = FALSE
    RelativePaths = FALSE
SPECIFICATION FairSpec
INVARIANTS EntryIsPutBack RelinkedMeansBooted
PROPERTY RelinkEnds
CHECK_DEADLOCK FALSE
