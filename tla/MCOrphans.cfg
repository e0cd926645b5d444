CONSTANTS
    d = d  e = e
    a = a  b = b  c = c
    ext4 = ext4
    Distro = {d, e}
    Wsl2 = {d}
    Stray = stray
    Dir = {a, b, c}
    Volume <- VolumeOf
    Name = {ext4}
    DefaultName = ext4
    NoVhdName = noVhdName
    NoFile = noFile
    Off = off
    Write = {}
    Process = {}
    KeyOrder <- Order
    Patterns <- Overlapping
    Happens = {"register", "move"}
    Fallible = {"keys", "read", "environment", "list", "locked", "remove"}
SPECIFICATION Spec
INVARIANTS ExitTellsWhatIsLeft NothingHidden
PROPERTIES SettledClaimsSurvive
CHECK_DEADLOCK FALSE
