CONSTANTS
    p = p  q = q
    home = home  work = work  bell = bell
    blank = blank  letter = letter
    Process = {p, q}
    Job <- Jobs
    UserText <- Texts
    UserEdits = 1
    Folder = {home, work, bell}
    Unprintable = {bell}
    Missing = Missing
    Mistyped = Mistyped
    Broken = Broken
    Absent = Absent
    Refused = Refused
    Nobody = Nobody
    User = User
    Fallible = {"path", "read", "directory", "create", "write", "launch"}
SPECIFICATION Spec
INVARIANTS TypeOK SetIsReadBack UsedIsWhole
SYMMETRY Either
CHECK_DEADLOCK FALSE
