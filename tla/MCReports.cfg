CONSTANTS
    d = d  e = e  w = w  lost = lost
    dir = dir
    ext4 = ext4  other = other  third = third
    self = self
    Distro = {d, e, w}
    Wsl2 = {d, e}
    Stray = stray
    Dir = {dir}
    Volume <- VolumeOf
    Name = {ext4, other, third}
    DefaultName = ext4
    NoVhdName = noVhdName
    NoFile = noFile
    Off = off
    Write = {}
    Process = {self}
    Self = self
    Kilo = 4
    Word = 2047
    Precision = 2
    Multiplier <- Units
    Unknown = unknown
    Bytes = bytes
    Named = {"var", "log", "journal", "tmp", "home", "u", "cache", "root"}
    Node <- Nodes
    Mounted <- Mounts
    NoName = ""
    HomeDir = "home"
    Rooted = {"root"}
    Command <- Commands
    Fallible = {"enumerate", "running", "size", "open", "information", "run"}
    Order <- Orders
    OnDisk = {2047}
    Tree <- Trees
    Free = 1
    Passwd <- Listings
    Catalogue <- Caches
    Fstrim <- Prints
    Registered <- Registrations
    Used = {d}
    Changes = 1
SPECIFICATION Spec
INVARIANTS TypeOK OnlyTheAskedIsStarted NeverInItsOwnWay FiguresAreTheGuests SizesAreHonest CountedOnce AttributedOnce
CHECK_DEADLOCK FALSE
