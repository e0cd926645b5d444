CONSTANTS
    a = a  b = b
    Value = {a, b}
    Hole = hole
    NoFile = noFile
    Page = 2
    Chunk = 2
    MaxLength = 6
    Source0 <- Files
    Target0 <- Targets
    Writes = 2
    Fallible = {"query", "open", "create", "sparse", "resize", "read", "write", "cancel"}
SPECIFICATION FairSpec
INVARIANTS TypeOK CopiedIsCopied
PROPERTIES CopyEnds
CHECK_DEADLOCK FALSE
