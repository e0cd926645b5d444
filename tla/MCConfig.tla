------------------------------ MODULE MCConfig ------------------------------
EXTENDS Config, TLC

CONSTANTS p, q, home, work, bell, blank, letter

Words(key, values) == [action : {"set"}, key : {key}, value : values, dryRun : {FALSE}]

Sets ==
    Words("dirs", {<<home, blank, work>>}) \cup
    Words("trim", {"false", "maybe"}) \cup
    Words("restart", {"true"}) \cup
    Words("timeout", {<<1, 2, 0>>, <<3, 6, 0, 1>>, <<9, letter>>}) \cup
    Words("shell", {"true"}) \cup
    [action : {"set"}, key : {"restart"}, value : {"true"}, dryRun : {TRUE}]

Asks == [action : {"get"}, key : {"dirs", "timeout", "shell"}, value : {blank}, dryRun : {FALSE}]

Others ==
    [action : {"use", "show", "path", "edit"}, key : {blank}, value : {blank}, dryRun : {FALSE}] \cup
    [action : {"edit"}, key : {blank}, value : {blank}, dryRun : {TRUE}]

Jobs == Sets \cup Asks \cup Others

\* A directory with a control character in its name.
OddJobs == Jobs \cup Words("dirs", {<<bell>>})

HandWritten == [dirs |-> <<work, Mistyped>>, trim |-> FALSE, restart |-> Missing,
                timeout |-> 3600, more |-> TRUE]

\* No file, one that does not parse, hand-written ones with keys of a later
\* version, wrong types and a number out of range.
Texts == {Absent, Broken, HandWritten, [HandWritten EXCEPT !.trim = Mistyped],
          [HandWritten EXCEPT !.dirs = Mistyped, !.restart = TRUE, !.timeout = 3601]}

Either == Permutations({p, q})
=============================================================================
