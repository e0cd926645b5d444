----------------------------- MODULE MCReports -----------------------------
EXTENDS Reports

CONSTANTS d, e, w, lost, dir, ext4, other, third, self

Registrations == [x \in {d, e, w} |-> IF x = d THEN ext4 ELSE IF x = e THEN other ELSE third]

Orders == {<<e, w, d>>}

VolumeOf == [x \in Dir |-> "C"]

Lists == [verb : {"list"}, name : {lost}, probe : BOOLEAN, dryRun : {FALSE}, top : {0}, depth : {0}]
Infos == [verb : {"info"}, name : {d}, probe : BOOLEAN, dryRun : {FALSE}, top : {0}, depth : {0}]
    \cup [verb : {"info"}, name : {lost}, probe : {FALSE}, dryRun : {FALSE}, top : {0}, depth : {0}]
UsageOf(top, depth) ==
    [verb |-> "usage", name |-> d, probe |-> FALSE, dryRun |-> FALSE, top |-> top, depth |-> depth]
Usages == {UsageOf(2, 0), UsageOf(0, 3), UsageOf(2, 2), UsageOf(2, 3)}
Trims == [verb : {"trim"}, name : {d, w, lost}, probe : {FALSE}, dryRun : BOOLEAN, top : {0}, depth : {0}]
DryRuns == [verb : {"usage"}, name : {d, w, lost}, probe : {FALSE}, dryRun : {TRUE}, top : {0}, depth : {0}]
Commands == Lists \cup Infos \cup Usages \cup Trims \cup DryRuns
    \cup [verb : {"usage"}, name : {w}, probe : {FALSE}, dryRun : {FALSE}, top : {0}, depth : {0}]

var == <<"var">>
log == <<"var", "log">>
journal == <<"var", "log", "journal">>
tmp == <<"var", "tmp">>
home == <<"home">>
user == <<"home", "u">>
userCache == <<"home", "u", "cache">>
root == <<"root">>
rootCache == <<"root", "cache">>

Nodes == {<<>>, var, log, journal, tmp, home, user, userCache, root, rootCache}
Mounts == {tmp}

Full == [n \in Nodes |-> IF n \in {journal, userCache} THEN 3 ELSE IF n = rootCache THEN 5 ELSE 1]
Bare == [n \in Nodes |-> IF n \in {log, journal, userCache} THEN 0 ELSE 1]
Trees == {Full, Bare}

Line(fields, place) == [fields |-> fields, home |-> place]
Listings ==
    {{Line(7, root), Line(7, user), Line(7, <<"var">>), Line(3, home)},
     {Line(7, <<"home", "u", "">>), Line(7, user)},
     {Line(7, <<>>), Line(7, home)}}

Caches == <<[path |-> journal, perUser |-> FALSE], [path |-> log, perUser |-> FALSE],
            [path |-> <<"cache">>, perUser |-> TRUE], [path |-> tmp, perUser |-> FALSE]>>

Logs == <<[path |-> log, perUser |-> FALSE]>>
Overview == {UsageOf(0, 0)}
Breakdowns == {UsageOf(0, 3)}
Unprobed == {look \in Lists \cup Infos : ~look.probe}

Units == [u \in Unit |-> CASE u = "B" -> 1 [] u = "KiB" -> 4 [] u = "MiB" -> 16
                          [] u = "GiB" -> 64 [] u = "TiB" -> 256 [] u = "PiB" -> 1024]

Prints == {<<5, Bytes>>, <<2048, Bytes>>, <<2047, Unknown>>, <<Bytes, 7, Bytes>>, <<Unknown, Bytes>>, <<>>}
=============================================================================
