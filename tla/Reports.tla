------------------------------ MODULE Reports ------------------------------
(***************************************************************************)
(* The commands that report on distributions: `list` and `info`, which     *)
(* measure disks from outside and ask a guest that is up (or is to be      *)
(* probed), and `usage` and `trim`, which run programs in one guest.  The  *)
(* user starts and stops distributions and guests change their files       *)
(* between any two steps; everything asked of the machine may fail.        *)
(***************************************************************************)
EXTENDS Wsl, Figures, Accounts

CONSTANTS
    Self,       \* the process running the command
    Command,    \* the command lines
    Fallible,   \* the calls that may fail for a reason the model has no state for
    Order,      \* the orders the registry may list the distributions in
    OnDisk,     \* what a disk file may occupy on its volume
    Tree,       \* what a guest's directories may hold
    Free,       \* what df says is free
    Passwd,     \* what the guest's password file may list
    Catalogue,  \* the cache catalogue, in its order
    Fstrim,     \* what fstrim may print
    Registered, \* the name each distribution's disk is registered under
    Used,       \* distributions the user starts
    Changes     \* how often guests change their files

ASSUME ReportsAssumption ==
    /\ Self \in Process
    /\ Fallible \subseteq {"enumerate", "running", "size", "open", "information", "run"}
    /\ Order \subseteq Seq(Distro) /\ \A order \in Order : ToSet(order) = Distro
    /\ OnDisk \subseteq 0 .. Word
    /\ Tree \subseteq [Node -> Nat]
    /\ Fstrim \subseteq Seq(Nat \cup {Unknown, Bytes})
    /\ Used \subseteq Wsl2 /\ Changes \in Nat

MayFail(call) == call \in Fallible

VARIABLES
    pc,
    job,       \* the command line
    todo,      \* distributions still to be measured
    paths,     \* paths still to be measured
    now,       \* the distribution being measured
    up,        \* the last answer of running(), or Unknown
    rows,      \* list and info: a row for each distribution
    report,    \* usage: what was found; trim: what was trimmed
    outcome,
    own,       \* what the directories of each guest hold
    changes,   \* how often that changed
    seenUp,    \* the distributions that were up when asked for their own row
    started,   \* those it has booted
    failed,    \* a call has failed
    told       \* what the programs in each guest really printed

command == <<pc, job, todo, paths, now, up, rows, report, outcome, seenUp, started, failed, told>>
vars == <<machine, command, own, changes>>

Blank == [state |-> Unknown, onDisk |-> Unknown, geometry |-> FALSE,
          used |-> Unknown, free |-> Unknown, reclaimable |-> Unknown]
NoReport == [used |-> 0, free |-> 0, noted |-> FALSE, homes |-> {}, entries |-> {},
             counted |-> 0, directories |-> {}, trimmed |-> Unknown]

Mine == [by |-> Self, path |-> Home(now), shared |-> FALSE]

TypeOK ==
    /\ MachineTypeOK
    /\ pc \in {"enumerate", "running", "next", "exists", "open", "close", "guest", "df",
               "totals", "homes", "measure", "walk", "fstrim", "again", "done"}
    /\ job \in Command
    /\ DOMAIN rows \subseteq Distro
    /\ outcome \in {"none", "ok", "not found", "preflight", "error"}
    /\ own \in [Wsl2 -> Tree]
    /\ changes \in 0 .. Changes
    /\ seenUp \subseteq Distro /\ started \subseteq Distro
    /\ handles = IF pc = "close" THEN {Mine} ELSE {}

(* What an entry calls its disk and how it spells the path plays no part.  *)
Init ==
    /\ MachineInit
    /\ \A d \in Distro : registry[d].vhd = Registered[d] /\ ~registry[d].base.extended
    /\ pc = "enumerate"
    /\ job \in Command
    /\ todo = <<>>
    /\ paths = <<>>
    /\ now = Unknown
    /\ up = Unknown
    /\ rows = <<>>
    /\ report = NoReport
    /\ outcome = "none"
    /\ own \in [Wsl2 -> Tree]
    /\ changes = 0
    /\ seenUp = {} /\ started = {} /\ failed = FALSE /\ told = [d \in Distro |-> {}]
----------------------------------------------------------------------------
Quiet == changes = 0
Looks == job.verb \in {"list", "info"}

Goto(next) == pc' = next /\ UNCHANGED outcome
End(code) == pc' = "done" /\ outcome' = code

(* wsl.exe ran a program in d and has its output: `booted` is set when it  *)
(* had to start the distribution for it.                                   *)
Ran(d) ==
    /\ RunsIn(d)
    /\ started' = started \cup ({d} \ Running)
    /\ UNCHANGED failed

(* It ran and came back with nothing to read, or the distribution does not *)
(* start; or it could not be run, or took too long.                        *)
RanForNothing(d) ==
    /\ failed' = TRUE
    /\ \/ CannotRunIn(d) /\ UNCHANGED started
       \/ MayFail("run") /\ RunsIn(d) /\ started' = started \cup ({d} \ Running)

CouldNotRun(d) ==
    /\ MayFail("run")
    /\ failed' = TRUE
    /\ MayHaveRunIn(d)
    /\ started' = started \cup {e \in {d} \ Running : guest'[e] # Off}

Outside == UNCHANGED <<files, registry, handles, written, job, own, changes>>
NotRun == UNCHANGED <<guest, attached, started>>

(* The registry is read once; `usage` and `trim` then look up one name.    *)
Enumerate ==
    /\ pc = "enumerate"
    /\ \/ /\ MayFail("enumerate")
          /\ End("error")
          /\ failed' = TRUE
          /\ UNCHANGED <<todo, now>>
       \/ /\ UNCHANGED failed
          /\ IF Looks
             THEN Goto("running") /\ todo' \in Order /\ UNCHANGED now
             ELSE /\ UNCHANGED todo
                  /\ IF job.name \notin Distro THEN End("not found") /\ UNCHANGED now
                     ELSE /\ now' = job.name
                          /\ IF job.dryRun /\ (job.verb = "usage" \/ job.name \in Wsl2) THEN End("ok")
                             ELSE IF job.name \notin Wsl2 THEN End("preflight")
                             ELSE Goto(IF job.verb = "usage" THEN "totals" ELSE "fstrim")
    /\ NotRun /\ Outside
    /\ UNCHANGED <<paths, up, rows, report, seenUp, told>>
----------------------------------------------------------------------------
(* list and info                                                           *)

(* Asked once for the STATE column of every row.                           *)
AskRunning ==
    /\ pc = "running"
    /\ Goto("next")
    /\ \/ up' = Running /\ UNCHANGED failed
       \/ MayFail("running") /\ up' = Unknown /\ failed' = TRUE
    /\ NotRun /\ Outside
    /\ UNCHANGED <<todo, paths, now, rows, report, seenUp, told>>

(* Mutant: --probe starts whatever is listed.                              *)
ProbesAll(d) == job.probe

Probes(d) == job.probe /\ (job.verb = "info" => d = job.name)

NextRow ==
    /\ pc = "next"
    /\ todo # <<>>
    /\ todo' = Tail(todo)
    /\ now' = Head(todo)
    /\ rows' = [g \in DOMAIN rows \cup {now'} |->
                   IF g # now' THEN rows[g]
                   ELSE [Blank EXCEPT !.state = IF up = Unknown THEN Unknown
                                                ELSE IF now' \in up THEN "running" ELSE "stopped"]]
    /\ Goto(IF now' \in Wsl2 THEN "exists" ELSE "next")
    /\ NotRun /\ Outside
    /\ UNCHANGED <<paths, up, report, seenUp, failed, told>>

(* info measures every row and then shows the one that was asked for.      *)
LastRowDone ==
    /\ pc = "next"
    /\ todo = <<>>
    /\ End(IF job.verb = "list" \/ job.name \in Distro THEN "ok" ELSE "not found")
    /\ NotRun /\ Outside
    /\ UNCHANGED <<todo, paths, now, up, rows, report, seenUp, failed, told>>

(* What the file system says of the file, each figure on its own.          *)
MeasureFile ==
    /\ pc = "exists"
    /\ IF ~Exists(Home(now)) THEN Goto("guest") /\ UNCHANGED <<rows, failed>>
       ELSE /\ Goto("open")
            /\ \/ /\ \E n \in OnDisk : rows' = [rows EXCEPT ![now].onDisk = n]
                  /\ UNCHANGED failed
               \/ MayFail("size") /\ failed' = TRUE /\ UNCHANGED rows
    /\ NotRun /\ Outside
    /\ UNCHANGED <<todo, paths, now, up, report, seenUp, told>>

(* Mutant: a handle is opened whose use is then given up.                  *)
OpenDiskForNothing ==
    /\ pc = "open"
    /\ CanRead(Home(now))
    /\ handles' = handles \cup {Mine}
    /\ failed' = TRUE
    /\ Goto("guest")
    /\ NotRun
    /\ UNCHANGED <<files, registry, written, job, own, changes,
                   todo, paths, now, up, rows, report, seenUp, told>>

OpenDisk ==
    /\ pc = "open"
    /\ \/ /\ CanRead(Home(now))
          /\ handles' = handles \cup {Mine}
          /\ Goto("close")
          /\ UNCHANGED failed
       \/ /\ ~CanRead(Home(now)) \/ MayFail("open")
          /\ failed' = TRUE
          /\ Goto("guest")
          /\ UNCHANGED handles
    /\ NotRun
    /\ UNCHANGED <<files, registry, written, job, own, changes,
                   todo, paths, now, up, rows, report, seenUp, told>>

(* Mutant: the handle lives as long as the measurement.                    *)
CloseDiskLate ==
    /\ pc = "close"
    /\ Goto("guest")
    /\ rows' = [rows EXCEPT ![now].geometry = TRUE]
    /\ NotRun /\ Outside
    /\ UNCHANGED <<todo, paths, now, up, report, seenUp, failed, told>>

(* The geometry is read and the handle goes out of scope.                  *)
CloseDisk ==
    /\ pc = "close"
    /\ Goto("guest")
    /\ handles' = handles \ {Mine}
    /\ \/ rows' = [rows EXCEPT ![now].geometry = TRUE] /\ UNCHANGED failed
       \/ MayFail("information") /\ failed' = TRUE /\ UNCHANGED rows
    /\ NotRun
    /\ UNCHANGED <<files, registry, written, job, own, changes,
                   todo, paths, now, up, report, seenUp, told>>

(* Asked again for each row, since only a guest that is up is asked df.    *)
AskGuest ==
    /\ pc = "guest"
    /\ \/ /\ seenUp' = seenUp \cup ({now} \cap Running)
          /\ Goto(IF now \in Running \/ Probes(now) THEN "df" ELSE "next")
          /\ UNCHANGED failed
       \/ /\ MayFail("running")
          /\ failed' = TRUE
          /\ Goto("next")
          /\ UNCHANGED seenUp
    /\ NotRun /\ Outside
    /\ UNCHANGED <<todo, paths, now, up, rows, report, told>>

(* df's figures below its header, in one row, in a row of their own after  *)
(* a long device name, or not where they should be.                        *)
DfPrints(used) ==
    LET columns == <<used + Free, used, Free, Unknown, Unknown>>
        header == <<Unknown, Unknown, Unknown, Unknown, Unknown, Unknown, Unknown>>
    IN {<<header, <<Unknown>> \o columns, <<>>>>, <<header, <<Unknown>>, columns>>, <<header>>}

Df == Du(own[now], <<>>)

Tell(figures) == told' = [told EXCEPT ![now] = @ \cup figures]

DfTells == Tell({[used |-> Df, free |-> Free]})

RowOf(row, figures) ==
    [row EXCEPT !.used = figures.used, !.free = figures.free,
                !.reclaimable = Reclaimable(row.onDisk, figures.used)]

ProbeGuest ==
    /\ pc = "df"
    /\ Goto("next")
    /\ \/ /\ Ran(now)
          /\ \E figures \in {ParseDf(printed) : printed \in DfPrints(Df)} :
                rows' = [rows EXCEPT ![now] = RowOf(@, figures)]
          /\ DfTells
       \/ /\ RanForNothing(now) \/ CouldNotRun(now)
          /\ UNCHANGED <<rows, told>>
    /\ Outside
    /\ UNCHANGED <<todo, paths, now, up, report, seenUp>>
----------------------------------------------------------------------------
(* usage                                                                   *)

UsageStays == UNCHANGED <<todo, now, up, rows, seenUp>>

(* Mutant: figures that cannot be made out go unmentioned.                 *)
TotalsUnnoted(figures) ==
    IF figures = NoUsage THEN report
    ELSE [report EXCEPT !.used = figures.used, !.free = figures.free]

(* Figures that cannot be made out stay zero, with a note.                 *)
Totals(figures) ==
    IF figures = NoUsage THEN [report EXCEPT !.noted = TRUE]
    ELSE [report EXCEPT !.used = figures.used, !.free = figures.free]

(* Only a df that could not be run ends the command.                       *)
ReadTotals ==
    /\ pc = "totals"
    /\ \/ /\ Ran(now)
          /\ \E printed \in DfPrints(Df) : report' = Totals(ParseDf(printed))
          /\ DfTells
          /\ Goto("homes")
       \/ RanForNothing(now) /\ Goto("homes") /\ report' = Totals(NoUsage) /\ UNCHANGED told
       \/ CouldNotRun(now) /\ End("error") /\ UNCHANGED <<report, told>>
    /\ Outside /\ UsageStays
    /\ UNCHANGED paths

PathsOf(homes) ==
    FoldLeft(LAMBDA found, entry : found \o SetToSeq(PathsFor(entry, homes)), <<>>, Catalogue)

OnlyRoot == {<<"root">>}

(* With no user listed, only /root is looked at.                           *)
ListedHomes(lines) == IF HomeDirectories(lines) = {} THEN OnlyRoot ELSE HomeDirectories(lines)

AllListed == {ListedHomes(lines) : lines \in Passwd}
Homes == {OnlyRoot} \cup AllListed

(* No two entries of the catalogue name the same place, and none ends in a *)
(* slash (parse_catalogue() and caches.toml); a disk holds so much less    *)
(* than a word counts that as often as there are places it still fits one. *)
ASSUME CatalogueAssumption ==
    /\ Catalogue \in Seq([path : Seq(Named), perUser : BOOLEAN])
    /\ \A lines \in Passwd :
          IsFiniteSet(lines) /\ \A line \in lines : line.home \in Seq(Named \cup {NoName})
    /\ \A homes \in Homes :
          /\ IsInjective(PathsOf(homes))
          /\ \A tree \in Tree : Len(PathsOf(homes)) * BytesOf(tree, Node) <= Word

HomesOf ==
    /\ pc = "homes"
    /\ \E homes \in Homes :
          /\ report' = [report EXCEPT !.homes = homes]
          /\ paths' = PathsOf(homes)
          /\ \/ Ran(now) /\ homes \in AllListed
             \/ (RanForNothing(now) \/ CouldNotRun(now)) /\ homes = OnlyRoot
    /\ Goto("measure")
    /\ Outside /\ UsageStays
    /\ UNCHANGED told

(* A path that is not there is nothing, and so is one du could not answer  *)
(* for.                                                                    *)
MeasurePath ==
    /\ pc = "measure"
    /\ paths # <<>>
    /\ paths' = Tail(paths)
    /\ LET bytes == Du(own[now], Head(paths))
       IN \/ /\ Ran(now)
             /\ report' = IF bytes = 0 THEN report
                          ELSE [report EXCEPT !.entries = @ \cup {[path |-> Head(paths), bytes |-> bytes]}]
             /\ Goto("measure")
          \/ RanForNothing(now) /\ Goto("measure") /\ UNCHANGED report
          \/ CouldNotRun(now) /\ End("error") /\ UNCHANGED report
    /\ Outside /\ UsageStays
    /\ UNCHANGED told

(* The entries are added up, then cut to the largest, and only those are   *)
(* left for directories to be put down to.                                 *)
AccountForNesting ==
    /\ pc = "measure"
    /\ paths = <<>>
    /\ \E kept \in Largest(report.entries, job.top) :
          report' = [report EXCEPT !.counted = Counted(report.entries), !.entries = kept]
    /\ IF job.depth > 0 THEN Goto("walk") ELSE End("ok")
    /\ NotRun /\ Outside /\ UsageStays
    /\ UNCHANGED <<paths, failed, told>>

(* A walk that printed nothing leaves the breakdown empty.                 *)
MeasureDirectories ==
    /\ pc = "walk"
    /\ \/ /\ Ran(now)
          /\ \E kept \in Largest(Breakdown(own[now], job.depth, report.entries), job.top) :
                report' = [report EXCEPT !.directories = kept]
          /\ End("ok")
       \/ RanForNothing(now) /\ End("ok") /\ UNCHANGED report
       \/ CouldNotRun(now) /\ End("error") /\ UNCHANGED report
    /\ Outside /\ UsageStays
    /\ UNCHANGED <<paths, told>>
----------------------------------------------------------------------------
(* trim                                                                    *)

(* fstrim ran: what it printed, or that it does not know the option -v.    *)
FstrimDone ==
    /\ \E printed \in Fstrim :
          /\ report' = [report EXCEPT !.trimmed = ParseTrimmedBytes(printed)]
          /\ Tell({[trimmed |-> word] : word \in ToSet(printed)})
    /\ End("ok")

RunFstrim ==
    /\ pc = "fstrim"
    /\ \/ Ran(now) /\ FstrimDone
       \/ Ran(now) /\ Goto("again") /\ UNCHANGED <<report, told>>
       \/ (RanForNothing(now) \/ CouldNotRun(now)) /\ End("error") /\ UNCHANGED <<report, told>>
    /\ Outside /\ UsageStays
    /\ UNCHANGED paths

(* Without -v it is meant to say nothing, and what it says is read too.    *)
RunFstrimPlain ==
    /\ pc = "again"
    /\ \/ Ran(now) /\ FstrimDone
       \/ (RanForNothing(now) \/ CouldNotRun(now)) /\ End("error") /\ UNCHANGED <<report, told>>
    /\ Outside /\ UsageStays
    /\ UNCHANGED paths
----------------------------------------------------------------------------
GuestChanges ==
    /\ changes < Changes
    /\ pc # "done"
    /\ \E d \in Running : \E tree \in Tree \ {own[d]} : own' = [own EXCEPT ![d] = tree]
    /\ changes' = changes + 1
    /\ UNCHANGED <<machine, command>>

Ask == Enumerate \/ AskRunning \/ NextRow \/ LastRowDone \/ MeasureFile \/ OpenDisk
       \/ CloseDisk \/ AskGuest \/ ProbeGuest
Usage == ReadTotals \/ HomesOf \/ MeasurePath \/ AccountForNesting \/ MeasureDirectories
Trim == RunFstrim \/ RunFstrimPlain

Others ==
    /\ pc # "done"
    /\ MachineNext(Used, {})
    /\ UNCHANGED <<command, own, changes>>

Next == Ask \/ Usage \/ Trim \/ GuestChanges \/ Others

Spec == Init /\ [][Next]_vars
----------------------------------------------------------------------------
(* `list` and `info` start none but a distribution they are to probe, or   *)
(* one that was up when they asked for its own row and has stopped since;  *)
(* `usage` and `trim` none but the one they are given, and in a dry run    *)
(* not even that (measure_guest(), gather(), run_usage(), run_trim()).     *)
OnlyTheAskedIsStarted ==
    \A d \in started :
        \/ Looks /\ d \in seenUp
        \/ Looks /\ job.probe /\ (job.verb = "info" => job.name = d)
        \/ ~Looks /\ ~job.dryRun /\ job.name = d

(* `usage` does not "start a distribution to measure it" (USAGE.md:168).   *)
(* The code does not keep this (README, section 6).                        *)
UsageStartsNone == job.verb = "usage" => started = {}

(* Without --probe "measuring must not change what is running"             *)
(* (disk_info.h:68): `list` and `info` start nothing.                      *)
(* The code does not keep this (README, section 6).                        *)
LooksStartNone == Looks /\ ~job.probe => started = {}

(* A command is never in its own way: a guest it is about to run a program *)
(* in is up or can boot, and the measuring of its disk from outside does   *)
(* not deny it the file (measure(): the handle is gone before              *)
(* measure_guest()).                                                       *)
NeverInItsOwnWay ==
    pc \in {"df", "totals", "homes", "measure", "walk", "fstrim", "again"} =>
        \/ now \in Running
        \/ ~Exists(Home(now)) \/ ~files[Home(now)].whole
        \/ CanBoot(now)

(* The figures of a row are the used and the free of one df in that very   *)
(* guest, and what is left of its disk once the used is taken off; those   *)
(* of a usage report are, too, or a note says that they are not known; and *)
(* what was trimmed is a word fstrim printed there.  None comes from       *)
(* another column, another guest or a number that wrapped around           *)
(* (parse_df(), measure_guest(), read_totals(), parse_trimmed_bytes()).    *)
FiguresAreTheGuests ==
    /\ \A d \in DOMAIN rows :
          /\ [used |-> rows[d].used, free |-> rows[d].free] \in told[d] \cup {NoUsage}
          /\ rows[d].reclaimable = Reclaimable(rows[d].onDisk, rows[d].used)
    /\ pc \in {"homes", "measure", "walk"} \/ (pc = "done" /\ report.homes # {}) =>
          report.noted \/ [used |-> report.used, free |-> report.free] \in told[now]
    /\ report.trimmed # Unknown => [trimmed |-> report.trimmed] \in told[now]

(* A report always has "Bytes `df` reports in use inside the guest" and    *)
(* those it "reports available" (JSON.md:155-156).                         *)
(* The code does not keep this (README, section 6).                        *)
TotalsAreTheGuests ==
    job.verb = "usage" /\ ~job.dryRun /\ outcome = "ok" =>
        [used |-> report.used, free |-> report.free] \in told[now]

(* No size a table shows says more than there is, and it can be given back *)
(* to wsldisk as it is printed (format_size(), parse_size()).              *)
SizesAreHonest ==
    LET shown == ({rows[d].onDisk : d \in DOMAIN rows} \cup {rows[d].used : d \in DOMAIN rows}
                  \cup {report.used, report.counted, report.trimmed}) \ {Unknown}
    IN \A n \in shown :
          LET text == FormatSize(n)
          IN /\ Honest(n)
             /\ Reread(text) = ParseSize(text.whole, IF text.tenths = NoTenths THEN <<>>
                                                     ELSE <<text.tenths>>, text.unit)

(* Every home is spelled without a slash at its end.                       *)
SpelledPlainly == \A home \in report.homes : Canonical(home) = home

(* No entry is on a file system mounted inside a place it belongs to.      *)
MountsHideNone(place, places) ==
    \A inner \in places \cap Node : IsPrefix(place, inner) => inner \in Within(place)

Space(places) == UNION {Within(place) : place \in places}
SpaceIn(places) == BytesOf(own[now], Space(places))

(* In a guest whose files keep still every byte of the catalogue's places  *)
(* is counted once, those in nested places and those cut from the table    *)
(* included, and nothing else is (measure(), account_for_nesting()).       *)
CountedOnce ==
    LET places == ToSet(PathsOf(report.homes))
    IN job.verb = "usage" /\ outcome # "error" /\ pc \in {"walk", "done"} /\ ~job.dryRun
           /\ Quiet /\ ~failed /\ report.homes # {} /\ SpelledPlainly
           /\ (\A place \in places : MountsHideNone(place, places)) =>
       report.counted = SpaceIn(places)

(* What a directory is said to hold of the entries in the table is what    *)
(* those in it or at it do hold, each byte once, and no more than the      *)
(* directory itself has unless a mount lies between.  Where no entry holds *)
(* the directory that is the overlap of the two; in a directory further    *)
(* down in an entry it is not (attribute(), after the cut).                *)
Shown == {entry.path : entry \in report.entries}

OverlapWith(row) == BytesOf(own[now], Within(row.path) \cap Space(Shown))

AttributedOnce ==
    Quiet /\ SpelledPlainly =>
        \A row \in report.directories :
            LET inside == {place \in Shown : IsPrefix(row.path, place)}
            IN /\ (\A place \in inside : MountsHideNone(place, inside)) =>
                      row.attributed = SpaceIn(inside)
               /\ MountsHideNone(row.path, inside) => row.attributed <= row.bytes
               /\ /\ \A place \in inside \cup {row.path} : MountsHideNone(place, inside)
                  /\ \A place \in Shown : ~PathContains(place, row.path)
                  => row.attributed = OverlapWith(row)

(* "`attributed_bytes` is the overlap: subtracting it from `bytes` gives   *)
(* the part of that directory nothing in the catalogue explains"           *)
(* (JSON.md:188-189), where mounts do not come into it.                    *)
(* The code does not keep this (README, section 6).                        *)
AttributedIsTheOverlap ==
    Quiet /\ SpelledPlainly /\ Mounted = {} =>
        \A row \in report.directories : row.attributed = OverlapWith(row)
=============================================================================
