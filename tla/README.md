# wsldisk in TLA+

`wsldisk` is a Windows command-line tool that looks after the virtual disks
(`.vhdx`) of WSL distributions: it compacts, trims, moves, relinks and deletes
them. Each command is short and sequential, but it works on three things that it
shares with others and that no transaction covers: the **registry** (`Lxss`, one
subkey per distribution), the **file system**, and **WSL itself**, whose utility
VM keeps disks open and whose guests start and stop when anybody asks. What makes
the tool hard to get right is what happens between two of its steps. That is what
this project models, checks with TLC and, for the core, proves with TLAPS.

Paths below are relative to the repository's `src/`.

## 1. Inventory

| Component | Source | State | Operations | Talks to | Must hold |
|---|---|---|---|---|---|
| move | `lib/ops/move.cpp`, `cli/move_command.cpp` | the entry captured at enumeration, the undo stack, whether it renamed | plan, transfer (rename, or sparse copy), repoint, prove it boots, delete the source, verify, rollback | registry, file system, wsl.exe | no filesystem is ever lost or half there; a failure gives back the entry and the disk; the original goes only after a boot from the copy |
| relink | `lib/ops/relink.cpp`, `cli/relink_command.cpp` | captured entry, undo stack | plan, repoint, prove it boots, verify, rollback | registry, wsl.exe | a failure gives back both values; "relinked" means booted |
| runner and undo stack | `lib/ops/runner.cpp`, `lib/ops/operation.cpp` | the stack | plan/execute/verify, unwind | move, relink, compact | every entry is tried once, from the top, whatever fails |
| compact | `lib/ops/compact.cpp`, `cli/compact_command.cpp` | the snapshot of what ran, sizes before and after, the wait for the disk | trim, stop, wait, measure, compact, restart, verify; one target, `--all`, a loose file | wsl.exe, virtual disk, file system | only targets are stopped; busy is said only of a disk somebody holds; `--restart` restarts; the command ends |
| trim | `lib/ops/trim.cpp`, `cli/trim_command.cpp` | none | fstrim, once more without `-v`, the count it prints | wsl.exe | the count is the one fstrim gave |
| enumeration | `lib/model/distro.cpp` | none | subkeys, values, path of the disk | registry | a subkey without a name or a path must not hide the others |
| orphans | `lib/model/orphans.cpp`, `cli/orphans_command.cpp` | claimed and seen paths, the list, failures | scan, confirm, delete | enumeration, file system | a claimed disk is never deleted; what is unclaimed is found; the exit code tells what is left |
| virtual disk | `lib/platform/virtual_disk.cpp` | OVERLAPPED and event on the stack | open, compact, abandon, geometry | virtual disk service | the frame outlives the background work |
| wsl.exe host | `lib/platform/wsl_host.cpp` | two pipes, a budget | run_wsl, running, terminate, shutdown, run_as_root | child process | bounded time, whole output, no mutual wait |
| file system | `lib/platform/filesystem.cpp` | none | rename, remove, sparse copy, is_locked, listings, text files | NTFS | a copy reported complete is one; a text is read whole or not at all |
| registry | `lib/platform/registry.cpp` | none | subkeys, read, write | the registry | single values are atomic |
| usage | `lib/ops/usage.cpp`, `cli/usage_command.cpp` | the entries and rows measured so far | df, the homes, du for each place of the catalogue, the cut to the largest, the walk by directory | wsl.exe | each byte is counted once and attributed once, whatever the cut |
| config | `lib/model/config.cpp`, `cli/config_command.cpp`, `lib/platform/editor.cpp` | `config.toml` | load, get, set, edit, path | file system, the user's editor, other wsldisk processes | what `set` reports is what a later command reads; nobody acts on half a file |
| list, info, catalogue | `cli/list_command.cpp`, `cli/info_command.cpp`, `lib/model/disk_info.cpp`, `lib/model/catalogue.cpp` | the rows so far | running(), the file, the disk's geometry, df | all of the above | nothing is started unasked; the command does not deny a guest its disk; figures are the guest's |
| sizes, text, wsl output | `lib/model/size.cpp`, `text.cpp`, `wsl_output.cpp` | none | conversions | - | no overflow; what is printed can be typed back and does not overstate |
| errors, lookup, Win32 table | `lib/platform/win32_error.cpp`, `cli/lookup.cpp`, `lib/platform/win32_api.cpp` | none | tables | - | - |
| command line, rendering, progress | `cli/app.cpp`, `cli/render.cpp`, `cli/progress.cpp`, ... | none | parsing, formatting | - | - |

What is hard here: a process that is killed between two writes; an undo that
fails half way; a file that appears, or a guest that starts, after it was asked
about; a smoke test whose timeout says nothing about the guest; a disk that the
utility VM lets go of a minute later; a child process and a parent that can each
block the other; background work that writes to a stack frame; a scan, and a
question to the user, between the reading of the registry and a deletion; a
configuration that is emptied before it is written; a listing in pages; bytes
that lie in two places of a catalogue.
`PROJECT.json` lists each under "hazards" with its line.

## 2. Modules

```
Wsl ---------- Operation --+-- Move .....refines..... Relocation
 |  (machine)   (runner,   |
 |               undo)     +-- Relink
 +-- Compact
 +-- Orphans           Config   WslRun   DiskCompaction   SparseCopy
 +-- Reports --+-- Accounts
               +-- Figures

WslProofs --+-- MoveProofs             ConfigProofs
            +-- RelinkProofs
            +-- CompactProofs          PlatformProofs (of WslRun,
            +-- OrphansProofs            DiskCompaction, SparseCopy)
            +-- ReportsProofs
```

**Wsl** is the machine every command works on: `files` (path to disk or nothing;
a disk has an owner, the set of guest writes it holds, and whether it is whole),
`registry` (BasePath with or without `\\?\`, VhdFileName or none), `guest` (the
path each distribution was *booted from*, which need not be where its entry
points now), `attached` (what the utility VM has open), `handles` (what wsldisk
processes have open) and `written` (every write ever made to a filesystem). Only
the entry, its path (`strip_extended_prefix`, `vhdx_path_for`) and what each file
call of `filesystem.cpp` needs and does are translated from the repository; WSL
and NTFS are external, modelled from how the code uses them: a file that is open
cannot be renamed or removed, a disk stays attached after its guest stopped until
the VM idles out, `wsl -d` boots what the registry names *unless the guest is up*.

**Operation** is the runner: `pc` walks plan, execute, verify; a failure of
execute() unwinds `undo` from its top, an entry that fails is noted in
`unrestored` and does not stop the others. It has the writes of `repoint()`, the
smoke test and the crash (`Killed`, possible at any step of execute() and of the
rollback). **Move** and **Relink** add plan() and the steps of their execute():
Move has the rename, and the copy in its four parts (list the ranges, open both
ends, copy, clean up a failed copy), because a guest can write between them.

**Relocation** is the abstract specification of a move: a set of up-to-date
copies and a home; a copy is given up only if the entry names another. Move
implements it with `copies` = the paths that hold all of the filesystem and
`home` = what the entry resolves to (`Relocates`, property `MoveIsRelocation`).

**Compact** is one command over a sequence of targets. Its clock counts polls
of `release_disk()`; `idle` says how long nothing has run, and by `VmIdleTimeout`
polls the VM has let go. `down` records what the command has stopped and not
started again; no step reads it. Scanners are other processes that open disks.

**Orphans** enumerates the subkeys by index while others register and move
distributions, reads each, lists the directories of overlapping patterns in
several spellings, and deletes file by file with is_locked() and remove() as
separate steps. A spelling is plain, prefixed with `\\?\`, or one that
`canonical_path()` leaves apart: relative, through `..` or a junction, with an 8.3
name. `changed` (whose subkey has changed since the start), `unread` (directories
that could not be listed: the code warns of each) and `unnamed` (wildcards that could
not be expanded: it says nothing of those) are there for the properties. One subkey
that cannot be read, or has gone, ends the command. Who registers gets a GUID that
no subkey had before. The ten values of a key are read in one step: the properties
speak of keys that do not change. There is no crash in it: a deletion that is cut
short leaves some files deleted and nothing else.

**WslRun** is `run_wsl()`: the parent drains two pipes, waits a slice, charges
the budget, kills; the child prints, reads its input to the end, exits or hangs.

**DiskCompaction** is `Win32VirtualDiskHandle::compact()` with `abandon()` and the
service that works in the background.

**Config** is `config.toml` between processes. A text is what the TOML parser makes
of it: a node for each setting (missing, of the wrong type, a value) and whether
it has keys this version does not know. Every command loads the file at its start
and `config` loads it again; `set` and `edit` write it with CREATE_ALWAYS, which
empties it, as a step before the write. The sharing modes decide who can open it
when, the user saves it between any two steps, a write may stop short (`Beginnings`:
the file then has the first settings and perhaps part of a number), and a process
may die. Parsing of the command line's words, of the file and the rendering are
operators (`ParseValue`, `ParseConfig`, `RenderConfig`) with what they refuse,
drop and fail to escape.

**Figures** has the arithmetic: `FormatSize`, `ParseSize` with `ScaleFraction`, the
reading of numbers out of what df and fstrim print, `Reclaimable`. `Kilo`, `Word`
and `Precision` stand for 1024, 2^64 - 1 and nine digits. **Accounts** has the
paths of a guest and what `du -x` counts there, homes, nesting, the cut to the
largest and the breakdown by directory; a path is the sequence of its names, and a
guest has finitely many directories. No two of the catalogue's places are the same in any
home, as in `caches.toml`, so that the entries are a set (`CatalogueAssumption`). **Reports** composes the two with Wsl: one
`list`, `info`, `usage` or `trim` beside a user who starts and stops distributions
and guests whose files change, with every call able to fail. For each guest
`own` has its files and `told` what its programs really printed (the used and free of
one df as a pair); `seenUp` has whoever the command was told is running when it asked
for that row. No step reads `told` or `seenUp`.

**SparseCopy** is `copy_file_sparse()` in full: the pages of allocated ranges, the
two handles, chunks that come up short, a cancellation. Move takes the listing,
the opening and the copying for a step each (`ListRanges`, `CreateTarget`,
`CopyBytes`); that this is right, because a copy reported complete equals its
source wherever nobody wrote since the start, is what SparseCopy is checked for.

The `MC*` modules only give constants their values. The `*Proofs` modules extend the
module they are named for. WslProofs holds what those over the machine share;
PlatformProofs extends the three calls into Windows at once, which is why WslRun and
DiskCompaction have names of their own for what every module has (`RunInit`,
`DiskInit`); no theorem is about two of them.

Mutants. Next to a definition there may be a variant of it with the comment
"Mutant": a plausible bug in that place. Nothing uses it except to show that a
property would notice; `PROJECT.json` pairs each property with one.

## 3. Runs

Each run is `tlc -config <name>.cfg <module>`.

| Run | Instance | Shows |
|---|---|---|
| MCMove | two WSL2 distributions, one moved; three directories on two volumes; one write; all calls but the undo's may fail; crash anywhere; nobody starts the distribution meanwhile | `Lossless`, `RollbackRestores`, `SuccessMeansMoved`, `DeletedOnlyAfterBoot`, `StraysSurvive`, the refinement of Relocation |
| MCMoveShared | the same with a WSL1 second distribution, the user starting the distribution at any time, strangers creating files, the undo's calls failing as well | what is left without any cooperation: `EntryIsPutBack`, `CopyNeverDangles`, `MoveEnds` |
| MCRelink | one WSL2 distribution, two directories and two file names | `EntryIsPutBack`, `RelinkedMeansBooted`, `RelinkEnds` |
| MCCompact | one WSL2 distribution, a scanner, a writing guest, lingering handles, stale listings | `NeverSeenToGrow`, `BusyMeansHeld`, `CompactEnds` |
| MCCompactOthers | two WSL2 distributions (interchangeable: symmetry), single targets and `--all` | `OnlyTargetsAreStopped`; `RestartsTheOne`: every path to the end restarts a single target that was running, but for the two the property names |
| MCWslRun | pipes of 2 units, 3 units of output a stream, 3 slices; patient or not | `OutputIsWhole`, `RunEnds`, `NeverBlocked` |
| MCDiskCompaction | the real 100 polls, 4 reports of progress; prompt service or not | `FrameOutlivesTheWork`, `OkMeansDone`, `AbandonEnds` |
| MCOrphans | two distributions, three directories, two overlapping patterns, one of them spelled with `\\?\`; registering and moving meanwhile | `SettledClaimsSurvive`, `ExitTellsWhatIsLeft`, `NothingHidden` |
| MCConfig | two interchangeable processes with every verb and good and bad values, five texts the user may leave, one save by the user in mid-run, every call failing, crash anywhere | `SetIsReadBack`, `UsedIsWhole` |
| MCReports | two WSL2 and a WSL1 distribution; every verb and flag; ten guest directories with nested caches and a mount; password files with a service account, a short line, a trailing slash, no user; one change of the files | `OnlyTheAskedIsStarted`, `NeverInItsOwnWay`, `FiguresAreTheGuests`, `SizesAreHonest`, `CountedOnce`, `AttributedOnce` |
| MCSparseCopy | every file of up to six blocks, pages of two ranges, chunks of two blocks, two writes by others, every call failing | `CopiedIsCopied`, `CopyEnds` |
| MCOrphansRelative | two WSL2 distributions, MCOrphans' patterns and one spelled apart, nothing else happening | a violation of `SettledClaimsSurvive` |

MCOrphansRelative ends in a violation: its counterexample is how a promise of the
repository's documentation fails. Section 6 has the others of its kind.

Bounds and why they are enough.

- *Distributions*: the one worked on and one other. Every rule about others
  ("another distribution has booted from this file", "something else is running")
  is about the existence of one.
- *Directories*: the old one, one on the same volume, one on another: both ways
  of transferring, and a path that is neither source nor target. Relink needs two
  names, because legacy entries ignore them.
- *Writes*: one write distinguishes a copy that is up to date from one that is
  not. `written` never shrinks, so this also bounds the guests.
- *Polls, slices, pipes*: two or three of each are enough for "before", "at" and
  "after" the limit, with a pipe that fills up before the child is done. The
  compaction uses the code's own 100.
- *Blocks, pages, chunks*: six blocks have up to three ranges, so a page of two is
  full, is followed by another, or is exactly the last; a chunk of two needs two
  reads for a longer range. Two writes can lengthen a file and cut it again.
- *Configuration*: a writer and a reader is all a race needs; with the user as the
  third, a file is changed between two steps of either. `Jobs` has for each parser
  something it takes and something it refuses, 3601 one above the cap.
- *Figures*: `Kilo` = 4 and `Word` = 2047 keep the proportion that matters, a largest
  unit that a word exceeds and units that divide Word + 1; ReportsProofs covers the
  real ones. One used distribution, one stopped and one of version 1 are the three
  kinds of row.
- What others do ends with the command in Orphans; in Move and Relink the user
  gets the distribution back when it ends (`Settled`).

Runs have `CHECK_DEADLOCK FALSE` because commands end and nothing need happen
afterwards.

Fairness. `FairSpec` asks for weak fairness of the command's own steps only: the
process is scheduled and the calls it makes return, since all that wait have a
timeout. Nothing is assumed of guests, of the user, of the VM, of the child
process of WslRun (it may hang) or of a disk service nobody asked to stop. In
DiskCompaction `prompt` is chosen once and for all: the service stops what was
cancelled within one poll, and only then is its stopping fair. In WslRun `patient`
likewise: the timeout is longer than anything the child does, and `NeverBlocked`
takes the child's fairness as its hypothesis. In SparseCopy it is the copy's own steps; that
others write only so often is a bound of the run. In Compact the VM's idling out is
tied to the clock (`Sleep`), as it is in WSL.

## 4. Proofs

Each theorem holds for every value of the constants that the modules' ASSUMEs allow,
and under what it names besides. Those hypotheses are definitions about constants, and
where a hypothesis is needed the text says what happens without it.

`WslProofs.tla` has what holds of the machine and of the undo stack whoever uses them:
types, a running guest never loses its file, an entry resolves to a path, what a push
and a pop do.

`MoveProofs.tla` (for all distributions, directories, volumes, names, writes, failures):

- `MoveTypeOK`: Spec => []TypeOK.
- `MoveIsSolid`: a running guest's disk is attached and exists, and the process
  holds handles exactly while it copies. This needs no assumption about the user
  or strangers and is what later arguments about who may rename what rest on.
- `MoveEntryInv`: the registry entry and the undo stack are functions of how far
  the operation got. It is the inductive invariant behind
- `MovePutsTheEntryBack`: Spec => []EntryIsPutBack. EntryIsPutBack is not
  inductive: it says nothing until the rollback is over, so the invariant has to
  say, for each program counter, which of the two values the entry can have and
  what is on the stack (`EntryIsKnown`, `StackIsKnown`), and during the rollback
  that once the entry for BasePath has been popped the entry is the old one or
  that write failed.

- `MovePlacesTheDisk`: []DiskIsPlaced, again whoever interferes: at each program
  counter the disk is where the next step takes it to be, and where that step takes
  nothing to be (`Vacant`) there is nothing or a stranger's disk. Nobody but the command
  makes a file disappear, change hands or become a part of a disk (`FilesPersist`). On
  it rest
- `MoveNeverDangles`: Spec => CopyNeverDangles, with `Twins`: the copy is as whole as
  its original for as long as the move may be rolled back;
- `MoveRollsBack` (`RollbackRestores`) and `MoveSparesStrays` (`StraysSurvive`), if
  strangers create no files (`~StrangersWrite`), whatever the user does. The first
  adds `PartIsCopy`: only a copy in the making, or one left behind, is part of a disk.
  The second says that the target is only removed by a step that undoes a copy, and
  then it is the command's own. With strangers both fail: the copy's error path removes
  whatever it finds at the target (section 6), and what a stranger puts there once
  the copy is gone may be a complete disk.

From here on under `Alone`: nobody starts the distribution meanwhile. Strangers may
create what they like. With the user TLC finds each of the properties violated, since
a guest started in mid-move may run from, and write to, the old disk (section 6).

- `MoveKeepsTheFiles`: []FilesInv. `Lossless` is not inductive: it says that a complete
  copy exists, not which one the next step may touch. FilesInv calls one file of a
  filesystem that lies in two the `Spare` (the copy until the guest has booted from
  it, the original from then on); all others are `Live`, and the live ones are complete,
  one for each filesystem. It adds to `DiskIsPlaced` that the copy is complete before
  the entry is pointed at it (`DiskIsKnown`), that the listed ranges cover all there is
  while they are copied (`SeenIsAll`), and which guests can be running from the two
  files (`GuestsKeepAway`). From it follow
- `MoveLosesNothing` (`Lossless`),
- `MoveSucceeds` (`SuccessMeansMoved`) and `MoveDeletesAfterBoot`
  (`DeletedOnlyAfterBoot`), by way of `MovePromises`: past the smoke test the guest
  has run from the target, which stays, and only there a move ends well;
- `MoveImplementsRelocation`: `MoveIsRelocation`, each step of Move being a step of
  Relocation or a stutter. It needs `Undoes` besides, that the registry writes of a
  rollback succeed (MCMove again), and that no entry of another distribution names a
  disk of this one (`OwnDisks`), since a guest that writes may only outdate copies
  the entry does not name.

`RelinkProofs.tla`:

- `RelinkPutsTheEntryBack`: Spec => []EntryIsPutBack, whatever interferes. `Sound`
  says that each value of the entry is as it was found, or is on the stack, or its
  undo failed (`RelinkIsSound`).
- `RelinkProvesItBoots`: `RelinkedMeansBooted` under `LeftAlone`, MCRelink's constants:
  the distribution stays off until the smoke test, so the test is what boots it,
  from where the entry says by then; and the disk was given by an absolute path.

`CompactProofs.tla` (for any batch, distributions, timeouts):

- `CompactStopsOnlyTargets`: Spec => []OnlyTargetsAreStopped, from `CompactIsSound`.
- `CompactNeverSeesGrowth`: `NeverSeenToGrow` under `TargetAlone` (nobody starts it
  meanwhile and its size can be read), with the invariant that from the release of the
  disk to its second measurement no guest runs from it (`DiskIsStill`), because one
  that did would have kept the VM, and with it the file, busy (`VmIsUp`).
- `CompactBusyMeansHeld`: `BusyMeansHeld`, an action property, if `UnlockTimeout >=
  VmIdleTimeout`: the defaults are 90 seconds against about 60 (`compact.h:37-50`). A
  shorter wait can end before the VM has let go. The invariant `VmLetsGo` says
  that a VM whose time is up has nothing attached.
- `CompactRestartsTheOne`: Spec => []RestartsTheOne under `Undisturbed`, the constants of
  MCCompactOthers: nobody uses the targets or opens a disk meanwhile, and what is free
  and whole boots; a restart that fails for a reason of its own brings nobody back.
  The invariant has to say what makes a restart work: nobody but the command holds a
  disk, and it only from open to close (`OnlyOwnHandle`); guests run, and those in the
  snapshot ran, from whole disks of their own (`GuestsAtHome`, `SnapshotBoots`); and
  for a single target that was stopped, where the command still has the restart,
  or its reason for none, before it (`BackAgain`).

`ConfigProofs.tla` (for any number of processes, settings and texts):

- `ConfigTypeOK`: the file is a text, what a process has loaded a configuration.
- `ConfigUsesWholeTexts`: Spec => []UsedIsWhole. The invariant adds that a writer has
  the file alone (`WritersAreAlone`) and that a text nobody finished is the empty one
  of a writer still at work, or somebody gave up (`NobodysIsExcused`).
- `ConfigSetIsReadBack`: Spec => []SetIsReadBack if `Unprintable = {}`; with a control
  character in a directory what `set` writes does not parse (section 6). The lemma
  `RoundTrip` says that the parser undoes the rendering for every configuration, and the
  invariant that a text with an author is what that author rendered and whoever
  loaded it has what the parser makes of it (`TextsAreRendered`), and that what a
  command is to write, and said, comes from what it loaded and its command line
  (`CommandsComeFrom`).

`OrphansProofs.tla` (for any distributions, directories, patterns, order of subkeys):

- `OrphansIsTyped`: types, and with them that what is left to delete and what was kept
  are parts of the list (`TypeOK`), and that the disk of a guest that runs is there
  and attached, whatever is deleted (`GuestsHaveDisks`, `GuestsAreAttached`).
- `ClaimedDisksAreKept`: `SettledClaimsSurvive`, an action property, whatever is
  registered and moved meanwhile. It assumes that no pattern is spelled apart
  (`SpelledAlike`: MCOrphansRelative is the counterexample) and that no subkey goes during the
  enumeration (`"unregister" \notin Happens`), since RegEnumKeyEx by index then skips
  one: with one that comes and goes the disk of another distribution is deleted
  (section 6). The heart is `ClaimsAreRead`: a settled distribution has been enumerated, or the
  index has not passed the number of subkeys before its own, and a subkey that
  is added can only raise that number. So it is read and its claim made before
  anything is listed; what is on the list is unclaimed
  (`ListIsUnclaimed`), and no two distributions have one disk (`HomesApart`).
- `ExitCodeIsTrue`: Spec => []ExitTellsWhatIsLeft if `SpelledAlike`; a file listed
  in two spellings would be deleted under one name and counted as kept under the
  other. The invariant: each disk is on the list once (`ListedOnce`), and is there
  exactly while it is waiting or was kept (`Accounted`).
- `NoOrphanIsHidden`: Spec => []NothingHidden, without either assumption: what is
  claimed some settled distribution claims (`ClaimsAreTrue`), and a directory that has
  been listed is accounted for (`ListedIsAccountable`). It is about scans that come to
  their list, which no scan with a subkey it could not read does, and it excuses
  the directories in `unread` and the patterns in `unnamed`.

`PlatformProofs.tla` (each theorem for one of the three modules):

- `FrameIsSafe`: if the polls of abandon() can wait (`"rewait" \notin DiskFallible`),
  Spec => []FrameOutlivesTheWork, for any number of polls and reports. The inductive
  invariant `IInv` adds that nothing is pending before the start and that with a prompt
  service abandon() never gets to its second poll. Section 6 has the run without the
  assumption.
- `DoneIsDone`: Spec => []OkMeansDone, whatever fails.
- `NoOutputIsLost`: Spec => []OutputIsWhole, for pipes, output and budgets of any size.
  The invariant `OutputInv` says that a child that has exited prints no more and
  that in the last drain what was drained stays empty.
- `CopyIsTyped` and `CopyIsFaithful` (`CopiedIsCopied`), for files of any length, pages
  and chunks of any size, whatever others write. Three things are proved of the ranges
  a query lists: every block lies in a run with a beginning and an end
  (`RunsHaveEnds`), the ranges are in order and hold every allocated block beyond the
  offset and no other (`QueryListsBlocks`), and a full page holds all up to its end
  (`FirstRanges`). So pages meet (`PagesMeet`): after each, every block nobody has
  touched is in a range or beyond the offset. While copying, such a block is already
  as in the source or ahead (`CopyAdvances`), and what is copied and what is ahead add
  up to the total; that is why a copy that ends with all of it copied is complete.

`ReportsProofs.tla`. Of the reports, whatever the guests print and whatever fails:

- `ReportsAreTyped`, `NoneIsStartedUnasked` (`OnlyTheAskedIsStarted`),
  `NoCommandBlocksItself` (`NeverInItsOwnWay`), `FiguresAreRead` (`FiguresAreTheGuests`:
  used, free and reclaimable of a row, used and free of a report unless it has a note,
  and what was trimmed).
  The invariant `IInv` ties the program counter to the verb and the row it is at
  (`OnCourse`: df is reached only for who was seen running or may be probed) and says
  that guests run from the disks their entries name, each from its own
  (`GuestsAtHome`), so that none but the command could deny one its disk. What the
  parsers of df's table and fstrim's sentence return is a word of what was printed
  (`TrimIsRead` and the lemmas before it).

Of the arithmetic (for every width of a word whose largest unit divides it, and
every base of the units):

- `SizeNeverOverflows`: what parse_size() returns fits a word although the fraction
  is added without a check. The argument is that units divide Word + 1, so a whole
  number of units that fits leaves room for all of one more but a byte, and that
  `ScaleFraction` is less than a unit (`ScaledIsFloor`, `ScaledIsSmall`).
- `PrintedSizesAreHonest`: `Honest`, the heart of `SizesAreHonest`, for every size.

Of the accounts (for every catalogue, tree, mounts, homes, `--top` and depth):

- `EveryByteIsCountedOnce` (`CountedOnce`), `EveryByteIsAttributedOnce`
  (`AttributedOnce`, which gives the overlap only for rows that lie in no entry) and `ShownSizesAreHonest` (`SizesAreHonest`), from the invariant
  `AInv`. None of the three is inductive: each speaks of the finished report. So
  `EntriesMeasured` says of every entry that it is of a place of the catalogue and, while
  the guest's files keep still, has the bytes du gives there; `PathsLeft` that a place
  is still to be measured, or empty, or has its entry, and that there are no more
  entries than places measured; `HomesListed` that there is nothing to report before.
  `SizesFit` keeps every figure within a word, the sum because the catalogue's places
  cannot count a disk so often that it overflows (`CatalogueAssumption`, `CountedFits`).

  The step that adds up is `NestingAddsUp`: the entries that lie in no other one add up
  to the bytes of the union of all places. Two of them have nothing in common
  (`PlacesApart`), each place lies in a shortest one that has an entry, and a place
  that a mount does not hide from another is all in it (`PlaceInPlace`).
  `NestingFits` bounds what is put down to a directory in the same way.

  A sum is a fold of the community modules, a CHOOSE of a function that satisfies the
  fold's equation. That there is one, and that any two agree, is shown from the least
  set where they would not (`Least`, `BuiltUp`, `FoldExists`, `SumUnique`), since the
  library's induction theorems cannot be used; from that equation come the laws of
  sums (`SumOfTwo`, `SumOfPart`, `SumIsBounded`) and what a fold over a sequence does
  (`LeftFoldExists`, `CanonicalByName`, `PathsAre`).

Proved from the modules' own ASSUMEs (`WslAssumption`, `OperationAssumption`,
`RelinkAssumption`, `CompactAssumption`, `OrphansAssumption`, `ConfigAssumption`,
`FiguresAssumption`, `AccountsAssumption`, `ReportsAssumption`, `CatalogueAssumption`,
`DiskCompactionAssumption`, `WslRunAssumption`, `SparseCopyAssumption`), which TLC
evaluates in the runs.

Only model-checked: liveness (`MoveEnds`, `RelinkEnds`, `CompactEnds`, `RunEnds`,
`NeverBlocked`, `AbandonEnds`, `CopyEnds`), which is beyond the prover.

## 5. Not modelled

- The parsing of the compiled-in cache catalogue (its input never changes at run
  time), `.wslconfig` (only printed), the choice of an editor, text encodings and
  the UTF-16 of wsl.exe's output, quoting of command lines, registry value types and
  the two-call read of a string, reading a disk's geometry, error tables, name
  lookup, the Win32 function table, completion scripts, rendering and progress:
  conversions or tables without state. `PROJECT.json` says so one by one.
- `src/spikes/elevation`: an experiment that is not part of the program.
- Within what is modelled: plans and step texts, messages, exit codes of batches,
  sizes of real disks; exists() of a file about which Windows answers with an error
  (it says yes to any but not-found, `filesystem.cpp:193-202`); a destination of `move`
  that is relative or has the `\\?\` prefix, which is written to BasePath as given
  (`move.cpp:46-52`); a BasePath that is itself spelled apart, whose claim then
  matches no listing; somebody else rewriting the entry of a distribution in mid-move,
  over which a rollback writes what it had read; the digits of fstrim's count one by
  one (`trim.cpp:39-58`): a count is a number of the word or is not.

## 6. Where the code and its comments differ

Shown by a run:

- **MCOrphansRelative**. `canonical_path()` leaves relative paths alone, and those
  through `..`, a junction or an 8.3 name, so `orphans --scan . --delete` deletes the
  disk of a stopped, registered distribution in that directory. `orphans.h:22` calls
  the result "A path reduced to a form two spellings of the same file share".

Found by TLC, with a property that states the promise and a configuration that
differs from a run's in what the last column says. The properties are in the modules;
no run checks them in this form, since the code does not keep them.

| Where | What happens | What the repository says | Property | To see it |
|---|---|---|---|---|
| `move.cpp:186` | A smoke test that times out after the guest came up leaves the renamed disk in use: the rollback restores the entry and cannot rename the disk back, so the entry names nothing. | "leaves you with the working distribution you started with. Not two halves of one" (`docs/MOVE.md:37-38`) | `NotTwoHalves` | MCMove with `Distro` and `Wsl2` = {d}, `Fallible` = {"boot"} |
| `move.cpp:303` | A distribution started between running() and the smoke test runs that test where it is, booted from the old disk; the original is deleted once nothing has it open. | "does not happen until the distribution has been seen to boot from the new disk" (`move.cpp:301-302`) | `DeletedOnlyAfterBoot` | MCMove with one distribution, `Fallible` = {}, `Write` = {}, `UsedMeanwhile` = TRUE |
| `filesystem.cpp:405` | The ranges are listed before the source is opened denying writes: what a guest writes in between to a new range is not in the copy. | "byte-for-byte identical contents" (`docs/MOVE.md:69-76`) | `CopyIsIdentical` | the same with `Write` = {w1} |
| `move.cpp:200` | A copy that fails because a file has appeared at the target removes that file. | CREATE_NEW protects "exactly the file most worth not clobbering" (`filesystem.cpp:424-426`) | `StraysSurvive` | MCMove with one distribution, `Fallible` = {}, `Write` = {}, `StrangersWrite` = TRUE |
| `compact.cpp:363` | A target that was stopped and then refused is not restarted. | "`--restart` promises the distribution comes back" (`compact.cpp:340-344`) | `RestartBringsItBack` | MCCompactOthers with `Distro` and `Wsl2` = {d}, `Fallible` = {"locked"}, no SYMMETRY |
| `compact.cpp:394` | After a failed compaction the restart is tried while the command's own handle still denies the disk. | the same | `RestartBringsItBack` | the same with `Fallible` = {"compact"} |
| `compact_command.cpp:192` | With `--all --shutdown --restart` each shutdown stops the targets restarted before it. | the snapshot is what "`--all --shutdown --restart` needs" not to stop targets and decline "to put them back" (`compact.h:109-113`) | `RestartBringsAllBack` | MCCompactOthers with `Fallible` = {} |
| `wsl_host.cpp:64` | `drain()` reads while there is anything to read, so a child that prints without end is never charged its budget. | "a hung guest command cannot hang the tool" (`wsl_host.h:17-19`) | `RunEnds` | MCWslRun with `Endless` = TRUE, `RunFallible` = {} |
| `virtual_disk.cpp:180` | A compaction that outlives abandon()'s polls is reported as cancelled. | "Cancelled, and then actually stopped before saying so" (`virtual_disk.cpp:176`) | `CancelledMeansStopped` | MCDiskCompaction |
| `virtual_disk.cpp:122` | When the wait in abandon() fails and the progress cannot be read either, it returns at once: the frame goes while the service may write to it. Waits that fail alone run through the polls without waiting, to the same end. | "the wait is what makes it safe" (`virtual_disk.cpp:108-112`) | `FrameOutlivesTheWork` | MCDiskCompaction with `DiskFallible` = {"query", "requery", "rewait"} |
| `distro.cpp:148` | `enumerate()` fails as a whole when one subkey cannot be read. For `orphans` that is the safer way: a subkey skipped with a warning would leave its disk unclaimed. | "Anything wrong with an individual subkey becomes a warning" (`distro.h:100-101`) | `BadSubkeysAreWarnings` | MCOrphans |
| `config_command.cpp:170` | `config edit --dry-run` writes the file when there is none: whether it is a dry run is asked after save(). | "Show what would happen and change nothing" (`options.cpp:13`) | `DryRunsChangeNothing` | MCConfig |
| `config.cpp:62` | A control character in `scan.dirs` is not escaped, so `config set` can write a file that no longer parses. `ConfigSetIsReadBack` is proved for `Unprintable = {}`. | "a value that will not round-trip is refused before anything is written" (`config_command.cpp:131-132`) | `SetIsReadBack` | MCConfig with `Job <- OddJobs` |
| `usage.cpp:175` | `usage` starts a stopped distribution: df is run in it unasked. | it does not "start a distribution to measure it" (`docs/USAGE.md:168-169`) | `UsageStartsNone` | MCReports with `Command <- Overview`, `Fallible` = {}, `Changes` = 0 |
| `disk_info.cpp:84` | `list` without `--probe` starts a distribution that stopped between running() and df. `OnlyTheAskedIsStarted` allows for both. | "Off by default: measuring must not change what is running" (`disk_info.h:67-68`) | `LooksStartNone` | MCReports with `Command <- Unprobed`, `Fallible` = {}, `Changes` = 0 |
| `usage.cpp:180` | A df whose output cannot be read leaves totals of 0 in the report, with a note. | "Bytes `df` reports in use inside the guest" (`docs/JSON.md:155-156`) | `TotalsAreTheGuests` | MCReports with `Command <- Overview`, `Fallible` = {}, `Changes` = 0 |
| `usage.cpp:146` | In a breakdown by directory a row inside a catalogue entry is put down to nothing, since entries are only looked for at or below the row. | "`attributed_bytes` is the overlap" (`docs/JSON.md:188-189`) | `AttributedIsTheOverlap` | MCReports with `Mounted` = {}, `Command <- Breakdowns`, `Catalogue <- Logs` |

Met while modelling and visible in the modules:

- A relink of an entry without VhdFileName boots that directory's `ext4.vhdx`,
  whatever file was named (`relink.cpp:117-131`); `RelinkedMeansBooted` says what
  is true of it.
- `enumerate()` skips incomplete keys, whose disks `orphans` then lists. RegEnumKeyEx goes
  by index (`registry.cpp:83`). A subkey deleted meanwhile makes the next one be skipped,
  but the one that has gone had been enumerated, so that reading it ends the command:
  `SettledClaimsSurvive` holds in MCOrphans with `Happens` = {"unregister"}. One that
  is installed in front of the index and uninstalled again was never enumerated, and
  what it makes be skipped is not missed: with `"register"` and `"unregister"` both in
  `Happens` and three subkeys `SettledClaimsSurvive` fails, which is why
  `ClaimedDisksAreKept` excludes subkeys that go.
- A wildcard of a pattern that cannot be expanded hides what is under it without a warning
  (`orphans.cpp:111-114`), where a directory that cannot be listed gets one.
- A disk moved to a path on the list of `orphans --delete` between the scan and the
  answer is deleted there unless it is open.
- When the second measurement before a compaction fails the first one stays, and
  a disk that grew between them is then reported as grown by the compaction.
- The look for config.toml and the save of `config edit` are two steps, so a file that
  appears between them is overwritten. `set` drops keys it does not know, `get` joins
  directories with `", "` where `set` splits at `;`, and a `scan.dirs` that is no array
  is silently none.
- Two `config set` at once: the second writes what it loaded before the first wrote.
  A crash or a full disk between emptying and writing leaves a file that loads as
  the defaults, or with the first digits of a number: `UsedIsWhole` names these cases.
- In a breakdown attribution happens after the cut, so entries that were cut are missing
  from the rows. A home with a slash at its end is counted beside the same home without
  one (`SpelledPlainly` in `CountedOnce` says so), and a place on a mount of its own is
  counted although the total of `df /` does not have it. A du that fails for want of
  permission is nothing.
- A page of ranges that is empty but says there is more is taken for the end, and
  the partial list for the whole (`filesystem.cpp:367-372`); NTFS does not answer so,
  and the model does not either.

## 7. Plan

Done: the machine, the runner, move, relink, compact, orphans, run_wsl(), compact()
of the virtual disk, the configuration, the reports with their arithmetic and
accounts, the sparse copy; every safety property that a run checks is proved.

Next, in this order:

1. Registry values with their types and the two-call read of a string, whose length
   may change between the calls.
2. Quoting of command lines and nearest names against reference definitions.
