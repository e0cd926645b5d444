------------------------------ MODULE Orphans ------------------------------
(***************************************************************************)
(* `orphans` and `orphans --delete`: the subkeys of the Lxss key are       *)
(* enumerated by index, each one is read, the scan lists every .vhdx that  *)
(* no entry read claims, and, once confirmed, each of them that nothing    *)
(* has open is removed.  Distributions are started, registered and moved   *)
(* meanwhile, by other programs and by other wsldisk commands.             *)
(***************************************************************************)
EXTENDS Wsl, Integers, Sequences

CONSTANTS
    KeyOrder,  \* the order the registry enumerates subkeys in
    Patterns,  \* the scan patterns: built in, scan.dirs, --scan
    Happens,   \* what others do to the registry meanwhile
    Fallible   \* the calls that may fail for a reason the model has no state for

(* A path is spelled the usual way, with the \\?\ prefix, or in a way that *)
(* canonical_path() leaves apart: relative, through .. or a junction, with *)
(* an 8.3 name.                                                            *)
Spelling == {"plain", "prefixed", "apart"}

(* The directories a pattern names, and how their paths are spelled.       *)
Pattern == [spelling : Spelling, wild : BOOLEAN, dirs : SUBSET Dir]
Spelled == [spelling : Spelling, path : Path]

KeyState == {"absent", "nameless", "complete"}

ASSUME OrphansAssumption ==
    /\ KeyOrder \in Seq(Distro)
    /\ \A d \in Distro : \E i \in DOMAIN KeyOrder : KeyOrder[i] = d
    /\ \A i, j \in DOMAIN KeyOrder : KeyOrder[i] = KeyOrder[j] => i = j
    /\ Patterns \in Seq(Pattern)
    /\ Happens \subseteq {"register", "unregister", "move"}
    /\ Fallible \subseteq {"keys", "read", "environment", "list", "locked", "remove"}

MayFail(call) == call \in Fallible

VARIABLES
    keys,      \* whether a distribution has a subkey, and one with a name
    changed,   \* distributions whose subkey has changed since the command began
    pc,        \* what the command does next
    names,     \* the subkeys enumerated so far
    readUpTo,  \* how many of them have been read
    claimed,   \* the canonical paths of the disks their entries name
    pattern,   \* the pattern being expanded or listed
    toList,    \* its directories not listed yet
    unread,    \* directories that could not be listed: a warning each
    unnamed,   \* wildcard patterns that could not be expanded: no word of those
    orphans,   \* the disks found
    left,      \* those delete_orphans() has not come to
    current,   \* the one found not to be locked
    kept,      \* those that could not be deleted
    exit       \* the exit code

scan == <<names, readUpTo, claimed, pattern, toList, unread, unnamed>>
deletion == <<left, current, kept>>
command == <<pc, scan, orphans, deletion, exit>>
vars == <<machine, keys, changed, command>>

TypeOK ==
    /\ MachineTypeOK
    /\ keys \in [Distro -> KeyState] /\ changed \subseteq Distro
    /\ pc \in {"keys", "read", "environment", "expand", "list", "confirm",
               "lock", "remove", "ended"}
    /\ names \in Seq(Distro) /\ readUpTo \in 0 .. Len(names)
    /\ claimed \subseteq Spelled
    /\ pattern \in 1 .. Len(Patterns) + 1 /\ toList \subseteq Dir /\ unread \subseteq Dir
    /\ unnamed \subseteq DOMAIN Patterns
    /\ orphans \subseteq Spelled
    /\ left \subseteq orphans /\ kept \subseteq orphans \ left
    /\ current \in Spelled \cup {NoFile} /\ (pc = "remove" => current \in left)
    /\ exit \in {"none", "ok", "error", "busy", "partial"}

(* The entry WSL, or a command, writes for a disk at p.                    *)
EntryFor(p) == [base |-> [extended |-> FALSE, dir |-> p[1]], vhd |-> p[2]]

(* What the entry of a distribution without a subkey says has no meaning.  *)
Init ==
    /\ MachineInit
    /\ keys \in [Distro -> KeyState]
    /\ \A d \in Distro : keys[d] = "absent" => registry[d] = EntryFor(Home(d))
    /\ changed = {}
    /\ pc = "keys"
    /\ names = <<>> /\ readUpTo = 0 /\ claimed = {}
    /\ pattern = 1 /\ toList = {} /\ unread = {} /\ unnamed = {}
    /\ orphans = {} /\ left = {} /\ current = NoFile /\ kept = {}
    /\ exit = "none"

----------------------------------------------------------------------------
Exited(code) == pc' = "ended" /\ exit' = code

(* RegEnumKeyEx by index, until there is no subkey at the next one, and    *)
(* then DefaultDistribution: the key's own value, read with the subkeys'   *)
(* names in hand.                                                          *)
Subkeys == {d \in Distro : keys[d] # "absent"}

Rank(d) == CHOOSE i \in DOMAIN KeyOrder : KeyOrder[i] = d

Before(d) == {e \in Subkeys : Rank(e) < Rank(d)}

EnumerateKey ==
    /\ pc = "keys"
    /\ \/ /\ \E d \in Subkeys :
                /\ Cardinality(Before(d)) = Len(names)
                /\ names' = Append(names, d)
          /\ UNCHANGED <<pc, exit>>
       \/ /\ Len(names) >= Cardinality(Subkeys)
          /\ pc' = "read"
          /\ UNCHANGED <<names, exit>>
       \/ MayFail("keys") /\ Exited("error") /\ UNCHANGED names
    /\ UNCHANGED <<machine, keys, changed, readUpTo, claimed, pattern, toList, unread, unnamed,
                   orphans, deletion>>

(* Two spellings with and without the \\?\ prefix are one; any other stays *)
(* what it is.                                                             *)
\* Mutant: the prefix is not stripped.
CanonicalAsSpelled(file) == file

Canonical(file) ==
    [file EXCEPT !.spelling = IF @ = "prefixed" THEN "plain" ELSE @]

(* An entry claims the disk it resolves to, through its BasePath as stored.*)
Claim(d) ==
    Canonical([spelling |-> IF registry[d].base.extended THEN "prefixed" ELSE "plain",
               path |-> Home(d)])

(* A subkey without a name is skipped; one that has gone, or has a value   *)
(* that cannot be read, fails them all.                                    *)
ReadKey ==
    /\ pc = "read"
    /\ LET guid == names[readUpTo + 1] IN
       \/ /\ readUpTo < Len(names) /\ keys[guid] # "absent"
          /\ claimed' = IF keys[guid] = "complete" THEN claimed \cup {Claim(guid)} ELSE claimed
          /\ readUpTo' = readUpTo + 1
          /\ UNCHANGED <<pc, exit>>
       \/ /\ readUpTo < Len(names)
          /\ keys[guid] = "absent" \/ MayFail("read")
          /\ Exited("error")
          /\ UNCHANGED <<claimed, readUpTo>>
       \/ /\ readUpTo = Len(names)
          /\ pc' = "environment"
          /\ UNCHANGED <<claimed, readUpTo, exit>>
    /\ UNCHANGED <<machine, keys, changed, names, pattern, toList, unread, unnamed, orphans, deletion>>

(* The built-in patterns need %LOCALAPPDATA%.                              *)
DefaultScanPatterns ==
    /\ pc = "environment"
    /\ \/ pc' = "expand" /\ UNCHANGED exit
       \/ MayFail("environment") /\ Exited("error")
    /\ UNCHANGED <<machine, keys, changed, scan, orphans, deletion>>

(* A pattern with a wildcard needs a listing of its own; one that cannot   *)
(* be had leaves the pattern naming nothing, without a warning.            *)
ExpandScanPattern ==
    /\ pc = "expand"
    /\ \/ /\ pattern <= Len(Patterns)
          /\ \/ toList' = Patterns[pattern].dirs /\ UNCHANGED unnamed
             \/ /\ Patterns[pattern].wild /\ MayFail("list")
                /\ toList' = {} /\ unnamed' = unnamed \cup {pattern}
          /\ pc' = "list"
       \/ /\ pattern > Len(Patterns)
          /\ pc' = "confirm"
          /\ UNCHANGED <<toList, unnamed>>
    /\ UNCHANGED <<machine, keys, changed, names, readUpTo, claimed, pattern, unread, orphans,
                   deletion, exit>>

(* Every disk in a directory that no entry claims and that is not on the   *)
(* list already.                                                           *)
DisksIn(dir) ==
    {file \in Spelled : /\ file.path[1] = dir
                        /\ file.spelling = Patterns[pattern].spelling
                        /\ Exists(file.path)}

\* Mutant: what another pattern has found already is found again.
UnclaimedAgain(dir) == {file \in DisksIn(dir) : Canonical(file) \notin claimed}

UnclaimedDisks(dir) ==
    {file \in DisksIn(dir) :
        Canonical(file) \notin claimed \cup {Canonical(found) : found \in orphans}}

\* Mutant: one directory that cannot be read ends its pattern.
ListOrGiveUp ==
    /\ pc = "list"
    /\ \/ \E dir \in toList :
             \/ /\ toList' = toList \ {dir}
                /\ orphans' = orphans \cup UnclaimedDisks(dir)
                /\ UNCHANGED unread
             \/ /\ MayFail("list")
                /\ toList' = {}
                /\ unread' = unread \cup {dir}
                /\ UNCHANGED orphans
          /\ UNCHANGED <<pc, pattern>>
       \/ /\ toList = {}
          /\ pc' = "expand" /\ pattern' = pattern + 1
          /\ UNCHANGED <<toList, unread, orphans>>
    /\ UNCHANGED <<machine, keys, changed, names, readUpTo, claimed, unnamed, deletion, exit>>

(* The directories of a pattern are listed one at a time, in any order; a  *)
(* directory that cannot be read is skipped.                               *)
ListDirectory ==
    /\ pc = "list"
    /\ \/ /\ \E dir \in toList :
                /\ toList' = toList \ {dir}
                /\ \/ /\ orphans' = orphans \cup UnclaimedDisks(dir)
                      /\ UNCHANGED unread
                   \/ /\ MayFail("list")
                      /\ unread' = unread \cup {dir}
                      /\ UNCHANGED orphans
          /\ UNCHANGED <<pc, pattern>>
       \/ /\ toList = {}
          /\ pc' = "expand" /\ pattern' = pattern + 1
          /\ UNCHANGED <<toList, unread, orphans>>
    /\ UNCHANGED <<machine, keys, changed, names, readUpTo, claimed, unnamed, deletion, exit>>

----------------------------------------------------------------------------
(* Nothing found, only a list asked for, --dry-run, or an answer that is   *)
(* not yes, and the command is over; or --yes, or an answer that is.       *)
Confirm ==
    /\ pc = "confirm"
    /\ \/ Exited("ok") /\ UNCHANGED left
       \/ orphans # {} /\ pc' = "lock" /\ left' = orphans /\ UNCHANGED exit
    /\ UNCHANGED <<machine, keys, changed, scan, orphans, current, kept>>

Keep(file) ==
    /\ left' = left \ {file}
    /\ kept' = kept \cup {file}
    /\ pc' = "lock"
    /\ UNCHANGED <<files, current>>

(* is_locked(): a disk that is open, or gone, is reported and the rest are *)
(* still tried.  Nothing depends on the order they are tried in.           *)
CheckLock ==
    /\ pc = "lock"
    /\ \E file \in left :
          \/ /\ Exists(file.path) /\ ~InUse(file.path)
             /\ pc' = "remove" /\ current' = file
             /\ UNCHANGED <<files, left, kept>>
          \/ /\ ~Exists(file.path) \/ InUse(file.path) \/ MayFail("locked")
             /\ Keep(file)
    /\ UNCHANGED <<registry, guest, attached, handles, written, keys, changed,
                   scan, orphans, exit>>

Remove ==
    /\ pc = "remove"
    /\ \/ /\ CanRemove(current.path)
          /\ files' = Removed(current.path)
          /\ left' = left \ {current}
          /\ pc' = "lock"
          /\ UNCHANGED <<current, kept>>
       \/ /\ ~CanRemove(current.path) \/ MayFail("remove")
          /\ Keep(current)
    /\ UNCHANGED <<registry, guest, attached, handles, written, keys, changed,
                   scan, orphans, exit>>

DeletionCode ==
    IF kept = {} THEN "ok" ELSE IF kept = orphans THEN "busy" ELSE "partial"

EndDeletion ==
    /\ pc = "lock" /\ left = {}
    /\ Exited(DeletionCode)
    /\ UNCHANGED <<machine, keys, changed, scan, orphans, deletion>>

Step ==
    \/ EnumerateKey \/ ReadKey \/ DefaultScanPatterns \/ ExpandScanPattern
    \/ ListDirectory \/ Confirm \/ CheckLock \/ Remove \/ EndDeletion

----------------------------------------------------------------------------
FreeOf(d) == {p \in Path : ~Exists(p) /\ \A e \in Distro \ {d} : Home(e) # p}

(* `wsl --install` or `--import`: the key first, its name once the disk    *)
(* has been made.  Its GUID is a new one.                                  *)
Register(d) ==
    /\ "register" \in Happens
    /\ keys[d] = "absent" /\ d \notin changed
    /\ \E p \in FreeOf(d) :
          /\ registry' = [registry EXCEPT ![d] = EntryFor(p)]
          /\ files' = [files EXCEPT ![p] = Fresh(d)]
          /\ attached' = attached \cup {p}
    /\ keys' = [keys EXCEPT ![d] = "nameless"]
    /\ UNCHANGED <<guest, handles, written>>

Named(d) ==
    /\ "register" \in Happens
    /\ keys[d] = "nameless"
    /\ keys' = [keys EXCEPT ![d] = "complete"]
    /\ UNCHANGED machine

(* `wsl --unregister`: the disk and the key go.                            *)
Unregister(d) ==
    /\ "unregister" \in Happens
    /\ keys[d] = "complete" /\ d \notin Running
    /\ keys' = [keys EXCEPT ![d] = "absent"]
    /\ IF CanRemove(Home(d)) THEN files' = Removed(Home(d)) ELSE UNCHANGED files
    /\ UNCHANGED <<registry, guest, attached, handles, written>>

(* Another command moves a distribution: its disk, then its entry.         *)
MovedDisk(d) ==
    /\ "move" \in Happens
    /\ keys[d] = "complete" /\ d \notin Running
    /\ \E p \in FreeOf(d) :
          /\ CanRename(Home(d), p)
          /\ files' = Renamed(Home(d), p)
    /\ UNCHANGED <<registry, guest, attached, handles, written, keys>>

MovedEntry(d) ==
    /\ "move" \in Happens
    /\ keys[d] = "complete" /\ d \notin Running
    /\ \E p \in Path :
          /\ ~Exists(Home(d)) /\ Exists(p) /\ files[p].of = d
          /\ registry' = [registry EXCEPT ![d] = EntryFor(p)]
    /\ UNCHANGED <<files, guest, attached, handles, written, keys>>

(* What others do while the command is at work, and no longer.  A          *)
(* distribution whose installation is not over is not being used.          *)
Environment ==
    /\ pc # "ended"
    /\ \/ /\ MachineNext({d \in Distro : keys[d] = "complete"}, {})
          /\ UNCHANGED <<keys, changed>>
       \/ \E d \in Distro :
             /\ \/ Register(d) \/ Named(d) \/ Unregister(d)
                \/ MovedDisk(d) \/ MovedEntry(d)
             /\ changed' = changed \cup {d}
    /\ UNCHANGED command

Next == Step \/ Environment

Spec == Init /\ [][Next]_vars

----------------------------------------------------------------------------
(* The disk of a distribution that has been registered all along, and has  *)
(* not been moved, is not deleted, however its BasePath is spelled and     *)
(* whatever is registered or moved meanwhile.                              *)
Settled == {d \in Distro : keys[d] = "complete"} \ changed

SettledClaimsSurvive ==
    [][\A d \in Settled' : Exists(Home(d)) => Exists(Home(d))']_vars

(* With nobody else at work, the exit code tells what is left: "ok" when   *)
(* every disk on the list has gone, "busy" when none has, and "partial"    *)
(* when some have.                                                         *)
StillThere == {file \in orphans : Exists(file.path)}

WentToDelete == kept # {} \/ current # NoFile

ExitTellsWhatIsLeft ==
    (pc = "ended" /\ WentToDelete /\ changed = {}) =>
        /\ exit = "ok" <=> StillThere = {}
        /\ exit = "busy" <=> StillThere = orphans

(* A scan that comes to its list, with nobody else at work, has every disk *)
(* on it that lies where a pattern says and that no registered             *)
(* distribution claims.  A directory that could not be listed hides only   *)
(* its own disks, and a warning names it; a wildcard that could not be     *)
(* expanded hides those of its pattern and no other's, without a word; and *)
(* a subkey that could not be read leaves no list at all, so that its disk *)
(* is not taken for unclaimed (enumerate(), expand_scan_pattern(),         *)
(* find_orphans()).                                                        *)
NothingHidden ==
    (pc = "confirm" /\ changed = {}) =>
        \A i \in DOMAIN Patterns \ unnamed : \A p \in (Patterns[i].dirs \ unread) \X Name :
            Exists(p) => \/ \E d \in Settled : Home(d) = p
                         \/ \E file \in orphans : file.path = p

(* enumerate() "fails only when the key itself cannot be read.  Anything   *)
(* wrong with an individual subkey becomes a warning" (distro.h:100-101):  *)
(* reading the subkeys does not end the command.                           *)
(* The code does not keep this (README, section 6).                        *)
BadSubkeysAreWarnings == [][pc = "read" => exit' # "error"]_vars
=============================================================================
