-------------------------------- MODULE Wsl --------------------------------
(***************************************************************************)
(* The machine wsldisk runs on, as the code under src/ relies on it: disk  *)
(* files, the Lxss registry key, the distributions that are running, and   *)
(* the utility VM that keeps every attached disk open until it idles out.  *)
(* Everything here except the registry entry and the path it resolves to   *)
(* is code outside the repository (WSL, NTFS), modelled from how src/ uses *)
(* it.  The modules of the operations extend this one and interleave their *)
(* steps with MachineNext.                                                 *)
(***************************************************************************)
EXTENDS FiniteSets

CONSTANTS
    Distro,       \* registered distributions (registry GUIDs)
    Wsl2,         \* those whose Version is 2; the others have no disk
    Stray,        \* the owner of a disk no distribution is registered for
    Dir,          \* directories a disk can be in
    Volume,       \* the volume each directory is on
    Name,         \* names a disk file can have
    DefaultName,  \* ext4.vhdx, what WSL assumes when VhdFileName is absent
    NoVhdName,    \* VhdFileName is absent: the legacy layout
    NoFile,       \* nothing at this path
    Off,          \* the distribution is not running
    Write,        \* identities of the writes a guest makes to its disk
    Process       \* the wsldisk processes

Path == Dir \X Name

(* `extended` is the \\?\ prefix, which varies per distribution and must   *)
(* be written back in the form it was found.                               *)
BasePath == [extended : BOOLEAN, dir : Dir]
Entry == [base : BasePath, vhd : Name \cup {NoVhdName}]

(* A .vhdx: whose filesystem it is, which of that guest's writes it holds, *)
(* and whether it is a complete disk rather than part of one.              *)
Owner == Distro \cup {Stray}
Disk == [of : Owner, data : SUBSET Write, whole : BOOLEAN]

(* An open file: `shared` when others may still read it.                   *)
Handle == [by : Process, path : Path, shared : BOOLEAN]

ASSUME WslAssumption ==
    /\ Wsl2 \subseteq Distro
    /\ Stray \notin Distro
    /\ DefaultName \in Name
    /\ NoVhdName \notin Name
    /\ NoFile \notin Disk
    /\ Off \notin Path

VARIABLES
    files,     \* what is at each path
    registry,  \* each distribution's Lxss entry
    guest,     \* the path each distribution was booted from, or Off
    attached,  \* the disks the utility VM has open
    handles,   \* the disks wsldisk processes have open
    written    \* every write ever made to each owner's filesystem

machine == <<files, registry, guest, attached, handles, written>>

MachineTypeOK ==
    /\ files \in [Path -> Disk \cup {NoFile}]
    /\ registry \in [Distro -> Entry]
    /\ guest \in [Distro -> Path \cup {Off}]
    /\ attached \subseteq Path
    /\ handles \subseteq Handle
    /\ written \in [Owner -> SUBSET Write]

(* Where an entry's disk is: base path without its prefix, then the name.  *)
Resolve(entry) ==
    <<entry.base.dir, IF entry.vhd = NoVhdName THEN DefaultName ELSE entry.vhd>>

Home(d) == Resolve(registry[d])

Exists(p) == files[p] # NoFile

Held(p) == \E h \in handles : h.path = p

(* A file something has open cannot be renamed, deleted or opened alone.   *)
InUse(p) == p \in attached \/ Held(p)

Running == {d \in Distro : guest[d] # Off}

Fresh(owner) == [of |-> owner, data |-> {}, whole |-> TRUE]
Damaged == [of |-> Stray, data |-> {}, whole |-> FALSE]

(* The disk at p is a complete one holding all there is of o's filesystem. *)
HoldsAll(p, o) ==
    /\ Exists(p)
    /\ files[p].of = o
    /\ files[p].whole
    /\ written[o] \subseteq files[p].data

(* Nothing runs yet.  Every WSL2 distribution has one disk: where its      *)
(* entry says, or elsewhere because the user moved it.  Stray disks may    *)
(* lie anywhere else, some of them damaged.                                *)
MachineInit ==
    /\ registry \in [Distro -> Entry]
    /\ \A d, e \in Distro : d # e => Home(d) # Home(e)
    /\ files \in [Path -> {NoFile, Damaged} \cup {Fresh(o) : o \in Wsl2 \cup {Stray}}]
    /\ \A d \in Wsl2 : \E p \in Path :
          \A q \in Path : (files[q] = Fresh(d)) <=> (q = p)
    /\ \A d \in Wsl2, e \in Distro : d # e => files[Home(e)] # Fresh(d)
    /\ guest = [d \in Distro |-> Off]
    /\ attached = {}
    /\ handles = {}
    /\ written = [o \in Owner |-> {}]

----------------------------------------------------------------------------
(* What a file API call does, when it succeeds.                            *)
CanRename(from, to) ==
    /\ Exists(from)
    /\ ~Exists(to)
    /\ ~InUse(from)
    /\ Volume[from[1]] = Volume[to[1]]

Renamed(from, to) == [files EXCEPT ![to] = files[from], ![from] = NoFile]

CanRemove(p) == Exists(p) /\ ~InUse(p)

Removed(p) == [files EXCEPT ![p] = NoFile]

CanRead(p) ==
    /\ Exists(p)
    /\ p \notin attached
    /\ \A h \in handles : h.path = p => h.shared

----------------------------------------------------------------------------
(* WSL can attach d's disk: it is there, no wsldisk handle denies it, and  *)
(* no other running distribution has booted from it.                       *)
CanBoot(d) ==
    /\ d \in Wsl2
    /\ guest[d] = Off
    /\ Exists(Home(d))
    /\ ~Held(Home(d))
    /\ \A e \in Distro : guest[e] # Home(d)

Boot(d) ==
    /\ guest' = [guest EXCEPT ![d] = Home(d)]
    /\ attached' = attached \cup {Home(d)}

(* `wsl -d` runs a command in d: where it is up already, or once it has    *)
(* booted from whatever its entry names.                                   *)
RunsIn(d) ==
    \/ d \in Running /\ UNCHANGED <<guest, attached>>
    \/ CanBoot(d) /\ files[Home(d)].whole /\ Boot(d)

(* It cannot: there is no disk to boot, or the disk does not boot.         *)
CannotRunIn(d) ==
    /\ d \notin Running
    /\ CanBoot(d) => ~files[Home(d)].whole
    /\ UNCHANGED guest
    /\ \/ UNCHANGED attached
       \/ CanBoot(d) /\ attached' = attached \cup {Home(d)}

(* The command failed or timed out, which says nothing about the guest.    *)
MayHaveRunIn(d) == UNCHANGED <<guest, attached>> \/ RunsIn(d)

(* The user, or anything the user runs, starts a distribution.             *)
StartGuest(d) ==
    /\ CanBoot(d)
    /\ files[Home(d)].whole
    /\ Boot(d)
    /\ UNCHANGED <<files, registry, handles, written>>

(* `wsl --terminate`, or a distribution with nothing left running in it.   *)
(* Its disk stays attached.                                                *)
StopGuest(d) ==
    /\ guest[d] # Off
    /\ guest' = [guest EXCEPT ![d] = Off]
    /\ UNCHANGED <<files, registry, attached, handles, written>>

(* With nothing running the utility VM idles out and releases every disk.  *)
VmIdlesOut ==
    /\ Running = {}
    /\ attached # {}
    /\ attached' = {}
    /\ UNCHANGED <<files, registry, guest, handles, written>>

(* A guest changes its filesystem, in whichever file it booted from.       *)
GuestWrites(d, w) ==
    /\ guest[d] # Off
    /\ \A o \in Owner : w \notin written[o]
    /\ files' = [files EXCEPT ![guest[d]].data = @ \cup {w}]
    /\ written' = [written EXCEPT ![files[guest[d]].of] = @ \cup {w}]
    /\ UNCHANGED <<registry, guest, attached, handles>>

(* Another program puts a disk of its own at a free path.                  *)
StrayAppears(p) ==
    /\ ~Exists(p)
    /\ files' = [files EXCEPT ![p] = Fresh(Stray)]
    /\ UNCHANGED <<registry, guest, attached, handles, written>>

(* What happens on the machine besides wsldisk, when the distributions in  *)
(* `used` are in somebody's hands and strangers write to `strangers`.      *)
MachineNext(used, strangers) ==
    \/ \E d \in used : StartGuest(d) \/ \E w \in Write : GuestWrites(d, w)
    \/ \E d \in Distro : StopGuest(d)
    \/ VmIdlesOut
    \/ \E p \in strangers : StrayAppears(p)
=============================================================================
