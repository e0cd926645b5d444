-------------------------------- MODULE Move --------------------------------
(***************************************************************************)
(* `wsldisk move`: transfer the disk by rename or by copy, repoint the     *)
(* registry, boot the distribution from the new disk, and only then delete *)
(* the original.                                                           *)
(***************************************************************************)
EXTENDS Operation

VARIABLES
    job,     \* the command line
    seen     \* what the source held when its allocated ranges were listed

vars == <<machine, control, job, seen>>

Job == [distro : Distro, dest : Dir, keep : BOOLEAN, dryRun : BOOLEAN]

Source == Resolve(was)
Target == <<job.dest, Source[2]>>

\* Mutants: BasePath becomes a file path, stays what it was, loses its prefix.
FilePathAsBase == [was.base EXCEPT !.dir = Target]
UnchangedBase == was.base
PlainBase == [extended |-> FALSE, dir |-> job.dest]

IntendedBase == [was.base EXCEPT !.dir = job.dest]

SameVolume == Volume[Source[1]] = Volume[job.dest]
WasRenamed == SameVolume /\ ~job.keep

MovePc == {"enumerate", "plan", "rename", "ranges", "create", "copying", "discard",
           "base", "vhd", "boot", "delete", "verifyFile", "verifyBase", "undo"} \cup Final

TypeOK ==
    /\ MachineTypeOK
    /\ ControlTypeOK
    /\ pc \in MovePc
    /\ job \in Job
    /\ seen \subseteq Write

Init ==
    /\ MachineInit
    /\ job \in Job
    /\ ControlInit(job.distro)
    /\ seen = {}

----------------------------------------------------------------------------
Read == Enumerate(job.distro) /\ UNCHANGED <<job, seen>>

(* The checks of plan() that come before it asks what is running.          *)
\* Mutant: whether the destination is free is not asked.
UnmovableBlind ==
    job.distro \notin Wsl2 \/ ~Exists(Source) \/ Source = Target

Unmovable ==
    \/ job.distro \notin Wsl2
    \/ ~Exists(Source)
    \/ Source = Target
    \/ Exists(Target)

(* The volumes and sizes are looked up; only a copy needs room for it and  *)
(* a file system that can hold it.                                         *)
VolumeRefuses ==
    /\ MayFail("volume")
    /\ Finish("error") \/ (~WasRenamed /\ Finish("preflight"))

(* The plan has its one irreversible step last, so the runner takes it.  A *)
(* dry run stops here.                                                     *)
Accept ==
    IF job.dryRun THEN Finish("ok")
    ELSE Goto(IF WasRenamed THEN "rename" ELSE "ranges")

Plan ==
    /\ pc = "plan"
    /\ \/ Unmovable /\ Finish("preflight")
       \/ ~Unmovable /\ RefuseIfRunning(job.distro)
       \/ ~Unmovable /\ job.distro \notin Running /\ (VolumeRefuses \/ Accept)
    /\ UNCHANGED <<machine, job, seen>>

----------------------------------------------------------------------------
(* What transfer() pushes once the target is there.                        *)
\* Mutant: one way of undoing for both ways of transferring.
AlwaysRemoved == "removeCopy"

TransferUndo == IF WasRenamed THEN "moveBack" ELSE "removeCopy"

(* transfer() within a volume.                                             *)
Rename ==
    /\ pc = "rename"
    /\ \/ /\ CanRename(Source, Target)
          /\ files' = Renamed(Source, Target)
          /\ PushAndGoto(TransferUndo, "base")
       \/ /\ ~CanRename(Source, Target) \/ MayFail("rename")
          /\ Abort("error")
          /\ UNCHANGED files
    /\ UNCHANGED <<registry, guest, attached, handles, written, job, seen>>

(* Across volumes the directory is made, and copy_file_sparse() lists the  *)
(* ranges before it denies anyone writing.                                 *)
ListRanges ==
    /\ pc = "ranges"
    /\ \/ /\ Exists(Source)
          /\ seen' = files[Source].data
          /\ Goto("create")
       \/ /\ ~Exists(Source) \/ MayFail("copy")
          /\ Goto("discard")
          /\ UNCHANGED seen
       \/ /\ MayFail("directory")
          /\ Abort("error")
          /\ UNCHANGED seen
    /\ UNCHANGED <<machine, job>>

(* The source is opened denying writes, then the target is created new.    *)
CopyHandles == {[by |-> Self, path |-> Source, shared |-> TRUE],
                [by |-> Self, path |-> Target, shared |-> FALSE]}

CreateTarget ==
    /\ pc = "create"
    /\ \/ /\ CanRead(Source) /\ ~Exists(Target)
          /\ handles' = handles \cup CopyHandles
          /\ files' = [files EXCEPT ![Target] =
                          [of |-> files[Source].of, data |-> {}, whole |-> FALSE]]
          /\ Goto("copying")
       \/ /\ ~CanRead(Source) \/ Exists(Target) \/ MayFail("copy")
          /\ Goto("discard")
          /\ UNCHANGED <<files, handles>>
    /\ UNCHANGED <<registry, guest, attached, written, job, seen>>

(* What was in a listed range is copied as it now is; a write made since   *)
(* is copied only as far as it fell in one.                                *)
CopyBytes ==
    /\ pc = "copying"
    /\ handles' = handles \ CopyHandles
    /\ \/ /\ \E since \in SUBSET (files[Source].data \ seen) :
                files' = [files EXCEPT ![Target] =
                             [@ EXCEPT !.data = (files[Source].data \cap seen) \cup since,
                                       !.whole = files[Source].whole]]
          /\ PushAndGoto(TransferUndo, "base")
       \/ /\ MayFail("copy")
          /\ Goto("discard")
          /\ UNCHANGED files
    /\ UNCHANGED <<registry, guest, attached, written, job, seen>>

(* A copy that failed is removed, best effort, wherever it failed.         *)
DiscardCopy ==
    /\ pc = "discard"
    /\ \/ CanRemove(Target) /\ files' = Removed(Target)
       \/ (~CanRemove(Target) \/ MayFail("remove")) /\ UNCHANGED files
    /\ Abort("error")
    /\ UNCHANGED <<registry, guest, attached, handles, written, job, seen>>

----------------------------------------------------------------------------
RepointBase ==
    /\ pc = "base"
    /\ WriteBase(job.distro, IntendedBase, "vhd")
    /\ UNCHANGED <<files, guest, attached, handles, written, job, seen>>

RepointVhd ==
    /\ pc = "vhd"
    /\ WriteVhd(job.distro, Target[2], "boot")
    /\ UNCHANGED <<files, guest, attached, handles, written, job, seen>>

ProveItBoots ==
    /\ pc = "boot"
    /\ SmokeTest(job.distro, IF WasRenamed \/ job.keep THEN "verifyFile" ELSE "delete")
    /\ UNCHANGED <<files, registry, handles, written, job, seen>>

(* The point of no return.  A source that will not go is only reported.    *)
DeleteSource ==
    /\ pc = "delete"
    /\ \/ CanRemove(Source) /\ files' = Removed(Source)
       \/ (~CanRemove(Source) \/ MayFail("remove")) /\ UNCHANGED files
    /\ Goto("verifyFile")
    /\ UNCHANGED <<registry, guest, attached, handles, written, job, seen>>

VerifyFile ==
    /\ pc = "verifyFile"
    /\ IF Exists(Target) THEN Goto("verifyBase") ELSE Finish("partial")
    /\ UNCHANGED <<machine, job, seen>>

VerifyRegistry ==
    /\ pc = "verifyBase"
    /\ VerifyBase(job.distro, IntendedBase)
    /\ UNCHANGED <<machine, job, seen>>

Rollback ==
    /\ Unwind(job.distro, Source, Target) \/ RolledBack
    /\ UNCHANGED <<job, seen>>

----------------------------------------------------------------------------
Step ==
    \/ Read \/ Plan \/ Rename
    \/ ListRanges \/ CreateTarget \/ CopyBytes \/ DiscardCopy
    \/ RepointBase \/ RepointVhd \/ ProveItBoots
    \/ DeleteSource \/ VerifyFile \/ VerifyRegistry
    \/ Rollback

(* In between, the distribution is used only if UsedMeanwhile; so is one   *)
(* whose own entry names the target.                                       *)
InUserHands ==
    IF UsedMeanwhile \/ Settled THEN Distro
    ELSE {g \in Distro : g # job.distro /\ Home(g) # Target}

Environment ==
    /\ MachineNext(InUserHands, FreePaths)
    /\ UNCHANGED <<control, job, seen>>

Next ==
    \/ Step
    \/ Killed /\ UNCHANGED <<job, seen>>
    \/ Environment

Spec == Init /\ [][Next]_vars

(* The process is scheduled, and every call it makes returns: those that   *)
(* wait for WSL have a timeout.                                            *)
FairSpec == Spec /\ WF_vars(Step)

----------------------------------------------------------------------------
(* At every moment, and whenever the process is killed, the filesystem of  *)
(* every distribution is complete in some one file.                        *)
Lossless == \A d \in Wsl2 : \E p \in Path : HoldsAll(p, d)

(* However a move fails and whatever else its rollback cannot undo, the    *)
(* entry is as it was found unless the write putting it back failed.       *)
EntryIsPutBack == EntryIsPutBackOf(job.distro, {"base"})

(* A rollback that could undo everything it had done leaves the disk where *)
(* it was, and no second complete disk.                                    *)
RollbackRestores ==
    (pc = "undo" /\ Len(undo) = 0 /\ unrestored = {}) =>
        /\ Exists(Source) /\ (files[Source].of # Stray => files[Source].whole)
        /\ Exists(Target) => ~files[Target].whole

(* A move that copies never leaves the entry naming no complete disk: not  *)
(* between two steps, not half way through a rollback.                     *)
HomeIsWhole == Exists(Home(job.distro)) /\ files[Home(job.distro)].whole

CopyNeverDangles ==
    [][~WasRenamed /\ unrestored' = {} /\ HomeIsWhole => HomeIsWhole']_vars

(* The original goes only once the guest has run from the new disk.        *)
DeletedOnlyAfterBoot ==
    [][pc = "delete" /\ Exists(Source) /\ ~Exists(Source)' => proof = Target]_vars

(* A move reported as done: the entry names the target in the form it had, *)
(* the target is complete and was booted, and a source to be kept is kept. *)
SuccessMeansMoved ==
    (pc = "ended" /\ exit = "ok" /\ ~job.dryRun) =>
        /\ Home(job.distro) = Target /\ proof = Target
        /\ registry[job.distro].base.extended = was.base.extended
        /\ registry[job.distro].vhd = was.vhd
        /\ Exists(Target)
        /\ HoldsAll(Target, files[Target].of) \/ files[Target].of = Stray
        /\ job.keep => Exists(Source)

(* A disk that is not this distribution's is not removed from the target.  *)
StraysSurvive ==
    [][(Exists(Source) /\ files[Source].of # Stray
        /\ Exists(Target) /\ files[Target].of = Stray) => Exists(Target)']_vars

(* MOVE.md:37: a failure at step 3 puts the registry back, removes the     *)
(* copy and leaves the working distribution there was, not two halves of   *)
(* one.  Once a rollback is over, the entry names a file that is there.    *)
(* The code does not keep this (README, section 6).                        *)
NotTwoHalves ==
    [][pc = "undo" /\ pc' = "ended" => Exists(Home(job.distro))]_vars

(* MOVE.md:69: the ranges the filesystem reports as allocated are written  *)
(* and the contents are then byte-for-byte identical.  A copy that is done *)
(* has all the source has.                                                 *)
(* The code does not keep this (README, section 6).                        *)
CopyIsIdentical ==
    [][pc = "copying" /\ pc' = "base" => files'[Target].data = files[Source].data]_vars

(* A move ends, and its rollback too, whatever fails on the way.           *)
MoveEnds == <>(pc \in Final)

(* A move is a relocation: whatever it does to the files and the entry, it *)
(* never gives up the copy the entry names, nor the last one.              *)
Relocates ==
    INSTANCE Relocation WITH
        Place  <- Path,
        copies <- {p \in Path : HoldsAll(p, job.distro)},
        home   <- Home(job.distro)

MoveIsRelocation == Relocates!Spec
----------------------------------------------------------------------------
(* What holds whoever interferes: an open file is there, and this process  *)
(* holds the two ends of a copy exactly while it copies.                   *)
GuestsHoldDisks ==
    /\ \A g \in Distro : guest[g] # Off => guest[g] \in attached
    /\ \A p \in attached : Exists(p)

HandlesAreCopy ==
    /\ handles = IF pc = "copying" THEN CopyHandles ELSE {}
    /\ pc = "copying" => Source # Target /\ Exists(Source) /\ Exists(Target)

Solid == TypeOK /\ GuestsHoldDisks /\ HandlesAreCopy

(* The inductive invariant.  When nobody uses the distribution meanwhile,  *)
(* each filesystem is in exactly one live file, and that file is complete; *)
(* the only other file it can be in is the spare: the copy until the guest *)
(* has booted from it, and the source from then on.                        *)
Committed ==
    \/ pc \in {"delete", "verifyFile", "verifyBase"}
    \/ pc = "ended" /\ Len(undo) > 0

Doubled ==
    /\ pc \notin {"enumerate", "plan"}
    /\ Source # Target
    /\ Exists(Source) /\ Exists(Target)
    /\ files[Source].of = files[Target].of
    /\ files[Source].of \in Wsl2

Spare == IF ~Doubled THEN {} ELSE IF Committed THEN {Source} ELSE {Target}

Live == {p \in Path \ Spare : Exists(p) /\ files[p].of \in Wsl2}

OwnersAreKnown == \A p \in Path : Exists(p) => files[p].of \in Wsl2 \cup {Stray}

LiveAreComplete == \A p \in Live : HoldsAll(p, files[p].of)
LiveAreUnique == \A p, q \in Live : files[p].of = files[q].of => p = q
LiveAreAll == \A d \in Wsl2 : \E p \in Live : files[p].of = d

HomesAreDistinct ==
    \A g \in Distro : g # job.distro =>
        Home(g) # (IF pc = "enumerate" THEN Home(job.distro) ELSE Source)

(* How far the entry and the undo stack have got, by program counter.      *)
Repointed == [was EXCEPT !.base = IntendedBase]

StackIsKnown ==
    /\ Len(undo) <= 3
    /\ Len(undo) >= 1 => undo[1] = TransferUndo
    /\ Len(undo) >= 2 => undo[2] = "base"
    /\ Len(undo) >= 3 => undo[3] = "vhd"

RouteIsKnown ==
    /\ pc = "rename" => WasRenamed
    /\ pc \in {"ranges", "create", "copying", "discard"} => ~WasRenamed
    /\ pc = "delete" => ~WasRenamed /\ ~job.keep

BeforeTransfer == {"rename", "ranges", "create", "copying", "discard"}

EntryIsKnown ==
    /\ pc # "enumerate" => registry[job.distro] \in {was, Repointed}
    /\ pc \in {"plan", "base"} \cup BeforeTransfer => registry[job.distro] = was
    /\ pc \in {"enumerate", "plan"} \cup BeforeTransfer =>
          Len(undo) = 0 /\ unrestored = {}
    /\ pc = "base" => Len(undo) = 1
    /\ pc = "vhd" => Len(undo) = 2
    /\ pc = "boot" => Len(undo) >= 2
    /\ pc \in {"vhd", "boot"} \/ Committed =>
          registry[job.distro] = Repointed /\ Len(undo) > 0
    /\ pc = "undo" /\ "base" \notin unrestored /\ Len(undo) <= 1 =>
          registry[job.distro] = was
    /\ pc = "ended" /\ "base" \notin unrestored /\ Len(undo) = 0 =>
          registry[job.distro] = was

(* Where the disk is, by program counter and undo stack.  Where nothing is *)
(* to be, a stranger may have put a disk of its own.                       *)
Vacant(p) == Exists(p) => StrangersWrite /\ files[p].of = Stray

Transferred ==
    /\ Source # Target
    /\ Exists(Target)
    /\ IF WasRenamed THEN Vacant(Source)
       ELSE Exists(Source) /\ files[Source].of = files[Target].of

PartOfCopy(p) == files[p].of = files[Source].of /\ ~files[p].whole

DiskIsPlaced ==
    /\ pc \in {"rename", "ranges", "create"} =>
          Source # Target /\ Exists(Source) /\ Vacant(Target)
    /\ pc = "copying" => Exists(Target) /\ PartOfCopy(Target)
    /\ pc \in {"copying", "discard"} \/ (pc = "undo" /\ Len(undo) = 0 /\ unrestored = {}) =>
          /\ Source # Target /\ Exists(Source)
          /\ Vacant(Target) \/ PartOfCopy(Target)
    /\ pc \in {"base", "vhd", "boot", "delete"} \/ (pc = "undo" /\ Len(undo) > 0) =>
          Transferred

DiskIsKnown ==
    /\ DiskIsPlaced
    /\ pc \in {"base", "vhd", "boot"} /\ files[Target].of \in Wsl2 =>
          HoldsAll(Target, files[Target].of)

(* The ranges listed cover all there is while the copy is made, and the    *)
(* original stays complete until it goes.                                  *)
SeenIsAll ==
    pc \in {"create", "copying"} /\ files[Source].of \in Wsl2 =>
        written[files[Source].of] \subseteq seen

BothAreComplete ==
    pc \in {"delete", "verifyFile", "verifyBase"} /\ Doubled =>
        HoldsAll(Source, files[Source].of)

(* Who may be running from the two files a move handles.                   *)
GuestsKeepAway ==
    /\ pc \in {"enumerate", "plan"} => \A g \in Distro : guest[g] \in {Off, Home(g)}
    /\ pc \notin {"enumerate", "plan", "ended"} \/ (pc = "ended" /\ unrestored # {}) =>
          /\ \A g \in Distro : g # job.distro => guest[g] \notin {Source, Target}
          /\ guest[job.distro] \in {Off, Target}
    /\ pc \in BeforeTransfer \cup {"base", "vhd", "boot"} => guest[job.distro] = Off
    /\ pc = "undo" /\ Len(undo) = 0 /\ unrestored = {} => guest[job.distro] = Off
    /\ Settled =>
          /\ \A g \in Distro : guest[g] \notin Spare
          /\ Doubled => Committed \/ ~files[Target].whole

FilesInv ==
    /\ OwnersAreKnown /\ LiveAreComplete /\ LiveAreUnique /\ LiveAreAll
    /\ DiskIsKnown /\ SeenIsAll /\ BothAreComplete /\ GuestsKeepAway

IInv ==
    /\ Solid /\ FilesInv
    /\ HomesAreDistinct /\ RouteIsKnown /\ StackIsKnown /\ EntryIsKnown
=============================================================================
