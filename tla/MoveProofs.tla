----------------------------- MODULE MoveProofs -----------------------------
(***************************************************************************)
(* Proofs about `wsldisk move`, for every set of distributions, paths and  *)
(* writes and every choice of what may fail: that its state is sound, that *)
(* the registry entry is put back, that no filesystem is lost, and that it *)
(* implements the relocation it promises.                                  *)
(***************************************************************************)
EXTENDS Move, WslProofs

(* An entry resolves to a path, and so the operation's two ends are paths. *)
LEMMA EndsArePaths ==
    ASSUME TypeOK
    PROVE  /\ \A d \in Distro : Home(d) \in Path
           /\ Source \in Path /\ Target \in Path
           /\ IntendedBase \in BasePath
           /\ Source[1] \in Dir /\ Source[2] \in Name
           /\ Source = <<Source[1], Source[2]>>
           /\ Target = <<job.dest, Source[2]>>
<1>1. \A entry \in Entry : /\ Resolve(entry) \in Path
                           /\ Resolve(entry)[1] \in Dir /\ Resolve(entry)[2] \in Name
                           /\ Resolve(entry) = <<Resolve(entry)[1], Resolve(entry)[2]>>
  BY WslAssumption DEF Resolve, Entry, BasePath, Path
<1>2. was \in Entry /\ job.dest \in Dir /\ \A d \in Distro : registry[d] \in Entry
  BY DEF TypeOK, MachineTypeOK, ControlTypeOK, Job
<1>3. IntendedBase \in BasePath
  BY <1>2 DEF IntendedBase, Entry, BasePath
<1> QED
  BY <1>1, <1>2, <1>3 DEF Home, Source, Target, Path

(* Type correctness: no step leaves the sets the state is described with.  *)
LEMMA TypeInit == Init => TypeOK
<1> SUFFICES ASSUME Init PROVE TypeOK
  OBVIOUS
<1>1. MachineTypeOK
  <2>1. Damaged \in Disk /\ \A o \in Wsl2 \cup {Stray} : Fresh(o) \in Disk
    BY WslAssumption DEF Fresh, Damaged, Disk, Owner
  <2>2. files \in [Path -> Disk \cup {NoFile}]
    BY <2>1 DEF Init, MachineInit
  <2> QED
    BY <2>2 DEF Init, MachineInit, MachineTypeOK
<1>2. ControlTypeOK
  BY DEF Init, MachineInit, ControlInit, ControlTypeOK, Job, Exit, Undo
<1> QED
  BY <1>1, <1>2 DEF Init, ControlInit, TypeOK, MovePc

(* Renaming or removing a file leaves a well-typed set of files.           *)
LEMMA RenamedType ==
    ASSUME TypeOK, NEW p \in Path, NEW q \in Path
    PROVE  /\ Renamed(p, q) \in [Path -> Disk \cup {NoFile}]
           /\ Removed(p) \in [Path -> Disk \cup {NoFile}]
BY DEF TypeOK, MachineTypeOK, Renamed, Removed

(* Guests and other programs keep what is open there.                      *)
LEMMA EnvironmentSolid == Solid /\ Environment => Solid'
<1> SUFFICES ASSUME Solid, Environment PROVE Solid'
  OBVIOUS
<1> USE EndsArePaths DEF Solid, TypeOK, MachineTypeOK
<1>1. /\ pc' = pc /\ ControlTypeOK' /\ job' = job /\ seen' = seen
      /\ Source' = Source /\ Target' = Target
  BY DEF Environment, control, ControlTypeOK, Source, Target
<1>2. ASSUME NEW d \in Distro, StartGuest(d) PROVE Solid'
  BY <1>1, <1>2 DEF StartGuest, Boot, GuestsHoldDisks, HandlesAreCopy, CopyHandles, Exists, CanBoot
<1>3. ASSUME NEW d \in Distro, NEW w \in Write, GuestWrites(d, w) PROVE Solid'
  <2> DEFINE p == guest[d]
  <2>1. p \in Path /\ files[p] \in Disk
    BY <1>3 DEF GuestWrites, GuestsHoldDisks, Exists
  <2>2. files' \in [Path -> Disk \cup {NoFile}] /\ \A q \in Path : Exists(q)' <=> Exists(q)
    BY <1>3, <2>1, WslAssumption DEF GuestWrites, Disk, Exists
  <2>3. written' \in [Owner -> SUBSET Write]
    BY <1>3, <2>1 DEF GuestWrites, Disk
  <2> QED
    BY <1>1, <1>3, <2>2, <2>3 DEF GuestWrites, GuestsHoldDisks, HandlesAreCopy, CopyHandles
<1>4. ASSUME NEW d \in Distro, StopGuest(d) PROVE Solid'
  BY <1>1, <1>4 DEF StopGuest, GuestsHoldDisks, HandlesAreCopy, CopyHandles, Exists
<1>5. ASSUME VmIdlesOut PROVE Solid'
  BY <1>1, <1>5 DEF VmIdlesOut, Running, GuestsHoldDisks, HandlesAreCopy, CopyHandles, Exists
<1>6. ASSUME NEW p \in Path, StrayAppears(p) PROVE Solid'
  <2>1. Fresh(Stray) \in Disk
    BY DEF Fresh, Disk, Owner
  <2>2. \A q \in Path : Exists(q) => Exists(q)'
    BY <1>6, <2>1, WslAssumption DEF StrayAppears, Exists
  <2> QED
    BY <1>1, <1>6, <2>1, <2>2 DEF StrayAppears, GuestsHoldDisks, HandlesAreCopy, CopyHandles
<1>7. InUserHands \subseteq Distro
  BY DEF InUserHands
<1> QED
  BY <1>2, <1>3, <1>4, <1>5, <1>6, <1>7 DEF Environment, MachineNext, FreePaths

(* Renaming and removing touch the files they name, and no other.          *)
LEMMA RenamedFiles ==
    ASSUME TypeOK, NEW p \in Path, NEW q \in Path
    PROVE  /\ files' = Removed(p) =>
                 \A x \in Path \ {p} : files'[x] = files[x]
           /\ files' = Removed(p) => ~Exists(p)'
           /\ files' = Renamed(p, q) /\ p # q =>
                 /\ \A x \in Path \ {p, q} : files'[x] = files[x]
                 /\ files'[q] = files[p] /\ ~Exists(p)'
BY DEF TypeOK, MachineTypeOK, Renamed, Removed, Exists

(* Every step of the command keeps the types, and what is open there.      *)
LEMMA StepSolid == Solid /\ Step => Solid'
<1> SUFFICES ASSUME Solid, Step PROVE Solid'
  OBVIOUS
<1> USE EndsArePaths DEF Solid
<1>0. /\ "base" \in Undo /\ "vhd" \in Undo /\ "moveBack" \in Undo /\ "removeCopy" \in Undo
      /\ {"ok", "preflight", "busy", "error", "partial"} \subseteq Exit
      /\ TransferUndo \in Undo
      /\ MovePc = {"enumerate", "plan", "rename", "ranges", "create", "copying",
           "discard", "base", "vhd", "boot", "delete", "verifyFile", "verifyBase",
           "undo", "ended", "killed"}
      /\ ControlTypeOK
  BY DEF Undo, Exit, MovePc, Final, TypeOK, TransferUndo
<1>a. \A entry \in Undo : Append(undo, entry) \in Seq(Undo)
  BY <1>0 DEF ControlTypeOK
<1>1. CASE Read
  <2>1. pc' = "plan" /\ pc = "enumerate" /\ was' \in Entry /\ UNCHANGED <<machine, job, seen>>
    BY <1>1 DEF Read, Enumerate, TypeOK, MachineTypeOK, Job
  <2>2. TypeOK'
    BY <1>0, <1>1, <2>1 DEF Read, Enumerate, machine, TypeOK, MachineTypeOK, ControlTypeOK
  <2> QED
    BY <2>1, <2>2 DEF machine, GuestsHoldDisks, HandlesAreCopy, Exists
<1>2. CASE Plan
  BY <1>2 DEF Plan, Unmovable, VolumeRefuses, Accept, RefuseIfRunning, Finish, Goto,
              machine, GuestsHoldDisks, HandlesAreCopy, Exists, MovePc, Final, Exit,
              TypeOK, MachineTypeOK, ControlTypeOK
<1>3. CASE Rename
  <2>1. ControlTypeOK' /\ pc' \in {"base", "undo"} /\ pc = "rename"
    BY <1>0, <1>a, <1>3 DEF Rename, PushAndGoto, Abort, ControlTypeOK, Exit
  <2>2. CASE files' = files
    BY <1>0, <1>3, <2>1, <2>2
       DEF Rename, GuestsHoldDisks, HandlesAreCopy, Exists, TypeOK, MachineTypeOK
  <2>3. CASE CanRename(Source, Target) /\ files' = Renamed(Source, Target)
    <3>1. Source # Target /\ Source \notin attached
      BY <2>3 DEF CanRename, InUse
    <3>2. GuestsHoldDisks'
      BY <1>3, <2>3, <3>1, RenamedFiles
         DEF Rename, GuestsHoldDisks, Exists, CanRename, TypeOK, MachineTypeOK
    <3> QED
      BY <1>0, <1>3, <2>1, <2>3, <3>2, RenamedType
         DEF Rename, HandlesAreCopy, TypeOK, MachineTypeOK
  <2> QED
    BY <1>3, <2>2, <2>3 DEF Rename
<1>4. CASE ListRanges
  BY <1>4 DEF ListRanges, Goto, Abort, machine, GuestsHoldDisks, HandlesAreCopy, Exists, MovePc,
              Exit, Disk, TypeOK, MachineTypeOK, ControlTypeOK
<1>5. CASE CreateTarget
  <2>1. ControlTypeOK' /\ pc = "create" /\ Source' = Source /\ Target' = Target
    BY <1>0, <1>5 DEF CreateTarget, Goto, Source, Target, ControlTypeOK
  <2>2. CASE UNCHANGED <<files, handles>> /\ Goto("discard")
    BY <1>0, <1>5, <2>1, <2>2
       DEF CreateTarget, Goto, GuestsHoldDisks, HandlesAreCopy, Exists, TypeOK, MachineTypeOK
  <2>3. CASE /\ CanRead(Source) /\ ~Exists(Target)
             /\ handles' = handles \cup CopyHandles
             /\ files' = [files EXCEPT ![Target] =
                             [of |-> files[Source].of, data |-> {}, whole |-> FALSE]]
             /\ Goto("copying")
    <3> DEFINE new == [of |-> files[Source].of, data |-> {}, whole |-> FALSE]
    <3>1. files[Source] \in Disk /\ Source # Target /\ Exists(Source)
      BY <2>3 DEF CanRead, Exists, TypeOK, MachineTypeOK
    <3>2. new \in Disk
      BY <3>1 DEF Disk
    <3>3. /\ files' \in [Path -> Disk \cup {NoFile}]
          /\ \A x \in Path : Exists(x) => Exists(x)'
          /\ Exists(Target)'
      <4> HIDE DEF new
      <4>1. files' = [files EXCEPT ![Target] = new] /\ new # NoFile
        BY <2>3, <3>2, WslAssumption DEF new
      <4>2. files' \in [Path -> Disk \cup {NoFile}] /\ files'[Target] = new
        BY <3>2, <4>1 DEF TypeOK, MachineTypeOK
      <4>3. \A x \in Path \ {Target} : files'[x] = files[x]
        BY <4>1 DEF TypeOK, MachineTypeOK
      <4> QED
        BY <2>1, <4>1, <4>2, <4>3 DEF Exists
    <3>4. CopyHandles \subseteq Handle /\ CopyHandles' = CopyHandles
      BY <2>1, OperationAssumption DEF CopyHandles, Handle
    <3> QED
      BY <1>0, <1>5, <2>1, <2>3, <3>1, <3>3, <3>4
         DEF CreateTarget, Goto, GuestsHoldDisks, HandlesAreCopy, TypeOK, MachineTypeOK
  <2> QED
    BY <1>5, <2>2, <2>3 DEF CreateTarget
<1>6. CASE CopyBytes
  <2>1. ControlTypeOK' /\ pc' \in {"base", "discard"} /\ handles' = {}
    BY <1>0, <1>a, <1>6 DEF CopyBytes, Goto, PushAndGoto, HandlesAreCopy, ControlTypeOK
  <2>2. files[Target] \in Disk /\ files[Source] \in Disk
    BY <1>6 DEF CopyBytes, HandlesAreCopy, Exists, TypeOK, MachineTypeOK
  <2>3. /\ files' \in [Path -> Disk \cup {NoFile}]
        /\ \A x \in Path : Exists(x) => Exists(x)'
    <3>1. CASE files' = files
      BY <3>1 DEF Exists, TypeOK, MachineTypeOK
    <3>2. CASE \E since \in SUBSET (files[Source].data \ seen) :
                 files' = [files EXCEPT ![Target] =
                             [@ EXCEPT !.data = (files[Source].data \cap seen) \cup since,
                                       !.whole = files[Source].whole]]
      <4>1. PICK since \in SUBSET (files[Source].data \ seen) :
                 files' = [files EXCEPT ![Target] =
                             [@ EXCEPT !.data = (files[Source].data \cap seen) \cup since,
                                       !.whole = files[Source].whole]]
        BY <3>2
      <4>2. [files[Target] EXCEPT !.data = (files[Source].data \cap seen) \cup since,
                                  !.whole = files[Source].whole] \in Disk
        BY <2>2 DEF Disk
      <4> QED
        BY <4>1, <4>2, WslAssumption DEF Exists, TypeOK, MachineTypeOK
    <3> QED
      BY <1>6, <3>1, <3>2 DEF CopyBytes
  <2> QED
    BY <1>0, <1>6, <2>1, <2>3
       DEF CopyBytes, GuestsHoldDisks, HandlesAreCopy, TypeOK, MachineTypeOK
<1>7. CASE DiscardCopy
  BY <1>7, RenamedType DEF DiscardCopy, Abort, CanRemove, InUse, Removed, GuestsHoldDisks,
      HandlesAreCopy, Exists, MovePc, Exit, TypeOK, MachineTypeOK, ControlTypeOK
<1>8. CASE RepointBase \/ RepointVhd
  <2>1. /\ ControlTypeOK' /\ pc' \in {"vhd", "boot", "undo"} /\ pc # "copying"
        /\ UNCHANGED <<files, guest, attached, handles, written, job, seen>>
    BY <1>0, <1>a, <1>8
       DEF RepointBase, RepointVhd, WriteBase, WriteVhd, PushAndGoto, Goto, Abort,
           ControlTypeOK, Exit
  <2>2. registry' \in [Distro -> Entry]
    BY <1>8 DEF RepointBase, RepointVhd, WriteBase, WriteVhd, TypeOK, MachineTypeOK, Entry,
                ControlTypeOK
  <2> QED
    BY <1>0, <2>1, <2>2
       DEF GuestsHoldDisks, HandlesAreCopy, Exists, TypeOK, MachineTypeOK
<1>9. CASE ProveItBoots
  <2>1. /\ pc = "boot"
        /\ UNCHANGED <<files, registry, handles, written, job, seen>>
        /\ pc' \in {"verifyFile", "delete", "undo"}
    BY <1>9 DEF ProveItBoots, SmokeTest, Abort
  <2>2. ASSUME UNCHANGED <<was, undo, unrestored, exit>>, proof' = BootsFrom(job.distro)
        PROVE  ControlTypeOK'
    BY <1>9, <2>2 DEF BootsFrom, Running, TypeOK, MachineTypeOK, ControlTypeOK, Job
  <2>3. ControlTypeOK'
    BY <1>0, <1>9, <2>2 DEF ProveItBoots, SmokeTest, Abort, ControlTypeOK, Exit
  <2>4. \/ UNCHANGED <<guest, attached>>
        \/ Exists(Home(job.distro)) /\ Boot(job.distro)
        \/ /\ Exists(Home(job.distro)) /\ UNCHANGED guest
           /\ attached' = attached \cup {Home(job.distro)}
    BY <1>9 DEF ProveItBoots, SmokeTest, RunsIn, CannotRunIn, MayHaveRunIn, CanBoot
  <2>5. /\ guest' \in [Distro -> Path \cup {Off}] /\ attached' \subseteq Path
        /\ GuestsHoldDisks'
    BY <2>1, <2>4 DEF Boot, GuestsHoldDisks, Exists, TypeOK, MachineTypeOK, Job
  <2> QED
    BY <1>0, <2>1, <2>3, <2>5 DEF HandlesAreCopy, TypeOK, MachineTypeOK
<1>10. CASE DeleteSource
  BY <1>10, RenamedType DEF DeleteSource, Goto, CanRemove, InUse, Removed,
      GuestsHoldDisks, HandlesAreCopy, Exists, MovePc, TypeOK, MachineTypeOK, ControlTypeOK
<1>11. CASE VerifyFile \/ VerifyRegistry
  BY <1>11 DEF VerifyFile, VerifyRegistry, VerifyBase, Goto, Finish, machine,
      GuestsHoldDisks, HandlesAreCopy, Exists, MovePc, Final, Exit,
      TypeOK, MachineTypeOK, ControlTypeOK
<1>12. CASE Unwind(job.distro, Source, Target) /\ UNCHANGED <<job, seen>>
  <2> DEFINE entry == undo[Len(undo)]
  <2>1. entry \in Undo /\ SubSeq(undo, 1, Len(undo) - 1) \in Seq(Undo)
    BY <1>12 DEF Unwind, TypeOK, ControlTypeOK
  <2>2. ControlTypeOK' /\ pc' = "undo" /\ pc = "undo"
    BY <1>12, <2>1 DEF Unwind, TopUndo, RestOfUndo, TypeOK, ControlTypeOK
  <2>3. /\ files' \in [Path -> Disk \cup {NoFile}]
        /\ registry' \in [Distro -> Entry]
        /\ \A x \in attached : Exists(x)'
    <3>1. CASE UNCHANGED <<files, registry>>
      BY <3>1 DEF TypeOK, MachineTypeOK, GuestsHoldDisks, Exists
    <3>2. CASE entry = "moveBack" /\ CanRename(Target, Source)
               /\ files' = Renamed(Target, Source) /\ UNCHANGED registry
      <4>1. Source # Target /\ Target \notin attached
        BY <3>2 DEF CanRename, InUse
      <4>2. /\ \A x \in Path \ {Source, Target} : files'[x] = files[x]
            /\ files'[Source] = files[Target] /\ files[Target] # NoFile
        BY <3>2, <4>1, RenamedFiles DEF CanRename, Exists, TypeOK
      <4>3. files' \in [Path -> Disk \cup {NoFile}]
        BY <3>2, RenamedType
      <4> QED
        BY <3>2, <4>1, <4>2, <4>3 DEF TypeOK, MachineTypeOK, GuestsHoldDisks, Exists
    <3>3. CASE entry = "removeCopy" /\ CanRemove(Target)
               /\ files' = Removed(Target) /\ UNCHANGED registry
      BY <3>3, RenamedType, RenamedFiles
         DEF CanRemove, InUse, TypeOK, MachineTypeOK, GuestsHoldDisks, Exists
    <3>4. CASE /\ UNCHANGED files
               /\ \/ registry' = [registry EXCEPT ![job.distro].base = was.base]
                  \/ registry' = [registry EXCEPT ![job.distro].vhd = was.vhd]
      <4>1. registry \in [Distro -> Entry] /\ was.base \in BasePath
            /\ was.vhd \in Name \cup {NoVhdName}
        BY DEF TypeOK, MachineTypeOK, ControlTypeOK, Entry
      <4>2. registry' \in [Distro -> Entry]
        BY <3>4, <4>1 DEF Entry
      <4> QED
        BY <3>4, <4>2 DEF TypeOK, MachineTypeOK, GuestsHoldDisks, Exists
    <3> QED
      BY <1>12, <2>1, <3>1, <3>2, <3>3, <3>4 
         DEF Unwind, UndoPossible, UndoneFiles, UndoneRegistry, TopUndo, Undo
  <2> QED
    BY <1>0, <1>12, <2>2, <2>3
       DEF Unwind, TypeOK, MachineTypeOK, GuestsHoldDisks, HandlesAreCopy
<1>13. CASE RolledBack /\ UNCHANGED <<job, seen>>
  BY <1>13 DEF RolledBack, machine, GuestsHoldDisks, HandlesAreCopy, Exists, MovePc, Final,
      TypeOK, MachineTypeOK, ControlTypeOK
<1> QED
  BY <1>1, <1>2, <1>3, <1>4, <1>5, <1>6, <1>7, <1>8, <1>9, <1>10, <1>11, <1>12, <1>13
     DEF Step, Rollback

(* A killed process leaves no handle behind.                               *)
LEMMA KilledSolid == Solid /\ Killed /\ UNCHANGED <<job, seen>> => Solid'
BY EndsArePaths
   DEF Solid, Killed, TypeOK, MachineTypeOK, ControlTypeOK, MovePc, Final, GuestsHoldDisks,
       HandlesAreCopy, CopyHandles, Exists

(* Nothing changes what does not change.                                   *)
LEMMA StutterSolid == Solid /\ UNCHANGED vars => Solid'
BY DEF Solid, vars, machine, control, TypeOK, MachineTypeOK, ControlTypeOK,
       GuestsHoldDisks, HandlesAreCopy, CopyHandles, Exists, Source, Target

(* At first nothing is open.                                               *)
LEMMA InitSolid == Init => Solid
<1> SUFFICES ASSUME Init PROVE Solid
  OBVIOUS
<1>1. TypeOK
  BY TypeInit
<1> QED
  BY <1>1 DEF Init, MachineInit, ControlInit, Solid, GuestsHoldDisks, HandlesAreCopy

(* Whoever uses the machine meanwhile and whatever fails, the state of a   *)
(* move stays well typed, no file something has open disappears, and the   *)
(* process denies access to the two ends of a copy exactly while copying.  *)
THEOREM MoveIsSolid == Spec => []Solid
<1>1. Solid /\ [Next]_vars => Solid'
  BY StepSolid, KilledSolid, EnvironmentSolid, StutterSolid DEF Next
<1> QED
  BY InitSolid, <1>1, PTL DEF Spec

(* Every state of a move is well typed.                                    *)
THEOREM MoveTypeOK == Spec => []TypeOK
<1>1. Solid => TypeOK
  BY DEF Solid
<1> QED
  BY MoveIsSolid, <1>1, PTL

----------------------------------------------------------------------------
(* The registry entry.  EntryInv needs nothing of the environment.         *)
EntryInv == RouteIsKnown /\ StackIsKnown /\ EntryIsKnown /\ HomesAreDistinct

(* What a command computes from its arguments and the entry it read stays. *)
LEMMA SameTerms ==
    ASSUME UNCHANGED <<was, job>>
    PROVE  /\ Source' = Source /\ Target' = Target
           /\ IntendedBase' = IntendedBase /\ Repointed' = Repointed
           /\ WasRenamed' = WasRenamed /\ TransferUndo' = TransferUndo
BY DEF Source, Target, IntendedBase, Repointed, WasRenamed, SameVolume, TransferUndo

(* How high the undo stack is, and what is on it.                          *)
LEMMA StackShape ==
    ASSUME ControlTypeOK, StackIsKnown
    PROVE  /\ Len(undo) = 0 \/ Len(undo) = 1 \/ Len(undo) = 2 \/ Len(undo) = 3
           /\ Len(undo) = 1 => undo[1] = TransferUndo
           /\ Len(undo) = 2 => undo[1] = TransferUndo /\ undo[2] = "base"
           /\ Len(undo) = 3 => /\ undo[1] = TransferUndo /\ undo[2] = "base"
                              /\ undo[3] = "vhd"
<1> DEFINE n == Len(undo)
<1>1. n \in Nat
  BY DEF ControlTypeOK
<1>2. n <= 3 /\ (n >= 1 => undo[1] = TransferUndo) /\ (n >= 2 => undo[2] = "base")
      /\ (n >= 3 => undo[3] = "vhd")
  BY DEF StackIsKnown
<1> HIDE DEF n
<1>3. n = 0 \/ n = 1 \/ n = 2 \/ n = 3
  BY <1>1, <1>2
<1>4. (n = 1 => n >= 1) /\ (n = 2 => n >= 1 /\ n >= 2)
      /\ (n = 3 => n >= 1 /\ n >= 2 /\ n >= 3)
  BY <1>1
<1>5. /\ n = 1 => undo[1] = TransferUndo
      /\ n = 2 => undo[1] = TransferUndo /\ undo[2] = "base"
      /\ n = 3 => undo[1] = TransferUndo /\ undo[2] = "base" /\ undo[3] = "vhd"
  BY <1>2, <1>4
<1> QED
  BY <1>3, <1>5 DEF n

(* Steps that touch neither the entry nor the command keep EntryInv.       *)
LEMMA EntryUntouched ==
    ASSUME TypeOK, EntryInv, UNCHANGED <<registry, control, job>>
    PROVE  EntryInv'
<1>1. UNCHANGED <<registry, pc, was, undo, unrestored, exit, proof, job>>
  BY DEF control
<1> QED
  BY <1>1, SameTerms
     DEF EntryInv, RouteIsKnown, StackIsKnown, EntryIsKnown, HomesAreDistinct, Home, Committed

(* The other distributions' entries stay where they are.                   *)
LEMMA HomesStay ==
    ASSUME TypeOK, HomesAreDistinct, pc # "enumerate", pc' # "enumerate",
           UNCHANGED <<was, job>>,
           \A g \in Distro \ {job.distro} : registry'[g] = registry[g]
    PROVE  HomesAreDistinct'
BY SameTerms DEF HomesAreDistinct, Home

(* Every step of the command keeps stack, entry and counter in agreement.  *)
LEMMA EntryStep == TypeOK /\ EntryInv /\ Step => EntryInv'
<1> SUFFICES ASSUME TypeOK, EntryInv, Step PROVE EntryInv'
  OBVIOUS
<1> DEFINE d == job.distro
<1> USE EndsArePaths, SameTerms DEF RouteIsKnown, StackIsKnown, EntryIsKnown, BeforeTransfer
<1>0. /\ d \in Distro /\ was \in Entry /\ registry \in [Distro -> Entry]
      /\ IntendedBase \in BasePath /\ ControlTypeOK /\ Len(undo) \in Nat
      /\ Repointed \in Entry /\ Repointed.vhd = was.vhd
      /\ {"base", "vhd", "moveBack", "removeCopy"} \subseteq Undo
      /\ RouteIsKnown /\ StackIsKnown /\ EntryIsKnown /\ HomesAreDistinct
  BY EntryFields
     DEF TypeOK, MachineTypeOK, ControlTypeOK, Job, Repointed, Undo, EntryInv
<1>1. CASE Read
  <2>1. /\ was' = registry[d] /\ pc = "enumerate" /\ pc' = "plan"
        /\ UNCHANGED <<registry, undo, unrestored, job>>
    BY <1>1 DEF Read, Enumerate, machine
  <2>2. Source' = Home(d) /\ HomesAreDistinct'
    BY <1>0, <2>1 DEF Source, Home, HomesAreDistinct
  <2> QED
    BY <1>0, <2>1, <2>2 DEF EntryInv, Committed
<1>2. CASE Plan
  <2>1. /\ pc = "plan" /\ pc' \in {"ended", "rename", "ranges"}
        /\ pc' = "rename" => WasRenamed
        /\ pc' = "ranges" => ~WasRenamed
        /\ UNCHANGED <<registry, was, undo, unrestored, job>>
    BY <1>2 DEF Plan, VolumeRefuses, Accept, RefuseIfRunning, Finish, Goto, machine
  <2> QED
    BY <1>0, <2>1, HomesStay DEF EntryInv, Committed
<1>3. CASE Rename \/ ListRanges \/ CreateTarget \/ CopyBytes \/ DiscardCopy
  <2>1. /\ pc \in BeforeTransfer
        /\ \/ pc' = "create" /\ pc = "ranges" /\ undo' = undo
           \/ pc' = "copying" /\ pc = "create" /\ undo' = undo
           \/ pc' = "discard" /\ pc # "rename" /\ undo' = undo
           \/ pc' = "undo" /\ undo' = undo
           \/ pc' = "base" /\ undo' = Append(undo, TransferUndo)
        /\ UNCHANGED <<registry, was, unrestored, job>>
    BY <1>3 DEF Rename, ListRanges, CreateTarget, CopyBytes, DiscardCopy, Goto, Abort,
                PushAndGoto, machine
  <2>2. CASE undo' = undo
    BY <1>0, <2>1, <2>2, HomesStay DEF EntryInv, Committed
  <2>3. CASE pc' = "base" /\ undo' = Append(undo, TransferUndo)
    <3>1. Len(undo') = 1 /\ undo'[1] = TransferUndo
      BY <1>0, <2>1, <2>3, Pushed DEF TransferUndo, ControlTypeOK
    <3> QED
      BY <1>0, <2>1, <2>3, <3>1, HomesStay DEF EntryInv, Committed
  <2> QED
    BY <1>0, <2>1, <2>2, <2>3 DEF TransferUndo
<1>4. CASE RepointBase
  <2>1. /\ pc = "base" /\ UNCHANGED <<was, unrestored, job>>
        /\ \/ /\ registry' = [registry EXCEPT ![d].base = IntendedBase]
              /\ pc' = "vhd" /\ undo' = Append(undo, "base")
           \/ pc' = "undo" /\ UNCHANGED <<registry, undo>>
    BY <1>4 DEF RepointBase, WriteBase, PushAndGoto, Abort
  <2>2. CASE pc' = "vhd" /\ undo' = Append(undo, "base")
             /\ registry' = [registry EXCEPT ![d].base = IntendedBase]
    <3>1. registry'[d] = Repointed /\ HomesAreDistinct'
      BY <1>0, <2>1, <2>2, HomesStay DEF Repointed
    <3>2. Len(undo') = 2 /\ undo'[1] = TransferUndo /\ undo'[2] = "base"
      <4>1. Len(undo) = 1 /\ undo[1] = TransferUndo
        BY <1>0, <2>1, StackShape
      <4>2. /\ Len(undo') = Len(undo) + 1 /\ undo'[Len(undo) + 1] = "base"
            /\ \A i \in 1 .. Len(undo) : undo'[i] = undo[i]
        BY <1>0, <2>2, Pushed DEF ControlTypeOK
      <4> QED
        BY <4>1, <4>2
    <3> QED
      BY <1>0, <2>1, <2>2, <3>1, <3>2 DEF EntryInv, Committed
  <2>3. CASE pc' = "undo" /\ UNCHANGED <<registry, undo>>
    BY <1>0, <2>1, <2>3, HomesStay DEF EntryInv, Committed
  <2> QED
    BY <2>1, <2>2, <2>3
<1>5. CASE RepointVhd
  <2>1. /\ pc = "vhd" /\ UNCHANGED <<was, unrestored, job>>
        /\ \/ pc' = "boot" /\ UNCHANGED <<registry, undo>>
           \/ /\ was.vhd # NoVhdName
              /\ registry' = [registry EXCEPT ![d].vhd = Target[2]]
              /\ pc' = "boot" /\ undo' = Append(undo, "vhd")
           \/ pc' = "undo" /\ UNCHANGED <<registry, undo>>
    BY <1>5 DEF RepointVhd, WriteVhd, PushAndGoto, Goto, Abort
  <2>2. registry' = registry
    <3>1. was.vhd # NoVhdName => Target[2] = was.vhd
      BY DEF Target, Source, Resolve
    <3>2. registry[d].vhd = was.vhd
      BY <1>0, <2>1
    <3>3. was.vhd # NoVhdName => [registry EXCEPT ![d].vhd = Target[2]] = registry
      BY <1>0, <3>1, <3>2, SameVhd
    <3> QED
      BY <2>1, <3>3
  <2>3. CASE undo' = undo
    <3>1. Len(undo) = 2 /\ registry[d] = Repointed /\ pc' \in {"boot", "undo"}
      BY <1>0, <2>1
    <3>2. HomesAreDistinct'
      BY <1>0, <2>1, <2>2, HomesStay
    <3> QED
      BY <1>0, <2>1, <2>2, <2>3, <3>1, <3>2 DEF EntryInv, Committed
  <2>4. CASE pc' = "boot" /\ undo' = Append(undo, "vhd")
    <3>1. /\ Len(undo') = 3 /\ undo'[1] = TransferUndo /\ undo'[2] = "base"
          /\ undo'[3] = "vhd"
      <4>1. Len(undo) = 2 /\ undo[1] = TransferUndo /\ undo[2] = "base"
        BY <1>0, <2>1, StackShape
      <4>2. /\ Len(undo') = Len(undo) + 1 /\ undo'[Len(undo) + 1] = "vhd"
            /\ \A i \in 1 .. Len(undo) : undo'[i] = undo[i]
        BY <1>0, <2>4, Pushed DEF ControlTypeOK
      <4> QED
        BY <4>1, <4>2
    <3> QED
      BY <1>0, <2>1, <2>2, <2>4, <3>1, HomesStay DEF EntryInv, Committed
  <2> QED
    BY <2>1, <2>3, <2>4
<1>6. CASE ProveItBoots
  <2>1. /\ pc = "boot"
        /\ \/ pc' = "undo"
           \/ pc' = (IF WasRenamed \/ job.keep THEN "verifyFile" ELSE "delete")
        /\ UNCHANGED <<registry, was, undo, unrestored, job>>
    BY <1>6 DEF ProveItBoots, SmokeTest, Abort
  <2> QED
    BY <1>0, <2>1, HomesStay DEF EntryInv, Committed
<1>7. CASE DeleteSource \/ VerifyFile \/ VerifyRegistry
  <2>1. /\ pc \in {"delete", "verifyFile", "verifyBase"}
        /\ pc' \in {"verifyFile", "verifyBase", "ended"}
        /\ UNCHANGED <<registry, was, undo, unrestored, job>>
    BY <1>7 DEF DeleteSource, VerifyFile, VerifyRegistry, VerifyBase, Goto, Finish, machine
  <2> QED
    BY <1>0, <2>1, HomesStay DEF EntryInv, Committed
<1>8. CASE Unwind(d, Source, Target) /\ UNCHANGED <<job, seen>>
  <2> DEFINE entry == undo[Len(undo)]
  <2>1. /\ pc = "undo" /\ pc' = "undo" /\ Len(undo) > 0 /\ UNCHANGED <<was, job>>
        /\ undo' = SubSeq(undo, 1, Len(undo) - 1)
        /\ \/ registry' = UndoneRegistry(d) /\ UNCHANGED unrestored
           \/ unrestored' = unrestored \cup {entry} /\ UNCHANGED <<files, registry>>
    BY <1>8 DEF Unwind, TopUndo, RestOfUndo
  <2>2. Len(undo') = Len(undo) - 1 /\ \A i \in 1 .. Len(undo) - 1 : undo'[i] = undo[i]
    BY <1>0, <2>1, Popped DEF ControlTypeOK
  <2>3. StackIsKnown'
    BY <1>0, <2>1, <2>2
  <2>4. CASE entry = "base" /\ Len(undo) = 2
    <3>1. \/ registry' = [registry EXCEPT ![d].base = was.base] /\ unrestored' = unrestored
          \/ registry' = registry /\ "base" \in unrestored'
      BY <2>1, <2>4 DEF UndoneRegistry, TopUndo
    <3>2. registry'[d] = was \/ (registry' = registry /\ "base" \in unrestored')
      BY <1>0, <2>1, <3>1 DEF Entry, Repointed
    <3>3. HomesAreDistinct'
      BY <1>0, <2>1, <3>1, HomesStay
    <3> QED
      BY <1>0, <2>1, <2>2, <2>3, <2>4, <3>2, <3>3 DEF EntryInv, Committed
  <2>5. CASE ~(entry = "base" /\ Len(undo) = 2)
    <3>1. \/ Len(undo) = 1 /\ entry \in {"moveBack", "removeCopy"}
          \/ Len(undo) = 3 /\ entry = "vhd"
      BY <1>0, <2>1, <2>5, StackShape DEF TransferUndo
    <3>2. registry' = registry
      <4>1. [registry EXCEPT ![d].vhd = was.vhd] = registry
        BY <1>0, <2>1, SameVhd
      <4> QED
        BY <2>1, <3>1, <4>1 DEF UndoneRegistry, TopUndo
    <3> QED
      BY <1>0, <2>1, <2>2, <2>3, <3>1, <3>2, HomesStay DEF EntryInv, Committed
  <2> QED
    BY <2>4, <2>5
<1>9. CASE RolledBack /\ UNCHANGED <<job, seen>>
  <2>1. /\ pc = "undo" /\ pc' = "ended" /\ Len(undo) = 0
        /\ UNCHANGED <<registry, was, undo, unrestored, job>>
    BY <1>9 DEF RolledBack, machine
  <2> QED
    BY <1>0, <2>1, HomesStay DEF EntryInv, Committed
<1> QED
  BY <1>1, <1>2, <1>3, <1>4, <1>5, <1>6, <1>7, <1>8, <1>9 DEF Step, Rollback

(* At first nothing has been pushed or written.                            *)
LEMMA EntryInit == Init => EntryInv
<1> SUFFICES ASSUME Init PROVE EntryInv
  OBVIOUS
<1>1. /\ pc = "enumerate" /\ Len(undo) = 0 /\ unrestored = {}
      /\ job.distro \in Distro
      /\ \A g, h \in Distro : g # h => Home(g) # Home(h)
  BY DEF Init, MachineInit, ControlInit, Job
<1> QED
  BY <1>1 DEF EntryInv, RouteIsKnown, StackIsKnown, EntryIsKnown, HomesAreDistinct,
              BeforeTransfer, Committed

(* A killed process leaves the entry as it is.                             *)
LEMMA EntryKilled ==
    ASSUME TypeOK, EntryInv, Killed, UNCHANGED <<job, seen>>
    PROVE  EntryInv'
<1>1. /\ pc \notin {"enumerate", "plan"} /\ pc' = "killed"
      /\ UNCHANGED <<registry, was, undo, unrestored, job>>
  BY DEF Killed
<1> QED
  BY <1>1, HomesStay, SameTerms
     DEF EntryInv, RouteIsKnown, StackIsKnown, EntryIsKnown, BeforeTransfer, Committed

(* The stack, the entry and the program counter agree, whoever interferes. *)
THEOREM MoveEntryInv == Spec => []EntryInv
<1>1. TypeOK /\ EntryInv /\ Environment => EntryInv'
  BY EntryUntouched DEF Environment, MachineNext, StartGuest, Boot, GuestWrites, StopGuest,
                        VmIdlesOut, StrayAppears
<1>2. TypeOK /\ EntryInv /\ UNCHANGED vars => EntryInv'
  BY EntryUntouched DEF vars, machine, control
<1>3. TypeOK /\ EntryInv /\ [Next]_vars => EntryInv'
  BY <1>1, <1>2, EntryStep, EntryKilled DEF Next
<1> QED
  BY EntryInit, MoveTypeOK, <1>3, PTL DEF Spec

(* However a move fails, the registry entry is as it was found unless the  *)
(* write that puts it back fails too.                                      *)
THEOREM MovePutsTheEntryBack == Spec => []EntryIsPutBack
<1>1. TypeOK /\ EntryInv => EntryIsPutBack
  BY DEF TypeOK, ControlTypeOK, EntryInv, EntryIsKnown, EntryIsPutBack,
     EntryIsPutBackOf
<1> QED
  BY MoveTypeOK, MoveEntryInv, <1>1, PTL

----------------------------------------------------------------------------
(* What is known of every state of a move, whoever interferes.             *)
Known == Solid /\ EntryInv

(* The pairs of states in which nothing about the files changes.           *)
SameFiles == UNCHANGED <<files, written, was, job>>

(* An entry that is repointed resolves to the target.                      *)
LEMMA RepointedHome ==
    ASSUME Known, registry[job.distro] = Repointed
    PROVE  Home(job.distro) = Target
<1>1. Repointed.base = IntendedBase /\ Repointed.vhd = was.vhd /\ IntendedBase.dir = job.dest
  BY DEF Known, Solid, TypeOK, ControlTypeOK, Repointed, IntendedBase, Entry, BasePath
<1> QED
  BY <1>1 DEF Home, Resolve, Target, Source

(* No file disappears, changes hands or becomes a part of a disk, except   *)
(* by a step of the command; a place is filled by strangers only.          *)
LEMMA FilesPersist ==
    ASSUME Known,
           \/ Environment
           \/ Killed /\ UNCHANGED <<job, seen>>
           \/ UNCHANGED vars
    PROVE  /\ \A p \in Path : Exists(p) => /\ Exists(p)' /\ files'[p].of = files[p].of
                                           /\ files'[p].whole = files[p].whole
           /\ \A p \in Path : Vacant(p) => Vacant(p)'
           /\ \A p \in Path : ~Exists(p) /\ Exists(p)' => files'[p].of = Stray
<1> DEFINE Persists(p) == /\ Exists(p)' /\ files'[p].of = files[p].of
                          /\ files'[p].whole = files[p].whole
<1>1. \/ UNCHANGED files
      \/ \E d \in Distro, w \in Write : GuestWrites(d, w)
      \/ \E p \in Path : StrangersWrite /\ StrayAppears(p)
  BY DEF Environment, MachineNext, StartGuest, StopGuest, VmIdlesOut, InUserHands,
         FreePaths, Killed, vars, machine
<1>2. files \in [Path -> Disk \cup {NoFile}]
  BY DEF Known, Solid, TypeOK, MachineTypeOK
<1>3. ASSUME NEW d \in Distro, NEW w \in Write, GuestWrites(d, w)
      PROVE  \A p \in Path : /\ Exists(p) => Persists(p)
                             /\ Exists(p)' => Exists(p)
  <2> DEFINE new == [files[guest[d]] EXCEPT !.data = @ \cup {w}]
  <2>1. guest[d] \in Path /\ files[guest[d]] \in Disk
    BY <1>2, <1>3 DEF GuestWrites, Known, Solid, TypeOK, MachineTypeOK,
                      GuestsHoldDisks, Exists
  <2>2. /\ new \in Disk /\ new.whole = files[guest[d]].whole
        /\ new.of = files[guest[d]].of
    BY <2>1 DEF Disk
  <2>3. files' = [files EXCEPT ![guest[d]] = new]
    BY <1>3 DEF GuestWrites
  <2> HIDE DEF new
  <2> QED
    BY <1>2, <2>1, <2>2, <2>3, WslAssumption DEF Exists
<1>4. ASSUME NEW q \in Path, StrangersWrite, StrayAppears(q)
      PROVE  \A p \in Path : /\ Exists(p) => Persists(p)
                             /\ ~Exists(p) /\ Exists(p)' => files'[p].of = Stray
  <2>1. Fresh(Stray).of = Stray
    BY DEF Fresh
  <2>2. /\ files'[q] = Fresh(Stray) /\ ~Exists(q)
        /\ \A p \in Path : p # q => files'[p] = files[p]
    BY <1>2, <1>4 DEF StrayAppears
  <2> QED
    BY <2>1, <2>2 DEF Exists
<1>5. CASE UNCHANGED files
  BY <1>5 DEF Exists, Vacant
<1>6. CASE ~UNCHANGED files
  <2>1. \A p \in Path : Exists(p) => Persists(p)
    BY <1>1, <1>3, <1>4, <1>6
  <2>2. \A p \in Path : ~Exists(p) /\ Exists(p)' => StrangersWrite /\ files'[p].of = Stray
    BY <1>1, <1>3, <1>4, <1>6
  <2>3. \A p \in Path : Vacant(p) => Vacant(p)'
    BY <2>1, <2>2 DEF Vacant
  <2> QED
    BY <2>1, <2>2, <2>3
<1> QED
  BY <1>5, <1>6

(* Only the last entry on the stack is about the files.                    *)
LEMMA UndoneLast ==
    ASSUME Known, Unwind(job.distro, Source, Target)
    PROVE  /\ Len(undo) = 1 \/ Len(undo) = 2 \/ Len(undo) = 3
           /\ Len(undo') > 0 => Len(undo) # 1
           /\ Len(undo) # 1 => UndoneFiles(Source, Target) = files
           /\ Len(undo) # 2 => UndoneRegistry(job.distro) = registry
           /\ Len(undo) = 2 =>
                 UndoneRegistry(job.distro) = [registry EXCEPT ![job.distro].base = was.base]
<1> DEFINE d == job.distro
<1>1. pc = "undo" /\ Len(undo) > 0 /\ undo' = SubSeq(undo, 1, Len(undo) - 1)
  BY DEF Unwind, RestOfUndo
<1>2. Len(undo) = 1 \/ Len(undo) = 2 \/ Len(undo) = 3
  BY <1>1, StackShape DEF Known, Solid, TypeOK, EntryInv
<1>3. Len(undo') > 0 => Len(undo) # 1
  <2>1. Len(undo') = Len(undo) - 1
    BY <1>1, Popped DEF Known, Solid, TypeOK, ControlTypeOK
  <2> QED
    BY <1>2, <2>1
<1>4. /\ Len(undo) = 1 => TopUndo = TransferUndo
      /\ Len(undo) = 2 => TopUndo = "base"
      /\ Len(undo) = 3 => TopUndo = "vhd"
  BY StackShape DEF Known, Solid, TypeOK, EntryInv, TopUndo
<1>5. Len(undo) # 1 => UndoneFiles(Source, Target) = files
  BY <1>2, <1>4 DEF UndoneFiles
<1>6. Len(undo) = 1 => UndoneRegistry(d) = registry
  BY <1>4 DEF UndoneRegistry, TransferUndo
<1>7. Len(undo) = 3 => UndoneRegistry(d) = registry
  <2>1. registry[d].vhd = was.vhd /\ d \in Distro /\ registry \in [Distro -> Entry]
    BY <1>1 DEF Known, Solid, TypeOK, MachineTypeOK, ControlTypeOK, Job, EntryInv, EntryIsKnown,
                Repointed, Entry
  <2>2. [registry EXCEPT ![d].vhd = was.vhd] = registry
    BY <2>1, SameVhd
  <2> QED
    BY <1>4, <2>2 DEF UndoneRegistry
<1>8. Len(undo) = 2 => UndoneRegistry(d) = [registry EXCEPT ![d].base = was.base]
  BY <1>4 DEF UndoneRegistry
<1> QED
  BY <1>2, <1>3, <1>5, <1>6, <1>7, <1>8

(* Every step of the command leaves the disk where the next one expects it. *)
LEMMA PlacedStep == Known /\ DiskIsPlaced /\ Step => DiskIsPlaced'
<1> SUFFICES ASSUME Known, DiskIsPlaced, Step PROVE DiskIsPlaced'
  OBVIOUS
<1>0. /\ files \in [Path -> Disk \cup {NoFile}]
      /\ Source \in Path /\ Target \in Path
  BY EndsArePaths DEF Known, Solid, TypeOK, MachineTypeOK
<1>1. ASSUME UNCHANGED <<files, was, job>>
      PROVE  /\ Source' = Source /\ Target' = Target
             /\ Transferred' <=> Transferred
             /\ \A p : /\ Exists(p)' <=> Exists(p)
                       /\ Vacant(p)' <=> Vacant(p)
                       /\ PartOfCopy(p)' <=> PartOfCopy(p)
  BY <1>1, SameTerms DEF Transferred, Exists, Vacant, PartOfCopy
<1>2. pc \in BeforeTransfer => Len(undo) = 0
  BY DEF Known, EntryInv, EntryIsKnown
<1>3. CASE Read
  BY <1>3 DEF Read, Enumerate, DiskIsPlaced
<1>4. CASE Plan
  <2>1. /\ pc' \in {"ended", "rename", "ranges"} /\ UNCHANGED <<files, was, job>>
        /\ pc' # "ended" => ~Unmovable
    BY <1>4 DEF Plan, RefuseIfRunning, VolumeRefuses, Accept, Finish, Goto, machine
  <2>2. ~Unmovable => Source # Target /\ Exists(Source) /\ Vacant(Target)
    BY DEF Unmovable, Vacant
  <2> QED
    BY <1>1, <2>1, <2>2 DEF DiskIsPlaced
<1>5. CASE Rename
  <2>1. /\ pc = "rename" /\ UNCHANGED <<was, job>> /\ Len(undo) = 0 /\ WasRenamed
        /\ Source # Target /\ Exists(Source) /\ Vacant(Target)
    BY <1>2, <1>5
       DEF Rename, PushAndGoto, Abort, BeforeTransfer, DiskIsPlaced, Known, EntryInv, RouteIsKnown
  <2>2. CASE files' = Renamed(Source, Target) /\ pc' = "base"
    <3>1. files'[Target] = files[Source] /\ files'[Source] = NoFile
      BY <1>0, <2>1, <2>2 DEF Renamed
    <3>2. Transferred'
      BY <2>1, <3>1, SameTerms DEF Transferred, Vacant, Exists
    <3> QED
      BY <2>2, <3>2 DEF DiskIsPlaced
  <2>3. CASE files' = files /\ pc' = "undo" /\ undo' = undo
    BY <1>1, <2>1, <2>3 DEF DiskIsPlaced
  <2> QED
    BY <1>5, <2>2, <2>3 DEF Rename, PushAndGoto, Abort
<1>6. CASE ListRanges
  <2>1. /\ pc = "ranges" /\ pc' \in {"create", "discard", "undo"} /\ Len(undo) = 0
        /\ UNCHANGED <<files, was, job, undo>>
        /\ Source # Target /\ Exists(Source) /\ Vacant(Target)
    BY <1>2, <1>6 DEF ListRanges, Goto, Abort, machine, BeforeTransfer, DiskIsPlaced
  <2> QED
    BY <1>1, <2>1 DEF DiskIsPlaced
<1>7. CASE CreateTarget
  <2> DEFINE new == [of |-> files[Source].of, data |-> {}, whole |-> FALSE]
  <2>1. /\ pc = "create" /\ UNCHANGED <<was, job, undo>>
        /\ Source # Target /\ Exists(Source) /\ Vacant(Target) /\ files[Source] \in Disk
        /\ \/ files' = files /\ pc' = "discard"
           \/ files' = [files EXCEPT ![Target] = new] /\ pc' = "copying"
    BY <1>0, <1>7 DEF CreateTarget, Goto, DiskIsPlaced, Exists
  <2>2. new \in Disk /\ new.of = files[Source].of /\ ~new.whole
    BY <2>1 DEF Disk
  <2> HIDE DEF new
  <2>3. CASE files' = files /\ pc' = "discard"
    BY <1>1, <2>1, <2>3 DEF DiskIsPlaced
  <2>4. CASE files' = [files EXCEPT ![Target] = new] /\ pc' = "copying"
    <3>1. files'[Target] = new /\ files'[Source] = files[Source]
      BY <1>0, <2>1, <2>4
    <3>2. Exists(Source)' /\ Exists(Target)' /\ PartOfCopy(Target)'
      BY <2>1, <2>2, <3>1, SameTerms, WslAssumption DEF Exists, PartOfCopy
    <3> QED
      BY <2>1, <2>4, <3>2, SameTerms DEF DiskIsPlaced
  <2> QED
    BY <2>1, <2>3, <2>4
<1>8. CASE CopyBytes
  <2>1. /\ pc = "copying" /\ UNCHANGED <<was, job>> /\ ~WasRenamed
        /\ Source # Target /\ Exists(Source) /\ Exists(Target) /\ PartOfCopy(Target)
        /\ files[Target] \in Disk
    BY <1>0, <1>8 DEF CopyBytes, Goto, PushAndGoto, DiskIsPlaced, Exists,
                      Known, EntryInv, RouteIsKnown
  <2>2. CASE files' = files /\ pc' = "discard"
    BY <1>1, <2>1, <2>2 DEF DiskIsPlaced
  <2>3. ASSUME NEW data \in SUBSET Write, NEW whole \in BOOLEAN, pc' = "base",
               files' = [files EXCEPT ![Target] =
                            [@ EXCEPT !.data = data, !.whole = whole]]
        PROVE  DiskIsPlaced'
    <3> DEFINE new == [files[Target] EXCEPT !.data = data, !.whole = whole]
    <3>1. new \in Disk /\ new.of = files[Target].of
      BY <2>1, <2>3 DEF Disk
    <3>2. files' = [files EXCEPT ![Target] = new]
      BY <2>3
    <3> HIDE DEF new
    <3>3. files'[Target] = new /\ files'[Source] = files[Source]
      BY <1>0, <2>1, <3>2
    <3>4. Transferred'
      BY <2>1, <3>1, <3>3, SameTerms, WslAssumption DEF Transferred, Exists, PartOfCopy
    <3> QED
      BY <2>3, <3>4 DEF DiskIsPlaced
  <2>4. \/ files' = files /\ pc' = "discard"
        \/ \E data \in SUBSET Write, whole \in BOOLEAN :
              pc' = "base" /\ files' = [files EXCEPT ![Target] =
                                           [@ EXCEPT !.data = data, !.whole = whole]]
    <3>1. files[Source].data \subseteq Write /\ files[Source].whole \in BOOLEAN
      BY <1>0, <2>1 DEF Exists, Disk
    <3>2. \A since \in SUBSET (files[Source].data \ seen) :
             (files[Source].data \cap seen) \cup since \in SUBSET Write
      BY <3>1
    <3> QED
      BY <1>8, <3>1, <3>2 DEF CopyBytes, Goto, PushAndGoto
  <2> QED
    BY <2>2, <2>3, <2>4
<1>9. CASE DiscardCopy
  <2>1. /\ pc = "discard" /\ pc' = "undo" /\ UNCHANGED <<was, job, undo>> /\ Len(undo) = 0
        /\ Source # Target /\ Exists(Source) /\ (Vacant(Target) \/ PartOfCopy(Target))
    BY <1>2, <1>9 DEF DiscardCopy, Abort, BeforeTransfer, DiskIsPlaced
  <2>2. CASE files' = files
    BY <1>1, <2>1, <2>2 DEF DiskIsPlaced
  <2>3. CASE files' = Removed(Target)
    <3>1. ~Exists(Target)' /\ files'[Source] = files[Source]
      BY <1>0, <2>1, <2>3, RenamedFiles, SameTerms DEF Known, Solid, Removed, Exists
    <3>2. Exists(Source)' /\ Vacant(Target)'
      BY <2>1, <3>1, SameTerms DEF Exists, Vacant
    <3> QED
      BY <2>1, <3>2, SameTerms DEF DiskIsPlaced
  <2> QED
    BY <1>9, <2>2, <2>3 DEF DiscardCopy
<1>10. CASE RepointBase \/ RepointVhd \/ ProveItBoots
  <2>1. /\ pc \in {"base", "vhd", "boot"} /\ UNCHANGED <<files, was, job>>
        /\ pc' \in {"vhd", "boot", "undo", "verifyFile", "delete"}
        /\ pc' = "undo" => undo' = undo
    BY <1>10 DEF RepointBase, RepointVhd, ProveItBoots, SmokeTest, WriteBase, WriteVhd, Abort,
                 Goto, PushAndGoto
  <2>2. Len(undo) # 0 /\ Transferred
    <3>1. Len(undo) = 1 \/ Len(undo) = 2 \/ Len(undo) >= 2
      BY <2>1 DEF Known, EntryInv, EntryIsKnown
    <3>2. Transferred
      BY <2>1 DEF DiskIsPlaced
    <3> QED
      BY <3>1, <3>2
  <2> QED
    BY <1>1, <2>1, <2>2 DEF DiskIsPlaced
<1>11. CASE DeleteSource \/ VerifyFile \/ VerifyRegistry
  <2>1. pc' \in {"verifyFile", "verifyBase", "ended"}
    BY <1>11 DEF DeleteSource, VerifyFile, VerifyRegistry, VerifyBase, Goto, Finish
  <2> QED
    BY <2>1 DEF DiskIsPlaced
<1>12. CASE Unwind(job.distro, Source, Target) /\ UNCHANGED <<job, seen>>
  <2>1. /\ pc = "undo" /\ pc' = "undo" /\ Len(undo) > 0 /\ UNCHANGED <<was, job>>
        /\ Transferred
        /\ \/ /\ UndoPossible(Source, Target) /\ files' = UndoneFiles(Source, Target)
              /\ UNCHANGED unrestored
           \/ unrestored' # {} /\ files' = files
    BY <1>12 DEF Unwind, DiskIsPlaced
  <2>2. CASE files' = files /\ (unrestored' # {} \/ Len(undo) # 1)
    <3>1. Len(undo) # 1 => Len(undo') # 0
      <4>1. Len(undo') = Len(undo) - 1
        BY <1>12, <2>1, Popped
           DEF Unwind, RestOfUndo, Known, Solid, TypeOK, ControlTypeOK
      <4>2. Len(undo) = 1 \/ Len(undo) = 2 \/ Len(undo) = 3
        BY <1>12, UndoneLast
      <4> QED
        BY <4>1, <4>2
    <3> QED
      BY <1>1, <2>1, <2>2, <3>1 DEF DiskIsPlaced
  <2>3. CASE /\ Len(undo) = 1 /\ UndoPossible(Source, Target)
             /\ files' = UndoneFiles(Source, Target)
    <3>1. TopUndo = TransferUndo /\ Source # Target /\ Exists(Target)
      BY <2>1, <2>3, StackShape DEF Known, Solid, TypeOK, EntryInv, TopUndo, Transferred
    <3>2. ~(Len(undo') > 0)
      BY <1>12, <2>3, UndoneLast
    <3>3. Exists(Source)' /\ ~Exists(Target)'
      <4>1. CASE WasRenamed
        <5>1. files' = Renamed(Target, Source)
          BY <2>3, <3>1, <4>1 DEF TransferUndo, UndoneFiles
        <5>2. files'[Source] = files[Target] /\ ~Exists(Target)'
          BY <1>0, <2>1, <3>1, <5>1, RenamedFiles, SameTerms
             DEF Known, Solid, Renamed, Exists
        <5> QED
          BY <2>1, <3>1, <5>2, SameTerms DEF Exists
      <4>2. CASE ~WasRenamed
        <5>1. files' = Removed(Target) /\ Exists(Source)
          BY <2>1, <2>3, <3>1, <4>2 DEF TransferUndo, UndoneFiles, Transferred
        <5>2. files'[Source] = files[Source] /\ ~Exists(Target)'
          BY <1>0, <2>1, <3>1, <5>1, SameTerms DEF Removed, Exists
        <5> QED
          BY <2>1, <5>1, <5>2, SameTerms DEF Exists
      <4> QED
        BY <4>1, <4>2
    <3> QED
      BY <2>1, <3>1, <3>2, <3>3, SameTerms DEF DiskIsPlaced, Vacant
  <2> QED
    BY <1>12, <2>1, <2>2, <2>3, UndoneLast
<1>13. CASE RolledBack
  BY <1>13 DEF RolledBack, DiskIsPlaced
<1> QED
  BY <1>3, <1>4, <1>5, <1>6, <1>7, <1>8, <1>9, <1>10, <1>11, <1>12, <1>13 DEF Step, Rollback

(* Nobody else takes the disk away from where it is.                       *)
LEMMA PlacedKept ==
    ASSUME Known, DiskIsPlaced,
           \/ Environment
           \/ Killed /\ UNCHANGED <<job, seen>>
           \/ UNCHANGED vars
    PROVE  DiskIsPlaced'
<1>1. CASE Killed
  BY <1>1 DEF Killed, DiskIsPlaced
<1>2. CASE ~Killed
  <2>1. UNCHANGED <<pc, was, undo, unrestored, job>>
    BY <1>2 DEF Environment, vars, control
  <2>2. /\ Source' = Source /\ Target' = Target /\ WasRenamed' = WasRenamed
        /\ Source \in Path /\ Target \in Path
    BY <2>1, SameTerms, EndsArePaths DEF Known, Solid
  <2>3. /\ \A p \in {Source, Target} :
              Exists(p) => /\ Exists(p)' /\ files'[p].of = files[p].of
                           /\ files'[p].whole = files[p].whole
        /\ \A p \in {Source, Target} : Vacant(p) => Vacant(p)'
    BY <2>2, FilesPersist
  <2>4. Transferred => Transferred'
    BY <2>2, <2>3 DEF Transferred, Exists
  <2>5. Vacant(Target) \/ Exists(Target)
    BY DEF Vacant
  <2>6. Exists(Source) /\ Exists(Target) /\ PartOfCopy(Target) => PartOfCopy(Target)'
    BY <2>2, <2>3 DEF PartOfCopy
  <2> QED
    BY <2>1, <2>2, <2>3, <2>4, <2>5, <2>6 DEF DiskIsPlaced
<1> QED
  BY <1>1, <1>2

(* At every step of a move the disk is where that step takes it to be, and *)
(* where nothing is to be there is nothing or a stranger's disk: whoever   *)
(* uses the distribution and whatever others write meanwhile.              *)
THEOREM MovePlacesTheDisk == Spec => []DiskIsPlaced
<1>1. Init => DiskIsPlaced
  BY DEF Init, ControlInit, DiskIsPlaced
<1>2. Known /\ DiskIsPlaced /\ [Next]_vars => DiskIsPlaced'
  BY PlacedStep, PlacedKept DEF Next
<1>3. Solid /\ EntryInv => Known
  BY DEF Known
<1> QED
  BY <1>1, <1>2, <1>3, MoveIsSolid, MoveEntryInv, PTL DEF Spec

(* Only a copy in the making, or one a failed move left behind, is part of *)
(* a disk; whatever else lies at a path and is not a stranger's is whole.  *)
PartIsCopy ==
    \A p \in Path : Exists(p) /\ files[p].of # Stray /\ ~files[p].whole =>
        /\ p = Target /\ Source # Target /\ ~WasRenamed
        /\ pc \in {"copying", "discard", "undo"} \cup Final

(* A step of the command makes a part of a disk only as a copy.            *)
LEMMA PartStep == Known /\ DiskIsPlaced /\ PartIsCopy /\ Step => PartIsCopy'
<1> SUFFICES ASSUME Known, DiskIsPlaced, PartIsCopy, Step PROVE PartIsCopy'
  OBVIOUS
<1> DEFINE Part(p) == Exists(p) /\ files[p].of # Stray /\ ~files[p].whole
           Late == {"copying", "discard", "undo"} \cup Final
<1>1. /\ files \in [Path -> Disk \cup {NoFile}]
      /\ Source \in Path /\ Target \in Path
      /\ \A p \in Path : Part(p) => p = Target /\ Source # Target /\ ~WasRenamed /\ pc \in Late
  BY EndsArePaths DEF Known, Solid, TypeOK, MachineTypeOK, PartIsCopy
<1>2. ASSUME UNCHANGED <<was, job>>, pc \in Late => pc' \in Late,
             \A p \in Path : Part(p)' => Part(p)
      PROVE  PartIsCopy'
  BY <1>1, <1>2, SameTerms DEF PartIsCopy
<1>3. ASSUME files' \in {files, Removed(Source), Removed(Target)}
      PROVE  \A p \in Path : Part(p)' => Part(p)
  BY <1>1, <1>3 DEF Removed, Exists
<1>4. ASSUME \A p \in Path : ~Part(p)' PROVE PartIsCopy'
  BY <1>4 DEF PartIsCopy
<1>5. CASE Read \/ Plan
  <2>1. pc \in {"enumerate", "plan"} /\ files' = files
    BY <1>5 DEF Read, Enumerate, Plan, machine
  <2> QED
    BY <1>1, <1>3, <1>4, <2>1 DEF Final
<1>6. CASE Rename
  <2>1. pc = "rename" /\ files' \in {files, Renamed(Source, Target)}
    BY <1>6 DEF Rename
  <2>2. \A p \in Path : Part(p)' => \E q \in Path : Part(q)
    BY <1>1, <2>1 DEF Renamed, Exists
  <2> QED
    BY <1>1, <1>4, <2>1, <2>2 DEF Final
<1>7. CASE CreateTarget
  <2> DEFINE new == [of |-> files[Source].of, data |-> {}, whole |-> FALSE]
  <2>1. /\ pc = "create" /\ UNCHANGED <<was, job>> /\ Source # Target /\ ~WasRenamed
        /\ pc' \in Late
        /\ files' = files \/ files' = [files EXCEPT ![Target] = new]
    BY <1>7 DEF CreateTarget, Goto, DiskIsPlaced, Known, EntryInv, RouteIsKnown
  <2>2. \A p \in Path : ~Part(p)
    BY <1>1, <2>1 DEF Final
  <2> HIDE DEF new
  <2>3. \A p \in Path : Part(p)' => p = Target
    BY <1>1, <2>1, <2>2 DEF Exists
  <2> HIDE DEF Part
  <2>4. \A p \in Path : Part(p)' => p = Target' /\ Source' # Target' /\ ~WasRenamed'
    BY <2>1, <2>3, SameTerms
  <2> QED
    BY <2>1, <2>4 DEF PartIsCopy, Part
<1>8. CASE CopyBytes
  <2>0. pc = "copying" /\ UNCHANGED <<was, job>>
    BY <1>8 DEF CopyBytes, Goto, PushAndGoto
  <2>1. /\ Source # Target
        /\ Exists(Source) /\ Exists(Target) /\ PartOfCopy(Target) /\ files[Target] \in Disk
    BY <1>1, <2>0 DEF DiskIsPlaced, Exists
  <2>2. \/ files' = files /\ pc' = "discard"
        \/ \E since \in SUBSET (files[Source].data \ seen) :
              files' = [files EXCEPT ![Target] =
                          [@ EXCEPT !.data = (files[Source].data \cap seen) \cup since,
                                    !.whole = files[Source].whole]]
    BY <1>8 DEF CopyBytes, Goto
  <2>3. CASE files' = files /\ pc' = "discard"
    BY <1>2, <1>3, <2>0, <2>3
  <2>4. ASSUME NEW since \in SUBSET (files[Source].data \ seen),
               files' = [files EXCEPT ![Target] =
                             [@ EXCEPT !.data = (files[Source].data \cap seen) \cup since,
                                       !.whole = files[Source].whole]]
        PROVE  PartIsCopy'
    <3>1. /\ files'[Target].of = files[Source].of
          /\ files'[Target].whole = files[Source].whole
          /\ \A p \in Path : p # Target => files'[p] = files[p]
      BY <1>1, <2>1, <2>4 DEF PartOfCopy, Disk
    <3>2. \A p \in Path : p # Target => ~Part(p)
      BY <1>1
    <3> QED
      BY <1>1, <1>4, <2>1, <3>1, <3>2 DEF Exists
  <2> QED
    BY <2>2, <2>3, <2>4
<1>9. CASE DiscardCopy
  <2>1. pc' = "undo" /\ UNCHANGED <<was, job>> /\ files' \in {files, Removed(Target)}
    BY <1>9 DEF DiscardCopy, Abort
  <2> QED
    BY <1>2, <1>3, <2>1
<1>10. CASE ListRanges \/ RepointBase \/ RepointVhd \/ ProveItBoots \/ DeleteSource
            \/ VerifyFile \/ VerifyRegistry
  <2>1. /\ pc \in {"ranges", "base", "vhd", "boot", "delete", "verifyFile", "verifyBase"}
        /\ files' \in {files, Removed(Source)}
    BY <1>10 DEF ListRanges, RepointBase, RepointVhd, ProveItBoots, DeleteSource, VerifyFile,
                 VerifyRegistry, machine
  <2>2. pc \notin Late
    BY <2>1 DEF Final
  <2> HIDE DEF Part
  <2> QED
    BY <1>1, <1>3, <1>4, <2>1, <2>2
<1>11. CASE Unwind(job.distro, Source, Target) /\ UNCHANGED <<job, seen>>
  <2>1. pc' = "undo" /\ UNCHANGED <<was, job>> /\ files' \in {files, UndoneFiles(Source, Target)}
    BY <1>11 DEF Unwind
  <2>2. \/ files' \in {files, Removed(Target)}
        \/ WasRenamed /\ files' = Renamed(Target, Source)
    <3>1. Len(undo) = 1 => TopUndo = TransferUndo
      BY StackShape DEF Known, Solid, TypeOK, EntryInv, TopUndo
    <3> QED
      BY <1>11, <2>1, <3>1, UndoneLast DEF TransferUndo, UndoneFiles
  <2>3. CASE files' \in {files, Removed(Target)}
    BY <1>2, <1>3, <2>1, <2>3
  <2>4. CASE WasRenamed /\ files' = Renamed(Target, Source)
    <3>1. \A p \in Path : Part(p)' => \E q \in Path : Part(q)
      BY <1>1, <2>4 DEF Renamed, Exists
    <3> QED
      BY <1>1, <1>4, <2>4, <3>1
  <2> QED
    BY <2>2, <2>3, <2>4
<1>12. CASE RolledBack /\ UNCHANGED <<job, seen>>
  <2>1. pc' \in Late /\ UNCHANGED <<files, was, job>>
    BY <1>12 DEF RolledBack, machine, Final
  <2> QED
    BY <1>2, <1>3, <2>1
<1> QED
  BY <1>5, <1>6, <1>7, <1>8, <1>9, <1>10, <1>11, <1>12 DEF Step, Rollback

(* Nobody else makes a part of a disk, unless it is a stranger's.          *)
LEMMA PartKept ==
    ASSUME Known, PartIsCopy,
           \/ Environment
           \/ Killed /\ UNCHANGED <<job, seen>>
           \/ UNCHANGED vars
    PROVE  PartIsCopy'
<1>1. UNCHANGED <<was, job>> /\ pc' \in {pc, "killed"}
  BY DEF Environment, Killed, vars, control
<1>2. \A p \in Path : Exists(p)' /\ files'[p].of # Stray =>
         Exists(p) /\ files'[p].of = files[p].of /\ files'[p].whole = files[p].whole
  BY FilesPersist
<1>3. Source' = Source /\ Target' = Target /\ WasRenamed' = WasRenamed
  BY <1>1, SameTerms
<1> QED
  BY <1>1, <1>2, <1>3 DEF PartIsCopy, Final

(* A rollback that could undo everything it had done leaves the disk where *)
(* it was, complete, and no second complete disk: even if the distribution *)
(* is started and written to while it is being moved.  Strangers are       *)
(* excluded: what one of them puts at the target may be a complete disk.   *)
THEOREM MoveRollsBack == ~StrangersWrite /\ Spec => []RollbackRestores
<1>1. Init => PartIsCopy
  <2> SUFFICES ASSUME Init, NEW p \in Path, Exists(p), files[p].of # Stray
               PROVE  files[p].whole
    BY DEF PartIsCopy
  <2>1. files[p] \in {Damaged} \cup {Fresh(o) : o \in Wsl2 \cup {Stray}}
    BY DEF Init, MachineInit, Exists
  <2> QED
    BY <2>1 DEF Damaged, Fresh
<1>2. Known /\ DiskIsPlaced /\ PartIsCopy /\ [Next]_vars => PartIsCopy'
  BY PartStep, PartKept DEF Next
<1>3. ~StrangersWrite /\ Known /\ DiskIsPlaced /\ PartIsCopy => RollbackRestores
  BY EndsArePaths DEF RollbackRestores, DiskIsPlaced, PartIsCopy, PartOfCopy, Vacant, Known, Solid
<1>4. Solid /\ EntryInv => Known
  BY DEF Known
<1>5. ~StrangersWrite => (~StrangersWrite)'
  OBVIOUS
<1> QED
  BY <1>1, <1>2, <1>3, <1>4, <1>5, MovePlacesTheDisk, MoveIsSolid, MoveEntryInv, PTL DEF Spec

----------------------------------------------------------------------------
(* The files.  FilesInv needs the distribution left alone while it is      *)
(* moved; what other programs create in the meantime it allows for.        *)
Alone == ~UsedMeanwhile

LiveInv == LiveAreComplete /\ LiveAreUnique /\ LiveAreAll

(* At first every distribution has its one disk.                           *)
LEMMA FilesInit == Init => FilesInv
<1> SUFFICES ASSUME Init PROVE FilesInv
  OBVIOUS
<1>1. /\ pc = "enumerate" /\ ~Doubled /\ Spare = {} /\ guest = [d \in Distro |-> Off]
      /\ written = [o \in Owner |-> {}] /\ Wsl2 \subseteq Owner /\ Stray \notin Wsl2
  BY WslAssumption DEF Init, MachineInit, ControlInit, Spare, Doubled, Owner
<1>2. \A p \in Path : Exists(p) =>
         \/ files[p].of = Stray
         \/ \E d \in Wsl2 : files[p] = Fresh(d) /\ files[p].of = d
  BY DEF Init, MachineInit, Exists, Damaged, Fresh
<1>3. \A d \in Wsl2 : Fresh(d) # NoFile /\ Fresh(d).of = d /\ Fresh(d).whole
  <2>1. \A d \in Wsl2 : Fresh(d) \in Disk
    BY WslAssumption DEF Fresh, Disk, Owner
  <2> QED
    BY <2>1, WslAssumption DEF Fresh
<1>4. Live = {p \in Path : Exists(p) /\ files[p].of \in Wsl2}
  BY <1>1 DEF Live
<1>5. LiveAreComplete
  BY <1>1, <1>2, <1>3, <1>4 DEF LiveAreComplete, HoldsAll
<1>6. LiveAreUnique
  <2>1. \A p \in Live : files[p] = Fresh(files[p].of)
    BY <1>1, <1>2, <1>4
  <2>2. \A d \in Wsl2, p, q \in Path : files[p] = Fresh(d) /\ files[q] = Fresh(d) => p = q
    BY DEF Init, MachineInit
  <2> QED
    BY <1>4, <2>1, <2>2 DEF LiveAreUnique
<1>7. LiveAreAll
  BY <1>3, <1>4 DEF Init, MachineInit, LiveAreAll, Exists
<1>8. OwnersAreKnown
  BY <1>2 DEF OwnersAreKnown
<1>9. GuestsKeepAway
  BY <1>1 DEF Init, Job, GuestsKeepAway, BeforeTransfer, Settled
<1> QED
  BY <1>1, <1>5, <1>6, <1>7, <1>8, <1>9
     DEF FilesInv, DiskIsKnown, DiskIsPlaced, SeenIsAll, BothAreComplete

(* A step that leaves the files alone and neither commits nor plans leaves *)
(* the live disks alone.                                                   *)
LEMMA LiveSame ==
    ASSUME FilesInv, SameFiles, Committed' <=> Committed,
           pc \notin {"enumerate", "plan"}, pc' \notin {"enumerate", "plan"}
    PROVE  /\ OwnersAreKnown' /\ LiveInv'
           /\ Doubled' <=> Doubled
           /\ Spare' = Spare /\ (Transferred' <=> Transferred)
           /\ Source' = Source /\ Target' = Target
           /\ \A p, o : HoldsAll(p, o)' <=> HoldsAll(p, o)
           /\ \A p : /\ Exists(p)' <=> Exists(p)
                     /\ Vacant(p)' <=> Vacant(p)
                     /\ PartOfCopy(p)' <=> PartOfCopy(p)
<1>1. /\ Source' = Source /\ Target' = Target /\ WasRenamed' = WasRenamed
      /\ UNCHANGED <<files, written>>
  BY SameTerms DEF SameFiles
<1>2. /\ \A p, o : HoldsAll(p, o)' <=> HoldsAll(p, o)
      /\ \A p : /\ Exists(p)' <=> Exists(p)
                /\ Vacant(p)' <=> Vacant(p)
                /\ PartOfCopy(p)' <=> PartOfCopy(p)
  BY <1>1 DEF HoldsAll, Exists, Vacant, PartOfCopy
<1>3. (Doubled' <=> Doubled) /\ (Transferred' <=> Transferred)
  BY <1>1, <1>2 DEF Doubled, Transferred
<1>4. Spare' = Spare /\ Live' = Live
  BY <1>1, <1>2, <1>3 DEF Spare, Live
<1> QED
  BY <1>1, <1>2, <1>3, <1>4
     DEF FilesInv, OwnersAreKnown, LiveInv, LiveAreComplete, LiveAreUnique, LiveAreAll

(* Reading the entry decides what the source and the target are.           *)
LEMMA FilesRead == Alone /\ Known /\ FilesInv /\ Read => FilesInv'
<1> SUFFICES ASSUME Known, FilesInv, Read PROVE FilesInv'
  OBVIOUS
<1>1. pc = "enumerate" /\ pc' = "plan" /\ UNCHANGED <<files, registry, guest, written, job>>
  BY DEF Read, Enumerate, machine
<1>2. Spare = {} /\ Spare' = {} /\ Live' = Live
  BY <1>1 DEF Spare, Doubled, Live, Exists
<1>3. OwnersAreKnown' /\ LiveInv'
  BY <1>1, <1>2 DEF FilesInv, OwnersAreKnown, LiveInv, LiveAreComplete, LiveAreUnique,
                    LiveAreAll, HoldsAll, Exists
<1>4. GuestsKeepAway'
  BY <1>1, <1>2 DEF FilesInv, GuestsKeepAway, BeforeTransfer, Settled, Home, Doubled
<1> QED
  BY <1>1, <1>3, <1>4 DEF FilesInv, LiveInv, DiskIsKnown, DiskIsPlaced, SeenIsAll, BothAreComplete

(* plan() accepts only a disk that is there, for a place that is free, and *)
(* a distribution that is not running.                                     *)
LEMMA FilesPlan == Alone /\ Known /\ FilesInv /\ Plan => FilesInv'
<1> SUFFICES ASSUME Alone, Known, FilesInv, Plan PROVE FilesInv'
  OBVIOUS
<1>1. /\ pc = "plan"
      /\ UNCHANGED <<files, registry, guest, written, job, was, undo, unrestored>>
      /\ \/ pc' = "ended"
         \/ pc' \in {"rename", "ranges"} /\ ~Unmovable /\ job.distro \notin Running
  BY DEF Plan, RefuseIfRunning, VolumeRefuses, Accept, Finish, Goto, machine
<1>2. /\ Source' = Source /\ Target' = Target /\ Source \in Path /\ Target \in Path
      /\ job.distro \in Distro /\ Len(undo) = 0 /\ unrestored = {}
      /\ registry[job.distro] = was /\ Home(job.distro) = Source
  BY <1>1, SameTerms, EndsArePaths
     DEF Known, Solid, TypeOK, Job, EntryInv, EntryIsKnown, Source, Home
<1>3. Live = {p \in Path : Exists(p) /\ files[p].of \in Wsl2}
  BY <1>1 DEF Live, Spare, Doubled
<1>4. ~Doubled'
  BY <1>1, <1>2, <1>3 DEF FilesInv, LiveAreUnique, Doubled, Exists
<1>5. Spare' = {} /\ Live' = Live
  BY <1>1, <1>3, <1>4 DEF Spare, Live, Exists
<1>6. OwnersAreKnown' /\ LiveInv'
  BY <1>1, <1>5 DEF FilesInv, OwnersAreKnown, LiveInv, LiveAreComplete, LiveAreUnique,
                    LiveAreAll, HoldsAll, Exists
<1>7. CASE pc' = "ended"
  BY <1>1, <1>2, <1>4, <1>5, <1>6, <1>7
     DEF FilesInv, LiveInv, DiskIsKnown, DiskIsPlaced, SeenIsAll, BothAreComplete, GuestsKeepAway,
         BeforeTransfer, Settled
<1>8. CASE pc' \in {"rename", "ranges"} /\ ~Unmovable /\ job.distro \notin Running
  <2>1. Source # Target /\ Exists(Source)' /\ Vacant(Target)' /\ ~Exists(Target)
    BY <1>1, <1>2, <1>8 DEF Unmovable, Vacant, Exists
  <2>2. guest[job.distro] = Off
    BY <1>2, <1>8 DEF Running
  <2>3. \A g \in Distro : g # job.distro => guest[g] \notin {Source, Target}
    <3> SUFFICES ASSUME NEW g \in Distro, g # job.distro PROVE guest[g] \notin {Source, Target}
      OBVIOUS
    <3>1. guest[g] # Target
      BY <1>2, <2>1, WslAssumption DEF Known, Solid, GuestsHoldDisks
    <3>2. guest[g] \in {Off, Home(g)} /\ Home(g) # Source
      BY <1>1 DEF FilesInv, GuestsKeepAway, Known, EntryInv, HomesAreDistinct
    <3> QED
      BY <1>2, <3>1, <3>2, WslAssumption
  <2> QED
    BY <1>1, <1>2, <1>6, <1>8, <2>1, <2>2, <2>3
       DEF FilesInv, LiveInv, DiskIsKnown, DiskIsPlaced, SeenIsAll, BothAreComplete, GuestsKeepAway,
           BeforeTransfer, Settled
<1> QED
  BY <1>1, <1>7, <1>8

(* Steps that touch only files that are not live leave the live ones be.   *)
LEMMA LiveFrame ==
    ASSUME FilesInv, Live' = Live, \A p \in Live : files'[p] = files[p], written' = written
    PROVE  LiveInv'
<1>1. \A p \in Live : p \in Path
  BY DEF Live
<1> QED
  BY <1>1 DEF FilesInv, LiveInv, LiveAreComplete, LiveAreUnique, LiveAreAll, HoldsAll, Exists

(* Renaming one end of a move to the other takes the disk along.           *)
LEMMA LiveRenamed ==
    ASSUME Known, FilesInv, NEW from \in {Source, Target}, NEW to \in {Source, Target},
           CanRename(from, to), files' = Renamed(from, to), UNCHANGED <<written, was, job>>
    PROVE  /\ OwnersAreKnown' /\ LiveInv' /\ ~Doubled /\ ~Doubled' /\ Spare' = {}
           /\ Source' = Source /\ Target' = Target /\ from # to
           /\ Exists(to)' /\ ~Exists(from)' /\ files'[to] = files[from]
           /\ \A o : HoldsAll(to, o)' <=> HoldsAll(from, o)
<1>1. /\ Source' = Source /\ Target' = Target /\ from \in Path /\ to \in Path /\ from # to
      /\ Exists(from) /\ ~Exists(to)
  BY SameTerms, EndsArePaths DEF Known, Solid, CanRename
<1>2. /\ files'[to] = files[from] /\ ~Exists(from)' /\ Exists(to)'
      /\ \A q \in Path \ {from, to} : files'[q] = files[q]
  BY <1>1, RenamedFiles DEF Known, Solid, Exists
<1>3. ~Doubled /\ ~Doubled' /\ Spare = {} /\ Spare' = {}
  BY <1>1, <1>2 DEF Doubled, Spare
<1>4. \A o : HoldsAll(to, o)' <=> HoldsAll(from, o)
  BY <1>1, <1>2 DEF HoldsAll
<1> DEFINE old(p) == IF p = to THEN from ELSE p
<1>5. \A p \in Live' : /\ p \in Path /\ p # from /\ old(p) \in Live
                       /\ files'[p] = files[old(p)]
  BY <1>1, <1>2, <1>3 DEF Live, Exists
<1>6. \A p \in Live : p # to /\ (p = from => to \in Live') /\ (p # from => p \in Live')
  BY <1>1, <1>2, <1>3 DEF Live, Exists
<1>7. LiveAreComplete'
  BY <1>5 DEF FilesInv, LiveAreComplete, HoldsAll, Exists
<1>8. LiveAreUnique'
  <2> SUFFICES ASSUME NEW p \in Live', NEW q \in Live', files'[p].of = files'[q].of
               PROVE  p = q
    BY DEF LiveAreUnique
  <2>1. old(p) = old(q)
    BY <1>5 DEF FilesInv, LiveAreUnique
  <2> QED
    BY <1>5, <2>1
<1>9. LiveAreAll'
  <2> SUFFICES ASSUME NEW d \in Wsl2 PROVE \E p \in Live' : files'[p].of = d
    BY DEF LiveAreAll
  <2>1. PICK p \in Live : files[p].of = d
    BY DEF FilesInv, LiveAreAll
  <2>2. CASE p = from
    BY <1>2, <1>6, <2>1, <2>2
  <2>3. CASE p # from
    BY <1>2, <1>6, <2>1, <2>3 DEF Live
  <2> QED
    BY <2>2, <2>3
<1>10. OwnersAreKnown'
  BY <1>1, <1>2 DEF FilesInv, OwnersAreKnown, Exists
<1> QED
  BY <1>1, <1>2, <1>3, <1>4, <1>7, <1>8, <1>9, <1>10 DEF LiveInv

(* Removing the spare, or a disk nobody is registered for, loses nothing.  *)
LEMMA LiveRemoved ==
    ASSUME Known, FilesInv, NEW p \in {Source, Target}, CanRemove(p), files' = Removed(p),
           UNCHANGED <<written, was, job>>, p \in Spare \/ files[p].of \notin Wsl2
    PROVE  /\ OwnersAreKnown' /\ LiveInv' /\ ~Doubled' /\ Spare' = {}
           /\ Source' = Source /\ Target' = Target
           /\ ~Exists(p)' /\ \A q \in Path \ {p} : files'[q] = files[q]
<1>1. /\ Source' = Source /\ Target' = Target /\ p \in Path /\ Exists(p)
  BY SameTerms, EndsArePaths DEF Known, Solid, CanRemove
<1>2. ~Exists(p)' /\ \A q \in Path \ {p} : files'[q] = files[q]
  BY <1>1, RenamedFiles DEF Known, Solid, Exists
<1>3. ~Doubled' /\ Spare' = {}
  BY <1>1, <1>2 DEF Doubled, Spare
<1>4. \A q \in Live : q # p /\ q \in Path
  BY <1>1 DEF Live
<1>5. Live' = Live
  BY <1>1, <1>2, <1>3 DEF Live, Spare, Doubled, Exists
<1>6. LiveInv'
  BY <1>2, <1>4, <1>5, LiveFrame
<1>7. OwnersAreKnown'
  BY <1>2 DEF FilesInv, OwnersAreKnown, Exists
<1> QED
  BY <1>1, <1>2, <1>3, <1>6, <1>7

(* Until the transfer is done nothing has to be undone and nobody runs     *)
(* from either end.                                                        *)
LEMMA BeforeKnown ==
    ASSUME Known, FilesInv, pc \in BeforeTransfer
    PROVE  /\ Len(undo) = 0 /\ unrestored = {} /\ guest[job.distro] = Off
           /\ registry[job.distro] = was
           /\ \A g \in Distro : g # job.distro => guest[g] \notin {Source, Target}
<1>1. Len(undo) = 0 /\ unrestored = {} /\ registry[job.distro] = was
  BY DEF Known, EntryInv, EntryIsKnown, BeforeTransfer
<1>2. guest[job.distro] = Off
  BY DEF FilesInv, GuestsKeepAway
<1>3. \A g \in Distro : g # job.distro => guest[g] \notin {Source, Target}
  BY DEF FilesInv, GuestsKeepAway, BeforeTransfer
<1> QED
  BY <1>1, <1>2, <1>3

(* transfer() within a volume.                                             *)
LEMMA FilesRename == Alone /\ Known /\ FilesInv /\ Rename => FilesInv'
<1> SUFFICES ASSUME Known, FilesInv, Rename PROVE FilesInv'
  OBVIOUS
<1>0. pc = "rename" /\ UNCHANGED <<registry, guest, written, job, was, unrestored>>
  BY DEF Rename, PushAndGoto, Abort
<1>1. /\ pc = "rename" /\ UNCHANGED <<registry, guest, written, job, was, unrestored>>
      /\ Source # Target /\ Exists(Source) /\ Vacant(Target)
      /\ Len(undo) = 0 /\ unrestored = {} /\ WasRenamed
      /\ guest[job.distro] = Off
      /\ \A g \in Distro : g # job.distro => guest[g] \notin {Source, Target}
  <2>1. Source # Target /\ Exists(Source) /\ Vacant(Target) /\ WasRenamed
    BY <1>0 DEF FilesInv, DiskIsKnown, DiskIsPlaced, Known, EntryInv, RouteIsKnown
  <2> QED
    BY <1>0, <2>1, BeforeKnown DEF BeforeTransfer
<1>2. CASE CanRename(Source, Target) /\ files' = Renamed(Source, Target) /\ pc' = "base"
  <2>1. /\ OwnersAreKnown' /\ LiveInv' /\ ~Doubled /\ ~Doubled' /\ Spare' = {}
        /\ Source' = Source /\ Target' = Target
        /\ Exists(Target)' /\ ~Exists(Source)' /\ files'[Target] = files[Source]
        /\ \A o : HoldsAll(Target, o)' <=> HoldsAll(Source, o)
    BY <1>1, <1>2, LiveRenamed
  <2>2. files[Source].of \in Wsl2 => HoldsAll(Source, files[Source].of)
    <3>1. files[Source].of \in Wsl2 => Source \in Live
      BY <1>1, <2>1, EndsArePaths DEF Live, Spare, Known, Solid
    <3> QED
      BY <3>1 DEF FilesInv, LiveAreComplete
  <2>3. WasRenamed'
    BY <1>1, SameTerms
  <2> QED
    BY <1>1, <1>2, <2>1, <2>2, <2>3
       DEF FilesInv, LiveInv, DiskIsKnown, DiskIsPlaced, SeenIsAll, BothAreComplete, GuestsKeepAway,
           BeforeTransfer, Settled, Transferred, Vacant
<1>3. CASE UNCHANGED files /\ pc' = "undo" /\ undo' = undo
  <2>1. SameFiles /\ (Committed' <=> Committed)
    BY <1>1, <1>3 DEF SameFiles, Committed
  <2> QED
    BY <1>1, <1>3, <2>1, LiveSame
       DEF FilesInv, LiveInv, DiskIsKnown, DiskIsPlaced, SeenIsAll, BothAreComplete, GuestsKeepAway,
           BeforeTransfer, Settled
<1> QED
  BY <1>2, <1>3 DEF Rename, PushAndGoto, Abort

(* Listing the ranges sees everything, because nobody writes any more.     *)
LEMMA FilesListRanges == Alone /\ Known /\ FilesInv /\ ListRanges => FilesInv'
<1> SUFFICES ASSUME Known, FilesInv, ListRanges PROVE FilesInv'
  OBVIOUS
<1>1. /\ pc = "ranges" /\ pc' \in {"create", "discard", "undo"}
      /\ UNCHANGED <<files, registry, guest, written, job, was, undo, unrestored>>
      /\ pc' = "create" => seen' = files[Source].data
  BY DEF ListRanges, Goto, Abort, machine
<1>2. /\ Source # Target /\ Exists(Source) /\ Vacant(Target)
      /\ Len(undo) = 0 /\ unrestored = {} /\ guest[job.distro] = Off
      /\ \A g \in Distro : g # job.distro => guest[g] \notin {Source, Target}
  <2>1. Source # Target /\ Exists(Source) /\ Vacant(Target)
    BY <1>1 DEF FilesInv, DiskIsKnown, DiskIsPlaced
  <2> QED
    BY <1>1, <2>1, BeforeKnown DEF BeforeTransfer
<1>3. SameFiles /\ (Committed' <=> Committed)
  BY <1>1 DEF SameFiles, Committed
<1>4. files[Source].of \in Wsl2 => written[files[Source].of] \subseteq files[Source].data
  <2>1. files[Source].of \in Wsl2 => Source \in Live
    BY <1>2, EndsArePaths, WslAssumption DEF Live, Spare, Doubled, Vacant, Known, Solid
  <2> QED
    BY <2>1 DEF FilesInv, LiveAreComplete, HoldsAll
<1> QED
  BY <1>1, <1>2, <1>3, <1>4, LiveSame
     DEF FilesInv, LiveInv, DiskIsKnown, DiskIsPlaced, SeenIsAll, BothAreComplete, GuestsKeepAway,
         BeforeTransfer, Settled

(* The file a copy creates is a spare, and not whole.                      *)
LEMMA FilesCreate == Alone /\ Known /\ FilesInv /\ CreateTarget => FilesInv'
<1> SUFFICES ASSUME Known, FilesInv, CreateTarget PROVE FilesInv'
  OBVIOUS
<1>1. /\ pc = "create" /\ pc' \in {"copying", "discard"}
      /\ UNCHANGED <<registry, guest, written, job, was, undo, unrestored, seen>>
  BY DEF CreateTarget, Goto
<1>2. /\ Source # Target /\ Exists(Source) /\ Vacant(Target)
      /\ Len(undo) = 0 /\ unrestored = {} /\ guest[job.distro] = Off
      /\ \A g \in Distro : g # job.distro => guest[g] \notin {Source, Target}
  <2>1. Source # Target /\ Exists(Source) /\ Vacant(Target)
    BY <1>1 DEF FilesInv, DiskIsKnown, DiskIsPlaced
  <2> QED
    BY <1>1, <2>1, BeforeKnown DEF BeforeTransfer
<1>3. CASE UNCHANGED files /\ pc' = "discard"
  <2>1. SameFiles /\ (Committed' <=> Committed)
    BY <1>1, <1>3 DEF SameFiles, Committed
  <2> QED
    BY <1>1, <1>2, <1>3, <2>1, LiveSame
       DEF FilesInv, LiveInv, DiskIsKnown, DiskIsPlaced, SeenIsAll, BothAreComplete, GuestsKeepAway,
           BeforeTransfer, Settled
<1> DEFINE new == [of |-> files[Source].of, data |-> {}, whole |-> FALSE]
<1>4. CASE ~Exists(Target) /\ files' = [files EXCEPT ![Target] = new] /\ pc' = "copying"
  <2>1. /\ Source' = Source /\ Target' = Target /\ Source \in Path /\ Target \in Path
        /\ files \in [Path -> Disk \cup {NoFile}] /\ job.distro \in Distro
    BY <1>1, SameTerms, EndsArePaths DEF Known, Solid, TypeOK, MachineTypeOK, Job
  <2>2. new \in Disk /\ new.of = files[Source].of /\ ~new.whole
    BY <1>2, <2>1 DEF Exists, Disk
  <2> HIDE DEF new
  <2>3. /\ files'[Target] = new /\ Exists(Target)'
        /\ \A q \in Path \ {Target} : files'[q] = files[q]
    BY <1>4, <2>1, <2>2, WslAssumption DEF Exists
  <2>4. Exists(Source)' /\ files'[Source] = files[Source]
    BY <1>2, <2>1, <2>3 DEF Exists
  <2>5. ~Doubled /\ Spare = {}
    BY <1>4 DEF Doubled, Spare
  <2>6. /\ Doubled' <=> files[Source].of \in Wsl2
        /\ Spare' = IF files[Source].of \in Wsl2 THEN {Target} ELSE {}
    BY <1>1, <1>2, <1>4, <2>1, <2>2, <2>3, <2>4 DEF Doubled, Spare, Committed
  <2>7. Live' = Live /\ Target \notin Live
    BY <1>2, <1>4, <2>1, <2>2, <2>3, <2>4, <2>5, <2>6 DEF Live, Exists
  <2>8. LiveInv'
    <3>1. \A q \in Live : files'[q] = files[q]
      BY <2>3, <2>7 DEF Live
    <3> QED
      BY <1>1, <2>7, <3>1, LiveFrame
  <2>9. OwnersAreKnown'
    BY <1>2, <2>1, <2>2, <2>3 DEF FilesInv, OwnersAreKnown, Exists
  <2>10. SeenIsAll'
    BY <1>1, <2>1, <2>4 DEF FilesInv, SeenIsAll
  <2>11. DiskIsKnown'
    BY <1>2, <1>4, <2>1, <2>2, <2>3, <2>4 DEF DiskIsKnown, DiskIsPlaced, PartOfCopy
  <2>12. GuestsKeepAway'
    BY <1>1, <1>2, <1>4, <2>1 DEF GuestsKeepAway, BeforeTransfer, Settled
  <2> QED
    BY <1>4, <2>8, <2>9, <2>10, <2>11, <2>12 DEF FilesInv, LiveInv, BothAreComplete
<1> QED
  BY <1>3, <1>4 DEF CreateTarget, Goto

(* A copy that was made holds all its original holds.                      *)
LEMMA FilesCopy == Alone /\ Known /\ FilesInv /\ CopyBytes => FilesInv'
<1> SUFFICES ASSUME Known, FilesInv, CopyBytes PROVE FilesInv'
  OBVIOUS
<1>1. /\ pc = "copying" /\ pc' \in {"base", "discard"}
      /\ UNCHANGED <<registry, guest, written, job, was, unrestored, seen>>
  BY DEF CopyBytes, Goto, PushAndGoto
<1>2. /\ Source # Target /\ Exists(Source) /\ Exists(Target) /\ ~WasRenamed
      /\ files[Target].of = files[Source].of /\ ~files[Target].whole
      /\ Len(undo) = 0 /\ unrestored = {} /\ guest[job.distro] = Off
      /\ \A g \in Distro : g # job.distro => guest[g] \notin {Source, Target}
  <2>1. /\ Source # Target /\ Exists(Source) /\ Exists(Target)
        /\ files[Target].of = files[Source].of /\ ~files[Target].whole
    BY <1>1 DEF FilesInv, DiskIsKnown, DiskIsPlaced, PartOfCopy
  <2>2. ~WasRenamed
    BY <1>1 DEF Known, EntryInv, RouteIsKnown
  <2> QED
    BY <1>1, <2>1, <2>2, BeforeKnown DEF BeforeTransfer
<1>3. CASE UNCHANGED files /\ pc' = "discard" /\ undo' = undo
  <2>1. SameFiles /\ (Committed' <=> Committed)
    BY <1>1, <1>3 DEF SameFiles, Committed
  <2> QED
    BY <1>1, <1>2, <1>3, <2>1, LiveSame
       DEF FilesInv, LiveInv, DiskIsKnown, DiskIsPlaced, SeenIsAll, BothAreComplete, GuestsKeepAway,
           BeforeTransfer, Settled
<1>4. ASSUME NEW since \in SUBSET (files[Source].data \ seen), pc' = "base",
             files' = [files EXCEPT ![Target] =
                 [@ EXCEPT !.data = (files[Source].data \cap seen) \cup since,
                           !.whole = files[Source].whole]]
      PROVE  FilesInv'
  <2> DEFINE new == [files[Target] EXCEPT
                        !.data = (files[Source].data \cap seen) \cup since,
                        !.whole = files[Source].whole]
  <2>1. /\ Source' = Source /\ Target' = Target /\ Source \in Path /\ Target \in Path
        /\ files \in [Path -> Disk \cup {NoFile}] /\ job.distro \in Distro
        /\ ~WasRenamed'
    BY <1>1, <1>2, SameTerms, EndsArePaths DEF Known, Solid, TypeOK, MachineTypeOK, Job
  <2>2. /\ new \in Disk /\ new.of = files[Source].of /\ new.whole = files[Source].whole
        /\ new.data = (files[Source].data \cap seen) \cup since
    <3>1. files[Target] \in Disk /\ files[Source] \in Disk
      BY <1>2, <2>1 DEF Exists
    <3>2. (files[Source].data \cap seen) \cup since \in SUBSET Write
      BY <3>1 DEF Disk
    <3> QED
      BY <1>2, <3>1, <3>2 DEF Disk
  <2>3. files' = [files EXCEPT ![Target] = new]
    BY <1>4
  <2> HIDE DEF new
  <2>4. /\ files'[Target] = new /\ Exists(Target)'
        /\ \A q \in Path \ {Target} : files'[q] = files[q]
    BY <2>1, <2>2, <2>3, WslAssumption DEF Exists
  <2>5. Exists(Source)' /\ files'[Source] = files[Source]
    BY <1>2, <2>1, <2>4 DEF Exists
  <2>6. /\ Doubled <=> files[Source].of \in Wsl2
        /\ Doubled' <=> files[Source].of \in Wsl2
        /\ Spare' = Spare
        /\ Spare = IF files[Source].of \in Wsl2 THEN {Target} ELSE {}
    BY <1>1, <1>2, <1>4, <2>1, <2>2, <2>4, <2>5 DEF Doubled, Spare, Committed
  <2>7. Live' = Live /\ Target \notin Live
    BY <1>2, <2>1, <2>2, <2>4, <2>5, <2>6 DEF Live, Exists
  <2>8. LiveInv'
    <3>1. \A q \in Live : files'[q] = files[q]
      BY <2>4, <2>7 DEF Live
    <3> QED
      BY <1>1, <2>7, <3>1, LiveFrame
  <2>9. OwnersAreKnown'
    BY <1>2, <2>1, <2>2, <2>4 DEF FilesInv, OwnersAreKnown, Exists
  <2>10. files'[Target].of \in Wsl2 => HoldsAll(Target, files[Target].of)'
    <3> SUFFICES ASSUME files[Source].of \in Wsl2 PROVE HoldsAll(Target, files[Target].of)'
      BY <2>2, <2>4
    <3>1. Source \in Live
      BY <1>2, <2>1, <2>6 DEF Live
    <3>2. HoldsAll(Source, files[Source].of) /\ written[files[Source].of] \subseteq seen
      BY <1>1, <3>1 DEF FilesInv, LiveAreComplete, SeenIsAll
    <3> QED
      BY <1>1, <1>2, <2>1, <2>2, <2>4, <3>2 DEF HoldsAll
  <2>11. DiskIsKnown'
    BY <1>2, <1>4, <2>1, <2>2, <2>4, <2>5, <2>10 DEF DiskIsKnown, DiskIsPlaced, Transferred
  <2>12. GuestsKeepAway'
    BY <1>1, <1>2, <1>4, <2>1 DEF GuestsKeepAway, BeforeTransfer, Settled
  <2> QED
    BY <1>4, <2>8, <2>9, <2>11, <2>12 DEF FilesInv, LiveInv, BothAreComplete, SeenIsAll
<1> QED
  BY <1>3, <1>4 DEF CopyBytes, Goto, PushAndGoto

(* A copy that failed was a spare, and goes or stays as one.               *)
LEMMA FilesDiscard == Alone /\ Known /\ FilesInv /\ DiscardCopy => FilesInv'
<1> SUFFICES ASSUME Known, FilesInv, DiscardCopy PROVE FilesInv'
  OBVIOUS
<1>1. /\ pc = "discard" /\ pc' = "undo"
      /\ UNCHANGED <<registry, guest, written, job, was, undo, unrestored, seen>>
  BY DEF DiscardCopy, Abort
<1>2. /\ Source # Target /\ Exists(Source)
      /\ Vacant(Target) \/ PartOfCopy(Target)
      /\ Len(undo) = 0 /\ unrestored = {} /\ guest[job.distro] = Off
      /\ \A g \in Distro : g # job.distro => guest[g] \notin {Source, Target}
  <2>1. /\ Source # Target /\ Exists(Source)
        /\ Vacant(Target) \/ PartOfCopy(Target)
    BY <1>1 DEF FilesInv, DiskIsKnown, DiskIsPlaced
  <2> QED
    BY <1>1, <2>1, BeforeKnown DEF BeforeTransfer
<1>3. CASE UNCHANGED files
  <2>1. SameFiles /\ (Committed' <=> Committed)
    BY <1>1, <1>3 DEF SameFiles, Committed
  <2> QED
    BY <1>1, <1>2, <1>3, <2>1, LiveSame
       DEF FilesInv, LiveInv, DiskIsKnown, DiskIsPlaced, SeenIsAll, BothAreComplete, GuestsKeepAway,
           BeforeTransfer, Settled
<1>4. CASE CanRemove(Target) /\ files' = Removed(Target)
  <2>1. Target \in Spare \/ files[Target].of \notin Wsl2
    BY <1>1, <1>2, <1>4, WslAssumption
       DEF Spare, Doubled, Committed, CanRemove, Vacant, PartOfCopy
  <2>2. /\ OwnersAreKnown' /\ LiveInv' /\ ~Doubled' /\ Spare' = {}
        /\ Source' = Source /\ Target' = Target
        /\ ~Exists(Target)' /\ \A q \in Path \ {Target} : files'[q] = files[q]
    BY <1>1, <1>4, <2>1, LiveRemoved
  <2>3. Exists(Source)'
    BY <1>2, <2>2, EndsArePaths DEF Exists, Known, Solid
  <2> QED
    BY <1>1, <1>2, <2>2, <2>3
       DEF FilesInv, LiveInv, DiskIsKnown, DiskIsPlaced, SeenIsAll, BothAreComplete, GuestsKeepAway,
           BeforeTransfer, Settled, Vacant
<1> QED
  BY <1>3, <1>4 DEF DiscardCopy

(* Repointing the entry moves no file, and nobody runs meanwhile.          *)
LEMMA FilesRepoint ==
    Alone /\ Known /\ FilesInv /\ (RepointBase \/ RepointVhd) => FilesInv'
<1> SUFFICES ASSUME Known, FilesInv, RepointBase \/ RepointVhd PROVE FilesInv'
  OBVIOUS
<1>1. /\ pc \in {"base", "vhd"} /\ pc' \in {"vhd", "boot", "undo"}
      /\ UNCHANGED <<files, guest, written, job, was, unrestored>>
      /\ pc' = "undo" => undo' = undo
  BY DEF RepointBase, RepointVhd, WriteBase, WriteVhd, PushAndGoto, Goto, Abort
<1>2. Len(undo) = 1 \/ Len(undo) = 2
  BY <1>1 DEF Known, EntryInv, EntryIsKnown
<1>3. pc' = "undo" => Len(undo') # 0
  BY <1>1, <1>2
<1>4. SameFiles /\ (Committed' <=> Committed)
  BY <1>1 DEF SameFiles, Committed
<1>5. /\ OwnersAreKnown' /\ LiveInv' /\ Source' = Source /\ Target' = Target
      /\ Transferred' <=> Transferred
      /\ \A p, o : HoldsAll(p, o)' <=> HoldsAll(p, o)
  BY <1>1, <1>4, LiveSame
<1>6. /\ Transferred
      /\ files[Target].of \in Wsl2 => HoldsAll(Target, files[Target].of)
  BY <1>1 DEF FilesInv, DiskIsKnown, DiskIsPlaced
<1>7. /\ guest[job.distro] = Off
      /\ \A g \in Distro : g # job.distro => guest[g] \notin {Source, Target}
  BY <1>1 DEF FilesInv, GuestsKeepAway
<1>8. DiskIsKnown'
  BY <1>1, <1>3, <1>5, <1>6 DEF DiskIsKnown, DiskIsPlaced
<1>9. GuestsKeepAway'
  BY <1>1, <1>3, <1>5, <1>7 DEF GuestsKeepAway, BeforeTransfer, Settled
<1> QED
  BY <1>1, <1>5, <1>8, <1>9 DEF FilesInv, LiveInv, SeenIsAll, BothAreComplete

(* Once the guest has booted from the target, the source is the spare.     *)
LEMMA SpareSwaps ==
    ASSUME Known, FilesInv, SameFiles, pc = "boot", pc' \in {"delete", "verifyFile"}
    PROVE  /\ OwnersAreKnown' /\ LiveInv' /\ BothAreComplete'
           /\ Source' = Source /\ Target' = Target
           /\ Transferred' <=> Transferred
<1>1. /\ Source' = Source /\ Target' = Target /\ WasRenamed' = WasRenamed
      /\ UNCHANGED <<files, written>> /\ Source \in Path /\ Target \in Path
  BY SameTerms, EndsArePaths DEF SameFiles, Known, Solid
<1>2. /\ \A p, o : HoldsAll(p, o)' <=> HoldsAll(p, o)
      /\ \A p : (Exists(p)' <=> Exists(p)) /\ (Vacant(p)' <=> Vacant(p))
  BY <1>1 DEF HoldsAll, Exists, Vacant
<1>3. Transferred' <=> Transferred
  BY <1>1, <1>2 DEF Transferred
<1>4. /\ Transferred
      /\ files[Target].of \in Wsl2 => HoldsAll(Target, files[Target].of)
  BY DEF FilesInv, DiskIsKnown, DiskIsPlaced
<1>5. (Doubled' <=> Doubled) /\ ~Committed /\ Committed'
  BY <1>1, <1>2 DEF Doubled, Committed
<1>6. OwnersAreKnown'
  BY <1>1, <1>2 DEF FilesInv, OwnersAreKnown
<1>7. CASE ~Doubled
  <2>1. Live' = Live
    BY <1>1, <1>2, <1>5, <1>7 DEF Live, Spare
  <2>2. LiveInv'
    BY <1>1, <2>1, LiveFrame DEF SameFiles
  <2> QED
    BY <1>1, <1>3, <1>5, <1>6, <1>7, <2>2 DEF BothAreComplete
<1>8. CASE Doubled
  <2>1. /\ Spare = {Target} /\ Spare' = {Source} /\ Source # Target
        /\ files[Source].of = files[Target].of /\ files[Source].of \in Wsl2
        /\ Exists(Source) /\ Exists(Target)
    BY <1>1, <1>5, <1>8 DEF Spare, Doubled
  <2>2. Source \in Live /\ Target \in Live'
    BY <1>1, <1>2, <2>1 DEF Live
  <2>3. \A p \in Live' : p = Target \/ (p \in Live /\ p # Source)
    BY <1>1, <1>2, <2>1 DEF Live
  <2>4. \A p \in Live : p # Source => p \in Live'
    BY <1>1, <1>2, <2>1 DEF Live
  <2>5. LiveAreComplete'
    BY <1>1, <1>2, <1>4, <2>1, <2>3 DEF FilesInv, LiveAreComplete
  <2>6. LiveAreUnique'
    BY <1>1, <2>1, <2>2, <2>3 DEF FilesInv, LiveAreUnique
  <2>7. LiveAreAll'
    BY <1>1, <2>1, <2>2, <2>4 DEF FilesInv, LiveAreAll
  <2>8. HoldsAll(Source, files[Source].of)
    BY <2>2 DEF FilesInv, LiveAreComplete
  <2> QED
    BY <1>1, <1>2, <1>3, <1>6, <2>5, <2>6, <2>7, <2>8 DEF LiveInv, BothAreComplete
<1> QED
  BY <1>7, <1>8

(* The smoke test boots the distribution from the target, if at all.       *)
LEMMA FilesBoot == Alone /\ Known /\ FilesInv /\ ProveItBoots => FilesInv'
<1> SUFFICES ASSUME Known, FilesInv, ProveItBoots PROVE FilesInv'
  OBVIOUS
<1>1. /\ pc = "boot" /\ pc' \in {"verifyFile", "delete", "undo"}
      /\ UNCHANGED <<files, written, job, was, unrestored, undo>>
  BY DEF ProveItBoots, SmokeTest, Abort
<1>2. SameFiles /\ job.distro \in Distro /\ guest \in [Distro -> Path \cup {Off}]
  BY <1>1 DEF SameFiles, Known, Solid, TypeOK, MachineTypeOK, Job
<1>3. Len(undo) # 0 /\ Home(job.distro) = Target
  <2>1. Len(undo) >= 2 /\ registry[job.distro] = Repointed
    BY <1>1 DEF Known, EntryInv, EntryIsKnown
  <2> QED
    BY <2>1, RepointedHome
<1>4. guest' = guest \/ guest' = [guest EXCEPT ![job.distro] = Target]
  BY <1>3 DEF ProveItBoots, SmokeTest, RunsIn, CannotRunIn, MayHaveRunIn, Boot
<1>5. /\ guest[job.distro] = Off
      /\ \A g \in Distro : g # job.distro => guest[g] \notin {Source, Target}
  BY <1>1 DEF FilesInv, GuestsKeepAway
<1>6. /\ guest'[job.distro] \in {Off, Target}
      /\ \A g \in Distro : g # job.distro => guest'[g] \notin {Source, Target}
  BY <1>2, <1>4, <1>5
<1>7. Transferred
  BY <1>1 DEF FilesInv, DiskIsKnown, DiskIsPlaced
<1>8. CASE pc' = "undo"
  <2>1. Committed' <=> Committed
    BY <1>1, <1>8 DEF Committed
  <2>2. /\ OwnersAreKnown' /\ LiveInv' /\ Source' = Source /\ Target' = Target
        /\ Transferred' <=> Transferred
    BY <1>1, <1>2, <1>8, <2>1, LiveSame
  <2>3. DiskIsKnown' /\ GuestsKeepAway'
    BY <1>1, <1>3, <1>6, <1>7, <1>8, <2>2
       DEF DiskIsKnown, DiskIsPlaced, GuestsKeepAway, BeforeTransfer, Settled
  <2> QED
    BY <1>8, <2>2, <2>3 DEF FilesInv, LiveInv, SeenIsAll, BothAreComplete
<1>9. CASE pc' \in {"verifyFile", "delete"}
  <2>1. /\ OwnersAreKnown' /\ LiveInv' /\ BothAreComplete'
        /\ Source' = Source /\ Target' = Target
        /\ Transferred' <=> Transferred
    BY <1>1, <1>2, <1>9, SpareSwaps
  <2>2. DiskIsKnown' /\ GuestsKeepAway'
    BY <1>1, <1>6, <1>7, <1>9, <2>1
       DEF DiskIsKnown, DiskIsPlaced, GuestsKeepAway, BeforeTransfer, Settled
  <2> QED
    BY <1>9, <2>1, <2>2 DEF FilesInv, LiveInv, SeenIsAll
<1> QED
  BY <1>1, <1>8, <1>9

(* The source that is deleted is the spare.                                *)
LEMMA FilesDelete == Alone /\ Known /\ FilesInv /\ DeleteSource => FilesInv'
<1> SUFFICES ASSUME Known, FilesInv, DeleteSource PROVE FilesInv'
  OBVIOUS
<1>1. /\ pc = "delete" /\ pc' = "verifyFile"
      /\ UNCHANGED <<registry, guest, written, job, was, undo, unrestored>>
  BY DEF DeleteSource, Goto
<1>2. /\ ~WasRenamed /\ Source # Target /\ Exists(Source) /\ Exists(Target)
      /\ files[Source].of = files[Target].of
  BY <1>1 DEF Known, EntryInv, RouteIsKnown, FilesInv, DiskIsKnown, DiskIsPlaced, Transferred
<1>3. /\ guest[job.distro] \in {Off, Target}
      /\ \A g \in Distro : g # job.distro => guest[g] \notin {Source, Target}
  BY <1>1 DEF FilesInv, GuestsKeepAway
<1>4. CASE UNCHANGED files
  <2>1. SameFiles /\ (Committed' <=> Committed)
    BY <1>1, <1>4 DEF SameFiles, Committed
  <2>2. /\ OwnersAreKnown' /\ LiveInv' /\ Source' = Source /\ Target' = Target
        /\ Doubled' <=> Doubled
        /\ \A p, o : HoldsAll(p, o)' <=> HoldsAll(p, o)
    BY <1>1, <2>1, LiveSame
  <2>3. BothAreComplete'
    BY <1>1, <1>4, <2>2 DEF FilesInv, BothAreComplete
  <2> QED
    BY <1>1, <1>3, <2>2, <2>3
       DEF FilesInv, LiveInv, DiskIsKnown, DiskIsPlaced, SeenIsAll, GuestsKeepAway, BeforeTransfer, Settled
<1>5. CASE CanRemove(Source) /\ files' = Removed(Source)
  <2>1. Source \in Spare \/ files[Source].of \notin Wsl2
    BY <1>1, <1>2 DEF Spare, Doubled, Committed
  <2>2. /\ OwnersAreKnown' /\ LiveInv' /\ ~Doubled'
        /\ Source' = Source /\ Target' = Target
    BY <1>1, <1>5, <2>1, LiveRemoved
  <2> QED
    BY <1>1, <1>3, <2>2
       DEF FilesInv, LiveInv, DiskIsKnown, DiskIsPlaced, SeenIsAll, BothAreComplete, GuestsKeepAway,
           BeforeTransfer, Settled
<1> QED
  BY <1>4, <1>5 DEF DeleteSource

(* verify() changes nothing, and the command ends with the target in use.  *)
LEMMA FilesVerify ==
    Alone /\ Known /\ FilesInv /\ (VerifyFile \/ VerifyRegistry) => FilesInv'
<1> SUFFICES ASSUME Known, FilesInv, VerifyFile \/ VerifyRegistry PROVE FilesInv'
  OBVIOUS
<1>1. /\ pc \in {"verifyFile", "verifyBase"} /\ pc' \in {"verifyBase", "ended"}
      /\ UNCHANGED <<files, registry, guest, written, job, was, undo, unrestored>>
  BY DEF VerifyFile, VerifyRegistry, VerifyBase, Goto, Finish, machine
<1>2. Len(undo) > 0 /\ Committed
  BY <1>1 DEF Known, EntryInv, EntryIsKnown, Committed
<1>3. SameFiles /\ Committed'
  BY <1>1, <1>2 DEF SameFiles, Committed
<1>4. /\ OwnersAreKnown' /\ LiveInv' /\ Source' = Source /\ Target' = Target
      /\ Doubled' <=> Doubled
      /\ Spare' = Spare
      /\ \A p, o : HoldsAll(p, o)' <=> HoldsAll(p, o)
  BY <1>1, <1>2, <1>3, LiveSame
<1>5. /\ guest[job.distro] \in {Off, Target}
      /\ \A g \in Distro : g # job.distro => guest[g] \notin {Source, Target}
  BY <1>1 DEF FilesInv, GuestsKeepAway
<1>6. BothAreComplete'
  BY <1>1, <1>4 DEF FilesInv, BothAreComplete
<1>7. \A g \in Distro : guest[g] \notin Spare
  <2>1. Off # Source
    BY EndsArePaths, WslAssumption DEF Known, Solid
  <2>2. Spare = {} \/ (Spare = {Source} /\ Source # Target)
    BY <1>2 DEF Spare, Doubled
  <2> QED
    BY <1>5, <2>1, <2>2
<1>8. GuestsKeepAway'
  BY <1>1, <1>3, <1>4, <1>5, <1>7 DEF GuestsKeepAway, BeforeTransfer, Settled
<1> QED
  BY <1>1, <1>4, <1>6, <1>8 DEF FilesInv, LiveInv, DiskIsKnown, DiskIsPlaced, SeenIsAll

(* Taking the transfer back leaves the one disk where it was.              *)
LEMMA FilesTakenBack ==
    ASSUME Known, FilesInv, pc = "undo", pc' = "undo", Len(undo) = 1, Len(undo') = 0,
           UndoPossible(Source, Target), files' = UndoneFiles(Source, Target),
           UNCHANGED <<guest, written, was, job, unrestored>>
    PROVE  FilesInv'
<1>1. /\ Transferred /\ Source # Target /\ Exists(Target)
      /\ guest[job.distro] \in {Off, Target} /\ job.distro \in Distro
      /\ \A g \in Distro : g # job.distro => guest[g] \notin {Source, Target}
  BY DEF FilesInv, DiskIsKnown, DiskIsPlaced, Transferred, GuestsKeepAway, Known, Solid, TypeOK, Job
<1>2. TopUndo = TransferUndo
  BY StackShape DEF Known, Solid, TypeOK, EntryInv, TopUndo
<1>3. CASE WasRenamed
  <2>1. CanRename(Target, Source) /\ files' = Renamed(Target, Source)
    BY <1>2, <1>3 DEF TransferUndo, UndoPossible, UndoneFiles
  <2>2. /\ OwnersAreKnown' /\ LiveInv' /\ ~Doubled' /\ Spare' = {}
        /\ Source' = Source /\ Target' = Target
        /\ Exists(Source)' /\ ~Exists(Target)'
    BY <2>1, LiveRenamed
  <2>3. guest[job.distro] = Off
    BY <1>1, <2>1 DEF Known, Solid, GuestsHoldDisks, CanRename, InUse
  <2> QED
    BY <1>1, <2>2, <2>3
       DEF FilesInv, LiveInv, DiskIsKnown, DiskIsPlaced, SeenIsAll, BothAreComplete, GuestsKeepAway,
           BeforeTransfer, Settled, Vacant
<1>4. CASE ~WasRenamed
  <2>1. CanRemove(Target) /\ files' = Removed(Target)
    BY <1>2, <1>4 DEF TransferUndo, UndoPossible, UndoneFiles
  <2>2. Exists(Source) /\ (Target \in Spare \/ files[Target].of \notin Wsl2)
    BY <1>1, <1>4 DEF Transferred, Spare, Doubled, Committed
  <2>3. /\ OwnersAreKnown' /\ LiveInv' /\ ~Doubled' /\ Spare' = {}
        /\ Source' = Source /\ Target' = Target
        /\ ~Exists(Target)' /\ \A q \in Path \ {Target} : files'[q] = files[q]
    BY <2>1, <2>2, LiveRemoved
  <2>4. Exists(Source)'
    BY <1>1, <2>2, <2>3, EndsArePaths DEF Exists, Known, Solid
  <2>5. guest[job.distro] = Off
    BY <1>1, <2>1 DEF Known, Solid, GuestsHoldDisks, CanRemove, InUse
  <2> QED
    BY <1>1, <2>3, <2>4, <2>5
       DEF FilesInv, LiveInv, DiskIsKnown, DiskIsPlaced, SeenIsAll, BothAreComplete, GuestsKeepAway,
           BeforeTransfer, Settled, Vacant
<1> QED
  BY <1>3, <1>4

(* Unwinding undoes the registry first, and the transfer last.             *)
LEMMA FilesUnwind ==
    Alone /\ Known /\ FilesInv /\ Unwind(job.distro, Source, Target) /\ UNCHANGED <<job, seen>>
        => FilesInv'
<1> SUFFICES ASSUME Known, FilesInv, Unwind(job.distro, Source, Target),
                    UNCHANGED <<job, seen>>
             PROVE  FilesInv'
  OBVIOUS
<1>1. /\ pc = "undo" /\ pc' = "undo" /\ Len(undo) > 0
      /\ UNCHANGED <<guest, written, was, job>>
      /\ undo' = SubSeq(undo, 1, Len(undo) - 1)
  BY DEF Unwind, RestOfUndo
<1>2. \/ Len(undo) = 1 /\ Len(undo') = 0
      \/ Len(undo) = 2 /\ Len(undo') = 1
      \/ Len(undo) = 3 /\ Len(undo') = 2
  <2>1. Len(undo) = 1 \/ Len(undo) = 2 \/ Len(undo) = 3
    BY <1>1, StackShape DEF Known, Solid, TypeOK, EntryInv
  <2>2. Len(undo') = Len(undo) - 1
    BY <1>1, Popped DEF Known, Solid, TypeOK, ControlTypeOK
  <2> QED
    BY <2>1, <2>2
<1>3. CASE /\ Len(undo) = 1 /\ Len(undo') = 0 /\ UndoPossible(Source, Target)
           /\ files' = UndoneFiles(Source, Target) /\ UNCHANGED unrestored
  BY <1>1, <1>3, FilesTakenBack
<1>4. CASE UNCHANGED files /\ (Len(undo') # 0 \/ unrestored' # {})
  <2>1. SameFiles /\ (Committed' <=> Committed)
    BY <1>1, <1>4 DEF SameFiles, Committed
  <2>2. /\ OwnersAreKnown' /\ LiveInv' /\ Source' = Source /\ Target' = Target
        /\ Transferred' <=> Transferred
    BY <1>1, <2>1, LiveSame
  <2>3. /\ Transferred /\ guest[job.distro] \in {Off, Target}
        /\ \A g \in Distro : g # job.distro => guest[g] \notin {Source, Target}
    BY <1>1 DEF FilesInv, DiskIsKnown, DiskIsPlaced, GuestsKeepAway
  <2> QED
    BY <1>1, <1>4, <2>2, <2>3
       DEF FilesInv, LiveInv, DiskIsKnown, DiskIsPlaced, SeenIsAll, BothAreComplete, GuestsKeepAway,
           BeforeTransfer, Settled
<1>5. \/ /\ UndoPossible(Source, Target) /\ files' = UndoneFiles(Source, Target)
         /\ UNCHANGED unrestored
      \/ unrestored' # {} /\ UNCHANGED files
  BY DEF Unwind
<1>6. Len(undo) # 1 => UndoneFiles(Source, Target) = files
  <2>1. Len(undo) # 1 => TopUndo \in {"base", "vhd"}
    BY <1>2, StackShape DEF Known, Solid, TypeOK, EntryInv, TopUndo
  <2> QED
    BY <2>1 DEF UndoneFiles
<1> QED
  BY <1>2, <1>3, <1>4, <1>5, <1>6

(* A rollback that put everything right hands the distribution back.       *)
LEMMA FilesRolledBack ==
    Alone /\ Known /\ FilesInv /\ RolledBack /\ UNCHANGED <<job, seen>> => FilesInv'
<1> SUFFICES ASSUME Known, FilesInv, RolledBack, UNCHANGED <<job, seen>> PROVE FilesInv'
  OBVIOUS
<1>1. /\ pc = "undo" /\ pc' = "ended" /\ Len(undo) = 0
      /\ UNCHANGED <<files, guest, written, was, job, undo, unrestored>>
  BY DEF RolledBack, machine
<1>2. SameFiles /\ ~Committed /\ ~Committed'
  BY <1>1 DEF SameFiles, Committed
<1>3. /\ OwnersAreKnown' /\ LiveInv' /\ Source' = Source /\ Target' = Target
      /\ Doubled' <=> Doubled
      /\ Spare' = Spare
  BY <1>1, <1>2, LiveSame
<1>4. /\ guest[job.distro] \in {Off, Target}
      /\ \A g \in Distro : g # job.distro => guest[g] \notin {Source, Target}
      /\ unrestored = {} => guest[job.distro] = Off
      /\ unrestored = {} => Vacant(Target) \/ PartOfCopy(Target)
  BY <1>1 DEF FilesInv, DiskIsKnown, DiskIsPlaced, GuestsKeepAway
<1>5. Spare \subseteq {Target} /\ Off # Target
  BY <1>2, EndsArePaths, WslAssumption DEF Spare, Known, Solid
<1>6. unrestored = {} => /\ \A g \in Distro : guest[g] \notin Spare
                         /\ Doubled => ~files[Target].whole
  BY <1>4, <1>5, WslAssumption DEF Doubled, Vacant, PartOfCopy
<1>7. GuestsKeepAway'
  BY <1>1, <1>2, <1>3, <1>4, <1>6 DEF GuestsKeepAway, BeforeTransfer, Settled
<1> QED
  BY <1>1, <1>3, <1>7 DEF FilesInv, LiveInv, DiskIsKnown, DiskIsPlaced, SeenIsAll, BothAreComplete

(* A process that is killed leaves the files as they are: a source not yet *)
(* deleted is still complete.                                              *)
LEMMA FilesKilled ==
    Alone /\ Known /\ FilesInv /\ Killed /\ UNCHANGED <<job, seen>> => FilesInv'
<1> SUFFICES ASSUME Known, FilesInv, Killed, UNCHANGED <<job, seen>> PROVE FilesInv'
  OBVIOUS
<1>1. /\ pc \notin {"enumerate", "plan", "ended", "killed"} /\ pc' = "killed"
      /\ UNCHANGED <<files, guest, written, was, job, undo, unrestored>>
  BY DEF Killed, Final
<1>2. SameFiles /\ ~Committed'
  BY <1>1 DEF SameFiles, Committed
<1>3. Source' = Source /\ Target' = Target
  BY <1>2, SameTerms DEF SameFiles
<1>4. GuestsKeepAway'
  BY <1>1, <1>3 DEF FilesInv, GuestsKeepAway, BeforeTransfer, Settled
<1>5. OwnersAreKnown' /\ LiveInv'
  <2>1. CASE ~Committed
    BY <1>1, <1>2, <2>1, LiveSame
  <2>2. CASE Committed
    <3>1. /\ Source \in Path /\ Target \in Path
          /\ pc \in {"delete", "verifyFile", "verifyBase"}
          /\ \A p, o : HoldsAll(p, o)' <=> HoldsAll(p, o)
          /\ \A p : Exists(p)' <=> Exists(p)
      BY <1>1, <2>2, EndsArePaths DEF Committed, HoldsAll, Exists, Known, Solid
    <3>2. Doubled' <=> Doubled
      BY <1>1, <1>3, <3>1 DEF Doubled
    <3>3. OwnersAreKnown'
      BY <1>1, <3>1 DEF FilesInv, OwnersAreKnown
    <3>4. CASE ~Doubled
      <4>1. Live' = Live
        BY <1>1, <3>1, <3>2, <3>4 DEF Live, Spare
      <4> QED
        BY <1>1, <3>3, <4>1, LiveFrame
    <3>5. CASE Doubled
      <4>1. /\ Spare = {Source} /\ Spare' = {Target} /\ Source # Target
            /\ files[Source].of = files[Target].of /\ files[Source].of \in Wsl2
            /\ Exists(Source) /\ Exists(Target)
            /\ HoldsAll(Source, files[Source].of)
        BY <1>2, <1>3, <2>2, <3>1, <3>2, <3>5
           DEF Spare, Doubled, FilesInv, BothAreComplete
      <4>2. Target \in Live /\ Source \in Live'
        BY <1>1, <3>1, <4>1 DEF Live
      <4>3. \A p \in Live' : p = Source \/ (p \in Live /\ p # Target)
        BY <1>1, <3>1, <4>1 DEF Live
      <4>4. \A p \in Live : p # Target => p \in Live'
        BY <1>1, <3>1, <4>1 DEF Live
      <4>5. LiveAreComplete'
        BY <1>1, <3>1, <4>1, <4>3 DEF FilesInv, LiveAreComplete
      <4>6. LiveAreUnique'
        BY <1>1, <4>1, <4>2, <4>3 DEF FilesInv, LiveAreUnique
      <4>7. LiveAreAll'
        BY <1>1, <4>1, <4>2, <4>4 DEF FilesInv, LiveAreAll
      <4> QED
        BY <3>3, <4>5, <4>6, <4>7 DEF LiveInv
    <3> QED
      BY <3>4, <3>5
  <2> QED
    BY <2>1, <2>2
<1> QED
  BY <1>1, <1>4, <1>5 DEF FilesInv, LiveInv, DiskIsKnown, DiskIsPlaced, SeenIsAll, BothAreComplete

(* While the files and the command stand still, only the guests can        *)
(* disturb the invariant.                                                  *)
LEMMA FilesStill ==
    ASSUME FilesInv, UNCHANGED <<files, written, registry, control, job, seen>>
    PROVE  /\ OwnersAreKnown' /\ LiveInv' /\ DiskIsKnown' /\ SeenIsAll' /\ BothAreComplete'
           /\ Source' = Source /\ Target' = Target /\ pc' = pc /\ unrestored' = unrestored
           /\ Len(undo') = Len(undo)
           /\ (Doubled' <=> Doubled) /\ (Committed' <=> Committed) /\ Spare' = Spare
           /\ \A g : Home(g)' = Home(g)
<1>1. UNCHANGED <<files, written, registry, pc, was, undo, unrestored, job, seen>>
  BY DEF control
<1>2. Source' = Source /\ Target' = Target /\ WasRenamed' = WasRenamed
  BY <1>1, SameTerms
<1>3. /\ \A p, o : HoldsAll(p, o)' <=> HoldsAll(p, o)
      /\ \A p : /\ Exists(p)' <=> Exists(p)
                /\ Vacant(p)' <=> Vacant(p)
                /\ PartOfCopy(p)' <=> PartOfCopy(p)
  BY <1>1, <1>2 DEF HoldsAll, Exists, Vacant, PartOfCopy
<1>4. (Doubled' <=> Doubled) /\ (Committed' <=> Committed)
      /\ (Transferred' <=> Transferred)
  BY <1>1, <1>2, <1>3 DEF Doubled, Committed, Transferred
<1>5. Spare' = Spare /\ Live' = Live
  BY <1>1, <1>2, <1>3, <1>4 DEF Spare, Live
<1>6. OwnersAreKnown' /\ LiveInv'
  BY <1>1, <1>3, <1>5
     DEF FilesInv, OwnersAreKnown, LiveInv, LiveAreComplete, LiveAreUnique, LiveAreAll
<1>7. DiskIsKnown'
  BY <1>1, <1>2, <1>3, <1>4 DEF FilesInv, DiskIsKnown, DiskIsPlaced
<1>8. SeenIsAll' /\ BothAreComplete'
  BY <1>1, <1>2, <1>3, <1>4 DEF FilesInv, SeenIsAll, BothAreComplete
<1>9. \A g : Home(g)' = Home(g)
  BY <1>1 DEF Home
<1> QED
  BY <1>1, <1>2, <1>4, <1>5, <1>6, <1>7, <1>8, <1>9

(* A distribution that starts does not start from the spare.               *)
LEMMA FilesStarted ==
    ASSUME Alone, Known, FilesInv, NEW d \in InUserHands, d \in Distro, StartGuest(d),
           UNCHANGED <<control, job, seen>>
    PROVE  FilesInv'
<1>1. /\ UNCHANGED <<files, written, registry>> /\ files[Home(d)].whole
      /\ guest' = [guest EXCEPT ![d] = Home(d)] /\ guest \in [Distro -> Path \cup {Off}]
      /\ job.distro \in Distro
  BY DEF StartGuest, Boot, Known, Solid, TypeOK, MachineTypeOK, Job
<1>2. /\ OwnersAreKnown' /\ LiveInv' /\ DiskIsKnown' /\ SeenIsAll' /\ BothAreComplete'
      /\ Source' = Source /\ Target' = Target /\ pc' = pc /\ unrestored' = unrestored
      /\ Len(undo') = Len(undo)
      /\ (Doubled' <=> Doubled) /\ (Committed' <=> Committed) /\ Spare' = Spare
      /\ \A g : Home(g)' = Home(g)
  BY <1>1, FilesStill
<1>3. guest'[d] = Home(d) /\ \A g \in Distro : g # d => guest'[g] = guest[g]
  BY <1>1
<1>4. CASE ~Settled
  <2>1. pc \notin {"enumerate", "plan"} /\ ~(pc = "ended" /\ unrestored = {})
    BY <1>4 DEF Settled
  <2>2. d # job.distro /\ Home(d) # Target
    BY <1>4 DEF InUserHands, Alone
  <2>3. Home(d) # Source
    BY <2>1, <2>2 DEF Known, EntryInv, HomesAreDistinct
  <2>4. /\ guest'[job.distro] = guest[job.distro] /\ guest'[d] \notin {Source, Target}
    BY <1>1, <1>3, <2>2, <2>3
  <2>5. pc \notin {"enumerate", "plan", "ended"} \/ (pc = "ended" /\ unrestored # {}) =>
          /\ \A g \in Distro : g # job.distro => guest'[g] \notin {Source, Target}
          /\ guest'[job.distro] \in {Off, Target}
    BY <1>3, <2>4 DEF FilesInv, GuestsKeepAway
  <2>6. /\ pc \in BeforeTransfer \cup {"base", "vhd", "boot"} => guest'[job.distro] = Off
        /\ pc = "undo" /\ Len(undo) = 0 /\ unrestored = {} => guest'[job.distro] = Off
    BY <2>4 DEF FilesInv, GuestsKeepAway
  <2>7. job' = job
    OBVIOUS
  <2>8. GuestsKeepAway'
    BY <1>2, <2>1, <2>5, <2>6, <2>7 DEF GuestsKeepAway, BeforeTransfer, Settled
  <2> QED
    BY <1>2, <2>8 DEF FilesInv, LiveInv
<1>5. CASE Settled
  <2>1. /\ pc \in {"enumerate", "plan"} \/ (pc = "ended" /\ unrestored = {})
        /\ \A g \in Distro : guest[g] \notin Spare
        /\ Doubled => Committed \/ ~files[Target].whole
    BY <1>5 DEF Settled, FilesInv, GuestsKeepAway
  <2>2. Home(d) \notin Spare
    <3>1. CASE ~Doubled
      BY <3>1 DEF Spare
    <3>2. CASE Doubled /\ Committed
      <4>1. Spare = {Source} /\ Source # Target /\ pc # "enumerate"
        BY <3>2 DEF Spare, Doubled
      <4>2. registry[job.distro] = Repointed
        BY <3>2 DEF Known, EntryInv, EntryIsKnown
      <4>3. Home(job.distro) = Target
        BY <4>2, RepointedHome
      <4>4. d # job.distro => Home(d) # Source
        BY <4>1 DEF Known, EntryInv, HomesAreDistinct
      <4> QED
        BY <4>1, <4>3, <4>4
    <3>3. CASE Doubled /\ ~Committed
      BY <1>1, <2>1, <3>3 DEF Spare
    <3> QED
      BY <3>1, <3>2, <3>3
  <2>3. \A g \in Distro : guest'[g] \notin Spare
    BY <1>3, <2>1, <2>2
  <2>4. pc \in {"enumerate", "plan"} => \A g \in Distro : guest'[g] \in {Off, Home(g)}
    BY <1>3 DEF FilesInv, GuestsKeepAway
  <2>5. job' = job /\ files' = files
    BY <1>1
  <2>6. GuestsKeepAway'
    BY <1>2, <2>1, <2>3, <2>4, <2>5 DEF GuestsKeepAway, BeforeTransfer, Settled
  <2> QED
    BY <1>2, <2>6 DEF FilesInv, LiveInv
<1> QED
  BY <1>4, <1>5

(* A distribution that stops, and the VM idling out, free disks only.      *)
LEMMA FilesStopped ==
    ASSUME Known, FilesInv, (\E d \in Distro : StopGuest(d)) \/ VmIdlesOut,
           UNCHANGED <<control, job, seen>>
    PROVE  FilesInv'
<1>1. /\ UNCHANGED <<files, written, registry, job>>
      /\ \A g \in Distro : guest'[g] \in {guest[g], Off}
  BY DEF StopGuest, VmIdlesOut, Known, Solid, TypeOK, MachineTypeOK
<1>2. /\ OwnersAreKnown' /\ LiveInv' /\ DiskIsKnown' /\ SeenIsAll' /\ BothAreComplete'
      /\ Source' = Source /\ Target' = Target /\ pc' = pc /\ unrestored' = unrestored
      /\ Len(undo') = Len(undo)
      /\ (Doubled' <=> Doubled) /\ (Committed' <=> Committed) /\ Spare' = Spare
      /\ \A g : Home(g)' = Home(g)
  BY <1>1, FilesStill
<1>3. /\ Off \notin {Source, Target} /\ Off \notin Spare /\ job.distro \in Distro
  BY EndsArePaths, WslAssumption DEF Spare, Known, Solid, TypeOK, Job
<1>4. GuestsKeepAway'
  BY <1>1, <1>2, <1>3 DEF FilesInv, GuestsKeepAway, BeforeTransfer, Settled
<1> QED
  BY <1>2, <1>4 DEF FilesInv, LiveInv

(* Once planned, whoever writes and is registered runs from a live disk,   *)
(* and neither end of the move holds another copy of it.                   *)
LEMMA WriterIsLive ==
    ASSUME Alone, Known, FilesInv, NEW d \in InUserHands, d \in Distro, guest[d] # Off
    PROVE  /\ guest[d] \in Path /\ Exists(guest[d]) /\ files[guest[d]] \in Disk
           /\ files[guest[d]].of \in Wsl2 \cup {Stray}
           /\ files[guest[d]].of \in Wsl2 => guest[d] \in Live
           /\ ~Settled => guest[d] \notin {Source, Target}
           /\ ~Settled => \A q \in {Source, Target} :
                 Exists(q) /\ files[q].of \in Wsl2 => files[q].of # files[guest[d]].of
<1> DEFINE p == guest[d]
<1>1. /\ p \in Path /\ Exists(p) /\ files[p] \in Disk /\ job.distro \in Distro
      /\ Source \in Path /\ Target \in Path
  BY EndsArePaths DEF Known, Solid, TypeOK, MachineTypeOK, GuestsHoldDisks, Exists, Job
<1>2. files[p].of \in Wsl2 \cup {Stray}
  BY <1>1 DEF FilesInv, OwnersAreKnown
<1>3. ~Settled => p \notin {Source, Target}
  <2> SUFFICES ASSUME ~Settled PROVE p \notin {Source, Target}
    OBVIOUS
  <2>1. d # job.distro
    BY DEF InUserHands, Alone
  <2>2. pc \notin {"enumerate", "plan", "ended"} \/ (pc = "ended" /\ unrestored # {})
    BY DEF Settled
  <2> QED
    BY <2>1, <2>2 DEF FilesInv, GuestsKeepAway
<1>4. p \notin Spare
  <2>1. CASE Settled
    BY <2>1 DEF FilesInv, GuestsKeepAway
  <2>2. CASE ~Settled
    BY <1>3, <2>2 DEF Spare
  <2> QED
    BY <2>1, <2>2
<1>5. files[p].of \in Wsl2 => p \in Live
  BY <1>1, <1>4 DEF Live
<1>6. ASSUME ~Settled, NEW q \in {Source, Target}, Exists(q), files[q].of \in Wsl2
      PROVE  files[q].of # files[p].of
  <2> SUFFICES ASSUME files[q].of = files[p].of PROVE FALSE
    OBVIOUS
  <2>1. p \in Live /\ p # Source /\ p # Target /\ q \in Path
    BY <1>1, <1>3, <1>5, <1>6
  <2>2. q \notin Live
    BY <1>6, <2>1 DEF FilesInv, LiveAreUnique
  <2>3. q \in Spare
    BY <1>6, <2>1, <2>2 DEF Live
  <2>4. /\ Doubled /\ Source # Target /\ Exists(Source) /\ Exists(Target)
        /\ files[Source].of = files[Target].of
        /\ Spare = {Source} \/ Spare = {Target}
    BY <2>3 DEF Spare, Doubled
  <2>5. \E r \in {Source, Target} : r \in Live /\ files[r].of = files[p].of
    BY <1>1, <1>6, <2>3, <2>4 DEF Live
  <2> QED
    BY <2>1, <2>5 DEF FilesInv, LiveAreUnique
<1> QED
  BY <1>1, <1>2, <1>3, <1>5, <1>6

(* A guest's write goes to a live disk, which holds it from then on.       *)
LEMMA FilesWritten ==
    ASSUME Alone, Known, FilesInv, NEW d \in InUserHands, d \in Distro, NEW w \in Write,
           GuestWrites(d, w), UNCHANGED <<control, job, seen>>
    PROVE  FilesInv'
<1> DEFINE p == guest[d]
           o == files[p].of
<1>1. /\ guest[d] # Off
      /\ files' = [files EXCEPT ![p].data = @ \cup {w}]
      /\ written' = [written EXCEPT ![o] = @ \cup {w}]
      /\ UNCHANGED <<registry, guest, pc, was, undo, unrestored, job, seen>>
  BY DEF GuestWrites, control
<1>2. /\ p \in Path /\ Exists(p) /\ files[p] \in Disk /\ o \in Wsl2 \cup {Stray}
      /\ o \in Wsl2 => p \in Live
      /\ ~Settled => p \notin {Source, Target}
      /\ ~Settled => \A q \in {Source, Target} :
            Exists(q) /\ files[q].of \in Wsl2 => files[q].of # o
  BY <1>1, WriterIsLive
<1>3. /\ files \in [Path -> Disk \cup {NoFile}] /\ written \in [Owner -> SUBSET Write]
      /\ Source \in Path /\ Target \in Path /\ Stray \notin Wsl2
      /\ Wsl2 \subseteq Owner /\ o \in Owner
  BY <1>2, EndsArePaths, WslAssumption DEF Known, Solid, TypeOK, MachineTypeOK, Owner, Disk
<1>4. /\ files'[p].of = files[p].of /\ files'[p].whole = files[p].whole
      /\ files'[p].data = files[p].data \cup {w} /\ files'[p] # NoFile
      /\ \A q \in Path \ {p} : files'[q] = files[q]
  <2> DEFINE new == [files[p] EXCEPT !.data = @ \cup {w}]
  <2>1. /\ new \in Disk /\ new.of = files[p].of /\ new.whole = files[p].whole
        /\ new.data = files[p].data \cup {w}
    BY <1>2 DEF Disk
  <2>2. files' = [files EXCEPT ![p] = new]
    BY <1>1
  <2> HIDE DEF new, p
  <2> QED
    BY <1>2, <1>3, <2>1, <2>2, WslAssumption
<1>5. /\ written'[o] = written[o] \cup {w}
      /\ \A x \in Owner : x # o => written'[x] = written[x]
  BY <1>1, <1>3
<1> HIDE DEF p, o
<1>6. /\ \A q \in Path : Exists(q)' <=> Exists(q)
      /\ \A q \in Path : files'[q].of = files[q].of /\ files'[q].whole = files[q].whole
  BY <1>2, <1>4 DEF Exists
<1>7. Source' = Source /\ Target' = Target /\ WasRenamed' = WasRenamed
  BY <1>1, SameTerms
<1>8. /\ (Doubled' <=> Doubled) /\ (Committed' <=> Committed)
      /\ (Transferred' <=> Transferred)
      /\ (Vacant(Target)' <=> Vacant(Target)) /\ (PartOfCopy(Target)' <=> PartOfCopy(Target))
  BY <1>1, <1>3, <1>6, <1>7 DEF Doubled, Committed, Transferred, Vacant, PartOfCopy
<1>9. Spare' = Spare /\ Live' = Live /\ Live \subseteq Path
  BY <1>6, <1>7, <1>8 DEF Spare, Live
<1>10. \A q \in Path, x \in Wsl2 : q # p /\ x # o => (HoldsAll(q, x) => HoldsAll(q, x)')
  BY <1>3, <1>4, <1>5, <1>6 DEF HoldsAll
<1>11. \A q \in Path, x \in Wsl2 : q = p /\ x = o => (HoldsAll(q, x) => HoldsAll(q, x)')
  BY <1>2, <1>3, <1>4, <1>5, <1>6 DEF HoldsAll
<1>12. LiveInv'
  <2>1. LiveAreComplete'
    <3> SUFFICES ASSUME NEW q \in Live PROVE HoldsAll(q, files[q].of)'
      BY <1>9 DEF LiveAreComplete
    <3>1. q \in Path /\ files'[q].of = files[q].of /\ files[q].of \in Wsl2
          /\ HoldsAll(q, files[q].of)
      BY <1>6, <1>9 DEF FilesInv, LiveAreComplete, Live
    <3>2. CASE q = p
      <4>1. files[q].of = o
        BY <3>2 DEF o
      <4> QED
        BY <1>11, <3>1, <3>2, <4>1
    <3>3. CASE q # p
      <4>1. files[q].of # o
        BY <1>2, <1>3, <3>1, <3>3 DEF o, FilesInv, LiveAreUnique
      <4> QED
        BY <1>10, <3>1, <3>3, <4>1
    <3> QED
      BY <3>2, <3>3
  <2>2. LiveAreUnique' /\ LiveAreAll'
    BY <1>6, <1>9 DEF FilesInv, LiveAreUnique, LiveAreAll
  <2> QED
    BY <2>1, <2>2 DEF LiveInv
<1>13. OwnersAreKnown'
  BY <1>6 DEF FilesInv, OwnersAreKnown
<1>14. ~Settled => \A q \in {Source, Target} :
          /\ files'[q] = files[q]
          /\ Exists(q) /\ files[q].of \in Wsl2 =>
                 /\ written'[files[q].of] = written[files[q].of]
                 /\ HoldsAll(q, files[q].of) => HoldsAll(q, files[q].of)'
  <2> SUFFICES ASSUME ~Settled, NEW q \in {Source, Target}
               PROVE  /\ files'[q] = files[q]
                      /\ Exists(q) /\ files[q].of \in Wsl2 =>
                             /\ written'[files[q].of] = written[files[q].of]
                             /\ HoldsAll(q, files[q].of) => HoldsAll(q, files[q].of)'
    OBVIOUS
  <2>1. q # p /\ q \in Path /\ files'[q] = files[q]
    BY <1>2, <1>3, <1>4
  <2>2. Exists(q) /\ files[q].of \in Wsl2 =>
           files[q].of # o /\ files[q].of \in Owner
    BY <1>2, <1>3
  <2> QED
    BY <1>5, <1>10, <2>1, <2>2
<1>15. DiskIsKnown'
  <2>1. pc \in {"enumerate", "plan"} => DiskIsKnown'
    BY <1>1 DEF DiskIsKnown, DiskIsPlaced
  <2>2. pc \in {"base", "vhd", "boot"} => Exists(Target) /\ ~Settled
    BY DEF FilesInv, DiskIsKnown, DiskIsPlaced, Transferred, Settled
  <2>3. pc \in {"base", "vhd", "boot"} /\ files[Target].of \in Wsl2
           => HoldsAll(Target, files[Target].of)'
    <3>1. pc \in {"base", "vhd", "boot"} /\ files[Target].of \in Wsl2
             => HoldsAll(Target, files[Target].of)
      BY DEF FilesInv, DiskIsKnown, DiskIsPlaced
    <3> QED
      BY <1>7, <1>14, <2>2, <3>1
  <2>4. /\ files'[Target].of = files[Target].of /\ files'[Source].of = files[Source].of
        /\ files'[Target].whole = files[Target].whole
        /\ (files'[Source] # NoFile) <=> (files[Source] # NoFile)
        /\ (files'[Target] # NoFile) <=> (files[Target] # NoFile)
    BY <1>3, <1>6 DEF Exists
  <2> QED
    BY <1>1, <1>7, <1>8, <2>3, <2>4 DEF FilesInv, DiskIsKnown, DiskIsPlaced, Exists
<1>16. SeenIsAll'
  <2>1. pc \in {"create", "copying"} => Exists(Source) /\ ~Settled
    BY DEF FilesInv, DiskIsKnown, DiskIsPlaced, Settled
  <2> QED
    BY <1>1, <1>7, <1>14, <2>1 DEF FilesInv, SeenIsAll
<1>17. BothAreComplete'
  <2>1. pc \in {"delete", "verifyFile", "verifyBase"} => ~Settled
    BY DEF Settled
  <2>2. Doubled => Exists(Source) /\ files[Source].of \in Wsl2
    BY DEF Doubled
  <2> QED
    BY <1>1, <1>7, <1>8, <1>14, <2>1, <2>2 DEF FilesInv, BothAreComplete
<1>18. GuestsKeepAway'
  <2>1. files'[Target].whole = files[Target].whole /\ \A g : Home(g)' = Home(g)
    BY <1>1, <1>3, <1>6 DEF Home
  <2> QED
    BY <1>1, <1>7, <1>8, <1>9, <2>1 DEF FilesInv, GuestsKeepAway, BeforeTransfer, Settled
<1> QED
  BY <1>12, <1>13, <1>15, <1>16, <1>17, <1>18 DEF FilesInv, LiveInv

(* A disk another program puts where nothing was is nobody's, and counts   *)
(* for none of the files the move is about.                                *)
LEMMA FilesStrayed ==
    ASSUME Known, FilesInv, StrangersWrite, NEW x \in Path, StrayAppears(x),
           UNCHANGED <<control, job, seen>>
    PROVE  FilesInv'
<1>1. /\ files' = [files EXCEPT ![x] = Fresh(Stray)] /\ ~Exists(x)
      /\ UNCHANGED <<registry, guest, written, pc, was, undo, unrestored, job, seen>>
  BY DEF StrayAppears, control
<1>2. /\ files \in [Path -> Disk \cup {NoFile}] /\ Stray \notin Wsl2
      /\ Source \in Path /\ Target \in Path
      /\ Source' = Source /\ Target' = Target /\ WasRenamed' = WasRenamed
  BY <1>1, SameTerms, EndsArePaths, WslAssumption DEF Known, Solid, TypeOK, MachineTypeOK
<1>3. Fresh(Stray) \in Disk /\ Fresh(Stray).of = Stray
  BY DEF Fresh, Disk, Owner
<1>4. /\ files'[x].of = Stray /\ Exists(x)'
      /\ \A q \in Path : q # x => files'[q] = files[q]
  BY <1>1, <1>2, <1>3, WslAssumption DEF Exists
<1>5. /\ \A q \in Path : Exists(q) => q # x /\ Exists(q)' /\ files'[q] = files[q]
      /\ \A q \in Path : q # x => (Exists(q)' <=> Exists(q))
      /\ \A q \in Path : Vacant(q) => Vacant(q)'
  BY <1>1, <1>4 DEF Exists, Vacant
<1>6. /\ Doubled' <=> Doubled
      /\ Committed' <=> Committed
      /\ Transferred => Transferred'
  <2>1. Doubled' <=> Doubled
    BY <1>1, <1>2, <1>4, <1>5 DEF Doubled
  <2>2. Transferred => Transferred'
    BY <1>2, <1>5 DEF Transferred
  <2> QED
    BY <1>1, <2>1, <2>2 DEF Committed
<1>7. Spare' = Spare
  BY <1>2, <1>6 DEF Spare
<1>8. Live' = Live /\ \A q \in Live : files'[q] = files[q]
  BY <1>2, <1>4, <1>5, <1>7 DEF Live
<1>9. LiveInv'
  BY <1>1, <1>8, LiveFrame
<1>10. OwnersAreKnown'
  BY <1>4, <1>5 DEF FilesInv, OwnersAreKnown
<1>11. DiskIsKnown'
  <2>1. Exists(Source) /\ PartOfCopy(Target) /\ Exists(Target) => PartOfCopy(Target)'
    BY <1>2, <1>5 DEF PartOfCopy
  <2>2. Vacant(Target) \/ Exists(Target)
    BY DEF Vacant
  <2>3. pc = "copying" => Exists(Target)' /\ PartOfCopy(Target)'
    BY <1>2, <1>5, <2>1 DEF FilesInv, DiskIsKnown, DiskIsPlaced
  <2>4. pc \in {"base", "vhd", "boot"} => Exists(Target)
    BY DEF FilesInv, DiskIsKnown, DiskIsPlaced, Transferred
  <2>5. pc \in {"base", "vhd", "boot"} /\ files'[Target].of \in Wsl2 =>
           HoldsAll(Target, files[Target].of)'
    <3>1. pc \in {"base", "vhd", "boot"} /\ files[Target].of \in Wsl2 =>
             HoldsAll(Target, files[Target].of)
      BY DEF FilesInv, DiskIsKnown, DiskIsPlaced
    <3>2. pc \in {"base", "vhd", "boot"} => files'[Target] = files[Target]
      BY <1>2, <1>5, <2>4
    <3> QED
      BY <1>1, <1>2, <2>4, <3>1, <3>2 DEF HoldsAll, Exists
  <2> QED
    BY <1>1, <1>2, <1>5, <1>6, <2>1, <2>2, <2>3, <2>5 DEF FilesInv, DiskIsKnown, DiskIsPlaced
<1>12. SeenIsAll'
  <2>1. pc \in {"create", "copying"} => Exists(Source)
    BY DEF FilesInv, DiskIsKnown, DiskIsPlaced
  <2> QED
    BY <1>1, <1>2, <1>5, <2>1 DEF FilesInv, SeenIsAll
<1>13. BothAreComplete'
  <2>1. Doubled => Exists(Source) /\ files'[Source] = files[Source]
    BY <1>2, <1>5 DEF Doubled
  <2> QED
    BY <1>1, <1>2, <1>5, <1>6, <2>1 DEF FilesInv, BothAreComplete, HoldsAll
<1>14. GuestsKeepAway'
  <2>1. Doubled => files'[Target] = files[Target]
    BY <1>2, <1>5 DEF Doubled
  <2>2. \A g : Home(g)' = Home(g)
    BY <1>1 DEF Home
  <2> QED
    BY <1>1, <1>2, <1>6, <1>7, <2>1, <2>2
       DEF FilesInv, GuestsKeepAway, BeforeTransfer, Settled
<1> QED
  BY <1>9, <1>10, <1>11, <1>12, <1>13, <1>14 DEF FilesInv, LiveInv

(* Nothing that happens on the machine meanwhile disturbs the files.       *)
LEMMA FilesEnvironment == Alone /\ Known /\ FilesInv /\ Environment => FilesInv'
<1>1. InUserHands \subseteq Distro
  BY DEF InUserHands
<1>2. \A p \in FreePaths : StrangersWrite /\ p \in Path
  BY DEF FreePaths
<1> QED
  BY <1>1, <1>2, FilesStarted, FilesWritten, FilesStopped, FilesStrayed
     DEF Environment, MachineNext

(* Nothing changes what does not change.                                   *)
LEMMA FilesStutter == FilesInv /\ UNCHANGED vars => FilesInv'
<1> SUFFICES ASSUME FilesInv, UNCHANGED vars PROVE FilesInv'
  OBVIOUS
<1>1. UNCHANGED <<files, written, registry, guest, control, job, seen>>
  BY DEF vars, machine
<1>2. /\ OwnersAreKnown' /\ LiveInv' /\ DiskIsKnown' /\ SeenIsAll' /\ BothAreComplete'
      /\ Source' = Source /\ Target' = Target /\ pc' = pc /\ unrestored' = unrestored
      /\ Len(undo') = Len(undo)
      /\ (Doubled' <=> Doubled) /\ (Committed' <=> Committed) /\ Spare' = Spare
      /\ \A g : Home(g)' = Home(g)
  BY <1>1, FilesStill
<1>3. GuestsKeepAway'
  BY <1>1, <1>2 DEF FilesInv, GuestsKeepAway, BeforeTransfer, Settled
<1> QED
  BY <1>2, <1>3 DEF FilesInv, LiveInv

(* A move of a distribution nobody uses meanwhile keeps each filesystem in *)
(* exactly one live file, and that file complete, wherever it fails or is  *)
(* killed, and whatever disks other programs create.                       *)
THEOREM MoveKeepsTheFiles == Alone /\ Spec => []FilesInv
<1>1. Alone /\ Known /\ FilesInv /\ Step => FilesInv'
  BY FilesRead, FilesPlan, FilesRename, FilesListRanges, FilesCreate, FilesCopy,
     FilesDiscard, FilesRepoint, FilesBoot, FilesDelete, FilesVerify, FilesUnwind,
     FilesRolledBack
     DEF Step, Rollback
<1>2. Alone /\ Known /\ FilesInv /\ [Next]_vars => FilesInv'
  BY <1>1, FilesKilled, FilesEnvironment, FilesStutter DEF Next
<1>3. Solid /\ EntryInv => Known
  BY DEF Known
<1>4. Alone => Alone'
  BY DEF Alone
<1> QED
  BY FilesInit, MoveIsSolid, MoveEntryInv, <1>2, <1>3, <1>4, PTL DEF Spec

(* The filesystem of every distribution is complete in some one file at    *)
(* every moment of such a move.                                            *)
THEOREM MoveLosesNothing == Alone /\ Spec => []Lossless
<1>1. FilesInv => Lossless
  <2> SUFFICES ASSUME FilesInv, NEW d \in Wsl2 PROVE \E p \in Path : HoldsAll(p, d)
    BY DEF Lossless
  <2>1. PICK p \in Live : files[p].of = d
    BY DEF FilesInv, LiveAreAll
  <2> QED
    BY <2>1 DEF FilesInv, LiveAreComplete, Live
<1> QED
  BY MoveKeepsTheFiles, <1>1, PTL

----------------------------------------------------------------------------
(* What a move that got past its smoke test has done, and how it can have  *)
(* ended well.                                                             *)
Promise ==
    Committed => /\ proof = Target /\ Source # Target
                 /\ Exists(Target) /\ (job.keep => Exists(Source))

EndsWell ==
    /\ pc = "undo" => exit \in {"preflight", "error"}
    /\ pc = "ended" /\ exit = "ok" /\ ~job.dryRun => Len(undo) > 0

(* The smoke test makes the promise; deleting and verifying keep it.       *)
LEMMA PromiseStep == Known /\ FilesInv /\ Promise /\ Step => Promise'
<1> SUFFICES ASSUME Known, FilesInv, Promise, Step PROVE Promise'
  OBVIOUS
<1>1. CASE ProveItBoots
  <2>1. /\ pc = "boot" /\ UNCHANGED <<files, was, job>>
        /\ pc' = "undo" \/ proof' = BootsFrom(job.distro)
    BY <1>1 DEF ProveItBoots, SmokeTest, Abort
  <2>2. guest[job.distro] = Off /\ registry[job.distro] = Repointed /\ Transferred
    BY <2>1 DEF Known, EntryInv, EntryIsKnown, FilesInv, GuestsKeepAway, DiskIsKnown, DiskIsPlaced
  <2>3. BootsFrom(job.distro) = Target
    BY <2>2, RepointedHome DEF BootsFrom, Running
  <2>4. Source' = Source /\ Target' = Target
    BY <2>1, SameTerms
  <2> QED
    BY <2>1, <2>2, <2>3, <2>4
       DEF Promise, Committed, Transferred, Exists, WasRenamed
<1>2. CASE DeleteSource
  <2>1. /\ pc = "delete" /\ UNCHANGED <<was, job, proof>> /\ ~job.keep /\ Committed
        /\ files' = files \/ files' = Removed(Source)
    BY <1>2 DEF DeleteSource, Goto, Known, EntryInv, RouteIsKnown, Committed
  <2>2. Source' = Source /\ Target' = Target /\ Source \in Path /\ Target \in Path
    BY <2>1, SameTerms, EndsArePaths DEF Known, Solid
  <2>3. files'[Target] = files[Target]
    BY <2>1, <2>2, RenamedFiles DEF Promise, Known, Solid
  <2> QED
    BY <2>1, <2>2, <2>3 DEF Promise, Exists
<1>3. CASE VerifyFile \/ VerifyRegistry
  <2>1. /\ pc \in {"verifyFile", "verifyBase"}
        /\ UNCHANGED <<files, was, job, proof>>
    BY <1>3 DEF VerifyFile, VerifyRegistry, VerifyBase, Goto, Finish, machine
  <2> QED
    BY <2>1, SameTerms DEF Promise, Committed, Exists
<1>4. CASE Plan
  BY <1>4 DEF Plan, Known, EntryInv, EntryIsKnown, RefuseIfRunning, VolumeRefuses, Accept,
              Finish, Goto, Promise, Committed
<1>5. CASE Read \/ Rename \/ ListRanges \/ CreateTarget \/ CopyBytes \/ DiscardCopy
  BY <1>5 DEF Read, Enumerate, Rename, ListRanges, CreateTarget, CopyBytes, DiscardCopy,
              Goto, Abort, PushAndGoto, Promise, Committed
<1>6. CASE RepointBase \/ RepointVhd \/ Rollback
  BY <1>6 DEF RepointBase, RepointVhd, WriteBase, WriteVhd, Rollback, Unwind, RolledBack,
              Goto, Abort, PushAndGoto, Promise, Committed
<1> QED
  BY <1>1, <1>2, <1>3, <1>4, <1>5, <1>6 DEF Step

(* Only what verify() found, or a dry run, ends well.                      *)
LEMMA EndsWellStep == Known /\ EndsWell /\ Step => EndsWell'
<1> SUFFICES ASSUME Known, EndsWell, Step PROVE EndsWell'
  OBVIOUS
<1>1. CASE Plan
  BY <1>1 DEF Plan, RefuseIfRunning, VolumeRefuses, Accept, Finish, Goto, EndsWell
<1>2. CASE VerifyFile \/ VerifyRegistry
  <2>1. Len(undo) > 0
    BY <1>2 DEF VerifyFile, VerifyRegistry, Known, EntryInv, EntryIsKnown, Committed
  <2> QED
    BY <1>2, <2>1 DEF VerifyFile, VerifyRegistry, VerifyBase, Goto, Finish, EndsWell
<1>3. CASE Rollback
  BY <1>3 DEF Rollback, Unwind, RolledBack, EndsWell
<1>4. CASE Read \/ Rename \/ ListRanges \/ CreateTarget \/ CopyBytes \/ DiscardCopy
  BY <1>4 DEF Read, Enumerate, Rename, ListRanges, CreateTarget, CopyBytes, DiscardCopy,
              Goto, Abort, PushAndGoto, EndsWell
<1>5. CASE RepointBase \/ RepointVhd \/ ProveItBoots \/ DeleteSource
  BY <1>5 DEF RepointBase, RepointVhd, WriteBase, WriteVhd, ProveItBoots, SmokeTest,
              DeleteSource, Goto, Abort, PushAndGoto, EndsWell
<1> QED
  BY <1>1, <1>2, <1>3, <1>4, <1>5 DEF Step

(* Nobody else takes the target away, or the source.                       *)
LEMMA PromiseKept ==
    ASSUME Known, FilesInv, Promise, EndsWell,
           \/ Environment
           \/ Killed /\ UNCHANGED <<job, seen>>
           \/ UNCHANGED vars
    PROVE  Promise' /\ EndsWell'
<1>1. CASE Killed
  BY <1>1 DEF Killed, Promise, EndsWell, Committed
<1>2. CASE ~Killed
  <2>1. UNCHANGED <<pc, was, undo, exit, proof, job>>
    BY <1>2 DEF Environment, vars, control
  <2>2. Source' = Source /\ Target' = Target /\ Source \in Path /\ Target \in Path
    BY <2>1, SameTerms, EndsArePaths DEF Known, Solid
  <2> QED
    BY <2>1, <2>2, FilesPersist DEF Promise, EndsWell, Committed
<1> QED
  BY <1>1, <1>2

(* A move that deletes the original has booted the guest from the target,  *)
(* and one that reports success has done all it says.                      *)
THEOREM MovePromises == Alone /\ Spec => [](Promise /\ EndsWell)
<1>1. Init => Promise /\ EndsWell
  BY DEF Init, ControlInit, Promise, EndsWell, Committed
<1>2. Known /\ FilesInv /\ Promise /\ EndsWell /\ [Next]_vars => Promise' /\ EndsWell'
  BY PromiseStep, EndsWellStep, PromiseKept DEF Next
<1>3. Solid /\ EntryInv => Known
  BY DEF Known
<1> QED
  BY <1>1, <1>2, <1>3, MoveKeepsTheFiles, MoveIsSolid, MoveEntryInv, PTL DEF Spec

(* A move that reports success has done all it says.                       *)
THEOREM MoveSucceeds == Alone /\ Spec => []SuccessMeansMoved
<1>1. Known /\ FilesInv /\ Promise /\ EndsWell => SuccessMeansMoved
  <2> SUFFICES ASSUME Known, FilesInv, Promise, EndsWell,
                      pc = "ended", exit = "ok", ~job.dryRun
               PROVE  /\ Home(job.distro) = Target /\ proof = Target
                      /\ registry[job.distro].base.extended = was.base.extended
                      /\ registry[job.distro].vhd = was.vhd
                      /\ Exists(Target)
                      /\ HoldsAll(Target, files[Target].of) \/ files[Target].of = Stray
                      /\ job.keep => Exists(Source)
    BY DEF SuccessMeansMoved
  <2>1. Committed
    BY DEF EndsWell, Committed
  <2>2. registry[job.distro] = Repointed /\ Home(job.distro) = Target
    BY <2>1, RepointedHome DEF Known, EntryInv, EntryIsKnown
  <2>3. Repointed.vhd = was.vhd /\ Repointed.base.extended = was.base.extended
    BY DEF Known, Solid, TypeOK, ControlTypeOK, Repointed, IntendedBase, Entry, BasePath
  <2>4. Exists(Target) /\ Target \in Path /\ Target \notin Spare
    BY <2>1, EndsArePaths DEF Promise, Known, Solid, Spare
  <2>5. HoldsAll(Target, files[Target].of) \/ files[Target].of = Stray
    BY <2>4 DEF FilesInv, OwnersAreKnown, LiveAreComplete, Live
  <2> QED
    BY <2>1, <2>2, <2>3, <2>4, <2>5 DEF Promise
<1>2. Solid /\ EntryInv => Known
  BY DEF Known
<1> QED
  BY <1>1, <1>2, MovePromises, MoveKeepsTheFiles, MoveIsSolid, MoveEntryInv, PTL

(* The original goes only once the guest has run from the new disk.        *)
THEOREM MoveDeletesAfterBoot == Alone /\ Spec => DeletedOnlyAfterBoot
<1>1. Promise => (pc = "delete" /\ Exists(Source) /\ ~Exists(Source)' => proof = Target)
  BY DEF Promise, Committed
<1> QED
  BY <1>1, MovePromises, PTL DEF DeletedOnlyAfterBoot

----------------------------------------------------------------------------
(* The copy of a copying move is as whole as its original for as long as   *)
(* the move may still be rolled back.                                      *)
Copied == pc \in {"base", "vhd", "boot"} \/ (pc = "undo" /\ Len(undo) > 0)

Twins == ~WasRenamed /\ Copied => (files[Target].whole <=> files[Source].whole)

(* Every step of the command keeps the copy as whole as its original.      *)
LEMMA TwinsStep == Known /\ DiskIsPlaced /\ Twins /\ Step => Twins'
<1> SUFFICES ASSUME Known, DiskIsPlaced, Twins, Step, ~WasRenamed' PROVE Twins'
  BY DEF Twins, Copied
<1>0. CASE Rename
  <2>1. pc = "rename" /\ UNCHANGED <<was, job>>
    BY <1>0 DEF Rename, PushAndGoto, Abort
  <2> QED
    BY <2>1, SameTerms DEF Known, EntryInv, RouteIsKnown
<1>1. CASE Read \/ Plan \/ ListRanges \/ CreateTarget \/ DiscardCopy
  <2>1. /\ pc \in {"enumerate", "plan"} \cup BeforeTransfer
        /\ undo' = undo /\ pc' \notin {"base", "vhd", "boot"}
    BY <1>1 DEF Read, Enumerate, Plan, RefuseIfRunning, VolumeRefuses, Accept, Finish,
                ListRanges, CreateTarget, DiscardCopy, Goto, Abort, BeforeTransfer, machine
  <2>2. Len(undo) = 0
    BY <2>1 DEF Known, EntryInv, EntryIsKnown
  <2>3. ~(Len(undo') > 0)
    BY <2>1, <2>2
  <2> QED
    BY <2>1, <2>3 DEF Twins, Copied
<1>2. CASE CopyBytes
  <2>1. /\ pc = "copying" /\ UNCHANGED <<was, job>> /\ pc' \in {"base", "discard"}
        /\ pc' = "base" =>
              \E since \in SUBSET (files[Source].data \ seen) :
                 files' = [files EXCEPT ![Target] =
                             [@ EXCEPT !.data = (files[Source].data \cap seen) \cup since,
                                       !.whole = files[Source].whole]]
    BY <1>2 DEF CopyBytes, Goto, PushAndGoto
  <2>2. /\ Source # Target /\ files[Target] \in Disk /\ Source \in Path /\ Target \in Path
        /\ files \in [Path -> Disk \cup {NoFile}]
    BY <2>1, EndsArePaths
       DEF Known, Solid, HandlesAreCopy, Exists, TypeOK, MachineTypeOK
  <2>3. pc' = "base" => files'[Target].whole = files[Source].whole
                        /\ files'[Source] = files[Source]
    BY <2>1, <2>2 DEF Disk
  <2> QED
    BY <2>1, <2>3, SameTerms DEF Twins, Copied
<1>3. CASE RepointBase \/ RepointVhd \/ ProveItBoots
  <2>1. pc \in {"base", "vhd", "boot"} /\ UNCHANGED <<files, was, job>>
    BY <1>3 DEF RepointBase, RepointVhd, ProveItBoots, SmokeTest, WriteBase, WriteVhd, Abort,
                Goto, PushAndGoto
  <2> QED
    BY <2>1, SameTerms DEF Twins, Copied
<1>4. CASE DeleteSource \/ VerifyFile \/ VerifyRegistry
  BY <1>4 DEF DeleteSource, VerifyFile, VerifyRegistry, VerifyBase, Goto, Finish, Twins, Copied
<1>5. CASE Unwind(job.distro, Source, Target) /\ UNCHANGED <<job, seen>>
  <2>1. pc = "undo" /\ Len(undo) > 0 /\ pc' = "undo" /\ UNCHANGED <<was, job>>
        /\ files' \in {files, UndoneFiles(Source, Target)}
    BY <1>5 DEF Unwind
  <2>2. Len(undo') > 0 => files' = files
    BY <1>5, <2>1, UndoneLast
  <2> QED
    BY <2>1, <2>2, SameTerms DEF Twins, Copied
<1>6. CASE RolledBack
  BY <1>6 DEF RolledBack, Twins, Copied
<1> QED
  BY <1>0, <1>1, <1>2, <1>3, <1>4, <1>5, <1>6 DEF Step, Rollback

(* So does everybody else.                                                 *)
LEMMA TwinsKept ==
    ASSUME Known, DiskIsPlaced, Twins,
           \/ Environment
           \/ Killed /\ UNCHANGED <<job, seen>>
           \/ UNCHANGED vars
    PROVE  Twins'
<1>1. CASE Killed
  BY <1>1 DEF Killed, Twins, Copied
<1>2. CASE ~Killed
  <2>1. UNCHANGED <<pc, was, undo, job>>
    BY <1>2 DEF Environment, vars, control
  <2>2. /\ Source' = Source /\ Target' = Target /\ WasRenamed' = WasRenamed
        /\ Source \in Path /\ Target \in Path
    BY <2>1, SameTerms, EndsArePaths DEF Known, Solid
  <2>3. pc \in {"base", "vhd", "boot"} \/ (pc = "undo" /\ Len(undo) > 0) =>
           Exists(Target) /\ (WasRenamed \/ Exists(Source))
    BY DEF DiskIsPlaced, Transferred
  <2>4. Exists(Target) => files'[Target].whole = files[Target].whole
    BY <2>2, FilesPersist
  <2>5. Exists(Source) => files'[Source].whole = files[Source].whole
    BY <2>2, FilesPersist
  <2> QED
    BY <2>1, <2>2, <2>3, <2>4, <2>5 DEF Twins, Copied
<1> QED
  BY <1>1, <1>2

(* Where the entry resolves to, by what it says.                           *)
LEMMA HomeIsAnEnd ==
    ASSUME Known
    PROVE  /\ registry[job.distro] = was => Home(job.distro) = Source
           /\ registry[job.distro] = Repointed => Home(job.distro) = Target
BY RepointedHome DEF Home, Source

(* No step of a copying move leaves the entry naming no whole disk.        *)
LEMMA NeverDangles ==
    ASSUME Known, DiskIsPlaced, Twins, Step, ~WasRenamed, unrestored' = {}, HomeIsWhole
    PROVE  HomeIsWhole'
<1> DEFINE d == job.distro
<1>1. /\ d \in Distro /\ registry \in [Distro -> Entry] /\ was \in Entry
      /\ files \in [Path -> Disk \cup {NoFile}]
      /\ Home(d) \in Path /\ Source \in Path /\ Target \in Path
  BY EndsArePaths DEF Known, Solid, TypeOK, MachineTypeOK, ControlTypeOK, Job
<1>2. ASSUME UNCHANGED <<files, registry, job>> PROVE HomeIsWhole'
  BY <1>2 DEF HomeIsWhole, Home, Exists
<1>3. ASSUME NEW p \in {Source, Target}, p # Home(d), UNCHANGED <<registry, job>>,
             \A q \in Path : q # p => files'[q] = files[q]
      PROVE  HomeIsWhole'
  <2>1. Home(d)' = Home(d) /\ files'[Home(d)] = files[Home(d)]
    BY <1>1, <1>3 DEF Home
  <2> QED
    BY <1>3, <2>1 DEF HomeIsWhole, Exists
<1>4. CASE Read \/ Plan \/ ListRanges \/ ProveItBoots \/ VerifyFile \/ VerifyRegistry
  BY <1>2, <1>4 DEF Read, Enumerate, Plan, ListRanges, ProveItBoots, VerifyFile,
                    VerifyRegistry, machine
<1>5. CASE Rename
  BY <1>5 DEF Rename, Known, EntryInv, RouteIsKnown
<1>6. CASE CreateTarget \/ CopyBytes \/ DiscardCopy
  <2>1. /\ pc \in {"create", "copying", "discard"} /\ UNCHANGED <<registry, job>>
        /\ \A q \in Path : q # Target => files'[q] = files[q]
    BY <1>1, <1>6 DEF CreateTarget, CopyBytes, DiscardCopy, Removed
  <2>2. registry[d] = was /\ Source # Target
    BY <2>1 DEF Known, EntryInv, EntryIsKnown, BeforeTransfer, DiskIsPlaced, Transferred
  <2> QED
    BY <1>3, <2>1, <2>2, HomeIsAnEnd
<1>7. CASE DeleteSource
  <2>1. /\ pc = "delete" /\ UNCHANGED <<registry, job>>
        /\ \A q \in Path : q # Source => files'[q] = files[q]
    BY <1>1, <1>7 DEF DeleteSource, Removed
  <2>2. registry[d] = Repointed /\ Source # Target
    BY <2>1 DEF Known, EntryInv, EntryIsKnown, Committed, DiskIsPlaced, Transferred
  <2> QED
    BY <1>3, <2>1, <2>2, HomeIsAnEnd
<1>8. CASE RepointBase
  <2>1. /\ pc = "base" /\ UNCHANGED <<files, job, was>>
        /\ \/ registry' = registry
           \/ registry' = [registry EXCEPT ![d].base = IntendedBase]
    BY <1>8 DEF RepointBase, WriteBase, Abort, PushAndGoto
  <2>2. registry[d] = was /\ Exists(Target) /\ (files[Target].whole <=> files[Source].whole)
    BY <2>1 DEF Known, EntryInv, EntryIsKnown, DiskIsPlaced, Transferred, Twins, Copied
  <2>3. CASE registry' = [registry EXCEPT ![d].base = IntendedBase]
    <3>1. registry'[d] = Repointed
      BY <1>1, <2>2, <2>3 DEF Repointed
    <3>2. Home(d)' = Target
      <4>1. Resolve(Repointed) = Target
        BY <1>1 DEF Known, Solid, TypeOK, Job, Repointed, IntendedBase, Entry, BasePath,
                    Resolve, Target, Source
      <4> QED
        BY <2>1, <3>1, <4>1 DEF Home
    <3> QED
      BY <2>1, <2>2, <3>2, HomeIsAnEnd DEF HomeIsWhole, Exists
  <2> QED
    BY <1>2, <2>1, <2>3
<1>9. CASE RepointVhd
  <2>1. /\ pc = "vhd" /\ UNCHANGED <<files, job>>
        /\ \/ registry' = registry
           \/ was.vhd # NoVhdName /\ registry' = [registry EXCEPT ![d].vhd = Target[2]]
    BY <1>9 DEF RepointVhd, WriteVhd
  <2>2. was.vhd # NoVhdName => Target[2] = registry[d].vhd
    BY <1>1, <2>1 DEF Known, EntryInv, EntryIsKnown, Repointed, Entry, Target, Source, Resolve
  <2>3. registry' = registry
    BY <1>1, <2>1, <2>2, SameVhd
  <2> QED
    BY <1>2, <2>1, <2>3
<1>10. CASE Unwind(d, Source, Target) /\ UNCHANGED <<job, seen>>
  <2>1. /\ pc = "undo" /\ Len(undo) > 0 /\ UNCHANGED <<was, job>>
        /\ unrestored = {}
        /\ files' = UndoneFiles(Source, Target) /\ registry' = UndoneRegistry(d)
    BY <1>10 DEF Unwind
  <2>2. /\ registry[d] \in {was, Repointed}
        /\ Len(undo) = 1 => registry[d] = was
    <3>1. Len(undo) = 1 => Len(undo) <= 1
      OBVIOUS
    <3>2. EntryIsKnown /\ "base" \notin unrestored
      BY <2>1 DEF Known, EntryInv
    <3> QED
      BY <2>1, <3>1, <3>2 DEF EntryIsKnown
  <2>3. /\ Source # Target /\ Exists(Source) /\ Exists(Target)
        /\ files[Target].whole <=> files[Source].whole
    BY <2>1 DEF DiskIsPlaced, Transferred, Twins, Copied
  <2>4. CASE Len(undo) = 1
    <3>1. TopUndo = "removeCopy"
      BY <2>4, StackShape DEF Known, Solid, TypeOK, EntryInv, TopUndo, TransferUndo
    <3>2. /\ registry' = registry
          /\ \A q \in Path : q # Target => files'[q] = files[q]
      BY <1>1, <1>10, <2>1, <2>4, <3>1, UndoneLast DEF UndoneFiles, Removed
    <3> QED
      BY <1>3, <2>1, <2>2, <2>3, <2>4, <3>2, HomeIsAnEnd
  <2>5. CASE Len(undo) = 2
    <3>1. files' = files /\ registry' = [registry EXCEPT ![d].base = was.base]
      BY <1>10, <2>1, <2>5, UndoneLast
    <3>2. registry'[d] = was
      BY <1>1, <2>2, <3>1 DEF Entry, Repointed
    <3>3. Home(d)' = Source
      BY <2>1, <3>2 DEF Home, Source
    <3>4. Home(d) \in {Source, Target}
      BY <2>2, HomeIsAnEnd
    <3> QED
      BY <2>1, <2>3, <3>1, <3>3, <3>4 DEF HomeIsWhole, Exists
  <2>6. CASE Len(undo) = 3
    BY <1>2, <1>10, <2>1, <2>6, UndoneLast
  <2> QED
    BY <1>10, <2>4, <2>5, <2>6, UndoneLast
<1>11. CASE RolledBack /\ UNCHANGED <<job, seen>>
  BY <1>2, <1>11 DEF RolledBack, machine
<1> QED
  BY <1>4, <1>5, <1>6, <1>7, <1>8, <1>9, <1>10, <1>11 DEF Step, Rollback

(* A move that copies never leaves the entry naming no complete disk: not  *)
(* between two steps, not half way through a rollback, and whoever starts  *)
(* the distribution or writes to the two paths meanwhile.                  *)
THEOREM MoveNeverDangles == Spec => CopyNeverDangles
<1> DEFINE Ok == ~WasRenamed /\ unrestored' = {} /\ HomeIsWhole => HomeIsWhole'
<1>1. Init => Twins
  BY DEF Init, ControlInit, Twins, Copied
<1>2. Known /\ DiskIsPlaced /\ Twins /\ [Next]_vars => Twins'
  BY TwinsStep, TwinsKept DEF Next
<1>3. Known /\ DiskIsPlaced /\ Twins /\ Next => Ok
  <2>1. ASSUME Known, Environment \/ (Killed /\ UNCHANGED <<job, seen>>), HomeIsWhole
        PROVE  HomeIsWhole'
    <3>1. Home(job.distro)' = Home(job.distro) /\ Home(job.distro) \in Path
      BY <2>1, EndsArePaths
         DEF Environment, MachineNext, StartGuest, StopGuest, VmIdlesOut, GuestWrites,
             StrayAppears, Killed, Home, Known, Solid, TypeOK, Job
    <3> QED
      BY <2>1, <3>1, FilesPersist DEF HomeIsWhole, Exists
  <2> QED
    BY <2>1, NeverDangles DEF Next
<1>4. Solid /\ EntryInv => Known
  BY DEF Known
<1> HIDE DEF Ok
<1>5. CopyNeverDangles <=> [][Ok]_vars
  BY DEF CopyNeverDangles, Ok
<1> QED
  BY <1>1, <1>2, <1>3, <1>4, <1>5, MovePlacesTheDisk, MoveIsSolid, MoveEntryInv, PTL DEF Spec

----------------------------------------------------------------------------
(* A move is a relocation.  Who can be writing to the disk being moved: a  *)
(* distribution runs from where its entry says, and until the command has  *)
(* ended no other distribution's entry names a disk of this one.           *)
OwnDisks ==
    /\ \A g \in Distro : g # job.distro => guest[g] \in {Off, Home(g)}
    /\ Settled => guest[job.distro] \in {Off, Home(job.distro)}
    /\ Settled /\ ~Committed =>
          \A g \in Distro : g # job.distro /\ Exists(Home(g)) /\ files[Home(g)].whole =>
              files[Home(g)].of # job.distro
    /\ pc \notin {"enumerate", "plan"} =>
          \A g \in Distro : g # job.distro /\ Home(g) # Target /\ Exists(Home(g)) =>
              files[Home(g)].of # job.distro

(* Disks hold nothing but what was written to their filesystem, and what a *)
(* rollback leaves undone is at most the transfer.                         *)
DataIsWritten == \A p \in Path : Exists(p) => files[p].data \subseteq written[files[p].of]

Undoes == ~MayFail("restore")

TransferOnly == unrestored \subseteq {"moveBack", "removeCopy"}

(* Registry writes are always undone if undoing them cannot fail.          *)
LEMMA TransferOnlyStep ==
    Undoes /\ Known /\ TransferOnly /\ [Next]_vars => TransferOnly'
<1> SUFFICES ASSUME Undoes, Known, TransferOnly, [Next]_vars PROVE TransferOnly'
  OBVIOUS
<1>1. CASE Unwind(job.distro, Source, Target)
  <2>1. unrestored' = unrestored \/ TopUndo \in {"moveBack", "removeCopy"}
    BY <1>1 DEF Unwind, Undoes, UndoPossible
  <2>2. unrestored' \in {unrestored, unrestored \cup {TopUndo}}
    BY <1>1 DEF Unwind
  <2> QED
    BY <2>1, <2>2 DEF TransferOnly
<1>2. CASE RolledBack \/ Killed \/ Environment \/ UNCHANGED vars
  BY <1>2 DEF RolledBack, Killed, Environment, vars, control, TransferOnly
<1>3. CASE Read \/ Plan \/ Rename \/ ListRanges \/ CreateTarget \/ CopyBytes \/ DiscardCopy
  BY <1>3 DEF Read, Enumerate, Plan, RefuseIfRunning, VolumeRefuses, Accept, Finish, Rename,
              ListRanges, CreateTarget, CopyBytes, DiscardCopy, Goto, Abort, PushAndGoto,
              TransferOnly
<1>4. CASE RepointBase \/ RepointVhd \/ ProveItBoots \/ DeleteSource \/ VerifyFile
           \/ VerifyRegistry
  BY <1>4 DEF RepointBase, RepointVhd, WriteBase, WriteVhd, ProveItBoots, SmokeTest,
              DeleteSource, VerifyFile, VerifyRegistry, VerifyBase, Finish, Goto, Abort,
              PushAndGoto, TransferOnly
<1> QED
  BY <1>1, <1>2, <1>3, <1>4 DEF Next, Step, Rollback

(* What a step of the command can change: the files at the two ends, the   *)
(* entry of the distribution being moved and where that one runs.          *)
LEMMA StepTouches ==
    ASSUME Known, Step
    PROVE  /\ \A q \in Path : q \notin {Source, Target} => files'[q] = files[q]
           /\ \A g \in Distro : g # job.distro =>
                 guest'[g] = guest[g] /\ registry'[g] = registry[g] /\ Home(g)' = Home(g)
           /\ job' = job /\ written' = written
           /\ pc # "enumerate" => was' = was
           /\ pc # "boot" => guest' = guest
<1>1. /\ files \in [Path -> Disk \cup {NoFile}] /\ registry \in [Distro -> Entry]
      /\ guest \in [Distro -> Path \cup {Off}] /\ job.distro \in Distro
      /\ Source \in Path /\ Target \in Path
  BY EndsArePaths DEF Known, Solid, TypeOK, MachineTypeOK, Job
<1>2. /\ \A q \in Path : q \notin {Source, Target} => files'[q] = files[q]
      /\ \A g \in Distro : g # job.distro =>
            guest'[g] = guest[g] /\ registry'[g] = registry[g]
      /\ job' = job /\ written' = written
      /\ pc # "enumerate" => was' = was
      /\ pc # "boot" => guest' = guest
  <2>1. CASE Read \/ Plan \/ ListRanges \/ VerifyFile \/ VerifyRegistry
    BY <2>1 DEF Read, Enumerate, Plan, RefuseIfRunning, VolumeRefuses, Accept, ListRanges,
                VerifyFile, VerifyRegistry, VerifyBase, Finish, Goto, Abort, machine
  <2>2. CASE Rename \/ CreateTarget \/ CopyBytes \/ DiscardCopy \/ DeleteSource
    BY <1>1, <2>2 DEF Rename, CreateTarget, CopyBytes, DiscardCopy, DeleteSource, Renamed,
                      Removed, Goto, Abort, PushAndGoto
  <2>3. CASE RepointBase \/ RepointVhd
    BY <1>1, <2>3 DEF RepointBase, RepointVhd, WriteBase, WriteVhd, Goto, Abort, PushAndGoto
  <2>4. CASE ProveItBoots
    <3>1. guest' = guest \/ guest' = [guest EXCEPT ![job.distro] = Home(job.distro)]
      BY <2>4 DEF ProveItBoots, SmokeTest, RunsIn, CannotRunIn, MayHaveRunIn, Boot
    <3> QED
      BY <1>1, <2>4, <3>1 DEF ProveItBoots, SmokeTest, Abort
  <2>5. CASE Unwind(job.distro, Source, Target) /\ UNCHANGED <<job, seen>>
    <3>1. /\ files' \in {files, UndoneFiles(Source, Target)}
          /\ registry' \in {registry, UndoneRegistry(job.distro)}
          /\ UNCHANGED <<guest, written, was, job>>
      BY <2>5 DEF Unwind
    <3>2. \A q \in Path : q \notin {Source, Target} =>
             UndoneFiles(Source, Target)[q] = files[q]
      <4>1. UndoneFiles(Source, Target)
               \in {files, Renamed(Target, Source), Removed(Target)}
        BY DEF UndoneFiles
      <4> QED
        BY <1>1, <4>1 DEF Renamed, Removed
    <3>3. \A g \in Distro : g # job.distro =>
             UndoneRegistry(job.distro)[g] = registry[g]
      <4>1. UndoneRegistry(job.distro)
               \in {registry, [registry EXCEPT ![job.distro].base = was.base],
                    [registry EXCEPT ![job.distro].vhd = was.vhd]}
        BY DEF UndoneRegistry
      <4> QED
        BY <1>1, <4>1
    <3> QED
      BY <3>1, <3>2, <3>3
  <2>6. CASE RolledBack /\ UNCHANGED <<job, seen>>
    BY <2>6 DEF RolledBack, machine
  <2> QED
    BY <2>1, <2>2, <2>3, <2>4, <2>5, <2>6 DEF Step, Rollback
<1>3. \A g \in Distro : g # job.distro => Home(g)' = Home(g)
  BY <1>2 DEF Home
<1> QED
  BY <1>2, <1>3

(* Until enumerate() has read the entry, what is taken for it is it.       *)
EntryUnread == pc = "enumerate" => was = registry[job.distro]

(* A step of the command removes the target only as a copy of the source   *)
(* or in moving it back to where nothing is.                               *)
LEMMA StrayStays ==
    ASSUME ~StrangersWrite, Known, DiskIsPlaced, EntryUnread, Step,
           Exists(Source), files[Source].of # Stray, Exists(Target), files[Target].of = Stray
    PROVE  Exists(Target)'
<1>1. /\ Source \in Path /\ Target \in Path /\ files \in [Path -> Disk \cup {NoFile}]
      /\ ControlTypeOK
  BY EndsArePaths DEF Known, Solid, TypeOK, MachineTypeOK
<1>2. job' = job /\ was' = was /\ Target' = Target
  <2>1. job' = job /\ (pc # "enumerate" => was' = was)
    BY StepTouches
  <2>2. pc = "enumerate" => was' = was
    BY DEF EntryUnread, Step, Read, Enumerate, Plan, Rename, ListRanges, CreateTarget, CopyBytes,
           DiscardCopy, RepointBase, RepointVhd, ProveItBoots, DeleteSource, VerifyFile,
           VerifyRegistry, Rollback, Unwind, RolledBack
  <2> QED
    BY <2>1, <2>2, SameTerms
<1>3. CASE UNCHANGED files
  BY <1>2, <1>3 DEF Exists
<1>4. CASE Rename \/ CreateTarget
  <2>1. UNCHANGED files
    BY <1>4 DEF Rename, CreateTarget, CanRename
  <2> QED
    BY <1>3, <2>1
<1>5. CASE CopyBytes
  <2>1. pc = "copying" /\ Exists(Target) => files[Target].of = files[Source].of
    BY DEF DiskIsPlaced, PartOfCopy, Vacant
  <2> QED
    BY <1>5, <2>1 DEF CopyBytes
<1>6. CASE DiscardCopy
  <2>1. pc = "discard" /\ Exists(Target) => files[Target].of = files[Source].of
    BY DEF DiskIsPlaced, PartOfCopy, Vacant
  <2> QED
    BY <1>6, <2>1 DEF DiscardCopy
<1>7. CASE DeleteSource
  <2>1. Source # Target
    BY <1>7 DEF DeleteSource, DiskIsPlaced, Transferred
  <2>2. files'[Target] = files[Target]
    BY <1>1, <1>7, <2>1 DEF DeleteSource, Removed
  <2> QED
    BY <1>2, <2>2 DEF Exists
<1>8. CASE Unwind(job.distro, Source, Target)
  <2>1. Transferred
    BY <1>8 DEF Unwind, DiskIsPlaced
  <2> QED
    BY <2>1 DEF Transferred, Vacant
<1> QED
  BY <1>3, <1>4, <1>5, <1>6, <1>7, <1>8
     DEF Step, Read, Enumerate, Plan, ListRanges, RepointBase, RepointVhd, ProveItBoots, VerifyFile,
         VerifyRegistry, Rollback, RolledBack, machine

(* A disk of nobody's that has come to be at the target stays there: for   *)
(* every layout of the disks, every job, whatever fails and whoever uses   *)
(* the distribution, unless it came there while the command was at work.   *)
THEOREM MoveSparesStrays == ~StrangersWrite /\ Spec => StraysSurvive
<1> DEFINE Ok == (Exists(Source) /\ files[Source].of # Stray
                  /\ Exists(Target) /\ files[Target].of = Stray) => Exists(Target)'
<1>1. Init => EntryUnread
  BY DEF Init, ControlInit, EntryUnread
<1>2. Known /\ EntryUnread /\ [Next]_vars => EntryUnread'
  <2> SUFFICES ASSUME Known, EntryUnread, [Next]_vars, pc' = "enumerate"
               PROVE  was' = registry'[job'.distro]
    BY DEF EntryUnread
  <2>1. CASE Step
    BY <2>1 DEF Step, Read, Enumerate, Plan, RefuseIfRunning, VolumeRefuses, Accept, Rename,
                ListRanges, CreateTarget, CopyBytes, DiscardCopy, RepointBase, RepointVhd, WriteBase,
                WriteVhd, ProveItBoots, SmokeTest, DeleteSource, VerifyFile, VerifyRegistry,
                VerifyBase, Rollback, Unwind, RolledBack, Finish, Abort, Goto, PushAndGoto
  <2>2. CASE Killed
    BY <2>2 DEF Killed
  <2>3. CASE Environment \/ UNCHANGED vars
    <3>1. UNCHANGED <<pc, was, job, registry>>
      BY <2>3 DEF Environment, MachineNext, StartGuest, StopGuest, VmIdlesOut, GuestWrites,
                  StrayAppears, vars, control, machine
    <3> QED
      BY <3>1 DEF EntryUnread
  <2> QED
    BY <2>1, <2>2, <2>3 DEF Next
<1>3. ~StrangersWrite /\ Known /\ DiskIsPlaced /\ EntryUnread /\ Next => Ok
  <2>1. ASSUME Known, Environment \/ (Killed /\ UNCHANGED <<job, seen>>), Exists(Target)
        PROVE  Exists(Target)'
    <3>1. UNCHANGED <<was, job>> /\ Target \in Path
      BY <2>1, EndsArePaths DEF Environment, Killed, control, Known, Solid
    <3> QED
      BY <2>1, <3>1, FilesPersist, SameTerms DEF Exists
  <2> QED
    BY <2>1, StrayStays DEF Next
<1>4. Solid /\ EntryInv => Known
  BY DEF Known
<1> HIDE DEF Ok
<1>5. StraysSurvive <=> [][Ok]_vars
  BY DEF StraysSurvive, Ok
<1>6. ~StrangersWrite => (~StrangersWrite)'
  OBVIOUS
<1> QED
  BY <1>1, <1>2, <1>3, <1>4, <1>5, <1>6, MovePlacesTheDisk, MoveIsSolid, MoveEntryInv, PTL
     DEF Spec

(* A file the command makes holds at most what its original holds.         *)
LEMMA DataStep == Known /\ FilesInv /\ DataIsWritten /\ Step => DataIsWritten'
<1> SUFFICES ASSUME Known, FilesInv, DataIsWritten, Step PROVE DataIsWritten'
  OBVIOUS
<1>1. /\ files \in [Path -> Disk \cup {NoFile}] /\ written' = written
      /\ Source \in Path /\ Target \in Path
  BY EndsArePaths, StepTouches DEF Known, Solid, TypeOK, MachineTypeOK
<1>2. \A p \in Path : Exists(p)' =>
         \/ files'[p].data = {}
         \/ \E q \in Path : /\ Exists(q) /\ files'[p].of = files[q].of
                            /\ files'[p].data \subseteq files[q].data
  <2>1. CASE files' \in {files, Renamed(Source, Target), Renamed(Target, Source),
                         Removed(Source), Removed(Target)}
    BY <1>1, <2>1 DEF Renamed, Removed, Exists
  <2>2. CASE CreateTarget
    <3> DEFINE new == [of |-> files[Source].of, data |-> {}, whole |-> FALSE]
    <3>1. files' = files \/ files' = [files EXCEPT ![Target] = new]
      BY <2>2 DEF CreateTarget
    <3>2. new.data = {}
      OBVIOUS
    <3> HIDE DEF new
    <3> QED
      BY <1>1, <3>1, <3>2 DEF Exists
  <2>3. CASE CopyBytes
    <3>1. pc = "copying" /\
          (\/ files' = files
           \/ \E since \in SUBSET (files[Source].data \ seen) :
                 files' = [files EXCEPT ![Target] =
                             [@ EXCEPT !.data = (files[Source].data \cap seen) \cup since,
                                       !.whole = files[Source].whole]])
      BY <2>3 DEF CopyBytes
    <3>2. Exists(Source) /\ Exists(Target) /\ files[Target].of = files[Source].of
      BY <3>1 DEF FilesInv, DiskIsKnown, DiskIsPlaced, PartOfCopy
    <3>3. files[Target] \in Disk
      BY <1>1, <3>2 DEF Exists
    <3>4. ASSUME NEW since \in SUBSET (files[Source].data \ seen),
                 files' = [files EXCEPT ![Target] =
                             [@ EXCEPT !.data = (files[Source].data \cap seen) \cup since,
                                       !.whole = files[Source].whole]]
          PROVE  /\ files'[Target].of = files[Source].of
                 /\ files'[Target].data \subseteq files[Source].data
                 /\ \A q \in Path : q # Target => files'[q] = files[q]
      BY <1>1, <3>2, <3>3, <3>4 DEF Disk
    <3> QED
      BY <1>1, <3>1, <3>2, <3>4 DEF Exists
  <2>4. CASE Rename \/ DiscardCopy \/ DeleteSource
    BY <2>1, <2>4 DEF Rename, DiscardCopy, DeleteSource
  <2>5. CASE Rollback
    BY <2>1, <2>5 DEF Rollback, Unwind, RolledBack, UndoneFiles, machine
  <2>6. CASE Read \/ Plan \/ ListRanges \/ RepointBase \/ RepointVhd \/ ProveItBoots
             \/ VerifyFile \/ VerifyRegistry
    BY <2>1, <2>6 DEF Read, Enumerate, Plan, ListRanges, RepointBase, RepointVhd, ProveItBoots,
                      VerifyFile, VerifyRegistry, machine
  <2> QED
    BY <2>2, <2>3, <2>4, <2>5, <2>6 DEF Step
<1> QED
  BY <1>1, <1>2 DEF DataIsWritten

(* What one write to a disk does to the disks.                             *)
LEMMA OneWrite ==
    ASSUME Known, NEW d \in Distro, NEW w \in Write, GuestWrites(d, w)
    PROVE  LET p == guest[d]
               o == files[p].of
           IN  /\ p \in Path /\ Exists(p) /\ o \in Owner
               /\ files'[p].of = files[p].of /\ files'[p].whole = files[p].whole
               /\ files'[p].data = files[p].data \cup {w} /\ Exists(p)'
               /\ \A q \in Path : q # p => files'[q] = files[q]
               /\ written'[o] = written[o] \cup {w} /\ w \notin written[o]
               /\ \A x \in Owner : x # o => written'[x] = written[x]
<1> DEFINE p == guest[d]
           o == files[p].of
           new == [files[p] EXCEPT !.data = @ \cup {w}]
<1>1. /\ files \in [Path -> Disk \cup {NoFile}] /\ written \in [Owner -> SUBSET Write]
      /\ p \in Path /\ Exists(p) /\ files[p] \in Disk
  BY DEF GuestWrites, Known, Solid, TypeOK, MachineTypeOK, GuestsHoldDisks, Exists
<1>2. /\ new \in Disk /\ new.of = files[p].of /\ new.whole = files[p].whole
      /\ new.data = files[p].data \cup {w} /\ o \in Owner
  BY <1>1 DEF Disk
<1>3. files' = [files EXCEPT ![p] = new] /\ written' = [written EXCEPT ![o] = @ \cup {w}]
      /\ w \notin written[o]
  BY <1>2 DEF GuestWrites
<1>4. files'[p] = new /\ (\A q \in Path : q # p => files'[q] = files[q]) /\ Exists(p)'
  <2> HIDE DEF new
  <2>1. guest' = guest
    BY DEF GuestWrites
  <2> QED
    BY <1>1, <1>2, <1>3, <2>1, WslAssumption DEF Exists
<1>5. /\ written'[o] = written[o] \cup {w}
      /\ \A x \in Owner : x # o => written'[x] = written[x]
  BY <1>1, <1>2, <1>3
<1> QED
  BY <1>1, <1>2, <1>3, <1>4, <1>5

(* What a step that is not the command's can do: one distribution starts,  *)
(* one writes, a stranger's disk appears, or guests stop and disks are let *)
(* go.                                                                     *)
LEMMA OtherSteps ==
    ASSUME Alone, Known,
           \/ Environment
           \/ Killed /\ UNCHANGED <<job, seen>>
           \/ UNCHANGED vars
    PROVE  /\ registry' = registry /\ job' = job /\ was' = was
           /\ undo' = undo /\ unrestored' = unrestored /\ pc' \in {pc, "killed"}
           /\ \/ \E d \in InUserHands \cap Distro, w \in Write : GuestWrites(d, w) /\ pc' = pc
              \/ \E x \in Path : StrayAppears(x) /\ pc' = pc
              \/ /\ files' = files /\ written' = written
                 /\ \A g \in Distro : \/ guest'[g] \in {guest[g], Off}
                                      \/ guest'[g] = Home(g) /\ g \in InUserHands
                                         /\ pc' = pc
<1>1. /\ guest \in [Distro -> Path \cup {Off}] /\ InUserHands \subseteq Distro
      /\ FreePaths \subseteq Path
  BY DEF Known, Solid, TypeOK, MachineTypeOK, FreePaths, InUserHands
<1>2. CASE Environment
  <2>1. UNCHANGED <<pc, was, undo, unrestored, job>>
    BY <1>2 DEF Environment, control
  <2>2. CASE \E d \in InUserHands : StartGuest(d)
    BY <1>1, <2>1, <2>2 DEF StartGuest, Boot
  <2>3. CASE \E d \in InUserHands : \E w \in Write : GuestWrites(d, w)
    BY <1>1, <2>1, <2>3 DEF GuestWrites
  <2>4. CASE (\E d \in Distro : StopGuest(d)) \/ VmIdlesOut
    BY <1>1, <2>1, <2>4 DEF StopGuest, VmIdlesOut
  <2>5. CASE \E x \in FreePaths : StrayAppears(x)
    BY <1>1, <2>1, <2>5 DEF StrayAppears
  <2> QED
    BY <1>1, <1>2, <2>2, <2>3, <2>4, <2>5 DEF Environment, MachineNext
<1>3. CASE Killed /\ UNCHANGED <<job, seen>>
  BY <1>3 DEF Killed
<1>4. CASE UNCHANGED vars
  BY <1>4 DEF vars, machine, control
<1> QED
  BY <1>2, <1>3, <1>4

(* A stranger's disk fills a free place, and holds nothing written.        *)
LEMMA OneStray ==
    ASSUME Known, NEW x \in Path, StrayAppears(x)
    PROVE  /\ ~Exists(x) /\ Exists(x)' /\ files'[x].of = Stray /\ files'[x].data = {}
           /\ \A q \in Path : q # x => files'[q] = files[q]
           /\ UNCHANGED <<registry, guest, written>>
<1>1. Fresh(Stray) \in Disk /\ Fresh(Stray).of = Stray /\ Fresh(Stray).data = {}
  BY DEF Fresh, Disk, Owner
<1>2. files' = [files EXCEPT ![x] = Fresh(Stray)] /\ files \in [Path -> Disk \cup {NoFile}]
  BY DEF StrayAppears, Known, Solid, TypeOK, MachineTypeOK
<1>3. files'[x] = Fresh(Stray) /\ \A q \in Path : q # x => files'[q] = files[q]
  BY <1>2
<1> QED
  BY <1>1, <1>3, WslAssumption DEF StrayAppears, Exists

(* A guest writes to the disk and to its record at once.                   *)
LEMMA DataKept ==
    ASSUME Alone, Known, DataIsWritten,
           \/ Environment
           \/ Killed /\ UNCHANGED <<job, seen>>
           \/ UNCHANGED vars
    PROVE  DataIsWritten'
<1>1. files \in [Path -> Disk \cup {NoFile}] /\ written \in [Owner -> SUBSET Write]
  BY DEF Known, Solid, TypeOK, MachineTypeOK
<1>2. CASE files' = files /\ written' = written
  BY <1>2 DEF DataIsWritten, Exists
<1>3. ASSUME NEW d \in Distro, NEW w \in Write, GuestWrites(d, w) PROVE DataIsWritten'
  <2> DEFINE p == guest[d]
             o == files[p].of
  <2>1. /\ p \in Path /\ Exists(p) /\ o \in Owner
        /\ files'[p].of = o
        /\ files'[p].data = files[p].data \cup {w}
        /\ \A q \in Path : q # p => files'[q] = files[q]
        /\ written'[o] = written[o] \cup {w}
        /\ \A x \in Owner : x # o => written'[x] = written[x]
    BY <1>3, OneWrite
  <2> HIDE DEF p, o
  <2> SUFFICES ASSUME NEW q \in Path, files'[q] # NoFile
               PROVE  files'[q].data \subseteq written'[files'[q].of]
    BY DEF DataIsWritten, Exists
  <2>2. CASE q = p
    BY <2>1, <2>2 DEF DataIsWritten, o
  <2>3. CASE q # p
    <3>1. files'[q] = files[q] /\ files[q] \in Disk
      BY <1>1, <2>1, <2>3
    <3>2. files[q].of \in Owner /\ files[q].data \subseteq written[files[q].of]
      BY <3>1 DEF Disk, DataIsWritten, Exists
    <3>3. written[files[q].of] \subseteq written'[files[q].of]
      BY <2>1, <3>2
    <3> QED
      BY <3>1, <3>2, <3>3
  <2> QED
    BY <2>2, <2>3
<1>4. ASSUME NEW x \in Path, StrayAppears(x) PROVE DataIsWritten'
  <2>1. /\ files'[x].data = {} /\ written' = written
        /\ \A q \in Path : q # x => files'[q] = files[q]
    BY <1>4, OneStray
  <2> QED
    BY <2>1 DEF DataIsWritten, Exists
<1> QED
  BY <1>2, <1>3, <1>4, OtherSteps

(* At first no entry names another distribution's disk.                    *)
LEMMA OwnDisksInit == Init => OwnDisks
<1> SUFFICES ASSUME Init PROVE OwnDisks
  OBVIOUS
<1>1. pc = "enumerate" /\ guest = [g \in Distro |-> Off] /\ job.distro \in Distro
  BY DEF Init, MachineInit, ControlInit, Job
<1>2. ASSUME NEW g \in Distro, g # job.distro, Exists(Home(g)), Home(g) \in Path
      PROVE  files[Home(g)].of # job.distro
  <2>1. files[Home(g)] \in {NoFile, Damaged} \cup {Fresh(o) : o \in Wsl2 \cup {Stray}}
    BY <1>2 DEF Init, MachineInit
  <2>2. \A o : Fresh(o).of = o
    BY DEF Fresh
  <2>3. Damaged.of = Stray /\ Stray # job.distro
    BY <1>1, WslAssumption DEF Damaged
  <2>4. job.distro \in Wsl2 => files[Home(g)] # Fresh(job.distro)
    BY <1>1, <1>2 DEF Init, MachineInit
  <2> QED
    BY <1>2, <2>1, <2>2, <2>3, <2>4 DEF Exists
<1>3. \A g \in Distro : Home(g) \in Path
  BY TypeInit, EndsArePaths
<1> QED
  BY <1>1, <1>2, <1>3 DEF OwnDisks, Settled

(* Only the target can become one, and only until the move has ended.      *)
LEMMA OwnDisksStep == Alone /\ Known /\ FilesInv /\ OwnDisks /\ Step => OwnDisks'
<1> SUFFICES ASSUME Alone, Known, FilesInv, OwnDisks, Step PROVE OwnDisks'
  OBVIOUS
<1> DEFINE d == job.distro
<1>0. /\ d \in Distro /\ d # Stray /\ \A g \in Distro : Home(g) \in Path
      /\ Source \in Path /\ Target \in Path
  BY EndsArePaths, WslAssumption DEF Known, Solid, TypeOK, Job
<1>1. /\ \A q \in Path : q \notin {Source, Target} => files'[q] = files[q]
      /\ \A g \in Distro : g # d =>
            guest'[g] = guest[g] /\ registry'[g] = registry[g] /\ Home(g)' = Home(g)
      /\ job' = job
      /\ pc # "enumerate" => was' = was
      /\ pc # "boot" => guest' = guest
  BY StepTouches
<1>2. \A g \in Distro : g # d => guest'[g] \in {Off, Home(g)'}
  BY <1>1 DEF OwnDisks
<1>3. CASE Read
  BY <1>1, <1>2, <1>3
     DEF Read, Enumerate, machine, OwnDisks, Settled, Committed, Exists, Home
<1>4. CASE Plan
  <2>1. /\ pc = "plan" /\ UNCHANGED <<files, registry, guest, was, undo>>
        /\ pc' \in {"ended", "rename", "ranges"}
    BY <1>4 DEF Plan, RefuseIfRunning, VolumeRefuses, Accept, Finish, Goto, machine
  <2>2. Source' = Source /\ Target' = Target /\ Len(undo) = 0 /\ Spare = {}
    BY <1>1, <2>1, SameTerms
       DEF Known, EntryInv, EntryIsKnown, Spare, Doubled
  <2>3. ASSUME NEW g \in Distro, g # d, Exists(Home(g)) PROVE files[Home(g)].of # d
    <3>1. files[Home(g)].of \in Wsl2 => Home(g) \in Live
      BY <1>0, <2>2, <2>3 DEF Live
    <3>2. files[Home(g)].of \in Wsl2 => files[Home(g)].whole
      BY <3>1 DEF FilesInv, LiveAreComplete, HoldsAll
    <3>3. files[Home(g)].of \in Wsl2 \cup {Stray}
      BY <1>0, <2>3 DEF FilesInv, OwnersAreKnown
    <3> QED
      BY <1>0, <2>1, <2>3, <3>2, <3>3 DEF OwnDisks, Settled, Committed
  <2>4. guest[d] \in {Off, Home(d)} /\ Home(d)' = Home(d)
    BY <2>1, <1>1 DEF OwnDisks, Settled, Home
  <2>5. \A g \in Distro : g # d /\ Exists(Home(g))' => files'[Home(g)'].of # d
    BY <1>1, <2>1, <2>3 DEF Exists
  <2> QED
    BY <1>1, <1>2, <2>1, <2>2, <2>4, <2>5 DEF OwnDisks, Settled, Committed
<1>5. CASE pc \notin {"enumerate", "plan"}
  <2>1. Source' = Source /\ Target' = Target /\ pc' \notin {"enumerate", "plan"}
    BY <1>1, <1>5, SameTerms
       DEF Step, Read, Enumerate, Plan, Rename, ListRanges, CreateTarget, CopyBytes,
           DiscardCopy, RepointBase, RepointVhd, WriteBase, WriteVhd, ProveItBoots, SmokeTest,
           DeleteSource, VerifyFile, VerifyRegistry, VerifyBase, Rollback, Unwind, RolledBack,
           Finish, Goto, Abort, PushAndGoto
  <2>2. ASSUME NEW g \in Distro, g # d, Home(g) # Target
        PROVE  files'[Home(g)] = files[Home(g)]
    <3>1. Home(g) # Source
      BY <1>5, <2>2 DEF Known, EntryInv, HomesAreDistinct
    <3> QED
      BY <1>0, <1>1, <2>2, <3>1
  <2>3. \A g \in Distro : g # d /\ Home(g)' # Target' /\ Exists(Home(g))' =>
           files'[Home(g)'].of # d
    BY <1>1, <1>5, <2>1, <2>2 DEF OwnDisks, Exists
  <2>4. CASE ~Settled'
    BY <1>1, <1>2, <2>1, <2>3, <2>4 DEF OwnDisks
  <2>5. CASE Settled'
    <3>1. pc' = "ended" /\ unrestored' = {}
      BY <2>1, <2>5 DEF Settled
    <3>2. VerifyFile \/ VerifyRegistry \/ (RolledBack /\ UNCHANGED <<job, seen>>)
      BY <1>5, <3>1
         DEF Step, Read, Enumerate, Plan, Rename, ListRanges, CreateTarget, CopyBytes,
             DiscardCopy, RepointBase, RepointVhd, WriteBase, WriteVhd, ProveItBoots, SmokeTest,
             DeleteSource, Rollback, Unwind, Goto, Abort, PushAndGoto
    <3>3. UNCHANGED <<files, registry, guest, undo, unrestored>>
      BY <3>2 DEF VerifyFile, VerifyRegistry, VerifyBase, Finish, Goto, RolledBack, machine
    <3>4. CASE VerifyFile \/ VerifyRegistry
      <4>1. pc \in {"verifyFile", "verifyBase"} /\ Committed
        BY <3>4 DEF VerifyFile, VerifyRegistry, Committed
      <4>2. Len(undo) > 0 /\ Home(d) = Target
        BY <4>1, RepointedHome DEF Known, EntryInv, EntryIsKnown
      <4>3. guest[d] \in {Off, Home(d)} /\ Home(d)' = Home(d)
        BY <1>1, <3>3, <4>1, <4>2 DEF FilesInv, GuestsKeepAway, Home
      <4>4. Committed'
        BY <3>1, <3>3, <4>2 DEF Committed
      <4> QED
        BY <1>1, <1>2, <2>1, <2>3, <3>3, <4>3, <4>4 DEF OwnDisks
    <3>5. CASE RolledBack /\ UNCHANGED <<job, seen>>
      <4>1. pc = "undo" /\ Len(undo) = 0 /\ unrestored = {}
        BY <3>1, <3>3, <3>5 DEF RolledBack
      <4>2. guest[d] = Off /\ (Exists(Target) => files[Target].of # d \/ ~files[Target].whole)
        BY <1>0, <4>1
           DEF FilesInv, GuestsKeepAway, DiskIsKnown, DiskIsPlaced, Vacant, PartOfCopy
      <4>3. \A g \in Distro : g # d /\ Exists(Home(g)) /\ files[Home(g)].whole =>
               files[Home(g)].of # d
        BY <1>5, <4>2 DEF OwnDisks
      <4>4. \A g \in Distro : g # d /\ Exists(Home(g))' /\ files'[Home(g)'].whole =>
               files'[Home(g)'].of # d
        BY <1>1, <3>3, <4>3 DEF Exists
      <4> QED
        BY <1>1, <1>2, <2>1, <2>3, <3>3, <4>2, <4>4 DEF OwnDisks
    <3> QED
      BY <3>2, <3>4, <3>5
  <2> QED
    BY <2>4, <2>5
<1>6. pc = "enumerate" => Read
  BY DEF Step, Plan, Rename, ListRanges, CreateTarget, CopyBytes, DiscardCopy,
         RepointBase, RepointVhd, ProveItBoots, DeleteSource, VerifyFile, VerifyRegistry,
         Rollback, Unwind, RolledBack
<1>7. pc = "plan" => Plan
  BY DEF Step, Read, Enumerate, Rename, ListRanges, CreateTarget, CopyBytes, DiscardCopy,
         RepointBase, RepointVhd, ProveItBoots, DeleteSource, VerifyFile, VerifyRegistry,
         Rollback, Unwind, RolledBack
<1> QED
  BY <1>3, <1>4, <1>5, <1>6, <1>7

(* A distribution that starts does so where its entry says.                *)
LEMMA OwnDisksKept ==
    ASSUME Alone, Known, OwnDisks,
           \/ Environment
           \/ Killed /\ UNCHANGED <<job, seen>>
           \/ UNCHANGED vars
    PROVE  OwnDisks'
<1> DEFINE d == job.distro
<1>1. /\ registry' = registry /\ job' = job /\ was' = was
      /\ undo' = undo /\ unrestored' = unrestored /\ pc' \in {pc, "killed"}
  BY OtherSteps
<1>2. /\ Source' = Source /\ Target' = Target /\ \A g \in Distro : Home(g)' = Home(g)
      /\ d \in Distro /\ \A g \in Distro : Home(g) \in Path
  BY <1>1, SameTerms, EndsArePaths DEF Home, Known, Solid, TypeOK, Job
<1>3. /\ Settled' => Settled /\ pc' = pc
      /\ pc' \in {"enumerate", "plan"} <=> pc \in {"enumerate", "plan"}
      /\ pc' = pc => (Committed' <=> Committed)
  <2>1. pc' = "killed" /\ pc # "killed" => pc \notin {"enumerate", "plan"}
    BY DEF Environment, vars, control, Killed
  <2> QED
    BY <1>1, <2>1 DEF Settled, Committed
<1>4. \A q \in Path : files'[q] # NoFile =>
         \/ /\ Exists(q)
            /\ files'[q].of = files[q].of /\ files'[q].whole = files[q].whole
         \/ files'[q].of = Stray
  <2>1. ASSUME \/ Environment
               \/ Killed /\ UNCHANGED <<job, seen>>
               \/ UNCHANGED vars
        PROVE  \A q \in Path : /\ Exists(q) => /\ files'[q].of = files[q].of
                                                /\ files'[q].whole = files[q].whole
                               /\ ~Exists(q) /\ Exists(q)' => files'[q].of = Stray
    BY <2>1, FilesPersist
  <2> QED
    BY <2>1 DEF Exists
<1>5. \A g \in Distro : \/ guest'[g] \in {guest[g], Off}
                        \/ guest'[g] = Home(g) /\ g \in InUserHands
  BY OtherSteps DEF GuestWrites, StrayAppears
<1>6. \A g \in Distro : g # d => guest'[g] \in {Off, Home(g)}
  BY <1>5 DEF OwnDisks
<1>7. Settled' => guest'[d] \in {Off, Home(d)}
  BY <1>2, <1>3, <1>5 DEF OwnDisks
<1>8. Settled' /\ ~Committed' =>
         \A g \in Distro : g # d /\ Exists(Home(g))' /\ files'[Home(g)].whole =>
             files'[Home(g)].of # d
  BY <1>2, <1>3, <1>4, WslAssumption DEF OwnDisks, Exists
<1>9. pc' \notin {"enumerate", "plan"} =>
         \A g \in Distro : g # d /\ Home(g) # Target /\ Exists(Home(g))' =>
             files'[Home(g)].of # d
  BY <1>2, <1>3, <1>4, WslAssumption DEF OwnDisks, Exists
<1> QED
  BY <1>1, <1>2, <1>6, <1>7, <1>8, <1>9 DEF OwnDisks

(* Whoever writes to the disk being moved runs from where its entry says.  *)
LEMMA WritesAtHome ==
    ASSUME Alone, Known, FilesInv, OwnDisks, NEW g \in InUserHands, g \in Distro,
           guest[g] # Off, files[guest[g]].of = job.distro
    PROVE  guest[g] = Home(job.distro) /\ guest[g] \in Live
<1> DEFINE d == job.distro
<1>1. d \in Distro /\ d # Stray
  BY WslAssumption DEF Known, Solid, TypeOK, Job
<1>2. guest[g] \in Live /\ Exists(guest[g]) /\ files[guest[g]].whole
  BY <1>1, WriterIsLive DEF FilesInv, LiveAreComplete, HoldsAll
<1>3. CASE g = d
  BY <1>2, <1>3 DEF InUserHands, Alone, OwnDisks
<1>4. CASE g # d
  <2>1. guest[g] = Home(g)
    BY <1>4 DEF OwnDisks
  <2>2. Settled /\ Committed
    <3>1. ~(Settled /\ ~Committed)
      BY <1>2, <1>4, <2>1 DEF OwnDisks
    <3>2. ~Settled => Home(g) # Target /\ pc \notin {"enumerate", "plan"}
      BY DEF InUserHands, Alone, Settled
    <3> QED
      BY <1>2, <1>4, <2>1, <3>1, <3>2 DEF OwnDisks
  <2>3. Home(d) = Target /\ pc \notin {"enumerate", "plan"}
    BY <2>2, RepointedHome DEF Known, EntryInv, EntryIsKnown, Committed
  <2>4. Home(g) = Target
    BY <1>2, <1>4, <2>1, <2>3 DEF OwnDisks
  <2> QED
    BY <1>2, <2>1, <2>3, <2>4
<1> QED
  BY <1>2, <1>3, <1>4

(* The refinement mapping, and what its steps may do.                      *)
Copies == {p \in Path : HoldsAll(p, job.distro)}
Named == Home(job.distro)

(* The steps of the abstract specification, in terms of the mapping.       *)
LEMMA AsRelocation ==
    ASSUME \/ UNCHANGED <<Copies, Named>>
           \/ \E p \in Path :
                 \/ Copies # {} /\ p \notin Copies /\ Copies' = Copies \cup {p} /\ Named' = Named
                 \/ Named' = p /\ Copies' = Copies
                 \/ Named \in Copies \ {p} /\ Copies' = Copies \ {p} /\ Named' = Named
           \/ \E p, q \in Path :
                 /\ p \in Copies /\ q \notin Copies
                 /\ Copies' = (Copies \ {p}) \cup {q} /\ Named' = Named
           \/ Named \in Copies /\ Copies' = {Named} /\ Named' = Named
    PROVE  [Relocates!Next]_<<Copies, Named>>
BY DEF Relocates!Next, Relocates!Duplicate, Relocates!Carry, Relocates!Repoint,
       Relocates!GiveUp, Relocates!Use, Copies, Named

Relocating == [Relocates!Next]_<<Copies, Named>>

(* While the files stand still, the entry may name another place.          *)
LEMMA CopiesStand ==
    ASSUME UNCHANGED <<files, written, job>>, Named' \in Path
    PROVE  Relocating
<1>1. Copies' = Copies
  BY DEF Copies, HoldsAll, Exists
<1> QED
  BY <1>1, AsRelocation DEF Relocating

(* A file that becomes complete is a copy of one that is.                  *)
LEMMA CopiesAdded ==
    ASSUME NEW x \in Path, x \notin Copies, UNCHANGED <<written, job, registry>>,
           \A q \in Path : q # x => files'[q] = files[q],
           HoldsAll(x, job.distro)' => Copies # {}
    PROVE  Relocating
<1>1. Named' = Named
  BY DEF Named, Home
<1>2. \A q \in Path : q # x => (q \in Copies' <=> q \in Copies)
  BY DEF Copies, HoldsAll, Exists
<1>3. x \in Copies' <=> HoldsAll(x, job.distro)'
  BY DEF Copies
<1>4. Copies \subseteq Path /\ Copies' \subseteq Path
  BY DEF Copies
<1>5. CASE x \in Copies'
  <2>1. Copies' = Copies \cup {x} /\ Copies # {}
    BY <1>2, <1>3, <1>4, <1>5
  <2> QED
    BY <1>1, <2>1, AsRelocation DEF Relocating
<1>6. CASE x \notin Copies'
  <2>1. Copies' = Copies
    BY <1>2, <1>4, <1>6
  <2> QED
    BY <1>1, <2>1, AsRelocation DEF Relocating
<1> QED
  BY <1>5, <1>6

(* A copy is removed only while the entry names another.                   *)
LEMMA CopiesRemoved ==
    ASSUME Known, NEW x \in Path, files' = Removed(x), UNCHANGED <<written, job, registry>>,
           x \in Copies => Named \in Copies \ {x}
    PROVE  Relocating
<1>1. /\ Named' = Named /\ files'[x] = NoFile
      /\ \A q \in Path : q # x => files'[q] = files[q]
  BY DEF Named, Home, Removed, Known, Solid, TypeOK, MachineTypeOK
<1>2. \A q \in Path : q \in Copies' <=> q \in Copies /\ q # x
  BY <1>1 DEF Copies, HoldsAll, Exists
<1>3. Copies' = Copies \ {x}
  BY <1>2 DEF Copies
<1>4. x \notin Copies => Copies' = Copies
  BY <1>3
<1> QED
  BY <1>1, <1>3, <1>4, AsRelocation DEF Relocating

(* Renaming carries a copy along.                                          *)
LEMMA CopiesCarried ==
    ASSUME Known, NEW from \in Path, NEW to \in Path, from # to, ~Exists(to),
           files' = Renamed(from, to), UNCHANGED <<written, job, registry>>
    PROVE  Relocating
<1>1. /\ Named' = Named /\ files'[from] = NoFile /\ files'[to] = files[from]
      /\ \A q \in Path \ {from, to} : files'[q] = files[q]
  BY DEF Named, Home, Renamed, Known, Solid, TypeOK, MachineTypeOK
<1>2. /\ to \notin Copies /\ from \notin Copies'
      /\ to \in Copies' <=> from \in Copies
      /\ \A q \in Path \ {from, to} : q \in Copies' <=> q \in Copies
  BY <1>1 DEF Copies, HoldsAll, Exists
<1>3. Copies \subseteq Path /\ Copies' \subseteq Path
  BY DEF Copies
<1>4. CASE from \in Copies
  <2>1. Copies' = (Copies \ {from}) \cup {to}
    BY <1>2, <1>3, <1>4
  <2> QED
    BY <1>1, <1>2, <1>4, <2>1, AsRelocation DEF Relocating
<1>5. CASE from \notin Copies
  <2>1. Copies' = Copies
    BY <1>2, <1>3, <1>5
  <2> QED
    BY <1>1, <2>1, AsRelocation DEF Relocating
<1> QED
  BY <1>4, <1>5

(* Each step of the command is a step of a relocation, or none.            *)
LEMMA StepRelocates ==
    Undoes /\ Known /\ FilesInv /\ TransferOnly /\ Step => Relocating
<1> SUFFICES ASSUME Undoes, Known, FilesInv, TransferOnly, Step PROVE Relocating
  OBVIOUS
<1> DEFINE d == job.distro
<1>1. /\ d \in Distro /\ d # Stray /\ registry \in [Distro -> Entry] /\ was \in Entry
      /\ files \in [Path -> Disk \cup {NoFile}]
      /\ Home(d) \in Path /\ Source \in Path /\ Target \in Path
  BY EndsArePaths, WslAssumption DEF Known, Solid, TypeOK, MachineTypeOK, ControlTypeOK, Job
<1>2. /\ \A q \in Path : q \notin {Source, Target} => files'[q] = files[q]
      /\ job' = job /\ written' = written
  BY StepTouches
<1>3. ASSUME UNCHANGED <<files, registry>> PROVE Relocating
  <2>1. Named' \in Path
    BY <1>1, <1>2, <1>3 DEF Named, Home
  <2> QED
    BY <1>2, <1>3, <2>1, CopiesStand
<1>4. ASSUME NEW p \in Path, Exists(p), files[p].of = d, p \notin Spare
      PROVE  HoldsAll(p, d)
  <2>1. p \in Live
    BY <1>1, <1>4 DEF FilesInv, OwnersAreKnown, Live
  <2> QED
    BY <1>4, <2>1 DEF FilesInv, LiveAreComplete
<1>5. CASE Read \/ Plan \/ ListRanges \/ ProveItBoots \/ VerifyFile \/ VerifyRegistry
  BY <1>3, <1>5 DEF Read, Enumerate, Plan, ListRanges, ProveItBoots, VerifyFile,
                    VerifyRegistry, machine
<1>6. CASE Rename
  <2>1. UNCHANGED registry /\ (files' = files \/ (CanRename(Source, Target)
                                                  /\ files' = Renamed(Source, Target)))
    BY <1>6 DEF Rename
  <2>2. CanRename(Source, Target) => Source # Target /\ ~Exists(Target)
    BY DEF CanRename
  <2> QED
    BY <1>1, <1>2, <1>3, <2>1, <2>2, CopiesCarried
<1>7. CASE CreateTarget
  <2> DEFINE new == [of |-> files[Source].of, data |-> {}, whole |-> FALSE]
  <2>1. UNCHANGED registry
        /\ (files' = files \/ (~Exists(Target) /\ files' = [files EXCEPT ![Target] = new]))
    BY <1>7 DEF CreateTarget
  <2>2. ~new.whole
    OBVIOUS
  <2> HIDE DEF new
  <2>3. CASE ~Exists(Target) /\ files' = [files EXCEPT ![Target] = new]
    <3>1. /\ Target \notin Copies /\ files'[Target] = new
          /\ \A q \in Path : q # Target => files'[q] = files[q]
      BY <1>1, <2>3 DEF Copies, HoldsAll
    <3>2. Target' = Target
      BY <1>2, <1>7, SameTerms DEF CreateTarget, Goto
    <3>3. \A x \in Path : x = Target => ~HoldsAll(x, d)'
      BY <2>2, <3>1 DEF HoldsAll
    <3> QED
      BY <1>1, <1>2, <2>1, <3>1, <3>3, CopiesAdded
  <2> QED
    BY <1>3, <2>1, <2>3
<1>8. CASE CopyBytes
  <2>1. pc = "copying" /\ UNCHANGED registry
        /\ (files' = files
            \/ \E since \in SUBSET (files[Source].data \ seen) :
                 files' = [files EXCEPT ![Target] =
                             [@ EXCEPT !.data = (files[Source].data \cap seen) \cup since,
                                       !.whole = files[Source].whole]])
    BY <1>8 DEF CopyBytes
  <2>2. /\ Source # Target /\ Exists(Source) /\ Exists(Target)
        /\ files[Target].of = files[Source].of /\ ~files[Target].whole
        /\ files[Target] \in Disk /\ Source \notin Spare
    BY <1>1, <2>1 DEF FilesInv, DiskIsKnown, DiskIsPlaced, PartOfCopy, Exists, Spare, Committed
  <2>3. ASSUME NEW since \in SUBSET (files[Source].data \ seen),
               files' = [files EXCEPT ![Target] =
                             [@ EXCEPT !.data = (files[Source].data \cap seen) \cup since,
                                       !.whole = files[Source].whole]]
        PROVE  Relocating
    <3>1. /\ files'[Target].of = files[Source].of
          /\ \A q \in Path : q # Target => files'[q] = files[q]
      BY <1>1, <2>2, <2>3 DEF Disk
    <3>2. Target \notin Copies
      BY <2>2 DEF Copies, HoldsAll
    <3>3. files[Source].of = d => Copies # {}
      BY <1>1, <1>4, <2>2 DEF Copies
    <3>4. \A x \in Path : x = Target /\ HoldsAll(x, d)' => Copies # {}
      BY <1>2, <3>1, <3>3 DEF HoldsAll
    <3> QED
      BY <1>1, <1>2, <2>1, <3>1, <3>2, <3>4, CopiesAdded
  <2> QED
    BY <1>3, <2>1, <2>3
<1>9. CASE DiscardCopy
  <2>1. pc = "discard" /\ UNCHANGED registry
        /\ (files' = files \/ (CanRemove(Target) /\ files' = Removed(Target)))
    BY <1>9 DEF DiscardCopy
  <2>2. CanRemove(Target) => Target \notin Copies
    BY <1>1, <2>1 DEF FilesInv, DiskIsKnown, DiskIsPlaced, Vacant, PartOfCopy, Copies, HoldsAll
  <2> QED
    BY <1>1, <1>2, <1>3, <2>1, <2>2, CopiesRemoved
<1>10. CASE RepointBase
  <2>1. /\ pc = "base" /\ UNCHANGED files
        /\ \/ registry' = registry
           \/ registry' = [registry EXCEPT ![d].base = IntendedBase]
    BY <1>10 DEF RepointBase, WriteBase
  <2>2. ASSUME registry' = [registry EXCEPT ![d].base = IntendedBase]
        PROVE  Named' = Target
    <3>1. registry'[d] = Repointed
      BY <1>1, <2>1, <2>2 DEF Known, EntryInv, EntryIsKnown, Repointed
    <3>2. Resolve(Repointed) = Target
      BY <1>1 DEF Known, Solid, TypeOK, Job, Repointed, IntendedBase, Entry, BasePath,
                  Resolve, Target, Source
    <3> QED
      BY <1>2, <3>1, <3>2 DEF Named, Home
  <2>3. registry' # registry => Named' \in Path
    BY <1>1, <2>1, <2>2
  <2> QED
    BY <1>2, <1>3, <2>1, <2>3, CopiesStand
<1>11. CASE RepointVhd
  <2>1. /\ pc = "vhd" /\ UNCHANGED files
        /\ \/ registry' = registry
           \/ was.vhd # NoVhdName /\ registry' = [registry EXCEPT ![d].vhd = Target[2]]
    BY <1>11 DEF RepointVhd, WriteVhd
  <2>2. was.vhd # NoVhdName => Target[2] = registry[d].vhd
    BY <1>1, <2>1 DEF Known, EntryInv, EntryIsKnown, Repointed, Entry, Target, Source, Resolve
  <2>3. registry' = registry
    BY <1>1, <2>1, <2>2, SameVhd
  <2> QED
    BY <1>3, <2>1, <2>3
<1>12. CASE DeleteSource
  <2>1. pc = "delete" /\ UNCHANGED registry
        /\ (files' = files \/ (CanRemove(Source) /\ files' = Removed(Source)))
    BY <1>12 DEF DeleteSource
  <2>2. /\ Source # Target /\ Exists(Target) /\ files[Source].of = files[Target].of
        /\ ~WasRenamed /\ Target \notin Spare /\ Named = Target
    BY <2>1, HomeIsAnEnd
       DEF Known, EntryInv, EntryIsKnown, RouteIsKnown, FilesInv, DiskIsKnown, DiskIsPlaced, Transferred,
           Spare, Committed, Named
  <2>3. Source \in Copies => Named \in Copies \ {Source}
    BY <1>1, <1>4, <2>2 DEF Copies, HoldsAll
  <2> QED
    BY <1>1, <1>2, <1>3, <2>1, <2>3, CopiesRemoved
<1>13. CASE Unwind(d, Source, Target) /\ UNCHANGED <<job, seen>>
  <2>1. /\ pc = "undo" /\ Len(undo) > 0
        /\ \/ UNCHANGED <<files, registry>>
           \/ /\ UndoPossible(Source, Target)
              /\ files' = UndoneFiles(Source, Target) /\ registry' = UndoneRegistry(d)
    BY <1>13 DEF Unwind
  <2>2. /\ Source # Target /\ "base" \notin unrestored
        /\ registry[d] \in {was, Repointed}
        /\ Len(undo) = 1 => registry[d] = was
    <3>1. "base" \notin unrestored
      BY DEF TransferOnly
    <3>2. Source # Target
      BY <2>1 DEF FilesInv, DiskIsKnown, DiskIsPlaced, Transferred
    <3>3. registry[d] \in {was, Repointed}
      BY <2>1 DEF Known, EntryInv, EntryIsKnown
    <3>4. Len(undo) = 1 => Len(undo) <= 1
      OBVIOUS
    <3>5. Len(undo) <= 1 => registry[d] = was
      BY <2>1, <3>1 DEF Known, EntryInv, EntryIsKnown
    <3> QED
      BY <3>1, <3>2, <3>3, <3>4, <3>5
  <2>3. CASE /\ Len(undo) = 1 /\ UndoPossible(Source, Target)
             /\ files' = UndoneFiles(Source, Target) /\ registry' = registry
    <3>1. TopUndo = TransferUndo
      BY <2>3, StackShape DEF Known, Solid, TypeOK, EntryInv, TopUndo
    <3>2. CASE WasRenamed
      <4>1. CanRename(Target, Source) /\ files' = Renamed(Target, Source)
        BY <2>3, <3>1, <3>2 DEF TransferUndo, UndoPossible, UndoneFiles
      <4> QED
        BY <1>1, <1>2, <2>2, <2>3, <4>1, CopiesCarried DEF CanRename
    <3>3. CASE ~WasRenamed
      <4>1. CanRemove(Target) /\ files' = Removed(Target)
        BY <2>3, <3>1, <3>3 DEF TransferUndo, UndoPossible, UndoneFiles
      <4>2. /\ Exists(Source) /\ files[Source].of = files[Target].of
            /\ Source \notin Spare /\ Named = Source
        BY <2>1, <2>2, <2>3, <3>3, HomeIsAnEnd
           DEF FilesInv, DiskIsKnown, DiskIsPlaced, Transferred, Spare, Committed, Named
      <4>3. Target \in Copies => Named \in Copies \ {Target}
        BY <1>1, <1>4, <2>2, <4>2 DEF Copies, HoldsAll
      <4> QED
        BY <1>1, <1>2, <2>3, <4>1, <4>3, CopiesRemoved
    <3> QED
      BY <3>2, <3>3
  <2>4. CASE Len(undo) = 2 /\ files' = files
             /\ registry' = [registry EXCEPT ![d].base = was.base]
    <3>1. registry'[d] = was
      BY <1>1, <2>2, <2>4 DEF Entry, Repointed
    <3>2. Named' = Source
      BY <1>2, <3>1 DEF Named, Home, Source
    <3> QED
      BY <1>1, <1>2, <2>4, <3>2, CopiesStand
  <2>5. CASE UNCHANGED <<files, registry>>
    BY <1>3, <2>5
  <2>6. CASE /\ UndoPossible(Source, Target)
             /\ files' = UndoneFiles(Source, Target) /\ registry' = UndoneRegistry(d)
    <3>1. /\ Len(undo) = 1 \/ Len(undo) = 2 \/ Len(undo) = 3
          /\ Len(undo) # 1 => files' = files
          /\ Len(undo) # 2 => registry' = registry
          /\ Len(undo) = 2 => registry' = [registry EXCEPT ![d].base = was.base]
      BY <1>13, <2>6, UndoneLast
    <3>2. CASE Len(undo) = 1
      BY <2>3, <2>6, <3>1, <3>2
    <3>3. CASE Len(undo) = 2
      BY <2>4, <3>1, <3>3
    <3>4. CASE Len(undo) = 3
      BY <2>5, <3>1, <3>4
    <3> QED
      BY <3>1, <3>2, <3>3, <3>4
  <2> QED
    BY <2>1, <2>5, <2>6
<1>14. CASE RolledBack /\ UNCHANGED <<job, seen>>
  BY <1>3, <1>14 DEF RolledBack, machine
<1> QED
  BY <1>5, <1>6, <1>7, <1>8, <1>9, <1>10, <1>11, <1>12, <1>13, <1>14 DEF Step, Rollback

(* Using the distribution leaves the copies it does not run from behind.   *)
LEMMA OtherRelocates ==
    ASSUME Alone, Known, FilesInv, OwnDisks, DataIsWritten,
           \/ Environment
           \/ Killed /\ UNCHANGED <<job, seen>>
           \/ UNCHANGED vars
    PROVE  Relocating
<1> DEFINE d == job.distro
<1>1. /\ d \in Distro /\ d \in Owner /\ Home(d) \in Path /\ registry' = registry /\ job' = job
      /\ files \in [Path -> Disk \cup {NoFile}]
  BY OtherSteps, EndsArePaths DEF Known, Solid, TypeOK, MachineTypeOK, Job, Owner
<1>2. Named' = Named /\ Named \in Path
  BY <1>1 DEF Named, Home
<1>3. CASE files' = files /\ written' = written
  BY <1>1, <1>2, <1>3, CopiesStand
<1>4. ASSUME NEW g \in InUserHands, g \in Distro, NEW w \in Write, GuestWrites(g, w)
      PROVE  Relocating
  <2> DEFINE p == guest[g]
             o == files[p].of
  <2>1. /\ p \in Path /\ Exists(p) /\ o \in Owner
        /\ files'[p].of = o /\ files'[p].whole = files[p].whole
        /\ files'[p].data = files[p].data \cup {w} /\ files'[p] # NoFile
        /\ \A q \in Path : q # p => files'[q] = files[q]
        /\ written'[o] = written[o] \cup {w} /\ w \notin written[o]
        /\ \A x \in Owner : x # o => written'[x] = written[x]
    <3>1. guest' = guest
      BY <1>4 DEF GuestWrites
    <3> QED
      BY <1>4, <3>1, OneWrite DEF Exists
  <2>2. o = d => p = Named /\ p \in Live
    BY <1>4, WritesAtHome DEF GuestWrites, Named
  <2>3. o = d => HoldsAll(p, d)
    BY <2>2 DEF FilesInv, LiveAreComplete
  <2> HIDE DEF p
  <2>4. CASE o = d
    <3>1. p \in Copies
      BY <2>1, <2>3, <2>4 DEF Copies
    <3>2. \A q \in Path : q # p => q \notin Copies'
      <4> SUFFICES ASSUME NEW q \in Path, q # p, q \in Copies' PROVE FALSE
        OBVIOUS
      <4>1. /\ files[q] # NoFile /\ files[q].of = d /\ written'[d] \subseteq files[q].data
        BY <1>1, <2>1 DEF Copies, HoldsAll, Exists
      <4>2. files[q].data \subseteq written[d]
        BY <4>1 DEF DataIsWritten, Exists
      <4> QED
        BY <2>1, <2>4, <4>1, <4>2
    <3>3. p \in Copies'
      BY <1>1, <2>1, <2>3, <2>4 DEF Copies, HoldsAll, Exists
    <3>4. Copies' = {Named}
      BY <2>2, <2>4, <3>2, <3>3 DEF Copies
    <3> QED
      BY <1>2, <2>2, <2>4, <3>1, <3>4, AsRelocation DEF Relocating
  <2>5. CASE o # d
    <3>1. \A q \in Path : q \in Copies' <=> q \in Copies
      BY <1>1, <2>1, <2>5 DEF Copies, HoldsAll, Exists
    <3>2. Copies' = Copies
      BY <3>1 DEF Copies
    <3> QED
      BY <1>2, <3>2, AsRelocation DEF Relocating
  <2> QED
    BY <2>4, <2>5
<1>5. ASSUME NEW x \in Path, StrayAppears(x) PROVE Relocating
  <2>1. /\ ~Exists(x) /\ files'[x].of = Stray /\ written' = written
        /\ \A q \in Path : q # x => files'[q] = files[q]
    BY <1>5, OneStray
  <2>2. d # Stray
    BY <1>1, WslAssumption
  <2>3. \A q \in Path : q \in Copies' <=> q \in Copies
    BY <1>1, <2>1, <2>2 DEF Copies, HoldsAll, Exists
  <2>4. Copies' = Copies
    BY <2>3 DEF Copies
  <2> QED
    BY <1>2, <2>4, AsRelocation DEF Relocating
<1> QED
  BY <1>3, <1>4, <1>5, OtherSteps

(* The detailed move implements the relocation it promises, when the       *)
(* registry writes of a rollback succeed: it never gives up the copy the   *)
(* entry names, nor the last one.                                          *)
THEOREM MoveImplementsRelocation == Alone /\ Undoes /\ Spec => MoveIsRelocation
<1>1. Init => OwnDisks /\ DataIsWritten /\ TransferOnly /\ Relocates!Init
  <2> SUFFICES ASSUME Init PROVE OwnDisks /\ DataIsWritten /\ TransferOnly /\ Relocates!Init
    OBVIOUS
  <2>1. DataIsWritten
    <3>1. \A o : Fresh(o).data = {}
      BY DEF Fresh
    <3>2. Damaged.data = {}
      BY DEF Damaged
    <3> QED
      BY <3>1, <3>2 DEF Init, MachineInit, DataIsWritten, Exists
  <2>2. TransferOnly
    BY DEF Init, ControlInit, TransferOnly
  <2>3. Relocates!Init
    <3>1. Home(job.distro) \in Path
      BY TypeInit, EndsArePaths DEF Init, Job
    <3> QED
      BY <3>1 DEF Relocates!Init, Relocates!TypeOK
  <2> QED
    BY <2>1, <2>2, <2>3, OwnDisksInit
<1>2. Alone /\ Undoes /\ Known /\ FilesInv /\ OwnDisks /\ DataIsWritten /\ TransferOnly
         /\ [Next]_vars => OwnDisks' /\ DataIsWritten' /\ TransferOnly'
  BY OwnDisksStep, OwnDisksKept, DataStep, DataKept, TransferOnlyStep DEF Next
<1>3. Alone /\ Undoes /\ Known /\ FilesInv /\ OwnDisks /\ DataIsWritten /\ TransferOnly
         /\ [Next]_vars => Relocating
  BY StepRelocates, OtherRelocates DEF Next
<1>4. Solid /\ EntryInv => Known
  BY DEF Known
<1>5. Alone /\ Undoes => (Alone /\ Undoes)'
  BY DEF Alone, Undoes, MayFail
<1>6. Relocating => [Relocates!Next]_<<{p \in Path : HoldsAll(p, job.distro)}, Home(job.distro)>>
  BY DEF Relocating, Copies, Named
<1> QED
  BY <1>1, <1>2, <1>3, <1>4, <1>5, <1>6, MoveKeepsTheFiles, MoveIsSolid, MoveEntryInv, PTL
     DEF Spec, MoveIsRelocation, Relocates!Spec
=============================================================================
