---------------------------- MODULE RelinkProofs ----------------------------
(***************************************************************************)
(* Proofs about `wsldisk relink`, for every machine it may run on and      *)
(* every choice of what may fail.  Sound holds whatever the user does      *)
(* meanwhile; that "relinked" means booted needs the distribution left     *)
(* alone between running() and verify(), and a path that is absolute.      *)
(***************************************************************************)
EXTENDS Relink, WslProofs

Current == registry[job.distro]

(* What is on the undo stack, by how far the operation has come.           *)
StackIsKnown ==
    /\ \/ Len(undo) = 0
       \/ Len(undo) = 1 /\ undo[1] = "base"
       \/ Len(undo) = 2 /\ undo[1] = "base" /\ undo[2] = "vhd"
    /\ pc \in {"enumerate", "plan", "base"} => Len(undo) = 0
    /\ pc = "vhd" => Len(undo) = 1
    /\ pc \in {"boot", "verifyBase"} => Len(undo) # 0
    /\ pc \in {"enumerate", "plan", "base", "vhd"} => unrestored = {}

(* Each value of the entry is as it was found, or it is on the undo stack, *)
(* or its undo failed.                                                     *)
ValuesAreCovered ==
    pc # "enumerate" =>
        /\ Len(undo) # 2 => Current.vhd = was.vhd \/ "vhd" \in unrestored
        /\ Len(undo) = 0 => Current.base = was.base \/ "base" \in unrestored

Sound == TypeOK /\ GuestsHaveDisks /\ StackIsKnown /\ ValuesAreCovered

----------------------------------------------------------------------------
(* The base path relink writes is one; its prefix is the one it found.     *)
LEMMA IntendedIsBase ==
    TypeOK => /\ IntendedBase \in BasePath /\ job.distro \in Distro
              /\ IntendedBase.extended = was.base.extended
              /\ IntendedBase.dir = job.spelt
              /\ Current \in Entry
BY DEF TypeOK, MachineTypeOK, ControlTypeOK, IntendedBase, Job, Entry, BasePath, Current

(* Nothing is on the stack, and nothing runs, when the command starts.     *)
LEMMA SoundStarts == Init => Sound
<1> SUFFICES ASSUME Init PROVE Sound
  OBVIOUS
<1>1. MachineTypeOK /\ GuestsHaveDisks
  BY MachineStarts DEF Init
<1>2. Len(undo) = 0
  BY DEF Init, ControlInit
<1>3. TypeOK
  BY <1>1 DEF Init, ControlInit, TypeOK, MachineTypeOK, ControlTypeOK, RelinkPc, Final, Exit,
              Undo, Job
<1> QED
  BY <1>1, <1>2, <1>3 DEF Init, ControlInit, Sound, StackIsKnown, ValuesAreCovered

(* Reading the entry and planning touch neither the machine nor the stack. *)
LEMMA PlanningIsSound == Sound /\ (Read \/ Plan \/ VerifyRegistry) => Sound'
<1> SUFFICES ASSUME Sound, Read \/ Plan \/ VerifyRegistry PROVE Sound'
  OBVIOUS
<1>1. UNCHANGED <<machine, job, undo, unrestored>> /\ GuestsHaveDisks'
  BY DEF Sound, Read, Enumerate, Plan, VerifyRegistry, RefuseIfRunning, VerifyBase, Finish,
         Goto, machine, GuestsHaveDisks, Exists
<1>2. was' \in {was, Current} /\ (pc # "enumerate" => was' = was)
  BY DEF Read, Enumerate, Plan, VerifyRegistry, RefuseIfRunning, VerifyBase, Finish, Goto, Current
<1>3. /\ pc = "enumerate" => pc' = "plan" /\ was' = Current
      /\ pc = "plan" => pc' \in {"base", "ended"}
      /\ pc = "verifyBase" => pc' = "ended"
      /\ pc \in {"enumerate", "plan", "verifyBase"}
      /\ exit' \in Exit /\ proof' = proof
  BY DEF Sound, TypeOK, ControlTypeOK, Read, Enumerate, Plan, VerifyRegistry, RefuseIfRunning,
         VerifyBase, Finish, Goto, Current, Exit
<1>4. TypeOK'
  BY <1>1, <1>2, <1>3, IntendedIsBase
     DEF Sound, machine, TypeOK, MachineTypeOK, ControlTypeOK, RelinkPc, Final
<1>5. StackIsKnown'
  BY <1>1, <1>3 DEF Sound, StackIsKnown
<1>6. ValuesAreCovered'
  BY <1>1, <1>2, <1>3 DEF Sound, StackIsKnown, ValuesAreCovered, Current, machine
<1> QED
  BY <1>1, <1>4, <1>5, <1>6 DEF Sound

(* repoint() pushes the undo of each value as it writes it.                *)
LEMMA RepointingIsSound == Sound /\ (RepointBase \/ RepointVhd) => Sound'
<1> SUFFICES ASSUME Sound, RepointBase \/ RepointVhd PROVE Sound'
  OBVIOUS
<1>0. /\ TypeOK /\ ControlTypeOK /\ IntendedBase \in BasePath /\ job.distro \in Distro
      /\ Current \in Entry /\ job.disk[2] \in Name
      /\ "base" \in Undo /\ "vhd" \in Undo /\ "error" \in Exit
  BY IntendedIsBase DEF Sound, TypeOK, Undo, Exit, Job, Path
<1>1. UNCHANGED <<files, guest, attached, handles, written, job, was, unrestored>>
      /\ GuestsHaveDisks'
  BY DEF Sound, RepointBase, RepointVhd, WriteBase, WriteVhd, PushAndGoto, Goto, Abort,
         GuestsHaveDisks, Exists
<1>2. ControlTypeOK'
  <2>1. /\ UNCHANGED <<was, unrestored, proof>> /\ exit' \in {exit, "error"}
        /\ undo' = undo \/ \E entry \in {"base", "vhd"} : undo' = Append(undo, entry)
    BY DEF RepointBase, RepointVhd, WriteBase, WriteVhd, PushAndGoto, Goto, Abort
  <2>2. undo' \in Seq(Undo)
    BY <1>0, <2>1, Pushed DEF ControlTypeOK
  <2> QED
    BY <1>0, <2>1, <2>2 DEF ControlTypeOK
<1>3. CASE RepointBase
  <2>1. pc = "base" /\ Len(undo) = 0 /\ unrestored = {}
    BY <1>3 DEF RepointBase, Sound, StackIsKnown
  <2>2. CASE registry' = [registry EXCEPT ![job.distro].base = IntendedBase]
             /\ PushAndGoto("base", "vhd")
    <3>1. [Current EXCEPT !.base = IntendedBase] \in Entry
          /\ [Current EXCEPT !.base = IntendedBase].vhd = Current.vhd
      BY <1>0, EntryFields
    <3>2. registry' = [registry EXCEPT ![job.distro] = [Current EXCEPT !.base = IntendedBase]]
      BY <2>2 DEF Current
    <3>3. registry' \in [Distro -> Entry] /\ Current' = [Current EXCEPT !.base = IntendedBase]
      BY <1>0, <1>1, <3>1, <3>2 DEF TypeOK, MachineTypeOK, Current
    <3>4. Len(undo') = 1 /\ undo'[1] = "base" /\ pc' = "vhd"
      BY <1>0, <2>1, <2>2, Pushed DEF PushAndGoto, ControlTypeOK
    <3>5. TypeOK'
      BY <1>0, <1>1, <1>2, <3>3, <3>4 DEF TypeOK, MachineTypeOK, RelinkPc
    <3> QED
      BY <1>1, <2>1, <3>1, <3>3, <3>4, <3>5 DEF Sound, StackIsKnown, ValuesAreCovered
  <2>3. CASE Abort("error") /\ UNCHANGED registry
    <3>1. TypeOK'
      BY <1>0, <1>1, <1>2, <2>3 DEF Abort, TypeOK, MachineTypeOK, RelinkPc
    <3> QED
      BY <1>1, <2>1, <2>3, <3>1 DEF Abort, Sound, StackIsKnown, ValuesAreCovered, Current
  <2> QED
    BY <1>3, <2>2, <2>3 DEF RepointBase, WriteBase
<1>4. CASE RepointVhd
  <2>1. pc = "vhd" /\ Len(undo) = 1 /\ undo[1] = "base" /\ unrestored = {}
        /\ Current.vhd = was.vhd
    <3>1. pc = "vhd"
      BY <1>4 DEF RepointVhd
    <3>2. Len(undo) = 1 /\ undo[1] = "base" /\ unrestored = {}
      BY <3>1 DEF Sound, StackIsKnown
    <3> QED
      BY <3>1, <3>2 DEF Sound, ValuesAreCovered
  <2>2. CASE registry' = [registry EXCEPT ![job.distro].vhd = job.disk[2]]
             /\ PushAndGoto("vhd", "boot")
    <3>1. registry' \in [Distro -> Entry]
      BY <1>0, <2>2 DEF TypeOK, MachineTypeOK, Entry
    <3>2. Len(undo') = 2 /\ undo'[1] = "base" /\ undo'[2] = "vhd" /\ pc' = "boot"
      <4>1. undo \in Seq(Undo) /\ undo' = Append(undo, "vhd") /\ pc' = "boot"
        BY <1>0, <2>2 DEF PushAndGoto, ControlTypeOK
      <4>2. /\ Len(undo') = Len(undo) + 1 /\ undo'[Len(undo) + 1] = "vhd"
            /\ \A i \in 1 .. Len(undo) : undo'[i] = undo[i]
        BY <1>0, <4>1, Pushed
      <4> QED
        BY <2>1, <4>1, <4>2
    <3>3. TypeOK'
      BY <1>0, <1>1, <1>2, <3>1, <3>2 DEF TypeOK, MachineTypeOK, RelinkPc
    <3> QED
      BY <1>1, <2>1, <3>2, <3>3 DEF Sound, StackIsKnown, ValuesAreCovered
  <2>3. CASE (Goto("boot") \/ Abort("error")) /\ UNCHANGED registry
    <3>1. TypeOK' /\ pc' \in {"boot", "undo"} /\ undo' = undo
      BY <1>0, <1>1, <1>2, <2>3 DEF Abort, Goto, TypeOK, MachineTypeOK, RelinkPc
    <3>2. Current' = Current
      BY <1>1, <2>3 DEF Current
    <3>3. StackIsKnown'
      <4>1. Len(undo') = 1 /\ undo'[1] = "base" /\ pc' \in {"boot", "undo"}
        BY <2>1, <3>1
      <4> QED
        BY <4>1 DEF StackIsKnown
    <3>4. ValuesAreCovered'
      BY <1>1, <2>1, <3>1, <3>2 DEF ValuesAreCovered
    <3> QED
      BY <1>1, <3>1, <3>3, <3>4 DEF Sound
  <2> QED
    BY <1>4, <2>2, <2>3 DEF RepointVhd, WriteVhd
<1> QED
  BY <1>3, <1>4

(* The smoke test writes nothing.                                          *)
LEMMA BootingIsSound == Sound /\ ProveItBoots => Sound'
<1> SUFFICES ASSUME Sound, ProveItBoots PROVE Sound'
  OBVIOUS
<1>0. job.distro \in Distro /\ MachineTypeOK /\ Home(job.distro) \in Path /\ ControlTypeOK
      /\ "preflight" \in Exit /\ "error" \in Exit
  BY IntendedIsBase, EntriesResolve DEF Sound, TypeOK, MachineTypeOK, Home, Current, Exit
<1>1. UNCHANGED <<files, registry, handles, written, job, was, undo, unrestored>>
      /\ pc = "boot" /\ pc' \in {"verifyBase", "undo"}
  BY DEF ProveItBoots, SmokeTest, Abort
<1>2. RunsIn(job.distro) \/ CannotRunIn(job.distro) \/ MayHaveRunIn(job.distro)
  BY DEF ProveItBoots, SmokeTest
<1>3. /\ guest' \in [Distro -> Path \cup {Off}] /\ attached' \subseteq Path
      /\ GuestsHaveDisks'
  BY <1>0, <1>1, <1>2, BootTyped DEF Sound
<1>4. BootsFrom(job.distro) \in Path \cup {Off}
  BY <1>0 DEF BootsFrom, MachineTypeOK
<1>5. ControlTypeOK'
  BY <1>0, <1>1, <1>4 DEF ProveItBoots, SmokeTest, Abort, ControlTypeOK
<1>6. TypeOK'
  BY <1>0, <1>1, <1>3, <1>5 DEF Sound, TypeOK, MachineTypeOK, RelinkPc
<1> QED
  BY <1>1, <1>3, <1>6 DEF Sound, StackIsKnown, ValuesAreCovered, Current

(* unwind() puts back the value on top, or records that it could not.      *)
LEMMA UnwindingIsSound == Sound /\ Rollback => Sound'
<1> SUFFICES ASSUME Sound, Rollback PROVE Sound'
  OBVIOUS
<1>0. /\ TypeOK /\ ControlTypeOK /\ job.distro \in Distro /\ Current \in Entry
      /\ was \in Entry /\ was.base \in BasePath
  BY IntendedIsBase DEF Sound, TypeOK, ControlTypeOK, Entry
<1>1. CASE RolledBack
  <2>1. UNCHANGED <<machine, job, was, undo, unrestored, exit, proof>> /\ pc' = "ended"
        /\ pc = "undo"
    BY <1>1 DEF RolledBack, Rollback
  <2>2. TypeOK' /\ GuestsHaveDisks'
    BY <2>1 DEF Sound, machine, TypeOK, MachineTypeOK, ControlTypeOK, RelinkPc, Final,
                GuestsHaveDisks, Exists
  <2> QED
    BY <2>1, <2>2 DEF machine, Sound, StackIsKnown, ValuesAreCovered, Current
<1>2. CASE Unwind(job.distro, job.disk, job.disk)
  <2>1. /\ pc = "undo" /\ pc' = "undo" /\ Len(undo) > 0
        /\ UNCHANGED <<guest, attached, handles, written, was, exit, proof, job>>
        /\ undo' = SubSeq(undo, 1, Len(undo) - 1)
    BY <1>2 DEF Unwind, Rollback, RestOfUndo
  <2>2. /\ Len(undo) = 1 \/ Len(undo) = 2
        /\ Len(undo') = Len(undo) - 1
        /\ Len(undo) = 1 => TopUndo = "base"
        /\ Len(undo) = 2 => TopUndo = "vhd" /\ undo'[1] = "base"
    <3> DEFINE n == Len(undo)
    <3>1. n > 0 /\ (n = 0 \/ n = 1 \/ n = 2)
      BY <2>1 DEF Sound, StackIsKnown
    <3>2. n = 1 \/ n = 2
      <4> HIDE DEF n
      <4> QED
        BY <3>1
    <3> QED
      BY <1>0, <2>1, <3>2, Popped DEF Sound, StackIsKnown, TopUndo, ControlTypeOK
  <2>3. undo' \in Seq(Undo)
    <3>1. \A i \in 1 .. Len(undo) - 1 : undo[i] \in Undo
      BY <1>0, <2>2 DEF ControlTypeOK
    <3> QED
      BY <1>0, <2>1, <2>2, SubSeqProperties DEF ControlTypeOK
  <2>4. files' = files
    BY <1>2, <2>2 DEF Unwind, UndoneFiles
  <2>5. CASE registry' = UndoneRegistry(job.distro) /\ unrestored' = unrestored
    <3>1. CASE Len(undo) = 1
      <4> DEFINE new == [Current EXCEPT !.base = was.base]
      <4>1. new \in Entry /\ new.vhd = Current.vhd /\ new.base = was.base
        BY <1>0, EntryFields
      <4>2. registry' = [registry EXCEPT ![job.distro] = new]
        BY <2>2, <2>5, <3>1 DEF UndoneRegistry, Current
      <4> HIDE DEF new
      <4>3. registry' \in [Distro -> Entry] /\ Current' = new
        BY <1>0, <2>1, <4>1, <4>2 DEF TypeOK, MachineTypeOK, Current
      <4>4. TypeOK' /\ GuestsHaveDisks'
        BY <1>0, <2>1, <2>3, <2>4, <2>5, <4>3
           DEF Sound, TypeOK, MachineTypeOK, ControlTypeOK, GuestsHaveDisks, Exists
      <4> QED
        BY <2>1, <2>2, <2>5, <3>1, <4>1, <4>3, <4>4 DEF Sound, StackIsKnown, ValuesAreCovered
    <3>2. CASE Len(undo) = 2
      <4> DEFINE new == [Current EXCEPT !.vhd = was.vhd]
      <4>1. new \in Entry /\ new.vhd = was.vhd
        BY <1>0 DEF Entry
      <4>2. registry' = [registry EXCEPT ![job.distro] = new]
        BY <2>2, <2>5, <3>2 DEF UndoneRegistry, Current
      <4> HIDE DEF new
      <4>3. registry' \in [Distro -> Entry] /\ Current' = new
        BY <1>0, <2>1, <4>1, <4>2 DEF TypeOK, MachineTypeOK, Current
      <4>4. TypeOK' /\ GuestsHaveDisks'
        BY <1>0, <2>1, <2>3, <2>4, <2>5, <4>3
           DEF Sound, TypeOK, MachineTypeOK, ControlTypeOK, GuestsHaveDisks, Exists
      <4> QED
        BY <2>1, <2>2, <2>5, <3>2, <4>1, <4>3, <4>4 DEF Sound, StackIsKnown, ValuesAreCovered
    <3> QED
      BY <2>2, <3>1, <3>2
  <2>6. CASE registry' = registry /\ unrestored' = unrestored \cup {TopUndo}
    <3>1. TopUndo \in Undo
      BY <2>2 DEF Undo
    <3>2. TypeOK' /\ GuestsHaveDisks' /\ Current' = Current
      BY <1>0, <2>1, <2>3, <2>4, <2>6, <3>1
         DEF Sound, TypeOK, MachineTypeOK, ControlTypeOK, GuestsHaveDisks, Exists, Current
    <3>3. StackIsKnown'
      BY <1>0, <2>1, <2>2, <2>3 DEF StackIsKnown, ControlTypeOK
    <3>4. ValuesAreCovered'
      <4>1. CASE Len(undo) = 2
        BY <2>1, <2>2, <2>6, <4>1 DEF ValuesAreCovered
      <4>2. CASE Len(undo) = 1
        <5>1. Current.vhd = was.vhd \/ "vhd" \in unrestored
          BY <2>1, <4>2 DEF Sound, ValuesAreCovered
        <5> QED
          BY <2>1, <2>2, <2>6, <3>2, <4>2, <5>1 DEF ValuesAreCovered
      <4> QED
        BY <2>2, <4>1, <4>2
    <3> QED
      BY <3>2, <3>3, <3>4 DEF Sound
  <2> QED
    BY <1>2, <2>5, <2>6 DEF Unwind
<1> QED
  BY <1>1, <1>2 DEF Rollback

(* Being killed, and what others do, leave the entry and the stack alone.  *)
LEMMA OthersAreSound ==
    Sound /\ ((Killed /\ UNCHANGED job) \/ Environment \/ UNCHANGED vars) => Sound'
<1>1. ASSUME Sound, Killed, UNCHANGED job PROVE Sound'
  BY <1>1 DEF Killed, Final, Sound, TypeOK, MachineTypeOK, ControlTypeOK, RelinkPc,
              GuestsHaveDisks, Exists, StackIsKnown, ValuesAreCovered, Current
<1>2. ASSUME Sound, Environment PROVE Sound'
  <2>1. InUserHands \in SUBSET Distro /\ FreePaths \in SUBSET Path
    BY DEF InUserHands, FreePaths
  <2>2. MachineTypeOK' /\ GuestsHaveDisks' /\ UNCHANGED registry
    BY <1>2, <2>1, MachineStep DEF Environment, Sound, TypeOK
  <2> QED
    BY <1>2, <2>2 DEF Environment, control, Sound, TypeOK, ControlTypeOK, StackIsKnown,
                      ValuesAreCovered, Current
<1>3. ASSUME Sound, UNCHANGED vars PROVE Sound'
  BY <1>3 DEF vars, machine, control, Sound, TypeOK, MachineTypeOK, ControlTypeOK,
              GuestsHaveDisks, Exists, StackIsKnown, ValuesAreCovered, Current
<1> QED
  BY <1>1, <1>2, <1>3

(* Every step keeps the invariant.                                         *)
LEMMA SoundKept == Sound /\ [Next]_vars => Sound'
BY PlanningIsSound, RepointingIsSound, BootingIsSound, UnwindingIsSound, OthersAreSound
   DEF Next, Step

(* The stack, the entry and what is left unrestored always agree.          *)
THEOREM RelinkIsSound == Spec => []Sound
BY SoundStarts, SoundKept, PTL DEF Spec

(* However a relink fails, the registry entry is as it was found unless a  *)
(* write that puts it back fails too.                                      *)
THEOREM RelinkPutsTheEntryBack == Spec => []EntryIsPutBack
<1>1. Sound => EntryIsPutBack
  <2> SUFFICES ASSUME Sound, pc \in {"undo", "ended"}, Len(undo) = 0,
                      unrestored \cap {"base", "vhd"} = {}
               PROVE  registry[job.distro] = was
    BY DEF EntryIsPutBack, EntryIsPutBackOf
  <2>1. Current.vhd = was.vhd /\ Current.base = was.base
    BY DEF Sound, ValuesAreCovered
  <2>2. Current \in Entry /\ was \in Entry
    BY IntendedIsBase DEF Sound, TypeOK, ControlTypeOK
  <2> QED
    BY <2>1, <2>2 DEF Entry, Current
<1> QED
  BY RelinkIsSound, <1>1, PTL

----------------------------------------------------------------------------
(* From here on the distribution is left alone while it is relinked, and   *)
(* the disk is named by an absolute path.                                  *)
LeftAlone == ~UsedMeanwhile /\ ~RelativePaths

\* Where the entry points once both values are written.
AskedVhd == IF was.vhd = NoVhdName THEN NoVhdName ELSE job.disk[2]

Written == Current.base = IntendedBase /\ Current.vhd = AskedVhd

(* The distribution stays off until the smoke test, so it is the smoke     *)
(* test that boots it, from where the entry says by then.                  *)
BootIsFromTheEntry ==
    /\ job.spelt = job.disk[1]
    /\ pc \in {"base", "vhd", "boot"} => guest[job.distro] = Off
    /\ pc = "vhd" => Current.base = IntendedBase
    /\ pc \in {"boot", "verifyBase"} \/ Relinked => Written
    /\ pc = "verifyBase" \/ Relinked => proof = Home(job.distro)
    /\ pc = "undo" => exit # "ok"

(* A command line with an absolute path spells out the disk's directory.   *)
LEMMA BootStarts == LeftAlone /\ Init => BootIsFromTheEntry
BY DEF LeftAlone, Init, ControlInit, BootIsFromTheEntry, Relinked

(* Nothing else writes the entry or boots the distribution meanwhile.      *)
LEMMA BootKeptByOthers ==
    LeftAlone /\ Sound /\ BootIsFromTheEntry
        /\ ((Killed /\ UNCHANGED job) \/ Environment \/ UNCHANGED vars) => BootIsFromTheEntry'
<1> SUFFICES ASSUME LeftAlone, Sound, BootIsFromTheEntry,
                    (Killed /\ UNCHANGED job) \/ Environment \/ UNCHANGED vars
             PROVE  BootIsFromTheEntry'
  OBVIOUS
<1>1. UNCHANGED <<registry, was, job, exit, proof>>
  <2>1. InUserHands \in SUBSET Distro /\ FreePaths \in SUBSET Path
    BY DEF InUserHands, FreePaths
  <2>2. Environment => UNCHANGED registry
    BY <2>1, MachineStep DEF Environment, Sound, TypeOK
  <2> QED
    BY <2>2 DEF Killed, Environment, vars, control, machine
<1>2. Written' = Written /\ Home(job.distro)' = Home(job.distro) /\ IntendedBase' = IntendedBase
      /\ Current' = Current
  BY <1>1 DEF Written, Current, IntendedBase, AskedVhd, Home, Resolve
<1>3. CASE Killed
  BY <1>1, <1>2, <1>3 DEF Killed, BootIsFromTheEntry, Relinked
<1>4. CASE UNCHANGED vars
  BY <1>1, <1>2, <1>4 DEF vars, control, machine, BootIsFromTheEntry, Relinked
<1>5. CASE Environment
  <2>1. pc' = pc
    BY <1>5 DEF Environment, control
  <2>2. pc \in {"base", "vhd", "boot"} => guest'[job.distro] = Off
    <3> SUFFICES ASSUME pc \in {"base", "vhd", "boot"} PROVE guest'[job.distro] = Off
      OBVIOUS
    <3>1. /\ job.distro \notin InUserHands /\ InUserHands \in SUBSET Distro
          /\ FreePaths \in SUBSET Path /\ guest[job.distro] = Off /\ job.distro \in Distro
      BY IntendedIsBase DEF InUserHands, FreePaths, Settled, LeftAlone, BootIsFromTheEntry, Sound
    <3>2. guest'[job.distro] \in {Off, guest[job.distro]}
      BY <1>5, <3>1, MachineStep DEF Environment, Sound, TypeOK
    <3> QED
      BY <3>1, <3>2
  <2> QED
    BY <1>1, <1>2, <2>1, <2>2 DEF BootIsFromTheEntry, Relinked
<1> QED
  BY <1>3, <1>4, <1>5

(* Every step of the command keeps it.                                     *)
LEMMA BootKeptBySteps ==
    LeftAlone /\ Sound /\ BootIsFromTheEntry /\ Step => BootIsFromTheEntry'
<1> SUFFICES ASSUME LeftAlone, Sound, BootIsFromTheEntry, Step PROVE BootIsFromTheEntry'
  OBVIOUS
<1>0. job.distro \in Distro /\ Current \in Entry /\ IntendedBase \in BasePath /\ job' = job
      /\ MachineTypeOK
  BY IntendedIsBase DEF Sound, TypeOK, Step, Read, Plan, RepointBase, RepointVhd, ProveItBoots,
                        VerifyRegistry, Rollback
<1>1. CASE Read
  <2>1. pc' = "plan"
    BY <1>1 DEF Read, Enumerate
  <2> QED
    BY <1>0, <2>1 DEF BootIsFromTheEntry, Relinked
<1>2. CASE Plan
  <2>1. /\ UNCHANGED <<machine, was>>
        /\ \/ pc' = "base" /\ job.distro \notin Running
           \/ pc' = "ended" /\ (exit' = "ok" => job.dryRun)
    BY <1>2 DEF Plan, RefuseIfRunning, Finish, Goto
  <2>2. job.distro \notin Running => guest[job.distro] = Off
    BY <1>0 DEF Running
  <2> QED
    BY <1>0, <2>1, <2>2 DEF machine, BootIsFromTheEntry, Relinked
<1>3. CASE RepointBase
  <2>1. pc = "base" /\ UNCHANGED <<guest, was>>
    BY <1>3 DEF RepointBase, WriteBase, PushAndGoto, Abort
  <2>2. CASE registry' = [registry EXCEPT ![job.distro].base = IntendedBase] /\ pc' = "vhd"
    <3>1. Current'.base = IntendedBase /\ IntendedBase' = IntendedBase
      BY <1>0, <2>1, <2>2 DEF Current, IntendedBase, MachineTypeOK, Entry
    <3> QED
      BY <1>0, <2>1, <2>2, <3>1 DEF BootIsFromTheEntry, Relinked
  <2>3. CASE pc' = "undo" /\ exit' = "error"
    BY <1>0, <2>3 DEF BootIsFromTheEntry, Relinked
  <2> QED
    BY <1>3, <2>2, <2>3 DEF RepointBase, WriteBase, PushAndGoto, Abort
<1>4. CASE RepointVhd
  <2>1. /\ pc = "vhd" /\ UNCHANGED <<guest, was>> /\ Len(undo) = 1 /\ unrestored = {}
        /\ Current.base = IntendedBase /\ Current.vhd = was.vhd
    <3>1. pc = "vhd" /\ UNCHANGED <<guest, was>>
      BY <1>4 DEF RepointVhd, WriteVhd, PushAndGoto, Goto, Abort
    <3>2. Len(undo) = 1 /\ unrestored = {}
      BY <3>1 DEF Sound, StackIsKnown
    <3> QED
      BY <3>1, <3>2 DEF Sound, ValuesAreCovered, BootIsFromTheEntry
  <2>2. IntendedBase' = IntendedBase /\ AskedVhd' = AskedVhd
    BY <1>0, <2>1 DEF IntendedBase, AskedVhd
  <2>3. CASE pc' = "undo" /\ exit' = "error"
    BY <1>0, <2>3 DEF BootIsFromTheEntry, Relinked
  <2>4. CASE was.vhd = NoVhdName /\ registry' = registry /\ pc' = "boot"
    BY <1>0, <2>1, <2>2, <2>4 DEF BootIsFromTheEntry, Relinked, Written, Current, AskedVhd
  <2>5. CASE /\ was.vhd # NoVhdName /\ pc' = "boot"
             /\ registry' = [registry EXCEPT ![job.distro].vhd = job.disk[2]]
    <3>1. Current'.base = Current.base /\ Current'.vhd = job.disk[2]
      BY <1>0, <2>5 DEF Current, MachineTypeOK, Entry
    <3> QED
      BY <1>0, <2>1, <2>2, <2>5, <3>1 DEF BootIsFromTheEntry, Relinked, Written, AskedVhd
  <2> QED
    BY <1>4, <2>3, <2>4, <2>5 DEF RepointVhd, WriteVhd, PushAndGoto, Goto, Abort
<1>5. CASE ProveItBoots
  <2>1. pc = "boot" /\ UNCHANGED <<registry, was>> /\ guest[job.distro] = Off /\ Written
    BY <1>5 DEF ProveItBoots, SmokeTest, Abort, BootIsFromTheEntry
  <2>2. CASE pc' = "undo" /\ exit' \in {"preflight", "error"}
    BY <1>0, <2>2 DEF BootIsFromTheEntry, Relinked
  <2>3. CASE pc' = "verifyBase" /\ proof' = BootsFrom(job.distro)
    <3>1. BootsFrom(job.distro) = Home(job.distro)
      BY <2>1 DEF BootsFrom, Running
    <3>2. Written' /\ Home(job.distro)' = Home(job.distro)
      BY <1>0, <2>1 DEF Written, Current, IntendedBase, AskedVhd, Home, Resolve
    <3> QED
      BY <1>0, <2>3, <3>1, <3>2 DEF BootIsFromTheEntry, Relinked
  <2> QED
    BY <1>5, <2>2, <2>3 DEF ProveItBoots, SmokeTest, Abort
<1>6. CASE VerifyRegistry
  <2>1. pc = "verifyBase" /\ pc' = "ended" /\ UNCHANGED <<registry, was, proof>>
    BY <1>6 DEF VerifyRegistry, VerifyBase, Finish, machine
  <2>2. Written' /\ Written /\ Home(job.distro)' = Home(job.distro) /\ proof = Home(job.distro)
    BY <1>0, <2>1 DEF Written, Current, IntendedBase, AskedVhd, Home, Resolve, BootIsFromTheEntry
  <2> QED
    BY <1>0, <2>1, <2>2 DEF BootIsFromTheEntry
<1>7. CASE Rollback
  <2>1. pc = "undo" /\ pc' \in {"undo", "ended"} /\ exit' = exit /\ exit # "ok"
    BY <1>7 DEF Rollback, Unwind, RolledBack, BootIsFromTheEntry
  <2> QED
    BY <1>0, <2>1 DEF BootIsFromTheEntry, Relinked
<1> QED
  BY <1>1, <1>2, <1>3, <1>4, <1>5, <1>6, <1>7 DEF Step

(* "Relinked" is reported only when the guest has run from the disk the    *)
(* entry names, which is the one asked for where the entry has a           *)
(* VhdFileName to name it with.                                            *)
THEOREM RelinkProvesItBoots == LeftAlone /\ Spec => []RelinkedMeansBooted
<1>1. LeftAlone /\ Sound /\ BootIsFromTheEntry /\ [Next]_vars => BootIsFromTheEntry'
  BY BootKeptBySteps, BootKeptByOthers DEF Next
<1>2. Sound /\ BootIsFromTheEntry => RelinkedMeansBooted
  <2> SUFFICES ASSUME Sound, BootIsFromTheEntry, Relinked
               PROVE  /\ proof = Home(job.distro)
                      /\ Current.base.extended = was.base.extended
                      /\ was.vhd # NoVhdName => proof = job.disk
    BY DEF RelinkedMeansBooted, Current
  <2>1. Written /\ proof = Home(job.distro) /\ job.spelt = job.disk[1]
    BY DEF BootIsFromTheEntry
  <2>2. was.vhd # NoVhdName => Home(job.distro) = <<job.disk[1], job.disk[2]>>
    <3>1. job.disk[2] # NoVhdName
      BY WslAssumption DEF Sound, TypeOK, Job, Path
    <3> QED
      BY <2>1, <3>1, IntendedIsBase DEF Sound, Home, Resolve, Written, Current, AskedVhd
  <2>3. job.disk = <<job.disk[1], job.disk[2]>>
    BY DEF Sound, TypeOK, Job, Path
  <2> QED
    BY <2>1, <2>2, <2>3, IntendedIsBase DEF Sound, Written
<1>3. LeftAlone => LeftAlone'
  BY DEF LeftAlone
<1> QED
  BY RelinkIsSound, BootStarts, <1>1, <1>2, <1>3, PTL DEF Spec
=============================================================================
