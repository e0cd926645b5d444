------------------------------- MODULE Relink -------------------------------
(***************************************************************************)
(* `wsldisk relink`: point a distribution's registry entry at a disk that  *)
(* has moved, and boot the distribution from it before believing it.       *)
(***************************************************************************)
EXTENDS Operation

CONSTANT RelativePaths  \* whether the disk may be named by a relative path

ASSUME RelinkAssumption == RelativePaths \in BOOLEAN

VARIABLE job     \* the command line

vars == <<machine, control, job>>

(* The disk the user means, and the directory its path spells out.  A      *)
(* relative path spells out one that WSL looks for somewhere else.         *)
Job == [distro : Distro, disk : Path, spelt : Dir, dryRun : BOOLEAN]

IntendedBase == [was.base EXCEPT !.dir = job.spelt]

RelinkPc == {"enumerate", "plan", "base", "vhd", "boot", "verifyBase", "undo"} \cup Final

TypeOK ==
    /\ MachineTypeOK
    /\ ControlTypeOK
    /\ pc \in RelinkPc
    /\ job \in Job

Init ==
    /\ MachineInit
    /\ job \in Job
    /\ ~RelativePaths => job.spelt = job.disk[1]
    /\ ControlInit(job.distro)

----------------------------------------------------------------------------
Read == Enumerate(job.distro) /\ UNCHANGED job

AlreadyThere == Resolve(was) = job.disk /\ job.spelt = job.disk[1]

Unlinkable == job.distro \notin Wsl2 \/ ~Exists(job.disk) \/ AlreadyThere

\* Mutant: a distribution that is running is not refused.
PlanRegardless ==
    /\ pc = "plan"
    /\ \/ Unlinkable /\ Finish("preflight")
       \/ ~Unlinkable /\ (IF job.dryRun THEN Finish("ok") ELSE Goto("base"))
    /\ UNCHANGED <<machine, job>>

Plan ==
    /\ pc = "plan"
    /\ \/ Unlinkable /\ Finish("preflight")
       \/ ~Unlinkable /\ RefuseIfRunning(job.distro)
       \/ /\ ~Unlinkable /\ job.distro \notin Running
          /\ IF job.dryRun THEN Finish("ok") ELSE Goto("base")
    /\ UNCHANGED <<machine, job>>

RepointBase ==
    /\ pc = "base"
    /\ WriteBase(job.distro, IntendedBase, "vhd")
    /\ UNCHANGED <<files, guest, attached, handles, written, job>>

RepointVhd ==
    /\ pc = "vhd"
    /\ WriteVhd(job.distro, job.disk[2], "boot")
    /\ UNCHANGED <<files, guest, attached, handles, written, job>>

ProveItBoots ==
    /\ pc = "boot"
    /\ SmokeTest(job.distro, "verifyBase")
    /\ UNCHANGED <<files, registry, handles, written, job>>

VerifyRegistry ==
    /\ pc = "verifyBase"
    /\ VerifyBase(job.distro, IntendedBase)
    /\ UNCHANGED <<machine, job>>

(* No file is ever pushed on this undo stack.                              *)
Rollback ==
    /\ Unwind(job.distro, job.disk, job.disk) \/ RolledBack
    /\ UNCHANGED job

----------------------------------------------------------------------------
Step == Read \/ Plan \/ RepointBase \/ RepointVhd \/ ProveItBoots \/ VerifyRegistry \/ Rollback

InUserHands == IF UsedMeanwhile \/ Settled THEN Distro ELSE Distro \ {job.distro}

Environment ==
    /\ MachineNext(InUserHands, FreePaths)
    /\ UNCHANGED <<control, job>>

Next ==
    \/ Step
    \/ Killed /\ UNCHANGED job
    \/ Environment

Spec == Init /\ [][Next]_vars

(* The process is scheduled, and every call it makes returns: the smoke    *)
(* test has a timeout.                                                     *)
FairSpec == Spec /\ WF_vars(Step)

----------------------------------------------------------------------------
(* A relink that fails leaves the entry exactly as it was, unless a write  *)
(* putting BasePath or VhdFileName back failed too.                        *)
EntryIsPutBack == EntryIsPutBackOf(job.distro, {"base", "vhd"})

(* "Relinked" means proved to work: the guest has run from the disk the    *)
(* entry names, and for an entry with a VhdFileName that is the disk asked *)
(* for.                                                                    *)
Relinked == pc = "ended" /\ exit = "ok" /\ ~job.dryRun

RelinkedMeansBooted ==
    Relinked =>
        /\ proof = Home(job.distro)
        /\ registry[job.distro].base.extended = was.base.extended
        /\ was.vhd # NoVhdName => proof = job.disk

(* A relink ends, and its rollback too, whatever fails on the way.         *)
RelinkEnds == <>(pc \in Final)
=============================================================================
