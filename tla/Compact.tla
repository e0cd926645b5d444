------------------------------ MODULE Compact ------------------------------
(***************************************************************************)
(* `wsldisk compact`: for each target trim the guest, stop what holds its  *)
(* disk, wait for the utility VM to let go, compact the unattached file    *)
(* and start the guest again if that was asked for.  One command takes a   *)
(* distribution, all of them one after the other, or a loose file.         *)
(***************************************************************************)
EXTENDS Wsl, Integers, Sequences

CONSTANTS
    Self,           \* the process running the command
    Scanners,       \* other processes that open disks: virus scanners, backups
    Fallible,       \* the calls that may fail for a reason the model has no state for
    UnlockTimeout,  \* polls the command waits for a disk to be released
    VmIdleTimeout,  \* polls after which an idle utility VM is certainly gone
    UsedMeanwhile   \* whether the user may use a distribution being compacted

Call == {"running", "snapshot", "trim", "rejected", "terminate", "shutdown", "linger",
         "stale", "locked", "measure", "open", "compact", "boot"}

ASSUME CompactAssumption ==
    /\ Self \in Process /\ Scanners \subseteq Process \ {Self}
    /\ Fallible \subseteq Call
    /\ UnlockTimeout \in Nat /\ VmIdleTimeout \in Nat \ {0}
    /\ Wsl2 # {}   \* with none to compact the command says so and ends
    /\ IsFiniteSet(Wsl2) /\ IsFiniteSet(Write)
    /\ UsedMeanwhile \in BOOLEAN

MayFail(call) == call \in Fallible

VARIABLES
    pc,         \* the step this process takes next
    job,        \* the command line
    todo,       \* the targets from the current one on
    snapshot,   \* running_before_: what ran before the first target
    wasRunning, \* was_running_ of the current target
    before,     \* before_: what the current target's file occupied
    after,      \* after_
    waited,     \* polls spent in release_disk()'s loop
    hopeless,   \* another distribution was running when the wait began
    idle,       \* polls since the last distribution stopped
    outcome,    \* how each target so far ended
    down        \* what the command has stopped and not started again since

perTarget == <<wasRunning, before, after, waited, hopeless>>
vars == <<machine, pc, job, todo, snapshot, perTarget, idle, outcome, down>>

Unasked == [known |-> FALSE, names |-> {}]
Unmeasured == -1

(* A target is a distribution, or the path of a file nobody is registered  *)
(* for; --all is every WSL2 distribution in some order.                    *)
Batch ==
    {<<x>> : x \in Wsl2 \cup Path} \cup
    {s \in [1 .. Cardinality(Wsl2) -> Wsl2] : \A d \in Wsl2 : \E i \in DOMAIN s : s[i] = d}

Job == [targets : Batch, trim : BOOLEAN, shutdown : BOOLEAN, restart : BOOLEAN,
        dryRun : BOOLEAN]

Now == todo[1]
Loose == Now \notin Wsl2

(* Nothing rewrites the registry meanwhile, so this is the vhdx_path that  *)
(* enumerate() read.                                                       *)
Disk0 == IF Loose THEN Now ELSE Home(Now)

(* A file occupies no more than what was ever written to it.               *)
Occupies(p) == IF Exists(p) THEN Cardinality(files[p].data) ELSE 0

Size == {Unmeasured} \cup 0 .. Cardinality(Write)
(* The errors before the disk was free, of the compaction, and the others. *)
Failure == {"unreleased", "uncompacted", "error"}
Outcome == {"ok", "preflight", "busy", "partial"} \cup Failure
CompactPc == {"snapshot", "plan", "trim", "trimPlain", "stop", "ask", "poll", "free",
              "measure", "open", "compact", "close", "size", "restart", "verify",
              "failed", "ended", "killed"}

TypeOK ==
    /\ MachineTypeOK
    /\ pc \in CompactPc
    /\ job \in Job
    /\ todo \in Seq(Wsl2 \cup Path)
    /\ snapshot \in [known : BOOLEAN, names : SUBSET Distro]
    /\ wasRunning \in BOOLEAN /\ hopeless \in BOOLEAN
    /\ before \in Size /\ after \in Size
    /\ waited \in 0 .. UnlockTimeout
    /\ idle \in 0 .. VmIdleTimeout
    /\ outcome \in Seq(Outcome)
    /\ down \subseteq Distro

Init ==
    /\ MachineInit
    /\ job \in Job
    /\ todo = job.targets
    /\ pc = "snapshot"
    /\ snapshot = Unasked
    /\ wasRunning = FALSE /\ hopeless = FALSE
    /\ before = Unmeasured /\ after = Unmeasured
    /\ waited = 0 /\ idle = 0
    /\ outcome = <<>>
    /\ down = {}
----------------------------------------------------------------------------
Goto(next) == pc' = next /\ UNCHANGED <<todo, outcome>>

(* A target is done with, however it went: the next one, if there is one.  *)
Record(code) ==
    /\ outcome' = Append(outcome, code)
    /\ todo' = Tail(todo)
    /\ pc' = IF Len(todo) = 1 THEN "ended" ELSE "plan"

(* compact_each() asks what is running once, before anything is stopped.   *)
TakeSnapshot ==
    /\ pc = "snapshot"
    /\ \/ ~Loose /\ snapshot' = [known |-> TRUE, names |-> Running]
       \/ (Loose \/ MayFail("snapshot")) /\ UNCHANGED snapshot
    /\ Goto("plan")
    /\ UNCHANGED <<machine, job, perTarget, idle, down>>

(* Occupied space as file_size_on_disk() finds it, if it can.              *)
Measured(old, p) == {Occupies(p)} \cup (IF MayFail("measure") THEN {old} ELSE {})

(* Whether the distribution was running, by the snapshot if there is one.  *)
Remembered ==
    IF snapshot.known THEN {Now \in snapshot.names}
    ELSE {Now \in Running} \cup (IF MayFail("running") THEN {FALSE} ELSE {})

Plan ==
    /\ pc = "plan"
    /\ \/ /\ ~Exists(Disk0)
          /\ Record("preflight")
          /\ UNCHANGED <<wasRunning, before, after>>
       \/ /\ Exists(Disk0)
          /\ before' \in Measured(Unmeasured, Disk0)
          /\ after' = Unmeasured
          /\ wasRunning' \in (IF Loose THEN {FALSE} ELSE Remembered)
          /\ IF job.dryRun THEN Record("ok")
             ELSE Goto(IF Loose THEN "free" ELSE IF job.trim THEN "trim" ELSE "stop")
    /\ UNCHANGED <<machine, job, snapshot, waited, hopeless, idle, down>>

(* run_fstrim() starts the guest if it is stopped.  An fstrim that knows no*)
(* -v is run again without it.                                             *)
Trim ==
    /\ pc \in {"trim", "trimPlain"}
    /\ \/ RunsIn(Now) /\ Goto("stop")
       \/ pc = "trim" /\ MayFail("rejected") /\ RunsIn(Now) /\ Goto("trimPlain")
       \/ CannotRunIn(Now) /\ Record("error")
       \/ MayFail("trim") /\ MayHaveRunIn(Now) /\ Record("error")
    /\ down' = down \ (Running' \ Running)
    /\ UNCHANGED <<files, registry, handles, written, job, snapshot, perTarget, idle>>

----------------------------------------------------------------------------
\* Mutant: everything is always shut down.
AllStopped ==
    /\ guest' = [g \in Distro |-> Off]
    /\ attached' = {} \/ (MayFail("linger") /\ UNCHANGED attached)

(* release_disk(): --shutdown stops every distribution and the VM itself,  *)
(* though its handles may linger; otherwise only the target is stopped,    *)
(* and the VM keeps its disk open.                                         *)
Stopped ==
    IF job.shutdown
    THEN /\ guest' = [g \in Distro |-> Off]
         /\ attached' = {} \/ (MayFail("linger") /\ UNCHANGED attached)
    ELSE guest' = [guest EXCEPT ![Now] = Off] /\ UNCHANGED attached

Stop ==
    /\ pc = "stop"
    /\ \/ Stopped /\ Goto("ask")
       \/ /\ MayFail(IF job.shutdown THEN "shutdown" ELSE "terminate")
          /\ Stopped \/ UNCHANGED <<guest, attached>>
          /\ Record("unreleased")
    /\ down' = down \cup (Running \ Running')
    /\ idle' = 0
    /\ UNCHANGED <<files, registry, handles, written, job, snapshot, perTarget>>

(* `wsl --list --running` can name the target for a moment after it has    *)
(* been stopped.                                                           *)
Listed == {Running} \cup (IF MayFail("stale") THEN {Running \cup {Now}} ELSE {})

\* Mutant: the target may block itself.
AllListed(listed) == listed

Blockers(listed) == listed \ {Now}

AskWhoElseRuns ==
    /\ pc = "ask"
    /\ \/ \E listed \in Listed : hopeless' = (Blockers(listed) # {})
       \/ MayFail("running") /\ hopeless' = FALSE
    /\ waited' = 0
    /\ Goto("poll")
    /\ UNCHANGED <<machine, job, snapshot, wasRunning, before, after, idle, down>>

\* Mutant: the deadline moves along with the clock.
SleepForever ==
    /\ waited' = waited
    /\ idle' = IF Running = {} /\ idle < VmIdleTimeout THEN idle + 1 ELSE idle
    /\ IF idle' = VmIdleTimeout THEN attached' = {} ELSE UNCHANGED attached

(* One poll later.  An utility VM with nothing to do is gone by the time   *)
(* VmIdleTimeout polls have passed.                                        *)
Sleep ==
    /\ waited' = waited + 1
    /\ idle' = IF Running = {} /\ idle < VmIdleTimeout THEN idle + 1 ELSE idle
    /\ IF idle' = VmIdleTimeout THEN attached' = {} ELSE UNCHANGED attached

Poll ==
    /\ pc = "poll"
    /\ \/ ~InUse(Disk0) /\ Goto("measure") /\ UNCHANGED <<waited, idle, attached>>
       \/ /\ InUse(Disk0) /\ (hopeless \/ waited >= UnlockTimeout)
          /\ Record("busy")
          /\ UNCHANGED <<waited, idle, attached>>
       \/ InUse(Disk0) /\ ~hopeless /\ waited < UnlockTimeout /\ Goto("poll") /\ Sleep
       \/ MayFail("locked") /\ Record("unreleased") /\ UNCHANGED <<waited, idle, attached>>
    /\ UNCHANGED <<files, registry, guest, handles, written, job, snapshot, wasRunning,
                   before, after, hopeless, down>>

(* require_free_file(): a loose file is asked about once.                  *)
RequireFreeFile ==
    /\ pc = "free"
    /\ \/ ~InUse(Disk0) /\ Goto("measure")
       \/ InUse(Disk0) /\ Record("busy")
       \/ MayFail("locked") /\ Record("error")
    /\ UNCHANGED <<machine, job, snapshot, perTarget, idle, down>>

----------------------------------------------------------------------------
\* Mutant: the plan's reading is kept.
KeepReading ==
    /\ pc = "measure"
    /\ Goto("open")
    /\ UNCHANGED <<machine, job, snapshot, perTarget, idle, down>>

(* The size is taken again now that nothing writes to the file.            *)
MeasureBefore ==
    /\ pc = "measure"
    /\ before' \in Measured(before, Disk0)
    /\ Goto("open")
    /\ UNCHANGED <<machine, job, snapshot, wasRunning, after, waited, hopeless, idle, down>>

OwnHandle == [by |-> Self, path |-> Disk0, shared |-> FALSE]

Open ==
    /\ pc = "open"
    /\ \/ /\ Exists(Disk0) /\ ~InUse(Disk0)
          /\ handles' = handles \cup {OwnHandle}
          /\ Goto("compact")
       \/ /\ ~Exists(Disk0) \/ InUse(Disk0) \/ MayFail("open")
          /\ Goto("failed")
          /\ UNCHANGED handles
    /\ UNCHANGED <<files, registry, guest, attached, written, job, snapshot, perTarget,
                   idle, down>>

CompactDisk ==
    /\ pc = "compact"
    /\ Goto("close") \/ (MayFail("compact") /\ Goto("failed"))
    /\ UNCHANGED <<machine, job, snapshot, perTarget, idle, down>>

Close ==
    /\ pc = "close"
    /\ handles' = handles \ {OwnHandle}
    /\ Goto("size")
    /\ UNCHANGED <<files, registry, guest, attached, written, job, snapshot, perTarget,
                   idle, down>>

(* What a compaction leaves is at most what the file holds.                *)
MeasureAfter ==
    /\ pc = "size"
    /\ \/ after' \in 0 .. Occupies(Disk0)
       \/ MayFail("measure") /\ UNCHANGED after
    /\ Goto("restart")
    /\ UNCHANGED <<machine, job, snapshot, wasRunning, before, waited, hopeless, idle, down>>

\* Mutant: whether it was running is asked after it was stopped.
WantsRestartIfUp == ~Loose /\ job.restart /\ Now \in Running

WantsRestart == ~Loose /\ job.restart /\ wasRunning

(* restart_guest(): a distribution that does not come up is only reported. *)
RestartAttempt ==
    IF WantsRestart
    THEN RunsIn(Now) \/ CannotRunIn(Now) \/ (MayFail("boot") /\ MayHaveRunIn(Now))
    ELSE UNCHANGED <<guest, attached>>

Restart ==
    /\ pc = "restart"
    /\ RestartAttempt
    /\ down' = down \ (Running' \ Running)
    /\ Goto("verify")
    /\ UNCHANGED <<files, registry, handles, written, job, snapshot, perTarget, idle>>

(* restart_if_asked() runs before the handle, if there is one, is closed.  *)
RestartAndFail ==
    /\ pc = "failed"
    /\ RestartAttempt
    /\ down' = down \ (Running' \ Running)
    /\ handles' = handles \ {OwnHandle}
    /\ Record(IF OwnHandle \in handles THEN "uncompacted" ELSE "error")
    /\ UNCHANGED <<files, registry, written, job, snapshot, perTarget, idle>>

Grew == before # Unmeasured /\ after # Unmeasured /\ after > before

Verify ==
    /\ pc = "verify"
    /\ Record(IF Grew THEN "partial" ELSE "ok")
    /\ UNCHANGED <<machine, job, snapshot, perTarget, idle, down>>

Killed ==
    /\ pc \notin {"snapshot", "plan", "ended", "killed"}
    /\ pc' = "killed"
    /\ handles' = {h \in handles : h.by # Self}
    /\ UNCHANGED <<files, registry, guest, attached, written, job, todo, snapshot,
                   perTarget, idle, outcome, down>>

----------------------------------------------------------------------------
Step ==
    \/ TakeSnapshot \/ Plan \/ Trim
    \/ Stop \/ AskWhoElseRuns \/ Poll \/ RequireFreeFile
    \/ MeasureBefore \/ Open \/ CompactDisk \/ Close \/ MeasureAfter
    \/ Restart \/ RestartAndFail \/ Verify

(* Once it has been stopped, the target is used only if UsedMeanwhile, and *)
(* so is a distribution that has the file a target.                        *)
Untouched == {"ask", "poll", "free", "measure", "open", "compact", "close", "size",
              "restart", "verify", "failed"}

InUserHands == IF UsedMeanwhile \/ pc \notin Untouched THEN Distro
    ELSE {g \in Distro : g # Now /\ Home(g) # Disk0}

(* A scanner opens a disk for a while, letting others read it.             *)
Scan ==
    /\ \E s \in Scanners, p \in Path :
          LET h == [by |-> s, path |-> p, shared |-> TRUE] IN
          \/ CanRead(p) /\ handles' = handles \cup {h}
          \/ h \in handles /\ handles' = handles \ {h}
    /\ UNCHANGED <<files, registry, guest, attached, written>>

Environment ==
    /\ MachineNext(InUserHands, {}) \/ Scan
    /\ idle' = IF Running' = {} THEN idle ELSE 0
    /\ UNCHANGED <<pc, job, todo, snapshot, perTarget, outcome, down>>

Next == Step \/ Killed \/ Environment

Spec == Init /\ [][Next]_vars

(* The process is scheduled, and every call it makes returns: those that   *)
(* wait for WSL or for the disk have a timeout.                            *)
FairSpec == Spec /\ WF_vars(Step)

----------------------------------------------------------------------------
(* With the target left alone, a compaction that worked is never reported  *)
(* as having grown the disk, however much the guest wrote before it.       *)
NeverSeenToGrow == \A i \in DOMAIN outcome : outcome[i] # "partial"

(* Without --shutdown nothing but a target is ever stopped (decision D9).  *)
OnlyTargetsAreStopped ==
    ~job.shutdown => \A d \in down : \E i \in DOMAIN job.targets : job.targets[i] = d

(* A disk is refused as busy only when somebody really kept it: another    *)
(* distribution ran when the wait began (not the target itself, which wsl  *)
(* may list for a moment longer) or during it, so that the machine was not *)
(* idle for long enough, or it is not the utility VM that has the file open*)
(* (what unlock_timeout's default is chosen for).                          *)
BusyMeansHeld ==
    [][/\ pc = "ask" /\ pc' = "poll" /\ hopeless' => Running \ {Now} # {}
       /\ (pc = "poll" /\ outcome' = Append(outcome, "busy"))
             => hopeless \/ (idle < waited /\ idle < VmIdleTimeout) \/ Held(Disk0)]_vars

Finished == pc = "ended" /\ ~job.dryRun /\ job.restart

(* --restart brings the one distribution back that was running, however    *)
(* the command ends, but on two paths: the disk was not released, and the  *)
(* compaction failed while the command's own handle still denied the disk  *)
(* (restart_if_asked() after every other step of execute()).               *)
RestartsTheOne ==
    \A d \in Wsl2 :
        Finished /\ d \in snapshot.names /\ job.targets = <<d>> /\ d \in down =>
            outcome[1] \in {"busy", "unreleased", "uncompacted"}

(* compact.cpp:340: "--restart promises the distribution comes back", and a*)
(* run that stopped it and then failed does not leave it stopped.          *)
(* The code does not keep this (README, section 6).                        *)
RestartBringsItBack ==
    \A d \in Wsl2 :
        Finished /\ d \in snapshot.names /\ job.targets = <<d>> => d \notin down

(* compact.h:109: with --all --shutdown --restart too, every target there  *)
(* was running is put back; if all went well, none of them is left down.   *)
(* The code does not keep this (README, section 6).                        *)
RestartBringsAllBack ==
    Finished /\ (\A i \in DOMAIN outcome : outcome[i] = "ok") =>
        \A i \in DOMAIN job.targets :
            job.targets[i] \in snapshot.names => job.targets[i] \notin down

(* A command ends, whoever holds on to the disk.                           *)
CompactEnds == <>(pc \in {"ended", "killed"})

=============================================================================
