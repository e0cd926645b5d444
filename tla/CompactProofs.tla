---------------------------- MODULE CompactProofs ----------------------------
(***************************************************************************)
(* Proofs about `wsldisk compact`, for every batch of targets, every       *)
(* number of distributions and every timeout.                              *)
(***************************************************************************)
EXTENDS Compact, WslProofs, SequenceTheorems, FiniteSetTheorems

Targets == {job.targets[i] : i \in DOMAIN job.targets}

Over == {"ended", "killed"}

(* There is a current target until the command is over.                    *)
Sound ==
    /\ MachineTypeOK /\ GuestsHaveDisks
    /\ job \in Job
    /\ todo \in Seq(Targets)
    /\ pc \notin Over => todo # <<>>

DownAreTargets == ~job.shutdown => down \subseteq Targets

----------------------------------------------------------------------------
(* Whatever is on the command line is a distribution or a path, and there  *)
(* is something.                                                           *)
LEMMA TargetsAreKnown ==
    ASSUME job \in Job
    PROVE  /\ Targets \subseteq Wsl2 \cup Path
           /\ job.targets \in Seq(Targets) /\ job.targets # <<>>
<1> DEFINE batch == job.targets
           n == Cardinality(Wsl2)
<1>1. batch \in Batch
  BY DEF Job
<1>2. n \in Nat /\ n # 0
  BY CompactAssumption, FS_CardinalityType, FS_EmptySet
<1>3. CASE \E x \in Wsl2 \cup Path : batch = <<x>>
  <2>1. PICK x \in Wsl2 \cup Path : batch = <<x>>
    BY <1>3
  <2>2. DOMAIN batch = {1} /\ batch[1] = x
    BY <2>1
  <2>3. Targets = {x}
    BY <2>2 DEF Targets
  <2> QED
    BY <2>1, <2>3
<1>4. CASE batch \in [1 .. n -> Wsl2]
  <2>1. DOMAIN batch = 1 .. n /\ 1 \in DOMAIN batch /\ \A i \in 1 .. n : batch[i] \in Wsl2
    BY <1>2, <1>4
  <2>2. batch \in [1 .. n -> Targets] /\ Targets \subseteq Wsl2
    BY <1>4, <2>1 DEF Targets
  <2>3. batch \in Seq(Targets)
    BY <1>2, <2>2
  <2>4. batch # <<>>
    <3> SUFFICES ASSUME batch = <<>> PROVE FALSE
      OBVIOUS
    <3> DEFINE m == Len(batch)
    <3>1. m = 0 /\ DOMAIN batch = 1 .. m
      BY <2>3, EmptySeq, LenProperties
    <3>2. 1 \in 1 .. m
      BY <2>1, <3>1
    <3> HIDE DEF m
    <3> QED
      BY <3>1, <3>2
  <2> QED
    BY <2>2, <2>3, <2>4
<1> QED
  BY <1>1, <1>3, <1>4 DEF Batch

(* The current target is one of them, and its disk has a path.             *)
LEMMA NowIsTarget ==
    ASSUME Sound, pc \notin Over
    PROVE  /\ Now \in Targets /\ Disk0 \in Path
           /\ Loose \/ Now \in Distro
<1>1. Now \in Targets
  BY HeadTailProperties DEF Sound, Now
<1>2. Now \in Wsl2 \cup Path
  BY <1>1, TargetsAreKnown DEF Sound
<1>3. Now \in Wsl2 => Home(Now) \in Path
  BY EntriesResolve, WslAssumption DEF Sound, MachineTypeOK, Home
<1> QED
  BY <1>1, <1>2, <1>3, WslAssumption DEF Disk0, Loose

(* Recording an outcome goes on to the next target, if there is one.       *)
LEMMA RecordMovesOn ==
    ASSUME NEW T, todo \in Seq(T), todo # <<>>, NEW code, Record(code)
    PROVE  /\ todo' \in Seq(T) /\ pc' \in {"plan", "ended"}
           /\ pc' = "plan" => todo' # <<>>
           /\ outcome' = Append(outcome, code)
<1> DEFINE n == Len(todo)
<1>1. /\ todo' \in Seq(T) /\ Len(todo') = n - 1 /\ n \in Nat /\ n # 0
  BY HeadTailProperties, EmptySeq DEF Record
<1>2. n # 1 => Len(todo') # 0
  <2> HIDE DEF n
  <2> QED
    BY <1>1
<1> QED
  BY <1>1, <1>2, EmptySeq DEF Record

(* What a step of the command leaves alone, and how it goes on.            *)
LEMMA StepShape ==
    ASSUME Sound, Step
    PROVE  /\ pc \notin Over
           /\ UNCHANGED <<files, registry, written, job>>
           /\ \/ UNCHANGED <<todo, outcome>> /\ pc' \notin Over
              \/ \E code : Record(code)
<1> USE DEF Goto, Over
<1>1. CASE TakeSnapshot \/ Plan \/ RequireFreeFile \/ MeasureBefore \/ CompactDisk \/ MeasureAfter
           \/ Verify \/ AskWhoElseRuns
  BY <1>1 DEF TakeSnapshot, Plan, RequireFreeFile, MeasureBefore, CompactDisk, MeasureAfter,
              Verify, AskWhoElseRuns, machine
<1>2. CASE Trim \/ Stop \/ Poll
  BY <1>2 DEF Trim, Stop, Poll
<1>3. CASE Open \/ Close \/ Restart \/ RestartAndFail
  BY <1>3 DEF Open, Close, Restart, RestartAndFail
<1> QED
  BY <1>1, <1>2, <1>3 DEF Step

(* A step starts or stops no guest but the target's own, unless the        *)
(* command was told to shut everything down.                               *)
LEMMA StepGuests ==
    ASSUME Sound, Step
    PROVE  /\ MachineTypeOK' /\ GuestsHaveDisks'
           /\ ~job.shutdown => \A g \in Distro \ {Now} : guest'[g] = guest[g]
<1>0. /\ pc \notin Over /\ UNCHANGED <<files, registry, written>> /\ Disk0 \in Path
      /\ MachineTypeOK /\ GuestsHaveDisks /\ (Loose \/ Now \in Distro)
  BY StepShape, NowIsTarget DEF Sound
<1>1. /\ handles' \subseteq Handle
  <2>1. OwnHandle \in Handle
    BY <1>0, CompactAssumption DEF OwnHandle, Handle
  <2>2. handles' \subseteq handles \cup {OwnHandle}
    BY DEF Step, TakeSnapshot, Plan, RequireFreeFile, MeasureBefore, CompactDisk, MeasureAfter,
           Verify, AskWhoElseRuns, machine, Trim, Stop, Poll, Open, Close, Restart, RestartAndFail
  <2> QED
    BY <1>0, <2>1, <2>2 DEF MachineTypeOK
<1>2. CASE UNCHANGED guest /\ attached' \subseteq attached
  BY <1>0, <1>1, <1>2 DEF MachineTypeOK, GuestsHaveDisks, Exists
<1>3. CASE RunsIn(Now) \/ CannotRunIn(Now) \/ MayHaveRunIn(Now)
  <2>1. CASE Now \in Distro
    BY <1>0, <1>1, <1>3, <2>1, BootTyped DEF MachineTypeOK
  <2>2. CASE Now \notin Distro
    <3>1. Now \notin Wsl2
      BY <2>2, WslAssumption
    <3>2. UNCHANGED <<guest, attached>>
      BY <1>3, <2>2, <3>1 DEF RunsIn, CannotRunIn, MayHaveRunIn, CanBoot, Running
    <3> QED
      BY <1>2, <3>2
  <2> QED
    BY <2>1, <2>2
<1>4. CASE Stopped
  <2>1. attached' \subseteq attached
    BY <1>4 DEF Stopped
  <2>2. CASE guest' = [g \in Distro |-> Off] /\ job.shutdown
    BY <1>0, <1>1, <2>1, <2>2 DEF MachineTypeOK, GuestsHaveDisks
  <2>3. CASE guest' = [guest EXCEPT ![Now] = Off]
    BY <1>0, <1>1, <2>1, <2>3 DEF MachineTypeOK, GuestsHaveDisks, Exists
  <2> QED
    BY <1>4, <2>2, <2>3 DEF Stopped
<1>5. CASE TakeSnapshot \/ Plan \/ RequireFreeFile \/ MeasureBefore \/ CompactDisk \/ MeasureAfter
           \/ Verify \/ AskWhoElseRuns \/ Open \/ Close
  BY <1>2, <1>5 DEF TakeSnapshot, Plan, RequireFreeFile, MeasureBefore, CompactDisk, MeasureAfter,
                    Verify, AskWhoElseRuns, Open, Close, machine
<1>6. CASE Poll
  BY <1>2, <1>6 DEF Poll, Sleep
<1>7. CASE Trim \/ Restart \/ RestartAndFail
  BY <1>2, <1>3, <1>7 DEF Trim, Restart, RestartAndFail, RestartAttempt
<1>8. CASE Stop
  BY <1>2, <1>4, <1>8 DEF Stop
<1> QED
  BY <1>5, <1>6, <1>7, <1>8 DEF Step

(* The command starts with its whole command line before it.               *)
LEMMA SoundStarts == Init => Sound /\ DownAreTargets
BY MachineStarts, TargetsAreKnown DEF Init, Sound, DownAreTargets

(* Users, guests and scanners leave the command alone.                     *)
LEMMA EnvironmentIsSound ==
    ASSUME Sound, Environment
    PROVE  /\ MachineTypeOK' /\ GuestsHaveDisks' /\ UNCHANGED registry
           /\ UNCHANGED <<pc, job, todo, outcome, down, before, after, waited>>
<1>1. UNCHANGED <<pc, job, todo, outcome, down, before, after, waited>>
  BY DEF Environment, perTarget
<1>2. CASE MachineNext(InUserHands, {})
  <2>1. InUserHands \in SUBSET Distro /\ {} \in SUBSET Path
    BY DEF InUserHands
  <2> QED
    BY <1>1, <1>2, <2>1, MachineStep DEF Sound
<1>3. CASE Scan
  <2>1. handles' \subseteq Handle
    <3>1. \A s \in Scanners, p \in Path : [by |-> s, path |-> p, shared |-> TRUE] \in Handle
      BY CompactAssumption DEF Handle
    <3> QED
      BY <1>3, <3>1 DEF Scan, Sound, MachineTypeOK
  <2> QED
    BY <1>1, <1>3, <2>1 DEF Scan, Sound, MachineTypeOK, GuestsHaveDisks, Exists
<1> QED
  BY <1>1, <1>2, <1>3 DEF Environment

(* No step loses the current target or stops what is not one.              *)
LEMMA SoundKept ==
    Sound /\ DownAreTargets /\ [Next]_vars => Sound' /\ DownAreTargets'
<1> SUFFICES ASSUME Sound, DownAreTargets, [Next]_vars PROVE Sound' /\ DownAreTargets'
  OBVIOUS
<1>1. CASE Step
  <2>1. Targets' = Targets /\ job' = job /\ MachineTypeOK' /\ GuestsHaveDisks'
    BY <1>1, StepShape, StepGuests DEF Targets
  <2>2. todo' \in Seq(Targets) /\ (pc' \notin Over => todo' # <<>>)
    BY <1>1, StepShape, RecordMovesOn DEF Sound, Over
  <2>3. ~job.shutdown => down' \subseteq Targets
    <3> SUFFICES ASSUME ~job.shutdown PROVE down' \subseteq Targets
      OBVIOUS
    <3>1. down' \subseteq down \cup (Running \ Running')
      BY <1>1 DEF Step, TakeSnapshot, Plan, RequireFreeFile, MeasureBefore, CompactDisk,
                  MeasureAfter, Verify, AskWhoElseRuns, Trim, Stop, Poll, Open, Close, Restart,
                  RestartAndFail
    <3>2. Running \ Running' \subseteq {Now}
      BY <1>1, StepGuests DEF Running
    <3> QED
      BY <1>1, <3>1, <3>2, StepShape, NowIsTarget DEF DownAreTargets
  <2> QED
    BY <2>1, <2>2, <2>3 DEF Sound, DownAreTargets
<1>2. CASE Killed
  BY <1>2 DEF Killed, perTarget, Sound, DownAreTargets, Targets, Over, MachineTypeOK,
              GuestsHaveDisks, Exists
<1>3. CASE Environment
  BY <1>3, EnvironmentIsSound DEF Sound, DownAreTargets, Targets
<1>4. CASE UNCHANGED vars
  BY <1>4 DEF vars, machine, Sound, DownAreTargets, Targets, MachineTypeOK, GuestsHaveDisks, Exists
<1> QED
  BY <1>1, <1>2, <1>3, <1>4 DEF Next

(* Until the command is over there is a target, and it is one of those on  *)
(* the command line.                                                       *)
THEOREM CompactIsSound == Spec => [](Sound /\ DownAreTargets)
BY SoundStarts, SoundKept, PTL DEF Spec

(* Without --shutdown nothing but a target is ever stopped (decision D9),  *)
(* however many targets there are and wherever the command fails.          *)
THEOREM CompactStopsOnlyTargets == Spec => []OnlyTargetsAreStopped
<1>1. Sound /\ DownAreTargets => OnlyTargetsAreStopped
  BY DEF DownAreTargets, Targets, OnlyTargetsAreStopped
<1> QED
  BY CompactIsSound, <1>1, PTL

----------------------------------------------------------------------------
(* From here on the target is left alone once it has been stopped, and its *)
(* size can be read.                                                       *)
TargetAlone == ~UsedMeanwhile /\ ~MayFail("measure")

(* The utility VM has the disk of every guest open, and is not thought     *)
(* idle while one runs.                                                    *)
VmIsUp ==
    /\ \A g \in Distro : guest[g] # Off => guest[g] \in attached
    /\ pc \in {"ask", "poll"} /\ Running # {} => idle = 0

(* From its release to its second measurement nobody runs from the disk,   *)
(* so the first measurement stays true of it.                              *)
DiskIsStill ==
    /\ pc \in {"measure", "open", "compact", "close", "size"} =>
          \A g \in Distro : guest[g] # Disk0
    /\ pc \in {"open", "compact", "close", "size"} => before = Occupies(Disk0)
    /\ pc \in {"restart", "verify"} => ~Grew
    /\ outcome \in Seq(Outcome \ {"partial"})

(* A file occupies a number of blocks.                                     *)
LEMMA OccupiesIsNat == ASSUME MachineTypeOK, NEW p \in Path PROVE Occupies(p) \in Nat
<1>1. CASE Exists(p)
  <2>1. files[p].data \in SUBSET Write
    BY <1>1 DEF MachineTypeOK, Exists, Disk
  <2> QED
    BY <1>1, <2>1, CompactAssumption, FS_Subset, FS_CardinalityType DEF Occupies
<1> QED
  BY <1>1 DEF Occupies

(* Nothing runs and nothing has been measured at first.                    *)
LEMMA StillStarts == Init => VmIsUp /\ DiskIsStill
BY EmptySeq DEF Init, MachineInit, VmIsUp, DiskIsStill

(* Only stopping everything, or everything having stopped, takes a disk    *)
(* from the utility VM.                                                    *)
LEMMA VmStaysUp == ASSUME Sound, VmIsUp, [Next]_vars PROVE VmIsUp'
<1>1. ASSUME UNCHANGED guest, attached \subseteq attached'
      PROVE  \A g \in Distro : guest'[g] # Off => guest'[g] \in attached'
  BY <1>1 DEF VmIsUp
<1>2. ASSUME NEW d, d \in Distro, guest' = [guest EXCEPT ![d] = Home(d)], attached \subseteq attached',
             Home(d) \in attached'
      PROVE  \A g \in Distro : guest'[g] # Off => guest'[g] \in attached'
  BY <1>2 DEF VmIsUp, Sound, MachineTypeOK
<1>3. ASSUME NEW d, guest' = [guest EXCEPT ![d] = Off], attached \subseteq attached'
      PROVE  \A g \in Distro : guest'[g] # Off => guest'[g] \in attached'
  BY <1>3 DEF VmIsUp, Sound, MachineTypeOK
<1>4. ASSUME RunsIn(Now) \/ CannotRunIn(Now) \/ MayHaveRunIn(Now)
      PROVE  \A g \in Distro : guest'[g] # Off => guest'[g] \in attached'
  BY <1>1, <1>2, <1>4, WslAssumption DEF RunsIn, CannotRunIn, MayHaveRunIn, CanBoot, Boot
<1>5. CASE Trim \/ Restart \/ RestartAndFail
  <2>1. pc' \notin {"ask", "poll"}
    BY <1>5 DEF Trim, Restart, RestartAndFail, Goto, Record
  <2> QED
    BY <1>1, <1>4, <1>5, <2>1 DEF Trim, Restart, RestartAndFail, RestartAttempt, VmIsUp
<1>6. CASE Stop
  <2>1. \A g \in Distro : guest'[g] # Off => guest'[g] \in attached'
    <3>1. CASE Stopped
      BY <1>3, <3>1 DEF Stopped
    <3>2. CASE UNCHANGED <<guest, attached>>
      BY <1>1, <3>2
    <3> QED
      BY <1>6, <3>1, <3>2 DEF Stop
  <2> QED
    BY <1>6, <2>1 DEF Stop, VmIsUp
<1>7. CASE Poll
  <2>1. pc = "poll" /\ UNCHANGED guest /\ Running' = Running
    BY <1>7 DEF Poll, Running
  <2>2. CASE UNCHANGED <<idle, attached>>
    BY <1>1, <2>1, <2>2 DEF VmIsUp
  <2>3. CASE Sleep /\ Running = {}
    BY <2>1, <2>3 DEF VmIsUp, Running
  <2>4. CASE Sleep /\ Running # {}
    <3>1. idle = 0 /\ idle' = 0
      BY <2>1, <2>4 DEF VmIsUp, Sleep
    <3>2. UNCHANGED attached
      BY <2>4, <3>1, CompactAssumption DEF Sleep
    <3> QED
      BY <1>1, <2>1, <3>1, <3>2 DEF VmIsUp
  <2> QED
    BY <1>7, <2>2, <2>3, <2>4 DEF Poll
<1>8. CASE AskWhoElseRuns
  <2>1. pc = "ask" /\ UNCHANGED <<guest, attached, idle>>
    BY <1>8 DEF AskWhoElseRuns, machine
  <2> QED
    BY <1>1, <2>1 DEF VmIsUp, Running
<1>9. CASE TakeSnapshot \/ Plan \/ RequireFreeFile \/ MeasureBefore \/ CompactDisk \/ MeasureAfter
           \/ Verify \/ Open \/ Close
  <2>1. UNCHANGED <<guest, attached>> /\ pc' \notin {"ask", "poll"}
    BY <1>9 DEF TakeSnapshot, Plan, RequireFreeFile, MeasureBefore, CompactDisk, MeasureAfter,
                Verify, Open, Close, machine, Goto, Record
  <2> QED
    BY <1>1, <2>1 DEF VmIsUp
<1>10. CASE Killed
  <2>1. UNCHANGED <<guest, attached>> /\ pc' = "killed"
    BY <1>10 DEF Killed
  <2> QED
    BY <1>1, <2>1 DEF VmIsUp
<1>11. CASE Environment
  <2>1. \A g \in Distro : guest'[g] # Off => guest'[g] \in attached'
    <3>1. ASSUME NEW d \in InUserHands, StartGuest(d)
          PROVE  \A g \in Distro : guest'[g] # Off => guest'[g] \in attached'
      <4>1. d \in Distro
        BY DEF InUserHands
      <4> QED
        BY <1>2, <3>1, <4>1 DEF StartGuest, Boot
    <3>2. ASSUME NEW d, NEW w, GuestWrites(d, w)
          PROVE  \A g \in Distro : guest'[g] # Off => guest'[g] \in attached'
      BY <1>1, <3>2 DEF GuestWrites
    <3>3. ASSUME NEW d, StopGuest(d)
          PROVE  \A g \in Distro : guest'[g] # Off => guest'[g] \in attached'
      BY <1>3, <3>3 DEF StopGuest
    <3>4. ASSUME VmIdlesOut
          PROVE  \A g \in Distro : guest'[g] # Off => guest'[g] \in attached'
      BY <3>4 DEF VmIdlesOut, Running
    <3>5. ASSUME Scan
          PROVE  \A g \in Distro : guest'[g] # Off => guest'[g] \in attached'
      BY <1>1, <3>5 DEF Scan
    <3> QED
      BY <1>11, <3>1, <3>2, <3>3, <3>4, <3>5 DEF Environment, MachineNext
  <2>2. pc' = pc /\ (Running' # {} => idle' = 0)
    BY <1>11 DEF Environment
  <2> QED
    BY <2>1, <2>2 DEF VmIsUp
<1>12. CASE UNCHANGED vars
  BY <1>1, <1>12 DEF vars, machine, VmIsUp, Running
<1> QED
  BY <1>5, <1>6, <1>7, <1>8, <1>9, <1>10, <1>11, <1>12 DEF Next, Step

(* Whoever else is at work, the disk of a released target stays as it is.  *)
LEMMA OthersKeepStill ==
    ASSUME TargetAlone, Sound, DiskIsStill, Environment \/ Killed \/ UNCHANGED vars
    PROVE  DiskIsStill'
<1>1. CASE Killed
  BY <1>1 DEF Killed, DiskIsStill
<1>2. CASE UNCHANGED vars
  BY <1>2 DEF vars, machine, perTarget, DiskIsStill, Grew, Disk0, Loose, Now, Home, Occupies, Exists
<1>3. CASE Environment
  <2>1. /\ UNCHANGED <<pc, job, todo, outcome, down, before, after>> /\ UNCHANGED registry
        /\ Disk0' = Disk0 /\ Grew' = Grew
    BY <1>3, EnvironmentIsSound DEF Disk0, Loose, Now, Home, Grew
  <2>2. CASE pc \in {"measure", "open", "compact", "close", "size"}
    <3>1. /\ \A g \in Distro : guest[g] # Disk0
          /\ \A g \in InUserHands : g \in Distro /\ Home(g) # Disk0
          /\ Disk0 \in Path
      BY <2>2, NowIsTarget DEF DiskIsStill, InUserHands, TargetAlone, Untouched, Over
    <3>2. \A g \in Distro : guest'[g] # Disk0
      <4>1. \A g \in Distro : guest'[g] \in {guest[g], Home(g), Off}
                              /\ (guest'[g] = Home(g) => guest[g] = Home(g) \/ g \in InUserHands
                                                         \/ guest'[g] = Off)
        <5>1. CASE MachineNext(InUserHands, {})
          <6>1. InUserHands \in SUBSET Distro /\ {} \in SUBSET Path
            BY DEF InUserHands
          <6> QED
            BY <5>1, <6>1, MachineStep DEF Sound
        <5>2. CASE Scan
          BY <5>2 DEF Scan
        <5> QED
          BY <1>3, <5>1, <5>2 DEF Environment
      <4>2. Off # Disk0
        BY <3>1, WslAssumption
      <4> QED
        BY <3>1, <4>1, <4>2
    <3>3. files'[Disk0] = files[Disk0]
      <4>1. ASSUME NEW d \in InUserHands, NEW w, GuestWrites(d, w)
            PROVE  files'[Disk0] = files[Disk0]
        <5>1. guest[d] # Disk0
          BY <3>1
        <5> QED
          BY <3>1, <4>1, <5>1 DEF GuestWrites, Sound, MachineTypeOK
      <4> QED
        BY <1>3, <4>1 DEF Environment, MachineNext, StartGuest, StopGuest, VmIdlesOut, Scan
    <3>4. Occupies(Disk0)' = Occupies(Disk0)
      BY <2>1, <3>3 DEF Occupies, Exists
    <3> QED
      BY <2>1, <2>2, <3>2, <3>4 DEF DiskIsStill
  <2>3. CASE pc \notin {"measure", "open", "compact", "close", "size"}
    BY <2>1, <2>3 DEF DiskIsStill
  <2> QED
    BY <2>2, <2>3
<1> QED
  BY <1>1, <1>2, <1>3

(* A target that is recorded ends with one of the codes its step gives it. *)
LEMMA RecordKeepsStill ==
    ASSUME Sound, DiskIsStill, pc \notin Over, NEW code \in Outcome \ {"partial"}, Record(code)
    PROVE  DiskIsStill'
<1>1. pc' \in {"plan", "ended"} /\ outcome' = Append(outcome, code)
  BY RecordMovesOn DEF Sound
<1>2. outcome' \in Seq(Outcome \ {"partial"})
  BY <1>1, AppendProperties DEF DiskIsStill
<1> QED
  BY <1>1, <1>2 DEF DiskIsStill

(* The command's own steps measure a disk that is free, and twice the same.*)
LEMMA StepKeepsStill ==
    ASSUME TargetAlone, Sound, VmIsUp, DiskIsStill, Step
    PROVE  DiskIsStill'
<1>0. pc \notin Over /\ UNCHANGED <<files, registry, job>> /\ Disk0 \in Path
      /\ Occupies(Disk0) \in Nat
  BY StepShape, NowIsTarget, OccupiesIsNat DEF Sound
<1>1. {"ok", "preflight", "busy", "unreleased", "uncompacted", "error"}
        \subseteq Outcome \ {"partial"}
  BY DEF Outcome, Failure
<1>2. ASSUME NEW code \in {"ok", "preflight", "busy", "unreleased", "uncompacted", "error"},
             Record(code)
      PROVE  DiskIsStill'
  BY <1>0, <1>1, <1>2, RecordKeepsStill
<1>3. ASSUME NEW next \in {"plan", "trim", "trimPlain", "stop", "ask", "poll", "free", "failed"},
             Goto(next)
      PROVE  DiskIsStill'
  BY <1>3 DEF Goto, DiskIsStill
<1>4. ASSUME UNCHANGED todo
      PROVE  Disk0' = Disk0 /\ Occupies(Disk0)' = Occupies(Disk0)
  BY <1>0, <1>4 DEF Disk0, Loose, Now, Home, Occupies, Exists
<1>5. ASSUME ~InUse(Disk0), Goto("measure"), UNCHANGED guest
      PROVE  DiskIsStill'
  <2>1. \A g \in Distro : guest[g] # Disk0
    BY <1>0, <1>5, WslAssumption DEF InUse, VmIsUp
  <2> QED
    BY <1>4, <1>5, <2>1 DEF Goto, DiskIsStill
<1>6. CASE TakeSnapshot \/ Plan \/ Trim \/ Stop \/ AskWhoElseRuns
  BY <1>2, <1>3, <1>6 DEF TakeSnapshot, Plan, Trim, Stop, AskWhoElseRuns
<1>7. CASE Poll
  BY <1>2, <1>3, <1>5, <1>7 DEF Poll
<1>8. CASE RequireFreeFile
  BY <1>2, <1>5, <1>8 DEF RequireFreeFile, machine
<1>9. CASE MeasureBefore
  <2>1. before' = Occupies(Disk0) /\ pc = "measure" /\ Goto("open") /\ UNCHANGED guest
    BY <1>9 DEF MeasureBefore, Measured, TargetAlone, machine
  <2> QED
    BY <1>4, <2>1 DEF Goto, DiskIsStill
<1>10. CASE Open
  <2>1. CASE Goto("compact")
    BY <1>4, <1>10, <2>1 DEF Open, Goto, DiskIsStill, perTarget
  <2> QED
    BY <1>3, <1>10, <2>1 DEF Open
<1>11. CASE CompactDisk
  <2>1. CASE Goto("close")
    BY <1>4, <1>11, <2>1 DEF CompactDisk, Goto, DiskIsStill, perTarget, machine
  <2> QED
    BY <1>3, <1>11, <2>1 DEF CompactDisk
<1>12. CASE Close
  BY <1>4, <1>12 DEF Close, Goto, DiskIsStill, perTarget
<1>13. CASE MeasureAfter
  <2>1. /\ pc = "size" /\ after' \in 0 .. Occupies(Disk0) /\ Goto("restart")
        /\ before' = before /\ before = Occupies(Disk0)
    BY <1>13 DEF MeasureAfter, TargetAlone, DiskIsStill
  <2>2. ~Grew'
    BY <1>0, <2>1 DEF Grew
  <2> QED
    BY <2>1, <2>2 DEF Goto, DiskIsStill
<1>14. CASE Restart
  BY <1>14 DEF Restart, Goto, DiskIsStill, Grew, perTarget
<1>15. CASE RestartAndFail
  BY <1>2, <1>15 DEF RestartAndFail
<1>16. CASE Verify
  <2>1. Record("ok")
    BY <1>16 DEF Verify, DiskIsStill
  <2> QED
    BY <1>2, <2>1
<1> QED
  BY <1>6, <1>7, <1>8, <1>9, <1>10, <1>11, <1>12, <1>13, <1>14, <1>15, <1>16 DEF Step

(* With the target left alone, a compaction that worked is never reported  *)
(* as having grown the disk, however much the guest wrote before it.       *)
THEOREM CompactNeverSeesGrowth == TargetAlone /\ Spec => []NeverSeenToGrow
<1>1. TargetAlone /\ Sound /\ VmIsUp /\ DiskIsStill /\ [Next]_vars => DiskIsStill'
  BY StepKeepsStill, OthersKeepStill DEF Next
<1>2. Sound /\ VmIsUp /\ [Next]_vars => VmIsUp'
  BY VmStaysUp
<1>3. DiskIsStill => NeverSeenToGrow
  <2> SUFFICES ASSUME DiskIsStill, NEW i \in DOMAIN outcome PROVE outcome[i] # "partial"
    BY DEF NeverSeenToGrow
  <2>1. outcome[i] \in Outcome \ {"partial"}
    BY LenProperties DEF DiskIsStill
  <2> QED
    BY <2>1
<1>4. TargetAlone => TargetAlone'
  BY DEF TargetAlone, MayFail
<1> QED
  BY CompactIsSound, StillStarts, <1>1, <1>2, <1>3, <1>4, PTL DEF Spec

----------------------------------------------------------------------------
(* A utility VM that was idle for as long as it takes has no disk open; and*)
(* an outcome is there for every target that was recorded.                 *)
VmLetsGo ==
    /\ idle \in 0 .. VmIdleTimeout /\ waited \in Nat
    /\ pc \in {"ask", "poll"} /\ idle = VmIdleTimeout => attached = {}
    /\ outcome \in Seq(Outcome)

(* Nothing has been idle yet.                                              *)
LEMMA VmLetsGoStarts == Init => VmLetsGo
BY CompactAssumption, EmptySeq DEF Init, MachineInit, VmLetsGo

(* Whatever boots a distribution starts the wait over.                     *)
LEMMA VmKeepsLettingGo == ASSUME Sound, VmLetsGo, [Next]_vars PROVE VmLetsGo'
<1>1. VmIdleTimeout \in Nat \ {0}
  BY CompactAssumption
<1>2. ASSUME NEW code \in Outcome, Record(code), pc \notin Over, UNCHANGED <<idle, waited>>
      PROVE  VmLetsGo'
  <2>1. pc' \in {"plan", "ended"} /\ outcome' = Append(outcome, code)
    BY <1>2, RecordMovesOn DEF Sound
  <2>2. outcome' \in Seq(Outcome)
    BY <2>1, AppendProperties DEF VmLetsGo
  <2> QED
    BY <1>2, <2>1, <2>2 DEF VmLetsGo
<1>3. {"ok", "preflight", "busy", "partial", "unreleased", "uncompacted", "error"} \subseteq Outcome
  BY DEF Outcome, Failure
<1>4. ASSUME NEW next, next \notin {"ask", "poll"}, Goto(next), UNCHANGED <<idle, waited>>
      PROVE  VmLetsGo'
  BY <1>4 DEF Goto, VmLetsGo
<1>5. ASSUME Step PROVE pc \notin Over
  BY <1>5, StepShape
<1>6. CASE Stop
  <2>1. idle' = 0 /\ waited' = waited
    BY <1>6 DEF Stop, perTarget
  <2>2. outcome' \in Seq(Outcome)
    <3>1. CASE Goto("ask")
      BY <3>1 DEF Goto, VmLetsGo
    <3>2. CASE Record("unreleased")
      BY <1>3, <3>2, AppendProperties DEF Record, VmLetsGo
    <3> QED
      BY <1>6, <3>1, <3>2 DEF Stop
  <2> QED
    BY <1>1, <2>1, <2>2 DEF VmLetsGo
<1>7. CASE AskWhoElseRuns
  BY <1>7 DEF AskWhoElseRuns, machine, Goto, VmLetsGo
<1>8. CASE Poll
  <2>1. CASE Goto("poll") /\ Sleep
    <3>1. idle' \in 0 .. VmIdleTimeout /\ waited' \in Nat /\ (idle' = VmIdleTimeout => attached' = {})
      BY <1>1, <2>1 DEF Sleep, VmLetsGo
    <3> QED
      BY <2>1, <3>1 DEF Goto, VmLetsGo
  <2>2. CASE Goto("measure") /\ UNCHANGED <<idle, waited>>
    BY <1>4, <2>2
  <2>3. CASE (Record("busy") \/ Record("unreleased")) /\ UNCHANGED <<idle, waited>>
    BY <1>2, <1>3, <1>5, <1>8, <2>3 DEF Step
  <2> QED
    BY <1>8, <2>1, <2>2, <2>3 DEF Poll
<1>9. CASE TakeSnapshot \/ Plan \/ Trim \/ RequireFreeFile \/ MeasureBefore \/ Open
  <2>1. UNCHANGED <<idle, waited>> /\ pc \notin Over
    BY <1>5, <1>9 DEF Step, TakeSnapshot, Plan, Trim, RequireFreeFile, MeasureBefore, Open, perTarget
  <2>2. \/ \E next \in {"plan", "trim", "trimPlain", "stop", "free", "measure", "open", "compact",
                        "failed"} : Goto(next)
        \/ \E code \in {"preflight", "ok", "error", "busy"} : Record(code)
    BY <1>9 DEF TakeSnapshot, Plan, Trim, RequireFreeFile, MeasureBefore, Open
  <2> QED
    BY <1>2, <1>3, <1>4, <2>1, <2>2
<1>10. CASE CompactDisk \/ Close \/ MeasureAfter \/ Restart \/ RestartAndFail \/ Verify
  <2>1. UNCHANGED <<idle, waited>> /\ pc \notin Over
    BY <1>5, <1>10 DEF Step, CompactDisk, Close, MeasureAfter, Restart, RestartAndFail, Verify,
                       perTarget
  <2>2. \/ \E next \in {"close", "failed", "size", "restart", "verify"} : Goto(next)
        \/ \E code \in {"uncompacted", "error", "partial", "ok"} : Record(code)
    BY <1>10 DEF CompactDisk, Close, MeasureAfter, Restart, RestartAndFail, Verify
  <2> QED
    BY <1>2, <1>3, <1>4, <2>1, <2>2
<1>11. CASE Killed
  BY <1>11 DEF Killed, perTarget, VmLetsGo
<1>12. CASE Environment
  <2>1. UNCHANGED <<pc, outcome, waited>> /\ idle' \in 0 .. VmIdleTimeout
    BY <1>1, <1>12 DEF Environment, perTarget, VmLetsGo
  <2>2. ASSUME idle' = VmIdleTimeout
        PROVE  idle = VmIdleTimeout /\ Running' = {}
    BY <1>1, <1>12, <2>2 DEF Environment
  <2>3. ASSUME Running' = {} PROVE attached' = attached \/ attached' = {}
    <3>1. ASSUME NEW g \in InUserHands, StartGuest(g) PROVE FALSE
      <4>1. g \in Distro /\ Home(g) \in Path
        BY EntriesResolve DEF InUserHands, Sound, MachineTypeOK, Home
      <4>2. guest'[g] # Off
        BY <3>1, <4>1, WslAssumption DEF StartGuest, Boot, Sound, MachineTypeOK
      <4> QED
        BY <2>3, <4>1, <4>2 DEF Running
    <3> QED
      BY <1>12, <3>1 DEF Environment, MachineNext, GuestWrites, StopGuest, VmIdlesOut,
                         StrayAppears, Scan
  <2> QED
    BY <2>1, <2>2, <2>3 DEF VmLetsGo
<1>13. CASE UNCHANGED vars
  BY <1>13 DEF vars, machine, perTarget, VmLetsGo
<1> QED
  BY <1>6, <1>7, <1>8, <1>9, <1>10, <1>11, <1>12, <1>13 DEF Next, Step

(* When the wait is as long as an idle utility VM lives, as the defaults   *)
(* of both have it, a disk is refused as busy only when somebody kept it:  *)
(* another distribution ran when the wait began or during it, or somebody  *)
(* besides the utility VM has the file open.                               *)
THEOREM CompactBusyMeansHeld == UnlockTimeout >= VmIdleTimeout /\ Spec => BusyMeansHeld
<1> DEFINE Asked == pc = "ask" /\ pc' = "poll" /\ hopeless' => Running \ {Now} # {}
           Refused == pc = "poll" /\ outcome' = Append(outcome, "busy")
                        => hopeless \/ (idle < waited /\ idle < VmIdleTimeout) \/ Held(Disk0)
           Ok == /\ pc = "ask" /\ pc' = "poll" /\ hopeless' => Running \ {Now} # {}
                 /\ (pc = "poll" /\ outcome' = Append(outcome, "busy"))
                      => hopeless \/ (idle < waited /\ idle < VmIdleTimeout) \/ Held(Disk0)
<1>1. ASSUME [Next]_vars PROVE Asked
  <2> SUFFICES ASSUME pc = "ask", pc' = "poll", hopeless' PROVE Running \ {Now} # {}
    OBVIOUS
  <2>1. AskWhoElseRuns
    BY <1>1 DEF Next, Step, TakeSnapshot, Plan, RequireFreeFile, MeasureBefore, CompactDisk,
                MeasureAfter, Verify, Trim, Stop, Poll, Open, Close, Restart, RestartAndFail,
                Killed, Environment, vars
  <2>2. PICK listed \in Listed : hopeless' = (Blockers(listed) # {})
    BY <2>1 DEF AskWhoElseRuns
  <2> QED
    BY <2>2 DEF Listed, Blockers
<1>2. ASSUME UnlockTimeout >= VmIdleTimeout, Sound, VmIsUp, VmLetsGo, [Next]_vars PROVE Refused
  <2> SUFFICES ASSUME pc = "poll", outcome' = Append(outcome, "busy"), ~hopeless,
                      ~(idle < waited /\ idle < VmIdleTimeout)
               PROVE  Held(Disk0)
    OBVIOUS
  <2>1. outcome' # outcome /\ Append(outcome, "busy") # Append(outcome, "unreleased")
    <3>1. outcome \in Seq(Outcome) /\ {"busy", "unreleased"} \subseteq Outcome
      BY <1>2 DEF VmLetsGo, Outcome, Failure
    <3>2. /\ Len(outcome') = Len(outcome) + 1 /\ Len(outcome) \in Nat
          /\ Append(outcome, "busy")[Len(outcome) + 1] = "busy"
          /\ Append(outcome, "unreleased")[Len(outcome) + 1] = "unreleased"
      BY <3>1, AppendProperties, LenProperties
    <3> QED
      BY <3>2
  <2>2. Poll
    BY <1>2, <2>1 DEF Next, Step, TakeSnapshot, Plan, RequireFreeFile, MeasureBefore, CompactDisk,
                      MeasureAfter, Verify, Trim, Stop, AskWhoElseRuns, Open, Close, Restart,
                      RestartAndFail, Killed, Environment, vars
  <2>3. InUse(Disk0) /\ waited >= UnlockTimeout
    BY <2>1, <2>2 DEF Poll, Goto, Record
  <2>4. idle = VmIdleTimeout
    <3>1. /\ VmIdleTimeout \in Nat /\ UnlockTimeout \in Nat /\ idle \in 0 .. VmIdleTimeout
          /\ waited \in Nat
      BY <1>2, CompactAssumption DEF VmLetsGo
    <3> QED
      BY <1>2, <2>3, <3>1
  <2>5. Disk0 \notin attached
    BY <1>2, <2>4 DEF VmLetsGo
  <2> QED
    BY <2>3, <2>5 DEF InUse
<1>3. (UnlockTimeout >= VmIdleTimeout) => (UnlockTimeout >= VmIdleTimeout)'
  OBVIOUS
<1>4. Asked /\ Refused => Ok
  OBVIOUS
<1> HIDE DEF Asked, Refused, Ok
<1>5. BusyMeansHeld <=> [][Ok]_vars
  BY DEF BusyMeansHeld, Ok
<1> QED
  BY CompactIsSound, StillStarts, VmLetsGoStarts, VmStaysUp, VmKeepsLettingGo, <1>1, <1>2, <1>3,
     <1>4, <1>5, PTL DEF Spec

----------------------------------------------------------------------------
(* From here on nothing opens a disk besides the command, nobody uses a    *)
(* target once it has been stopped, and a whole disk that is free boots.   *)
Undisturbed == ~UsedMeanwhile /\ Scanners = {} /\ ~MayFail("boot")

(* No two distributions share a disk; what runs, or ran when the command   *)
(* asked, has a whole one; and the only handle is the command's own.       *)
GuestsAtHome ==
    /\ \A g, h \in Distro : g # h => Home(g) # Home(h)
    /\ \A g \in Distro : guest[g] # Off => guest[g] = Home(g) /\ files[Home(g)].whole

SnapshotBoots ==
    /\ ~snapshot.known => snapshot.names = {}
    /\ snapshot.names \subseteq Distro
    /\ \A g \in snapshot.names : Exists(Home(g)) /\ files[Home(g)].whole

OnlyOwnHandle == handles \subseteq (IF pc \in {"compact", "close", "failed"} THEN {OwnHandle} ELSE {})

Calm == GuestsAtHome /\ SnapshotBoots /\ OnlyOwnHandle

(* Nothing runs, nothing is open and nobody has been asked at first.       *)
LEMMA CalmStarts == Init => Calm
BY DEF Init, MachineInit, Unasked, Calm, GuestsAtHome, SnapshotBoots, OnlyOwnHandle

(* A guest boots from a complete disk where its entry says.                *)
BootsWhole(g) == guest'[g] = Home(g) /\ Exists(Home(g)) /\ files[Home(g)].whole

(* Guests that stop, or boot from a whole disk, and disks that stay whole. *)
LEMMA StaysCalm ==
    ASSUME Sound, GuestsAtHome, SnapshotBoots, UNCHANGED <<registry, snapshot>>,
           \A p \in Path : Exists(p) => Exists(p)' /\ files'[p].whole = files[p].whole,
           \A g \in Distro : guest'[g] \in {guest[g], Off} \/ BootsWhole(g)
    PROVE  GuestsAtHome' /\ SnapshotBoots'
<1>1. \A g \in Distro : Home(g) \in Path /\ Home(g)' = Home(g)
  BY EntriesResolve DEF Sound, MachineTypeOK, Home
<1>2. ASSUME NEW g \in Distro, guest'[g] # Off
      PROVE  guest'[g] = Home(g) /\ files'[Home(g)].whole
  <2>1. guest'[g] = Home(g) /\ Exists(Home(g)) /\ files[Home(g)].whole
    BY <1>2 DEF BootsWhole, GuestsAtHome, Sound, GuestsHaveDisks
  <2> QED
    BY <1>1, <2>1
<1>3. GuestsAtHome'
  BY <1>1, <1>2 DEF GuestsAtHome
<1>4. SnapshotBoots'
  <2>1. \A g \in snapshot.names : g \in Distro /\ Exists(Home(g))' /\ files'[Home(g)].whole
    BY <1>1 DEF SnapshotBoots
  <2> QED
    BY <1>1, <2>1 DEF SnapshotBoots, Exists
<1> QED
  BY <1>3, <1>4

(* The command starts guests from whole disks and holds one disk at a time.*)
LEMMA StepStaysCalm == ASSUME Sound, Calm, Step PROVE Calm'
<1>0. /\ pc \notin Over /\ UNCHANGED <<files, registry, written, job>>
      /\ Loose \/ Now \in Distro
  BY StepShape, NowIsTarget
<1>1. \A g \in Distro : guest'[g] \in {guest[g], Off} \/ BootsWhole(g)
  <2>1. guest \in [Distro -> Path \cup {Off}]
    BY DEF Sound, MachineTypeOK
  <2>2. ASSUME RunsIn(Now) \/ CannotRunIn(Now) \/ MayHaveRunIn(Now)
        PROVE  \/ UNCHANGED guest
               \/ /\ guest' = [guest EXCEPT ![Now] = Home(Now)]
                  /\ Exists(Home(Now)) /\ files[Home(Now)].whole
    BY <2>2 DEF RunsIn, CannotRunIn, MayHaveRunIn, CanBoot, Boot
  <2>3. CASE Trim \/ Restart \/ RestartAndFail
    BY <2>1, <2>2, <2>3 DEF Trim, Restart, RestartAndFail, RestartAttempt, BootsWhole
  <2>4. CASE Stop
    BY <2>1, <2>4 DEF Stop, Stopped
  <2>5. CASE TakeSnapshot \/ Plan \/ RequireFreeFile \/ MeasureBefore \/ CompactDisk \/ MeasureAfter
             \/ Verify \/ AskWhoElseRuns \/ Poll \/ Open \/ Close
    <3>1. UNCHANGED guest
      BY <2>5 DEF TakeSnapshot, Plan, RequireFreeFile, MeasureBefore, CompactDisk, MeasureAfter,
                  Verify, AskWhoElseRuns, Poll, Open, Close, machine
    <3> QED
      BY <3>1
  <2> QED
    BY <2>3, <2>4, <2>5 DEF Step
<1>2. \A p \in Path : Exists(p) => Exists(p)' /\ files'[p].whole = files[p].whole
  BY <1>0 DEF Exists
<1>3. ASSUME UNCHANGED snapshot PROVE GuestsAtHome' /\ SnapshotBoots'
  <2>1. UNCHANGED <<registry, snapshot>> /\ GuestsAtHome /\ SnapshotBoots
    BY <1>0, <1>3 DEF Calm
  <2> QED
    BY <1>1, <1>2, <2>1, StaysCalm
<1>4. ASSUME TakeSnapshot, snapshot' = [known |-> TRUE, names |-> Running]
      PROVE  GuestsAtHome' /\ SnapshotBoots'
  <2>1. UNCHANGED <<registry, files, guest>>
    BY <1>4 DEF TakeSnapshot, machine
  <2>2. \A g \in Running : g \in Distro /\ Exists(Home(g)) /\ files[Home(g)].whole
    BY DEF Running, Calm, GuestsAtHome, Sound, GuestsHaveDisks
  <2>3. snapshot'.known /\ snapshot'.names = Running
    BY <1>4
  <2>4. GuestsAtHome'
    BY <2>1 DEF Calm, GuestsAtHome, Home
  <2>5. SnapshotBoots'
    BY <2>1, <2>2, <2>3 DEF SnapshotBoots, Home, Exists
  <2> QED
    BY <2>4, <2>5
<1>5. GuestsAtHome' /\ SnapshotBoots'
  <2> HIDE DEF Calm
  <2> QED
    BY <1>3, <1>4 DEF Step, TakeSnapshot, Plan, RequireFreeFile, MeasureBefore, CompactDisk,
                    MeasureAfter, Verify, AskWhoElseRuns, Poll, Open, Close, Trim, Stop, Restart,
                    RestartAndFail
<1>6. OnlyOwnHandle'
  <2>1. UNCHANGED todo => OwnHandle' = OwnHandle
    BY <1>0 DEF OwnHandle, Disk0, Loose, Now, Home
  <2>2. ASSUME NEW code, Record(code) PROVE pc' \notin {"compact", "close", "failed"}
    BY <2>2 DEF Record
  <2>3. CASE Open \/ CompactDisk
    BY <2>1, <2>3 DEF Open, CompactDisk, machine, Goto, Calm, OnlyOwnHandle
  <2>4. CASE Close \/ RestartAndFail
    <3>1. handles' = handles \ {OwnHandle} /\ pc' \notin {"compact", "close", "failed"}
      BY <2>2, <2>4 DEF Close, RestartAndFail, Goto
    <3> QED
      BY <3>1 DEF Calm, OnlyOwnHandle
  <2>5. CASE TakeSnapshot \/ Plan \/ RequireFreeFile \/ MeasureBefore \/ MeasureAfter \/ Verify
             \/ AskWhoElseRuns \/ Poll \/ Trim \/ Stop \/ Restart
    <3>1. handles' = handles /\ pc \notin {"compact", "close", "failed"}
          /\ pc' \notin {"compact", "close", "failed"}
      BY <2>2, <2>5 DEF TakeSnapshot, Plan, RequireFreeFile, MeasureBefore, MeasureAfter, Verify,
                        AskWhoElseRuns, Poll, Trim, Stop, Restart, machine, Goto
    <3> QED
      BY <3>1 DEF Calm, OnlyOwnHandle
  <2> QED
    BY <2>3, <2>4, <2>5 DEF Step
<1> QED
  BY <1>5, <1>6 DEF Calm

(* Without scanners nobody else opens a disk, and a guest that writes to   *)
(* one leaves it whole.                                                    *)
LEMMA OthersStayCalm ==
    ASSUME Undisturbed, Sound, Calm, Environment \/ Killed \/ UNCHANGED vars
    PROVE  Calm'
<1>1. CASE Killed
  <2>1. UNCHANGED <<files, registry, guest, snapshot>>
    BY <1>1 DEF Killed
  <2>2. GuestsAtHome' /\ SnapshotBoots'
    BY <2>1 DEF Calm, GuestsAtHome, SnapshotBoots, Home, Exists
  <2>3. OnlyOwnHandle'
    BY <1>1 DEF Killed, Calm, OnlyOwnHandle, OwnHandle
  <2> QED
    BY <2>2, <2>3 DEF Calm
<1>2. CASE UNCHANGED vars
  BY <1>2 DEF vars, machine, Calm, GuestsAtHome, SnapshotBoots, OnlyOwnHandle, OwnHandle, Home,
              Exists, Disk0, Loose, Now
<1>3. CASE Environment
  <2>1. /\ UNCHANGED <<pc, todo, snapshot, registry>>
    BY <1>3, EnvironmentIsSound DEF Environment
  <2>2. ~Scan
    BY DEF Undisturbed, Scan
  <2>3. MachineNext(InUserHands, {}) /\ UNCHANGED handles
    BY <1>3, <2>2 DEF Environment, MachineNext, StartGuest, GuestWrites, StopGuest, VmIdlesOut
  <2>4. OnlyOwnHandle'
    BY <2>1, <2>3 DEF Calm, OnlyOwnHandle, OwnHandle, Disk0, Loose, Now, Home
  <2>5. guest \in [Distro -> Path \cup {Off}]
    BY DEF Sound, MachineTypeOK
  <2>6. \A g \in Distro : guest'[g] \in {guest[g], Off} \/ BootsWhole(g)
    BY <2>3, <2>5 DEF MachineNext, StartGuest, CanBoot, Boot, GuestWrites, StopGuest, VmIdlesOut,
                      BootsWhole
  <2>7. ASSUME NEW q \in Path, Exists(q) PROVE Exists(q)' /\ files'[q].whole = files[q].whole
    <3>1. Exists(q)'
      <4>1. InUserHands \in SUBSET Distro /\ {} \in SUBSET Path
        BY DEF InUserHands
      <4> QED
        BY <2>3, <2>7, <4>1, MachineStep DEF Sound
    <3>2. CASE files' = files
      BY <3>1, <3>2
    <3>3. CASE \E g \in InUserHands, w \in Write : GuestWrites(g, w)
      <4>1. PICK g \in InUserHands, w \in Write : GuestWrites(g, w)
        BY <3>3
      <4>2. guest[g] \in Path /\ files[guest[g]] \in Disk
        BY <2>5, <4>1 DEF InUserHands, GuestWrites, Sound, GuestsHaveDisks, MachineTypeOK, Exists
      <4>3. files' = [files EXCEPT ![guest[g]] = [files[guest[g]] EXCEPT !.data = @ \cup {w}]]
        BY <4>1 DEF GuestWrites
      <4>4. [files[guest[g]] EXCEPT !.data = @ \cup {w}].whole = files[guest[g]].whole
        BY <4>2 DEF Disk
      <4> QED
        BY <3>1, <4>2, <4>3, <4>4 DEF Sound, MachineTypeOK
    <3> QED
      BY <2>3, <3>2, <3>3 DEF MachineNext, StartGuest, StopGuest, VmIdlesOut
  <2> QED
    BY <2>1, <2>4, <2>6, <2>7, StaysCalm DEF Calm
<1> QED
  BY <1>1, <1>2, <1>3

----------------------------------------------------------------------------
(* The command is for one distribution, which is to be started again.      *)
OneTarget(d) == d \in Wsl2 /\ job.targets = <<d>> /\ job.restart /\ ~job.dryRun

BeforeStop == {"snapshot", "plan", "trim", "trimPlain", "stop"}
WhileStopped == {"ask", "poll", "measure", "open", "compact", "close", "size", "restart", "failed"}

(* Once it was stopped it stays so until restart_guest() starts it, and the*)
(* command knows by then whether it was running.                           *)
BackAgain(d) ==
    /\ pc \notin Over => todo = <<d>> /\ outcome = <<>>
    /\ pc # "free"
    /\ pc \in BeforeStop => d \notin down
    /\ pc = "snapshot" => snapshot = Unasked
    /\ pc \in WhileStopped => guest[d] = Off
    /\ pc \in {"trim", "trimPlain", "stop"} \cup WhileStopped => (d \in snapshot.names => wasRunning)
    /\ pc = "verify" /\ d \in snapshot.names => d \notin down
    /\ pc = "ended" /\ d \in snapshot.names /\ d \in down =>
          outcome[1] \in {"busy", "unreleased", "uncompacted"}

(* The one target is the first, and the last.                              *)
LEMMA OneAtATime ==
    ASSUME Sound, NEW d, OneTarget(d), BackAgain(d), pc \notin Over
    PROVE  /\ Now = d /\ ~Loose /\ Disk0 = Home(d) /\ d \in Distro
           /\ \A code : Record(code) => pc' = "ended" /\ outcome' = <<code>> /\ outcome'[1] = code
<1>1. todo = <<d>> /\ outcome = <<>> /\ todo[1] = d /\ Len(todo) = 1
  BY DEF BackAgain
<1>2. Now = d /\ ~Loose /\ Disk0 = Home(d) /\ d \in Distro
  BY <1>1, WslAssumption DEF Now, Loose, Disk0, OneTarget
<1>3. ASSUME NEW code, Record(code) PROVE pc' = "ended" /\ outcome' = <<code>> /\ outcome'[1] = code
  <2>1. pc' = "ended" /\ outcome' = Append(<<>>, code)
    BY <1>1, <1>3 DEF Record
  <2>2. Append(<<>>, code) = <<code>>
    OBVIOUS
  <2> QED
    BY <2>1, <2>2
<1> QED
  BY <1>2, <1>3

(* It was whole when it ran, it is free by now, so it starts.              *)
LEMMA RestartWorks ==
    ASSUME Undisturbed, Sound, Calm, NEW d, OneTarget(d), BackAgain(d), pc \notin Over,
           pc \in {"restart", "failed"}, OwnHandle \notin handles, d \in snapshot.names, RestartAttempt,
           down' = down \ (Running' \ Running)
    PROVE  d \notin down'
<1>1. Now = d /\ ~Loose /\ Disk0 = Home(d) /\ d \in Distro /\ guest[d] = Off /\ wasRunning
  BY OneAtATime DEF BackAgain, WhileStopped
<1>2. handles = {}
  BY DEF Calm, OnlyOwnHandle
<1>3. Home(d) \in Path
  BY <1>1, EntriesResolve DEF Sound, MachineTypeOK, Home
<1>4. CanBoot(d) /\ files[Home(d)].whole
  <2>1. Exists(Home(d)) /\ files[Home(d)].whole
    BY DEF Calm, SnapshotBoots
  <2>2. \A e \in Distro : guest[e] # Home(d)
    BY <1>1, <1>3, WslAssumption DEF Calm, GuestsAtHome
  <2> QED
    BY <1>1, <1>2, <2>1, <2>2 DEF CanBoot, Held, OneTarget
<1>5. RunsIn(d)
  BY <1>1, <1>4 DEF RestartAttempt, WantsRestart, OneTarget, CannotRunIn, Undisturbed
<1>6. guest' = [guest EXCEPT ![d] = Home(d)]
  BY <1>1, <1>5 DEF RunsIn, Running, Boot
<1>7. d \in Running' /\ d \notin Running
  BY <1>1, <1>3, <1>6, WslAssumption DEF Running, Sound, MachineTypeOK
<1> QED
  BY <1>7

(* Each step of the command keeps to that.                                 *)
LEMMA StepBringsBack ==
    ASSUME Undisturbed, Sound, Calm, NEW d, OneTarget(d), BackAgain(d), Step
    PROVE  BackAgain(d)'
<1>0. /\ pc \notin Over /\ job' = job
      /\ Now = d /\ ~Loose /\ Disk0 = Home(d) /\ d \in Distro
      /\ \A code : Record(code) => pc' = "ended" /\ outcome' = <<code>> /\ outcome'[1] = code
  BY StepShape, OneAtATime
<1>1. todo = <<d>> /\ outcome = <<>>
  BY <1>0 DEF BackAgain
<1>2. ASSUME NEW code \in {"busy", "unreleased", "uncompacted"}, Record(code)
      PROVE  BackAgain(d)'
  BY <1>0, <1>2 DEF BackAgain, Over, BeforeStop, WhileStopped
<1>3. ASSUME NEW code, Record(code), d \in snapshot'.names => d \notin down'
      PROVE  BackAgain(d)'
  BY <1>0, <1>3 DEF BackAgain, Over, BeforeStop, WhileStopped
<1>4. ASSUME NEW next \in BeforeStop \ {"snapshot"}, Goto(next), d \notin down',
             next # "plan" => (d \in snapshot'.names => wasRunning')
      PROVE  BackAgain(d)'
  BY <1>1, <1>4 DEF Goto, BackAgain, Over, BeforeStop, WhileStopped
<1>5. ASSUME NEW next \in WhileStopped, Goto(next), guest'[d] = Off,
             UNCHANGED <<snapshot, wasRunning>>,
             pc \in {"trim", "trimPlain", "stop"} \cup WhileStopped
      PROVE  BackAgain(d)'
  BY <1>1, <1>5 DEF Goto, BackAgain, Over, BeforeStop, WhileStopped
<1>6. CASE TakeSnapshot
  BY <1>4, <1>6 DEF TakeSnapshot, BackAgain, BeforeStop
<1>7. CASE Plan
  <2>1. pc = "plan" /\ d \notin down' /\ UNCHANGED snapshot /\ ~job.dryRun
    BY <1>7 DEF Plan, BackAgain, BeforeStop, OneTarget
  <2>2. CASE Record("preflight")
    BY <1>3, <2>1, <2>2
  <2>3. CASE wasRunning' \in Remembered /\ (Goto("trim") \/ Goto("stop"))
    <3>1. d \in snapshot'.names => wasRunning'
      BY <1>0, <2>1, <2>3 DEF Remembered, Calm, SnapshotBoots
    <3> QED
      BY <1>4, <2>1, <2>3, <3>1 DEF BeforeStop
  <2> QED
    BY <1>0, <1>7, <2>1, <2>2, <2>3 DEF Plan
<1>8. CASE Trim
  <2>1. /\ d \notin down' /\ UNCHANGED <<snapshot, wasRunning>>
        /\ d \in snapshot'.names => wasRunning'
    BY <1>8 DEF Trim, perTarget, BackAgain, BeforeStop
  <2>2. CASE Record("error")
    BY <1>3, <2>1, <2>2
  <2>3. CASE Goto("stop") \/ Goto("trimPlain")
    BY <1>4, <2>1, <2>3 DEF BeforeStop
  <2> QED
    BY <1>8, <2>2, <2>3 DEF Trim
<1>9. CASE Stop
  <2>1. CASE Stopped /\ Goto("ask")
    <3>1. guest'[d] = Off
      BY <1>0, <2>1 DEF Stopped, Sound, MachineTypeOK
    <3> QED
      BY <1>5, <1>9, <2>1, <3>1 DEF Stop, perTarget, WhileStopped
  <2>2. CASE Record("unreleased")
    BY <1>2, <2>2
  <2> QED
    BY <1>9, <2>1, <2>2 DEF Stop
<1>10. CASE AskWhoElseRuns \/ Poll
  <2>1. pc \in WhileStopped /\ guest'[d] = Off /\ UNCHANGED <<snapshot, wasRunning>>
    BY <1>10 DEF AskWhoElseRuns, Poll, machine, BackAgain, WhileStopped
  <2>2. CASE Goto("poll") \/ Goto("measure")
    BY <1>5, <2>1, <2>2 DEF WhileStopped
  <2>3. CASE Record("busy") \/ Record("unreleased")
    BY <1>2, <2>3
  <2> QED
    BY <1>10, <2>2, <2>3 DEF AskWhoElseRuns, Poll
<1>11. CASE RequireFreeFile
  BY <1>11 DEF RequireFreeFile, BackAgain
<1>12. CASE MeasureBefore \/ Open \/ CompactDisk \/ Close \/ MeasureAfter
  <2>1. pc \in WhileStopped /\ guest'[d] = Off /\ UNCHANGED <<snapshot, wasRunning>>
    BY <1>12 DEF MeasureBefore, Open, CompactDisk, Close, MeasureAfter, machine, perTarget,
                 BackAgain, WhileStopped
  <2>2. \E next \in WhileStopped : Goto(next)
    BY <1>12 DEF MeasureBefore, Open, CompactDisk, Close, MeasureAfter, WhileStopped
  <2> QED
    BY <1>5, <2>1, <2>2
<1>13. CASE Restart
  <2>1. /\ pc = "restart" /\ RestartAttempt /\ down' = down \ (Running' \ Running)
        /\ Goto("verify") /\ UNCHANGED snapshot
    BY <1>13 DEF Restart
  <2>2. OwnHandle \notin handles
    BY <2>1 DEF Calm, OnlyOwnHandle
  <2>3. d \in snapshot.names => d \notin down'
    BY <1>0, <2>1, <2>2, RestartWorks
  <2> QED
    BY <1>1, <2>1, <2>3 DEF Goto, BackAgain, Over, BeforeStop, WhileStopped
<1>14. CASE RestartAndFail
  <2>1. /\ pc = "failed" /\ RestartAttempt /\ down' = down \ (Running' \ Running)
        /\ UNCHANGED snapshot
    BY <1>14 DEF RestartAndFail
  <2>2. CASE OwnHandle \in handles
    BY <1>2, <1>14, <2>2 DEF RestartAndFail
  <2>3. CASE OwnHandle \notin handles
    <3>1. d \in snapshot'.names => d \notin down'
      BY <1>0, <2>1, <2>3, RestartWorks
    <3> QED
      BY <1>3, <1>14, <2>3, <3>1 DEF RestartAndFail
  <2> QED
    BY <2>2, <2>3
<1>15. CASE Verify
  BY <1>3, <1>15 DEF Verify, BackAgain
<1> QED
  BY <1>6, <1>7, <1>8, <1>9, <1>10, <1>11, <1>12, <1>13, <1>14, <1>15 DEF Step

(* Nobody else starts the target while it is stopped.                      *)
LEMMA OthersBringBack ==
    ASSUME Undisturbed, Sound, NEW d, OneTarget(d), BackAgain(d),
           Environment \/ Killed \/ UNCHANGED vars
    PROVE  BackAgain(d)'
<1>1. CASE Killed
  BY <1>1 DEF Killed, BackAgain, Over, BeforeStop, WhileStopped
<1>2. CASE UNCHANGED vars
  BY <1>2 DEF vars, machine, perTarget, BackAgain
<1>3. CASE Environment
  <2>1. UNCHANGED <<pc, todo, snapshot, wasRunning, outcome, down>>
    BY <1>3 DEF Environment, perTarget
  <2>2. ASSUME pc \in WhileStopped PROVE guest'[d] = Off
    <3>1. guest[d] = Off /\ Now = d /\ d \in Distro
      BY <2>2, OneAtATime DEF BackAgain, WhileStopped, Over
    <3>2. d \notin InUserHands
      BY <2>2, <3>1 DEF InUserHands, Undisturbed, Untouched, WhileStopped
    <3>3. guest \in [Distro -> Path \cup {Off}]
      BY DEF Sound, MachineTypeOK
    <3> QED
      BY <1>3, <3>1, <3>2, <3>3 DEF Environment, MachineNext, StartGuest, Boot, GuestWrites,
                                    StopGuest, VmIdlesOut, StrayAppears, Scan
  <2> QED
    BY <2>1, <2>2 DEF BackAgain
<1> QED
  BY <1>1, <1>2, <1>3

(* With nobody interfering, a compaction with --restart brings the one     *)
(* distribution that was running back, however the command ends and        *)
(* whichever calls fail, but on two paths: the disk was not released, and  *)
(* the compaction failed while the command's own handle still denied it.   *)
THEOREM CompactRestartsTheOne == Undisturbed /\ Spec => []RestartsTheOne
<1> DEFINE Back == \A d \in Wsl2 : OneTarget(d) => BackAgain(d)
<1>1. Init => Back
  <2> SUFFICES ASSUME Init, NEW d \in Wsl2, OneTarget(d) PROVE BackAgain(d)
    OBVIOUS
  <2> QED
    BY DEF Init, OneTarget, BackAgain, Over, WhileStopped, Unasked
<1>2. Undisturbed /\ Sound /\ Calm /\ Back /\ [Next]_vars => Back'
  <2> SUFFICES ASSUME Undisturbed, Sound, Calm, Back, [Next]_vars, NEW d \in Wsl2, OneTarget(d)'
               PROVE  BackAgain(d)'
    OBVIOUS
  <2>1. OneTarget(d) /\ BackAgain(d)
    BY StepShape, EnvironmentIsSound DEF OneTarget, Next, Killed, vars
  <2> QED
    BY <2>1, StepBringsBack, OthersBringBack DEF Next
<1>3. Undisturbed /\ Sound /\ Calm /\ [Next]_vars => Calm'
  BY StepStaysCalm, OthersStayCalm DEF Next
<1>4. Back => RestartsTheOne
  BY DEF RestartsTheOne, Finished, OneTarget, BackAgain
<1>5. Undisturbed => Undisturbed'
  BY DEF Undisturbed, MayFail
<1> HIDE DEF Back
<1> QED
  BY CompactIsSound, CalmStarts, <1>1, <1>2, <1>3, <1>4, <1>5, PTL DEF Spec
=============================================================================
