----------------------------- MODULE Operation -----------------------------
(***************************************************************************)
(* What `move` and `relink` share: the runner that plans, executes and     *)
(* verifies, the undo stack it unwinds when execution fails, the registry  *)
(* entry captured before anything was written, and the smoke test that     *)
(* boots the distribution.  The module of an operation supplies the plan   *)
(* and the steps of its execute().                                         *)
(***************************************************************************)
EXTENDS Wsl, Integers, Sequences

CONSTANTS
    Self,      \* the process running this operation
    Fallible,  \* the calls that may fail for a reason the model has no state for
    UsedMeanwhile,  \* whether the user may use the distribution meanwhile
    StrangersWrite  \* whether other programs may create disk files

Call == {"running", "volume", "rename", "copy", "write", "boot", "remove",
         "read", "restore", "directory"}

ASSUME OperationAssumption ==
    /\ Self \in Process
    /\ Fallible \subseteq Call
    /\ UsedMeanwhile \in BOOLEAN
    /\ StrangersWrite \in BOOLEAN

MayFail(call) == call \in Fallible

VARIABLES
    pc,        \* the step this process takes next
    was,       \* the entry enumerate() read, which the operation keeps a copy of
    undo,      \* the undo stack, its last entry on top
    unrestored,\* the undo entries that failed
    exit,      \* how the command ended, or is about to
    proof      \* the disk the guest was running from when the smoke test passed

control == <<pc, was, undo, unrestored, exit, proof>>

Undo == {"moveBack", "removeCopy", "base", "vhd"}
Exit == {"none", "ok", "preflight", "busy", "error", "partial"}
Final == {"ended", "killed"}

ControlTypeOK ==
    /\ was \in Entry
    /\ undo \in Seq(Undo)
    /\ unrestored \subseteq Undo
    /\ exit \in Exit
    /\ proof \in Path \cup {Off}

(* Nothing reads `was` until enumerate() has set it.                       *)
ControlInit(d) ==
    /\ pc = "enumerate"
    /\ was = registry[d]
    /\ undo = <<>>
    /\ unrestored = {}
    /\ exit = "none"
    /\ proof = Off

----------------------------------------------------------------------------
(* The command ends: refused by plan(), or with what verify() found.       *)
Finish(code) ==
    /\ pc' = "ended"
    /\ exit' = code
    /\ UNCHANGED <<was, undo, unrestored, proof>>

(* execute() failed: the runner rolls back.                                *)
Abort(code) ==
    /\ pc' = "undo"
    /\ exit' = code
    /\ UNCHANGED <<was, undo, unrestored, proof>>

Goto(next) ==
    /\ pc' = next
    /\ UNCHANGED <<was, undo, unrestored, exit, proof>>

PushAndGoto(entry, next) ==
    /\ undo' = Append(undo, entry)
    /\ pc' = next
    /\ UNCHANGED <<was, unrestored, exit, proof>>

(* The distribution's values are read once, before planning.               *)
Enumerate(d) ==
    /\ pc = "enumerate"
    /\ was' = registry[d]
    /\ pc' = "plan"
    /\ UNCHANGED <<machine, undo, unrestored, exit, proof>>

(* A running distribution is refused, and so is one that cannot be asked.  *)
RefuseIfRunning(d) ==
    \/ MayFail("running") /\ Finish("preflight")
    \/ d \in Running /\ Finish("busy")

----------------------------------------------------------------------------
(* repoint(): BasePath first, in the form it was found; then VhdFileName,  *)
(* only where there was one.                                               *)
\* Mutant: the undo of BasePath is never pushed.
WriteBaseForGood(d, base, next) ==
    \/ registry' = [registry EXCEPT ![d].base = base] /\ Goto(next)
    \/ MayFail("write") /\ Abort("error") /\ UNCHANGED registry

WriteBase(d, base, next) ==
    \/ /\ registry' = [registry EXCEPT ![d].base = base]
       /\ PushAndGoto("base", next)
    \/ /\ MayFail("write")
       /\ Abort("error")
       /\ UNCHANGED registry

WriteVhd(d, name, next) ==
    \/ /\ was.vhd = NoVhdName
       /\ Goto(next)
       /\ UNCHANGED registry
    \/ /\ was.vhd # NoVhdName
       /\ registry' = [registry EXCEPT ![d].vhd = name]
       /\ PushAndGoto("vhd", next)
    \/ /\ was.vhd # NoVhdName
       /\ MayFail("write")
       /\ Abort("error")
       /\ UNCHANGED registry

(* The smoke test runs `/bin/sh -c :` as root.  A guest that is already up *)
(* runs it where it is; otherwise WSL boots whatever the registry resolves *)
(* to.  A test that fails or times out may have left the guest running.    *)
BootsFrom(d) == IF d \in Running THEN guest[d] ELSE Home(d)

SmokeTest(d, next) ==
    \/ /\ RunsIn(d)
       /\ proof' = BootsFrom(d)
       /\ pc' = next
       /\ UNCHANGED <<was, undo, unrestored, exit>>
    \/ CannotRunIn(d) /\ Abort("preflight")
    \/ /\ MayFail("boot") /\ MayHaveRunIn(d)
       /\ \E code \in {"preflight", "error"} : Abort(code)

----------------------------------------------------------------------------
(* unwind() pops one entry; one that fails does not stop those below it.   *)
\* Mutant: the stack is walked from its bottom.
BottomUndo == undo[1]

TopUndo == undo[Len(undo)]

UndoPossible(source, target) ==
    CASE TopUndo = "moveBack"   -> CanRename(target, source)
      [] TopUndo = "removeCopy" -> CanRemove(target)
      [] OTHER                  -> TRUE

\* Mutant: undoing a copy removes the wrong end of it.
UndoneAtSource(source, target) ==
    CASE TopUndo = "moveBack"   -> Renamed(target, source)
      [] TopUndo = "removeCopy" -> Removed(source)
      [] OTHER                  -> files

UndoneFiles(source, target) ==
    CASE TopUndo = "moveBack"   -> Renamed(target, source)
      [] TopUndo = "removeCopy" -> Removed(target)
      [] OTHER                  -> files

UndoneRegistry(d) ==
    CASE TopUndo = "base" -> [registry EXCEPT ![d].base = was.base]
      [] TopUndo = "vhd"  -> [registry EXCEPT ![d].vhd = was.vhd]
      [] OTHER            -> registry

\* Mutant: an entry that was tried stays on the stack.
UndoKept == undo

RestOfUndo == SubSeq(undo, 1, Len(undo) - 1)

Unwind(d, source, target) ==
    /\ pc = "undo"
    /\ Len(undo) > 0
    /\ \/ /\ UndoPossible(source, target)
          /\ files' = UndoneFiles(source, target)
          /\ registry' = UndoneRegistry(d)
          /\ UNCHANGED unrestored
       \/ /\ ~UndoPossible(source, target) \/ MayFail("restore")
          /\ unrestored' = unrestored \cup {TopUndo}
          /\ UNCHANGED <<files, registry>>
    /\ undo' = RestOfUndo
    /\ UNCHANGED <<guest, attached, handles, written, pc, was, exit, proof>>

RolledBack ==
    /\ pc = "undo"
    /\ Len(undo) = 0
    /\ pc' = "ended"
    /\ UNCHANGED <<machine, was, undo, unrestored, exit, proof>>

(* verify() reads back BasePath and nothing else; its failure is final,    *)
(* because there is no rolling back past a point of no return.             *)
VerifyBase(d, base) ==
    \/ /\ registry[d].base = base
       /\ Finish("ok")
    \/ /\ registry[d].base # base
       /\ Finish("partial")
    \/ /\ MayFail("read")
       /\ Finish("error")

(* The process is killed, or the machine's power fails under it.  Before   *)
(* execute() that is as if the command had not been run.                   *)
Killed ==
    /\ pc \notin Final \cup {"enumerate", "plan"}
    /\ pc' = "killed"
    /\ handles' = {h \in handles : h.by # Self}
    /\ UNCHANGED <<files, registry, guest, attached, written,
                   was, undo, unrestored, exit, proof>>

----------------------------------------------------------------------------
(* The distribution being worked on is the user's before running() has     *)
(* answered, and once the command has ended with nothing left to put right.*)
Settled == pc \in {"enumerate", "plan"} \/ (pc = "ended" /\ unrestored = {})

FreePaths == IF StrangersWrite THEN Path ELSE {}

(* However an operation fails and whatever else its rollback cannot undo,  *)
(* the entry is as it was found unless a write putting it back failed.     *)
EntryIsPutBackOf(d, writes) ==
    (pc \in {"undo", "ended"} /\ Len(undo) = 0 /\ unrestored \cap writes = {}) =>
        registry[d] = was
=============================================================================
