------------------------------- MODULE WslRun -------------------------------
(***************************************************************************)
(* run_wsl(): one run of wsl.exe, its two output streams on pipes that are *)
(* drained while it runs, its input at end-of-file, and a budget of time   *)
(* after which it is terminated.  Time is counted in wait slices and what  *)
(* the child prints in units of one read.                                  *)
(***************************************************************************)
EXTENDS Integers

CONSTANTS
    Stream,       \* the child's output streams
    FirstStream,  \* the one drained first
    Nothing,      \* no stream
    Capacity,     \* what a pipe holds before a writer blocks
    Output,       \* the most a child prints on a stream
    Budget,       \* the timeout, in slices
    Endless,      \* whether the child goes on printing for ever
    RunFallible   \* the calls that may fail

RunCall == {"start", "wait", "read", "kill", "code"}

ASSUME WslRunAssumption ==
    /\ FirstStream \in Stream /\ Nothing \notin Stream
    /\ Capacity \in Nat \ {0} /\ Output \in Nat /\ Budget \in Nat
    /\ Endless \in BOOLEAN
    /\ RunFallible \subseteq RunCall

RunMayFail(call) == call \in RunFallible

VARIABLES
    patient,     \* the timeout is longer than anything the child does
    parent,      \* what run_wsl() does next
    draining,    \* the streams this pass has yet to drain
    remaining,   \* what is left of the budget
    report,      \* how the run is reported
    unread,      \* streams a read failed on
    child,       \* wsl.exe: not there, running, exited, killed
    writing,     \* the stream it is in the middle of writing to
    toPrint,     \* what it has yet to print
    wantsInput,  \* it reads standard input to the end before it exits
    eof,         \* the parent has closed its end of the standard input
    pipe         \* what is in each pipe

childVars == <<child, writing, toPrint, wantsInput>>
runVars == <<patient, parent, draining, remaining, report, unread, childVars, eof, pipe>>

RunTypeOK ==
    /\ patient \in BOOLEAN
    /\ parent \in {"start", "close", "drain", "wait", "lastDrain", "code", "returned"}
    /\ draining \subseteq Stream
    /\ remaining \in 0 .. Budget
    /\ report \in {"none", "ok", "error", "timeout"}
    /\ unread \subseteq Stream
    /\ child \in {"none", "running", "exited", "killed"}
    /\ writing \in Stream \cup {Nothing}
    /\ toPrint \in [Stream -> 0 .. Output]
    /\ wantsInput \in BOOLEAN /\ eof \in BOOLEAN
    /\ pipe \in [Stream -> 0 .. Capacity]

RunInit ==
    /\ patient \in BOOLEAN
    /\ parent = "start" /\ draining = {} /\ remaining = Budget
    /\ report = "none" /\ unread = {}
    /\ child = "none" /\ writing = Nothing
    /\ toPrint \in [Stream -> 0 .. Output]
    /\ wantsInput \in BOOLEAN /\ eof = FALSE
    /\ pipe = [s \in Stream |-> 0]

----------------------------------------------------------------------------
RunReturn(how) == parent' = "returned" /\ report' = how

(* The pipes and the process are created.                                  *)
Start ==
    /\ parent = "start"
    /\ \/ child' = "running" /\ parent' = "close" /\ UNCHANGED report
       \/ RunMayFail("start") /\ RunReturn("error") /\ UNCHANGED child
    /\ UNCHANGED <<draining, remaining, unread, writing, toPrint, wantsInput, eof, pipe>>

\* Mutant: the write end of the standard input stays open.
InputLeftOpen ==
    /\ parent = "close"
    /\ parent' = "drain" /\ draining' = Stream
    /\ UNCHANGED <<remaining, report, unread, childVars, eof, pipe>>

(* The parent's copies of the child's ends go, and the end of its input.   *)
CloseChildEnds ==
    /\ parent = "close"
    /\ eof' = TRUE
    /\ parent' = "drain" /\ draining' = Stream
    /\ UNCHANGED <<remaining, report, unread, childVars, pipe>>

(* drain(): one stream after the other, until its pipe is found empty.  A  *)
(* read that fails ends the drain of that stream.                          *)
Turn == IF FirstStream \in draining THEN FirstStream ELSE CHOOSE s \in draining : TRUE

DrainStream ==
    /\ parent \in {"drain", "lastDrain"} /\ draining # {}
    /\ \/ /\ pipe[Turn] > 0
          /\ pipe' = [pipe EXCEPT ![Turn] = @ - 1]
          /\ UNCHANGED <<draining, unread>>
       \/ /\ pipe[Turn] = 0
          /\ draining' = draining \ {Turn}
          /\ UNCHANGED <<pipe, unread>>
       \/ /\ RunMayFail("read") /\ pipe[Turn] > 0
          /\ draining' = draining \ {Turn}
          /\ unread' = unread \cup {Turn}
          /\ UNCHANGED pipe
    /\ UNCHANGED <<parent, remaining, report, childVars, eof>>

Drained ==
    /\ parent \in {"drain", "lastDrain"} /\ draining = {}
    /\ parent' = IF parent = "drain" THEN "wait" ELSE "code"
    /\ UNCHANGED <<draining, remaining, report, unread, childVars, eof, pipe>>

\* Mutant: the budget is not charged.
NeverCharged == remaining

(* Another slice of the budget is gone; with the last one the child is     *)
(* terminated.                                                             *)
Charged == IF patient \/ remaining = 0 THEN remaining ELSE remaining - 1

OutOfTime == ~patient /\ Charged = 0

\* Mutant: what the child printed last is not fetched.
WaitIsLast ==
    /\ parent = "wait" /\ child = "exited"
    /\ parent' = "code"
    /\ UNCHANGED <<draining, remaining, report, unread, childVars, eof, pipe>>

ChildIsDone ==
    /\ parent = "wait" /\ child = "exited"
    /\ parent' = "lastDrain" /\ draining' = Stream
    /\ UNCHANGED <<remaining, report, unread, childVars, eof, pipe>>

SliceIsOver ==
    /\ parent = "wait" /\ child = "running"
    /\ remaining' = Charged
    /\ \/ /\ ~OutOfTime
          /\ parent' = "drain" /\ draining' = Stream
          /\ UNCHANGED <<report, child>>
       \/ /\ OutOfTime
          /\ RunReturn("timeout")
          /\ child' = "killed" \/ (RunMayFail("kill") /\ UNCHANGED child)
          /\ UNCHANGED draining
    /\ UNCHANGED <<unread, writing, toPrint, wantsInput, eof, pipe>>

(* A wait that fails leaves the child to itself.                           *)
WaitFails ==
    /\ parent = "wait" /\ RunMayFail("wait")
    /\ RunReturn("error")
    /\ UNCHANGED <<draining, remaining, unread, childVars, eof, pipe>>

ReadExitCode ==
    /\ parent = "code"
    /\ RunReturn("ok") \/ (RunMayFail("code") /\ RunReturn("error"))
    /\ UNCHANGED <<draining, remaining, unread, childVars, eof, pipe>>

Parent ==
    /\ \/ Start \/ CloseChildEnds \/ DrainStream \/ Drained
       \/ ChildIsDone \/ SliceIsOver \/ WaitFails \/ ReadExitCode
    /\ UNCHANGED patient

----------------------------------------------------------------------------
(* wsl.exe prints on either stream in any order, and blocks in a write to  *)
(* a full pipe.  It is read only while run_wsl() has not returned.         *)
ChildBeginsWrite(s) ==
    /\ child = "running" /\ writing = Nothing /\ toPrint[s] > 0
    /\ writing' = s
    /\ UNCHANGED <<parent, draining, remaining, report, unread, child, toPrint, wantsInput>>
    /\ UNCHANGED <<eof, pipe>>

ChildWrites ==
    /\ child = "running" /\ writing # Nothing /\ parent # "returned"
    /\ pipe[writing] < Capacity
    /\ pipe' = [pipe EXCEPT ![writing] = @ + 1]
    /\ toPrint' = IF Endless THEN toPrint ELSE [toPrint EXCEPT ![writing] = @ - 1]
    /\ writing' = Nothing
    /\ UNCHANGED <<parent, draining, remaining, report, unread, child, wantsInput, eof>>

ChildReadsToEnd ==
    /\ child = "running" /\ wantsInput /\ eof
    /\ wantsInput' = FALSE
    /\ UNCHANGED <<parent, draining, remaining, report, unread, child, writing, toPrint, eof, pipe>>

ChildExits ==
    /\ child = "running" /\ writing = Nothing /\ ~wantsInput
    /\ \A s \in Stream : toPrint[s] = 0
    /\ child' = "exited"
    /\ UNCHANGED <<parent, draining, remaining, report, unread, writing, toPrint, wantsInput>>
    /\ UNCHANGED <<eof, pipe>>

Child ==
    /\ \/ \E s \in Stream : ChildBeginsWrite(s)
       \/ ChildWrites \/ ChildReadsToEnd \/ ChildExits
    /\ UNCHANGED patient

RunNext == Parent \/ Child

RunSpec == RunInit /\ [][RunNext]_runVars

(* The tool is scheduled and its calls return; of the child nothing is     *)
(* assumed, for it may hang.                                               *)
RunFairSpec == RunSpec /\ WF_runVars(Parent)

----------------------------------------------------------------------------
(* A run reported as finished has everything the child printed, the last   *)
(* words before its exit included, except on a stream a read failed on.    *)
OutputIsWhole ==
    report = "ok" => \A s \in Stream \ unread : pipe[s] = 0 /\ toPrint[s] = 0

(* run_wsl() returns: "a hung guest command cannot hang the tool".         *)
RunEnds == ~patient => <>(parent = "returned")

(* A child that prints more than its pipes hold, or reads its input, is    *)
(* not kept waiting by its parent: one that does not hang of itself is     *)
(* done without a timeout, unless what it prints cannot be read.           *)
NeverBlocked ==
    patient /\ WF_runVars(Child) => <>(parent = "returned" \/ unread # {})
=============================================================================
