--------------------------- MODULE DiskCompaction ---------------------------
(***************************************************************************)
(* Win32VirtualDiskHandle::compact(): one CompactVirtualDisk that runs in  *)
(* the background against an OVERLAPPED and an event on the caller's stack,*)
(* polled until it is done, and abandon(), which has to see it stop before *)
(* the frame they live in is given up.                                     *)
(***************************************************************************)
EXTENDS Integers

CONSTANTS
    Attempts,     \* cancel_poll_attempts: 100
    Steps,        \* how many reports of progress the disk can make
    MayCancel,    \* whether the progress callback may say stop
    DiskFallible  \* the calls that may fail

DiskCall == {"event", "start", "wait", "query", "rewait", "requery", "disk"}

ASSUME DiskCompactionAssumption ==
    /\ Attempts \in Nat \ {0} /\ Steps \in Nat
    /\ MayCancel \in BOOLEAN
    /\ DiskFallible \subseteq DiskCall

DiskMayFail(call) == call \in DiskFallible

VARIABLES
    prompt,     \* the service ends what was cancelled before a poll is over
    at,         \* what compact() does next
    attempt,    \* polls abandon() has left
    reason,     \* the result compact() returns once abandon() is over
    answer,     \* what compact() has returned
    told,       \* the last fraction the progress callback was told
    operation,  \* the background work: none, pending, done, failed, cancelled
    current,    \* how far it is
    cancelling  \* CancelIoEx has been called

diskVars == <<prompt, at, attempt, reason, answer, told, operation, current, cancelling>>

Result == {"none", "ok", "error", "cancelled"}
Over == {"done", "failed", "cancelled"}

DiskTypeOK ==
    /\ prompt \in BOOLEAN
    /\ at \in {"event", "start", "wait", "query", "cancel", "settle", "requery", "returned"}
    /\ attempt \in 0 .. Attempts
    /\ reason \in Result /\ answer \in Result
    /\ told \in 0 .. Steps /\ current \in 0 .. Steps
    /\ operation \in {"none", "pending"} \cup Over
    /\ cancelling \in BOOLEAN

DiskInit ==
    /\ prompt \in BOOLEAN
    /\ at = "event" /\ attempt = Attempts
    /\ reason = "none" /\ answer = "none"
    /\ told = 0 /\ current = 0
    /\ operation = "none" /\ cancelling = FALSE

----------------------------------------------------------------------------
DiskReturn(what) == at' = "returned" /\ answer' = what /\ UNCHANGED reason

(* Every way out that may leave the operation pending goes by abandon().   *)
Abandon(what) == at' = "cancel" /\ reason' = what /\ UNCHANGED answer

CreateEvent ==
    /\ at = "event"
    /\ \/ at' = "start" /\ UNCHANGED <<reason, answer>>
       \/ DiskMayFail("event") /\ DiskReturn("error")
    /\ UNCHANGED <<attempt, told, operation, current, cancelling>>

(* CompactVirtualDisk may be done at once, and is usually pending.         *)
StartCompaction ==
    /\ at = "start"
    /\ \/ operation' = "pending" /\ at' = "wait" /\ UNCHANGED <<reason, answer, told>>
       \/ operation' = "done" /\ DiskReturn("ok") /\ told' = Steps
       \/ DiskMayFail("start") /\ DiskReturn("error") /\ UNCHANGED <<operation, told>>
    /\ UNCHANGED <<attempt, current, cancelling>>

(* The event or 250 ms, whichever comes first.                             *)
Wait ==
    /\ at = "wait"
    /\ \/ at' = "query" /\ UNCHANGED <<reason, answer>>
       \/ DiskMayFail("wait") /\ Abandon("error")
    /\ UNCHANGED <<attempt, told, operation, current, cancelling>>

\* Mutants: a call that fails returns with the operation still running; a
\* failed operation is taken for a finished one.
QueryOrLeave ==
    /\ at = "query"
    /\ \/ DiskMayFail("query") /\ DiskReturn("error") /\ UNCHANGED told
       \/ /\ operation = "pending"
          /\ told' = current
          /\ \/ at' = "wait" /\ UNCHANGED <<reason, answer>>
             \/ MayCancel /\ Abandon("cancelled")
       \/ operation = "failed" /\ DiskReturn("error") /\ UNCHANGED told
       \/ operation = "done" /\ DiskReturn("ok") /\ told' = Steps
    /\ UNCHANGED <<attempt, operation, current, cancelling>>

QueryOnlyPending ==
    /\ at = "query"
    /\ \/ DiskMayFail("query") /\ Abandon("error") /\ UNCHANGED told
       \/ /\ operation = "pending"
          /\ told' = current
          /\ \/ at' = "wait" /\ UNCHANGED <<reason, answer>>
             \/ MayCancel /\ Abandon("cancelled")
       \/ operation # "pending" /\ DiskReturn("ok") /\ told' = Steps
    /\ UNCHANGED <<attempt, operation, current, cancelling>>

Query ==
    /\ at = "query"
    /\ \/ DiskMayFail("query") /\ Abandon("error") /\ UNCHANGED told
       \/ /\ operation = "pending"
          /\ told' = current
          /\ \/ at' = "wait" /\ UNCHANGED <<reason, answer>>
             \/ MayCancel /\ Abandon("cancelled")
       \/ operation = "failed" /\ DiskReturn("error") /\ UNCHANGED told
       \/ operation = "done" /\ DiskReturn("ok") /\ told' = Steps
    /\ UNCHANGED <<attempt, operation, current, cancelling>>

----------------------------------------------------------------------------
(* abandon(): CancelIoEx asks; then the event, or the status, is polled.   *)
Cancel ==
    /\ at = "cancel"
    /\ cancelling' = (operation = "pending")
    /\ at' = "settle"
    /\ UNCHANGED <<attempt, reason, answer, told, operation, current>>

(* The wait for the event ends without it: 100 ms are over, or the wait    *)
(* itself fails.                                                           *)
NoEvent == (operation = "pending" /\ ~prompt) \/ DiskMayFail("rewait")

\* Mutant: the polls are not counted.
SettleForever ==
    /\ at = "settle"
    /\ \/ operation # "pending" /\ DiskReturn(reason)
       \/ NoEvent /\ at' = "requery" /\ UNCHANGED <<reason, answer>>
    /\ UNCHANGED <<attempt, told, operation, current, cancelling>>

(* Out of attempts, abandon() returns just as it does when it is over.     *)
Settle ==
    /\ at = "settle"
    /\ \/ /\ attempt = 0 \/ operation # "pending"
          /\ DiskReturn(reason)
          /\ UNCHANGED attempt
       \/ /\ attempt > 0 /\ NoEvent
          /\ attempt' = attempt - 1
          /\ at' = "requery"
          /\ UNCHANGED <<reason, answer>>
    /\ UNCHANGED <<told, operation, current, cancelling>>

(* A status that cannot be had is taken for an operation that is over.     *)
Requery ==
    /\ at = "requery"
    /\ \/ operation = "pending" /\ at' = "settle" /\ UNCHANGED <<reason, answer>>
       \/ (operation # "pending" \/ DiskMayFail("requery")) /\ DiskReturn(reason)
    /\ UNCHANGED <<attempt, told, operation, current, cancelling>>

Step ==
    /\ \/ CreateEvent \/ StartCompaction \/ Wait \/ Query
       \/ Cancel \/ Settle \/ Requery
    /\ UNCHANGED prompt

----------------------------------------------------------------------------
(* The virtual disk service, which writes to the OVERLAPPED and signals    *)
(* the event when the operation is over.                                   *)
Advance ==
    /\ operation = "pending" /\ current < Steps
    /\ current' = current + 1
    /\ UNCHANGED <<at, attempt, reason, answer, told, operation, cancelling>>

WorkEnds ==
    /\ operation = "pending"
    /\ \/ current = Steps /\ operation' = "done"
       \/ DiskMayFail("disk") /\ operation' = "failed"
    /\ UNCHANGED <<at, attempt, reason, answer, told, current, cancelling>>

StopOnRequest ==
    /\ operation = "pending" /\ cancelling
    /\ operation' = "cancelled"
    /\ UNCHANGED <<at, attempt, reason, answer, told, current, cancelling>>

Service == (Advance \/ WorkEnds \/ StopOnRequest) /\ UNCHANGED prompt

DiskNext == Step \/ Service

DiskSpec == DiskInit /\ [][DiskNext]_diskVars

(* compact() is scheduled and its calls return.  The service owes nothing  *)
(* to a compaction nobody cancelled, and a prompt one stops when asked to. *)
DiskFairSpec ==
    /\ DiskSpec
    /\ WF_diskVars(Step)
    /\ WF_diskVars(prompt /\ StopOnRequest /\ UNCHANGED prompt)

----------------------------------------------------------------------------
(* With a prompt service, compact() does not return, and give up the frame *)
(* that holds the OVERLAPPED and the event, while the service may still    *)
(* write there.                                                            *)
FrameOutlivesTheWork == prompt /\ at = "returned" => operation # "pending"

(* A compaction reported as done is one, and was last shown as complete.   *)
OkMeansDone == answer = "ok" => operation = "done" /\ told = Steps

(* A compaction is "actually stopped before saying so" when it is reported *)
(* as cancelled, by whatever service (compact(), abandon()).               *)
(* The code does not keep this (README, section 6).                        *)
CancelledMeansStopped == answer = "cancelled" => operation # "pending"

(* Once it has given up on a compaction, compact() does return, though the *)
(* service may never stop.                                                 *)
AbandonEnds == (at = "cancel") ~> (at = "returned")

(* What makes the frame safe when the service is prompt.                   *)
IInv ==
    /\ at \in {"event", "start"} => operation = "none"
    /\ prompt => at # "requery" /\ attempt = Attempts
    /\ FrameOutlivesTheWork
=============================================================================
