--------------------------- MODULE PlatformProofs ---------------------------
(***************************************************************************)
(* Proofs about three calls into Windows, each a module of its own with    *)
(* its own constants and state: the compaction of a disk, a run of         *)
(* wsl.exe, and a sparse copy.  No theorem is about more than one of them. *)
(***************************************************************************)
EXTENDS DiskCompaction, WslRun, SparseCopy, FiniteSetTheorems, SequenceTheorems,
        WellFoundedInduction, TLAPS

----------------------------------------------------------------------------
(* When a cancelled compaction ends within the first poll, and the calls   *)
(* abandon() makes succeed, compact() never gives up a frame the service   *)
(* may still write to, whatever the number of polls and of reports.        *)

(* compact() itself: what it returns with is never pending.                *)
LEMMA CompactionStep ==
    ASSUME "rewait" \notin DiskFallible, IInv, Step
    PROVE  IInv'
<1> USE DiskCompactionAssumption DEF IInv, FrameOutlivesTheWork, DiskReturn, Abandon
<1>0. UNCHANGED prompt
  BY DEF Step
<1>1. CASE CreateEvent
  BY <1>0, <1>1 DEF CreateEvent
<1>2. CASE StartCompaction
  BY <1>0, <1>2 DEF StartCompaction
<1>3. CASE Wait
  BY <1>0, <1>3 DEF Wait
<1>4. CASE Query
  BY <1>0, <1>4 DEF Query
<1>5. CASE Cancel
  BY <1>0, <1>5 DEF Cancel
<1>6. CASE Settle
  <2>1. CASE ~prompt
    BY <1>0, <1>6, <2>1 DEF Settle
  <2>2. CASE prompt
    <3>1. attempt # 0
      BY <2>2
    <3>2. ~NoEvent
      BY <2>2 DEF NoEvent, DiskMayFail
    <3>3. operation # "pending" /\ DiskReturn(reason) /\ UNCHANGED attempt
      BY <1>6, <3>1, <3>2 DEF Settle
    <3> QED
      BY <1>0, <1>6, <2>2, <3>3 DEF Settle
  <2> QED
    BY <2>1, <2>2
<1>7. CASE Requery
  BY <1>0, <1>7 DEF Requery
<1> QED
  BY <1>1, <1>2, <1>3, <1>4, <1>5, <1>6, <1>7 DEF Step

(* compact() does not return while the OVERLAPPED on its stack and the     *)
(* event it closes are still the service's to write to.                    *)
THEOREM FrameIsSafe ==
    ASSUME "rewait" \notin DiskFallible
    PROVE  DiskSpec => []FrameOutlivesTheWork
<1>1. DiskInit => IInv
  BY DiskCompactionAssumption DEF DiskInit, IInv, FrameOutlivesTheWork
<1>2. IInv /\ [DiskNext]_diskVars => IInv'
  <2> SUFFICES ASSUME IInv, [DiskNext]_diskVars
               PROVE  IInv'
    OBVIOUS
  <2>1. CASE Step
    BY <2>1, CompactionStep
  <2>2. CASE Service
    BY <2>2 DEF IInv, FrameOutlivesTheWork, Service,
                Advance, WorkEnds, StopOnRequest
  <2>3. CASE UNCHANGED diskVars
    BY <2>3 DEF IInv, FrameOutlivesTheWork, diskVars
  <2> QED
    BY <2>1, <2>2, <2>3 DEF DiskNext
<1>3. IInv => FrameOutlivesTheWork
  BY DEF IInv
<1> QED
  BY <1>1, <1>2, <1>3, PTL DEF DiskSpec

(* What abandon() returns with is never "ok", and once compact() has       *)
(* returned nothing it reported changes: the service ends only what is     *)
(* pending.                                                                *)
DoneInv ==
    /\ reason # "ok"
    /\ answer = "ok" => at = "returned" /\ operation = "done" /\ told = Steps

(* compact() reports a compaction as done only when the service has said   *)
(* so and the progress shown last was all of it, whatever fails.           *)
THEOREM DoneIsDone == DiskSpec => []OkMeansDone
<1>1. DiskInit => DoneInv
  BY DEF DiskInit, DoneInv
<1>2. DoneInv /\ [DiskNext]_diskVars => DoneInv'
  <2> SUFFICES ASSUME DoneInv, [DiskNext]_diskVars
               PROVE  DoneInv'
    OBVIOUS
  <2> USE DEF DoneInv, DiskReturn, Abandon
  <2>1. CASE CreateEvent \/ StartCompaction \/ Wait
    BY <2>1 DEF CreateEvent, StartCompaction, Wait
  <2>2. CASE Query
    BY <2>2 DEF Query
  <2>3. CASE Cancel \/ Settle \/ Requery
    BY <2>3 DEF Cancel, Settle, Requery
  <2>4. CASE Service
    BY <2>4 DEF Service, Advance, WorkEnds,
                StopOnRequest
  <2>5. CASE UNCHANGED diskVars
    BY <2>5 DEF diskVars
  <2> QED
    BY <2>1, <2>2, <2>3, <2>4, <2>5 DEF DiskNext, Step
<1>3. DoneInv => OkMeansDone
  BY DEF DoneInv, OkMeansDone
<1> QED
  BY <1>1, <1>2, <1>3, PTL DEF DiskSpec

----------------------------------------------------------------------------
(* A child that has exited prints no more, so what the last pass finds     *)
(* empty stays empty.                                                      *)
OutputInv ==
    /\ pipe \in [Stream -> Int] /\ draining \subseteq Stream /\ writing \in Stream \cup {Nothing}
    /\ child = "exited" => writing = Nothing /\ \A s \in Stream : toPrint[s] = 0
    /\ parent \in {"lastDrain", "code"} \/ report = "ok" => child = "exited"
    /\ parent = "lastDrain" => \A s \in Stream \ (draining \cup unread) : pipe[s] = 0
    /\ parent = "code" \/ report = "ok" => \A s \in Stream \ unread : pipe[s] = 0
    /\ report # "none" => parent = "returned"

(* run_wsl() itself: only the parent reads the pipes.                      *)
LEMMA ParentKeepsOutput ==
    ASSUME OutputInv, Parent
    PROVE  OutputInv'
<1> USE DEF OutputInv, RunReturn, childVars
<1>1. CASE Start
  BY <1>1 DEF Start
<1>2. CASE CloseChildEnds
  BY <1>2 DEF CloseChildEnds
<1>3. CASE DrainStream
  <2>1. draining # {} => Turn \in draining
    BY DEF Turn
  <2>2. parent \in {"drain", "lastDrain"} /\ report = "none" /\ Turn \in Stream
    BY <1>3, <2>1 DEF DrainStream
  <2>3. /\ \A s \in Stream \ {Turn} : pipe'[s] = pipe[s]
        /\ draining' \in {draining, draining \ {Turn}}
        /\ Turn \in draining' \/ Turn \in unread' \/ pipe'[Turn] = 0
        /\ unread \subseteq unread'
        /\ pipe' \in [Stream -> Int]
    <3>1. CASE pipe' = [pipe EXCEPT ![Turn] = @ - 1] /\ UNCHANGED <<draining, unread>>
      BY <1>3, <2>1, <2>2, <3>1 DEF DrainStream
    <3>2. CASE UNCHANGED pipe /\ draining' = draining \ {Turn}
      BY <1>3, <2>2, <3>2 DEF DrainStream
    <3> QED
      BY <1>3, <3>1, <3>2 DEF DrainStream
  <2> HIDE DEF Turn
  <2> QED
    BY <1>3, <2>1, <2>2, <2>3 DEF DrainStream
<1>4. CASE Drained
  BY <1>4 DEF Drained
<1>5. CASE ChildIsDone
  BY <1>5 DEF ChildIsDone
<1>6. CASE SliceIsOver
  BY <1>6 DEF SliceIsOver
<1>7. CASE WaitFails
  BY <1>7 DEF WaitFails
<1>8. CASE ReadExitCode
  BY <1>8 DEF ReadExitCode
<1> QED
  BY <1>1, <1>2, <1>3, <1>4, <1>5, <1>6, <1>7, <1>8 DEF Parent

(* The child prints only while it runs, and exits with nothing to print.   *)
LEMMA ChildKeepsOutput ==
    ASSUME OutputInv, Child
    PROVE  OutputInv'
<1> USE DEF OutputInv
<1>1. ASSUME NEW s \in Stream, ChildBeginsWrite(s) PROVE OutputInv'
  BY <1>1 DEF ChildBeginsWrite
<1>2. CASE ChildWrites
  <2>1. pipe' \in [Stream -> Int]
    BY <1>2 DEF ChildWrites
  <2> QED
    BY <1>2, <2>1 DEF ChildWrites
<1>3. CASE ChildReadsToEnd
  BY <1>3 DEF ChildReadsToEnd
<1>4. CASE ChildExits
  BY <1>4 DEF ChildExits
<1> QED
  BY <1>1, <1>2, <1>3, <1>4 DEF Child

(* A run reported as finished has everything its child printed, the words  *)
(* printed last before it exited included: for every number of streams,    *)
(* every size of a pipe, every timeout and every amount of output.         *)
THEOREM NoOutputIsLost == RunSpec => []OutputIsWhole
<1>1. RunInit => OutputInv
  BY DEF RunInit, OutputInv
<1>2. OutputInv /\ [RunNext]_runVars => OutputInv'
  <2> SUFFICES ASSUME OutputInv, [RunNext]_runVars PROVE OutputInv'
    OBVIOUS
  <2>1. CASE UNCHANGED runVars
    BY <2>1 DEF runVars, childVars, OutputInv
  <2> QED
    BY <2>1, ParentKeepsOutput, ChildKeepsOutput DEF RunNext
<1>3. OutputInv => OutputIsWhole
  BY DEF OutputInv, OutputIsWhole
<1> QED
  BY <1>1, <1>2, <1>3, PTL DEF RunSpec

----------------------------------------------------------------------------
(* What the library says of induction, for the least of a set of numbers.  *)
LEMMA Least ==
    ASSUME NEW S \in SUBSET Nat, S # {}
    PROVE  \E m \in S : \A k \in S : m <= k
<1> DEFINE R == {ss \in Nat \X Nat : ss[1] < ss[2]}
<1>1. IsWellFoundedOn(R, Nat)
  BY NatLessThanWellFounded DEF OpToRel
<1>2. PICK m \in S : \A k \in S : <<k, m>> \notin R
  <2> HIDE DEF R
  <2> QED
    BY <1>1, WFMin
<1>3. ASSUME NEW k \in S PROVE m <= k
  <2>1. <<k, m>> \notin R /\ k \in Nat /\ m \in Nat
    BY <1>2
  <2> QED
    BY <2>1
<1> QED
  BY <1>3

(* The members of a finite set of numbers can be told by how many come     *)
(* before each: there is one at every place, and a later one has more.     *)
LEMMA Ranked ==
    ASSUME NEW S \in SUBSET Nat, IsFiniteSet(S)
    PROVE  /\ Cardinality(S) \in Nat
           /\ \A i \in S : Cardinality({j \in S : j < i}) \in 0 .. Cardinality(S) - 1
           /\ \A i, k \in S : i < k =>
                 Cardinality({j \in S : j < i}) < Cardinality({j \in S : j < k})
           /\ \A n \in 1 .. Cardinality(S) : \E i \in S : Cardinality({j \in S : j < i}) = n - 1
<1> DEFINE below(i) == {j \in S : j < i}
           rank == [i \in S |-> Cardinality(below(i))]
           places == 0 .. Cardinality(S) - 1
<1>1. Cardinality(S) \in Nat
  BY FS_CardinalityType
<1>2. \A i \in S : IsFiniteSet(below(i)) /\ Cardinality(below(i)) \in Nat
  BY FS_Subset, FS_CardinalityType
<1>3. ASSUME NEW i \in S, NEW T \in SUBSET S, i \in T, below(i) \subseteq T
      PROVE  Cardinality(below(i)) < Cardinality(T)
  <2>1. IsFiniteSet(T) /\ Cardinality(T) \in Nat
    BY FS_Subset, FS_CardinalityType
  <2>2. IsFiniteSet(T \ {i}) /\ Cardinality(T \ {i}) = Cardinality(T) - 1
    BY <1>3, <2>1, FS_RemoveElement
  <2>3. below(i) \in SUBSET (T \ {i})
    BY <1>3
  <2>4. Cardinality(below(i)) <= Cardinality(T \ {i})
    BY <2>2, <2>3, FS_Subset
  <2> QED
    BY <1>2, <2>1, <2>2, <2>4
<1>4. ASSUME NEW i \in S PROVE Cardinality(below(i)) \in places
  <2>1. Cardinality(below(i)) < Cardinality(S)
    BY <1>3
  <2> QED
    BY <1>1, <1>2, <2>1
<1>5. ASSUME NEW i \in S, NEW k \in S, i < k
      PROVE  Cardinality(below(i)) < Cardinality(below(k))
  <2>0. i \in Nat /\ k \in Nat /\ \A j \in S : j \in Nat
    OBVIOUS
  <2>1. i \in below(k) /\ below(k) \in SUBSET S
    BY <1>5
  <2>2. \A j \in S : j < i => j < k
    BY <1>5, <2>0
  <2>3. below(i) \subseteq below(k)
    BY <2>2
  <2> HIDE DEF below
  <2> QED
    BY <1>3, <2>1, <2>3
<1>6. rank \in Injection(S, places)
  <2>1. ASSUME NEW i \in S, NEW k \in S, rank[i] = rank[k] PROVE i = k
    <3>1. Cardinality(below(i)) = Cardinality(below(k)) /\ i \in Nat /\ k \in Nat
      BY <2>1
    <3> QED
      BY <1>2, <1>5, <3>1
  <2>2. rank \in [S -> places]
    BY <1>4
  <2> QED
    BY <2>1, <2>2 DEF Injection, IsInjective
<1>7. IsFiniteSet(places) /\ Cardinality(places) = Cardinality(S)
  <2>1. Cardinality(S) - 1 \in Int /\ 0 \in Int
    BY <1>1
  <2> QED
    BY <1>1, <2>1, FS_Interval
<1>8. rank \in Surjection(S, places)
  <2> HIDE DEF rank, places
  <2> QED
    BY <1>6, <1>7, FS_Injection
<1>9. ASSUME NEW n \in 1 .. Cardinality(S)
      PROVE  \E i \in S : Cardinality(below(i)) = n - 1
  <2>1. n - 1 \in places
    BY <1>1
  <2>2. \E i \in S : rank[i] = n - 1
    <3> HIDE DEF rank, places
    <3> QED
      BY <1>8, <2>1 DEF Surjection
  <2> QED
    BY <2>2
<1> QED
  BY <1>1, <1>4, <1>5, <1>9

(* Every block of a set lies in a run that has a beginning and an end.     *)
LEMMA RunsHaveEnds ==
    ASSUME NEW A \in SUBSET Nat, NEW bound \in Nat, \A a \in A : a <= bound
    PROVE  /\ \A a \in A : \E first \in Starts(A) : first <= a /\ first .. a \subseteq A
           /\ \A a \in A : /\ EndOf(A, a) \in A /\ a <= EndOf(A, a)
                           /\ EndOf(A, a) + 1 \notin A
                           /\ a .. EndOf(A, a) \subseteq A
<1>1. ASSUME NEW a \in A
      PROVE  \E first \in Starts(A) : first <= a /\ first .. a \subseteq A
  <2> DEFINE back == {s \in Nat : s <= a /\ s .. a \subseteq A}
  <2>1. a \in back
    OBVIOUS
  <2>2. PICK first \in back : \A s \in back : first <= s
    <3> HIDE DEF back
    <3> QED
      BY <2>1, Least DEF back
  <2>3. first \in A
    BY <2>2
  <2>4. ASSUME first - 1 \in A PROVE FALSE
    <3>1. first - 1 \in Nat /\ first - 1 <= a /\ \A i \in first - 1 .. a : i = first - 1 \/ i \in first .. a
      BY <2>2, <2>4
    <3>2. first - 1 \in back
      BY <2>2, <2>4, <3>1
    <3> QED
      BY <2>2, <3>2
  <2> QED
    BY <2>2, <2>3, <2>4 DEF Starts
<1>2. ASSUME NEW a \in A
      PROVE  \E last \in A : a <= last /\ last + 1 \notin A /\ a .. last \subseteq A
  <2> DEFINE stops == {s \in Nat : a <= s /\ s + 1 \notin A}
  <2>1. bound \in stops
    BY DEF stops
  <2>2. PICK last \in stops : \A s \in stops : last <= s
    <3> HIDE DEF stops
    <3> QED
      BY <2>1, Least DEF stops
  <2>3. ASSUME NEW i \in a .. last PROVE i \in A
    <3>1. CASE i = a
      BY <3>1
    <3>2. CASE i # a
      <4>1. i - 1 \in Nat /\ a <= i - 1 /\ i - 1 < last /\ (i - 1) + 1 = i
        BY <2>3, <3>2
      <4> QED
        BY <2>2, <4>1
    <3> QED
      BY <3>1, <3>2
  <2> QED
    BY <2>2, <2>3
<1>3. \A a \in A : /\ EndOf(A, a) \in A /\ a <= EndOf(A, a)
                  /\ EndOf(A, a) + 1 \notin A /\ a .. EndOf(A, a) \subseteq A
  BY <1>2 DEF EndOf
<1> QED
  BY <1>1, <1>3

(* A list of ranges in order, none of which touches another.               *)
InOrder(rs) ==
    /\ rs \in Seq(AllocatedRange)
    /\ \A i \in DOMAIN rs : rs[i].first <= rs[i].last
    /\ \A i, j \in DOMAIN rs : i < j => rs[i].last < rs[j].first

(* What a query lists: every allocated block it was asked about and no     *)
(* other, in order.                                                        *)
LEMMA QueryListsBlocks ==
    ASSUME MaxLength \in Nat, NEW file \in Seq(Value \cup {Hole}), Len(file) <= MaxLength,
           NEW from \in Nat, NEW upTo \in Nat
    PROVE  /\ InOrder(RangesOf(file, from, upTo))
           /\ Blocks(RangesOf(file, from, upTo)) = Allocated(file, from, upTo)
<1> DEFINE A == Allocated(file, from, upTo)
           S == Starts(A)
           R == RangesOf(file, from, upTo)
           nth(n) == Nth(S, n)
           rank(i) == Cardinality({j \in S : j < i})
<1>1. A \in SUBSET (1 .. MaxLength) /\ S \in SUBSET A
  BY DEF Allocated, Starts
<1>2. /\ A \in SUBSET Nat /\ S \in SUBSET Nat
      /\ \A a \in A : a \in Nat /\ a <= MaxLength
      /\ \A i \in S : i \in Nat
  BY <1>1
<1>3. IsFiniteSet(S)
  <2>1. IsFiniteSet(1 .. MaxLength)
    BY FS_Interval
  <2> QED
    BY <1>1, <2>1, FS_Subset
<1> HIDE DEF A, S
<1>4. R = [n \in 1 .. Cardinality(S) |-> [first |-> nth(n), last |-> EndOf(A, nth(n))]]
  BY DEF RangesOf, A, S
<1>5. /\ Cardinality(S) \in Nat
      /\ \A i \in S : rank(i) \in 0 .. Cardinality(S) - 1
      /\ \A i, k \in S : i < k => rank(i) < rank(k)
  BY <1>2, <1>3, Ranked
<1>6. \A n \in 1 .. Cardinality(S) :
         nth(n) \in S /\ rank(nth(n)) = n - 1
  <2>1. \A n \in 1 .. Cardinality(S) : \E i \in S : rank(i) = n - 1
    BY <1>2, <1>3, Ranked
  <2>2. \A n : nth(n) = CHOOSE i \in S : rank(i) = n - 1
    BY DEF Nth
  <2> HIDE DEF rank, nth
  <2> QED
    BY <2>1, <2>2
<1> HIDE DEF R, nth, rank
<1>7. DOMAIN R = 1 .. Cardinality(S) /\ Len(R) = Cardinality(S)
  BY <1>4, <1>5
<1>8. ASSUME NEW n \in DOMAIN R
      PROVE  /\ R[n].first = nth(n) /\ R[n].last = EndOf(A, nth(n))
             /\ R[n].first \in S /\ R[n].last \in A /\ R[n].first <= R[n].last
             /\ R[n].last + 1 \notin A /\ R[n].first .. R[n].last \subseteq A
             /\ R[n] \in AllocatedRange
  <2>1. R[n].first = nth(n) /\ R[n].last = EndOf(A, nth(n)) /\ nth(n) \in S
        /\ R[n] = [first |-> nth(n), last |-> EndOf(A, nth(n))]
    BY <1>4, <1>6, <1>7
  <2>2. nth(n) \in A
    BY <1>1, <2>1
  <2>3. /\ EndOf(A, nth(n)) \in A /\ nth(n) <= EndOf(A, nth(n))
        /\ EndOf(A, nth(n)) + 1 \notin A /\ nth(n) .. EndOf(A, nth(n)) \subseteq A
    BY <1>2, <2>2, RunsHaveEnds
  <2> QED
    BY <1>1, <2>1, <2>2, <2>3 DEF AllocatedRange
<1>9. ASSUME NEW m \in DOMAIN R, NEW n \in DOMAIN R, m < n
      PROVE  R[m].last < R[n].first
  <2>1. m \in Int /\ n \in Int /\ nth(m) \in Nat /\ nth(n) \in Nat /\ nth(m) \in S /\ nth(n) \in S
    <3>1. m \in 1 .. Cardinality(S) /\ n \in 1 .. Cardinality(S)
      BY <1>7
    <3>2. nth(m) \in S /\ nth(n) \in S
      BY <1>6, <3>1
    <3>3. m \in Int /\ n \in Int
      BY <1>5, <3>1
    <3>4. nth(m) \in Nat
      BY <1>2, <3>2
    <3>5. nth(n) \in Nat
      BY <1>2, <3>2
    <3> QED
      BY <3>2, <3>3, <3>4, <3>5
  <2>2. rank(nth(m)) < rank(nth(n)) /\ rank(nth(m)) \in Int /\ rank(nth(n)) \in Int
    BY <1>5, <1>6, <1>7, <1>9, <2>1
  <2>3. nth(m) < nth(n)
    <3>1. nth(m) # nth(n)
      BY <1>5, <2>1, <2>2
    <3>2. ~(nth(n) < nth(m))
      BY <1>5, <2>1, <2>2
    <3> QED
      BY <2>1, <3>1, <3>2
  <2>4. ASSUME R[n].first <= R[m].last PROVE FALSE
    <3>1. R[m].last \in Nat /\ R[m].first = nth(m) /\ R[n].first = nth(n)
      BY <1>2, <1>8
    <3>2. nth(n) - 1 \in R[m].first .. R[m].last
      BY <2>1, <2>3, <2>4, <3>1
    <3>3. nth(n) - 1 \in A
      BY <1>8, <3>2
    <3> QED
      BY <2>1, <3>3 DEF S, Starts
  <2>5. R[m].last \in A /\ R[n].first = nth(n)
    BY <1>8
  <2>6. R[m].last \in Nat
    BY <1>2, <2>5
  <2> QED
    BY <2>1, <2>4, <2>5, <2>6
<1>10. ASSUME NEW a \in A
       PROVE  \E n \in DOMAIN R : a \in R[n].first .. R[n].last
  <2>1. PICK first \in S : first <= a /\ first .. a \subseteq A
    BY <1>2, RunsHaveEnds DEF S
  <2> DEFINE n == rank(first) + 1
  <2>2. n \in DOMAIN R /\ n - 1 = rank(first)
    BY <1>5, <1>7, <2>1
  <2>3. nth(n) = first
    <3>1. nth(n) \in S /\ rank(nth(n)) = rank(first)
      BY <1>6, <1>7, <2>2
    <3>2. ~(nth(n) < first) /\ ~(first < nth(n))
      BY <1>5, <2>1, <3>1
    <3>3. nth(n) \in Nat /\ first \in Nat
      BY <1>2, <3>1
    <3> QED
      BY <3>2, <3>3
  <2> HIDE DEF n
  <2>4. R[n].first = first /\ R[n].last \in Nat /\ R[n].last + 1 \notin A /\ first <= R[n].last
    BY <1>2, <1>8, <2>2, <2>3
  <2>5. a <= R[n].last
    <3>1. R[n].last + 1 \in first .. a \/ a <= R[n].last
      BY <1>2, <2>1, <2>4
    <3> QED
      BY <2>1, <2>4, <3>1
  <2> QED
    BY <1>2, <2>1, <2>2, <2>4, <2>5
<1>11. InOrder(R)
  <2>1. R \in Seq(AllocatedRange)
    BY <1>4, <1>5, <1>7, <1>8
  <2> QED
    BY <1>8, <1>9, <2>1 DEF InOrder
<1>12. Blocks(R) = A
  BY <1>8, <1>10 DEF Blocks
<1> QED
  BY <1>11, <1>12 DEF R, A

(* The first ranges of a list hold its blocks up to where they end.        *)
LEMMA FirstRanges ==
    ASSUME NEW rs, InOrder(rs), NEW k \in 0 .. Len(rs)
    PROVE  LET page == SubSeq(rs, 1, k) IN
           /\ InOrder(page) /\ Len(page) = k /\ \A i \in 1 .. k : page[i] = rs[i]
           /\ Blocks(page) \subseteq Blocks(rs)
           /\ \A b \in Blocks(rs) :
                 k = Len(rs) \/ (k > 0 /\ b <= rs[k].last) => b \in Blocks(page)
<1> DEFINE page == SubSeq(rs, 1, k)
<1>1. /\ rs \in Seq(AllocatedRange) /\ Len(rs) \in Nat /\ DOMAIN rs = 1 .. Len(rs)
      /\ \A i \in 1 .. Len(rs) : rs[i] \in AllocatedRange
      /\ k \in Nat /\ k <= Len(rs) /\ 1 \in Int
  BY DEF InOrder
<1>2. page \in Seq(AllocatedRange) /\ Len(page) = k /\ \A i \in 1 .. k : page[i] = rs[i]
  BY <1>1, SubSeqProperties
<1> HIDE DEF page
<1>3. DOMAIN page = 1 .. k
  BY <1>2
<1>4. InOrder(page)
  BY <1>1, <1>2, <1>3 DEF InOrder
<1>5. Blocks(page) \subseteq Blocks(rs)
  BY <1>1, <1>2, <1>3 DEF Blocks
<1>6. ASSUME NEW b \in Blocks(rs), k = Len(rs) \/ (k > 0 /\ b <= rs[k].last)
      PROVE  b \in Blocks(page)
  <2>1. PICK i \in 1 .. Len(rs) : b \in rs[i].first .. rs[i].last
    BY <1>1 DEF Blocks
  <2>2. i <= k
    <3>1. CASE k > 0 /\ b <= rs[k].last /\ k < i
      <4>1. k \in DOMAIN rs /\ i \in DOMAIN rs /\ rs[k].last < rs[i].first
        BY <1>1, <3>1 DEF InOrder
      <4>2. rs[k].last \in Int /\ rs[i].first \in Int /\ rs[i].last \in Int
        BY <1>1, <4>1 DEF AllocatedRange
      <4> QED
        BY <2>1, <3>1, <4>1, <4>2
    <3>2. i \in Int /\ i <= Len(rs)
      BY <1>1
    <3>3. k \in Int /\ Len(rs) \in Int
      BY <1>1
    <3>4. CASE k = Len(rs)
      BY <3>2, <3>4
    <3> QED
      BY <1>6, <3>1, <3>2, <3>3, <3>4
  <2> QED
    BY <1>1, <1>2, <1>3, <2>1, <2>2 DEF Blocks
<1> QED
  BY <1>2, <1>4, <1>5, <1>6 DEF page

(* A page put after what was listed before it.                             *)
LEMMA RangesJoined ==
    ASSUME NEW rs, InOrder(rs), NEW page, InOrder(page),
           \A i \in DOMAIN rs, j \in DOMAIN page : rs[i].last < page[j].first
    PROVE  InOrder(rs \o page) /\ Blocks(rs \o page) = Blocks(rs) \cup Blocks(page)
<1> DEFINE both == rs \o page
<1>1. /\ rs \in Seq(AllocatedRange) /\ Len(rs) \in Nat /\ DOMAIN rs = 1 .. Len(rs)
      /\ page \in Seq(AllocatedRange) /\ Len(page) \in Nat /\ DOMAIN page = 1 .. Len(page)
  BY DEF InOrder
<1>2. /\ both \in Seq(AllocatedRange) /\ Len(both) = Len(rs) + Len(page)
      /\ \A i \in 1 .. Len(rs) + Len(page) :
            both[i] = IF i <= Len(rs) THEN rs[i] ELSE page[i - Len(rs)]
  BY <1>1, ConcatProperties
<1> HIDE DEF both
<1>3. DOMAIN both = 1 .. Len(rs) + Len(page)
  BY <1>2
<1>4. ASSUME NEW i \in DOMAIN both
      PROVE  \/ i \in DOMAIN rs /\ both[i] = rs[i]
             \/ i > Len(rs) /\ i - Len(rs) \in DOMAIN page /\ both[i] = page[i - Len(rs)]
  BY <1>1, <1>2, <1>3
<1>5. \A i \in DOMAIN both : both[i].first <= both[i].last
  BY <1>4 DEF InOrder
<1>6. ASSUME NEW i \in DOMAIN both, NEW j \in DOMAIN both, i < j
      PROVE  both[i].last < both[j].first
  <2>1. i \in Int /\ j \in Int
    BY <1>1, <1>3
  <2>2. CASE j \in DOMAIN rs
    <3>1. i \in DOMAIN rs /\ both[i] = rs[i] /\ both[j] = rs[j]
      BY <1>1, <1>4, <1>6, <2>1, <2>2
    <3> QED
      BY <1>6, <2>2, <3>1 DEF InOrder
  <2>3. CASE j \notin DOMAIN rs
    <3>1. j > Len(rs) /\ j - Len(rs) \in DOMAIN page /\ both[j] = page[j - Len(rs)]
      BY <1>4, <2>3
    <3>2. CASE i \in DOMAIN rs /\ both[i] = rs[i]
      BY <3>1, <3>2
    <3>3. CASE i - Len(rs) \in DOMAIN page /\ both[i] = page[i - Len(rs)]
      <4>1. i - Len(rs) < j - Len(rs)
        BY <1>1, <1>6, <2>1
      <4> QED
        BY <3>1, <3>3, <4>1 DEF InOrder
    <3> QED
      BY <1>4, <3>2, <3>3
  <2> QED
    BY <2>2, <2>3
<1>7. Blocks(both) = Blocks(rs) \cup Blocks(page)
  <2>1. \A i \in DOMAIN rs : i \in DOMAIN both /\ both[i] = rs[i]
    BY <1>1, <1>2, <1>3
  <2>2. \A j \in DOMAIN page : j + Len(rs) \in DOMAIN both /\ both[j + Len(rs)] = page[j]
    BY <1>1, <1>2, <1>3
  <2> QED
    BY <1>4, <2>1, <2>2 DEF Blocks
<1> QED
  BY <1>2, <1>5, <1>6, <1>7 DEF InOrder, both

(* What is left of a list without its first range.                         *)
LEMMA RangesLeft ==
    ASSUME NEW rs, InOrder(rs), rs # <<>>
    PROVE  /\ Head(rs) = rs[1] /\ 1 \in DOMAIN rs
           /\ Head(rs) \in AllocatedRange /\ Head(rs).first <= Head(rs).last
           /\ InOrder(Tail(rs))
           /\ \A b \in Blocks(rs) : b \in Int /\ b >= Head(rs).first
           /\ Head(rs).first .. Head(rs).last \subseteq Blocks(rs)
           /\ Blocks(Tail(rs)) = {b \in Blocks(rs) : b > Head(rs).last}
           /\ Tail(rs) # <<>> => Head(rs).last < Head(Tail(rs)).last
<1>1. /\ rs \in Seq(AllocatedRange) /\ Len(rs) \in Nat /\ DOMAIN rs = 1 .. Len(rs)
      /\ Len(rs) > 0
  BY DEF InOrder
<1>2. /\ Tail(rs) \in Seq(AllocatedRange) /\ Len(Tail(rs)) = Len(rs) - 1
      /\ \A i \in 1 .. Len(rs) - 1 : Tail(rs)[i] = rs[i + 1]
      /\ DOMAIN Tail(rs) = 1 .. Len(rs) - 1
  BY <1>1, HeadTailProperties
<1>3. Head(rs) = rs[1] /\ 1 \in DOMAIN rs
  BY <1>1
<1>4. /\ \A i \in DOMAIN rs : /\ rs[i].first \in Int /\ rs[i].last \in Int
                             /\ rs[i].first <= rs[i].last /\ rs[i] \in AllocatedRange
      /\ \A i \in DOMAIN rs : i # 1 => rs[1].last < rs[i].first
  <2>1. \A i \in DOMAIN rs : rs[i] \in AllocatedRange
    BY <1>1
  <2>2. \A i \in DOMAIN rs : i # 1 => 1 < i
    BY <1>1
  <2> QED
    BY <1>3, <2>1, <2>2 DEF InOrder, AllocatedRange
<1>5. InOrder(Tail(rs))
  <2>1. \A i \in DOMAIN Tail(rs) : i \in Int /\ i + 1 \in DOMAIN rs /\ Tail(rs)[i] = rs[i + 1]
    BY <1>1, <1>2
  <2>2. \A i, j \in DOMAIN Tail(rs) : i < j => i + 1 < j + 1
    BY <2>1
  <2> QED
    BY <1>2, <2>1, <2>2 DEF InOrder
<1>6. \A b \in Blocks(rs) : b \in Int /\ b >= rs[1].first
  <2> TAKE b \in Blocks(rs)
  <2>1. PICK i \in DOMAIN rs : b \in rs[i].first .. rs[i].last
    BY DEF Blocks
  <2> QED
    BY <1>3, <1>4, <2>1
<1>7. rs[1].first .. rs[1].last \subseteq Blocks(rs)
  BY <1>3 DEF Blocks
<1>8. ASSUME NEW b \in Blocks(Tail(rs))
      PROVE  b \in Blocks(rs) /\ b > rs[1].last
  <2>1. PICK i \in DOMAIN Tail(rs) : b \in Tail(rs)[i].first .. Tail(rs)[i].last
    BY DEF Blocks
  <2>2. i + 1 \in DOMAIN rs /\ i + 1 # 1 /\ Tail(rs)[i] = rs[i + 1]
    BY <1>1, <1>2
  <2> QED
    BY <1>3, <1>4, <2>1, <2>2 DEF Blocks
<1>9. ASSUME NEW b \in Blocks(rs), b > rs[1].last
      PROVE  b \in Blocks(Tail(rs))
  <2>1. PICK i \in DOMAIN rs : b \in rs[i].first .. rs[i].last
    BY DEF Blocks
  <2>2. i # 1
    BY <1>3, <1>4, <1>9, <2>1
  <2>3. i - 1 \in DOMAIN Tail(rs) /\ Tail(rs)[i - 1] = rs[i]
    BY <1>1, <1>2, <2>2
  <2> QED
    BY <2>1, <2>3 DEF Blocks
<1>10. ASSUME Tail(rs) # <<>> PROVE rs[1].last < Head(Tail(rs)).last
  <2>1. 2 \in DOMAIN rs /\ Head(Tail(rs)) = rs[2]
    BY <1>1, <1>2, <1>10
  <2> QED
    BY <1>3, <1>4, <2>1
<1> QED
  BY <1>3, <1>4, <1>5, <1>6, <1>7, <1>8, <1>9, <1>10

(* What WriteFile leaves of a file.                                        *)
LEMMA WriteFile ==
    ASSUME NEW file \in Seq(Value \cup {Hole}), NEW from \in Nat,
           NEW data \in Seq(Value \cup {Hole})
    PROVE  LET new == Written(file, from, data) IN
           /\ new \in Seq(Value \cup {Hole})
           /\ Len(new) = IF Len(file) > from + Len(data) THEN Len(file) ELSE from + Len(data)
           /\ \A i \in DOMAIN file : i \in DOMAIN new
           /\ \A i \in from + 1 .. from + Len(data) : i \in DOMAIN new /\ new[i] = data[i - from]
           /\ \A i \in DOMAIN file \ (from + 1 .. from + Len(data)) : new[i] = file[i]
<1> DEFINE new == Written(file, from, data)
           end == IF Len(file) > from + Len(data) THEN Len(file) ELSE from + Len(data)
<1>1. /\ Len(file) \in Nat /\ Len(data) \in Nat /\ end \in Nat
      /\ DOMAIN file = 1 .. Len(file)
      /\ \A i \in 1 .. Len(file) : file[i] \in Value \cup {Hole}
      /\ \A i \in 1 .. Len(data) : data[i] \in Value \cup {Hole}
  OBVIOUS
<1>2. new = [i \in 1 .. end |-> IF i \in from + 1 .. from + Len(data) THEN data[i - from]
                                ELSE IF i <= Len(file) THEN file[i] ELSE Hole]
  BY DEF Written
<1>3. \A i \in from + 1 .. from + Len(data) : i - from \in 1 .. Len(data)
  BY <1>1
<1>4. \A i \in 1 .. end : new[i] \in Value \cup {Hole}
  <2> TAKE i \in 1 .. end
  <2>1. i \in Int /\ i >= 1
    BY <1>1
  <2>2. CASE i \in from + 1 .. from + Len(data)
    BY <1>1, <1>2, <1>3, <2>2
  <2>3. CASE i \notin from + 1 .. from + Len(data)
    BY <1>1, <1>2, <2>1, <2>3
  <2> QED
    BY <2>2, <2>3
<1>5. DOMAIN new = 1 .. end /\ new \in Seq(Value \cup {Hole}) /\ Len(new) = end
  <2>1. DOMAIN new = 1 .. end
    BY <1>2
  <2>2. new \in [1 .. end -> Value \cup {Hole}]
    BY <1>2, <1>4, <2>1
  <2> HIDE DEF new, end
  <2> QED
    BY <1>1, <2>1, <2>2
<1>6. \A i \in DOMAIN file : i \in 1 .. end
  BY <1>1
<1>7. \A i \in from + 1 .. from + Len(data) : i \in 1 .. end /\ new[i] = data[i - from]
  BY <1>1, <1>2
<1>8. \A i \in DOMAIN file \ (from + 1 .. from + Len(data)) : new[i] = file[i]
  BY <1>1, <1>2, <1>6
<1> QED
  BY <1>5, <1>6, <1>7, <1>8

(* Of which the type and the length.                                       *)
LEMMA WrittenLength ==
    ASSUME NEW file \in Seq(Value \cup {Hole}), NEW from \in Nat,
           NEW data \in Seq(Value \cup {Hole})
    PROVE  /\ Written(file, from, data) \in Seq(Value \cup {Hole})
           /\ Len(Written(file, from, data))
                 = IF Len(file) > from + Len(data) THEN Len(file) ELSE from + Len(data)
BY WriteFile

(* What the copy relies on of its own variables.                           *)
CopyTyped ==
    /\ pc \in {"size", "query", "again", "open", "create", "sparse", "resize", "copy", "done"}
    /\ source \in Seq(Value \cup {Hole}) /\ Len(source) <= MaxLength
    /\ target # NoFile => target \in Seq(Value \cup {Hole}) /\ Len(target) <= MaxLength
    /\ length \in 0 .. MaxLength /\ offset \in 0 .. MaxLength
    /\ InOrder(ranges)
    /\ total \in Nat /\ copied \in 0 .. total
    /\ opened \in BOOLEAN /\ (opened <=> pc \in {"create", "sparse", "resize", "copy"})
    /\ outcome \in {"none", "ok", "error", "partial"} /\ (outcome = "ok" => pc = "done")
    /\ pc \in {"sparse", "resize", "copy"} => target # NoFile

(* The blocks nobody wrote were there when the length was asked.           *)
Untouched == DOMAIN source \ touched

LengthAsked ==
    pc \notin {"size", "done"} =>
        (\A i \in Untouched : i <= length) /\ (touched = {} => length = Len(source))

(* A page begins where the last one ended, so that all of them together    *)
(* hold every block that nobody wrote.                                     *)
Found == Blocks(ranges)

PagesMeet ==
    /\ pc = "size" => ranges = <<>> /\ offset = 0
    /\ pc \in {"size", "query", "again"} => copied = 0 /\ total = 0
    /\ pc = "query" =>
          /\ \A k \in DOMAIN ranges : ranges[k].last <= offset
          /\ \A i \in Untouched : i <= offset /\ source[i] # Hole => i \in Found
    /\ pc \in {"again", "open", "create", "sparse", "resize"} =>
          \A i \in Untouched : source[i] # Hole => i \in Found

(* What is still to be copied, and that every block that nobody wrote and  *)
(* that is not is as it is in the source.                                  *)
Ahead == {b \in Found : b > offset}

CopyAdvances ==
    /\ pc \in {"open", "create", "sparse", "resize"} => offset = 0
    /\ pc \in {"open", "create", "sparse", "resize", "copy"} =>
          /\ copied + Cardinality(Ahead) = total
          /\ ranges # <<>> => offset < Head(ranges).last
    /\ pc = "copy" =>
          /\ length <= Len(target) /\ (touched = {} => Len(target) = length)
          /\ \A i \in Untouched : target[i] = source[i] \/ i \in Ahead
    /\ outcome = "ok" => CopiedIsCopied

CopyInv == CopyTyped /\ LengthAsked /\ PagesMeet /\ CopyAdvances

(* The blocks of a list are few, and none is block 0.                      *)
LEMMA BlocksAreFew ==
    ASSUME MaxLength \in Nat, NEW rs, InOrder(rs), NEW B \in SUBSET Blocks(rs)
    PROVE  /\ IsFiniteSet(B) /\ Cardinality(B) \in Nat
           /\ Blocks(rs) \subseteq 1 .. MaxLength
<1>1. Blocks(rs) \subseteq 1 .. MaxLength
  <2>1. \A i \in DOMAIN rs : rs[i].first \in 1 .. MaxLength /\ rs[i].last \in 1 .. MaxLength
    <3>1. \A i \in DOMAIN rs : rs[i] \in AllocatedRange
      BY DEF InOrder
    <3> QED
      BY <3>1 DEF AllocatedRange
  <2> QED
    BY <2>1 DEF Blocks
<1>2. IsFiniteSet(1 .. MaxLength)
  BY FS_Interval
<1> QED
  BY <1>1, <1>2, FS_Subset, FS_CardinalityType

(* Nothing has been found or copied at first.                              *)
LEMMA CopyStarts ==
    ASSUME Init
    PROVE  CopyInv
<1>1. ranges = <<>> /\ InOrder(<<>>) /\ MaxLength \in Nat
  BY SparseCopyAssumption DEF Init, InOrder
<1>2. source \in Seq(Value \cup {Hole}) /\ Len(source) <= MaxLength
  BY SparseCopyAssumption DEF Init
<1>3. target # NoFile => target \in Seq(Value \cup {Hole}) /\ Len(target) <= MaxLength
  BY SparseCopyAssumption DEF Init
<1>4. CopyTyped
  <2>1. InOrder(ranges)
    BY <1>1
  <2>2. length = 0 /\ offset = 0 /\ total = 0 /\ copied = 0 /\ pc = "size"
        /\ ~opened /\ opened \in BOOLEAN /\ outcome = "none"
    BY DEF Init
  <2> QED
    BY <1>1, <1>2, <1>3, <2>1, <2>2 DEF CopyTyped
<1> QED
  BY <1>1, <1>4 DEF Init, CopyInv, LengthAsked, PagesMeet, CopyAdvances

(* The next page of ranges, listed between two writes by others.           *)
LEMMA PageKeepsInv ==
    ASSUME CopyInv, AllocatedRanges
    PROVE  CopyInv'
<1> DEFINE all == RangesOf(source, offset, length)
           k == IF Len(all) < Page THEN Len(all) ELSE Page
           page == SubSeq(all, 1, k)
<1>1. /\ pc = "query" /\ MaxLength \in Nat /\ Page \in Nat \ {0}
      /\ UNCHANGED <<source, touched, target, length, total, copied>>
  BY SparseCopyAssumption DEF AllocatedRanges, Left
<1>2. /\ source \in Seq(Value \cup {Hole}) /\ Len(source) <= MaxLength /\ DOMAIN source \subseteq Nat
      /\ offset \in Nat /\ length \in 0 .. MaxLength /\ InOrder(ranges)
      /\ ~opened /\ outcome # "ok"
  BY <1>1 DEF CopyInv, CopyTyped
<1>3. CASE End("error") /\ UNCHANGED <<ranges, offset>>
  BY <1>1, <1>3 DEF End, CopyInv, CopyTyped, LengthAsked, PagesMeet, CopyAdvances
<1>4. ASSUME ranges' = ranges \o page,
             \/ ~HasMore(all) /\ Goto("again") /\ offset' = 0
             \/ /\ HasMore(all) /\ offset' = PageEnds(page)
                /\ Goto(IF offset' < length THEN "query" ELSE "again")
      PROVE  CopyInv'
  <2>1. InOrder(all) /\ Blocks(all) = Allocated(source, offset, length)
    BY <1>1, <1>2, QueryListsBlocks
  <2> HIDE DEF all
  <2>2. Len(all) \in Nat /\ k \in 0 .. Len(all) /\ (k < Len(all) => k = Page /\ k > 0)
    BY <1>1, <2>1 DEF InOrder
  <2> HIDE DEF k
  <2>3. /\ InOrder(page) /\ Len(page) = k /\ \A i \in 1 .. k : page[i] = all[i]
        /\ Blocks(page) \subseteq Blocks(all)
        /\ \A b \in Blocks(all) :
              k = Len(all) \/ (k > 0 /\ b <= all[k].last) => b \in Blocks(page)
    BY <2>1, <2>2, FirstRanges
  <2> HIDE DEF page
  <2>4. \A j \in DOMAIN page : /\ offset < page[j].first /\ page[j].last <= length
                               /\ page[j].first \in Nat /\ page[j].last \in Nat
                               /\ page[j].first <= page[j].last
    <3> TAKE j \in DOMAIN page
    <3>1. page[j] \in AllocatedRange /\ page[j].first <= page[j].last
      BY <2>3 DEF InOrder
    <3>2. page[j].first \in Nat /\ page[j].last \in Nat
      BY <3>1 DEF AllocatedRange
    <3>3. page[j].first \in Blocks(page) /\ page[j].last \in Blocks(page)
      BY <3>1, <3>2 DEF Blocks
    <3>4. page[j].first \in Allocated(source, offset, length)
          /\ page[j].last \in Allocated(source, offset, length)
      BY <2>1, <2>3, <3>3
    <3> QED
      BY <3>1, <3>2, <3>4 DEF Allocated
  <2>5. \A i \in DOMAIN ranges, j \in DOMAIN page : ranges[i].last < page[j].first
    <3> TAKE i \in DOMAIN ranges, j \in DOMAIN page
    <3>1. ranges[i].last <= offset
      BY <1>1 DEF CopyInv, PagesMeet
    <3>2. ranges[i].last \in Int
      <4>1. ranges[i] \in AllocatedRange
        BY <1>2 DEF InOrder
      <4> QED
        BY <4>1 DEF AllocatedRange
    <3> QED
      BY <1>2, <2>4, <3>1, <3>2
  <2>6. InOrder(ranges') /\ Found' = Found \cup Blocks(page)
    BY <1>2, <1>4, <2>3, <2>5, RangesJoined DEF Found
  <2>7. \A i \in Untouched : i <= length /\ i \in DOMAIN source /\ i \in Nat
    BY <1>1, <1>2 DEF CopyInv, LengthAsked, Untouched
  <2>8. \A i \in Untouched : source[i] # Hole =>
           i \in Found \/ i \in Blocks(all)
    <3> TAKE i \in Untouched
    <3>1. CASE i <= offset
      BY <1>1, <3>1 DEF CopyInv, PagesMeet
    <3>2. CASE i > offset /\ source[i] # Hole
      BY <2>1, <2>7, <3>2 DEF Allocated
    <3> QED
      BY <1>2, <2>7, <3>1, <3>2
  <2>9. UNCHANGED <<opened, outcome, total, copied, Untouched>> /\ pc' \in {"query", "again"}
    BY <1>1, <1>4 DEF Goto, Untouched
  <2>10. CASE ~HasMore(all) /\ Goto("again") /\ offset' = 0
    <3>1. k = Len(all) /\ pc' = "again"
      BY <1>1, <2>2, <2>10 DEF HasMore, Goto
    <3>2. \A i \in Untouched : source[i] # Hole => i \in Found'
      BY <2>3, <2>6, <2>8, <3>1
    <3> QED
      BY <1>1, <1>2, <2>6, <2>9, <2>10, <3>1, <3>2
         DEF CopyInv, CopyTyped, LengthAsked, PagesMeet, CopyAdvances
  <2>11. CASE /\ HasMore(all) /\ offset' = PageEnds(page)
              /\ Goto(IF offset' < length THEN "query" ELSE "again")
    <3>0. DOMAIN page = 1 .. Len(page) /\ DOMAIN all = 1 .. Len(all)
      BY <2>1, <2>3 DEF InOrder
    <3>1. k = Page /\ k \in DOMAIN page /\ k > 0 /\ k \in DOMAIN all
      <4>1. Len(all) > Page /\ Page \in Nat /\ Page > 0 /\ Len(all) \in Nat
        BY <1>1, <2>2, <2>11 DEF HasMore
      <4>2. k = Page
        BY <4>1 DEF k
      <4>3. Len(page) = k
        BY <2>3
      <4> QED
        BY <3>0, <4>1, <4>2, <4>3
    <3>2. offset' = page[k].last /\ page[k] = all[k]
      BY <2>3, <2>11, <3>1 DEF PageEnds, Last, InOrder
    <3>3. offset' \in 0 .. MaxLength /\ offset < offset'
      <4>1. /\ offset < page[k].first /\ page[k].last <= length
            /\ page[k].first \in Nat /\ page[k].last \in Nat
            /\ page[k].first <= page[k].last
        BY <2>4, <3>1
      <4>2. MaxLength \in Nat /\ offset \in Nat /\ length \in Nat /\ length <= MaxLength
        BY <1>1, <1>2
      <4> QED
        BY <3>2, <4>1, <4>2
    <3>4. \A i \in Untouched : i <= offset' /\ source[i] # Hole => i \in Found'
      BY <2>3, <2>6, <2>8, <3>1, <3>2
    <3>5. pc' = "again" => \A i \in Untouched : source[i] # Hole => i \in Found'
      <4>1. pc' = "again" => ~(offset' < length)
        BY <2>11 DEF Goto
      <4>2. pc' = "again" => \A i \in Untouched : i <= offset'
        BY <1>2, <2>7, <3>3, <4>1
      <4> QED
        BY <3>4, <4>2
    <3>6. \A i \in DOMAIN ranges' : ranges'[i].last <= offset'
      <4> TAKE i \in DOMAIN ranges'
      <4>1. ranges'[i] \in AllocatedRange /\ ranges'[i].first <= ranges'[i].last
        BY <2>6 DEF InOrder
      <4>2. ranges'[i].last \in Nat /\ ranges'[i].last \in Found'
        BY <4>1 DEF AllocatedRange, Found, Blocks
      <4>3. \A b \in Found : b \in Nat /\ b <= offset
        <5> TAKE b \in Found
        <5>1. PICK m \in DOMAIN ranges : b \in ranges[m].first .. ranges[m].last
          BY DEF Found, Blocks
        <5>2. ranges[m].last <= offset /\ ranges[m].first \in Nat /\ ranges[m].last \in Nat
          <6>1. ranges[m] \in AllocatedRange
            BY <1>2 DEF InOrder
          <6> QED
            BY <1>1, <6>1 DEF CopyInv, PagesMeet, AllocatedRange
        <5> QED
          BY <1>2, <5>1, <5>2
      <4>4. \A b \in Blocks(page) : b \in Nat => b <= offset'
        <5> TAKE b \in Blocks(page)
        <5>1. PICK m \in DOMAIN page : b \in page[m].first .. page[m].last
          BY DEF Blocks
        <5>2. m <= k /\ k \in DOMAIN page /\ m \in Int
          BY <2>2, <2>3, <3>1 DEF InOrder
        <5>3. page[m].last <= page[k].last
          <6>1. CASE m = k
            BY <2>4, <6>1
          <6>2. CASE m < k
            <7>1. page[m].last < page[k].first
              BY <2>3, <5>2, <6>2 DEF InOrder
            <7> QED
              BY <2>4, <5>2, <7>1
          <6> QED
            BY <2>2, <5>2, <6>1, <6>2
        <5> QED
          BY <2>4, <3>2, <5>1, <5>2, <5>3
      <4> QED
        BY <1>2, <2>6, <3>3, <4>2, <4>3, <4>4
    <3> QED
      BY <1>1, <1>2, <2>6, <2>9, <3>3, <3>4, <3>5, <3>6
         DEF CopyInv, CopyTyped, LengthAsked, PagesMeet, CopyAdvances
  <2> QED
    BY <1>4, <2>10, <2>11
<1> QED
  BY <1>3, <1>4 DEF AllocatedRanges

(* The calls that list nothing and copy nothing.                           *)
LEMMA CallsKeepInv ==
    ASSUME CopyInv,
           \/ FileSize \/ FileSizeAgain \/ OpenSource
           \/ CreateDestination \/ SetSparse \/ Resize \/ Finish
    PROVE  CopyInv'
<1> USE DEF CopyInv, Left, Goto, End
<1>0. /\ MaxLength \in Nat /\ Len(source) \in Nat /\ DOMAIN source = 1 .. Len(source)
      /\ DOMAIN <<>> = {} /\ Len(source) <= MaxLength
      /\ Untouched \subseteq 1 .. Len(source)
  BY SparseCopyAssumption DEF CopyTyped, Untouched
<1>1. /\ IsFiniteSet(Found) /\ Cardinality(Found) \in Nat /\ Found \subseteq 1 .. MaxLength
      /\ \A b \in Found : b > 0
      /\ ranges # <<>> => 0 < Head(ranges).last
  <2>1. IsFiniteSet(Found) /\ Cardinality(Found) \in Nat /\ Found \subseteq 1 .. MaxLength
    BY <1>0, BlocksAreFew DEF CopyTyped, Found
  <2>2. ranges # <<>> => Head(ranges) \in AllocatedRange
    BY RangesLeft DEF CopyTyped
  <2>3. ranges # <<>> => 0 < Head(ranges).last
    BY <2>2 DEF AllocatedRange
  <2> QED
    BY <1>0, <2>1, <2>3
<1>2. CASE FileSize
  <2>1. pc = "size" /\ ranges = <<>> /\ offset = 0 /\ ~opened /\ outcome # "ok"
    BY <1>2 DEF FileSize, CopyTyped, PagesMeet
  <2>2. UNCHANGED <<source, touched, target, offset, ranges, total, copied, Untouched, Found>>
    BY <1>2 DEF FileSize, Untouched, Found
  <2>3. CASE length' = Len(source) /\ pc' = (IF Len(source) = 0 THEN "again" ELSE "query")
             /\ UNCHANGED <<opened, outcome>>
    <3>1. CopyTyped' /\ LengthAsked'
      BY <1>0, <2>1, <2>2, <2>3 DEF CopyTyped, LengthAsked
    <3>2. PagesMeet'
      <4>1. pc' = "again" => Untouched = {}
        BY <1>0, <2>3
      <4>2. \A i \in Untouched : ~(i <= 0)
        BY <1>0
      <4> QED
        BY <1>0, <2>1, <2>2, <2>3, <4>1, <4>2 DEF PagesMeet
    <3> QED
      BY <2>1, <2>2, <2>3, <3>1, <3>2 DEF CopyAdvances
  <2>4. CASE pc' = "done" /\ outcome' = "error" /\ opened' = FALSE /\ UNCHANGED length
    BY <2>2, <2>4 DEF CopyTyped, LengthAsked, PagesMeet, CopyAdvances
  <2> QED
    BY <1>2, <2>3, <2>4 DEF FileSize
<1>3. CASE FileSizeAgain
  <2>1. pc = "again" /\ copied = 0 /\ ~opened /\ outcome # "ok"
    BY <1>3 DEF FileSizeAgain, CopyTyped, PagesMeet
  <2>2. UNCHANGED <<source, touched, target, ranges, copied, Untouched, Found>> /\ offset' = 0
        /\ total' = Cardinality(Found)
    BY <1>3 DEF FileSizeAgain, Untouched, Found
  <2>5. total' \in Nat /\ copied' \in 0 .. total' /\ offset' \in 0 .. MaxLength
    BY <1>0, <1>1, <2>1, <2>2
  <2>3. CASE length' = Len(source) /\ pc' = "open" /\ UNCHANGED <<opened, outcome>>
    <3>1. CopyTyped'
      BY <1>0, <2>1, <2>2, <2>3, <2>5 DEF CopyTyped
    <3>2. LengthAsked'
      BY <1>0, <2>2, <2>3 DEF LengthAsked
    <3>3. PagesMeet'
      BY <2>1, <2>2, <2>3 DEF PagesMeet
    <3>4. Ahead' = Found
      BY <1>1, <2>2 DEF Ahead
    <3>5. CopyAdvances'
      BY <1>1, <2>1, <2>2, <2>3, <3>4 DEF CopyAdvances
    <3> QED
      BY <3>1, <3>2, <3>3, <3>5
  <2>4. CASE pc' = "done" /\ outcome' = "error" /\ opened' = FALSE /\ UNCHANGED length
    <3>1. CopyTyped'
      BY <1>0, <2>1, <2>2, <2>4, <2>5 DEF CopyTyped
    <3> QED
      BY <2>4, <3>1 DEF LengthAsked, PagesMeet, CopyAdvances
  <2> QED
    BY <1>3, <2>3, <2>4 DEF FileSizeAgain
<1>4. CASE OpenSource \/ SetSparse
  <2>1. /\ UNCHANGED <<source, touched, target, length, offset, ranges, total, copied>>
        /\ pc \in {"open", "sparse"}
    BY <1>4 DEF OpenSource, SetSparse
  <2>2. UNCHANGED <<Untouched, Found, Ahead>>
    BY <2>1 DEF Untouched, Found, Ahead
  <2>3. \/ pc = "open" /\ pc' = "create" /\ opened' = TRUE /\ UNCHANGED outcome
        \/ pc = "sparse" /\ pc' = "resize" /\ UNCHANGED <<opened, outcome>>
        \/ pc' = "done" /\ outcome' = "error" /\ opened' = FALSE
    BY <1>4 DEF OpenSource, SetSparse
  <2> QED
    BY <2>1, <2>2, <2>3 DEF CopyTyped, LengthAsked, PagesMeet, CopyAdvances
<1>5. CASE CreateDestination
  <2>1. /\ UNCHANGED <<source, touched, length, offset, ranges, total, copied>> /\ pc = "create"
    BY <1>5 DEF CreateDestination
  <2>2. UNCHANGED <<Untouched, Found, Ahead>>
    BY <2>1 DEF Untouched, Found, Ahead
  <2>3. <<>> \in Seq(Value \cup {Hole}) /\ Len(<<>>) = 0
    OBVIOUS
  <2>4. NoFile # <<>>
    BY <2>3, SparseCopyAssumption
  <2>5. CASE target' = <<>> /\ pc' = "sparse" /\ UNCHANGED <<opened, outcome>>
    <3>1. CopyTyped'
      BY <1>0, <2>1, <2>3, <2>4, <2>5 DEF CopyTyped
    <3> QED
      BY <2>1, <2>2, <2>5, <3>1 DEF LengthAsked, PagesMeet, CopyAdvances, CopyTyped
  <2>6. CASE UNCHANGED target /\ pc' = "done" /\ outcome' = "error" /\ opened' = FALSE
    BY <2>1, <2>2, <2>6 DEF CopyTyped, LengthAsked, PagesMeet, CopyAdvances
  <2> QED
    BY <1>5, <2>5, <2>6 DEF CreateDestination
<1>6. CASE Resize
  <2>1. /\ UNCHANGED <<source, touched, length, offset, ranges, total, copied>> /\ pc = "resize"
    BY <1>6 DEF Resize
  <2>2. UNCHANGED <<Untouched, Found, Ahead>>
    BY <2>1 DEF Untouched, Found, Ahead
  <2>3. CASE UNCHANGED target /\ pc' = "done" /\ outcome' = "error" /\ opened' = FALSE
    BY <2>1, <2>2, <2>3 DEF CopyTyped, LengthAsked, PagesMeet, CopyAdvances
  <2>4. CASE target' = [i \in 1 .. length |-> Hole] /\ pc' = "copy" /\ UNCHANGED <<opened, outcome>>
    <3>1. length \in Nat /\ length <= MaxLength
      BY <1>0 DEF CopyTyped
    <3>2. target' \in Seq(Value \cup {Hole}) /\ Len(target') = length
          /\ \A i \in 1 .. length : target'[i] = Hole
      BY <2>4, <3>1
    <3>3. target' # NoFile
      BY <3>2, SparseCopyAssumption
    <3>4. CopyTyped' /\ LengthAsked' /\ PagesMeet'
      BY <2>1, <2>2, <2>4, <3>1, <3>2, <3>3 DEF CopyTyped, LengthAsked, PagesMeet
    <3>5. \A i \in Untouched : i \in 1 .. length /\ (source[i] # Hole => i \in Ahead)
      <4> TAKE i \in Untouched
      <4>1. i \in 1 .. Len(source) /\ Len(source) \in Nat
        BY <1>0
      <4>2. i <= length /\ length \in Nat
        BY <2>1, <3>1 DEF LengthAsked
      <4>3. source[i] # Hole => i \in Found
        BY <2>1, <3>1 DEF PagesMeet
      <4>4. offset = 0
        BY <2>1, <3>1 DEF CopyAdvances
      <4> QED
        BY <1>1, <4>1, <4>2, <4>3, <4>4 DEF Ahead
    <3> QED
      BY <2>1, <2>2, <2>4, <3>1, <3>2, <3>4, <3>5 DEF CopyAdvances, CopyTyped
  <2> QED
    BY <1>6, <2>3, <2>4 DEF Resize
<1>7. CASE Finish
  <2>1. /\ UNCHANGED <<source, touched, target, length, offset, ranges, total, copied>>
        /\ pc = "copy" /\ ranges = <<>> /\ pc' = "done" /\ outcome' = "ok" /\ opened' = FALSE
    BY <1>7 DEF Finish
  <2>2. Found = {} /\ Ahead = {} /\ Cardinality(Ahead) = 0
    BY <2>1, <1>0, FS_EmptySet DEF Found, Ahead, Blocks
  <2>3. /\ target \in Seq(Value \cup {Hole}) /\ length <= Len(target) /\ length \in Nat
        /\ touched = {} => Len(target) = length /\ length = Len(source)
        /\ \A i \in Untouched : target[i] = source[i] /\ i <= length
        /\ copied = total
    <3>1. target \in Seq(Value \cup {Hole}) /\ length \in Nat /\ copied \in Nat /\ total \in Nat
      BY <1>0, <2>1 DEF CopyTyped
    <3>2. length <= Len(target) /\ copied + Cardinality(Ahead) = total
          /\ (touched = {} => Len(target) = length)
          /\ \A i \in Untouched : target[i] = source[i] \/ i \in Ahead
      BY <2>1 DEF CopyAdvances
    <3>3. (\A i \in Untouched : i <= length) /\ (touched = {} => length = Len(source))
      BY <2>1 DEF LengthAsked
    <3> QED
      BY <2>2, <3>1, <3>2, <3>3
  <2>4. \A i \in DOMAIN source \ touched : i \in DOMAIN target /\ target[i] = source[i]
    <3> TAKE i \in DOMAIN source \ touched
    <3>1. i \in Untouched /\ i \in 1 .. Len(source) /\ Len(source) \in Nat
      BY <1>0 DEF Untouched
    <3> QED
      BY <2>3, <3>1
  <2>5. touched = {} => target = source
    <3> SUFFICES ASSUME touched = {} PROVE target = source
      OBVIOUS
    <3>1. Len(target) = Len(source) /\ \A i \in 1 .. Len(source) : target[i] = source[i]
      BY <1>0, <2>3, <2>4
    <3>2. source \in Seq(Value \cup {Hole})
      BY DEF CopyTyped
    <3> QED
      BY <2>3, <3>1, <3>2
  <2>6. CopiedIsCopied'
    BY <2>1, <2>3, <2>4, <2>5 DEF CopiedIsCopied
  <2> QED
    BY <2>1, <2>6 DEF CopyTyped, LengthAsked, PagesMeet, CopyAdvances
<1> QED
  BY <1>2, <1>3, <1>4, <1>5, <1>6, <1>7

(* Until the source is open others write it: what they write is touched.   *)
LEMMA OthersKeepInv ==
    ASSUME CopyInv, OthersWrite
    PROVE  CopyInv'
<1>1. /\ pc \in {"size", "query", "again", "open"} /\ outcome # "ok" /\ MaxLength \in Nat
      /\ source \in Seq(Value \cup {Hole}) /\ Len(source) \in Nat /\ Len(source) <= MaxLength
      /\ DOMAIN source = 1 .. Len(source)
      /\ UNCHANGED <<pc, target, length, offset, ranges, total, copied, opened, outcome>>
  BY SparseCopyAssumption DEF OthersWrite, CopyInv, CopyTyped
<1>2. /\ source' \in Seq(Value \cup {Hole}) /\ Len(source') <= MaxLength
      /\ touched' # {}
      /\ Untouched' \subseteq Untouched /\ \A i \in Untouched' : source'[i] = source[i]
  <2>1. ASSUME NEW i \in DOMAIN source, NEW v \in Value \cup {Hole},
               source' = [source EXCEPT ![i] = v], touched' = touched \cup {i}
        PROVE  /\ source' \in Seq(Value \cup {Hole}) /\ Len(source') = Len(source)
               /\ DOMAIN source' = DOMAIN source
               /\ \A j \in DOMAIN source : j # i => source'[j] = source[j]
    BY <1>1, <2>1
  <2>2. ASSUME Len(source) < MaxLength, NEW v \in Value \cup {Hole}, source' = Append(source, v),
               touched' = touched \cup {Len(source) + 1}
        PROVE  /\ source' \in Seq(Value \cup {Hole}) /\ Len(source') = Len(source) + 1
               /\ DOMAIN source' = 1 .. Len(source) + 1
               /\ \A j \in DOMAIN source : source'[j] = source[j]
    BY <1>1, <2>2, AppendProperties
  <2>3. ASSUME source # <<>>, source' = Front(source), touched' = touched \cup {Len(source)}
        PROVE  /\ source' \in Seq(Value \cup {Hole}) /\ Len(source') = Len(source) - 1
               /\ DOMAIN source' = 1 .. Len(source) - 1
               /\ \A j \in 1 .. Len(source) - 1 : source'[j] = source[j]
    <3>1. Len(source) > 0 /\ \A j \in 1 .. Len(source) - 1 : source[j] \in Value \cup {Hole}
      BY <1>1, <2>3
    <3>2. Len(source) - 1 \in Int /\ 1 \in Int /\ Len(source) - 1 >= 0
      BY <1>1, <3>1
    <3>3. source' = SubSeq(source, 1, Len(source) - 1)
      BY <2>3 DEF Front
    <3> QED
      BY <1>1, <3>1, <3>2, <3>3, SubSeqProperties
  <2>4. \/ \E i \in DOMAIN source, v \in Value \cup {Hole} :
              source' = [source EXCEPT ![i] = v] /\ touched' = touched \cup {i}
        \/ /\ Len(source) < MaxLength /\ touched' = touched \cup {Len(source) + 1}
           /\ \E v \in Value \cup {Hole} : source' = Append(source, v)
        \/ source # <<>> /\ source' = Front(source) /\ touched' = touched \cup {Len(source)}
    BY DEF OthersWrite
  <2>5. CASE \E i \in DOMAIN source, v \in Value \cup {Hole} :
              source' = [source EXCEPT ![i] = v] /\ touched' = touched \cup {i}
    BY <1>1, <2>1, <2>5 DEF Untouched
  <2>6. CASE /\ Len(source) < MaxLength /\ touched' = touched \cup {Len(source) + 1}
             /\ \E v \in Value \cup {Hole} : source' = Append(source, v)
    <3>1. \A j \in 1 .. Len(source) + 1 : j = Len(source) + 1 \/ j \in 1 .. Len(source)
      BY <1>1
    <3> QED
      BY <1>1, <2>2, <2>6, <3>1 DEF Untouched
  <2>7. CASE source # <<>> /\ source' = Front(source) /\ touched' = touched \cup {Len(source)}
    BY <1>1, <2>3, <2>7 DEF Untouched
  <2> QED
    BY <2>4, <2>5, <2>6, <2>7
<1>3. UNCHANGED <<Found, Ahead>>
  BY <1>1 DEF Found, Ahead
<1>4. CopyTyped' /\ LengthAsked'
  BY <1>1, <1>2 DEF CopyInv, CopyTyped, LengthAsked
<1>5. PagesMeet' /\ CopyAdvances'
  BY <1>1, <1>2, <1>3 DEF CopyInv, PagesMeet, CopyAdvances
<1> QED
  BY <1>4, <1>5 DEF CopyInv

(* A chunk is read, written and counted, or the copy ends in failure.      *)
LEMMA ChunkKeepsInv ==
    ASSUME CopyInv, CopyChunk
    PROVE  CopyInv'
<1> DEFINE range == Head(ranges)
           from == IF offset < range.first THEN range.first - 1 ELSE offset
           want == ChunkSize(range, from)
           there == Max0(Len(source) - from)
<1>1. /\ pc = "copy" /\ ranges # <<>> /\ outcome # "ok"
      /\ UNCHANGED <<source, touched, length, total, Untouched>>
  BY DEF CopyChunk, Left, Untouched, CopyInv, CopyTyped
<1>2. /\ MaxLength \in Nat /\ Chunk \in Nat /\ Chunk > 0
      /\ source \in Seq(Value \cup {Hole}) /\ target \in Seq(Value \cup {Hole})
      /\ Len(source) \in Nat /\ Len(source) <= MaxLength /\ DOMAIN source = 1 .. Len(source)
      /\ Len(target) \in Nat /\ Len(target) <= MaxLength /\ DOMAIN target = 1 .. Len(target)
      /\ length \in Nat /\ offset \in Nat /\ offset <= MaxLength
      /\ total \in Nat /\ copied \in Nat /\ InOrder(ranges) /\ opened
      /\ NoFile \notin Seq(Value \cup {Hole})
      /\ Untouched \subseteq 1 .. Len(source)
  BY <1>1, SparseCopyAssumption DEF CopyInv, CopyTyped, Untouched
<1>3. /\ range.first \in Nat /\ range.last \in Nat /\ range.first > 0 /\ range.first <= range.last
      /\ offset < range.last
  <2>1. range \in AllocatedRange /\ range.first <= range.last
    BY <1>1, <1>2, RangesLeft
  <2>2. range.first \in 1 .. MaxLength /\ range.last \in 1 .. MaxLength
    BY <2>1 DEF AllocatedRange
  <2>3. offset < range.last
    BY <1>1 DEF CopyInv, CopyAdvances
  <2> QED
    BY <1>2, <2>1, <2>2, <2>3
<1>4. /\ from \in Nat /\ offset <= from /\ range.first - 1 <= from /\ from < range.last
      /\ from = offset \/ from = range.first - 1
  BY <1>2, <1>3
<1>5. want \in Nat /\ want <= range.last - from
  BY <1>2, <1>3, <1>4 DEF ChunkSize
<1>6. there \in Nat /\ (there > 0 => there = Len(source) - from)
  BY <1>2, <1>4 DEF Max0
<1> HIDE DEF from, want, there
<1>7. ASSUME target' \in Seq(Value \cup {Hole}), Len(target') <= MaxLength,
             pc' = "done", outcome' = "error", opened' = FALSE, UNCHANGED <<copied, offset, ranges>>
      PROVE  CopyInv'
  <2>1. target' # NoFile
    BY <1>2, <1>7
  <2>2. CopyTyped'
    BY <1>1, <1>2, <1>7, <2>1 DEF CopyInv, CopyTyped
  <2> QED
    BY <1>7, <2>2 DEF CopyInv, LengthAsked, PagesMeet, CopyAdvances
<1>8. ASSUME NEW n \in 1 .. (IF want < there THEN want ELSE there)
      PROVE  /\ n \in Nat /\ n > 0 /\ from + n <= range.last /\ from + n <= Len(source)
             /\ SubSeq(source, from + 1, from + n) \in Seq(Value \cup {Hole})
             /\ Len(SubSeq(source, from + 1, from + n)) = n
             /\ \A i \in from + 1 .. from + n :
                   SubSeq(source, from + 1, from + n)[i - from] = source[i]
  <2>1. n \in Nat /\ n > 0 /\ n <= want /\ n <= there
    BY <1>5, <1>6
  <2>2. from + n <= range.last /\ from + n <= Len(source)
    <3>1. from \in Nat /\ range.last \in Nat /\ Len(source) \in Nat
      BY <1>2, <1>3, <1>4
    <3>2. n <= range.last - from
      BY <1>3, <1>4, <1>5, <2>1
    <3>3. n <= Len(source) - from
      BY <1>6, <2>1
    <3> QED
      BY <2>1, <3>1, <3>2, <3>3
  <2>3. /\ from + 1 \in 1 .. Len(source) + 1 /\ from + n \in from .. Len(source)
        /\ from + n >= from + 1 - 1
    BY <1>2, <1>4, <2>1, <2>2
  <2>4. \A i \in from + 1 .. from + n : source[i] \in Value \cup {Hole}
    <3>1. \A i \in from + 1 .. from + n : i \in 1 .. Len(source)
      BY <1>2, <1>4, <2>1, <2>2
    <3> QED
      BY <1>2, <3>1
  <2>5. /\ SubSeq(source, from + 1, from + n) =
              [i \in 1 .. n |-> source[from + i]]
    BY <1>2, <1>4, <2>1, <2>2
  <2>6. \A i \in 1 .. n : from + i \in from + 1 .. from + n
    BY <1>4, <2>1
  <2>7. [i \in 1 .. n |-> source[from + i]] \in [1 .. n -> Value \cup {Hole}]
    BY <2>4, <2>6
  <2>8. \A i \in from + 1 .. from + n : i - from \in 1 .. n /\ from + (i - from) = i
    BY <1>4, <2>1
  <2>9. SubSeq(source, from + 1, from + n) \in Seq(Value \cup {Hole})
        /\ Len(SubSeq(source, from + 1, from + n)) = n
    <3> DEFINE read == [i \in 1 .. n |-> source[from + i]]
    <3>1. read \in [1 .. n -> Value \cup {Hole}] /\ DOMAIN read = 1 .. n
      BY <2>7
    <3> HIDE DEF read
    <3>2. read \in Seq(Value \cup {Hole}) /\ Len(read) = n
      BY <2>1, <3>1
    <3> QED
      BY <2>5, <3>2 DEF read
  <2>10. \A i \in from + 1 .. from + n :
            SubSeq(source, from + 1, from + n)[i - from] = source[i]
    BY <2>5, <2>8
  <2> QED
    BY <2>1, <2>2, <2>9, <2>10
<1>9. ASSUME NEW n \in 1 .. (IF want < there THEN want ELSE there), NEW m \in 0 .. n - 1,
             target' = Written(target, from, SubSeq(SubSeq(source, from + 1, from + n), 1, m)),
             pc' = "done", outcome' = "error", opened' = FALSE, UNCHANGED <<copied, offset, ranges>>
      PROVE  CopyInv'
  <2> DEFINE data == SubSeq(source, from + 1, from + n)
             part == SubSeq(data, 1, m)
  <2>1. /\ n \in Nat /\ data \in Seq(Value \cup {Hole}) /\ Len(data) = n
        /\ from + n <= Len(source)
    BY <1>8
  <2>2. m \in Nat /\ m < n /\ m <= Len(data)
    BY <2>1
  <2> HIDE DEF data
  <2>3. part \in Seq(Value \cup {Hole}) /\ Len(part) = m
    BY <2>1, <2>2
  <2> HIDE DEF part
  <2>4. target' \in Seq(Value \cup {Hole})
        /\ Len(target') = IF Len(target) > from + m THEN Len(target) ELSE from + m
    <3>1. target' = Written(target, from, part)
      BY <1>9 DEF part, data
    <3> QED
      BY <1>2, <1>4, <2>3, <3>1, WrittenLength
  <2>5. Len(target') <= MaxLength
    BY <1>2, <1>4, <2>1, <2>2, <2>4
  <2> QED
    BY <1>7, <1>9, <2>4, <2>5
<1>10. ASSUME NEW n \in 1 .. (IF want < there THEN want ELSE there),
              target' = Written(target, from, SubSeq(source, from + 1, from + n)),
              copied' = copied + n, offset' = from + n,
              ranges' = (IF from + n = range.last THEN Tail(ranges) ELSE ranges),
              \/ pc' = "copy" /\ UNCHANGED <<opened, outcome>>
              \/ pc' = "done" /\ outcome' = "partial" /\ opened' = FALSE
       PROVE  CopyInv'
  <2> DEFINE data == SubSeq(source, from + 1, from + n)
             done == from + 1 .. from + n
  <2>1. /\ n \in Nat /\ n > 0 /\ from + n <= range.last /\ from + n <= Len(source)
        /\ data \in Seq(Value \cup {Hole}) /\ Len(data) = n
        /\ \A i \in done : data[i - from] = source[i]
    BY <1>8
  <2> HIDE DEF data
  <2>2. /\ target' \in Seq(Value \cup {Hole})
        /\ Len(target') = IF Len(target) > from + n THEN Len(target) ELSE from + n
        /\ \A i \in done : i \in DOMAIN target' /\ target'[i] = source[i]
        /\ \A i \in DOMAIN target \ done : target'[i] = target[i]
    <3>1. target' = Written(target, from, data)
      BY <1>10 DEF data
    <3>2. /\ target' \in Seq(Value \cup {Hole})
          /\ Len(target') = IF Len(target) > from + Len(data) THEN Len(target) ELSE from + Len(data)
          /\ \A i \in from + 1 .. from + Len(data) : i \in DOMAIN target' /\ target'[i] = data[i - from]
          /\ \A i \in DOMAIN target \ (from + 1 .. from + Len(data)) : target'[i] = target[i]
      <4> DEFINE new == Written(target, from, data)
      <4>1. /\ new \in Seq(Value \cup {Hole})
            /\ Len(new) = IF Len(target) > from + Len(data) THEN Len(target) ELSE from + Len(data)
            /\ \A i \in from + 1 .. from + Len(data) : i \in DOMAIN new /\ new[i] = data[i - from]
            /\ \A i \in DOMAIN target \ (from + 1 .. from + Len(data)) : new[i] = target[i]
        <5>1. target \in Seq(Value \cup {Hole}) /\ from \in Nat /\ data \in Seq(Value \cup {Hole})
          BY <1>2, <1>4, <2>1
        <5> HIDE DEF done
        <5> QED
          BY <5>1, WriteFile
      <4> HIDE DEF new
      <4> QED
        BY <3>1, <4>1 DEF new
    <3> QED
      BY <2>1, <3>2
  <2>3. Len(target') \in Nat /\ Len(target') <= MaxLength /\ Len(target) <= Len(target')
        /\ target' # NoFile
    BY <1>2, <1>4, <2>1, <2>2
  <2>4. /\ \A b \in Found : b \in Int /\ b >= range.first
        /\ range.first .. range.last \subseteq Found
        /\ Blocks(Tail(ranges)) = {b \in Found : b > range.last}
        /\ InOrder(Tail(ranges))
        /\ Tail(ranges) # <<>> => range.last < Head(Tail(ranges)).last
    BY <1>1, <1>2, RangesLeft DEF Found
  <2>5. done \subseteq Ahead /\ Ahead = {b \in Found : b > from}
    <3>1. \A b \in done : b \in range.first .. range.last /\ b > offset
      BY <1>2, <1>3, <1>4, <2>1
    <3>2. \A b \in Found : b > offset <=> b > from
      BY <1>2, <1>3, <1>4, <2>4
    <3> QED
      BY <2>4, <3>1, <3>2 DEF Ahead
  <2>6. Ahead' = {b \in Found : b > from + n}
    <3>1. CASE from + n = range.last
      <4>1. Found' = {b \in Found : b > range.last}
        BY <1>10, <2>4, <3>1 DEF Found
      <4> QED
        BY <1>10, <3>1, <4>1 DEF Ahead
    <3>2. CASE from + n # range.last
      <4>1. Found' = Found
        BY <1>10, <3>2 DEF Found
      <4> QED
        BY <1>10, <4>1 DEF Ahead
    <3> QED
      BY <3>1, <3>2
  <2>7. Ahead' = Ahead \ done
    <3>1. \A b \in Found : b > from + n <=> b > from /\ b \notin done
      BY <1>4, <2>1, <2>4
    <3> QED
      BY <2>5, <2>6, <3>1
  <2>8. Cardinality(Ahead') = Cardinality(Ahead) - n /\ Cardinality(Ahead) \in Nat
        /\ Cardinality(Ahead') \in Nat
    <3>1. IsFiniteSet(Ahead) /\ Cardinality(Ahead) \in Nat /\ IsFiniteSet(Ahead')
          /\ Cardinality(Ahead') \in Nat
      <4>1. Ahead \in SUBSET Blocks(ranges) /\ Ahead' \in SUBSET Ahead
        BY <2>7 DEF Ahead, Found
      <4>2. Ahead' \in SUBSET Blocks(ranges)
        BY <4>1
      <4> QED
        BY <1>2, <4>1, <4>2, BlocksAreFew
    <3>2. Cardinality(done) = n
      BY <1>4, <2>1, FS_Interval
    <3>3. Ahead \cap done = done
      BY <2>5
    <3>4. Cardinality(Ahead \ done) = Cardinality(Ahead) - Cardinality(Ahead \cap done)
      BY <3>1, FS_Difference
    <3> QED
      BY <2>7, <3>1, <3>2, <3>3, <3>4
  <2>9. copied + Cardinality(Ahead) = total
    BY <1>1 DEF CopyInv, CopyAdvances
  <2>10. copied' \in 0 .. total /\ copied' + Cardinality(Ahead') = total
    BY <1>2, <1>10, <2>1, <2>8, <2>9
  <2>11. InOrder(ranges') /\ offset' \in 0 .. MaxLength
    <3>1. offset' \in 0 .. MaxLength
      BY <1>2, <1>4, <1>10, <2>1
    <3>2. InOrder(ranges')
      BY <1>2, <1>10, <2>4
    <3> QED
      BY <3>1, <3>2
  <2>12. ranges' # <<>> => offset' < Head(ranges').last
    <3>1. CASE from + n = range.last
      BY <1>10, <2>4, <3>1
    <3>2. CASE from + n # range.last
      BY <1>3, <1>4, <1>10, <2>1, <3>2
    <3> QED
      BY <3>1, <3>2
  <2>13. \A i \in Untouched : target'[i] = source[i] \/ i \in Ahead'
    <3> TAKE i \in Untouched
    <3>1. i <= length /\ length <= Len(target) /\ i \in Nat /\ i > 0
      <4>1. i \in 1 .. Len(source) /\ Len(source) \in Nat
        BY <1>2
      <4>2. i <= length
        BY <1>1 DEF CopyInv, LengthAsked
      <4>3. length <= Len(target)
        BY <1>1 DEF CopyInv, CopyAdvances
      <4> QED
        BY <4>1, <4>2, <4>3
    <3>2. i \in DOMAIN target
      BY <1>2, <3>1
    <3>3. CASE i \in done
      BY <2>2, <3>3
    <3>4. CASE i \notin done
      <4>1. target[i] = source[i] \/ i \in Ahead
        BY <1>1 DEF CopyInv, CopyAdvances
      <4> QED
        BY <2>2, <2>7, <3>2, <3>4, <4>1
    <3> QED
      BY <3>3, <3>4
  <2>14. length <= Len(target') /\ (touched = {} => Len(target') = length)
    <3>1. /\ length <= Len(target) /\ (touched = {} => Len(target) = length)
          /\ touched = {} => length = Len(source)
      BY <1>1 DEF CopyInv, LengthAsked, CopyAdvances
    <3>2. from + n \in Int /\ from + n <= Len(source) /\ Len(source) \in Int /\ length \in Int
          /\ Len(target) \in Int
      BY <1>2, <1>4, <2>1
    <3>3. Len(target') = IF Len(target) > from + n THEN Len(target) ELSE from + n
      BY <2>2
    <3> HIDE DEF done
    <3> QED
      BY <2>3, <3>1, <3>2, <3>3
  <2> HIDE DEF done, range
  <2>15. CopyTyped'
    BY <1>1, <1>2, <1>10, <2>2, <2>3, <2>10, <2>11 DEF CopyInv, CopyTyped
  <2>16. LengthAsked' /\ PagesMeet'
    <3>1. pc' \in {"copy", "done"}
      BY <1>10
    <3> QED
      BY <1>1, <3>1 DEF CopyInv, LengthAsked, PagesMeet
  <2>17. CopyAdvances'
    <3>1. pc' \in {"copy", "done"} /\ outcome' # "ok"
      BY <1>1, <1>10
    <3> QED
      BY <1>1, <2>10, <2>12, <2>13, <2>14, <3>1 DEF CopyAdvances
  <2> QED
    BY <2>15, <2>16, <2>17 DEF CopyInv
<1>11. \/ \E n \in 1 .. (IF want < there THEN want ELSE there) :
            \/ /\ target' = Written(target, from, SubSeq(source, from + 1, from + n))
               /\ copied' = copied + n /\ offset' = from + n
               /\ ranges' = IF from + n = range.last THEN Tail(ranges) ELSE ranges
               /\ \/ pc' = "copy" /\ UNCHANGED <<opened, outcome>>
                  \/ pc' = "done" /\ outcome' = "partial" /\ opened' = FALSE
            \/ /\ \E m \in 0 .. n - 1 : target' =
                     Written(target, from, SubSeq(SubSeq(source, from + 1, from + n), 1, m))
               /\ pc' = "done" /\ outcome' = "error" /\ opened' = FALSE
               /\ UNCHANGED <<copied, offset, ranges>>
       \/ /\ pc' = "done" /\ outcome' = "error" /\ opened' = FALSE
          /\ UNCHANGED <<target, copied, offset, ranges>>
  BY DEF CopyChunk, Goto, End, EndedEarly, from, want, there
<1> HIDE DEF range
<1>12. CASE pc' = "done" /\ outcome' = "error" /\ opened' = FALSE
            /\ UNCHANGED <<target, copied, offset, ranges>>
  BY <1>2, <1>7, <1>12
<1> QED
  BY <1>9, <1>10, <1>11, <1>12

(* Every step of the copy, and every write by others.                      *)
LEMMA CopyKeepsInv ==
    ASSUME CopyInv, [Next]_vars
    PROVE  CopyInv'
<1>1. CASE UNCHANGED vars
  BY <1>1 DEF vars, CopyInv, CopyTyped, LengthAsked, PagesMeet, CopyAdvances,
              CopiedIsCopied, Untouched, Found, Ahead
<1> QED
  BY <1>1, PageKeepsInv, CallsKeepInv, ChunkKeepsInv, OthersKeepInv DEF Next, Copy

(* The ranges a copy works from stay in the order they were listed in, and *)
(* none of them overlaps another, whatever the source, the size of a page  *)
(* and of a chunk, and whatever fails or is written meanwhile.             *)
THEOREM CopyIsTyped == Spec => []TypeOK
<1>1. CopyInv => TypeOK
  <2> SUFFICES ASSUME CopyInv PROVE TypeOK
    OBVIOUS
  <2>1. MaxLength \in Nat /\ CopyTyped
    BY SparseCopyAssumption DEF CopyInv
  <2>2. /\ Len(source) \in 0 .. MaxLength
        /\ source \in [1 .. Len(source) -> Value \cup {Hole}]
    BY <2>1 DEF CopyTyped
  <2>3. source \in UNION {[1 .. n -> Value \cup {Hole}] : n \in 0 .. MaxLength}
    BY <2>2
  <2>4. target = NoFile \/ DOMAIN target \subseteq 1 .. MaxLength
    <3>1. ASSUME target # NoFile PROVE DOMAIN target \subseteq 1 .. MaxLength
      <4>1. target \in Seq(Value \cup {Hole}) /\ Len(target) <= MaxLength
        BY <2>1, <3>1 DEF CopyTyped
      <4>2. Len(target) \in Nat /\ DOMAIN target = 1 .. Len(target)
        BY <4>1
      <4> QED
        BY <2>1, <4>1, <4>2
    <3> QED
      BY <3>1
  <2>5. opened = (pc \in {"create", "sparse", "resize", "copy"})
    <3>1. opened \in BOOLEAN /\ (opened <=> pc \in {"create", "sparse", "resize", "copy"})
      BY <2>1 DEF CopyTyped
    <3> QED
      BY <3>1
  <2> QED
    BY <2>1, <2>3, <2>4, <2>5 DEF CopyTyped, InOrder, TypeOK
<1> QED
  BY <1>1, CopyStarts, CopyKeepsInv, PTL DEF Spec

(* A copy reported complete holds what the source holds wherever nobody    *)
(* wrote it: for every file, every way it is split into pages and chunks,  *)
(* every short read, and every write by others before the source is open.  *)
THEOREM CopyIsFaithful == Spec => []CopiedIsCopied
<1>1. CopyInv => CopiedIsCopied
  BY DEF CopyInv, CopyAdvances, CopiedIsCopied
<1> QED
  BY <1>1, CopyStarts, CopyKeepsInv, PTL DEF Spec
=============================================================================
