----------------------------- MODULE SparseCopy -----------------------------
(***************************************************************************)
(* copy_file_sparse() in full, the call that Move takes for one step each  *)
(* of listing, creating and copying: the ranges that hold anything are     *)
(* listed in pages, and copied a chunk at a time between two handles.      *)
(* Until the source is open others write it, and reads may come up short.  *)
(*                                                                         *)
(* A file is the sequence of its blocks.                                   *)
(***************************************************************************)
EXTENDS Integers, Sequences, FiniteSets, SequencesExt

CONSTANTS
    Value,       \* what a block may hold
    Hole,        \* a block nothing is allocated for
    NoFile,      \* nothing at the destination
    Page,        \* how many ranges one query returns
    Chunk,       \* how many blocks one read may return
    Source0,     \* what the source may be at first
    Target0,     \* what may be at the destination already
    MaxLength,   \* the longest the source gets
    Writes,      \* how often others write the source
    Fallible     \* the calls that may fail for a reason the model has no state for

ASSUME SparseCopyAssumption ==
    /\ Hole \notin Value
    /\ Page \in Nat \ {0} /\ Chunk \in Nat \ {0}
    /\ MaxLength \in Nat /\ Writes \in Nat
    /\ \A file \in Source0 : file \in Seq(Value \cup {Hole}) /\ Len(file) <= MaxLength
    /\ \A file \in Target0 \ {NoFile} : file \in Seq(Value \cup {Hole}) /\ Len(file) <= MaxLength
    /\ NoFile \notin Seq(Value \cup {Hole})
    /\ Fallible \subseteq {"query", "open", "create", "sparse", "resize", "read", "write", "cancel"}

MayFail(call) == call \in Fallible

VARIABLES
    pc,
    source,
    target,
    length,    \* the file's length, asked before the ranges and after
    offset,    \* where the next page of ranges begins, or the next chunk
    ranges,    \* the ranges not yet copied, after they have all been listed
    total,     \* how many blocks they have
    copied,
    opened,    \* whether the two handles are open
    outcome,
    writes,    \* how often others wrote the source
    touched    \* the blocks they wrote

vars == <<pc, source, target, length, offset, ranges, total, copied, opened, outcome,
          writes, touched>>

(* A run of blocks, its first and its last.                                *)
AllocatedRange == [first : 1 .. MaxLength, last : 1 .. MaxLength]

TypeOK ==
    /\ pc \in {"size", "query", "again", "open", "create", "sparse", "resize", "copy", "done"}
    /\ source \in UNION {[1 .. n -> Value \cup {Hole}] : n \in 0 .. MaxLength}
    /\ target = NoFile \/ DOMAIN target \subseteq 1 .. MaxLength
    /\ length \in 0 .. MaxLength
    /\ offset \in 0 .. MaxLength
    /\ ranges \in Seq(AllocatedRange)
    /\ \A i, j \in DOMAIN ranges : i < j => ranges[i].last < ranges[j].first
    /\ copied \in 0 .. total
    /\ opened = (pc \in {"create", "sparse", "resize", "copy"})
    /\ outcome \in {"none", "ok", "error", "partial"}

Init ==
    /\ pc = "size"
    /\ source \in Source0
    /\ target \in Target0
    /\ length = 0 /\ offset = 0 /\ ranges = <<>> /\ total = 0 /\ copied = 0
    /\ opened = FALSE
    /\ outcome = "none"
    /\ writes = 0
    /\ touched = {}
----------------------------------------------------------------------------
Goto(next) == pc' = next /\ UNCHANGED <<opened, outcome>>

End(result) == pc' = "done" /\ outcome' = result /\ opened' = FALSE

Left == UNCHANGED <<source, writes, touched>>

(* The ranges a file holds beyond an offset, up to a length: the runs of   *)
(* allocated blocks, in order.                                             *)
Allocated(file, from, upTo) == {i \in DOMAIN file : from < i /\ i <= upTo /\ file[i] # Hole}

Starts(allocated) == {i \in allocated : i - 1 \notin allocated}

EndOf(allocated, first) ==
    CHOOSE last \in allocated :
        first <= last /\ last + 1 \notin allocated /\ first .. last \subseteq allocated

Nth(starts, n) == CHOOSE i \in starts : Cardinality({j \in starts : j < i}) = n - 1

RangesOf(file, from, upTo) ==
    LET allocated == Allocated(file, from, upTo)
        starts == Starts(allocated)
    IN [n \in 1 .. Cardinality(starts) |->
          [first |-> Nth(starts, n), last |-> EndOf(allocated, Nth(starts, n))]]

FileSize ==
    /\ pc = "size"
    /\ \/ length' = Len(source) /\ Goto(IF Len(source) = 0 THEN "again" ELSE "query")
       \/ MayFail("query") /\ End("error") /\ UNCHANGED length
    /\ Left
    /\ UNCHANGED <<target, offset, ranges, total, copied>>

(* Mutant: the next page begins where the last range does.                 *)
PageEndsBefore(page) == Last(page).first - 1

PageEnds(page) == Last(page).last

(* Mutant: ERROR_MORE_DATA is taken for the end.                           *)
NeverMore(all) == FALSE

HasMore(all) == Len(all) > Page

(* FSCTL_QUERY_ALLOCATED_RANGES answers as much as fits and says whether   *)
(* there is more; the next query begins where the last range ends.         *)
AllocatedRanges ==
    /\ pc = "query"
    /\ \/ LET all == RangesOf(source, offset, length)
              page == SubSeq(all, 1, IF Len(all) < Page THEN Len(all) ELSE Page)
          IN /\ ranges' = ranges \o page
             /\ IF ~HasMore(all)
                THEN Goto("again") /\ offset' = 0
                ELSE /\ offset' = PageEnds(page)
                     /\ Goto(IF offset' < length THEN "query" ELSE "again")
       \/ MayFail("query") /\ End("error") /\ UNCHANGED <<ranges, offset>>
    /\ Left
    /\ UNCHANGED <<target, length, total, copied>>

(* What the ranges, which do not overlap, amount to.                       *)
Blocks(rs) == UNION {rs[i].first .. rs[i].last : i \in DOMAIN rs}

(* The length is asked again, for the copy to have.                        *)
FileSizeAgain ==
    /\ pc = "again"
    /\ offset' = 0
    /\ total' = Cardinality(Blocks(ranges))
    /\ \/ length' = Len(source) /\ Goto("open")
       \/ MayFail("query") /\ End("error") /\ UNCHANGED length
    /\ Left
    /\ UNCHANGED <<target, ranges, copied>>

(* From here on nobody can write the source.                               *)
OpenSource ==
    /\ pc = "open"
    /\ \/ pc' = "create" /\ opened' = TRUE /\ UNCHANGED outcome
       \/ MayFail("open") /\ End("error")
    /\ Left
    /\ UNCHANGED <<target, length, offset, ranges, total, copied>>

(* CREATE_NEW: a file that is there stays as it is.                        *)
CreateDestination ==
    /\ pc = "create"
    /\ \/ target = NoFile /\ target' = <<>> /\ Goto("sparse")
       \/ (target # NoFile \/ MayFail("create")) /\ End("error") /\ UNCHANGED target
    /\ Left
    /\ UNCHANGED <<length, offset, ranges, total, copied>>

SetSparse ==
    /\ pc = "sparse"
    /\ Goto("resize") \/ (MayFail("sparse") /\ End("error"))
    /\ Left
    /\ UNCHANGED <<target, length, offset, ranges, total, copied>>

Resize ==
    /\ pc = "resize"
    /\ \/ target' = [i \in 1 .. length |-> Hole] /\ Goto("copy")
       \/ MayFail("resize") /\ End("error") /\ UNCHANGED target
    /\ Left
    /\ UNCHANGED <<length, offset, ranges, total, copied>>

(* Writing past the end of a file makes it longer.                         *)
Written(file, from, data) ==
    [i \in 1 .. (IF Len(file) > from + Len(data) THEN Len(file) ELSE from + Len(data)) |->
        IF i \in from + 1 .. from + Len(data) THEN data[i - from]
        ELSE IF i <= Len(file) THEN file[i] ELSE Hole]

(* The chunk after `from`: what is left of the range, or a full buffer.    *)
ChunkSize(range, from) ==
    IF range.last - from < Chunk THEN range.last - from ELSE Chunk

Max0(n) == IF n > 0 THEN n ELSE 0

(* Mutant: a read that returns nothing is tried again.                     *)
TryAgain == Goto("copy")

(* A read that returns nothing where there was something: the file has     *)
(* been cut since.                                                         *)
EndedEarly == End("error")

(* copy_range(): both pointers are set, up to a chunk is read, all that    *)
(* was read is written, and whoever follows the progress may call it off.  *)
CopyChunk ==
    /\ pc = "copy"
    /\ ranges # <<>>
    /\ LET range == Head(ranges)
           from == IF offset < range.first THEN range.first - 1 ELSE offset
           want == ChunkSize(range, from)
           there == Max0(Len(source) - from)
       IN \/ \E n \in 1 .. (IF want < there THEN want ELSE there) :
                 LET data == SubSeq(source, from + 1, from + n) IN
                 \/ /\ target' = Written(target, from, data)
                    /\ copied' = copied + n
                    /\ offset' = from + n
                    /\ ranges' = IF from + n = range.last THEN Tail(ranges) ELSE ranges
                    /\ Goto("copy") \/ (MayFail("cancel") /\ End("partial"))
                 \/ /\ MayFail("write")
                    /\ \E m \in 0 .. n - 1 : target' = Written(target, from, SubSeq(data, 1, m))
                    /\ End("error")
                    /\ UNCHANGED <<copied, offset, ranges>>
          \/ /\ \/ there = 0 /\ EndedEarly
                \/ there > 0 /\ MayFail("read") /\ End("error")
             /\ UNCHANGED <<target, copied, offset, ranges>>
    /\ Left
    /\ UNCHANGED <<length, total>>

Finish ==
    /\ pc = "copy"
    /\ ranges = <<>>
    /\ End("ok")
    /\ Left
    /\ UNCHANGED <<target, length, offset, ranges, total, copied>>

(* Somebody writes a block, frees it, makes the file longer or cuts it.    *)
OthersWrite ==
    /\ ~opened /\ pc # "done"
    /\ writes < Writes
    /\ writes' = writes + 1
    /\ \/ \E i \in DOMAIN source, v \in Value \cup {Hole} :
             /\ v # source[i]
             /\ source' = [source EXCEPT ![i] = v]
             /\ touched' = touched \cup {i}
       \/ /\ Len(source) < MaxLength
          /\ \E v \in Value \cup {Hole} : source' = Append(source, v)
          /\ touched' = touched \cup {Len(source) + 1}
       \/ /\ source # <<>>
          /\ source' = Front(source)
          /\ touched' = touched \cup {Len(source)}
    /\ UNCHANGED <<pc, target, length, offset, ranges, total, copied, opened, outcome>>

Copy ==
    \/ FileSize \/ AllocatedRanges \/ FileSizeAgain \/ OpenSource
    \/ CreateDestination \/ SetSparse \/ Resize \/ CopyChunk \/ Finish

Next == Copy \/ OthersWrite

Spec == Init /\ [][Next]_vars

(* The copy waits for nobody.                                              *)
FairSpec == Spec /\ WF_vars(Copy)
----------------------------------------------------------------------------
(* A copy reported complete holds, wherever nobody wrote the source since  *)
(* it was asked for, what the source holds there: no range is lost between *)
(* two pages, none is written over a hole, and holes stay holes.           *)
CopiedIsCopied ==
    outcome = "ok" =>
        /\ \A i \in DOMAIN source \ touched : i \in DOMAIN target /\ target[i] = source[i]
        /\ touched = {} => target = source /\ copied = total

(* A copy of a file others write only so often comes to an end.            *)
CopyEnds == <>(pc = "done")
=============================================================================
