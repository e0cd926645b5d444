----------------------------- MODULE Relocation -----------------------------
(***************************************************************************)
(* What relocating a disk promises, with no account of how: where the      *)
(* up-to-date copies of one filesystem are, and which place its registry   *)
(* entry names.  A copy is given up only when the entry already names      *)
(* another, so neither a failure nor a crash can leave the distribution    *)
(* with no disk, or with an entry whose disk was thrown away.              *)
(***************************************************************************)
CONSTANT Place

VARIABLES copies, home

TypeOK == copies \subseteq Place /\ home \in Place

Init == TypeOK

Duplicate(p) ==
    /\ copies # {}
    /\ p \notin copies
    /\ copies' = copies \cup {p}
    /\ UNCHANGED home

\* Within a volume the disk itself goes, and for a moment the entry lags.
Carry(p, q) ==
    /\ p \in copies /\ q \notin copies
    /\ copies' = (copies \ {p}) \cup {q}
    /\ UNCHANGED home

Repoint(p) ==
    /\ home' = p
    /\ UNCHANGED copies

GiveUp(p) ==
    /\ home \in copies \ {p}
    /\ copies' = copies \ {p}
    /\ UNCHANGED home

\* Used, the distribution leaves every copy but the one it runs from behind.
Use ==
    /\ home \in copies
    /\ copies' = {home}
    /\ UNCHANGED home

Next ==
    \/ \E p \in Place : Duplicate(p) \/ Repoint(p) \/ GiveUp(p)
    \/ \E p, q \in Place : Carry(p, q)
    \/ Use

Spec == Init /\ [][Next]_<<copies, home>>
=============================================================================
