---------------------------- MODULE MCSparseCopy ----------------------------
EXTENDS SparseCopy

CONSTANTS a, b

\* Every file up to the longest.
Files == UNION {[1 .. n -> {a, Hole}] : n \in 0 .. MaxLength}

Targets == {NoFile, <<b>>}
=============================================================================
