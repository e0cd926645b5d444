------------------------------ MODULE Accounts ------------------------------
(***************************************************************************)
(* How `usage` adds up what `du` says.  A place in the guest is the        *)
(* sequence of the names on its path: <<>> is `/`, and a path that ends in *)
(* a slash ends in the empty name.                                         *)
(***************************************************************************)
EXTENDS Integers, Sequences, SequencesExt, FiniteSetsExt

CONSTANTS
    Named,    \* the names on a path
    Node,     \* the directories a guest may have
    Mounted,  \* those of them that are other file systems
    NoName,   \* the empty name after a trailing slash
    HomeDir,  \* "home"
    Rooted    \* the names that begin with "root"

ASSUME AccountsAssumption ==
    /\ NoName \notin Named
    /\ IsFiniteSet(Node) /\ <<>> \in Node
    /\ \A n \in Node : n \in Seq(Named) /\ \A i \in 1 .. Len(n) : SubSeq(n, 1, i) \in Node
    /\ Mounted \subseteq Node \ {<<>>}

(* The directory the guest finds at a path.                                *)
Canonical(place) ==
    FoldLeft(LAMBDA found, name : IF name = NoName THEN found ELSE Append(found, name), <<>>, place)

(* What `du -x` counts at a place: everything below it, except what is on  *)
(* another file system than the place itself.                              *)
Within(place) ==
    LET top == Canonical(place)
    IN {n \in Node :
           /\ IsPrefix(top, n)
           /\ \A m \in Mounted : IsStrictPrefix(top, m) => ~IsPrefix(m, n)}

(* The bytes of a set of directories; `own` is what lies in each of them   *)
(* and not below, 0 for one that is not there.                             *)
BytesOf(own, nodes) == SumFunctionOnSet(own, nodes)

Du(own, place) == BytesOf(own, Within(place))

(* `outer` is a proper part of `inner`, up to a separator.                 *)
PathContains(outer, inner) == IsStrictPrefix(outer, inner)

Holds(directory, entry) == entry.path = directory \/ PathContains(directory, entry.path)

PathDepth(place) == Len(place)

(* What one line of the password file may be: too short for a home, or the *)
(* home it names.                                                          *)
IsARealHome(home) ==
    /\ home # <<>>
    /\ \/ home[1] = HomeDir /\ Len(home) > 1
       \/ home[1] \in Rooted

HomeDirectories(lines) ==
    {line.home : line \in {l \in lines : l.fields >= 6 /\ IsARealHome(l.home)}}

PathsFor(entry, homes) ==
    IF entry.perUser THEN {home \o entry.path : home \in homes} ELSE {entry.path}

Nested(entry, entries) == \E outer \in entries : PathContains(outer.path, entry.path)

SumOf(entries) == SumFunction([entry \in entries |-> entry.bytes])

(* Mutant: adds up every entry, whatever it lies in.                       *)
CountedFlat(entries) == SumOf(entries)

(* account_for_nesting(): the entries that lie in no other, added up.      *)
Counted(entries) == SumOf({entry \in entries : ~Nested(entry, entries)})

(* Mutant: leaves nested entries in.                                       *)
AttributedFlat(directory, entries) == {entry \in entries : Holds(directory, entry)}

(* The entries a directory's bytes are put down to: those in it that lie   *)
(* in no other one in it.                                                  *)
Attributed(directory, entries) ==
    LET inside == {entry \in entries : Holds(directory, entry)}
    IN {entry \in inside : ~Nested(entry, inside)}

(* A table cut to its largest rows; which of several of a size go is up to *)
(* the sort, which is not stable.                                          *)
Largest(rows, top) ==
    IF top = 0 \/ Cardinality(rows) <= top THEN {rows}
    ELSE {kept \in kSubset(top, rows) :
             \A row \in kept, cut \in rows \ kept : cut.bytes <= row.bytes}

(* What `du -x -d depth /` lists.                                          *)
Listed(own, depth) ==
    {[path |-> n, bytes |-> Du(own, n)] :
        n \in {m \in Within(<<>>) : PathDepth(m) <= depth /\ own[m] > 0}}

(* measure_directories(): the rows of its table, uncut.                    *)
Breakdown(own, depth, entries) ==
    {[path |-> row.path, bytes |-> row.bytes,
      attributed |-> SumOf(Attributed(row.path, entries))] :
        row \in {r \in Listed(own, depth) : PathDepth(r.path) > 0}}
=============================================================================
