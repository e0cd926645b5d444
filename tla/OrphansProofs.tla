---------------------------- MODULE OrphansProofs ----------------------------
(***************************************************************************)
(* Proofs about `wsldisk orphans`, for every registry, every set of scan   *)
(* patterns and every choice of what may fail.  That no claimed disk is    *)
(* deleted and that the exit code tells what is left need patterns whose   *)
(* paths canonical_path() can tell to be those of the entries: they are    *)
(* false without.  The first is proved for a registry that loses no subkey *)
(* meanwhile; with subkeys that both come and go it is false as well.      *)
(***************************************************************************)
EXTENDS Orphans, WslProofs, FiniteSetTheorems

(* A running guest's disk is attached, so it is never the one removed.     *)
GuestsAreAttached == \A g \in Distro : guest[g] # Off => guest[g] \in attached

(* There is a pattern whose directories are being listed.                  *)
ListsAPattern == pc = "list" => pattern \in DOMAIN Patterns

(* Nothing has been tried before the deletion is confirmed.                *)
NothingTried ==
    pc \notin {"lock", "remove", "ended"} => left = {} /\ kept = {} /\ current = NoFile

Sound == TypeOK /\ GuestsHaveDisks /\ GuestsAreAttached /\ ListsAPattern /\ NothingTried

----------------------------------------------------------------------------
(* What an entry is, and what is done with one file.                       *)
LEMMA EntriesAndFiles ==
    ASSUME MachineTypeOK
    PROVE  /\ \A d \in Distro : Home(d) \in Path /\ Claim(d) \in Spelled
           /\ \A p \in Path : EntryFor(p) \in Entry /\ Resolve(EntryFor(p)) = p
           /\ \A o \in Owner : Fresh(o) \in Disk /\ Fresh(o) # NoFile
<1>1. \A d \in Distro : Home(d) \in Path
  BY EntriesResolve DEF MachineTypeOK, Home
<1>2. \A d \in Distro : Claim(d) \in Spelled
  BY <1>1 DEF Claim, Canonical, Spelled, Spelling
<1>3. \A p \in Path : EntryFor(p) \in Entry /\ Resolve(EntryFor(p)) = p
  BY WslAssumption DEF EntryFor, Entry, BasePath, Path, Resolve
<1>4. \A o \in Owner : Fresh(o) \in Disk
  BY DEF Fresh, Disk
<1> QED
  BY <1>1, <1>2, <1>3, <1>4, WslAssumption

(* The command starts with nothing listed and nothing claimed.             *)
LEMMA SoundStarts == Init => Sound
<1> SUFFICES ASSUME Init PROVE Sound
  OBVIOUS
<1>1. MachineTypeOK /\ GuestsHaveDisks
  BY MachineStarts DEF Init
<1>2. GuestsAreAttached
  BY DEF Init, MachineInit, GuestsAreAttached
<1>3. names \in Seq(Distro) /\ Len(names) = 0
  BY DEF Init
<1>4. pattern \in 1 .. Len(Patterns) + 1
  <2>1. Len(Patterns) \in Nat
    BY OrphansAssumption
  <2> QED
    BY <2>1 DEF Init
<1> QED
  BY <1>1, <1>2, <1>3, <1>4 DEF Init, Sound, TypeOK, KeyState, ListsAPattern, NothingTried

(* What others do keeps the types.  Besides them, this is all the command  *)
(* can rely on: a subkey changes only for distributions in `changed`, and  *)
(* while there are none files neither come nor go.                         *)
LEMMA OthersStep ==
    ASSUME Sound, Environment
    PROVE  /\ Sound' /\ UNCHANGED command /\ changed \subseteq changed'
           /\ \A d \in Distro \ changed' : keys'[d] = keys[d] /\ registry'[d] = registry[d]
           /\ changed' = {} => /\ UNCHANGED <<keys, registry>>
                               /\ \A p \in Path : Exists(p)' <=> Exists(p)
           /\ "unregister" \notin Happens =>
                 \A d \in Distro : keys[d] # "absent" => keys'[d] # "absent"
<1>1. MachineTypeOK /\ UNCHANGED command
  BY DEF Sound, TypeOK, Environment
<1>2. ASSUME MachineNext({d \in Distro : keys[d] = "complete"}, {}), UNCHANGED <<keys, changed>>
      PROVE  /\ MachineTypeOK' /\ GuestsHaveDisks' /\ GuestsAreAttached'
             /\ UNCHANGED <<registry, keys, changed>>
             /\ \A p \in Path : Exists(p)' <=> Exists(p)
  <2> DEFINE used == {d \in Distro : keys[d] = "complete"}
  <2>1. MachineNext(used, {}) /\ used \in SUBSET Distro /\ {} \in SUBSET Path
    BY <1>2
  <2>2. MachineTypeOK' /\ GuestsHaveDisks' /\ registry' = registry
        /\ \A p \in Path : Exists(p) => Exists(p)'
    BY <1>1, <2>1, MachineStep DEF Sound
  <2>3. GuestsAreAttached'
    BY <1>1, <2>1 DEF Sound, GuestsAreAttached, MachineNext, StartGuest, GuestWrites, StopGuest,
                      VmIdlesOut, StrayAppears, Boot, Running, MachineTypeOK
  <2>4. \A p \in Path : Exists(p)' => Exists(p)
    <3>1. ASSUME NEW d \in used, NEW w \in Write, GuestWrites(d, w)
          PROVE  \A p \in Path : Exists(p)' => Exists(p)
      <4>1. d \in Distro /\ guest[d] \in Path /\ Exists(guest[d])
        BY <1>1, <3>1 DEF GuestWrites, MachineTypeOK, Sound, GuestsHaveDisks
      <4>2. \A p \in Path : p # guest[d] => files'[p] = files[p]
        BY <1>1, <3>1 DEF GuestWrites, MachineTypeOK
      <4> QED
        BY <4>1, <4>2 DEF Exists
    <3>2. CASE UNCHANGED files
      BY <3>2 DEF Exists
    <3> QED
      BY <2>1, <3>1, <3>2 DEF MachineNext, StartGuest, StopGuest, VmIdlesOut
  <2> QED
    BY <1>2, <2>2, <2>3, <2>4
<1>3. ASSUME NEW d \in Distro,
             Register(d) \/ Named(d) \/ Unregister(d) \/ MovedDisk(d) \/ MovedEntry(d),
             changed' = changed \cup {d}
      PROVE  /\ MachineTypeOK' /\ GuestsHaveDisks' /\ GuestsAreAttached'
             /\ keys' \in [Distro -> KeyState]
             /\ \A e \in Distro \ {d} : keys'[e] = keys[e] /\ registry'[e] = registry[e]
             /\ "unregister" \notin Happens =>
                   \A e \in Distro : keys[e] # "absent" => keys'[e] # "absent"
  <2>0. keys \in [Distro -> KeyState]
    BY DEF Sound, TypeOK
  <2>1. CASE Register(d)
    <3>1. PICK p \in FreeOf(d) :
             /\ registry' = [registry EXCEPT ![d] = EntryFor(p)]
             /\ files' = [files EXCEPT ![p] = Fresh(d)]
             /\ attached' = attached \cup {p}
      BY <2>1 DEF Register
    <3>2. p \in Path /\ d \in Owner
      BY DEF FreeOf, Owner
    <3>3. EntryFor(p) \in Entry /\ Fresh(d) \in Disk /\ Fresh(d) # NoFile
      BY <1>1, <3>2, EntriesAndFiles
    <3> QED
      BY <1>1, <2>0, <2>1, <3>1, <3>2, <3>3
         DEF Register, MachineTypeOK, Sound, GuestsHaveDisks, GuestsAreAttached, Exists, KeyState
  <2>2. CASE Named(d)
    BY <1>1, <2>0, <2>2
       DEF Named, machine, MachineTypeOK, Sound, GuestsHaveDisks, GuestsAreAttached, Exists,
           KeyState
  <2>3. CASE Unregister(d)
    <3>1. Home(d) \in Path
      BY <1>1, EntriesAndFiles
    <3> QED
      BY <1>1, <2>0, <2>3, <3>1
         DEF Unregister, MachineTypeOK, Sound, GuestsHaveDisks, GuestsAreAttached, Exists,
             KeyState, CanRemove, Removed, InUse
  <2>4. CASE MovedDisk(d)
    <3>1. PICK p \in FreeOf(d) : CanRename(Home(d), p) /\ files' = Renamed(Home(d), p)
      BY <2>4 DEF MovedDisk
    <3>2. p \in Path /\ Home(d) \in Path /\ files[Home(d)] \in Disk
      BY <1>1, <3>1, EntriesAndFiles DEF FreeOf, CanRename, Exists, MachineTypeOK
    <3> QED
      BY <1>1, <2>0, <2>4, <3>1, <3>2
         DEF MovedDisk, MachineTypeOK, Sound, GuestsHaveDisks, GuestsAreAttached, Exists,
             CanRename, Renamed, InUse
  <2>5. CASE MovedEntry(d)
    BY <1>1, <2>0, <2>5, EntriesAndFiles
       DEF MovedEntry, MachineTypeOK, Sound, GuestsHaveDisks, GuestsAreAttached, Exists
  <2> QED
    BY <1>3, <2>1, <2>2, <2>3, <2>4, <2>5
<1>4. CASE MachineNext({d \in Distro : keys[d] = "complete"}, {}) /\ UNCHANGED <<keys, changed>>
  <2>1. Sound'
    BY <1>1, <1>2, <1>4 DEF Sound, TypeOK, ListsAPattern, NothingTried, command, scan, deletion
  <2> QED
    BY <1>1, <1>2, <1>4, <2>1
<1>5. CASE \E d \in Distro :
             /\ Register(d) \/ Named(d) \/ Unregister(d) \/ MovedDisk(d) \/ MovedEntry(d)
             /\ changed' = changed \cup {d}
  <2>1. PICK d \in Distro :
             /\ Register(d) \/ Named(d) \/ Unregister(d) \/ MovedDisk(d) \/ MovedEntry(d)
             /\ changed' = changed \cup {d}
    BY <1>5
  <2>2. Sound'
    BY <1>1, <1>3, <2>1 DEF Sound, TypeOK, ListsAPattern, NothingTried, command, scan, deletion
  <2> QED
    BY <1>1, <1>3, <2>1, <2>2
<1> QED
  BY <1>4, <1>5 DEF Environment

(* One step of the command keeps the types, and no guest loses its disk:   *)
(* only a disk nothing has open is removed.                                *)
LEMMA CommandStep ==
    ASSUME Sound, Step
    PROVE  Sound' /\ UNCHANGED <<registry, keys, changed>>
<1> USE DEF Sound, TypeOK, ListsAPattern, NothingTried
<1>1. ASSUME UNCHANGED machine
      PROVE  MachineTypeOK' /\ GuestsHaveDisks' /\ GuestsAreAttached'
  BY <1>1 DEF machine, MachineTypeOK, GuestsHaveDisks, GuestsAreAttached, Exists
<1>2. CASE EnumerateKey
  <2>1. MachineTypeOK' /\ GuestsHaveDisks' /\ GuestsAreAttached'
    BY <1>1, <1>2 DEF EnumerateKey
  <2>2. ASSUME NEW d \in Subkeys, names' = Append(names, d)
        PROVE  names' \in Seq(Distro) /\ readUpTo \in 0 .. Len(names')
    BY <2>2, Pushed DEF Subkeys
  <2>3. names' \in Seq(Distro) /\ readUpTo' \in 0 .. Len(names')
    BY <1>2, <2>2 DEF EnumerateKey
  <2> QED
    BY <1>2, <2>1, <2>3 DEF EnumerateKey, Exited, deletion, machine
<1>3. CASE ReadKey
  <2>1. MachineTypeOK' /\ GuestsHaveDisks' /\ GuestsAreAttached'
    BY <1>1, <1>3 DEF ReadKey
  <2>2. claimed' \subseteq Spelled /\ readUpTo' \in 0 .. Len(names)
    <3>1. Len(names) \in Nat /\ \A i \in 1 .. Len(names) : names[i] \in Distro
      OBVIOUS
    <3>2. readUpTo < Len(names) => names[readUpTo + 1] \in Distro
      BY <3>1
    <3> QED
      BY <1>3, <3>1, <3>2, EntriesAndFiles DEF ReadKey
  <2>3. UNCHANGED <<keys, changed, names, pattern, toList, unread, unnamed, orphans, left, current, kept,
                    registry>>
        /\ pc = "read" /\ pc' \in {"read", "environment", "ended"} /\ exit' \in {exit, "error"}
    BY <1>3 DEF ReadKey, Exited, deletion, machine
  <2> QED
    BY <2>1, <2>2, <2>3
<1>4. CASE DefaultScanPatterns
  BY <1>1, <1>4 DEF DefaultScanPatterns, Exited, scan, deletion, machine
<1>5. CASE ExpandScanPattern
  <2>1. pattern <= Len(Patterns) =>
           pattern \in DOMAIN Patterns /\ Patterns[pattern].dirs \subseteq Dir
    <3>1. Len(Patterns) \in Nat /\ DOMAIN Patterns = 1 .. Len(Patterns)
          /\ \A i \in DOMAIN Patterns : Patterns[i].dirs \in SUBSET Dir
      <4>1. \A i \in 1 .. Len(Patterns) : Patterns[i] \in Pattern
        BY OrphansAssumption
      <4>2. \A x \in Pattern : x.dirs \in SUBSET Dir
        BY DEF Pattern
      <4> QED
        BY <4>1, <4>2, OrphansAssumption
    <3> QED
      BY <3>1
  <2> QED
    BY <1>1, <1>5, <2>1 DEF ExpandScanPattern, deletion, machine
<1>6. CASE ListDirectory
  <2>1. \A dir \in toList : UnclaimedDisks(dir) \subseteq Spelled
    BY DEF UnclaimedDisks, DisksIn
  <2>2. pattern + 1 \in 1 .. Len(Patterns) + 1
    BY <1>6, OrphansAssumption DEF ListDirectory
  <2>3. toList' \subseteq Dir /\ unread' \subseteq Dir /\ orphans' \subseteq Spelled
        /\ orphans \subseteq orphans' /\ pc' \in {"list", "expand"}
        /\ pattern' \in {pattern, pattern + 1} /\ (pc' = "list" => pattern' = pattern)
    BY <1>6, <2>1 DEF ListDirectory
  <2>4. UNCHANGED <<machine, keys, changed, names, readUpTo, claimed, left, current, kept, exit>>
    BY <1>6 DEF ListDirectory, deletion
  <2> QED
    BY <1>1, <1>6, <2>2, <2>3, <2>4 DEF ListDirectory, machine
<1>7. CASE Confirm
  BY <1>1, <1>7 DEF Confirm, Exited, scan, machine
<1>8. CASE CheckLock
  BY <1>8 DEF CheckLock, Keep, scan, MachineTypeOK, GuestsHaveDisks, GuestsAreAttached, Exists
<1>9. CASE Remove
  <2>1. current \in Spelled /\ current.path \in Path
    BY <1>9 DEF Remove, Spelled
  <2> QED
    BY <1>9, <2>1 DEF Remove, Keep, scan, MachineTypeOK, GuestsHaveDisks, GuestsAreAttached,
                      Exists, CanRemove, Removed, InUse
<1>10. CASE EndDeletion
  BY <1>1, <1>10 DEF EndDeletion, Exited, DeletionCode, scan, deletion, machine
<1> QED
  BY <1>2, <1>3, <1>4, <1>5, <1>6, <1>7, <1>8, <1>9, <1>10 DEF Step

(* The types, and what the command and the guests hold on to, whoever      *)
(* makes the next step.                                                    *)
LEMMA SoundKept ==
    ASSUME Sound, [Next]_vars
    PROVE  Sound'
<1>1. CASE UNCHANGED vars
  BY <1>1 DEF vars, command, scan, deletion, machine, Sound, TypeOK, ListsAPattern, NothingTried,
              MachineTypeOK, GuestsHaveDisks, GuestsAreAttached, Exists
<1> QED
  BY <1>1, OthersStep, CommandStep DEF Next

(* `orphans`, from its first subkey to its exit code, stays within its     *)
(* types: what is left is on the list, and so is what was kept.  Whatever  *)
(* it deletes and others do, the disk of a guest that runs is there and    *)
(* attached (delete_one() removes nothing that is open).                   *)
THEOREM OrphansIsTyped == Spec => [](TypeOK /\ GuestsHaveDisks /\ GuestsAreAttached)
<1>1. Sound => TypeOK /\ GuestsHaveDisks /\ GuestsAreAttached
  BY DEF Sound
<1>2. Sound /\ [Next]_vars => Sound'
  BY SoundKept
<1> QED
  BY <1>1, <1>2, SoundStarts, PTL DEF Spec

----------------------------------------------------------------------------
(* No two distributions have the same disk, and what lies where one's      *)
(* entry points is not another's: so nobody who moves theirs moves its.    *)
HomesApart ==
    \A d, e \in Distro : d # e => /\ Home(d) # Home(e)
                                  /\ Exists(Home(e)) => files[Home(e)].of # d

(* They start apart (MachineInit: one disk each, found where it is said to *)
(* be or elsewhere, but not at another's home).                            *)
LEMMA HomesStartApart == Init => HomesApart
<1> SUFFICES ASSUME Init, NEW d \in Distro, NEW e \in Distro, d # e
             PROVE  /\ Home(d) # Home(e)
                    /\ Exists(Home(e)) => files[Home(e)].of # d
  BY DEF HomesApart
<1>1. MachineInit /\ MachineTypeOK
  BY MachineStarts DEF Init
<1>2. Home(d) # Home(e)
  BY <1>1 DEF MachineInit
<1>3. ASSUME Exists(Home(e)) PROVE files[Home(e)].of # d
  <2>1. files[Home(e)] \in {Damaged} \cup {Fresh(o) : o \in Wsl2 \cup {Stray}}
    BY <1>1, <1>3, EntriesAndFiles DEF MachineInit, Exists
  <2>2. Damaged.of # d
    BY WslAssumption DEF Damaged
  <2>3. \A o \in Wsl2 \cup {Stray} : Fresh(o).of = o
    BY DEF Fresh
  <2>4. d \in Wsl2 => files[Home(e)] # Fresh(d)
    BY <1>1 DEF MachineInit
  <2> QED
    BY <2>1, <2>2, <2>3, <2>4, WslAssumption
<1> QED
  BY <1>2, <1>3

(* It holds whatever others do, and the command only removes.              *)
LEMMA HomesStayApart ==
    ASSUME Sound, HomesApart, [Next]_vars
    PROVE  HomesApart'
<1>0. MachineTypeOK
  BY DEF Sound, TypeOK
<1>1. \A d \in Distro : Home(d) \in Path
  BY <1>0, EntriesAndFiles
<1>2. ASSUME registry' = registry,
             \A p \in Path : Exists(p)' => Exists(p) /\ files'[p].of = files[p].of
      PROVE  HomesApart'
  BY <1>1, <1>2 DEF HomesApart, Home
<1>3. CASE UNCHANGED machine
  BY <1>2, <1>3 DEF machine, Exists
<1>4. CASE Step
  <2>1. CASE Remove
    <3>1. current \in Spelled /\ current.path \in Path
      BY <2>1 DEF Remove, Spelled, Sound, TypeOK
    <3>2. \A p \in Path : Exists(p)' => Exists(p) /\ files'[p].of = files[p].of
      BY <1>0, <2>1, <3>1 DEF Remove, Removed, Keep, Exists, MachineTypeOK
    <3> QED
      BY <1>2, <2>1, <3>2 DEF Remove
  <2>2. CASE CheckLock
    BY <1>2, <2>2 DEF CheckLock, Keep, Exists
  <2> QED
    BY <1>3, <1>4, <2>1, <2>2 DEF Step, EnumerateKey, ReadKey, DefaultScanPatterns,
           ExpandScanPattern, ListDirectory, Confirm, EndDeletion
<1>5. CASE MachineNext({d \in Distro : keys[d] = "complete"}, {})
  <2>1. ASSUME NEW d \in Distro, NEW w \in Write, GuestWrites(d, w)
        PROVE  HomesApart'
    <3>1. guest[d] \in Path /\ files[guest[d]] \in Disk
      BY <1>0, <2>1 DEF GuestWrites, MachineTypeOK, Sound, GuestsHaveDisks, Exists
    <3>2. \A p \in Path : Exists(p)' => Exists(p) /\ files'[p].of = files[p].of
      <4> DEFINE new == [files[guest[d]] EXCEPT !.data = @ \cup {w}]
      <4>1. new.of = files[guest[d]].of /\ files[guest[d]] # NoFile
        BY <3>1, WslAssumption DEF Disk
      <4>2. files' = [files EXCEPT ![guest[d]] = new]
        BY <2>1 DEF GuestWrites
      <4> HIDE DEF new
      <4> QED
        BY <1>0, <3>1, <4>1, <4>2 DEF Exists, MachineTypeOK
    <3> QED
      BY <1>2, <2>1, <3>2 DEF GuestWrites
  <2>2. CASE UNCHANGED <<files, registry>>
    BY <1>2, <2>2 DEF Exists
  <2> QED
    BY <1>5, <2>1, <2>2 DEF MachineNext, StartGuest, StopGuest, VmIdlesOut
<1>6. ASSUME NEW d \in Distro, Register(d)
      PROVE  HomesApart'
  <2>1. PICK p \in FreeOf(d) : /\ registry' = [registry EXCEPT ![d] = EntryFor(p)]
                               /\ files' = [files EXCEPT ![p] = Fresh(d)]
    BY <1>6 DEF Register
  <2>2. p \in Path /\ ~Exists(p) /\ \A e \in Distro \ {d} : Home(e) # p
    BY DEF FreeOf
  <2>3. Resolve(EntryFor(p)) = p /\ Fresh(d).of = d
    BY <1>0, <2>2, EntriesAndFiles DEF Fresh
  <2>4. Home(d)' = p /\ \A e \in Distro \ {d} : Home(e)' = Home(e)
    BY <1>0, <2>1, <2>3 DEF Home, MachineTypeOK
  <2>5. files'[p].of = d /\ \A q \in Path \ {p} : files'[q] = files[q]
    BY <1>0, <2>1, <2>2, <2>3 DEF MachineTypeOK
  <2> QED
    BY <1>1, <2>2, <2>4, <2>5 DEF HomesApart, Exists
<1>7. ASSUME NEW d \in Distro, Unregister(d)
      PROVE  HomesApart'
  BY <1>0, <1>1, <1>2, <1>7 DEF Unregister, Removed, Exists, MachineTypeOK
<1>8. ASSUME NEW d \in Distro, MovedDisk(d)
      PROVE  HomesApart'
  <2>1. PICK p \in FreeOf(d) : CanRename(Home(d), p) /\ files' = Renamed(Home(d), p)
    BY <1>8 DEF MovedDisk
  <2>2. p \in Path /\ ~Exists(p) /\ Exists(Home(d)) /\ \A e \in Distro \ {d} : Home(e) # p
    BY <2>1 DEF FreeOf, CanRename
  <2>3. /\ files'[p] = files[Home(d)] /\ files'[Home(d)] = NoFile
        /\ \A q \in Path \ {p, Home(d)} : files'[q] = files[q]
    BY <1>0, <1>1, <2>1, <2>2 DEF Renamed, MachineTypeOK
  <2>4. \A e \in Distro : Home(e)' = Home(e)
    BY <1>8 DEF MovedDisk, Home
  <2> QED
    BY <1>1, <2>2, <2>3, <2>4 DEF HomesApart, Exists
<1>9. ASSUME NEW d \in Distro, MovedEntry(d)
      PROVE  HomesApart'
  <2>1. PICK p \in Path : /\ Exists(p) /\ files[p].of = d
                          /\ registry' = [registry EXCEPT ![d] = EntryFor(p)]
    BY <1>9 DEF MovedEntry
  <2>2. Home(d)' = p /\ \A e \in Distro \ {d} : Home(e)' = Home(e)
    BY <1>0, <2>1, EntriesAndFiles DEF Home, MachineTypeOK
  <2>3. \A q \in Path : files'[q] = files[q]
    BY <1>9 DEF MovedEntry
  <2> QED
    BY <1>1, <2>1, <2>2, <2>3 DEF HomesApart, Exists
<1> QED
  BY <1>3, <1>4, <1>5, <1>6, <1>7, <1>8, <1>9 DEF Next, Environment, Named, vars

----------------------------------------------------------------------------
(* The enumeration (Win32Registry::subkeys) asks for the subkey at index   *)
(* 0, 1, 2, ... and stops at the first index where there is none.          *)
LEMMA FewDistros ==
    /\ IsFiniteSet(Distro)
    /\ \A d \in Distro : Rank(d) \in DOMAIN KeyOrder /\ KeyOrder[Rank(d)] = d
    /\ \A d \in Distro : Rank(d) \in Nat
<1>1. Len(KeyOrder) \in Nat /\ DOMAIN KeyOrder = 1 .. Len(KeyOrder)
      /\ KeyOrder \in [1 .. Len(KeyOrder) -> Distro]
  BY OrphansAssumption
<1>2. KeyOrder \in Surjection(1 .. Len(KeyOrder), Distro)
  BY <1>1, OrphansAssumption DEF Surjection
<1>3. IsFiniteSet(1 .. Len(KeyOrder))
  BY <1>1, FS_Interval
<1>4. IsFiniteSet(Distro)
  BY <1>2, <1>3, FS_Surjection
<1>5. \A d \in Distro : Rank(d) \in DOMAIN KeyOrder /\ KeyOrder[Rank(d)] = d
  BY OrphansAssumption DEF Rank
<1> QED
  BY <1>1, <1>4, <1>5

(* There are fewer subkeys before one than there are, and the subkeys      *)
(* before two different ones are not as many: an index names one subkey.   *)
LEMMA IndexesNameSubkeys ==
    /\ Cardinality(Subkeys) \in Nat
    /\ \A d \in Distro : Cardinality(Before(d)) \in Nat
    /\ \A d \in Subkeys : Cardinality(Before(d)) < Cardinality(Subkeys)
    /\ \A d, e \in Subkeys : Cardinality(Before(d)) = Cardinality(Before(e)) => d = e
<1>1. IsFiniteSet(Subkeys) /\ \A d \in Distro : IsFiniteSet(Before(d))
  BY FewDistros, FS_Subset DEF Subkeys, Before
<1>2. Cardinality(Subkeys) \in Nat /\ \A d \in Distro : Cardinality(Before(d)) \in Nat
  BY <1>1, FS_CardinalityType
<1>3. ASSUME NEW d \in Subkeys, NEW S, IsFiniteSet(S), d \in S, Before(d) \subseteq S
      PROVE  Cardinality(Before(d)) < Cardinality(S)
  <2>1. d \in Distro /\ d \notin Before(d)
    BY FewDistros DEF Before, Subkeys
  <2>2. IsFiniteSet(Before(d) \cup {d})
        /\ Cardinality(Before(d) \cup {d}) = Cardinality(Before(d)) + 1
    BY <1>1, <2>1, FS_AddElement
  <2>3. Before(d) \cup {d} \in SUBSET S
    BY <1>3
  <2>4. Cardinality(Before(d) \cup {d}) <= Cardinality(S) /\ Cardinality(S) \in Nat
    BY <1>3, <2>3, FS_Subset, FS_CardinalityType
  <2> QED
    BY <1>2, <2>1, <2>2, <2>4
<1>4. \A d \in Subkeys : Cardinality(Before(d)) < Cardinality(Subkeys)
  BY <1>1, <1>3 DEF Before
<1>5. ASSUME NEW d \in Subkeys, NEW e \in Subkeys, Rank(d) < Rank(e)
      PROVE  Cardinality(Before(d)) < Cardinality(Before(e))
  <2>1. d \in Distro /\ e \in Distro
    BY DEF Subkeys
  <2>2. d \in Before(e) /\ Before(d) \subseteq Before(e)
    BY <1>5, <2>1, FewDistros DEF Before, Subkeys
  <2> QED
    BY <1>1, <1>3, <2>1, <2>2
<1>6. ASSUME NEW d \in Subkeys, NEW e \in Subkeys,
             Cardinality(Before(d)) = Cardinality(Before(e))
      PROVE  d = e
  <2>1. d \in Distro /\ e \in Distro
    BY DEF Subkeys
  <2>2. Rank(d) = Rank(e)
    BY <1>2, <1>5, <1>6, <2>1, FewDistros
  <2> QED
    BY <2>1, <2>2, FewDistros
<1> QED
  BY <1>2, <1>4, <1>6

(* While no subkey goes, none is renumbered downwards.                     *)
LEMMA IndexesOnlyGrow ==
    ASSUME \A d \in Distro : keys[d] # "absent" => keys'[d] # "absent"
    PROVE  \A d \in Distro : Cardinality(Before(d)) <= Cardinality(Before(d)')
<1> TAKE d \in Distro
<1>1. Before(d) \in SUBSET (Before(d)') /\ Before(d)' \in SUBSET Distro
  BY DEF Before, Subkeys, Rank
<1> QED
  BY <1>1, FewDistros, FS_Subset

(* A distribution that was there all along is enumerated, read, and its    *)
(* disk claimed before anything is listed.                                 *)
Listed(d) ==
    \E i \in DOMAIN names : names[i] = d /\ (i <= readUpTo => Claim(d) \in claimed)

ClaimsAreRead ==
    /\ pc = "keys" => readUpTo = 0
    /\ \A d \in Settled :
          /\ pc = "keys" => Listed(d) \/ Len(names) <= Cardinality(Before(d))
          /\ pc = "read" => Listed(d)
          /\ pc \notin {"keys", "read", "ended"} => Claim(d) \in claimed

(* While no subkey goes: one that did would renumber those after it, and   *)
(* the next index would skip one of them.                                  *)
LEMMA ClaimsStayRead ==
    ASSUME "unregister" \notin Happens, Sound, ClaimsAreRead, [Next]_vars
    PROVE  ClaimsAreRead'
<1>0. names \in Seq(Distro) /\ Len(names) \in Nat /\ DOMAIN names = 1 .. Len(names)
      /\ readUpTo \in 0 .. Len(names)
  BY DEF Sound, TypeOK
<1>1. CASE EnumerateKey
  <2>1. UNCHANGED <<registry, keys, changed, readUpTo, claimed>> /\ pc = "keys" /\ readUpTo = 0
    BY <1>1 DEF EnumerateKey, machine, ClaimsAreRead
  <2>2. Settled' = Settled /\ \A d \in Distro : Claim(d)' = Claim(d) /\ Before(d)' = Before(d)
    BY <2>1 DEF Settled, Claim, Home, Before, Subkeys
  <2>3. \A d \in Settled : d \in Distro /\ d \in Subkeys
    BY DEF Settled, Subkeys
  <2>4. ASSUME NEW e \in Subkeys, Cardinality(Before(e)) = Len(names), names' = Append(names, e),
               pc' = "keys"
        PROVE  ClaimsAreRead'
    <3>1. /\ Len(names') = Len(names) + 1 /\ names'[Len(names) + 1] = e
          /\ \A i \in DOMAIN names : names'[i] = names[i]
          /\ DOMAIN names' = 1 .. Len(names) + 1
      BY <1>0, <2>4, Pushed DEF Subkeys
    <3>2. ASSUME NEW d \in Settled, Listed(d) PROVE Listed(d)'
      BY <1>0, <2>1, <2>2, <2>3, <3>1, <3>2 DEF Listed
    <3>3. Listed(e)'
      BY <1>0, <2>1, <3>1 DEF Listed
    <3>4. ASSUME NEW d \in Settled, ~Listed(d), d # e
          PROVE  Len(names') <= Cardinality(Before(d)')
      <4>1. Len(names) <= Cardinality(Before(d)) /\ Cardinality(Before(d)) # Cardinality(Before(e))
        BY <2>1, <2>3, <3>4, IndexesNameSubkeys DEF ClaimsAreRead
      <4>2. Cardinality(Before(d)) \in Nat
        BY <2>3, IndexesNameSubkeys
      <4> QED
        BY <1>0, <2>2, <2>3, <2>4, <3>1, <4>1, <4>2
    <3> QED
      BY <2>1, <2>2, <2>4, <3>2, <3>3, <3>4 DEF ClaimsAreRead
  <2>5. ASSUME Len(names) >= Cardinality(Subkeys), pc' = "read", UNCHANGED names
        PROVE  ClaimsAreRead'
    <3>1. ASSUME NEW d \in Settled PROVE Listed(d)'
      <4>1. Cardinality(Before(d)) < Cardinality(Subkeys) /\ Cardinality(Subkeys) \in Nat
            /\ Cardinality(Before(d)) \in Nat
        BY <2>3, IndexesNameSubkeys
      <4>2. Listed(d)
        BY <1>0, <2>1, <2>5, <4>1 DEF ClaimsAreRead
      <4> QED
        BY <2>1, <2>2, <2>3, <2>5, <4>2 DEF Listed
    <3> QED
      BY <2>2, <2>5, <3>1 DEF ClaimsAreRead
  <2>6. CASE pc' = "ended"
    BY <2>6 DEF ClaimsAreRead
  <2> QED
    BY <1>1, <2>1, <2>4, <2>5, <2>6 DEF EnumerateKey, Exited
<1>2. CASE ReadKey
  <2>1. UNCHANGED <<registry, keys, changed, names>> /\ pc = "read"
    BY <1>2 DEF ReadKey, machine
  <2>2. Settled' = Settled /\ \A d \in Distro : Claim(d)' = Claim(d)
    BY <2>1 DEF Settled, Claim, Home
  <2>3. ASSUME NEW d \in Settled
        PROVE  d \in Distro /\ keys[d] = "complete" /\ Listed(d)
    BY <2>1 DEF Settled, ClaimsAreRead
  <2>4. ASSUME readUpTo < Len(names), readUpTo' = readUpTo + 1, pc' = pc,
               claimed' = IF keys[names[readUpTo + 1]] = "complete"
                          THEN claimed \cup {Claim(names[readUpTo + 1])} ELSE claimed
        PROVE  ClaimsAreRead'
    <3>1. ASSUME NEW d \in Settled PROVE Listed(d)'
      <4>1. PICK i \in DOMAIN names : names[i] = d /\ (i <= readUpTo => Claim(d) \in claimed)
        BY <2>3 DEF Listed
      <4>2. i <= readUpTo + 1 => Claim(d) \in claimed'
        BY <1>0, <2>3, <2>4, <4>1
      <4> QED
        BY <2>1, <2>2, <2>3, <2>4, <4>1, <4>2 DEF Listed
    <3> QED
      BY <2>1, <2>2, <2>4, <3>1 DEF ClaimsAreRead
  <2>5. ASSUME readUpTo = Len(names), pc' = "environment", UNCHANGED <<claimed, readUpTo>>
        PROVE  ClaimsAreRead'
    <3>1. \A d \in Settled : Claim(d) \in claimed
      BY <1>0, <2>3, <2>5 DEF Listed
    <3> QED
      BY <2>2, <2>3, <2>5, <3>1 DEF ClaimsAreRead
  <2>6. CASE pc' = "ended"
    BY <2>6 DEF ClaimsAreRead
  <2> QED
    BY <1>2, <2>4, <2>5, <2>6 DEF ReadKey, Exited
<1>3. CASE /\ DefaultScanPatterns \/ ExpandScanPattern \/ ListDirectory \/ Confirm
              \/ CheckLock \/ Remove \/ EndDeletion
  <2>1. UNCHANGED <<registry, keys, changed, claimed>>
        /\ pc \notin {"keys", "read", "ended"} /\ pc' \notin {"keys", "read"}
    BY <1>3 DEF DefaultScanPatterns, ExpandScanPattern, ListDirectory, Confirm, CheckLock, Remove,
                EndDeletion, Keep, Exited, scan, machine
  <2>2. Settled' = Settled /\ \A d \in Distro : Claim(d)' = Claim(d)
    BY <2>1 DEF Settled, Claim, Home
  <2> QED
    BY <2>1, <2>2 DEF ClaimsAreRead, Settled
<1>4. CASE Environment
  <2>1. /\ UNCHANGED command /\ changed \subseteq changed'
        /\ \A d \in Distro \ changed' : keys'[d] = keys[d] /\ registry'[d] = registry[d]
        /\ \A d \in Distro : keys[d] # "absent" => keys'[d] # "absent"
    BY <1>4, OthersStep
  <2>2. \A d \in Settled' : d \in Distro /\ d \in Settled /\ Claim(d)' = Claim(d)
    BY <2>1 DEF Settled, Claim, Home
  <2>3. \A d \in Distro : Cardinality(Before(d)) <= Cardinality(Before(d)')
    BY <2>1, IndexesOnlyGrow
  <2>4. UNCHANGED <<pc, names, readUpTo, claimed>>
    BY <2>1 DEF command, scan
  <2>5. \A d \in Settled' : Listed(d) => Listed(d)'
    BY <2>2, <2>4 DEF Listed
  <2>6. \A d \in Distro : Cardinality(Before(d)) \in Nat /\ Cardinality(Before(d)') \in Nat
    <3>1. \A d \in Distro : Before(d) \in SUBSET Distro /\ Before(d)' \in SUBSET Distro
      BY DEF Before, Subkeys
    <3> QED
      BY <3>1, FewDistros, FS_Subset, FS_CardinalityType
  <2> QED
    BY <1>0, <2>2, <2>3, <2>4, <2>5, <2>6 DEF ClaimsAreRead
<1>5. CASE UNCHANGED vars
  BY <1>5 DEF vars, command, scan, machine, ClaimsAreRead, Settled, Listed, Claim, Home, Before,
              Subkeys
<1> QED
  BY <1>1, <1>2, <1>3, <1>4, <1>5 DEF Next, Step

----------------------------------------------------------------------------
(* A path from a pattern that is not spelled apart has one canonical form. *)
SpelledAlike == \A i \in DOMAIN Patterns : Patterns[i].spelling # "apart"

LEMMA OneSpelling ==
    /\ \A file \in Spelled : file.spelling # "apart" =>
          Canonical(file) = [spelling |-> "plain", path |-> file.path]
    /\ \A d \in Distro : Claim(d) = [spelling |-> "plain", path |-> Home(d)]
<1>1. ASSUME NEW file \in Spelled, file.spelling # "apart"
      PROVE  Canonical(file) = [spelling |-> "plain", path |-> file.path]
  <2>1. file.spelling \in {"plain", "prefixed"}
        /\ file = [spelling |-> file.spelling, path |-> file.path]
    BY <1>1 DEF Spelled, Spelling
  <2> QED
    BY <2>1 DEF Canonical
<1>2. \A d \in Distro : Claim(d) = [spelling |-> "plain", path |-> Home(d)]
  BY DEF Claim, Canonical
<1> QED
  BY <1>1, <1>2

(* What is on the list was claimed by no entry, and comes from a pattern.  *)
ListIsUnclaimed ==
    /\ pc \in {"keys", "read"} => orphans = {}
    /\ \A file \in orphans :
          /\ Canonical(file) \notin claimed
          /\ \E i \in DOMAIN Patterns : file.spelling = Patterns[i].spelling

(* Nothing is claimed once the listing begins.                             *)
LEMMA ListStaysUnclaimed ==
    ASSUME Sound, ListIsUnclaimed, [Next]_vars
    PROVE  ListIsUnclaimed'
<1>1. CASE ListDirectory
  <2>1. pc = "list" /\ pattern \in DOMAIN Patterns /\ UNCHANGED claimed
        /\ pc' \in {"list", "expand"}
    BY <1>1 DEF ListDirectory, Sound, ListsAPattern
  <2>2. \A dir \in toList : \A file \in UnclaimedDisks(dir) :
           Canonical(file) \notin claimed /\ file.spelling = Patterns[pattern].spelling
    BY DEF UnclaimedDisks, DisksIn
  <2>3. \A file \in orphans' :
           file \in orphans \/ \E dir \in toList : file \in UnclaimedDisks(dir)
    BY <1>1 DEF ListDirectory
  <2> QED
    BY <2>1, <2>2, <2>3 DEF ListIsUnclaimed
<1>2. CASE EnumerateKey \/ ReadKey \/ DefaultScanPatterns
  BY <1>2 DEF EnumerateKey, ReadKey, DefaultScanPatterns, Exited, scan, ListIsUnclaimed
<1>3. CASE ExpandScanPattern \/ Confirm \/ CheckLock \/ Remove \/ EndDeletion
  BY <1>3 DEF ExpandScanPattern, Confirm, CheckLock, Remove, EndDeletion, Keep, Exited, scan,
              ListIsUnclaimed
<1>4. CASE Environment \/ UNCHANGED vars
  BY <1>4 DEF Environment, vars, command, scan, ListIsUnclaimed
<1> QED
  BY <1>1, <1>2, <1>3, <1>4 DEF Next, Step

ClaimsInv == Sound /\ HomesApart /\ ClaimsAreRead /\ ListIsUnclaimed

(* No step of the command or of the others takes the disk of a             *)
(* distribution that stays what it was.                                    *)
LEMMA SettledDisksStay ==
    ASSUME SpelledAlike, "unregister" \notin Happens, ClaimsInv, [Next]_vars,
           NEW d \in Settled', Exists(Home(d))
    PROVE  Exists(Home(d))'
<1>0. MachineTypeOK /\ d \in Distro /\ d \notin changed'
  BY DEF ClaimsInv, Sound, TypeOK, Settled
<1>1. \A e \in Distro : Home(e) \in Path
  BY <1>0, EntriesAndFiles
<1>2. ASSUME \A p \in Path : Exists(p) => Exists(p)', registry' = registry
      PROVE  Exists(Home(d))'
  BY <1>0, <1>1, <1>2 DEF Home, Exists
<1>3. CASE Step
  <2>1. UNCHANGED <<registry, keys, changed>>
    BY <1>3, CommandStep DEF ClaimsInv
  <2>2. CASE Remove /\ CanRemove(current.path) /\ files' = Removed(current.path)
    <3>1. pc = "remove" /\ current \in orphans /\ current \in Spelled /\ current.path \in Path
      BY <2>2 DEF Remove, ClaimsInv, Sound, TypeOK, Spelled
    <3>2. Canonical(current) = [spelling |-> "plain", path |-> current.path]
          /\ Canonical(current) \notin claimed
      BY <3>1, OneSpelling DEF SpelledAlike, ClaimsInv, ListIsUnclaimed
    <3>3. d \in Settled
      BY <2>1 DEF Settled
    <3>4. Claim(d) \in claimed /\ Claim(d) = [spelling |-> "plain", path |-> Home(d)]
      BY <1>0, <3>1, <3>3, OneSpelling DEF ClaimsInv, ClaimsAreRead
    <3>5. Home(d) # current.path
      BY <3>2, <3>4
    <3> QED
      BY <1>0, <1>1, <2>1, <2>2, <3>1, <3>5 DEF Removed, Exists, Home, MachineTypeOK
  <2>3. CASE UNCHANGED files
    BY <1>2, <2>1, <2>3 DEF Exists
  <2> QED
    BY <1>3, <2>2, <2>3 DEF Step, EnumerateKey, ReadKey, DefaultScanPatterns, ExpandScanPattern,
           ListDirectory, Confirm, CheckLock, EndDeletion, Remove, Keep, machine
<1>4. CASE MachineNext({e \in Distro : keys[e] = "complete"}, {})
  <2>1. {e \in Distro : keys[e] = "complete"} \in SUBSET Distro /\ {} \in SUBSET Path
    OBVIOUS
  <2> HIDE DEF MachineNext
  <2> QED
    BY <1>0, <1>2, <1>4, <2>1, MachineStep DEF ClaimsInv, Sound
<1>5. ASSUME NEW e \in Distro, changed' = changed \cup {e},
             Register(e) \/ Named(e) \/ Unregister(e) \/ MovedDisk(e) \/ MovedEntry(e)
      PROVE  Exists(Home(d))'
  <2>1. e # d /\ Home(e) # Home(d)
    BY <1>0, <1>5 DEF ClaimsInv, HomesApart
  <2>2. registry'[d] = registry[d]
    BY <1>0, <1>5, <2>1
       DEF Register, Named, Unregister, MovedDisk, MovedEntry, machine, MachineTypeOK
  <2>3. CASE Register(e)
    BY <1>0, <1>1, <2>2, <2>3, EntriesAndFiles
       DEF Register, FreeOf, Owner, Exists, Home, MachineTypeOK
  <2>4. CASE MovedDisk(e)
    <3>1. PICK p \in Path : ~Exists(p) /\ files' = Renamed(Home(e), p)
      BY <2>4 DEF MovedDisk, FreeOf
    <3>2. files'[Home(d)] = files[Home(d)]
      BY <1>0, <1>1, <2>1, <3>1 DEF Renamed, Exists, MachineTypeOK
    <3> QED
      BY <2>2, <3>2 DEF Exists, Home
  <2>5. CASE Named(e) \/ MovedEntry(e)
    BY <2>2, <2>5 DEF Named, MovedEntry, machine, Exists, Home
  <2> QED
    BY <1>5, <2>3, <2>4, <2>5 DEF Unregister
<1>6. CASE UNCHANGED vars
  BY <1>2, <1>6 DEF vars, machine, Exists
<1> QED
  BY <1>3, <1>4, <1>5, <1>6 DEF Next, Environment

(* The disk of a distribution that was registered before `orphans --delete`*)
(* began, and has not been moved since, is not deleted, if no pattern is   *)
(* spelled in a way canonical_path() leaves apart and no subkey goes.      *)
THEOREM ClaimedDisksAreKept ==
    ASSUME SpelledAlike, "unregister" \notin Happens
    PROVE  Spec => SettledClaimsSurvive
<1>1. Init => ClaimsInv
  <2> SUFFICES ASSUME Init PROVE ClaimsInv
    OBVIOUS
  <2>1. ClaimsAreRead
    <3>1. Len(names) = 0
      BY DEF Init
    <3> QED
      BY <3>1, IndexesNameSubkeys DEF Init, ClaimsAreRead, Settled
  <2>2. ListIsUnclaimed
    BY DEF Init, ListIsUnclaimed
  <2> QED
    BY <2>1, <2>2, SoundStarts, HomesStartApart DEF ClaimsInv
<1>2. ClaimsInv /\ [Next]_vars => ClaimsInv'
  <2> SUFFICES ASSUME ClaimsInv, [Next]_vars PROVE ClaimsInv'
    OBVIOUS
  <2> QED
    BY SoundKept, HomesStayApart, ClaimsStayRead, ListStaysUnclaimed DEF ClaimsInv
<1>3. ClaimsInv /\ [Next]_vars =>
         [\A d \in Settled' : Exists(Home(d)) => Exists(Home(d))']_vars
  BY SettledDisksStay
<1> QED
  BY <1>1, <1>2, <1>3, PTL DEF Spec, SettledClaimsSurvive

----------------------------------------------------------------------------
(* Each disk is on the list once, however many patterns name its directory *)
(* and however they spell it.                                              *)
ListedOnce == \A f, g \in orphans : f.path = g.path => f = g

(* With nobody else at work, a disk on the list is there until it has been *)
(* removed, and what could not be removed is on the list of those.         *)
Accounted ==
    /\ pc \in {"keys", "read"} => orphans = {}
    /\ changed = {} =>
          /\ pc \notin {"lock", "remove", "ended"} => \A f \in orphans : Exists(f.path)
          /\ pc \in {"lock", "remove"} \/ (pc = "ended" /\ WentToDelete) =>
                orphans # {} /\ \A f \in orphans : Exists(f.path) <=> f \in left \cup kept
          /\ pc = "ended" /\ WentToDelete => left = {} /\ exit = DeletionCode

ExitInv == Sound /\ ListIsUnclaimed /\ ListedOnce /\ Accounted

(* Listing a directory adds to the list only disks that are there and are  *)
(* not on it.                                                              *)
LEMMA ListingAddsOnce ==
    ASSUME SpelledAlike, ExitInv, ListDirectory
    PROVE  ListedOnce' /\ Accounted'
<1>1. /\ pc = "list" /\ pattern \in DOMAIN Patterns /\ pc' \in {"list", "expand"}
      /\ UNCHANGED <<machine, changed>>
      /\ orphans \subseteq Spelled
  BY DEF ListDirectory, ExitInv, Sound, TypeOK, ListsAPattern
<1>2. ASSUME NEW dir \in toList, orphans' = orphans \cup UnclaimedDisks(dir)
      PROVE  ListedOnce' /\ \A f \in orphans' : f \in orphans \/ Exists(f.path)
  <2>1. \A f \in UnclaimedDisks(dir) :
           /\ f \in Spelled /\ f.spelling = Patterns[pattern].spelling /\ Exists(f.path)
           /\ f.spelling # "apart"
           /\ \A g \in orphans : Canonical(f) # Canonical(g)
    BY <1>1 DEF UnclaimedDisks, DisksIn, SpelledAlike
  <2>2. \A g \in orphans : g \in Spelled /\ g.spelling # "apart"
    BY <1>1 DEF ExitInv, ListIsUnclaimed, SpelledAlike
  <2>3. \A f \in UnclaimedDisks(dir) : \A g \in orphans : f.path # g.path
    BY <2>1, <2>2, OneSpelling
  <2>4. \A f, g \in UnclaimedDisks(dir) : f.path = g.path => f = g
    BY <2>1 DEF Spelled
  <2> QED
    BY <1>2, <2>1, <2>3, <2>4 DEF ListedOnce, ExitInv
<1>3. CASE orphans' = orphans
  BY <1>1, <1>3 DEF ListedOnce, Accounted, ExitInv, Exists, machine
<1>4. ASSUME NEW dir \in toList, orphans' = orphans \cup UnclaimedDisks(dir)
      PROVE  Accounted'
  BY <1>1, <1>2, <1>4 DEF Accounted, ExitInv, Exists, machine
<1> QED
  BY <1>2, <1>3, <1>4 DEF ListDirectory

(* Trying one disk takes it off those left, and what it does to that disk  *)
(* it does to no other on the list.                                        *)
LEMMA DeletionAccounts ==
    ASSUME ExitInv, Confirm \/ CheckLock \/ Remove \/ EndDeletion
    PROVE  Accounted'
<1>1. /\ left \subseteq orphans /\ kept \subseteq orphans \ left
      /\ pc = "remove" => current \in left
      /\ \A f \in orphans : f.path \in Path
      /\ files \in [Path -> Disk \cup {NoFile}]
  BY DEF ExitInv, Sound, TypeOK, MachineTypeOK, Spelled
<1>2. CASE Confirm
  <2>1. kept = {} /\ current = NoFile /\ left = {}
    BY <1>2 DEF Confirm, ExitInv, Sound, NothingTried
  <2> QED
    BY <1>2, <2>1 DEF Confirm, Exited, Accounted, WentToDelete, ExitInv, machine, Exists
<1>3. CASE CheckLock
  BY <1>1, <1>3 DEF CheckLock, Keep, Accounted, ExitInv, Exists
<1>4. CASE Remove
  <2>1. current \in left /\ current \notin kept
    BY <1>1, <1>4 DEF Remove
  <2>2. CASE files' = Removed(current.path) /\ left' = left \ {current} /\ UNCHANGED kept
    <3>1. \A f \in orphans : Exists(f.path)' <=> (Exists(f.path) /\ f # current)
      BY <1>1, <2>1, <2>2 DEF Removed, Exists, ExitInv, ListedOnce
    <3> QED
      BY <1>1, <1>4, <2>1, <2>2, <3>1 DEF Remove, Keep, Accounted, ExitInv
  <2>3. CASE Keep(current)
    BY <1>1, <1>4, <2>1, <2>3 DEF Remove, Keep, Accounted, ExitInv, Exists
  <2> QED
    BY <1>4, <2>2, <2>3 DEF Remove
<1>5. CASE EndDeletion
  BY <1>1, <1>5 DEF EndDeletion, Exited, DeletionCode, Accounted, WentToDelete, ExitInv, machine,
                    deletion, Exists
<1> QED
  BY <1>2, <1>3, <1>4, <1>5

(* Whoever makes it, a step leaves every disk on the list accounted for.   *)
LEMMA ExitInvKept ==
    ASSUME SpelledAlike, ExitInv, [Next]_vars
    PROVE  ExitInv'
<1>1. Sound' /\ ListIsUnclaimed'
  BY SoundKept, ListStaysUnclaimed DEF ExitInv
<1>2. CASE ListDirectory
  BY <1>1, <1>2, ListingAddsOnce DEF ExitInv
<1>3. CASE EnumerateKey \/ ReadKey \/ DefaultScanPatterns \/ ExpandScanPattern
  <2>1. UNCHANGED <<machine, changed, orphans, left, current, kept>>
        /\ pc \notin {"lock", "remove", "ended"} /\ pc' \notin {"lock", "remove"}
        /\ (pc' \in {"keys", "read"} => pc \in {"keys", "read"})
    BY <1>3 DEF EnumerateKey, ReadKey, DefaultScanPatterns, ExpandScanPattern, Exited, scan, deletion
  <2>2. ~WentToDelete'
    BY <2>1 DEF ExitInv, Sound, NothingTried, WentToDelete
  <2> QED
    BY <1>1, <2>1, <2>2 DEF ExitInv, ListedOnce, Accounted, machine, Exists
<1>4. CASE Confirm \/ CheckLock \/ Remove \/ EndDeletion
  <2>1. UNCHANGED orphans
    BY <1>4 DEF Confirm, CheckLock, Remove, EndDeletion, scan
  <2> QED
    BY <1>1, <1>4, <2>1, DeletionAccounts DEF ExitInv, ListedOnce
<1>5. CASE Environment
  <2>1. /\ UNCHANGED command /\ changed \subseteq changed'
        /\ changed' = {} => \A p \in Path : Exists(p)' <=> Exists(p)
    BY <1>5, OthersStep DEF ExitInv
  <2>2. \A f \in orphans : f.path \in Path
    BY DEF ExitInv, Sound, TypeOK, Spelled
  <2> QED
    BY <1>1, <2>1, <2>2
       DEF ExitInv, ListedOnce, Accounted, command, deletion, WentToDelete, DeletionCode
<1>6. CASE UNCHANGED vars
  BY <1>1, <1>6 DEF ExitInv, ListedOnce, Accounted, vars, command, deletion, machine, WentToDelete,
                    DeletionCode, Exists
<1> QED
  BY <1>2, <1>3, <1>4, <1>5, <1>6 DEF Next, Step

(* With no pattern in a spelling that canonical_path() leaves apart, and   *)
(* nobody else at work, the exit code of `orphans --delete` tells what is  *)
(* left.  With one a disk can be on the list twice, and the second time it *)
(* is found to have gone.                                                  *)
THEOREM ExitCodeIsTrue ==
    ASSUME SpelledAlike
    PROVE  Spec => []ExitTellsWhatIsLeft
<1>1. Init => ExitInv
  <2> SUFFICES ASSUME Init PROVE ExitInv
    OBVIOUS
  <2> QED
    BY SoundStarts DEF Init, ExitInv, ListIsUnclaimed, ListedOnce, Accounted
<1>2. ExitInv /\ [Next]_vars => ExitInv'
  BY ExitInvKept
<1>3. ExitInv => ExitTellsWhatIsLeft
  <2> SUFFICES ASSUME ExitInv, pc = "ended", WentToDelete, changed = {}
               PROVE  /\ exit = "ok" <=> StillThere = {}
                      /\ exit = "busy" <=> StillThere = orphans
    BY DEF ExitTellsWhatIsLeft
  <2>1. StillThere = kept /\ orphans # {} /\ exit = DeletionCode
    BY DEF ExitInv, Accounted, StillThere, Sound, TypeOK
  <2> QED
    BY <2>1 DEF DeletionCode
<1> QED
  BY <1>1, <1>2, <1>3, PTL DEF Spec

----------------------------------------------------------------------------
(* With nobody else at work, whatever has been claimed some registered     *)
(* distribution claims, and whatever lies in a directory that has been     *)
(* listed is either such a distribution's disk or on the list.             *)
ClaimsAreTrue ==
    changed = {} => \A claim \in claimed : \E d \in Settled : claim = Claim(d)

WasListed(i, dir) == i < pattern \/ (i = pattern /\ pc = "list" /\ dir \notin toList)

Accountable(p) ==
    (\E d \in Settled : Home(d) = p) \/ (\E file \in orphans : file.path = p)

ListedIsAccountable ==
    (pc \in {"environment", "expand", "list", "confirm"} /\ changed = {}) =>
        \A i \in DOMAIN Patterns \ unnamed : \A p \in (Patterns[i].dirs \ unread) \X Name :
            WasListed(i, p[1]) /\ Exists(p) => Accountable(p)

PatternsInTurn ==
    /\ pc \in {"keys", "read", "environment"} => pattern = 1
    /\ pc = "confirm" => pattern > Len(Patterns)

HiddenInv == Sound /\ PatternsInTurn /\ ClaimsAreTrue /\ ListedIsAccountable

(* Listing a directory accounts for every disk in it.                      *)
LEMMA ListingAccounts ==
    ASSUME HiddenInv, NEW dir \in toList, pc = "list", changed = {},
           NEW p \in Path, p[1] = dir, Exists(p)
    PROVE  (\E d \in Settled : Home(d) = p)
           \/ \E file \in orphans \cup UnclaimedDisks(dir) : file.path = p
<1> DEFINE found == [spelling |-> Patterns[pattern].spelling, path |-> p]
<1>1. Patterns[pattern].spelling \in Spelling
  <2>1. Patterns[pattern] \in Pattern
    BY OrphansAssumption DEF HiddenInv, Sound, ListsAPattern
  <2> QED
    BY <2>1 DEF Pattern
<1>2. found \in DisksIn(dir)
  BY <1>1 DEF DisksIn, Spelled
<1>3. found \in UnclaimedDisks(dir) \/ Canonical(found) \in claimed
      \/ \E file \in orphans : Canonical(found) = Canonical(file)
  BY <1>2 DEF UnclaimedDisks
<1>4. \A file \in Spelled : Canonical(file).path = file.path
  BY DEF Canonical, Spelled
<1>5. found \in Spelled /\ orphans \subseteq Spelled /\ found.path = p
  BY <1>1 DEF Spelled, HiddenInv, Sound, TypeOK
<1>6. CASE Canonical(found) \in claimed
  <2>1. PICK d \in Settled : Canonical(found) = Claim(d)
    BY <1>6 DEF HiddenInv, ClaimsAreTrue
  <2>2. d \in Distro /\ Claim(d).path = Home(d)
    BY OneSpelling DEF Settled
  <2> QED
    BY <1>4, <1>5, <2>1, <2>2
<1>7. CASE \E file \in orphans : Canonical(found) = Canonical(file)
  BY <1>4, <1>5, <1>7
<1> HIDE DEF found
<1> QED
  BY <1>3, <1>5, <1>6, <1>7

(* One directory or one pattern after the other, and one that cannot be    *)
(* had sets aside no directory but its own.                                *)
LEMMA ListingKeepsAccount ==
    ASSUME HiddenInv, ExpandScanPattern \/ ListDirectory
    PROVE  PatternsInTurn' /\ ListedIsAccountable'
<1>1. pattern \in Int /\ Len(Patterns) \in Int /\ Patterns \in Seq(Pattern)
      /\ DOMAIN Patterns \subseteq Int
  BY OrphansAssumption DEF HiddenInv, Sound, TypeOK
<1>2. UNCHANGED <<machine, keys, changed, claimed>> /\ pc \in {"expand", "list"}
      /\ pc' \in {"expand", "list", "confirm"}
      /\ unread \subseteq unread' /\ unnamed \subseteq unnamed' /\ orphans \subseteq orphans'
  BY DEF ExpandScanPattern, ListDirectory
<1>3. \A q : (Exists(q)' <=> Exists(q)) /\ (Accountable(q) => Accountable(q)')
  BY <1>2 DEF Exists, Accountable, Settled, Home, machine
<1>4. PatternsInTurn'
  BY <1>1 DEF ExpandScanPattern, ListDirectory, PatternsInTurn
<1>5. ASSUME changed = {}, NEW i \in DOMAIN Patterns \ unnamed',
             NEW p \in (Patterns[i].dirs \ unread') \X Name,
             WasListed(i, p[1])', Exists(p)
      PROVE  Accountable(p)'
  <2>1. p \in (Patterns[i].dirs \ unread) \X Name /\ p[1] \in Patterns[i].dirs \ unread'
        /\ i \in DOMAIN Patterns \ unnamed
    BY <1>2
  <2>2. p \in Path
    <3>1. Patterns[i] \in Pattern
      BY OrphansAssumption
    <3> QED
      BY <2>1, <3>1 DEF Pattern, Path
  <2>3. CASE WasListed(i, p[1])
    BY <1>2, <1>3, <1>5, <2>1, <2>3 DEF HiddenInv, ListedIsAccountable
  <2>4. CASE ~WasListed(i, p[1]) /\ ExpandScanPattern
    BY <1>1, <1>5, <2>1, <2>4 DEF ExpandScanPattern, WasListed
  <2>5. CASE ~WasListed(i, p[1]) /\ ListDirectory
    <3>1. pc = "list" /\ \E dir \in toList : /\ toList' = toList \ {dir} /\ p[1] = dir
                                            /\ \/ orphans' = orphans \cup UnclaimedDisks(dir)
                                               \/ unread' = unread \cup {dir}
      BY <1>1, <1>5, <2>5 DEF ListDirectory, WasListed
    <3>2. p[1] \in toList /\ orphans' = orphans \cup UnclaimedDisks(p[1])
      BY <2>1, <3>1
    <3>3. (\E d \in Settled : Home(d) = p) \/ \E file \in orphans' : file.path = p
      BY <1>5, <2>2, <3>1, <3>2, ListingAccounts
    <3> QED
      BY <1>2, <3>3 DEF Accountable, Settled, Home, machine
  <2> QED
    BY <2>3, <2>4, <2>5
<1> QED
  BY <1>2, <1>3, <1>4, <1>5 DEF ListedIsAccountable

(* Whoever makes it, a step leaves what was listed accountable.            *)
LEMMA HiddenInvKept ==
    ASSUME HiddenInv, [Next]_vars
    PROVE  HiddenInv'
<1>1. Sound'
  BY SoundKept DEF HiddenInv
<1>2. ASSUME UNCHANGED <<registry, keys, changed>>
      PROVE  Settled' = Settled /\ \A d : Claim(d)' = Claim(d) /\ Home(d)' = Home(d)
  BY <1>2 DEF Settled, Claim, Home
<1>3. CASE EnumerateKey
  BY <1>1, <1>2, <1>3 DEF EnumerateKey, Exited, machine, HiddenInv, PatternsInTurn, ClaimsAreTrue,
                          ListedIsAccountable
<1>4. CASE ReadKey
  <2>1. /\ pc = "read" /\ pc' \in {"read", "environment", "ended"}
        /\ UNCHANGED <<registry, keys, changed, pattern>>
    BY <1>4 DEF ReadKey, Exited, machine
  <2>2. ClaimsAreTrue'
    <3>1. ASSUME changed = {}, NEW claim \in claimed' PROVE \E d \in Settled : claim = Claim(d)
      <4>1. CASE claim \in claimed
        BY <3>1, <4>1 DEF HiddenInv, ClaimsAreTrue
      <4>2. CASE claim \notin claimed
        <5> DEFINE d == names[readUpTo + 1]
        <5>1. readUpTo < Len(names) /\ keys[d] = "complete" /\ claim = Claim(d)
          BY <1>4, <3>1, <4>2 DEF ReadKey
        <5>2. d \in Distro
          BY <5>1 DEF HiddenInv, Sound, TypeOK
        <5>3. d \in Settled
          BY <3>1, <5>1, <5>2 DEF Settled
        <5> QED
          BY <5>1, <5>3
      <4> QED
        BY <4>1, <4>2
    <3> QED
      BY <1>2, <2>1, <3>1 DEF ClaimsAreTrue
  <2>3. \A i \in DOMAIN Patterns : \A dir : ~WasListed(i, dir)'
    BY <2>1, OrphansAssumption DEF HiddenInv, PatternsInTurn, WasListed
  <2> QED
    BY <1>1, <2>1, <2>2, <2>3 DEF HiddenInv, PatternsInTurn, ListedIsAccountable
<1>5. CASE DefaultScanPatterns
  <2>1. /\ pc = "environment" /\ pc' \in {"expand", "ended"}
        /\ UNCHANGED <<machine, keys, changed, scan, orphans>>
    BY <1>5 DEF DefaultScanPatterns, Exited
  <2>2. \A i \in DOMAIN Patterns : \A dir : ~WasListed(i, dir)'
    BY <2>1, OrphansAssumption DEF HiddenInv, PatternsInTurn, WasListed, scan
  <2> QED
    BY <1>1, <1>2, <2>1, <2>2 DEF HiddenInv, PatternsInTurn, ListedIsAccountable, ClaimsAreTrue,
                                  scan, machine
<1>6. CASE ExpandScanPattern \/ ListDirectory
  <2>1. UNCHANGED <<registry, keys, changed, claimed>>
    BY <1>6 DEF ExpandScanPattern, ListDirectory, machine
  <2> QED
    BY <1>1, <1>2, <1>6, <2>1, ListingKeepsAccount DEF HiddenInv, ClaimsAreTrue
<1>7. CASE Confirm \/ CheckLock \/ Remove \/ EndDeletion
  <2>1. /\ pc' \in {"lock", "remove", "ended"}
        /\ UNCHANGED <<registry, keys, changed, claimed>>
    BY <1>7 DEF Confirm, CheckLock, Remove, EndDeletion, Keep, Exited, scan, machine
  <2> QED
    BY <1>1, <1>2, <2>1 DEF HiddenInv, PatternsInTurn, ListedIsAccountable, ClaimsAreTrue
<1>8. CASE Environment
  <2>1. /\ UNCHANGED command /\ changed \subseteq changed'
        /\ changed' = {} => UNCHANGED <<keys, registry>> /\ \A p \in Path : Exists(p)' <=> Exists(p)
    BY <1>8, OthersStep DEF HiddenInv
  <2>2. UNCHANGED <<pc, claimed, pattern, toList, unread, unnamed, orphans>>
    BY <2>1 DEF command, scan
  <2>3. \A i \in DOMAIN Patterns : (Patterns[i].dirs \ unread) \X Name \subseteq Path
    <3>1. \A i \in DOMAIN Patterns : Patterns[i] \in Pattern
      BY OrphansAssumption
    <3> QED
      BY <3>1 DEF Pattern, Path
  <2>4. ClaimsAreTrue'
    BY <1>2, <2>1, <2>2 DEF HiddenInv, ClaimsAreTrue
  <2>5. ListedIsAccountable'
    BY <1>2, <2>1, <2>2, <2>3 DEF HiddenInv, ListedIsAccountable, WasListed, Accountable
  <2> QED
    BY <1>1, <2>2, <2>4, <2>5 DEF HiddenInv, PatternsInTurn
<1>9. CASE UNCHANGED vars
  BY <1>1, <1>2, <1>9 DEF vars, command, scan, machine, HiddenInv, PatternsInTurn, ClaimsAreTrue,
                          ListedIsAccountable, WasListed, Accountable, Exists
<1> QED
  BY <1>3, <1>4, <1>5, <1>6, <1>7, <1>8, <1>9 DEF Next, Step

(* Whatever the patterns, and whatever cannot be listed: with nobody else  *)
(* at work, every disk in a directory that was listed is either a          *)
(* registered distribution's or on the list.                               *)
THEOREM NoOrphanIsHidden == Spec => []NothingHidden
<1>1. Init => HiddenInv
  <2> SUFFICES ASSUME Init PROVE HiddenInv
    OBVIOUS
  <2> QED
    BY SoundStarts DEF Init, HiddenInv, PatternsInTurn, ClaimsAreTrue, ListedIsAccountable
<1>2. HiddenInv /\ [Next]_vars => HiddenInv'
  BY HiddenInvKept
<1>3. HiddenInv => NothingHidden
  <2> SUFFICES ASSUME HiddenInv, pc = "confirm", changed = {}, NEW i \in DOMAIN Patterns \ unnamed,
                      NEW p \in (Patterns[i].dirs \ unread) \X Name, Exists(p)
               PROVE  Accountable(p)
    BY DEF NothingHidden, Accountable
  <2>1. i < pattern
    BY OrphansAssumption DEF HiddenInv, PatternsInTurn, Sound, TypeOK
  <2> QED
    BY <2>1 DEF HiddenInv, ListedIsAccountable, WasListed
<1> QED
  BY <1>1, <1>2, <1>3, PTL DEF Spec
=============================================================================
