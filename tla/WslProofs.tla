------------------------------ MODULE WslProofs ------------------------------
(***************************************************************************)
(* What the machine does of itself, whoever uses it: its types hold, and a *)
(* guest never loses the file it runs from.  And what the commands that    *)
(* work on it share: the entry they write and the stack they undo from.    *)
(***************************************************************************)
EXTENDS Wsl, SequenceTheorems, TLAPS

GuestsHaveDisks == \A d \in Distro : guest[d] # Off => Exists(guest[d])

(* An entry resolves to a path (vhdx_path_for()).                          *)
LEMMA EntriesResolve ==
    \A entry \in Entry : /\ Resolve(entry) \in Path
                         /\ Resolve(entry)[1] = entry.base.dir
                         /\ Resolve(entry)[1] \in Dir /\ Resolve(entry)[2] \in Name
                         /\ Resolve(entry) = <<Resolve(entry)[1], Resolve(entry)[2]>>
BY WslAssumption DEF Resolve, Entry, BasePath, Path

(* A machine with WSL installed is well typed and nothing runs on it.      *)
LEMMA MachineStarts == MachineInit => MachineTypeOK /\ GuestsHaveDisks
<1> SUFFICES ASSUME MachineInit PROVE MachineTypeOK /\ GuestsHaveDisks
  OBVIOUS
<1>1. Damaged \in Disk /\ \A o \in Wsl2 \cup {Stray} : Fresh(o) \in Disk
  BY WslAssumption DEF Fresh, Damaged, Disk, Owner
<1>2. files \in [Path -> Disk \cup {NoFile}]
  BY <1>1 DEF MachineInit
<1> QED
  BY <1>2 DEF MachineInit, MachineTypeOK, GuestsHaveDisks

(* Booting a distribution attaches the disk its entry names.               *)
LEMMA BootTyped ==
    ASSUME MachineTypeOK, GuestsHaveDisks, NEW d \in Distro, files' = files,
           \/ RunsIn(d) \/ CannotRunIn(d) \/ MayHaveRunIn(d)
    PROVE  /\ guest' \in [Distro -> Path \cup {Off}] /\ attached' \subseteq Path
           /\ GuestsHaveDisks'
           /\ \A e \in Distro \ {d} : guest'[e] = guest[e]
           /\ guest'[d] \in {guest[d], Home(d)}
           /\ guest[d] # Off => guest'[d] = guest[d]
<1>1. Home(d) \in Path
  BY EntriesResolve DEF MachineTypeOK, Home
<1>2. \/ UNCHANGED guest /\ attached' \subseteq attached \cup {Home(d)}
      \/ Exists(Home(d)) /\ guest[d] = Off /\ Boot(d)
  BY DEF RunsIn, CannotRunIn, MayHaveRunIn, CanBoot
<1> QED
  BY <1>1, <1>2 DEF Boot, GuestsHaveDisks, Exists, MachineTypeOK

(* Whatever happens besides wsldisk keeps the types; it boots only         *)
(* distributions in `used` and changes no entry.                           *)
LEMMA MachineStep ==
    ASSUME MachineTypeOK, GuestsHaveDisks, NEW used \in SUBSET Distro,
           NEW strangers \in SUBSET Path, MachineNext(used, strangers)
    PROVE  /\ MachineTypeOK' /\ GuestsHaveDisks'
           /\ UNCHANGED <<registry, handles>>
           /\ \A d \in Distro : guest'[d] \in {Off, guest[d]} \/ (d \in used /\ guest'[d] = Home(d))
           /\ \A p \in Path : Exists(p) => Exists(p)'
<1> USE DEF MachineTypeOK
<1>1. ASSUME NEW d \in used, StartGuest(d)
      PROVE  /\ MachineTypeOK' /\ GuestsHaveDisks'
             /\ UNCHANGED <<registry, handles, files>>
             /\ guest' = [guest EXCEPT ![d] = Home(d)]
  <2>1. d \in Distro /\ Home(d) \in Path
    BY EntriesResolve DEF Home
  <2> QED
    BY <1>1, <2>1 DEF StartGuest, Boot, CanBoot, GuestsHaveDisks, Exists
<1>2. ASSUME NEW d \in used, NEW w \in Write, GuestWrites(d, w)
      PROVE  /\ MachineTypeOK' /\ GuestsHaveDisks'
             /\ UNCHANGED <<registry, handles, guest>>
             /\ \A p \in Path : Exists(p) => Exists(p)'
  <2> DEFINE p == guest[d]
             new == [files[p] EXCEPT !.data = @ \cup {w}]
  <2>0. d \in Distro
    OBVIOUS
  <2>1. p \in Path /\ files[p] \in Disk
    BY <1>2, <2>0 DEF GuestWrites, GuestsHaveDisks, Exists
  <2>2. new \in Disk /\ files[p].of \in Owner
    BY <2>1 DEF Disk
  <2>3. files' = [files EXCEPT ![p] = new]
    BY <1>2 DEF GuestWrites
  <2>4. files' \in [Path -> Disk \cup {NoFile}] /\ \A q \in Path : Exists(q) => Exists(q)'
    <3> HIDE DEF new
    <3> QED
      BY <2>1, <2>2, <2>3, WslAssumption DEF Exists
  <2>5. written' \in [Owner -> SUBSET Write]
    BY <1>2, <2>2 DEF GuestWrites
  <2> QED
    BY <1>2, <2>4, <2>5 DEF GuestWrites, GuestsHaveDisks
<1>3. ASSUME NEW d \in Distro, StopGuest(d)
      PROVE  /\ MachineTypeOK' /\ GuestsHaveDisks'
             /\ UNCHANGED <<registry, handles, files>>
             /\ guest' = [guest EXCEPT ![d] = Off]
  BY <1>3 DEF StopGuest, GuestsHaveDisks, Exists
<1>4. ASSUME VmIdlesOut
      PROVE  MachineTypeOK' /\ GuestsHaveDisks' /\ UNCHANGED <<registry, handles, files, guest>>
  BY <1>4 DEF VmIdlesOut, GuestsHaveDisks, Exists
<1>5. ASSUME NEW p \in strangers, StrayAppears(p)
      PROVE  /\ MachineTypeOK' /\ GuestsHaveDisks'
             /\ UNCHANGED <<registry, handles, guest>>
             /\ \A q \in Path : Exists(q) => Exists(q)'
  <2>1. Fresh(Stray) \in Disk
    BY DEF Fresh, Disk, Owner
  <2>2. \A q \in Path : Exists(q) => Exists(q)'
    BY <1>5, <2>1, WslAssumption DEF StrayAppears, Exists
  <2> QED
    BY <1>5, <2>1, <2>2 DEF StrayAppears, GuestsHaveDisks
<1> QED
  BY <1>1, <1>2, <1>3, <1>4, <1>5 DEF MachineNext, Exists

----------------------------------------------------------------------------
(* Writing BasePath leaves VhdFileName alone, and the other way round.      *)
LEMMA EntryFields ==
    ASSUME NEW entry \in Entry, NEW base \in BasePath
    PROVE  /\ [entry EXCEPT !.base = base] \in Entry
           /\ [entry EXCEPT !.base = base].vhd = entry.vhd
           /\ [entry EXCEPT !.base = base].base = base
           /\ [entry EXCEPT !.vhd = entry.vhd] = entry
BY DEF Entry

(* Writing back the VhdFileName that is there changes nothing.             *)
LEMMA SameVhd ==
    ASSUME NEW r \in [Distro -> Entry], NEW d \in Distro
    PROVE  [r EXCEPT ![d].vhd = r[d].vhd] = r
<1>1. [r[d] EXCEPT !.vhd = r[d].vhd] = r[d]
  BY DEF Entry
<1> QED
  BY <1>1

(* Pushing adds one entry on top and leaves those below alone.              *)
LEMMA Pushed ==
    ASSUME NEW S, NEW stack \in Seq(S), NEW entry \in S
    PROVE  /\ Len(stack) \in Nat
           /\ Append(stack, entry) \in Seq(S)
           /\ Len(Append(stack, entry)) = Len(stack) + 1
           /\ Append(stack, entry)[Len(stack) + 1] = entry
           /\ \A i \in 1 .. Len(stack) : Append(stack, entry)[i] = stack[i]
BY AppendProperties

(* Popping takes the top entry and leaves those below alone.               *)
LEMMA Popped ==
    ASSUME NEW S, NEW stack \in Seq(S), Len(stack) > 0
    PROVE  LET rest == SubSeq(stack, 1, Len(stack) - 1) IN
           /\ Len(stack) \in Nat
           /\ rest \in Seq(S)
           /\ Len(rest) = Len(stack) - 1
           /\ \A i \in 1 .. Len(stack) - 1 : rest[i] = stack[i]
<1> DEFINE n == Len(stack) - 1
           rest == SubSeq(stack, 1, n)
<1>1. Len(stack) \in Nat /\ n \in Nat /\ \A i \in 1 .. n : stack[i] \in S
  OBVIOUS
<1>2. rest \in Seq(S) /\ Len(rest) = n /\ \A i \in 1 .. n : rest[i] = stack[i]
  <2> HIDE DEF n
  <2> QED
    BY <1>1, SubSeqProperties
<1> QED
  BY <1>1, <1>2
=============================================================================
