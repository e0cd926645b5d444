---------------------------- MODULE ConfigProofs ----------------------------
(***************************************************************************)
(* That nobody acts on a config.toml half written, and that what `config   *)
(* set` reports is what others read back, for any number of processes, any *)
(* command lines and whatever the user leaves in the file.                 *)
(***************************************************************************)
EXTENDS Config, FiniteSetTheorems, TLAPS

(* A whole number that is no more than the longest timeout is in range.    *)
LEMMA Capped ==
    ASSUME NEW n \in Nat, ~(n > MaxTimeout)
    PROVE  n \in 0 .. MaxTimeout
BY DEF MaxTimeout

(* The members of a finite set of numbers can be told by how many come     *)
(* before each: there is one at every place.                               *)
LEMMA Ranked ==
    ASSUME NEW S \in SUBSET Nat, IsFiniteSet(S)
    PROVE  /\ Cardinality(S) \in Nat
           /\ \A n \in 1 .. Cardinality(S) : \E i \in S : Cardinality({j \in S : j < i}) = n - 1
<1> DEFINE below(i) == {j \in S : j < i}
           rank == [i \in S |-> Cardinality(below(i))]
           places == 0 .. Cardinality(S) - 1
<1>1. Cardinality(S) \in Nat
  BY FS_CardinalityType
<1>2. \A i \in S : IsFiniteSet(below(i)) /\ Cardinality(below(i)) \in Nat
  BY FS_Subset, FS_CardinalityType
<1>3. ASSUME NEW i \in S, NEW T \in SUBSET S, i \in T, below(i) \subseteq T
      PROVE  Cardinality(below(i)) < Cardinality(T)
  <2>1. IsFiniteSet(T) /\ Cardinality(T) \in Nat
    BY FS_Subset, FS_CardinalityType
  <2>2. IsFiniteSet(T \ {i}) /\ Cardinality(T \ {i}) = Cardinality(T) - 1
    BY <1>3, <2>1, FS_RemoveElement
  <2>3. below(i) \in SUBSET (T \ {i})
    BY <1>3
  <2>4. Cardinality(below(i)) <= Cardinality(T \ {i})
    BY <2>2, <2>3, FS_Subset
  <2> QED
    BY <1>2, <2>1, <2>2, <2>4
<1>4. ASSUME NEW i \in S PROVE Cardinality(below(i)) \in places
  <2>1. Cardinality(below(i)) < Cardinality(S)
    BY <1>3
  <2> QED
    BY <1>1, <1>2, <2>1
<1>5. ASSUME NEW i \in S, NEW k \in S, i < k
      PROVE  Cardinality(below(i)) < Cardinality(below(k))
  <2>0. i \in Nat /\ k \in Nat /\ \A j \in S : j \in Nat
    OBVIOUS
  <2>1. i \in below(k) /\ below(k) \in SUBSET S
    BY <1>5
  <2>2. \A j \in S : j < i => j < k
    BY <1>5, <2>0
  <2>3. below(i) \subseteq below(k)
    BY <2>2
  <2> HIDE DEF below
  <2> QED
    BY <1>3, <2>1, <2>3
<1>6. rank \in Injection(S, places)
  <2>1. ASSUME NEW i \in S, NEW k \in S, rank[i] = rank[k] PROVE i = k
    <3>1. Cardinality(below(i)) = Cardinality(below(k)) /\ i \in Nat /\ k \in Nat
      BY <2>1
    <3> QED
      BY <1>2, <1>5, <3>1
  <2>2. rank \in [S -> places]
    BY <1>4
  <2> QED
    BY <2>1, <2>2 DEF Injection, IsInjective
<1>7. IsFiniteSet(places) /\ Cardinality(places) = Cardinality(S)
  <2>1. Cardinality(S) - 1 \in Int /\ 0 \in Int
    BY <1>1
  <2> QED
    BY <1>1, <2>1, FS_Interval
<1>8. rank \in Surjection(S, places)
  <2> HIDE DEF rank, places
  <2> QED
    BY <1>6, <1>7, FS_Injection
<1>9. ASSUME NEW n \in 1 .. Cardinality(S)
      PROVE  \E i \in S : Cardinality(below(i)) = n - 1
  <2>1. n - 1 \in places
    BY <1>1
  <2>2. \E i \in S : rank[i] = n - 1
    <3> HIDE DEF rank, places
    <3> QED
      BY <1>8, <2>1 DEF Surjection
  <2> QED
    BY <2>2
<1> QED
  BY <1>1, <1>9

(* What is kept of a list is directories, and of a list of directories all *)
(* of it, in its order.                                                    *)
LEMMA FoldersAreKept ==
    ASSUME NEW T, NEW parts \in Seq(T)
    PROVE  /\ Folders(parts) \in Seq(Folder)
           /\ parts \in Seq(Folder) => Folders(parts) = parts
<1> DEFINE places == {i \in DOMAIN parts : parts[i] \in Folder}
           nth(k) == CHOOSE i \in places : Cardinality({j \in places : j < i}) = k - 1
           n == Len(parts)
           m == Cardinality(places)
<1>1. n \in Nat /\ DOMAIN parts = 1 .. n /\ IsFiniteSet(1 .. n)
  BY FS_Interval
<1>2. places \in SUBSET Nat /\ IsFiniteSet(places)
  BY <1>1, FS_Subset
<1>3. /\ m \in Nat
      /\ \A k \in 1 .. m : \E i \in places : Cardinality({j \in places : j < i}) = k - 1
  <2> HIDE DEF places
  <2> QED
    BY <1>2, Ranked
<1>4. \A k \in 1 .. m : nth(k) \in places /\ Cardinality({j \in places : j < nth(k)}) = k - 1
  <2> HIDE DEF places, m
  <2> QED
    BY <1>3
<1>5. Folders(parts) = [k \in 1 .. m |-> parts[nth(k)]]
  BY DEF Folders
<1>6. Folders(parts) \in Seq(Folder)
  <2>1. \A k \in 1 .. m : parts[nth(k)] \in Folder
    BY <1>4
  <2> HIDE DEF m, nth
  <2> QED
    BY <1>3, <1>5, <2>1
<1>7. ASSUME parts \in Seq(Folder) PROVE Folders(parts) = parts
  <2>1. \A i \in 1 .. n : parts[i] \in Folder
    BY <1>7
  <2>2. places = 1 .. n
    BY <1>1, <2>1
  <2>3. m = n
    <3>1. 1 \in Int /\ n \in Int /\ n >= 0
      BY <1>1
    <3>2. Cardinality(1 .. n) = n
      <4> HIDE DEF n
      <4> QED
        BY <3>1, FS_Interval
    <3> HIDE DEF n, places
    <3> QED
      BY <2>2, <3>2
  <2>4. ASSUME NEW i \in 1 .. n PROVE Cardinality({j \in places : j < i}) = i - 1
    <3>1. {j \in places : j < i} = 1 .. (i - 1)
      BY <1>1, <2>2
    <3>2. 1 \in Int /\ i - 1 \in Int /\ i - 1 >= 0
      BY <1>1
    <3>3. Cardinality(1 .. (i - 1)) = i - 1
      BY <3>2, FS_Interval
    <3> QED
      BY <3>1, <3>3
  <2>5. ASSUME NEW k \in 1 .. n PROVE nth(k) = k
    <3>1. nth(k) \in 1 .. n /\ Cardinality({j \in places : j < nth(k)}) = k - 1
      <4> HIDE DEF nth, places, m
      <4> QED
        BY <1>4, <2>2, <2>3
    <3>2. nth(k) - 1 = k - 1 /\ nth(k) \in Nat /\ k \in Nat
      <4> HIDE DEF nth, places
      <4> QED
        BY <1>1, <2>4, <3>1
    <3> HIDE DEF nth
    <3> QED
      BY <3>2
  <2>6. Folders(parts) = [k \in 1 .. n |-> parts[k]]
    <3> HIDE DEF nth, m, n
    <3> QED
      BY <1>5, <2>3, <2>5
  <2>7. parts = [k \in 1 .. n |-> parts[k]]
    BY <1>1
  <2> QED
    BY <2>6, <2>7
<1> QED
  BY <1>6, <1>7

(* A text that parses is a configuration (parse_config()).                 *)
LEMMA ParseTyped ==
    ASSUME NEW text \in Text \cup {Broken}
    PROVE  ParseConfig(text) \in Configuration \cup {Refused}
<1>1. CASE text = Broken
  BY <1>1 DEF ParseConfig
<1>2. CASE text # Broken
  <2>1. ReadDirs(text.dirs) \in Seq(Folder)
    <3>1. text.dirs \in Odd \/ text.dirs \in Seq(Folder \cup {Mistyped})
      BY <1>2 DEF Text
    <3>2. CASE text.dirs \in Odd
      BY <3>2 DEF ReadDirs
    <3>3. CASE text.dirs \notin Odd
      BY <3>1, <3>3, FoldersAreKept DEF ReadDirs
    <3> QED
      BY <3>2, <3>3
  <2>2. /\ ReadInto(text.trim, Defaults.trim) \in BOOLEAN \cup {Refused}
        /\ ReadInto(text.restart, Defaults.restart) \in BOOLEAN \cup {Refused}
        /\ ReadInto(text.timeout, Defaults.timeout) \in Nat \cup {Refused}
    BY <1>2 DEF Text, ReadInto, Defaults, Odd
  <2> DEFINE c == [dirs    |-> ReadDirs(text.dirs),
                   trim    |-> ReadInto(text.trim, Defaults.trim),
                   restart |-> ReadInto(text.restart, Defaults.restart),
                   timeout |-> ReadInto(text.timeout, Defaults.timeout)]
  <2>3. ParseConfig(text) = Refused \/ (/\ ParseConfig(text) = c
                                       /\ Refused \notin {c.trim, c.restart, c.timeout}
                                       /\ ~(c.timeout > MaxTimeout))
    BY <1>2 DEF ParseConfig
  <2>4. ASSUME Refused \notin {c.trim, c.restart, c.timeout}, ~(c.timeout > MaxTimeout)
        PROVE  c \in Configuration
    <3>1. /\ c = [dirs |-> c.dirs, trim |-> c.trim, restart |-> c.restart, timeout |-> c.timeout]
          /\ c.dirs \in Seq(Folder) /\ c.timeout \in Nat \cup {Refused}
          /\ c.trim \in BOOLEAN \cup {Refused} /\ c.restart \in BOOLEAN \cup {Refused}
      BY <2>1, <2>2
    <3> HIDE DEF c
    <3>2. c.trim \in BOOLEAN /\ c.restart \in BOOLEAN
      BY <2>4, <3>1
    <3>3. c.timeout \in 0 .. MaxTimeout
      <4>1. c.timeout \in Nat /\ ~(c.timeout > MaxTimeout)
        BY <2>4, <3>1
      <4> QED
        BY <4>1, Capped
    <3> QED
      BY <3>1, <3>2, <3>3 DEF Configuration
  <2> QED
    BY <2>3, <2>4
<1> QED
  BY <1>1, <1>2

(* What is rendered is a text, and so is what a write that stops short     *)
(* leaves of it.                                                           *)
LEMMA RenderTyped ==
    ASSUME NEW c \in Configuration
    PROVE  /\ RenderConfig(c) \in Text \cup {Broken}
           /\ Beginnings(c) \subseteq Text \cup {Broken}
<1>0. /\ c.dirs \in Seq(Folder) /\ c.trim \in BOOLEAN /\ c.restart \in BOOLEAN
      /\ c.timeout \in 0 .. MaxTimeout
  BY DEF Configuration
<1>1. /\ c.dirs \in Seq(Folder \cup {Mistyped}) /\ c.trim \in BOOLEAN /\ c.restart \in BOOLEAN
      /\ c.timeout \in Nat
  <2>1. c.timeout \in Nat
    <3>1. 0 .. MaxTimeout \subseteq Nat
      BY DEF MaxTimeout
    <3> QED
      BY <1>0, <3>1
  <2>2. c.dirs \in Seq(Folder \cup {Mistyped})
    BY <1>0
  <2> QED
    BY <1>0, <2>1, <2>2
<1>2. Empty \in Text
  BY DEF Empty, Text, Odd
<1>3. RenderConfig(c) \in Text \cup {Broken}
  BY <1>1 DEF RenderConfig, Text
<1>4. [Empty EXCEPT !.dirs = c.dirs] \in Text /\ [Empty EXCEPT !.dirs = c.dirs, !.trim = c.trim] \in Text
  BY <1>1 DEF Empty, Text, Odd
<1>5. {Missing} \cup Leading(c.timeout) \subseteq Odd \cup Nat
  BY <1>1 DEF Leading, Odd
<1>6. ASSUME NEW n \in Odd \cup Nat, RenderConfig(c) # Broken
      PROVE  [RenderConfig(c) EXCEPT !.timeout = n] \in Text
  BY <1>3, <1>6 DEF Text
<1> QED
  BY <1>2, <1>3, <1>4, <1>5, <1>6 DEF Beginnings

(* A setting is replaced by what its words mean, and no other one is       *)
(* (set_config_value()).                                                   *)
LEMMA SetReplaces ==
    ASSUME NEW c \in Configuration, NEW j \in Job, j.action = "set",
           SetConfigValue(c, j.key, j.value) # Refused
    PROVE  /\ SetConfigValue(c, j.key, j.value) \in Configuration
           /\ j.key \in Key
           /\ \A k \in Key : SetConfigValue(c, j.key, j.value)[k] =
                               IF k = j.key THEN ParseValue(k, j.value) ELSE c[k]
<1> DEFINE v == ParseValue(j.key, j.value)
<1>1. v # Refused /\ SetConfigValue(c, j.key, j.value) = [c EXCEPT ![j.key] = v]
  BY DEF SetConfigValue
<1>2. j.key \in Key
  BY <1>1 DEF ParseValue, Key
<1>3. CASE j.key = "dirs"
  <2>1. v \in Seq(Folder)
    <3>1. j.value \in Seq(ToSet(j.value))
      BY <1>3, ConfigAssumption
    <3> QED
      BY <1>3, <3>1, FoldersAreKept DEF ParseValue, SplitDirs
  <2> HIDE DEF v
  <2> QED
    BY <1>1, <1>2, <1>3, <2>1 DEF Configuration, Key, v
<1>4. CASE j.key \in {"trim", "restart"}
  <2>1. v \in BOOLEAN
    BY <1>1, <1>4 DEF ParseValue, ParseBool
  <2> HIDE DEF v
  <2> QED
    BY <1>1, <1>2, <1>4, <2>1 DEF Configuration, Key, v
<1>5. CASE j.key = "timeout"
  <2>1. v \in 0 .. MaxTimeout
    BY <1>1, <1>5 DEF ParseValue, ParseSeconds
  <2> HIDE DEF v
  <2> QED
    BY <1>1, <1>2, <1>5, <2>1 DEF Configuration, Key, v
<1> QED
  BY <1>2, <1>3, <1>4, <1>5 DEF Key

(* What is rendered reads back as it was, when no directory's name has a   *)
(* control character in it (render_config(), parse_config()).              *)
LEMMA RoundTrip ==
    ASSUME NEW c \in Configuration, Unprintable = {}
    PROVE  ParseConfig(RenderConfig(c)) = c
<1> DEFINE text == RenderConfig(c)
<1>0. /\ c.dirs \in Seq(Folder) /\ c.trim \in BOOLEAN /\ c.restart \in BOOLEAN
      /\ c.timeout \in 0 .. MaxTimeout
      /\ c = [dirs |-> c.dirs, trim |-> c.trim, restart |-> c.restart, timeout |-> c.timeout]
  BY DEF Configuration
<1>1. /\ c.dirs \in Seq(Folder) /\ c.trim \in BOOLEAN /\ c.restart \in BOOLEAN
      /\ c.timeout \in Nat /\ ~(c.timeout > MaxTimeout)
  <2>1. \A n \in 0 .. MaxTimeout : n \in Nat /\ ~(n > MaxTimeout)
    BY DEF MaxTimeout
  <2> QED
    BY <1>0, <2>1
<1>2. /\ text.dirs = c.dirs /\ text.trim = c.trim /\ text.restart = c.restart
      /\ text.timeout = c.timeout /\ text # Broken
  <2>1. text = [dirs |-> c.dirs, trim |-> c.trim, restart |-> c.restart,
                timeout |-> c.timeout, more |-> FALSE]
    BY DEF RenderConfig
  <2>2. text \in Text
    <3>1. c.dirs \in Seq(Folder \cup {Mistyped})
      BY <1>1
    <3> QED
      BY <1>1, <2>1, <3>1 DEF Text
  <2>3. text # Broken
    <3> HIDE DEF text
    <3> QED
      BY <2>2, ConfigAssumption
  <2> QED
    BY <2>1, <2>3
<1> HIDE DEF text
<1>3. ReadDirs(text.dirs) = c.dirs
  BY <1>1, <1>2, FoldersAreKept, ConfigAssumption DEF ReadDirs
<1>4. /\ ReadInto(text.trim, Defaults.trim) = c.trim
      /\ ReadInto(text.restart, Defaults.restart) = c.restart
      /\ ReadInto(text.timeout, Defaults.timeout) = c.timeout
  BY <1>1, <1>2, ConfigAssumption DEF ReadInto, Odd
<1>5. Refused \notin {c.trim, c.restart, c.timeout}
  BY <1>1, ConfigAssumption
<1>6. ParseConfig(text) = [dirs |-> c.dirs, trim |-> c.trim, restart |-> c.restart,
                           timeout |-> c.timeout]
  BY <1>1, <1>2, <1>3, <1>4, <1>5 DEF ParseConfig
<1> QED
  BY <1>0, <1>6 DEF text

----------------------------------------------------------------------------
(* p died, or reported an error, and may have left the file as it was      *)
(* between being emptied and being filled.                                 *)
GaveUp(p) == pc[p] = "killed" \/ outcome[p] \in {"error", "partial"}

(* There is a text to read while one is read, a configuration to work on   *)
(* once it has been loaded, and one to write when it is written.           *)
InHand ==
    \A p \in Process :
        /\ pc[p] = "read" => opened[p] = "read" /\ file # Absent
        /\ pc[p] = "run" => loaded[p] # Refused
        /\ pc[p] \in {"save", "create", "write"} => config[p] # Refused

(* A process has an outcome only once it has ended.                        *)
OutcomesAreFinal == \A p \in Process : outcome[p] # "none" => pc[p] = "ended"

(* Readers share the file; a writer has it alone.                          *)
WritersAreAlone ==
    \A p, q \in Process : p # q /\ pc[p] = "write" => pc[q] \notin {"read", "write"}

(* A text nobody wrote to its end is the empty one of a process that is    *)
(* about to write, or somebody gave up.                                    *)
NobodysIsExcused ==
    author = Nobody =>
        \/ file = Empty /\ \E p \in Process : pc[p] = "write"
        \/ \E p \in Process : GaveUp(p)

IInv ==
    /\ TypeOK
    /\ InHand
    /\ OutcomesAreFinal
    /\ WritersAreAlone
    /\ NobodysIsExcused
    /\ UsedIsWhole

(* A process that has ended or died takes no step, and the steps of one    *)
(* are about its own state.                                                *)
OwnStep(p) ==
    /\ pc[p] \notin {"ended", "killed"}
    /\ edits' = edits /\ job' = job
    /\ \A q \in Process \ {p} :
          /\ pc'[q] = pc[q] /\ outcome'[q] = outcome[q] /\ opened'[q] = opened[q]
          /\ loaded'[q] = loaded[q] /\ source'[q] = source[q]

(* Nothing has been loaded and the file is the user's.                     *)
LEMMA InitIInv == Init => IInv
<1>1. Init => TypeOK
  BY ConfigAssumption DEF Init, TypeOK
<1> QED
  BY <1>1, ConfigAssumption DEF Init, IInv, InHand, OutcomesAreFinal, WritersAreAlone,
     NobodysIsExcused, UsedIsWhole, GaveUp

(* Each handler works on its own process, and on none that is over.        *)
LEMMA StepsAreOwn ==
    ASSUME TypeOK, NEW p \in Process, Step(p) \/ EditorCloses(p) \/ Killed(p)
    PROVE  OwnStep(p)
<1> USE DEF TypeOK, Goto, End, Loaded, OwnStep
<1>1. CASE LookForFile(p)
  BY <1>1 DEF LookForFile
<1>2. CASE OpenForReading(p)
  BY <1>2 DEF OpenForReading
<1>3. CASE ReadTextFile(p)
  BY <1>3 DEF ReadTextFile
<1>4. CASE RunGet(p) \/ RunShow(p) \/ RunSet(p) \/ RunEdit(p)
  BY <1>4 DEF RunGet, RunShow, RunSet, RunEdit
<1>5. CASE CreateDirectories(p) \/ CreateFile(p)
  BY <1>5 DEF CreateDirectories, CreateFile
<1>6. CASE WriteTextFile(p)
  BY <1>6 DEF WriteTextFile, AfterSave
<1>7. CASE LaunchEditor(p) \/ EditorCloses(p) \/ Killed(p)
  BY <1>7 DEF LaunchEditor, EditorCloses, Killed
<1> QED
  BY <1>1, <1>2, <1>3, <1>4, <1>5, <1>6, <1>7 DEF Step

(* Nothing writes the file or takes it away while it is open for reading.  *)
LEMMA FileStays ==
    ASSUME TypeOK, InHand, WritersAreAlone, [Next]_vars, NEW q \in Process, pc[q] = "read", pc'[q] = "read"
    PROVE  file' = file /\ opened'[q] = opened[q]
<1>0. opened[q] = "read" /\ pc \in [Process -> {"exists", "open", "read", "run", "editing", "save",
                              "create", "write", "launch", "ended", "killed"}]
      /\ opened \in [Process -> {"no", "read", "write"}]
  BY DEF InHand, TypeOK
<1> USE DEF Goto, End, Loaded
<1>1. CASE UserSaves
  BY <1>0, <1>1 DEF UserSaves
<1>2. ASSUME NEW p \in Process, CreateFile(p) \/ WriteTextFile(p)
      PROVE  file' = file /\ opened'[q] = opened[q]
  BY <1>0, <1>2 DEF CreateFile, WriteTextFile, MayWrite, WritersAreAlone
<1>3. ASSUME NEW p \in Process, LookForFile(p) \/ OpenForReading(p) \/ ReadTextFile(p)
      PROVE  file' = file /\ opened'[q] = opened[q]
  BY <1>0, <1>3 DEF LookForFile, OpenForReading, ReadTextFile
<1>4. ASSUME NEW p \in Process, \/ RunGet(p) \/ RunShow(p) \/ RunSet(p) \/ RunEdit(p)
                              \/ CreateDirectories(p) \/ LaunchEditor(p) \/ EditorCloses(p) \/ Killed(p)
      PROVE  file' = file /\ opened'[q] = opened[q]
  BY <1>0, <1>4 DEF RunGet, RunShow, RunSet, RunEdit, CreateDirectories, LaunchEditor, EditorCloses, Killed
<1>5. CASE UNCHANGED vars
  BY <1>5 DEF vars
<1> QED
  BY <1>1, <1>2, <1>3, <1>4, <1>5 DEF Next, Step

(* What the command is at, with the configuration in its hands.            *)
Hands(p) ==
    /\ loaded' \in [Process -> Configuration \cup {Refused}]
    /\ config' \in [Process -> Configuration \cup {Refused}]
    /\ file' \in Text \cup {Broken, Absent}
    /\ \A q \in Process \ {p} : loaded'[q] = loaded[q] /\ config'[q] = config[q]
    /\ pc'[p] = "run" => loaded'[p] # Refused
    /\ pc'[p] \in {"save", "create", "write"} => config'[p] # Refused
    /\ pc'[p] = "read" => opened'[p] = "read" /\ file' # Absent

(* A command goes on only with what it could load, parse and set.          *)
LEMMA HandsStep ==
    ASSUME TypeOK, InHand, NEW p \in Process, Step(p) \/ EditorCloses(p) \/ Killed(p)
    PROVE  Hands(p)
<1>0. /\ loaded \in [Process -> Configuration \cup {Refused}]
      /\ config \in [Process -> Configuration \cup {Refused}]
      /\ file \in Text \cup {Broken, Absent}
      /\ pc \in [Process -> {"exists", "open", "read", "run", "editing", "save", "create",
                            "write", "launch", "ended", "killed"}]
      /\ opened \in [Process -> {"no", "read", "write"}]
      /\ job \in [Process -> Job]
  BY DEF TypeOK
<1>1. Defaults \in Configuration
  <2>1. 90 \in 0 .. MaxTimeout /\ <<>> \in Seq(Folder)
    BY DEF MaxTimeout
  <2> QED
    BY <2>1 DEF Defaults, Configuration
<1>2. Empty \in Text
  BY DEF Empty, Text, Odd
<1>3. ASSUME NEW c \in Configuration \cup {Refused}, NEW who, Loaded(p, c, who),
             UNCHANGED <<config, file>>
      PROVE  Hands(p)
  <2>1. pc' = [pc EXCEPT ![p] = pc'[p]] /\ pc'[p] \in {"exists", "ended", "run"}
        /\ (pc'[p] = "run" => c # Refused)
    BY <1>0, <1>3 DEF Loaded, Goto, End
  <2>2. loaded' = [loaded EXCEPT ![p] = c]
    BY <1>3 DEF Loaded
  <2> QED
    BY <1>0, <1>3, <2>1, <2>2 DEF Hands
<1>4. CASE LookForFile(p)
  <2>1. CASE Loaded(p, Defaults, author)
    BY <1>1, <1>3, <1>4, <2>1 DEF LookForFile
  <2>2. CASE Loaded(p, Refused, Nobody)
    BY <1>3, <1>4, <2>2 DEF LookForFile
  <2>3. CASE (Goto(p, "open") \/ End(p, "ok", Refused)) /\ UNCHANGED loaded
    BY <1>0, <1>4, <2>3 DEF LookForFile, Goto, End, Hands
  <2> QED
    BY <1>4, <2>1, <2>2, <2>3 DEF LookForFile
<1>5. CASE OpenForReading(p)
  <2>1. CASE Loaded(p, Refused, Nobody)
    BY <1>3, <1>5, <2>1 DEF OpenForReading
  <2>2. CASE /\ file # Absent /\ opened' = [opened EXCEPT ![p] = "read"] /\ Goto(p, "read")
             /\ UNCHANGED loaded
    BY <1>0, <1>5, <2>2 DEF OpenForReading, Goto, Hands
  <2> QED
    BY <1>5, <2>1, <2>2 DEF OpenForReading
<1>6. CASE ReadTextFile(p)
  <2>1. file \in Text \cup {Broken}
    BY <1>0, <1>6 DEF ReadTextFile, InHand
  <2>2. ParseConfig(file) \in Configuration \cup {Refused}
    BY <2>1, ParseTyped
  <2> QED
    BY <1>3, <1>6, <2>2 DEF ReadTextFile
<1>7. CASE RunGet(p) \/ RunShow(p)
  <2>1. pc' = [pc EXCEPT ![p] = "ended"] /\ UNCHANGED <<loaded, config, file>>
    BY <1>7 DEF RunGet, RunShow, End
  <2> QED
    BY <1>0, <2>1 DEF Hands
<1>8. CASE RunSet(p)
  <2> DEFINE c == SetConfigValue(loaded[p], job[p].key, job[p].value)
  <2>1. loaded[p] \in Configuration /\ job[p] \in Job /\ job[p].action = "set"
    BY <1>0, <1>8 DEF RunSet, InHand
  <2>2. c \in Configuration \cup {Refused}
    BY <2>1, SetReplaces
  <2>3. /\ config' = [config EXCEPT ![p] = c] /\ UNCHANGED <<loaded, file>>
        /\ \/ pc' = [pc EXCEPT ![p] = "ended"]
           \/ pc' = [pc EXCEPT ![p] = "save"] /\ c # Refused
    BY <1>8 DEF RunSet, Goto, End
  <2> HIDE DEF c
  <2> QED
    BY <1>0, <2>2, <2>3 DEF Hands
<1>9. CASE RunEdit(p)
  <2>1. /\ loaded[p] # Refused /\ config' = [config EXCEPT ![p] = loaded[p]]
        /\ UNCHANGED <<loaded, file>>
        /\ \E next \in {"save", "ended", "launch"} : pc' = [pc EXCEPT ![p] = next]
    BY <1>9 DEF RunEdit, InHand, Goto, End
  <2> QED
    BY <1>0, <2>1 DEF Hands
<1>10. CASE CreateDirectories(p) \/ LaunchEditor(p) \/ EditorCloses(p) \/ Killed(p)
  <2>1. /\ UNCHANGED <<loaded, config, file>>
        /\ \/ \E next \in {"ended", "editing", "killed"} : pc' = [pc EXCEPT ![p] = next]
           \/ pc[p] = "save" /\ pc' = [pc EXCEPT ![p] = "create"]
    BY <1>10 DEF CreateDirectories, LaunchEditor, EditorCloses, Killed, Goto, End
  <2> QED
    BY <1>0, <2>1 DEF Hands, InHand
<1>11. CASE CreateFile(p)
  <2>1. /\ UNCHANGED <<loaded, config>> /\ pc[p] = "create"
        /\ \/ pc' = [pc EXCEPT ![p] = "write"] /\ file' = Empty
           \/ pc' = [pc EXCEPT ![p] = "ended"] /\ file' = file
    BY <1>11 DEF CreateFile, Goto, End
  <2> QED
    BY <1>0, <1>2, <2>1 DEF Hands, InHand
<1>12. CASE WriteTextFile(p)
  <2>1. config[p] \in Configuration
    BY <1>0, <1>12 DEF WriteTextFile, InHand
  <2>2. /\ UNCHANGED <<loaded, config>>
        /\ \E next \in {"launch", "ended"} : pc' = [pc EXCEPT ![p] = next]
        /\ file' \in {file, RenderConfig(config[p])} \cup Beginnings(config[p])
    BY <1>12 DEF WriteTextFile, AfterSave, Goto, End
  <2>3. file' \in Text \cup {Broken, Absent}
    BY <1>0, <2>1, <2>2, RenderTyped
  <2> QED
    BY <1>0, <2>2, <2>3 DEF Hands
<1> QED
  BY <1>4, <1>5, <1>6, <1>7, <1>8, <1>9, <1>10, <1>11, <1>12 DEF Step

(* Every step keeps the types, among them that the file is open for        *)
(* writing exactly between CREATE_ALWAYS and the write.                    *)
LEMMA TypeStep == IInv /\ [Next]_vars => TypeOK' /\ InHand'
<1> SUFFICES ASSUME IInv, [Next]_vars PROVE TypeOK' /\ InHand'
  OBVIOUS
<1> DEFINE Rest ==
        /\ opened \in [Process -> {"no", "read", "write"}]
        /\ pc \in [Process -> {"exists", "open", "read", "run", "editing", "save", "create",
                               "write", "launch", "ended", "killed"}]
        /\ round \in [Process -> 1 .. 2]
        /\ job \in [Process -> Job]
        /\ outcome \in [Process -> {"none", "ok", "usage", "error", "partial"}]
        /\ author \in Process \cup {User, Nobody}
        /\ source \in [Process -> Process \cup {User, Nobody}]
        /\ edits \in 0 .. UserEdits
        /\ \A p \in Process : (opened[p] = "write") = (pc[p] = "write")
<1>0. Rest
  BY DEF IInv, TypeOK
<1>1. Rest'
  <2> USE <1>0 DEF Goto, End, Loaded
  <2>1. CASE UserSaves
    BY <2>1, ConfigAssumption DEF UserSaves
  <2>2. ASSUME NEW p \in Process, LookForFile(p) PROVE Rest'
    BY <2>2 DEF LookForFile
  <2>3. ASSUME NEW p \in Process, OpenForReading(p) PROVE Rest'
    BY <2>3 DEF OpenForReading
  <2>4. ASSUME NEW p \in Process, ReadTextFile(p) PROVE Rest'
    BY <2>4 DEF ReadTextFile
  <2>5. ASSUME NEW p \in Process, RunGet(p) \/ RunShow(p) \/ RunSet(p) \/ RunEdit(p) PROVE Rest'
    BY <2>5 DEF RunGet, RunShow, RunSet, RunEdit
  <2>6. ASSUME NEW p \in Process, CreateDirectories(p) \/ CreateFile(p) PROVE Rest'
    BY <2>6 DEF CreateDirectories, CreateFile
  <2>7. ASSUME NEW p \in Process, WriteTextFile(p) PROVE Rest'
    BY <2>7 DEF WriteTextFile, AfterSave
  <2>8. ASSUME NEW p \in Process, LaunchEditor(p) \/ EditorCloses(p) \/ Killed(p) PROVE Rest'
    BY <2>8 DEF LaunchEditor, EditorCloses, Killed
  <2>9. CASE UNCHANGED vars
    BY <2>9 DEF vars
  <2> QED
    BY <2>1, <2>2, <2>3, <2>4, <2>5, <2>6, <2>7, <2>8, <2>9 DEF Next, Step
<1>2. ASSUME /\ loaded' \in [Process -> Configuration \cup {Refused}]
             /\ config' \in [Process -> Configuration \cup {Refused}]
             /\ file' \in Text \cup {Broken, Absent}
      PROVE  TypeOK'
  <2> HIDE DEF Rest
  <2>1. TypeOK' <=> /\ file' \in Text \cup {Broken, Absent}
                    /\ loaded' \in [Process -> Configuration \cup {Refused}]
                    /\ config' \in [Process -> Configuration \cup {Refused}]
                    /\ Rest'
    BY DEF TypeOK, Rest
  <2> QED
    BY <1>1, <1>2, <2>1
<1>3. CASE UserSaves
  <2>1. file' \in Text \cup {Broken, Absent} /\ UNCHANGED <<loaded, config, pc, opened>>
        /\ \A p \in Process : opened[p] = "no"
    BY <1>3, ConfigAssumption DEF UserSaves
  <2>2. InHand'
    BY <2>1 DEF IInv, InHand
  <2>3. TypeOK'
    BY <1>2, <2>1 DEF IInv, TypeOK
  <2> QED
    BY <2>2, <2>3
<1>4. ASSUME NEW p \in Process, Step(p) \/ EditorCloses(p) \/ Killed(p)
      PROVE  TypeOK' /\ InHand'
  <2>1. Hands(p)
    BY <1>4, HandsStep DEF IInv
  <2>2. TypeOK'
    BY <1>2, <2>1 DEF Hands
  <2>3. ASSUME NEW q \in Process
        PROVE  /\ pc'[q] = "read" => opened'[q] = "read" /\ file' # Absent
               /\ pc'[q] = "run" => loaded'[q] # Refused
               /\ pc'[q] \in {"save", "create", "write"} => config'[q] # Refused
    <3>1. CASE q = p
      BY <2>1, <3>1 DEF Hands
    <3>2. CASE q # p
      <4>1. pc'[q] = pc[q]
        BY <1>4, <3>2, StepsAreOwn DEF OwnStep, IInv
      <4>2. pc[q] = "read" => opened'[q] = "read" /\ file' # Absent
        BY <4>1, FileStays DEF IInv, InHand
      <4> QED
        BY <2>1, <3>2, <4>1, <4>2 DEF Hands, IInv, InHand
    <3> QED
      BY <3>1, <3>2
  <2> QED
    BY <2>2, <2>3 DEF InHand
<1>5. CASE UNCHANGED vars
  BY <1>5 DEF vars, IInv, TypeOK, InHand
<1> QED
  BY <1>3, <1>4, <1>5 DEF Next

(* An outcome is given by the step that ends the process.                  *)
LEMMA OutcomeStep == IInv /\ [Next]_vars => OutcomesAreFinal'
<1> SUFFICES ASSUME IInv, [Next]_vars PROVE OutcomesAreFinal'
  OBVIOUS
<1> USE DEF IInv, TypeOK, OutcomesAreFinal
<1>1. CASE UserSaves
  BY <1>1 DEF UserSaves
<1>2. ASSUME NEW p \in Process, Step(p) \/ EditorCloses(p) \/ Killed(p)
      PROVE  OutcomesAreFinal'
  <2>1. OwnStep(p)
    BY <1>2, StepsAreOwn
  <2>2. outcome[p] = "none"
    BY <2>1 DEF OwnStep
  <2>3. outcome'[p] # "none" => pc'[p] = "ended"
    <3> USE DEF Goto, End, Loaded
    <3>1. CASE LookForFile(p) \/ OpenForReading(p) \/ ReadTextFile(p)
      BY <2>2, <3>1 DEF LookForFile, OpenForReading, ReadTextFile
    <3>2. CASE RunGet(p) \/ RunShow(p) \/ RunSet(p) \/ RunEdit(p)
      BY <2>2, <3>2 DEF RunGet, RunShow, RunSet, RunEdit
    <3>3. CASE CreateDirectories(p) \/ CreateFile(p) \/ WriteTextFile(p)
      BY <2>2, <3>3 DEF CreateDirectories, CreateFile, WriteTextFile, AfterSave
    <3>4. CASE LaunchEditor(p) \/ EditorCloses(p) \/ Killed(p)
      BY <2>2, <3>4 DEF LaunchEditor, EditorCloses, Killed
    <3> QED
      BY <1>2, <3>1, <3>2, <3>3, <3>4 DEF Step
  <2> QED
    BY <2>1, <2>3 DEF OwnStep
<1>3. CASE UNCHANGED vars
  BY <1>3 DEF vars
<1> QED
  BY <1>1, <1>2, <1>3 DEF Next

(* The sharing modes of the two opens keep readers and a writer apart      *)
(* (read_text_file(), write_text_file()).                                  *)
LEMMA LockStep == IInv /\ [Next]_vars => WritersAreAlone'
<1> SUFFICES ASSUME IInv, [Next]_vars PROVE WritersAreAlone'
  OBVIOUS
<1> USE DEF IInv, TypeOK, WritersAreAlone
<1>1. CASE UserSaves
  BY <1>1 DEF UserSaves
<1>2. ASSUME NEW p \in Process, Step(p) \/ EditorCloses(p) \/ Killed(p)
      PROVE  WritersAreAlone'
  <2> USE DEF Goto, End, Loaded
  <2>1. OwnStep(p)
    BY <1>2, StepsAreOwn
  <2>2. CASE OpenForReading(p)
    BY <2>1, <2>2 DEF OwnStep, OpenForReading, MayRead
  <2>3. CASE CreateFile(p)
    BY <2>1, <2>3 DEF OwnStep, CreateFile, MayWrite, InHand
  <2>4. CASE ~OpenForReading(p) /\ ~CreateFile(p)
    <3>1. pc'[p] \notin {"read", "write"}
      <4>1. CASE LookForFile(p) \/ ReadTextFile(p)
        BY <4>1 DEF LookForFile, ReadTextFile
      <4>2. CASE RunGet(p) \/ RunShow(p) \/ RunSet(p) \/ RunEdit(p)
        BY <4>2 DEF RunGet, RunShow, RunSet, RunEdit
      <4>3. CASE CreateDirectories(p) \/ WriteTextFile(p)
        BY <4>3 DEF CreateDirectories, WriteTextFile, AfterSave
      <4>4. CASE LaunchEditor(p) \/ EditorCloses(p) \/ Killed(p)
        BY <4>4 DEF LaunchEditor, EditorCloses, Killed
      <4> QED
        BY <1>2, <2>4, <4>1, <4>2, <4>3, <4>4 DEF Step
    <3> QED
      BY <2>1, <3>1 DEF OwnStep
  <2> QED
    BY <2>2, <2>3, <2>4
<1>3. CASE UNCHANGED vars
  BY <1>3 DEF vars
<1> QED
  BY <1>1, <1>2, <1>3 DEF Next

(* A process that died or reported an error stays what it is.              *)
LEMMA GivenUpForGood ==
    ASSUME IInv, [Next]_vars, NEW p \in Process, GaveUp(p)
    PROVE  GaveUp(p)'
<1> USE DEF IInv, OutcomesAreFinal, GaveUp
<1>1. CASE UserSaves
  BY <1>1 DEF UserSaves
<1>2. ASSUME NEW q \in Process, Step(q) \/ EditorCloses(q) \/ Killed(q) PROVE GaveUp(p)'
  BY <1>2, StepsAreOwn DEF OwnStep
<1>3. CASE UNCHANGED vars
  BY <1>3 DEF vars
<1> QED
  BY <1>1, <1>2, <1>3 DEF Next

(* Only a process that opens the file to write it leaves a text that is    *)
(* nobody's, and only one that gives up leaves it that way.                *)
LEMMA NobodyStep == IInv /\ [Next]_vars => NobodysIsExcused'
<1> SUFFICES ASSUME IInv, [Next]_vars, author' = Nobody
             PROVE  \/ file' = Empty /\ \E p \in Process : pc'[p] = "write"
                    \/ \E p \in Process : GaveUp(p)'
  BY DEF NobodysIsExcused
<1> USE DEF IInv, TypeOK
<1>1. CASE \E p \in Process : GaveUp(p)
  BY <1>1, GivenUpForGood
<1>2. CASE ~\E p \in Process : GaveUp(p)
  <2>1. CASE UserSaves
    BY <2>1, ConfigAssumption DEF UserSaves
  <2>2. CASE UNCHANGED vars
    BY <1>2, <2>2 DEF vars, NobodysIsExcused
  <2>3. ASSUME NEW p \in Process, Step(p) \/ EditorCloses(p) \/ Killed(p)
        PROVE  \/ file' = Empty /\ \E q \in Process : pc'[q] = "write"
               \/ GaveUp(p)'
    <3> USE DEF Goto, End, Loaded
    <3>0. OwnStep(p)
      BY <2>3, StepsAreOwn
    <3>1. CASE CreateFile(p)
      BY <3>1, <1>2, <3>0 DEF CreateFile, GaveUp, NobodysIsExcused, OwnStep
    <3>2. CASE WriteTextFile(p)
      BY <3>2, ConfigAssumption DEF WriteTextFile, GaveUp
    <3>3. CASE Killed(p)
      BY <3>3 DEF Killed, GaveUp
    <3>4. CASE ~CreateFile(p) /\ ~WriteTextFile(p) /\ ~Killed(p)
      <4>1. file' = file /\ author' = author /\ pc[p] # "write"
        <5>1. CASE LookForFile(p) \/ OpenForReading(p) \/ ReadTextFile(p)
          BY <5>1 DEF LookForFile, OpenForReading, ReadTextFile
        <5>2. CASE RunGet(p) \/ RunShow(p) \/ RunSet(p) \/ RunEdit(p)
          BY <5>2 DEF RunGet, RunShow, RunSet, RunEdit
        <5>3. CASE CreateDirectories(p) \/ LaunchEditor(p) \/ EditorCloses(p)
          BY <5>3 DEF CreateDirectories, LaunchEditor, EditorCloses
        <5> QED
          BY <2>3, <3>4, <5>1, <5>2, <5>3 DEF Step
      <4>2. PICK q \in Process : pc[q] = "write" /\ file = Empty
        BY <1>2, <4>1 DEF NobodysIsExcused
      <4> QED
        BY <3>0, <4>1, <4>2 DEF OwnStep
    <3> QED
      BY <3>1, <3>2, <3>3, <3>4
  <2> QED
    BY <2>1, <2>2, <2>3 DEF Next
<1> QED
  BY <1>1, <1>2

(* A configuration comes into use by a load, and a load finds an excuse    *)
(* for a text that is nobody's: a writer would have kept the reader out.   *)
LEMMA UseStep == IInv /\ [Next]_vars => UsedIsWhole'
<1> SUFFICES ASSUME IInv, [Next]_vars,
                    NEW q \in Process, loaded'[q] # Refused, source'[q] = Nobody
             PROVE  \E p \in Process \ {q} : GaveUp(p)'
  BY DEF UsedIsWhole, GaveUp
<1> USE DEF IInv, TypeOK
<1>1. CASE loaded'[q] = loaded[q] /\ source'[q] = source[q]
  <2>1. PICK p \in Process \ {q} : GaveUp(p)
    BY <1>1 DEF UsedIsWhole, GaveUp
  <2> QED
    BY <2>1, GivenUpForGood
<1>2. CASE ~(loaded'[q] = loaded[q] /\ source'[q] = source[q])
  <2>1. Step(q) \/ EditorCloses(q) \/ Killed(q)
    <3>1. CASE UserSaves
      BY <1>2, <3>1 DEF UserSaves
    <3>2. CASE UNCHANGED vars
      BY <1>2, <3>2 DEF vars
    <3>3. ASSUME NEW p \in Process, Step(p) \/ EditorCloses(p) \/ Killed(p), p # q
          PROVE  FALSE
      BY <1>2, <3>3, StepsAreOwn DEF OwnStep
    <3> QED
      BY <3>1, <3>2, <3>3 DEF Next
  <2>2. OwnStep(q)
    BY <2>1, StepsAreOwn
  <2>3. LookForFile(q) \/ OpenForReading(q) \/ ReadTextFile(q)
    <3>1. ~(RunGet(q) \/ RunShow(q) \/ RunSet(q) \/ RunEdit(q))
      BY <1>2 DEF RunGet, RunShow, RunSet, RunEdit
    <3>2. ~(CreateDirectories(q) \/ CreateFile(q) \/ WriteTextFile(q))
      BY <1>2 DEF CreateDirectories, CreateFile, WriteTextFile
    <3>3. ~(LaunchEditor(q) \/ EditorCloses(q) \/ Killed(q))
      BY <1>2 DEF LaunchEditor, EditorCloses, Killed
    <3> QED
      BY <2>1, <3>1, <3>2, <3>3 DEF Step
  <2>4. author = Nobody /\ ((pc[q] = "exists" /\ file = Absent) \/ pc[q] = "read")
    <3> USE DEF Loaded
    <3>1. CASE LookForFile(q)
      BY <1>2, <3>1 DEF LookForFile
    <3>2. CASE OpenForReading(q)
      BY <1>2, <3>2 DEF OpenForReading
    <3>3. CASE ReadTextFile(q)
      BY <1>2, <3>3 DEF ReadTextFile
    <3> QED
      BY <2>3, <3>1, <3>2, <3>3
  <2>5. ~\E p \in Process : file = Empty /\ pc[p] = "write"
    <3>1. Empty \in Text
      BY DEF Empty, Text, Odd
    <3> QED
      BY <2>4, <3>1, ConfigAssumption DEF WritersAreAlone
  <2>6. PICK p \in Process : GaveUp(p)
    BY <2>4, <2>5 DEF NobodysIsExcused
  <2>7. p # q
    BY <2>4, <2>6 DEF GaveUp, OutcomesAreFinal
  <2> QED
    BY <2>6, <2>7, GivenUpForGood
<1> QED
  BY <1>1, <1>2

(* Every step preserves the invariant.                                     *)
LEMMA NextIInv == IInv /\ [Next]_vars => IInv'
BY TypeStep, OutcomeStep, LockStep, NobodyStep, UseStep DEF IInv

(* The model is well typed: a process holds the file for writing exactly   *)
(* while it is about to write it.                                          *)
THEOREM ConfigTypeOK == Spec => []TypeOK
<1>1. IInv => TypeOK
  BY DEF IInv
<1> QED
  BY <1>1, InitIInv, NextIInv, PTL DEF Spec

(* No command acts on a file another process is still writing, whatever    *)
(* fails: load_config() reads all of a text somebody wrote to its end, or  *)
(* somebody died or has reported an error (read_text_file(),               *)
(* write_text_file()).                                                     *)
THEOREM ConfigUsesWholeTexts == Spec => []UsedIsWhole
<1>1. IInv => UsedIsWhole
  BY DEF IInv
<1> QED
  BY <1>1, InitIInv, NextIInv, PTL DEF Spec

----------------------------------------------------------------------------
(* p has written the file to its end, or could have, and will not change   *)
(* what it wrote from.                                                     *)
Wrote(p) == pc[p] \in {"launch", "editing", "ended", "killed"} /\ config[p] # Refused

(* A text somebody wrote is what its author rendered, and who has loaded   *)
(* it was told what the parser makes of that.                              *)
TextsAreRendered ==
    /\ \A p \in Process : pc[p] = "write" => author = Nobody
    /\ \A p \in Process : author = p => Wrote(p) /\ file = RenderConfig(config[p])
    /\ \A p, q \in Process :
          source[q] = p => Wrote(p) /\ loaded[q] = ParseConfig(RenderConfig(config[p]))

(* How a command has come to what it is about to write and what it said.   *)
ComesFrom(p) ==
    /\ pc[p] \in {"launch", "editing"} => job[p].action = "edit"
    /\ pc[p] \in {"save", "create", "write"} => job[p].action \in {"set", "edit"}
    /\ (job[p].action = "set" /\ pc[p] \in {"save", "create", "write"}) \/ HasSet(p) =>
          /\ loaded[p] # Refused /\ config[p] # Refused
          /\ config[p] = SetConfigValue(loaded[p], job[p].key, job[p].value)
    /\ HasSet(p) => said[p] = GetConfigValue(config[p], job[p].key)
    /\ job[p].action = "get" /\ outcome[p] = "ok" =>
          said[p] = GetConfigValue(loaded[p], job[p].key)

CommandsComeFrom == DOMAIN said = Process /\ \A p \in Process : ComesFrom(p)

(* Nothing has been written, set or said yet.                              *)
LEMMA ReadBackStarts == Init => TextsAreRendered /\ CommandsComeFrom
BY ConfigAssumption DEF Init, TextsAreRendered, CommandsComeFrom, ComesFrom, HasSet

(* A command that has written does not go back to change its mind.         *)
LEMMA WroteForGood ==
    ASSUME IInv, [Next]_vars, NEW p \in Process, Wrote(p)
    PROVE  Wrote(p)' /\ config'[p] = config[p]
<1> USE DEF Wrote
<1>1. CASE UserSaves
  BY <1>1 DEF UserSaves
<1>2. ASSUME NEW q \in Process, Step(q) \/ EditorCloses(q) \/ Killed(q)
      PROVE  Wrote(p)' /\ config'[p] = config[p]
  <2>1. CASE q # p
    BY <1>2, <2>1, HandsStep, StepsAreOwn DEF Hands, OwnStep, IInv
  <2>2. CASE q = p
    <3>1. LaunchEditor(p) \/ EditorCloses(p) \/ Killed(p)
      BY <1>2, <2>2 DEF Step, LookForFile, OpenForReading, ReadTextFile, RunGet, RunShow, RunSet,
                        RunEdit, CreateDirectories, CreateFile, WriteTextFile
    <3> QED
      BY <3>1 DEF LaunchEditor, EditorCloses, Killed, Goto, End, IInv, TypeOK
  <2> QED
    BY <2>1, <2>2
<1>3. CASE UNCHANGED vars
  BY <1>3 DEF vars
<1> QED
  BY <1>1, <1>2, <1>3 DEF Next

(* The file changes under nobody's name but its writer's, and a load takes *)
(* the name along with the text.                                           *)
LEMMA RenderedStep == IInv /\ TextsAreRendered /\ [Next]_vars => TextsAreRendered'
<1> SUFFICES ASSUME IInv, TextsAreRendered, [Next]_vars PROVE TextsAreRendered'
  OBVIOUS
<1>0. /\ opened \in [Process -> {"no", "read", "write"}]
      /\ pc \in [Process -> {"exists", "open", "read", "run", "editing", "save", "create",
                            "write", "launch", "ended", "killed"}]
      /\ \A p \in Process : (opened[p] = "write") = (pc[p] = "write")
      /\ loaded \in [Process -> Configuration \cup {Refused}]
      /\ source \in [Process -> Process \cup {User, Nobody}]
      /\ Nobody \notin Process /\ User \notin Process
  BY ConfigAssumption DEF IInv, TypeOK
<1>1. ASSUME UNCHANGED <<file, author>>, UNCHANGED <<loaded, source>>,
             \A p \in Process : pc'[p] = "write" => pc[p] = "write"
      PROVE  TextsAreRendered'
  BY <1>1, WroteForGood DEF TextsAreRendered
<1>2. CASE UserSaves
  <2>1. UNCHANGED <<loaded, source, pc>> /\ author' = User /\ \A p \in Process : pc[p] # "write"
    BY <1>0, <1>2 DEF UserSaves
  <2> QED
    BY <1>0, <2>1, WroteForGood DEF TextsAreRendered
<1>3. ASSUME NEW p \in Process, CreateFile(p) PROVE TextsAreRendered'
  <2>1. CASE author' = Nobody /\ UNCHANGED <<loaded, source>>
    BY <1>0, <2>1, WroteForGood DEF TextsAreRendered
  <2>2. CASE End(p, "error", Refused) /\ UNCHANGED <<file, author, opened>>
    BY <1>0, <1>1, <1>3, <2>2 DEF CreateFile, End
  <2> QED
    BY <1>3, <2>1, <2>2 DEF CreateFile
<1>4. ASSUME NEW p \in Process, WriteTextFile(p) PROVE TextsAreRendered'
  <2>1. /\ pc[p] = "write" /\ author = Nobody /\ config[p] # Refused
        /\ UNCHANGED <<loaded, source, config>>
        /\ \A q \in Process : pc'[q] = "write" => pc[q] = "write" /\ q # p
    BY <1>0, <1>4 DEF WriteTextFile, AfterSave, Goto, End, TextsAreRendered, IInv, InHand
  <2>2. \A q \in Process : pc'[q] # "write"
    BY <2>1 DEF IInv, WritersAreAlone
  <2>3. CASE author' = p /\ file' = RenderConfig(config[p]) /\ AfterSave(p)
    <3>1. Wrote(p)'
      BY <1>0, <2>1, <2>3 DEF AfterSave, Goto, End, Wrote
    <3> QED
      BY <1>0, <2>1, <2>2, <2>3, <3>1, WroteForGood DEF TextsAreRendered
  <2>4. CASE author' = author
    BY <1>0, <2>1, <2>2, <2>4, WroteForGood DEF TextsAreRendered
  <2> QED
    BY <1>4, <2>3, <2>4 DEF WriteTextFile
<1>5. ASSUME NEW p \in Process, LookForFile(p) \/ OpenForReading(p) \/ ReadTextFile(p)
      PROVE  TextsAreRendered'
  <2>1. /\ UNCHANGED <<file, author, config>>
        /\ \A q \in Process : pc'[q] = "write" => pc[q] = "write"
    BY <1>0, <1>5 DEF LookForFile, OpenForReading, ReadTextFile, Loaded, Goto, End
  <2>2. \/ UNCHANGED <<loaded, source>>
        \/ Loaded(p, Refused, Nobody)
        \/ Loaded(p, Defaults, author) /\ file = Absent
        \/ Loaded(p, ParseConfig(file), author)
    BY <1>5 DEF LookForFile, OpenForReading, ReadTextFile
  <2>3. CASE UNCHANGED <<loaded, source>>
    BY <1>1, <2>1, <2>3
  <2>4. ASSUME NEW c, NEW who, Loaded(p, c, who),
               \A r \in Process : who = r => Wrote(r) /\ c = ParseConfig(RenderConfig(config[r]))
        PROVE  TextsAreRendered'
    <3>1. loaded' = [loaded EXCEPT ![p] = c] /\ source' = [source EXCEPT ![p] = who]
      BY <2>4 DEF Loaded
    <3>2. ASSUME NEW r \in Process, NEW q \in Process, source'[q] = r
          PROVE  Wrote(r)' /\ loaded'[q] = ParseConfig(RenderConfig(config'[r]))
      <4>1. Wrote(r) /\ loaded'[q] = ParseConfig(RenderConfig(config[r]))
        BY <1>0, <2>4, <3>1, <3>2 DEF TextsAreRendered
      <4> QED
        BY <4>1, WroteForGood
    <3> QED
      BY <2>1, <3>2, WroteForGood DEF TextsAreRendered
  <2>5. CASE Loaded(p, Refused, Nobody)
    BY <1>0, <2>4, <2>5
  <2>6. CASE Loaded(p, ParseConfig(file), author)
    BY <2>4, <2>6 DEF TextsAreRendered
  <2>7. CASE Loaded(p, Defaults, author) /\ file = Absent
    <3>1. \A r \in Process : author # r
      <4> SUFFICES ASSUME NEW r \in Process, author = r PROVE FALSE
        OBVIOUS
      <4>1. config[r] \in Configuration /\ RenderConfig(config[r]) = Absent
        BY <2>7 DEF TextsAreRendered, Wrote, IInv, TypeOK
      <4> QED
        BY <4>1, RenderTyped, ConfigAssumption
    <3> QED
      BY <2>4, <2>7, <3>1
  <2> QED
    BY <2>2, <2>3, <2>5, <2>6, <2>7
<1>6. ASSUME NEW p \in Process, RunGet(p) \/ RunShow(p) \/ RunSet(p) \/ RunEdit(p)
      PROVE  TextsAreRendered'
  BY <1>0, <1>1, <1>6 DEF RunGet, RunShow, RunSet, RunEdit, Goto, End
<1>7. ASSUME NEW p \in Process,
             CreateDirectories(p) \/ LaunchEditor(p) \/ EditorCloses(p) \/ Killed(p)
      PROVE  TextsAreRendered'
  BY <1>0, <1>1, <1>7 DEF CreateDirectories, LaunchEditor, EditorCloses, Killed, Goto, End
<1>8. CASE UNCHANGED vars
  BY <1>1, <1>8 DEF vars
<1> QED
  BY <1>2, <1>3, <1>4, <1>5, <1>6, <1>7, <1>8 DEF Next, Step

(* What a command writes it has set, and what it says it has loaded.       *)
LEMMA OwnComesFrom ==
    ASSUME IInv, CommandsComeFrom, NEW p \in Process, Step(p) \/ EditorCloses(p) \/ Killed(p)
    PROVE  /\ ComesFrom(p)' /\ DOMAIN said' = Process
           /\ \A q \in Process \ {p} : said'[q] = said[q]
<1>0. /\ pc \in [Process -> {"exists", "open", "read", "run", "editing", "save", "create",
                            "write", "launch", "ended", "killed"}]
      /\ config \in [Process -> Configuration \cup {Refused}]
      /\ outcome \in [Process -> {"none", "ok", "usage", "error", "partial"}]
      /\ DOMAIN said = Process /\ ComesFrom(p) /\ job' = job
      /\ outcome[p] = "none"
  BY StepsAreOwn DEF IInv, TypeOK, CommandsComeFrom, OwnStep, OutcomesAreFinal
<1>1. DOMAIN said' = Process /\ \A q \in Process \ {p} : said'[q] = said[q]
  <2> USE <1>0 DEF Goto, End, Loaded
  <2>1. CASE LookForFile(p) \/ OpenForReading(p) \/ ReadTextFile(p)
    BY <2>1 DEF LookForFile, OpenForReading, ReadTextFile
  <2>2. CASE RunGet(p) \/ RunShow(p) \/ RunSet(p) \/ RunEdit(p)
    BY <2>2 DEF RunGet, RunShow, RunSet, RunEdit
  <2>3. CASE CreateDirectories(p) \/ CreateFile(p) \/ WriteTextFile(p)
    BY <2>3 DEF CreateDirectories, CreateFile, WriteTextFile, AfterSave
  <2>4. CASE LaunchEditor(p) \/ EditorCloses(p) \/ Killed(p)
    BY <2>4 DEF LaunchEditor, EditorCloses, Killed
  <2> QED
    BY <2>1, <2>2, <2>3, <2>4 DEF Step
<1> SUFFICES ComesFrom(p)'
  BY <1>1
<1>2. ASSUME outcome'[p] # "ok", pc'[p] \notin {"launch", "editing", "save", "create", "write"}
      PROVE  ComesFrom(p)'
  BY <1>2 DEF ComesFrom, HasSet
<1>3. ASSUME outcome'[p] = "ok", job[p].action \notin {"set", "get"}, pc'[p] = "ended"
      PROVE  ComesFrom(p)'
  BY <1>0, <1>3 DEF ComesFrom, HasSet
<1>4. CASE LookForFile(p) \/ OpenForReading(p) \/ ReadTextFile(p)
  <2>1. \/ outcome'[p] # "ok" /\ pc'[p] \in {"open", "read", "exists", "run", "ended"}
        \/ outcome'[p] = "ok" /\ pc'[p] = "ended" /\ job[p].action \in {"use", "path"}
    BY <1>0, <1>4 DEF LookForFile, OpenForReading, ReadTextFile, Loaded, Goto, End, IsConfig, PrintsPath
  <2> QED
    BY <1>2, <1>3, <2>1
<1>5. CASE RunGet(p)
  <2>1. /\ pc'[p] = "ended" /\ job[p].action = "get" /\ loaded' = loaded
        /\ outcome'[p] = "ok" => said'[p] = GetConfigValue(loaded[p], job[p].key)
    BY <1>0, <1>5 DEF RunGet, End
  <2> QED
    BY <1>0, <2>1 DEF ComesFrom, HasSet
<1>6. CASE RunShow(p)
  <2>1. outcome'[p] = "ok" /\ pc'[p] = "ended" /\ job[p].action = "show"
    BY <1>0, <1>6 DEF RunShow, End
  <2> QED
    BY <1>3, <2>1
<1>7. CASE RunSet(p)
  <2> DEFINE c == SetConfigValue(loaded[p], job[p].key, job[p].value)
  <2>1. /\ job[p].action = "set" /\ loaded[p] # Refused /\ UNCHANGED loaded /\ config'[p] = c
        /\ \/ pc'[p] = "ended" /\ outcome'[p] # "ok"
           \/ pc'[p] = "ended" /\ job[p].dryRun
           \/ pc'[p] = "save" /\ outcome'[p] = "none" /\ c # Refused
    BY <1>0, <1>7 DEF RunSet, Goto, End, IInv, InHand
  <2> HIDE DEF c
  <2>2. ~HasSet(p)' /\ pc'[p] \in {"ended", "save"} /\ (pc'[p] = "save" => c # Refused)
    BY <1>0, <2>1 DEF HasSet
  <2> QED
    BY <1>0, <2>1, <2>2 DEF ComesFrom, c
<1>8. CASE RunEdit(p)
  <2>1. job[p].action = "edit"
    BY <1>8 DEF RunEdit
  <2> QED
    BY <1>0, <2>1 DEF ComesFrom, HasSet
<1>9. CASE CreateDirectories(p) \/ CreateFile(p)
  <2>1. /\ UNCHANGED <<loaded, config>> /\ pc[p] \in {"save", "create"} /\ outcome'[p] # "ok"
        /\ pc'[p] \in {"create", "write", "ended"}
    BY <1>0, <1>9 DEF CreateDirectories, CreateFile, Goto, End
  <2> QED
    BY <1>0, <2>1 DEF ComesFrom, HasSet
<1>10. CASE WriteTextFile(p)
  <2>1. UNCHANGED <<loaded, config>> /\ pc[p] = "write"
    BY <1>10 DEF WriteTextFile
  <2>2. CASE job[p].action = "set"
    <3>1. /\ pc'[p] = "ended"
          /\ outcome'[p] = "ok" => said'[p] = GetConfigValue(config[p], job[p].key)
      BY <1>0, <1>10, <2>2 DEF WriteTextFile, AfterSave, End
    <3> QED
      BY <1>0, <2>1, <2>2, <3>1 DEF ComesFrom, HasSet
  <2>3. CASE job[p].action # "set"
    <3>1. job[p].action = "edit" /\ pc'[p] \in {"ended", "launch"}
      BY <1>0, <1>10, <2>1, <2>3 DEF WriteTextFile, AfterSave, End, Goto, ComesFrom
    <3> QED
      BY <1>0, <3>1 DEF ComesFrom, HasSet
  <2> QED
    BY <2>2, <2>3
<1>11. CASE LaunchEditor(p) \/ EditorCloses(p)
  <2>1. job[p].action = "edit" /\ pc'[p] \in {"editing", "ended"}
    BY <1>0, <1>11 DEF LaunchEditor, EditorCloses, ComesFrom, Goto, End
  <2> QED
    BY <1>0, <2>1 DEF ComesFrom, HasSet
<1>12. CASE Killed(p)
  BY <1>0, <1>2, <1>12 DEF Killed, Goto
<1> QED
  BY <1>4, <1>5, <1>6, <1>7, <1>8, <1>9, <1>10, <1>11, <1>12 DEF Step

(* Nobody speaks for another process.                                      *)
LEMMA CommandsStep == IInv /\ CommandsComeFrom /\ [Next]_vars => CommandsComeFrom'
<1> SUFFICES ASSUME IInv, CommandsComeFrom, [Next]_vars PROVE CommandsComeFrom'
  OBVIOUS
<1>1. CASE UserSaves \/ UNCHANGED vars
  BY <1>1 DEF UserSaves, vars, CommandsComeFrom, ComesFrom, HasSet
<1>2. ASSUME NEW p \in Process, Step(p) \/ EditorCloses(p) \/ Killed(p)
      PROVE  CommandsComeFrom'
  <2>1. /\ ComesFrom(p)' /\ DOMAIN said' = Process
        /\ \A q \in Process \ {p} : said'[q] = said[q]
    BY <1>2, OwnComesFrom
  <2>2. ASSUME NEW q \in Process \ {p} PROVE ComesFrom(q)'
    <3>1. /\ pc'[q] = pc[q] /\ outcome'[q] = outcome[q] /\ loaded'[q] = loaded[q]
          /\ config'[q] = config[q] /\ said'[q] = said[q] /\ job' = job
      BY <1>2, <2>1, <2>2, StepsAreOwn, HandsStep DEF OwnStep, Hands, IInv
    <3> QED
      BY <3>1 DEF CommandsComeFrom, ComesFrom, HasSet
  <2> QED
    BY <2>1, <2>2 DEF CommandsComeFrom
<1> QED
  BY <1>1, <1>2 DEF Next

(* What `config set` reported is what every later command is told as long  *)
(* as nobody else has written the file, and the other settings are those   *)
(* that were loaded, provided no directory has a control character in its  *)
(* name: render_config() does not escape those, and then the file does not *)
(* parse any more.                                                         *)
THEOREM ConfigSetIsReadBack == Unprintable = {} /\ Spec => []SetIsReadBack
<1>1. ASSUME Unprintable = {}, IInv, TextsAreRendered, CommandsComeFrom
      PROVE  SetIsReadBack
  <2> SUFFICES ASSUME NEW p \in Process, NEW q \in Process, HasSet(p), source[q] = p
               PROVE  /\ loaded[q] # Refused
                      /\ said[p] = Wanted(p, job[p].key)
                      /\ \A k \in Key :
                            /\ loaded[q][k] = Wanted(p, k)
                            /\ outcome[q] = "ok" /\ job[q].action = "get" /\ job[q].key = k =>
                                  said[q] = Wanted(p, k)
    BY DEF SetIsReadBack
  <2>1. /\ loaded[p] \in Configuration /\ config[p] \in Configuration /\ job[p] \in Job
        /\ config[p] = SetConfigValue(loaded[p], job[p].key, job[p].value)
        /\ said[p] = GetConfigValue(config[p], job[p].key) /\ job[p].action = "set"
    BY <1>1 DEF CommandsComeFrom, ComesFrom, HasSet, IInv, TypeOK
  <2>2. config[p] # Refused
    BY <2>1, ConfigAssumption
  <2>3. /\ job[p].key \in Key /\ \A k \in Key : config[p][k] = Wanted(p, k)
    BY <2>1, <2>2, SetReplaces DEF Wanted
  <2>4. loaded[q] = config[p]
    BY <1>1, <2>1, RoundTrip DEF TextsAreRendered
  <2>5. ASSUME NEW k \in Key, outcome[q] = "ok", job[q].action = "get", job[q].key = k
        PROVE  said[q] = Wanted(p, k)
    BY <1>1, <2>3, <2>4, <2>5 DEF CommandsComeFrom, ComesFrom, GetConfigValue
  <2> QED
    BY <2>1, <2>2, <2>3, <2>4, <2>5 DEF GetConfigValue
<1>2. (Unprintable = {}) => (Unprintable = {})'
  OBVIOUS
<1> QED
  BY <1>1, <1>2, InitIInv, NextIInv, ReadBackStarts, RenderedStep, CommandsStep, PTL DEF Spec
=============================================================================
