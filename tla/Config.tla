------------------------------- MODULE Config -------------------------------
(***************************************************************************)
(* config.toml and the commands that read and write it: every wsldisk      *)
(* command loads it before it starts, and `wsldisk config` loads it again  *)
(* to print a setting, change one or open it in an editor.  Processes run  *)
(* at once, the user saves the file when it pleases, and a process may die *)
(* or a call fail between truncating the file and writing it.              *)
(*                                                                         *)
(* A text is what the TOML parser makes of the file: a node for each       *)
(* setting, and whether there are keys this version does not know.         *)
(***************************************************************************)
EXTENDS Integers, Sequences, SequencesExt

CONSTANTS
    Process,      \* the wsldisk processes
    Job,          \* the command lines they may be given
    UserText,     \* what the user may leave in the file, Absent included
    UserEdits,    \* how often the user saves it
    Folder,       \* directories to scan
    Unprintable,  \* those whose name has a control character in it
    Missing,      \* a setting the file does not have
    Mistyped,     \* one that is there with the wrong type
    Broken,       \* a file that is not TOML
    Absent,       \* no file
    Refused,      \* a value or a text the parsers do not take
    Nobody,       \* the author of a file that is not all there
    User,
    Fallible      \* the calls that may fail for a reason the model has no state for

Key == {"dirs", "trim", "restart", "timeout"}
MaxTimeout == 3600
Defaults == [dirs |-> <<>>, trim |-> TRUE, restart |-> FALSE, timeout |-> 90]
Empty == [dirs |-> Missing, trim |-> Missing, restart |-> Missing,
          timeout |-> Missing, more |-> FALSE]

(* What the commands work with, and what a text says of each setting: its  *)
(* value, one of the wrong type, or nothing.                               *)
Configuration == [dirs : Seq(Folder), trim : BOOLEAN, restart : BOOLEAN, timeout : 0 .. MaxTimeout]
Odd == {Missing, Mistyped}
Text == [dirs : Odd \cup Seq(Folder \cup {Mistyped}), trim : Odd \cup BOOLEAN,
         restart : Odd \cup BOOLEAN, timeout : Odd \cup Nat, more : BOOLEAN]

ASSUME ConfigAssumption ==
    /\ Fallible \subseteq {"path", "read", "directory", "create", "write", "launch"}
    /\ Unprintable \subseteq Folder
    /\ UserEdits \in Nat
    /\ Absent \in UserText /\ UserText \subseteq Text \cup {Broken, Absent}
    /\ Absent \notin Text /\ Broken \notin Text /\ Absent # Broken
    /\ \A x \in Odd \cup {Refused} : x \notin BOOLEAN \cup Nat \cup Seq(Folder) \cup Configuration
    /\ \A j \in Job : j.action = "set" /\ j.key = "dirs" => j.value \in Seq(ToSet(j.value))
    /\ {Nobody, User} \cap Process = {}
    /\ Nobody # User

MayFail(call) == call \in Fallible

VARIABLES
    file,      \* the text of config.toml, Broken or Absent
    opened,    \* how each process holds the file: "no", "read" or "write"
    pc,
    round,     \* the first load is every command's, the second is `config`'s own
    job,
    loaded,    \* what load_config() returned last
    config,    \* the configuration save() is to write
    said,      \* what the command printed
    outcome,
    author,    \* who wrote the text in the file to its end
    source,    \* the author of what each process loaded
    edits      \* how often the user has saved the file

vars == <<file, opened, pc, round, job, loaded, config, said, outcome, author, source, edits>>
----------------------------------------------------------------------------
(* Conversions.                                                            *)

(* The directories among what is given, in their order.                    *)
Folders(parts) ==
    LET places == {i \in DOMAIN parts : parts[i] \in Folder}
        nth(k) == CHOOSE i \in places : Cardinality({j \in places : j < i}) = k - 1
    IN [k \in 1 .. Cardinality(places) |-> parts[nth(k)]]

(* An array's entries that are not strings are passed over, and anything   *)
(* that is not an array is as good as nothing.                             *)
ReadDirs(node) == IF node \in Odd THEN <<>> ELSE Folders(node)

ReadInto(node, default) ==
    IF node = Missing THEN default ELSE IF node = Mistyped THEN Refused ELSE node

ParseConfig(text) ==
    LET c == [dirs    |-> ReadDirs(text.dirs),
              trim    |-> ReadInto(text.trim, Defaults.trim),
              restart |-> ReadInto(text.restart, Defaults.restart),
              timeout |-> ReadInto(text.timeout, Defaults.timeout)]
    IN IF text = Broken THEN Refused
       ELSE IF Refused \in {c.trim, c.restart, c.timeout} THEN Refused
       ELSE IF c.timeout > MaxTimeout THEN Refused
       ELSE c

\* Mutant: the two switches are written under each other's names.
RenderSwapped(c) ==
    IF ToSet(c.dirs) \cap Unprintable # {} THEN Broken
    ELSE [dirs |-> c.dirs, trim |-> c.restart, restart |-> c.trim,
          timeout |-> c.timeout, more |-> FALSE]

(* Only backslashes and quotes are escaped, so a control character makes   *)
(* the string, and with it the file, one that does not parse.              *)
RenderConfig(c) ==
    IF ToSet(c.dirs) \cap Unprintable # {} THEN Broken
    ELSE [dirs |-> c.dirs, trim |-> c.trim, restart |-> c.restart,
          timeout |-> c.timeout, more |-> FALSE]

(* What is left of a number that is cut off: its leading digits.           *)
Leading(n) == {n \div 10, n \div 100, n \div 1000} \ {0}

(* What a write that stops short leaves: the settings in the order they    *)
(* are rendered, up to some point, or text cut where it does not parse.    *)
Beginnings(c) ==
    IF RenderConfig(c) = Broken THEN {Empty, Broken}
    ELSE {Empty, Broken, RenderConfig(c),
          [Empty EXCEPT !.dirs = c.dirs], [Empty EXCEPT !.dirs = c.dirs, !.trim = c.trim]} \cup
         {[RenderConfig(c) EXCEPT !.timeout = n] : n \in {Missing} \cup Leading(c.timeout)}

(* What is typed for a setting: for the directories what stands between    *)
(* semicolons, blank or not; for the number its digits.                    *)
SplitDirs(parts) == Folders(parts)

ParseBool(word) ==
    IF word = "true" THEN TRUE ELSE IF word = "false" THEN FALSE ELSE Refused

(* The code looks at the cap after every digit, so nothing overflows; and  *)
(* as a number only grows with its digits, it refuses what is beyond the   *)
(* cap in the end.                                                         *)
ParseSeconds(digits) ==
    LET value == FoldLeft(LAMBDA n, digit : n * 10 + digit, 0, digits)
    IN IF digits # <<>> /\ ToSet(digits) \subseteq 0 .. 9 /\ value \in 0 .. MaxTimeout
       THEN value ELSE Refused

(* A value as config `set` takes it, or Refused.                           *)
ParseValue(key, value) ==
    CASE key = "dirs" -> SplitDirs(value)
      [] key \in {"trim", "restart"} -> ParseBool(value)
      [] key = "timeout" -> ParseSeconds(value)
      [] OTHER -> Refused

SetConfigValue(c, key, value) ==
    LET parsed == ParseValue(key, value)
    IN IF parsed = Refused THEN Refused ELSE [c EXCEPT ![key] = parsed]

GetConfigValue(c, key) == IF key \in Key THEN c[key] ELSE Refused
----------------------------------------------------------------------------
IsConfig(p) == job[p].action # "use"

(* Whoever opens the file while it is read can read it too and not write   *)
(* it; while it is written nobody else can open it.                        *)
\* Mutant: a reader that does not mind a writer.
MayReadAnyway(p) == TRUE

MayRead(p) == \A q \in Process \ {p} : opened[q] # "write"
MayWrite(p) == \A q \in Process \ {p} : opened[q] = "no"

TypeOK ==
    /\ file \in Text \cup {Broken, Absent}
    /\ loaded \in [Process -> Configuration \cup {Refused}]
    /\ config \in [Process -> Configuration \cup {Refused}]
    /\ opened \in [Process -> {"no", "read", "write"}]
    /\ pc \in [Process -> {"exists", "open", "read", "run", "editing", "save", "create",
                           "write", "launch", "ended", "killed"}]
    /\ round \in [Process -> 1 .. 2]
    /\ job \in [Process -> Job]
    /\ outcome \in [Process -> {"none", "ok", "usage", "error", "partial"}]
    /\ author \in Process \cup {User, Nobody}
    /\ source \in [Process -> Process \cup {User, Nobody}]
    /\ edits \in 0 .. UserEdits
    /\ \A p \in Process : (opened[p] = "write") = (pc[p] = "write")

Init ==
    /\ file \in UserText
    /\ opened = [p \in Process |-> "no"]
    /\ pc = [p \in Process |-> "exists"]
    /\ round = [p \in Process |-> 1]
    /\ job \in [Process -> Job]
    /\ loaded = [p \in Process |-> Refused]
    /\ config = [p \in Process |-> Refused]
    /\ said = [p \in Process |-> Refused]
    /\ outcome = [p \in Process |-> "none"]
    /\ author = User
    /\ source = [p \in Process |-> User]
    /\ edits = 0
----------------------------------------------------------------------------
Goto(p, next) ==
    /\ pc' = [pc EXCEPT ![p] = next]
    /\ UNCHANGED <<said, outcome>>

End(p, code, text) ==
    /\ pc' = [pc EXCEPT ![p] = "ended"]
    /\ outcome' = [outcome EXCEPT ![p] = code]
    /\ said' = [said EXCEPT ![p] = text]

(* What follows a load.  load_configuration() falls back on the defaults   *)
(* and says so; run_config() gives up.                                     *)
Loaded(p, c, who) ==
    /\ loaded' = [loaded EXCEPT ![p] = c]
    /\ source' = [source EXCEPT ![p] = who]
    /\ IF round[p] = 1 /\ IsConfig(p)
       THEN Goto(p, "exists") /\ round' = [round EXCEPT ![p] = 2]
       ELSE /\ UNCHANGED round
            /\ IF ~IsConfig(p) THEN End(p, "ok", IF c = Refused THEN Defaults ELSE c)
               ELSE IF c = Refused THEN End(p, "error", Refused)
               ELSE Goto(p, "run")

(* `config path` prints where the file would be and does not look.         *)
PrintsPath(p) == round[p] = 2 /\ job[p].action = "path"

(* config_path(), which %APPDATA% may fail, and whether there is a file.   *)
LookForFile(p) ==
    /\ pc[p] = "exists"
    /\ \/ MayFail("path") /\ Loaded(p, Refused, Nobody)
       \/ ~PrintsPath(p) /\ file = Absent /\ Loaded(p, Defaults, author)
       \/ /\ IF PrintsPath(p) THEN End(p, "ok", Refused) ELSE file # Absent /\ Goto(p, "open")
          /\ UNCHANGED <<loaded, source, round>>
    /\ UNCHANGED <<file, opened, job, config, author, edits>>

OpenForReading(p) ==
    /\ pc[p] = "open"
    /\ \/ /\ file # Absent /\ MayRead(p)
          /\ opened' = [opened EXCEPT ![p] = "read"]
          /\ Goto(p, "read")
          /\ UNCHANGED <<loaded, source, round>>
       \/ /\ file = Absent \/ ~MayRead(p) \/ MayFail("read")
          /\ Loaded(p, Refused, Nobody)
          /\ UNCHANGED opened
    /\ UNCHANGED <<file, job, config, author, edits>>

(* Nothing can write the file while it is open for reading, so its pieces  *)
(* are read in one step.                                                   *)
ReadTextFile(p) ==
    /\ pc[p] = "read"
    /\ opened' = [opened EXCEPT ![p] = "no"]
    /\ \/ Loaded(p, ParseConfig(file), author)
       \/ MayFail("read") /\ Loaded(p, Refused, Nobody)
    /\ UNCHANGED <<file, job, config, author, edits>>

RunGet(p) ==
    /\ pc[p] = "run"
    /\ job[p].action = "get"
    /\ LET value == GetConfigValue(loaded[p], job[p].key)
       IN IF value = Refused THEN End(p, "usage", Refused) ELSE End(p, "ok", value)
    /\ UNCHANGED <<file, opened, round, job, loaded, config, author, source, edits>>

(* `config` with no verb prints everything.                                *)
RunShow(p) ==
    /\ pc[p] = "run"
    /\ job[p].action = "show"
    /\ End(p, "ok", loaded[p])
    /\ UNCHANGED <<file, opened, round, job, loaded, config, author, source, edits>>

RunSet(p) ==
    /\ pc[p] = "run"
    /\ job[p].action = "set"
    /\ LET c == SetConfigValue(loaded[p], job[p].key, job[p].value)
       IN /\ config' = [config EXCEPT ![p] = c]
          /\ IF c = Refused THEN End(p, "usage", Refused)
             ELSE IF job[p].dryRun THEN End(p, "ok", GetConfigValue(c, job[p].key))
             ELSE Goto(p, "save")
    /\ UNCHANGED <<file, opened, round, job, loaded, author, source, edits>>

AfterSave(p) ==
    IF job[p].action = "set" THEN End(p, "ok", GetConfigValue(config[p], job[p].key))
    ELSE IF job[p].dryRun THEN End(p, "ok", Refused)
    ELSE Goto(p, "launch")

(* The file is written first when it is not there, and only then is it     *)
(* asked whether this is a dry run.                                        *)
RunEdit(p) ==
    /\ pc[p] = "run"
    /\ job[p].action = "edit"
    /\ config' = [config EXCEPT ![p] = loaded[p]]
    /\ IF file = Absent THEN Goto(p, "save")
       ELSE IF job[p].dryRun THEN End(p, "ok", Refused)
       ELSE Goto(p, "launch")
    /\ UNCHANGED <<file, opened, round, job, loaded, author, source, edits>>

CreateDirectories(p) ==
    /\ pc[p] = "save"
    /\ \/ Goto(p, "create")
       \/ MayFail("directory") /\ End(p, "error", Refused)
    /\ UNCHANGED <<file, opened, round, job, loaded, config, author, source, edits>>

\* Mutant: opening the file goes on although another process holds it.
CreateShared(p) ==
    /\ pc[p] = "create"
    /\ opened' = [opened EXCEPT ![p] = "no"]
    /\ file' = Empty
    /\ author' = Nobody
    /\ Goto(p, "write")
    /\ UNCHANGED <<round, job, loaded, config, source, edits>>

(* CREATE_ALWAYS: opening the file empties it.                             *)
CreateFile(p) ==
    /\ pc[p] = "create"
    /\ \/ /\ MayWrite(p)
          /\ file' = Empty
          /\ author' = Nobody
          /\ opened' = [opened EXCEPT ![p] = "write"]
          /\ Goto(p, "write")
       \/ /\ ~MayWrite(p) \/ MayFail("create")
          /\ End(p, "error", Refused)
          /\ UNCHANGED <<file, author, opened>>
    /\ UNCHANGED <<round, job, loaded, config, source, edits>>

WriteTextFile(p) ==
    /\ pc[p] = "write"
    /\ opened' = [opened EXCEPT ![p] = "no"]
    /\ \/ /\ file' = RenderConfig(config[p])
          /\ author' = p
          /\ AfterSave(p)
       \/ /\ MayFail("write")
          /\ End(p, "error", Refused)
          /\ UNCHANGED <<file, author>>
       \/ /\ MayFail("write")
          /\ file' \in Beginnings(config[p])
          /\ End(p, "partial", Refused)
          /\ UNCHANGED author
    /\ UNCHANGED <<round, job, loaded, config, source, edits>>

LaunchEditor(p) ==
    /\ pc[p] = "launch"
    /\ \/ Goto(p, "editing")
       \/ MayFail("launch") /\ End(p, "error", Refused)
    /\ UNCHANGED <<file, opened, round, job, loaded, config, author, source, edits>>

EditorCloses(p) ==
    /\ pc[p] = "editing"
    /\ End(p, "ok", Refused) \/ (MayFail("launch") /\ End(p, "error", Refused))
    /\ UNCHANGED <<file, opened, round, job, loaded, config, author, source, edits>>

Killed(p) ==
    /\ pc[p] \notin {"ended", "killed"}
    /\ Goto(p, "killed")
    /\ opened' = [opened EXCEPT ![p] = "no"]
    /\ UNCHANGED <<file, round, job, loaded, config, author, source, edits>>

(* The user saves the file or deletes it, in an editor opened by `config   *)
(* edit` or otherwise.                                                     *)
UserSaves ==
    /\ edits < UserEdits
    /\ \A p \in Process : opened[p] = "no"
    /\ file' \in UserText
    /\ author' = User
    /\ edits' = edits + 1
    /\ UNCHANGED <<opened, pc, round, job, loaded, config, said, outcome, source>>

Step(p) ==
    \/ LookForFile(p) \/ OpenForReading(p) \/ ReadTextFile(p)
    \/ RunGet(p) \/ RunShow(p) \/ RunSet(p) \/ RunEdit(p)
    \/ CreateDirectories(p) \/ CreateFile(p) \/ WriteTextFile(p) \/ LaunchEditor(p)

Next ==
    \/ \E p \in Process : Step(p) \/ EditorCloses(p) \/ Killed(p)
    \/ UserSaves

Spec == Init /\ [][Next]_vars

----------------------------------------------------------------------------
HasSet(p) == job[p].action = "set" /\ ~job[p].dryRun /\ outcome[p] = "ok"

(* What p's `set` was to leave: what it had loaded with one setting        *)
(* replaced by what the words on its command line mean.                    *)
Wanted(p, k) ==
    IF k = job[p].key THEN ParseValue(k, job[p].value) ELSE loaded[p][k]

(* What `set` reported is what every later command is told, as long as     *)
(* nobody else has written the file: the value survives rendering, parsing *)
(* and a reader in another process, and the other settings are those that  *)
(* were loaded (run_set(), render_config(), parse_config()).               *)
SetIsReadBack ==
    \A p, q \in Process : p # q /\ HasSet(p) /\ source[q] = p =>
        /\ loaded[q] # Refused
        /\ said[p] = Wanted(p, job[p].key)
        /\ \A k \in Key :
              /\ loaded[q][k] = Wanted(p, k)
              /\ outcome[q] = "ok" /\ job[q].action = "get" /\ job[q].key = k =>
                    said[q] = Wanted(p, k)

(* Nobody acts on a file while it is being written: a configuration comes  *)
(* from a text somebody wrote to its end, unless a process has died or     *)
(* reported an error between emptying the file and filling it.             *)
UsedIsWhole ==
    \A q \in Process : loaded[q] # Refused /\ source[q] = Nobody =>
        \E p \in Process \ {q} : pc[p] = "killed" \/ outcome[p] \in {"error", "partial"}

(* options.cpp:13: --dry-run shows what would happen and changes nothing.  *)
(* The code does not keep this (README, section 6).                        *)
DryRunsChangeNothing ==
    [][\A p \in Process : job[p].dryRun /\ pc'[p] # pc[p] => file' = file]_vars
=============================================================================
