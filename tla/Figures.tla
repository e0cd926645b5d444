------------------------------ MODULE Figures ------------------------------
(***************************************************************************)
(* The numbers wsldisk prints and the ones it reads out of what guest      *)
(* programs print.  Kilo, Word and Precision stand for 1024, 64 bits' last *)
(* value and nine digits, so that TLC can come near them.                  *)
(***************************************************************************)
EXTENDS Integers, Sequences, SequencesExt

CONSTANTS
    Kilo,        \* how many of a unit make the next larger one
    Word,        \* the largest unsigned integer
    Precision,   \* how many digits of a fraction are looked at
    Multiplier,  \* the bytes in each unit
    Unknown,     \* no figure, or a word that is none
    Bytes        \* the word `bytes` in what fstrim prints

Unit == {"B", "KiB", "MiB", "GiB", "TiB", "PiB"}

ASSUME FiguresAssumption ==
    /\ Kilo \in Nat /\ Kilo > 1
    /\ Word \in Nat
    /\ Precision \in Nat \ {0}
    /\ Multiplier \in [Unit -> Nat \ {0}]
    /\ Multiplier["B"] = 1
    /\ Multiplier["KiB"] = Kilo
    /\ Multiplier["MiB"] = Kilo * Multiplier["KiB"]
    /\ Multiplier["GiB"] = Kilo * Multiplier["MiB"]
    /\ Multiplier["TiB"] = Kilo * Multiplier["GiB"]
    /\ Multiplier["PiB"] = Kilo * Multiplier["TiB"]
    /\ \A u \in Unit : (Word + 1) % Multiplier[u] = 0
    /\ Unknown \notin Int

(* What is printed of a size below a kibibyte has no fraction.             *)
NoTenths == 10

(* Mutant: rounds to the nearest tenth.                                    *)
TenthsRounded(bytes, unit) == ((bytes % unit) * 10 + unit \div 2) \div unit

Tenths(bytes, unit) == ((bytes % unit) * 10) \div unit

LargestUnit(bytes) ==
    IF bytes >= Multiplier["PiB"] THEN "PiB"
    ELSE IF bytes >= Multiplier["TiB"] THEN "TiB"
    ELSE IF bytes >= Multiplier["GiB"] THEN "GiB"
    ELSE IF bytes >= Multiplier["MiB"] THEN "MiB"
    ELSE "KiB"

FormatSize(bytes) ==
    IF bytes < Kilo THEN [whole |-> bytes, tenths |-> NoTenths, unit |-> "B"]
    ELSE LET unit == LargestUnit(bytes)
         IN [whole |-> bytes \div Multiplier[unit],
             tenths |-> Tenths(bytes, Multiplier[unit]),
             unit |-> unit]

(* A fraction as a ratio, the digits past Precision dropped.               *)
Numerator(digits) == FoldLeft(LAMBDA n, digit : n * 10 + digit, 0, digits)
Denominator(digits) == FoldLeft(LAMBDA n, digit : n * 10, 1, digits)

(* floor(numerator * multiplier / denominator), each product within Word.  *)
ScaleFraction(numerator, denominator, multiplier) ==
    numerator * (multiplier \div denominator)
        + (numerator * (multiplier % denominator)) \div denominator

(* A whole number and a fraction of a unit in bytes.                       *)
SizeOf(whole, numerator, denominator, unit) ==
    IF whole > Word \/ unit \notin Unit THEN Unknown
    ELSE IF whole * Multiplier[unit] > Word THEN Unknown
    ELSE whole * Multiplier[unit] + ScaleFraction(numerator, denominator, Multiplier[unit])

(* A size as it is typed: <whole>.<fraction><unit>, the digits after the   *)
(* point a sequence, <<>> when there is no point.                          *)
ParseSize(whole, fraction, unit) ==
    LET kept == SubSeq(fraction, 1, IF Len(fraction) < Precision THEN Len(fraction) ELSE Precision)
    IN SizeOf(whole, Numerator(kept), Denominator(kept), unit)

(* A size that was printed, typed back.                                    *)
Reread(text) ==
    IF text.tenths = NoTenths THEN SizeOf(text.whole, 0, 1, text.unit)
    ELSE SizeOf(text.whole, text.tenths, 10, text.unit)

(* A run of digits as a number that fits a word, or nothing.               *)
ToNumber(token) ==
    IF token \in 0 .. Word THEN token ELSE Unknown

(* What `df` prints: rows of columns.  A long device name is put on a row  *)
(* of its own, so the last row that is not empty is read from the right.   *)
LastRow(rows) ==
    LET filled == {i \in DOMAIN rows : rows[i] # <<>>}
    IN IF filled = {} THEN <<>> ELSE rows[CHOOSE i \in filled : \A j \in filled : j <= i]

NoUsage == [used |-> Unknown, free |-> Unknown]

(* Mutant: counts the columns from the left.                               *)
ParseDfFromLeft(rows) ==
    LET row == LastRow(rows)
    IN IF Len(row) < 5 THEN NoUsage
       ELSE [used |-> ToNumber(row[3]), free |-> ToNumber(row[4])]

ParseDf(rows) ==
    LET row == LastRow(rows)
        used == ToNumber(row[Len(row) - 3])
        free == ToNumber(row[Len(row) - 2])
    IN IF Len(row) < 5 THEN NoUsage
       ELSE IF Unknown \in {used, free} THEN NoUsage
       ELSE [used |-> used, free |-> free]

(* What is left on the volume once the guest's own count is taken off.     *)
Reclaimable(onDisk, used) ==
    IF Unknown \in {onDisk, used} THEN Unknown
    ELSE IF used >= onDisk THEN 0 ELSE onDisk - used

(* fstrim's count stands before the last `bytes` of what it printed, or it *)
(* printed none; `words` is the tokens in order.                           *)
ParseTrimmedBytes(words) ==
    LET at == {i \in DOMAIN words : words[i] = Bytes}
        last == CHOOSE i \in at : \A j \in at : j <= i
    IN IF at = {} THEN Unknown
       ELSE IF last = 1 THEN Unknown
       ELSE ToNumber(words[last - 1])

(* What is printed of a size can be typed back, and is then no more than   *)
(* the size and less than a tenth of its unit and a byte below it; it does *)
(* not reach the next larger unit.                                         *)
Honest(bytes) ==
    LET text == FormatSize(bytes)
        back == Reread(text)
    IN /\ back # Unknown
       /\ back <= bytes
       /\ (bytes - back) * 10 < Multiplier[text.unit] + 10
       /\ text.unit # "PiB" => text.whole < Kilo
=============================================================================
