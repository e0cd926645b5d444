--------------------------- MODULE ReportsProofs ---------------------------
(***************************************************************************)
(* What size.cpp's comments claim of its arithmetic, for every width of a  *)
(* word and every base of the units; and what list, info, usage and trim   *)
(* do to the guests they report on, and where their figures come from.     *)
(***************************************************************************)
EXTENDS Reports, WslProofs, FiniteSetTheorems, WellFoundedInduction

(* The quotient and the remainder make up the number: what every helper    *)
(* of size.cpp that divides rests on.                                      *)
LEMMA Division ==
    ASSUME NEW n \in Nat, NEW k \in Nat, k > 0
    PROVE  /\ n \div k \in Nat
           /\ n % k \in Nat
           /\ n % k < k
           /\ n = k * (n \div k) + (n % k)
BY SMT

(* A smaller number of units is no more bytes.                             *)
LEMMA Monotone ==
    ASSUME NEW a \in Nat, NEW b \in Nat, NEW k \in Nat, a <= b
    PROVE  k * a <= k * b
BY SMT

(* Fewer bytes than q units are less than q whole units.                   *)
LEMMA Quotient ==
    ASSUME NEW n \in Nat, NEW k \in Nat, k > 0, NEW q \in Nat, n < k * q
    PROVE  n \div k < q
<1> DEFINE d == n \div k
<1>1. d \in Nat /\ k * d <= n
  BY Division, SMT
<1>2. SUFFICES ASSUME q <= d PROVE FALSE
  BY <1>1
<1>3. k * q <= k * d
  BY <1>1, <1>2, Monotone
<1> QED
  BY <1>1, <1>3, SMT

(* The units parse_size() knows are positive numbers of bytes.             *)
LEMMA UnitsArePositive ==
    /\ Kilo \in Nat /\ Kilo > 1 /\ Word \in Nat
    /\ \A u \in Unit : Multiplier[u] \in Nat /\ Multiplier[u] > 0
BY FiguresAssumption, SMT DEF Unit

(* A fraction of a unit is scaled to the whole number of bytes below it,   *)
(* although the product of the two is never formed (scale_fraction()).     *)
LEMMA ScaledIsFloor ==
    ASSUME NEW num \in Nat, NEW den \in Nat, den > 0, NEW m \in Nat
    PROVE  LET scaled == ScaleFraction(num, den, m)
           IN scaled \in Nat /\ den * scaled <= num * m /\ num * m < den * scaled + den
<1> DEFINE q == m \div den
           r == m % den
           t == (num * r) \div den
           s == (num * r) % den
<1>1. q \in Nat /\ r \in Nat /\ m = den * q + r
  BY Division
<1>2. num * r \in Nat
  BY <1>1
<1>3. t \in Nat /\ s \in Nat /\ s < den /\ num * r = den * t + s
  BY <1>2, Division
<1> HIDE DEF q, r, t, s
<1>4. num * m = num * (den * q) + num * r
  BY <1>1
<1>5. num * (den * q) = den * (num * q)
  BY <1>1
<1>6. den * (num * q + t) = den * (num * q) + den * t
  BY <1>1, <1>3
<1>7. num * m = den * (num * q + t) + s
  BY <1>1, <1>2, <1>3, <1>4, <1>5, <1>6
<1>8. ScaleFraction(num, den, m) = num * q + t
  BY DEF ScaleFraction, q, r, t
<1>9. num * q \in Nat /\ den * (num * q + t) \in Nat
  BY <1>1, <1>3
<1> QED
  BY <1>3, <1>7, <1>8, <1>9

(* The fraction is less than a unit.                                       *)
LEMMA ScaledIsSmall ==
    ASSUME NEW num \in Nat, NEW den \in Nat, num < den, NEW m \in Nat, m > 0
    PROVE  ScaleFraction(num, den, m) \in Nat /\ ScaleFraction(num, den, m) < m
<1> DEFINE scaled == ScaleFraction(num, den, m)
<1>0. den > 0
  OBVIOUS
<1>1. scaled \in Nat /\ den * scaled <= num * m
  BY <1>0, ScaledIsFloor
<1> HIDE DEF scaled
<1>2. num * m < den * m
  BY SMT
<1>3. SUFFICES ASSUME m <= scaled PROVE FALSE
  BY <1>1 DEF scaled
<1>4. den * m <= den * scaled
  BY <1>1, <1>3, Monotone
<1>5. den * m \in Nat /\ num * m \in Nat /\ den * scaled \in Nat
  BY <1>1
<1> QED
  BY <1>1, <1>2, <1>4, <1>5

(* A whole number of units that fits a word leaves room for any fraction   *)
(* of one more: the sum parse_size() returns cannot overflow.              *)
THEOREM SizeNeverOverflows ==
    ASSUME NEW whole \in Nat, NEW num \in Nat, NEW den \in Nat, num < den, NEW unit \in Unit
    PROVE  SizeOf(whole, num, den, unit) \in 0 .. Word \cup {Unknown}
<1> DEFINE m == Multiplier[unit]
           k == (Word + 1) \div m
           scaled == ScaleFraction(num, den, m)
<1>1. m \in Nat /\ m > 0 /\ Word \in Nat
  BY UnitsArePositive
<1>2. (Word + 1) % m = 0
  BY FiguresAssumption
<1>3. k \in Nat /\ Word + 1 = m * k
  <2>1. Word + 1 \in Nat
    BY <1>1
  <2>2. k \in Nat /\ Word + 1 = m * k + ((Word + 1) % m)
    BY <1>1, <2>1, Division
  <2>3. m * k \in Nat
    BY <1>1, <2>2
  <2> QED
    BY <1>2, <2>2, <2>3
<1>4. scaled \in Nat /\ scaled < m
  BY <1>1, ScaledIsSmall
<1>5. CASE whole > Word \/ whole * m > Word
  BY <1>5 DEF SizeOf
<1>6. CASE whole <= Word /\ whole * m <= Word
  <2>1. SizeOf(whole, num, den, unit) = whole * m + scaled
    BY <1>1, <1>6 DEF SizeOf
  <2> HIDE DEF m, k, scaled
  <2>2. whole < k
    <3>1. SUFFICES ASSUME k <= whole PROVE FALSE
      BY <1>3
    <3>2. m * k <= m * whole
      BY <1>1, <1>3, <3>1, Monotone
    <3> QED
      BY <1>1, <1>3, <1>6, <3>2
  <2>3. m * (whole + 1) <= m * k
    BY <1>1, <1>3, <2>2, Monotone
  <2>4. m * (whole + 1) = whole * m + m
    BY <1>1
  <2>5. whole * m \in Nat
    BY <1>1
  <2> QED
    BY <1>1, <1>3, <1>4, <2>1, <2>3, <2>4, <2>5
<1> QED
  BY <1>1, <1>5, <1>6

(* The unit format_size() chooses is the largest that fits: less than Kilo *)
(* of it remain, except of the last one.                                   *)
LEMMA LargestUnitFits ==
    ASSUME NEW bytes \in Nat, bytes >= Kilo
    PROVE  /\ LargestUnit(bytes) \in Unit \ {"B"}
           /\ LargestUnit(bytes) # "PiB" => bytes < Multiplier[LargestUnit(bytes)] * Kilo
<1>1. /\ Kilo \in Nat
      /\ \A u \in Unit : Multiplier[u] \in Nat
      /\ {"B", "KiB", "MiB", "GiB", "TiB", "PiB"} = Unit
  BY UnitsArePositive DEF Unit
<1>2. /\ Multiplier["MiB"] = Multiplier["KiB"] * Kilo
      /\ Multiplier["GiB"] = Multiplier["MiB"] * Kilo
      /\ Multiplier["TiB"] = Multiplier["GiB"] * Kilo
      /\ Multiplier["PiB"] = Multiplier["TiB"] * Kilo
  BY <1>1, FiguresAssumption
<1>3. CASE bytes >= Multiplier["PiB"]
  BY <1>1, <1>3 DEF LargestUnit
<1>4. CASE ~(bytes >= Multiplier["PiB"]) /\ bytes >= Multiplier["TiB"]
  BY <1>1, <1>2, <1>4 DEF LargestUnit
<1>5. CASE ~(bytes >= Multiplier["TiB"]) /\ ~(bytes >= Multiplier["PiB"]) /\ bytes >= Multiplier["GiB"]
  BY <1>1, <1>2, <1>5 DEF LargestUnit
<1>6. CASE /\ ~(bytes >= Multiplier["GiB"]) /\ ~(bytes >= Multiplier["TiB"])
           /\ ~(bytes >= Multiplier["PiB"]) /\ bytes >= Multiplier["MiB"]
  BY <1>1, <1>2, <1>6 DEF LargestUnit
<1>7. CASE /\ ~(bytes >= Multiplier["MiB"]) /\ ~(bytes >= Multiplier["GiB"])
           /\ ~(bytes >= Multiplier["TiB"]) /\ ~(bytes >= Multiplier["PiB"])
  BY <1>1, <1>2, <1>7 DEF LargestUnit
<1> QED
  BY <1>3, <1>4, <1>5, <1>6, <1>7

(* Every size that fits a word is printed as one that can be typed back,   *)
(* that does not overstate it, and that is closer than a tenth of its unit *)
(* (format_size() and parse_size() together).                              *)
THEOREM PrintedSizesAreHonest == \A bytes \in 0 .. Word : Honest(bytes)
<1> SUFFICES ASSUME NEW bytes \in 0 .. Word PROVE Honest(bytes)
  OBVIOUS
<1>1. /\ bytes \in Nat /\ bytes <= Word
      /\ Kilo \in Nat /\ Kilo > 1 /\ Word \in Nat
      /\ \A u \in Unit : Multiplier[u] \in Nat /\ Multiplier[u] > 0
      /\ Multiplier["B"] = 1
      /\ Unknown \notin Int
  BY UnitsArePositive, FiguresAssumption
<1>2. CASE bytes < Kilo
  <2>1. FormatSize(bytes) = [whole |-> bytes, tenths |-> NoTenths, unit |-> "B"]
    BY <1>2 DEF FormatSize
  <2>2. ScaleFraction(0, 1, 1) = 0
    <3>1. ScaleFraction(0, 1, 1) \in Nat /\ ScaleFraction(0, 1, 1) < 1
      BY ScaledIsSmall
    <3> QED
      BY <3>1
  <2>3. SizeOf(bytes, 0, 1, "B") = bytes
    BY <1>1, <2>2 DEF SizeOf, Unit
  <2>4. Reread(FormatSize(bytes)) = bytes
    BY <2>1, <2>3 DEF Reread
  <2> QED
    BY <1>1, <1>2, <2>1, <2>4 DEF Honest
<1>3. CASE bytes >= Kilo
  <2> DEFINE unit == LargestUnit(bytes)
             m == Multiplier[unit]
             whole == bytes \div m
             rest == bytes % m
             tenths == (rest * 10) \div m
             scaled == ScaleFraction(tenths, 10, m)
  <2>1. unit \in Unit /\ unit # "B" /\ (unit # "PiB" => bytes < m * Kilo)
    BY <1>1, <1>3, LargestUnitFits
  <2>2. FormatSize(bytes) = [whole |-> whole, tenths |-> tenths, unit |-> unit]
    BY <1>1, <1>3 DEF FormatSize, Tenths
  <2>3. m \in Nat /\ m > 0
    BY <1>1, <2>1
  <2>4. whole \in Nat /\ rest \in Nat /\ rest < m /\ bytes = m * whole + rest
    BY <1>1, <2>3, Division
  <2>5. /\ tenths \in Nat
        /\ m * tenths <= rest * 10
        /\ rest * 10 < m * tenths + m
    <3>1. rest * 10 \in Nat
      BY <2>4
    <3>2. /\ tenths \in Nat /\ (rest * 10) % m \in Nat /\ (rest * 10) % m < m
          /\ rest * 10 = m * tenths + ((rest * 10) % m)
      BY <2>3, <3>1, Division
    <3> HIDE DEF tenths
    <3>3. m * tenths \in Nat
      BY <2>3, <3>2
    <3> QED
      BY <2>3, <3>1, <3>2, <3>3
  <2>6. tenths < 10
    <3>1. rest * 10 \in Nat /\ rest * 10 < m * 10
      <4> HIDE DEF m, rest
      <4> QED
        BY <2>3, <2>4
    <3> QED
      BY <2>3, <3>1, Quotient DEF tenths
  <2>7. scaled \in Nat /\ 10 * scaled <= tenths * m /\ tenths * m < 10 * scaled + 10
    <3> HIDE DEF m, tenths
    <3>1. 10 \in Nat /\ 10 > 0
      OBVIOUS
    <3> QED
      BY <2>3, <2>5, <3>1, ScaledIsFloor
  <2> HIDE DEF m, whole, rest, tenths, scaled
  <2>8. tenths * m = m * tenths /\ m * tenths \in Nat
    BY <2>3, <2>5
  <2>9. scaled <= rest /\ (rest - scaled) * 10 < m + 10
    BY <2>3, <2>4, <2>5, <2>7, <2>8
  <2>10. whole <= Word /\ whole * m <= Word
    <3>1. whole * m = m * whole /\ m * whole \in Nat /\ 1 * whole <= m * whole
      BY <2>3, <2>4
    <3> QED
      BY <1>1, <2>4, <3>1
  <2>11. Reread(FormatSize(bytes)) = whole * m + scaled
    <3>1. SizeOf(whole, tenths, 10, unit) = whole * m + scaled
      BY <2>1, <2>3, <2>4, <2>10, <1>1 DEF SizeOf, m, scaled
    <3>2. tenths # NoTenths
      BY <2>5, <2>6 DEF NoTenths
    <3> QED
      BY <2>2, <3>1, <3>2 DEF Reread
  <2>12. unit # "PiB" => whole < Kilo
    <3>1. SUFFICES ASSUME unit # "PiB" PROVE whole < Kilo
      OBVIOUS
    <3>2. bytes < m * Kilo
      BY <2>1, <3>1
    <3> QED
      BY <1>1, <2>3, <3>2, Quotient DEF whole
  <2>13. whole * m + scaled \in Nat /\ bytes - (whole * m + scaled) = rest - scaled
    BY <2>3, <2>4, <2>7
  <2>14. FormatSize(bytes).unit = unit /\ FormatSize(bytes).whole = whole
    BY <2>2
  <2> QED
    BY <1>1, <2>4, <2>7, <2>9, <2>11, <2>12, <2>13, <2>14 DEF Honest, m
<1> QED
  BY <1>1, <1>2, <1>3

----------------------------------------------------------------------------
(* What the library says of induction, for the least of a set of numbers.  *)
LEMMA Least ==
    ASSUME NEW S \in SUBSET Nat, S # {}
    PROVE  \E m \in S : \A k \in S : m <= k
<1> DEFINE R == {ss \in Nat \X Nat : ss[1] < ss[2]}
<1>1. IsWellFoundedOn(R, Nat)
  BY NatLessThanWellFounded DEF OpToRel
<1>2. PICK m \in S : \A k \in S : <<k, m>> \notin R
  <2> HIDE DEF R
  <2> QED
    BY <1>1, WFMin
<1>3. ASSUME NEW k \in S PROVE m <= k
  <2>1. <<k, m>> \notin R /\ k \in Nat /\ m \in Nat
    BY <1>2
  <2> QED
    BY <2>1
<1> QED
  BY <1>3

(* A set of numbers that holds 0 and with each number the next holds all.  *)
LEMMA CountedUp ==
    ASSUME NEW G, 0 \in G, \A n \in Nat : n \in G => n + 1 \in G
    PROVE  Nat \subseteq G
<1> DEFINE S == Nat \ G
<1>1. SUFFICES ASSUME S # {} PROVE FALSE
  OBVIOUS
<1>2. PICK m \in S : \A k \in S : m <= k
  BY <1>1, Least
<1>3. m \in Nat /\ m \notin G /\ m # 0
  BY <1>2
<1>4. m - 1 \in Nat /\ m - 1 + 1 = m /\ ~(m <= m - 1)
  BY <1>3
<1>5. m - 1 \in G
  BY <1>2, <1>4
<1> QED
  BY <1>3, <1>4, <1>5

(* What holds of the empty set, and of every other one as soon as it holds *)
(* of the set less any one element, holds of every finite set.             *)
LEMMA BuiltUp ==
    ASSUME NEW S, IsFiniteSet(S), NEW G, {} \in G,
           \A T \in SUBSET S : T # {} /\ (\A x \in T : T \ {x} \in G) => T \in G
    PROVE  \A T \in SUBSET S : T \in G
<1> DEFINE N == {n \in Nat : \A T \in SUBSET S : Cardinality(T) = n => T \in G}
<1>1. \A T \in SUBSET S : IsFiniteSet(T) /\ Cardinality(T) \in Nat /\ (Cardinality(T) = 0 <=> T = {})
  BY FS_Subset, FS_CardinalityType, FS_EmptySet
<1>2. 0 \in N
  BY <1>1
<1>3. ASSUME NEW n \in Nat, n \in N PROVE n + 1 \in N
  <2> SUFFICES ASSUME NEW T \in SUBSET S, Cardinality(T) = n + 1 PROVE T \in G
    OBVIOUS
  <2>1. ASSUME NEW x \in T PROVE T \ {x} \in G
    <3>1. IsFiniteSet(T)
      BY <1>1
    <3>2. Cardinality(T \ {x}) = Cardinality(T) - 1
      BY <3>1, FS_RemoveElement
    <3>3. Cardinality(T \ {x}) = n
      BY <3>2
    <3> QED
      BY <1>3, <3>3
  <2>2. T # {}
    BY <1>1
  <2> QED
    BY <2>1, <2>2
<1>4. Nat \subseteq N
  <2> HIDE DEF N
  <2> QED
    BY <1>2, <1>3, CountedUp
<1> QED
  BY <1>1, <1>4

(* What a fold over a set computes, one chosen element after the other.    *)
Folded(g, S, base, Choice, Combine) ==
    \A T \in SUBSET S : g[T] = IF T = {} THEN base
                                ELSE Combine[<<Choice[T], g[T \ {Choice[T]}]>>]

(* A fold over a finite set is well defined: there is a function that does *)
(* what the fold's equation says.                                          *)
LEMMA FoldExists ==
    ASSUME NEW S, IsFiniteSet(S), NEW V, NEW base \in V, NEW Choice, NEW Combine,
           \A T \in SUBSET S : T # {} => Choice[T] \in T,
           \A x \in S : \A v \in V : Combine[<<x, v>>] \in V
    PROVE  \E g \in [SUBSET S -> V] : Folded(g, S, base, Choice, Combine)
<1> DEFINE Upto(n) == {T \in SUBSET S : Cardinality(T) <= n}
           Folds(g, n) == \A T \in Upto(n) : g[T] = IF T = {} THEN base
                                 ELSE Combine[<<Choice[T], g[T \ {Choice[T]}]>>]
           N == {n \in Nat : \E g \in [Upto(n) -> V] : Folds(g, n)}
<1>1. \A T \in SUBSET S : IsFiniteSet(T) /\ Cardinality(T) \in Nat /\ (Cardinality(T) = 0 <=> T = {})
  BY FS_Subset, FS_CardinalityType, FS_EmptySet
<1>2. 0 \in N
  <2> DEFINE g == [T \in Upto(0) |-> base]
  <2>1. \A T \in Upto(0) : T = {}
    BY <1>1
  <2>2. g \in [Upto(0) -> V] /\ Folds(g, 0)
    BY <2>1
  <2> QED
    BY <2>2
<1>3. ASSUME NEW n \in Nat, n \in N PROVE n + 1 \in N
  <2>1. PICK g \in [Upto(n) -> V] : Folds(g, n)
    BY <1>3
  <2> DEFINE h == [T \in Upto(n + 1) |-> IF T = {} THEN base
                                         ELSE Combine[<<Choice[T], g[T \ {Choice[T]}]>>]]
  <2>2. \A T \in Upto(n + 1) : T # {} => T \ {Choice[T]} \in Upto(n) /\ T \ {Choice[T]} \in Upto(n + 1)
    <3> SUFFICES ASSUME NEW T \in Upto(n + 1), T # {}
                 PROVE  T \ {Choice[T]} \in Upto(n) /\ T \ {Choice[T]} \in Upto(n + 1)
      OBVIOUS
    <3>1. Choice[T] \in T /\ Cardinality(T) \in Nat
      BY <1>1
    <3>2. Cardinality(T \ {Choice[T]}) = Cardinality(T) - 1
      BY <1>1, <3>1, FS_RemoveElement
    <3>3. Cardinality(T) - 1 <= n
      BY <3>1
    <3> QED
      BY <1>1, <3>2, <3>3
  <2>3. \A T \in Upto(n) : T \in Upto(n + 1) /\ h[T] = g[T]
    <3> SUFFICES ASSUME NEW T \in Upto(n) PROVE T \in Upto(n + 1) /\ h[T] = g[T]
      OBVIOUS
    <3>1. T \in Upto(n + 1)
      BY <1>1
    <3>2. g[T] = IF T = {} THEN base ELSE Combine[<<Choice[T], g[T \ {Choice[T]}]>>]
      BY <2>1
    <3> QED
      BY <3>1, <3>2
  <2>4. Folds(h, n + 1)
    <3> SUFFICES ASSUME NEW T \in Upto(n + 1), T # {}
                 PROVE h[T] = Combine[<<Choice[T], h[T \ {Choice[T]}]>>]
      OBVIOUS
    <3>1. h[T \ {Choice[T]}] = g[T \ {Choice[T]}]
      BY <2>2, <2>3
    <3> QED
      BY <3>1
  <2>5. h \in [Upto(n + 1) -> V]
    <3> SUFFICES ASSUME NEW T \in Upto(n + 1), T # {}
                 PROVE  Combine[<<Choice[T], g[T \ {Choice[T]}]>>] \in V
      OBVIOUS
    <3>1. Choice[T] \in S /\ g[T \ {Choice[T]}] \in V
      BY <2>2
    <3> QED
      BY <3>1
  <2> HIDE DEF h, Upto, Folds
  <2> QED
    BY <2>4, <2>5
<1>4. Cardinality(S) \in N
  <2> HIDE DEF N
  <2>1. Nat \subseteq N
    BY <1>2, <1>3, CountedUp
  <2> QED
    BY <1>1, <2>1
<1>5. Upto(Cardinality(S)) = SUBSET S
  BY FS_Subset
<1> QED
  BY <1>4, <1>5 DEF Folded

(* The sum of f over S is what the community's fold says, by its equation. *)
Sums(g, f, S) ==
    g = [T \in SUBSET S |-> IF T = {} THEN 0
                            ELSE f[CHOOSE x \in T : TRUE] + g[T \ {CHOOSE x \in T : TRUE}]]

(* The fold's own equation, which only TLA+'s CHOOSE keeps from view.      *)
LEMMA SumIs ==
    ASSUME NEW f, NEW S
    PROVE  SumFunctionOnSet(f, S) = (CHOOSE g : Sums(g, f, S))[S]
BY DEF SumFunctionOnSet, FoldFunctionOnSet, MapThenFoldSet, Sums

(* There is such a function for every finite set.                          *)
LEMMA SumExists ==
    ASSUME NEW S, IsFiniteSet(S), NEW f, \A x \in S : f[x] \in Nat
    PROVE  \E g \in [SUBSET S -> Nat] : Sums(g, f, S)
<1> DEFINE Choice == [T \in SUBSET S |-> CHOOSE x \in T : TRUE]
           Combine == [p \in S \X Nat |-> f[p[1]] + p[2]]
<1>1. \A T \in SUBSET S : T # {} => Choice[T] \in T
  OBVIOUS
<1>2. \A x \in S : \A v \in Nat : Combine[<<x, v>>] = f[x] + v /\ Combine[<<x, v>>] \in Nat
  OBVIOUS
<1>3. PICK g \in [SUBSET S -> Nat] : Folded(g, S, 0, Choice, Combine)
  <2> HIDE DEF Choice, Combine
  <2>1. 0 \in Nat /\ \A x \in S : \A v \in Nat : Combine[<<x, v>>] \in Nat
    BY <1>2
  <2> QED
    BY <1>1, <2>1, FoldExists
<1>4. ASSUME NEW T \in SUBSET S, T # {}
      PROVE g[T] = f[CHOOSE x \in T : TRUE] + g[T \ {CHOOSE x \in T : TRUE}]
  <2>1. Choice[T] \in S /\ g[T \ {Choice[T]}] \in Nat
    BY <1>1, <1>4
  <2>2. g[T] = f[Choice[T]] + g[T \ {Choice[T]}]
    <3> HIDE DEF Choice, Combine
    <3> QED
    BY <1>2, <1>3, <1>4, <2>1 DEF Folded
  <2>3. Choice[T] = CHOOSE x \in T : TRUE
    OBVIOUS
  <2> HIDE DEF Choice
  <2> QED
    BY <2>2, <2>3
<1>5. g[{}] = 0
  BY <1>3 DEF Folded
<1> HIDE DEF Choice, Combine
<1>6. \A T \in SUBSET S : g[T] = IF T = {} THEN 0
                            ELSE f[CHOOSE x \in T : TRUE] + g[T \ {CHOOSE x \in T : TRUE}]
  BY <1>4, <1>5
<1> QED
  BY <1>3, <1>6 DEF Sums

(* Two such functions agree where both are defined.                        *)
LEMMA SumUnique ==
    ASSUME NEW S, IsFiniteSet(S), NEW f, NEW g, NEW h, NEW U, Sums(g, f, S), Sums(h, f, U), U \subseteq S
    PROVE  g[U] = h[U]
<1> DEFINE G == {T \in SUBSET U : g[T] = h[T]}
<1>1. ASSUME NEW T \in SUBSET U
      PROVE  /\ g[T] = IF T = {} THEN 0 ELSE f[CHOOSE x \in T : TRUE] + g[T \ {CHOOSE x \in T : TRUE}]
             /\ h[T] = IF T = {} THEN 0 ELSE f[CHOOSE x \in T : TRUE] + h[T \ {CHOOSE x \in T : TRUE}]
  BY DEF Sums
<1>2. {} \in G
  BY <1>1
<1>3. ASSUME NEW T \in SUBSET U, T # {}, \A x \in T : T \ {x} \in G
      PROVE  T \in G
  <2> DEFINE c == CHOOSE x \in T : TRUE
  <2>1. c \in T
    BY <1>3
  <2> HIDE DEF c
  <2>2. g[T \ {c}] = h[T \ {c}]
    BY <1>3, <2>1
  <2> QED
    BY <1>1, <1>3, <2>1, <2>2 DEF c
<1>4. IsFiniteSet(U)
  BY FS_Subset
<1>5. \A T \in SUBSET U : T \in G
  <2> HIDE DEF G
  <2> QED
    BY <1>2, <1>3, <1>4, BuiltUp
<1> QED
  BY <1>5

(* The sum over a set, one chosen element taken out.                       *)
LEMMA SumByChoice ==
    ASSUME NEW S, IsFiniteSet(S), NEW f, \A x \in S : f[x] \in Nat
    PROVE  /\ SumFunctionOnSet(f, S) \in Nat
           /\ S = {} => SumFunctionOnSet(f, S) = 0
           /\ S # {} => LET c == CHOOSE x \in S : TRUE
                        IN SumFunctionOnSet(f, S) = f[c] + SumFunctionOnSet(f, S \ {c})
<1> DEFINE g == CHOOSE h : Sums(h, f, S)
           c == CHOOSE x \in S : TRUE
           s == CHOOSE h : Sums(h, f, S \ {c})
<1>1. \E h \in [SUBSET S -> Nat] : Sums(h, f, S)
  BY SumExists
<1>2. Sums(g, f, S)
  BY <1>1
<1>3. PICK h \in [SUBSET S -> Nat] : Sums(h, f, S)
  BY <1>1
<1>4. IsFiniteSet(S \ {c}) /\ S \ {c} \subseteq S
  BY FS_Subset
<1>5. Sums(s, f, S \ {c})
  <2>1. \E k \in [SUBSET (S \ {c}) -> Nat] : Sums(k, f, S \ {c})
    <3> HIDE DEF c
    <3> QED
      BY <1>4, SumExists
  <2> QED
    BY <2>1
<1>6. SumFunctionOnSet(f, S) = g[S] /\ SumFunctionOnSet(f, S \ {c}) = s[S \ {c}]
  BY SumIs
<1> HIDE DEF g, s
<1>7. g[S \ {c}] = s[S \ {c}]
  <2> HIDE DEF c
  <2> QED
    BY <1>2, <1>4, <1>5, SumUnique
<1>8. g[S] = h[S] /\ h[S] \in Nat
  BY <1>2, <1>3, SumUnique
<1>9. g[S] = IF S = {} THEN 0 ELSE f[c] + g[S \ {c}]
  BY <1>2 DEF Sums
<1> QED
  BY <1>6, <1>7, <1>8, <1>9

(* A sum is a number.                                                      *)
LEMMA SumIsNat ==
    ASSUME NEW S, IsFiniteSet(S), NEW f, \A x \in S : f[x] \in Nat
    PROVE  SumFunctionOnSet(f, S) \in Nat
BY SumByChoice

(* Nothing adds up to nothing.                                             *)
LEMMA SumOfNone == ASSUME NEW f PROVE SumFunctionOnSet(f, {}) = 0
BY SumByChoice, FS_EmptySet

(* It does not matter which element is taken out.                          *)
LEMMA SumLess ==
    ASSUME NEW S, IsFiniteSet(S), NEW f, \A x \in S : f[x] \in Nat, NEW e \in S
    PROVE  SumFunctionOnSet(f, S) = f[e] + SumFunctionOnSet(f, S \ {e})
<1> DEFINE Sum(T) == SumFunctionOnSet(f, T)
           G == {T \in SUBSET S : \A x \in T : Sum(T) = f[x] + Sum(T \ {x})}
<1> HIDE DEF Sum
<1>1. ASSUME NEW T \in SUBSET S
      PROVE  /\ Sum(T) \in Nat
             /\ T # {} => LET c == CHOOSE x \in T : TRUE IN Sum(T) = f[c] + Sum(T \ {c})
  <2>1. IsFiniteSet(T) /\ \A x \in T : f[x] \in Nat
    BY FS_Subset
  <2> QED
    BY <2>1, SumByChoice DEF Sum
<1>2. ASSUME NEW T \in SUBSET S, T # {}, \A x \in T : T \ {x} \in G
      PROVE  T \in G
  <2> SUFFICES ASSUME NEW x \in T PROVE Sum(T) = f[x] + Sum(T \ {x})
    OBVIOUS
  <2> DEFINE c == CHOOSE y \in T : TRUE
  <2>1. c \in T /\ Sum(T) = f[c] + Sum(T \ {c})
    BY <1>1, <1>2
  <2> HIDE DEF c
  <2>2. CASE x = c
    BY <2>1, <2>2
  <2>3. CASE x # c
    <3>1. Sum(T \ {c}) = f[x] + Sum((T \ {c}) \ {x})
      BY <1>2, <2>1, <2>3
    <3>2. Sum(T \ {x}) = f[c] + Sum((T \ {x}) \ {c})
      BY <1>2, <2>1, <2>3
    <3>3. (T \ {x}) \ {c} = (T \ {c}) \ {x}
      OBVIOUS
    <3>4. f[x] \in Nat /\ f[c] \in Nat /\ Sum((T \ {c}) \ {x}) \in Nat
      BY <1>1, <2>1
    <3> QED
      BY <2>1, <3>1, <3>2, <3>3, <3>4
  <2> QED
    BY <2>2, <2>3
<1>3. \A T \in SUBSET S : T \in G
  <2>1. {} \in G
    OBVIOUS
  <2> HIDE DEF G
  <2> QED
    BY <1>2, <2>1, BuiltUp
<1> QED
  BY <1>3 DEF Sum

(* What two sets without a common element hold is added up.                *)
LEMMA SumOfTwo ==
    ASSUME NEW S, IsFiniteSet(S), NEW U, IsFiniteSet(U), S \cap U = {},
           NEW f, \A x \in S \cup U : f[x] \in Nat
    PROVE  SumFunctionOnSet(f, S \cup U) = SumFunctionOnSet(f, S) + SumFunctionOnSet(f, U)
<1> DEFINE Sum(T) == SumFunctionOnSet(f, T)
           G == {T \in SUBSET S : Sum(T \cup U) = Sum(T) + Sum(U)}
<1> HIDE DEF Sum
<1>1. ASSUME NEW T \in SUBSET S
      PROVE  /\ Sum(T) \in Nat /\ Sum(T \cup U) \in Nat /\ Sum(U) \in Nat
             /\ \A x \in T : /\ Sum(T) = f[x] + Sum(T \ {x})
                            /\ Sum(T \cup U) = f[x] + Sum((T \cup U) \ {x})
  <2>1. /\ IsFiniteSet(T) /\ \A x \in T : f[x] \in Nat
        /\ IsFiniteSet(T \cup U) /\ \A x \in T \cup U : f[x] \in Nat
    BY FS_Subset, FS_Union
  <2>2. Sum(T) \in Nat /\ Sum(T \cup U) \in Nat /\ Sum(U) \in Nat
    BY <2>1, SumIsNat DEF Sum
  <2>3. ASSUME NEW x \in T
        PROVE  /\ Sum(T) = f[x] + Sum(T \ {x})
               /\ Sum(T \cup U) = f[x] + Sum((T \cup U) \ {x})
    <3>1. x \in T \cup U
      OBVIOUS
    <3> QED
      BY <2>1, <3>1, SumLess DEF Sum
  <2> QED
    BY <2>2, <2>3
<1>2. {} \in G
  <2>1. Sum({}) = 0
    BY SumOfNone DEF Sum
  <2> QED
    BY <1>1, <2>1
<1>3. ASSUME NEW T \in SUBSET S, T # {}, \A x \in T : T \ {x} \in G
      PROVE  T \in G
  <2>1. PICK x \in T : TRUE
    BY <1>3
  <2>2. (T \cup U) \ {x} = (T \ {x}) \cup U
    BY <2>1
  <2>3. Sum((T \ {x}) \cup U) = Sum(T \ {x}) + Sum(U)
    BY <1>3
  <2>4. /\ Sum(T) = f[x] + Sum(T \ {x}) /\ Sum(T \cup U) = f[x] + Sum((T \ {x}) \cup U)
        /\ f[x] \in Nat /\ Sum(T \ {x}) \in Nat /\ Sum(U) \in Nat
    <3>1. T \ {x} \in SUBSET S /\ f[x] \in Nat
      BY <2>1
    <3>2. Sum(T \ {x}) \in Nat /\ Sum(U) \in Nat
      BY <1>1, <3>1
    <3>3. Sum(T) = f[x] + Sum(T \ {x}) /\ Sum(T \cup U) = f[x] + Sum((T \cup U) \ {x})
      BY <1>1, <2>1
    <3> QED
      BY <2>2, <3>1, <3>2, <3>3
  <2> QED
    BY <2>3, <2>4
<1>4. \A T \in SUBSET S : T \in G
  <2> HIDE DEF G
  <2> QED
    BY <1>2, <1>3, BuiltUp
<1> QED
  BY <1>4 DEF Sum

(* A part is no more than the whole.                                       *)
LEMMA SumOfPart ==
    ASSUME NEW S, IsFiniteSet(S), NEW f, \A x \in S : f[x] \in Nat, NEW U \in SUBSET S
    PROVE  SumFunctionOnSet(f, U) <= SumFunctionOnSet(f, S)
<1>1. IsFiniteSet(U) /\ IsFiniteSet(S \ U) /\ U \cap (S \ U) = {} /\ U \cup (S \ U) = S
  BY FS_Subset
<1>2. SumFunctionOnSet(f, S) = SumFunctionOnSet(f, U) + SumFunctionOnSet(f, S \ U)
  BY <1>1, SumOfTwo
<1>3. SumFunctionOnSet(f, U) \in Nat /\ SumFunctionOnSet(f, S \ U) \in Nat
  BY <1>1, SumIsNat
<1> QED
  BY <1>2, <1>3

(* No element is more than the sum.                                        *)
LEMMA SumCovers ==
    ASSUME NEW S, IsFiniteSet(S), NEW f, \A x \in S : f[x] \in Nat, NEW e \in S
    PROVE  f[e] <= SumFunctionOnSet(f, S)
<1>1. IsFiniteSet(S \ {e})
  BY FS_Subset
<1>2. SumFunctionOnSet(f, S \ {e}) \in Nat
  BY <1>1, SumIsNat
<1> QED
  BY <1>2, SumLess

(* What adds nothing may be left out.                                      *)
LEMMA SumOfZeros ==
    ASSUME NEW S, IsFiniteSet(S), NEW f, \A x \in S : f[x] = 0
    PROVE  SumFunctionOnSet(f, S) = 0
<1> DEFINE G == {T \in SUBSET S : SumFunctionOnSet(f, T) = 0}
<1>1. {} \in G
  BY SumOfNone
<1>2. ASSUME NEW T \in SUBSET S, T # {}, \A x \in T : T \ {x} \in G
      PROVE  T \in G
  <2>1. PICK x \in T : TRUE
    BY <1>2
  <2>2. IsFiniteSet(T) /\ \A y \in T : f[y] \in Nat
    BY FS_Subset
  <2>3. SumFunctionOnSet(f, T) = f[x] + SumFunctionOnSet(f, T \ {x})
    BY <2>1, <2>2, SumLess
  <2>4. SumFunctionOnSet(f, T \ {x}) = 0 /\ f[x] = 0
    BY <1>2, <2>1
  <2> QED
    BY <2>3, <2>4
<1>3. \A T \in SUBSET S : T \in G
  <2> HIDE DEF G
  <2> QED
    BY <1>1, <1>2, BuiltUp
<1> QED
  BY <1>3

(* Entries none of which is more than m are together no more than m for    *)
(* each of them.                                                           *)
LEMMA SumIsBounded ==
    ASSUME NEW S, IsFiniteSet(S), NEW f, NEW m \in Nat, \A x \in S : f[x] \in Nat /\ f[x] <= m
    PROVE  SumFunctionOnSet(f, S) <= Cardinality(S) * m
<1> DEFINE Sum(T) == SumFunctionOnSet(f, T)
           G == {T \in SUBSET S : Sum(T) <= Cardinality(T) * m}
<1> HIDE DEF Sum
<1>1. {} \in G
  <2>1. Cardinality({}) = 0 /\ Sum({}) = 0
    BY FS_EmptySet, SumOfNone DEF Sum
  <2> QED
    BY <2>1
<1>2. ASSUME NEW T \in SUBSET S, T # {}, \A x \in T : T \ {x} \in G
      PROVE  T \in G
  <2>1. PICK x \in T : TRUE
    BY <1>2
  <2>2. /\ IsFiniteSet(T) /\ IsFiniteSet(T \ {x})
        /\ \A y \in T : f[y] \in Nat
    BY FS_Subset
  <2>3. Sum(T) = f[x] + Sum(T \ {x}) /\ Sum(T \ {x}) \in Nat
    BY <2>1, <2>2, SumLess, SumIsNat DEF Sum
  <2> DEFINE c == Cardinality(T)
  <2>4. c \in Nat /\ Cardinality(T \ {x}) = c - 1
    BY <2>1, <2>2, FS_RemoveElement, FS_CardinalityType
  <2> HIDE DEF c
  <2>5. Sum(T \ {x}) <= (c - 1) * m
    BY <1>2, <2>1, <2>4
  <2>6. f[x] \in Nat /\ f[x] <= m
    BY <2>1
  <2>7. (c - 1) * m = c * m - m /\ c * m \in Nat
    BY <2>4
  <2>8. Sum(T) <= c * m
    BY <2>3, <2>5, <2>6, <2>7
  <2> QED
    BY <2>8 DEF c
<1>3. \A T \in SUBSET S : T \in G
  <2> HIDE DEF G
  <2> QED
    BY <1>1, <1>2, BuiltUp
<1> QED
  BY <1>3 DEF Sum

(* The largest of a set of numbers up to n.                                *)
LEMMA MaxIs ==
    ASSUME NEW n \in Nat, NEW T \in SUBSET (1 .. n), T # {}
    PROVE  Max(T) \in T /\ \A y \in T : y <= Max(T)
<1> DEFINE back == {n - i : i \in T}
<1>1. back \in SUBSET Nat /\ back # {}
  <2>1. \A i \in T : n - i \in Nat
    OBVIOUS
  <2> QED
    BY <2>1
<1>2. PICK m \in back : \A k \in back : m <= k
  <2> HIDE DEF back
  <2> QED
    BY <1>1, Least
<1>3. PICK x \in T : m = n - x
  BY <1>2
<1>4. \A y \in T : x >= y
  <2> TAKE y \in T
  <2>1. n - x <= n - y
    BY <1>2, <1>3
  <2> QED
    BY <2>1
<1>5. Max(T) \in T /\ \A y \in T : Max(T) >= y
  BY <1>4 DEF Max
<1> QED
  BY <1>5

(* What a fold of a sequence computes, from its first element on.          *)
LeftFolded(g, n, base, Combine) ==
    \A T \in SUBSET (1 .. n) : g[T] = IF T = {} THEN base
                                      ELSE Combine[<<Max(T), g[T \ {Max(T)}]>>]

(* A sequence is folded from the left, element by element.                 *)
LEMMA LeftFoldExists ==
    ASSUME NEW n \in Nat, NEW V, NEW base \in V, NEW Combine,
           \A i \in 1 .. n : \A v \in V : Combine[<<i, v>>] \in V
    PROVE  \E g \in [SUBSET (1 .. n) -> V] : LeftFolded(g, n, base, Combine)
<1> DEFINE S == 1 .. n
           Choice == [T \in SUBSET S |-> Max(T)]
<1>1. IsFiniteSet(S)
  BY FS_Interval
<1>2. \A T \in SUBSET S : T # {} => Choice[T] \in T
  BY MaxIs
<1>3. \E g \in [SUBSET S -> V] : Folded(g, S, base, Choice, Combine)
  <2> HIDE DEF Choice
  <2>1. \A i \in S : \A v \in V : Combine[<<i, v>>] \in V
    OBVIOUS
  <2> HIDE DEF S
  <2> QED
    BY <1>1, <1>2, <2>1, FoldExists
<1> QED
  BY <1>3 DEF Folded, LeftFolded

(* What the fold has after a number of elements.                           *)
LEMMA FoldedSoFar ==
    ASSUME NEW n \in Nat, NEW k \in 0 .. n - 1
    PROVE  /\ Max(1 .. (k + 1)) = k + 1
           /\ (1 .. (k + 1)) \ {k + 1} = 1 .. k
           /\ 1 .. (k + 1) # {} /\ 1 .. (k + 1) \in SUBSET (1 .. n)
<1>1. 1 .. (k + 1) \in SUBSET (1 .. n) /\ k + 1 \in 1 .. (k + 1)
  OBVIOUS
<1>2. Max(1 .. (k + 1)) \in 1 .. (k + 1) /\ k + 1 <= Max(1 .. (k + 1))
  BY <1>1, MaxIs
<1>3. Max(1 .. (k + 1)) = k + 1
  BY <1>2
<1>4. (1 .. (k + 1)) \ {k + 1} = 1 .. k
  OBVIOUS
<1> QED
  BY <1>1, <1>3, <1>4

----------------------------------------------------------------------------
(* A token is read as the number it is, or not at all.                     *)
LEMMA TokenIsRead == \A token : ToNumber(token) \in {Unknown, token}
BY DEF ToNumber

(* The row parse_df() reads is the last one with anything in it.           *)
LEMMA LastRowIs ==
    ASSUME NEW rs, NEW n \in Nat, DOMAIN rs \subseteq Nat, n \in DOMAIN rs, rs[n] # <<>>,
           \A i \in DOMAIN rs : i > n => rs[i] = <<>>
    PROVE  LastRow(rs) = rs[n]
<1> DEFINE filled == {i \in DOMAIN rs : rs[i] # <<>>}
           last == CHOOSE i \in filled : \A j \in filled : j <= i
<1>1. n \in filled /\ \A j \in filled : j <= n
  OBVIOUS
<1>2. last \in filled /\ \A j \in filled : j <= last
  BY <1>1
<1>3. last = n
  <2>1. last <= n /\ n <= last /\ last \in Nat
    BY <1>1, <1>2
  <2> HIDE DEF last
  <2> QED
    BY <2>1
<1> QED
  BY <1>1, <1>3 DEF LastRow

(* What parse_df() says is used and free is what df printed, in whichever  *)
(* of its layouts, or nothing of either.                                   *)
LEMMA DfIsRead ==
    ASSUME NEW used, NEW printed \in DfPrints(used)
    PROVE  ParseDf(printed) \in {NoUsage, [used |-> used, free |-> Free]}
<1> DEFINE columns == <<used + Free, used, Free, Unknown, Unknown>>
           header == <<Unknown, Unknown, Unknown, Unknown, Unknown, Unknown, Unknown>>
           whole == <<Unknown, used + Free, used, Free, Unknown, Unknown>>
           split == <<Unknown>>
<1>1. <<Unknown>> \o columns = whole
  <2> DEFINE S == {Unknown, used + Free, used, Free}
             both == <<Unknown>> \o columns
  <2>1. columns \in Seq(S) /\ Len(columns) = 5 /\ <<Unknown>> \in Seq(S) /\ Len(<<Unknown>>) = 1
    OBVIOUS
  <2>2. both \in Seq(S) /\ Len(both) = 6
        /\ \A i \in 1 .. 6 : both[i] = IF i <= 1 THEN <<Unknown>>[i] ELSE columns[i - 1]
    <3> DEFINE one == <<Unknown>>
    <3>1. one \in Seq(S) /\ Len(one) = 1 /\ both = one \o columns
      BY <2>1
    <3> HIDE DEF columns, S, one, both
    <3>2. both \in Seq(S) /\ Len(both) = Len(one) + Len(columns)
      BY <2>1, <3>1, ConcatProperties
    <3>3. \A i \in 1 .. Len(one) + Len(columns) :
             both[i] = IF i <= Len(one) THEN one[i] ELSE columns[i - Len(one)]
      BY <2>1, <3>1, ConcatProperties
    <3> QED
      BY <2>1, <3>1, <3>2, <3>3 DEF one
  <2>3. /\ both[1] = Unknown /\ both[2] = columns[1] /\ both[3] = columns[2]
        /\ both[4] = columns[3] /\ both[5] = columns[4] /\ both[6] = columns[5]
    <3> HIDE DEF columns, both, S
    <3> QED
      BY <2>2
  <2>4. whole \in Seq(S) /\ Len(whole) = 6
    OBVIOUS
  <2>5. \A i \in 1 .. 6 : both[i] = whole[i]
    <3>1. /\ both[1] = whole[1] /\ both[2] = whole[2] /\ both[3] = whole[3]
          /\ both[4] = whole[4] /\ both[5] = whole[5] /\ both[6] = whole[6]
      <4> HIDE DEF both
      <4> QED
        BY <2>3
    <3> HIDE DEF both, whole
    <3>2. \A i \in 1 .. 6 : i = 1 \/ i = 2 \/ i = 3 \/ i = 4 \/ i = 5 \/ i = 6
      OBVIOUS
    <3> QED
      BY <3>1, <3>2
  <2> HIDE DEF both, whole, S
  <2> QED
    BY <2>2, <2>4, <2>5 DEF both
<1>2. /\ Len(header) = 7 /\ header[4] = Unknown /\ header # <<>>
      /\ Len(columns) = 5 /\ columns[2] = used /\ columns[3] = Free /\ columns # <<>>
      /\ Len(whole) = 6 /\ whole[3] = used /\ whole[4] = Free /\ whole # <<>>
  OBVIOUS
<1> HIDE DEF header, columns, whole
<1>3. printed \in {<<header, whole, <<>>>>, <<header, split, columns>>, <<header>>}
  BY <1>1 DEF DfPrints, header, columns
<1>4. LastRow(printed) \in {header, columns, whole}
  <2>1. CASE printed = <<header, whole, <<>>>>
    <3>1. DOMAIN printed = 1 .. 3 /\ printed[2] = whole /\ printed[3] = <<>>
      BY <2>1
    <3> QED
      BY <1>2, <3>1, LastRowIs
  <2>2. CASE printed = <<header, split, columns>>
    <3>1. DOMAIN printed = 1 .. 3 /\ printed[3] = columns
      BY <2>2
    <3> QED
      BY <1>2, <3>1, LastRowIs
  <2>3. CASE printed = <<header>>
    <3>1. DOMAIN printed = 1 .. 1 /\ printed[1] = header
      BY <2>3
    <3> QED
      BY <1>2, <3>1, LastRowIs
  <2> QED
    BY <1>3, <2>1, <2>2, <2>3
<1> DEFINE row == LastRow(printed)
           read == ToNumber(row[Len(row) - 3])
           left == ToNumber(row[Len(row) - 2])
<1>5. \/ ParseDf(printed) = NoUsage
      \/ Unknown \notin {read, left} /\ ParseDf(printed) = [used |-> read, free |-> left]
  BY DEF ParseDf
<1>6. \/ row[Len(row) - 3] = Unknown
      \/ row[Len(row) - 3] = used /\ row[Len(row) - 2] = Free
  <2>1. header[Len(header) - 3] = Unknown
    BY <1>2
  <2>2. columns[Len(columns) - 3] = used /\ columns[Len(columns) - 2] = Free
    BY <1>2
  <2>3. whole[Len(whole) - 3] = used /\ whole[Len(whole) - 2] = Free
    BY <1>2
  <2> QED
    BY <1>4, <2>1, <2>2, <2>3
<1>7. read \in {Unknown, row[Len(row) - 3]} /\ left \in {Unknown, row[Len(row) - 2]}
  BY TokenIsRead
<1> HIDE DEF row, read, left
<1> QED
  BY <1>5, <1>6, <1>7

(* What parse_trimmed_bytes() makes of a sentence is a word of it.         *)
LEMMA TrimIsRead ==
    ASSUME NEW words \in Seq(Nat \cup {Unknown, Bytes})
    PROVE  ParseTrimmedBytes(words) \in {Unknown} \cup ToSet(words)
<1> DEFINE at == {i \in DOMAIN words : words[i] = Bytes}
           last == CHOOSE i \in at : \A j \in at : j <= i
           back == {Len(words) - i : i \in at}
<1>1. Len(words) \in Nat /\ DOMAIN words = 1 .. Len(words)
  OBVIOUS
<1>2. ASSUME at # {} PROVE last \in at
  <2>1. back \in SUBSET Nat /\ back # {}
    BY <1>1, <1>2
  <2>2. PICK m \in back : \A k \in back : m <= k
    <3> HIDE DEF back
    <3> QED
      BY <2>1, Least
  <2>3. PICK i \in at : m = Len(words) - i
    BY <2>2
  <2>4. \A j \in at : j <= i
    <3> TAKE j \in at
    <3>1. Len(words) - i <= Len(words) - j
      BY <2>2, <2>3
    <3> QED
      BY <1>1, <3>1
  <2> QED
    BY <2>3, <2>4
<1>3. ASSUME last \in at, last # 1 PROVE words[last - 1] \in ToSet(words)
  <2>1. last - 1 \in DOMAIN words
    <3> HIDE DEF last
    <3> QED
      BY <1>1, <1>3
  <2> QED
    BY <2>1 DEF ToSet
<1>4. ParseTrimmedBytes(words) = IF at = {} THEN Unknown
                                 ELSE IF last = 1 THEN Unknown ELSE ToNumber(words[last - 1])
  BY DEF ParseTrimmedBytes
<1> HIDE DEF at, last
<1> QED
  BY <1>2, <1>3, <1>4, TokenIsRead

----------------------------------------------------------------------------
(* A path is read name by name, and the empty ones are passed over.        *)
LEMMA CanonicalByName ==
    ASSUME NEW X, NEW place \in Seq(X)
    PROVE  \E g : /\ Canonical(place) = g[1 .. Len(place)]
                  /\ g[1 .. 0] = <<>>
                  /\ \A k \in 0 .. Len(place) :  g[1 .. k] \in Seq(X)
                  /\ \A k \in 0 .. Len(place) - 1 :
                        g[1 .. (k + 1)] = IF place[k + 1] = NoName THEN g[1 .. k]
                                          ELSE Append(g[1 .. k], place[k + 1])
<1> DEFINE n == Len(place)
           Folds(g) == g = [T \in SUBSET DOMAIN place |->
                              IF T = {} THEN <<>>
                              ELSE IF place[Max(T)] = NoName THEN g[T \ {Max(T)}]
                                   ELSE Append(g[T \ {Max(T)}], place[Max(T)])]
           Combine == [p \in (1 .. n) \X Seq(X) |->
                          IF place[p[1]] = NoName THEN p[2] ELSE Append(p[2], place[p[1]])]
<1>1. Canonical(place) = (CHOOSE g : Folds(g))[DOMAIN place]
  BY DEF Canonical, FoldLeft, MapThenFoldSet
<1>2. n \in Nat /\ DOMAIN place = 1 .. n /\ \A i \in 1 .. n : place[i] \in X
  OBVIOUS
<1>3. \A i \in 1 .. n : \A v \in Seq(X) :
         /\ Combine[<<i, v>>] = IF place[i] = NoName THEN v ELSE Append(v, place[i])
         /\ Combine[<<i, v>>] \in Seq(X)
  BY <1>2
<1>4. PICK h \in [SUBSET (1 .. n) -> Seq(X)] : LeftFolded(h, n, <<>>, Combine)
  <2> HIDE DEF Combine, n
  <2>1. <<>> \in Seq(X) /\ \A i \in 1 .. n : \A v \in Seq(X) : Combine[<<i, v>>] \in Seq(X)
    BY <1>3
  <2> QED
    BY <1>2, <2>1, LeftFoldExists
<1>5. ASSUME NEW T \in SUBSET (1 .. n), T # {}
      PROVE  h[T] = IF place[Max(T)] = NoName THEN h[T \ {Max(T)}]
                    ELSE Append(h[T \ {Max(T)}], place[Max(T)])
  <2>1. Max(T) \in 1 .. n /\ h[T \ {Max(T)}] \in Seq(X)
    BY <1>2, <1>5, MaxIs
  <2> HIDE DEF Combine
  <2> QED
    BY <1>3, <1>4, <1>5, <2>1 DEF LeftFolded
<1>6. h[{}] = <<>>
  BY <1>4 DEF LeftFolded
<1>7. Folds(h)
  <2> HIDE DEF Combine, n
  <2>1. \A T \in SUBSET (1 .. n) :
           h[T] = IF T = {} THEN <<>>
                  ELSE IF place[Max(T)] = NoName THEN h[T \ {Max(T)}]
                       ELSE Append(h[T \ {Max(T)}], place[Max(T)])
    BY <1>5, <1>6
  <2> QED
    BY <1>2, <1>4, <2>1
<1> DEFINE g == CHOOSE f : Folds(f)
<1>8. Folds(g)
  BY <1>7
<1>9. \A T \in SUBSET (1 .. n) : g[T] = IF T = {} THEN <<>>
                              ELSE IF place[Max(T)] = NoName THEN g[T \ {Max(T)}]
                                   ELSE Append(g[T \ {Max(T)}], place[Max(T)])
  <2> HIDE DEF g, n
  <2> QED
  BY <1>2, <1>8
<1>10. Canonical(place) = g[1 .. n]
  BY <1>1, <1>2
<1> HIDE DEF g, Folds, Combine, n
<1>11. g[1 .. 0] = <<>>
  <2>1. 1 .. 0 = {}
    OBVIOUS
  <2> QED
    BY <1>9, <2>1
<1>12. ASSUME NEW k \in 0 .. n - 1
       PROVE  g[1 .. (k + 1)] = IF place[k + 1] = NoName THEN g[1 .. k]
                                ELSE Append(g[1 .. k], place[k + 1])
  <2>1. /\ Max(1 .. (k + 1)) = k + 1 /\ (1 .. (k + 1)) \ {k + 1} = 1 .. k
        /\ 1 .. (k + 1) # {} /\ 1 .. (k + 1) \in SUBSET (1 .. n)
    BY <1>2, FoldedSoFar
  <2> QED
    BY <1>9, <2>1
<1>13. \A k \in 0 .. n : g[1 .. k] \in Seq(X)
  <2> DEFINE N == {k \in Nat : k <= n => g[1 .. k] \in Seq(X)}
  <2>1. 0 \in N
    <3>1. <<>> \in Seq(X)
      OBVIOUS
    <3> QED
      BY <1>11, <3>1
  <2>2. ASSUME NEW k \in Nat, k \in N PROVE k + 1 \in N
    <3> SUFFICES ASSUME k + 1 <= n PROVE g[1 .. (k + 1)] \in Seq(X)
      OBVIOUS
    <3>1. k \in 0 .. n - 1 /\ g[1 .. k] \in Seq(X) /\ place[k + 1] \in X
      BY <1>2, <2>2
    <3>2. g[1 .. (k + 1)] \in {g[1 .. k], Append(g[1 .. k], place[k + 1])}
      BY <1>12, <3>1
    <3>3. Append(g[1 .. k], place[k + 1]) \in Seq(X)
      BY <3>1
    <3> QED
      BY <3>1, <3>2, <3>3
  <2>3. Nat \subseteq N
    <3> HIDE DEF N
    <3> QED
      BY <2>1, <2>2, CountedUp
  <2> QED
    BY <2>3
<1> QED
  BY <1>10, <1>11, <1>12, <1>13 DEF n

(* A path without empty names is found as it is spelled, and no other is.  *)
LEMMA PlainIsCanonical ==
    ASSUME NEW X, NEW place \in Seq(X)
    PROVE  Canonical(place) = place <=> \A i \in 1 .. Len(place) : place[i] # NoName
<1> DEFINE n == Len(place)
<1>1. n \in Nat
  OBVIOUS
<1>2. PICK g : /\ Canonical(place) = g[1 .. n]
               /\ g[1 .. 0] = <<>>
               /\ \A k \in 0 .. n :  g[1 .. k] \in Seq(X)
               /\ \A k \in 0 .. n - 1 :
                        g[1 .. (k + 1)] = IF place[k + 1] = NoName THEN g[1 .. k]
                                          ELSE Append(g[1 .. k], place[k + 1])
  BY CanonicalByName
<1> HIDE DEF n
<1>3. ASSUME \A i \in 1 .. n : place[i] # NoName
      PROVE  Canonical(place) = place
  <2> DEFINE N == {k \in Nat : k <= n => /\ Len(g[1 .. k]) = k
                                        /\ \A i \in 1 .. k : g[1 .. k][i] = place[i]}
  <2>1. 0 \in N
    BY <1>2
  <2>2. ASSUME NEW k \in Nat, k \in N PROVE k + 1 \in N
    <3> SUFFICES ASSUME k + 1 <= n
                 PROVE  /\ Len(g[1 .. (k + 1)]) = k + 1
                        /\ \A i \in 1 .. (k + 1) : g[1 .. (k + 1)][i] = place[i]
      OBVIOUS
    <3> DEFINE s == g[1 .. k]
               t == g[1 .. (k + 1)]
    <3>1. k \in 0 .. n - 1 /\ k \in 0 .. n /\ k + 1 \in 1 .. n
      BY <1>1
    <3>2. s \in Seq(X) /\ t = Append(s, place[k + 1])
      BY <1>2, <1>3, <3>1
    <3>3. Len(s) = k /\ \A i \in 1 .. k : s[i] = place[i]
      BY <2>2, <3>1
    <3> HIDE DEF s, t
    <3>4. Len(t) = k + 1 /\ \A i \in 1 .. (k + 1) : t[i] = IF i = k + 1 THEN place[k + 1] ELSE s[i]
      BY <3>2, <3>3
    <3>5. \A i \in 1 .. (k + 1) : t[i] = place[i]
      <4> TAKE i \in 1 .. (k + 1)
      <4>1. i = k + 1 \/ i \in 1 .. k
        OBVIOUS
      <4> QED
        BY <3>3, <3>4, <4>1
    <3> QED
      BY <3>4, <3>5 DEF t
  <2>3. n \in N
    <3> HIDE DEF N
    <3> QED
      BY <1>1, <2>1, <2>2, CountedUp
  <2>4. Len(g[1 .. n]) = n /\ \A i \in 1 .. n : g[1 .. n][i] = place[i]
    BY <1>1, <2>3
  <2>5. g[1 .. n] \in Seq(X)
    BY <1>1, <1>2
  <2> QED
    BY <1>2, <2>4, <2>5 DEF n
<1>4. ASSUME Canonical(place) = place, NEW j \in 1 .. n
      PROVE  place[j] # NoName
  <2> DEFINE N == {k \in Nat : k <= n => \A i \in 1 .. Len(g[1 .. k]) : g[1 .. k][i] # NoName}
  <2>1. 0 \in N
    BY <1>2
  <2>2. ASSUME NEW k \in Nat, k \in N PROVE k + 1 \in N
    <3> SUFFICES ASSUME k + 1 <= n
                 PROVE  \A i \in 1 .. Len(g[1 .. (k + 1)]) : g[1 .. (k + 1)][i] # NoName
      OBVIOUS
    <3> DEFINE s == g[1 .. k]
               t == g[1 .. (k + 1)]
    <3>1. k \in 0 .. n - 1 /\ k \in 0 .. n
      BY <1>1
    <3>2. s \in Seq(X) /\ (t = s \/ (place[k + 1] # NoName /\ t = Append(s, place[k + 1])))
      BY <1>2, <3>1
    <3>3. \A i \in 1 .. Len(s) : s[i] # NoName
      BY <2>2, <3>1
    <3> HIDE DEF s, t
    <3>4. ASSUME place[k + 1] # NoName, t = Append(s, place[k + 1]), NEW i \in 1 .. Len(t)
          PROVE  t[i] # NoName
      <4>1. Len(s) \in Nat /\ Len(t) = Len(s) + 1
        BY <3>2, <3>4
      <4>2. t[i] = IF i = Len(s) + 1 THEN place[k + 1] ELSE s[i]
        BY <3>2, <3>4, <4>1
      <4>3. i = Len(s) + 1 \/ i \in 1 .. Len(s)
        BY <4>1
      <4> QED
        BY <3>3, <3>4, <4>2, <4>3
    <3> QED
      BY <3>2, <3>3, <3>4 DEF s, t
  <2>3. n \in N
    <3> HIDE DEF N
    <3> QED
      BY <1>1, <2>1, <2>2, CountedUp
  <2>4. \A i \in 1 .. Len(g[1 .. n]) : g[1 .. n][i] # NoName
    BY <1>1, <2>3
  <2> QED
    BY <1>2, <1>4, <2>4 DEF n
<1> QED
  BY <1>3, <1>4 DEF n

(* A prefix agrees name by name.                                           *)
LEMMA PrefixIs ==
    ASSUME NEW X, NEW s \in Seq(X), NEW t \in Seq(X)
    PROVE  IsPrefix(s, t) <=> Len(s) <= Len(t) /\ \A i \in 1 .. Len(s) : s[i] = t[i]
<1>1. Len(s) \in Nat /\ Len(t) \in Nat
  OBVIOUS
<1>2. SUFFICES ASSUME Len(s) <= Len(t)
               PROVE  SubSeq(s, 1, Len(s)) = SubSeq(t, 1, Len(s))
                         <=> \A i \in 1 .. Len(s) : s[i] = t[i]
  BY DEF IsPrefix
<1>3. /\ SubSeq(s, 1, Len(s)) = [i \in 1 .. Len(s) |-> s[i]]
      /\ SubSeq(t, 1, Len(s)) = [i \in 1 .. Len(s) |-> t[i]]
  BY <1>1, <1>2
<1> QED
  BY <1>3

(* Whatever is a prefix of a prefix is one.                                *)
LEMMA PrefixOfPrefix ==
    ASSUME NEW X, NEW p \in Seq(X), NEW q \in Seq(X), NEW s \in Seq(X),
           IsPrefix(p, q), IsPrefix(q, s)
    PROVE  IsPrefix(p, s)
<1>1. /\ Len(p) <= Len(q) /\ \A i \in 1 .. Len(p) : p[i] = q[i]
      /\ Len(q) <= Len(s) /\ \A i \in 1 .. Len(q) : q[i] = s[i]
      /\ Len(p) \in Nat /\ Len(q) \in Nat /\ Len(s) \in Nat
  BY PrefixIs
<1>2. Len(p) <= Len(s) /\ \A i \in 1 .. Len(p) : i \in 1 .. Len(q)
  BY <1>1
<1> QED
  BY <1>1, <1>2, PrefixIs

(* Two prefixes of a path: the shorter one is one of the longer.           *)
LEMMA PrefixesOfOne ==
    ASSUME NEW X, NEW p \in Seq(X), NEW q \in Seq(X), NEW s \in Seq(X),
           IsPrefix(p, s), IsPrefix(q, s)
    PROVE  /\ Len(p) <= Len(q) => IsPrefix(p, q)
           /\ Len(q) <= Len(p) => IsPrefix(q, p)
           /\ IsPrefix(p, q) \/ IsPrefix(q, p)
<1>1. /\ Len(p) <= Len(s) /\ \A i \in 1 .. Len(p) : p[i] = s[i]
      /\ Len(q) <= Len(s) /\ \A i \in 1 .. Len(q) : q[i] = s[i]
      /\ Len(p) \in Nat /\ Len(q) \in Nat
  BY PrefixIs
<1>2. ASSUME Len(p) <= Len(q) PROVE IsPrefix(p, q)
  <2>1. \A i \in 1 .. Len(p) : i \in 1 .. Len(q)
    BY <1>1, <1>2
  <2> QED
    BY <1>1, <1>2, <2>1, PrefixIs
<1>3. ASSUME Len(q) <= Len(p) PROVE IsPrefix(q, p)
  <2>1. \A i \in 1 .. Len(q) : i \in 1 .. Len(p)
    BY <1>1, <1>3
  <2> QED
    BY <1>1, <1>3, <2>1, PrefixIs
<1> QED
  BY <1>1, <1>2, <1>3

(* A path is a prefix of itself, and of one as long it is all.             *)
LEMMA PrefixAndAll ==
    ASSUME NEW X, NEW p \in Seq(X), NEW q \in Seq(X)
    PROVE  /\ IsPrefix(p, p)
           /\ IsPrefix(p, q) /\ Len(q) <= Len(p) => p = q
           /\ IsPrefix(p, q) => Len(p) <= Len(q)
<1>1. Len(p) \in Nat /\ Len(q) \in Nat
  OBVIOUS
<1>2. IsPrefix(p, p)
  BY <1>1, PrefixIs
<1>3. ASSUME IsPrefix(p, q), Len(q) <= Len(p) PROVE p = q
  <2>1. Len(p) = Len(q) /\ \A i \in 1 .. Len(p) : p[i] = q[i]
    BY <1>1, <1>3, PrefixIs
  <2> QED
    BY <2>1
<1> QED
  BY <1>2, <1>3, PrefixIs

(* Places spelled plainly, of whatever names.                              *)
Plain(X) == {p \in Seq(X) : Canonical(p) = p}

(* What du counts at a place that is spelled plainly.                      *)
LEMMA WithinPlain ==
    ASSUME NEW X, Named \subseteq X, NEW p \in Plain(X), NEW n
    PROVE  /\ n \in Within(p) <=> /\ n \in Node /\ IsPrefix(p, n)
                                  /\ \A m \in Mounted : IsStrictPrefix(p, m) => ~IsPrefix(m, n)
           /\ n \in Within(p) => p \in Node
           /\ Node \subseteq Seq(X) /\ Mounted \subseteq Seq(X) /\ p \in Seq(X)
<1>1. Canonical(p) = p /\ p \in Seq(X)
  BY DEF Plain
<1>2. n \in Within(p) <=> /\ n \in Node /\ IsPrefix(p, n)
                          /\ \A m \in Mounted : IsStrictPrefix(p, m) => ~IsPrefix(m, n)
  BY <1>1 DEF Within
<1>3. Node \subseteq Seq(X) /\ Mounted \subseteq Seq(X)
  <2>1. Node \subseteq Seq(Named) /\ Mounted \subseteq Node
    BY AccountsAssumption
  <2>2. Seq(Named) \subseteq Seq(X)
    OBVIOUS
  <2> QED
    BY <2>1, <2>2
<1>4. ASSUME n \in Within(p) PROVE p \in Node
  <2>1. n \in Node /\ n \in Seq(X) /\ IsPrefix(p, n)
    BY <1>2, <1>3, <1>4
  <2>2. Len(p) \in Nat /\ Len(n) \in Nat /\ Len(p) <= Len(n) /\ SubSeq(p, 1, Len(p)) = SubSeq(n, 1, Len(p))
    BY <1>1, <2>1 DEF IsPrefix
  <2>3. SubSeq(p, 1, Len(p)) = p
    BY <1>1
  <2>4. CASE Len(p) = 0
    <3>1. p = <<>>
      BY <1>1, <2>4
    <3> QED
      BY <3>1, AccountsAssumption
  <2>5. CASE Len(p) # 0
    <3>1. Len(p) \in 1 .. Len(n)
      BY <2>2, <2>5
    <3> QED
      BY <2>1, <2>2, <2>3, <3>1, AccountsAssumption
  <2> QED
    BY <2>4, <2>5
<1> QED
  BY <1>1, <1>2, <1>3, <1>4

(* Two places, neither in the other, have nothing in common.               *)
LEMMA PlacesApart ==
    ASSUME NEW X, Named \subseteq X, NEW p \in Plain(X), NEW q \in Plain(X),
           ~IsPrefix(p, q), ~IsPrefix(q, p)
    PROVE  Within(p) \cap Within(q) = {}
<1> SUFFICES ASSUME NEW n, n \in Within(p), n \in Within(q) PROVE FALSE
  OBVIOUS
<1>1. IsPrefix(p, n) /\ IsPrefix(q, n) /\ n \in Seq(X) /\ p \in Seq(X) /\ q \in Seq(X)
  BY WithinPlain
<1> QED
  BY <1>1, PrefixesOfOne

(* What is in a place that lies in another, and is not hidden from it by a *)
(* mount, is in that one too.                                              *)
LEMMA PlaceInPlace ==
    ASSUME NEW X, Named \subseteq X, NEW p \in Plain(X), NEW q \in Plain(X),
           q \in Within(p)
    PROVE  Within(q) \subseteq Within(p)
<1> SUFFICES ASSUME NEW n \in Within(q) PROVE n \in Within(p)
  OBVIOUS
<1>1. /\ n \in Node /\ IsPrefix(q, n) /\ n \in Seq(X) /\ p \in Seq(X) /\ q \in Seq(X)
      /\ Mounted \subseteq Seq(X)
      /\ \A m \in Mounted : IsStrictPrefix(q, m) => ~IsPrefix(m, n)
  BY WithinPlain
<1>2. IsPrefix(p, q) /\ \A m \in Mounted : IsStrictPrefix(p, m) => ~IsPrefix(m, q)
  BY WithinPlain
<1>3. IsPrefix(p, n)
  BY <1>1, <1>2, PrefixOfPrefix
<1>4. ASSUME NEW m \in Mounted, IsStrictPrefix(p, m), IsPrefix(m, n) PROVE FALSE
  <2>1. ~IsPrefix(m, q)
    BY <1>2, <1>4
  <2>2. IsPrefix(q, m) /\ m # q
    <3>1. m \in Seq(X)
      BY <1>1
    <3>2. IsPrefix(m, q) \/ IsPrefix(q, m)
      BY <1>1, <1>4, <3>1, PrefixesOfOne
    <3>3. IsPrefix(q, q)
      BY <1>1, PrefixAndAll
    <3> QED
      BY <2>1, <3>2, <3>3
  <2> QED
    BY <1>1, <1>4, <2>2 DEF IsStrictPrefix
<1> QED
  BY <1>1, <1>3, <1>4, WithinPlain

(* du's figure is a number, and no less than any directory it counts.      *)
LEMMA DuIs ==
    ASSUME NEW held \in [Node -> Nat], NEW N \in SUBSET Node
    PROVE  /\ IsFiniteSet(N)
           /\ BytesOf(held, N) \in Nat
           /\ \A n \in N : held[n] <= BytesOf(held, N)
<1>1. IsFiniteSet(N) /\ \A n \in N : held[n] \in Nat
  BY FS_Subset, AccountsAssumption
<1>2. \A n \in N : held[n] <= SumFunctionOnSet(held, N)
  BY <1>1, SumCovers
<1> QED
  BY <1>1, <1>2, SumIsNat DEF BytesOf

(* Entries whose places have nothing in common hold what those places do.  *)
LEMMA ApartAddUp ==
    ASSUME NEW X, Named \subseteq X, NEW held \in [Node -> Nat],
           NEW E, IsFiniteSet(E),
           \A e \in E : e.path \in Plain(X) /\ e.bytes = Du(held, e.path),
           \A e \in E : \A f \in E : e # f => ~IsPrefix(e.path, f.path)
    PROVE  SumOf(E) = BytesOf(held, UNION {Within(e.path) : e \in E})
<1> DEFINE f == [e \in E |-> e.bytes]
           Places(T) == UNION {Within(e.path) : e \in T}
           G == {T \in SUBSET E : SumFunctionOnSet(f, T) = BytesOf(held, Places(T))}
<1>1. SumOf(E) = SumFunctionOnSet(f, E)
  BY DEF SumOf, SumFunction
<1>2. \A p : Within(p) \subseteq Node
  BY DEF Within
<1>3. \A e \in E : f[e] \in Nat /\ f[e] = BytesOf(held, Within(e.path))
  BY <1>2, DuIs DEF Du
<1> HIDE DEF f
<1>4. {} \in G
  <2>1. Places({}) = {}
    OBVIOUS
  <2>2. BytesOf(held, {}) = 0
    BY SumOfNone DEF BytesOf
  <2> QED
    BY <2>1, <2>2, SumOfNone
<1>5. ASSUME NEW T \in SUBSET E, T # {}, \A e \in T : T \ {e} \in G
      PROVE  T \in G
  <2>1. PICK e \in T : TRUE
    BY <1>5
  <2> DEFINE R == T \ {e}
  <2>2. SumFunctionOnSet(f, T) = f[e] + SumFunctionOnSet(f, R)
    <3>1. IsFiniteSet(T) /\ \A x \in T : f[x] \in Nat
      BY <1>3, FS_Subset
    <3> QED
      BY <2>1, <3>1, SumLess
  <2>3. SumFunctionOnSet(f, R) = BytesOf(held, Places(R))
    BY <1>5, <2>1
  <2>4. Places(T) = Within(e.path) \cup Places(R)
    BY <2>1
  <2>5. Within(e.path) \cap Places(R) = {}
    <3> SUFFICES ASSUME NEW r \in R PROVE Within(e.path) \cap Within(r.path) = {}
      OBVIOUS
    <3>1. e \in E /\ r \in E /\ e # r
      BY <2>1
    <3> QED
      BY <3>1, PlacesApart
  <2>6. BytesOf(held, Within(e.path) \cup Places(R)) = BytesOf(held, Within(e.path)) + BytesOf(held, Places(R))
    <3> DEFINE A == Within(e.path)
               B == Places(R)
    <3>1. A \subseteq Node /\ B \subseteq Node
      BY <1>2
    <3>2. A \cap B = {}
      BY <2>5
    <3> HIDE DEF A, B
    <3>3. IsFiniteSet(A) /\ IsFiniteSet(B) /\ \A n \in A \cup B : held[n] \in Nat
      BY <3>1, DuIs
    <3>4. SumFunctionOnSet(held, A \cup B) = SumFunctionOnSet(held, A) + SumFunctionOnSet(held, B)
      BY <3>2, <3>3, SumOfTwo
    <3> QED
      BY <3>4 DEF BytesOf, A, B
  <2>7. f[e] = BytesOf(held, Within(e.path))
    BY <1>3, <2>1
  <2> HIDE DEF R, Places
  <2> QED
    BY <2>2, <2>3, <2>4, <2>6, <2>7
<1>6. \A T \in SUBSET E : T \in G
  <2> HIDE DEF G
  <2> QED
    BY <1>4, <1>5, BuiltUp
<1> QED
  BY <1>1, <1>6

(* The entries that lie in no other one hold what their places do.         *)
LEMMA OutermostAddUp ==
    ASSUME NEW X, Named \subseteq X, NEW held \in [Node -> Nat], NEW E, IsFiniteSet(E),
           \A e \in E : e = [path |-> e.path, bytes |-> Du(held, e.path)] /\ e.path \in Plain(X)
    PROVE  LET T == {e \in E : ~Nested(e, E)}
           IN SumOf(T) = BytesOf(held, UNION {Within(e.path) : e \in T})
<1> DEFINE T == {e \in E : ~Nested(e, E)}
<1>1. IsFiniteSet(T)
  BY FS_Subset
<1>2. \A e \in T : /\ e \in E /\ e = [path |-> e.path, bytes |-> Du(held, e.path)]
                   /\ e.path \in Plain(X) /\ e.bytes = Du(held, e.path)
  OBVIOUS
<1>3. ASSUME NEW e \in T, NEW g \in T, e # g PROVE ~IsPrefix(e.path, g.path)
  <2>1. e.path # g.path
    BY <1>2, <1>3
  <2>2. ~IsStrictPrefix(e.path, g.path)
    BY <1>2 DEF Nested, PathContains
  <2> QED
    BY <2>1, <2>2 DEF IsStrictPrefix
<1> HIDE DEF T
<1>4. SumOf(T) = BytesOf(held, UNION {Within(e.path) : e \in T})
  BY <1>1, <1>2, <1>3, ApartAddUp
<1> QED
  BY <1>4 DEF T

(* There is an entry for every place that holds anything, with what du     *)
(* says of it, and mounts hide no place from another.                      *)
MeasuredIn(held, E, P) ==
    /\ \A e \in E : e = [path |-> e.path, bytes |-> Du(held, e.path)] /\ e.path \in P
    /\ \A p \in P : Du(held, p) = 0 \/ \E e \in E : e.path = p
    /\ \A p \in P : MountsHideNone(p, P)

(* Where mounts hide no place from another, the entries that lie in no     *)
(* other one hold what all the places do, if only empty ones are missing.  *)
LEMMA NestingAddsUp ==
    ASSUME NEW X, Named \subseteq X, NEW held \in [Node -> Nat],
           NEW P \in SUBSET Plain(X), NEW E, IsFiniteSet(E), MeasuredIn(held, E, P)
    PROVE  SumOf({e \in E : ~Nested(e, E)}) = BytesOf(held, UNION {Within(p) : p \in P})
<1>1. /\ \A e \in E : e = [path |-> e.path, bytes |-> Du(held, e.path)] /\ e.path \in P
      /\ \A p \in P : Du(held, p) = 0 \/ \E e \in E : e.path = p
      /\ \A p \in P : MountsHideNone(p, P)
  BY DEF MeasuredIn
<1> DEFINE T == {e \in E : ~Nested(e, E)}
           U == UNION {Within(e.path) : e \in T}
           W == UNION {Within(p) : p \in P}
<1>4. SumOf(T) = BytesOf(held, U)
  <2>1. \A e \in E : e = [path |-> e.path, bytes |-> Du(held, e.path)] /\ e.path \in Plain(X)
    BY <1>1
  <2> QED
    BY <2>1, OutermostAddUp
<1>5. U \subseteq W /\ W \subseteq Node
  BY <1>1 DEF Within
<1>6. ASSUME NEW n \in W, held[n] # 0 PROVE n \in U
  <2>1. PICK p \in P : n \in Within(p)
    OBVIOUS
  <2>2. Du(held, p) # 0
    <3>1. Within(p) \subseteq Node /\ held[n] \in Nat
      BY <1>5
    <3>2. held[n] <= Du(held, p) /\ Du(held, p) \in Nat
      BY <2>1, <3>1, DuIs DEF Du
    <3> QED
      BY <1>6, <3>1, <3>2
  <2>3. PICK a \in E : a.path = p
    BY <1>1, <2>2
  <2>4. \A e \in E : e.path \in Seq(X) /\ Len(e.path) \in Nat
    BY <1>1 DEF Plain
  <2> DEFINE L == {Len(e.path) : e \in {x \in E : IsPrefix(x.path, p)}}
  <2>5. L \in SUBSET Nat /\ L # {}
    <3>1. IsPrefix(p, p) /\ p \in Seq(X)
      BY <2>3, <2>4, PrefixAndAll
    <3> QED
      BY <2>3, <2>4, <3>1
  <2>6. PICK k \in L : \A j \in L : k <= j
    <3> HIDE DEF L
    <3> QED
      BY <2>5, Least
  <2>7. PICK o \in E : IsPrefix(o.path, p) /\ Len(o.path) = k
    BY <2>6
  <2>8. ~Nested(o, E)
    <3> SUFFICES ASSUME NEW x \in E, IsStrictPrefix(x.path, o.path) PROVE FALSE
      BY DEF Nested, PathContains
    <3>1. IsPrefix(x.path, o.path) /\ x.path # o.path
      BY DEF IsStrictPrefix
    <3>2. x.path \in Seq(X) /\ o.path \in Seq(X) /\ p \in Seq(X)
      BY <2>3, <2>4
    <3>3. IsPrefix(x.path, p)
      BY <2>7, <3>1, <3>2, PrefixOfPrefix
    <3>4. k <= Len(x.path)
      BY <2>6, <3>3
    <3>5. Len(o.path) <= Len(x.path)
      BY <2>7, <3>4
    <3> QED
      BY <3>1, <3>2, <3>5, PrefixAndAll
  <2>9. p \in Within(o.path)
    <3>1. p \in Node
      BY <2>1, WithinPlain
    <3>2. o.path \in P
      BY <1>1
    <3> QED
      BY <1>1, <2>7, <3>1, <3>2 DEF MountsHideNone
  <2>10. n \in Within(o.path)
    <3>1. p \in Plain(X) /\ o.path \in Plain(X)
      BY <1>1
    <3> QED
      BY <2>1, <2>9, <3>1, PlaceInPlace
  <2> QED
    BY <2>8, <2>10
<1>7. BytesOf(held, W) = BytesOf(held, U)
  <2> HIDE DEF W, U
  <2>1. IsFiniteSet(U) /\ IsFiniteSet(W \ U) /\ \A n \in U \cup (W \ U) : held[n] \in Nat
    <3>1. U \in SUBSET Node /\ W \ U \in SUBSET Node
      BY <1>5
    <3> QED
      BY <3>1, DuIs
  <2>2. W = U \cup (W \ U) /\ U \cap (W \ U) = {}
    BY <1>5
  <2>3. SumFunctionOnSet(held, U \cup (W \ U)) = SumFunctionOnSet(held, U) + SumFunctionOnSet(held, W \ U)
    BY <2>1, <2>2, SumOfTwo
  <2>4. SumFunctionOnSet(held, W \ U) = 0
    <3>1. \A n \in W \ U : held[n] = 0
      BY <1>6
    <3> QED
      BY <2>1, <3>1, SumOfZeros
  <2>5. SumFunctionOnSet(held, U) \in Nat
    BY <2>1, SumIsNat
  <2>6. SumFunctionOnSet(held, W) = SumFunctionOnSet(held, U) + 0
    BY <2>2, <2>3, <2>4
  <2>7. SumFunctionOnSet(held, W) = SumFunctionOnSet(held, U)
    BY <2>5, <2>6
  <2> QED
    BY <2>7 DEF BytesOf
<1> QED
  BY <1>4, <1>7

(* Entries in a place that no mount hides from it are no more than it.     *)
LEMMA NestingFits ==
    ASSUME NEW X, Named \subseteq X, NEW held \in [Node -> Nat],
           NEW E, IsFiniteSet(E), NEW place \in Plain(X),
           \A e \in E : e = [path |-> e.path, bytes |-> Du(held, e.path)] /\ e.path \in Plain(X),
           \A e \in E : Within(e.path) \subseteq Within(place)
    PROVE  SumOf({e \in E : ~Nested(e, E)}) <= Du(held, place)
<1> DEFINE T == {e \in E : ~Nested(e, E)}
           U == UNION {Within(e.path) : e \in T}
<1>4. SumOf(T) = BytesOf(held, U)
  BY OutermostAddUp
<1>5. U \subseteq Within(place) /\ Within(place) \subseteq Node
  BY DEF Within
<1>6. SumFunctionOnSet(held, U) <= SumFunctionOnSet(held, Within(place))
  <2> DEFINE W == Within(place)
  <2>1. IsFiniteSet(W) /\ \A n \in W : held[n] \in Nat
    BY <1>5, DuIs
  <2>2. U \in SUBSET W
    BY <1>5
  <2> HIDE DEF W, U
  <2>3. SumFunctionOnSet(held, U) <= SumFunctionOnSet(held, W)
    BY <2>1, <2>2, SumOfPart
  <2> QED
    BY <2>3 DEF W
<1> HIDE DEF T, U
<1>7. SumOf(T) <= Du(held, place)
  BY <1>4, <1>6 DEF BytesOf, Du
<1> QED
  BY <1>7 DEF T
----------------------------------------------------------------------------
(* The names a path that is measured may be made of.                       *)
Names == Named \cup {NoName, "root"}

(* A finite set can be put in an order.                                    *)
LEMMA SetInOrder ==
    ASSUME NEW S, IsFiniteSet(S)
    PROVE  SetToSeq(S) \in Seq(S)
<1>1. Cardinality(S) \in Nat /\ \E f : f \in Bijection(1 .. Cardinality(S), S)
  BY FS_CardinalityType DEF ExistsBijection
<1>2. \E f \in [1 .. Cardinality(S) -> S] : IsInjective(f)
  BY <1>1 DEF Bijection, Injection
<1>3. SetToSeq(S) \in [1 .. Cardinality(S) -> S]
  BY <1>2 DEF SetToSeq
<1> QED
  BY <1>1, <1>3

(* The homes paths are made for: finitely many, and names between slashes. *)
LEMMA HomesAre ==
    ASSUME NEW homes \in Homes
    PROVE  IsFiniteSet(homes) /\ homes # {} /\ homes \subseteq Seq(Names)
<1>1. IsFiniteSet(OnlyRoot) /\ OnlyRoot # {} /\ OnlyRoot \subseteq Seq(Names)
  <2>1. <<"root">> \in Seq(Names)
    BY DEF Names
  <2> QED
    BY <2>1, FS_Singleton DEF OnlyRoot
<1>2. ASSUME NEW lines \in Passwd
      PROVE  IsFiniteSet(HomeDirectories(lines)) /\ HomeDirectories(lines) \subseteq Seq(Names)
  <2> DEFINE L == {l \in lines : l.fields >= 6 /\ IsARealHome(l.home)}
             f == [line \in L |-> line.home]
  <2>1. IsFiniteSet(lines) /\ \A line \in lines : line.home \in Seq(Named \cup {NoName})
    BY CatalogueAssumption
  <2>2. IsFiniteSet(L)
    BY <2>1, FS_Subset
  <2>3. HomeDirectories(lines) = {line.home : line \in L}
    BY DEF HomeDirectories
  <2> HIDE DEF L
  <2>4. f \in Surjection(L, HomeDirectories(lines))
    BY <2>3 DEF Surjection
  <2>5. IsFiniteSet(HomeDirectories(lines))
    BY <2>2, <2>4, FS_Surjection
  <2>6. Seq(Named \cup {NoName}) \subseteq Seq(Names)
    BY DEF Names
  <2> QED
    BY <2>1, <2>3, <2>5, <2>6 DEF L
<1> QED
  BY <1>1, <1>2 DEF Homes, AllListed, ListedHomes

(* Every path that is measured is one of the catalogue's, in some home or  *)
(* as it stands.                                                           *)
LEMMA PathsAre ==
    ASSUME NEW homes \in Homes
    PROVE  PathsOf(homes) \in
              Seq(UNION {PathsFor(Catalogue[i], homes) : i \in DOMAIN Catalogue})
<1> DEFINE n == Len(Catalogue)
           All == UNION {PathsFor(Catalogue[i], homes) : i \in DOMAIN Catalogue}
           Next1(i, v) == v \o SetToSeq(PathsFor(Catalogue[i], homes))
           Folds(g) == g = [T \in SUBSET DOMAIN Catalogue |->
                              IF T = {} THEN <<>> ELSE Next1(Max(T), g[T \ {Max(T)}])]
           Combine == [p \in (1 .. n) \X Seq(All) |-> Next1(p[1], p[2])]
<1>1. PathsOf(homes) = (CHOOSE g : Folds(g))[DOMAIN Catalogue]
  BY DEF PathsOf, FoldLeft, MapThenFoldSet
<1>2. n \in Nat /\ DOMAIN Catalogue = 1 .. n
  BY CatalogueAssumption
<1>3. \A i \in 1 .. n : SetToSeq(PathsFor(Catalogue[i], homes)) \in Seq(All)
  <2> TAKE i \in 1 .. n
  <2> DEFINE P == PathsFor(Catalogue[i], homes)
             f == [home \in homes |-> home \o Catalogue[i].path]
  <2>1. IsFiniteSet(P)
    <3>1. CASE Catalogue[i].perUser
      <4>1. P = {home \o Catalogue[i].path : home \in homes}
        BY <3>1 DEF PathsFor
      <4>2. f \in Surjection(homes, P)
        BY <4>1 DEF Surjection
      <4> QED
        BY <4>2, HomesAre, FS_Surjection
    <3>2. CASE ~Catalogue[i].perUser
      <4>1. P = {Catalogue[i].path}
        BY <3>2 DEF PathsFor
      <4> QED
        BY <4>1, FS_Singleton
    <3> QED
      BY <3>1, <3>2
  <2>2. P \subseteq All
    BY <1>2
  <2> HIDE DEF P, All
  <2>3. SetToSeq(P) \in Seq(P) /\ Seq(P) \subseteq Seq(All)
    BY <2>1, <2>2, SetInOrder
  <2> QED
    BY <2>3 DEF P
<1> HIDE DEF n, All
<1>4. ASSUME NEW i \in 1 .. n, NEW v \in Seq(All)
      PROVE  Combine[<<i, v>>] = Next1(i, v) /\ Next1(i, v) \in Seq(All)
  <2>1. SetToSeq(PathsFor(Catalogue[i], homes)) \in Seq(All)
    BY <1>3
  <2>2. Next1(i, v) \in Seq(All)
    <3> DEFINE w == SetToSeq(PathsFor(Catalogue[i], homes))
    <3> HIDE DEF w
    <3>1. v \o w \in Seq(All)
      <4>1. w \in Seq(All)
        BY <2>1 DEF w
      <4> QED
        BY <4>1, ConcatProperties
    <3> QED
      BY <3>1 DEF w
  <2>3. <<i, v>> \in (1 .. n) \X Seq(All)
    OBVIOUS
  <2>4. <<i, v>>[1] = i /\ <<i, v>>[2] = v
    OBVIOUS
  <2>5. Combine[<<i, v>>] = Next1(i, v)
    <3> HIDE DEF Next1
    <3> QED
      BY <2>3, <2>4
  <2> QED
    BY <2>2, <2>5
<1>5. PICK h \in [SUBSET (1 .. n) -> Seq(All)] : LeftFolded(h, n, <<>>, Combine)
  <2> HIDE DEF Combine, Next1
  <2>1. <<>> \in Seq(All) /\ \A i \in 1 .. n : \A v \in Seq(All) : Combine[<<i, v>>] \in Seq(All)
    BY <1>4
  <2> QED
    BY <1>2, <2>1, LeftFoldExists
<1>6. ASSUME NEW T \in SUBSET (1 .. n), T # {}
      PROVE  h[T] = Next1(Max(T), h[T \ {Max(T)}]) /\ Max(T) \in T
  <2>1. Max(T) \in T /\ h[T \ {Max(T)}] \in Seq(All)
    BY <1>2, <1>6, MaxIs
  <2> HIDE DEF Combine, Next1
  <2> QED
    BY <1>4, <1>5, <1>6, <2>1 DEF LeftFolded
<1>7. h[{}] = <<>>
  BY <1>5 DEF LeftFolded
<1>8. Folds(h)
  <2> HIDE DEF Combine, Next1
  <2>1. \A T \in SUBSET (1 .. n) :
           h[T] = IF T = {} THEN <<>> ELSE Next1(Max(T), h[T \ {Max(T)}])
    BY <1>6, <1>7
  <2> QED
    BY <1>2, <1>5, <2>1
<1> DEFINE g == CHOOSE f : Folds(f)
<1>9. Folds(g)
  BY <1>8
<1>10. \A T \in SUBSET (1 .. n) : g[T] = IF T = {} THEN <<>> ELSE Next1(Max(T), g[T \ {Max(T)}])
  <2> HIDE DEF g, Next1
  <2> QED
    BY <1>2, <1>9
<1>11. PathsOf(homes) = g[1 .. n]
  BY <1>1, <1>2
<1> DEFINE N == {k \in Nat : k <= n => g[1 .. k] \in Seq(All)}
<1> HIDE DEF g, Folds, Combine, Next1
<1>12. 0 \in N
  <2>1. 1 .. 0 = {} /\ <<>> \in Seq(All)
    OBVIOUS
  <2>2. {} \in SUBSET (1 .. n)
    OBVIOUS
  <2>3. g[1 .. 0] = <<>>
    BY <1>10, <2>1, <2>2
  <2> QED
    BY <2>1, <2>3
<1>13. ASSUME NEW k \in Nat, k \in N PROVE k + 1 \in N
  <2> SUFFICES ASSUME k + 1 <= n PROVE g[1 .. (k + 1)] \in Seq(All)
    OBVIOUS
  <2>1. k \in 0 .. n - 1 /\ k + 1 \in 1 .. n /\ g[1 .. k] \in Seq(All)
    BY <1>2, <1>13
  <2>2. /\ Max(1 .. (k + 1)) = k + 1 /\ (1 .. (k + 1)) \ {k + 1} = 1 .. k
        /\ 1 .. (k + 1) # {} /\ 1 .. (k + 1) \in SUBSET (1 .. n)
    BY <1>2, <2>1, FoldedSoFar
  <2>3. g[1 .. (k + 1)] = Next1(k + 1, g[1 .. k])
    BY <1>10, <2>2
  <2> QED
    BY <1>4, <2>1, <2>3
<1>14. Nat \subseteq N
  <2> HIDE DEF N
  <2> QED
    BY <1>12, <1>13, CountedUp
<1> QED
  BY <1>2, <1>11, <1>14 DEF All

(* In homes spelled plainly every path is spelled plainly.                 *)
LEMMA PathsArePlain ==
    ASSUME NEW homes \in Homes, \A home \in homes : Canonical(home) = home,
           NEW p \in ToSet(PathsOf(homes))
    PROVE  p \in Plain(Names)
<1>1. PICK i \in DOMAIN Catalogue : p \in PathsFor(Catalogue[i], homes)
  <2> DEFINE All == UNION {PathsFor(Catalogue[j], homes) : j \in DOMAIN Catalogue}
  <2>1. PathsOf(homes) \in Seq(All)
    BY PathsAre
  <2>2. p \in All
    <3> HIDE DEF All
    <3> QED
      BY <2>1 DEF ToSet
  <2> QED
    BY <2>2
<1> DEFINE e == Catalogue[i]
<1>2. e.path \in Seq(Named) /\ \A j \in 1 .. Len(e.path) : e.path[j] # NoName
  <2>1. e \in [path : Seq(Named), perUser : BOOLEAN]
    <3> DEFINE R == [path : Seq(Named), perUser : BOOLEAN]
    <3> HIDE DEF R
    <3>1. Catalogue \in Seq(R)
      BY CatalogueAssumption DEF R
    <3>2. e \in R
      BY <3>1
    <3> QED
      BY <3>2 DEF R
  <2>2. e.path \in Seq(Named)
    BY <2>1
  <2> HIDE DEF e
  <2>3. \A j \in 1 .. Len(e.path) : e.path[j] \in Named
    BY <2>2
  <2> QED
    BY <2>2, <2>3, AccountsAssumption
<1>3. e.path \in Seq(Names)
  BY <1>2 DEF Names
<1> HIDE DEF e
<1>4. CASE p = e.path
  BY <1>2, <1>3, <1>4, PlainIsCanonical DEF Plain
<1>5. ASSUME NEW home \in homes, p = home \o e.path PROVE p \in Plain(Names)
  <2>1. home \in Seq(Names) /\ Canonical(home) = home
    BY HomesAre
  <2>2. \A j \in 1 .. Len(home) : home[j] # NoName
    BY <2>1, PlainIsCanonical
  <2>3. p \in Seq(Names) /\ Len(p) = Len(home) + Len(e.path) /\ Len(home) \in Nat /\ Len(e.path) \in Nat
    BY <1>3, <1>5, <2>1
  <2>4. ASSUME NEW j \in 1 .. Len(p) PROVE p[j] # NoName
    <3>1. CASE j \in 1 .. Len(home)
      BY <1>3, <1>5, <2>1, <2>2, <3>1
    <3>2. CASE j \notin 1 .. Len(home)
      <4>1. j - Len(home) \in 1 .. Len(e.path)
        BY <2>3, <3>2
      <4>2. p[j] = e.path[j - Len(home)]
        BY <1>3, <1>5, <2>1, <2>3, <3>2
      <4> QED
        BY <1>2, <4>1, <4>2
    <3> QED
      BY <3>1, <3>2
  <2> QED
    BY <2>3, <2>4, PlainIsCanonical DEF Plain
<1> QED
  BY <1>1, <1>4, <1>5 DEF PathsFor, e

(* Digits typed after a point are read as the number they make up: none,   *)
(* and the one a printed size has.                                         *)
LEMMA DigitsAreRead ==
    ASSUME NEW t \in Nat
    PROVE  /\ Numerator(<<>>) = 0 /\ Denominator(<<>>) = 1
           /\ Numerator(<<t>>) = t /\ Denominator(<<t>>) = 10
<1> DEFINE one == <<t>>
           Nums(g) == g = [T \in SUBSET (1 .. 1) |->
                             IF T = {} THEN 0 ELSE g[T \ {Max(T)}] * 10 + one[Max(T)]]
           Dens(g) == g = [T \in SUBSET (1 .. 1) |->
                             IF T = {} THEN 1 ELSE g[T \ {Max(T)}] * 10]
           n == [T \in SUBSET (1 .. 1) |-> IF T = {} THEN 0 ELSE t]
           d == [T \in SUBSET (1 .. 1) |-> IF T = {} THEN 1 ELSE 10]
           noNums(g) == g = [T \in SUBSET {} |->
                               IF T = {} THEN 0 ELSE g[T \ {Max(T)}] * 10 + <<>>[Max(T)]]
           noDens(g) == g = [T \in SUBSET {} |-> IF T = {} THEN 1 ELSE g[T \ {Max(T)}] * 10]
<1>1. /\ Numerator(one) = (CHOOSE g : Nums(g))[1 .. 1]
      /\ Denominator(one) = (CHOOSE g : Dens(g))[1 .. 1]
  <2>1. DOMAIN one = 1 .. 1
    OBVIOUS
  <2> HIDE DEF one
  <2> QED
    BY <2>1 DEF Numerator, Denominator, FoldLeft, MapThenFoldSet
<1>2. /\ Numerator(<<>>) = (CHOOSE g : noNums(g))[{}]
      /\ Denominator(<<>>) = (CHOOSE g : noDens(g))[{}]
  <2>1. DOMAIN <<>> = {}
    OBVIOUS
  <2> QED
    BY <2>1 DEF Numerator, Denominator, FoldLeft, MapThenFoldSet
<1>3. \A T \in SUBSET (1 .. 1) : T = {} \/ (T = 1 .. 1 /\ Max(T) = 1 /\ T \ {Max(T)} = {})
  <2> TAKE T \in SUBSET (1 .. 1)
  <2>1. T # {} => Max(T) \in T
    BY MaxIs
  <2>2. 1 .. 1 = {1}
    OBVIOUS
  <2>3. T # {} => T = {1}
    BY <2>2
  <2>4. {1} \ {1} = {}
    OBVIOUS
  <2> QED
    BY <2>1, <2>2, <2>3, <2>4
<1>4. Nums(n) /\ Dens(d)
  <2>1. one[1] = t /\ {} \in SUBSET (1 .. 1)
    OBVIOUS
  <2> HIDE DEF one
  <2>2. \A T \in SUBSET (1 .. 1) : n[T] = IF T = {} THEN 0 ELSE n[T \ {Max(T)}] * 10 + one[Max(T)]
    BY <1>3, <2>1
  <2>3. \A T \in SUBSET (1 .. 1) : d[T] = IF T = {} THEN 1 ELSE d[T \ {Max(T)}] * 10
    BY <1>3, <2>1
  <2>4. n = [T \in SUBSET (1 .. 1) |-> n[T]] /\ d = [T \in SUBSET (1 .. 1) |-> d[T]]
    OBVIOUS
  <2> HIDE DEF n, d
  <2> QED
    BY <2>2, <2>3, <2>4
<1>5. \E g : noNums(g)
  <2>1. noNums([T \in SUBSET {} |-> 0])
    OBVIOUS
  <2> QED
    BY <2>1
<1>6. \E g : noDens(g)
  <2>1. noDens([T \in SUBSET {} |-> 1])
    OBVIOUS
  <2> QED
    BY <2>1
<1>7. Numerator(<<>>) = 0 /\ Denominator(<<>>) = 1
  <2>1. noNums(CHOOSE g : noNums(g)) /\ noDens(CHOOSE g : noDens(g))
    BY <1>5, <1>6
  <2>2. \A g : noNums(g) => g[{}] = 0
    OBVIOUS
  <2>3. \A g : noDens(g) => g[{}] = 1
    OBVIOUS
  <2> HIDE DEF noNums, noDens
  <2> QED
    BY <1>2, <2>1, <2>2, <2>3
<1>8. Numerator(one) = t /\ Denominator(one) = 10
  <2>1. Nums(CHOOSE g : Nums(g)) /\ Dens(CHOOSE g : Dens(g))
    <3> HIDE DEF Nums, Dens, n, d
    <3> QED
      BY <1>4
  <2>2. one[1] = t /\ 1 .. 1 # {}
    OBVIOUS
  <2> HIDE DEF one
  <2>3. /\ {} \in SUBSET (1 .. 1) /\ 1 .. 1 \in SUBSET (1 .. 1)
        /\ Max(1 .. 1) = 1 /\ (1 .. 1) \ {Max(1 .. 1)} = {}
    BY <1>3, <2>2
  <2>4. ASSUME NEW g, Nums(g) PROVE g[1 .. 1] = t
    <3>1. g[{}] = 0
      BY <2>3, <2>4
    <3>2. g[1 .. 1] = g[{}] * 10 + one[1]
      BY <2>2, <2>3, <2>4
    <3> QED
      BY <2>2, <3>1, <3>2
  <2>5. ASSUME NEW g, Dens(g) PROVE g[1 .. 1] = 10
    <3>1. g[{}] = 1
      BY <2>3, <2>5
    <3>2. g[1 .. 1] = g[{}] * 10
      BY <2>2, <2>3, <2>5
    <3> QED
      BY <3>1, <3>2
  <2> HIDE DEF Nums, Dens
  <2> QED
    BY <1>1, <2>1, <2>4, <2>5
<1> QED
  BY <1>7, <1>8 DEF one

(* A printed size is read back as what is typed: its tenths are the first  *)
(* digit after the point.                                                  *)
LEMMA PrintedIsTyped ==
    ASSUME NEW bytes \in 0 .. Word
    PROVE  LET text == FormatSize(bytes)
           IN Reread(text) = ParseSize(text.whole, IF text.tenths = NoTenths THEN <<>>
                                                   ELSE <<text.tenths>>, text.unit)
<1> DEFINE text == FormatSize(bytes)
<1>1. text.tenths \in Nat
  <2>1. CASE bytes < Kilo
    BY <2>1 DEF FormatSize, NoTenths
  <2>2. CASE bytes >= Kilo
    <3> DEFINE m == Multiplier[LargestUnit(bytes)]
    <3>1. LargestUnit(bytes) \in Unit
      BY <2>2, LargestUnitFits, FiguresAssumption
    <3>2. m \in Nat /\ m > 0 /\ bytes \in Nat /\ Kilo \in Nat
      BY <3>1, UnitsArePositive
    <3> HIDE DEF m
    <3>3. (bytes % m) * 10 \in Nat
      BY <3>2, Division
    <3>4. ((bytes % m) * 10) \div m \in Nat
      BY <3>2, <3>3, Division
    <3> QED
      BY <2>2, <3>2, <3>4 DEF FormatSize, Tenths, m
  <2> QED
    BY <2>1, <2>2, UnitsArePositive
<1> DEFINE t == text.tenths
<1>2. Precision \in Nat /\ Precision > 0
  BY FiguresAssumption
<1>3. SubSeq(<<>>, 1, IF Len(<<>>) < Precision THEN Len(<<>>) ELSE Precision) = <<>>
  BY <1>2
<1>4. SubSeq(<<t>>, 1, IF Len(<<t>>) < Precision THEN Len(<<t>>) ELSE Precision) = <<t>>
  <2> HIDE DEF t
  <2>1. Len(<<t>>) = 1 /\ (IF 1 < Precision THEN 1 ELSE Precision) = 1
    BY <1>2
  <2>2. <<t>> \in Seq({t}) /\ Len(<<t>>) = 1
    OBVIOUS
  <2> DEFINE s == <<t>>
  <2> HIDE DEF s
  <2>3. s \in Seq({t}) /\ Len(s) = 1 => SubSeq(s, 1, 1) = s
    OBVIOUS
  <2>4. SubSeq(<<t>>, 1, 1) = <<t>>
    BY <2>2, <2>3 DEF s
  <2> QED
    BY <2>1, <2>4
<1>5. CASE t = NoTenths
  <2>1. ParseSize(text.whole, <<>>, text.unit) = SizeOf(text.whole, 0, 1, text.unit)
    BY <1>1, <1>3, DigitsAreRead DEF ParseSize
  <2> QED
    BY <1>5, <2>1 DEF Reread
<1>6. CASE t # NoTenths
  <2>1. ParseSize(text.whole, <<t>>, text.unit) = SizeOf(text.whole, t, 10, text.unit)
    <3>1. Numerator(<<t>>) = t /\ Denominator(<<t>>) = 10
      BY <1>1, DigitsAreRead
    <3> HIDE DEF t
    <3> QED
      BY <1>4, <3>1 DEF ParseSize
  <2> QED
    BY <1>6, <2>1 DEF Reread
<1> QED
  BY <1>5, <1>6

(* What is read out of what df and fstrim print fits a word.               *)
LEMMA ReadFiguresFit ==
    ASSUME NEW printed
    PROVE  /\ ParseDf(printed).used \in {Unknown} \cup 0 .. Word
           /\ ParseTrimmedBytes(printed) \in {Unknown} \cup 0 .. Word
<1>1. \A token : ToNumber(token) \in {Unknown} \cup 0 .. Word
  BY DEF ToNumber
<1>2. ParseTrimmedBytes(printed) \in {Unknown} \cup 0 .. Word
  BY <1>1 DEF ParseTrimmedBytes
<1>3. ParseDf(printed).used \in {Unknown} \cup 0 .. Word
  BY <1>1 DEF ParseDf, NoUsage
<1> QED
  BY <1>2, <1>3

(* The rows a table is cut to are rows of it.                              *)
LEMMA CutIsPart ==
    ASSUME NEW S, NEW top, NEW kept \in Largest(S, top)
    PROVE  kept \subseteq S
BY DEF Largest, kSubset

(* Places, none of which holds more than the whole guest, are together no  *)
(* more than a word, since so often the whole guest is not.                *)
LEMMA CountedFits ==
    ASSUME NEW homes \in Homes, NEW E, IsFiniteSet(E),
           Cardinality(E) <= Len(PathsOf(homes)), Len(PathsOf(homes)) \in Nat,
           \A e \in E : e.bytes \in Nat /\ \E tree \in Tree : e.bytes <= BytesOf(tree, Node)
    PROVE  Counted(E) \in 0 .. Word
<1> DEFINE L == Len(PathsOf(homes))
           m == Word \div L
           T == {e \in E : ~Nested(e, E)}
           f == [e \in T |-> e.bytes]
<1>1. Word \in Nat /\ Cardinality(E) \in Nat
  BY UnitsArePositive, FS_CardinalityType
<1>2. IsFiniteSet(T) /\ Cardinality(T) \in Nat /\ Cardinality(T) <= L
  <2>1. T \subseteq E
    OBVIOUS
  <2> HIDE DEF T
  <2>2. IsFiniteSet(T) /\ Cardinality(T) <= Cardinality(E)
    BY <2>1, FS_Subset
  <2> QED
    BY <1>1, <2>2, FS_CardinalityType
<1>3. Counted(E) = SumFunctionOnSet(f, T)
  BY DEF Counted, SumOf, SumFunction
<1>4. \A e \in T : f[e] \in Nat /\ f[e] = e.bytes
  OBVIOUS
<1>5. SumFunctionOnSet(f, T) \in Nat
  BY <1>2, <1>4, SumIsNat
<1>6. CASE L = 0
  <2>1. T = {}
    <3> HIDE DEF T
    <3>1. Cardinality(T) = 0
      BY <1>2, <1>6
    <3> QED
      BY <1>2, <3>1, FS_EmptySet
  <2>2. Counted(E) = 0
    <3> HIDE DEF T
    <3> QED
      BY <1>3, <2>1, SumOfNone
  <2> QED
    BY <1>1, <2>2
<1>7. CASE L # 0
  <2>1. L \in Nat /\ L > 0
    BY <1>7
  <2> HIDE DEF L
  <2>2. m \in Nat /\ L * m <= Word
    <3>1. m \in Nat /\ Word % L \in Nat /\ Word = L * m + (Word % L)
      BY <1>1, <2>1, Division
    <3> HIDE DEF m
    <3>2. L * m \in Nat
      BY <2>1, <3>1
    <3> QED
      BY <1>1, <3>1, <3>2
  <2>3. ASSUME NEW e \in T PROVE f[e] <= m
    <3>1. PICK tree \in Tree : e.bytes <= BytesOf(tree, Node)
      OBVIOUS
    <3> DEFINE b == BytesOf(tree, Node)
    <3>2. b \in Nat /\ L * b <= Word
      <4>1. tree \in [Node -> Nat]
        BY ReportsAssumption
      <4> QED
        BY <4>1, DuIs, CatalogueAssumption DEF L
    <3> HIDE DEF b
    <3>3. b <= m
      <4> SUFFICES ASSUME ~(b <= m) PROVE FALSE
        OBVIOUS
      <4>1. Word < L * (m + 1)
        <5>1. m \in Nat /\ Word % L \in Nat /\ Word % L < L /\ Word = L * m + (Word % L)
          BY <1>1, <2>1, Division
        <5> HIDE DEF m
        <5>2. L * (m + 1) = L * m + L /\ L * m \in Nat
          BY <2>1, <5>1
        <5> QED
          BY <1>1, <2>1, <5>1, <5>2
      <4>2. L * (m + 1) <= L * b
        <5> HIDE DEF m
        <5>1. m + 1 <= b /\ m + 1 \in Nat
          BY <2>2, <3>2
        <5> QED
          BY <2>1, <3>2, <5>1, Monotone
      <4> HIDE DEF m
      <4>3. L * (m + 1) \in Nat /\ L * b \in Nat
        BY <2>1, <2>2, <3>2
      <4> QED
        BY <1>1, <3>2, <4>1, <4>2, <4>3
    <3> HIDE DEF m
    <3>4. e.bytes \in Nat /\ e.bytes <= b /\ f[e] = e.bytes
      BY <3>1 DEF b
    <3> HIDE DEF T, f
    <3> QED
      BY <2>2, <3>2, <3>3, <3>4
  <2>4. SumFunctionOnSet(f, T) <= Cardinality(T) * m
    <3> HIDE DEF m, T, f
    <3> QED
      BY <1>2, <1>4, <2>2, <2>3, SumIsBounded
  <2>5. Cardinality(T) * m <= L * m
    <3> HIDE DEF m, T
    <3>1. m * Cardinality(T) <= m * L
      BY <1>2, <2>1, <2>2, Monotone
    <3> QED
      BY <1>2, <2>1, <2>2, <3>1
  <2> HIDE DEF m, T, f
  <2>6. Cardinality(T) * m \in Nat /\ L * m \in Nat
    BY <1>2, <2>1, <2>2
  <2> QED
    BY <1>1, <1>3, <1>5, <2>2, <2>4, <2>5, <2>6
<1> QED
  BY <1>6, <1>7

----------------------------------------------------------------------------
(* A guest runs from the disk its entry names, and no two entries name the *)
(* same one: nothing a command that only reports does, or the user, makes  *)
(* it otherwise.                                                           *)
GuestsAtHome ==
    /\ GuestsHaveDisks
    /\ \A g \in Distro : guest[g] # Off => guest[g] = Home(g)
    /\ \A g, h \in Distro : g # h => Home(g) # Home(h)

(* Where each command is, and what it knows there.                         *)
RowSteps == {"exists", "open", "close", "guest", "df"}
GuestSteps == {"totals", "homes", "measure", "walk", "fstrim", "again"}

OnCourse ==
    /\ todo \in Seq(Distro)
    /\ pc \in {"running", "next"} \cup RowSteps => Looks
    /\ pc \in RowSteps => now \in Wsl2 /\ now \in DOMAIN rows
    /\ pc \in GuestSteps => ~Looks /\ ~job.dryRun /\ job.name = now /\ now \in Wsl2
    /\ pc = "df" => now \in seenUp \/ Probes(now)
    /\ pc = "exists" => rows[now].used = Unknown
    /\ report.homes # {} => pc \in {"measure", "walk", "done"}
    /\ pc # "done" => report.trimmed = Unknown

(* A row and a report keep their columns, and what each guest has printed  *)
(* is kept apart.                                                          *)
ColumnsStay ==
    /\ DOMAIN told = Distro
    /\ rows = [d \in DOMAIN rows |-> rows[d]]
    /\ \A d \in DOMAIN rows : rows[d] = [f \in DOMAIN Blank |-> rows[d][f]]
    /\ report = [f \in DOMAIN NoReport |-> report[f]]

(* What FiguresAreTheGuests says of the rows, and what it says of the      *)
(* report.                                                                 *)
RowsAreTold ==
    \A d \in DOMAIN rows :
        /\ [used |-> rows[d].used, free |-> rows[d].free] \in told[d] \cup {NoUsage}
        /\ rows[d].reclaimable = Reclaimable(rows[d].onDisk, rows[d].used)

TotalsAreTold == report.noted \/ [used |-> report.used, free |-> report.free] \in told[now]

ReportIsTold ==
    /\ pc \in {"homes", "measure", "walk"} \/ (pc = "done" /\ report.homes # {}) => TotalsAreTold
    /\ report.trimmed # Unknown => [trimmed |-> report.trimmed] \in told[now]

IInv == TypeOK /\ GuestsAtHome /\ OnCourse /\ OnlyTheAskedIsStarted /\ ColumnsStay
        /\ RowsAreTold /\ ReportIsTold

(* No command begins anywhere else.                                        *)
LEMMA ReportsStart == Init => IInv
<1> SUFFICES ASSUME Init PROVE IInv
  OBVIOUS
<1>1. MachineTypeOK /\ GuestsHaveDisks
  BY MachineStarts DEF Init
<1>2. TypeOK
  <2>1. handles = {} /\ changes \in 0 .. Changes
    BY ReportsAssumption DEF Init, MachineInit
  <2>2. DOMAIN rows = {}
    BY DEF Init
  <2> QED
    BY <1>1, <2>1, <2>2 DEF Init, TypeOK
<1>3. GuestsAtHome
  BY <1>1 DEF Init, MachineInit, GuestsAtHome
<1>4. OnCourse /\ OnlyTheAskedIsStarted
  BY DEF Init, OnCourse, OnlyTheAskedIsStarted, RowSteps, GuestSteps, NoReport
<1>5. ColumnsStay /\ RowsAreTold /\ ReportIsTold
  <2>1. /\ rows = <<>> /\ DOMAIN rows = {} /\ report = NoReport
        /\ DOMAIN told = Distro /\ pc = "enumerate"
    BY DEF Init
  <2>2. rows = [d \in DOMAIN rows |-> rows[d]]
    BY <2>1
  <2>3. /\ NoReport = [f \in DOMAIN NoReport |-> NoReport[f]]
        /\ NoReport.trimmed = Unknown
    BY DEF NoReport
  <2> QED
    BY <2>1, <2>2, <2>3 DEF ColumnsStay, RowsAreTold, ReportIsTold
<1> QED
  BY <1>2, <1>3, <1>4, <1>5 DEF IInv

(* What becomes of the machine when a program is run in a guest.           *)
LEMMA ProgramRuns ==
    ASSUME MachineTypeOK, GuestsAtHome, NEW d \in Wsl2, Outside,
           Ran(d) \/ RanForNothing(d) \/ CouldNotRun(d)
    PROVE  /\ MachineTypeOK' /\ GuestsAtHome'
           /\ UNCHANGED <<handles, registry, job, own, changes>>
           /\ started' \subseteq started \cup ({d} \ Running)
<1>1. d \in Distro
  BY WslAssumption
<1>2. UNCHANGED <<files, registry, handles, written, job, own, changes>>
  BY DEF Outside
<1>3. RunsIn(d) \/ CannotRunIn(d) \/ MayHaveRunIn(d)
  BY DEF Ran, RanForNothing, CouldNotRun
<1>4. /\ guest' \in [Distro -> Path \cup {Off}] /\ attached' \subseteq Path
      /\ GuestsHaveDisks'
      /\ \A e \in Distro \ {d} : guest'[e] = guest[e]
      /\ guest'[d] \in {guest[d], Home(d)}
  BY <1>1, <1>2, <1>3, BootTyped DEF GuestsAtHome
<1>5. \A e : UNCHANGED Home(e)
  BY <1>2 DEF Home
<1>6. started' \subseteq started \cup ({d} \ Running)
  BY DEF Ran, RanForNothing, CouldNotRun
<1>7. GuestsAtHome'
  BY <1>1, <1>4, <1>5 DEF GuestsAtHome
<1> QED
  BY <1>2, <1>4, <1>6, <1>7 DEF MachineTypeOK

(* Asking from outside: what runs stays as it is.                          *)
LEMMA OutsideStays ==
    ASSUME GuestsAtHome, UNCHANGED <<files, registry, guest>>
    PROVE  GuestsAtHome' /\ UNCHANGED Running /\ \A d : UNCHANGED Home(d)
BY DEF GuestsAtHome, GuestsHaveDisks, Exists, Running, Home

(* What the programs in the guests have printed stays printed.             *)
ToldGrows == DOMAIN told' = Distro /\ \A d \in Distro : told[d] \subseteq told'[d]

(* A row whose figures d's programs have printed comes into the table.     *)
RowComes(d, row) ==
    /\ row = [f \in DOMAIN Blank |-> row[f]]
    /\ [used |-> row.used, free |-> row.free] \in told'[d] \cup {NoUsage}
    /\ row.reclaimable = Reclaimable(row.onDisk, row.used)
    /\ rows' = [g \in DOMAIN rows \cup {d} |-> IF g = d THEN row ELSE rows[g]]

(* A row is put in or replaced.                                            *)
LEMMA RowChanges ==
    ASSUME ColumnsStay, RowsAreTold, DOMAIN rows \subseteq Distro, ToldGrows, UNCHANGED report,
           NEW d \in Distro, NEW row, RowComes(d, row)
    PROVE  ColumnsStay' /\ RowsAreTold' /\ DOMAIN rows' = DOMAIN rows \cup {d}
<1>1. \A g \in DOMAIN rows : rows[g] = [f \in DOMAIN Blank |-> rows[g][f]]
  BY DEF ColumnsStay
<1>2. /\ DOMAIN rows' = DOMAIN rows \cup {d} /\ rows' = [g \in DOMAIN rows' |-> rows'[g]]
      /\ \A g \in DOMAIN rows' : rows'[g] = IF g = d THEN row ELSE rows[g]
  BY DEF RowComes
<1>3. \A g \in DOMAIN rows' : rows'[g] = [f \in DOMAIN Blank |-> rows'[g][f]]
  BY <1>1, <1>2 DEF RowComes
<1>4. ColumnsStay'
  BY <1>2, <1>3 DEF ColumnsStay, ToldGrows
<1>5. ASSUME NEW g \in DOMAIN rows'
      PROVE  /\ [used |-> rows'[g].used, free |-> rows'[g].free] \in told'[g] \cup {NoUsage}
             /\ rows'[g].reclaimable = Reclaimable(rows'[g].onDisk, rows'[g].used)
  <2>1. CASE g = d
    BY <1>2, <2>1 DEF RowComes
  <2>2. CASE g # d
    <3>1. g \in DOMAIN rows /\ rows'[g] = rows[g] /\ told[g] \subseteq told'[g]
      BY <1>2, <2>2 DEF ToldGrows
    <3>2. /\ [used |-> rows[g].used, free |-> rows[g].free] \in told[g] \cup {NoUsage}
          /\ rows[g].reclaimable = Reclaimable(rows[g].onDisk, rows[g].used)
      BY <3>1 DEF RowsAreTold
    <3> QED
      BY <3>1, <3>2
  <2> QED
    BY <2>1, <2>2
<1>6. RowsAreTold'
  BY <1>5 DEF RowsAreTold
<1> QED
  BY <1>2, <1>4, <1>6

(* One figure of a row is filled in, before df is asked.                   *)
LEMMA FieldChanges ==
    ASSUME ColumnsStay, RowsAreTold, DOMAIN rows \subseteq Distro, UNCHANGED <<report, told>>,
           NEW d \in DOMAIN rows, NEW field \in {"onDisk", "geometry"}, NEW value,
           field = "onDisk" => rows[d].used = Unknown,
           rows' = [rows EXCEPT ![d] = [rows[d] EXCEPT ![field] = value]]
    PROVE  ColumnsStay' /\ RowsAreTold' /\ DOMAIN rows' = DOMAIN rows
<1> DEFINE row == [rows[d] EXCEPT ![field] = value]
<1>1. /\ rows[d] = [f \in DOMAIN Blank |-> rows[d][f]]
      /\ DOMAIN Blank = {"state", "onDisk", "geometry", "used", "free", "reclaimable"}
  BY DEF ColumnsStay, Blank
<1>2. /\ row = [f \in DOMAIN Blank |-> row[f]] /\ row.used = rows[d].used /\ row.free = rows[d].free
      /\ row.reclaimable = rows[d].reclaimable
      /\ row.onDisk = rows[d].onDisk \/ rows[d].used = Unknown
  BY <1>1
<1> HIDE DEF row
<1>3. /\ [used |-> row.used, free |-> row.free] \in told'[d] \cup {NoUsage}
      /\ row.reclaimable = Reclaimable(row.onDisk, row.used)
  <2>1. /\ [used |-> rows[d].used, free |-> rows[d].free] \in told[d] \cup {NoUsage}
        /\ rows[d].reclaimable = Reclaimable(rows[d].onDisk, rows[d].used)
    BY DEF RowsAreTold
  <2>2. Reclaimable(row.onDisk, row.used) = Reclaimable(rows[d].onDisk, rows[d].used)
    BY <1>2 DEF Reclaimable
  <2> QED
    BY <1>2, <2>1, <2>2
<1>4. rows' = [g \in DOMAIN rows \cup {d} |-> IF g = d THEN row ELSE rows[g]]
  BY DEF ColumnsStay, row
<1>5. ToldGrows /\ d \in Distro
  BY DEF ToldGrows, ColumnsStay
<1>6. ColumnsStay' /\ RowsAreTold' /\ DOMAIN rows' = DOMAIN rows \cup {d}
  <2>1. row = [f \in DOMAIN Blank |-> row[f]] /\ UNCHANGED report
    BY <1>2
  <2>2. d \in Distro /\ ToldGrows
    BY <1>5
  <2>3. RowComes(d, row)
    BY <1>3, <1>4, <2>1 DEF RowComes
  <2> QED
    BY <2>1, <2>2, <2>3, RowChanges
<1> QED
  BY <1>6

(* The table stays while more is told.                                     *)
LEMMA RowsStay ==
    ASSUME ColumnsStay, RowsAreTold, DOMAIN rows \subseteq Distro, ToldGrows, UNCHANGED rows,
           report' = [f \in DOMAIN NoReport |-> report'[f]]
    PROVE  ColumnsStay' /\ RowsAreTold' /\ UNCHANGED DOMAIN rows
<1>1. ColumnsStay'
  BY DEF ColumnsStay, ToldGrows
<1>2. \A d \in DOMAIN rows : told[d] \subseteq told'[d]
  BY DEF ToldGrows
<1>3. RowsAreTold'
  BY <1>2 DEF RowsAreTold
<1> QED
  BY <1>1, <1>3

(* What is asked of the machine without running a program in a guest.      *)
LEMMA MachineIsAsked ==
    ASSUME IInv, \/ Enumerate \/ AskRunning \/ NextRow \/ LastRowDone \/ MeasureFile
                 \/ OpenDisk \/ CloseDisk \/ AskGuest \/ AccountForNesting
    PROVE  /\ MachineTypeOK' /\ GuestsAtHome'
           /\ UNCHANGED <<Running, job, own, changes, started, told>>
           /\ seenUp \subseteq seenUp' /\ seenUp' \subseteq Distro
           /\ handles' = IF pc' = "close" THEN {Mine'} ELSE {}
<1>1. /\ UNCHANGED <<files, registry, guest, attached, written, job, own, changes, started, told>>
      /\ seenUp \subseteq seenUp' /\ seenUp' \subseteq Distro
  <2>1. Running \subseteq Distro /\ seenUp \subseteq Distro
    BY DEF IInv, TypeOK, Running
  <2> QED
    BY <2>1 DEF Enumerate, AskRunning, NextRow, LastRowDone, MeasureFile, OpenDisk, CloseDisk,
                AskGuest, AccountForNesting, NotRun, Outside, UsageStays
<1>2. GuestsAtHome' /\ UNCHANGED Running /\ \A d : UNCHANGED Home(d)
  BY <1>1, OutsideStays DEF IInv
<1>3. \A d \in Wsl2 : Home(d) \in Path
  BY EntriesResolve, WslAssumption DEF IInv, TypeOK, MachineTypeOK, Home
<1>4. handles' = (IF pc' = "close" THEN {Mine'} ELSE {}) /\ handles' \subseteq Handle
  <2>1. CASE OpenDisk
    <3>1. handles = {} /\ UNCHANGED now /\ now \in Wsl2
      BY <2>1 DEF IInv, TypeOK, OnCourse, RowSteps, OpenDisk
    <3>2. Mine' = Mine /\ Mine \in Handle
      BY <1>2, <1>3, <3>1, ReportsAssumption DEF Mine, Handle
    <3> QED
      BY <2>1, <3>1, <3>2 DEF OpenDisk, Goto
  <2>2. CASE CloseDisk
    BY <2>2 DEF IInv, TypeOK, CloseDisk, Goto
  <2>3. CASE \/ Enumerate \/ AskRunning \/ NextRow \/ LastRowDone \/ MeasureFile
             \/ AskGuest \/ AccountForNesting
    <3>1. handles = {} /\ UNCHANGED handles
      BY <2>3 DEF IInv, TypeOK, Enumerate, AskRunning, NextRow, LastRowDone, MeasureFile,
                  AskGuest, AccountForNesting, Outside
    <3>2. pc' # "close"
      BY <2>3 DEF Enumerate, AskRunning, NextRow, LastRowDone, MeasureFile,
                  AskGuest, AccountForNesting, Goto, End
    <3> QED
      BY <3>1, <3>2
  <2> QED
    BY <2>1, <2>2, <2>3
<1>5. MachineTypeOK'
  BY <1>1, <1>4 DEF IInv, TypeOK, MachineTypeOK
<1> QED
  BY <1>1, <1>2, <1>4, <1>5

Steps == {"enumerate", "running", "next", "exists", "open", "close", "guest", "df",
          "totals", "homes", "measure", "walk", "fstrim", "again", "done"}
Outcomes == {"none", "ok", "not found", "preflight", "error"}

(* A step that leaves the table alone, or carries it on.                   *)
Carried == /\ pc' \in Steps /\ outcome' \in Outcomes
           /\ OnCourse' /\ ColumnsStay' /\ RowsAreTold' /\ DOMAIN rows' \subseteq Distro

(* What has been started has been asked for, while no more is started.     *)
LEMMA NoneIsStarted ==
    ASSUME OnlyTheAskedIsStarted, UNCHANGED <<job, started>>, seenUp \subseteq seenUp'
    PROVE  OnlyTheAskedIsStarted'
BY DEF OnlyTheAskedIsStarted, Looks

(* list and info, until a program is run in a guest; and how the report of *)
(* usage is cut.                                                           *)
LEMMA AskingKeeps ==
    ASSUME IInv, \/ Enumerate \/ AskRunning \/ NextRow \/ LastRowDone \/ MeasureFile
                 \/ OpenDisk \/ CloseDisk \/ AskGuest \/ AccountForNesting
    PROVE  IInv'
<1>1. /\ MachineTypeOK' /\ GuestsAtHome'
      /\ UNCHANGED <<Running, job, own, changes, started, told>>
      /\ seenUp \subseteq seenUp' /\ seenUp' \subseteq Distro
      /\ handles' = IF pc' = "close" THEN {Mine'} ELSE {}
  BY MachineIsAsked
<1>2. OnlyTheAskedIsStarted' /\ (Looks' <=> Looks) /\ \A d : Probes(d)' <=> Probes(d)
  BY <1>1, NoneIsStarted DEF IInv, Looks, Probes
<1>3. /\ todo \in Seq(Distro) /\ DOMAIN rows \subseteq Distro /\ pc \in Steps /\ outcome \in Outcomes
      /\ ColumnsStay /\ RowsAreTold /\ OnCourse /\ Wsl2 \subseteq Distro
  BY WslAssumption DEF IInv, TypeOK, OnCourse, Steps, Outcomes
<1>4. ASSUME UNCHANGED <<rows, report>> PROVE ColumnsStay' /\ RowsAreTold'
  BY <1>1, <1>3, <1>4 DEF ColumnsStay, RowsAreTold
<1>4a. ASSUME pc \notin {"measure", "walk", "done"}, UNCHANGED report
      PROVE  report'.homes = {} /\ report'.trimmed = Unknown
  BY <1>3, <1>4a DEF OnCourse
<1> USE DEF Goto, End, Steps, Outcomes, RowSteps, GuestSteps, OnCourse
<1>5. ASSUME Enumerate PROVE Carried
  <2>1. /\ UNCHANGED <<rows, report, seenUp>> /\ todo' \in Seq(Distro)
        /\ report'.homes = {} /\ report'.trimmed = Unknown
    BY <1>3, <1>5, <1>4a, ReportsAssumption DEF Enumerate
  <2>2. \/ pc' = "done" /\ outcome' \in Outcomes
        \/ pc' = "running" /\ Looks /\ UNCHANGED outcome
        \/ /\ pc' \in {"totals", "fstrim"} /\ UNCHANGED outcome
           /\ ~Looks /\ now' = job.name /\ now' \in Wsl2 /\ ~job.dryRun
    BY <1>5 DEF Enumerate
  <2> QED
    BY <1>1, <1>2, <1>3, <1>4, <2>1, <2>2 DEF Carried
<1>6. ASSUME AskRunning \/ LastRowDone \/ OpenDisk PROVE Carried
  BY <1>1, <1>2, <1>3, <1>4, <1>6 DEF Carried, AskRunning, LastRowDone, OpenDisk
<1>7. ASSUME NextRow PROVE Carried
  <2> DEFINE row == [Blank EXCEPT !.state = IF up = Unknown THEN Unknown
                                            ELSE IF now' \in up THEN "running" ELSE "stopped"]
  <2>1. /\ row = [f \in DOMAIN Blank |-> row[f]] /\ row.used = Unknown
        /\ [used |-> row.used, free |-> row.free] = NoUsage
        /\ row.reclaimable = Reclaimable(row.onDisk, row.used)
    BY DEF Blank, NoUsage, Reclaimable
  <2>2. /\ pc = "next" /\ todo # <<>> /\ todo' = Tail(todo) /\ now' = Head(todo)
        /\ rows' = [g \in DOMAIN rows \cup {now'} |-> IF g = now' THEN row ELSE rows[g]]
        /\ pc' = (IF now' \in Wsl2 THEN "exists" ELSE "next") /\ UNCHANGED <<outcome, report, seenUp>>
    BY <1>7 DEF NextRow
  <2> HIDE DEF row
  <2>3. todo' \in Seq(Distro) /\ now' \in Distro
    BY <1>3, <2>2, HeadTailProperties
  <2>4. ColumnsStay' /\ RowsAreTold' /\ DOMAIN rows' = DOMAIN rows \cup {now'}
    <3>1. ToldGrows /\ UNCHANGED report
      BY <1>1, <1>3, <2>2 DEF ToldGrows, ColumnsStay
    <3>2. RowComes(now', row)
      BY <2>1, <2>2 DEF RowComes
    <3> QED
      BY <1>3, <2>3, <3>1, <3>2, RowChanges
  <2>5. rows'[now'] = row
    BY <2>2
  <2> QED
    BY <1>1, <1>2, <1>3, <2>1, <2>2, <2>3, <2>4, <2>5 DEF Carried
<1>8. ASSUME MeasureFile PROVE Carried
  <2>1. UNCHANGED <<todo, now, report, seenUp, outcome>> /\ pc' \in {"guest", "open"} /\ pc = "exists"
        /\ now \in DOMAIN rows /\ now \in Wsl2 /\ Looks /\ rows[now].used = Unknown
    BY <1>3, <1>8 DEF MeasureFile
  <2>1a. report'.homes = {} /\ report'.trimmed = Unknown
    BY <2>1, <1>4a
  <2>2. CASE UNCHANGED rows
    BY <1>1, <1>2, <1>3, <1>4, <2>1, <2>2, <2>1a DEF Carried
  <2>3. CASE \E n \in OnDisk : rows' = [rows EXCEPT ![now].onDisk = n]
    <3>1. PICK n \in OnDisk : rows' = [rows EXCEPT ![now] = [rows[now] EXCEPT !["onDisk"] = n]]
      BY <2>3
    <3>2. ColumnsStay' /\ RowsAreTold' /\ DOMAIN rows' = DOMAIN rows
      BY <1>1, <1>3, <2>1, <3>1, FieldChanges
    <3> QED
      BY <1>1, <1>2, <1>3, <2>1, <2>1a, <3>2 DEF Carried
  <2> QED
    BY <1>8, <2>2, <2>3 DEF MeasureFile
<1>9. ASSUME CloseDisk PROVE Carried
  <2>1. UNCHANGED <<todo, now, report, seenUp, outcome>> /\ pc' = "guest" /\ pc = "close"
        /\ now \in DOMAIN rows /\ now \in Wsl2 /\ Looks
    BY <1>3, <1>9 DEF CloseDisk
  <2>1a. report'.homes = {} /\ report'.trimmed = Unknown
    BY <2>1, <1>4a
  <2>2. CASE UNCHANGED rows
    BY <1>1, <1>2, <1>3, <1>4, <2>1, <2>2, <2>1a DEF Carried
  <2>3. CASE rows' = [rows EXCEPT ![now].geometry = TRUE]
    <3>1. rows' = [rows EXCEPT ![now] = [rows[now] EXCEPT !["geometry"] = TRUE]]
      BY <2>3
    <3>2. ColumnsStay' /\ RowsAreTold' /\ DOMAIN rows' = DOMAIN rows
      BY <1>1, <1>3, <2>1, <3>1, FieldChanges
    <3> QED
      BY <1>1, <1>2, <1>3, <2>1, <2>1a, <3>2 DEF Carried
  <2> QED
    BY <1>9, <2>2, <2>3 DEF CloseDisk
<1>10. ASSUME AskGuest PROVE Carried
  <2>1. /\ UNCHANGED <<todo, now, rows, report, outcome>> /\ pc' \in {"df", "next"} /\ pc = "guest"
        /\ now \in DOMAIN rows /\ now \in Wsl2 /\ Looks
        /\ pc' = "df" => now \in seenUp' \/ Probes(now)
    BY <1>3, <1>10 DEF AskGuest
  <2>2. report'.homes = {} /\ report'.trimmed = Unknown
    BY <2>1, <1>4a
  <2> QED
    BY <1>1, <1>2, <1>3, <1>4, <2>1, <2>2 DEF Carried, Probes
<1>11. ASSUME AccountForNesting PROVE Carried
  <2>1. UNCHANGED <<todo, now, rows, seenUp>> /\ ~Looks /\ ~job.dryRun /\ job.name = now /\ now \in Wsl2
        /\ \/ pc' = "walk" /\ UNCHANGED outcome
           \/ pc' = "done" /\ outcome' = "ok"
    BY <1>3, <1>11 DEF AccountForNesting, UsageStays
  <2>2. PICK kept : report' = [report EXCEPT !.counted = Counted(report.entries), !.entries = kept]
    BY <1>11 DEF AccountForNesting
  <2>3. /\ report' = [f \in DOMAIN NoReport |-> report'[f]]
        /\ report'.homes = report.homes /\ report'.trimmed = report.trimmed
    <3>1. report = [f \in DOMAIN NoReport |-> report[f]]
      BY <1>3 DEF ColumnsStay
    <3> QED
      BY <2>2, <3>1 DEF NoReport
  <2>4. ColumnsStay' /\ RowsAreTold'
    <3>1. ToldGrows
      BY <1>1, <1>3 DEF ToldGrows, ColumnsStay
    <3> QED
      BY <1>3, <2>1, <2>3, <3>1, RowsStay
  <2> QED
    BY <1>1, <1>2, <1>3, <1>11, <2>1, <2>3, <2>4 DEF Carried, AccountForNesting
<1>12. Carried
  BY <1>5, <1>6, <1>7, <1>8, <1>9, <1>10, <1>11
<1>13. ReportIsTold'
  <2>1. CASE AccountForNesting
    <3>1. pc = "measure" /\ UNCHANGED now
      BY <2>1 DEF AccountForNesting, UsageStays
    <3>2. PICK kept : report' = [report EXCEPT !.counted = Counted(report.entries), !.entries = kept]
      BY <2>1 DEF AccountForNesting
    <3>3. UNCHANGED <<report.used, report.free, report.noted, report.trimmed>>
      <4>1. report = [f \in DOMAIN NoReport |-> report[f]]
        BY <1>3 DEF ColumnsStay
      <4> QED
        BY <3>2, <4>1 DEF NoReport
    <3>4. TotalsAreTold /\ report.trimmed = Unknown
      BY <1>3, <3>1 DEF IInv, ReportIsTold
    <3> QED
      BY <1>1, <3>1, <3>3, <3>4 DEF ReportIsTold, TotalsAreTold
  <2>2. CASE \/ Enumerate \/ AskRunning \/ NextRow \/ LastRowDone \/ MeasureFile
             \/ OpenDisk \/ CloseDisk \/ AskGuest
    <3>1. UNCHANGED report /\ pc \notin {"measure", "walk", "done"} /\ pc' \notin {"homes", "measure", "walk"}
      BY <2>2 DEF Enumerate, AskRunning, NextRow, LastRowDone, MeasureFile, OpenDisk, CloseDisk, AskGuest
    <3>2. report.homes = {} /\ report.trimmed = Unknown
      BY <1>3, <3>1
    <3> QED
      BY <3>1, <3>2 DEF ReportIsTold
  <2> QED
    BY <2>1, <2>2
<1> QED
  BY <1>1, <1>2, <1>12, <1>13 DEF IInv, TypeOK, Carried

(* A program is run in a guest: df for a row, and all of usage and trim.   *)
LEMMA RunningKeeps ==
    ASSUME IInv, \/ ProbeGuest \/ ReadTotals \/ HomesOf \/ MeasurePath \/ MeasureDirectories
                 \/ RunFstrim \/ RunFstrimPlain
    PROVE  IInv'
<1>1. /\ now \in Wsl2 /\ pc \in {"df"} \cup GuestSteps /\ Outside
      /\ Ran(now) \/ RanForNothing(now) \/ CouldNotRun(now)
      /\ UNCHANGED <<todo, now, seenUp>>
      /\ pc' \in {"next", "done"} \cup GuestSteps
  <2>1. /\ pc \in {"df"} \cup GuestSteps /\ Outside /\ UNCHANGED <<todo, now, seenUp>>
        /\ pc' \in {"next", "done"} \cup GuestSteps
    BY DEF GuestSteps, ProbeGuest, ReadTotals, HomesOf, MeasurePath,
           MeasureDirectories, RunFstrim, RunFstrimPlain, FstrimDone, UsageStays, Goto, End
  <2>2. Ran(now) \/ RanForNothing(now) \/ CouldNotRun(now)
    BY DEF ProbeGuest, ReadTotals, HomesOf, MeasurePath, MeasureDirectories, RunFstrim, RunFstrimPlain
  <2> QED
    BY <2>1, <2>2 DEF IInv, OnCourse, RowSteps
<1>2. /\ MachineTypeOK' /\ GuestsAtHome'
      /\ UNCHANGED <<handles, registry, job, own, changes>>
      /\ started' \subseteq started \cup ({now} \ Running)
  BY <1>1, ProgramRuns DEF IInv, TypeOK
<1>3. /\ todo \in Seq(Distro) /\ DOMAIN rows \subseteq Distro /\ pc \in Steps /\ outcome \in Outcomes
      /\ ColumnsStay /\ RowsAreTold /\ ReportIsTold /\ OnCourse /\ OnlyTheAskedIsStarted
      /\ now \in Distro /\ started \subseteq Distro
  BY <1>1, WslAssumption DEF IInv, TypeOK, OnCourse, Steps, Outcomes
<1>4. OnlyTheAskedIsStarted'
  <2>1. CASE pc = "df"
    <3>1. Looks /\ (now \in seenUp \/ (job.probe /\ (job.verb = "info" => now = job.name)))
      BY <1>3, <2>1 DEF OnCourse, RowSteps, Probes
    <3> QED
      BY <1>1, <1>2, <1>3, <3>1 DEF OnlyTheAskedIsStarted, Looks
  <2>2. CASE pc \in GuestSteps
    <3>1. ~Looks /\ ~job.dryRun /\ job.name = now
      BY <1>3, <2>2 DEF OnCourse
    <3> QED
      BY <1>1, <1>2, <1>3, <3>1 DEF OnlyTheAskedIsStarted, Looks
  <2> QED
    BY <1>1, <2>1, <2>2
<1>5. handles' = IF pc' = "close" THEN {Mine'} ELSE {}
  BY <1>1, <1>2 DEF IInv, TypeOK, GuestSteps
<1>6. /\ ToldGrows
      /\ UNCHANGED told \/ \E figures : Tell(figures)
  <2>1. UNCHANGED told \/ \E figures : Tell(figures)
    BY DEF ProbeGuest, ReadTotals, HomesOf, MeasurePath, MeasureDirectories, RunFstrim, RunFstrimPlain,
           FstrimDone, DfTells
  <2> QED
    BY <1>3, <2>1 DEF ToldGrows, ColumnsStay, Tell
<1>7. /\ report = [f \in DOMAIN NoReport |-> report[f]]
      /\ DOMAIN NoReport = {"used", "free", "noted", "homes", "entries", "counted", "directories", "trimmed"}
  BY <1>3 DEF ColumnsStay, NoReport
<1> DEFINE Fine == /\ ColumnsStay' /\ RowsAreTold' /\ DOMAIN rows' \subseteq Distro /\ ReportIsTold'
                   /\ report'.homes # {} => pc' \in {"measure", "walk", "done"}
                   /\ pc' # "done" => report'.trimmed = Unknown
<1>8. ASSUME UNCHANGED rows, report' = [f \in DOMAIN NoReport |-> report'[f]]
      PROVE  ColumnsStay' /\ RowsAreTold' /\ DOMAIN rows' \subseteq Distro
  BY <1>3, <1>6, <1>8, RowsStay
<1>9. Fine
  <2>1. CASE ProbeGuest
    <3>1. /\ now \in DOMAIN rows /\ UNCHANGED report /\ pc = "df" /\ pc' = "next"
          /\ report.homes = {} /\ report.trimmed = Unknown
      BY <1>3, <2>1 DEF ProbeGuest, OnCourse, RowSteps, Goto
    <3>2. CASE UNCHANGED rows
      BY <1>7, <1>8, <3>1, <3>2 DEF ReportIsTold
    <3>3. CASE /\ \E figures \in {ParseDf(printed) : printed \in DfPrints(Df)} :
                     rows' = [rows EXCEPT ![now] = RowOf(@, figures)]
               /\ DfTells
      <4>1. PICK printed \in DfPrints(Df) :
               rows' = [rows EXCEPT ![now] = RowOf(rows[now], ParseDf(printed))]
        BY <3>3
      <4>2. ParseDf(printed) \in {NoUsage, [used |-> Df, free |-> Free]}
        BY DfIsRead
      <4>3. ParseDf(printed) \in told'[now] \cup {NoUsage}
        BY <1>3, <3>3, <4>2 DEF DfTells, Tell, ColumnsStay
      <4> DEFINE row == RowOf(rows[now], ParseDf(printed))
      <4>4. /\ row = [f \in DOMAIN Blank |-> row[f]]
            /\ row.used = ParseDf(printed).used /\ row.free = ParseDf(printed).free
            /\ row.reclaimable = Reclaimable(row.onDisk, row.used)
        <5>1. /\ rows[now] = [f \in DOMAIN Blank |-> rows[now][f]]
              /\ DOMAIN Blank = {"state", "onDisk", "geometry", "used", "free", "reclaimable"}
          BY <1>3, <3>1 DEF ColumnsStay, Blank
        <5> QED
          BY <5>1 DEF RowOf
      <4> HIDE DEF row
      <4>5. rows' = [g \in DOMAIN rows \cup {now} |-> IF g = now THEN row ELSE rows[g]]
        BY <1>3, <3>1, <4>1 DEF ColumnsStay, row
      <4>6. [used |-> row.used, free |-> row.free] = ParseDf(printed)
        BY <4>2, <4>4 DEF NoUsage
      <4>7. [used |-> row.used, free |-> row.free] \in told'[now] \cup {NoUsage}
        BY <4>3, <4>6
      <4>8. ColumnsStay' /\ RowsAreTold' /\ DOMAIN rows' = DOMAIN rows \cup {now}
        <5>1. RowComes(now, row)
          BY <4>4, <4>5, <4>7 DEF RowComes
        <5> QED
          BY <1>3, <1>6, <3>1, <5>1, RowChanges
      <4> QED
        BY <1>3, <3>1, <4>8 DEF ReportIsTold
    <3> QED
      BY <2>1, <3>2, <3>3 DEF ProbeGuest
  <2>2. CASE ReadTotals
    <3>1. UNCHANGED rows /\ pc = "totals" /\ report.homes = {} /\ report.trimmed = Unknown
      BY <1>3, <2>2 DEF ReadTotals, UsageStays, OnCourse
    <3>2. CASE pc' = "done" /\ UNCHANGED report
      BY <1>7, <1>8, <3>1, <3>2 DEF ReportIsTold
    <3>3. ASSUME NEW figures, figures \in told'[now] \cup {NoUsage},
                 figures = [used |-> figures.used, free |-> figures.free],
                 report' = Totals(figures), pc' = "homes"
          PROVE  Fine
      <4>1. CASE figures = NoUsage
        <5>1. report' = [report EXCEPT !.noted = TRUE]
          BY <3>3, <4>1 DEF Totals
        <5>2. /\ report' = [f \in DOMAIN NoReport |-> report'[f]] /\ report'.noted = TRUE
              /\ report'.homes = report.homes /\ report'.trimmed = report.trimmed
          BY <1>7, <5>1
        <5> QED
          BY <1>8, <3>1, <3>3, <5>2 DEF ReportIsTold, TotalsAreTold
      <4>2. CASE figures # NoUsage
        <5>1. report' = [report EXCEPT !.used = figures.used, !.free = figures.free]
          BY <3>3, <4>2 DEF Totals
        <5>2. /\ report' = [f \in DOMAIN NoReport |-> report'[f]]
              /\ report'.used = figures.used /\ report'.free = figures.free
              /\ report'.homes = report.homes /\ report'.trimmed = report.trimmed
          BY <1>7, <5>1
        <5>3. [used |-> report'.used, free |-> report'.free] \in told'[now]
          BY <3>3, <4>2, <5>2
        <5> QED
          BY <1>1, <1>8, <3>1, <3>3, <5>2, <5>3 DEF ReportIsTold, TotalsAreTold
      <4> QED
        BY <3>3, <4>1, <4>2
    <3>4. CASE /\ \E printed \in DfPrints(Df) : report' = Totals(ParseDf(printed))
               /\ DfTells
               /\ pc' = "homes"
      <4>1. PICK printed \in DfPrints(Df) : report' = Totals(ParseDf(printed))
        BY <3>4
      <4>2. ParseDf(printed) \in {NoUsage, [used |-> Df, free |-> Free]}
        BY DfIsRead
      <4>3. ParseDf(printed) \in told'[now] \cup {NoUsage}
        BY <1>3, <3>4, <4>2 DEF DfTells, Tell, ColumnsStay
      <4> DEFINE figures == ParseDf(printed)
      <4>4. figures = [used |-> figures.used, free |-> figures.free]
        BY <4>2 DEF NoUsage
      <4> HIDE DEF figures
      <4> QED
        BY <3>3, <3>4, <4>1, <4>3, <4>4 DEF figures
    <3>5. CASE report' = Totals(NoUsage) /\ pc' = "homes"
      <4>1. NoUsage = [used |-> NoUsage.used, free |-> NoUsage.free]
        BY DEF NoUsage
      <4> QED
        BY <3>3, <3>5, <4>1
    <3> QED
      BY <2>2, <3>2, <3>4, <3>5 DEF ReadTotals, Goto, End
  <2>3. ASSUME UNCHANGED rows, pc \in {"homes", "measure", "walk"}, pc' \in {"measure", "walk", "done"},
               \/ UNCHANGED report
               \/ \E field \in {"homes", "entries", "directories"} : \E value :
                     report' = [report EXCEPT ![field] = value]
        PROVE  Fine
    <3>1. /\ report' = [f \in DOMAIN NoReport |-> report'[f]]
          /\ UNCHANGED <<report.used, report.free, report.noted, report.trimmed>>
      <4>1. CASE UNCHANGED report
        BY <1>7, <4>1
      <4>2. ASSUME NEW field \in {"homes", "entries", "directories"}, NEW value,
                   report' = [report EXCEPT ![field] = value]
            PROVE  /\ report' = [f \in DOMAIN NoReport |-> report'[f]]
                   /\ UNCHANGED <<report.used, report.free, report.noted, report.trimmed>>
        BY <1>7, <4>2
      <4> QED
        BY <2>3, <4>1, <4>2
    <3>2. TotalsAreTold /\ report.trimmed = Unknown
      BY <1>3, <2>3 DEF ReportIsTold, OnCourse
    <3>3. told[now] \subseteq told'[now]
      BY <1>3, <1>6 DEF ToldGrows
    <3>4. TotalsAreTold'
      BY <1>1, <3>1, <3>2, <3>3 DEF TotalsAreTold
    <3> QED
      BY <1>8, <2>3, <3>1, <3>2, <3>4 DEF ReportIsTold
  <2>4. CASE HomesOf
    <3>1. PICK homes : report' = [report EXCEPT !["homes"] = homes]
      BY <2>4 DEF HomesOf
    <3>2. \E value : report' = [report EXCEPT !["homes"] = value]
      BY <3>1
    <3> QED
      BY <2>3, <2>4, <3>2 DEF HomesOf, UsageStays, Goto
  <2>5. CASE MeasurePath
    <3>1. \/ UNCHANGED report
          \/ \E value : report' = [report EXCEPT !["entries"] = value]
      BY <2>5 DEF MeasurePath
    <3> QED
      BY <2>3, <2>5, <3>1 DEF MeasurePath, UsageStays, Goto, End
  <2>6. CASE MeasureDirectories
    <3>1. \/ UNCHANGED report
          \/ \E value : report' = [report EXCEPT !["directories"] = value]
      BY <2>6 DEF MeasureDirectories
    <3> QED
      BY <2>3, <2>6, <3>1 DEF MeasureDirectories, UsageStays, End
  <2>7. CASE RunFstrim \/ RunFstrimPlain
    <3>1. UNCHANGED rows /\ pc \in {"fstrim", "again"} /\ report.homes = {} /\ report.trimmed = Unknown
      BY <1>3, <2>7 DEF RunFstrim, RunFstrimPlain, UsageStays, OnCourse
    <3>2. CASE pc' \in {"again", "done"} /\ UNCHANGED report
      BY <1>7, <1>8, <3>1, <3>2 DEF ReportIsTold
    <3>3. CASE FstrimDone
      <4>1. PICK printed \in Fstrim :
               /\ report' = [report EXCEPT !.trimmed = ParseTrimmedBytes(printed)]
               /\ Tell({[trimmed |-> word] : word \in ToSet(printed)})
        BY <3>3 DEF FstrimDone
      <4>2. ParseTrimmedBytes(printed) \in {Unknown} \cup ToSet(printed)
        BY TrimIsRead, ReportsAssumption
      <4>3. /\ report' = [f \in DOMAIN NoReport |-> report'[f]] /\ report'.homes = report.homes
            /\ report'.trimmed = ParseTrimmedBytes(printed)
        BY <1>7, <4>1
      <4>4. report'.trimmed # Unknown => [trimmed |-> report'.trimmed] \in told'[now]
        <5>1. told'[now] = told[now] \cup {[trimmed |-> word] : word \in ToSet(printed)}
          BY <1>3, <4>1 DEF Tell, ColumnsStay
        <5> QED
          BY <4>2, <4>3, <5>1
      <4>5. pc' = "done"
        BY <3>3 DEF FstrimDone, End
      <4> QED
        BY <1>1, <1>8, <3>1, <4>3, <4>4, <4>5 DEF ReportIsTold
    <3> QED
      BY <2>7, <3>2, <3>3 DEF RunFstrim, RunFstrimPlain, Goto, End
  <2> QED
    BY <2>1, <2>2, <2>4, <2>5, <2>6, <2>7
<1>10. pc' \in Steps /\ outcome' \in Outcomes
  BY <1>3 DEF ProbeGuest, ReadTotals, HomesOf, MeasurePath,
              MeasureDirectories, RunFstrim, RunFstrimPlain, FstrimDone, Goto, End, Steps, Outcomes
<1>11. OnCourse'
  <2>1. (Looks' <=> Looks) /\ job' = job
    BY <1>2 DEF Looks
  <2>2. pc = "df" => pc' = "next" /\ Looks
    BY <1>3 DEF OnCourse, RowSteps, ProbeGuest, ReadTotals, HomesOf, MeasurePath,
                MeasureDirectories, RunFstrim, RunFstrimPlain, Goto
  <2>3. /\ pc \in GuestSteps => pc' \in {"done"} \cup GuestSteps
        /\ pc \in GuestSteps => ~Looks /\ ~job.dryRun /\ job.name = now /\ now \in Wsl2
    BY <1>3 DEF OnCourse, ProbeGuest, ReadTotals, HomesOf, MeasurePath, MeasureDirectories,
                RunFstrim, RunFstrimPlain, FstrimDone, GuestSteps, Goto, End
  <2> QED
    BY <1>1, <1>3, <1>9, <2>1, <2>2, <2>3 DEF OnCourse, RowSteps, GuestSteps
<1> QED
  BY <1>1, <1>2, <1>3, <1>4, <1>5, <1>9, <1>10, <1>11, ReportsAssumption
     DEF IInv, TypeOK, Steps, Outcomes

(* Nothing the command is, knows and has printed changes by itself.        *)
LEMMA CommandStays ==
    ASSUME OnCourse, OnlyTheAskedIsStarted, ColumnsStay, RowsAreTold, ReportIsTold,
           UNCHANGED <<pc, job, todo, now, rows, report, seenUp, started, told>>
    PROVE  OnCourse' /\ OnlyTheAskedIsStarted' /\ ColumnsStay' /\ RowsAreTold' /\ ReportIsTold'
<1>1. OnCourse'
  BY DEF OnCourse, Looks, Probes
<1>2. OnlyTheAskedIsStarted'
  BY DEF OnlyTheAskedIsStarted, Looks
<1>3. ColumnsStay' /\ RowsAreTold'
  BY DEF ColumnsStay, RowsAreTold
<1>4. ReportIsTold'
  BY DEF ReportIsTold, TotalsAreTold
<1> QED
  BY <1>1, <1>2, <1>3, <1>4

(* The user starts and stops distributions, and guests work.               *)
LEMMA OthersKeep ==
    ASSUME IInv, GuestChanges \/ Others
    PROVE  IInv'
<1>1. CASE GuestChanges
  <2>1. UNCHANGED <<files, registry, guest, attached, handles, written, pc, job, todo, paths, now, up,
                    rows, report, outcome, seenUp, started, failed, told>>
    BY <1>1 DEF GuestChanges, machine, command
  <2>2. own' \in [Wsl2 -> Tree] /\ changes' \in 0 .. Changes
    <3>1. Changes \in Nat /\ changes \in 0 .. Changes
      BY ReportsAssumption DEF IInv, TypeOK
    <3>2. own' \in [Wsl2 -> Tree] /\ changes < Changes /\ changes' = changes + 1
      <4>1. PICK d \in Running : \E tree \in Tree \ {own[d]} : own' = [own EXCEPT ![d] = tree]
        BY <1>1 DEF GuestChanges
      <4> QED
        BY <1>1, <4>1 DEF GuestChanges, IInv, TypeOK
    <3> QED
      BY <3>1, <3>2
  <2>3. GuestsAtHome'
    BY <2>1, OutsideStays DEF IInv
  <2>4. TypeOK'
    BY <2>1, <2>2 DEF IInv, TypeOK, MachineTypeOK, Mine, Home
  <2> QED
    BY <2>1, <2>3, <2>4, CommandStays DEF IInv
<1>2. CASE Others
  <2>1. UNCHANGED <<pc, job, todo, paths, now, up, rows, report, outcome, seenUp, started, failed,
                    told, own, changes>>
        /\ MachineNext(Used, {})
    BY <1>2 DEF Others, command
  <2>2. Used \in SUBSET Distro /\ {} \in SUBSET Path
    BY ReportsAssumption, WslAssumption
  <2>3. /\ MachineTypeOK' /\ GuestsHaveDisks' /\ UNCHANGED <<registry, handles>>
        /\ \A d \in Distro : guest'[d] \in {Off, guest[d]} \/ guest'[d] = Home(d)
    BY <2>1, <2>2, MachineStep DEF IInv, TypeOK, GuestsAtHome
  <2>4. \A d : UNCHANGED Home(d)
    BY <2>3 DEF Home
  <2>5. GuestsAtHome'
    BY <2>3, <2>4 DEF IInv, GuestsAtHome
  <2>6. TypeOK'
    BY <2>1, <2>3 DEF IInv, TypeOK, Mine, Home
  <2> QED
    BY <2>1, <2>5, <2>6, CommandStays DEF IInv
<1> QED
  BY <1>1, <1>2

(* Every step of a command and of everybody else.                          *)
LEMMA ReportsStep ==
    ASSUME IInv, [Next]_vars
    PROVE  IInv'
<1>1. CASE UNCHANGED vars
  <2>1. UNCHANGED <<files, registry, guest, attached, handles, written, own, changes,
                    pc, job, todo, paths, now, up, rows, report, outcome, seenUp, started, failed, told>>
    BY <1>1 DEF vars, machine, command
  <2>2. TypeOK' /\ GuestsAtHome'
    BY <2>1, OutsideStays DEF IInv, TypeOK, MachineTypeOK, Mine, Home
  <2> QED
    BY <2>1, <2>2, CommandStays DEF IInv
<1> QED
  BY <1>1, AskingKeeps, RunningKeeps, OthersKeep DEF Next, Ask, Usage, Trim

(* Whatever is listed, probed, measured or trimmed, and whatever fails,    *)
(* the state stays of its types; a command that is not measuring a disk    *)
(* from outside has no disk open.                                          *)
THEOREM ReportsAreTyped == Spec => []TypeOK
<1>1. IInv => TypeOK
  BY DEF IInv
<1> QED
  BY <1>1, ReportsStart, ReportsStep, PTL DEF Spec

(* `list` and `info` start no distribution that was stopped when they      *)
(* asked for its row, unless they are to probe it, `usage` and `trim` none *)
(* but the one they are given, and no dry run starts any: for every        *)
(* command line, every order of the registry and whatever the user starts  *)
(* and stops meanwhile.                                                    *)
THEOREM NoneIsStartedUnasked == Spec => []OnlyTheAskedIsStarted
<1>1. IInv => OnlyTheAskedIsStarted
  BY DEF IInv
<1> QED
  BY <1>1, ReportsStart, ReportsStep, PTL DEF Spec

(* When a program is to be run in a guest, the guest is up, or cannot boot *)
(* for a reason of its own disk, or boots: no handle of the command's and  *)
(* no other guest stands in its way.                                       *)
THEOREM NoCommandBlocksItself == Spec => []NeverInItsOwnWay
<1>1. IInv => NeverInItsOwnWay
  <2> SUFFICES ASSUME IInv, pc \in {"df"} \cup GuestSteps,
                      ~(now \in Running), Exists(Home(now))
               PROVE  CanBoot(now)
    BY DEF NeverInItsOwnWay, GuestSteps
  <2>1. now \in Wsl2 /\ now \in Distro /\ handles = {}
    BY WslAssumption DEF IInv, TypeOK, OnCourse, RowSteps, GuestSteps
  <2>2. guest[now] = Off
    BY <2>1 DEF Running
  <2>3. Home(now) \in Path
    BY <2>1, EntriesResolve DEF IInv, TypeOK, MachineTypeOK, Home
  <2>4. \A e \in Distro : guest[e] # Home(now)
    BY <2>1, <2>2, <2>3, WslAssumption DEF IInv, GuestsAtHome
  <2> QED
    BY <2>1, <2>2, <2>4 DEF CanBoot, Held
<1> QED
  BY <1>1, ReportsStart, ReportsStep, PTL DEF Spec

(* The used and the free of a row are those of one df in the row's own     *)
(* guest, whatever the layout it was printed in, and what is reclaimable   *)
(* is worked out from that and from the row's own size; the used and the   *)
(* free of a usage report are those of one df in the guest it is about, or *)
(* it has a note; and what was trimmed is a word fstrim printed in the     *)
(* guest that was to be trimmed.                                           *)
THEOREM FiguresAreRead == Spec => []FiguresAreTheGuests
<1>1. IInv => FiguresAreTheGuests
  BY DEF IInv, FiguresAreTheGuests, RowsAreTold, ReportIsTold, TotalsAreTold
<1> QED
  BY <1>1, ReportsStart, ReportsStep, PTL DEF Spec
----------------------------------------------------------------------------
(* The homes and the places a report has come to, and that nothing is in   *)
(* it before.                                                              *)
HomesListed ==
    /\ report.homes \in {{}} \cup Homes
    /\ pc \in {"measure", "walk"} => report.homes \in Homes
    /\ pc \notin {"measure", "walk", "done"} => report.homes = {} /\ report.entries = {}
    /\ pc # "done" => report.directories = {} /\ outcome = "none"

Places == ToSet(PathsOf(report.homes))

(* An entry is of one of the catalogue's places, and what du said of it is *)
(* still so while the guest's files keep still.                            *)
EntriesMeasured ==
    /\ IsFiniteSet(report.entries)
    /\ \A entry \in report.entries :
          /\ entry.path \in Places
          /\ entry = [path |-> entry.path, bytes |-> entry.bytes]
          /\ entry.bytes \in Nat /\ \E tree \in Tree : entry.bytes <= BytesOf(tree, Node)
          /\ Quiet => entry.bytes = Du(own[now], entry.path)

(* While places are measured there is no more than one entry for each that *)
(* has been, and one for each that holds anything if all went well.        *)
PathsLeft ==
    pc = "measure" =>
        /\ paths \in Seq(Places)
        /\ Cardinality(report.entries) + Len(paths) <= Len(PathsOf(report.homes))
        /\ Quiet /\ ~failed =>
              \A place \in Places : \/ place \in ToSet(paths)
                                    \/ Du(own[now], place) = 0
                                    \/ \E entry \in report.entries : entry.path = place

(* No size shown is more than a word holds.                                *)
SizesFit ==
    /\ \A d \in DOMAIN rows : /\ rows[d].onDisk \in {Unknown} \cup 0 .. Word
                              /\ rows[d].used \in {Unknown} \cup 0 .. Word
    /\ report.used \in {Unknown} \cup 0 .. Word
    /\ report.trimmed \in {Unknown} \cup 0 .. Word
    /\ report.counted \in 0 .. Word

AccountsHold == HomesListed /\ EntriesMeasured /\ PathsLeft /\ CountedOnce /\ AttributedOnce

AInv == IInv /\ AccountsHold /\ SizesFit

(* The fields of a report, which its steps set one by one.                 *)
LEMMA ReportFields ==
    ASSUME ColumnsStay, NEW field \in DOMAIN NoReport, NEW value,
           report' = [report EXCEPT ![field] = value]
    PROVE  /\ report'[field] = value
           /\ \A other \in DOMAIN NoReport \ {field} : report'[other] = report[other]
           /\ DOMAIN NoReport = {"used", "free", "noted", "homes", "entries", "counted",
                              "directories", "trimmed"}
<1>1. report = [f \in DOMAIN NoReport |-> report[f]]
  BY DEF ColumnsStay
<1> QED
  BY <1>1 DEF NoReport

(* The totals are set, or a note.                                          *)
LEMMA TotalsFields ==
    ASSUME ColumnsStay, NEW figures, report' = Totals(figures)
    PROVE  /\ report'.used \in {report.used, figures.used}
           /\ UNCHANGED <<report.homes, report.entries, report.counted, report.directories, report.trimmed>>
<1>1. report = [f \in DOMAIN NoReport |-> report[f]]
  BY DEF ColumnsStay
<1>2. \/ report' = [report EXCEPT !.noted = TRUE]
      \/ report' = [report EXCEPT !.used = figures.used, !.free = figures.free]
  BY DEF Totals
<1> QED
  BY <1>1, <1>2 DEF NoReport

(* A guest that is asked has a tree of its own.                            *)
LEMMA GuestHasFiles ==
    ASSUME IInv, pc \in GuestSteps
    PROVE  now \in Wsl2 /\ own[now] \in Tree /\ own[now] \in [Node -> Nat]
<1>1. now \in Wsl2 /\ own \in [Wsl2 -> Tree]
  BY DEF IInv, OnCourse, TypeOK
<1> QED
  BY <1>1, ReportsAssumption

(* A command begins with nothing reported.                                 *)
LEMMA AccountsStart == Init => AccountsHold /\ SizesFit
<1> SUFFICES ASSUME Init PROVE AccountsHold /\ SizesFit
  OBVIOUS
<1>1. /\ report.homes = {} /\ report.entries = {} /\ report.directories = {}
      /\ report.used = 0 /\ report.counted = 0 /\ report.trimmed = Unknown
      /\ pc = "enumerate" /\ outcome = "none" /\ DOMAIN rows = {}
  BY DEF Init, NoReport
<1>2. HomesListed /\ EntriesMeasured /\ PathsLeft /\ CountedOnce /\ AttributedOnce
  BY <1>1, FS_EmptySet DEF HomesListed, EntriesMeasured, PathsLeft, CountedOnce, AttributedOnce
<1>3. SizesFit
  BY <1>1, UnitsArePositive DEF SizesFit
<1> QED
  BY <1>2, <1>3 DEF AccountsHold

(* Until the homes are known there is nothing to add up.                   *)
LEMMA NothingToAddUp ==
    ASSUME report'.homes = {}, report'.entries = {}, report'.directories = {},
           pc' \notin {"measure", "walk"}, pc' # "done" => outcome' = "none"
    PROVE  AccountsHold'
BY FS_EmptySet DEF AccountsHold, HomesListed, EntriesMeasured, PathsLeft, CountedOnce, AttributedOnce

(* What comes before the homes are asked for.                              *)
LEMMA BeforeTheHomes ==
    ASSUME IInv, AccountsHold,
           \/ Enumerate \/ AskRunning \/ NextRow \/ LastRowDone \/ MeasureFile
           \/ OpenDisk \/ CloseDisk \/ AskGuest \/ ProbeGuest \/ ReadTotals
           \/ RunFstrim \/ RunFstrimPlain
    PROVE  AccountsHold'
<1>1. /\ pc \notin {"measure", "walk", "done"} /\ pc' \notin {"measure", "walk"}
      /\ pc' # "done" => UNCHANGED outcome
  BY DEF Enumerate, AskRunning, NextRow, LastRowDone, MeasureFile, OpenDisk, CloseDisk, AskGuest,
         ProbeGuest, ReadTotals, RunFstrim, RunFstrimPlain, FstrimDone, Goto, End
<1>2. \/ UNCHANGED report
      \/ \E figures : report' = Totals(figures)
      \/ \E value : report' = [report EXCEPT !["trimmed"] = value]
  BY DEF Enumerate, AskRunning, NextRow, LastRowDone, MeasureFile, OpenDisk, CloseDisk, AskGuest,
         ProbeGuest, ReadTotals, RunFstrim, RunFstrimPlain, FstrimDone
<1>3. UNCHANGED <<report.homes, report.entries, report.directories>>
  BY <1>2, ReportFields, TotalsFields DEF IInv, NoReport
<1> QED
  BY <1>1, <1>3, NothingToAddUp DEF AccountsHold, HomesListed

(* The homes are known and their places are to be measured.                *)
LEMMA HomesAreListed ==
    ASSUME IInv, AccountsHold, HomesOf
    PROVE  AccountsHold'
<1>1. PICK homes \in Homes : /\ report' = [report EXCEPT !["homes"] = homes]
                             /\ paths' = PathsOf(homes)
  BY DEF HomesOf
<1>2. /\ report'.homes = homes
      /\ UNCHANGED <<report.entries, report.directories>>
  BY <1>1, ReportFields DEF IInv, NoReport
<1>3. report'.entries = {} /\ report'.directories = {} /\ pc' = "measure" /\ outcome' = "none"
  BY <1>2 DEF HomesOf, AccountsHold, HomesListed, Goto
<1>4. paths' \in Seq(ToSet(paths')) /\ Len(paths') \in Nat
  <2> DEFINE All == UNION {PathsFor(Catalogue[i], homes) : i \in DOMAIN Catalogue}
  <2>1. paths' \in Seq(All)
    BY <1>1, PathsAre
  <2> HIDE DEF All
  <2>2. \A i \in 1 .. Len(paths') : paths'[i] \in ToSet(paths')
    BY <2>1 DEF ToSet
  <2> QED
    BY <2>1, <2>2
<1>5. HomesListed' /\ EntriesMeasured' /\ CountedOnce' /\ AttributedOnce'
  BY <1>2, <1>3, FS_EmptySet DEF HomesListed, EntriesMeasured, CountedOnce, AttributedOnce
<1>6. PathsLeft'
  <2>1. Places' = ToSet(paths') /\ PathsOf(report.homes)' = paths'
    BY <1>1, <1>2 DEF Places
  <2>2. Cardinality(report'.entries) = 0
    BY <1>3, FS_EmptySet
  <2> QED
    BY <1>4, <2>1, <2>2 DEF PathsLeft
<1> QED
  BY <1>5, <1>6 DEF AccountsHold

(* A place is measured: an entry for it, if du ran and it holds anything.  *)
LEMMA PathIsMeasured ==
    ASSUME IInv, AccountsHold, MeasurePath
    PROVE  AccountsHold'
<1> DEFINE place == Head(paths)
           bytes == Du(own[now], place)
           new == [path |-> place, bytes |-> bytes]
<1>1. /\ pc = "measure" /\ paths # <<>> /\ paths' = Tail(paths) /\ UNCHANGED <<own, now, changes, job>>
      /\ \/ pc' = "measure" /\ UNCHANGED outcome
         \/ pc' = "done" /\ outcome' = "error"
      /\ failed' = TRUE \/ UNCHANGED failed
  BY DEF MeasurePath, Outside, UsageStays, Goto, End, Ran, RanForNothing, CouldNotRun
<1>2. \/ failed' = TRUE /\ UNCHANGED report
      \/ bytes = 0 /\ UNCHANGED report
      \/ bytes # 0 /\ report' = [report EXCEPT !["entries"] = report.entries \cup {new}]
  BY DEF MeasurePath, RanForNothing, CouldNotRun
<1>3. /\ UNCHANGED <<report.homes, report.directories>>
      /\ UNCHANGED report.entries \/ report'.entries = report.entries \cup {new}
      /\ \/ failed' = TRUE
         \/ bytes = 0 /\ UNCHANGED report.entries
         \/ report'.entries = report.entries \cup {new}
  <2>1. CASE UNCHANGED report /\ (failed' = TRUE \/ bytes = 0)
    BY <2>1
  <2>2. CASE report' = [report EXCEPT !["entries"] = report.entries \cup {new}]
    <3> HIDE DEF new
    <3> QED
      BY <2>2, ReportFields DEF IInv, NoReport
  <2> QED
    BY <1>2, <2>1, <2>2
<1>4. /\ report.homes \in Homes /\ report.directories = {}
      /\ outcome = "none" /\ IsFiniteSet(report.entries)
      /\ own[now] \in Tree /\ own[now] \in [Node -> Nat]
  BY <1>1, GuestHasFiles DEF GuestSteps, AccountsHold, HomesListed, EntriesMeasured
<1>5. /\ paths \in Seq(Places) /\ place \in Places /\ Tail(paths) \in Seq(Places)
      /\ Len(Tail(paths)) = Len(paths) - 1 /\ Len(paths) \in Nat
      /\ \A p \in ToSet(paths) : p = place \/ p \in ToSet(Tail(paths))
  <2>1. paths \in Seq(Places)
    BY <1>1 DEF AccountsHold, PathsLeft
  <2>2. /\ place \in Places /\ Tail(paths) \in Seq(Places)
        /\ Len(Tail(paths)) = Len(paths) - 1 /\ Len(paths) \in Nat
    BY <1>1, <2>1, HeadTailProperties
  <2>3. ASSUME NEW p \in ToSet(paths), p # place PROVE p \in ToSet(Tail(paths))
    <3>1. PICK i \in 1 .. Len(paths) : paths[i] = p
      BY <2>1, <2>3 DEF ToSet
    <3>2. i # 1 /\ place = paths[1]
      BY <1>1, <2>1, <2>3, <3>1
    <3>3. i - 1 \in 1 .. Len(Tail(paths)) /\ Tail(paths)[i - 1] = p
      BY <1>1, <2>1, <2>2, <3>1, <3>2
    <3> DEFINE rest == Tail(paths)
    <3>4. DOMAIN rest = 1 .. Len(rest) /\ rest[i - 1] = p /\ i - 1 \in 1 .. Len(rest)
      BY <2>2, <3>3
    <3> HIDE DEF rest
    <3>5. p \in ToSet(rest)
      BY <3>4 DEF ToSet
    <3> QED
      BY <3>5 DEF rest
  <2> QED
    BY <2>1, <2>2, <2>3
<1>6. Places' = Places /\ PathsOf(report.homes)' = PathsOf(report.homes)
  BY <1>3 DEF Places
<1>7. HomesListed' /\ CountedOnce' /\ AttributedOnce'
  BY <1>1, <1>3, <1>4 DEF HomesListed, CountedOnce, AttributedOnce
<1>8. bytes \in Nat /\ bytes <= BytesOf(own[now], Node)
  <2>1. Within(place) \in SUBSET Node /\ Node \in SUBSET Node /\ IsFiniteSet(Node) /\ \A n \in Node : own[now][n] \in Nat
    BY <1>4, AccountsAssumption DEF Within
  <2>2. BytesOf(own[now], Within(place)) \in Nat
    BY <1>4, <2>1, DuIs
  <2>3. SumFunctionOnSet(own[now], Within(place)) <= SumFunctionOnSet(own[now], Node)
    <3> DEFINE W == Within(place)
    <3> HIDE DEF W
    <3> QED
      BY <2>1, SumOfPart DEF W
  <2> QED
    BY <2>2, <2>3 DEF BytesOf, Du
<1> HIDE DEF bytes, place, new
<1>9. EntriesMeasured'
  <2>1. IsFiniteSet(report'.entries)
    <3>1. IsFiniteSet(report.entries \cup {new})
      BY <1>4, FS_AddElement
    <3> QED
      BY <1>3, <1>4, <3>1
  <2>2. ASSUME NEW entry \in report'.entries
        PROVE  /\ entry.path \in Places
               /\ entry = [path |-> entry.path, bytes |-> entry.bytes]
               /\ entry.bytes \in Nat /\ \E tree \in Tree : entry.bytes <= BytesOf(tree, Node)
               /\ Quiet => entry.bytes = Du(own[now], entry.path)
    <3>1. CASE entry \in report.entries
      BY <3>1 DEF AccountsHold, EntriesMeasured
    <3>2. CASE entry = new
      <4>1. entry.path = place /\ entry.bytes = bytes /\ entry = [path |-> entry.path, bytes |-> entry.bytes]
        BY <3>2 DEF new
      <4>2. bytes = Du(own[now], place)
        BY DEF bytes
      <4> QED
        BY <1>4, <1>5, <1>8, <4>1, <4>2
    <3> QED
      BY <1>3, <2>2, <3>1, <3>2
  <2> QED
    BY <1>1, <1>6, <2>1, <2>2 DEF EntriesMeasured, Quiet
<1>10. PathsLeft'
  <2> SUFFICES ASSUME pc' = "measure"
               PROVE  /\ paths' \in Seq(Places)
                      /\ Cardinality(report'.entries) + Len(paths') <= Len(PathsOf(report.homes))
                      /\ Quiet' /\ ~failed' =>
                            \A p \in Places : \/ p \in ToSet(paths')
                                              \/ Du(own[now], p) = 0
                                              \/ \E entry \in report'.entries : entry.path = p
    BY <1>1, <1>6 DEF PathsLeft
  <2>1. Cardinality(report.entries) + Len(paths) <= Len(PathsOf(report.homes))
        /\ Len(PathsOf(report.homes)) \in Nat
    BY <1>1, <1>4, PathsAre DEF AccountsHold, PathsLeft
  <2>2. Cardinality(report'.entries) <= Cardinality(report.entries) + 1
        /\ Cardinality(report.entries) \in Nat /\ Cardinality(report'.entries) \in Nat
    <3>1. Cardinality(report.entries) \in Nat
      BY <1>4, FS_CardinalityType
    <3>2. CASE UNCHANGED report.entries
      BY <3>1, <3>2
    <3>3. CASE report'.entries = report.entries \cup {new}
      <4>1. Cardinality(report.entries \cup {new})
              \in {Cardinality(report.entries), Cardinality(report.entries) + 1}
        BY <1>4, FS_AddElement
      <4> QED
        BY <3>1, <3>3, <4>1
    <3> QED
      BY <1>3, <3>2, <3>3
  <2>3. ASSUME Quiet', ~failed', NEW p \in Places
        PROVE  \/ p \in ToSet(paths')
               \/ Du(own[now], p) = 0
               \/ \E entry \in report'.entries : entry.path = p
    <3>1. Quiet /\ ~failed
      BY <1>1, <2>3 DEF Quiet
    <3>2. \/ p \in ToSet(paths)
          \/ Du(own[now], p) = 0
          \/ \E entry \in report.entries : entry.path = p
      BY <1>1, <3>1 DEF AccountsHold, PathsLeft
    <3>3. report.entries \subseteq report'.entries
      BY <1>3
    <3>4. CASE p = place
      <4>1. bytes = 0 \/ new \in report'.entries
        BY <1>3, <2>3
      <4>2. new.path = place /\ bytes = Du(own[now], place)
        BY DEF bytes, new
      <4> QED
        BY <3>4, <4>1, <4>2
    <3>5. CASE p # place
      BY <1>1, <1>5, <3>2, <3>3, <3>5
    <3> QED
      BY <3>4, <3>5
  <2> QED
    BY <1>1, <1>5, <2>1, <2>2, <2>3
<1> QED
  BY <1>7, <1>9, <1>10 DEF AccountsHold

(* The entries are added up, each byte once, and the table is cut.         *)
LEMMA NestingIsAccountedFor ==
    ASSUME IInv, AccountsHold, AccountForNesting
    PROVE  AccountsHold' /\ report'.counted \in 0 .. Word
<1> DEFINE E == report.entries
<1>1. /\ pc = "measure" /\ paths = <<>> /\ pc' \in {"walk", "done"}
      /\ UNCHANGED <<own, now, changes, job, failed>>
      /\ pc' # "done" => UNCHANGED outcome
  BY DEF AccountForNesting, Outside, UsageStays, Goto, End
<1>2. PICK kept \in Largest(E, job.top) :
         report' = [report EXCEPT !.counted = Counted(E), !.entries = kept]
  BY DEF AccountForNesting
<1>3. /\ report'.counted = Counted(E) /\ report'.entries = kept
      /\ UNCHANGED <<report.homes, report.directories>>
  <2>1. report = [f \in DOMAIN NoReport |-> report[f]]
    BY DEF IInv, ColumnsStay
  <2> QED
    BY <1>2, <2>1 DEF NoReport
<1>4. /\ report.homes \in Homes /\ report.directories = {}
      /\ outcome = "none" /\ IsFiniteSet(E)
      /\ own[now] \in [Node -> Nat]
  BY <1>1, GuestHasFiles DEF GuestSteps, AccountsHold, HomesListed, EntriesMeasured
<1>5. kept \subseteq E /\ IsFiniteSet(kept)
  BY <1>2, <1>4, CutIsPart, FS_Subset
<1>6. Places' = Places /\ PathsOf(report.homes)' = PathsOf(report.homes)
  BY <1>3 DEF Places
<1>7. HomesListed' /\ PathsLeft' /\ AttributedOnce'
  BY <1>1, <1>3, <1>4 DEF HomesListed, PathsLeft, AttributedOnce
<1>8. EntriesMeasured'
  BY <1>1, <1>3, <1>5, <1>6 DEF AccountsHold, EntriesMeasured, Quiet
<1>9. report'.counted \in 0 .. Word
  <2>1. Cardinality(E) <= Len(PathsOf(report.homes)) /\ Len(PathsOf(report.homes)) \in Nat
    <3>1. Cardinality(E) + Len(paths) <= Len(PathsOf(report.homes))
      BY <1>1 DEF AccountsHold, PathsLeft
    <3>2. Cardinality(E) \in Nat /\ Len(paths) = 0
      BY <1>1, <1>4, FS_CardinalityType
    <3> QED
      BY <1>4, <3>1, <3>2, PathsAre
  <2>2. \A e \in E : e.bytes \in Nat /\ \E tree \in Tree : e.bytes <= BytesOf(tree, Node)
    BY DEF AccountsHold, EntriesMeasured
  <2> QED
    BY <1>3, <1>4, <2>1, <2>2, CountedFits
<1>10. CountedOnce'
  <2> SUFFICES ASSUME Quiet', ~failed', SpelledPlainly',
                      (\A place \in Places : MountsHideNone(place, Places))'
               PROVE  report'.counted = SpaceIn(Places)'
    BY DEF CountedOnce, Places
  <2>1. Quiet /\ ~failed /\ SpelledPlainly /\ \A place \in Places : MountsHideNone(place, Places)
    BY <1>1, <1>3, <1>6 DEF Quiet, SpelledPlainly
  <2>2. Places \in SUBSET Plain(Names)
    BY <1>4, <2>1, PathsArePlain DEF Places, SpelledPlainly
  <2>3. \A e \in E : e = [path |-> e.path, bytes |-> Du(own[now], e.path)] /\ e.path \in Places
    BY <2>1 DEF AccountsHold, EntriesMeasured
  <2>4. \A p \in Places : Du(own[now], p) = 0 \/ \E e \in E : e.path = p
    <3>1. ToSet(<<>>) = {}
      BY DEF ToSet
    <3> QED
      BY <1>1, <2>1, <3>1 DEF AccountsHold, PathsLeft
  <2>5. Named \subseteq Names
    BY DEF Names
  <2>6. SumOf({e \in E : ~Nested(e, E)}) = BytesOf(own[now], UNION {Within(p) : p \in Places})
    <3>1. MeasuredIn(own[now], E, Places)
      BY <2>1, <2>3, <2>4 DEF MeasuredIn
    <3> HIDE DEF E
    <3> QED
      BY <1>4, <2>2, <2>5, <3>1, NestingAddsUp
  <2>7. SpaceIn(Places)' = BytesOf(own[now], UNION {Within(p) : p \in Places})
    <3>1. SpaceIn(Places)' = BytesOf(own[now]', Space(Places'))
      BY DEF SpaceIn
    <3>2. Space(Places') = UNION {Within(p) : p \in Places} /\ own[now]' = own[now]
      BY <1>1, <1>6 DEF Space
    <3> QED
      BY <3>1, <3>2
  <2> QED
    BY <1>3, <2>6, <2>7 DEF Counted
<1> QED
  BY <1>7, <1>8, <1>9, <1>10 DEF AccountsHold

(* What AttributedOnce says of one row of the breakdown, of what `held` is *)
(* in the directories and `shown` the places in the table.                 *)
PutDownIn(row, held, shown, inside) ==
    /\ (\A place \in inside : MountsHideNone(place, inside)) =>
          row.attributed = BytesOf(held, Space(inside))
    /\ MountsHideNone(row.path, inside) => row.attributed <= row.bytes
    /\ /\ \A place \in inside \cup {row.path} : MountsHideNone(place, inside)
       /\ \A place \in shown : ~PathContains(place, row.path)
       => row.attributed = BytesOf(held, Within(row.path) \cap Space(shown))

PutDown(row, held, shown) ==
    PutDownIn(row, held, shown, {place \in shown : IsPrefix(row.path, place)})

(* What is put down to a directory of the guest is what the entries in it  *)
(* hold, each byte once, and no more than it holds itself.                 *)
LEMMA PutDownOnce ==
    ASSUME NEW held \in [Node -> Nat], NEW entries, IsFiniteSet(entries), NEW n \in Node,
           \A e \in entries : /\ e = [path |-> e.path, bytes |-> Du(held, e.path)]
                              /\ e.path \in Plain(Names),
           NEW row, row.path = n, row.bytes = Du(held, n), row.attributed = SumOf(Attributed(n, entries)),
           NEW shown, shown = {e.path : e \in entries}
    PROVE  PutDown(row, held, shown)
<1> DEFINE inside == {place \in shown : IsPrefix(n, place)}
<1> DEFINE E == {e \in entries : Holds(n, e)}
<1>1. n \in Plain(Names) /\ n \in Seq(Names) /\ Named \subseteq Names
  <2>1. n \in Seq(Named) /\ NoName \notin Named
    BY AccountsAssumption
  <2>2. \A i \in 1 .. Len(n) : n[i] \in Named
    BY <2>1
  <2>3. n \in Seq(Names) /\ Named \subseteq Names
    BY <2>1 DEF Names
  <2> QED
    BY <2>1, <2>2, <2>3, PlainIsCanonical DEF Plain
<1>2. IsFiniteSet(E)
  <2>1. E \subseteq entries
    OBVIOUS
  <2> HIDE DEF E
  <2> QED
    BY <2>1, FS_Subset
<1>3. \A e \in entries : Holds(n, e) <=> IsPrefix(n, e.path)
  <2>1. IsPrefix(n, n)
    BY <1>1, PrefixAndAll
  <2> QED
    BY <2>1 DEF Holds, PathContains, IsStrictPrefix
<1>4. Attributed(n, entries) = {e \in E : ~Nested(e, E)}
  BY DEF Attributed
<1>5. /\ inside \in SUBSET Plain(Names)
      /\ \A e \in E : /\ e = [path |-> e.path, bytes |-> Du(held, e.path)]
                      /\ e.path \in inside /\ e.path \in Plain(Names)
      /\ \A p \in inside : \E e \in E : e.path = p
  BY <1>3
<1> HIDE DEF E
<1>6. ASSUME \A place \in inside : MountsHideNone(place, inside)
      PROVE  SumOf(Attributed(n, entries)) = BytesOf(held, Space(inside))
  <2>1. SumOf({e \in E : ~Nested(e, E)}) = BytesOf(held, UNION {Within(p) : p \in inside})
    <3>1. Named \subseteq Names /\ inside \in SUBSET Plain(Names)
      BY <1>1, <1>5
    <3>2. \A e \in E : e = [path |-> e.path, bytes |-> Du(held, e.path)] /\ e.path \in inside
      BY <1>5
    <3>3. \A p \in inside : Du(held, p) = 0 \/ \E e \in E : e.path = p
      BY <1>5
    <3>4. MeasuredIn(held, E, inside)
      BY <1>6, <3>2, <3>3 DEF MeasuredIn
    <3> QED
      BY <1>2, <3>1, <3>4, NestingAddsUp
  <2> QED
    BY <1>4, <2>1 DEF Space
<1>6a. ASSUME MountsHideNone(n, inside), NEW p \in inside
       PROVE  Within(p) \subseteq Within(n)
  <2>1. p \in Plain(Names) /\ IsPrefix(n, p)
    BY <1>5
  <2>2. CASE p \in Node
    <3>1. p \in Within(n)
      BY <1>6a, <2>1, <2>2 DEF MountsHideNone
    <3> QED
      BY <1>1, <2>1, <3>1, PlaceInPlace
  <2>3. CASE p \notin Node
    BY <1>1, <2>1, <2>3, WithinPlain
  <2> QED
    BY <2>2, <2>3
<1>7. ASSUME MountsHideNone(n, inside)
      PROVE  SumOf(Attributed(n, entries)) <= Du(held, n)
  <2>1. ASSUME NEW e \in E PROVE Within(e.path) \subseteq Within(n)
    <3>1. e.path \in inside
      BY <1>5
    <3> QED
      BY <1>7, <1>6a, <3>1
  <2>2. SumOf({e \in E : ~Nested(e, E)}) <= Du(held, n)
    <3>1. \A e \in E : e = [path |-> e.path, bytes |-> Du(held, e.path)] /\ e.path \in Plain(Names)
      BY <1>5
    <3> QED
      BY <1>1, <1>2, <2>1, <3>1, NestingFits
  <2> QED
    BY <1>4, <2>2
<1>8. ASSUME \A place \in inside \cup {n} : MountsHideNone(place, inside),
             \A place \in shown : ~PathContains(place, n)
      PROVE  Space(inside) = Within(n) \cap Space(shown)
  <2>1. MountsHideNone(n, inside)
    BY <1>8
  <2>2. Space(inside) \subseteq Within(n) \cap Space(shown)
    <3>1. ASSUME NEW x \in Space(inside) PROVE x \in Within(n) \cap Space(shown)
      <4>1. PICK p \in inside : x \in Within(p)
        BY <3>1 DEF Space
      <4>2. x \in Within(n) /\ p \in shown
        BY <1>6a, <2>1, <4>1
      <4> QED
        BY <4>1, <4>2 DEF Space
    <3> QED
      BY <3>1
  <2>3. ASSUME NEW x \in Within(n) \cap Space(shown) PROVE x \in Space(inside)
    <3>1. PICK p \in shown : x \in Within(p)
      BY <2>3 DEF Space
    <3>2. p \in Plain(Names) /\ p \in Seq(Names)
      BY DEF Plain
    <3>3. x \in Node /\ IsPrefix(p, x) /\ IsPrefix(n, x)
      BY <1>1, <2>3, <3>1, <3>2, WithinPlain
    <3>4. x \in Seq(Names)
      <4>1. x \in Seq(Named)
        BY <3>3, AccountsAssumption
      <4>2. \A i \in 1 .. Len(x) : x[i] \in Names
        BY <1>1, <4>1
      <4> QED
        BY <4>1, <4>2
    <3>5. IsPrefix(p, n) \/ IsPrefix(n, p)
      BY <1>1, <3>2, <3>3, <3>4, PrefixesOfOne
    <3>6. IsPrefix(n, p)
      <4>1. ASSUME IsPrefix(p, n) PROVE p = n
        BY <1>8, <4>1 DEF PathContains, IsStrictPrefix
      <4>2. IsPrefix(n, n)
        BY <1>1, PrefixAndAll
      <4> QED
        BY <3>5, <4>1, <4>2
    <3>7. p \in inside
      BY <3>1, <3>6
    <3> QED
      BY <3>1, <3>7 DEF Space
  <2> QED
    BY <2>2, <2>3
<1> QED
  <2>1. \A place \in inside : place \in inside \cup {n}
    OBVIOUS
  <2> HIDE DEF inside
  <2>2. PutDownIn(row, held, shown, inside)
    BY <1>6, <1>7, <1>8, <2>1 DEF PutDownIn
  <2> QED
    BY <2>2 DEF PutDown, inside

(* The rest of the guest is walked and its directories have their shares.  *)
LEMMA DirectoriesAreMeasured ==
    ASSUME IInv, AccountsHold, MeasureDirectories
    PROVE  AccountsHold'
<1>1. /\ pc = "walk" /\ pc' = "done" /\ UNCHANGED <<own, now, changes, job>>
      /\ failed' = TRUE \/ UNCHANGED failed
  BY DEF MeasureDirectories, Outside, UsageStays, End, Ran, RanForNothing, CouldNotRun
<1>2. \/ UNCHANGED report
      \/ \E kept \in Largest(Breakdown(own[now], job.depth, report.entries), job.top) :
            report' = [report EXCEPT !["directories"] = kept]
  BY DEF MeasureDirectories
<1>3. /\ UNCHANGED <<report.homes, report.entries, report.counted>>
      /\ \/ UNCHANGED report.directories
         \/ report'.directories \in Largest(Breakdown(own[now], job.depth, report.entries), job.top)
  <2>1. CASE UNCHANGED report
    BY <2>1
  <2>2. CASE \E kept \in Largest(Breakdown(own[now], job.depth, report.entries), job.top) :
                report' = [report EXCEPT !["directories"] = kept]
    BY <2>2, ReportFields DEF IInv, NoReport
  <2> QED
    BY <1>2, <2>1, <2>2
<1>4. /\ report.homes \in Homes /\ report.directories = {} /\ outcome = "none"
      /\ IsFiniteSet(report.entries) /\ own[now] \in [Node -> Nat]
  BY <1>1, GuestHasFiles DEF GuestSteps, AccountsHold, HomesListed, EntriesMeasured
<1>5. Places' = Places /\ PathsOf(report.homes)' = PathsOf(report.homes)
  BY <1>3 DEF Places
<1>6. HomesListed' /\ PathsLeft'
  BY <1>1, <1>3, <1>4 DEF HomesListed, PathsLeft
<1>7. EntriesMeasured'
  BY <1>1, <1>3, <1>5 DEF AccountsHold, EntriesMeasured, Quiet
<1>8. CountedOnce'
  <2> SUFFICES ASSUME job'.verb = "usage", ~job'.dryRun, Quiet', ~failed', report'.homes # {},
                      SpelledPlainly', (\A place \in Places : MountsHideNone(place, Places))'
               PROVE  report'.counted = SpaceIn(Places)'
    BY DEF CountedOnce, Places
  <2>1. /\ job.verb = "usage" /\ ~job.dryRun /\ Quiet /\ ~failed /\ report.homes # {} /\ SpelledPlainly
        /\ \A place \in Places : MountsHideNone(place, Places)
    BY <1>1, <1>3, <1>5 DEF Quiet, SpelledPlainly
  <2>2. report.counted = SpaceIn(Places)
    BY <1>1, <1>4, <2>1 DEF AccountsHold, CountedOnce, Places
  <2>3. SpaceIn(Places)' = SpaceIn(Places)
    <3>1. SpaceIn(Places)' = BytesOf(own[now]', Space(Places'))
      BY DEF SpaceIn
    <3> QED
      BY <1>1, <1>5, <3>1 DEF SpaceIn
  <2> QED
    BY <1>3, <2>2, <2>3
<1>9. AttributedOnce'
  <2> SUFFICES ASSUME Quiet', SpelledPlainly', NEW row \in report'.directories
               PROVE  PutDown(row, own[now]', Shown')
    BY DEF AttributedOnce, PutDown, PutDownIn, SpaceIn, OverlapWith
  <2>1. Quiet /\ SpelledPlainly
    BY <1>1, <1>3 DEF Quiet, SpelledPlainly
  <2>2. row \in Breakdown(own[now], job.depth, report.entries)
    BY <1>3, <1>4, CutIsPart
  <2>3. PICK n \in Node : row = [path |-> n, bytes |-> Du(own[now], n),
                                 attributed |-> SumOf(Attributed(n, report.entries))]
    <3>1. PICK r \in Listed(own[now], job.depth) :
             row = [path |-> r.path, bytes |-> r.bytes,
                    attributed |-> SumOf(Attributed(r.path, report.entries))]
      BY <2>2 DEF Breakdown
    <3>2. PICK n \in Node : r = [path |-> n, bytes |-> Du(own[now], n)]
      BY DEF Listed, Within
    <3> QED
      BY <3>1, <3>2
  <2>4. row.path = n /\ row.bytes = Du(own[now], n) /\ row.attributed = SumOf(Attributed(n, report.entries))
    BY <2>3
  <2>5. \A e \in report.entries : /\ e = [path |-> e.path, bytes |-> Du(own[now], e.path)]
                                  /\ e.path \in Plain(Names)
    <3>1. \A p \in Places : p \in Plain(Names)
      BY <1>4, <2>1, PathsArePlain DEF Places, SpelledPlainly
    <3> QED
      BY <2>1, <3>1 DEF AccountsHold, EntriesMeasured
  <2>7. PutDown(row, own[now], Shown)
    <3>1. Shown = {e.path : e \in report.entries}
      BY DEF Shown
    <3> QED
      BY <1>4, <2>4, <2>5, <3>1, PutDownOnce
  <2>8. own[now]' = own[now] /\ Shown' = Shown
    BY <1>1, <1>3 DEF Shown
  <2> QED
    BY <2>7, <2>8
<1> QED
  BY <1>6, <1>7, <1>8, <1>9 DEF AccountsHold

(* What the report says stays true while nothing of it changes: a guest    *)
(* whose files have changed is not quiet any more.                         *)
LEMMA AccountsStay ==
    ASSUME AccountsHold, SizesFit, UNCHANGED <<pc, job, now, paths, rows, report, outcome, failed>>,
           Quiet' => Quiet /\ UNCHANGED own
    PROVE  AccountsHold' /\ SizesFit'
<1>1. Places' = Places
  BY DEF Places
<1>2. HomesListed' /\ SizesFit'
  BY DEF AccountsHold, HomesListed, SizesFit
<1>2a. Quiet' => Quiet /\ own[now]' = own[now]
  OBVIOUS
<1>3. EntriesMeasured'
  <2>1. report' = report
    OBVIOUS
  <2> QED
    BY <1>1, <1>2a, <2>1 DEF AccountsHold, EntriesMeasured
<1>4. PathsLeft'
  <2>1. report' = report /\ paths' = paths /\ pc' = pc /\ failed' = failed
    OBVIOUS
  <2>2. PathsOf(report.homes)' = PathsOf(report.homes)
    BY <2>1
  <2> QED
    BY <1>1, <1>2a, <2>1, <2>2 DEF AccountsHold, PathsLeft
<1>5. CountedOnce'
  <2> SUFFICES ASSUME job'.verb = "usage", outcome' # "error", pc' \in {"walk", "done"}, ~job'.dryRun,
                      Quiet', ~failed', report'.homes # {},
                      SpelledPlainly', (\A place \in Places : MountsHideNone(place, Places))'
               PROVE  report'.counted = SpaceIn(Places)'
    BY DEF CountedOnce, Places
  <2>1. /\ job.verb = "usage" /\ outcome # "error" /\ pc \in {"walk", "done"} /\ ~job.dryRun
        /\ Quiet /\ ~failed /\ report.homes # {} /\ SpelledPlainly
        /\ \A place \in Places : MountsHideNone(place, Places)
    BY <1>1 DEF SpelledPlainly
  <2>2. report.counted = SpaceIn(Places)
    BY <2>1 DEF AccountsHold, CountedOnce, Places
  <2>3. SpaceIn(Places)' = SpaceIn(Places)
    <3>1. SpaceIn(Places)' = BytesOf(own[now]', Space(Places'))
      BY DEF SpaceIn
    <3>2. own[now]' = own[now]
      OBVIOUS
    <3> QED
      BY <1>1, <3>1, <3>2 DEF SpaceIn
  <2> QED
    BY <2>2, <2>3
<1>6. AttributedOnce'
  <2> SUFFICES ASSUME Quiet', SpelledPlainly', NEW row \in report'.directories
               PROVE  PutDown(row, own[now]', Shown')
    BY DEF AttributedOnce, PutDown, PutDownIn, SpaceIn, OverlapWith
  <2>1. Quiet /\ SpelledPlainly /\ row \in report.directories /\ own[now]' = own[now] /\ Shown' = Shown
    BY DEF SpelledPlainly, Shown
  <2>2. PutDown(row, own[now], Shown)
    BY <2>1 DEF AccountsHold, AttributedOnce, PutDown, PutDownIn, SpaceIn, OverlapWith
  <2> QED
    BY <2>1, <2>2
<1> QED
  BY <1>2, <1>3, <1>4, <1>5, <1>6 DEF AccountsHold

(* What a row says of sizes is read off the volume or out of df.           *)
LEMMA RowsFit ==
    ASSUME IInv, SizesFit, Next, NEW d \in DOMAIN rows'
    PROVE  /\ rows'[d].onDisk \in {Unknown} \cup 0 .. Word
           /\ rows'[d].used \in {Unknown} \cup 0 .. Word
<1> DEFINE Fits(row) == row.onDisk \in {Unknown} \cup 0 .. Word /\ row.used \in {Unknown} \cup 0 .. Word
<1>1. /\ \A x \in DOMAIN rows : Fits(rows[x])
      /\ \A x \in DOMAIN rows : rows[x] = [f \in DOMAIN Blank |-> rows[x][f]]
  BY DEF SizesFit, IInv, ColumnsStay
<1>2. CASE UNCHANGED rows
  BY <1>1, <1>2
<1>3. CASE NextRow
  <2>1. PICK state : rows' = [g \in DOMAIN rows \cup {now'} |->
                                 IF g # now' THEN rows[g] ELSE [Blank EXCEPT !.state = state]]
    BY <1>3 DEF NextRow
  <2>2. Fits([Blank EXCEPT !.state = state])
    BY DEF Blank
  <2> QED
    BY <1>1, <2>1, <2>2
<1>4. ASSUME NEW field \in {"onDisk", "geometry"}, NEW value, field = "onDisk" => value \in OnDisk,
             rows' = [rows EXCEPT ![now] = [rows[now] EXCEPT ![field] = value]]
      PROVE  Fits(rows'[d])
  <2>1. d \in DOMAIN rows /\ DOMAIN Blank = {"state", "onDisk", "geometry", "used", "free", "reclaimable"}
    BY <1>4 DEF Blank
  <2>2. CASE d # now
    BY <1>1, <1>4, <2>1, <2>2
  <2>3. CASE d = now
    <3>1. rows'[d] = [rows[d] EXCEPT ![field] = value]
      BY <1>4, <2>1, <2>3
    <3>2. rows'[d].used = rows[d].used
          /\ rows'[d].onDisk = IF field = "onDisk" THEN value ELSE rows[d].onDisk
      BY <1>1, <2>1, <3>1
    <3> QED
      BY <1>1, <1>4, <2>1, <3>2, ReportsAssumption
  <2> QED
    BY <2>2, <2>3
<1>5. CASE MeasureFile
  <2>1. \/ UNCHANGED rows
        \/ \E n \in OnDisk : rows' = [rows EXCEPT ![now] = [rows[now] EXCEPT !["onDisk"] = n]]
    BY <1>5 DEF MeasureFile
  <2> QED
    BY <1>2, <1>4, <2>1
<1>6. CASE CloseDisk
  <2>1. \/ UNCHANGED rows
        \/ rows' = [rows EXCEPT ![now] = [rows[now] EXCEPT !["geometry"] = TRUE]]
    BY <1>6 DEF CloseDisk
  <2> QED
    BY <1>2, <1>4, <2>1
<1>7. CASE ProbeGuest
  <2>1. \/ UNCHANGED rows
        \/ \E printed : rows' = [rows EXCEPT ![now] = RowOf(rows[now], ParseDf(printed))]
    BY <1>7 DEF ProbeGuest
  <2>2. ASSUME NEW printed, rows' = [rows EXCEPT ![now] = RowOf(rows[now], ParseDf(printed))]
        PROVE  Fits(rows'[d])
    <3>1. d \in DOMAIN rows /\ DOMAIN Blank = {"state", "onDisk", "geometry", "used", "free", "reclaimable"}
      BY <2>2 DEF Blank
    <3>2. CASE d # now
      BY <1>1, <2>2, <3>1, <3>2
    <3>3. CASE d = now
      <4>1. rows'[d] = RowOf(rows[d], ParseDf(printed))
        BY <2>2, <3>1, <3>3
      <4>2. rows'[d].onDisk = rows[d].onDisk /\ rows'[d].used = ParseDf(printed).used
        BY <1>1, <3>1, <4>1 DEF RowOf
      <4> QED
        BY <1>1, <3>1, <4>2, ReadFiguresFit
    <3> QED
      BY <3>2, <3>3
  <2> QED
    BY <1>2, <2>1, <2>2
<1>8. \/ UNCHANGED rows \/ NextRow \/ MeasureFile \/ CloseDisk \/ ProbeGuest
  BY DEF Next, Ask, Usage, Trim, Enumerate, AskRunning, LastRowDone, OpenDisk, AskGuest, ReadTotals,
         HomesOf, MeasurePath, AccountForNesting, MeasureDirectories, RunFstrim, RunFstrimPlain,
         GuestChanges, Others, UsageStays, command
<1> QED
  BY <1>2, <1>3, <1>5, <1>6, <1>7, <1>8

(* There are no figures in a df that printed nothing.                      *)
LEMMA DfOfNothing == ParseDf(<<>>) = NoUsage
<1>1. LastRow(<<>>) = <<>>
  BY DEF LastRow
<1>2. Len(<<>>) < 5
  OBVIOUS
<1> QED
  BY <1>1, <1>2 DEF ParseDf

(* What is reported as used and as trimmed is read out of what df and      *)
(* fstrim printed, and what is counted was added up.                       *)
LEMMA FiguresFit ==
    ASSUME IInv, AccountsHold, SizesFit, Next
    PROVE  /\ report'.used \in {Unknown} \cup 0 .. Word
           /\ report'.trimmed \in {Unknown} \cup 0 .. Word
           /\ report'.counted \in 0 .. Word
<1>1. /\ report.used \in {Unknown} \cup 0 .. Word
      /\ report.trimmed \in {Unknown} \cup 0 .. Word /\ report.counted \in 0 .. Word /\ ColumnsStay
  BY DEF SizesFit, IInv
<1>2. CASE \E field \in {"homes", "entries", "directories"} : \E value :
              report' = [report EXCEPT ![field] = value]
  <2>0. PICK field \in {"homes", "entries", "directories"} :
           \E value : report' = [report EXCEPT ![field] = value]
    BY <1>2
  <2>1. PICK value : report' = [report EXCEPT ![field] = value]
    BY <2>0
  <2>2. UNCHANGED <<report.used, report.trimmed, report.counted>>
    BY <1>1, <2>0, <2>1, ReportFields DEF NoReport
  <2> QED
    BY <1>1, <2>2
<1>3. CASE \E printed : report' = [report EXCEPT !["trimmed"] = ParseTrimmedBytes(printed)]
  <2>1. PICK printed : report' = [report EXCEPT !["trimmed"] = ParseTrimmedBytes(printed)]
    BY <1>3
  <2>2. report'.trimmed = ParseTrimmedBytes(printed) /\ UNCHANGED <<report.used, report.counted>>
    BY <1>1, <2>1, ReportFields DEF NoReport
  <2> QED
    BY <1>1, <2>2, ReadFiguresFit
<1>4. CASE AccountForNesting
  <2>1. \E kept : report' = [report EXCEPT !.counted = Counted(report.entries), !.entries = kept]
    BY <1>4 DEF AccountForNesting
  <2>2. report = [f \in DOMAIN NoReport |-> report[f]]
    BY <1>1 DEF ColumnsStay
  <2>3. UNCHANGED <<report.used, report.trimmed>>
    BY <2>1, <2>2 DEF NoReport
  <2> QED
    BY <1>1, <1>4, <2>3, NestingIsAccountedFor
<1>4a. CASE \E printed : report' = Totals(ParseDf(printed))
  <2>1. PICK printed : report' = Totals(ParseDf(printed))
    BY <1>4a
  <2> DEFINE figures == ParseDf(printed)
  <2>2. figures.used \in {Unknown} \cup 0 .. Word /\ report' = Totals(figures)
    BY <2>1, ReadFiguresFit
  <2> HIDE DEF figures
  <2>3. /\ report'.used \in {report.used, figures.used}
        /\ UNCHANGED <<report.trimmed, report.counted>>
    BY <1>1, <2>2, TotalsFields
  <2> QED
    BY <1>1, <2>2, <2>3
<1>5. CASE UNCHANGED report
  BY <1>1, <1>5
<1>6. \/ UNCHANGED report
      \/ \E field \in {"homes", "entries", "directories"} : \E value :
            report' = [report EXCEPT ![field] = value]
      \/ \E printed : report' = Totals(ParseDf(printed))
      \/ \E printed : report' = [report EXCEPT !["trimmed"] = ParseTrimmedBytes(printed)]
      \/ AccountForNesting
  <2>1. CASE ReadTotals
    <3>1. \/ UNCHANGED report
          \/ \E printed : report' = Totals(ParseDf(printed))
          \/ report' = Totals(NoUsage)
      BY <2>1 DEF ReadTotals
    <3>2. ParseDf(<<>>) = NoUsage
      BY DfOfNothing
    <3> QED
      BY <3>1, <3>2
  <2>2. CASE HomesOf
    <3>1. \E value : report' = [report EXCEPT !["homes"] = value]
      BY <2>2 DEF HomesOf
    <3> QED
      BY <3>1
  <2>3. CASE MeasurePath
    <3>1. UNCHANGED report \/ \E value : report' = [report EXCEPT !["entries"] = value]
      BY <2>3 DEF MeasurePath
    <3> QED
      BY <3>1
  <2>4. CASE MeasureDirectories
    <3>1. UNCHANGED report \/ \E value : report' = [report EXCEPT !["directories"] = value]
      BY <2>4 DEF MeasureDirectories
    <3> QED
      BY <3>1
  <2>5. CASE RunFstrim \/ RunFstrimPlain
    <3>1. UNCHANGED report \/ \E printed : report' = [report EXCEPT !["trimmed"] = ParseTrimmedBytes(printed)]
      BY <2>5 DEF RunFstrim, RunFstrimPlain, FstrimDone
    <3> QED
      BY <3>1
  <2>6. CASE AccountForNesting
    BY <2>6
  <2>7. CASE Ask \/ GuestChanges \/ Others
    BY <2>7 DEF Ask, Enumerate, AskRunning, NextRow, LastRowDone, MeasureFile, OpenDisk, CloseDisk,
                AskGuest, ProbeGuest, GuestChanges, Others, command
  <2> QED
    BY <2>1, <2>2, <2>3, <2>4, <2>5, <2>6, <2>7 DEF Next, Usage, Trim
<1> QED
  BY <1>2, <1>3, <1>4a, <1>4, <1>5, <1>6

(* Every step keeps the accounts.                                          *)
LEMMA AccountsStep ==
    ASSUME AInv, [Next]_vars
    PROVE  AInv'
<1>1. IInv /\ AccountsHold /\ SizesFit
  BY DEF AInv
<1>2. IInv'
  BY <1>1, ReportsStep
<1>3. CASE UNCHANGED vars
  <2>1. UNCHANGED <<pc, job, now, paths, rows, report, outcome, failed, changes, own>>
    BY <1>3 DEF vars, command
  <2>2. Quiet' => Quiet /\ UNCHANGED own
    BY <2>1 DEF Quiet
  <2> QED
    BY <1>1, <1>2, <2>1, <2>2, AccountsStay DEF AInv
<1>4. CASE GuestChanges \/ Others
  <2>1. UNCHANGED <<pc, job, now, paths, rows, report, outcome, failed>>
    BY <1>4 DEF GuestChanges, Others, command
  <2>2. Quiet' => Quiet /\ UNCHANGED own
    <3>1. changes \in Nat
      <4>1. changes \in 0 .. Changes
        BY <1>1 DEF IInv, TypeOK
      <4> QED
        BY <4>1, ReportsAssumption
    <3>2. (changes' = changes + 1) \/ UNCHANGED <<changes, own>>
      BY <1>4 DEF GuestChanges, Others
    <3> QED
      BY <3>1, <3>2 DEF Quiet
  <2> QED
    BY <1>1, <1>2, <2>1, <2>2, AccountsStay DEF AInv
<1>5. CASE Ask \/ Usage \/ Trim
  <2>1. SizesFit'
    <3>1. Next
      BY <1>5 DEF Next
    <3> QED
      BY <1>1, <3>1, RowsFit, FiguresFit DEF SizesFit
  <2>2. AccountsHold'
    BY <1>1, <1>5, BeforeTheHomes, HomesAreListed, PathIsMeasured, NestingIsAccountedFor,
       DirectoriesAreMeasured DEF Ask, Usage, Trim
  <2> QED
    BY <1>2, <2>1, <2>2 DEF AInv
<1> QED
  BY <1>3, <1>4, <1>5 DEF Next

(* No command begins with accounts that do not hold.                       *)
LEMMA AccountsBegin == Init => AInv
BY ReportsStart, AccountsStart DEF AInv

(* In a guest whose files keep still, what usage counts is what all the    *)
(* catalogue's places hold together, each byte once: for every catalogue,  *)
(* every home and tree, whatever lies in whatever and however little of    *)
(* the table is shown.                                                     *)
THEOREM EveryByteIsCountedOnce == Spec => []CountedOnce
<1>1. AInv => CountedOnce
  BY DEF AInv, AccountsHold
<1> QED
  BY <1>1, AccountsBegin, AccountsStep, PTL DEF Spec

(* What a directory is said to hold of the table's entries is what those   *)
(* in it or at it do hold, each byte once, and no more than the directory  *)
(* has; and that is all it has in common with the table, unless it lies    *)
(* further down in an entry, which is then left out.                       *)
THEOREM EveryByteIsAttributedOnce == Spec => []AttributedOnce
<1>1. AInv => AttributedOnce
  BY DEF AInv, AccountsHold
<1> QED
  BY <1>1, AccountsBegin, AccountsStep, PTL DEF Spec

(* Every size that any table shows is rounded down by less than a tenth of *)
(* its unit and a byte, and what is printed is a size that can be typed.   *)
THEOREM ShownSizesAreHonest == Spec => []SizesAreHonest
<1>1. AInv => SizesAreHonest
  <2> SUFFICES ASSUME SizesFit, NEW n,
                      n \in ({rows[d].onDisk : d \in DOMAIN rows} \cup {rows[d].used : d \in DOMAIN rows}
                             \cup {report.used, report.counted, report.trimmed}) \ {Unknown}
               PROVE  LET text == FormatSize(n)
                      IN /\ Honest(n)
                         /\ Reread(text) = ParseSize(text.whole, IF text.tenths = NoTenths THEN <<>>
                                                                 ELSE <<text.tenths>>, text.unit)
    BY DEF SizesAreHonest, AInv
  <2>1. n \in 0 .. Word
    BY DEF SizesFit
  <2> QED
    BY <2>1, PrintedSizesAreHonest, PrintedIsTyped
<1> QED
  BY <1>1, AccountsBegin, AccountsStep, PTL DEF Spec
=============================================================================
