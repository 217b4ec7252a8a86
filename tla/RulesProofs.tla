---------------------------- MODULE RulesProofs ----------------------------
(***************************************************************************)
(* The pure rules for every input: any environment, any image, any series  *)
(* of samples, and all limits.                                             *)
(***************************************************************************)
EXTENDS Rules, FiniteSetTheorems, TLAPS

-----------------------------------------------------------------------------
(* Python's sorted() and round().                                          *)

(* Sorted lists the elements of a finite set of integers once each, in     *)
(* ascending order: the rank of an element is one to one, so every place   *)
(* is taken.                                                               *)
LEMMA SortedSorts ==
    ASSUME NEW S, IsFiniteSet(S), S \subseteq Int
    PROVE  /\ Cardinality(S) \in Nat
           /\ Sorted(S) \in [1..Cardinality(S) -> S]
           /\ \A x \in S : \E k \in 1..Cardinality(S) :
                k = Cardinality({y \in S : y <= x}) /\ Sorted(S)[k] = x
           /\ \A i, k \in 1..Cardinality(S) : i < k => Sorted(S)[i] < Sorted(S)[k]
<1> DEFINE Below(x) == {z \in S : z <= x}
           rank == [x \in S |-> Cardinality(Below(x))]
           n == Cardinality(S)
<1>0. \A x \in S : x \in Int
  OBVIOUS
<1>1. n \in Nat
  BY FS_CardinalityType
<1>2. ASSUME NEW x \in S
      PROVE  IsFiniteSet(Below(x)) /\ rank[x] \in 1..n
  <2>1. IsFiniteSet(Below(x)) /\ Cardinality(Below(x)) <= n
    BY FS_Subset
  <2>2. Cardinality(Below(x)) \in Nat
    BY <2>1, FS_CardinalityType
  <2>3. x \in Below(x)
    OBVIOUS
  <2>4. Cardinality(Below(x)) # 0
    BY <2>1, <2>3, FS_EmptySet
  <2> QED BY <1>1, <2>1, <2>2, <2>4
<1>3. ASSUME NEW x \in S, NEW y \in S, x < y
      PROVE  rank[x] < rank[y]
  <2>0. x \in Int /\ y \in Int /\ x < y
    BY <1>0, <1>3
  <2>1. Below(x) \subseteq Below(y) /\ y \in Below(y) /\ y \notin Below(x)
    <3>1. \A z \in S : z <= x => z <= y
      BY <1>0, <2>0
    <3>2. y <= y /\ ~(y <= x)
      BY <2>0
    <3> QED BY <3>1, <3>2
  <2>2. IsFiniteSet(Below(y))
    BY <1>2
  <2>3. /\ Cardinality(Below(x)) <= Cardinality(Below(y))
        /\ Cardinality(Below(y)) = Cardinality(Below(x)) => Below(y) = Below(x)
    BY <2>1, <2>2, FS_Subset
  <2>4. rank[x] \in Int /\ rank[y] \in Int /\ rank[x] = Cardinality(Below(x)) /\ rank[y] = Cardinality(Below(y))
    BY <1>2
  <2> QED BY <2>1, <2>3, <2>4
<1>4. rank \in Injection(S, 1..n)
  <2>1. \A x, y \in S : rank[x] = rank[y] => x = y
    <3> SUFFICES ASSUME NEW x \in S, NEW y \in S, rank[x] = rank[y], x # y PROVE FALSE
      OBVIOUS
    <3>1. x < y \/ y < x
      BY <1>0
    <3>2. rank[x] \in Int /\ rank[y] \in Int
      BY <1>2
    <3> HIDE DEF rank
    <3> QED BY <1>3, <3>1, <3>2
  <2>2. rank \in [S -> 1..n]
    BY <1>2
  <2> QED BY <2>1, <2>2 DEF Injection, IsInjective
<1>5. rank \in Surjection(S, 1..n)
  BY <1>1, <1>4, FS_Interval, FS_Injection
<1>6. ASSUME NEW k \in 1..n
      PROVE  Sorted(S)[k] \in S /\ rank[Sorted(S)[k]] = k
  <2>1. \E x \in S : Cardinality(Below(x)) = k
    BY <1>5 DEF Surjection
  <2> QED BY <2>1 DEF Sorted
<1>7. Sorted(S) \in [1..n -> S]
  BY <1>6 DEF Sorted
<1>8. ASSUME NEW x \in S
      PROVE  \E k \in 1..n : k = Cardinality({y \in S : y <= x}) /\ Sorted(S)[k] = x
  <2>1. rank[x] \in 1..n /\ rank[x] = Cardinality({y \in S : y <= x})
    BY <1>2
  <2>2. Sorted(S)[rank[x]] = x
    BY <1>4, <1>6, <2>1 DEF Injection, IsInjective
  <2> QED BY <2>1, <2>2
<1>9. \A i, k \in 1..n : i < k => Sorted(S)[i] < Sorted(S)[k]
  <2> SUFFICES ASSUME NEW i \in 1..n, NEW k \in 1..n, i < k
               PROVE  Sorted(S)[i] < Sorted(S)[k]
    OBVIOUS
  <2> DEFINE a == Sorted(S)[i]
             b == Sorted(S)[k]
  <2>1. a \in S /\ b \in S /\ rank[a] = i /\ rank[b] = k
    BY <1>6
  <2> HIDE DEF a, b, rank
  <2>2. a \in Int /\ b \in Int /\ a # b
    BY <1>0, <1>1, <2>1
  <2>3. ~(b < a)
    BY <1>1, <1>3, <2>1
  <2> QED BY <2>2, <2>3 DEF a, b
<1> HIDE DEF rank, Below
<1> QED BY <1>1, <1>7, <1>8, <1>9

(* round() is off by at most a half, whichever way a tie goes.             *)
LEMMA RoundIsNear ==
    ASSUME NEW a \in Int, NEW b \in Nat \ {0}
    PROVE  /\ RoundHalfEven(a, b) \in Int
           /\ 2 * (b * RoundHalfEven(a, b) - a) <= b /\ 2 * (a - b * RoundHalfEven(a, b)) <= b
<1> DEFINE q == a \div b
           r == a % b
           m == b * q
<1>1. q \in Int /\ r \in Int /\ 0 <= r /\ r < b /\ m \in Int /\ a = m + r /\ b * (q + 1) = m + b
  OBVIOUS
<1>2. RoundHalfEven(a, b) = IF 2 * r > b \/ (2 * r = b /\ q % 2 = 1) THEN q + 1 ELSE q
  BY DEF RoundHalfEven
<1> HIDE DEF q, r
<1>3. CASE 2 * r > b \/ (2 * r = b /\ q % 2 = 1)
  <2>1. RoundHalfEven(a, b) = q + 1 /\ 2 * r >= b
    BY <1>1, <1>2, <1>3
  <2> HIDE DEF m
  <2> QED BY <1>1, <2>1
<1>4. CASE ~(2 * r > b \/ (2 * r = b /\ q % 2 = 1))
  <2>1. RoundHalfEven(a, b) = q /\ 2 * r <= b /\ b * q = m
    BY <1>1, <1>2, <1>4
  <2> HIDE DEF m
  <2> QED BY <1>1, <2>1
<1> QED BY <1>3, <1>4

-----------------------------------------------------------------------------
(* For every percentage and every number of samples the load report takes  *)
(* a sample that exists, and the one whose rank is nearest to the          *)
(* percentage: the rounding, the step from rank to index and the two       *)
(* clamps fit together (generate.py 87-97).                                *)
THEOREM PercentileTakesNearest ==
    \A p \in 0..100, n \in Nat \ {0} : IsNearestRank(PercentileIndex(p, n) + 1, p, n)
<1> SUFFICES ASSUME NEW p \in 0..100, NEW n \in Nat \ {0}
             PROVE  IsNearestRank(PercentileIndex(p, n) + 1, p, n)
  OBVIOUS
<1> DEFINE a     == p * n
           round == RoundHalfEven(a, 100)
           rank  == PercentileIndex(p, n) + 1
<1>1. a \in Nat /\ a <= 100 * n
  <2>1. p \in Nat /\ p <= 100 /\ n \in Nat
    OBVIOUS
  <2>2. \A x, y \in Nat : x <= 100 => x * y \in Nat /\ x * y <= 100 * y
    OBVIOUS
  <2> QED BY <2>1, <2>2
<1>2. round \in Nat /\ 100 * round - a <= 50 /\ a - 100 * round <= 50
  <2>1. round \in Int /\ 2 * (100 * round - a) <= 100 /\ 2 * (a - 100 * round) <= 100
    BY <1>1, RoundIsNear
  <2> HIDE DEF a, round
  <2> QED BY <1>1, <2>1
<1>3. rank = LET clamped == IF round - 1 > n - 1 THEN n - 1 ELSE round - 1
             IN  IF clamped < 0 THEN 1 ELSE clamped + 1
  BY <1>2 DEF PercentileIndex
<1>4. \A k : Distance(k, p, n) = IF 100 * k > a THEN 100 * k - a ELSE a - 100 * k
  BY DEF Distance
<1> HIDE DEF a, round, rank
<1>5. rank = (IF round = 0 THEN 1 ELSE IF round > n THEN n ELSE round)
  BY <1>2, <1>3
<1>6. rank \in 1..n
  BY <1>2, <1>5
<1>7. ASSUME NEW k \in 1..n PROVE Distance(rank, p, n) <= Distance(k, p, n)
  BY <1>1, <1>2, <1>4, <1>5
<1> QED BY <1>6, <1>7 DEF IsNearestRank, rank

-----------------------------------------------------------------------------
(* load_config.                                                            *)

LEMMA OptionalVars ==
    /\ DOMAIN ParseOrder = 1..5
    /\ ToSet(ParseOrder) = {"LOG_LEVEL", "SHUTDOWN_GRACE_SECONDS", "MAX_UPLOAD_BYTES",
                            "THUMBNAIL_SIZES", "ENABLE_CHAOS_ENDPOINT"}
<1>1. DOMAIN ParseOrder = 1..5
  BY DEF ParseOrder
<1>2. /\ ParseOrder[1] = "LOG_LEVEL" /\ ParseOrder[2] = "SHUTDOWN_GRACE_SECONDS"
      /\ ParseOrder[3] = "MAX_UPLOAD_BYTES" /\ ParseOrder[4] = "THUMBNAIL_SIZES"
      /\ ParseOrder[5] = "ENABLE_CHAOS_ENDPOINT"
  BY DEF ParseOrder
<1>3. 1..5 = {1, 2, 3, 4, 5}
  OBVIOUS
<1> QED BY <1>1, <1>2, <1>3 DEF ToSet

(* The cases of Parse and RawValues, one by one.                           *)
LEMMA ParseCases ==
    ASSUME NEW raw
    PROVE  /\ Parse("LOG_LEVEL", raw) = LogLevel(raw)
           /\ Parse("SHUTDOWN_GRACE_SECONDS", raw) = IntVar(raw, 30, 0)
           /\ Parse("MAX_UPLOAD_BYTES", raw) = IntVar(raw, TenMiB, 1)
           /\ Parse("THUMBNAIL_SIZES", raw) = ThumbnailSizes(raw)
           /\ Parse("ENABLE_CHAOS_ENDPOINT", raw) = BoolVar(raw, FALSE)
BY Zenon DEF Parse

LEMMA RawCases ==
    /\ RawValues("LOG_LEVEL") = {Unset, Blank, Word} \cup ({"level"} \X STRING)
    /\ RawValues("SHUTDOWN_GRACE_SECONDS") = {Unset, Blank, Word} \cup Numbers
    /\ RawValues("MAX_UPLOAD_BYTES") = {Unset, Blank, Word} \cup Numbers
    /\ RawValues("THUMBNAIL_SIZES") = {Unset, Blank} \cup ({"list"} \X Seq(Tokens))
    /\ RawValues("ENABLE_CHAOS_ENDPOINT") = {Unset, Blank, Word} \cup ({"flag"} \X BOOLEAN)
BY Zenon DEF RawValues

LEMMA TenMiBIsInt == TenMiB \in Int /\ TenMiB >= 1
BY SMT DEF TenMiB

(* What the sizes of an accepted list are.                                 *)
SizesSound(raw, sizes) ==
    /\ \A i, k \in DOMAIN sizes : i < k => sizes[i] < sizes[k]
    /\ ToSet(sizes) # {} /\ ToSet(sizes) \subseteq 1..Edge
    /\ raw[1] = "list" => ToSet(sizes) = {t[2] : t \in ToSet(raw[2]) \ {Blank}}
    /\ raw[1] # "list" => ToSet(sizes) = {150, 400, 800}

(* sorted() of a non-empty set of sizes within the bound.                  *)
LEMMA SizesSorted ==
    ASSUME NEW S, S \subseteq 1..Edge, S # {}
    PROVE  /\ \A i, k \in DOMAIN Sorted(S) : i < k => Sorted(S)[i] < Sorted(S)[k]
           /\ ToSet(Sorted(S)) = S
<1>1. IsFiniteSet(S) /\ S \subseteq Int
  <2>1. IsFiniteSet(1..Edge)
    BY EdgeAssumption, FS_Interval DEF Edge
  <2>2. S \in SUBSET (1..Edge) /\ \A x \in S : x \in Int
    BY EdgeAssumption DEF Edge
  <2> QED BY <2>1, <2>2, FS_Subset
<1> DEFINE c == Cardinality(S)
           q == Sorted(S)
<1>2. /\ q \in [1..c -> S]
      /\ \A x \in S : \E k \in 1..c : q[k] = x
      /\ \A i, k \in 1..c : i < k => q[i] < q[k]
  BY <1>1, SortedSorts
<1> HIDE DEF c, q
<1>3. DOMAIN q = 1..c /\ ToSet(q) = S
  BY <1>2 DEF ToSet
<1> QED BY <1>2, <1>3 DEF q

LEMMA SizesParsed ==
    ASSUME NEW raw \in RawValues("THUMBNAIL_SIZES")
    PROVE  \/ ThumbnailSizes(raw) = {} /\ Malformed("THUMBNAIL_SIZES", raw)
           \/ \E sizes : ThumbnailSizes(raw) = {sizes} /\ SizesSound(raw, sizes)
<1> DEFINE listed == IF Get(raw) = Unset THEN {Num(150), Num(400), Num(800)} ELSE ToSet(raw[2])
           tokens == listed \ {Blank}
           sound  == \A t \in tokens : t # Word /\ t[2] > 0 /\ t[2] <= Edge
           S      == {t[2] : t \in tokens}
<1>1. ThumbnailSizes(raw) = IF sound /\ tokens # {} THEN {Sorted(S)} ELSE {}
  BY DEF ThumbnailSizes, Edge
<1>2. CASE raw \in {Unset, Blank}
  <2>1. raw[1] # "list" /\ tokens = {Num(150), Num(400), Num(800)}
    BY <1>2 DEF Get, Unset, Blank, Num
  <2>2. /\ Num(150)[2] = 150 /\ Num(400)[2] = 400 /\ Num(800)[2] = 800
        /\ Word \notin {Num(150), Num(400), Num(800)}
    BY DEF Num, Word
  <2>3. S = {150, 400, 800}
    BY <2>1, <2>2
  <2>4. S \subseteq 1..Edge /\ S # {}
    BY <2>3, EdgeAssumption DEF Edge
  <2>5. sound /\ tokens # {}
    <3>1. \A t \in tokens : t # Word /\ t[2] \in S
      BY <2>1, <2>2, <2>3
    <3> QED BY <2>1, <2>4, <3>1, EdgeAssumption DEF Edge
  <2>6. ThumbnailSizes(raw) = {Sorted(S)}
    BY <1>1, <2>5
  <2> HIDE DEF S
  <2> QED BY <2>1, <2>3, <2>4, <2>6, SizesSorted DEF SizesSound
<1>3. CASE raw \in {"list"} \X Seq(Tokens)
  <2>1. raw[1] = "list" /\ raw[2] \in Seq(Tokens) /\ Get(raw) = raw /\ raw # Unset
    BY <1>3 DEF Get, Unset, Blank
  <2>2. tokens = ToSet(raw[2]) \ {Blank} /\ \A t \in ToSet(raw[2]) : t \in Tokens
    BY <2>1 DEF ToSet
  <2>3. \A t \in tokens : t = Word \/ (t[1] = "num" /\ t[2] \in Int)
    BY <2>2 DEF Tokens, Numbers
  <2>4. CASE sound /\ tokens # {}
    <3>1. S \subseteq 1..Edge /\ S # {}
      BY <2>3, <2>4, EdgeAssumption DEF Edge
    <3>2. ThumbnailSizes(raw) = {Sorted(S)}
      BY <1>1, <2>4
    <3>3. S = {t[2] : t \in ToSet(raw[2]) \ {Blank}}
      BY <2>2
    <3> HIDE DEF S
    <3> QED BY <2>1, <3>1, <3>2, <3>3, SizesSorted DEF SizesSound
  <2>5. CASE tokens = {}
    BY <1>1, <2>1, <2>2, <2>5 DEF Malformed
  <2>6. CASE ~sound
    <3>1. PICK t \in tokens : ~(t # Word /\ t[2] > 0 /\ t[2] <= Edge)
      BY <2>6
    <3>2. NoSize(t) /\ t \in ToSet(raw[2])
      BY <2>2, <2>3, <3>1, EdgeAssumption DEF NoSize, Edge
    <3>3. ThumbnailSizes(raw) = {}
      BY <1>1, <2>6
    <3> QED BY <2>1, <3>2, <3>3 DEF Malformed
  <2> QED BY <2>4, <2>5, <2>6
<1> QED BY <1>2, <1>3, RawCases

LEMMA IntParsed ==
    ASSUME NEW raw \in {Unset, Blank, Word} \cup Numbers,
           NEW default \in Int, NEW minimum \in Int, default >= minimum
    PROVE  \/ /\ IntVar(raw, default, minimum) = {}
              /\ raw = Word \/ (raw[1] = "num" /\ raw[2] < minimum)
           \/ \E n \in Int : IntVar(raw, default, minimum) = {n} /\ n >= minimum
<1>1. CASE raw \in {Unset, Blank}
  BY <1>1 DEF IntVar, Get
<1>2. CASE raw = Word
  BY <1>2 DEF IntVar, Get, Word, Unset, Blank
<1>3. CASE raw \in Numbers
  <2>1. raw[1] = "num" /\ raw[2] \in Int /\ raw \notin {Unset, Blank, Word}
    BY <1>3 DEF Numbers, Unset, Blank, Word
  <2>2. IntVar(raw, default, minimum) = {n \in {raw[2]} : n >= minimum}
    BY <2>1 DEF IntVar, Get
  <2>3. CASE raw[2] >= minimum
    <3>1. IntVar(raw, default, minimum) = {raw[2]}
      BY <2>2, <2>3
    <3> QED BY <2>1, <2>3, <3>1
  <2>4. CASE ~(raw[2] >= minimum)
    BY <2>1, <2>2, <2>4
  <2> QED BY <2>3, <2>4
<1> QED BY <1>1, <1>2, <1>3

LEMMA GraceParsed ==
    ASSUME NEW raw \in {Unset, Blank, Word} \cup Numbers
    PROVE  \/ /\ IntVar(raw, 30, 0) = {}
              /\ raw = Word \/ (raw[1] = "num" /\ raw[2] < 0)
           \/ \E n \in Int : IntVar(raw, 30, 0) = {n} /\ n >= 0
<1>1. 30 \in Int /\ 0 \in Int /\ 30 >= 0
  OBVIOUS
<1> QED BY <1>1, IntParsed, Zenon

LEMMA UploadParsed ==
    ASSUME NEW raw \in {Unset, Blank, Word} \cup Numbers
    PROVE  \/ /\ IntVar(raw, TenMiB, 1) = {}
              /\ raw = Word \/ (raw[1] = "num" /\ raw[2] < 1)
           \/ \E n \in Int : IntVar(raw, TenMiB, 1) = {n} /\ n >= 1
<1>1. 1 \in Int
  OBVIOUS
<1> QED BY <1>1, IntParsed, TenMiBIsInt, Zenon

LEMMA BoolParsed ==
    ASSUME NEW raw \in RawValues("ENABLE_CHAOS_ENDPOINT")
    PROVE  \/ BoolVar(raw, FALSE) = {} /\ raw = Word
           \/ \E b \in BOOLEAN : BoolVar(raw, FALSE) = {b} /\ (b => raw = Flag(TRUE))
<1>1. CASE raw \in {Unset, Blank}
  BY <1>1 DEF BoolVar
<1>2. CASE raw = Word
  BY <1>2 DEF BoolVar, Word, Unset, Blank
<1>3. CASE raw \in {"flag"} \X BOOLEAN
  <2>1. raw = Flag(raw[2]) /\ raw[2] \in BOOLEAN /\ raw \notin {Unset, Blank, Word}
    BY <1>3 DEF Flag, Unset, Blank, Word
  <2>2. BoolVar(raw, FALSE) = {raw[2]}
    BY <2>1 DEF BoolVar
  <2>3. raw[2] => raw[2] = TRUE
    BY <2>1
  <2> QED BY <2>1, <2>2, <2>3
<1> QED BY <1>1, <1>2, <1>3, RawCases

LEMMA LevelParsed ==
    ASSUME NEW raw \in RawValues("LOG_LEVEL"), LogLevel(raw) = {}
    PROVE  raw = Word
<1>1. raw # Word => raw \in {Unset, Blank} \/ raw \in {"level"} \X STRING
  BY RawCases
<1> QED BY <1>1 DEF LogLevel, Get

(* A value is refused only if it is malformed.                             *)
LEMMA RefusedIsMalformed ==
    ASSUME NEW v \in ToSet(ParseOrder), NEW raw \in RawValues(v), Parse(v, raw) = {}
    PROVE  Malformed(v, raw)
<1>1. CASE v = "LOG_LEVEL"
  BY <1>1, LevelParsed, ParseCases DEF Malformed
<1>2. CASE v = "SHUTDOWN_GRACE_SECONDS"
  <2>1. raw \in {Unset, Blank, Word} \cup Numbers /\ IntVar(raw, 30, 0) = {}
    BY <1>2, ParseCases, RawCases
  <2>2. raw = Word \/ (raw[1] = "num" /\ raw[2] < 0)
    BY <2>1, GraceParsed, Zenon
  <2> QED BY <1>2, <2>2 DEF Malformed
<1>3. CASE v = "MAX_UPLOAD_BYTES"
  <2>1. raw \in {Unset, Blank, Word} \cup Numbers /\ IntVar(raw, TenMiB, 1) = {}
    BY <1>3, ParseCases, RawCases
  <2>2. raw = Word \/ (raw[1] = "num" /\ raw[2] < 1)
    BY <2>1, UploadParsed, Zenon
  <2> QED BY <1>3, <2>2 DEF Malformed
<1>4. CASE v = "THUMBNAIL_SIZES"
  <2>1. raw \in RawValues("THUMBNAIL_SIZES") /\ ThumbnailSizes(raw) = {}
    BY <1>4, ParseCases
  <2>2. Malformed("THUMBNAIL_SIZES", raw)
    BY <2>1, SizesParsed, Zenon
  <2> QED BY <1>4, <2>2
<1>5. CASE v = "ENABLE_CHAOS_ENDPOINT"
  <2>1. raw \in RawValues("ENABLE_CHAOS_ENDPOINT") /\ BoolVar(raw, FALSE) = {}
    BY <1>5, ParseCases
  <2>2. raw = Word
    BY <2>1, BoolParsed
  <2> QED BY <2>2 DEF Malformed
<1> QED BY <1>1, <1>2, <1>3, <1>4, <1>5, OptionalVars

(* The least element that LoadConfig reports exists.                       *)
LEMMA MinIsElement ==
    ASSUME NEW S, S \subseteq 1..5, S # {}
    PROVE  Min(S) \in S
<1>1. \E x \in S : \A y \in S : x <= y
  <2>1. \A x \in S : x = 1 \/ x = 2 \/ x = 3 \/ x = 4 \/ x = 5
    OBVIOUS
  <2>2. CASE 1 \in S
    BY <2>1, <2>2
  <2>3. CASE 1 \notin S /\ 2 \in S
    BY <2>1, <2>3
  <2>4. CASE {1, 2} \cap S = {} /\ 3 \in S
    BY <2>1, <2>4
  <2>5. CASE {1, 2, 3} \cap S = {} /\ 4 \in S
    BY <2>1, <2>5
  <2>6. CASE {1, 2, 3, 4} \cap S = {}
    <3>1. S = {5}
      BY <2>1, <2>6
    <3> QED BY <3>1
  <2> QED BY <2>2, <2>3, <2>4, <2>5, <2>6
<1> QED BY <1>1 DEF Min

(* load_config is exact on every environment whose variables hold what a   *)
(* variable may hold.                                                      *)
LEMMA ConfigExact ==
    ASSUME NEW env \in Environments
    PROVE  IF LoadConfig(env).ok THEN AcceptedIsSound(env, LoadConfig(env).values)
                                 ELSE RefusalHasItsReason(env, LoadConfig(env).names)
<1> DEFINE missing == {v \in REQUIRED_VARS : Get(env[v]) = Unset}
           bad     == {i \in DOMAIN ParseOrder : Parse(ParseOrder[i], env[ParseOrder[i]]) = {}}
           absent  == {v \in REQUIRED_VARS : env[v] \in {Unset, Blank}}
           values  == [v \in ToSet(ParseOrder) |-> CHOOSE x \in Parse(v, env[v]) : TRUE]
<1>1. /\ \A v \in REQUIRED_VARS : env[v] \in RawValues(v)
      /\ \A v \in ToSet(ParseOrder) : env[v] \in RawValues(v)
  BY InputsAssumption
<1>2. missing = absent
  BY DEF Get
<1>3. CASE missing # {}
  <2>1. LoadConfig(env) = [ok |-> FALSE, names |-> missing]
    BY <1>3 DEF LoadConfig, ConfigError
  <2>2. RefusalHasItsReason(env, missing)
    BY <1>2, <1>3 DEF RefusalHasItsReason
  <2> HIDE DEF missing
  <2> QED BY <2>1, <2>2
<1>4. CASE missing = {} /\ bad # {}
  <2>1. LoadConfig(env) = [ok |-> FALSE, names |-> {ParseOrder[Min(bad)]}]
    BY <1>4 DEF LoadConfig, ConfigError
  <2> DEFINE v == ParseOrder[Min(bad)]
  <2>2. Min(bad) \in bad
    BY <1>4, OptionalVars, MinIsElement
  <2>3. v \in ToSet(ParseOrder) /\ Parse(v, env[v]) = {}
    BY <2>2 DEF ToSet
  <2>4. Malformed(v, env[v])
    BY <1>1, <2>3, RefusedIsMalformed
  <2>5. absent = {}
    BY <1>2, <1>4
  <2> HIDE DEF v, bad, missing, absent
  <2>6. RefusalHasItsReason(env, {v})
    BY <2>3, <2>4, <2>5 DEF RefusalHasItsReason, absent
  <2> QED BY <2>1, <2>6 DEF v
<1>5. CASE missing = {} /\ bad = {}
  <2>1. LoadConfig(env) = [ok |-> TRUE, values |-> values]
    BY <1>5 DEF LoadConfig
  <2>2. \A v \in ToSet(ParseOrder) : Parse(v, env[v]) # {}
    BY <1>5 DEF ToSet
  <2>3. values["MAX_UPLOAD_BYTES"] \in Nat \ {0}
    <3> DEFINE raw == env["MAX_UPLOAD_BYTES"]
    <3>1. raw \in {Unset, Blank, Word} \cup Numbers /\ IntVar(raw, TenMiB, 1) # {}
      BY <1>1, <2>2, OptionalVars, ParseCases, RawCases
    <3>2. PICK n \in Int : IntVar(raw, TenMiB, 1) = {n} /\ n >= 1
      BY <3>1, UploadParsed, Zenon
    <3>3. values["MAX_UPLOAD_BYTES"] = n
      BY <3>2, OptionalVars, ParseCases
    <3> HIDE DEF values, raw
    <3> QED BY <3>2, <3>3
  <2>4. values["SHUTDOWN_GRACE_SECONDS"] \in Nat
    <3> DEFINE raw == env["SHUTDOWN_GRACE_SECONDS"]
    <3>1. raw \in {Unset, Blank, Word} \cup Numbers /\ IntVar(raw, 30, 0) # {}
      BY <1>1, <2>2, OptionalVars, ParseCases, RawCases
    <3>2. PICK n \in Int : IntVar(raw, 30, 0) = {n} /\ n >= 0
      BY <3>1, GraceParsed, Zenon
    <3>3. values["SHUTDOWN_GRACE_SECONDS"] = n
      BY <3>2, OptionalVars, ParseCases
    <3> HIDE DEF values, raw
    <3> QED BY <3>2, <3>3
  <2>5. values["ENABLE_CHAOS_ENDPOINT"] => env["ENABLE_CHAOS_ENDPOINT"] = Flag(TRUE)
    <3> DEFINE raw == env["ENABLE_CHAOS_ENDPOINT"]
    <3>1. raw \in RawValues("ENABLE_CHAOS_ENDPOINT") /\ BoolVar(raw, FALSE) # {}
      BY <1>1, <2>2, OptionalVars, ParseCases
    <3>2. PICK b \in BOOLEAN : BoolVar(raw, FALSE) = {b} /\ (b => raw = Flag(TRUE))
      BY <3>1, BoolParsed
    <3>3. values["ENABLE_CHAOS_ENDPOINT"] = b
      BY <3>2, OptionalVars, ParseCases
    <3> QED BY <3>2, <3>3
  <2>6. SizesSound(env["THUMBNAIL_SIZES"], values["THUMBNAIL_SIZES"])
    <3> DEFINE raw == env["THUMBNAIL_SIZES"]
    <3>1. raw \in RawValues("THUMBNAIL_SIZES") /\ ThumbnailSizes(raw) # {}
      BY <1>1, <2>2, OptionalVars, ParseCases
    <3>2. PICK sizes : ThumbnailSizes(raw) = {sizes} /\ SizesSound(raw, sizes)
      BY <3>1, SizesParsed
    <3>3. values["THUMBNAIL_SIZES"] = sizes
      BY <3>2, OptionalVars, ParseCases
    <3> QED BY <3>2, <3>3
  <2>7. \A v \in REQUIRED_VARS : env[v] \notin {Unset, Blank}
    BY <1>2, <1>5
  <2> HIDE DEF values
  <2>8. AcceptedIsSound(env, values)
    BY <2>3, <2>4, <2>5, <2>6, <2>7 DEF AcceptedIsSound, SizesSound
  <2> QED BY <2>1, <2>8
<1> QED BY <1>3, <1>4, <1>5

(* Every configuration that load_config accepts satisfies what the other   *)
(* components assume of it, and every refusal names all the variables that *)
(* are missing, or one that is malformed (config.py 97-202), whatever the  *)
(* environment holds.                                                      *)
THEOREM ConfigAlwaysExact == RuleSpec => []ConfigIsExact
<1> DEFINE Inv == /\ rule = "config" => input \in Environments
                  /\ Done("config") => result = LoadConfig(input)
<1>1. RuleInit => Inv
  BY DEF RuleInit, Done
<1>2. Inv /\ [RuleNext]_ruleVars => Inv'
  <2> SUFFICES ASSUME Inv, [RuleNext]_ruleVars PROVE Inv'
    OBVIOUS
  <2> QED BY DEF RuleNext, Apply, ApplyConfig, ApplyExif, ApplyPercentile, Done, ruleVars
<1>3. Inv => ConfigIsExact
  BY ConfigExact DEF ConfigIsExact, Done
<1> QED BY <1>1, <1>2, <1>3, PTL DEF RuleSpec

(* The sample the load report takes exists and is the nearest, for every   *)
(* percentile of every series (generate.py 87-97).                         *)
THEOREM PercentilesAlwaysNearest == RuleSpec => []PercentileIsNearest
<1> DEFINE Inv == /\ rule = "percentile" => input \in Samples
                  /\ Done("percentile") => result = PercentileIndex(input.p, input.n)
<1>1. RuleInit => Inv
  BY DEF RuleInit, Done
<1>2. Inv /\ [RuleNext]_ruleVars => Inv'
  <2> SUFFICES ASSUME Inv, [RuleNext]_ruleVars PROVE Inv'
    OBVIOUS
  <2> QED BY DEF RuleNext, Apply, ApplyConfig, ApplyExif, ApplyPercentile, Done, ruleVars
<1>3. Inv => PercentileIsNearest
  BY InputsAssumption, PercentileTakesNearest DEF PercentileIsNearest, Done
<1> QED BY <1>1, <1>2, <1>3, PTL DEF RuleSpec

-----------------------------------------------------------------------------
(* extract_exif.                                                           *)

LEMMA ScaleIsNat ==
    /\ Scale \in Nat \ {0} /\ Fine \in Nat \ {0}
    /\ MaxExifChars \in Nat \ {0} /\ MaxExifItems \in Nat \ {0}
BY ExifAssumption

(* The cases of the conversion and of its promise, one by one.             *)
LEMMA NormaliseCases ==
    ASSUME NEW v
    PROVE  /\ v[1] = "str" /\ v[2] > 0 =>
                NormaliseScalar(v) =
                  {<<"str", IF v[2] > MaxExifChars THEN MaxExifChars ELSE v[2]>>}
           /\ v[1] \in {"int", "nan"} => NormaliseScalar(v) = {v}
           /\ v[1] = "float" => NormaliseScalar(v) = {Rounded(v[2])}
           /\ v[1] = "ratio" /\ v[3] # 0 =>
                NormaliseScalar(v) = {Rounded(Quotient(v[2], v[3]))}
           /\ /\ ~(v[1] = "str" /\ v[2] > 0)
              /\ v[1] \notin {"int", "nan", "float"}
              /\ ~(v[1] = "ratio" /\ v[3] # 0)
              => NormaliseScalar(v) = {}
BY Zenon DEF NormaliseScalar

LEMMA SameCases ==
    ASSUME NEW v, NEW w
    PROVE  /\ v[1] = "str" =>
                (SameItem(v, w) <=> /\ w[1] = "str" /\ w[2] <= v[2] /\ w[2] \in 1..MaxExifChars
                                    /\ (w[2] < v[2] => w[2] = MaxExifChars))
           /\ v[1] = "int" => (SameItem(v, w) <=> w = v)
           /\ v[1] = "float" =>
                (SameItem(v, w) <=>
                   IsNumber(w) /\ Near(2 * Units(w) * Fine, 2 * v[2] * Scale, Fine))
           /\ v[1] = "ratio" =>
                (SameItem(v, w) <=>
                   IsNumber(w) /\ Near(2 * Units(w) * Fine * v[3], 2 * v[2] * Scale * Fine,
                                       v[3] * (Fine + Scale)))
BY Zenon DEF SameItem

(* A number that is rounded and stored is read back in the same digits,    *)
(* as an integer if it is whole.                                           *)
LEMMA StoredNumber ==
    ASSUME NEW m \in Int
    PROVE  LET w == RoundHalfEven(m * Scale, Fine)
               x == Rounded(m)
           IN  /\ x[1] = "rounded" /\ w \in Int
               /\ 2 * (Fine * w - m * Scale) <= Fine /\ 2 * (m * Scale - Fine * w) <= Fine
               /\ IsNumber(ThroughDynamo(x)) /\ Units(ThroughDynamo(x)) = w
<1> DEFINE a == m * Scale
           w == RoundHalfEven(a, Fine)
           q == w \div Scale
           x == Rounded(m)
<1>1. a \in Int /\ Scale \in Nat \ {0} /\ Fine \in Nat \ {0}
  BY ScaleIsNat
<1>2. x = <<"rounded", w>>
  BY DEF Rounded
<1>3. w \in Int /\ 2 * (Fine * w - a) <= Fine /\ 2 * (a - Fine * w) <= Fine
  <2> HIDE DEF a
  <2> QED BY <1>1, RoundIsNear
<1>4. CASE w % Scale = 0
  <2>1. ThroughDynamo(x) = <<"int", q>>
    BY <1>2, <1>4 DEF ThroughDynamo
  <2>2. q \in Int /\ q * Scale = w
    <3> HIDE DEF w
    <3> QED BY <1>1, <1>3, <1>4
  <2> HIDE DEF x, q, a, w
  <2>3. IsNumber(ThroughDynamo(x)) /\ Units(ThroughDynamo(x)) = w
    BY <2>1, <2>2 DEF IsNumber, Units
  <2> QED BY <1>2, <1>3, <2>3 DEF x, w, a
<1>5. CASE w % Scale # 0
  <2>1. ThroughDynamo(x) = <<"rounded", w>>
    BY <1>2, <1>5 DEF ThroughDynamo
  <2> HIDE DEF x, q, a, w
  <2>2. IsNumber(ThroughDynamo(x)) /\ Units(ThroughDynamo(x)) = w
    BY <1>3, <1>5, <2>1 DEF IsNumber, Units
  <2> QED BY <1>2, <1>3, <2>2 DEF x, w, a
<1> QED BY <1>4, <1>5

LEMMA FloatIsNear ==
    ASSUME NEW v, v[1] = "float", v[2] \in Int
    PROVE  SameItem(v, ThroughDynamo(Rounded(v[2])))
<1> DEFINE m == v[2]
           a == m * Scale
           w == RoundHalfEven(a, Fine)
           y == ThroughDynamo(Rounded(m))
<1>1. /\ m \in Int /\ a \in Int /\ Fine \in Nat \ {0} /\ Scale \in Nat \ {0}
  BY ScaleIsNat
<1>2. /\ w \in Int /\ IsNumber(y) /\ Units(y) = w
      /\ 2 * (Fine * w - a) <= Fine /\ 2 * (a - Fine * w) <= Fine
  BY <1>1, StoredNumber
<1> HIDE DEF y, w
<1>3. 2 * w * Fine = 2 * (Fine * w) /\ Fine * w \in Int
  BY <1>1, <1>2
<1>4. 2 * m * Scale = 2 * a
  <2> HIDE DEF m
  <2> QED BY <1>1
<1> HIDE DEF a
<1>5. Near(2 * w * Fine, 2 * m * Scale, Fine)
  BY <1>1, <1>2, <1>3, <1>4 DEF Near
<1>6. Near(2 * Units(y) * Fine, 2 * v[2] * Scale, Fine)
  BY <1>2, <1>5
<1> QED BY <1>2, <1>6, SameCases DEF y

(* Two roundings one after the other, of n / d to M / f and of that to     *)
(* W / s, are off by at most the half units of both.                       *)
LEMMA TwoRoundings ==
    ASSUME NEW n \in Int, NEW d \in Nat, NEW M \in Int, NEW W \in Int, NEW f \in Nat, NEW s \in Nat,
           2 * (d * M - n * f) <= d, 2 * (n * f - d * M) <= d,
           2 * (f * W - M * s) <= f, 2 * (M * s - f * W) <= f
    PROVE  Near(2 * W * f * d, 2 * n * s * f, d * (f + s))
<1> DEFINE e == 2 * (d * M - n * f)
           g == 2 * (f * W - M * s)
<1>1. e \in Int /\ g \in Int /\ -d <= e /\ e <= d /\ -f <= g /\ g <= f
  <2>1. d * M \in Int /\ n * f \in Int /\ f * W \in Int /\ M * s \in Int
    OBVIOUS
  <2> QED BY <2>1
<1>2. 2 * W * f * d - 2 * n * s * f = d * g + s * e
  <2>1. d * g = 2 * (d * f * W) - 2 * (d * M * s)
    OBVIOUS
  <2>2. s * e = 2 * (s * d * M) - 2 * (s * n * f)
    OBVIOUS
  <2>3. d * M * s = s * d * M /\ 2 * W * f * d = 2 * (d * f * W) /\ 2 * n * s * f = 2 * (s * n * f)
    OBVIOUS
  <2>4. d * f * W \in Int /\ s * d * M \in Int /\ s * n * f \in Int
    OBVIOUS
  <2> HIDE DEF e, g
  <2> QED BY <2>1, <2>2, <2>3, <2>4
<1>3. ASSUME NEW k \in Nat, NEW x \in Int, NEW b \in Nat, -b <= x, x <= b
      PROVE  k * x <= k * b /\ -(k * b) <= k * x /\ k * x \in Int /\ k * b \in Int
  BY <1>3
<1> HIDE DEF e, g
<1>4. d * g <= d * f /\ -(d * f) <= d * g /\ d * g \in Int /\ d * f \in Int
  BY <1>1, <1>3
<1>5. s * e <= s * d /\ -(s * d) <= s * e /\ s * e \in Int /\ s * d \in Int
  BY <1>1, <1>3
<1>6. d * (f + s) = d * f + s * d
  OBVIOUS
<1>7. 2 * W * f * d \in Int /\ 2 * n * s * f \in Int
  OBVIOUS
<1> DEFINE u == 2 * W * f * d
           z == 2 * n * s * f
           t == d * (f + s)
<1>8. u \in Int /\ z \in Int /\ u - z = d * g + s * e /\ t = d * f + s * d
  BY <1>2, <1>6, <1>7
<1> HIDE DEF u, z, t
<1>9. u - z <= t /\ z - u <= t
  BY <1>4, <1>5, <1>8
<1> QED BY <1>9 DEF Near, u, z, t

LEMMA RatioIsNear ==
    ASSUME NEW v, v[1] = "ratio", v[2] \in Int, v[3] \in Nat \ {0}
    PROVE  SameItem(v, ThroughDynamo(Rounded(Quotient(v[2], v[3]))))
<1> DEFINE n == v[2]
           d == v[3]
           M == Quotient(n, d)
           W == RoundHalfEven(M * Scale, Fine)
           y == ThroughDynamo(Rounded(M))
<1>1. n \in Int /\ d \in Nat \ {0} /\ Fine \in Nat \ {0} /\ Scale \in Nat \ {0} /\ n * Fine \in Int
  BY ScaleIsNat
<1>2. M \in Int /\ 2 * (d * M - n * Fine) <= d /\ 2 * (n * Fine - d * M) <= d
  BY <1>1, RoundIsNear DEF Quotient
<1> HIDE DEF M
<1>3. /\ W \in Int /\ IsNumber(y) /\ Units(y) = W
      /\ 2 * (Fine * W - M * Scale) <= Fine /\ 2 * (M * Scale - Fine * W) <= Fine
  BY <1>2, StoredNumber
<1> HIDE DEF W, y, n, d
<1>4. Near(2 * W * Fine * d, 2 * n * Scale * Fine, d * (Fine + Scale))
  BY <1>1, <1>2, <1>3, TwoRoundings
<1>5. Near(2 * Units(y) * Fine * v[3], 2 * v[2] * Scale * Fine, v[3] * (Fine + Scale))
  BY <1>3, <1>4 DEF n, d
<1> QED BY <1>3, <1>5, SameCases DEF y, M, n, d

(* What a value is read back as, if it can be stored.                      *)
ReadAs(v, x) == IF v[1] = "nan" THEN x[1] = "nan" ELSE x[1] # "nan" /\ SameItem(v, ThroughDynamo(x))

(* One scalar: it is kept exactly if it is usable, and read back the same. *)
LEMMA ScalarExact ==
    ASSUME NEW v \in Scalars
    PROVE  /\ v[1] # "tuple"
           /\ \/ NormaliseScalar(v) = {} /\ ~UsableItem(v)
              \/ \E x : /\ NormaliseScalar(v) = {x} /\ UsableItem(v)
                        /\ x[1] # "list" /\ ReadAs(v, x)
<1>1. CASE v \in {<<"bytes">>, <<"other">>}
  BY <1>1, NormaliseCases DEF UsableItem
<1>2. CASE v = <<"nan">>
  <2>1. v[1] = "nan"
    BY <1>2
  <2> QED BY <2>1, NormaliseCases DEF UsableItem, ReadAs
<1>3. CASE v \in {"str"} \X Nat
  <2>1. v[1] = "str" /\ v[2] \in Nat
    BY <1>3
  <2>2. CASE v[2] > 0
    <3> DEFINE k == IF v[2] > MaxExifChars THEN MaxExifChars ELSE v[2]
               x == <<"str", k>>
    <3>1. NormaliseScalar(v) = {x}
      BY <2>1, <2>2, NormaliseCases
    <3>2. x[1] = "str" /\ x[2] = k /\ ThroughDynamo(x) = x
      BY DEF ThroughDynamo
    <3>3. k <= v[2] /\ k \in 1..MaxExifChars /\ (k < v[2] => k = MaxExifChars)
      BY <2>1, <2>2, ScaleIsNat
    <3>4. UsableItem(v)
      BY <2>1, <2>2 DEF UsableItem
    <3> HIDE DEF k, x
    <3>5. SameItem(v, x)
      BY <2>1, <3>2, <3>3, SameCases
    <3> QED BY <2>1, <3>1, <3>2, <3>4, <3>5 DEF ReadAs
  <2>3. CASE ~(v[2] > 0)
    BY <2>1, <2>3, NormaliseCases DEF UsableItem
  <2> QED BY <2>2, <2>3
<1>4. CASE v \in {"int"} \X Int
  <2>1. v[1] = "int"
    BY <1>4
  <2>2. ThroughDynamo(v) = v
    BY <2>1 DEF ThroughDynamo
  <2> QED BY <2>1, <2>2, NormaliseCases, SameCases DEF UsableItem, ReadAs
<1>5. CASE v \in {"float"} \X Int
  <2>1. v[1] = "float" /\ v[2] \in Int
    BY <1>5
  <2> DEFINE x == Rounded(v[2])
  <2>2. NormaliseScalar(v) = {x} /\ UsableItem(v)
    BY <2>1, NormaliseCases DEF UsableItem
  <2>3. x[1] = "rounded" /\ SameItem(v, ThroughDynamo(x))
    BY <2>1, FloatIsNear DEF Rounded
  <2> HIDE DEF x
  <2> QED BY <2>1, <2>2, <2>3 DEF ReadAs
<1>6. CASE v \in {"ratio"} \X Int \X Nat
  <2>1. v[1] = "ratio" /\ v[2] \in Int /\ v[3] \in Nat
    BY <1>6
  <2>2. CASE v[3] # 0
    <3> DEFINE x == Rounded(Quotient(v[2], v[3]))
    <3>1. NormaliseScalar(v) = {x} /\ UsableItem(v)
      BY <2>1, <2>2, NormaliseCases DEF UsableItem
    <3>2. x[1] = "rounded" /\ SameItem(v, ThroughDynamo(x))
      BY <2>1, <2>2, RatioIsNear DEF Rounded
    <3> HIDE DEF x
    <3> QED BY <2>1, <3>1, <3>2 DEF ReadAs
  <2>3. CASE v[3] = 0
    BY <2>1, <2>3, NormaliseCases DEF UsableItem
  <2> QED BY <2>2, <2>3
<1> QED BY <1>1, <1>2, <1>3, <1>4, <1>5, <1>6 DEF Scalars

(* What is kept of a tag is read back the same, unless it has a NaN.       *)
TagReadAs(v, x) ==
    /\ Storable(x) => Same(v, Stored(x))
    /\ ~Storable(x) => HasNaN(v)

(* A tuple: the items that can be kept, and only they, in their order.     *)
LEMMA TupleExact ==
    ASSUME NEW v, v[1] = "tuple", v[2] \in Seq(Scalars)
    PROVE  \/ NormaliseExifValue(v) = {} /\ ~Usable(v)
           \/ \E x : NormaliseExifValue(v) = {x} /\ Usable(v) /\ TagReadAs(v, x)
<1> DEFINE s    == v[2]
           K    == UsableItems(s)
           n    == Cardinality(K)
           kept == Sorted(K)
           Item(k) == CHOOSE y \in NormaliseScalar(s[kept[k]]) : TRUE
           x    == <<"list", [k \in DOMAIN kept |-> Item(k)]>>
<1>1. /\ DOMAIN s = 1..Len(s) /\ Len(s) \in Nat
      /\ \A i \in DOMAIN s : s[i] \in Scalars
  OBVIOUS
<1>2. KeptItems(s) = K
  BY <1>1, ScalarExact DEF KeptItems, UsableItems
<1>3. IsFiniteSet(K) /\ K \subseteq Int /\ K \subseteq DOMAIN s
  <2>1. K \subseteq 1..Len(s) /\ IsFiniteSet(1..Len(s))
    BY <1>1, FS_Interval DEF UsableItems
  <2>2. \A i \in 1..Len(s) : i \in Int
    BY <1>1
  <2> QED BY <1>1, <2>1, <2>2, FS_Subset
<1>4. Usable(v) <=> K # {}
  BY v[1] = "tuple" DEF Usable
<1>5. CASE K = {}
  BY <1>2, <1>4, <1>5, v[1] = "tuple" DEF NormaliseExifValue
<1>6. CASE K # {}
  <2>1. NormaliseExifValue(v) = {x}
    BY <1>2, <1>6, v[1] = "tuple" DEF NormaliseExifValue
  <2>2. /\ n \in Nat /\ kept \in [1..n -> K]
        /\ \A i \in K : \E k \in 1..n : k = Cardinality({y \in K : y <= i}) /\ kept[k] = i
    BY <1>3, SortedSorts
  <2>3. ASSUME NEW i \in K, NEW k \in 1..n, kept[k] = i
        PROVE  ReadAs(s[i], Item(k))
    <3>1. UsableItem(s[i]) /\ s[i] \in Scalars
      BY <1>1, <1>3 DEF UsableItems
    <3>2. PICK y : NormaliseScalar(s[i]) = {y} /\ ReadAs(s[i], y)
      BY <3>1, ScalarExact
    <3>3. Item(k) = y
      BY <2>3, <3>2
    <3> QED BY <3>2, <3>3
  <2> DEFINE w == <<"list", [k \in 1..n |-> ThroughDynamo(Item(k))]>>
  <2>4. Stored(x) = w /\ (Storable(x) <=> \A k \in 1..n : Item(k)[1] # "nan")
    <3> DEFINE f == [k \in DOMAIN kept |-> Item(k)]
    <3>1. DOMAIN f = 1..n /\ \A k \in 1..n : f[k] = Item(k)
      BY <2>2
    <3>2. x = <<"list", f>>
      OBVIOUS
    <3> HIDE DEF f, x, Item, kept, n
    <3>3. Stored(x) = <<"list", [i \in DOMAIN f |-> ThroughDynamo(f[i])]>>
      BY <3>2 DEF Stored
    <3>4. [i \in DOMAIN f |-> ThroughDynamo(f[i])] = [k \in 1..n |-> ThroughDynamo(Item(k))]
      BY <3>1
    <3>5. Storable(x) <=> \A k \in 1..n : Item(k)[1] # "nan"
      BY <3>1, <3>2 DEF Storable
    <3> QED BY <3>3, <3>4, <3>5
  <2>5. w[1] = "list" /\ DOMAIN w[2] = 1..n /\ \A k \in 1..n : w[2][k] = ThroughDynamo(Item(k))
    OBVIOUS
  <2> HIDE DEF w, Item, kept, n, K
  <2>6. ASSUME Storable(x)  PROVE Same(v, w)
    <3>1. ASSUME NEW i \in K
          PROVE  SameItem(s[i], w[2][Cardinality({k \in K : k <= i})])
      <4>1. PICK k \in 1..n : k = Cardinality({y \in K : y <= i}) /\ kept[k] = i
        BY <2>2
      <4>2. SameItem(s[i], ThroughDynamo(Item(k)))
        BY <2>3, <2>4, <2>6, <4>1 DEF ReadAs
      <4> QED BY <2>5, <4>1, <4>2
    <3> QED BY <2>5, <3>1, v[1] = "tuple" DEF Same, n, K
  <2>7. ASSUME ~Storable(x)  PROVE HasNaN(v)
    <3>1. PICK k \in 1..n : Item(k)[1] = "nan"
      BY <2>4, <2>7
    <3>2. kept[k] \in K
      BY <2>2
    <3>3. s[kept[k]][1] = "nan"
      BY <2>3, <3>1, <3>2 DEF ReadAs
    <3> QED BY <3>2, <3>3, v[1] = "tuple" DEF HasNaN, K
  <2>8. TagReadAs(v, x)
    BY <2>4, <2>6, <2>7 DEF TagReadAs
  <2> QED BY <1>4, <1>6, <2>1, <2>8
<1> QED BY <1>5, <1>6

LEMMA TagExact ==
    ASSUME NEW v \in TagValues
    PROVE  \/ NormaliseExifValue(v) = {} /\ ~Usable(v)
           \/ \E x : NormaliseExifValue(v) = {x} /\ Usable(v) /\ TagReadAs(v, x)
<1>1. CASE v \in Scalars
  <2>1. v[1] # "tuple" /\ NormaliseExifValue(v) = NormaliseScalar(v)
    BY <1>1, ScalarExact DEF NormaliseExifValue
  <2>2. Usable(v) <=> UsableItem(v)
    BY <2>1 DEF Usable
  <2>3. \A x : x[1] # "list" /\ ReadAs(v, x) => TagReadAs(v, x)
    BY <2>1 DEF Same, Stored, Storable, HasNaN, ReadAs, TagReadAs
  <2> QED BY <1>1, <2>1, <2>2, <2>3, ScalarExact
<1>2. CASE v \in {"tuple"} \X Seq(Scalars)
  <2>1. v[1] = "tuple" /\ v[2] \in Seq(Scalars)
    BY <1>2
  <2> QED BY <2>1, TupleExact
<1> QED BY <1>1, <1>2 DEF TagValues

(* A directory: what absorb() keeps is what it offers.                     *)
LEMMA DirectoryExact ==
    ASSUME NEW d, \A t \in DOMAIN d : d[t] \in TagValues
    PROVE  /\ KeptTags(d) = Offered(d)
           /\ \A t \in Offered(d) :
                TagReadAs(d[t], CHOOSE x \in NormaliseExifValue(d[t]) : TRUE)
<1>1. \A t \in DOMAIN d : NormaliseExifValue(d[t]) # {} <=> Usable(d[t])
  BY TagExact
<1>2. KeptTags(d) = Offered(d)
  BY <1>1 DEF KeptTags, Offered
<1>3. ASSUME NEW t \in Offered(d)
      PROVE  TagReadAs(d[t], CHOOSE x \in NormaliseExifValue(d[t]) : TRUE)
  <2>1. d[t] \in TagValues /\ Usable(d[t])
    BY <1>3 DEF Offered
  <2>2. PICK x : NormaliseExifValue(d[t]) = {x} /\ TagReadAs(d[t], x)
    BY <2>1, TagExact
  <2> QED BY <2>2
<1> QED BY <1>2, <1>3

LEMMA ExifExact ==
    ASSUME NEW raw, NEW exif_ifd,
           \A t \in DOMAIN raw : raw[t] \in TagValues,
           \A t \in DOMAIN exif_ifd : exif_ifd[t] \in TagValues
    PROVE  LET sub  == IF DOMAIN raw = {} THEN {} ELSE Offered(exif_ifd)
               main == Offered(raw)
               out  == ExtractExif(raw, exif_ifd)
           IN  /\ DOMAIN out = sub \cup main
               /\ \A t \in DOMAIN out :
                    TagReadAs(IF t \in sub THEN exif_ifd[t] ELSE raw[t], out[t])
<1> DEFINE Value(d, t) == CHOOSE x \in NormaliseExifValue(d[t]) : TRUE
           main  == Offered(raw)
           sub   == Offered(exif_ifd)
           first == Absorb(Nothing, raw)
           out   == ExtractExif(raw, exif_ifd)
<1>1. KeptTags(raw) = main /\ \A t \in main : TagReadAs(raw[t], Value(raw, t))
  BY DirectoryExact
<1>2. KeptTags(exif_ifd) = sub /\ \A t \in sub : TagReadAs(exif_ifd[t], Value(exif_ifd, t))
  BY DirectoryExact
<1>3. CASE DOMAIN raw = {}
  <2>1. out = Nothing /\ DOMAIN out = {}
    BY <1>3 DEF ExtractExif, Nothing
  <2>2. main = {}
    BY <1>3 DEF Offered
  <2> HIDE DEF out, main
  <2>3. /\ DOMAIN out = {} \cup main
        /\ \A t \in DOMAIN out : TagReadAs(IF t \in {} THEN exif_ifd[t] ELSE raw[t], out[t])
    BY <2>1, <2>2
  <2> QED BY <1>3, <2>3 DEF out, main
<1>4. CASE DOMAIN raw # {}
  <2>1. first = [t \in main |-> Value(raw, t)]
    BY <1>1 DEF Absorb, Nothing
  <2>2. out = [t \in main \cup sub |-> IF t \in sub THEN Value(exif_ifd, t) ELSE first[t]]
    <3>1. out = Absorb(first, exif_ifd)
      BY <1>4 DEF ExtractExif
    <3>2. DOMAIN first = main
      BY <2>1
    <3> HIDE DEF out, main, sub, first
    <3> QED BY <1>2, <3>1, <3>2 DEF Absorb
  <2> HIDE DEF out, main, sub, first, Value
  <2>3. /\ DOMAIN out = sub \cup main
        /\ \A t \in DOMAIN out :
             TagReadAs(IF t \in sub THEN exif_ifd[t] ELSE raw[t], out[t])
    BY <1>1, <1>2, <2>1, <2>2
  <2> QED BY <1>4, <2>3 DEF out, main, sub
<1> QED BY <1>3, <1>4

(* Location data never gets into a job's record and nothing else gets lost *)
(* or changed on the way there and back, by more than the two roundings on *)
(* it, for every directory of tags and whatever the limits are; only a     *)
(* float that is no number makes the write fail (images.py 172-244, aws.py *)
(* 124-148).                                                               *)
THEOREM ExifAlwaysExact == RuleSpec => []ExifIsExact
<1> DEFINE Inv == /\ rule = "exif" => input \in Images
                  /\ Done("exif") => result = ExtractExif(input.raw, input.exif_ifd)
<1>1. RuleInit => Inv
  BY DEF RuleInit, Done
<1>2. Inv /\ [RuleNext]_ruleVars => Inv'
  <2> SUFFICES ASSUME Inv, [RuleNext]_ruleVars PROVE Inv'
    OBVIOUS
  <2> QED BY DEF RuleNext, Apply, ApplyConfig, ApplyExif, ApplyPercentile, Done, ruleVars
<1>3. Inv => ExifIsExact
  <2> SUFFICES ASSUME Inv, Done("exif") PROVE ExifIsExact
    BY DEF ExifIsExact
  <2>1. /\ \A t \in DOMAIN input.raw : input.raw[t] \in TagValues
        /\ \A t \in DOMAIN input.exif_ifd : input.exif_ifd[t] \in TagValues
        /\ result = ExtractExif(input.raw, input.exif_ifd)
    BY InputsAssumption DEF Done
  <2> DEFINE sub == IF DOMAIN input.raw = {} THEN {} ELSE Offered(input.exif_ifd)
             tag(t) == IF t \in sub THEN input.exif_ifd[t] ELSE input.raw[t]
  <2>2. /\ DOMAIN result = sub \cup Offered(input.raw)
        /\ \A t \in DOMAIN result : TagReadAs(tag(t), result[t])
    BY <2>1, ExifExact
  <2> HIDE DEF tag, sub
  <2>3. SaveExif(result) = {} => \E t \in DOMAIN result : HasNaN(tag(t))
    BY <2>2 DEF SaveExif, TagReadAs
  <2>4. ASSUME NEW saved \in SaveExif(result)
        PROVE  DOMAIN saved = DOMAIN result /\ \A t \in DOMAIN saved : Same(tag(t), saved[t])
    <3>1. /\ \A t \in DOMAIN result : Storable(result[t])
          /\ saved = [t \in DOMAIN result |-> Stored(result[t])]
      BY <2>4 DEF SaveExif
    <3> QED BY <2>2, <3>1 DEF TagReadAs
  <2> QED BY <2>2, <2>3, <2>4 DEF ExifIsExact, tag, sub
<1> QED BY <1>1, <1>2, <1>3, PTL DEF RuleSpec
=============================================================================
