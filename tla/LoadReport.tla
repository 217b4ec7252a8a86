----------------------------- MODULE LoadReport -----------------------------
(***************************************************************************)
(* _percentiles of the load generator (loadgen/generate.py): which of n    *)
(* sorted samples is reported as the p-th percentile.                      *)
(***************************************************************************)
EXTENDS PyBuiltins

(* Mutant: the subtraction that makes a rank an index is forgotten.        *)
MutantPercentileRank(p, n) ==
    LET index == RoundHalfEven(p * n, 100)
    IN  IF index > n - 1 THEN n - 1 ELSE index

(* The zero-based index, clamped at both ends.                             *)
PercentileIndex(p, n) ==
    LET index   == RoundHalfEven(p * n, 100) - 1
        clamped == IF index > n - 1 THEN n - 1 ELSE index
    IN  IF clamped < 0 THEN 0 ELSE clamped

-----------------------------------------------------------------------------
(* How far rank k is from p percent of n samples, in hundredths of a rank, *)
(* and the rank a reader expects: an existing one, and none is nearer.     *)
Distance(k, p, n) == IF 100 * k > p * n THEN 100 * k - p * n ELSE p * n - 100 * k

IsNearestRank(rank, p, n) ==
    /\ rank \in 1..n
    /\ \A k \in 1..n : Distance(rank, p, n) <= Distance(k, p, n)
=============================================================================
