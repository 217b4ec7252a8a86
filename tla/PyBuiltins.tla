----------------------------- MODULE PyBuiltins -----------------------------
(***************************************************************************)
(* The two functions of Python that the pure rules depend on (external).   *)
(* Both say what the result is, so that they can be reasoned about.        *)
(***************************************************************************)
EXTENDS Integers, FiniteSets

(* sorted() of a set of integers: at place k the element that k elements   *)
(* do not exceed, itself among them.                                       *)
Sorted(S) ==
    [k \in 1..Cardinality(S) |-> CHOOSE x \in S : Cardinality({y \in S : y <= x}) = k]

(* round() of a / b: to the nearest, and to the even one of two.           *)
RoundHalfEven(a, b) ==
    LET q == a \div b
        r == a % b
    IN  IF 2 * r > b \/ (2 * r = b /\ q % 2 = 1) THEN q + 1 ELSE q
=============================================================================
