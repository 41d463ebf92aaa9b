------------------------------- MODULE TimeText ------------------------------
(***************************************************************************)
(* Times as the database holds and compares them (formatTime, parseTime in *)
(* internal/store/store.go): RFC3339Nano text, which writes no trailing    *)
(* zeros of the fraction and no point before an empty one.                 *)
(*                                                                         *)
(* A time is a number of ticks.  Its text is the second, which always has  *)
(* the same width, the digits that are left of the fraction, and the "Z",  *)
(* which sorts after every digit, and after the point as well.             *)
(***************************************************************************)
EXTENDS Naturals, Sequences, FiniteSets

CONSTANTS
    Base,       \* digits are 0 .. Base - 1
    Places      \* digits of the fraction

ASSUME TimeAssumption ==
    /\ Base \in Nat /\ Base >= 2
    /\ Places \in Nat \ {0}

(* Base ^ n.                                                               *)
Power[n \in Nat] == IF n = 0 THEN 1 ELSE Base * Power[n - 1]

Second == Power[Places]

Digit(t, i) == (t \div Power[Places - i]) % Base

(* The places up to the last one that is not 0.                            *)
Written(t) ==
    { i \in 1..Places : \E k \in i..Places : Digit(t, k) # 0 }

Z == Base

(* Variant: RFC3339, whole seconds.                                        *)
formatTimeSeconds(t) == << t \div Second, Z >>

formatTime(t) ==
    << t \div Second >> \o
    [i \in 1..Cardinality(Written(t)) |-> Digit(t, i)] \o << Z >>

(* SQLite's order on TEXT: by the first place where they differ.  No text  *)
(* is a proper prefix of another, because of the Z.                        *)
Before(a, b) ==
    \E i \in DOMAIN a \cap DOMAIN b :
        a[i] < b[i] /\ \A k \in 1 .. i - 1 : a[k] = b[k]

NotAfter(a, b) == a = b \/ Before(a, b)

SecondOf(t) == t \div Second
=============================================================================
