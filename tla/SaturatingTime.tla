--------------------------- MODULE SaturatingTime ---------------------------
(* The unix-second timestamps of the delegate: u64 values added with           *)
(* saturating_add, where 0 in the place of a deadline means that there is none. *)
EXTENDS Naturals

CONSTANT TimeMax        \* the largest timestamp: u64::MAX in the code, small in the runs

ASSUME TimeMaxAssumption == TimeMax \in Nat \ {0}

Time == 0 .. TimeMax

NoBound == 0

SaturatingAdd(a, b) == IF a + b > TimeMax THEN TimeMax ELSE a + b
=============================================================================
