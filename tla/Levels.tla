------------------------------- MODULE Levels -------------------------------
(***************************************************************************)
(* The scale of a detail level: a section of level n is 2^n sections of    *)
(* level 0 wide.  Powers of two are also what shifts by a number of bits   *)
(* multiply and divide by.                                                 *)
(***************************************************************************)
EXTENDS Integers

Pow2[n \in Nat] == IF n = 0 THEN 1 ELSE 2 * Pow2[n - 1]
=============================================================================
