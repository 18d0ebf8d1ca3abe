------------------------------- MODULE Option -------------------------------
(* Rust's Option of a number: the number, or None.                          *)
EXTENDS Naturals

CONSTANT None

ASSUME NoneAssumption == None \notin Nat

=============================================================================
