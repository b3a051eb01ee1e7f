------------------------------- MODULE Option -------------------------------
(* The absent value of a Rust Option and of a nullable database column.     *)
EXTENDS Naturals

CONSTANT None

ASSUME NoneAssumption == None \notin Nat

OptionOf(S) == S \cup {None}
=============================================================================
