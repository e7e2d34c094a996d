------------------------------ MODULE MCFleet ------------------------------
(* Instances of Fleet for TLC.                                             *)
EXTENDS Fleet, TLC

\* Requests are interchangeable (used where only safety is checked).
Symmetry == Permutations(Clients)

=============================================================================
