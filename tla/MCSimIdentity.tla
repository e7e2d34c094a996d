--------------------------- MODULE MCSimIdentity ---------------------------
(* Instances of SimIdentity for TLC.                                       *)
EXTENDS SimIdentity, TLC

\* Ports and SIM cards are interchangeable (used where only safety is checked).
Symmetry == Permutations(Ports) \cup Permutations(Sims)

=============================================================================
