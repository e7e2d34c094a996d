---------------------------- MODULE MCModemLink ----------------------------
(* Instances of ModemLink for TLC.                                         *)
EXTENDS ModemLink, TLC

\* Slots and overlapping health checks are interchangeable.
Symmetry == Permutations(HealthChecks) \cup Permutations(Slots)

=============================================================================
