---------------------------- MODULE MCSmsParser ----------------------------
(* Instances of SmsParser for TLC: two concatenated messages that use one  *)
(* reference, of two parts each, and one that is not concatenated.         *)
EXTENDS SmsParser

CONSTANTS m1, m2, s, k1, p1

MCTotal == [m \in {m1, m2, s} |-> CASE m = m1 -> 2 [] m = m2 -> 2 [] m = s -> 1]
MCKeyOf == [m \in {m1, m2, s} |-> IF m = s THEN NoKey ELSE k1]
MCPortOf == [m \in {m1, m2, s} |-> p1]

=============================================================================
