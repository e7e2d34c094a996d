---------------------------- MODULE MCAtChannel ----------------------------
(* A health check, a message of two parts and one of one part on a line.   *)
EXTENDS AtChannel

CONSTANTS long, short

MCParts == [m \in Messages |-> IF m = long THEN 2 ELSE 1]
=============================================================================
