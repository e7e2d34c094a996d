----------------------------- MODULE MCSimInbox -----------------------------
(* Three slots; messages at the limits of one part: 160 and 161 septets, *)
(* 70 and 71 code points, a text of three parts, and an extension          *)
(* character that ends the first part or is split between two.             *)
EXTENDS SimInbox

CONSTANTS single, triple, ends, splits, wide, wider, other

Plain(n)    == [i \in 1 .. n |-> 97 + (i % 26)]
Accented(n) == [i \in 1 .. n |-> IF i = n THEN 7879 ELSE 97 + (i % 26)]
With(text, i, char) == [text EXCEPT ![i] = char]

MCBody == [m \in Messages |->
    CASE m = single -> Plain(160)
      [] m = triple -> Accented(135)
      [] m = ends   -> With(Plain(160), 152, 8364)
      [] m = splits -> With(Plain(160), 153, 8364)
      [] m = wide   -> Accented(70)
      [] m = wider  -> Accented(71)
      [] m = other  -> With(Plain(170), 1, 64)]

MCOwnNumber == [plus |-> FALSE, digits |-> <<0, 9, 1>>, name |-> <<>>]
National    == [plus |-> FALSE, digits |-> <<0, 9, 0, 1, 2, 3, 4, 5, 6, 7>>, name |-> <<>>]
Foreign     == [plus |-> TRUE, digits |-> <<4, 4, 7, 7, 0, 0, 9>>, name |-> <<>>]
Service     == [plus |-> FALSE, digits |-> <<>>, name |-> <<77, 79, 77, 79>>]

MCSender == [m \in Messages |->
    CASE m = other -> Foreign [] m = single -> Service [] OTHER -> National]

MCSentAt == [m \in Messages |-> <<98, 16, 81, 33, IF m = other THEN 2 ELSE 3, 0, 130>>]
=============================================================================
