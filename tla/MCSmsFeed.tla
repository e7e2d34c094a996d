------------------------------ MODULE MCSmsFeed ------------------------------
(* Three SMS of one thread, each in time for the one before but the last    *)
(* not for the first, whose text it repeats; one of another thread that may *)
(* come in between; and one that has the time of the last.                  *)
EXTENDS SmsFeed

CONSTANTS a, b, c, d, e

MCThread  == [m \in Messages |-> IF m = c THEN 2 ELSE 1]
MCText    == [m \in Messages |-> IF m = d THEN a ELSE m]
MCAt      == [m \in Messages |-> CASE m = a -> 0 [] m = b -> 2 [] m = c -> 3 [] OTHER -> 4]
MCFilters == {{c}}

\* The loop of groupSmsMessages, as it is written.
Loop(groups, m) ==
    IF /\ groups # <<>>
       /\ Thread[Last(Last(groups))] = Thread[m]
       /\ Gap(m, Last(Last(groups))) <= Window
    THEN [groups EXCEPT ![Len(groups)] = Append(@, m)]
    ELSE Append(groups, <<m>>)

\* GroupSmsMessages is what that loop computes.
ASSUME GroupsAssumption ==
    \A page \in SUBSET Messages : \A s \in SetToSeqs(page) :
        GroupSmsMessages(s) = FoldLeft(Loop, <<>>, s)
=============================================================================
