------------------------------ MODULE RunQueue ------------------------------
(***************************************************************************)
(* RunQueue (src/src/common/utils/run-queue.util.ts): runs one task at a   *)
(* time; a task scheduled meanwhile replaces the pending one and is run    *)
(* when the current one is done.  A task that rejects ends the loop as     *)
(* well; in this program nobody catches it and the process ends, which the *)
(* module that uses the queue models.                                      *)
(***************************************************************************)
CONSTANTS
    Tasks,   \* the closures passed to schedule
    NoTask   \* null

VARIABLES
    running,      \* running
    queued,       \* queued
    pendingTask,  \* pendingTask
    current       \* the task that schedule's loop awaits, NoTask when none

\* The queue is created idle.
Idle == running = FALSE /\ queued = FALSE /\ pendingTask = NoTask /\ current = NoTask

\* schedule(t) when nothing runs: the first turn of the loop takes t.
Begin(t) ==
    /\ ~running
    /\ running' = TRUE
    /\ queued' = FALSE
    /\ pendingTask' = NoTask
    /\ current' = t

\* schedule(t) while a task runs.
Enqueue(t) ==
    /\ running
    /\ queued' = TRUE
    /\ pendingTask' = t
    /\ UNCHANGED <<running, current>>

\* The task resolves and another was requested meanwhile.
Again ==
    /\ running
    /\ queued
    /\ queued' = FALSE
    /\ current' = pendingTask
    /\ pendingTask' = NoTask
    /\ UNCHANGED running

\* Mutant: the finally block does not reset the flag.
Finish_StillRunning ==
    /\ running
    /\ ~queued
    /\ current' = NoTask
    /\ UNCHANGED <<running, queued, pendingTask>>

\* The task resolves and nothing was requested.
Finish ==
    /\ running
    /\ ~queued
    /\ running' = FALSE
    /\ current' = NoTask
    /\ UNCHANGED <<queued, pendingTask>>

=============================================================================
