---------------------------- MODULE LinkMonitor ----------------------------
(***************************************************************************)
(* What a ModemInstance promises the manager about one enabled port,       *)
(* whatever happens to the serial link: it waits, tries, is up, and never  *)
(* rests for ever while the link is not up; once stopped it finishes the   *)
(* attempt under way and stays stopped.  ModemLink implements it.          *)
(***************************************************************************)
VARIABLE mode

Modes == {"waiting", "trying", "up", "draining", "stopped"}

Init == mode = "waiting"

\* A pending wait ends, or the manager forces a reconnect of a live link.
Retry     == mode = "waiting" /\ mode' = "trying"
Restart   == mode = "up" /\ mode' = "trying"

\* Only a connection attempt can bring the link up.
Succeed   == mode = "trying" /\ mode' = "up"
GiveUp    == mode = "trying" /\ mode' = "waiting"
LinkLost  == mode = "up" /\ mode' = "waiting"

\* A stop lets the attempt under way run to its end.
Halt      == mode \in {"waiting", "up"} /\ mode' = "stopped"
HaltTry   == mode = "trying" /\ mode' = "draining"
Drained   == mode = "draining" /\ mode' = "stopped"

Next == Retry \/ Restart \/ Succeed \/ GiveUp \/ LinkLost \/ Halt \/ HaltTry \/ Drained

Spec == Init /\ [][Next]_mode

FairSpec == Spec /\ WF_mode(Retry) /\ WF_mode(Succeed \/ GiveUp) /\ WF_mode(Drained)

=============================================================================
