---------------------------- MODULE MCDashboard ----------------------------
(* Two ports, two overlapping reloads, one dialog and one button.          *)
EXTENDS Dashboard
=============================================================================
