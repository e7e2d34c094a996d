------------------------- MODULE SimIdentityProofs -------------------------
(* Theorems about SimIdentity, for any ports, SIM cards and health checks. *)
EXTENDS SimIdentity, TLAPS

LEMMA InitType == Init => TypeOK
BY DEF Init, TypeOK, SimOrNone, FlowPCs, Statuses, Records, IdleRecord, NoPort

LEMMA NextType == TypeOK /\ [Next]_vars => TypeOK'
<1> SUFFICES ASSUME TypeOK, [Next]_vars PROVE TypeOK'
  OBVIOUS
<1> USE DEF TypeOK, SimOrNone, FlowPCs, Statuses, Records, Flows
<1>1. ASSUME NEW p \in Ports, BeginConnect(p) PROVE TypeOK'
  BY <1>1 DEF BeginConnect, Goto, host, sim, table
<1>2. ASSUME NEW p \in Ports, TrackIccid(p) PROVE TypeOK'
  BY <1>2 DEF TrackIccid, Goto, Reads, host, table
<1>3. ASSUME NEW p \in Ports, PatchPhone(p) PROVE TypeOK'
  BY <1>3 DEF PatchPhone, host, table
<1>4. ASSUME NEW p \in Ports, FindRow(p) PROVE TypeOK'
  BY <1>4 DEF FindRow, host, sim
<1>5. ASSUME NEW p \in Ports, WriteRow(p) PROVE TypeOK'
  <2>1. record' \in [Ports -> [pc : Records, iccid : SimOrNone]]
    BY <1>5 DEF WriteRow, IdleRecord
  <2>2. lastPort' \in [Sims -> Ports \cup {NoPort}]
    BY <1>5 DEF WriteRow, MoveRow
  <2> QED BY <1>5, <2>1, <2>2 DEF WriteRow, host, sim
<1>6. ASSUME NEW p \in Ports, NEW h \in HealthChecks, HealthTick(p, h) PROVE TypeOK'
  BY <1>6 DEF HealthTick, Goto, host, sim, table
<1>7. ASSUME NEW p \in Ports, NEW f \in Flows, FlowFails(p, f) PROVE TypeOK'
  BY <1>7 DEF FlowFails, Abort, Goto, host, sim, table
<1>8. ASSUME NEW p \in Ports, NEW f \in Flows, SimAbsent(p, f) PROVE TypeOK'
  BY <1>8 DEF SimAbsent, ForgetIccid, Abort, Goto, host, table
<1>9. ASSUME NEW p \in Ports, NEW f \in Flows, CheckIccid(p, f) PROVE TypeOK'
  <2>1. PICK read \in Reads(p, f) :
          /\ Observe(p, read)
          /\ \/ /\ iccid' = IF read = NoSim THEN iccid ELSE [iccid EXCEPT ![p] = read]
                /\ Finish(p, f)
                /\ UNCHANGED <<currentIccid, override>>
             \/ AdoptSim(p, read) /\ Goto(p, f, "detect") /\ UNCHANGED status
    BY <1>9 DEF CheckIccid
  <2>2. read \in Sims \cup {NoSim} /\ NoSim \in Sims \cup {NoSim}
    BY DEF Reads
  <2>3. record' \in [Ports -> [pc : Records, iccid : SimOrNone]]
    BY <2>1, <2>2 DEF Observe
  <2>4. UNCHANGED <<host, lastPort>>
    BY <1>9 DEF CheckIccid
  <2>5. CASE AdoptSim(p, read) /\ Goto(p, f, "detect") /\ UNCHANGED status
    <3>1. /\ currentIccid' \in [Ports -> SimOrNone]
          /\ iccid' \in [Ports -> SimOrNone]
          /\ override' \in [Ports -> SimOrNone]
      BY <2>2, <2>5 DEF AdoptSim
    <3>2. flow' \in [Ports -> [Flows -> FlowPCs]]
      BY <2>5 DEF Goto
    <3> QED BY <2>3, <2>4, <2>5, <3>1, <3>2 DEF host
  <2>6. CASE /\ iccid' = IF read = NoSim THEN iccid ELSE [iccid EXCEPT ![p] = read]
             /\ Finish(p, f)
             /\ UNCHANGED <<currentIccid, override>>
    <3>1. iccid' \in [Ports -> SimOrNone]
      BY <2>2, <2>6
    <3>2. flow' \in [Ports -> [Flows -> FlowPCs]] /\ status' \in [Ports -> Statuses]
      BY <2>6 DEF Finish, Goto
    <3> QED BY <2>3, <2>4, <2>6, <3>1, <3>2 DEF host
  <2> QED BY <2>1, <2>5, <2>6
<1>10. ASSUME NEW p \in Ports, NEW f \in Flows, DetectPhone(p, f) PROVE TypeOK'
  <2>1. override' \in [Ports -> SimOrNone]
    BY <1>10 DEF DetectPhone, Reads
  <2>2. flow' \in [Ports -> [Flows -> FlowPCs]]
    <3>1. flow' = [flow EXCEPT ![p] = [flow[p] EXCEPT ![f] = "idle"]]
      BY <1>10 DEF DetectPhone, Finish, Goto
    <3> QED BY <3>1
  <2>3. status' \in [Ports -> Statuses]
    BY <1>10 DEF DetectPhone, Finish
  <2> QED BY <1>10, <2>1, <2>2, <2>3 DEF DetectPhone, host, table
<1>11. ASSUME NEW p \in Ports, NEW s \in Sims, Remove(p) \/ Insert(p, s) PROVE TypeOK'
  BY <1>11 DEF Remove, Insert, sim, table
<1>12. CASE Disturb
  BY <1>12 DEF Disturb, sim, table
<1>13. CASE Restart
  BY <1>13 DEF Restart, host, IdleRecord
<1>14. CASE UNCHANGED vars
  BY <1>14 DEF vars, host, sim, table
<1> QED
  BY <1>1, <1>2, <1>3, <1>4, <1>5, <1>6, <1>7, <1>8, <1>9, <1>10, <1>11, <1>12, <1>13,
     <1>14 DEF Next

\* Every variable of SimIdentity keeps its type: nothing but SIM cards and
\* null is ever taken for an ICCID (modem.instance.ts:233-265, 413-439).
THEOREM IdentityTypeCorrect == Spec => []TypeOK
BY InitType, NextType, PTL DEF Spec

----------------------------------------------------------------------------
LEMMA NextShown == TypeOK /\ ShownIsCompared /\ [Next]_vars => ShownIsCompared'
<1> SUFFICES ASSUME TypeOK, ShownIsCompared, [Next]_vars PROVE ShownIsCompared'
  OBVIOUS
<1> USE DEF ShownIsCompared
<1>0. iccid \in [Ports -> SimOrNone] /\ currentIccid \in [Ports -> SimOrNone]
  BY DEF TypeOK
<1>1. ASSUME NEW p \in Ports, TrackIccid(p) PROVE ShownIsCompared'
  BY <1>0, <1>1 DEF TrackIccid
<1>2. ASSUME NEW p \in Ports, NEW f \in Flows, SimAbsent(p, f) PROVE ShownIsCompared'
  BY <1>0, <1>2 DEF SimAbsent, ForgetIccid
<1>3. ASSUME NEW p \in Ports, NEW f \in Flows, CheckIccid(p, f) PROVE ShownIsCompared'
  BY <1>0, <1>3 DEF CheckIccid, AdoptSim
<1>4. CASE Restart
  BY <1>4 DEF Restart
<1>5. CASE UNCHANGED <<currentIccid, iccid>>
  BY <1>5
<1>6. \/ UNCHANGED <<currentIccid, iccid>>
      \/ Restart
      \/ \E p \in Ports : TrackIccid(p)
      \/ \E p \in Ports, f \in Flows : SimAbsent(p, f) \/ CheckIccid(p, f)
  BY DEF Next, BeginConnect, PatchPhone, FindRow, WriteRow, HealthTick, FlowFails,
         DetectPhone, Remove, Insert, Disturb, vars, sim
<1> QED BY <1>1, <1>2, <1>3, <1>4, <1>5, <1>6

\* The ICCID that is shown for a port is the one that the next check compares
\* with, whichever flows of the port overlap (modem.instance.ts:223-224,
\* 251-265, 431-439).
THEOREM ShownComparedAlways == Spec => []ShownIsCompared
<1>1. Init => ShownIsCompared
  BY DEF Init, ShownIsCompared
<1> QED BY <1>1, IdentityTypeCorrect, NextShown, PTL DEF Spec

=============================================================================
