---------------------------- MODULE SimIdentity ----------------------------
(***************************************************************************)
(* Which SIM a port holds, as the program sees it: the tracking of the     *)
(* ICCID in ModemInstance (src/src/modem/modem.instance.ts), the phone     *)
(* number of the port's entry in the yaml file (its phone override),       *)
(* and the table of ports where each SIM was last seen                     *)
(* (src/src/modem/sim-port-history.service.ts), while SIMs are taken out   *)
(* and put in, AT commands fail now and then and the process restarts.     *)
(*                                                                         *)
(* connect() and the health checks of a port run checkSimChange between    *)
(* their other commands; an action is what runs between two awaits.  The   *)
(* phone number of a SIM is represented by the SIM itself; the number that *)
(* is shown for a port (state.phone) decides nothing and is left out.      *)
(***************************************************************************)

CONSTANTS
    Ports,         \* the monitored ports
    Sims,          \* the SIM cards
    HealthChecks,  \* invocations of runHealthCheck that may overlap on a port
    Connect,       \* connect(), at most one per port
    NoSim          \* null: no SIM, no ICCID, no phone number

ASSUME FlowsAssumption == Connect \notin HealthChecks
ASSUME SimsAssumption == NoSim \notin Sims

Flows == HealthChecks \cup {Connect}
SimOrNone == Sims \cup {NoSim}

VARIABLES
    inserted,      \* the SIM in the slot of each port
    flaky,         \* AT commands may fail
    status,        \* state.status; "down" is 'offline' and 'no_sim'
    currentIccid,  \* currentIccid
    iccid,         \* state.iccid
    override,      \* the phone of the port's entry in the yaml file
    flow,          \* the refresh under way in each flow of a port
    lastPort,      \* table sim_iccid_history, NoPort when there is no row
    record         \* recordAndCheck for the last ICCID observed at each port

host == <<inserted, flaky>>
sim == <<currentIccid, iccid, override>>
table == <<lastPort, record>>
vars == <<host, status, sim, flow, table>>

NoPort == "none"

\* track awaits readIccid in connect(), check that in checkSimChange, and
\* detect the detectPhoneNumber of checkSimChange.
FlowPCs == {"idle", "track", "check", "detect"}
Statuses == {"connecting", "online", "down"}
Records == {"idle", "find", "create", "update", "move"}

IdleRecord == [pc |-> "idle", iccid |-> NoSim]

TypeOK ==
    /\ inserted \in [Ports -> SimOrNone]
    /\ flaky \in BOOLEAN
    /\ status \in [Ports -> Statuses]
    /\ currentIccid \in [Ports -> SimOrNone]
    /\ iccid \in [Ports -> SimOrNone]
    /\ override \in [Ports -> SimOrNone]
    /\ flow \in [Ports -> [Flows -> FlowPCs]]
    /\ lastPort \in [Sims -> Ports \cup {NoPort}]
    /\ record \in [Ports -> [pc : Records, iccid : SimOrNone]]

----------------------------------------------------------------------------
\* A command of this flow may go wrong: the link is flaky, or the port was
\* closed by the flow that lost it, found no SIM or is connecting it anew.
Unreliable(p, f) ==
    \/ flaky
    \/ status[p] = "down"
    \/ status[p] = "connecting" /\ f # Connect

\* Mutant: a failed reading is the empty string, not null.
Reads_Raw(p, f) == {inserted[p]} \cup (IF Unreliable(p, f) THEN {""} ELSE {})

\* What readIccid or detectPhoneNumber may return: both swallow every failure.
Reads(p, f) == {inserted[p]} \cup (IF Unreliable(p, f) THEN {NoSim} ELSE {})

Goto(p, f, pc) == flow' = [flow EXCEPT ![p][f] = pc]

\* The flow is over.  connect() ends online, unless another flow took the port
\* away meanwhile; that connect() then believes to be online until the next
\* health check, which ModemLink models, is left out.
Finish(p, f) ==
    /\ Goto(p, f, "idle")
    /\ status' = IF f = Connect /\ status[p] = "connecting"
                 THEN [status EXCEPT ![p] = "online"] ELSE status

\* The flow ends early, and leaves the port closed.
Abort(p, f) ==
    /\ Goto(p, f, "idle")
    /\ status' = [status EXCEPT ![p] = "down"]

\* The event sim.iccid_observed starts recordAndCheck.
Observe(p, s) ==
    record' = IF s = NoSim THEN record
              ELSE [record EXCEPT ![p] = [pc |-> "find", iccid |-> s]]

----------------------------------------------------------------------------
(* ModemInstance.                                                          *)

\* connect() runs, for a retry, a forced reconnect or a lost link.
BeginConnect(p) ==
    /\ flow[p][Connect] = "idle"
    /\ Goto(p, Connect, "track")
    /\ status' = [status EXCEPT ![p] = "connecting"]
    /\ UNCHANGED <<host, sim, table>>

\* readAndTrackIccid; refreshMetadata follows.
TrackIccid(p) ==
    /\ flow[p][Connect] = "track"
    /\ \E read \in Reads(p, Connect) :
        \/ /\ read # NoSim
           /\ currentIccid' = [currentIccid EXCEPT ![p] = read]
           /\ iccid' = [iccid EXCEPT ![p] = read]
        \/ /\ read = NoSim
           /\ iccid' = IF currentIccid[p] = NoSim THEN [iccid EXCEPT ![p] = NoSim] ELSE iccid
           /\ UNCHANGED currentIccid
    /\ Goto(p, Connect, "check")
    /\ UNCHANGED <<host, status, override, table>>

\* runHealthCheck begins.
HealthTick(p, h) ==
    /\ status[p] = "online"
    /\ flow[p][h] = "idle"
    /\ Goto(p, h, "check")
    /\ UNCHANGED <<host, status, sim, table>>

\* A command whose failure is not swallowed fails, or the port is lost.
FlowFails(p, f) ==
    /\ Unreliable(p, f)
    /\ flow[p][f] \in {"track", "check"}
    /\ Abort(p, f)
    /\ UNCHANGED <<host, sim, table>>

\* Mutant: handleNoSim forgets the ICCID that is shown only.
ForgetIccid_Shown(p) ==
    /\ iccid' = [iccid EXCEPT ![p] = NoSim]
    /\ UNCHANGED currentIccid

\* handleNoSim
ForgetIccid(p) ==
    /\ iccid' = [iccid EXCEPT ![p] = NoSim]
    /\ currentIccid' = [currentIccid EXCEPT ![p] = NoSim]

\* AT+CPIN? finds no SIM before the ICCID is read.
SimAbsent(p, f) ==
    /\ inserted[p] = NoSim
    /\ flow[p][f] \in {"track", "check"}
    /\ ForgetIccid(p)
    /\ Abort(p, f)
    /\ UNCHANGED <<host, override, table>>

\* Mutant: a change of the SIM is shown, but not remembered.
AdoptSim_Shown(p, read) ==
    /\ iccid' = [iccid EXCEPT ![p] = read]
    /\ override' = [override EXCEPT ![p] = NoSim]
    /\ UNCHANGED currentIccid

\* "SIM changed!"
AdoptSim(p, read) ==
    /\ currentIccid' = [currentIccid EXCEPT ![p] = read]
    /\ iccid' = [iccid EXCEPT ![p] = read]
    /\ override' = [override EXCEPT ![p] = NoSim]

\* checkSimChange up to its end or, when it finds another SIM, up to its await
\* of detectPhoneNumber.  Bound: the database has answered for what the port
\* observed before.
CheckIccid(p, f) ==
    /\ flow[p][f] = "check"
    /\ record[p].pc = "idle"
    /\ \E read \in Reads(p, f) :
        /\ Observe(p, read)
        /\ \/ /\ read = currentIccid[p]
              /\ iccid' = IF read = NoSim THEN iccid ELSE [iccid EXCEPT ![p] = read]
              /\ Finish(p, f)
              /\ UNCHANGED <<currentIccid, override>>
           \/ /\ read # currentIccid[p]
              /\ AdoptSim(p, read)
              /\ Goto(p, f, "detect")
              /\ UNCHANGED status
    /\ UNCHANGED <<host, lastPort>>

\* The rest of checkSimChange: a number that was found is saved.
DetectPhone(p, f) ==
    /\ flow[p][f] = "detect"
    /\ \E read \in Reads(p, f) \cup {NoSim} :
        /\ override' = IF read = NoSim THEN override ELSE [override EXCEPT ![p] = read]
        /\ Finish(p, f)
    /\ UNCHANGED <<host, currentIccid, iccid, table>>

\* PATCH phone: the operator enters the number of the SIM in the slot.
PatchPhone(p) ==
    /\ inserted[p] # NoSim
    /\ override' = [override EXCEPT ![p] = inserted[p]]
    /\ UNCHANGED <<host, status, currentIccid, iccid, flow, table>>

----------------------------------------------------------------------------
(* SimPortHistoryService.                                                  *)

\* findUnique returns and decides what is written.
FindRow(p) ==
    /\ record[p].pc = "find"
    /\ LET last == lastPort[record[p].iccid] IN
       record' = [record EXCEPT ![p].pc =
                    IF last = NoPort THEN "create" ELSE IF last = p THEN "update" ELSE "move"]
    /\ UNCHANGED <<host, status, sim, flow, lastPort>>

\* Mutant: the row of a SIM that moved keeps its port.
MoveRow_Kept(s, p) == UNCHANGED lastPort

\* The update that follows a move.
MoveRow(s, p) == lastPort' = [lastPort EXCEPT ![s] = p]

\* The write is done; a create that lost the race fails and is only logged.
WriteRow(p) ==
    /\ LET r == record[p] IN
       \/ /\ r.pc = "create"
          /\ lastPort' = IF lastPort[r.iccid] = NoPort THEN [lastPort EXCEPT ![r.iccid] = p]
                                                      ELSE lastPort
       \/ r.pc = "update" /\ UNCHANGED lastPort
       \/ r.pc = "move" /\ MoveRow(r.iccid, p)
    /\ record' = [record EXCEPT ![p] = IdleRecord]
    /\ UNCHANGED <<host, status, sim, flow>>

----------------------------------------------------------------------------
(* The host.                                                               *)

Remove(p) ==
    /\ inserted[p] # NoSim
    /\ inserted' = [inserted EXCEPT ![p] = NoSim]
    /\ UNCHANGED <<flaky, status, sim, flow, table>>

Insert(p, s) ==
    /\ inserted[p] = NoSim
    /\ \A q \in Ports : inserted[q] # s
    /\ inserted' = [inserted EXCEPT ![p] = s]
    /\ UNCHANGED <<flaky, status, sim, flow, table>>

\* The serial links become unreliable, or reliable again.
Disturb ==
    /\ flaky' = ~flaky
    /\ UNCHANGED <<inserted, status, sim, flow, table>>

\* The process starts again: the yaml file and the table survive.
Restart ==
    /\ status' = [p \in Ports |-> "down"]
    /\ currentIccid' = [p \in Ports |-> NoSim]
    /\ iccid' = [p \in Ports |-> NoSim]
    /\ flow' = [p \in Ports |-> [f \in Flows |-> "idle"]]
    /\ record' = [p \in Ports |-> IdleRecord]
    /\ UNCHANGED <<host, override, lastPort>>

----------------------------------------------------------------------------
\* A first start: no override, no history.
Init ==
    /\ inserted \in [Ports -> SimOrNone]
    /\ \A p, q \in Ports : inserted[p] = inserted[q] => p = q \/ inserted[p] = NoSim
    /\ flaky \in BOOLEAN
    /\ status = [p \in Ports |-> "down"]
    /\ currentIccid = [p \in Ports |-> NoSim]
    /\ iccid = [p \in Ports |-> NoSim]
    /\ override = [p \in Ports |-> NoSim]
    /\ flow = [p \in Ports |-> [f \in Flows |-> "idle"]]
    /\ lastPort = [s \in Sims |-> NoPort]
    /\ record = [p \in Ports |-> IdleRecord]

Next ==
    \/ \E p \in Ports : BeginConnect(p) \/ TrackIccid(p) \/ PatchPhone(p) \/ FindRow(p) \/ WriteRow(p)
    \/ \E p \in Ports, h \in HealthChecks : HealthTick(p, h)
    \/ \E p \in Ports, f \in Flows :
        \/ FlowFails(p, f) \/ SimAbsent(p, f) \/ CheckIccid(p, f)
        \/ DetectPhone(p, f)
    \/ \E p \in Ports, s \in Sims : Remove(p) \/ Insert(p, s)
    \/ Disturb
    \/ Restart

Spec == Init /\ [][Next]_vars

\* A port that is not online is connected again and again, one that is online
\* is checked again and again, commands and the database answer.
Fairness ==
    /\ \A p \in Ports : /\ WF_vars(status[p] # "online" /\ BeginConnect(p))
                        /\ WF_vars(TrackIccid(p))
                        /\ WF_vars(FindRow(p))
                        /\ WF_vars(WriteRow(p))
                        /\ \A h \in HealthChecks : WF_vars(HealthTick(p, h))
    /\ \A p \in Ports, f \in Flows : /\ WF_vars(CheckIccid(p, f))
                                     /\ WF_vars(DetectPhone(p, f))

FairSpec == Spec /\ Fairness

----------------------------------------------------------------------------
(* Properties.                                                             *)

\* The ICCID that the dashboard shows is the one that the next check will be
\* compared with: a port that showed no SIM but still remembered one would
\* take the same SIM, put in again, for no change.
ShownIsCompared == \A p \in Ports : iccid[p] = currentIccid[p]

\* SIM s stays in port p, the commands work and the link and the process are
\* left alone.
Settled(p, s) == /\ <>[](inserted[p] = s /\ ~flaky)
                 /\ <>[][~Restart /\ (status[p] = "online" => status'[p] = "online")]_vars

\* A SIM that stays in a port is recognised for good, whatever was read of its
\* predecessor, and by which flow, before.
IccidConverges == \A p \in Ports, s \in Sims : Settled(p, s) => <>[](currentIccid[p] = s)

\* ... and the table names its port for good, however late the database
\* handled what other ports had observed.
HistoryConverges == \A p \in Ports, s \in Sims : Settled(p, s) => <>[](lastPort[s] = p)

\* "A transient AT hiccup" is no "SIM changed": checkSimChange handles a change
\* only if the SIM in the slot is not the one that it knew.
NoBogusChange ==
    [][\A p \in Ports, f \in Flows :
         flow[p][f] = "check" /\ flow'[p][f] = "detect"
            => inserted[p] # currentIccid[p]]_vars

=============================================================================
