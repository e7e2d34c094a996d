----------------------------- MODULE ModemLink -----------------------------
(***************************************************************************)
(* The life cycle of one ModemInstance (src/src/modem/modem.instance.ts):  *)
(* connect, health checks, loss of the serial port, missing SIM, forced    *)
(* reconnect and stop, as the interleaving of the asynchronous functions   *)
(* of the class on the single JavaScript thread.                           *)
(*                                                                         *)
(* An action is what runs between two awaits.  A MACROTASK (a timer, an    *)
(* I/O callback, a call from the manager) starts only when no promise      *)
(* continuation is pending (Quiet); the continuations of settled promises  *)
(* are the MICROTASK actions.  AT command payloads are abstracted to the   *)
(* stage they belong to and to the three answers the control flow tells    *)
(* apart: success, failure, "SIM absent".                                  *)
(***************************************************************************)
EXTENDS Naturals, Sequences

CONSTANTS
    HealthChecks,  \* invocations of runHealthCheck that may overlap
    Connect,       \* the one connect() that connectingInProgress lets in
    Slots,         \* SerialPort objects alive at the same time
    NoPort         \* this.port === null

ASSUME FlowsAssumption == Connect \notin HealthChecks
ASSUME SlotsAssumption == NoPort \notin Slots

Flows == HealthChecks \cup {Connect}

VARIABLES
    status,                \* state.status
    destroyed,             \* destroyed
    pc,                    \* where each asynchronous function is suspended
    port,                  \* this.port
    slot,                  \* the operating system's view of each SerialPort
    owner,                 \* which closePort caller awaits the close of a slot
    closingIntentionally,  \* closingIntentionally
    reconnectTimer,        \* reconnectTimer !== null
    healthTimer,           \* healthTimer !== null
    chain,                 \* commandChain: flows with an unsettled command
    phase                  \* progress of the command at the head of chain

vars == <<status, destroyed, pc, port, slot, owner, closingIntentionally,
          reconnectTimer, healthTimer, chain, phase>>

(***************************************************************************)
(* Stages.  Consecutive commands whose outcome is handled alike are one    *)
(* stage: SETUP is CMGF and CNMI, STAT is CSQ and COPS, META is CREG,      *)
(* CPMS, CMGD, CCID and CNUM, each of which swallows its own error.        *)
(***************************************************************************)
ConnectStages == {"AT", "QCFG", "CPIN", "SETUP", "ICCID", "STAT", "CPIN2",
                  "META", "INBOX"}
HealthStages  == {"AT", "STAT", "CPIN2", "META"}

\* A failed command of these stages throws out of connect or runHealthCheck;
\* the failure of any other stage is caught on the spot.
StrictStages  == {"AT", "SETUP", "STAT", "CPIN2"}

ConnectPCs == ConnectStages \cup
              {"new", "idle", "closing", "opening", "noSim", "noSimMeta", "catch"}
HealthPCs  == HealthStages \cup {"idle", "catch"}

Statuses   == {"offline", "connecting", "online", "no_sim"}
SlotStates == {"free", "opening", "open", "closing", "closed", "dropped", "leaked"}
Owners     == {"none", "connect", "reconnect", "noSim", "noSimMeta", "stop"}
ConnectOwners == {"connect", "noSim", "noSimMeta"}
Phases     == {"none", "queued", "writing", "waiting", "failed"}

\* The stage after a stage other than the last of its flow.
AfterConnect(s) ==
    CASE s = "AT"    -> "QCFG"
      [] s = "QCFG"  -> "CPIN"
      [] s = "CPIN"  -> "SETUP"
      [] s = "SETUP" -> "ICCID"
      [] s = "ICCID" -> "STAT"
      [] s = "STAT"  -> "CPIN2"
      [] s = "CPIN2" -> "META"
      [] OTHER       -> "INBOX"

\* Mutant: a health check reads the inbox in place of the rest of refreshMetadata.
AfterHealth_Inbox(s) ==
    CASE s = "AT"   -> "STAT"
      [] s = "STAT" -> "CPIN2"
      [] OTHER      -> "INBOX"

AfterHealth(s) ==
    CASE s = "AT"   -> "STAT"
      [] s = "STAT" -> "CPIN2"
      [] OTHER      -> "META"

TypeOK ==
    /\ status \in Statuses
    /\ destroyed \in BOOLEAN
    /\ pc \in [Flows -> ConnectPCs]
    /\ \A h \in HealthChecks : pc[h] \in HealthPCs
    /\ port \in Slots \cup {NoPort}
    /\ slot \in [Slots -> SlotStates]
    /\ owner \in [Slots -> Owners]
    /\ closingIntentionally \in BOOLEAN
    /\ reconnectTimer \in BOOLEAN
    /\ healthTimer \in BOOLEAN
    /\ chain \in Seq(Flows)
    /\ phase \in Phases

----------------------------------------------------------------------------
\* this.port?.isOpen
IsOpen == port # NoPort /\ slot[port] = "open"

\* Mutant: the flag is raised only when the port has opened.
Connecting_Late == pc[Connect] \notin {"new", "idle", "opening"}

\* connectingInProgress
Connecting == pc[Connect] \notin {"new", "idle"}

\* A promise continuation or a not yet started command is pending.
Quiet ==
    /\ phase \notin {"queued", "failed"}
    /\ \A f \in Flows : pc[f] # "catch"
    /\ \A s \in Slots : slot[s] # "closed"

\* The phase of the command that becomes the head when q is left in the chain.
HeadPhase(q) == IF q = <<>> THEN "none" ELSE "queued"

\* Mutant: closePort drops the active command and leaves its promise pending.
RejectActive_Forgets == phase' = IF phase = "waiting" THEN "none" ELSE phase

\* closePort rejects the active command and never one that is being written.
RejectActive == phase' = IF phase = "waiting" THEN "failed" ELSE phase

\* Mutant: closePort drops the port without closing it.
CloseSlot_Unclosed(cont) ==
    /\ owner' = owner
    /\ slot' = slot
    /\ port' = NoPort
    /\ closingIntentionally' = FALSE

\* closePort of the current port: cont is what its caller does afterwards.
CloseSlot(cont) ==
    /\ slot' = [slot EXCEPT ![port] = "closing"]
    /\ owner' = [owner EXCEPT ![port] = cont]
    /\ port' = NoPort
    /\ closingIntentionally' = TRUE

\* new SerialPort and the start of open(), in state sl of the slots.
OpenSlot(sl, n) ==
    /\ sl[n] = "free"
    /\ slot' = [sl EXCEPT ![n] = "opening"]
    /\ port' = n

\* Mutants: no guard on destroyed; no timer while connectingInProgress.
ScheduleReconnect_Stopped == reconnectTimer' = TRUE
ScheduleReconnect_NotConnecting == reconnectTimer' = (reconnectTimer \/ (~destroyed /\ ~Connecting))

\* scheduleReconnect
ScheduleReconnect == reconnectTimer' = (reconnectTimer \/ ~destroyed)

\* connect() past its guard, up to its first suspension.
BeginConnect ==
    /\ status' = "connecting"
    /\ healthTimer' = FALSE
    /\ RejectActive
    /\ \/ /\ IsOpen
          /\ CloseSlot("connect")
          /\ pc' = [pc EXCEPT ![Connect] = "closing"]
       \/ /\ ~IsOpen
          /\ \E n \in Slots : OpenSlot(slot, n)
          /\ closingIntentionally' = FALSE
          /\ pc' = [pc EXCEPT ![Connect] = "opening"]
          /\ UNCHANGED owner

\* handleDisconnect, run from an event or from a health check's catch.
HandleDisconnect ==
    IF destroyed \/ status = "offline"
    THEN UNCHANGED <<status, healthTimer, phase, port, owner,
                     closingIntentionally, reconnectTimer>>
    ELSE /\ status' = "offline"
         /\ healthTimer' = FALSE
         /\ RejectActive
         /\ IF IsOpen
            THEN /\ port' = NoPort
                 /\ owner' = [owner EXCEPT ![port] = "reconnect"]
                 /\ closingIntentionally' = TRUE
                 /\ UNCHANGED reconnectTimer
            ELSE /\ port' = NoPort
                 /\ closingIntentionally' = FALSE
                 /\ ScheduleReconnect
                 /\ UNCHANGED owner

\* The slots after handleDisconnect, when its event left them as sl.
DisconnectedSlots(sl) ==
    IF ~destroyed /\ status # "offline" /\ IsOpen
    THEN [sl EXCEPT ![port] = "closing"]
    ELSE sl

----------------------------------------------------------------------------
(* Calls from ModemManager and timers.                                     *)

\* start(), called by startInstance right after the constructor
Start ==
    /\ pc[Connect] = "new"
    /\ ~destroyed
    /\ BeginConnect
    /\ UNCHANGED <<destroyed, reconnectTimer, chain>>

ForceReconnect ==
    /\ Quiet
    /\ pc[Connect] # "new"
    /\ ~destroyed
    /\ reconnectTimer' = FALSE
    /\ \/ /\ Connecting
          /\ healthTimer' = FALSE
          /\ UNCHANGED <<status, pc, port, slot, owner, closingIntentionally, phase>>
       \/ ~Connecting /\ BeginConnect
    /\ UNCHANGED <<destroyed, chain>>

Stop ==
    /\ Quiet
    /\ pc[Connect] # "new"
    /\ destroyed' = TRUE
    /\ reconnectTimer' = FALSE
    /\ healthTimer' = FALSE
    /\ RejectActive
    /\ \/ /\ IsOpen
          /\ CloseSlot("stop")
          /\ UNCHANGED status
       \/ /\ ~IsOpen
          /\ port' = NoPort
          /\ closingIntentionally' = FALSE
          /\ status' = "offline"
          /\ UNCHANGED <<slot, owner>>
    /\ UNCHANGED <<pc, chain>>

\* The reconnect timer clears itself and calls connect(), whose guard may
\* drop the call.
ReconnectFires ==
    /\ Quiet
    /\ reconnectTimer
    /\ reconnectTimer' = FALSE
    /\ \/ /\ destroyed \/ Connecting
          /\ UNCHANGED <<status, pc, port, slot, owner, closingIntentionally,
                         healthTimer, phase>>
       \/ ~destroyed /\ ~Connecting /\ BeginConnect
    /\ UNCHANGED <<destroyed, chain>>

\* A tick of the health interval: runHealthCheck up to its first command.
HealthTick(h) ==
    /\ Quiet
    /\ healthTimer
    /\ pc[h] = "idle"
    /\ ~destroyed
    /\ status = "online"
    /\ pc' = [pc EXCEPT ![h] = "AT"]
    /\ chain' = Append(chain, h)
    /\ phase' = IF chain = <<>> THEN "queued" ELSE phase
    /\ UNCHANGED <<status, destroyed, port, slot, owner, closingIntentionally,
                   reconnectTimer, healthTimer>>

----------------------------------------------------------------------------
(* The serial port.                                                        *)

\* The operating system gives a port to one handle at a time.
Exclusive(n) == \A s \in Slots \ {n} : slot[s] \notin {"open", "closing", "dropped", "leaked"}

\* connect() gets its port; a port that was dropped from this.port while it
\* was opening makes this.port.pipe throw and stays open with no reference.
OpenSucceeds(n) ==
    /\ Quiet
    /\ slot[n] = "opening"
    /\ Exclusive(n)
    /\ \/ /\ port = n
          /\ slot' = [slot EXCEPT ![n] = "open"]
          /\ pc' = [pc EXCEPT ![Connect] = "AT"]
          /\ chain' = Append(chain, Connect)
          /\ phase' = IF chain = <<>> THEN "queued" ELSE phase
       \/ /\ port # n
          /\ slot' = [slot EXCEPT ![n] = "leaked"]
          /\ pc' = [pc EXCEPT ![Connect] = "catch"]
          /\ UNCHANGED <<chain, phase>>
    /\ UNCHANGED <<status, destroyed, port, owner, closingIntentionally,
                   reconnectTimer, healthTimer>>

OpenFails(n) ==
    /\ Quiet
    /\ slot[n] = "opening"
    /\ slot' = [slot EXCEPT ![n] = "free"]
    /\ pc' = [pc EXCEPT ![Connect] = "catch"]
    /\ UNCHANGED <<status, destroyed, port, owner, closingIntentionally,
                   reconnectTimer, healthTimer, chain, phase>>

\* The device disappears: serialport closes the handle on its own.
Unplug(s) ==
    /\ Quiet
    /\ \/ slot[s] = "open"   /\ slot' = [slot EXCEPT ![s] = "dropped"]
       \/ slot[s] = "leaked" /\ slot' = [slot EXCEPT ![s] = "free"]
    /\ UNCHANGED <<status, destroyed, pc, port, owner, closingIntentionally,
                   reconnectTimer, healthTimer, chain, phase>>

\* The 'close' event of a port that closed on its own, and that of a port
\* closed by closePort (whose callback is ClosePortReturns).
CloseEvent(s) ==
    /\ Quiet
    /\ slot[s] \in {"dropped", "closing"}
    /\ LET sl == [slot EXCEPT ![s] = IF slot[s] = "dropped" THEN "free" ELSE "closed"] IN
       \/ /\ closingIntentionally
          /\ slot' = sl
          /\ UNCHANGED <<status, healthTimer, phase, port, owner,
                         closingIntentionally, reconnectTimer>>
       \/ /\ ~closingIntentionally
          /\ slot' = DisconnectedSlots(sl)
          /\ HandleDisconnect
    /\ UNCHANGED <<destroyed, pc, chain>>

\* The 'error' event of the live port.
PortError(s) ==
    /\ Quiet
    /\ slot[s] = "open"
    /\ ~closingIntentionally
    /\ slot' = DisconnectedSlots(slot)
    /\ HandleDisconnect
    /\ UNCHANGED <<destroyed, pc, chain>>

\* closePort resumes after close() and its caller runs on.
ClosePortReturns(s) ==
    /\ slot[s] = "closed"
    /\ owner' = [owner EXCEPT ![s] = "none"]
    /\ closingIntentionally' = FALSE
    /\ LET freed == [slot EXCEPT ![s] = "free"] IN
       \/ /\ owner[s] = "connect"
          /\ \E n \in Slots : OpenSlot(freed, n)
          /\ pc' = [pc EXCEPT ![Connect] = "opening"]
          /\ UNCHANGED <<status, reconnectTimer, healthTimer>>
       \/ /\ owner[s] = "reconnect"
          /\ slot' = freed
          /\ ScheduleReconnect
          /\ UNCHANGED <<status, pc, port, healthTimer>>
       \/ /\ owner[s] = "noSim" \/ (owner[s] = "noSimMeta" /\ status = "no_sim")
          /\ slot' = freed
          /\ ScheduleReconnect
          /\ pc' = [pc EXCEPT ![Connect] = "idle"]
          /\ UNCHANGED <<status, port, healthTimer>>
       \/ \* line 177 no longer sees no_sim: connect() goes on to online
          /\ owner[s] = "noSimMeta"
          /\ status # "no_sim"
          /\ slot' = freed
          /\ ScheduleReconnect
          /\ status' = "online"
          /\ healthTimer' = TRUE
          /\ pc' = [pc EXCEPT ![Connect] = "idle"]
          /\ UNCHANGED port
       \/ /\ owner[s] = "stop"
          /\ slot' = freed
          /\ status' = "offline"
          /\ UNCHANGED <<pc, port, reconnectTimer, healthTimer>>
    /\ UNCHANGED <<destroyed, chain, phase>>

----------------------------------------------------------------------------
(* Commands: sendCommand appends to commandChain, the head runs alone.     *)

\* The head command finds the port open and is written.
StartCommand ==
    /\ phase = "queued"
    /\ IsOpen
    /\ phase' = "writing"
    /\ UNCHANGED <<status, destroyed, pc, port, slot, owner,
                   closingIntentionally, reconnectTimer, healthTimer, chain>>

\* The write callback makes it the active command.
WriteDone ==
    /\ Quiet
    /\ phase = "writing"
    /\ phase' = "waiting"
    /\ UNCHANGED <<status, destroyed, pc, port, slot, owner,
                   closingIntentionally, reconnectTimer, healthTimer, chain>>

\* The flow at the head goes on to its next command.
NextCommand(f, s) ==
    /\ pc' = [pc EXCEPT ![f] = s]
    /\ chain' = Append(Tail(chain), f)
    /\ phase' = "queued"
    /\ UNCHANGED <<status, healthTimer>>

\* The flow at the head leaves the chain and is then at s.
LeaveChain(f, s) ==
    /\ pc' = [pc EXCEPT ![f] = s]
    /\ chain' = Tail(chain)
    /\ phase' = HeadPhase(Tail(chain))

\* Mutant: connect() forgets scheduleHealthCheck.
GoOnline_Unwatched ==
    /\ LeaveChain(Connect, "idle")
    /\ status' = "online"
    /\ UNCHANGED healthTimer

\* connect() reaches its end.
GoOnline ==
    /\ LeaveChain(Connect, "idle")
    /\ status' = "online"
    /\ healthTimer' = TRUE

\* What follows a command that succeeded or whose failure is swallowed.
\* The inbox is skipped when the SIM is not ready or the sync is off.
Continue(f) ==
    \/ /\ f # Connect
       /\ \/ pc[f] # "META" /\ NextCommand(f, AfterHealth(pc[f]))
          \/ pc[f] = "META" /\ LeaveChain(f, "idle") /\ UNCHANGED <<status, healthTimer>>
    \/ /\ f = Connect
       /\ \/ pc[f] \notin {"META", "INBOX"} /\ NextCommand(f, AfterConnect(pc[f]))
          \/ pc[f] = "META" /\ status = "no_sim"
             /\ LeaveChain(f, "idle") /\ UNCHANGED <<status, healthTimer>>
          \/ pc[f] = "META" /\ status # "no_sim" /\ NextCommand(f, "INBOX")
          \/ pc[f] = "META" /\ status # "no_sim" /\ GoOnline
          \/ pc[f] = "INBOX" /\ GoOnline

\* handleLine gets the final OK of the active command.
Answered ==
    /\ Quiet
    /\ phase = "waiting"
    /\ IsOpen
    /\ Continue(Head(chain))
    /\ UNCHANGED <<destroyed, port, slot, owner, closingIntentionally, reconnectTimer>>

\* AT+CPIN? says that there is no SIM: handleNoSim up to its closePort.
SimAbsent ==
    /\ Quiet
    /\ phase = "waiting"
    /\ IsOpen
    /\ LET f == Head(chain) IN
       \/ /\ f = Connect /\ pc[f] = "CPIN"
          /\ CloseSlot("noSim")
          /\ LeaveChain(f, "noSim")
       \/ /\ f = Connect /\ pc[f] = "CPIN2"
          /\ CloseSlot("noSimMeta")
          /\ LeaveChain(f, "noSimMeta")
       \/ /\ f # Connect /\ pc[f] = "CPIN2"
          /\ CloseSlot("reconnect")
          /\ LeaveChain(f, "idle")
    /\ status' = "no_sim"
    /\ healthTimer' = FALSE
    /\ UNCHANGED <<destroyed, reconnectTimer>>

\* Mutant: a command that the modem never answers does not time out.
Failing_NoTimeout ==
    \/ phase = "failed"
    \/ phase = "queued" /\ ~IsOpen
    \/ phase = "writing" /\ Quiet

\* The port is not open, closePort rejected the command, or (as a macrotask)
\* its write failed, it got an error answer or it timed out.
Failing ==
    \/ phase = "failed"
    \/ phase = "queued" /\ ~IsOpen
    \/ phase \in {"writing", "waiting"} /\ Quiet

\* The command at the head fails; its flow catches that on the spot or not.
CommandFails ==
    /\ Failing
    /\ LET f == Head(chain) IN
       \/ /\ pc[f] \in StrictStages
          /\ LeaveChain(f, "catch")
          /\ UNCHANGED <<status, healthTimer>>
       \/ /\ pc[f] \notin StrictStages
          /\ Continue(f)
    /\ UNCHANGED <<destroyed, port, slot, owner, closingIntentionally, reconnectTimer>>

\* The catch and finally blocks of connect().
ConnectCatch ==
    /\ pc[Connect] = "catch"
    /\ status' = "offline"
    /\ ScheduleReconnect
    /\ pc' = [pc EXCEPT ![Connect] = "idle"]
    /\ UNCHANGED <<destroyed, port, slot, owner, closingIntentionally,
                   healthTimer, chain, phase>>

\* The catch block of runHealthCheck.
HealthCatch(h) ==
    /\ pc[h] = "catch"
    /\ pc' = [pc EXCEPT ![h] = "idle"]
    /\ slot' = DisconnectedSlots(slot)
    /\ HandleDisconnect
    /\ UNCHANGED <<destroyed, chain>>

----------------------------------------------------------------------------
Init ==
    /\ status = "offline"
    /\ destroyed = FALSE
    /\ pc = [f \in Flows |-> IF f = Connect THEN "new" ELSE "idle"]
    /\ port = NoPort
    /\ slot = [s \in Slots |-> "free"]
    /\ owner = [s \in Slots |-> "none"]
    /\ closingIntentionally = FALSE
    /\ reconnectTimer = FALSE
    /\ healthTimer = FALSE
    /\ chain = <<>>
    /\ phase = "none"

Next ==
    \/ Start
    \/ ForceReconnect
    \/ Stop
    \/ ReconnectFires
    \/ \E h \in HealthChecks : HealthTick(h) \/ HealthCatch(h)
    \/ \E s \in Slots : OpenSucceeds(s) \/ OpenFails(s)
    \/ \E s \in Slots : Unplug(s) \/ CloseEvent(s) \/ PortError(s) \/ ClosePortReturns(s)
    \/ StartCommand
    \/ WriteDone
    \/ Answered
    \/ SimAbsent
    \/ CommandFails
    \/ ConnectCatch

Spec == Init /\ [][Next]_vars

\* The event loop runs every pending continuation, the operating system
\* answers every open and close, and every command ends (at the latest by its
\* timeout); timers fire.  Nothing is assumed of the manager's calls, of the
\* modem's answers or of the cable.
Fairness ==
    /\ WF_vars(Start)
    /\ WF_vars(StartCommand)
    /\ WF_vars(CommandFails)
    /\ WF_vars(ConnectCatch)
    /\ WF_vars(ReconnectFires)
    /\ \A h \in HealthChecks : WF_vars(HealthCatch(h))
    /\ \A s \in Slots : /\ WF_vars(OpenSucceeds(s) \/ OpenFails(s))
                        /\ WF_vars(CloseEvent(s))
                        /\ WF_vars(ClosePortReturns(s))

FairSpec == Spec /\ Fairness

----------------------------------------------------------------------------
(* Safety.                                                                 *)

\* A closePort call is under way whose caller will run scheduleReconnect.
ReschedulePending ==
    \E s \in Slots : owner[s] \in {"reconnect", "noSim", "noSimMeta"}

\* The monitor of an enabled port is never stranded: at every moment the reconnect
\* timer is armed, the instance is online with its health interval armed, connect()
\* is under way or a close will arm the timer, however timers, health checks, port
\* events and forced reconnects interleave (scheduleReconnect, handleDisconnect,
\* handleNoSim, forceReconnect).  That a link which works is left alone is not said.
NeverStranded ==
    \/ destroyed
    \/ pc[Connect] # "idle"
    \/ reconnectTimer
    \/ healthTimer /\ status = "online"
    \/ ReschedulePending

\* The health interval and the status agree while the instance lives: an
\* interval that outlived online would never be cleared, an online port
\* without one would never notice that its modem died (clearHealthTimer in
\* closePort, scheduleHealthCheck in connect).
WatchedIffOnline == destroyed \/ (healthTimer <=> status = "online")

\* connectingInProgress: at most one SerialPort is being opened, and only
\* while connect() awaits it.
OneOpening ==
    /\ \A s, t \in Slots : slot[s] = "opening" /\ slot[t] = "opening" => s = t
    /\ pc[Connect] = "opening" <=> \E s \in Slots : slot[s] = "opening"

\* A handle that connect() has finished opening is held until it is closed: an open
\* port is this.port, a closing one has exactly the caller that awaits it, though
\* closePort clears this.port first.  This is not said of a handle that closePort
\* dropped while its open() was under way (after a failed health check, or stop()):
\* it opens all the same, nobody refers to it, and the COM port stays locked until
\* the device goes ("leaked", in OpenSucceeds).
OpenedHandleHeld ==
    \A s \in Slots :
        /\ slot[s] = "open" => port = s
        /\ slot[s] \in {"closing", "closed"} <=> owner[s] # "none"

\* The flows that await the answer of a command, and those in the chain.
Awaiting == {f \in Flows : pc[f] \in ConnectStages}
Members(q) == {q[i] : i \in 1 .. Len(q)}
Distinct(q) == \A i, j \in 1 .. Len(q) : q[i] = q[j] => i = j

\* No flow awaits a command that is not in the chain, none is in it twice, and
\* the chain is never idle with a command in it: closePort, time-outs and
\* errors settle every promise that sendCommand returned.
NoLostCommand ==
    /\ Members(chain) = Awaiting
    /\ Distinct(chain)
    /\ chain = <<>> <=> phase = "none"

\* Every close that connect() awaits is awaited at the place it is at, and by
\* nobody else, with no live port meanwhile; a close on behalf of stop() is one
\* of a stopped instance.
ClosersMatch ==
    /\ pc[Connect] = "closing" => port = NoPort
    /\ \A s \in Slots :
         /\ owner[s] = "connect"   => pc[Connect] = "closing"
         /\ owner[s] = "noSim"     => pc[Connect] = "noSim"
         /\ owner[s] = "noSimMeta" => pc[Connect] = "noSimMeta"
         /\ owner[s] = "stop"      => destroyed
    /\ \A s, t \in Slots :
         owner[s] \in ConnectOwners /\ owner[t] \in ConnectOwners => s = t

\* No timer of a stopped instance is armed, and while connect() is under way
\* nobody else declares the port online.
StoppedUnarmed  == destroyed => ~reconnectTimer
OnlyConnectOnline == ~destroyed /\ Connecting => status # "online"

\* The inductive invariant from which the theorems of ModemProofs follow.
LinkInv ==
    /\ TypeOK
    /\ NoLostCommand
    /\ OneOpening
    /\ OpenedHandleHeld
    /\ ClosersMatch
    /\ StoppedUnarmed
    /\ OnlyConnectOnline
    /\ WatchedIffOnline

\* stop() is final once connect() is over: no timer, event, late answer or
\* pending close makes a stopped instance connect again.
StoppedStaysDown ==
    [][destroyed /\ pc[Connect] = "idle"
        => destroyed' /\ pc'[Connect] = "idle" /\ ~reconnectTimer']_vars

----------------------------------------------------------------------------
(* Liveness.                                                               *)

\* connect() always returns, so that connectingInProgress cannot block every
\* later reconnect: each of its awaits is settled by the port or by a timeout.
ConnectReturns == Connecting ~> ~Connecting

----------------------------------------------------------------------------
(* The abstract monitor that the instance implements.                      *)

MonitorMode ==
    IF destroyed
    THEN IF Connecting THEN "draining" ELSE "stopped"
    ELSE IF Connecting THEN "trying"
    ELSE IF status = "online" THEN "up" ELSE "waiting"

Monitor == INSTANCE LinkMonitor WITH mode <- MonitorMode

\* Seen from the manager the instance is a LinkMonitor: only connect() brings
\* the link up, a link that is down is tried again and again for ever, and a
\* stop is final.
ImplementsMonitor == Monitor!FairSpec

=============================================================================
