---------------------------- MODULE ModemProofs ----------------------------
(* Proofs about the modem directory: the life of an instance (ModemLink),   *)
(* for any number of serial ports and of overlapping health checks, and the *)
(* parser of SMS that all instances feed (SmsParser), for any messages,     *)
(* keys, ports and timeout.                                                 *)
EXTENDS ModemLink, SmsParser, SequenceTheorems, FiniteSetTheorems, TLAPS

----------------------------------------------------------------------------
(* The command chain.                                                      *)

\* Appending a flow adds it to the members of the chain.
LEMMA AppendMembers ==
    ASSUME NEW S, NEW q \in Seq(S), NEW x \in S
    PROVE  /\ Append(q, x) \in Seq(S)
           /\ Append(q, x) # <<>>
           /\ Members(Append(q, x)) = Members(q) \cup {x}
           /\ x \notin Members(q) /\ Distinct(q) => Distinct(Append(q, x))
<1>1. Append(q, x) \in Seq(S) /\ Append(q, x) # <<>>
  BY AppendProperties
<1>2. /\ Len(Append(q, x)) = Len(q) + 1
      /\ \A i \in 1 .. Len(q) : Append(q, x)[i] = q[i]
      /\ Append(q, x)[Len(q) + 1] = x
  OBVIOUS
<1>3. Members(Append(q, x)) = Members(q) \cup {x}
  BY <1>2 DEF Members
<1>4. ASSUME x \notin Members(q), Distinct(q) PROVE Distinct(Append(q, x))
  BY <1>2, <1>4 DEF Members, Distinct
<1> QED BY <1>1, <1>3, <1>4

\* Taking the head off a chain without repetition removes just that flow.
LEMMA TailMembers ==
    ASSUME NEW S, NEW q \in Seq(S), q # <<>>, Distinct(q)
    PROVE  /\ Head(q) \in S
           /\ Head(q) \in Members(q)
           /\ Tail(q) \in Seq(S)
           /\ Members(Tail(q)) = Members(q) \ {Head(q)}
           /\ Distinct(Tail(q))
<1>1. /\ Len(q) \in Nat \ {0}
      /\ Head(q) = q[1]
      /\ Tail(q) \in Seq(S)
      /\ Len(Tail(q)) = Len(q) - 1
      /\ \A i \in 1 .. Len(q) - 1 : Tail(q)[i] = q[i + 1]
  OBVIOUS
<1>2. Head(q) \in S /\ Head(q) \in Members(q)
  BY <1>1 DEF Members
<1>3. Members(Tail(q)) \subseteq Members(q) \ {Head(q)}
  BY <1>1 DEF Members, Distinct
<1>4. ASSUME NEW f \in Members(q) \ {Head(q)} PROVE f \in Members(Tail(q))
  <2>1. PICK i \in 1 .. Len(q) : f = q[i]
    BY DEF Members
  <2>2. i # 1
    BY <1>1, <2>1
  <2>3. i - 1 \in 1 .. Len(Tail(q)) /\ Tail(q)[i - 1] = q[i]
    BY <1>1, <2>2
  <2> QED BY <2>1, <2>3 DEF Members
<1>5. Distinct(Tail(q))
  BY <1>1 DEF Distinct
<1> QED BY <1>1, <1>2, <1>3, <1>4, <1>5

----------------------------------------------------------------------------
(* The inductive invariant.                                                *)

LEMMA InitInv == Init => LinkInv
<1> SUFFICES ASSUME Init PROVE LinkInv
  OBVIOUS
<1> USE FlowsAssumption, SlotsAssumption DEF Init
<1>1. TypeOK
  BY EmptySeq DEF TypeOK, Flows, ConnectPCs, ConnectStages, HealthPCs, HealthStages,
     Statuses, SlotStates, Owners, Phases
<1>2. NoLostCommand
  <2>1. Len(<<>>) = 0 /\ 1 .. 0 = {}
    OBVIOUS
  <2>2. Members(chain) = {} /\ Distinct(chain)
    BY <2>1 DEF Members, Distinct
  <2>3. Awaiting = {}
    BY DEF Awaiting, Flows, ConnectStages
  <2> QED BY <2>2, <2>3 DEF NoLostCommand
<1>3. OneOpening /\ OpenedHandleHeld /\ ClosersMatch
  BY DEF OneOpening, OpenedHandleHeld, ClosersMatch, ConnectOwners, Flows
<1>4. StoppedUnarmed /\ OnlyConnectOnline /\ WatchedIffOnline
  BY DEF StoppedUnarmed, OnlyConnectOnline, WatchedIffOnline, Connecting, Flows
<1> QED BY <1>1, <1>2, <1>3, <1>4 DEF LinkInv

\* connect() past its guard, with whatever its caller did to the timer.
LEMMA BeginConnectInv ==
    ASSUME LinkInv, ~destroyed, pc[Connect] \in {"new", "idle"}, BeginConnect,
           UNCHANGED <<destroyed, chain>>, reconnectTimer' \in BOOLEAN
    PROVE  LinkInv'
<1> USE FlowsAssumption, SlotsAssumption DEF LinkInv
<1>1. /\ Connect \in Flows
      /\ pc'[Connect] \in {"closing", "opening"}
      /\ \A h \in HealthChecks : pc'[h] = pc[h]
      /\ pc' \in [Flows -> ConnectPCs]
  BY DEF BeginConnect, TypeOK, Flows, ConnectPCs
<1>2. TypeOK'
  BY <1>1 DEF TypeOK, BeginConnect, CloseSlot, OpenSlot, RejectActive, IsOpen,
     Statuses, SlotStates, Owners, Phases
<1>3. NoLostCommand'
  <2>1. Awaiting' = Awaiting
    BY <1>1 DEF Awaiting, ConnectStages, Flows
  <2>2. phase' = "none" <=> phase = "none"
    BY DEF BeginConnect, RejectActive
  <2> QED BY <2>1, <2>2 DEF NoLostCommand
<1>4. OneOpening'
  BY <1>1 DEF OneOpening, BeginConnect, CloseSlot, OpenSlot, TypeOK, IsOpen
<1>5. OpenedHandleHeld'
  BY DEF OpenedHandleHeld, BeginConnect, CloseSlot, OpenSlot, TypeOK, IsOpen
<1>6. ClosersMatch'
  BY <1>1 DEF ClosersMatch, BeginConnect, CloseSlot, OpenSlot, TypeOK, IsOpen, ConnectOwners
<1>7. StoppedUnarmed' /\ OnlyConnectOnline' /\ WatchedIffOnline'
  BY <1>1 DEF StoppedUnarmed, OnlyConnectOnline, WatchedIffOnline, BeginConnect
<1> QED BY <1>2, <1>3, <1>4, <1>5, <1>6, <1>7

\* handleDisconnect with the slots that its event left as sl, when the event
\* and the caller leave alone whatever else LinkInv speaks of.
LEMMA DisconnectInv ==
    ASSUME LinkInv, UNCHANGED <<destroyed, chain>>, HandleDisconnect,
           NEW sl \in [Slots -> SlotStates],
           slot' = DisconnectedSlots(sl),
           \A s \in Slots : \/ sl[s] = slot[s]
                            \/ slot[s] = "closing" /\ sl[s] = "closed"
                            \/ slot[s] = "dropped" /\ sl[s] = "free",
           pc' \in [Flows -> ConnectPCs], pc'[Connect] = pc[Connect],
           \A h \in HealthChecks : pc'[h] \in HealthPCs, Awaiting' = Awaiting
    PROVE  LinkInv'
<1> USE FlowsAssumption, SlotsAssumption DEF LinkInv
<1>1. TypeOK'
  BY DEF TypeOK, HandleDisconnect, DisconnectedSlots, RejectActive, IsOpen,
     ScheduleReconnect, Statuses, SlotStates, Owners, Phases
<1>2. NoLostCommand'
  BY DEF NoLostCommand, HandleDisconnect, RejectActive
<1>3. OneOpening'
  BY DEF OneOpening, DisconnectedSlots, TypeOK, IsOpen
<1>4. OpenedHandleHeld'
  BY DEF OpenedHandleHeld, HandleDisconnect, DisconnectedSlots, TypeOK, IsOpen
<1>5. ClosersMatch'
  BY DEF ClosersMatch, HandleDisconnect, TypeOK, IsOpen, ConnectOwners
<1>6. StoppedUnarmed' /\ OnlyConnectOnline' /\ WatchedIffOnline'
  BY DEF StoppedUnarmed, OnlyConnectOnline, WatchedIffOnline, HandleDisconnect,
     ScheduleReconnect, Connecting, TypeOK
<1> QED BY <1>1, <1>2, <1>3, <1>4, <1>5, <1>6

\* The flow at the head of a chain with a command in it awaits that command.
LEMMA HeadAwaits ==
    ASSUME LinkInv, phase # "none"
    PROVE  /\ chain # <<>>
           /\ Head(chain) \in Awaiting
           /\ Head(chain) \in Flows
           /\ Tail(chain) \in Seq(Flows)
           /\ Members(Tail(chain)) = Awaiting \ {Head(chain)}
           /\ Distinct(Tail(chain))
<1>1. chain # <<>> /\ chain \in Seq(Flows) /\ Distinct(chain) /\ Members(chain) = Awaiting
  BY DEF LinkInv, TypeOK, NoLostCommand
<1> QED BY <1>1, TailMembers

\* The head flow sends its next command: the chain keeps its members.
LEMMA NextCommandChain ==
    ASSUME LinkInv, phase # "none", NEW s \in ConnectStages, NextCommand(Head(chain), s)
    PROVE  /\ NoLostCommand'
           /\ chain' \in Seq(Flows)
           /\ phase' \in Phases
<1> DEFINE f == Head(chain)
<1>1. /\ f \in Flows /\ f \in Awaiting
      /\ Tail(chain) \in Seq(Flows)
      /\ Members(Tail(chain)) = Awaiting \ {f}
      /\ Distinct(Tail(chain))
  BY HeadAwaits
<1>2. Awaiting' = Awaiting
  BY <1>1 DEF Awaiting, NextCommand, LinkInv, TypeOK
<1>3. /\ chain' \in Seq(Flows) /\ chain' # <<>>
      /\ Members(chain') = Awaiting
      /\ Distinct(chain')
  <2>1. chain' = Append(Tail(chain), f)
    BY DEF NextCommand
  <2>2. f \notin Members(Tail(chain)) /\ Members(Tail(chain)) \cup {f} = Awaiting
    BY <1>1
  <2>3. /\ Append(Tail(chain), f) \in Seq(Flows)
        /\ Append(Tail(chain), f) # <<>>
        /\ Members(Append(Tail(chain), f)) = Members(Tail(chain)) \cup {f}
        /\ Distinct(Append(Tail(chain), f))
    BY <1>1, <2>2, AppendMembers
  <2> QED BY <2>1, <2>2, <2>3
<1> QED BY <1>2, <1>3 DEF NoLostCommand, NextCommand, Phases

\* The head flow leaves the chain for a place where it awaits no command.
LEMMA LeaveChainChain ==
    ASSUME LinkInv, phase # "none", NEW s, s \notin ConnectStages, LeaveChain(Head(chain), s)
    PROVE  /\ NoLostCommand'
           /\ chain' \in Seq(Flows)
           /\ phase' \in Phases
<1> DEFINE f == Head(chain)
<1>1. /\ f \in Flows /\ f \in Awaiting
      /\ Tail(chain) \in Seq(Flows)
      /\ Members(Tail(chain)) = Awaiting \ {f}
      /\ Distinct(Tail(chain))
  BY HeadAwaits
<1>2. Awaiting' = Awaiting \ {f}
  BY <1>1 DEF Awaiting, LeaveChain, LinkInv, TypeOK
<1> QED BY <1>1, <1>2 DEF NoLostCommand, LeaveChain, HeadPhase, Phases

\* Whatever the head flow does after its command, as long as it touches
\* neither the port nor the reconnect timer and connect() is the only one to
\* go online.
LEMMA ContinueInv ==
    ASSUME LinkInv, phase # "none", Continue(Head(chain)),
           UNCHANGED <<destroyed, port, slot, owner, closingIntentionally, reconnectTimer>>
    PROVE  LinkInv'
<1> DEFINE f == Head(chain)
           Chained == /\ NoLostCommand' /\ chain' \in Seq(Flows) /\ phase' \in Phases
                      /\ pc' \in [Flows -> ConnectPCs]
                      /\ \A h \in HealthChecks : pc'[h] \in HealthPCs
<1> USE FlowsAssumption
<1>1. f \in Flows /\ pc[f] \in ConnectStages /\ pc \in [Flows -> ConnectPCs]
  BY HeadAwaits DEF Awaiting, LinkInv, TypeOK
<1>2. Chained
  <2>0. \A h \in HealthChecks : pc[h] \in HealthPCs
    BY DEF LinkInv, TypeOK
  <2>1. ASSUME NEW s \in ConnectStages, NextCommand(f, s), f # Connect => s \in HealthPCs
        PROVE  Chained
    BY <1>1, <2>0, <2>1, NextCommandChain DEF NextCommand, ConnectPCs, Flows
  <2>2. ASSUME LeaveChain(f, "idle")
        PROVE  Chained
    BY <1>1, <2>0, <2>2, LeaveChainChain DEF LeaveChain, ConnectPCs, HealthPCs, ConnectStages, Flows
  <2>3. /\ AfterHealth(pc[f]) \in ConnectStages /\ AfterHealth(pc[f]) \in HealthPCs
        /\ AfterConnect(pc[f]) \in ConnectStages
        /\ "INBOX" \in ConnectStages
    BY DEF AfterHealth, AfterConnect, ConnectStages, HealthPCs, HealthStages
  <2> QED BY <2>1, <2>2, <2>3 DEF Continue, GoOnline
<1>3. CASE f # Connect
  <2>1. pc'[Connect] = pc[Connect] /\ UNCHANGED <<status, healthTimer>>
    BY <1>1, <1>3 DEF Continue, NextCommand, LeaveChain, Flows
  <2> QED BY <1>2, <2>1 DEF LinkInv, TypeOK, OneOpening, OpenedHandleHeld, ClosersMatch,
             StoppedUnarmed, OnlyConnectOnline, WatchedIffOnline, Connecting
<1>4. CASE f = Connect
  <2>1. \/ pc'[Connect] \in ConnectStages /\ UNCHANGED <<status, healthTimer>>
        \/ pc'[Connect] = "idle" /\ UNCHANGED <<status, healthTimer>>
        \/ pc'[Connect] = "idle" /\ status' = "online" /\ healthTimer' = TRUE
    BY <1>1, <1>4 DEF Continue, GoOnline, NextCommand, LeaveChain, Flows, AfterConnect,
       ConnectStages
  <2>2. pc[Connect] \in ConnectStages
    BY <1>1, <1>4
  <2>3. TypeOK'
    BY <1>2, <2>1 DEF LinkInv, TypeOK, Statuses
  <2>4. OneOpening' /\ OpenedHandleHeld' /\ ClosersMatch'
    BY <2>1, <2>2 DEF LinkInv, OneOpening, OpenedHandleHeld, ClosersMatch, ConnectStages
  <2>5. StoppedUnarmed' /\ OnlyConnectOnline' /\ WatchedIffOnline'
    BY <2>1, <2>2 DEF LinkInv, StoppedUnarmed, OnlyConnectOnline, WatchedIffOnline,
       Connecting, ConnectStages
  <2> QED BY <1>2, <2>3, <2>4, <2>5 DEF LinkInv
<1> QED BY <1>3, <1>4

\* A failed command either leaves its flow in its catch block or is swallowed.
LEMMA CommandFailsInv == ASSUME LinkInv, CommandFails PROVE LinkInv'
<1> DEFINE f == Head(chain)
<1> USE FlowsAssumption
<1>0. phase # "none"
  BY DEF CommandFails, Failing
<1>1. f \in Flows /\ pc[f] \in ConnectStages
  BY <1>0, HeadAwaits DEF Awaiting
<1>2. CASE pc[f] \notin StrictStages
  BY <1>0, <1>2, ContinueInv DEF CommandFails
<1>3. CASE pc[f] \in StrictStages
  <2>1. /\ LeaveChain(f, "catch")
        /\ UNCHANGED <<status, healthTimer, destroyed, port, slot, owner,
                       closingIntentionally, reconnectTimer>>
    BY <1>3 DEF CommandFails
  <2>2. /\ NoLostCommand' /\ chain' \in Seq(Flows) /\ phase' \in Phases
        /\ pc' = [pc EXCEPT ![f] = "catch"]
    BY <1>0, <2>1, LeaveChainChain DEF LeaveChain, ConnectStages
  <2>3. TypeOK'
    BY <1>1, <2>1, <2>2 DEF LinkInv, TypeOK, ConnectPCs, HealthPCs, Flows
  <2>4. OneOpening' /\ OpenedHandleHeld' /\ ClosersMatch'
    BY <1>1, <2>1, <2>2 DEF LinkInv, TypeOK, OneOpening, OpenedHandleHeld, ClosersMatch,
       ConnectStages, Flows
  <2>5. StoppedUnarmed' /\ OnlyConnectOnline' /\ WatchedIffOnline'
    BY <1>1, <2>1, <2>2 DEF LinkInv, TypeOK, StoppedUnarmed, OnlyConnectOnline,
       WatchedIffOnline, Connecting, ConnectStages, Flows
  <2> QED BY <2>2, <2>3, <2>4, <2>5 DEF LinkInv
<1> QED BY <1>2, <1>3

\* handleNoSim, run by a health check or by one of connect()'s two probes.
LEMMA SimAbsentInv == ASSUME LinkInv, SimAbsent PROVE LinkInv'
<1> DEFINE f == Head(chain)
<1> USE FlowsAssumption, SlotsAssumption
<1>0. phase # "none"
  BY DEF SimAbsent
<1>1. f \in Flows /\ pc[f] \in ConnectStages /\ port \in Slots /\ slot[port] = "open"
  BY <1>0, HeadAwaits DEF Awaiting, SimAbsent, IsOpen, LinkInv, TypeOK
<1>2. PICK cont \in {"noSim", "noSimMeta", "reconnect"},
           s \in {"noSim", "noSimMeta", "idle"} :
         /\ CloseSlot(cont) /\ LeaveChain(f, s)
         /\ f = Connect => cont = s /\ s # "idle"
         /\ f # Connect => cont = "reconnect" /\ s = "idle"
  BY DEF SimAbsent
<1>3. /\ NoLostCommand' /\ chain' \in Seq(Flows) /\ phase' \in Phases
      /\ pc' = [pc EXCEPT ![f] = s]
  BY <1>0, <1>2, LeaveChainChain DEF LeaveChain, ConnectStages
<1>4. TypeOK'
  BY <1>1, <1>2, <1>3 DEF SimAbsent, CloseSlot, LinkInv, TypeOK, ConnectPCs, HealthPCs, Flows,
     Statuses, SlotStates, Owners
<1>5. OneOpening'
  BY <1>1, <1>2, <1>3 DEF CloseSlot, LinkInv, TypeOK, OneOpening, ConnectStages, Flows
<1>6. OpenedHandleHeld'
  BY <1>1, <1>2 DEF CloseSlot, LinkInv, TypeOK, OpenedHandleHeld
<1>7. ClosersMatch'
  BY <1>1, <1>2, <1>3 DEF SimAbsent, CloseSlot, LinkInv, TypeOK, ClosersMatch, OpenedHandleHeld,
     ConnectStages, ConnectOwners, Flows
<1>8. StoppedUnarmed' /\ OnlyConnectOnline' /\ WatchedIffOnline'
  BY DEF SimAbsent, LinkInv, StoppedUnarmed, OnlyConnectOnline, WatchedIffOnline
<1> QED BY <1>3, <1>4, <1>5, <1>6, <1>7, <1>8 DEF LinkInv

\* A close that has ended hands over to the caller that awaited it.
LEMMA ClosePortReturnsInv ==
    ASSUME LinkInv, NEW s \in Slots, ClosePortReturns(s) PROVE LinkInv'
<1> USE FlowsAssumption, SlotsAssumption
<1>0. Connect \in Flows /\ UNCHANGED <<chain, phase, destroyed>> /\ slot[s] = "closed"
  BY DEF Flows, ClosePortReturns
<1>1. CASE owner[s] = "connect"
  <2>1. PICK n \in Slots : OpenSlot([slot EXCEPT ![s] = "free"], n)
    BY <1>1 DEF ClosePortReturns
  <2>2. /\ pc[Connect] = "closing"
        /\ pc' = [pc EXCEPT ![Connect] = "opening"]
        /\ owner' = [owner EXCEPT ![s] = "none"]
        /\ closingIntentionally' = FALSE
        /\ UNCHANGED <<status, reconnectTimer, healthTimer>>
    BY <1>1 DEF ClosePortReturns, LinkInv, ClosersMatch
  <2>3. TypeOK'
    BY <1>0, <2>1, <2>2 DEF LinkInv, TypeOK, OpenSlot, Flows, ConnectPCs, SlotStates, Owners
  <2>4. NoLostCommand'
    <3>1. Awaiting' = Awaiting
      BY <1>0, <2>2 DEF Awaiting, LinkInv, TypeOK, ConnectStages
    <3> QED BY <1>0, <3>1 DEF LinkInv, NoLostCommand
  <2>5. OneOpening'
    BY <1>0, <2>1, <2>2 DEF LinkInv, TypeOK, OneOpening, OpenSlot
  <2>6. OpenedHandleHeld'
    <3>1. \A t \in Slots : slot[t] # "open"
      BY <2>2 DEF LinkInv, ClosersMatch, OpenedHandleHeld
    <3> QED BY <1>0, <2>1, <2>2, <3>1 DEF LinkInv, TypeOK, OpenedHandleHeld, OpenSlot
  <2>7. ClosersMatch'
    BY <1>0, <1>1, <2>1, <2>2 DEF LinkInv, TypeOK, ClosersMatch, ConnectOwners
  <2>8. StoppedUnarmed' /\ OnlyConnectOnline' /\ WatchedIffOnline'
    BY <1>0, <2>2 DEF LinkInv, StoppedUnarmed, OnlyConnectOnline, WatchedIffOnline, Connecting
  <2> QED BY <2>3, <2>4, <2>5, <2>6, <2>7, <2>8 DEF LinkInv
<1>2. CASE owner[s] # "connect"
  <2>1. /\ slot' = [slot EXCEPT ![s] = "free"]
        /\ owner' = [owner EXCEPT ![s] = "none"]
        /\ closingIntentionally' = FALSE
        /\ UNCHANGED port
    BY <1>2 DEF ClosePortReturns
  <2>2. \/ UNCHANGED <<pc, status, healthTimer>>
        \/ /\ pc[Connect] \in {"noSim", "noSimMeta"}
           /\ owner[s] \in {"noSim", "noSimMeta"}
           /\ pc' = [pc EXCEPT ![Connect] = "idle"]
           /\ \/ UNCHANGED <<status, healthTimer>>
              \/ status' = "online" /\ healthTimer' = TRUE
        \/ destroyed /\ UNCHANGED <<pc, healthTimer>> /\ status' = "offline"
    BY <1>2 DEF ClosePortReturns, LinkInv, ClosersMatch
  <2>3. reconnectTimer' = reconnectTimer \/ reconnectTimer' = (reconnectTimer \/ ~destroyed)
    BY <1>2 DEF ClosePortReturns, ScheduleReconnect
  <2>4. TypeOK'
    BY <1>0, <2>1, <2>2, <2>3 DEF LinkInv, TypeOK, Flows, ConnectPCs, SlotStates, Owners, Statuses
  <2>5. NoLostCommand'
    <3>1. Awaiting' = Awaiting
      BY <1>0, <2>2 DEF Awaiting, LinkInv, TypeOK, ConnectStages
    <3> QED BY <1>0, <3>1 DEF LinkInv, NoLostCommand
  <2>6. OneOpening'
    BY <1>0, <2>1, <2>2 DEF LinkInv, TypeOK, OneOpening
  <2>7. OpenedHandleHeld'
    BY <1>0, <2>1 DEF LinkInv, TypeOK, OpenedHandleHeld
  <2>8. ClosersMatch'
    BY <1>0, <2>1, <2>2 DEF LinkInv, TypeOK, ClosersMatch, ConnectOwners
  <2>9. StoppedUnarmed' /\ OnlyConnectOnline' /\ WatchedIffOnline'
    BY <1>0, <2>2, <2>3 DEF LinkInv, TypeOK, StoppedUnarmed, OnlyConnectOnline,
       WatchedIffOnline, Connecting
  <2> QED BY <2>4, <2>5, <2>6, <2>7, <2>8, <2>9 DEF LinkInv
<1> QED BY <1>1, <1>2

\* The manager's calls and the reconnect timer.
LEMMA CallsInv ==
    ASSUME LinkInv, Start \/ ForceReconnect \/ Stop \/ ReconnectFires PROVE LinkInv'
<1> USE FlowsAssumption, SlotsAssumption
<1>1. CASE Start
  BY <1>1, BeginConnectInv DEF Start, LinkInv, TypeOK, StoppedUnarmed
<1>2. CASE ForceReconnect
  <2>1. CASE ~Connecting
    BY <1>2, <2>1, BeginConnectInv DEF ForceReconnect, Connecting
  <2>2. CASE Connecting
    <3>1. /\ UNCHANGED <<status, pc, port, slot, owner, closingIntentionally, phase,
                         destroyed, chain>>
          /\ healthTimer' = FALSE /\ reconnectTimer' = FALSE
      BY <1>2, <2>2 DEF ForceReconnect
    <3>2. Awaiting' = Awaiting
      BY <3>1 DEF Awaiting
    <3> QED BY <2>2, <3>1, <3>2 DEF LinkInv, TypeOK, NoLostCommand, OneOpening, OpenedHandleHeld,
               ClosersMatch, StoppedUnarmed, OnlyConnectOnline, WatchedIffOnline, Connecting
  <2> QED BY <2>1, <2>2
<1>3. CASE ReconnectFires
  <2>1. CASE ~destroyed /\ ~Connecting
    BY <1>3, <2>1, BeginConnectInv DEF ReconnectFires, Connecting
  <2>2. CASE destroyed \/ Connecting
    <3>1. /\ UNCHANGED <<status, pc, port, slot, owner, closingIntentionally, phase,
                         destroyed, chain, healthTimer>>
          /\ reconnectTimer' = FALSE
      BY <1>3, <2>2 DEF ReconnectFires
    <3>2. Awaiting' = Awaiting
      BY <3>1 DEF Awaiting
    <3> QED BY <3>1, <3>2 DEF LinkInv, TypeOK, NoLostCommand, OneOpening, OpenedHandleHeld,
               ClosersMatch, StoppedUnarmed, OnlyConnectOnline, WatchedIffOnline, Connecting
  <2> QED BY <2>1, <2>2
<1>4. CASE Stop
  <2>1. TypeOK'
    BY <1>4 DEF Stop, CloseSlot, RejectActive, IsOpen, LinkInv, TypeOK, Statuses, SlotStates,
       Owners, Phases
  <2>2. NoLostCommand'
    <3>1. Awaiting' = Awaiting
      BY <1>4 DEF Stop, Awaiting
    <3> QED BY <1>4, <3>1 DEF Stop, RejectActive, LinkInv, NoLostCommand
  <2>3. OneOpening' /\ OpenedHandleHeld'
    BY <1>4 DEF Stop, CloseSlot, IsOpen, LinkInv, TypeOK, OneOpening, OpenedHandleHeld
  <2>4. ClosersMatch'
    BY <1>4 DEF Stop, CloseSlot, IsOpen, LinkInv, TypeOK, ClosersMatch, ConnectOwners
  <2>5. StoppedUnarmed' /\ OnlyConnectOnline' /\ WatchedIffOnline'
    BY <1>4 DEF Stop, StoppedUnarmed, OnlyConnectOnline, WatchedIffOnline
  <2> QED BY <2>1, <2>2, <2>3, <2>4, <2>5 DEF LinkInv
<1> QED BY <1>1, <1>2, <1>3, <1>4

\* The serial port's answers and events.
LEMMA PortEventsInv ==
    ASSUME LinkInv, NEW s \in Slots,
           OpenSucceeds(s) \/ OpenFails(s) \/ Unplug(s) \/ CloseEvent(s) \/ PortError(s)
    PROVE  LinkInv'
<1> USE FlowsAssumption, SlotsAssumption
<1>0. Connect \in Flows
  BY DEF Flows
<1>1. CASE Unplug(s)
  <2>1. Awaiting' = Awaiting
    BY <1>1 DEF Unplug, Awaiting
  <2> QED BY <1>1, <2>1 DEF Unplug, LinkInv, TypeOK, NoLostCommand, OneOpening,
             OpenedHandleHeld, ClosersMatch, StoppedUnarmed, OnlyConnectOnline,
             WatchedIffOnline, Connecting, SlotStates
<1>2. CASE CloseEvent(s)
  <2> DEFINE sl == [slot EXCEPT ![s] = IF slot[s] = "dropped" THEN "free" ELSE "closed"]
  <2>1. /\ slot[s] \in {"dropped", "closing"}
        /\ UNCHANGED <<destroyed, pc, chain>>
        /\ Awaiting' = Awaiting
    BY <1>2 DEF CloseEvent, Awaiting
  <2>2. CASE ~closingIntentionally
    <3>1. slot' = DisconnectedSlots(sl) /\ HandleDisconnect
      BY <1>2, <2>2 DEF CloseEvent
    <3>2. slot \in [Slots -> SlotStates]
      BY DEF LinkInv, TypeOK
    <3>3. sl \in [Slots -> SlotStates]
      BY <3>2 DEF SlotStates
    <3>4. \A t \in Slots : \/ sl[t] = slot[t]
                           \/ slot[t] = "closing" /\ sl[t] = "closed"
                           \/ slot[t] = "dropped" /\ sl[t] = "free"
      BY <2>1, <3>2
    <3> HIDE DEF sl
    <3> QED BY <2>1, <3>1, <3>3, <3>4, DisconnectInv DEF LinkInv, TypeOK
  <2>3. CASE closingIntentionally
    <3>1. /\ slot' = sl
          /\ UNCHANGED <<status, healthTimer, phase, port, owner, closingIntentionally,
                         reconnectTimer>>
      BY <1>2, <2>3 DEF CloseEvent
    <3> QED BY <2>1, <3>1 DEF LinkInv, TypeOK, NoLostCommand, OneOpening, OpenedHandleHeld,
               ClosersMatch, StoppedUnarmed, OnlyConnectOnline, WatchedIffOnline, Connecting,
               SlotStates
  <2> QED BY <2>2, <2>3
<1>3. CASE PortError(s)
  <2>1. Awaiting' = Awaiting
    BY <1>3 DEF PortError, Awaiting
  <2> QED BY <1>3, <2>1, DisconnectInv DEF PortError, LinkInv, TypeOK
<1>4. CASE OpenFails(s) \/ (OpenSucceeds(s) /\ port # s)
  <2>1. /\ slot[s] = "opening"
        /\ \E x \in {"free", "leaked"} : slot' = [slot EXCEPT ![s] = x]
        /\ pc' = [pc EXCEPT ![Connect] = "catch"]
        /\ UNCHANGED <<status, destroyed, port, owner, closingIntentionally, reconnectTimer,
                       healthTimer, chain, phase>>
    BY <1>4 DEF OpenFails, OpenSucceeds
  <2>2. pc[Connect] = "opening" /\ Connecting /\ Connecting'
    BY <1>0, <2>1 DEF LinkInv, TypeOK, OneOpening, Connecting
  <2>3. Awaiting' = Awaiting
    BY <1>0, <2>1, <2>2 DEF LinkInv, TypeOK, Awaiting, ConnectStages
  <2>4. TypeOK'
    BY <1>0, <2>1 DEF LinkInv, TypeOK, Flows, ConnectPCs, SlotStates
  <2>5. OneOpening' /\ OpenedHandleHeld' /\ ClosersMatch'
    BY <1>0, <2>1, <2>2 DEF LinkInv, TypeOK, OneOpening, OpenedHandleHeld, ClosersMatch
  <2> QED BY <2>1, <2>2, <2>3, <2>4, <2>5 DEF LinkInv, NoLostCommand, StoppedUnarmed,
             OnlyConnectOnline, WatchedIffOnline
<1>5. CASE OpenSucceeds(s) /\ port = s
  <2>1. /\ slot[s] = "opening"
        /\ slot' = [slot EXCEPT ![s] = "open"]
        /\ pc' = [pc EXCEPT ![Connect] = "AT"]
        /\ chain' = Append(chain, Connect)
        /\ phase' = IF chain = <<>> THEN "queued" ELSE phase
        /\ UNCHANGED <<status, destroyed, port, owner, closingIntentionally, reconnectTimer,
                       healthTimer>>
    BY <1>5 DEF OpenSucceeds
  <2>2. pc[Connect] = "opening" /\ Connecting /\ Connecting'
    BY <1>0, <2>1 DEF LinkInv, TypeOK, OneOpening, Connecting
  <2>3. Awaiting' = Awaiting \cup {Connect} /\ Connect \notin Awaiting
    BY <1>0, <2>1, <2>2 DEF LinkInv, TypeOK, Awaiting, ConnectStages
  <2>4. /\ chain' \in Seq(Flows) /\ chain' # <<>>
        /\ Members(chain') = Awaiting' /\ Distinct(chain')
    <3>1. Connect \notin Members(chain) /\ Distinct(chain) /\ chain \in Seq(Flows)
      BY <2>3 DEF LinkInv, NoLostCommand, TypeOK
    <3>2. /\ Append(chain, Connect) \in Seq(Flows)
          /\ Append(chain, Connect) # <<>>
          /\ Members(Append(chain, Connect)) = Members(chain) \cup {Connect}
          /\ Distinct(Append(chain, Connect))
      BY <1>0, <3>1, AppendMembers
    <3>3. Members(chain) = Awaiting
      BY DEF LinkInv, NoLostCommand
    <3> QED BY <2>1, <2>3, <3>2, <3>3
  <2>5. NoLostCommand' /\ phase' \in Phases
    BY <2>1, <2>4 DEF LinkInv, TypeOK, NoLostCommand, Phases
  <2>6. TypeOK'
    BY <1>0, <2>1, <2>4, <2>5 DEF LinkInv, TypeOK, Flows, ConnectPCs, ConnectStages, SlotStates
  <2>7. OneOpening' /\ OpenedHandleHeld' /\ ClosersMatch'
    BY <1>0, <1>5, <2>1, <2>2 DEF LinkInv, TypeOK, OneOpening, OpenedHandleHeld, ClosersMatch
  <2> QED BY <2>1, <2>2, <2>5, <2>6, <2>7 DEF LinkInv, StoppedUnarmed, OnlyConnectOnline,
             WatchedIffOnline
<1> QED BY <1>1, <1>2, <1>3, <1>4, <1>5

\* A tick of the health interval queues the first command of a check.
LEMMA HealthTickInv ==
    ASSUME LinkInv, NEW h \in HealthChecks, HealthTick(h) PROVE LinkInv'
<1> USE FlowsAssumption
<1>1. /\ h \in Flows /\ h # Connect /\ Connect \in Flows
      /\ pc[h] = "idle" /\ pc' = [pc EXCEPT ![h] = "AT"]
      /\ chain' = Append(chain, h)
      /\ phase' = IF chain = <<>> THEN "queued" ELSE phase
      /\ UNCHANGED <<status, destroyed, port, slot, owner, closingIntentionally,
                     reconnectTimer, healthTimer>>
  BY DEF HealthTick, Flows
<1>2. Awaiting' = Awaiting \cup {h} /\ h \notin Awaiting
  BY <1>1 DEF LinkInv, TypeOK, Awaiting, ConnectStages
<1>3. /\ chain' \in Seq(Flows) /\ chain' # <<>>
      /\ Members(chain') = Awaiting' /\ Distinct(chain')
  <2>1. h \notin Members(chain) /\ Distinct(chain) /\ chain \in Seq(Flows)
    BY <1>2 DEF LinkInv, NoLostCommand, TypeOK
  <2>2. /\ Append(chain, h) \in Seq(Flows)
        /\ Append(chain, h) # <<>>
        /\ Members(Append(chain, h)) = Members(chain) \cup {h}
        /\ Distinct(Append(chain, h))
    BY <1>1, <2>1, AppendMembers
  <2>3. Members(chain) = Awaiting
    BY DEF LinkInv, NoLostCommand
  <2> QED BY <1>1, <1>2, <2>2, <2>3
<1>4. NoLostCommand' /\ phase' \in Phases
  BY <1>1, <1>3 DEF LinkInv, TypeOK, NoLostCommand, Phases
<1>5. TypeOK'
  BY <1>1, <1>3, <1>4 DEF LinkInv, TypeOK, ConnectPCs, ConnectStages, HealthPCs, HealthStages
<1> QED BY <1>1, <1>4, <1>5 DEF LinkInv, TypeOK, OneOpening, OpenedHandleHeld, ClosersMatch,
           StoppedUnarmed, OnlyConnectOnline, WatchedIffOnline, Connecting

\* The progress of the command at the head of the chain, and the catch blocks.
LEMMA CommandsInv ==
    ASSUME LinkInv,
           \/ StartCommand \/ WriteDone \/ Answered \/ SimAbsent \/ CommandFails
           \/ ConnectCatch \/ \E h \in HealthChecks : HealthCatch(h)
    PROVE  LinkInv'
<1> USE FlowsAssumption
<1>0. Connect \in Flows
  BY DEF Flows
<1>1. CASE StartCommand \/ WriteDone
  <2>1. /\ UNCHANGED <<status, destroyed, pc, port, slot, owner, closingIntentionally,
                       reconnectTimer, healthTimer, chain>>
        /\ phase # "none" /\ phase' \in Phases \ {"none"}
    BY <1>1 DEF StartCommand, WriteDone, Phases
  <2>2. Awaiting' = Awaiting
    BY <2>1 DEF Awaiting
  <2> QED BY <2>1, <2>2 DEF LinkInv, TypeOK, NoLostCommand, OneOpening, OpenedHandleHeld,
             ClosersMatch, StoppedUnarmed, OnlyConnectOnline, WatchedIffOnline, Connecting
<1>2. CASE Answered
  BY <1>2, ContinueInv DEF Answered
<1>3. CASE SimAbsent
  BY <1>3, SimAbsentInv
<1>4. CASE CommandFails
  BY <1>4, CommandFailsInv
<1>5. CASE ConnectCatch
  <2>1. Awaiting' = Awaiting
    BY <1>0, <1>5 DEF ConnectCatch, LinkInv, TypeOK, Awaiting, ConnectStages
  <2>2. TypeOK' /\ NoLostCommand'
    BY <1>0, <1>5, <2>1 DEF ConnectCatch, ScheduleReconnect, LinkInv, TypeOK, NoLostCommand,
       Statuses, ConnectPCs, Flows
  <2>3. OneOpening' /\ OpenedHandleHeld' /\ ClosersMatch'
    BY <1>0, <1>5 DEF ConnectCatch, LinkInv, TypeOK, OneOpening, OpenedHandleHeld, ClosersMatch
  <2>4. StoppedUnarmed' /\ OnlyConnectOnline' /\ WatchedIffOnline'
    BY <1>0, <1>5 DEF ConnectCatch, ScheduleReconnect, LinkInv, TypeOK, StoppedUnarmed,
       OnlyConnectOnline, WatchedIffOnline, Connecting
  <2> QED BY <2>2, <2>3, <2>4 DEF LinkInv
<1>6. ASSUME NEW h \in HealthChecks, HealthCatch(h) PROVE LinkInv'
  <2>1. /\ h \in Flows /\ h # Connect
        /\ pc[h] = "catch" /\ pc' = [pc EXCEPT ![h] = "idle"]
        /\ slot' = DisconnectedSlots(slot) /\ HandleDisconnect
        /\ UNCHANGED <<destroyed, chain>>
    BY <1>6 DEF HealthCatch, Flows
  <2>2. Awaiting' = Awaiting
    BY <2>1 DEF LinkInv, TypeOK, Awaiting, ConnectStages
  <2>3. /\ pc' \in [Flows -> ConnectPCs] /\ pc'[Connect] = pc[Connect]
        /\ \A g \in HealthChecks : pc'[g] \in HealthPCs
        /\ slot \in [Slots -> SlotStates]
    BY <1>0, <2>1 DEF LinkInv, TypeOK, ConnectPCs, HealthPCs
  <2> QED BY <2>1, <2>2, <2>3, DisconnectInv
<1> QED BY <1>1, <1>2, <1>3, <1>4, <1>5, <1>6

LEMMA NextInv == LinkInv /\ [Next]_vars => LinkInv'
<1> SUFFICES ASSUME LinkInv, [Next]_vars PROVE LinkInv'
  OBVIOUS
<1>1. CASE Next
  BY <1>1, CallsInv, PortEventsInv, ClosePortReturnsInv, HealthTickInv, CommandsInv DEF Next
<1>2. CASE UNCHANGED vars
  BY <1>2 DEF vars, LinkInv, TypeOK, NoLostCommand, Awaiting, OneOpening, OpenedHandleHeld,
     ClosersMatch, StoppedUnarmed, OnlyConnectOnline, WatchedIffOnline, Connecting
<1> QED BY <1>1, <1>2

----------------------------------------------------------------------------
(* What one step may do to the mode of the monitor.                        *)

\* A stop is never undone and interrupts no attempt; a stopped instance at
\* rest does not connect; only connect() goes online.
StepFacts ==
    /\ destroyed => destroyed'
    /\ ~destroyed /\ destroyed' => pc'[Connect] = pc[Connect]
    /\ destroyed /\ pc[Connect] \in {"new", "idle"} => pc'[Connect] = pc[Connect]
    /\ status # "online" /\ status' = "online" => Connecting

\* The command at the head of the chain is connect()'s only while it connects.
LEMMA ContinueFacts ==
    ASSUME LinkInv, phase # "none", Continue(Head(chain)), UNCHANGED destroyed
    PROVE  StepFacts
<1> DEFINE f == Head(chain)
<1>1. f \in Flows /\ pc[f] \in ConnectStages /\ pc \in [Flows -> ConnectPCs]
  BY HeadAwaits DEF Awaiting, LinkInv, TypeOK
<1>2. CASE f # Connect
  BY <1>1, <1>2, FlowsAssumption DEF Continue, NextCommand, LeaveChain, Flows, StepFacts
<1>3. CASE f = Connect
  BY <1>1, <1>3 DEF StepFacts, Connecting, ConnectStages
<1> QED BY <1>2, <1>3

LEMMA NextFacts == ASSUME LinkInv, Next PROVE StepFacts
<1> USE FlowsAssumption
<1>0. Connect \in Flows /\ pc \in [Flows -> ConnectPCs] /\ status \in Statuses
  BY DEF LinkInv, TypeOK, Flows
<1>1. CASE Start \/ ForceReconnect \/ ReconnectFires
  BY <1>1 DEF Start, ForceReconnect, ReconnectFires, BeginConnect, Connecting, StepFacts
<1>2. CASE Stop
  BY <1>2 DEF Stop, StepFacts
<1>3. ASSUME NEW s \in Slots, OpenSucceeds(s) \/ OpenFails(s) PROVE StepFacts
  <2>1. pc[Connect] = "opening"
    BY <1>3 DEF OpenSucceeds, OpenFails, LinkInv, OneOpening
  <2> QED BY <1>3, <2>1 DEF OpenSucceeds, OpenFails, StepFacts
<1>4. ASSUME NEW s \in Slots, Unplug(s) \/ CloseEvent(s) \/ PortError(s) PROVE StepFacts
  BY <1>4 DEF Unplug, CloseEvent, PortError, HandleDisconnect, StepFacts
<1>5. ASSUME NEW s \in Slots, ClosePortReturns(s) PROVE StepFacts
  <2>1. owner[s] \in ConnectOwners => pc[Connect] \in {"closing", "noSim", "noSimMeta"}
    BY DEF LinkInv, ClosersMatch, ConnectOwners
  <2> QED BY <1>5, <2>1 DEF ClosePortReturns, StepFacts, Connecting, ConnectOwners
<1>6. ASSUME NEW h \in HealthChecks, HealthTick(h) \/ HealthCatch(h) PROVE StepFacts
  <2>1. h # Connect /\ pc'[Connect] = pc[Connect]
    BY <1>0, <1>6 DEF HealthTick, HealthCatch
  <2> QED BY <1>6, <2>1 DEF HealthTick, HealthCatch, HandleDisconnect, StepFacts
<1>7. CASE StartCommand \/ WriteDone
  BY <1>7 DEF StartCommand, WriteDone, StepFacts
<1>8. CASE Answered
  BY <1>8, ContinueFacts DEF Answered
<1>9. CASE SimAbsent \/ CommandFails
  <2> DEFINE f == Head(chain)
  <2>1. phase # "none" /\ UNCHANGED destroyed
    BY <1>9 DEF SimAbsent, CommandFails, Failing
  <2>2. f \in Flows /\ pc[f] \in ConnectStages
    BY <2>1, HeadAwaits DEF Awaiting
  <2> DEFINE Leaves == /\ status' # "online" \/ UNCHANGED status
                       /\ \E s \in ConnectPCs : LeaveChain(f, s)
  <2>3. CASE Continue(f)
    BY <2>1, <2>3, ContinueFacts
  <2>4. CASE Leaves
    BY <1>0, <2>1, <2>2, <2>4 DEF LeaveChain, StepFacts, ConnectStages
  <2>5. Continue(f) \/ Leaves
    <3>1. CASE SimAbsent
      BY <3>1 DEF SimAbsent, ConnectPCs
    <3>2. CASE CommandFails
      BY <3>2 DEF CommandFails, ConnectPCs
    <3> QED BY <1>9, <3>1, <3>2
  <2> QED BY <2>3, <2>4, <2>5
<1>10. CASE ConnectCatch
  BY <1>0, <1>10 DEF ConnectCatch, StepFacts
<1> QED BY <1>1, <1>2, <1>3, <1>4, <1>5, <1>6, <1>7, <1>8, <1>9, <1>10 DEF Next

----------------------------------------------------------------------------
(* NeverStranded.  connect() takes a SIM that went missing for its own end *)
(* and then leaves the reconnect to handleNoSim, also when it was a health *)
(* check that noticed it.                                                  *)

\* While a port is opened there is no live one.  If a health check closes the
\* port for want of a SIM under connect()'s feet, the commands that connect()
\* still has fail at once, before a timer of that close can fire.
SimGone ==
    /\ pc[Connect] = "opening" => ~IsOpen
    /\ ~destroyed /\ status = "no_sim" =>
         /\ pc[Connect] \notin {"opening", "closing"}
         /\ pc[Connect] \in ConnectStages =>
              /\ port = NoPort
              /\ phase \in {"queued", "failed"}
              /\ reconnectTimer \/ ReschedulePending

\* The inductive invariant of NeverStranded.
StrandInv == LinkInv /\ SimGone /\ NeverStranded

\* A connect() that begins.
LEMMA BeginConnectKeeps ==
    ASSUME StrandInv, pc[Connect] \in {"new", "idle"}, BeginConnect
    PROVE  SimGone' /\ NeverStranded'
<1> USE SlotsAssumption, FlowsAssumption DEF StrandInv
<1>1. pc'[Connect] \in {"closing", "opening"} /\ status' = "connecting"
  BY DEF BeginConnect, LinkInv, TypeOK, Flows
<1>2. pc'[Connect] = "opening" => ~IsOpen'
  BY <1>1 DEF BeginConnect, OpenSlot, LinkInv, TypeOK, IsOpen, Flows
<1> QED BY <1>1, <1>2 DEF SimGone, NeverStranded

\* The manager's calls and the reconnect timer: the last two conjuncts of
\* SimGone describe a moment that is not Quiet.
LEMMA CallsKeep ==
    ASSUME StrandInv, Start \/ ForceReconnect \/ Stop \/ ReconnectFires
    PROVE  SimGone' /\ NeverStranded'
<1> USE SlotsAssumption DEF StrandInv
<1>1. CASE Start
  BY <1>1, BeginConnectKeeps DEF Start
<1>2. CASE Stop
  <2>1. destroyed' /\ port' = NoPort
    BY <1>2 DEF Stop, CloseSlot
  <2> QED BY <2>1 DEF SimGone, NeverStranded, IsOpen
<1>3. CASE ForceReconnect \/ ReconnectFires
  <2>1. CASE BeginConnect /\ ~Connecting
    BY <2>1, BeginConnectKeeps DEF Connecting
  <2>2. CASE ~(BeginConnect /\ ~Connecting)
    <3>1. /\ UNCHANGED <<status, pc, port, slot, owner, phase, destroyed>>
          /\ destroyed \/ Connecting
          /\ Quiet
      BY <1>3, <2>2 DEF ForceReconnect, ReconnectFires
    <3>2. phase \notin {"queued", "failed"}
      BY <3>1 DEF Quiet
    <3> QED BY <3>1, <3>2 DEF SimGone, NeverStranded, IsOpen, Connecting, ReschedulePending
  <2> QED BY <2>1, <2>2
<1> QED BY <1>1, <1>2, <1>3

\* handleDisconnect arms the timer or leaves that to its close.
LEMMA DisconnectKeeps ==
    ASSUME StrandInv, HandleDisconnect, UNCHANGED destroyed, pc'[Connect] = pc[Connect],
           NEW sl \in [Slots -> SlotStates], slot' = DisconnectedSlots(sl),
           \A s \in Slots : sl[s] = "open" => slot[s] = "open"
    PROVE  SimGone' /\ NeverStranded'
<1> USE SlotsAssumption DEF StrandInv
<1>1. CASE destroyed \/ status = "offline"
  <2>1. UNCHANGED <<status, healthTimer, phase, port, owner, reconnectTimer>> /\ slot' = sl
    BY <1>1 DEF HandleDisconnect, DisconnectedSlots
  <2>2. IsOpen' => IsOpen
    BY <2>1 DEF IsOpen, LinkInv, TypeOK
  <2> QED BY <1>1, <2>1, <2>2 DEF SimGone, NeverStranded, ReschedulePending
<1>2. CASE ~(destroyed \/ status = "offline")
  <2>1. status' = "offline" /\ port' = NoPort
    BY <1>2 DEF HandleDisconnect
  <2>2. CASE IsOpen
    <3>1. port \in Slots /\ owner' = [owner EXCEPT ![port] = "reconnect"]
      BY <1>2, <2>2 DEF HandleDisconnect, IsOpen, LinkInv, TypeOK
    <3>2. owner'[port] = "reconnect"
      BY <3>1 DEF LinkInv, TypeOK
    <3>3. ReschedulePending'
      BY <3>1, <3>2 DEF ReschedulePending
    <3> QED BY <2>1, <3>3 DEF SimGone, NeverStranded, IsOpen
  <2>3. CASE ~IsOpen
    <3>1. reconnectTimer'
      BY <1>2, <2>3 DEF HandleDisconnect, ScheduleReconnect
    <3> QED BY <2>1, <3>1 DEF SimGone, NeverStranded, IsOpen
  <2> QED BY <2>2, <2>3
<1> QED BY <1>1, <1>2

\* The serial port's answers and events.
LEMMA PortEventsKeep ==
    ASSUME StrandInv, NEW s \in Slots,
           OpenSucceeds(s) \/ OpenFails(s) \/ Unplug(s) \/ CloseEvent(s) \/ PortError(s)
    PROVE  SimGone' /\ NeverStranded'
<1> USE SlotsAssumption DEF StrandInv
<1>1. CASE Unplug(s) \/ (CloseEvent(s) /\ closingIntentionally)
  <2>1. /\ UNCHANGED <<status, destroyed, pc, port, owner, reconnectTimer, healthTimer, phase>>
        /\ \E x \in SlotStates \ {"open"} : slot' = [slot EXCEPT ![s] = x]
    BY <1>1 DEF Unplug, CloseEvent, SlotStates
  <2>2. IsOpen' => IsOpen
    BY <2>1 DEF IsOpen, LinkInv, TypeOK
  <2> QED BY <2>1, <2>2 DEF SimGone, NeverStranded, ReschedulePending
<1>2. CASE CloseEvent(s) /\ ~closingIntentionally
  <2> DEFINE sl == [slot EXCEPT ![s] = IF slot[s] = "dropped" THEN "free" ELSE "closed"]
  <2>1. /\ sl \in [Slots -> SlotStates]
        /\ \A t \in Slots : sl[t] = "open" => slot[t] = "open"
    BY DEF LinkInv, TypeOK, SlotStates
  <2>2. slot' = DisconnectedSlots(sl) /\ HandleDisconnect /\ UNCHANGED <<destroyed, pc>>
    BY <1>2 DEF CloseEvent
  <2> HIDE DEF sl
  <2> QED BY <2>1, <2>2, DisconnectKeeps
<1>3. CASE PortError(s)
  BY <1>3, DisconnectKeeps DEF PortError, LinkInv, TypeOK
<1>4. CASE OpenSucceeds(s) \/ OpenFails(s)
  <2>1. /\ Connect \in Flows /\ pc[Connect] = "opening"
        /\ UNCHANGED <<status, destroyed>>
        /\ \E x \in {"AT", "catch"} : pc' = [pc EXCEPT ![Connect] = x]
    BY <1>4 DEF OpenSucceeds, OpenFails, LinkInv, OneOpening, Flows
  <2>2. pc'[Connect] \in {"AT", "catch"}
    BY <2>1 DEF LinkInv, TypeOK
  <2> QED BY <2>1, <2>2 DEF SimGone, NeverStranded
<1> QED BY <1>1, <1>2, <1>3, <1>4

\* closePort resumes.
LEMMA ClosePortReturnsKeeps ==
    ASSUME StrandInv, NEW s \in Slots, ClosePortReturns(s)
    PROVE  SimGone' /\ NeverStranded'
<1> USE SlotsAssumption DEF StrandInv
<1>0. UNCHANGED <<destroyed, phase>> /\ slot[s] = "closed"
  BY DEF ClosePortReturns
<1>1. CASE owner[s] = "connect"
  <2>1. PICK n \in Slots : OpenSlot([slot EXCEPT ![s] = "free"], n)
    BY <1>1 DEF ClosePortReturns
  <2>2. /\ pc[Connect] = "closing" /\ pc' = [pc EXCEPT ![Connect] = "opening"]
        /\ UNCHANGED status
    BY <1>1 DEF ClosePortReturns, LinkInv, ClosersMatch
  <2>3. pc'[Connect] = "opening" /\ ~IsOpen'
    BY <2>1, <2>2 DEF OpenSlot, IsOpen, LinkInv, TypeOK, Flows
  <2> QED BY <1>0, <2>2, <2>3 DEF SimGone, NeverStranded
<1>2. CASE owner[s] \in {"reconnect", "noSim", "noSimMeta"}
  <2>1. /\ ScheduleReconnect /\ UNCHANGED port /\ slot' = [slot EXCEPT ![s] = "free"]
        /\ \/ UNCHANGED <<pc, status>>
           \/ pc' = [pc EXCEPT ![Connect] = "idle"]
    BY <1>2 DEF ClosePortReturns
  <2>2. IsOpen' => IsOpen
    BY <2>1 DEF IsOpen, LinkInv, TypeOK
  <2>3. UNCHANGED <<pc, status>> \/ pc'[Connect] = "idle"
    BY <2>1 DEF LinkInv, TypeOK, Flows
  <2>4. destroyed \/ reconnectTimer'
    BY <2>1 DEF ScheduleReconnect
  <2> QED BY <1>0, <2>1, <2>2, <2>3, <2>4 DEF SimGone, NeverStranded, ConnectStages
<1>3. CASE owner[s] = "stop"
  <2>1. /\ destroyed /\ UNCHANGED <<pc, port>> /\ slot' = [slot EXCEPT ![s] = "free"]
    BY <1>3 DEF ClosePortReturns, LinkInv, ClosersMatch
  <2>2. IsOpen' => IsOpen
    BY <2>1 DEF IsOpen, LinkInv, TypeOK
  <2> QED BY <1>0, <2>1, <2>2 DEF SimGone, NeverStranded
<1>4. owner[s] # "none" /\ owner[s] \in Owners
  BY <1>0 DEF LinkInv, OpenedHandleHeld, TypeOK
<1> QED BY <1>1, <1>2, <1>3, <1>4 DEF Owners

\* When another flow than connect() leaves the chain, a command that connect()
\* awaits is still queued.
LEMMA LeaveQueues ==
    ASSUME LinkInv, phase # "none", Head(chain) # Connect, pc[Connect] \in ConnectStages,
           NEW s, LeaveChain(Head(chain), s)
    PROVE  phase' = "queued"
<1>1. Connect \in Awaiting
  BY DEF Awaiting, Flows
<1>2. Connect \in Members(Tail(chain))
  BY <1>1, HeadAwaits
<1>3. Tail(chain) # <<>>
  BY <1>2 DEF Members
<1> QED BY <1>3 DEF LeaveChain, HeadPhase

\* What follows a command, whoever sent it.
LEMMA ContinueKeeps ==
    ASSUME StrandInv, phase # "none", Continue(Head(chain)),
           UNCHANGED <<destroyed, port, slot, owner, closingIntentionally, reconnectTimer>>
    PROVE  SimGone' /\ NeverStranded'
<1> DEFINE f == Head(chain)
<1> USE FlowsAssumption DEF StrandInv
<1>1. f \in Flows /\ pc[f] \in ConnectStages /\ pc \in [Flows -> ConnectPCs] /\ Connect \in Flows
  BY HeadAwaits DEF Awaiting, LinkInv, TypeOK, Flows
<1>2. IsOpen' = IsOpen /\ ReschedulePending' = ReschedulePending
  BY DEF IsOpen, ReschedulePending
<1>3. CASE f # Connect
  <2>1. pc'[Connect] = pc[Connect] /\ UNCHANGED <<status, healthTimer>>
    BY <1>1, <1>3 DEF Continue, NextCommand, LeaveChain
  <2>2. pc[Connect] \in ConnectStages => phase' = "queued"
    <3>1. CASE \E s \in HealthPCs : NextCommand(f, s)
      BY <3>1 DEF NextCommand
    <3>2. CASE LeaveChain(f, "idle")
      BY <1>3, <3>2, LeaveQueues
    <3>3. AfterHealth(pc[f]) \in HealthPCs
      BY DEF AfterHealth, HealthPCs, HealthStages
    <3> QED BY <1>3, <3>1, <3>2, <3>3 DEF Continue
  <2> QED BY <1>2, <2>1, <2>2 DEF SimGone, NeverStranded
<1>4. CASE f = Connect
  <2>1. \/ pc'[Connect] \in ConnectStages /\ UNCHANGED <<status, healthTimer>> /\ phase' = "queued"
        \/ pc'[Connect] = "idle" /\ UNCHANGED <<status, healthTimer>> /\ status = "no_sim"
        \/ pc'[Connect] = "idle" /\ status' = "online" /\ healthTimer' = TRUE
    BY <1>1, <1>4 DEF Continue, GoOnline, NextCommand, LeaveChain, AfterConnect, ConnectStages
  <2>2. pc[Connect] \in ConnectStages
    BY <1>1, <1>4
  <2>3. CASE pc'[Connect] \in ConnectStages /\ UNCHANGED status /\ phase' = "queued"
    BY <1>2, <2>2, <2>3 DEF SimGone, NeverStranded, ConnectStages
  <2>4. CASE pc'[Connect] = "idle" /\ UNCHANGED status /\ status = "no_sim"
    BY <1>2, <2>2, <2>4 DEF SimGone, NeverStranded, ConnectStages
  <2>5. CASE pc'[Connect] = "idle" /\ status' = "online" /\ healthTimer' = TRUE
    BY <2>5 DEF SimGone, NeverStranded, ConnectStages
  <2> QED BY <2>1, <2>3, <2>4, <2>5
<1> QED BY <1>3, <1>4

\* Commands that end, and the catch blocks.
LEMMA CommandsKeep ==
    ASSUME StrandInv,
           \/ StartCommand \/ WriteDone \/ Answered \/ SimAbsent \/ CommandFails
           \/ ConnectCatch
           \/ \E h \in HealthChecks : HealthCatch(h) \/ HealthTick(h)
    PROVE  SimGone' /\ NeverStranded'
<1> DEFINE f == Head(chain)
<1> USE FlowsAssumption, SlotsAssumption DEF StrandInv
<1>0. Connect \in Flows /\ pc \in [Flows -> ConnectPCs]
  BY DEF Flows, LinkInv, TypeOK
<1>1. CASE StartCommand \/ WriteDone
  <2>1. /\ UNCHANGED <<status, destroyed, pc, port, slot, owner, reconnectTimer, healthTimer>>
        /\ IsOpen \/ phase = "writing"
    BY <1>1 DEF StartCommand, WriteDone
  <2> QED BY <2>1 DEF SimGone, NeverStranded, IsOpen, ReschedulePending
<1>2. CASE Answered
  BY <1>2, ContinueKeeps DEF Answered
<1>3. CASE SimAbsent
  <2>1. phase # "none" /\ port \in Slots /\ IsOpen /\ status' = "no_sim" /\ UNCHANGED destroyed
    BY <1>3 DEF SimAbsent, IsOpen, LinkInv, TypeOK
  <2>2. f \in Flows /\ pc[f] \in ConnectStages
    BY <2>1, HeadAwaits DEF Awaiting
  <2>3. PICK cont \in {"noSim", "noSimMeta", "reconnect"},
             s \in {"noSim", "noSimMeta", "idle"} :
           /\ CloseSlot(cont) /\ LeaveChain(f, s)
           /\ f = Connect => s # "idle"
    BY <1>3 DEF SimAbsent
  <2>4. port' = NoPort /\ owner'[port] = cont /\ ~IsOpen'
    BY <2>1, <2>3 DEF CloseSlot, IsOpen, LinkInv, TypeOK
  <2>5. ReschedulePending'
    BY <2>1, <2>3, <2>4 DEF ReschedulePending
  <2>6. CASE f = Connect
    <3>1. pc'[Connect] \in {"noSim", "noSimMeta"}
      BY <1>0, <2>3, <2>6 DEF LeaveChain
    <3> QED BY <2>4, <2>5, <3>1 DEF SimGone, NeverStranded, ConnectStages
  <2>7. CASE f # Connect
    <3>1. pc'[Connect] = pc[Connect] /\ pc[Connect] \notin {"opening", "closing"}
      BY <1>0, <2>1, <2>3, <2>7 DEF LeaveChain, SimGone, LinkInv, ClosersMatch, IsOpen
    <3>2. pc[Connect] \in ConnectStages => phase' = "queued"
      BY <2>1, <2>3, <2>7, LeaveQueues
    <3> QED BY <2>4, <2>5, <3>1, <3>2 DEF SimGone, NeverStranded
  <2> QED BY <2>6, <2>7
<1>4. CASE CommandFails
  <2>1. /\ phase # "none"
        /\ UNCHANGED <<destroyed, port, slot, owner, closingIntentionally, reconnectTimer>>
    BY <1>4 DEF CommandFails, Failing
  <2>2. CASE Continue(f)
    BY <2>1, <2>2, ContinueKeeps
  <2>3. CASE ~Continue(f)
    <3>1. LeaveChain(f, "catch") /\ UNCHANGED <<status, healthTimer>>
      BY <1>4, <2>3 DEF CommandFails
    <3>2. IsOpen' = IsOpen /\ ReschedulePending' = ReschedulePending
      BY <2>1 DEF IsOpen, ReschedulePending
    <3>3. CASE f = Connect
      <4>1. pc'[Connect] = "catch"
        BY <1>0, <3>1, <3>3 DEF LeaveChain
      <4> QED BY <4>1 DEF SimGone, NeverStranded, ConnectStages
    <3>4. CASE f # Connect
      <4>1. pc'[Connect] = pc[Connect]
        BY <1>0, <3>1, <3>4 DEF LeaveChain
      <4>2. pc[Connect] \in ConnectStages => phase' = "queued"
        BY <2>1, <3>1, <3>4, LeaveQueues
      <4> QED BY <2>1, <3>1, <3>2, <4>1, <4>2 DEF SimGone, NeverStranded
    <3> QED BY <3>3, <3>4
  <2> QED BY <2>2, <2>3
<1>5. CASE ConnectCatch
  <2>1. /\ pc'[Connect] = "idle" /\ status' = "offline" /\ UNCHANGED destroyed
        /\ destroyed \/ reconnectTimer'
    BY <1>0, <1>5 DEF ConnectCatch, ScheduleReconnect
  <2> QED BY <2>1 DEF SimGone, NeverStranded
<1>6. ASSUME NEW h \in HealthChecks, HealthCatch(h) PROVE SimGone' /\ NeverStranded'
  <2>1. /\ slot' = DisconnectedSlots(slot) /\ HandleDisconnect /\ UNCHANGED destroyed
        /\ pc'[Connect] = pc[Connect] /\ slot \in [Slots -> SlotStates]
    BY <1>0, <1>6 DEF HealthCatch, LinkInv, TypeOK
  <2> QED BY <2>1, DisconnectKeeps
<1>7. ASSUME NEW h \in HealthChecks, HealthTick(h) PROVE SimGone' /\ NeverStranded'
  <2>1. /\ UNCHANGED <<status, destroyed, port, slot, owner, reconnectTimer, healthTimer>>
        /\ status = "online" /\ pc'[Connect] = pc[Connect]
    BY <1>0, <1>7 DEF HealthTick
  <2> QED BY <2>1 DEF SimGone, NeverStranded, IsOpen, ReschedulePending
<1> QED BY <1>1, <1>2, <1>3, <1>4, <1>5, <1>6, <1>7

----------------------------------------------------------------------------
(* The theorems.                                                           *)

\* Every reachable state of a ModemInstance satisfies the inductive invariant.
THEOREM LinkInvariant == Spec => []LinkInv
BY InitInv, NextInv, PTL DEF Spec

\* Every variable keeps its type.
THEOREM TypeCorrect == Spec => []TypeOK
BY LinkInvariant, PTL DEF LinkInv

\* No promise returned by sendCommand is left unsettled: a flow awaits a
\* command exactly when the chain holds it.
THEOREM CommandsSettled == Spec => []NoLostCommand
BY LinkInvariant, PTL DEF LinkInv

\* A handle that connect() has finished opening is this.port until closePort, and
\* then awaited by the one caller that closes it.  (Handles that were dropped while
\* they were being opened are not among these.)
THEOREM OpenedHandlesHeld == Spec => []OpenedHandleHeld
BY LinkInvariant, PTL DEF LinkInv

\* The health interval is armed exactly while a live instance is online.
THEOREM Watched == Spec => []WatchedIffOnline
BY LinkInvariant, PTL DEF LinkInv

\* connect() opens one SerialPort at a time.
THEOREM OneOpeningAlways == Spec => []OneOpening
BY LinkInvariant, PTL DEF LinkInv

\* An instance that is not stopped has a reconnect timer, is online with its health
\* interval armed, is in connect(), or awaits a close after which it arms the timer,
\* however timers, health checks, port events and forced reconnects interleave.
\* Whether an online instance still has its port is for the next health check to see.
THEOREM NeverStrandedAlways == Spec => []NeverStranded
<1>1. Init => SimGone /\ NeverStranded
  BY DEF Init, SimGone, NeverStranded, IsOpen, Flows
<1>2. StrandInv /\ [Next]_vars => SimGone' /\ NeverStranded'
  <2> SUFFICES ASSUME StrandInv, [Next]_vars PROVE SimGone' /\ NeverStranded'
    OBVIOUS
  <2>1. CASE Next
    BY <2>1, CallsKeep, PortEventsKeep, ClosePortReturnsKeeps, CommandsKeep DEF Next
  <2>2. CASE UNCHANGED vars
    BY <2>2 DEF vars, StrandInv, SimGone, NeverStranded, IsOpen, ReschedulePending
  <2> QED BY <2>1, <2>2
<1>3. Init => StrandInv
  BY <1>1, InitInv DEF StrandInv
<1>4. StrandInv /\ [Next]_vars => StrandInv'
  BY <1>2, NextInv DEF StrandInv
<1>5. StrandInv => NeverStranded
  BY DEF StrandInv
<1> QED BY <1>3, <1>4, <1>5, PTL DEF Spec

\* A stopped instance whose connect() is over never connects again.
THEOREM StopIsFinal == Spec => StoppedStaysDown
<1>1. LinkInv /\ LinkInv' /\ [Next]_vars
        => [destroyed /\ pc[Connect] = "idle"
              => destroyed' /\ pc'[Connect] = "idle" /\ ~reconnectTimer']_vars
  BY NextFacts DEF StepFacts, LinkInv, StoppedUnarmed
<1> QED BY <1>1, LinkInvariant, PTL DEF Spec, StoppedStaysDown

\* Seen from the manager the instance is a LinkMonitor (safety part of the
\* refinement that the runs check with its fairness).
THEOREM RefinesMonitor == Spec => Monitor!Spec
<1>1. Init => Monitor!Init
  BY DEF Init, Monitor!Init, MonitorMode, Connecting, Flows
<1>2. LinkInv /\ [Next]_vars => [Monitor!Next]_MonitorMode
  <2> SUFFICES ASSUME LinkInv, [Next]_vars PROVE [Monitor!Next]_MonitorMode
    OBVIOUS
  <2>1. CASE Next
    <3>1. StepFacts
      BY <2>1, NextFacts
    <3>2. /\ destroyed => destroyed'
          /\ ~destroyed /\ destroyed' => Connecting' = Connecting
          /\ destroyed /\ ~Connecting => ~Connecting'
          /\ status # "online" /\ status' = "online" => Connecting
      BY <3>1 DEF StepFacts, Connecting
    <3> QED BY <3>2 DEF MonitorMode, Monitor!Next, Monitor!Retry, Monitor!Restart,
               Monitor!Succeed, Monitor!GiveUp, Monitor!LinkLost, Monitor!Halt,
               Monitor!HaltTry, Monitor!Drained
  <2>2. CASE UNCHANGED vars
    BY <2>2 DEF vars, MonitorMode, Connecting
  <2> QED BY <2>1, <2>2
<1> QED BY <1>1, <1>2, LinkInvariant, PTL DEF Spec, Monitor!Spec

----------------------------------------------------------------------------
(* SmsParser: messages and their parts.                                    *)

\* The numbers of the parts of messages.
LEMMA NumbersFact ==
    /\ Numbers \subseteq Nat \ {0}
    /\ \A m \in Messages : Total[m] \in Numbers
    /\ \A n \in Numbers : 1 .. n \subseteq Numbers
<1> USE MessagesAssumption
<1>1. Numbers \subseteq Nat \ {0}
  BY DEF Numbers
<1>2. ASSUME NEW m \in Messages PROVE Total[m] \in Numbers
  <2>1. Total[m] \in 1 .. Total[m]
    OBVIOUS
  <2> QED BY <2>1 DEF Numbers
<1>3. ASSUME NEW n \in Numbers PROVE 1 .. n \subseteq Numbers
  <2>1. PICK m \in Messages : n \in 1 .. Total[m]
    BY DEF Numbers
  <2>2. 1 .. n \subseteq 1 .. Total[m]
    BY <2>1
  <2> QED BY <2>2 DEF Numbers
<1> QED BY <1>1, <1>2, <1>3

\* A part is a message and the number of one of its parts.
LEMMA PartFact ==
    ASSUME NEW part \in Part
    PROVE  /\ part = <<part[1], part[2]>>
           /\ part[1] \in Messages
           /\ part[2] \in Numbers
           /\ part[2] \in 1 .. Total[part[1]]
BY NumbersFact DEF Part

\* What holds of every group, pending or none: no total, no parts; a part is
\* there under its own key; a message that met no other gave the group its
\* total.
GroupsOK ==
    \A k \in Keys :
        /\ groups[k].total = 0 <=> groups[k].parts = NoParts
        /\ \A i \in Numbers : groups[k].parts[i] # NoText =>
             /\ KeyOf[groups[k].parts[i]] = k
             /\ groups[k].parts[i] \notin mixed => groups[k].total = Total[groups[k].parts[i]]

GroupType == [total : {0} \cup Numbers, parts : [Numbers -> Messages \cup {NoText}]]

ParserInv == ParserTypeOK /\ OneTimer /\ GroupsOK /\ NothingDropped

----------------------------------------------------------------------------
(* Groups.                                                                 *)

LEMMA NoGroupType == NoGroup \in GroupType /\ NoGroup.total = 0 /\ NoGroup.parts = NoParts
BY DEF NoGroup, NoParts, GroupType

\* The text of a group that exists.
LEMMA TextType ==
    ASSUME NEW g \in GroupType, g.total # 0
    PROVE  /\ \E n \in Numbers : TextOf(g) \in [1 .. n -> Messages \cup {NoText}]
           /\ DOMAIN TextOf(g) = 1 .. g.total
           /\ \A i \in 1 .. g.total : TextOf(g)[i] = g.parts[i]
<1>1. g.total \in Numbers /\ 1 .. g.total \subseteq Numbers
  BY NumbersFact DEF GroupType
<1>2. TextOf(g) \in [1 .. g.total -> Messages \cup {NoText}]
  BY <1>1 DEF GroupType, TextOf
<1> QED BY <1>1, <1>2 DEF TextOf

\* The group that a part of m joins: what it is, given that groups are as
\* they should be.
LEMMA OpenedFact ==
    ASSUME ParserTypeOK, GroupsOK, NEW k \in Keys, NEW m \in Messages
    PROVE  /\ Opened(k, m) \in GroupType
           /\ Opened(k, m).total \in Numbers
           /\ Opened(k, m).parts = groups[k].parts
           /\ groups[k].total = 0 => Opened(k, m).total = Total[m]
           /\ groups[k].total # 0 => Opened(k, m).total = groups[k].total
<1>1. groups[k] \in GroupType
  BY DEF ParserTypeOK, GroupType
<1>2. Total[m] \in Numbers
  BY NumbersFact
<1>3. CASE groups[k].total = 0
  <2>1. Opened(k, m) = [NoGroup EXCEPT !.total = Total[m]]
    BY <1>3 DEF Opened
  <2>2. groups[k].parts = NoParts
    BY <1>3 DEF GroupsOK
  <2> QED BY <1>2, <1>3, <2>1, <2>2, NoGroupType DEF GroupType, NoGroup
<1>4. CASE groups[k].total # 0
  BY <1>1, <1>4 DEF Opened, GroupType
<1> QED BY <1>3, <1>4

----------------------------------------------------------------------------
(* A part is added to its group, and the history records it.               *)

LEMMA PartAdded ==
    ASSUME ParserInv, NEW m \in Messages, NEW i \in 1 .. Total[m], KeyOf[m] # NoKey,
           AddPart(m, i), Hear(m, i)
    PROVE  /\ groups' \in [Keys -> GroupType]
           /\ timers' \in [Keys -> SUBSET (0 .. Timeout)]
           /\ \A t \in emitted' \ emitted :
                \E n \in Numbers : t \in [1 .. n -> Messages \cup {NoText}]
           /\ OneTimer'
           /\ GroupsOK'
           /\ NothingDropped'
<1> DEFINE k == KeyOf[m]
           g == [Opened(k, m) EXCEPT !.parts[i] = m]
           met == {groups[k].parts[j] : j \in Numbers} \ {m, NoText}
<1> USE MessagesAssumption, TimeoutAssumption
<1>1. k \in Keys /\ m # NoText
  OBVIOUS
<1>2. i \in Numbers
  BY NumbersFact
<1>3. /\ Opened(k, m) \in GroupType
      /\ Opened(k, m).total \in Numbers
      /\ Opened(k, m).parts = groups[k].parts
      /\ groups[k].total = 0 => Opened(k, m).total = Total[m]
      /\ groups[k].total # 0 => Opened(k, m).total = groups[k].total
  BY <1>1, OpenedFact DEF ParserInv
<1>4. /\ g \in GroupType
      /\ g.total = Opened(k, m).total
      /\ g.total # 0
      /\ g.parts[i] = m
      /\ \A j \in Numbers \ {i} : g.parts[j] = groups[k].parts[j]
  BY <1>2, <1>3, NumbersFact DEF GroupType
<1>5. /\ groups \in [Keys -> GroupType]
      /\ timers \in [Keys -> SUBSET (0 .. Timeout)]
  BY DEF ParserInv, ParserTypeOK, GroupType
<1>6. /\ heard' = heard \cup {<<m, i>>}
      /\ mixed' = mixed \cup met \cup (IF met = {} THEN {} ELSE {m})
  BY DEF Hear
\* An unmixed message of the group gave it its total.
<1>7. \A j \in Numbers : g.parts[j] # NoText =>
        /\ KeyOf[g.parts[j]] = k
        /\ g.parts[j] \notin mixed' => g.total = Total[g.parts[j]] /\ g.parts[j] = m
  <2> SUFFICES ASSUME NEW j \in Numbers, g.parts[j] # NoText
               PROVE  /\ KeyOf[g.parts[j]] = k
                      /\ g.parts[j] \notin mixed' => g.total = Total[g.parts[j]] /\ g.parts[j] = m
    OBVIOUS
  <2>1. CASE g.parts[j] # m
    <3>1. g.parts[j] = groups[k].parts[j] /\ KeyOf[g.parts[j]] = k
      BY <1>1, <1>4, <2>1 DEF ParserInv, GroupsOK
    <3>2. g.parts[j] \in met
      BY <2>1, <3>1
    <3> QED BY <1>6, <3>1, <3>2
  <2>2. CASE g.parts[j] = m
    <3>1. SUFFICES ASSUME m \notin mixed' PROVE g.total = Total[m]
      BY <2>2
    <3>2. met = {} /\ m \notin mixed
      BY <1>6, <3>1
    <3>3. CASE groups[k].total = 0
      BY <1>3, <1>4, <3>3
    <3>4. CASE groups[k].total # 0
      <4>1. groups[k].parts # NoParts
        BY <1>1, <3>4 DEF ParserInv, GroupsOK
      <4>2. PICK n \in Numbers : groups[k].parts[n] # NoText
        BY <1>1, <1>5, <4>1 DEF GroupType, NoParts
      <4>3. groups[k].parts[n] = m
        BY <3>2, <4>2
      <4>4. groups[k].total = Total[m]
        BY <1>1, <3>2, <4>2, <4>3 DEF ParserInv, GroupsOK
      <4> QED BY <1>3, <1>4, <3>4, <4>4
    <3> QED BY <3>3, <3>4
  <2> QED BY <2>1, <2>2
\* A part that was heard before, of another message of the group, is mixed now.
<1>8. \A part \in heard' : part[1] \notin mixed' /\ part # <<m, i>> =>
        \/ /\ KeyOf[part[1]] # NoKey
           /\ groups[KeyOf[part[1]]].parts[part[2]] = part[1]
           /\ KeyOf[part[1]] = k => part[1] = m /\ g.parts[part[2]] = m
        \/ \E t \in emitted : part[2] \in DOMAIN t /\ t[part[2]] = part[1]
  <2> SUFFICES ASSUME NEW part \in heard, part[1] \notin mixed', part # <<m, i>>,
                      KeyOf[part[1]] # NoKey,
                      groups[KeyOf[part[1]]].parts[part[2]] = part[1],
                      KeyOf[part[1]] = k
               PROVE  part[1] = m /\ g.parts[part[2]] = m
    BY <1>6 DEF ParserInv, NothingDropped
  <2>1. part[1] \in Messages /\ part[2] \in Numbers /\ part = <<part[1], part[2]>>
    BY PartFact DEF ParserInv, ParserTypeOK
  <2>2. part[1] = m
    BY <1>6, <2>1
  <2> QED BY <1>4, <2>1, <2>2
<1>9. CASE Complete(g)
  <2>1. /\ groups' = [groups EXCEPT ![k] = NoGroup]
        /\ timers' = [timers EXCEPT ![k] = {}]
        /\ emitted' = emitted \cup {TextOf(g)}
    BY <1>9 DEF AddPart, ClearTimer
  <2>2. /\ groups' \in [Keys -> GroupType]
        /\ timers' \in [Keys -> SUBSET (0 .. Timeout)]
    BY <1>5, <2>1, NoGroupType
  <2>3. /\ \E n \in Numbers : TextOf(g) \in [1 .. n -> Messages \cup {NoText}]
        /\ DOMAIN TextOf(g) = 1 .. g.total
        /\ \A j \in 1 .. g.total : TextOf(g)[j] = g.parts[j]
    BY <1>4, TextType
  <2>4. OneTimer'
    BY <1>1, <1>5, <2>1, NoGroupType DEF ParserInv, OneTimer
  <2>5. GroupsOK'
    <3> SUFFICES ASSUME NEW l \in Keys
                 PROVE  /\ groups'[l].total = 0 <=> groups'[l].parts = NoParts
                        /\ \A j \in Numbers : groups'[l].parts[j] # NoText =>
                             /\ KeyOf[groups'[l].parts[j]] = l
                             /\ groups'[l].parts[j] \notin mixed'
                                  => groups'[l].total = Total[groups'[l].parts[j]]
      BY DEF GroupsOK, NoParts
    <3>1. CASE l = k
      BY <1>1, <1>5, <2>1, <3>1, NoGroupType DEF NoParts
    <3>2. CASE l # k
      BY <1>5, <1>6, <2>1, <3>2 DEF ParserInv, GroupsOK
    <3> QED BY <3>1, <3>2
  <2>6. NothingDropped'
    <3> SUFFICES ASSUME NEW part \in heard', part[1] \notin mixed'
                 PROVE  \/ /\ KeyOf[part[1]] # NoKey
                           /\ groups'[KeyOf[part[1]]].parts[part[2]] = part[1]
                        \/ \E t \in emitted' : part[2] \in DOMAIN t /\ t[part[2]] = part[1]
      BY DEF NothingDropped
    <3>1. CASE part = <<m, i>> \/ (part[1] = m /\ g.parts[part[2]] = m)
      <4>1. part \in Part /\ part[1] = m /\ part[2] \in 1 .. Total[m] /\ g.parts[part[2]] = m
        <5>1. CASE part = <<m, i>>
          BY <1>4, <5>1 DEF Part
        <5>2. CASE part # <<m, i>>
          BY <1>6, <3>1, <5>2, PartFact DEF ParserInv, ParserTypeOK
        <5> QED BY <5>1, <5>2
      <4>2. part[2] \in Numbers /\ g.total = Total[m]
        BY <1>1, <1>7, <4>1, NumbersFact
      <4>3. part[2] \in DOMAIN TextOf(g) /\ TextOf(g)[part[2]] = part[1]
        BY <2>3, <4>1, <4>2
      <4>4. TextOf(g) \in emitted'
        BY <2>1
      <4> QED BY <4>3, <4>4
    <3>2. CASE part # <<m, i>> /\ ~(part[1] = m /\ g.parts[part[2]] = m)
      <4>1. part[1] \in Messages
        BY <1>6, <3>2, PartFact DEF ParserInv, ParserTypeOK
      <4>2. KeyOf[part[1]] \in Keys \/ KeyOf[part[1]] = NoKey
        BY <4>1
      <4>3. CASE \E t \in emitted : part[2] \in DOMAIN t /\ t[part[2]] = part[1]
        BY <2>1, <4>3
      <4>4. CASE /\ KeyOf[part[1]] # NoKey
                 /\ groups[KeyOf[part[1]]].parts[part[2]] = part[1]
                 /\ KeyOf[part[1]] # k
        <5>1. groups'[KeyOf[part[1]]] = groups[KeyOf[part[1]]]
          BY <1>5, <2>1, <4>2, <4>4
        <5> QED BY <4>4, <5>1
      <4> QED BY <1>8, <3>2, <4>3, <4>4
    <3> QED BY <3>1, <3>2
  <2> QED BY <2>1, <2>2, <2>3, <2>4, <2>5, <2>6
<1>10. CASE ~Complete(g)
  <2>1. /\ groups' = [groups EXCEPT ![k] = g]
        /\ timers' = IF groups[k].total = 0 THEN [timers EXCEPT ![k] = timers[k] \cup {Timeout}]
                                            ELSE timers
        /\ emitted' = emitted
    BY <1>10 DEF AddPart, ArmTimer
  <2>2. /\ groups' \in [Keys -> GroupType]
        /\ timers' \in [Keys -> SUBSET (0 .. Timeout)]
    BY <1>4, <1>5, <2>1
  <2>3. OneTimer'
    <3> SUFFICES ASSUME NEW l \in Keys
                 PROVE  \/ groups'[l].total = 0 /\ timers'[l] = {}
                        \/ groups'[l].total # 0 /\ \E t \in 0 .. Timeout : timers'[l] = {t}
      BY DEF OneTimer
    <3>1. \/ groups[l].total = 0 /\ timers[l] = {}
          \/ groups[l].total # 0 /\ \E t \in 0 .. Timeout : timers[l] = {t}
      BY DEF ParserInv, OneTimer
    <3>2. CASE l # k
      BY <1>5, <2>1, <3>1, <3>2
    <3>3. CASE l = k /\ groups[k].total = 0
      <4>1. timers'[l] = {Timeout} /\ Timeout \in 0 .. Timeout
        BY <1>1, <1>5, <2>1, <3>1, <3>3
      <4> QED BY <1>1, <1>4, <1>5, <2>1, <3>3, <4>1
    <3>4. CASE l = k /\ groups[k].total # 0
      BY <1>1, <1>4, <1>5, <2>1, <3>1, <3>4
    <3> QED BY <3>2, <3>3, <3>4
  <2>4. GroupsOK'
    <3> SUFFICES ASSUME NEW l \in Keys
                 PROVE  /\ groups'[l].total = 0 <=> groups'[l].parts = NoParts
                        /\ \A j \in Numbers : groups'[l].parts[j] # NoText =>
                             /\ KeyOf[groups'[l].parts[j]] = l
                             /\ groups'[l].parts[j] \notin mixed'
                                  => groups'[l].total = Total[groups'[l].parts[j]]
      BY DEF GroupsOK, NoParts
    <3>1. CASE l = k
      <4>1. groups'[l] = g
        BY <1>1, <1>5, <2>1, <3>1
      <4>2. g.parts # NoParts
        BY <1>1, <1>2, <1>4 DEF NoParts
      <4> QED BY <1>4, <1>7, <3>1, <4>1, <4>2
    <3>2. CASE l # k
      BY <1>5, <1>6, <2>1, <3>2 DEF ParserInv, GroupsOK
    <3> QED BY <3>1, <3>2
  <2>5. NothingDropped'
    <3> SUFFICES ASSUME NEW part \in heard', part[1] \notin mixed'
                 PROVE  \/ /\ KeyOf[part[1]] # NoKey
                           /\ groups'[KeyOf[part[1]]].parts[part[2]] = part[1]
                        \/ \E t \in emitted' : part[2] \in DOMAIN t /\ t[part[2]] = part[1]
      BY DEF NothingDropped
    <3>1. CASE part = <<m, i>>
      BY <1>1, <1>4, <1>5, <2>1, <3>1
    <3>2. CASE part # <<m, i>>
      <4>1. part[1] \in Messages
        BY <1>6, <3>2, PartFact DEF ParserInv, ParserTypeOK
      <4>2. KeyOf[part[1]] \in Keys \/ KeyOf[part[1]] = NoKey
        BY <4>1
      <4> QED BY <1>1, <1>5, <1>8, <2>1, <3>2, <4>2
    <3> QED BY <3>1, <3>2
  <2> QED BY <2>1, <2>2, <2>3, <2>4, <2>5
<1> QED BY <1>9, <1>10

----------------------------------------------------------------------------
(* Every step.                                                             *)

\* A step that leaves the parser and its history alone.
LEMMA ParserAlone ==
    ASSUME ParserInv, UNCHANGED <<groups, timers, emitted, heard, mixed>>
    PROVE  OneTimer' /\ GroupsOK' /\ NothingDropped'
BY DEF ParserInv, OneTimer, GroupsOK, NothingDropped, NoParts

LEMMA ParserInitInv == ParserInit => ParserInv
<1> SUFFICES ASSUME ParserInit PROVE ParserInv
  OBVIOUS
<1>1. ParserTypeOK
  BY NoGroupType, TimeoutAssumption DEF ParserInit, ParserTypeOK, GroupType
<1>2. OneTimer /\ GroupsOK /\ NothingDropped
  BY NoGroupType DEF ParserInit, OneTimer, GroupsOK, NothingDropped, NoParts
<1> QED BY <1>1, <1>2 DEF ParserInv

LEMMA PduLineInv ==
    ASSUME ParserInv, NEW p \in Ports, PduLine(p)
    PROVE  ParserInv'
<1>1. ParserTypeOK
  BY DEF ParserInv
<1>2. /\ pdu' \in [Ports -> Part \cup {NoPart}]
      /\ awaiting' \subseteq Ports
      /\ UNCHANGED <<air, repeats, active>>
  BY <1>1 DEF PduLine, ParserTypeOK, network
<1>3. CASE p \notin awaiting
  <2>1. UNCHANGED <<groups, timers, emitted, heard, age, mixed>>
    BY <1>3 DEF PduLine, history
  <2>2. ParserTypeOK'
    BY <1>1, <1>2, <2>1 DEF ParserTypeOK
  <2> QED BY <2>1, <2>2, ParserAlone DEF ParserInv
<1>4. CASE p \in awaiting
  <2> DEFINE m == pdu[p][1]
             i == pdu[p][2]
  <2>1. HandlePdu(m, i) /\ Hear(m, i)
    BY <1>4 DEF PduLine
  <2>2. pdu[p] \in Part
    BY <1>1 DEF PduLine, ParserTypeOK
  <2>3. /\ m \in Messages
        /\ i \in 1 .. Total[m]
        /\ i \in Numbers
        /\ <<m, i>> \in Part
    BY <2>2, PartFact
  <2>4. groups \in [Keys -> GroupType] /\ timers \in [Keys -> SUBSET (0 .. Timeout)]
    BY <1>1 DEF ParserTypeOK, GroupType
  <2>5. heard' \subseteq Part /\ age' \in [Messages -> 0 .. Timeout]
    BY <1>1, <2>1, <2>3 DEF Hear, ParserTypeOK
  <2>6. CASE KeyOf[m] = NoKey
    <3>1. emitted' = emitted \cup {Whole(m)} /\ UNCHANGED <<groups, timers>>
      BY <2>1, <2>6 DEF HandlePdu
    <3>2. heard' = heard \cup {<<m, i>>} /\ UNCHANGED mixed
      BY <2>1, <2>6 DEF Hear
    <3>3. Whole(m) \in [1 .. Total[m] -> Messages \cup {NoText}] /\ Total[m] \in Numbers
      BY <2>3, NumbersFact DEF Whole
    <3>4. ParserTypeOK'
      BY <1>1, <1>2, <2>5, <3>1, <3>2, <3>3 DEF ParserTypeOK
    <3>5. OneTimer' /\ GroupsOK'
      BY <3>1, <3>2 DEF ParserInv, OneTimer, GroupsOK, NoParts
    <3>6. Whole(m)[i] = m /\ i \in DOMAIN Whole(m)
      BY <2>3 DEF Whole
    <3>7. NothingDropped'
      BY <3>1, <3>2, <3>6 DEF ParserInv, NothingDropped
    <3> QED BY <3>4, <3>5, <3>7 DEF ParserInv
  <2>7. CASE KeyOf[m] # NoKey
    <3>1. AddPart(m, i)
      BY <2>1, <2>7 DEF HandlePdu
    <3>2. /\ groups' \in [Keys -> GroupType]
          /\ timers' \in [Keys -> SUBSET (0 .. Timeout)]
          /\ \A t \in emitted' \ emitted :
               \E n \in Numbers : t \in [1 .. n -> Messages \cup {NoText}]
          /\ OneTimer' /\ GroupsOK' /\ NothingDropped'
      BY <2>1, <2>3, <2>7, <3>1, PartAdded
    <3>3. mixed' \subseteq Messages
      <4>1. KeyOf[m] \in Keys
        BY <2>3, <2>7, MessagesAssumption
      <4>2. {groups[KeyOf[m]].parts[j] : j \in Numbers} \ {m, NoText} \subseteq Messages
        BY <2>4, <4>1 DEF GroupType
      <4> QED BY <1>1, <2>1, <2>3, <2>7, <4>2 DEF Hear, ParserTypeOK
    <3>4. \A t \in emitted' : \E n \in Numbers : t \in [1 .. n -> Messages \cup {NoText}]
      BY <1>1, <3>2 DEF ParserTypeOK
    <3>5. ParserTypeOK'
      BY <1>1, <1>2, <2>5, <3>2, <3>3, <3>4 DEF ParserTypeOK, GroupType
    <3> QED BY <3>2, <3>5 DEF ParserInv
  <2> QED BY <2>6, <2>7
<1> QED BY <1>3, <1>4

LEMMA FlushInv ==
    ASSUME ParserInv, NEW k \in Keys, Flush(k)
    PROVE  ParserInv'
<1>1. ParserTypeOK /\ groups \in [Keys -> GroupType] /\ timers \in [Keys -> SUBSET (0 .. Timeout)]
  BY DEF ParserInv, ParserTypeOK, GroupType
<1>2. /\ groups' = [groups EXCEPT ![k] = NoGroup]
      /\ timers' = [timers EXCEPT ![k] = timers[k] \ {0}]
      /\ UNCHANGED <<air, repeats, pdu, active, awaiting, heard, age, mixed>>
  BY DEF Flush, network, line, history
<1>3. groups[k].total # 0 /\ timers[k] = {0}
  BY DEF ParserInv, OneTimer, Flush
<1>4. emitted' = emitted \cup {TextOf(groups[k])}
  BY <1>3 DEF Flush
<1>5. /\ \E n \in Numbers : TextOf(groups[k]) \in [1 .. n -> Messages \cup {NoText}]
      /\ DOMAIN TextOf(groups[k]) = 1 .. groups[k].total
      /\ \A i \in 1 .. groups[k].total : TextOf(groups[k])[i] = groups[k].parts[i]
  BY <1>1, <1>3, TextType
<1>6. ParserTypeOK'
  <2>1. groups' \in [Keys -> GroupType]
    BY <1>1, <1>2, NoGroupType
  <2>2. timers' \in [Keys -> SUBSET (0 .. Timeout)]
    BY <1>1, <1>2
  <2> QED BY <1>1, <1>2, <1>4, <1>5, <2>1, <2>2 DEF ParserTypeOK, GroupType
<1>7. OneTimer'
  <2>1. ASSUME NEW l \in Keys, l = k
        PROVE  groups'[l].total = 0 /\ timers'[l] = {}
    BY <1>1, <1>2, <1>3, <2>1, NoGroupType
  <2>2. ASSUME NEW l \in Keys, l # k
        PROVE  groups'[l] = groups[l] /\ timers'[l] = timers[l]
    BY <1>1, <1>2, <2>2
  <2> QED BY <2>1, <2>2 DEF ParserInv, OneTimer
<1>8. GroupsOK'
  <2>1. ASSUME NEW l \in Keys, l = k
        PROVE  groups'[l].total = 0 /\ groups'[l].parts = NoParts
    BY <1>1, <1>2, <2>1, NoGroupType
  <2>2. ASSUME NEW l \in Keys, l # k
        PROVE  groups'[l] = groups[l]
    BY <1>1, <1>2, <2>2
  <2> QED BY <1>2, <2>1, <2>2 DEF ParserInv, GroupsOK, NoParts
<1>9. NothingDropped'
  <2> SUFFICES ASSUME NEW part \in heard, part[1] \notin mixed
               PROVE  \/ /\ KeyOf[part[1]] # NoKey
                         /\ groups'[KeyOf[part[1]]].parts[part[2]] = part[1]
                      \/ \E t \in emitted' : part[2] \in DOMAIN t /\ t[part[2]] = part[1]
    BY <1>2 DEF NothingDropped
  <2>1. /\ part[1] \in Messages
        /\ part[2] \in Numbers
        /\ part[2] \in 1 .. Total[part[1]]
    BY <1>1, PartFact DEF ParserTypeOK
  <2>2. KeyOf[part[1]] = NoKey \/ KeyOf[part[1]] \in Keys
    BY <2>1, MessagesAssumption
  <2>3. CASE \E t \in emitted : part[2] \in DOMAIN t /\ t[part[2]] = part[1]
    BY <1>4, <2>3
  <2>4. CASE KeyOf[part[1]] \in Keys \ {k} /\ groups[KeyOf[part[1]]].parts[part[2]] = part[1]
    <3>1. groups'[KeyOf[part[1]]] = groups[KeyOf[part[1]]]
      BY <1>1, <1>2, <2>4
    <3> QED BY <2>4, <3>1, MessagesAssumption
  <2>5. CASE KeyOf[part[1]] = k /\ groups[k].parts[part[2]] = part[1]
    <3>1. part[1] # NoText
      BY <2>1, MessagesAssumption
    <3>2. groups[k].total = Total[part[1]]
      BY <2>1, <2>5, <3>1 DEF ParserInv, GroupsOK
    <3>3. /\ part[2] \in DOMAIN TextOf(groups[k])
          /\ TextOf(groups[k])[part[2]] = part[1]
      BY <1>5, <2>1, <2>5, <3>2
    <3>4. TextOf(groups[k]) \in emitted'
      BY <1>4
    <3> QED BY <3>3, <3>4
  <2> QED BY <2>2, <2>3, <2>4, <2>5 DEF ParserInv, NothingDropped
<1> QED BY <1>6, <1>7, <1>8, <1>9 DEF ParserInv

LEMMA TickInv ==
    ASSUME ParserInv, Tick
    PROVE  ParserInv'
<1>1. ParserTypeOK
  BY DEF ParserInv
<1>2. /\ timers' = [k \in Keys |-> {t - 1 : t \in timers[k]}]
      /\ UNCHANGED <<air, repeats, pdu, active, awaiting, groups, emitted, heard, mixed>>
  BY DEF Tick, network, line
<1>3. \A k \in Keys : \/ groups[k].total = 0 /\ timers'[k] = {}
                      \/ groups[k].total # 0 /\ \E t \in 0 .. Timeout : timers'[k] = {t}
  <2> SUFFICES ASSUME NEW k \in Keys
               PROVE  \/ groups[k].total = 0 /\ timers'[k] = {}
                      \/ groups[k].total # 0 /\ \E t \in 0 .. Timeout : timers'[k] = {t}
    OBVIOUS
  <2>1. CASE groups[k].total = 0 /\ timers[k] = {}
    BY <1>2, <2>1
  <2>2. ASSUME groups[k].total # 0, NEW t \in 0 .. Timeout, timers[k] = {t}
        PROVE  \E u \in 0 .. Timeout : timers'[k] = {u}
    <3>1. t # 0
      BY <2>2 DEF Tick
    <3>2. t - 1 \in 0 .. Timeout
      BY <3>1, TimeoutAssumption
    <3>3. timers'[k] = {t - 1}
      BY <1>2, <2>2
    <3> QED BY <3>2, <3>3
  <2> QED BY <2>1, <2>2 DEF ParserInv, OneTimer
<1>4. timers' \in [Keys -> SUBSET (0 .. Timeout)]
  <2>1. \A k \in Keys : timers'[k] \subseteq 0 .. Timeout
    BY <1>3
  <2> QED BY <1>2, <2>1
<1>5. age' \in [Messages -> 0 .. Timeout]
  BY <1>1, TimeoutAssumption DEF Tick, ParserTypeOK
<1>6. ParserTypeOK'
  BY <1>1, <1>2, <1>4, <1>5 DEF ParserTypeOK
<1>7. OneTimer'
  BY <1>2, <1>3 DEF OneTimer
<1>8. GroupsOK' /\ NothingDropped'
  BY <1>2 DEF ParserInv, GroupsOK, NothingDropped, NoParts
<1> QED BY <1>6, <1>7, <1>8 DEF ParserInv

LEMMA RestartInv ==
    ASSUME ParserInv, Restart
    PROVE  ParserInv'
<1>1. ParserTypeOK'
  BY NoGroupType, TimeoutAssumption DEF ParserInv, ParserTypeOK, Restart, GroupType, network
<1>2. OneTimer' /\ GroupsOK' /\ NothingDropped'
  BY NoGroupType DEF Restart, OneTimer, GroupsOK, NothingDropped, NoParts
<1> QED BY <1>1, <1>2 DEF ParserInv

LEMMA ParserNextInv == ParserInv /\ [ParserNext]_parserVars => ParserInv'
<1> SUFFICES ASSUME ParserInv, [ParserNext]_parserVars PROVE ParserInv'
  OBVIOUS
<1>0. ParserTypeOK
  BY DEF ParserInv
<1>1. ASSUME NEW part \in Part, Header(part[1], part[2]) PROVE ParserInv'
  <2>1. ParserTypeOK'
    BY <1>0, <1>1, PartFact, MessagesAssumption, TimeoutAssumption
       DEF Header, ParserTypeOK, history
  <2> QED BY <1>1, <2>1, ParserAlone DEF Header, history, ParserInv
<1>2. ASSUME NEW part \in Part, Lose(part[1], part[2]) PROVE ParserInv'
  <2>1. ParserTypeOK'
    BY <1>0, <1>2 DEF Lose, ParserTypeOK, line, parser, history
  <2> QED BY <1>2, <2>1, ParserAlone DEF Lose, parser, history, ParserInv
<1>3. ASSUME NEW p \in Ports, PduLine(p) PROVE ParserInv'
  BY <1>3, PduLineInv
<1>4. ASSUME NEW p \in Ports, PduSwallowed(p) PROVE ParserInv'
  <2>1. ParserTypeOK'
    BY <1>0, <1>4 DEF PduSwallowed, ParserTypeOK, network, parser, history
  <2> QED BY <1>4, <2>1, ParserAlone DEF PduSwallowed, parser, history, ParserInv
<1>5. ASSUME NEW p \in Ports, StrayLine(p) PROVE ParserInv'
  <2>1. ParserTypeOK'
    BY <1>0, <1>5 DEF StrayLine, ParserTypeOK, network, line, history
  <2> QED BY <1>5, <2>1, ParserAlone DEF StrayLine, history, ParserInv
<1>6. ASSUME NEW p \in Ports, Command(p) PROVE ParserInv'
  <2>1. ParserTypeOK'
    BY <1>0, <1>6 DEF Command, ParserTypeOK, network, parser, history
  <2> QED BY <1>6, <2>1, ParserAlone DEF Command, parser, history, ParserInv
<1>7. ASSUME NEW k \in Keys, Flush(k) PROVE ParserInv'
  BY <1>7, FlushInv
<1>8. CASE Tick
  BY <1>8, TickInv
<1>9. CASE Restart
  BY <1>9, RestartInv
<1>10. CASE UNCHANGED parserVars
  <2>1. ParserTypeOK'
    BY <1>0, <1>10 DEF parserVars, network, line, parser, history, ParserTypeOK
  <2> QED BY <1>10, <2>1, ParserAlone DEF parserVars, parser, history, ParserInv
<1> QED
  BY <1>1, <1>2, <1>3, <1>4, <1>5, <1>6, <1>7, <1>8, <1>9, <1>10 DEF ParserNext

\* The strengthened invariant of SmsParser.
THEOREM ParserInvariant == ParserSpec => []ParserInv
BY ParserInitInv, ParserNextInv, PTL DEF ParserSpec

\* Every variable of SmsParser keeps its type.
THEOREM ParserTypeCorrect == ParserSpec => []ParserTypeOK
<1>1. ParserInv => ParserTypeOK
  BY DEF ParserInv
<1> QED BY <1>1, ParserInvariant, PTL

\* A group has exactly one timer and no timer outlives its group
\* (sms.parser.ts:89-117).
THEOREM OneTimerAlways == ParserSpec => []OneTimer
<1>1. ParserInv => OneTimer
  BY DEF ParserInv
<1> QED BY <1>1, ParserInvariant, PTL

\* A part that was handled is pending or was emitted, unless messages with one
\* reference met (sms.parser.ts:81-138).
THEOREM NothingDroppedAlways == ParserSpec => []NothingDropped
<1>1. ParserInv => NothingDropped
  BY DEF ParserInv
<1> QED BY <1>1, ParserInvariant, PTL

----------------------------------------------------------------------------
(* A message is emitted whole.                                             *)

\* The parts of a group have been handled.
Traced ==
    \A k \in Keys : \A i \in Numbers :
        groups[k].parts[i] # NoText => <<groups[k].parts[i], i>> \in heard

\* A group that lacks no part is emitted at once.
Unfinished ==
    \A k \in Keys :
        /\ IsFiniteSet(Present(groups[k]))
        /\ groups[k].total # 0 => Cardinality(Present(groups[k])) < groups[k].total

\* The age of a message counts from its first part.
Unborn == \A m \in Messages : (\A i \in 1 .. Total[m] : <<m, i>> \notin heard) => age[m] = 0

\* A message of which something was handled, that met no other, is not old and
\* was not emitted.
Waits(m) == m \notin mixed /\ age[m] < Timeout /\ Whole(m) \notin emitted

\* Its parts lie in its group, whose timer was armed at the first of them.
Pending ==
    \A part \in heard : Waits(part[1]) =>
        /\ KeyOf[part[1]] # NoKey
        /\ groups[KeyOf[part[1]]].parts[part[2]] = part[1]
        /\ timers[KeyOf[part[1]]] = {Timeout - age[part[1]]}

TimeInv == Traced /\ Unfinished /\ Unborn /\ Pending

\* A full group of one message holds all its parts, in their places.
LEMMA FullGroup ==
    ASSUME NEW m \in Messages, NEW g \in GroupType, g.total = Total[m],
           \A j \in Present(g) : g.parts[j] = m /\ j \in 1 .. Total[m],
           Complete(g)
    PROVE  TextOf(g) = Whole(m)
<1>1. Total[m] \in Nat
  BY MessagesAssumption
<1>2. IsFiniteSet(1 .. Total[m]) /\ Cardinality(1 .. Total[m]) = Total[m]
  BY <1>1, FS_Interval
<1>3. Present(g) \subseteq 1 .. Total[m]
  OBVIOUS
<1>4. /\ Cardinality(Present(g)) <= Total[m]
      /\ Cardinality(Present(g)) = Total[m] => Present(g) = 1 .. Total[m]
      /\ IsFiniteSet(Present(g))
  BY <1>2, <1>3, FS_Subset
<1>5. Cardinality(Present(g)) = Total[m]
  BY <1>1, <1>4, FS_CardinalityType DEF Complete
<1>6. \A j \in 1 .. Total[m] : g.parts[j] = m
  BY <1>4, <1>5
<1> QED BY <1>6 DEF TextOf, Whole

\* Another part joins the group of a message.
LEMMA PartTimed ==
    ASSUME ParserInv, TimeInv, NEW m \in Messages, NEW i \in 1 .. Total[m], KeyOf[m] # NoKey,
           AddPart(m, i), Hear(m, i)
    PROVE  TimeInv'
<1> DEFINE k == KeyOf[m]
           g == [Opened(k, m) EXCEPT !.parts[i] = m]
           met == {groups[k].parts[j] : j \in Numbers} \ {m, NoText}
<1> USE MessagesAssumption, TimeoutAssumption
<1>1. k \in Keys /\ m # NoText
  OBVIOUS
<1>2. i \in Numbers
  BY NumbersFact
<1>3. /\ Opened(k, m) \in GroupType
      /\ Opened(k, m).total \in Numbers
      /\ Opened(k, m).parts = groups[k].parts
      /\ groups[k].total = 0 => Opened(k, m).total = Total[m]
      /\ groups[k].total # 0 => Opened(k, m).total = groups[k].total
  BY <1>1, OpenedFact DEF ParserInv
<1>4. /\ g \in GroupType
      /\ g.total = Opened(k, m).total
      /\ g.parts[i] = m
      /\ \A j \in Numbers \ {i} : g.parts[j] = groups[k].parts[j]
  BY <1>2, <1>3 DEF GroupType
<1>5. /\ groups \in [Keys -> GroupType]
      /\ timers \in [Keys -> SUBSET (0 .. Timeout)]
      /\ heard \subseteq Part
      /\ age \in [Messages -> 0 .. Timeout]
  BY DEF ParserInv, ParserTypeOK, GroupType
<1>6. /\ heard' = heard \cup {<<m, i>>}
      /\ mixed' = mixed \cup met \cup (IF met = {} THEN {} ELSE {m})
      /\ age' = age
  BY DEF Hear
<1>7. \/ /\ Complete(g)
         /\ groups' = [groups EXCEPT ![k] = NoGroup]
         /\ timers' = [timers EXCEPT ![k] = {}]
         /\ emitted' = emitted \cup {TextOf(g)}
      \/ /\ ~Complete(g)
         /\ groups' = [groups EXCEPT ![k] = g]
         /\ timers' = IF groups[k].total = 0 THEN [timers EXCEPT ![k] = timers[k] \cup {Timeout}] ELSE timers
         /\ emitted' = emitted
  BY DEF AddPart, ClearTimer, ArmTimer
<1>8. Traced'
  <2> SUFFICES ASSUME NEW l \in Keys, NEW j \in Numbers, groups'[l].parts[j] # NoText
               PROVE  <<groups'[l].parts[j], j>> \in heard'
    BY DEF Traced
  <2>1. CASE l # k
    BY <1>5, <1>6, <1>7, <2>1 DEF TimeInv, Traced
  <2>2. CASE l = k /\ groups' = [groups EXCEPT ![k] = NoGroup]
    BY <1>5, <2>2, NoGroupType DEF NoParts
  <2>3. CASE l = k /\ groups' = [groups EXCEPT ![k] = g]
    <3>1. groups'[l] = g
      BY <1>1, <1>5, <2>3
    <3>2. CASE j = i
      BY <1>4, <1>6, <3>1, <3>2
    <3>3. CASE j # i
      BY <1>1, <1>4, <1>6, <3>1, <3>3 DEF TimeInv, Traced
    <3> QED BY <3>2, <3>3
  <2> QED BY <1>7, <2>1, <2>2, <2>3
<1>9. Present(g) = Present(groups[k]) \cup {i}
  BY <1>1, <1>2, <1>4 DEF Present
<1>10. IsFiniteSet(Present(g)) /\ Cardinality(Present(g)) \in Nat
  <2>1. IsFiniteSet(Present(groups[k]))
    BY <1>1 DEF TimeInv, Unfinished
  <2>2. IsFiniteSet(Present(groups[k]) \cup {i})
    <3> HIDE DEF k
    <3> QED BY <2>1, FS_AddElement
  <2> QED BY <1>9, <2>2, FS_CardinalityType
<1>11. Unfinished'
  <2> SUFFICES ASSUME NEW l \in Keys
               PROVE  /\ IsFiniteSet(Present(groups'[l]))
                      /\ groups'[l].total # 0 => Cardinality(Present(groups'[l])) < groups'[l].total
    BY DEF Unfinished, Present
  <2>1. CASE l # k
    <3>1. groups'[l] = groups[l]
      BY <1>5, <1>7, <2>1
    <3> QED BY <3>1 DEF TimeInv, Unfinished
  <2>2. CASE l = k /\ groups' = [groups EXCEPT ![k] = NoGroup]
    <3>1. groups'[l] = NoGroup
      BY <1>1, <1>5, <2>2
    <3>2. Present(NoGroup) = {}
      BY NoGroupType DEF Present, NoParts
    <3> QED BY <3>1, <3>2, NoGroupType, FS_EmptySet
  <2>3. CASE l = k /\ ~Complete(g) /\ groups' = [groups EXCEPT ![k] = g]
    <3>1. groups'[l] = g
      BY <1>1, <1>5, <2>3
    <3>2. g.total \in Nat
      BY <1>3, <1>4, NumbersFact
    <3>3. ~(Cardinality(Present(g)) >= g.total)
      BY <2>3 DEF Complete
    <3>4. Cardinality(Present(g)) < g.total
      <4> HIDE DEF g
      <4> QED BY <1>10, <3>2, <3>3
    <3> QED BY <1>10, <3>1, <3>4
  <2> QED BY <1>7, <2>1, <2>2, <2>3
<1>12. Unborn'
  BY <1>6 DEF TimeInv, Unborn
<1>13. Pending'
  <2> SUFFICES ASSUME NEW part \in heard', Waits(part[1])'
               PROVE  /\ KeyOf[part[1]] # NoKey
                      /\ groups'[KeyOf[part[1]]].parts[part[2]] = part[1]
                      /\ timers'[KeyOf[part[1]]] = {Timeout - age'[part[1]]}
    BY DEF Pending
  <2>1. Waits(part[1])
    BY <1>6, <1>7 DEF Waits, Whole
  <2>2. CASE part[1] # m
    <3>1. part \in heard
      BY <1>6, <2>2
    <3>2. /\ part[1] \in Messages
          /\ part[2] \in Numbers
      BY <1>5, <3>1, PartFact
    <3>3. /\ KeyOf[part[1]] # NoKey
          /\ groups[KeyOf[part[1]]].parts[part[2]] = part[1]
          /\ timers[KeyOf[part[1]]] = {Timeout - age[part[1]]}
      BY <2>1, <3>1 DEF TimeInv, Pending
    <3>4. KeyOf[part[1]] # k
      BY <1>6, <2>2, <3>2, <3>3 DEF Waits
    <3> QED BY <1>5, <1>6, <1>7, <3>2, <3>3, <3>4
  <2>3. CASE part[1] = m
    <3>1. met = {} /\ m \notin mixed
      BY <1>6, <2>3 DEF Waits
    <3>2. \A j \in Numbers : groups[k].parts[j] \in {m, NoText}
      BY <3>1
    <3>3. \A j \in Present(g) : g.parts[j] = m /\ j \in 1 .. Total[m]
      <4> SUFFICES ASSUME NEW j \in Numbers, g.parts[j] # NoText
                   PROVE  g.parts[j] = m /\ j \in 1 .. Total[m]
        BY DEF Present
      <4>1. CASE j = i
        BY <1>4, <4>1
      <4>2. CASE j # i
        <5>1. g.parts[j] = m /\ groups[k].parts[j] = m
          BY <1>4, <3>2, <4>2
        <5>2. <<m, j>> \in heard
          BY <1>1, <5>1 DEF TimeInv, Traced
        <5>3. <<m, j>> \in Part
          BY <1>5, <5>2
        <5> QED BY <5>1, <5>3, PartFact
      <4> QED BY <4>1, <4>2
    <3>4. groups[k].total # 0 => \E j \in Numbers : groups[k].parts[j] = m
      <4> SUFFICES ASSUME groups[k].total # 0, \A j \in Numbers : groups[k].parts[j] = NoText
                   PROVE  FALSE
        BY <3>2
      <4>1. groups[k].parts = NoParts
        BY <1>1, <1>5 DEF GroupType, NoParts
      <4> QED BY <1>1, <4>1 DEF ParserInv, GroupsOK
    <3>5. g.total = Total[m]
      BY <1>1, <1>3, <1>4, <3>1, <3>4 DEF ParserInv, GroupsOK
    <3>6. ~Complete(g)
      <4> SUFFICES ASSUME Complete(g) PROVE FALSE
        OBVIOUS
      <4>1. TextOf(g) = Whole(m)
        BY <1>4, <3>3, <3>5, FullGroup
      <4>2. Whole(m) \in emitted'
        BY <1>7, <4>1
      <4> QED BY <2>3, <4>2 DEF Waits, Whole
    <3>7. /\ groups'[k] = g
          /\ timers' = IF groups[k].total = 0 THEN [timers EXCEPT ![k] = timers[k] \cup {Timeout}] ELSE timers
      BY <1>1, <1>5, <1>7, <3>6
    <3>8. \A j \in 1 .. Total[m] : <<m, j>> \in heard =>
            groups[k].parts[j] = m /\ timers[k] = {Timeout - age[m]}
      BY <2>1, <2>3 DEF TimeInv, Pending
    <3>9. part[2] \in 1 .. Total[m] /\ part = <<m, part[2]>>
      <4>1. part \in Part
        <5>1. <<m, i>> \in Part
          BY DEF Part
        <5> QED BY <1>5, <1>6, <5>1
      <4> QED BY <2>3, <4>1, PartFact
    <3>10. g.parts[part[2]] = m
      <4>1. CASE part[2] = i
        BY <1>4, <4>1
      <4>2. CASE part[2] # i
        <5>1. part \in heard
          BY <1>6, <3>9, <4>2
        <5>2. part[2] \in Numbers
          BY <3>9, NumbersFact
        <5> QED BY <1>4, <3>8, <3>9, <4>2, <5>1, <5>2
      <4> QED BY <4>1, <4>2
    <3>11. timers'[k] = {Timeout - age[m]}
      <4>1. CASE groups[k].total = 0
        <5>1. groups[k].parts = NoParts
          BY <1>1, <4>1 DEF ParserInv, GroupsOK
        <5>2. \A j \in 1 .. Total[m] : groups[k].parts[j] = NoText
          BY <5>1, NumbersFact DEF NoParts
        <5>3. \A j \in 1 .. Total[m] : <<m, j>> \notin heard
          BY <1>1, <3>8, <5>2
        <5>4. age[m] = 0
          BY <5>3 DEF TimeInv, Unborn
        <5>5. timers[k] = {}
          BY <1>1, <4>1 DEF ParserInv, OneTimer
        <5>6. timers'[k] = {Timeout}
          BY <1>1, <1>5, <3>7, <4>1, <5>5
        <5> QED BY <5>4, <5>6
      <4>2. CASE groups[k].total # 0
        <5>1. PICK j \in Numbers : groups[k].parts[j] = m
          BY <3>4, <4>2
        <5>2. <<m, j>> \in heard
          BY <1>1, <5>1 DEF TimeInv, Traced
        <5>3. j \in 1 .. Total[m]
          <6>1. <<m, j>> \in Part
            BY <1>5, <5>2
          <6> QED BY <6>1, PartFact
        <5> QED BY <3>7, <3>8, <4>2, <5>2, <5>3
      <4> QED BY <4>1, <4>2
    <3> QED BY <1>6, <2>3, <3>7, <3>10, <3>11
  <2> QED BY <2>2, <2>3
<1> QED BY <1>8, <1>11, <1>12, <1>13 DEF TimeInv

\* Other steps.
LEMMA TimeAlone ==
    ASSUME TimeInv, UNCHANGED <<groups, timers, emitted, heard, age, mixed>>
    PROVE  TimeInv'
BY DEF TimeInv, Traced, Unfinished, Unborn, Pending, Waits, Whole, Present

LEMMA InitTime == ParserInit => TimeInv
<1> SUFFICES ASSUME ParserInit PROVE TimeInv
  OBVIOUS
<1>1. Present(NoGroup) = {}
  BY NoGroupType DEF Present, NoParts
<1> QED BY <1>1, NoGroupType, FS_EmptySet
       DEF ParserInit, TimeInv, Traced, Unfinished, Unborn, Pending, NoParts

LEMMA RestartTime == Restart => TimeInv'
<1> SUFFICES ASSUME Restart PROVE TimeInv'
  OBVIOUS
<1>1. Present(NoGroup) = {}
  BY NoGroupType DEF Present, NoParts
<1>2. \A k \in Keys : groups'[k] = NoGroup
  BY DEF Restart
<1>3. Unfinished'
  BY <1>1, <1>2, NoGroupType, FS_EmptySet DEF Unfinished, Present
<1> QED BY <1>2, <1>3, NoGroupType DEF Restart, TimeInv, Traced, Unborn, Pending, NoParts

LEMMA PduLineTime ==
    ASSUME ParserInv, TimeInv, NEW p \in Ports, PduLine(p)
    PROVE  TimeInv'
<1>1. CASE p \notin awaiting
  <2>1. UNCHANGED <<groups, timers, emitted, heard, age, mixed>>
    BY <1>1 DEF PduLine, history
  <2> QED BY <2>1, TimeAlone
<1>2. CASE p \in awaiting
  <2> DEFINE m == pdu[p][1]
             i == pdu[p][2]
  <2>1. HandlePdu(m, i) /\ Hear(m, i)
    BY <1>2 DEF PduLine
  <2>2. pdu[p] \in Part
    BY DEF PduLine, ParserInv, ParserTypeOK
  <2>3. m \in Messages /\ i \in 1 .. Total[m]
    BY <2>2, PartFact
  <2>4. CASE KeyOf[m] # NoKey
    BY <2>1, <2>3, <2>4, PartTimed DEF HandlePdu
  <2>5. CASE KeyOf[m] = NoKey
    <3>1. /\ emitted' = emitted \cup {Whole(m)}
          /\ heard' = heard \cup {<<m, i>>}
          /\ UNCHANGED <<groups, timers, mixed, age>>
      BY <2>1, <2>5 DEF HandlePdu, Hear
    <3>2. Traced' /\ Unfinished' /\ Unborn'
      BY <3>1 DEF TimeInv, Traced, Unfinished, Unborn, Present
    <3>3. ASSUME NEW part \in heard', Waits(part[1])'
          PROVE  part \in heard /\ Waits(part[1])
      BY <3>1, <3>3 DEF Waits, Whole
    <3>4. Pending'
      BY <3>1, <3>3 DEF TimeInv, Pending
    <3> QED BY <3>2, <3>4 DEF TimeInv
  <2> QED BY <2>4, <2>5
<1> QED BY <1>1, <1>2

\* A timer that fires has waited for as long as the message is old.
LEMMA FlushTime ==
    ASSUME ParserInv, TimeInv, NEW k \in Keys, Flush(k)
    PROVE  TimeInv'
<1>1. /\ groups \in [Keys -> GroupType]
      /\ timers \in [Keys -> SUBSET (0 .. Timeout)]
      /\ age \in [Messages -> 0 .. Timeout]
      /\ heard \subseteq Part
  BY DEF ParserInv, ParserTypeOK, GroupType
<1>2. /\ groups' = [groups EXCEPT ![k] = NoGroup]
      /\ timers' = [timers EXCEPT ![k] = timers[k] \ {0}]
      /\ UNCHANGED <<heard, age, mixed>>
      /\ emitted \subseteq emitted'
      /\ timers[k] = {0}
  BY DEF Flush, history, ParserInv, OneTimer
<1>3. /\ groups'[k] = NoGroup
      /\ \A l \in Keys : l # k => groups'[l] = groups[l] /\ timers'[l] = timers[l]
  BY <1>1, <1>2
<1>4. Traced'
  BY <1>2, <1>3, NoGroupType DEF TimeInv, Traced, NoParts
<1>5. Unfinished'
  <2>1. Present(NoGroup) = {}
    BY NoGroupType DEF Present, NoParts
  <2>2. \A l \in Keys : Present(groups'[l]) = Present(groups[l]) \/ groups'[l] = NoGroup
    BY <1>3
  <2>3. ASSUME NEW l \in Keys
        PROVE  /\ IsFiniteSet(Present(groups'[l]))
               /\ groups'[l].total # 0 => Cardinality(Present(groups'[l])) < groups'[l].total
    <3>1. CASE l = k
      BY <1>3, <2>1, <3>1, NoGroupType, FS_EmptySet
    <3>2. CASE l # k
      BY <1>3, <3>2 DEF TimeInv, Unfinished
    <3> QED BY <3>1, <3>2
  <2> QED BY <2>3 DEF Unfinished, Present
<1>6. Unborn'
  BY <1>2 DEF TimeInv, Unborn
<1>7. Pending'
  <2> SUFFICES ASSUME NEW part \in heard, Waits(part[1])'
               PROVE  /\ KeyOf[part[1]] # NoKey
                      /\ groups'[KeyOf[part[1]]].parts[part[2]] = part[1]
                      /\ timers'[KeyOf[part[1]]] = {Timeout - age[part[1]]}
    BY <1>2 DEF Pending
  <2>1. Waits(part[1])
    BY <1>2 DEF Waits, Whole
  <2>2. part[1] \in Messages
    BY <1>1, PartFact
  <2>3. /\ KeyOf[part[1]] # NoKey
        /\ groups[KeyOf[part[1]]].parts[part[2]] = part[1]
        /\ timers[KeyOf[part[1]]] = {Timeout - age[part[1]]}
    BY <2>1 DEF TimeInv, Pending
  <2>4. KeyOf[part[1]] \in Keys /\ KeyOf[part[1]] # k
    <3>1. Timeout - age[part[1]] # 0
      BY <1>1, <2>1, <2>2, TimeoutAssumption DEF Waits
    <3> QED BY <1>2, <2>2, <2>3, <3>1, MessagesAssumption
  <2> QED BY <1>3, <2>3, <2>4
<1> QED BY <1>4, <1>5, <1>6, <1>7 DEF TimeInv

\* A message grows older as its timer runs down.
LEMMA TickTime ==
    ASSUME ParserInv, TimeInv, Tick
    PROVE  TimeInv'
<1>1. /\ age \in [Messages -> 0 .. Timeout]
      /\ heard \subseteq Part
  BY DEF ParserInv, ParserTypeOK
<1>2. /\ timers' = [k \in Keys |-> {t - 1 : t \in timers[k]}]
      /\ UNCHANGED <<groups, emitted, heard, mixed>>
      /\ \A m \in Messages : age'[m] =
           IF (\E i \in 1 .. Total[m] : <<m, i>> \in heard) /\ KeyOf[m] # NoKey /\ age[m] < Timeout
           THEN age[m] + 1 ELSE age[m]
  BY DEF Tick
<1>3. Traced' /\ Unfinished'
  BY <1>2 DEF TimeInv, Traced, Unfinished, Present
<1>4. Unborn'
  BY <1>2 DEF TimeInv, Unborn
<1>5. Pending'
  <2> SUFFICES ASSUME NEW part \in heard, Waits(part[1])'
               PROVE  /\ KeyOf[part[1]] # NoKey
                      /\ groups[KeyOf[part[1]]].parts[part[2]] = part[1]
                      /\ timers'[KeyOf[part[1]]] = {Timeout - age'[part[1]]}
    BY <1>2 DEF Pending
  <2>1. /\ part[1] \in Messages
        /\ part = <<part[1], part[2]>>
        /\ part[2] \in 1 .. Total[part[1]]
    BY <1>1, PartFact
  <2>2. age[part[1]] \in 0 .. Timeout /\ age'[part[1]] < Timeout
    BY <1>1, <2>1 DEF Waits
  <2>3. age[part[1]] < Timeout
    BY <1>2, <2>1, <2>2, TimeoutAssumption
  <2>4. Waits(part[1])
    BY <1>2, <2>3 DEF Waits, Whole
  <2>5. /\ KeyOf[part[1]] # NoKey
        /\ groups[KeyOf[part[1]]].parts[part[2]] = part[1]
        /\ timers[KeyOf[part[1]]] = {Timeout - age[part[1]]}
    BY <2>4 DEF TimeInv, Pending
  <2>6. age'[part[1]] = age[part[1]] + 1
    BY <1>2, <2>1, <2>3, <2>5
  <2>7. KeyOf[part[1]] \in Keys
    BY <2>1, <2>5, MessagesAssumption
  <2>8. timers'[KeyOf[part[1]]] = {(Timeout - age[part[1]]) - 1}
    BY <1>2, <2>5, <2>7
  <2> QED BY <2>2, <2>5, <2>6, <2>8, TimeoutAssumption
<1> QED BY <1>3, <1>4, <1>5 DEF TimeInv

LEMMA NextTime == ParserInv /\ TimeInv /\ [ParserNext]_parserVars => TimeInv'
<1> SUFFICES ASSUME ParserInv, TimeInv, [ParserNext]_parserVars PROVE TimeInv'
  OBVIOUS
<1>1. ASSUME NEW part \in Part, Header(part[1], part[2]) \/ Lose(part[1], part[2]) PROVE TimeInv'
  BY <1>1, TimeAlone DEF Header, Lose, parser, history
<1>2. ASSUME NEW p \in Ports, PduSwallowed(p) \/ StrayLine(p) \/ Command(p) PROVE TimeInv'
  BY <1>2, TimeAlone DEF PduSwallowed, StrayLine, Command, parser, history
<1>3. CASE UNCHANGED parserVars
  BY <1>3, TimeAlone DEF parserVars, parser, history
<1> QED
  BY <1>1, <1>2, <1>3, PduLineTime, FlushTime, TickTime, RestartTime DEF ParserNext

\* What is in time lies in its group, or was emitted whole.
LEMMA TimeWhole == ParserInv /\ TimeInv => WholeInTime
<1> SUFFICES ASSUME ParserInv, TimeInv, NEW m \in Messages,
                    \A i \in 1 .. Total[m] : <<m, i>> \in heard,
                    Waits(m)
             PROVE  FALSE
  BY DEF WholeInTime, Waits
<1> DEFINE k == KeyOf[m]
<1>1. Total[m] \in Nat \ {0} /\ 1 .. Total[m] \subseteq Numbers
  BY MessagesAssumption, NumbersFact
<1>2. \A i \in 1 .. Total[m] : k # NoKey /\ groups[k].parts[i] = m
  BY DEF TimeInv, Pending
<1>3. 1 \in 1 .. Total[m]
  BY <1>1
<1>4. k \in Keys /\ m # NoText
  BY <1>2, <1>3, MessagesAssumption
<1>5. groups[k].total = Total[m]
  BY <1>1, <1>2, <1>3, <1>4 DEF ParserInv, GroupsOK, Waits
<1>6. /\ IsFiniteSet(Present(groups[k]))
      /\ Cardinality(Present(groups[k])) < Total[m]
  BY <1>1, <1>4, <1>5 DEF TimeInv, Unfinished
<1>7. 1 .. Total[m] \subseteq Present(groups[k])
  BY <1>1, <1>2, <1>4 DEF Present
<1>8. Cardinality(1 .. Total[m]) = Total[m]
  BY <1>1, FS_Interval
<1>9. Cardinality(1 .. Total[m]) <= Cardinality(Present(groups[k]))
  BY <1>6, <1>7, FS_Subset
<1>10. Cardinality(Present(groups[k])) \in Nat
  BY <1>6, FS_CardinalityType
<1> QED BY <1>1, <1>6, <1>8, <1>9, <1>10

\* A message whose parts are handled within 15 seconds is emitted whole, in
\* any order and however often they are repeated, unless another message met it
\* in its group (sms.parser.ts:81-138).
THEOREM WholeInTimeAlways == ParserSpec => []WholeInTime
<1>1. ParserInit => ParserInv /\ TimeInv
  BY ParserInitInv, InitTime
<1>2. ParserInv /\ TimeInv /\ [ParserNext]_parserVars => (ParserInv /\ TimeInv)'
  BY ParserNextInv, NextTime
<1>3. ParserInv /\ TimeInv => WholeInTime
  BY TimeWhole
<1> QED BY <1>1, <1>2, <1>3, PTL DEF ParserSpec

=============================================================================
