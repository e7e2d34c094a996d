---------------------------- MODULE FleetProofs ----------------------------
(* Proofs about Fleet, for every set of ports and of clients and any number *)
(* of restarts.                                                             *)
EXTENDS Fleet, TLAPS

\* What every reachable state satisfies.  A stopped entry and a disabled one
\* are each excused by a call that is about to delete it; a tick that starts a
\* discovery must not overwrite one that is about to delete, hence
\* IdleWhenFree, and a deletion is of a port, hence Targets.
IdleWhenFree == ~running => disc.pc = "idle"

Targets ==
    /\ disc.pc = "stopping" => disc.port \in Ports
    /\ \A c \in Clients : client[c].pc # "idle" => client[c].port \in Ports

FleetInv == TypeOK /\ NoDeadEntry /\ DisabledHasNoEntry /\ IdleWhenFree /\ Targets

\* The record types that TypeOK builds.
DiscStates == [pc : DiscPCs, wanted : SUBSET Ports, left : SUBSET Ports,
               todo : SUBSET Ports, port : Ports \cup {NoPort}]
ClientStates == [pc : ClientPCs, port : Ports \cup {NoPort}]

----------------------------------------------------------------------------
\* The first step of a discovery starts from a well-typed record.
LEMMA FirstStepType ==
    ASSUME NEW isAuto \in BOOLEAN, NEW active \in SUBSET Ports
    PROVE  /\ FirstStep(isAuto, active) \in DiscStates
           /\ FirstStep(isAuto, active).pc \in {"listing", "scan"}
BY DEF FirstStep, NoDiscovery, DiscStates, DiscPCs

\* Active entries are ports.
LEMMA ActivePorts ==
    ASSUME TypeOK
    PROVE  ActiveEntries \in SUBSET Ports
BY InRangeAssumption DEF TypeOK, ActiveEntries, Entries, Enabled

LEMMA InitFleetInv == Init => FleetInv
<1> SUFFICES ASSUME Init PROVE FleetInv
  OBVIOUS
<1>1. ActiveEntries \in SUBSET Ports
  BY InRangeAssumption DEF Init, ActiveEntries, Entries, Enabled
<1>2. disc \in DiscStates
  BY <1>1, FirstStepType DEF Init
<1>3. TypeOK
  <2>1. /\ instances \in [Ports -> InstanceStates]
        /\ client \in [Clients -> ClientStates]
        /\ restarts \in 0 .. MaxRestarts
    BY MaxRestartsAssumption
    DEF Init, InstanceStates, IdleClient, ClientStates, ClientPCs
  <2> QED
    BY <1>2, <2>1 DEF Init, TypeOK, DiscStates, ClientStates
<1>4. Targets
  BY <1>1, FirstStepType DEF Init, Targets, IdleClient
<1> QED
  BY <1>3, <1>4 DEF FleetInv, NoDeadEntry, DisabledHasNoEntry, IdleWhenFree, Init

----------------------------------------------------------------------------
(* The helpers that several actions share.                                 *)

\* An instance that is started belongs to an enabled port; nothing else moves.
LEMMA StartKeeps ==
    ASSUME TypeOK, NEW q \in Ports, StartInstance(q)
    PROVE  /\ instances' \in [Ports -> InstanceStates]
           /\ \A p \in Ports : instances'[p] # instances[p]
                 => instances'[p] = "live" /\ Enabled(p)
BY DEF TypeOK, StartInstance, InstanceStates, Enabled

LEMMA StopKeeps ==
    ASSUME TypeOK, NEW q \in Ports, StopInstance(q)
    PROVE  /\ instances' \in [Ports -> InstanceStates]
           /\ \A p \in Ports : p # q => instances'[p] = instances[p]
BY DEF TypeOK, StopInstance, InstanceStates

LEMMA DeleteKeeps ==
    ASSUME TypeOK, NEW q \in Ports, DeleteInstance(q)
    PROVE  /\ instances' \in [Ports -> InstanceStates]
           /\ orphaned' \subseteq Ports
           /\ instances'[q] = "none"
           /\ \A p \in Ports : p # q => instances'[p] = instances[p]
BY DEF TypeOK, DeleteInstance, InstanceStates

LEMMA UpdateKeeps ==
    ASSUME TypeOK, NEW q \in Ports, NEW e \in BOOLEAN, UpdateEnabled(q, e)
    PROVE  /\ entries' \subseteq Ports
           /\ disabled' \subseteq entries'
           /\ \A p \in Ports : p # q \/ e => (Enabled(p) => Enabled(p)')
BY DEF TypeOK, UpdateEnabled, EnsureEntry, Enabled

----------------------------------------------------------------------------
(* The two properties, for any step.                                       *)

\* A step preserves them if it ends a deletion only by deleting, stops an
\* instance only in a call that will delete it, and lets no other disabled
\* port have an instance that had none.
LEMMA ExcuseStep ==
    ASSUME NoDeadEntry, DisabledHasNoEntry,
           \A p \in Ports : Deleting(p) => Deleting(p)' \/ instances'[p] = "none",
           \A p \in Ports : instances'[p] = "stopped" =>
                            instances[p] = "stopped" \/ Deleting(p)',
           \A p \in Ports : ~Enabled(p)' /\ instances'[p] # "none" =>
                            (~Enabled(p) /\ instances[p] # "none") \/ Deleting(p)'
    PROVE  NoDeadEntry' /\ DisabledHasNoEntry'
BY DEF NoDeadEntry, DisabledHasNoEntry

----------------------------------------------------------------------------
(* The discovery task.                                                     *)

\* The steps that touch neither the Map nor the requests.
LEMMA QuietDiscoveryInv ==
    ASSUME FleetInv,
           Tick \/ Listed \/ StartReturns \/ ScanEnds \/ RunEnds
    PROVE  FleetInv'
<1> USE DEF FleetInv
<1>1. disc \in DiscStates /\ ActiveEntries \in SUBSET Ports /\ autoDiscover \in BOOLEAN
  BY ActivePorts DEF TypeOK, DiscStates
<1>2. disc' \in DiscStates
  <2>1. CASE Tick
    BY <1>1, <2>1, FirstStepType DEF Tick
  <2>2. CASE Listed
    BY <1>1, <2>2, InRangeAssumption DEF Listed, TypeOK, DiscStates, DiscPCs
  <2>3. CASE StartReturns
    BY <1>1, <2>3 DEF StartReturns, DiscStates, DiscPCs
  <2>4. CASE ScanEnds
    BY <1>1, <2>4 DEF ScanEnds, DiscStates, DiscPCs
  <2>5. CASE RunEnds
    <3>1. NoDiscovery \in DiscStates
      BY DEF NoDiscovery, DiscStates, DiscPCs
    <3> QED
      BY <1>1, <2>5, <3>1, FirstStepType DEF RunEnds
  <2> QED
    BY <2>1, <2>2, <2>3, <2>4, <2>5
<1>3. UNCHANGED <<config, instances, client>>
  BY DEF Tick, Listed, StartReturns, ScanEnds, RunEnds
<1>4. TypeOK'
  <2>1. known' \subseteq Ports /\ ticking' \in BOOLEAN
    <3>1. CASE Listed
      BY <3>1, InRangeAssumption DEF TypeOK, Listed
    <3>2. CASE RunEnds
      BY <3>2 DEF TypeOK, RunEnds
    <3>3. CASE Tick \/ StartReturns \/ ScanEnds
      BY <3>3 DEF TypeOK, Tick, StartReturns, ScanEnds
    <3> QED
      BY <3>1, <3>2, <3>3
  <2>2. UNCHANGED <<plugged, orphaned, restarts>>
    BY DEF Tick, Listed, StartReturns, ScanEnds, RunEnds
  <2> QED
    BY <1>2, <1>3, <2>1, <2>2 DEF TypeOK, config, DiscStates
<1>5. disc.pc = "stopping" => disc' = disc
  <2>1. CASE Tick
    BY <2>1 DEF Tick, IdleWhenFree, Queue!Begin
  <2> QED
    BY <2>1 DEF Listed, StartReturns, ScanEnds, RunEnds
<1>6. \A p \in Ports : Deleting(p) => Deleting(p)'
  BY <1>3, <1>5 DEF Deleting
<1>7. IdleWhenFree'
  <2>1. CASE Tick
    BY <2>1 DEF Tick, IdleWhenFree, Queue!Begin, Queue!Enqueue
  <2>2. CASE RunEnds
    BY <2>2 DEF RunEnds, IdleWhenFree, Queue!Again, Queue!Finish, NoDiscovery
  <2>3. CASE Listed \/ StartReturns \/ ScanEnds
    BY <1>1, <2>3 DEF Listed, StartReturns, ScanEnds, IdleWhenFree, queueVars, DiscStates
  <2> QED
    BY <2>1, <2>2, <2>3
<1>8. Targets'
  <2>1. CASE Tick
    BY <1>1, <1>3, <2>1, FirstStepType DEF Tick, Targets
  <2>2. CASE RunEnds
    BY <1>1, <1>3, <2>2, FirstStepType DEF RunEnds, Targets, NoDiscovery
  <2>3. CASE Listed \/ StartReturns \/ ScanEnds
    BY <1>1, <1>3, <2>3 DEF Listed, StartReturns, ScanEnds, Targets, DiscStates
  <2> QED
    BY <2>1, <2>2, <2>3
<1> QED
  BY <1>3, <1>4, <1>6, <1>7, <1>8, ExcuseStep DEF config, Enabled

\* The steps of the loops that start and stop instances.
LEMMA LoopInv ==
    ASSUME FleetInv, NEW q \in Ports,
           ScanPort(q) \/ SweepPort(q) \/ SweepStopReturns
    PROVE  FleetInv'
<1> USE DEF FleetInv
<1>1. disc \in DiscStates
  BY DEF TypeOK, DiscStates
<1>2. CASE ScanPort(q)
  <2>1. /\ instances' \in [Ports -> InstanceStates]
        /\ \A p \in Ports : instances'[p] # instances[p]
              => instances'[p] = "live" /\ Enabled(p)
    BY <1>2, StartKeeps DEF ScanPort
  <2>2. disc' \in DiscStates
    BY <1>1, <1>2 DEF ScanPort, DiscStates, DiscPCs
  <2>3. entries' \subseteq Ports /\ disabled' \subseteq entries'
    BY <1>2 DEF ScanPort, EnsureEntry, TypeOK
  <2>4. TypeOK'
    BY <1>2, <2>1, <2>2, <2>3 DEF ScanPort, TypeOK, DiscStates
  <2>5. \A p \in Ports : (Deleting(p) => Deleting(p)') /\ (Enabled(p)' <=> Enabled(p))
    BY <1>2 DEF ScanPort, Deleting, Enabled
  <2>6. IdleWhenFree' /\ Targets'
    BY <1>1, <1>2 DEF ScanPort, IdleWhenFree, Targets, queueVars, DiscStates
  <2> QED
    BY <2>1, <2>4, <2>5, <2>6, ExcuseStep DEF TypeOK
<1>3. CASE SweepPort(q)
  <2>1. disc' \in DiscStates
    BY <1>1, <1>3 DEF SweepPort, DiscStates, DiscPCs
  <2>2. /\ instances' \in [Ports -> InstanceStates]
        /\ \A p \in Ports : p # q => instances'[p] = instances[p]
    BY <1>3, StopKeeps DEF SweepPort, TypeOK
  <2>3. TypeOK'
    BY <1>3, <2>1, <2>2 DEF SweepPort, TypeOK, DiscStates, config
  <2>4. \A p \in Ports : (Deleting(p) => Deleting(p)') /\ (Enabled(p)' <=> Enabled(p))
    BY <1>3 DEF SweepPort, Deleting, Enabled, config
  <2>5. instances'[q] # instances[q] => Deleting(q)' /\ instances[q] # "none"
    BY <1>1, <1>3 DEF SweepPort, Deleting, DiscStates
  <2>6. IdleWhenFree' /\ Targets'
    BY <1>1, <1>3 DEF SweepPort, IdleWhenFree, Targets, queueVars, DiscStates
  <2> QED
    BY <2>2, <2>3, <2>4, <2>5, <2>6, ExcuseStep
<1>4. CASE SweepStopReturns
  <2> DEFINE d == disc.port
  <2>1. d \in Ports
    BY <1>4 DEF SweepStopReturns, Targets
  <2>2. /\ instances' \in [Ports -> InstanceStates]
        /\ orphaned' \subseteq Ports
        /\ instances'[d] = "none"
        /\ \A p \in Ports : p # d => instances'[p] = instances[p]
    BY <1>4, <2>1, DeleteKeeps DEF SweepStopReturns
  <2>3. disc' \in DiscStates
    BY <1>1, <1>4 DEF SweepStopReturns, DiscStates, DiscPCs
  <2>4. TypeOK'
    BY <1>4, <2>2, <2>3 DEF SweepStopReturns, TypeOK, DiscStates, config
  <2>5. \A p \in Ports : /\ Deleting(p) => Deleting(p)' \/ p = d
                         /\ Enabled(p)' <=> Enabled(p)
    BY <1>4 DEF SweepStopReturns, Deleting, Enabled, config
  <2>6. IdleWhenFree' /\ Targets'
    BY <1>1, <1>4 DEF SweepStopReturns, IdleWhenFree, Targets, queueVars, DiscStates
  <2>7. \A p \in Ports : Deleting(p) => Deleting(p)' \/ instances'[p] = "none"
    BY <2>2, <2>5
  <2>8. \A p \in Ports : instances'[p] # "none" => instances'[p] = instances[p]
    BY <2>2
  <2> QED
    BY <2>2, <2>4, <2>5, <2>6, <2>7, <2>8, ExcuseStep
<1> QED
  BY <1>2, <1>3, <1>4

----------------------------------------------------------------------------
(* The requests.                                                           *)

\* A request leaves the discovery alone.
LEMMA RequestInv ==
    ASSUME FleetInv, NEW c \in Clients, NEW q \in Ports,
           Disable(c, q) \/ Enable(c, q) \/ DisableReturns(c) \/ EnableListed(c)
    PROVE  FleetInv'
<1> USE DEF FleetInv
<1>1. client \in [Clients -> ClientStates]
  BY DEF TypeOK, ClientStates
<1>2. UNCHANGED <<autoDiscover, plugged, known, ticking, disc, restarts, queueVars>>
  BY DEF Disable, Enable, DisableReturns, EnableListed, config
<1>3. IdleWhenFree'
  BY <1>2 DEF IdleWhenFree, queueVars
<1>4. client' \in [Clients -> ClientStates] /\ Targets'
  <2>1. CASE Disable(c, q)
    BY <1>1, <1>2, <2>1 DEF Disable, Targets, ClientStates, ClientPCs
  <2>2. CASE Enable(c, q)
    BY <1>1, <1>2, <2>2 DEF Enable, Targets, ClientStates, ClientPCs
  <2>3. CASE DisableReturns(c) \/ EnableListed(c)
    BY <1>1, <1>2, <2>3
    DEF DisableReturns, EnableListed, Targets, ClientStates, ClientPCs, IdleClient
  <2> QED
    BY <2>1, <2>2, <2>3
<1>5. CASE Disable(c, q)
  <2>1. /\ entries' \subseteq Ports
        /\ disabled' \subseteq entries'
        /\ \A p \in Ports : p # q => (Enabled(p) => Enabled(p)')
    BY <1>5, UpdateKeeps DEF Disable
  <2>2. /\ instances' \in [Ports -> InstanceStates]
        /\ \A p \in Ports : p # q => instances'[p] = instances[p]
    BY <1>5, StopKeeps DEF Disable, TypeOK
  <2>3. TypeOK'
    BY <1>2, <1>4, <1>5, <2>1, <2>2 DEF Disable, TypeOK, ClientStates, config
  <2>4. \A p \in Ports : Deleting(p) => Deleting(p)'
    BY <1>1, <1>2, <1>5 DEF Disable, Deleting
  <2>5. instances'[q] # "none" => Deleting(q)'
    BY <1>1, <1>5 DEF Disable, Deleting
  <2> QED
    BY <1>3, <1>4, <2>1, <2>2, <2>3, <2>4, <2>5, ExcuseStep
<1>6. CASE Enable(c, q)
  <2>1. /\ entries' \subseteq Ports
        /\ disabled' \subseteq entries'
        /\ \A p \in Ports : Enabled(p) => Enabled(p)'
    BY <1>6, UpdateKeeps DEF Enable
  <2>2. TypeOK'
    BY <1>2, <1>4, <1>6, <2>1 DEF Enable, TypeOK, ClientStates
  <2>3. \A p \in Ports : Deleting(p) => Deleting(p)'
    BY <1>1, <1>2, <1>6 DEF Enable, Deleting
  <2> QED
    BY <1>3, <1>4, <1>6, <2>1, <2>2, <2>3, ExcuseStep DEF Enable
<1>7. CASE DisableReturns(c)
  <2> DEFINE d == client[c].port
  <2>1. d \in Ports
    BY <1>7 DEF DisableReturns, Targets
  <2>2. /\ instances' \in [Ports -> InstanceStates]
        /\ orphaned' \subseteq Ports
        /\ instances'[d] = "none"
        /\ \A p \in Ports : p # d => instances'[p] = instances[p]
    BY <1>7, <2>1, DeleteKeeps DEF DisableReturns
  <2>3. TypeOK'
    BY <1>2, <1>4, <1>7, <2>2 DEF DisableReturns, TypeOK, ClientStates, config
  <2>4. \A p \in Ports : /\ Deleting(p) => Deleting(p)' \/ p = d
                         /\ Enabled(p)' <=> Enabled(p)
    BY <1>1, <1>2, <1>7 DEF DisableReturns, Deleting, Enabled, config
  <2>5. \A p \in Ports : Deleting(p) => Deleting(p)' \/ instances'[p] = "none"
    BY <2>2, <2>4
  <2>6. \A p \in Ports : instances'[p] # "none" => instances'[p] = instances[p]
    BY <2>2
  <2> QED
    BY <1>3, <1>4, <2>2, <2>3, <2>4, <2>5, <2>6, ExcuseStep
<1>8. CASE EnableListed(c)
  <2>1. client[c].port \in Ports
    BY <1>8 DEF EnableListed, Targets
  <2>2. /\ instances' \in [Ports -> InstanceStates]
        /\ \A p \in Ports : instances'[p] # instances[p]
              => instances'[p] = "live" /\ Enabled(p)
    BY <1>8, <2>1, StartKeeps DEF EnableListed, TypeOK
  <2>3. TypeOK'
    BY <1>2, <1>4, <1>8, <2>2 DEF EnableListed, TypeOK, ClientStates, config
  <2>4. \A p \in Ports : (Deleting(p) => Deleting(p)') /\ (Enabled(p)' <=> Enabled(p))
    BY <1>1, <1>2, <1>8 DEF EnableListed, Deleting, Enabled, config
  <2> QED
    BY <1>3, <1>4, <2>2, <2>3, <2>4, ExcuseStep
<1> QED
  BY <1>5, <1>6, <1>7, <1>8

LEMMA EditInv ==
    ASSUME FleetInv, NEW q \in Ports, EditEntry(q)
    PROVE  FleetInv'
<1> USE DEF FleetInv
<1>1. UNCHANGED <<disabled, instances, disc, client, running>>
  BY DEF EditEntry, queueVars
<1>2. TypeOK'
  BY DEF EditEntry, EnsureEntry, TypeOK
<1>3. \A p \in Ports : (Deleting(p) => Deleting(p)') /\ (Enabled(p)' <=> Enabled(p))
  BY <1>1 DEF Deleting, Enabled
<1>4. IdleWhenFree' /\ Targets'
  BY <1>1 DEF IdleWhenFree, Targets
<1> QED
  BY <1>1, <1>2, <1>3, <1>4, ExcuseStep

----------------------------------------------------------------------------
(* The host.                                                               *)

LEMMA HostInv ==
    ASSUME FleetInv, NEW q \in Ports, Plug(q) \/ Unplug(q)
    PROVE  FleetInv'
<1>1. UNCHANGED <<config, instances, orphaned, known, ticking, disc, client, restarts, queueVars>>
  BY DEF Plug, Unplug
<1>2. plugged' \subseteq Ports
  BY DEF FleetInv, Plug, Unplug, TypeOK
<1> QED
  BY <1>1, <1>2
  DEF FleetInv, TypeOK, NoDeadEntry, DisabledHasNoEntry, IdleWhenFree, Targets, Deleting,
      Enabled, config, queueVars

LEMMA RestartInv ==
    ASSUME FleetInv, Restart
    PROVE  FleetInv'
<1> USE DEF FleetInv
<1>1. ActiveEntries \in SUBSET Ports
  BY ActivePorts
<1>2. disc' \in DiscStates /\ disc'.pc \in {"listing", "scan"}
  BY <1>1, FirstStepType DEF Restart, TypeOK
<1>3. TypeOK'
  <2>1. /\ instances' \in [Ports -> InstanceStates]
        /\ client' \in [Clients -> ClientStates]
        /\ restarts' \in 0 .. MaxRestarts
    BY MaxRestartsAssumption
    DEF Restart, TypeOK, InstanceStates, IdleClient, ClientStates, ClientPCs
  <2> QED
    BY <1>2, <2>1 DEF Restart, TypeOK, DiscStates, ClientStates, config
<1> QED
  BY <1>2, <1>3
  DEF Restart, NoDeadEntry, DisabledHasNoEntry, IdleWhenFree, Targets, IdleClient

----------------------------------------------------------------------------
LEMMA NextFleetInv == FleetInv /\ [Next]_vars => FleetInv'
<1> SUFFICES ASSUME FleetInv, [Next]_vars PROVE FleetInv'
  OBVIOUS
<1>1. CASE Tick \/ Listed \/ StartReturns \/ ScanEnds \/ RunEnds
  BY <1>1, QuietDiscoveryInv
<1>2. CASE \E p \in Ports : ScanPort(p) \/ SweepPort(p)
  BY <1>2, LoopInv
<1>3. CASE SweepStopReturns
  <2>1. disc.port \in Ports
    BY <1>3 DEF SweepStopReturns, FleetInv, Targets
  <2> QED
    BY <1>3, <2>1, LoopInv
<1>4. CASE \E c \in Clients : DisableReturns(c) \/ EnableListed(c)
  <2>1. PICK c \in Clients : DisableReturns(c) \/ EnableListed(c)
    BY <1>4
  <2>2. client[c].port \in Ports
    BY <2>1 DEF DisableReturns, EnableListed, FleetInv, Targets
  <2> QED
    BY <2>1, <2>2, RequestInv
<1>5. CASE \E c \in Clients, p \in Ports : Disable(c, p) \/ Enable(c, p)
  BY <1>5, RequestInv
<1>6. CASE \E p \in Ports : EditEntry(p)
  BY <1>6, EditInv
<1>7. CASE \E p \in Ports : Plug(p) \/ Unplug(p)
  BY <1>7, HostInv
<1>8. CASE Restart
  BY <1>8, RestartInv
<1>9. CASE UNCHANGED vars
  BY <1>9
  DEF vars, FleetInv, TypeOK, NoDeadEntry, DisabledHasNoEntry, IdleWhenFree, Targets,
      Deleting, Enabled, config, queueVars
<1> QED
  BY <1>1, <1>2, <1>3, <1>4, <1>5, <1>6, <1>7, <1>8, <1>9 DEF Next

\* Every reachable state satisfies the invariant.
THEOREM FleetInvariant == Spec => []FleetInv
BY InitFleetInv, NextFleetInv, PTL DEF Spec

\* Type correctness of the fleet's manager (modem.manager.ts).
THEOREM FleetTypeCorrect == Spec => []TypeOK
BY FleetInvariant, PTL DEF FleetInv

\* discoverAndSync and updatePortEnabled never leave a stopped instance behind
\* in the Map, however many of them overlap.
THEOREM NoDeadEntries == Spec => []NoDeadEntry
BY FleetInvariant, PTL DEF FleetInv

\* A disabled port has no entry in the Map beyond the call that disabled it,
\* however many requests race with discovery.  (Nothing is said of live instances
\* that are not in the Map any more.)
THEOREM DisabledEntries == Spec => []DisabledHasNoEntry
BY FleetInvariant, PTL DEF FleetInv

=============================================================================
