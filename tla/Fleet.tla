------------------------------- MODULE Fleet -------------------------------
(***************************************************************************)
(* ModemManager (src/src/modem/modem.manager.ts) with the configuration it *)
(* shares with the API (src/src/config/modem-config.service.ts): the       *)
(* discovery task, serialised by a RunQueue, and the PATCH requests that   *)
(* enable and disable ports, interleaved at their awaits, while devices    *)
(* are plugged and unplugged and the process restarts.  An instance is     *)
(* what LinkMonitor says of it: live until stop() is called.               *)
(***************************************************************************)
EXTENDS FiniteSets, Naturals

CONSTANTS
    Ports,        \* COM ports of the host
    InRange,      \* those inside portRange
    Clients,      \* PATCH requests that may be under way at once
    MaxRestarts,  \* bound: restarts of the process in a behaviour
    NoPort

ASSUME InRangeAssumption == InRange \subseteq Ports
ASSUME NoPortAssumption == NoPort \notin Ports
ASSUME MaxRestartsAssumption == MaxRestarts \in Nat

VARIABLES
    autoDiscover,  \* config.autoDiscover, fixed in a behaviour
    entries,       \* config.entries: ports with an entry in the yaml file
    disabled,      \* the entries with enabled: false
    plugged,       \* what SerialPort.list() would return
    instances,     \* the instances Map: none, a live or a stopped instance
    orphaned,      \* ports with a live instance that the Map no longer holds
    known,         \* knownSystemPorts
    ticking,       \* discoveryTimer armed, and HTTP listening
    disc,          \* the discovery task
    client,        \* the PATCH requests
    restarts,      \* number of restarts so far
    running, queued, pendingTask, current   \* discoveryQueue

Queue == INSTANCE RunQueue WITH Tasks <- {"discover"}, NoTask <- "none"

config == <<autoDiscover, entries, disabled>>
queueVars == <<running, queued, pendingTask, current>>
vars == <<config, plugged, instances, orphaned, known, ticking, disc, client,
          restarts, queueVars>>

InstanceStates == {"none", "live", "stopped"}
DiscPCs == {"idle", "listing", "scan", "starting", "sweep", "stopping"}
ClientPCs == {"idle", "stopping", "listing"}

TypeOK ==
    /\ autoDiscover \in BOOLEAN
    /\ entries \subseteq Ports
    /\ disabled \subseteq entries
    /\ plugged \subseteq Ports
    /\ instances \in [Ports -> InstanceStates]
    /\ orphaned \subseteq Ports
    /\ known \subseteq Ports
    /\ ticking \in BOOLEAN
    /\ disc \in [pc : DiscPCs, wanted : SUBSET Ports, left : SUBSET Ports,
                 todo : SUBSET Ports, port : Ports \cup {NoPort}]
    /\ client \in [Clients -> [pc : ClientPCs, port : Ports \cup {NoPort}]]
    /\ restarts \in 0 .. MaxRestarts

----------------------------------------------------------------------------
\* isPortEnabled
Enabled(p) == p \notin disabled

\* getEntries: an empty list stands for portRange, in manual mode only.
Entries == IF ~autoDiscover /\ entries = {} THEN InRange ELSE entries

\* getActiveEntries
ActiveEntries == {p \in Entries : Enabled(p)}

\* The synchronous parts of the discovery task let nobody else run.
Yielding == disc.pc \notin {"scan", "sweep"}

NoDiscovery == [pc |-> "idle", wanted |-> {}, left |-> {}, todo |-> {}, port |-> NoPort]

\* The task up to its first await: SerialPort.list(), or the first instance
\* of a manual configuration.
FirstStep(isAuto, active) ==
    IF isAuto THEN [NoDiscovery EXCEPT !.pc = "listing"]
              ELSE [NoDiscovery EXCEPT !.pc = "scan", !.wanted = active, !.todo = active]

\* Mutant: the flag is not looked at again after the await before the call.
StartInstance_Unchecked(p) ==
    instances' = IF instances[p] = "none" THEN [instances EXCEPT ![p] = "live"] ELSE instances

\* startInstance up to its await of start().
StartInstance(p) ==
    instances' = IF instances[p] = "none" /\ Enabled(p)
                 THEN [instances EXCEPT ![p] = "live"]
                 ELSE instances

\* ensureEntry
EnsureEntry(p) == entries' = entries \cup {p}

\* Mutant: the flag is written for a port that got no entry.
UpdateEnabled_NoEntry(p, enabled) ==
    /\ UNCHANGED entries
    /\ disabled' = IF enabled THEN disabled \ {p} ELSE disabled \cup {p}

\* updateEntryEnabled, which creates a missing entry as well.
UpdateEnabled(p, enabled) ==
    /\ EnsureEntry(p)
    /\ disabled' = IF enabled THEN disabled \ {p} ELSE disabled \cup {p}

\* stop() of the instance that the Map holds now.
StopInstance(p) == instances' = [instances EXCEPT ![p] = "stopped"]

\* Mutant: the awaited stop is not followed by a delete.
DeleteInstance_Kept(p) == UNCHANGED <<instances, orphaned>>

\* instances.delete(port), whatever instance the Map holds by now.
DeleteInstance(p) ==
    /\ instances' = [instances EXCEPT ![p] = "none"]
    /\ orphaned' = IF instances[p] = "live" THEN orphaned \cup {p} ELSE orphaned

----------------------------------------------------------------------------
(* The discovery task.                                                     *)

\* A tick of discoveryTimer: discoveryQueue.schedule.
Tick ==
    /\ Yielding
    /\ ticking
    /\ \/ /\ Queue!Begin("discover")
          /\ disc' = FirstStep(autoDiscover, ActiveEntries)
       \/ Queue!Enqueue("discover") /\ UNCHANGED disc
    /\ UNCHANGED <<config, plugged, instances, orphaned, known, ticking, client, restarts>>

\* SerialPort.list() resolves in autoDiscoverPorts.
Listed ==
    /\ disc.pc = "listing"
    /\ LET systemPorts == plugged \cap InRange IN
       /\ known' = systemPorts
       /\ disc' = [disc EXCEPT !.pc = "scan", !.wanted = systemPorts,
                               !.left = known \ systemPorts, !.todo = systemPorts]
    /\ UNCHANGED <<config, plugged, instances, orphaned, ticking, client, restarts, queueVars>>

\* One turn of the loop that starts missing instances; it awaits start() and
\* the stagger delay only for a port it found without an instance.
ScanPort(p) ==
    /\ disc.pc = "scan"
    /\ p \in disc.todo
    /\ LET starts == instances[p] = "none" /\ (autoDiscover => Enabled(p)) IN
       /\ disc' = [disc EXCEPT !.todo = @ \ {p}, !.pc = IF starts THEN "starting" ELSE "scan"]
       /\ IF starts /\ autoDiscover THEN EnsureEntry(p) ELSE UNCHANGED entries
       /\ StartInstance(p)
    /\ UNCHANGED <<autoDiscover, disabled, plugged, orphaned, known, ticking, client,
                   restarts, queueVars>>

\* start() and the stagger delay are over.
StartReturns ==
    /\ disc.pc = "starting"
    /\ disc' = [disc EXCEPT !.pc = "scan"]
    /\ UNCHANGED <<config, plugged, instances, orphaned, known, ticking, client, restarts,
                   queueVars>>

\* Every wanted port has been looked at: on to those that must go.
ScanEnds ==
    /\ disc.pc = "scan"
    /\ disc.todo = {}
    /\ disc' = [disc EXCEPT !.pc = "sweep", !.todo = disc.left]
    /\ UNCHANGED <<config, plugged, instances, orphaned, known, ticking, client, restarts,
                   queueVars>>

\* The ports that the sweep still has to visit: those that left the system, or
\* (the Map being iterated live) every instance without an active entry.
ToSweep ==
    IF autoDiscover THEN disc.todo
    ELSE {p \in Ports : instances[p] # "none" /\ p \notin disc.wanted}

SweepPort(p) ==
    /\ disc.pc = "sweep"
    /\ p \in ToSweep
    /\ \/ /\ instances[p] # "none"
          /\ StopInstance(p)
          /\ disc' = [disc EXCEPT !.pc = "stopping", !.port = p, !.todo = @ \ {p}]
       \/ /\ instances[p] = "none"
          /\ disc' = [disc EXCEPT !.todo = @ \ {p}]
          /\ UNCHANGED instances
    /\ UNCHANGED <<config, plugged, orphaned, known, ticking, client, restarts, queueVars>>

SweepStopReturns ==
    /\ disc.pc = "stopping"
    /\ DeleteInstance(disc.port)
    /\ disc' = [disc EXCEPT !.pc = "sweep", !.port = NoPort]
    /\ UNCHANGED <<config, plugged, known, ticking, client, restarts, queueVars>>

\* The task resolves; the first one lets onModuleInit go on to the interval
\* and the application to listen.
RunEnds ==
    /\ disc.pc = "sweep"
    /\ ToSweep = {}
    /\ \/ Queue!Again /\ disc' = FirstStep(autoDiscover, ActiveEntries)
       \/ Queue!Finish /\ disc' = NoDiscovery
    /\ ticking' = (ticking \/ ~queued)
    /\ UNCHANGED <<config, plugged, instances, orphaned, known, client, restarts>>

----------------------------------------------------------------------------
(* PATCH /api/modems/:port/enabled, .../phone and .../label.               *)

IdleClient == [pc |-> "idle", port |-> NoPort]

\* updatePortEnabled(p, false)
Disable(c, p) ==
    /\ Yielding
    /\ ticking
    /\ client[c].pc = "idle"
    /\ UpdateEnabled(p, FALSE)
    /\ \/ /\ instances[p] # "none"
          /\ StopInstance(p)
          /\ client' = [client EXCEPT ![c] = [pc |-> "stopping", port |-> p]]
       \/ /\ instances[p] = "none"
          /\ UNCHANGED <<instances, client>>
    /\ UNCHANGED <<autoDiscover, plugged, orphaned, known, ticking, disc, restarts, queueVars>>

DisableReturns(c) ==
    /\ Yielding
    /\ client[c].pc = "stopping"
    /\ DeleteInstance(client[c].port)
    /\ client' = [client EXCEPT ![c] = IdleClient]
    /\ UNCHANGED <<config, plugged, known, ticking, disc, restarts, queueVars>>

\* updatePortEnabled(p, true)
Enable(c, p) ==
    /\ Yielding
    /\ ticking
    /\ client[c].pc = "idle"
    /\ UpdateEnabled(p, TRUE)
    /\ client' = IF instances[p] = "none"
                 THEN [client EXCEPT ![c] = [pc |-> "listing", port |-> p]]
                 ELSE client
    /\ UNCHANGED <<autoDiscover, plugged, instances, orphaned, known, ticking, disc, restarts,
                   queueVars>>

\* SerialPort.list() resolves in updatePortEnabled, which does not look at the
\* port range.
EnableListed(c) ==
    /\ Yielding
    /\ client[c].pc = "listing"
    /\ IF client[c].port \in plugged THEN StartInstance(client[c].port)
                                    ELSE UNCHANGED instances
    /\ client' = [client EXCEPT ![c] = IdleClient]
    /\ UNCHANGED <<config, plugged, orphaned, known, ticking, disc, restarts, queueVars>>

\* updatePortPhone and updatePortLabel: the entry is created if missing.
EditEntry(p) ==
    /\ Yielding
    /\ ticking
    /\ EnsureEntry(p)
    /\ UNCHANGED <<autoDiscover, disabled, plugged, instances, orphaned, known, ticking, disc,
                   client, restarts, queueVars>>

----------------------------------------------------------------------------
(* The host.                                                               *)

Plug(p) ==
    /\ Yielding
    /\ p \notin plugged
    /\ plugged' = plugged \cup {p}
    /\ UNCHANGED <<config, instances, orphaned, known, ticking, disc, client, restarts, queueVars>>

Unplug(p) ==
    /\ Yielding
    /\ p \in plugged
    /\ plugged' = plugged \ {p}
    /\ UNCHANGED <<config, instances, orphaned, known, ticking, disc, client, restarts, queueVars>>

\* The process ends (a shutdown runs onModuleDestroy, a rejected discovery is
\* an unhandled rejection) and is started again: only the yaml file survives.
Restart ==
    /\ Yielding
    /\ restarts < MaxRestarts
    /\ restarts' = restarts + 1
    /\ instances' = [p \in Ports |-> "none"]
    /\ orphaned' = {}
    /\ known' = {}
    /\ ticking' = FALSE
    /\ client' = [c \in Clients |-> IdleClient]
    /\ running' = TRUE /\ queued' = FALSE /\ pendingTask' = "none" /\ current' = "discover"
    /\ disc' = FirstStep(autoDiscover, ActiveEntries)
    /\ UNCHANGED <<config, plugged>>

----------------------------------------------------------------------------
\* The process starts with whatever the yaml file says and the host has.
Init ==
    /\ autoDiscover \in BOOLEAN
    /\ entries \in SUBSET Ports
    /\ disabled \in SUBSET entries
    /\ plugged \in SUBSET Ports
    /\ instances = [p \in Ports |-> "none"]
    /\ orphaned = {}
    /\ known = {}
    /\ ticking = FALSE
    /\ client = [c \in Clients |-> IdleClient]
    /\ restarts = 0
    /\ running = TRUE /\ queued = FALSE /\ pendingTask = "none" /\ current = "discover"
    /\ disc = FirstStep(autoDiscover, ActiveEntries)

Next ==
    \/ Tick
    \/ Listed
    \/ \E p \in Ports : ScanPort(p) \/ SweepPort(p)
    \/ StartReturns
    \/ ScanEnds
    \/ SweepStopReturns
    \/ RunEnds
    \/ \E c \in Clients : DisableReturns(c) \/ EnableListed(c)
    \/ \E c \in Clients, p \in Ports : Disable(c, p) \/ Enable(c, p)
    \/ \E p \in Ports : EditEntry(p)
    \/ \E p \in Ports : Plug(p) \/ Unplug(p)
    \/ Restart

Spec == Init /\ [][Next]_vars

\* Timers fire, SerialPort.list(), start() and stop() resolve.  A request whose
\* await is over waits for the synchronous parts of the discovery, so it is
\* disabled now and then: the event loop being fair, it still gets its turn.
Fairness ==
    /\ WF_vars(Tick)
    /\ WF_vars(Listed)
    /\ \A p \in Ports : WF_vars(ScanPort(p)) /\ WF_vars(SweepPort(p))
    /\ WF_vars(StartReturns)
    /\ WF_vars(ScanEnds)
    /\ WF_vars(SweepStopReturns)
    /\ WF_vars(RunEnds)
    /\ \A c \in Clients : SF_vars(DisableReturns(c)) /\ SF_vars(EnableListed(c))

FairSpec == Spec /\ Fairness

----------------------------------------------------------------------------
(* Properties.                                                             *)

\* Somebody who called stop() on a port's instance is about to delete it.
Deleting(p) ==
    \/ disc.pc = "stopping" /\ disc.port = p
    \/ \E c \in Clients : client[c] = [pc |-> "stopping", port |-> p]

\* The Map never keeps a stopped instance that nobody will remove: it would
\* block the port for ever, since discovery and PATCH start no instance for a
\* port that has one.
NoDeadEntry == \A p \in Ports : instances[p] = "stopped" => Deleting(p)

\* A disabled port has no entry in the Map, except one that the call that disabled
\* it is about to delete: whatever enables and disables race with the discovery's
\* stale snapshot, startInstance looks at the flag again.  It is not said that a
\* disabled port is not monitored: a live instance that a late delete has taken out
\* of the Map (orphaned) goes on, and no later request finds it to stop it.
DisabledHasNoEntry ==
    \A p \in Ports : ~Enabled(p) /\ instances[p] # "none" => Deleting(p)

\* The port should have a monitor.
Wanted(p) ==
    Enabled(p) /\ (IF autoDiscover THEN p \in plugged \cap InRange ELSE p \in ActiveEntries)

\* Once no request is under way for good, a port that stays enabled and present
\* gets its monitor back, and one that stays disabled leaves the Map, whatever the
\* manager was doing meanwhile.  (A client that toggled ports for ever could
\* keep the sweep, which iterates the live Map, from ever ending.)  Of a port that
\* stays enabled and absent nothing is said: one that was unplugged before any scan
\* saw it keeps its entry (ToSweep).
MapFollowsConfig ==
    <>[](\A c \in Clients : client[c].pc = "idle") => \A p \in Ports :
        /\ <>[]Wanted(p) => <>[](instances[p] = "live")
        /\ <>[]~Enabled(p) => <>[](instances[p] = "none")

=============================================================================
