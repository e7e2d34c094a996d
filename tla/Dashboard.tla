----------------------------- MODULE Dashboard -----------------------------
(***************************************************************************)
(* The modem table, drawer and dialogs of one browser page                 *)
(* (src/src/dashboard/public/dashboard.js) and what feeds them: the events *)
(* of DashboardGateway, which keep their order but are lost while the      *)
(* socket is down, and the answers to HTTP requests, which overtake events *)
(* and each other.                                                         *)
(*                                                                         *)
(* The state of a port is a revision; 0 is a port that the server does not *)
(* list, or a row that the page does not have.                             *)
(***************************************************************************)
EXTENDS Naturals, Sequences, FiniteSets

CONSTANTS
    Ports,
    Loads,        \* GET /api/modems requests that may overlap
    Dialogs,      \* saves behind a dialog: "phone", "enabled"
    Buttons,      \* saves behind a button of the drawer: "label", "reconnect"
    NoPort,       \* null
    MaxRevision,  \* bound: states that the ports go through
    MaxEvents,    \* bound: events under way at a time
    MaxRequests   \* bound: requests of the page under way at a time

ASSUME NoPortAssumption == NoPort \notin Ports
ASSUME BoundsAssumption ==
    MaxRevision \in Nat \ {0} /\ MaxEvents \in Nat \ {0} /\ MaxRequests \in Nat \ {0}

Kinds == Dialogs \cup Buttons

VARIABLES
    server,     \* ModemManager.getAllStates()
    revision,   \* the newest revision
    connected,  \* socket.connected
    events,     \* modem.status and modem.removed on their way to the page
    modems,     \* modems
    load,       \* each GET /api/modems
    save,       \* each PATCH or POST, enabledSaveInFlight, phoneSaveInFlight
    pending,    \* pendingEnabledSave, pendingPhoneSave
    drawer,     \* activeDrawerPort
    shown,      \* what renderDrawerDetail has put into the open drawer
    loaded,     \* initialModemsLoaded
    unsure      \* ports of which the page was not told what they now are: the last
                \* event about each was lost, was not of its present state, or
                \* came before an answer of another state

serverVars == <<server, revision, connected>>
pageVars   == <<modems, pending, drawer, shown, loaded>>
vars == <<server, revision, connected, events, modems, load, save, pending,
          drawer, shown, loaded, unsure>>

Revisions == 0 .. MaxRevision
Phases    == {"idle", "asked", "running", "answered"}
Idle      == [phase |-> "idle", rows |-> [p \in Ports |-> 0]]
NoSave    == [phase |-> "idle", port |-> NoPort, row |-> 0]

TypeOK ==
    /\ server \in [Ports -> Revisions]
    /\ revision \in Revisions
    /\ connected \in BOOLEAN
    /\ events \in Seq([port : Ports, row : Revisions])
    /\ modems \in [Ports -> Revisions]
    /\ load \in [Loads -> [phase : Phases, rows : [Ports -> Revisions]]]
    /\ save \in [Kinds -> [phase : Phases, port : Ports \cup {NoPort}, row : Revisions]]
    /\ pending \in [Dialogs -> Ports \cup {NoPort}]
    /\ drawer \in Ports \cup {NoPort}
    /\ shown \in Revisions
    /\ loaded \in BOOLEAN
    /\ unsure \subseteq Ports

----------------------------------------------------------------------------
(* The server.                                                             *)

\* server.emit reaches the page only while its socket is connected.  The page
\* then knows the port if the event is of what the port now is.
Emit(p, row) ==
    /\ connected => Len(events) < MaxEvents
    /\ events' = IF connected THEN Append(events, [port |-> p, row |-> row]) ELSE events
    /\ unsure' = IF connected /\ server'[p] = row THEN unsure \ {p} ELSE unsure \cup {p}

\* What getAllStates says of p changes, and no event has told so yet: an
\* instance assigns to its state, a port is disabled, an instance is added to
\* the Map.  knownSystemPorts is replaced without an event at all: a disabled
\* port that was plugged in is listed from then on, an unplugged one without
\* an instance is not.
Change(p) ==
    /\ revision < MaxRevision
    /\ revision' = revision + 1
    /\ server' = [server EXCEPT ![p] = revision + 1]
    /\ unsure' = unsure \cup {p}
    /\ UNCHANGED <<connected, events, load, save, pageVars>>

\* ... or the port is not listed any more.
Unlist(p) ==
    /\ server[p] # 0
    /\ server' = [server EXCEPT ![p] = 0]
    /\ unsure' = unsure \cup {p}
    /\ UNCHANGED <<revision, connected, events, load, save, pageVars>>

\* modem.status of what the port now is, or modem.removed of one that is gone.
\* This event and the next two change nothing while no page is connected.
Report(p) ==
    /\ connected /\ p \in unsure
    /\ UNCHANGED <<serverVars, load, save, pageVars>>
    /\ Emit(p, server[p])

\* modem.status from an instance that was stopped while its connect() was under
\* way, of a port that is gone, disabled or has another instance by now.
Straggle(p) ==
    /\ connected
    /\ revision < MaxRevision
    /\ revision' = revision + 1
    /\ UNCHANGED <<server, connected, load, save, pageVars>>
    /\ Emit(p, revision + 1)

\* modem.removed, in manual mode, of a port whose instance was stopped because it
\* was disabled: modems.yaml names it, hence it is listed still.
RemovedListed(p) ==
    /\ connected
    /\ server[p] # 0
    /\ UNCHANGED <<serverVars, load, save, pageVars>>
    /\ Emit(p, 0)

AnswerLoad(l) ==
    /\ load[l].phase = "asked"
    /\ load' = [load EXCEPT ![l] = [phase |-> "answered", rows |-> server]]
    /\ UNCHANGED <<serverVars, events, save, pageVars, unsure>>

RefuseLoad(l) ==
    /\ load[l].phase = "asked"
    /\ load' = [load EXCEPT ![l] = Idle]
    /\ UNCHANGED <<serverVars, events, save, pageVars, unsure>>

\* PATCH /api/modems/:port/phone, label or enabled: the new state is emitted and
\* returned.  A port that is gone gets an entry in modems.yaml, an event and an
\* answer; in manual mode, or when it was started, it is listed from then on.
\* An instance that is stopping, since its port was disabled, emits its own state
\* while that of the disabled port is returned.
AnswerPatch(k) ==
    /\ save[k].phase = "asked" /\ k # "reconnect"
    /\ revision < MaxRevision
    /\ revision' = revision + 1
    /\ LET p == save[k].port IN
       /\ server' \in {server, [server EXCEPT ![p] = revision + 1]}
       /\ Emit(p, revision + 1)
       /\ save' = [save EXCEPT ![k].phase = "answered",
                               ![k].row = IF server'[p] = 0 THEN revision + 1 ELSE server'[p]]
    /\ UNCHANGED <<connected, load, pageVars>>

\* POST /api/modems/:port/reconnect: an instance is looked up, ...
BeginReconnect(k) ==
    /\ save[k].phase = "asked" /\ k = "reconnect"
    /\ server[save[k].port] # 0
    /\ save' = [save EXCEPT ![k].phase = "running"]
    /\ UNCHANGED <<serverVars, events, load, pageVars, unsure>>

\* ... and once its connect() is over, what the port is by now is returned,
\* without an event; a port that is gone by now is said to be offline.
AnswerReconnect(k) ==
    /\ save[k].phase = "running"
    /\ LET p == save[k].port IN
       \/ /\ server[p] # 0
          /\ save' = [save EXCEPT ![k].phase = "answered", ![k].row = server[p]]
          /\ UNCHANGED <<revision, unsure>>
       \/ /\ server[p] = 0
          /\ revision < MaxRevision
          /\ revision' = revision + 1
          /\ save' = [save EXCEPT ![k].phase = "answered", ![k].row = revision + 1]
          /\ unsure' = unsure \cup {p}
    /\ UNCHANGED <<server, connected, events, load, pageVars>>

\* The server refuses, or the request is lost: a toast, and the dialog stays
\* open for another try.
RefuseSave(k) ==
    /\ save[k].phase \in {"asked", "running"}
    /\ save' = [save EXCEPT ![k] = NoSave]
    /\ UNCHANGED <<serverVars, events, load, pageVars, unsure>>

----------------------------------------------------------------------------
(* The socket.                                                             *)

Connect ==
    /\ ~connected
    /\ connected' = TRUE
    /\ UNCHANGED <<server, revision, events, load, save, pageVars, unsure>>

Disconnect ==
    /\ connected
    /\ connected' = FALSE
    /\ events' = <<>>
    /\ unsure' = unsure \cup {events[i].port : i \in 1 .. Len(events)}
    /\ UNCHANGED <<server, revision, load, save, pageVars>>

\* Mutant: renderModems leaves the open drawer as it is.
Rendered_Table(rows, open) == shown

\* The drawer's detail after renderModems with these rows and this drawer.
Rendered(rows, open) ==
    IF open = NoPort THEN 0 ELSE IF rows[open] # 0 THEN rows[open] ELSE shown

\* An answer under way that holds another state of the event's port, so that the
\* page takes it for newer than the event.
Overtakes(e) ==
    \/ \E l \in Loads : load[l].phase = "answered" /\ load[l].rows[e.port] # e.row
    \/ \E k \in Kinds : /\ save[k].phase = "answered"
                        /\ save[k].port = e.port
                        /\ save[k].row # e.row

\* Mutant: a removed port only closes the drawer.
Received_Kept(e) == IF e.row = 0 THEN modems ELSE [modems EXCEPT ![e.port] = e.row]

\* modems.set or modems.delete
Received(e) == [modems EXCEPT ![e.port] = e.row]

\* modem.status, modem.removed
Receive ==
    /\ events # <<>>
    /\ LET e == Head(events) IN
       /\ modems' = Received(e)
       /\ drawer' = IF e.row = 0 /\ drawer = e.port THEN NoPort ELSE drawer
       /\ unsure' = IF Overtakes(e) THEN unsure \cup {e.port} ELSE unsure
    /\ shown' = Rendered(modems', drawer')
    /\ events' = Tail(events)
    /\ UNCHANGED <<serverVars, load, save, pending, loaded>>

----------------------------------------------------------------------------
(* Requests.                                                               *)

\* Bound: the page may send one more request.
MayRequest ==
    Cardinality({l \in Loads : load[l].phase # "idle"})
      + Cardinality({k \in Kinds : save[k].phase # "idle"}) < MaxRequests

\* Requests have no names: the next one is any that is idle.
Ask(l) ==
    /\ load[l].phase = "idle"
    /\ l = CHOOSE i \in Loads : load[i].phase = "idle"
    /\ MayRequest
    /\ load' = [load EXCEPT ![l].phase = "asked"]
    /\ UNCHANGED <<serverVars, events, save, pageVars, unsure>>

\* The page polls every five seconds while the socket is down ...
Poll(l) == ~connected /\ Ask(l)

\* ... and reloads the table when a SIM was changed.
SimChanged(l) == connected /\ Ask(l)

\* Mutant: modems.clear() is forgotten.
Loaded_Merged(l) ==
    [p \in Ports |-> IF load[l].rows[p] = 0 THEN modems[p] ELSE load[l].rows[p]]

Loaded(l) == load[l].rows

\* loadModems resumes.
LoadReturns(l) ==
    /\ load[l].phase = "answered"
    /\ modems' = Loaded(l)
    /\ shown' = Rendered(modems', drawer)
    /\ loaded' = TRUE
    /\ load' = [load EXCEPT ![l] = Idle]
    /\ UNCHANGED <<serverVars, events, save, pending, drawer, unsure>>

\* The dialog or the button that started a save sees its answer: the row is
\* set, and whatever dialog of this kind is open by now is closed.
SaveReturns(k) ==
    /\ save[k].phase = "answered"
    /\ modems' = [modems EXCEPT ![save[k].port] = save[k].row]
    /\ shown' = Rendered(modems', drawer)
    /\ pending' = IF k \in Dialogs THEN [pending EXCEPT ![k] = NoPort] ELSE pending
    /\ save' = [save EXCEPT ![k] = NoSave]
    /\ UNCHANGED <<serverVars, events, load, drawer, loaded, unsure>>

----------------------------------------------------------------------------
(* The user.                                                               *)

OpenDrawer(p) ==
    /\ modems[p] # 0
    /\ drawer' = p
    /\ shown' = modems[p]
    /\ UNCHANGED <<serverVars, events, load, save, modems, pending, loaded, unsure>>

CloseDrawer ==
    /\ drawer # NoPort
    /\ drawer' = NoPort
    /\ shown' = 0
    /\ UNCHANGED <<serverVars, events, load, save, modems, pending, loaded, unsure>>

\* The toggle of the drawer, or a number typed there or in the list of ports
\* without one.
OpenDialog(k, p) ==
    /\ pending[k] = NoPort
    /\ \/ p = drawer /\ (k = "enabled" => modems[p] # 0)
       \/ k = "phone" /\ modems[p] # 0
    /\ pending' = [pending EXCEPT ![k] = p]
    /\ UNCHANGED <<serverVars, events, load, save, modems, drawer, shown, loaded, unsure>>

\* Closing the dialog of the toggle shows the port in the drawer once more.
Cancel(k) ==
    /\ pending[k] # NoPort
    /\ pending' = [pending EXCEPT ![k] = NoPort]
    /\ shown' = IF k = "enabled" /\ pending[k] = drawer /\ modems[drawer] # 0
                THEN modems[drawer] ELSE shown
    /\ UNCHANGED <<serverVars, events, load, save, modems, drawer, loaded, unsure>>

Request(k, p) ==
    /\ save[k].phase = "idle"
    /\ MayRequest
    /\ save' = [save EXCEPT ![k].phase = "asked", ![k].port = p]
    /\ UNCHANGED <<serverVars, events, load, pageVars, unsure>>

Confirm(k) == pending[k] # NoPort /\ Request(k, pending[k])

Press(k) == drawer # NoPort /\ Request(k, drawer)

----------------------------------------------------------------------------
\* The page has just asked for the list of ports for the first time, and its
\* socket is connected; some ports are listed.
Init ==
    /\ revision = 1
    /\ server \in [Ports -> {0, 1}]
    /\ connected = TRUE
    /\ events = <<>>
    /\ modems = [p \in Ports |-> 0]
    /\ LET first == CHOOSE l \in Loads : TRUE IN
       load = [l \in Loads |-> IF l = first THEN [Idle EXCEPT !.phase = "asked"] ELSE Idle]
    /\ save = [k \in Kinds |-> NoSave]
    /\ pending = [k \in Dialogs |-> NoPort]
    /\ drawer = NoPort
    /\ shown = 0
    /\ loaded = FALSE
    /\ unsure = {}

Next ==
    \/ \E p \in Ports : \/ Change(p) \/ Unlist(p) \/ Report(p) \/ Straggle(p) \/ RemovedListed(p)
                       \/ OpenDrawer(p)
    \/ \E l \in Loads : AnswerLoad(l) \/ RefuseLoad(l) \/ Poll(l) \/ SimChanged(l) \/ LoadReturns(l)
    \/ \E k \in Kinds : \/ AnswerPatch(k) \/ BeginReconnect(k) \/ AnswerReconnect(k) \/ RefuseSave(k)
                       \/ SaveReturns(k)
    \/ \E k \in Dialogs : Cancel(k) \/ Confirm(k) \/ (\E p \in Ports : OpenDialog(k, p))
    \/ \E k \in Buttons : Press(k)
    \/ Connect
    \/ Disconnect
    \/ Receive
    \/ CloseDrawer

Spec == Init /\ [][Next]_vars

\* The poll timer fires, handlers run on, a request is answered or fails, and a
\* server that is asked again and again answers some time.  Nothing is assumed
\* of the socket or of the user, whose requests disable a poll now and then
\* only because of MaxRequests.
Fairness ==
    /\ SF_vars(\E l \in Loads : Poll(l))
    /\ SF_vars(\E l \in Loads : AnswerLoad(l))
    /\ WF_vars(\E l \in Loads : LoadReturns(l))
    /\ WF_vars(\E k \in Kinds : AnswerPatch(k) \/ AnswerReconnect(k) \/ RefuseSave(k))
    /\ WF_vars(\E k \in Kinds : SaveReturns(k))

FairSpec == Spec /\ Fairness

----------------------------------------------------------------------------
(* Safety.                                                                 *)

\* The state of p that the page has when it has handled every event under way.
Coming(p) ==
    LET own == {i \in 1 .. Len(events) : events[i].port = p} IN
    IF own = {} THEN modems[p]
    ELSE events[CHOOSE i \in own : \A j \in own : j <= i].row

\* A port of which the page was told what it now is has that row in the end, or
\* none if it is gone, by whichever of events, reloads and answers to saves the
\* page heard of it before and after.  This is about the page: a port is exempt
\* while the last event about it was lost with the socket, overtook an answer of
\* another state, or was not of what the port now is (no event yet, a disabled
\* port listed by discovery, an instance that goes on after stop(), an answer
\* for a port that is gone).
RowsFollow == loaded => \A p \in Ports \ unsure : Coming(p) = server[p]

\* The drawer never shows an older state of its port than the table does,
\* whatever changed the row and whichever dialog was open meanwhile.
DrawerAgrees == drawer # NoPort /\ modems[drawer] # 0 => shown = modems[drawer]

----------------------------------------------------------------------------
(* Liveness.                                                               *)

\* Polling makes good for a socket that stays down: rows that changed or went
\* unseen, and rows that late answers brought back, end as the server has them.
PollingConverges == <>[](~connected) => <>[](modems = server)
=============================================================================
