-------------------------- MODULE DashboardProofs --------------------------
(* Proofs about Dashboard, for any number of ports, overlapping requests    *)
(* and states of the ports.                                                 *)
EXTENDS Dashboard, SequenceTheorems, TLAPS

Event == [port : Ports, row : Revisions]

\* Where the events about p are.
Own(p) == {i \in 1 .. Len(events) : events[i].port = p}

\* The last event about p says what the server has; when there is none, the
\* table and every answer under way do.
Follows(p) ==
    \/ \E i \in Own(p) : (\A j \in Own(p) : j <= i) /\ events[i].row = server[p]
    \/ /\ Own(p) = {}
       /\ loaded => modems[p] = server[p]
       /\ \A l \in Loads : load[l].phase = "answered" => load[l].rows[p] = server[p]
       /\ \A k \in Kinds :
             save[k].phase = "answered" /\ save[k].port = p => save[k].row = server[p]

\* A request to save is about a port.
SavesPort == \A k \in Kinds : save[k].phase # "idle" => save[k].port \in Ports

Typed == TypeOK /\ SavesPort

TableInv == Typed /\ \A p \in Ports \ unsure : Follows(p)

----------------------------------------------------------------------------
(* Types.                                                                  *)

\* emit keeps the type of the events.
LEMMA EmitType ==
    ASSUME TypeOK, NEW p \in Ports, NEW row \in Revisions, Emit(p, row)
    PROVE  events' \in Seq(Event) /\ unsure' \subseteq Ports
<1>1. events \in Seq(Event) /\ [port |-> p, row |-> row] \in Event
  BY DEF TypeOK, Event
<1> QED BY <1>1 DEF Emit, TypeOK

\* What comes after the current revision.
LEMMA NextRevision ==
    ASSUME TypeOK, revision < MaxRevision
    PROVE  revision + 1 \in Revisions
BY BoundsAssumption DEF TypeOK, Revisions

LEMMA TypedInit == ASSUME Init PROVE Typed
<1>1. 0 \in Revisions /\ 1 \in Revisions
  BY BoundsAssumption DEF Revisions
<1>2. <<>> \in Seq([port : Ports, row : Revisions])
  OBVIOUS
<1>3. load \in [Loads -> [phase : Phases, rows : [Ports -> Revisions]]]
  BY <1>1 DEF Init, Idle, Phases
<1>4. save \in [Kinds -> [phase : Phases, port : Ports \cup {NoPort}, row : Revisions]]
  BY <1>1 DEF Init, NoSave, Phases
<1>5. /\ server \in [Ports -> Revisions] /\ modems \in [Ports -> Revisions]
      /\ pending \in [Dialogs -> Ports \cup {NoPort}]
  BY <1>1 DEF Init
<1>6. SavesPort
  BY DEF Init, SavesPort, NoSave
<1> QED BY <1>1, <1>2, <1>3, <1>4, <1>5, <1>6 DEF Init, Typed, TypeOK

\* Requests and answers of a load keep the types.
LEMMA TypedLoad ==
    ASSUME Typed, NEW l \in Loads,
           \/ AnswerLoad(l) \/ RefuseLoad(l) \/ Ask(l) \/ LoadReturns(l)
    PROVE  Typed'
<1> USE DEF serverVars, pageVars, Typed
<1>0. 0 \in Revisions
  BY BoundsAssumption DEF Revisions
<1>1. SavesPort'
  BY DEF AnswerLoad, RefuseLoad, Ask, LoadReturns, SavesPort
<1>2. CASE AnswerLoad(l)
  BY <1>1, <1>2 DEF AnswerLoad, TypeOK, Phases
<1>3. CASE RefuseLoad(l)
  <2>1. Idle \in [phase : Phases, rows : [Ports -> Revisions]]
    BY <1>0 DEF Idle, Phases
  <2> QED BY <1>1, <1>3, <2>1 DEF RefuseLoad, TypeOK
<1>4. CASE Ask(l)
  BY <1>1, <1>4 DEF Ask, TypeOK, Phases
<1>5. CASE LoadReturns(l)
  <2>1. Idle \in [phase : Phases, rows : [Ports -> Revisions]]
    BY <1>0 DEF Idle, Phases
  <2>2. modems' \in [Ports -> Revisions]
    BY <1>5 DEF LoadReturns, Loaded, TypeOK
  <2>3. shown' \in Revisions
    BY <1>0, <1>5, <2>2 DEF LoadReturns, Rendered, TypeOK
  <2> QED BY <1>1, <1>5, <2>1, <2>2, <2>3 DEF LoadReturns, TypeOK
<1> QED BY <1>2, <1>3, <1>4, <1>5

\* A request to save ends.
LEMMA SavesEnd ==
    ASSUME Typed, NEW k \in Kinds, save' = [save EXCEPT ![k] = NoSave]
    PROVE  /\ save' \in [Kinds -> [phase : Phases, port : Ports \cup {NoPort}, row : Revisions]]
           /\ SavesPort'
<1>1. NoSave \in [phase : Phases, port : Ports \cup {NoPort}, row : Revisions]
  BY BoundsAssumption DEF Revisions, NoSave, Phases
<1>2. save' \in [Kinds -> [phase : Phases, port : Ports \cup {NoPort}, row : Revisions]]
  BY <1>1 DEF Typed, TypeOK
<1>3. NoSave.phase = "idle"
  BY DEF NoSave
<1>4. SavesPort'
  BY <1>3 DEF SavesPort, Typed, TypeOK
<1> QED BY <1>2, <1>4

\* A request to save is answered.
LEMMA SavesAnswered ==
    ASSUME Typed, NEW k \in Kinds, save[k].port \in Ports, NEW row \in Revisions,
           save' = [save EXCEPT ![k] = [save[k] EXCEPT !.phase = "answered", !.row = row]]
    PROVE  /\ save' \in [Kinds -> [phase : Phases, port : Ports \cup {NoPort}, row : Revisions]]
           /\ SavesPort'
<1> DEFINE Saves == [phase : Phases, port : Ports \cup {NoPort}, row : Revisions]
<1>1. save \in [Kinds -> Saves] /\ "answered" \in Phases
  BY DEF Typed, TypeOK, Phases
<1>2. [save[k] EXCEPT !.phase = "answered", !.row = row] \in Saves
  BY <1>1
<1>3. save' \in [Kinds -> Saves]
  BY <1>1, <1>2
<1>4. SavesPort'
  BY <1>1 DEF SavesPort, Typed
<1> QED BY <1>3, <1>4

\* Requests and answers of a save keep the types.
LEMMA TypedSave ==
    ASSUME Typed, NEW k \in Kinds,
           \/ AnswerPatch(k) \/ BeginReconnect(k) \/ AnswerReconnect(k) \/ RefuseSave(k)
           \/ SaveReturns(k)
           \/ \E p \in Ports : Request(k, p)
    PROVE  Typed'
<1> DEFINE Saves == [phase : Phases, port : Ports \cup {NoPort}, row : Revisions]
<1>0. ASSUME save' = [save EXCEPT ![k] = NoSave]
      PROVE  save' \in [Kinds -> Saves] /\ SavesPort'
  BY <1>0, SavesEnd
<1> USE DEF serverVars, pageVars, Typed
<1>1. CASE AnswerPatch(k)
  <2>1. save[k].phase = "asked" /\ save[k].port \in Ports
    BY <1>1 DEF AnswerPatch, SavesPort
  <2>2. revision + 1 \in Revisions
    BY <1>1, NextRevision DEF AnswerPatch
  <2>3. save' \in [Kinds -> Saves] /\ SavesPort'
    <3>1. PICK row \in Revisions :
             save' = [save EXCEPT ![k] = [save[k] EXCEPT !.phase = "answered", !.row = row]]
      <4>1. save[k] \in Saves /\ save \in [Kinds -> Saves]
        BY DEF TypeOK
      <4>2. server'[save[k].port] \in Revisions
        BY <1>1, <2>1, <2>2 DEF AnswerPatch, TypeOK
      <4> QED BY <1>1, <2>2, <4>1, <4>2 DEF AnswerPatch
    <3> QED BY <2>1, <3>1, SavesAnswered
  <2>4. events' \in Seq(Event) /\ unsure' \subseteq Ports
    BY <1>1, <2>1, <2>2, EmitType DEF AnswerPatch
  <2>5. server' \in [Ports -> Revisions]
    BY <1>1, <2>1, <2>2 DEF AnswerPatch, TypeOK
  <2> QED BY <1>1, <2>1, <2>2, <2>3, <2>4, <2>5 DEF AnswerPatch, TypeOK, Event
<1>2. CASE BeginReconnect(k)
  BY <1>2 DEF BeginReconnect, TypeOK, SavesPort, Phases
<1>3. CASE AnswerReconnect(k)
  <2>1. save[k].phase = "running" /\ save[k].port \in Ports
    BY <1>3 DEF AnswerReconnect, SavesPort
  <2>2. PICK row \in Revisions :
           save' = [save EXCEPT ![k] = [save[k] EXCEPT !.phase = "answered", !.row = row]]
    <3>1. save[k] \in Saves /\ save \in [Kinds -> Saves]
      BY DEF TypeOK
    <3> QED BY <1>3, <2>1, <3>1, NextRevision DEF AnswerReconnect, TypeOK
  <2>3. save' \in [Kinds -> Saves] /\ SavesPort'
    BY <2>1, <2>2, SavesAnswered
  <2>4. revision' \in Revisions /\ unsure' \subseteq Ports
    BY <1>3, <2>1, NextRevision DEF AnswerReconnect, TypeOK
  <2> QED BY <1>3, <2>3, <2>4 DEF AnswerReconnect, TypeOK
<1>4. CASE RefuseSave(k)
  <2>1. save' \in [Kinds -> Saves] /\ SavesPort'
    BY <1>0, <1>4 DEF RefuseSave
  <2> QED BY <1>4, <2>1 DEF RefuseSave, TypeOK
<1>5. CASE SaveReturns(k)
  <2>1. save' \in [Kinds -> Saves] /\ SavesPort'
    BY <1>0, <1>5 DEF SaveReturns
  <2>2. modems' \in [Ports -> Revisions] /\ pending' \in [Dialogs -> Ports \cup {NoPort}]
    BY <1>5 DEF SaveReturns, TypeOK
  <2>3. shown' \in Revisions
    <3>1. 0 \in Revisions
      BY BoundsAssumption DEF Revisions
    <3> QED BY <1>5, <2>2, <3>1 DEF SaveReturns, Rendered, TypeOK
  <2> QED BY <1>5, <2>1, <2>2, <2>3 DEF SaveReturns, TypeOK
<1>6. ASSUME NEW p \in Ports, Request(k, p) PROVE Typed'
  <2>0. save' = [save EXCEPT ![k] = [save[k] EXCEPT !.phase = "asked", !.port = p]]
    BY <1>6 DEF Request, TypeOK
  <2>1. save' \in [Kinds -> Saves]
    BY <2>0 DEF TypeOK, Phases
  <2>2. SavesPort'
    BY <2>0 DEF TypeOK, SavesPort
  <2> QED BY <1>6, <2>1, <2>2 DEF Request, TypeOK
<1> QED BY <1>1, <1>2, <1>3, <1>4, <1>5, <1>6

\* What a request of the user is about.
LEMMA RequestPort ==
    ASSUME Typed, NEW k \in Kinds,
           (k \in Dialogs /\ Confirm(k)) \/ Press(k)
    PROVE  \E p \in Ports : Request(k, p)
BY DEF Typed, TypeOK, Confirm, Press

LEMMA TypedNext == ASSUME Typed, [Next]_vars PROVE Typed'
<1> USE DEF serverVars, pageVars
<1>0. 0 \in Revisions
  BY BoundsAssumption DEF Revisions
<1>1. ASSUME NEW p \in Ports, Change(p) \/ Unlist(p) PROVE Typed'
  <2>1. revision + 1 \in Revisions \/ Unlist(p)
    BY <1>1, NextRevision DEF Change, Typed
  <2> QED BY <1>0, <1>1, <2>1 DEF Change, Unlist, Typed, TypeOK, SavesPort
<1>2. ASSUME NEW p \in Ports, Report(p) \/ Straggle(p) \/ RemovedListed(p) PROVE Typed'
  <2>1. revision' \in Revisions /\ \E row \in Revisions : Emit(p, row)
    BY <1>0, <1>2, NextRevision DEF Report, Straggle, RemovedListed, Typed, TypeOK
  <2>2. events' \in Seq(Event) /\ unsure' \subseteq Ports
    BY <2>1, EmitType DEF Typed
  <2>3. UNCHANGED <<server, connected, load, save, modems, pending, drawer, shown, loaded>>
    BY <1>2 DEF Report, Straggle, RemovedListed
  <2> QED BY <2>1, <2>2, <2>3 DEF Typed, TypeOK, SavesPort, Event
<1>3. ASSUME NEW p \in Ports, OpenDrawer(p) PROVE Typed'
  BY <1>3 DEF OpenDrawer, Typed, TypeOK, SavesPort
<1>4. ASSUME NEW l \in Loads,
             AnswerLoad(l) \/ RefuseLoad(l) \/ Poll(l) \/ SimChanged(l) \/ LoadReturns(l)
      PROVE  Typed'
  BY <1>4, TypedLoad DEF Poll, SimChanged
<1>5. ASSUME NEW k \in Kinds,
             \/ AnswerPatch(k) \/ BeginReconnect(k) \/ AnswerReconnect(k) \/ RefuseSave(k)
             \/ SaveReturns(k)
      PROVE  Typed'
  BY <1>5, TypedSave
<1>6. ASSUME NEW k \in Dialogs, Confirm(k) PROVE Typed'
  BY <1>6, RequestPort, TypedSave DEF Kinds
<1>7. ASSUME NEW k \in Buttons, Press(k) PROVE Typed'
  BY <1>7, RequestPort, TypedSave DEF Kinds
<1>8. ASSUME NEW k \in Dialogs, Cancel(k) PROVE Typed'
  BY <1>8 DEF Cancel, Typed, TypeOK, SavesPort
<1>9. ASSUME NEW k \in Dialogs, NEW p \in Ports, OpenDialog(k, p) PROVE Typed'
  BY <1>9 DEF OpenDialog, Typed, TypeOK, SavesPort
<1>10. CASE Connect
  BY <1>10 DEF Connect, Typed, TypeOK, SavesPort
<1>11. CASE Disconnect
  <2>1. <<>> \in Seq([port : Ports, row : Revisions])
    OBVIOUS
  <2>2. unsure' \subseteq Ports
    <3>1. \A i \in 1 .. Len(events) : events[i].port \in Ports
      <4>1. events \in Seq(Event)
        BY DEF Typed, TypeOK, Event
      <4>2. \A i \in 1 .. Len(events) : events[i] \in Event
        BY <4>1
      <4> QED BY <4>2 DEF Event
    <3> QED BY <1>11, <3>1 DEF Disconnect, Typed, TypeOK
  <2> QED BY <1>11, <2>1, <2>2 DEF Disconnect, Typed, TypeOK, SavesPort
<1>12. CASE Receive
  <2>1. events \in Seq(Event) /\ events # <<>>
    BY <1>12 DEF Receive, Typed, TypeOK, Event
  <2>2. Head(events) \in Event /\ events' \in Seq(Event)
    BY <1>12, <2>1 DEF Receive
  <2>3. Head(events).port \in Ports /\ Head(events).row \in Revisions
    BY <2>2 DEF Event
  <2>4. modems' \in [Ports -> Revisions] /\ drawer' \in Ports \cup {NoPort}
    BY <1>12, <2>3 DEF Receive, Received, Typed, TypeOK
  <2>5. shown' \in Revisions
    BY <1>0, <1>12, <2>4 DEF Receive, Rendered, Typed, TypeOK
  <2>6. unsure' \subseteq Ports
    BY <1>12, <2>3 DEF Receive, Typed, TypeOK
  <2> QED BY <1>12, <2>2, <2>4, <2>5, <2>6 DEF Receive, Typed, TypeOK, SavesPort, Event
<1>13. CASE CloseDrawer
  BY <1>0, <1>13 DEF CloseDrawer, Typed, TypeOK, SavesPort
<1>14. CASE UNCHANGED vars
  BY <1>14 DEF vars, Typed, TypeOK, SavesPort
<1>15. CASE Next
  BY <1>1, <1>2, <1>3, <1>4, <1>5, <1>6, <1>7, <1>8, <1>9, <1>10, <1>11, <1>12, <1>13, <1>15 DEF Next
<1> QED BY <1>14, <1>15

----------------------------------------------------------------------------
(* Rows and events.                                                        *)

\* A new event about p is the last one about it.
LEMMA EmitFollows ==
    ASSUME Typed, NEW p \in Ports, NEW row \in Revisions, connected, Emit(p, row),
           server'[p] = row
    PROVE  Follows(p)'
<1>1. events \in Seq(Event) /\ [port |-> p, row |-> row] \in Event
  BY DEF Typed, TypeOK, Event
<1>2. events' = Append(events, [port |-> p, row |-> row])
  BY DEF Emit
<1>3. /\ Len(events) \in Nat /\ Len(events') = Len(events) + 1
      /\ events'[Len(events) + 1] = [port |-> p, row |-> row]
  BY <1>1, <1>2
<1>5. Len(events) + 1 \in Own(p)'
  BY <1>3 DEF Own
<1>6. \A j \in Own(p)' : j <= Len(events) + 1
  BY <1>3 DEF Own
<1> QED BY <1>3, <1>5, <1>6 DEF Follows

\* The other ports are as before.
LEMMA EmitOthers ==
    ASSUME Typed, NEW p \in Ports, NEW row \in Revisions, connected, Emit(p, row),
           NEW q \in Ports, q # p, Follows(q),
           server'[q] = server[q], UNCHANGED <<loaded, modems, load>>,
           \A k \in Kinds : save'[k].phase = "answered" /\ save'[k].port = q =>
                save[k].phase = "answered" /\ save[k].port = q /\ save'[k].row = save[k].row
    PROVE  Follows(q)'
<1>1. events \in Seq(Event) /\ [port |-> p, row |-> row] \in Event
  BY DEF Typed, TypeOK, Event
<1>2. events' = Append(events, [port |-> p, row |-> row])
  BY DEF Emit
<1>3. /\ Len(events) \in Nat /\ Len(events') = Len(events) + 1
      /\ events'[Len(events) + 1].port = p
      /\ \A i \in 1 .. Len(events) : events'[i] = events[i]
  BY <1>1, <1>2
<1>4. Own(q)' = Own(q)
  BY <1>3 DEF Own
<1>5. \A i \in Own(q) : events'[i] = events[i]
  BY <1>3 DEF Own
<1> QED BY <1>4, <1>5 DEF Follows

\* What does not touch the events, the server, the table or the answers.
LEMMA QuietFollows ==
    ASSUME NEW q \in Ports, Follows(q), UNCHANGED <<events, server>>,
           loaded' => (loaded /\ modems'[q] = modems[q]) \/ (Own(q) = {} => modems'[q] = server[q]),
           \A l \in Loads : load'[l].phase = "answered" =>
                \/ load[l].phase = "answered" /\ load'[l].rows[q] = load[l].rows[q]
                \/ load'[l].rows[q] = server[q],
           \A k \in Kinds : save'[k].phase = "answered" /\ save'[k].port = q =>
                \/ save[k].phase = "answered" /\ save[k].port = q /\ save'[k].row = save[k].row
                \/ save'[k].row = server[q]
    PROVE  Follows(q)'
<1>1. Own(q)' = Own(q)
  BY DEF Own
<1> QED BY <1>1 DEF Follows

\* The oldest event is handled.
LEMMA ReceiveFollows ==
    ASSUME Typed, Receive, NEW q \in Ports, q \notin unsure', Follows(q)
    PROVE  Follows(q)'
<1> DEFINE e == Head(events)
<1>1. /\ events \in Seq(Event) /\ events # <<>> /\ events' = Tail(events)
      /\ UNCHANGED <<server, load, save, loaded>>
      /\ modems' = [modems EXCEPT ![e.port] = e.row]
      /\ e.port = q => ~Overtakes(e)
  BY DEF Receive, Received, serverVars, Typed, TypeOK, Event
<1>2. /\ e = events[1] /\ Len(events) \in Nat \ {0} /\ Len(events') = Len(events) - 1
      /\ \A i \in 1 .. Len(events) - 1 : events'[i] = events[i + 1]
  <2>1. Len(events) \in Nat \ {0} /\ e = events[1]
    BY <1>1, EmptySeq
  <2> QED BY <1>1, <2>1
<1>3. e \in Event /\ e.port \in Ports
  <2>1. e \in Event
    BY <1>1
  <2> QED BY <2>1 DEF Event
<1> HIDE DEF e
<1>4. \A i \in Own(q)' : i + 1 \in Own(q)
  BY <1>2 DEF Own
<1>5. \A i \in Own(q) : i # 1 => i - 1 \in Own(q)' /\ events'[i - 1] = events[i]
  <2> SUFFICES ASSUME NEW i \in Own(q), i # 1
               PROVE  i - 1 \in Own(q)' /\ events'[i - 1] = events[i]
    OBVIOUS
  <2>1. i \in 1 .. Len(events) /\ events[i].port = q
    BY DEF Own
  <2>2. i - 1 \in 1 .. Len(events) - 1 /\ (i - 1) + 1 = i
    BY <1>2, <2>1
  <2>3. events'[i - 1] = events[i]
    BY <1>2, <2>2
  <2> QED BY <1>2, <2>1, <2>2, <2>3 DEF Own
<1>6. CASE \E i \in Own(q) : (\A j \in Own(q) : j <= i) /\ events[i].row = server[q]
  <2>1. PICK i \in Own(q) : (\A j \in Own(q) : j <= i) /\ events[i].row = server[q]
    BY <1>6
  <2>2. CASE i # 1
    <3>1. i - 1 \in Own(q)' /\ events'[i - 1].row = server'[q]
      BY <1>1, <1>5, <2>1, <2>2
    <3>2. ASSUME NEW j \in Own(q)' PROVE j <= i - 1
      <4>1. j + 1 <= i /\ j \in Int /\ i \in Int
        BY <1>4, <2>1 DEF Own
      <4> QED BY <4>1
    <3> QED BY <3>1, <3>2 DEF Follows
  <2>3. CASE i = 1
    <3>1. Own(q)' = {}
      <4> SUFFICES ASSUME NEW j \in Own(q)' PROVE FALSE
        OBVIOUS
      <4>1. j \in 1 .. Len(events') /\ j + 1 <= 1
        BY <1>4, <2>1, <2>3 DEF Own
      <4> QED BY <1>2, <4>1
    <3>2. e.port = q /\ e.row = server[q]
      BY <1>2, <2>1, <2>3 DEF Own
    <3>3. modems'[q] = server'[q]
      BY <1>1, <1>3, <3>2 DEF Typed, TypeOK
    <3>4. /\ \A l \in Loads : load'[l].phase = "answered" => load'[l].rows[q] = server'[q]
          /\ \A k \in Kinds :
               save'[k].phase = "answered" /\ save'[k].port = q => save'[k].row = server'[q]
      BY <1>1, <3>2 DEF Overtakes
    <3> QED BY <3>1, <3>3, <3>4 DEF Follows
  <2> QED BY <2>2, <2>3
<1>7. CASE /\ Own(q) = {}
           /\ loaded => modems[q] = server[q]
           /\ \A l \in Loads : load[l].phase = "answered" => load[l].rows[q] = server[q]
           /\ \A k \in Kinds :
                save[k].phase = "answered" /\ save[k].port = q => save[k].row = server[q]
  <2>1. Own(q)' = {}
    BY <1>4, <1>7
  <2>2. e.port # q
    <3>1. 1 \in 1 .. Len(events)
      BY <1>2
    <3> QED BY <1>2, <1>7, <3>1 DEF Own
  <2>3. modems'[q] = modems[q]
    BY <1>1, <2>2 DEF Typed, TypeOK
  <2> QED BY <1>1, <1>7, <2>1, <2>3 DEF Follows
<1> QED BY <1>6, <1>7 DEF Follows

\* Who is told what a port now is knows it, and so does who knew it before.
LEMMA EmitKnown ==
    ASSUME Typed, NEW p \in Ports, NEW row \in Revisions, Emit(p, row),
           UNCHANGED <<loaded, modems, load>>,
           NEW q \in Ports, q \notin unsure', q \notin unsure => Follows(q),
           q # p => server'[q] = server[q],
           q # p => \A k \in Kinds : save'[k].phase = "answered" /\ save'[k].port = q =>
                save[k].phase = "answered" /\ save[k].port = q /\ save'[k].row = save[k].row
    PROVE  Follows(q)'
<1>1. CASE q = p
  <2>1. connected /\ server'[p] = row
    BY <1>1 DEF Emit
  <2> QED BY <1>1, <2>1, EmitFollows
<1>2. CASE q # p
  <2>1. Follows(q)
    BY <1>2 DEF Emit
  <2>2. CASE connected
    BY <1>2, <2>1, <2>2, EmitOthers
  <2>3. CASE ~connected
    <3>1. UNCHANGED events /\ server'[q] = server[q]
      BY <1>2, <2>3 DEF Emit
    <3>2. Own(q)' = Own(q)
      BY <3>1 DEF Own
    <3> QED BY <1>2, <2>1, <3>1, <3>2 DEF Follows
  <2> QED BY <2>2, <2>3
<1> QED BY <1>1, <1>2

\* What the page was told of a port is what it has in the end, through every step.
LEMMA FollowsNext ==
    ASSUME Typed, [Next]_vars, NEW q \in Ports, q \notin unsure', q \notin unsure => Follows(q)
    PROVE  Follows(q)'
<1> USE DEF serverVars, pageVars
<1>1. ASSUME NEW p \in Ports, Change(p) \/ Unlist(p) PROVE Follows(q)'
  <2>1. q # p /\ Follows(q) /\ UNCHANGED <<events, load, save, loaded, modems>>
    BY <1>1 DEF Change, Unlist
  <2>2. server'[q] = server[q]
    BY <1>1, <2>1 DEF Change, Unlist, Typed, TypeOK
  <2>3. Own(q)' = Own(q)
    BY <2>1 DEF Own
  <2> QED BY <2>1, <2>2, <2>3 DEF Follows
<1>2. ASSUME NEW p \in Ports, Report(p) \/ Straggle(p) \/ RemovedListed(p)
      PROVE  Follows(q)'
  <2>1. PICK row \in Revisions : Emit(p, row)
    <3>1. 0 \in Revisions
      BY BoundsAssumption DEF Revisions
    <3> QED BY <1>2, <3>1, NextRevision DEF Report, Straggle, RemovedListed, Typed, TypeOK
  <2>2. UNCHANGED <<server, loaded, modems, load, save>>
    BY <1>2 DEF Report, Straggle, RemovedListed
  <2> QED BY <2>1, <2>2, EmitKnown
<1>3. ASSUME NEW k \in Kinds, AnswerPatch(k) PROVE Follows(q)'
  <2> DEFINE p == save[k].port
  <2>1. p \in Ports /\ revision + 1 \in Revisions
    BY <1>3, NextRevision DEF AnswerPatch, Typed, SavesPort
  <2>2. /\ Emit(p, revision + 1)
        /\ UNCHANGED <<loaded, modems, load>>
    BY <1>3 DEF AnswerPatch
  <2>3. q # p => server'[q] = server[q]
    BY <1>3, <2>1 DEF AnswerPatch, Typed, TypeOK
  <2>4. ASSUME q # p
        PROVE  \A i \in Kinds : save'[i].phase = "answered" /\ save'[i].port = q =>
                 save[i].phase = "answered" /\ save[i].port = q /\ save'[i].row = save[i].row
    BY <1>3, <2>4 DEF AnswerPatch, Typed, TypeOK
  <2> HIDE DEF p
  <2> QED BY <2>1, <2>2, <2>3, <2>4, EmitKnown
<1>4. CASE Receive
  <2>1. q \notin unsure
    BY <1>4 DEF Receive
  <2> QED BY <1>4, <2>1, ReceiveFollows
<1>14. ASSUME NEW k \in Kinds, AnswerReconnect(k) PROVE Follows(q)'
  <2>1. /\ UNCHANGED <<events, server, load, loaded, modems>>
        /\ q \notin unsure
    BY <1>14 DEF AnswerReconnect
  <2>2. \A i \in Kinds : save'[i].phase = "answered" /\ save'[i].port = q =>
           \/ save[i].phase = "answered" /\ save[i].port = q /\ save'[i].row = save[i].row
           \/ save'[i].row = server[q]
    <3>1. /\ \A i \in Kinds \ {k} : save'[i] = save[i]
          /\ save'[k].port = save[k].port
      BY <1>14 DEF AnswerReconnect, Typed, TypeOK
    <3>2. save[k].port = q => save'[k].row = server[q]
      <4> SUFFICES ASSUME save[k].port = q PROVE save'[k].row = server[q]
        OBVIOUS
      <4>1. save' = [save EXCEPT ![k].phase = "answered", ![k].row = server[q]]
        BY <1>14 DEF AnswerReconnect
      <4> QED BY <4>1 DEF Typed, TypeOK
    <3> QED BY <3>1, <3>2
  <2> QED BY <2>1, <2>2, QuietFollows
<1>5. ASSUME NEW l \in Loads, AnswerLoad(l) PROVE Follows(q)'
  <2>1. /\ UNCHANGED <<events, server, save, loaded, modems, unsure>>
        /\ load' = [load EXCEPT ![l] = [phase |-> "answered", rows |-> server]]
    BY <1>5 DEF AnswerLoad
  <2>2. \A i \in Loads : load'[i].phase = "answered" =>
           \/ load'[i].rows[q] = server[q]
           \/ load[i].phase = "answered" /\ load'[i].rows[q] = load[i].rows[q]
    BY <2>1 DEF Typed, TypeOK
  <2> QED BY <2>1, <2>2, QuietFollows
<1>6. ASSUME NEW l \in Loads, RefuseLoad(l) \/ Ask(l) PROVE Follows(q)'
  <2>1. UNCHANGED <<events, server, save, loaded, modems, unsure>>
    BY <1>6 DEF RefuseLoad, Ask
  <2>2. \A i \in Loads : load'[i].phase = "answered" =>
           load[i].phase = "answered" /\ load'[i].rows[q] = load[i].rows[q]
    BY <1>6 DEF RefuseLoad, Ask, Idle, Typed, TypeOK
  <2> QED BY <2>1, <2>2, QuietFollows
<1>7. ASSUME NEW l \in Loads, LoadReturns(l) PROVE Follows(q)'
  <2>1. /\ UNCHANGED <<events, server, save, unsure>> /\ load[l].phase = "answered"
        /\ modems'[q] = load[l].rows[q]
        /\ load' = [load EXCEPT ![l] = Idle]
    BY <1>7 DEF LoadReturns, Loaded
  <2>2. Own(q) = {} => modems'[q] = server[q]
    BY <2>1 DEF Follows
  <2>3. \A i \in Loads : load'[i].phase = "answered" =>
           load[i].phase = "answered" /\ load'[i].rows[q] = load[i].rows[q]
    BY <2>1 DEF Idle, Typed, TypeOK
  <2> QED BY <2>1, <2>2, <2>3, QuietFollows
<1>8. ASSUME NEW k \in Kinds, SaveReturns(k) PROVE Follows(q)'
  <2>1. /\ UNCHANGED <<events, server, load, loaded, unsure>> /\ save[k].phase = "answered"
        /\ modems' = [modems EXCEPT ![save[k].port] = save[k].row]
        /\ save' = [save EXCEPT ![k] = NoSave]
    BY <1>8 DEF SaveReturns
  <2>2. \/ modems'[q] = modems[q]
        \/ Own(q) = {} => modems'[q] = server[q]
    BY <2>1 DEF Follows, Typed, TypeOK
  <2>3. \A i \in Kinds : save'[i].phase = "answered" /\ save'[i].port = q =>
           save[i].phase = "answered" /\ save[i].port = q /\ save'[i].row = save[i].row
    BY <2>1 DEF NoSave, Typed, TypeOK
  <2> QED BY <2>1, <2>2, <2>3, QuietFollows
<1>9. ASSUME NEW k \in Kinds, NEW p \in Ports, BeginReconnect(k) \/ RefuseSave(k) \/ Request(k, p)
      PROVE  Follows(q)'
  <2>1. UNCHANGED <<events, server, load, loaded, modems, unsure>>
    BY <1>9 DEF BeginReconnect, RefuseSave, Request
  <2>2. \A i \in Kinds : save'[i].phase = "answered" =>
           save[i].phase = "answered" /\ save'[i] = save[i]
    BY <1>9 DEF BeginReconnect, RefuseSave, Request, NoSave, Typed, TypeOK
  <2> QED BY <2>1, <2>2, QuietFollows
<1>10. CASE Disconnect
  <2>1. events' = <<>> /\ UNCHANGED <<server, load, save, loaded, modems>>
    BY <1>10 DEF Disconnect
  <2>2. Own(q) = {} /\ q \notin unsure
    BY <1>10 DEF Disconnect, Own
  <2>3. Own(q)' = {}
    BY <2>1 DEF Own
  <2> QED BY <2>1, <2>2, <2>3 DEF Follows
<1>11. CASE UNCHANGED <<events, server, load, save, loaded, modems, unsure>>
  BY <1>11, QuietFollows
<1>12. CASE UNCHANGED vars
  BY <1>11, <1>12 DEF vars
<1>13. CASE Next
  <2>1. ASSUME NEW k \in Dialogs, Confirm(k) PROVE Follows(q)'
    BY <1>9, <2>1, RequestPort DEF Kinds
  <2>2. ASSUME NEW k \in Buttons, Press(k) PROVE Follows(q)'
    BY <1>9, <2>2, RequestPort DEF Kinds
  <2>3. ASSUME NEW l \in Loads,
               AnswerLoad(l) \/ RefuseLoad(l) \/ Poll(l) \/ SimChanged(l) \/ LoadReturns(l)
        PROVE  Follows(q)'
    BY <1>5, <1>6, <1>7, <2>3 DEF Poll, SimChanged
  <2>4. ASSUME NEW k \in Kinds,
               \/ AnswerPatch(k) \/ BeginReconnect(k) \/ AnswerReconnect(k) \/ RefuseSave(k)
               \/ SaveReturns(k)
        PROVE  Follows(q)'
    BY <1>3, <1>8, <1>9, <1>14, <2>4
  <2>5. ASSUME NEW p \in Ports, OpenDrawer(p) PROVE Follows(q)'
    BY <1>11, <2>5 DEF OpenDrawer
  <2>6. ASSUME NEW k \in Dialogs, NEW p \in Ports, Cancel(k) \/ OpenDialog(k, p)
        PROVE  Follows(q)'
    BY <1>11, <2>6 DEF Cancel, OpenDialog
  <2>7. CASE Connect \/ CloseDrawer
    BY <1>11, <2>7 DEF Connect, CloseDrawer
  <2> QED BY <1>1, <1>2, <1>4, <1>10, <1>13, <2>1, <2>2, <2>3, <2>4, <2>5, <2>6, <2>7 DEF Next
<1> QED BY <1>12, <1>13

----------------------------------------------------------------------------
(* The theorems.                                                           *)

LEMMA TableInit == ASSUME Init PROVE TableInv
<1>1. Typed
  BY TypedInit
<1>2. ASSUME NEW p \in Ports PROVE Follows(p)
  <2>1. Own(p) = {}
    BY DEF Init, Own
  <2>2. \A l \in Loads : load[l].phase # "answered"
    BY DEF Init, Idle
  <2>3. \A k \in Kinds : save[k].phase # "answered"
    BY DEF Init, NoSave
  <2> QED BY <2>1, <2>2, <2>3 DEF Init, Follows
<1> QED BY <1>1, <1>2 DEF TableInv

\* The invariant from which RowsFollow follows.
THEOREM TableInvariant == Spec => []TableInv
<1>1. ASSUME TableInv, [Next]_vars PROVE TableInv'
  <2>1. Typed'
    BY <1>1, TypedNext DEF TableInv
  <2>2. ASSUME NEW p \in Ports, p \notin unsure' PROVE Follows(p)'
    BY <1>1, <2>2, FollowsNext DEF TableInv
  <2> QED BY <2>1, <2>2 DEF TableInv
<1> QED BY <1>1, TableInit, PTL DEF Spec

\* Type correctness of the page and its server.
THEOREM DashboardTypeOK == Spec => []TypeOK
<1>1. TableInv => TypeOK
  BY DEF TableInv, Typed
<1> QED BY <1>1, TableInvariant, PTL

\* A port of which the page was told what it now is ends with that row, through
\* events, reloads and answers (modem.status, modem.removed, loadModems,
\* requestEnabledSave, getAllStates).
THEOREM RowsFollowAlways == Spec => []RowsFollow
<1>1. ASSUME TableInv, loaded, NEW p \in Ports \ unsure PROVE Coming(p) = server[p]
  <2>1. Follows(p)
    BY <1>1 DEF TableInv
  <2>2. CASE Own(p) = {}
    BY <1>1, <2>1, <2>2 DEF Follows, Own, Coming
  <2>3. CASE Own(p) # {}
    <3>1. PICK i \in Own(p) : (\A j \in Own(p) : j <= i) /\ events[i].row = server[p]
      BY <2>1, <2>3 DEF Follows
    <3> DEFINE c == CHOOSE n \in Own(p) : \A j \in Own(p) : j <= n
    <3>2. c \in Own(p) /\ \A j \in Own(p) : j <= c
      BY <3>1
    <3>3. c = i
      <4>1. c <= i /\ i <= c /\ c \in Int /\ i \in Int
        BY <3>1, <3>2 DEF Own
      <4> HIDE DEF c
      <4> QED BY <4>1
    <3>4. Coming(p) = events[c].row
      BY <2>3 DEF Coming, Own
    <3> QED BY <3>1, <3>3, <3>4
  <2> QED BY <2>2, <2>3
<1>2. TableInv => RowsFollow
  BY <1>1 DEF RowsFollow
<1> QED BY <1>2, TableInvariant, PTL

\* The drawer never lags behind the table (renderModems, renderDrawerDetail).
THEOREM DrawerAgreesAlways == Spec => []DrawerAgrees
<1> USE DEF serverVars, pageVars
<1>1. ASSUME Init PROVE DrawerAgrees
  BY <1>1 DEF Init, DrawerAgrees
<1>2. ASSUME DrawerAgrees, [Next]_vars PROVE DrawerAgrees'
  <2>1. CASE UNCHANGED <<modems, drawer, shown>>
    BY <1>2, <2>1 DEF DrawerAgrees
  <2>2. CASE shown' = Rendered(modems', drawer')
    BY <2>2 DEF DrawerAgrees, Rendered
  <2>3. ASSUME NEW p \in Ports, OpenDrawer(p) PROVE DrawerAgrees'
    BY <2>3 DEF OpenDrawer, DrawerAgrees
  <2>4. ASSUME NEW k \in Dialogs, Cancel(k) PROVE DrawerAgrees'
    BY <1>2, <2>4 DEF Cancel, DrawerAgrees
  <2>5. CASE CloseDrawer
    BY <2>5 DEF CloseDrawer, DrawerAgrees
  <2>6. ASSUME NEW l \in Loads, LoadReturns(l) PROVE DrawerAgrees'
    BY <2>2, <2>6 DEF LoadReturns
  <2>7. ASSUME NEW k \in Kinds, SaveReturns(k) PROVE DrawerAgrees'
    BY <2>2, <2>7 DEF SaveReturns
  <2>8. CASE Receive
    BY <2>2, <2>8 DEF Receive
  <2>9. CASE UNCHANGED vars
    BY <2>1, <2>9 DEF vars
  <2>10. ASSUME NEW p \in Ports,
                Change(p) \/ Unlist(p) \/ Report(p) \/ Straggle(p) \/ RemovedListed(p)
         PROVE  DrawerAgrees'
    BY <2>1, <2>10 DEF Change, Unlist, Report, Straggle, RemovedListed
  <2>11. ASSUME NEW l \in Loads, AnswerLoad(l) \/ RefuseLoad(l) \/ Poll(l) \/ SimChanged(l)
         PROVE  DrawerAgrees'
    BY <2>1, <2>11 DEF AnswerLoad, RefuseLoad, Poll, SimChanged, Ask
  <2>12. ASSUME NEW k \in Kinds,
                AnswerPatch(k) \/ BeginReconnect(k) \/ AnswerReconnect(k) \/ RefuseSave(k)
         PROVE  DrawerAgrees'
    <3>1. UNCHANGED <<modems, drawer, shown>>
      BY <2>12 DEF AnswerPatch, BeginReconnect, AnswerReconnect, RefuseSave
    <3> QED BY <2>1, <3>1
  <2>13. ASSUME NEW k \in Kinds, Press(k) \/ (k \in Dialogs /\ Confirm(k)) PROVE DrawerAgrees'
    <3>1. UNCHANGED <<modems, drawer, shown>>
      BY <2>13 DEF Press, Confirm, Request
    <3> QED BY <2>1, <3>1
  <2>14. ASSUME NEW k \in Dialogs, NEW p \in Ports, OpenDialog(k, p) PROVE DrawerAgrees'
    BY <2>1, <2>14 DEF OpenDialog
  <2>15. CASE Connect \/ Disconnect
    BY <2>1, <2>15 DEF Connect, Disconnect
  <2>16. CASE Next
    <3>1. ASSUME NEW k \in Buttons, Press(k) PROVE DrawerAgrees'
      <4>1. k \in Kinds
        BY <3>1 DEF Kinds
      <4> QED BY <2>13, <3>1, <4>1
    <3>2. ASSUME NEW k \in Dialogs, Confirm(k) PROVE DrawerAgrees'
      <4>1. k \in Kinds
        BY <3>2 DEF Kinds
      <4> QED BY <2>13, <3>2, <4>1
    <3>3. ASSUME NEW k \in Dialogs, Cancel(k) \/ Confirm(k) \/ \E p \in Ports : OpenDialog(k, p)
          PROVE  DrawerAgrees'
      BY <2>4, <2>14, <3>2, <3>3
    <3>4. ASSUME NEW k \in Kinds,
                 \/ AnswerPatch(k) \/ BeginReconnect(k) \/ AnswerReconnect(k) \/ RefuseSave(k)
                 \/ SaveReturns(k)
          PROVE  DrawerAgrees'
      BY <2>7, <2>12, <3>4
    <3>5. ASSUME NEW p \in Ports,
                 \/ Change(p) \/ Unlist(p) \/ Report(p) \/ Straggle(p) \/ RemovedListed(p)
                 \/ OpenDrawer(p)
          PROVE  DrawerAgrees'
      BY <2>3, <2>10, <3>5
    <3>6. ASSUME NEW l \in Loads,
                 AnswerLoad(l) \/ RefuseLoad(l) \/ Poll(l) \/ SimChanged(l) \/ LoadReturns(l)
          PROVE  DrawerAgrees'
      BY <2>6, <2>11, <3>6
    <3> QED BY <2>5, <2>8, <2>15, <2>16, <3>1, <3>3, <3>4, <3>5, <3>6 DEF Next
  <2> QED BY <1>2, <2>9, <2>16
<1> QED BY <1>1, <1>2, PTL DEF Spec
=============================================================================
