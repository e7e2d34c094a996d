--------------------------- MODULE SmsStoreProofs ---------------------------
(* Theorems about SmsStore and WaitOtp, for any lines, payloads, handlers,   *)
(* clients and legacy rows.                                                  *)
EXTENDS SmsStore, TLAPS

Suspended == {"conflict", "fill", "delete", "update", "undated"}

\* A handler under way has its SMS, one that works on a row knows it.
HandlersOK ==
    \A h \in Handlers :
        /\ handler[h].at # "idle" => handler[h].sms \in Payloads
        /\ handler[h].at \in Suspended => handler[h].id \in Ids /\ handler[h].row \in Row
        /\ handler[h].at = "fill" => handler[h].other \in Ids

\* The backfill of timestamps only works on rows that can be corrected.
BackfillOK ==
    /\ backfill.stage = "over" => backfill.todo = {} /\ ~backfill.read
    /\ backfill.stage = "dates" => \A t \in backfill.todo : Corrected[t.row.time] \in Times

StoreTypes == TypeOK /\ HandlersOK /\ BackfillOK
StoreInv == StoreTypes /\ UniqueKey /\ WaitersArmed /\ AnsweredWhenDue

Handler == [sms : Payloads \cup {NoSms}, at : Steps, id : Ids \cup {NoRow}, row : Row \cup {NoRow},
            upd : Update, other : Ids \cup {NoRow}]

----------------------------------------------------------------------------
(* Helpers.                                                                *)

LEMMA IdleType == Idle \in Handler /\ Idle.at = "idle"
BY DEF Idle, Handler, Steps, NoUpdate, Update

LEMMA MessageType ==
    ASSUME NEW sms \in Payloads
    PROVE  /\ sms \in Payload
           /\ Message(sms) \in Texts
           /\ OtpOf[Message(sms)] \in Otps \cup {NoOtp}
           /\ NewRow(sms) \in Row
<1>1. sms \in Payload
  BY StoreAssumption
<1>2. sms.line \in Lines /\ sms.text \in Texts /\ sms.time \in Times
  BY <1>1 DEF Payload
<1>3. Message(sms) \in Texts /\ OtpOf[Message(sms)] \in Otps \cup {NoOtp}
  BY <1>2, StoreAssumption DEF Message
<1> QED BY <1>1, <1>2, <1>3 DEF NewRow, Row

LEMMA UpdatesType ==
    ASSUME NEW sms \in Payloads, NEW r \in Row
    PROVE  Updates(sms, r) \in Update
<1>1. Message(sms) \in Texts /\ OtpOf[Message(sms)] \in Otps \cup {NoOtp} /\ sms.time \in Times
  BY MessageType DEF Payload
<1>2. r.time \in Times /\ r.otp \in Otps \cup {NoOtp}
  BY DEF Row
<1>3. NewText(sms, r) \in Texts \cup {NoText}
  BY <1>1 DEF NewText
<1>4. NewTime(sms, r) \in Times \cup {NoTime}
  BY <1>1, <1>2, StoreAssumption DEF NewTime
<1> QED BY <1>1, <1>2, <1>3, <1>4 DEF Updates, Update

LEMMA UpdatedType ==
    ASSUME NEW r \in Row, NEW u \in Update
    PROVE  Updated(r, u) \in Row /\ [u EXCEPT !.time = NoTime] \in Update
BY DEF Updated, Row, Update

LEMMA BackfilledType ==
    ASSUME StoreTypes, NEW t \in backfill.todo, NEW r \in Row
    PROVE  Backfilled(r, t.row) \in Row
<1>1. /\ backfill.stage \in Stages
      /\ t.row \in Row
  BY DEF StoreTypes, TypeOK
<1>2. backfill.stage \in {"hex", "dates", "otps"}
  BY <1>1 DEF StoreTypes, BackfillOK, Stages
<1>3. /\ Decode[t.row.text] \in Texts
      /\ OtpOf[Decode[t.row.text]] \in Otps \cup {NoOtp}
      /\ t.row.otp \in Otps \cup {NoOtp}
  BY <1>1, StoreAssumption DEF Row
<1>4. CASE backfill.stage = "hex"
  BY <1>3, <1>4 DEF Backfilled, Row
<1>5. CASE backfill.stage = "dates"
  BY <1>5 DEF Backfilled, Row, StoreTypes, BackfillOK
<1>6. CASE backfill.stage = "otps"
  BY <1>3, <1>6 DEF Backfilled, Row
<1> QED BY <1>2, <1>4, <1>5, <1>6

\* A write whose key no other row has keeps keys unique.
LEMMA WriteKeepsKeys ==
    ASSUME UniqueKey, rows \in [Ids -> Row \cup {NoRow}], NEW id \in Ids, NEW r \in Row,
           ~Taken(r, id), rows' = [rows EXCEPT ![id] = r]
    PROVE  UniqueKey' /\ rows' \in [Ids -> Row \cup {NoRow}]
<1>1. rows' \in [Ids -> Row \cup {NoRow}] /\ rows'[id] = r
  OBVIOUS
<1>2. \A i \in Ids \ {id} : rows'[i] = rows[i]
  OBVIOUS
<1>3. \A i \in Present' \ {id} : i \in Present
  BY <1>2 DEF Present
<1>4. \A i \in Present' \ {id} : ~SameKey(rows'[i], rows'[id]) /\ ~SameKey(rows'[id], rows'[i])
  BY <1>1, <1>2, <1>3 DEF Taken, SameKey, Present
<1>5. \A i, j \in Present' \ {id} : i # j => ~SameKey(rows'[i], rows'[j])
  BY <1>2, <1>3 DEF UniqueKey, Present
<1> QED BY <1>1, <1>4, <1>5 DEF UniqueKey

\* So does a write that leaves the key of its row alone, and a deletion.
LEMMA SameKeysKeepKeys ==
    ASSUME UniqueKey, \A i \in Ids : rows'[i] # NoRow => rows[i] # NoRow /\ SameKey(rows'[i], rows[i])
    PROVE  UniqueKey'
<1>1. \A i \in Present' : i \in Present /\ SameKey(rows'[i], rows[i])
  BY DEF Present
<1> QED BY <1>1 DEF UniqueKey, SameKey

----------------------------------------------------------------------------
(* Steps of a handler.                                                     *)

\* The handler h becomes c.
LEMMA HandlerSet ==
    ASSUME StoreTypes, NEW h \in Handlers, NEW c \in Handler,
           c.at # "idle" => c.sms \in Payloads,
           c.at \in Suspended => c.id \in Ids /\ c.row \in Row,
           c.at = "fill" => c.other \in Ids,
           handler' = [handler EXCEPT ![h] = c]
    PROVE  handler' \in [Handlers -> Handler] /\ HandlersOK'
<1>1. handler \in [Handlers -> Handler]
  BY DEF StoreTypes, TypeOK, Handler
<1>2. handler' \in [Handlers -> Handler] /\ handler'[h] = c
  BY <1>1
<1>3. \A g \in Handlers \ {h} : handler'[g] = handler[g]
  BY <1>1
<1> QED BY <1>2, <1>3 DEF StoreTypes, HandlersOK

LEMMA DoneFact ==
    ASSUME StoreTypes, NEW h \in Handlers, Done(h)
    PROVE  handler' \in [Handlers -> Handler] /\ HandlersOK'
BY IdleType, HandlerSet DEF Done, Suspended

LEMMA GotoFact ==
    ASSUME StoreTypes, NEW h \in Handlers, NEW step \in Steps, Goto(h, step),
           handler[h].at # "idle",
           step \in Suspended => handler[h].at \in Suspended,
           step # "fill"
    PROVE  handler' \in [Handlers -> Handler] /\ HandlersOK'
<1>1. handler[h] \in Handler
  BY DEF StoreTypes, TypeOK, Handler
<1> DEFINE c == [handler[h] EXCEPT !.at = step]
<1>2. c \in Handler /\ c.at = step
  BY <1>1 DEF Handler
<1>3. c.sms = handler[h].sms /\ c.id = handler[h].id /\ c.row = handler[h].row
  BY <1>1 DEF Handler
<1>4. handler' = [handler EXCEPT ![h] = c]
  BY DEF Goto
<1>5. c.sms \in Payloads /\ (step \in Suspended => c.id \in Ids /\ c.row \in Row)
  BY <1>3 DEF StoreTypes, HandlersOK
<1> HIDE DEF c
<1> QED BY <1>2, <1>4, <1>5, HandlerSet

\* What an action that leaves handlers and backfills alone keeps.
LEMMA KeepHandlers == ASSUME StoreTypes, UNCHANGED handler PROVE handler' \in [Handlers -> Handler] /\ HandlersOK'
BY DEF StoreTypes, TypeOK, HandlersOK, Handler

LEMMA KeepBackfill ==
    ASSUME StoreTypes, UNCHANGED backfill
    PROVE  backfill' \in [stage : Stages, read : BOOLEAN, todo : SUBSET [id : Ids, row : Row]] /\ BackfillOK'
BY DEF StoreTypes, TypeOK, BackfillOK

\* The rest of StoreTypes.
LEMMA Assemble ==
    ASSUME StoreTypes,
           handler' \in [Handlers -> Handler], HandlersOK',
           backfill' \in [stage : Stages, read : BOOLEAN, todo : SUBSET [id : Ids, row : Row]], BackfillOK',
           rows' \in [Ids -> Row \cup {NoRow}],
           stored' \subseteq Lines \X Texts,
           WaitTypeOK',
           announced' \in [Lines \X Texts -> 0 .. 2],
           overlapped' \subseteq Lines, disturbed' \subseteq Lines, due' \subseteq Clients
    PROVE  StoreTypes'
BY DEF StoreTypes, TypeOK, Handler

\* A row that is written has a line and a text.
LEMMA WriteType ==
    ASSUME StoreTypes, NEW id \in Ids, NEW r \in Row, Write(id, r)
    PROVE  rows' \in [Ids -> Row \cup {NoRow}] /\ stored' \subseteq Lines \X Texts
BY DEF Write, StoreTypes, TypeOK, Row

\* What follows from UNCHANGED for the other variables.
LEMMA KeepWait == ASSUME StoreTypes, UNCHANGED waitVars PROVE WaitTypeOK'
BY DEF StoreTypes, TypeOK, WaitTypeOK, waitVars

LEMMA KeepHistory ==
    ASSUME StoreTypes, UNCHANGED history
    PROVE  /\ announced' \in [Lines \X Texts -> 0 .. 2] /\ overlapped' \subseteq Lines
           /\ disturbed' \subseteq Lines /\ due' \subseteq Clients /\ stored' \subseteq Lines \X Texts
BY DEF StoreTypes, TypeOK, history

----------------------------------------------------------------------------
(* The actions of a handler keep the types and the keys.                   *)

LEMMA ReceiveStep ==
    ASSUME StoreInv, NEW h \in Handlers, NEW sms \in Payloads, Receive(h, sms)
    PROVE  StoreTypes' /\ UniqueKey'
<1> USE DEF StoreInv
<1>1. handler[h] \in Handler /\ sms.line \in Lines
  BY MessageType DEF StoreTypes, TypeOK, Handler, Payload
<1> DEFINE c == [handler[h] EXCEPT !.sms = sms, !.at = "find"]
<1>2. c \in Handler /\ c.at = "find" /\ c.sms = sms
  BY <1>1 DEF Handler, Steps
<1>3. handler' = [handler EXCEPT ![h] = c]
  BY <1>1 DEF Receive, Handler, StoreTypes, TypeOK
<1> HIDE DEF c
<1>4. handler' \in [Handlers -> Handler] /\ HandlersOK'
  BY <1>2, <1>3, HandlerSet DEF Suspended
<1>5. overlapped' \subseteq Lines /\ disturbed' \subseteq Lines
  BY <1>1 DEF Receive, StoreTypes, TypeOK
<1>6. StoreTypes'
  BY <1>4, <1>5, Assemble, KeepBackfill, KeepWait DEF Receive, StoreTypes, TypeOK
<1>7. UniqueKey'
  BY DEF Receive, UniqueKey, Present
<1> QED BY <1>6, <1>7

LEMMA FindRowStep ==
    ASSUME StoreInv, NEW h \in Handlers, FindRow(h)
    PROVE  StoreTypes' /\ UniqueKey'
<1> USE DEF StoreInv
<1>1. handler[h] \in Handler /\ handler[h].sms \in Payloads
  BY DEF FindRow, StoreTypes, TypeOK, Handler, HandlersOK
<1>2. PICK id \in Matching(handler[h].sms) :
         LET upd == Updates(handler[h].sms, rows[id])
             next == IF upd.time # NoTime THEN "conflict" ELSE "update"
         IN  IF upd.text = NoText /\ upd.time = NoTime
             THEN Done(h)
             ELSE handler' = [handler EXCEPT ![h] =
                    [@ EXCEPT !.at = next, !.id = id, !.row = rows[id], !.upd = upd]]
  BY DEF FindRow
<1>3. id \in Ids /\ rows[id] \in Row
  BY DEF Matching, Present, StoreTypes, TypeOK
<1> DEFINE upd == Updates(handler[h].sms, rows[id])
           next == IF upd.time # NoTime THEN "conflict" ELSE "update"
           c == [handler[h] EXCEPT !.at = next, !.id = id, !.row = rows[id], !.upd = upd]
<1>4. upd \in Update
  BY <1>1, <1>3, UpdatesType
<1>5. next \in {"conflict", "update"}
  OBVIOUS
<1>6. handler' \in [Handlers -> Handler] /\ HandlersOK'
  <2>1. CASE Done(h)
    BY <2>1, DoneFact
  <2>2. CASE ~Done(h)
    <3>1. handler' = [handler EXCEPT ![h] = c]
      BY <1>2, <2>2
    <3> HIDE DEF upd, next
    <3>2. c \in Handler /\ c.at = next /\ c.sms = handler[h].sms /\ c.id = id /\ c.row = rows[id]
      BY <1>1, <1>3, <1>4, <1>5 DEF Handler, Steps
    <3> HIDE DEF c
    <3> QED BY <1>1, <1>3, <1>5, <3>1, <3>2, HandlerSet
  <2> QED BY <2>1, <2>2
<1>7. UNCHANGED <<rows, backfill, waitVars, history>>
  BY DEF FindRow
<1>8. StoreTypes'
  BY <1>6, <1>7, Assemble, KeepBackfill, KeepWait, KeepHistory DEF StoreTypes, TypeOK
<1>9. UniqueKey'
  BY <1>7 DEF UniqueKey, Present
<1> QED BY <1>8, <1>9

LEMMA FindNoneStep ==
    ASSUME StoreInv, NEW h \in Handlers, FindNone(h)
    PROVE  StoreTypes' /\ UniqueKey'
<1> USE DEF StoreInv
<1>1. handler' \in [Handlers -> Handler] /\ HandlersOK'
  BY GotoFact DEF FindNone, Steps, Suspended
<1>2. UNCHANGED <<rows, backfill, waitVars, history>>
  BY DEF FindNone
<1>3. StoreTypes'
  BY <1>1, <1>2, Assemble, KeepBackfill, KeepWait, KeepHistory DEF StoreTypes, TypeOK
<1>4. UniqueKey'
  BY <1>2 DEF UniqueKey, Present
<1> QED BY <1>3, <1>4

LEMMA FindConflictStep ==
    ASSUME StoreInv, NEW h \in Handlers, FindConflict(h)
    PROVE  StoreTypes' /\ UniqueKey'
<1> USE DEF StoreInv
<1>1. /\ handler[h] \in Handler /\ handler[h].sms \in Payloads
      /\ handler[h].id \in Ids /\ handler[h].row \in Row
  BY DEF FindConflict, StoreTypes, TypeOK, Handler, HandlersOK, Suspended
<1>2. UNCHANGED <<rows, backfill, waitVars, history>>
  BY DEF FindConflict
<1>3. handler' \in [Handlers -> Handler] /\ HandlersOK'
  <2>1. CASE Goto(h, "update")
    BY <2>1, GotoFact DEF FindConflict, Steps, Suspended
  <2>2. ASSUME NEW id \in Conflict(handler[h]), NEW next \in {"fill", "delete"},
               handler' = [handler EXCEPT ![h].at = next, ![h].other = id]
        PROVE  handler' \in [Handlers -> Handler] /\ HandlersOK'
    <3>1. id \in Ids
      BY DEF Conflict, Present
    <3> DEFINE c == [handler[h] EXCEPT !.at = next, !.other = id]
    <3>2. handler' = [handler EXCEPT ![h] = c]
      BY <2>2 DEF StoreTypes, TypeOK
    <3>3. /\ c \in Handler /\ c.at = next /\ c.other = id
          /\ c.sms = handler[h].sms /\ c.id = handler[h].id /\ c.row = handler[h].row
      BY <1>1, <3>1 DEF Handler, Steps
    <3> HIDE DEF c
    <3> QED BY <1>1, <3>1, <3>2, <3>3, HandlerSet
  <2> QED BY <2>1, <2>2 DEF FindConflict
<1>4. StoreTypes'
  BY <1>2, <1>3, Assemble, KeepBackfill, KeepWait, KeepHistory DEF StoreTypes, TypeOK
<1>5. UniqueKey'
  BY <1>2 DEF UniqueKey, Present
<1> QED BY <1>4, <1>5

LEMMA FillStep ==
    ASSUME StoreInv, NEW h \in Handlers, Fill(h)
    PROVE  StoreTypes' /\ UniqueKey'
<1> USE DEF StoreInv
<1> DEFINE id == handler[h].other
<1>1. id \in Ids /\ handler[h].upd \in Update
  BY DEF Fill, StoreTypes, TypeOK, HandlersOK
<1>2. UNCHANGED <<backfill, waitVars, history>>
  BY DEF Fill
<1>3. handler' \in [Handlers -> Handler] /\ HandlersOK'
  BY DoneFact, GotoFact DEF Fill, Missing, Steps, Suspended
<1>4. CASE UNCHANGED rows
  <2>1. StoreTypes'
    BY <1>2, <1>3, <1>4, Assemble, KeepBackfill, KeepWait, KeepHistory DEF StoreTypes, TypeOK
  <2>2. UniqueKey'
    BY <1>4 DEF UniqueKey, Present
  <2> QED BY <2>1, <2>2
<1>5. CASE rows[id] # NoRow /\ rows' = [rows EXCEPT ![id].otp = handler[h].upd.otp]
  <2> DEFINE r == [rows[id] EXCEPT !.otp = handler[h].upd.otp]
  <2>1. rows[id] \in Row
    BY <1>1, <1>5 DEF StoreTypes, TypeOK
  <2>2. r \in Row /\ SameKey(r, rows[id])
    BY <1>1, <2>1 DEF Row, Update, SameKey
  <2>3. rows' = [rows EXCEPT ![id] = r]
    BY <1>1, <1>5 DEF StoreTypes, TypeOK
  <2> HIDE DEF r
  <2>4. rows' \in [Ids -> Row \cup {NoRow}] /\ rows'[id] = r /\ \A i \in Ids \ {id} : rows'[i] = rows[i]
    BY <1>1, <2>2, <2>3 DEF StoreTypes, TypeOK
  <2>5. UniqueKey'
    BY <1>5, <2>2, <2>4, SameKeysKeepKeys DEF SameKey
  <2>6. StoreTypes'
    BY <1>2, <1>3, <2>4, Assemble, KeepBackfill, KeepWait, KeepHistory
  <2> QED BY <2>5, <2>6
<1> QED BY <1>4, <1>5 DEF Fill, Missing

LEMMA DeleteStep ==
    ASSUME StoreInv, NEW h \in Handlers, Delete(h)
    PROVE  StoreTypes' /\ UniqueKey'
<1> USE DEF StoreInv
<1>1. UNCHANGED <<backfill, waitVars, history>>
  BY DEF Delete
<1>2. handler' \in [Handlers -> Handler] /\ HandlersOK'
  BY DoneFact DEF Delete, Missing
<1>3. /\ rows' \in [Ids -> Row \cup {NoRow}]
      /\ \A i \in Ids : rows'[i] \in {rows[i], NoRow}
  BY DEF Delete, Missing, StoreTypes, TypeOK
<1>4. UniqueKey'
  BY <1>3, SameKeysKeepKeys DEF SameKey
<1>5. StoreTypes'
  BY <1>1, <1>2, <1>3, Assemble, KeepBackfill, KeepWait, KeepHistory
<1> QED BY <1>4, <1>5

\* A write that checks the key, by a handler that goes on or not.
LEMMA CheckedWrite ==
    ASSUME StoreInv, NEW id \in Ids, NEW r \in Row, ~Taken(r, id), Write(id, r)
    PROVE  /\ rows' \in [Ids -> Row \cup {NoRow}] /\ stored' \subseteq Lines \X Texts
           /\ UniqueKey'
<1>1. rows' \in [Ids -> Row \cup {NoRow}] /\ stored' \subseteq Lines \X Texts
  BY WriteType DEF StoreInv
<1>2. UniqueKey'
  BY WriteKeepsKeys DEF StoreInv, StoreTypes, TypeOK, Write
<1> QED BY <1>1, <1>2

\* Either the table stays, or one row is written.
LEMMA TableStep ==
    ASSUME StoreInv,
           \/ UNCHANGED <<rows, stored>>
           \/ \E id \in Ids, r \in Row : ~Taken(r, id) /\ Write(id, r)
    PROVE  /\ rows' \in [Ids -> Row \cup {NoRow}] /\ stored' \subseteq Lines \X Texts
           /\ UniqueKey'
<1>1. CASE UNCHANGED <<rows, stored>>
  BY <1>1 DEF StoreInv, StoreTypes, TypeOK, UniqueKey, Present
<1>2. CASE \E id \in Ids, r \in Row : ~Taken(r, id) /\ Write(id, r)
  BY <1>2, CheckedWrite
<1> QED BY <1>1, <1>2

LEMMA UpdateRowStep ==
    ASSUME StoreInv, NEW h \in Handlers, UpdateRow(h)
    PROVE  StoreTypes' /\ UniqueKey'
<1> DEFINE c == handler[h]
           new == Updated(rows[c.id], c.upd)
<1>1. c.id \in Ids /\ c.upd \in Update /\ c.at = "update"
  BY DEF UpdateRow, StoreInv, StoreTypes, TypeOK, HandlersOK, Suspended
<1>2. rows[c.id] # NoRow => new \in Row
  BY <1>1, UpdatedType DEF StoreInv, StoreTypes, TypeOK
<1>3. UNCHANGED <<backfill, waitVars, announced, overlapped, disturbed, due>>
  BY DEF UpdateRow
<1>4. handler' \in [Handlers -> Handler] /\ HandlersOK'
  BY <1>1, DoneFact, GotoFact DEF UpdateRow, Missing, Steps, Suspended, StoreInv
<1>5. \/ UNCHANGED <<rows, stored>>
      \/ ~Taken(new, c.id) /\ new \in Row /\ Write(c.id, new)
  BY <1>2 DEF UpdateRow, Missing
<1> HIDE DEF new
<1>6. /\ rows' \in [Ids -> Row \cup {NoRow}] /\ stored' \subseteq Lines \X Texts
      /\ UniqueKey'
  BY <1>1, <1>5, TableStep
<1>7. StoreTypes'
  BY <1>3, <1>4, <1>6, Assemble, KeepBackfill, KeepWait DEF StoreInv, StoreTypes, TypeOK
<1> QED BY <1>6, <1>7

LEMMA UpdateUndatedStep ==
    ASSUME StoreInv, NEW h \in Handlers, UpdateUndated(h)
    PROVE  StoreTypes' /\ UniqueKey'
<1> DEFINE c == handler[h]
           upd == [c.upd EXCEPT !.time = NoTime]
           new == Updated(rows[c.id], upd)
<1>1. c.id \in Ids /\ c.upd \in Update
  BY DEF UpdateUndated, StoreInv, StoreTypes, TypeOK, HandlersOK, Suspended
<1>2. upd \in Update
  BY <1>1 DEF Update
<1>3. rows[c.id] # NoRow => new \in Row
  <2> HIDE DEF upd
  <2> QED BY <1>1, <1>2, UpdatedType DEF StoreInv, StoreTypes, TypeOK
<1>4. UNCHANGED <<backfill, waitVars, announced, overlapped, disturbed, due>>
  BY DEF UpdateUndated
<1>5. handler' \in [Handlers -> Handler] /\ HandlersOK'
  BY DoneFact DEF UpdateUndated, StoreInv
<1>6. \/ UNCHANGED <<rows, stored>>
      \/ ~Taken(new, c.id) /\ new \in Row /\ Write(c.id, new)
  BY <1>3 DEF UpdateUndated
<1> HIDE DEF new
<1>7. /\ rows' \in [Ids -> Row \cup {NoRow}] /\ stored' \subseteq Lines \X Texts
      /\ UniqueKey'
  BY <1>1, <1>6, TableStep
<1>8. StoreTypes'
  BY <1>4, <1>5, <1>7, Assemble, KeepBackfill, KeepWait DEF StoreInv, StoreTypes, TypeOK
<1> QED BY <1>7, <1>8

LEMMA CreateStep ==
    ASSUME StoreInv, NEW h \in Handlers, Create(h)
    PROVE  StoreTypes' /\ UniqueKey'
<1> DEFINE new == NewRow(handler[h].sms)
           id == CHOOSE i \in FreeIds : TRUE
<1>1. handler[h].sms \in Payloads /\ new \in Row
  BY MessageType DEF Create, StoreInv, StoreTypes, HandlersOK
<1>2. UNCHANGED <<backfill, waitVars, announced, overlapped, disturbed, due>>
  BY DEF Create
<1>3. handler' \in [Handlers -> Handler] /\ HandlersOK'
  BY DoneFact, GotoFact DEF Create, Steps, Suspended, StoreInv
<1>4. \/ UNCHANGED <<rows, stored>>
      \/ FreeIds # {} /\ ~Taken(new, NoRow) /\ Write(id, new)
  BY DEF Create
<1> HIDE DEF new
<1>5. FreeIds # {} => id \in Ids
  BY DEF FreeIds
<1>6. ~Taken(new, NoRow) => ~Taken(new, id)
  <2>1. NoRow \notin Present
    BY StoreAssumption DEF Present
  <2> QED BY <2>1 DEF Taken
<1> HIDE DEF id
<1>7. /\ rows' \in [Ids -> Row \cup {NoRow}] /\ stored' \subseteq Lines \X Texts
      /\ UniqueKey'
  BY <1>1, <1>4, <1>5, <1>6, TableStep
<1>8. StoreTypes'
  BY <1>2, <1>3, <1>7, Assemble, KeepBackfill, KeepWait DEF StoreInv, StoreTypes, TypeOK
<1> QED BY <1>7, <1>8

----------------------------------------------------------------------------
(* Waiters.                                                                *)

WaitInv == WaitTypeOK /\ WaitersArmed /\ due \subseteq Clients /\ AnsweredWhenDue

\* Whoever is taken from the list is settled at once.
LEMMA SettleStep ==
    ASSUME WaitInv, NEW cs \in SUBSET waiters, NEW how \in {"answered", "timed out", "lost"},
           RemoveWaiters(cs), Settle(cs, how),
           due' = IF how = "answered" THEN due \cup cs ELSE due
    PROVE  WaitInv'
<1> USE DEF WaitInv
<1>1. \A c \in Clients : outcome'[c] = IF c \in cs THEN how ELSE outcome[c]
  BY DEF Settle, WaitersArmed
<1>2. WaitTypeOK'
  BY DEF WaitTypeOK, RemoveWaiters, Settle, Outcomes
<1>3. WaitersArmed'
  BY <1>1 DEF WaitersArmed, RemoveWaiters, WaitTypeOK
<1>4. AnsweredWhenDue'
  BY <1>1 DEF AnsweredWhenDue, WaitersArmed, WaitTypeOK
<1> QED BY <1>2, <1>3, <1>4 DEF WaitTypeOK

LEMMA WaitStep ==
    ASSUME WaitInv, NEW c \in Clients, Wait(c)
    PROVE  WaitInv'
<1>1. outcome[c] = "none" /\ due' = due
  BY DEF Wait, WaitForOtp, history
<1>2. \A d \in Clients : outcome'[d] = IF d = c THEN "waiting" ELSE outcome[d]
  BY DEF Wait, WaitForOtp, WaitInv, WaitTypeOK
<1>3. WaitTypeOK'
  BY DEF WaitInv, WaitTypeOK, Wait, WaitForOtp, Outcomes
<1>4. WaitersArmed'
  BY <1>2 DEF WaitInv, WaitersArmed, Wait, WaitForOtp
<1>5. AnsweredWhenDue'
  BY <1>1, <1>2 DEF WaitInv, AnsweredWhenDue
<1> QED BY <1>1, <1>3, <1>4, <1>5 DEF WaitInv

LEMMA ExpireStep ==
    ASSUME WaitInv, NEW c \in Clients, Expire(c)
    PROVE  WaitInv'
<1>1. {c} \in SUBSET waiters /\ RemoveWaiters({c}) /\ Settle({c}, "timed out") /\ due' = due
  BY DEF Expire, TimesOut, WaitInv, WaitersArmed, history
<1> QED BY <1>1, SettleStep

LEMMA ResetWait ==
    ASSUME WaitInv, Reset
    PROVE  WaitInv'
<1>1. due' = due /\ waiters' = {} /\ armed' = {}
  BY DEF Reset, LoseWaiters, history
<1>2. \A c \in Clients : outcome'[c] = IF outcome[c] = "waiting" THEN "lost" ELSE outcome[c]
  BY DEF Reset, LoseWaiters, Settle
<1>3. WaitTypeOK'
  BY <1>1 DEF WaitInv, WaitTypeOK, Reset, LoseWaiters, Settle, Outcomes
<1>4. WaitersArmed'
  BY <1>1, <1>2 DEF WaitersArmed
<1>5. AnsweredWhenDue'
  BY <1>1, <1>2 DEF WaitInv, AnsweredWhenDue
<1> QED BY <1>1, <1>3, <1>4, <1>5 DEF WaitInv

LEMMA AnnounceWait ==
    ASSUME WaitInv, NEW h \in Handlers, Announce(h)
    PROVE  WaitInv'
<1> DEFINE p == LinePort[handler[h].sms.line]
<1>1. HandleOtpReceived(p) /\ due' = due \cup {c \in Clients : outcome[c] = "waiting" /\ Asks(c, p)}
  BY DEF Announce
<1> HIDE DEF p
<1>2. Answered(p) \in SUBSET waiters /\ Answered(p) = {c \in Clients : outcome[c] = "waiting" /\ Asks(c, p)}
  BY DEF Answered, WaitInv, WaitersArmed
<1> QED BY <1>1, <1>2, SettleStep DEF HandleOtpReceived

LEMMA KeepWaitInv ==
    ASSUME WaitInv, UNCHANGED waitVars, due' = due
    PROVE  WaitInv'
BY DEF WaitInv, WaitTypeOK, WaitersArmed, AnsweredWhenDue, waitVars

----------------------------------------------------------------------------
(* The remaining actions.                                                  *)

LEMMA AnnounceStep ==
    ASSUME StoreInv, NEW h \in Handlers, Announce(h)
    PROVE  StoreTypes' /\ UniqueKey'
<1> USE DEF StoreInv
<1>1. WaitTypeOK' /\ due' \subseteq Clients
  BY AnnounceWait DEF WaitInv, StoreTypes, TypeOK
<1>2. handler' \in [Handlers -> Handler] /\ HandlersOK'
  BY DoneFact DEF Announce
<1>3. announced' \in [Lines \X Texts -> 0 .. 2]
  <2>1. \A k \in Lines \X Texts : announced[k] \in 0 .. 2
    BY DEF StoreTypes, TypeOK
  <2>2. \A n \in 0 .. 2 : (IF n = 2 THEN 2 ELSE n + 1) \in 0 .. 2
    OBVIOUS
  <2> QED BY <2>1, <2>2 DEF Announce, StoreTypes, TypeOK
<1>4. UNCHANGED <<rows, backfill, overlapped, disturbed, stored>>
  BY DEF Announce
<1>5. StoreTypes'
  BY <1>1, <1>2, <1>3, <1>4, Assemble, KeepBackfill DEF StoreTypes, TypeOK
<1>6. UniqueKey'
  BY <1>4 DEF UniqueKey, Present
<1> QED BY <1>5, <1>6

LEMMA BackfillReadStep ==
    ASSUME StoreInv, BackfillRead
    PROVE  StoreTypes' /\ UniqueKey'
<1> USE DEF StoreInv
<1>1. UNCHANGED <<rows, handler, waitVars, history>>
  BY DEF BackfillRead
<1> DEFINE todo == {t \in [id : Present, row : {rows[id] : id \in Present}] :
                      t.row = rows[t.id] /\ NeedsBackfill(t.row)}
<1>2. backfill' = [backfill EXCEPT !.read = TRUE, !.todo = todo] /\ backfill.stage # "over"
  BY DEF BackfillRead
<1>3. \A id \in Present : id \in Ids /\ rows[id] \in Row
  BY DEF Present, StoreTypes, TypeOK
<1>4. todo \in SUBSET [id : Ids, row : Row]
  BY <1>3
<1>5. backfill.stage = "dates" => \A t \in todo : Corrected[t.row.time] \in Times
  <2>1. ASSUME backfill.stage = "dates", NEW t \in todo PROVE Corrected[t.row.time] \in Times
    <3>1. t.row \in Row
      BY <1>4
    <3>2. NeedsBackfill(t.row)
      OBVIOUS
    <3>3. Corrected[t.row.time] # NoTime
      BY <2>1, <3>2 DEF NeedsBackfill
    <3> QED BY <3>1, <3>3, StoreAssumption DEF Row
  <2> QED BY <2>1
<1> HIDE DEF todo
<1>6. /\ backfill' \in [stage : Stages, read : BOOLEAN, todo : SUBSET [id : Ids, row : Row]]
      /\ backfill'.stage = backfill.stage /\ backfill'.todo = todo
  BY <1>2, <1>4 DEF StoreTypes, TypeOK
<1>7. BackfillOK'
  BY <1>2, <1>5, <1>6 DEF BackfillOK
<1>8. StoreTypes'
  BY <1>1, <1>6, <1>7, Assemble, KeepHandlers, KeepWait, KeepHistory DEF StoreTypes, TypeOK
<1>9. UniqueKey'
  BY <1>1 DEF UniqueKey, Present
<1> QED BY <1>8, <1>9

LEMMA UnreadType ==
    ASSUME NEW stage \in Stages
    PROVE  /\ Unread(stage) \in [stage : Stages, read : BOOLEAN, todo : SUBSET [id : Ids, row : Row]]
           /\ Unread(stage).todo = {} /\ ~Unread(stage).read
BY DEF Unread

LEMMA BackfillNextStep ==
    ASSUME StoreInv, BackfillNext
    PROVE  StoreTypes' /\ UniqueKey'
<1> USE DEF StoreInv
<1>1. UNCHANGED <<rows, handler, waitVars, history>>
  BY DEF BackfillNext
<1>2. backfill.stage \in {"hex", "dates", "otps"}
  BY DEF BackfillNext, StoreTypes, BackfillOK, TypeOK, Stages
<1>3. NextStage[backfill.stage] \in Stages
  BY <1>2 DEF NextStage, Stages
<1>4. /\ backfill' \in [stage : Stages, read : BOOLEAN, todo : SUBSET [id : Ids, row : Row]]
      /\ BackfillOK'
  BY <1>3, UnreadType DEF BackfillNext, BackfillOK
<1>5. StoreTypes'
  BY <1>1, <1>4, Assemble, KeepHandlers, KeepWait, KeepHistory DEF StoreTypes, TypeOK
<1>6. UniqueKey'
  BY <1>1 DEF UniqueKey, Present
<1> QED BY <1>5, <1>6

LEMMA BackfillRowStep ==
    ASSUME StoreInv, BackfillRow
    PROVE  StoreTypes' /\ UniqueKey'
<1> USE DEF StoreInv
<1>1. PICK t \in backfill.todo :
        /\ backfill' = [backfill EXCEPT !.todo = @ \ {t}]
        /\ \/ Skipped(t) /\ UNCHANGED <<rows, stored>>
           \/ /\ rows[t.id] # NoRow
              /\ ~Collides(t)
              /\ Write(t.id, Backfilled(rows[t.id], t.row))
  BY DEF BackfillRow
<1>2. UNCHANGED <<handler, waitVars, announced, overlapped, disturbed, due>>
  BY DEF BackfillRow
<1>3. t.id \in Ids
  BY DEF StoreTypes, TypeOK
<1> DEFINE new == Backfilled(rows[t.id], t.row)
<1>4. rows[t.id] # NoRow => new \in Row
  BY <1>3, BackfilledType DEF StoreTypes, TypeOK
<1>5. \/ UNCHANGED <<rows, stored>>
      \/ ~Taken(new, t.id) /\ new \in Row /\ Write(t.id, new)
  BY <1>1, <1>4 DEF Collides
<1> HIDE DEF new
<1>6. /\ rows' \in [Ids -> Row \cup {NoRow}] /\ stored' \subseteq Lines \X Texts
      /\ UniqueKey'
  BY <1>3, <1>5, TableStep
<1>7. /\ backfill' \in [stage : Stages, read : BOOLEAN, todo : SUBSET [id : Ids, row : Row]]
      /\ backfill'.stage = backfill.stage /\ backfill'.read = backfill.read
      /\ backfill'.todo \subseteq backfill.todo
  BY <1>1 DEF StoreTypes, TypeOK
<1>8. BackfillOK'
  BY <1>7 DEF StoreTypes, BackfillOK
<1>9. StoreTypes'
  BY <1>2, <1>6, <1>7, <1>8, Assemble, KeepHandlers, KeepWait DEF StoreTypes, TypeOK
<1> QED BY <1>6, <1>9

LEMMA ResetStep ==
    ASSUME StoreInv, Reset
    PROVE  StoreTypes' /\ UniqueKey'
<1> USE DEF StoreInv
<1>1. UNCHANGED <<rows, history>>
  BY DEF Reset
<1>2. handler' \in [Handlers -> Handler] /\ HandlersOK'
  BY IdleType DEF Reset, HandlersOK, Suspended
<1>3. /\ backfill' \in [stage : Stages, read : BOOLEAN, todo : SUBSET [id : Ids, row : Row]]
      /\ BackfillOK'
  BY UnreadType DEF Reset, BackfillOK, Stages
<1>4. WaitTypeOK'
  BY ResetWait DEF WaitInv, StoreTypes, TypeOK
<1>5. StoreTypes'
  BY <1>1, <1>2, <1>3, <1>4, Assemble, KeepHistory DEF StoreTypes, TypeOK
<1>6. UniqueKey'
  BY <1>1 DEF UniqueKey, Present
<1> QED BY <1>5, <1>6

LEMMA ClientStep ==
    ASSUME StoreInv, NEW c \in Clients, Wait(c) \/ Expire(c)
    PROVE  StoreTypes' /\ UniqueKey'
<1> USE DEF StoreInv
<1>1. UNCHANGED <<rows, handler, backfill, history>>
  BY DEF Wait, Expire, storeVars
<1>2. WaitTypeOK'
  BY WaitStep, ExpireStep DEF WaitInv, StoreTypes, TypeOK
<1>3. StoreTypes'
  BY <1>1, <1>2, Assemble, KeepHandlers, KeepBackfill, KeepHistory DEF StoreTypes, TypeOK
<1>4. UniqueKey'
  BY <1>1 DEF UniqueKey, Present
<1> QED BY <1>3, <1>4

----------------------------------------------------------------------------
LEMMA StoreInit == ASSUME Init PROVE StoreInv
<1>1. PICK ids \in SUBSET Ids : rows = [id \in Ids |-> IF id \in ids THEN Legacy[id] ELSE NoRow]
  BY DEF Init
<1>2. rows \in [Ids -> Row \cup {NoRow}]
  BY <1>1, StoreAssumption
<1>3. \A id \in Present : rows[id] \in Row
  BY <1>2 DEF Present
<1>4. overlapped \subseteq Lines /\ disturbed \subseteq Lines /\ stored \subseteq Lines \X Texts
  <2>1. \A id \in Present : rows[id].line \in Lines /\ rows[id].text \in Texts
    BY <1>3 DEF Row
  <2>2. overlapped = {} /\ disturbed = {rows[id].line : id \in Present}
    BY DEF Init
  <2>3. stored = {<<rows[id].line, rows[id].text>> : id \in Present}
    BY DEF Init
  <2> QED BY <2>1, <2>2, <2>3
<1>5. handler \in [Handlers -> Handler] /\ HandlersOK
  BY IdleType DEF Init, HandlersOK, Suspended
<1>6. /\ backfill \in [stage : Stages, read : BOOLEAN, todo : SUBSET [id : Ids, row : Row]]
      /\ BackfillOK
  BY UnreadType DEF Init, BackfillOK, Stages
<1>7. WaitTypeOK /\ WaitersArmed /\ AnsweredWhenDue
  BY DEF Init, WaitInit, WaitTypeOK, WaitersArmed, AnsweredWhenDue, Outcomes
<1>8. announced \in [Lines \X Texts -> 0 .. 2] /\ due \subseteq Clients
  BY DEF Init
<1> QED BY <1>2, <1>4, <1>5, <1>6, <1>7, <1>8 DEF StoreInv, StoreTypes, TypeOK, Handler, Init

LEMMA StoreStep == ASSUME StoreInv, [Next]_vars PROVE StoreInv'
<1>1. StoreTypes' /\ UniqueKey'
  <2>1. ASSUME NEW h \in Handlers, NEW sms \in Payloads, Receive(h, sms) PROVE StoreTypes' /\ UniqueKey'
    BY <2>1, ReceiveStep
  <2>2. ASSUME NEW h \in Handlers, Handle(h) PROVE StoreTypes' /\ UniqueKey'
    BY <2>2, FindRowStep, FindNoneStep, FindConflictStep, FillStep, DeleteStep, UpdateRowStep,
       UpdateUndatedStep, CreateStep, AnnounceStep DEF Handle
  <2>3. ASSUME NEW c \in Clients, Wait(c) \/ Expire(c) PROVE StoreTypes' /\ UniqueKey'
    BY <2>3, ClientStep
  <2>4. ASSUME BackfillRead \/ BackfillRow \/ BackfillNext PROVE StoreTypes' /\ UniqueKey'
    BY <2>4, BackfillReadStep, BackfillRowStep, BackfillNextStep
  <2>5. ASSUME BackfillFails \/ Restart PROVE StoreTypes' /\ UniqueKey'
    BY <2>5, ResetStep DEF BackfillFails, Restart
  <2>6. CASE UNCHANGED vars
    <3>1. UNCHANGED <<rows, handler, backfill, waitVars, history>>
      BY <2>6 DEF vars, storeVars
    <3>2. StoreTypes'
      BY <3>1, Assemble, KeepHandlers, KeepBackfill, KeepWait, KeepHistory DEF StoreInv, StoreTypes, TypeOK
    <3>3. UniqueKey'
      BY <3>1 DEF StoreInv, UniqueKey, Present
    <3> QED BY <3>2, <3>3
  <2> QED BY <2>1, <2>2, <2>3, <2>4, <2>5, <2>6 DEF Next
<1>2. WaitInv
  BY DEF StoreInv, WaitInv, StoreTypes, TypeOK
<1>3. WaitInv'
  <2>1. ASSUME NEW h \in Handlers, Announce(h) PROVE WaitInv'
    BY <1>2, <2>1, AnnounceWait
  <2>2. ASSUME NEW h \in Handlers, Handle(h), ~Announce(h) PROVE UNCHANGED waitVars /\ due' = due
    BY <2>2 DEF Handle, FindRow, FindNone, FindConflict, Fill, Delete, UpdateRow, UpdateUndated, Create, history
  <2>3. ASSUME NEW h \in Handlers, NEW sms \in Payloads, Receive(h, sms) PROVE UNCHANGED waitVars /\ due' = due
    BY <2>3 DEF Receive
  <2>4. ASSUME BackfillRead \/ BackfillRow \/ BackfillNext PROVE UNCHANGED waitVars /\ due' = due
    BY <2>4 DEF BackfillRead, BackfillRow, BackfillNext, history
  <2>5. ASSUME NEW c \in Clients, Wait(c) \/ Expire(c) PROVE WaitInv'
    BY <1>2, <2>5, WaitStep, ExpireStep
  <2>6. ASSUME BackfillFails \/ Restart PROVE WaitInv'
    BY <1>2, <2>6, ResetWait DEF BackfillFails, Restart
  <2>7. CASE UNCHANGED vars
    BY <1>2, <2>7, KeepWaitInv DEF vars, history
  <2> QED BY <1>2, <2>1, <2>2, <2>3, <2>4, <2>5, <2>6, <2>7, KeepWaitInv DEF Next
<1> QED BY <1>1, <1>3 DEF StoreInv, WaitInv

----------------------------------------------------------------------------
(* Quiet lines: no two handlers were under way at once on them, and no row   *)
(* of an earlier version was there.                                          *)

\* decodeSmsBody leaves no text that still looks like UCS2 in hex.
PlainTexts == \A sms \in Payloads : Message(sms) \notin Hex

\* Two handlers are never under way on a line that counts as quiet.
Alone ==
    \A g, h \in Handlers :
        /\ g # h
        /\ handler[g].at # "idle"
        /\ handler[h].at # "idle"
        /\ handler[g].sms.line = handler[h].sms.line
        => handler[h].sms.line \in disturbed

\* What a handler knows.  A row keeps its line, so a handler writes only to its
\* own; on a quiet line the row it holds is still there with the text that it
\* had, there is no other copy to merge with, a text that is about to be created
\* is not in the table, and one that is about to be announced never was.
Knows(h) ==
    LET c == handler[h]
        quiet == c.sms.line \notin disturbed
    IN
    /\ c.at \in Suspended =>
         /\ c.row.line = c.sms.line
         /\ rows[c.id] # NoRow => rows[c.id].line = c.sms.line
         /\ c.at = "fill" /\ rows[c.other] # NoRow => rows[c.other].line = c.sms.line
         /\ quiet => /\ c.at \in {"conflict", "update"}
                     /\ c.upd.text = NoText
                     /\ rows[c.id] # NoRow
                     /\ rows[c.id].text = c.row.text
    /\ c.at = "create" /\ quiet =>
         \A i \in Present : rows[i].line = c.sms.line => rows[i].text # Message(c.sms)
    /\ c.at = "announce" /\ quiet =>
         /\ <<c.sms.line, Message(c.sms)>> \in stored
         /\ announced[<<c.sms.line, Message(c.sms)>>] = 0

\* A backfill writes to the line whose row it has read, and only the lines with
\* legacy rows have texts in hex.
TodoKnows ==
    \A t \in backfill.todo :
        /\ rows[t.id] # NoRow => rows[t.id].line = t.row.line
        /\ backfill.stage = "hex" => t.row.line \in disturbed

RowsPlain == \A i \in Present : rows[i].line \notin disturbed => rows[i].text \notin Hex

AnnouncedStored ==
    \A k \in Lines \X Texts : k[1] \notin disturbed /\ announced[k] # 0 => k \in stored

QuietKept ==
    \A k \in stored : k[1] \notin disturbed
        => \E i \in Present : rows[i].line = k[1] /\ rows[i].text = k[2]

\* The inductive invariant of the two properties of quiet lines.
QuietInv ==
    /\ Alone
    /\ \A h \in Handlers : Knows(h)
    /\ TodoKnows
    /\ RowsPlain
    /\ AnnouncedStored
    /\ OneRowPerText
    /\ QuietKept
    /\ AnnouncedOnce

\* The table keeps rows, lines and, on quiet lines, texts; what is stored anew
\* is in the table.
Steady ==
    /\ \A i \in Ids :
         /\ rows'[i] # NoRow => rows[i] # NoRow /\ rows'[i].line = rows[i].line
         /\ rows[i] # NoRow /\ rows[i].line \notin disturbed
              => rows'[i] # NoRow /\ rows'[i].text = rows[i].text
    /\ stored \subseteq stored'
    /\ \A k \in stored' \ stored :
         \E i \in Ids : rows'[i] # NoRow /\ k = <<rows'[i].line, rows'[i].text>>

\* The same row, or one with its line and, on a quiet line, its text.
LEMMA SteadyWrite ==
    ASSUME StoreTypes, NEW id \in Ids, NEW r \in Row, rows[id] # NoRow, r.line = rows[id].line,
           rows[id].line \notin disturbed => r.text = rows[id].text, Write(id, r)
    PROVE  Steady
<1>1. rows'[id] = r /\ r # NoRow /\ \A i \in Ids \ {id} : rows'[i] = rows[i]
  BY StoreAssumption DEF Write, StoreTypes, TypeOK
<1>2. stored' = stored \cup {<<r.line, r.text>>}
  BY DEF Write
<1>3. \A k \in stored' \ stored : k = <<rows'[id].line, rows'[id].text>>
  BY <1>1, <1>2
<1> QED BY <1>1, <1>2, <1>3 DEF Steady

LEMMA SteadyTable == ASSUME UNCHANGED <<rows, stored>> PROVE Steady
BY DEF Steady

\* What a steady step does to the parts of QuietInv that no handler speaks of.
LEMMA SteadyRows ==
    ASSUME QuietInv, Steady, disturbed \subseteq disturbed', announced' = announced
    PROVE  RowsPlain' /\ AnnouncedStored' /\ OneRowPerText' /\ QuietKept' /\ AnnouncedOnce'
<1>1. RowsPlain' /\ OneRowPerText'
  BY DEF QuietInv, Steady, RowsPlain, OneRowPerText, Present
<1>2. AnnouncedStored' /\ AnnouncedOnce'
  BY DEF QuietInv, Steady, AnnouncedStored, AnnouncedOnce
<1>3. QuietKept'
  <2> SUFFICES ASSUME NEW k \in stored', k[1] \notin disturbed'
               PROVE  \E i \in Present' : rows'[i].line = k[1] /\ rows'[i].text = k[2]
    BY DEF QuietKept
  <2>1. CASE k \in stored
    <3>1. PICK i \in Present : rows[i].line = k[1] /\ rows[i].text = k[2]
      BY <2>1 DEF QuietInv, QuietKept
    <3>2. rows'[i] # NoRow /\ rows'[i].line = k[1] /\ rows'[i].text = k[2] /\ i \in Ids
      BY <3>1 DEF Steady, Present
    <3> QED BY <3>2 DEF Present
  <2>2. CASE k \notin stored
    <3>1. PICK i \in Ids : rows'[i] # NoRow /\ k = <<rows'[i].line, rows'[i].text>>
      BY <2>2 DEF Steady
    <3> QED BY <3>1 DEF Present
  <2> QED BY <2>1, <2>2
<1> QED BY <1>1, <1>2, <1>3

\* A handler that does not move, or ends, knows what it knew.
LEMMA SteadyKnows ==
    ASSUME StoreTypes, QuietInv, Steady, disturbed \subseteq disturbed', announced' = announced,
           NEW h \in Handlers, handler'[h] = handler[h] \/ handler'[h].at = "idle"
    PROVE  Knows(h)'
<1>1. CASE handler'[h].at = "idle"
  BY <1>1 DEF Knows, Suspended
<1>2. CASE handler'[h] = handler[h]
  <2> DEFINE c == handler[h]
  <2>1. Knows(h)
    BY DEF QuietInv
  <2>2. c.at \in Suspended => c.id \in Ids
    BY DEF StoreTypes, HandlersOK
  <2>3. c.at = "fill" => c.other \in Ids
    BY DEF StoreTypes, HandlersOK
  <2>4. \A i \in Present' : i \in Present /\ rows'[i].line = rows[i].line
    BY DEF Steady, Present
  <2>5. \A i \in Present' : rows[i].line \notin disturbed => rows'[i].text = rows[i].text
    BY <2>4 DEF Steady, Present
  <2> HIDE DEF c
  <2>6. handler'[h] = c
    BY <1>2 DEF c
  <2>7. c.at \in Suspended =>
          /\ c.row.line = c.sms.line
          /\ rows'[c.id] # NoRow => rows'[c.id].line = c.sms.line
          /\ c.at = "fill" /\ rows'[c.other] # NoRow => rows'[c.other].line = c.sms.line
    BY <2>1, <2>2, <2>3 DEF Knows, Steady, c
  <2>8. c.at \in Suspended /\ c.sms.line \notin disturbed' =>
          /\ c.at \in {"conflict", "update"} /\ c.upd.text = NoText
          /\ rows'[c.id] # NoRow /\ rows'[c.id].text = c.row.text
    BY <2>1, <2>2 DEF Knows, Steady, c
  <2>9. c.at = "create" /\ c.sms.line \notin disturbed' =>
          \A i \in Present' : rows'[i].line = c.sms.line => rows'[i].text # Message(c.sms)
    BY <2>1, <2>4, <2>5 DEF Knows, c
  <2>10. c.at = "announce" /\ c.sms.line \notin disturbed' =>
          /\ <<c.sms.line, Message(c.sms)>> \in stored'
          /\ announced'[<<c.sms.line, Message(c.sms)>>] = 0
    BY <2>1 DEF Knows, Steady, c
  <2> QED BY <2>6, <2>7, <2>8, <2>9, <2>10 DEF Knows, Message
<1> QED BY <1>1, <1>2

LEMMA SteadyTodo ==
    ASSUME StoreTypes, QuietInv, Steady, disturbed \subseteq disturbed',
           backfill'.stage = backfill.stage, backfill'.todo \subseteq backfill.todo
    PROVE  TodoKnows'
<1>1. \A t \in backfill.todo : t.id \in Ids
  BY DEF StoreTypes, TypeOK
<1> QED BY <1>1 DEF QuietInv, TodoKnows, Steady

\* No other handler starts, and nobody gets another SMS.
LEMMA StillAlone ==
    ASSUME QuietInv, disturbed \subseteq disturbed',
           \A g \in Handlers : handler'[g].at # "idle" =>
               handler[g].at # "idle" /\ handler'[g].sms = handler[g].sms
    PROVE  Alone'
BY DEF QuietInv, Alone

\* A step of one handler which leaves the table steady.
LEMMA SteadyHandler ==
    ASSUME StoreTypes, QuietInv, Steady, UNCHANGED <<disturbed, announced, backfill>>,
           NEW h \in Handlers, handler[h].at # "idle",
           \A g \in Handlers \ {h} : handler'[g] = handler[g],
           handler'[h].at # "idle" => handler'[h].sms = handler[h].sms,
           Knows(h)'
    PROVE  QuietInv'
<1>1. \A g \in Handlers : Knows(g)'
  BY SteadyKnows
<1>2. Alone'
  BY StillAlone
<1>3. TodoKnows'
  BY SteadyTodo
<1> QED BY <1>1, <1>2, <1>3, SteadyRows DEF QuietInv

\* A handler that ends.
LEMMA QuietDone ==
    ASSUME StoreTypes, QuietInv, Steady, UNCHANGED <<disturbed, announced, backfill>>,
           NEW h \in Handlers, handler[h].at # "idle", Done(h)
    PROVE  QuietInv'
<1>1. handler'[h].at = "idle" /\ \A g \in Handlers \ {h} : handler'[g] = handler[g]
  BY DEF Done, Idle, StoreTypes, TypeOK
<1>2. Knows(h)'
  BY <1>1, SteadyKnows
<1> QED BY <1>1, <1>2, SteadyHandler

----------------------------------------------------------------------------
(* The actions of a handler.                                               *)

LEMMA QuietReceive ==
    ASSUME StoreTypes, QuietInv, NEW h \in Handlers, NEW sms \in Payloads, Receive(h, sms)
    PROVE  QuietInv'
<1>1. /\ handler[h].at = "idle" /\ handler'[h].at = "find" /\ handler'[h].sms = sms
      /\ \A g \in Handlers \ {h} : handler'[g] = handler[g]
  BY DEF Receive, StoreTypes, TypeOK
<1>2. Steady /\ disturbed \subseteq disturbed' /\ announced' = announced
  BY SteadyTable DEF Receive
<1>3. \A g \in Handlers : Knows(g)'
  <2>1. Knows(h)'
    BY <1>1 DEF Knows, Suspended
  <2> QED BY <1>1, <1>2, <2>1, SteadyKnows
<1>4. Alone'
  <2>1. ASSUME NEW g \in Handlers \ {h}, handler[g].at # "idle", handler[g].sms.line = sms.line
        PROVE  sms.line \in disturbed'
    BY <2>1 DEF Receive
  <2> QED BY <1>1, <1>2, <2>1 DEF QuietInv, Alone
<1>5. TodoKnows'
  BY <1>2, SteadyTodo DEF Receive
<1> QED BY <1>2, <1>3, <1>4, <1>5, SteadyRows DEF QuietInv

LEMMA QuietFindRow ==
    ASSUME StoreTypes, QuietInv, NEW h \in Handlers, FindRow(h)
    PROVE  QuietInv'
<1>1. handler[h].at = "find" /\ Steady /\ UNCHANGED <<rows, disturbed, announced, backfill>>
  BY SteadyTable DEF FindRow, history
<1>2. CASE Done(h)
  BY <1>1, <1>2, QuietDone
<1>3. CASE ~Done(h)
  <2> DEFINE sms == handler[h].sms
  <2>1. PICK id \in Matching(sms) :
          handler' = [handler EXCEPT ![h] =
             [@ EXCEPT !.at = IF Updates(sms, rows[id]).time # NoTime THEN "conflict" ELSE "update",
                       !.id = id, !.row = rows[id], !.upd = Updates(sms, rows[id])]]
    BY <1>3 DEF FindRow
  <2>2. /\ handler'[h].at \in {"conflict", "update"}
        /\ handler'[h].sms = sms /\ handler'[h].id = id /\ handler'[h].row = rows[id]
        /\ handler'[h].upd = Updates(sms, rows[id])
        /\ \A g \in Handlers \ {h} : handler'[g] = handler[g]
    BY <2>1 DEF StoreTypes, TypeOK
  <2>3. id \in Present /\ rows[id].line = sms.line
    BY DEF Matching
  <2>4. sms.line \notin disturbed => Updates(sms, rows[id]).text = NoText
    BY <2>3 DEF Updates, NewText, QuietInv, RowsPlain
  <2> HIDE DEF sms
  <2>5. Knows(h)'
    BY <1>1, <2>2, <2>3, <2>4 DEF Knows, Present
  <2> QED BY <1>1, <2>2, <2>5, SteadyHandler DEF sms
<1> QED BY <1>2, <1>3

LEMMA QuietFindNone ==
    ASSUME StoreTypes, QuietInv, NEW h \in Handlers, FindNone(h)
    PROVE  QuietInv'
<1>1. handler[h].at = "find" /\ Steady /\ UNCHANGED <<rows, disturbed, announced, backfill>>
  BY SteadyTable DEF FindNone, history
<1>2. /\ handler'[h].at = "create" /\ handler'[h].sms = handler[h].sms
      /\ \A g \in Handlers \ {h} : handler'[g] = handler[g]
  BY DEF FindNone, Goto, StoreTypes, TypeOK
<1>3. \A i \in Present : rows[i].line = handler[h].sms.line => rows[i].text # Message(handler[h].sms)
  BY DEF FindNone, Matching
<1>4. Present' = Present
  BY <1>1 DEF Present
<1>5. Knows(h)'
  BY <1>1, <1>2, <1>3, <1>4 DEF Knows, Suspended, Message
<1> QED BY <1>1, <1>2, <1>5, SteadyHandler

LEMMA QuietFindConflict ==
    ASSUME StoreTypes, QuietInv, NEW h \in Handlers, FindConflict(h)
    PROVE  QuietInv'
<1> DEFINE c == handler[h]
<1>1. c.at = "conflict" /\ Steady /\ UNCHANGED <<rows, disturbed, announced, backfill>>
  BY SteadyTable DEF FindConflict, history
<1>2. Knows(h) /\ c.id \in Ids /\ c.at \in Suspended
  BY <1>1 DEF QuietInv, StoreTypes, HandlersOK, Suspended
<1>3. c.sms.line \notin disturbed => Conflict(c) = {}
  <2> SUFFICES ASSUME c.sms.line \notin disturbed, NEW id \in Conflict(c) PROVE FALSE
    OBVIOUS
  <2>1. /\ id \in Present /\ id # c.id
        /\ rows[id].line = c.row.line /\ rows[id].text = TextAfter(c)
    BY DEF Conflict, SameKey
  <2>2. /\ c.id \in Present /\ TextAfter(c) = rows[c.id].text /\ c.row.line = c.sms.line
        /\ rows[c.id].line = c.sms.line
    BY <1>2 DEF Knows, TextAfter, Present
  <2> HIDE DEF c
  <2> QED BY <2>1, <2>2 DEF QuietInv, OneRowPerText
<1>4. /\ handler'[h].sms = c.sms /\ handler'[h].id = c.id /\ handler'[h].row = c.row
      /\ handler'[h].upd = c.upd
      /\ \A g \in Handlers \ {h} : handler'[g] = handler[g]
      /\ \/ handler'[h].at = "update"
         \/ /\ handler'[h].at \in {"fill", "delete"}
            /\ handler'[h].other \in Conflict(c)
  <2>1. CASE Goto(h, "update")
    BY <2>1 DEF Goto, StoreTypes, TypeOK
  <2>2. ASSUME NEW id \in Conflict(c), NEW next \in {"fill", "delete"},
               handler' = [handler EXCEPT ![h].at = next, ![h].other = id]
        PROVE  /\ handler'[h].sms = c.sms /\ handler'[h].id = c.id /\ handler'[h].row = c.row
               /\ handler'[h].upd = c.upd
               /\ \A g \in Handlers \ {h} : handler'[g] = handler[g]
               /\ handler'[h].at = next /\ handler'[h].other = id
    BY <2>2 DEF StoreTypes, TypeOK
  <2> QED BY <2>1, <2>2 DEF FindConflict
<1>5. \A id \in Conflict(c) : rows[id].line = c.sms.line
  BY <1>2 DEF Conflict, SameKey, Knows
<1> HIDE DEF c
<1>6. Knows(h)'
  BY <1>1, <1>2, <1>3, <1>4, <1>5 DEF Knows, c, Suspended
<1> QED BY <1>1, <1>4, <1>6, SteadyHandler DEF c

\* Merges only happen on lines that are not quiet.
LEMMA QuietMerge ==
    ASSUME StoreTypes, QuietInv, NEW h \in Handlers, Fill(h) \/ Delete(h)
    PROVE  QuietInv'
<1> DEFINE c == handler[h]
<1>1. c.at \in {"fill", "delete"} /\ UNCHANGED <<disturbed, announced, backfill, stored>>
  BY DEF Fill, Delete, history
<1>2. Knows(h) /\ c.at \in Suspended /\ c.id \in Ids /\ c.sms.line \in disturbed
  BY <1>1 DEF QuietInv, StoreTypes, HandlersOK, Suspended, Knows
<1>3. CASE Fill(h) /\ ~Done(h)
  <2>1. /\ c.at = "fill" /\ rows[c.other] # NoRow /\ c.other \in Ids
        /\ rows' = [rows EXCEPT ![c.other].otp = c.upd.otp]
        /\ Goto(h, "delete")
    BY <1>3 DEF Fill, Missing, StoreTypes, HandlersOK
  <2>2. rows[c.other] \in Row
    BY <2>1 DEF StoreTypes, TypeOK
  <2>3. /\ rows'[c.other] # NoRow
        /\ rows'[c.other].line = rows[c.other].line /\ rows'[c.other].text = rows[c.other].text
        /\ \A i \in Ids \ {c.other} : rows'[i] = rows[i]
    <3>1. rows'[c.other] = [rows[c.other] EXCEPT !.otp = c.upd.otp]
      BY <2>1 DEF StoreTypes, TypeOK
    <3>2. c.upd.otp \in Otps \cup {NoOtp}
      BY DEF StoreTypes, TypeOK, Update
    <3>3. rows'[c.other] \in Row
      BY <2>2, <3>1, <3>2 DEF Row
    <3> QED BY <2>1, <2>2, <3>1, <3>3, StoreAssumption DEF StoreTypes, TypeOK, Row
  <2>4. Steady
    BY <1>1, <2>1, <2>3 DEF Steady
  <2>5. /\ handler'[h].at = "delete" /\ handler'[h].sms = c.sms /\ handler'[h].id = c.id
        /\ handler'[h].row = c.row
        /\ \A g \in Handlers \ {h} : handler'[g] = handler[g]
    BY <2>1 DEF Goto, StoreTypes, TypeOK
  <2> HIDE DEF c
  <2>6. Knows(h)'
    BY <1>1, <1>2, <2>3, <2>4, <2>5 DEF Knows, Steady, c
  <2> QED BY <1>1, <2>4, <2>5, <2>6, SteadyHandler DEF c
<1>4. CASE Done(h)
  <2>1. \/ UNCHANGED rows
        \/ c.at = "delete" /\ rows[c.id] # NoRow /\ rows' = [rows EXCEPT ![c.id] = NoRow]
    <3>1. CASE Fill(h)
      <4>1. Goto(h, "delete") => ~Done(h)
        BY DEF Goto, Done, Idle, StoreTypes, TypeOK
      <4> QED BY <1>4, <3>1, <4>1 DEF Fill, Missing
    <3>2. CASE Delete(h)
      BY <3>2 DEF Delete, Missing
    <3> QED BY <3>1, <3>2
  <2>2. Steady
    <3>1. CASE UNCHANGED rows
      BY <1>1, <3>1, SteadyTable
    <3>2. CASE rows[c.id] # NoRow /\ rows' = [rows EXCEPT ![c.id] = NoRow]
      <4>1. rows[c.id].line \in disturbed
        BY <1>2, <3>2 DEF Knows
      <4>2. rows'[c.id] = NoRow /\ \A i \in Ids \ {c.id} : rows'[i] = rows[i]
        BY <1>2, <3>2 DEF StoreTypes, TypeOK
      <4> HIDE DEF c
      <4> QED BY <1>1, <4>1, <4>2 DEF Steady
    <3> QED BY <2>1, <3>1, <3>2
  <2> QED BY <1>1, <1>4, <2>2, QuietDone
<1>5. Delete(h) => Done(h)
  BY DEF Delete, Missing
<1> QED BY <1>3, <1>4, <1>5

\* An update leaves the text of a row of a quiet line alone.
LEMMA QuietUpdate ==
    ASSUME StoreTypes, QuietInv, NEW h \in Handlers, UpdateRow(h) \/ UpdateUndated(h)
    PROVE  QuietInv'
<1> DEFINE c == handler[h]
<1>1. c.at \in {"update", "undated"} /\ UNCHANGED <<disturbed, announced, backfill>>
  BY DEF UpdateRow, UpdateUndated
<1>2. Knows(h) /\ c.at \in Suspended /\ c.id \in Ids /\ c.upd \in Update
  BY <1>1 DEF QuietInv, StoreTypes, TypeOK, HandlersOK, Suspended
<1>3. ASSUME NEW u \in Update, u.text = c.upd.text, rows[c.id] # NoRow,
             Write(c.id, Updated(rows[c.id], u))
      PROVE  Steady
  <2>1. rows[c.id] \in Row
    BY <1>2, <1>3 DEF StoreTypes, TypeOK
  <2>2. /\ Updated(rows[c.id], u) \in Row
        /\ Updated(rows[c.id], u).line = rows[c.id].line
        /\ u.text = NoText => Updated(rows[c.id], u).text = rows[c.id].text
    BY <2>1, UpdatedType DEF Updated, Row
  <2>3. rows[c.id].line \notin disturbed => u.text = NoText
    BY <1>2, <1>3 DEF Knows
  <2> HIDE DEF c
  <2> QED BY <1>2, <1>3, <2>2, <2>3, SteadyWrite
<1>4. Steady
  <2>1. CASE UNCHANGED <<rows, stored>>
    BY <2>1, SteadyTable
  <2>2. CASE rows[c.id] # NoRow /\ Write(c.id, Updated(rows[c.id], c.upd))
    BY <1>2, <1>3, <2>2
  <2>3. CASE rows[c.id] # NoRow /\ Write(c.id, Updated(rows[c.id], [c.upd EXCEPT !.time = NoTime]))
    <3>1. [c.upd EXCEPT !.time = NoTime] \in Update /\ [c.upd EXCEPT !.time = NoTime].text = c.upd.text
      BY <1>2 DEF Update
    <3> QED BY <1>3, <2>3, <3>1
  <2> QED BY <2>1, <2>2, <2>3 DEF UpdateRow, UpdateUndated, Missing
<1>5. CASE Done(h)
  BY <1>1, <1>4, <1>5, QuietDone
<1>6. CASE ~Done(h)
  <2>1. c.upd.text # NoText /\ Goto(h, "undated")
    BY <1>6 DEF UpdateRow, UpdateUndated, Missing
  <2>2. /\ handler'[h].at = "undated" /\ handler'[h].sms = c.sms /\ handler'[h].id = c.id
        /\ handler'[h].row = c.row
        /\ \A g \in Handlers \ {h} : handler'[g] = handler[g]
    BY <2>1 DEF Goto, StoreTypes, TypeOK
  <2> HIDE DEF c
  <2>3. Knows(h)'
    BY <1>1, <1>2, <1>4, <2>1, <2>2 DEF Knows, Steady, c
  <2> QED BY <1>1, <1>4, <2>2, <2>3, SteadyHandler DEF c
<1> QED BY <1>5, <1>6

\* On a quiet line a text is created when the table does not have it.
LEMMA QuietCreate ==
    ASSUME PlainTexts, StoreTypes, QuietInv, NEW h \in Handlers, Create(h)
    PROVE  QuietInv'
<1> DEFINE sms == handler[h].sms
           new == NewRow(sms)
           id == CHOOSE i \in FreeIds : TRUE
<1>1. handler[h].at = "create" /\ UNCHANGED <<disturbed, announced, backfill>> /\ sms \in Payloads
  BY DEF Create, StoreTypes, HandlersOK
<1>2. CASE UNCHANGED <<rows, stored>> /\ Done(h)
  BY <1>1, <1>2, SteadyTable, QuietDone
<1>3. CASE FreeIds # {} /\ Write(id, new) /\ (Done(h) \/ Goto(h, "announce"))
  <2>1. /\ new \in Row /\ new.line = sms.line /\ new.text = Message(sms)
        /\ new.text \notin Hex /\ sms.line \in Lines /\ new.text \in Texts
    BY <1>1, MessageType DEF NewRow, PlainTexts, Payload
  <2>2. id \in FreeIds
    BY <1>3
  <2> HIDE DEF id, new, sms
  <2>3. /\ id \in Ids /\ rows[id] = NoRow
        /\ \A g \in Handlers : id \notin {handler[g].id, handler[g].other}
        /\ \A t \in backfill.todo : t.id # id
    BY <2>2 DEF FreeIds
  <2>4. /\ rows'[id] = new /\ new # NoRow /\ \A i \in Ids \ {id} : rows'[i] = rows[i]
        /\ stored' = stored \cup {<<sms.line, new.text>>}
    BY <1>3, <2>1, <2>3, StoreAssumption DEF Write, StoreTypes, TypeOK
  <2>5. Present' = Present \cup {id} /\ id \notin Present
    BY <2>3, <2>4 DEF Present
  <2>6. /\ handler'[h].at \in {"idle", "announce"}
        /\ handler'[h].at = "announce" => handler'[h].sms = sms
        /\ \A g \in Handlers \ {h} : handler'[g] = handler[g]
    BY <1>3 DEF Done, Goto, Idle, StoreTypes, TypeOK, sms
  <2>7. sms.line \notin disturbed =>
          \A i \in Present : rows[i].line = sms.line => rows[i].text # new.text
    BY <1>1, <2>1 DEF QuietInv, Knows, sms
  <2>8. sms.line \notin disturbed => <<sms.line, new.text>> \notin stored
    BY <2>7 DEF QuietInv, QuietKept
  <2>9. sms.line \notin disturbed => announced[<<sms.line, new.text>>] = 0
    BY <2>1, <2>8 DEF QuietInv, AnnouncedStored
  <2>10. \A g \in Handlers : Knows(g)'
    <3>1. Knows(h)'
      BY <1>1, <2>1, <2>4, <2>6, <2>9 DEF Knows, Suspended, Message
    <3>2. ASSUME NEW g \in Handlers \ {h} PROVE Knows(g)'
      <4> DEFINE c == handler[g]
      <4>1. Knows(g) /\ handler'[g] = c
        BY <2>6 DEF QuietInv
      <4>2. c.at \in Suspended => c.id \in Ids /\ rows'[c.id] = rows[c.id]
        BY <2>3, <2>4 DEF StoreTypes, HandlersOK
      <4>3. c.at = "fill" => c.other \in Ids /\ rows'[c.other] = rows[c.other]
        BY <2>3, <2>4 DEF StoreTypes, HandlersOK
      <4>4. c.at = "create" /\ c.sms.line \notin disturbed => new.line # c.sms.line
        BY <1>1, <2>1 DEF QuietInv, Alone, sms
      <4>5. c.at = "create" /\ c.sms.line \notin disturbed =>
              \A i \in Present' : rows'[i].line = c.sms.line => rows'[i].text # Message(c.sms)
        <5> SUFFICES ASSUME c.at = "create", c.sms.line \notin disturbed, NEW i \in Present',
                            rows'[i].line = c.sms.line
                     PROVE  rows'[i].text # Message(c.sms)
          OBVIOUS
        <5>1. i # id /\ i \in Present /\ rows'[i] = rows[i]
          BY <2>4, <2>5, <4>4 DEF Present
        <5> QED BY <4>1, <5>1 DEF Knows
      <4> HIDE DEF c
      <4> QED BY <1>1, <2>4, <4>1, <4>2, <4>3, <4>5 DEF Knows, c, Message
    <3> QED BY <3>1, <3>2
  <2>11. Alone'
    BY <1>1, <2>6, StillAlone DEF sms
  <2>12. TodoKnows'
    <3>1. \A t \in backfill.todo : t.id \in Ids
      BY DEF StoreTypes, TypeOK
    <3> QED BY <1>1, <2>3, <2>4, <3>1 DEF QuietInv, TodoKnows
  <2>13. RowsPlain' /\ OneRowPerText'
    BY <1>1, <2>1, <2>4, <2>5, <2>7 DEF QuietInv, RowsPlain, OneRowPerText, Present
  <2>14. AnnouncedStored' /\ AnnouncedOnce'
    BY <1>1, <2>4 DEF QuietInv, AnnouncedStored, AnnouncedOnce
  <2>15. QuietKept'
    <3> SUFFICES ASSUME NEW k \in stored', k[1] \notin disturbed'
                 PROVE  \E i \in Present' : rows'[i].line = k[1] /\ rows'[i].text = k[2]
      BY DEF QuietKept
    <3>1. CASE k \in stored
      <4>1. PICK i \in Present : rows[i].line = k[1] /\ rows[i].text = k[2]
        BY <1>1, <3>1 DEF QuietInv, QuietKept
      <4>2. i \in Present' /\ rows'[i] = rows[i]
        BY <2>4, <2>5 DEF Present
      <4> QED BY <4>1, <4>2
    <3>2. CASE k = <<sms.line, new.text>>
      BY <2>1, <2>4, <2>5, <3>2
    <3> QED BY <2>4, <3>1, <3>2
  <2> QED BY <2>10, <2>11, <2>12, <2>13, <2>14, <2>15 DEF QuietInv
<1> QED BY <1>2, <1>3 DEF Create

LEMMA QuietAnnounce ==
    ASSUME StoreTypes, QuietInv, NEW h \in Handlers, Announce(h)
    PROVE  QuietInv'
<1> DEFINE sms == handler[h].sms
           k == <<sms.line, Message(sms)>>
<1>1. /\ handler[h].at = "announce" /\ UNCHANGED <<rows, disturbed, backfill, stored>> /\ Done(h)
      /\ announced' = [announced EXCEPT ![k] = IF @ = 2 THEN 2 ELSE @ + 1]
  BY DEF Announce
<1>2. /\ handler'[h].at = "idle" /\ \A g \in Handlers \ {h} : handler'[g] = handler[g]
  BY <1>1 DEF Done, Idle, StoreTypes, TypeOK
<1>3. k \in Lines \X Texts /\ announced \in [Lines \X Texts -> 0 .. 2]
  <2>1. sms \in Payloads
    BY <1>1 DEF StoreTypes, HandlersOK
  <2> QED BY <2>1, MessageType DEF StoreTypes, TypeOK, Payload
<1>4. sms.line \notin disturbed => k \in stored /\ announced[k] = 0
  BY <1>1 DEF QuietInv, Knows
<1>5. /\ announced' \in [Lines \X Texts -> {0, 1, 2, 3}] \/ DOMAIN announced' = Lines \X Texts
      /\ \A j \in Lines \X Texts : j # k => announced'[j] = announced[j]
      /\ announced[k] = 0 => announced'[k] = 1
  BY <1>1, <1>3
<1> HIDE DEF k
<1>6. AnnouncedStored' /\ AnnouncedOnce'
  <2>1. k[1] = sms.line
    BY DEF k
  <2>2. DOMAIN announced' = Lines \X Texts /\ DOMAIN announced = Lines \X Texts
    BY <1>1, <1>3
  <2>3. AnnouncedStored'
    BY <1>1, <1>4, <1>5, <2>1 DEF QuietInv, AnnouncedStored
  <2>4. AnnouncedOnce'
    <3> SUFFICES ASSUME NEW j \in Lines \X Texts, j[1] \notin disturbed PROVE announced'[j] <= 1
      BY <1>1, <2>2 DEF AnnouncedOnce
    <3>1. CASE j = k
      BY <1>4, <1>5, <2>1, <3>1
    <3>2. CASE j # k
      BY <1>5, <2>2, <3>2 DEF QuietInv, AnnouncedOnce
    <3> QED BY <3>1, <3>2
  <2> QED BY <2>3, <2>4
<1>7. \A g \in Handlers : Knows(g)'
  <2>1. Knows(h)'
    BY <1>2 DEF Knows, Suspended
  <2>2. ASSUME NEW g \in Handlers \ {h} PROVE Knows(g)'
    <3> DEFINE c == handler[g]
               j == <<c.sms.line, Message(c.sms)>>
    <3>1. Knows(g) /\ handler'[g] = c
      BY <1>2 DEF QuietInv
    <3>2. c.at = "announce" /\ c.sms.line \notin disturbed => announced'[j] = announced[j]
      <4> SUFFICES ASSUME c.at = "announce", c.sms.line \notin disturbed
                   PROVE  announced'[j] = announced[j]
        OBVIOUS
      <4>1. c.sms.line # sms.line
        BY <1>1 DEF QuietInv, Alone
      <4>2. j # k
        BY <4>1 DEF k
      <4>3. j \in Lines \X Texts
        <5>1. c.sms \in Payloads
          BY DEF StoreTypes, HandlersOK
        <5> QED BY <5>1, MessageType DEF Payload
      <4> HIDE DEF j
      <4> QED BY <1>5, <4>2, <4>3
    <3>3. Present' = Present
      BY <1>1 DEF Present
    <3> HIDE DEF c
    <3> QED BY <1>1, <3>1, <3>2, <3>3 DEF Knows, c, Message
  <2> QED BY <2>1, <2>2
<1>8. Alone'
  BY <1>1, <1>2, StillAlone
<1>9. TodoKnows' /\ RowsPlain' /\ OneRowPerText' /\ QuietKept'
  <2>1. Steady
    BY <1>1, SteadyTable
  <2>2. TodoKnows'
    BY <1>1, <2>1, SteadyTodo
  <2> QED BY <1>1, <2>2 DEF QuietInv, RowsPlain, OneRowPerText, QuietKept, Present
<1> QED BY <1>6, <1>7, <1>8, <1>9 DEF QuietInv

----------------------------------------------------------------------------
(* Backfills, restarts and clients.                                        *)

\* A steady step that moves no handler but may end them.
LEMMA SteadyRest ==
    ASSUME StoreTypes, QuietInv, Steady, UNCHANGED <<disturbed, announced>>, TodoKnows',
           \A h \in Handlers : handler'[h] = handler[h] \/ handler'[h].at = "idle"
    PROVE  QuietInv'
<1>1. \A h \in Handlers : Knows(h)'
  BY SteadyKnows
<1>2. Alone'
  BY StillAlone
<1> QED BY <1>1, <1>2, SteadyRows DEF QuietInv

LEMMA QuietBackfill ==
    ASSUME StoreTypes, QuietInv, BackfillRead \/ BackfillRow \/ BackfillNext
    PROVE  QuietInv'
<1>1. UNCHANGED <<handler, disturbed, announced>>
  BY DEF BackfillRead, BackfillRow, BackfillNext, history
<1>2. CASE BackfillRead
  <2>1. Steady /\ rows' = rows
    BY <1>2, SteadyTable DEF BackfillRead, history
  <2>2. backfill'.stage = backfill.stage
    BY <1>2 DEF BackfillRead, StoreTypes, TypeOK
  <2>3. \A t \in backfill'.todo : t.id \in Present /\ t.row = rows[t.id] /\ NeedsBackfill(t.row)
    BY <1>2 DEF BackfillRead, StoreTypes, TypeOK
  <2>4. \A t \in backfill'.todo : backfill.stage = "hex" => rows[t.id].line \in disturbed
    BY <2>3 DEF NeedsBackfill, QuietInv, RowsPlain
  <2>5. TodoKnows'
    BY <1>1, <2>1, <2>2, <2>3, <2>4 DEF TodoKnows
  <2> QED BY <1>1, <2>1, <2>5, SteadyRest
<1>3. CASE BackfillNext
  <2>1. Steady /\ backfill'.todo = {}
    BY <1>3, SteadyTable DEF BackfillNext, Unread, history
  <2>2. TodoKnows'
    BY <2>1 DEF TodoKnows
  <2> QED BY <1>1, <2>1, <2>2, SteadyRest
<1>4. CASE BackfillRow
  <2>1. PICK t \in backfill.todo :
          /\ backfill' = [backfill EXCEPT !.todo = @ \ {t}]
          /\ \/ UNCHANGED <<rows, stored>>
             \/ rows[t.id] # NoRow /\ Write(t.id, Backfilled(rows[t.id], t.row))
    BY <1>4 DEF BackfillRow
  <2>2. backfill'.stage = backfill.stage /\ backfill'.todo \subseteq backfill.todo
    BY <2>1 DEF StoreTypes, TypeOK
  <2>3. Steady
    <3>1. CASE UNCHANGED <<rows, stored>>
      BY <3>1, SteadyTable
    <3>2. CASE rows[t.id] # NoRow /\ Write(t.id, Backfilled(rows[t.id], t.row))
      <4> DEFINE new == Backfilled(rows[t.id], t.row)
      <4>1. t.id \in Ids /\ rows[t.id] \in Row /\ backfill.stage \in {"hex", "dates", "otps"}
        BY <3>2 DEF StoreTypes, TypeOK, BackfillOK, Stages
      <4>2. new \in Row
        BY <4>1, BackfilledType
      <4>3. new.line = rows[t.id].line
        BY <4>1 DEF Backfilled, Row
      <4>4. backfill.stage # "hex" => new.text = rows[t.id].text
        BY <4>1 DEF Backfilled, Row
      <4>5. backfill.stage = "hex" => rows[t.id].line \in disturbed
        BY <3>2 DEF QuietInv, TodoKnows
      <4> HIDE DEF new
      <4> QED BY <3>2, <4>1, <4>2, <4>3, <4>4, <4>5, SteadyWrite DEF new
    <3> QED BY <2>1, <3>1, <3>2
  <2>4. TodoKnows'
    BY <1>1, <2>2, <2>3, SteadyTodo
  <2> QED BY <1>1, <2>3, <2>4, SteadyRest
<1> QED BY <1>2, <1>3, <1>4

LEMMA QuietReset ==
    ASSUME StoreTypes, QuietInv, Reset
    PROVE  QuietInv'
<1>1. Steady /\ UNCHANGED <<disturbed, announced>> /\ backfill'.todo = {}
  BY SteadyTable DEF Reset, Unread, history
<1>2. \A h \in Handlers : handler'[h].at = "idle"
  BY DEF Reset, Idle
<1>3. TodoKnows'
  BY <1>1 DEF TodoKnows
<1> QED BY <1>1, <1>2, <1>3, SteadyRest

LEMMA QuietStutter ==
    ASSUME StoreTypes, QuietInv, UNCHANGED <<rows, handler, backfill, history>>
    PROVE  QuietInv'
<1>1. Steady /\ UNCHANGED <<disturbed, announced>>
  BY SteadyTable DEF history
<1>2. TodoKnows'
  BY <1>1, SteadyTodo
<1> QED BY <1>1, <1>2, SteadyRest

LEMMA QuietInit == ASSUME Init PROVE QuietInv
<1>1. /\ disturbed = {rows[i].line : i \in Present} /\ announced = [k \in Lines \X Texts |-> 0]
      /\ backfill.todo = {} /\ stored = {<<rows[i].line, rows[i].text>> : i \in Present}
  BY DEF Init, Unread
<1>2. \A h \in Handlers : handler[h].at = "idle"
  BY DEF Init, Idle
<1>3. Alone /\ (\A h \in Handlers : Knows(h)) /\ TodoKnows
  BY <1>1, <1>2 DEF Alone, Knows, Suspended, TodoKnows
<1>4. \A i \in Present : rows[i].line \in disturbed
  BY <1>1
<1>5. RowsPlain /\ OneRowPerText /\ AnnouncedStored /\ AnnouncedOnce
  BY <1>1, <1>4 DEF RowsPlain, OneRowPerText, AnnouncedStored, AnnouncedOnce
<1>6. QuietKept
  BY <1>1 DEF QuietKept
<1> QED BY <1>3, <1>5, <1>6 DEF QuietInv

LEMMA QuietStep ==
    ASSUME PlainTexts, StoreInv, QuietInv, [Next]_vars
    PROVE  QuietInv'
<1> USE DEF StoreInv
<1>1. ASSUME NEW h \in Handlers, Handle(h) PROVE QuietInv'
  BY <1>1, QuietFindRow, QuietFindNone, QuietFindConflict, QuietMerge, QuietUpdate, QuietCreate,
     QuietAnnounce DEF Handle
<1>2. ASSUME NEW h \in Handlers, NEW sms \in Payloads, Receive(h, sms) PROVE QuietInv'
  BY <1>2, QuietReceive
<1>3. ASSUME NEW c \in Clients, Wait(c) \/ Expire(c) PROVE QuietInv'
  <2>1. UNCHANGED <<rows, handler, backfill, history>>
    BY <1>3 DEF Wait, Expire, storeVars
  <2> QED BY <2>1, QuietStutter
<1>4. CASE BackfillRead \/ BackfillRow \/ BackfillNext
  BY <1>4, QuietBackfill
<1>5. CASE BackfillFails \/ Restart
  BY <1>5, QuietReset DEF BackfillFails, Restart
<1>6. CASE UNCHANGED vars
  BY <1>6, QuietStutter DEF vars, storeVars
<1> QED BY <1>1, <1>2, <1>3, <1>4, <1>5, <1>6 DEF Next

----------------------------------------------------------------------------
(* Merges.                                                                 *)

\* The lines whose SMS are handled one after the other and that never had a text
\* in hex.
Plain(line) == line \notin overlapped /\ \A t \in Hex : <<line, t>> \notin stored

RowsStored == \A i \in Present : <<rows[i].line, rows[i].text>> \in stored

Serial ==
    \A g, h \in Handlers :
        /\ g # h
        /\ handler[g].at # "idle"
        /\ handler[h].at # "idle"
        /\ handler[g].sms.line = handler[h].sms.line
        => handler[h].sms.line \in overlapped

\* The handler of a plain line holds a row that is still there with its text, and
\* so is the other one with which it merges it.
Holds(h) ==
    LET c == handler[h] IN
    c.at \in Suspended =>
        /\ c.row.line = c.sms.line
        /\ rows[c.id] # NoRow => rows[c.id].line = c.sms.line
        /\ Plain(c.sms.line) =>
             /\ c.upd.text = NoText
             /\ rows[c.id] # NoRow
             /\ rows[c.id].text = c.row.text
             /\ c.at \in {"fill", "delete"} =>
                  /\ c.other \in Ids \ {c.id} /\ rows[c.other] # NoRow
                  /\ rows[c.other].line = c.sms.line /\ rows[c.other].text = c.row.text

TodoHolds ==
    \A t \in backfill.todo :
        /\ rows[t.id] # NoRow => rows[t.id].line = t.row.line
        /\ <<t.row.line, t.row.text>> \in stored
        /\ backfill.stage = "hex" => t.row.text \in Hex

\* The inductive invariant of TextsKept.
KeptInv == RowsStored /\ Serial /\ (\A h \in Handlers : Holds(h)) /\ TodoHolds /\ TextsKept

\* The table keeps lines and the texts of plain lines; new rows have new ids, and
\* what is stored anew is in the table.
Gentle ==
    /\ \A i \in Ids : rows[i] # NoRow /\ rows'[i] # NoRow => rows'[i].line = rows[i].line
    /\ \A i \in Ids : rows[i] # NoRow /\ Plain(rows[i].line)
                        => rows'[i] # NoRow /\ rows'[i].text = rows[i].text
    /\ \A i \in Ids : rows[i] = NoRow /\ rows'[i] # NoRow => i \in FreeIds
    /\ \A i \in Ids : rows'[i] # NoRow => <<rows'[i].line, rows'[i].text>> \in stored'
    /\ stored \subseteq stored'
    /\ \A k \in stored' \ stored : \E i \in Ids : rows'[i] # NoRow /\ k = <<rows'[i].line, rows'[i].text>>

LEMMA GentleTable == ASSUME RowsStored, UNCHANGED <<rows, stored>> PROVE Gentle
BY DEF Gentle, RowsStored, Present

\* One row is written, with its line and, on a plain line, its text.
LEMMA GentleWrite ==
    ASSUME StoreTypes, RowsStored, NEW id \in Ids, NEW r \in Row, Write(id, r),
           rows[id] # NoRow \/ id \in FreeIds,
           rows[id] # NoRow => r.line = rows[id].line,
           rows[id] # NoRow /\ Plain(rows[id].line) => r.text = rows[id].text
    PROVE  Gentle
<1>1. rows'[id] = r /\ r # NoRow /\ \A i \in Ids \ {id} : rows'[i] = rows[i]
  BY StoreAssumption DEF Write, StoreTypes, TypeOK
<1>2. stored' = stored \cup {<<r.line, r.text>>}
  BY DEF Write
<1>3. \A k \in stored' \ stored : k = <<rows'[id].line, rows'[id].text>>
  BY <1>1, <1>2
<1>4. \A i \in Ids : rows'[i] # NoRow => <<rows'[i].line, rows'[i].text>> \in stored'
  BY <1>1, <1>2 DEF RowsStored, Present
<1> QED BY <1>1, <1>2, <1>3, <1>4 DEF Gentle

\* A line that is plain after such a step was so before.
LEMMA PlainBefore ==
    ASSUME NEW line, stored \subseteq stored', overlapped \subseteq overlapped', Plain(line)'
    PROVE  Plain(line)
BY DEF Plain

LEMMA GentleRows ==
    ASSUME KeptInv, Gentle, overlapped \subseteq overlapped'
    PROVE  RowsStored' /\ TextsKept'
<1>1. RowsStored'
  BY DEF Gentle, RowsStored, Present
<1>2. TextsKept'
  <2> SUFFICES ASSUME NEW k \in stored', Plain(k[1])'
               PROVE  \E i \in Present' : rows'[i].line = k[1] /\ rows'[i].text = k[2]
    BY DEF TextsKept, Plain
  <2>1. CASE k \in stored
    <3>1. Plain(k[1])
      BY PlainBefore DEF Gentle
    <3>2. PICK i \in Present : rows[i].line = k[1] /\ rows[i].text = k[2]
      BY <2>1, <3>1 DEF KeptInv, TextsKept, Plain
    <3>3. rows'[i] # NoRow /\ rows'[i].line = k[1] /\ rows'[i].text = k[2] /\ i \in Ids
      BY <3>1, <3>2 DEF Gentle, Present
    <3> QED BY <3>3 DEF Present
  <2>2. CASE k \notin stored
    <3>1. PICK i \in Ids : rows'[i] # NoRow /\ k = <<rows'[i].line, rows'[i].text>>
      BY <2>2 DEF Gentle
    <3> QED BY <3>1 DEF Present
  <2> QED BY <2>1, <2>2
<1> QED BY <1>1, <1>2

\* A handler that does not move, or ends, holds what it held.
LEMMA GentleHolds ==
    ASSUME StoreTypes, KeptInv, Gentle, overlapped \subseteq overlapped',
           NEW h \in Handlers, handler'[h] = handler[h] \/ handler'[h].at = "idle"
    PROVE  Holds(h)'
<1>1. CASE handler'[h].at = "idle"
  BY <1>1 DEF Holds, Suspended
<1>2. CASE handler'[h] = handler[h] /\ handler[h].at \in Suspended
  <2> DEFINE c == handler[h]
  <2>1. Holds(h)
    BY DEF KeptInv
  <2>2. c.id \in Ids /\ c.id \notin FreeIds
    BY <1>2 DEF StoreTypes, HandlersOK, FreeIds
  <2> HIDE DEF c
  <2>3. c.sms.line \notin overlapped' /\ (\A t \in Hex : <<c.sms.line, t>> \notin stored')
          => Plain(c.sms.line)
    BY DEF Plain, Gentle
  <2>4. handler'[h] = c /\ c.at \in Suspended
    BY <1>2 DEF c
  <2>5. c.row.line = c.sms.line /\ (rows'[c.id] # NoRow => rows'[c.id].line = c.sms.line)
    BY <2>1, <2>2, <2>4 DEF Holds, Gentle, c
  <2>6. Plain(c.sms.line) =>
          /\ c.upd.text = NoText
          /\ rows'[c.id] # NoRow /\ rows'[c.id].text = c.row.text
          /\ c.at \in {"fill", "delete"} =>
               /\ c.other \in Ids \ {c.id} /\ rows'[c.other] # NoRow
               /\ rows'[c.other].line = c.sms.line /\ rows'[c.other].text = c.row.text
    BY <2>1, <2>2, <2>4 DEF Holds, Gentle, c
  <2> QED BY <2>3, <2>4, <2>5, <2>6 DEF Holds, Plain
<1>3. CASE handler'[h] = handler[h] /\ handler[h].at \notin Suspended
  BY <1>3 DEF Holds
<1> QED BY <1>1, <1>2, <1>3

\* No other handler starts, and nobody gets another SMS.
LEMMA StillSerial ==
    ASSUME Serial, overlapped \subseteq overlapped',
           \A g \in Handlers : handler'[g].at # "idle" =>
               handler[g].at # "idle" /\ handler'[g].sms = handler[g].sms
    PROVE  Serial'
BY DEF Serial

LEMMA GentleTodo ==
    ASSUME StoreTypes, TodoHolds, Gentle,
           backfill'.stage = backfill.stage, backfill'.todo \subseteq backfill.todo
    PROVE  TodoHolds'
<1>1. \A t \in backfill.todo : t.id \in Ids /\ t.id \notin FreeIds
  BY DEF StoreTypes, TypeOK, FreeIds
<1> QED BY <1>1 DEF TodoHolds, Gentle

\* A step of one handler which leaves the table gentle.
LEMMA GentleHandler ==
    ASSUME StoreTypes, KeptInv, Gentle, UNCHANGED <<overlapped, backfill>>,
           NEW h \in Handlers, handler[h].at # "idle",
           \A g \in Handlers \ {h} : handler'[g] = handler[g],
           handler'[h].at # "idle" => handler'[h].sms = handler[h].sms,
           Holds(h)'
    PROVE  KeptInv'
<1>1. \A g \in Handlers : Holds(g)'
  BY GentleHolds
<1>2. Serial'
  BY StillSerial DEF KeptInv
<1>3. TodoHolds'
  BY GentleTodo DEF KeptInv
<1> QED BY <1>1, <1>2, <1>3, GentleRows DEF KeptInv

LEMMA KeptDone ==
    ASSUME StoreTypes, KeptInv, Gentle, UNCHANGED <<overlapped, backfill>>,
           NEW h \in Handlers, handler[h].at # "idle", Done(h)
    PROVE  KeptInv'
<1>1. handler'[h].at = "idle" /\ \A g \in Handlers \ {h} : handler'[g] = handler[g]
  BY DEF Done, Idle, StoreTypes, TypeOK
<1>2. Holds(h)'
  BY <1>1, GentleHolds
<1> QED BY <1>1, <1>2, GentleHandler

LEMMA KeptReceive ==
    ASSUME StoreTypes, KeptInv, NEW h \in Handlers, NEW sms \in Payloads, Receive(h, sms)
    PROVE  KeptInv'
<1>1. /\ handler[h].at = "idle" /\ handler'[h].at = "find" /\ handler'[h].sms = sms
      /\ \A g \in Handlers \ {h} : handler'[g] = handler[g]
  BY DEF Receive, StoreTypes, TypeOK
<1>2. Gentle /\ overlapped \subseteq overlapped' /\ UNCHANGED backfill
  BY GentleTable DEF Receive, KeptInv
<1>3. \A g \in Handlers : Holds(g)'
  <2>1. Holds(h)'
    BY <1>1 DEF Holds, Suspended
  <2> QED BY <1>1, <1>2, <2>1, GentleHolds
<1>4. Serial'
  <2>1. ASSUME NEW g \in Handlers \ {h}, handler[g].at # "idle", handler[g].sms.line = sms.line
        PROVE  sms.line \in overlapped'
    BY <2>1 DEF Receive
  <2> QED BY <1>1, <1>2, <2>1 DEF KeptInv, Serial
<1>5. TodoHolds'
  BY <1>2, GentleTodo DEF KeptInv
<1> QED BY <1>2, <1>3, <1>4, <1>5, GentleRows DEF KeptInv

LEMMA KeptFindRow ==
    ASSUME StoreTypes, KeptInv, NEW h \in Handlers, FindRow(h)
    PROVE  KeptInv'
<1>1. handler[h].at = "find" /\ Gentle /\ UNCHANGED <<rows, overlapped, stored, backfill>>
  BY GentleTable DEF FindRow, history, KeptInv
<1>2. CASE Done(h)
  BY <1>1, <1>2, KeptDone
<1>3. CASE ~Done(h)
  <2> DEFINE sms == handler[h].sms
  <2>1. PICK id \in Matching(sms) :
          handler' = [handler EXCEPT ![h] =
             [@ EXCEPT !.at = IF Updates(sms, rows[id]).time # NoTime THEN "conflict" ELSE "update",
                       !.id = id, !.row = rows[id], !.upd = Updates(sms, rows[id])]]
    BY <1>3 DEF FindRow
  <2>2. /\ handler'[h].at \in {"conflict", "update"}
        /\ handler'[h].sms = sms /\ handler'[h].id = id /\ handler'[h].row = rows[id]
        /\ handler'[h].upd = Updates(sms, rows[id])
        /\ \A g \in Handlers \ {h} : handler'[g] = handler[g]
    BY <2>1 DEF StoreTypes, TypeOK
  <2>3. id \in Present /\ rows[id].line = sms.line
    BY DEF Matching
  <2>4. Plain(sms.line) => Updates(sms, rows[id]).text = NoText
    BY <2>3 DEF Updates, NewText, KeptInv, RowsStored, Plain
  <2> HIDE DEF sms
  <2>5. Holds(h)'
    BY <1>1, <2>2, <2>3, <2>4 DEF Holds, Plain, Present
  <2> QED BY <1>1, <2>2, <2>5, GentleHandler DEF sms
<1> QED BY <1>2, <1>3

LEMMA KeptFindNone ==
    ASSUME StoreTypes, KeptInv, NEW h \in Handlers, FindNone(h)
    PROVE  KeptInv'
<1>1. handler[h].at = "find" /\ Gentle /\ UNCHANGED <<overlapped, backfill>>
  BY GentleTable DEF FindNone, history, KeptInv
<1>2. /\ handler'[h].at = "create" /\ handler'[h].sms = handler[h].sms
      /\ \A g \in Handlers \ {h} : handler'[g] = handler[g]
  BY DEF FindNone, Goto, StoreTypes, TypeOK
<1>3. Holds(h)'
  BY <1>2 DEF Holds, Suspended
<1> QED BY <1>1, <1>2, <1>3, GentleHandler

LEMMA KeptFindConflict ==
    ASSUME StoreTypes, KeptInv, NEW h \in Handlers, FindConflict(h)
    PROVE  KeptInv'
<1> DEFINE c == handler[h]
<1>1. c.at = "conflict" /\ Gentle /\ UNCHANGED <<rows, overlapped, stored, backfill>>
  BY GentleTable DEF FindConflict, history, KeptInv
<1>2. Holds(h) /\ c.id \in Ids /\ c.at \in Suspended
  BY <1>1 DEF KeptInv, StoreTypes, HandlersOK, Suspended
<1>3. /\ handler'[h].sms = c.sms /\ handler'[h].id = c.id /\ handler'[h].row = c.row
      /\ handler'[h].upd = c.upd
      /\ \A g \in Handlers \ {h} : handler'[g] = handler[g]
      /\ \/ handler'[h].at = "update"
         \/ /\ handler'[h].at \in {"fill", "delete"}
            /\ handler'[h].other \in Conflict(c)
  <2>1. CASE Goto(h, "update")
    BY <2>1 DEF Goto, StoreTypes, TypeOK
  <2>2. ASSUME NEW id \in Conflict(c), NEW next \in {"fill", "delete"},
               handler' = [handler EXCEPT ![h].at = next, ![h].other = id]
        PROVE  /\ handler'[h].sms = c.sms /\ handler'[h].id = c.id /\ handler'[h].row = c.row
               /\ handler'[h].upd = c.upd
               /\ \A g \in Handlers \ {h} : handler'[g] = handler[g]
               /\ handler'[h].at = next /\ handler'[h].other = id
    BY <2>2 DEF StoreTypes, TypeOK
  <2> QED BY <2>1, <2>2 DEF FindConflict
<1>4. Plain(c.sms.line) => \A id \in Conflict(c) :
        /\ id \in Ids \ {c.id} /\ rows[id] # NoRow
        /\ rows[id].line = c.sms.line /\ rows[id].text = c.row.text
  BY <1>2 DEF Conflict, SameKey, Holds, TextAfter, Present
<1> HIDE DEF c
<1>5. Holds(h)'
  BY <1>1, <1>2, <1>3, <1>4 DEF Holds, Plain, c
<1> QED BY <1>1, <1>3, <1>5, GentleHandler DEF c

LEMMA KeptFill ==
    ASSUME StoreTypes, KeptInv, NEW h \in Handlers, Fill(h)
    PROVE  KeptInv'
<1> DEFINE c == handler[h]
<1>1. c.at = "fill" /\ UNCHANGED <<overlapped, backfill, stored>>
  BY DEF Fill, history
<1>2. CASE UNCHANGED rows /\ Done(h)
  BY <1>1, <1>2, GentleTable, KeptDone DEF KeptInv
<1>3. CASE /\ rows[c.other] # NoRow
           /\ rows' = [rows EXCEPT ![c.other].otp = c.upd.otp]
           /\ Goto(h, "delete")
  <2>1. c.other \in Ids /\ c.id \in Ids /\ c.at \in Suspended /\ Holds(h)
    BY <1>1 DEF StoreTypes, HandlersOK, KeptInv, Suspended
  <2>2. rows[c.other] \in Row /\ c.upd.otp \in Otps \cup {NoOtp}
    BY <1>3, <2>1 DEF StoreTypes, TypeOK, Update
  <2>3. /\ rows'[c.other] # NoRow
        /\ rows'[c.other].line = rows[c.other].line /\ rows'[c.other].text = rows[c.other].text
        /\ \A i \in Ids \ {c.other} : rows'[i] = rows[i]
    <3>1. rows'[c.other] = [rows[c.other] EXCEPT !.otp = c.upd.otp]
      BY <1>3, <2>1 DEF StoreTypes, TypeOK
    <3>2. rows'[c.other] \in Row
      BY <2>2, <3>1 DEF Row
    <3> QED BY <1>3, <2>1, <2>2, <3>1, <3>2, StoreAssumption DEF StoreTypes, TypeOK, Row
  <2>4. Gentle
    BY <1>1, <1>3, <2>1, <2>3 DEF Gentle, KeptInv, RowsStored, Present
  <2>5. /\ handler'[h].at = "delete" /\ handler'[h].sms = c.sms /\ handler'[h].id = c.id
        /\ handler'[h].row = c.row /\ handler'[h].upd = c.upd /\ handler'[h].other = c.other
        /\ \A g \in Handlers \ {h} : handler'[g] = handler[g]
    BY <1>3 DEF Goto, StoreTypes, TypeOK
  <2> HIDE DEF c
  <2>6. c.row.line = c.sms.line /\ (rows'[c.id] # NoRow => rows'[c.id].line = c.sms.line)
    BY <1>1, <1>3, <2>1, <2>3 DEF Holds, c
  <2>7. Plain(c.sms.line) =>
          /\ c.upd.text = NoText
          /\ rows'[c.id] # NoRow /\ rows'[c.id].text = c.row.text
          /\ c.other \in Ids \ {c.id} /\ rows'[c.other] # NoRow
          /\ rows'[c.other].line = c.sms.line /\ rows'[c.other].text = c.row.text
    BY <1>1, <2>1, <2>3 DEF Holds, c
  <2>8. Holds(h)'
    BY <1>1, <2>5, <2>6, <2>7 DEF Holds, Plain
  <2> QED BY <1>1, <2>4, <2>5, <2>8, GentleHandler DEF c
<1> QED BY <1>2, <1>3 DEF Fill, Missing

\* The row that is deleted leaves the one it conflicts with, and no other handler
\* of the line is under way.
LEMMA KeptDelete ==
    ASSUME StoreTypes, KeptInv, NEW h \in Handlers, Delete(h)
    PROVE  KeptInv'
<1> DEFINE c == handler[h]
<1>1. c.at = "delete" /\ UNCHANGED <<overlapped, backfill, stored>> /\ Done(h)
  BY DEF Delete, Missing, history
<1>2. CASE UNCHANGED rows
  BY <1>1, <1>2, GentleTable, KeptDone DEF KeptInv
<1>3. CASE rows[c.id] # NoRow /\ rows' = [rows EXCEPT ![c.id] = NoRow]
  <2>1. c.id \in Ids /\ c.at \in Suspended /\ Holds(h)
    BY <1>1 DEF StoreTypes, HandlersOK, KeptInv, Suspended
  <2>2. rows'[c.id] = NoRow /\ \A i \in Ids \ {c.id} : rows'[i] = rows[i]
    BY <1>3, <2>1 DEF StoreTypes, TypeOK
  <2>3. rows[c.id].line = c.sms.line
    BY <1>3, <2>1 DEF Holds
  <2>4. CASE ~Plain(c.sms.line)
    <3>1. Gentle
      <4> HIDE DEF c
      <4> QED BY <1>1, <2>2, <2>3, <2>4 DEF Gentle, KeptInv, RowsStored, Present
    <3> QED BY <1>1, <3>1, KeptDone
  <2>5. CASE Plain(c.sms.line)
    <3>1. /\ c.other \in Ids \ {c.id} /\ rows[c.other] # NoRow
          /\ rows[c.other].line = c.sms.line /\ rows[c.other].text = rows[c.id].text
      BY <1>1, <2>1, <2>5 DEF Holds
    <3>2. handler'[h].at = "idle" /\ \A g \in Handlers \ {h} : handler'[g] = handler[g]
      BY <1>1 DEF Done, Idle, StoreTypes, TypeOK
    <3>3. Serial'
      BY <1>1, <3>2, StillSerial DEF KeptInv
    <3>4. ASSUME NEW g \in Handlers \ {h}, handler[g].at \in Suspended
          PROVE  handler[g].sms.line # c.sms.line
      <4>1. handler[g].at # "idle" /\ c.at # "idle" /\ Serial
        BY <1>1, <3>4 DEF Suspended, KeptInv
      <4> QED BY <2>5, <4>1 DEF Serial, Plain
    <3> HIDE DEF c
    <3>5. RowsStored' /\ TodoHolds'
      BY <1>1, <2>2 DEF KeptInv, RowsStored, TodoHolds, Present, StoreTypes, TypeOK
    <3>6. TextsKept'
      <4> SUFFICES ASSUME NEW k \in stored, Plain(k[1])
                   PROVE  \E i \in Present' : rows'[i].line = k[1] /\ rows'[i].text = k[2]
        BY <1>1 DEF TextsKept, Plain
      <4>1. PICK i \in Present : rows[i].line = k[1] /\ rows[i].text = k[2]
        BY DEF KeptInv, TextsKept, Plain
      <4>2. CASE i = c.id
        <5>1. c.other \in Present' /\ rows'[c.other].line = k[1] /\ rows'[c.other].text = k[2]
          BY <2>2, <2>3, <3>1, <4>1, <4>2 DEF Present
        <5> QED BY <5>1
      <4>3. CASE i # c.id
        <5>1. i \in Present' /\ rows'[i] = rows[i]
          BY <2>2, <4>1, <4>3 DEF Present
        <5> QED BY <4>1, <5>1
      <4> QED BY <4>2, <4>3
    <3>7. \A g \in Handlers : Holds(g)'
      <4>1. Holds(h)'
        BY <3>2 DEF Holds, Suspended
      <4>2. ASSUME NEW g \in Handlers \ {h} PROVE Holds(g)'
        <5> DEFINE d == handler[g]
        <5>1. Holds(g) /\ handler'[g] = d
          BY <3>2 DEF KeptInv
        <5>2. CASE d.at \notin Suspended
          BY <5>1, <5>2 DEF Holds
        <5>3. CASE d.at \in Suspended
          <6>1. d.sms.line # c.sms.line /\ d.id \in Ids
            BY <3>4, <5>3 DEF StoreTypes, HandlersOK
          <6>2. rows[d.id] # NoRow => d.id # c.id /\ rows'[d.id] = rows[d.id]
            BY <2>2, <2>3, <5>1, <5>3, <6>1 DEF Holds
          <6>3. rows[d.id] = NoRow => rows'[d.id] = NoRow
            BY <2>2, <6>1
          <6>4. Plain(d.sms.line) /\ d.at \in {"fill", "delete"} => rows'[d.other] = rows[d.other]
            BY <2>2, <2>3, <5>1, <5>3, <6>1 DEF Holds
          <6> HIDE DEF d
          <6> QED BY <1>1, <5>1, <5>3, <6>2, <6>3, <6>4 DEF Holds, Plain, d
        <5> QED BY <5>2, <5>3
      <4> QED BY <4>1, <4>2
    <3> QED BY <3>3, <3>5, <3>6, <3>7 DEF KeptInv
  <2> QED BY <2>4, <2>5
<1> QED BY <1>2, <1>3 DEF Delete, Missing

LEMMA KeptUpdate ==
    ASSUME StoreTypes, KeptInv, NEW h \in Handlers, UpdateRow(h) \/ UpdateUndated(h)
    PROVE  KeptInv'
<1> DEFINE c == handler[h]
<1>1. c.at \in {"update", "undated"} /\ UNCHANGED <<overlapped, backfill>> /\ RowsStored
  BY DEF UpdateRow, UpdateUndated, KeptInv
<1>2. Holds(h) /\ c.at \in Suspended /\ c.id \in Ids /\ c.upd \in Update
  BY <1>1 DEF KeptInv, StoreTypes, TypeOK, HandlersOK, Suspended
<1>3. ASSUME NEW u \in Update, u.text = c.upd.text, rows[c.id] # NoRow,
             Write(c.id, Updated(rows[c.id], u))
      PROVE  Gentle
  <2>1. rows[c.id] \in Row
    BY <1>2, <1>3 DEF StoreTypes, TypeOK
  <2>2. /\ Updated(rows[c.id], u) \in Row
        /\ Updated(rows[c.id], u).line = rows[c.id].line
        /\ u.text = NoText => Updated(rows[c.id], u).text = rows[c.id].text
    BY <2>1, UpdatedType DEF Updated, Row
  <2>3. Plain(rows[c.id].line) => u.text = NoText
    BY <1>2, <1>3 DEF Holds
  <2> HIDE DEF c
  <2> QED BY <1>1, <1>2, <1>3, <2>2, <2>3, GentleWrite
<1>4. Gentle
  <2>1. CASE UNCHANGED <<rows, stored>>
    BY <1>1, <2>1, GentleTable
  <2>2. CASE rows[c.id] # NoRow /\ Write(c.id, Updated(rows[c.id], c.upd))
    BY <1>2, <1>3, <2>2
  <2>3. CASE rows[c.id] # NoRow /\ Write(c.id, Updated(rows[c.id], [c.upd EXCEPT !.time = NoTime]))
    <3>1. [c.upd EXCEPT !.time = NoTime] \in Update /\ [c.upd EXCEPT !.time = NoTime].text = c.upd.text
      BY <1>2 DEF Update
    <3> QED BY <1>3, <2>3, <3>1
  <2> QED BY <2>1, <2>2, <2>3 DEF UpdateRow, UpdateUndated, Missing
<1>5. CASE Done(h)
  BY <1>1, <1>4, <1>5, KeptDone
<1>6. CASE ~Done(h)
  <2>1. c.upd.text # NoText /\ Goto(h, "undated") /\ UNCHANGED <<rows, stored>>
    BY <1>6 DEF UpdateRow, UpdateUndated, Missing
  <2>2. /\ handler'[h].at = "undated" /\ handler'[h].sms = c.sms /\ handler'[h].id = c.id
        /\ handler'[h].row = c.row /\ handler'[h].upd = c.upd
        /\ \A g \in Handlers \ {h} : handler'[g] = handler[g]
    BY <2>1 DEF Goto, StoreTypes, TypeOK
  <2> HIDE DEF c
  <2>3. Holds(h)'
    BY <1>1, <1>2, <2>1, <2>2 DEF Holds, Plain, c
  <2> QED BY <1>1, <1>4, <2>2, <2>3, GentleHandler DEF c
<1> QED BY <1>5, <1>6

LEMMA KeptCreate ==
    ASSUME StoreTypes, KeptInv, NEW h \in Handlers, Create(h)
    PROVE  KeptInv'
<1> DEFINE new == NewRow(handler[h].sms)
           id == CHOOSE i \in FreeIds : TRUE
<1>1. /\ handler[h].at = "create" /\ UNCHANGED <<overlapped, backfill>> /\ RowsStored
      /\ handler[h].sms \in Payloads
  BY DEF Create, StoreTypes, HandlersOK, KeptInv
<1>2. Gentle
  <2>1. CASE UNCHANGED <<rows, stored>>
    BY <1>1, <2>1, GentleTable
  <2>2. CASE FreeIds # {} /\ Write(id, new)
    <3>1. new \in Row /\ id \in FreeIds
      BY <1>1, <2>2, MessageType
    <3> HIDE DEF id, new
    <3>2. id \in Ids /\ rows[id] = NoRow
      BY <3>1 DEF FreeIds
    <3> QED BY <1>1, <2>2, <3>1, <3>2, GentleWrite
  <2> QED BY <2>1, <2>2 DEF Create
<1>3. CASE Done(h)
  BY <1>1, <1>2, <1>3, KeptDone
<1>4. CASE Goto(h, "announce")
  <2>1. /\ handler'[h].at = "announce" /\ handler'[h].sms = handler[h].sms
        /\ \A g \in Handlers \ {h} : handler'[g] = handler[g]
    BY <1>4 DEF Goto, StoreTypes, TypeOK
  <2>2. Holds(h)'
    BY <2>1 DEF Holds, Suspended
  <2> QED BY <1>1, <1>2, <2>1, <2>2, GentleHandler
<1> QED BY <1>3, <1>4 DEF Create

\* A gentle step that moves no handler but may end them.
LEMMA GentleRest ==
    ASSUME StoreTypes, KeptInv, Gentle, UNCHANGED overlapped, TodoHolds',
           \A h \in Handlers : handler'[h] = handler[h] \/ handler'[h].at = "idle"
    PROVE  KeptInv'
<1>1. \A h \in Handlers : Holds(h)'
  BY GentleHolds
<1>2. Serial'
  BY StillSerial DEF KeptInv
<1> QED BY <1>1, <1>2, GentleRows DEF KeptInv

LEMMA KeptBackfill ==
    ASSUME StoreTypes, KeptInv, BackfillRead \/ BackfillRow \/ BackfillNext
    PROVE  KeptInv'
<1>1. UNCHANGED <<handler, overlapped>> /\ RowsStored
  BY DEF BackfillRead, BackfillRow, BackfillNext, history, KeptInv
<1>2. CASE BackfillRead
  <2>1. Gentle /\ UNCHANGED <<rows, stored>>
    BY <1>1, <1>2, GentleTable DEF BackfillRead, history
  <2>2. backfill'.stage = backfill.stage
    BY <1>2 DEF BackfillRead, StoreTypes, TypeOK
  <2>3. \A t \in backfill'.todo : t.id \in Present /\ t.row = rows[t.id] /\ NeedsBackfill(t.row)
    BY <1>2 DEF BackfillRead, StoreTypes, TypeOK
  <2>4. \A t \in backfill'.todo : backfill.stage = "hex" => t.row.text \in Hex
    BY <2>3 DEF NeedsBackfill
  <2>5. TodoHolds'
    BY <1>1, <2>1, <2>2, <2>3, <2>4 DEF TodoHolds, RowsStored
  <2> QED BY <1>1, <2>1, <2>5, GentleRest
<1>3. CASE BackfillNext
  <2>1. Gentle /\ backfill'.todo = {}
    BY <1>1, <1>3, GentleTable DEF BackfillNext, Unread, history
  <2>2. TodoHolds'
    BY <2>1 DEF TodoHolds
  <2> QED BY <1>1, <2>1, <2>2, GentleRest
<1>4. CASE BackfillRow
  <2>1. PICK t \in backfill.todo :
          /\ backfill' = [backfill EXCEPT !.todo = @ \ {t}]
          /\ \/ UNCHANGED <<rows, stored>>
             \/ rows[t.id] # NoRow /\ Write(t.id, Backfilled(rows[t.id], t.row))
    BY <1>4 DEF BackfillRow
  <2>2. backfill'.stage = backfill.stage /\ backfill'.todo \subseteq backfill.todo
    BY <2>1 DEF StoreTypes, TypeOK
  <2>3. Gentle
    <3>1. CASE UNCHANGED <<rows, stored>>
      BY <1>1, <3>1, GentleTable
    <3>2. CASE rows[t.id] # NoRow /\ Write(t.id, Backfilled(rows[t.id], t.row))
      <4> DEFINE new == Backfilled(rows[t.id], t.row)
      <4>1. t.id \in Ids /\ rows[t.id] \in Row /\ backfill.stage \in {"hex", "dates", "otps"}
        BY <3>2 DEF StoreTypes, TypeOK, BackfillOK, Stages
      <4>2. new \in Row
        BY <4>1, BackfilledType
      <4>3. new.line = rows[t.id].line
        BY <4>1 DEF Backfilled, Row
      <4>4. backfill.stage # "hex" => new.text = rows[t.id].text
        BY <4>1 DEF Backfilled, Row
      <4>5. backfill.stage = "hex" => ~Plain(rows[t.id].line)
        BY <3>2 DEF KeptInv, TodoHolds, Plain
      <4> HIDE DEF new
      <4> QED BY <1>1, <3>2, <4>1, <4>2, <4>3, <4>4, <4>5, GentleWrite DEF new
    <3> QED BY <2>1, <3>1, <3>2
  <2>4. TodoHolds'
    BY <2>2, <2>3, GentleTodo DEF KeptInv
  <2> QED BY <1>1, <2>3, <2>4, GentleRest
<1> QED BY <1>2, <1>3, <1>4

LEMMA KeptInit == ASSUME Init PROVE KeptInv
<1>1. backfill.todo = {} /\ stored = {<<rows[i].line, rows[i].text>> : i \in Present}
  BY DEF Init, Unread
<1>2. \A h \in Handlers : handler[h].at = "idle"
  BY DEF Init, Idle
<1>3. Serial /\ (\A h \in Handlers : Holds(h)) /\ TodoHolds
  BY <1>1, <1>2 DEF Serial, Holds, Suspended, TodoHolds
<1>4. RowsStored /\ TextsKept
  BY <1>1 DEF RowsStored, TextsKept
<1> QED BY <1>3, <1>4 DEF KeptInv

LEMMA KeptStep ==
    ASSUME StoreInv, KeptInv, [Next]_vars
    PROVE  KeptInv'
<1> USE DEF StoreInv
<1>1. ASSUME NEW h \in Handlers, Announce(h) PROVE KeptInv'
  BY <1>1, GentleTable, KeptDone DEF Announce, KeptInv
<1>2. ASSUME NEW h \in Handlers, Handle(h) PROVE KeptInv'
  BY <1>1, <1>2, KeptFindRow, KeptFindNone, KeptFindConflict, KeptFill, KeptDelete, KeptUpdate,
     KeptCreate DEF Handle
<1>3. ASSUME NEW h \in Handlers, NEW sms \in Payloads, Receive(h, sms) PROVE KeptInv'
  BY <1>3, KeptReceive
<1>4. CASE BackfillRead \/ BackfillRow \/ BackfillNext
  BY <1>4, KeptBackfill
<1>5. CASE Reset
  <2>1. Gentle /\ UNCHANGED overlapped /\ backfill'.todo = {}
    BY <1>5, GentleTable DEF Reset, Unread, history, KeptInv
  <2>2. \A h \in Handlers : handler'[h].at = "idle"
    BY <1>5 DEF Reset, Idle
  <2>3. TodoHolds'
    BY <2>1 DEF TodoHolds
  <2> QED BY <2>1, <2>2, <2>3, GentleRest
<1>6. CASE UNCHANGED <<rows, handler, backfill, history>>
  <2>1. Gentle /\ UNCHANGED overlapped
    BY <1>6, GentleTable DEF history, KeptInv
  <2>2. TodoHolds'
    BY <1>6, <2>1, GentleTodo DEF KeptInv
  <2> QED BY <1>6, <2>1, <2>2, GentleRest
<1>7. CASE \E c \in Clients : Wait(c) \/ Expire(c)
  BY <1>6, <1>7 DEF Wait, Expire, storeVars
<1>8. CASE UNCHANGED vars
  BY <1>6, <1>8 DEF vars, storeVars
<1> QED BY <1>2, <1>3, <1>4, <1>5, <1>7, <1>8 DEF Next, BackfillFails, Restart

----------------------------------------------------------------------------
(* OTPs and texts.                                                           *)

\* decodeSmsBody leaves nothing that still looks like UCS2 in hex.
DecodesPlain == \A t \in Texts : Decode[t] \notin Hex

\* The OTP of a row is the one in its text.
Agrees(r) == r.otp = OtpOf[Decode[r.text]]

\* Nobody is going to write another text to the row.
Frozen(i) ==
    /\ \A h \in Handlers : handler[h].at \in Suspended /\ handler[h].id = i => handler[h].upd.text = NoText
    /\ backfill.stage = "hex" => \A t \in backfill.todo : t.id # i

\* The row keeps the text x for as long as it lives.
Keeps(i, x) == x \notin Hex /\ Frozen(i) /\ (rows[i] # NoRow => rows[i].text = x)

HexBare == \A i \in Present : rows[i].text \in Hex => rows[i].otp = NoOtp

\* A handler that writes a text writes its OTP too, and fills in an OTP where it
\* has seen its text.
HandlerOtp(h) ==
    LET c == handler[h] IN
    /\ c.at \in Suspended =>
         /\ c.upd.text = NoText => c.upd.otp = NoOtp
         /\ c.upd.text # NoText => c.upd.text \notin Hex /\ c.upd.otp = OtpOf[c.upd.text]
    /\ c.at = "fill" => c.upd.text # NoText /\ Keeps(c.other, c.upd.text)

TodoOtp ==
    \A t \in backfill.todo :
        /\ backfill.stage = "hex" => t.row.text \in Hex /\ t.row.otp = NoOtp
        /\ backfill.stage = "otps" => Keeps(t.id, t.row.text)

\* The first backfill leaves no text in hex, the last one no OTP that is not in
\* the text; rows that it has to correct are fixed.
HexTodo ==
    \A i \in Present : rows[i].text \in Hex =>
        /\ backfill.stage = "hex"
        /\ backfill.read => \E t \in backfill.todo : t.id = i

OddTodo ==
    \A i \in Present : rows[i].text \notin Hex /\ ~Agrees(rows[i]) =>
        /\ Keeps(i, rows[i].text)
        /\ backfill.stage = "over" \/ (backfill.stage = "otps" /\ backfill.read)
             => \E t \in backfill.todo : t.id = i

\* The inductive invariant of OtpsAgree.
OtpInv == HexBare /\ (\A h \in Handlers : HandlerOtp(h)) /\ TodoOtp /\ HexTodo /\ OddTodo

\* A row keeps text and OTP, or gets an OTP that is in its text.
Honest ==
    \A i \in Ids : rows'[i] # NoRow =>
        \/ rows[i] # NoRow /\ rows'[i].text = rows[i].text /\ rows'[i].otp = rows[i].otp
        \/ rows'[i].text \notin Hex /\ Agrees(rows'[i])

\* Ids that somebody remembers are not used again, and frozen texts stay.
Careful ==
    /\ \A h \in Handlers : handler[h].at = "fill" /\ rows[handler[h].other] = NoRow => rows'[handler[h].other] = NoRow
    /\ \A t \in backfill.todo : rows[t.id] = NoRow => rows'[t.id] = NoRow
    /\ \A i \in Ids : rows[i] # NoRow /\ rows'[i] # NoRow /\ rows[i].text \notin Hex /\ Frozen(i)
         => rows'[i].text = rows[i].text

\* The backfill drops rows only when they are as they should be.
Shrinks ==
    /\ backfill'.stage = backfill.stage
    /\ backfill'.read = backfill.read
    /\ backfill'.todo \subseteq backfill.todo
    /\ \A t \in backfill.todo \ backfill'.todo :
         \/ backfill.stage = "dates"
         \/ rows'[t.id] # NoRow => rows'[t.id].text \notin Hex /\ Agrees(rows'[t.id])

\* A handler takes up a new text only for a row in hex.
Turns(g) ==
    handler'[g].at \in Suspended /\ handler'[g].upd.text # NoText =>
        \/ handler[g].at \in Suspended /\ handler[g].id = handler'[g].id /\ handler[g].upd.text # NoText
        \/ rows[handler'[g].id] # NoRow /\ rows[handler'[g].id].text \in Hex

LEMMA PlainAgrees ==
    ASSUME NEW r \in Row, r.text \notin Hex, r.otp = OtpOf[r.text]
    PROVE  Agrees(r)
BY StoreAssumption DEF Agrees, Row

\* What keeps its text goes on keeping it.
LEMMA KeepsStays ==
    ASSUME Careful, Shrinks, \A g \in Handlers : Turns(g),
           NEW i \in Ids, NEW x, Keeps(i, x), rows[i] = NoRow => rows'[i] = NoRow
    PROVE  Keeps(i, x)'
<1>1. x \notin Hex /\ Frozen(i) /\ (rows[i] # NoRow => rows[i].text = x)
  BY DEF Keeps
<1>2. rows'[i] # NoRow => rows'[i].text = x
  BY <1>1 DEF Careful
<1>3. ASSUME NEW h \in Handlers, handler'[h].at \in Suspended, handler'[h].id = i
      PROVE  handler'[h].upd.text = NoText
  <2> SUFFICES ASSUME handler'[h].upd.text # NoText PROVE FALSE
    OBVIOUS
  <2>1. \/ handler[h].at \in Suspended /\ handler[h].id = i /\ handler[h].upd.text # NoText
        \/ rows[i] # NoRow /\ rows[i].text \in Hex
    BY <1>3 DEF Turns
  <2> QED BY <1>1, <2>1 DEF Frozen
<1>4. Frozen(i)'
  BY <1>1, <1>3 DEF Frozen, Shrinks
<1> QED BY <1>1, <1>2, <1>4 DEF Keeps

\* Steps that do what they should keep the invariant.
LEMMA OtpStays ==
    ASSUME StoreTypes, OtpInv, Honest, Careful, Shrinks, \A g \in Handlers : Turns(g),
           \A g \in Handlers : handler'[g] = handler[g] \/ HandlerOtp(g)'
    PROVE  OtpInv'
<1>1. ASSUME NEW i \in Present', rows'[i].text \in Hex \/ ~Agrees(rows'[i])
      PROVE  i \in Present /\ rows'[i].text = rows[i].text /\ rows'[i].otp = rows[i].otp
  BY <1>1 DEF Honest, Present
<1>2. HexBare'
  BY <1>1 DEF OtpInv, HexBare
<1>3. ASSUME NEW h \in Handlers PROVE HandlerOtp(h)'
  <2>1. CASE handler'[h] = handler[h]
    <3>1. HandlerOtp(h)
      BY DEF OtpInv
    <3>2. CASE handler[h].at # "fill"
      BY <2>1, <3>1, <3>2 DEF HandlerOtp
    <3>3. CASE handler[h].at = "fill"
      <4>1. PICK i, x : i = handler[h].other /\ x = handler[h].upd.text
        OBVIOUS
      <4>2. i \in Ids /\ Keeps(i, x) /\ (rows[i] = NoRow => rows'[i] = NoRow)
        BY <3>1, <3>3, <4>1 DEF HandlerOtp, Careful, StoreTypes, HandlersOK
      <4>3. Keeps(i, x)'
        BY <4>2, KeepsStays
      <4>4. handler'[h].other = i /\ handler'[h].upd.text = x
        BY <2>1, <4>1
      <4>5. Keeps(handler[h].other, handler[h].upd.text)'
        BY <4>3, <4>4 DEF Keeps, Frozen
      <4> QED BY <2>1, <3>1, <4>5 DEF HandlerOtp
    <3> QED BY <3>2, <3>3
  <2> QED BY <2>1
<1>4. TodoOtp'
  <2> SUFFICES ASSUME NEW t \in backfill'.todo
               PROVE  /\ backfill.stage = "hex" => t.row.text \in Hex /\ t.row.otp = NoOtp
                      /\ backfill.stage = "otps" => Keeps(t.id, t.row.text)'
    BY DEF TodoOtp, Shrinks, Keeps, Frozen
  <2>1. t \in backfill.todo
    BY DEF Shrinks
  <2>2. t.id \in Ids
    BY <2>1 DEF StoreTypes, TypeOK
  <2> QED BY <2>1, <2>2, KeepsStays DEF OtpInv, TodoOtp, Careful
<1>5. HexTodo'
  <2> SUFFICES ASSUME NEW i \in Present', rows'[i].text \in Hex
               PROVE  /\ backfill'.stage = "hex"
                      /\ backfill'.read => \E t \in backfill'.todo : t.id = i
    BY DEF HexTodo
  <2>1. i \in Present /\ rows[i].text \in Hex
    BY <1>1
  <2>2. backfill.stage = "hex" /\ (backfill.read => \E t \in backfill.todo : t.id = i)
    BY <2>1 DEF OtpInv, HexTodo
  <2>3. \A t \in backfill.todo : t.id = i => t \in backfill'.todo
    BY <2>2 DEF Shrinks, Present
  <2> QED BY <2>2, <2>3 DEF Shrinks
<1>6. OddTodo'
  <2> SUFFICES ASSUME NEW i \in Present', rows'[i].text \notin Hex, ~Agrees(rows'[i])
               PROVE  /\ Keeps(i, rows[i].text)'
                      /\ backfill'.stage = "over" \/ (backfill'.stage = "otps" /\ backfill'.read)
                           => \E t \in backfill'.todo : t.id = i
    BY DEF OddTodo
  <2>1. i \in Present /\ rows'[i].text = rows[i].text /\ rows'[i].otp = rows[i].otp
    BY <1>1
  <2>2. rows[i].text \notin Hex /\ ~Agrees(rows[i])
    BY <2>1 DEF Agrees
  <2>3. /\ Keeps(i, rows[i].text)
        /\ backfill.stage = "over" \/ (backfill.stage = "otps" /\ backfill.read)
             => \E t \in backfill.todo : t.id = i
    BY <2>1, <2>2 DEF OtpInv, OddTodo
  <2>4. PICK x : x = rows[i].text
    OBVIOUS
  <2>5. Keeps(i, rows[i].text)'
    <3>1. i \in Ids /\ rows[i] # NoRow /\ Keeps(i, x)
      BY <2>1, <2>3, <2>4 DEF Present
    <3>2. Keeps(i, x)'
      BY <3>1, KeepsStays
    <3> QED BY <2>1, <2>4, <3>2 DEF Keeps
  <2>6. backfill.stage # "dates" => \A t \in backfill.todo : t.id = i => t \in backfill'.todo
    BY DEF Shrinks, Present
  <2> QED BY <2>3, <2>5, <2>6 DEF Shrinks
<1> QED BY <1>2, <1>3, <1>4, <1>5, <1>6 DEF OtpInv

\* A step that leaves rows and backfill alone.
LEMMA OtpTable ==
    ASSUME UNCHANGED <<rows, backfill>>
    PROVE  Honest /\ Careful /\ Shrinks
BY DEF Honest, Careful, Shrinks

\* Other handlers than h do not move; h ends or waits where it holds no row.
LEMMA OtpMoves ==
    ASSUME StoreTypes, OtpInv, NEW h \in Handlers, Honest, Careful, Shrinks,
           \A g \in Handlers \ {h} : handler'[g] = handler[g],
           Turns(h), HandlerOtp(h)'
    PROVE  OtpInv'
<1>1. \A g \in Handlers : Turns(g)
  BY DEF Turns
<1>2. \A g \in Handlers : handler'[g] = handler[g] \/ HandlerOtp(g)'
  OBVIOUS
<1> QED BY <1>1, <1>2, OtpStays

LEMMA OtpEnds ==
    ASSUME StoreTypes, OtpInv, NEW h \in Handlers, Honest, Careful, Shrinks,
           \A g \in Handlers \ {h} : handler'[g] = handler[g],
           handler'[h].at \notin Suspended
    PROVE  OtpInv'
<1>1. Turns(h)
  BY DEF Turns
<1>2. HandlerOtp(h)'
  BY DEF HandlerOtp, Suspended
<1> QED BY <1>1, <1>2, OtpMoves

LEMMA EndFact ==
    ASSUME StoreTypes, NEW h \in Handlers, Done(h)
    PROVE  handler'[h].at \notin Suspended /\ \A g \in Handlers \ {h} : handler'[g] = handler[g]
BY DEF Done, Idle, Suspended, StoreTypes, TypeOK

LEMMA OtpReceive ==
    ASSUME StoreTypes, OtpInv, NEW h \in Handlers, NEW sms \in Payloads, Receive(h, sms)
    PROVE  OtpInv'
<1>1. handler'[h].at \notin Suspended /\ \A g \in Handlers \ {h} : handler'[g] = handler[g]
  BY DEF Receive, Suspended, StoreTypes, TypeOK
<1>2. Honest /\ Careful /\ Shrinks
  BY OtpTable DEF Receive
<1> QED BY <1>1, <1>2, OtpEnds

\* An upgrade is of a row in hex, which has no OTP yet.
LEMMA OtpFindRow ==
    ASSUME DecodesPlain, StoreTypes, OtpInv, NEW h \in Handlers, FindRow(h)
    PROVE  OtpInv'
<1>1. Honest /\ Careful /\ Shrinks
  BY OtpTable DEF FindRow
<1>2. CASE Done(h)
  BY <1>1, <1>2, EndFact, OtpEnds
<1>3. CASE ~Done(h)
  <2> DEFINE sms == handler[h].sms
  <2>1. PICK id \in Matching(sms) :
          handler' = [handler EXCEPT ![h] =
             [@ EXCEPT !.at = IF Updates(sms, rows[id]).time # NoTime THEN "conflict" ELSE "update",
                       !.id = id, !.row = rows[id], !.upd = Updates(sms, rows[id])]]
    BY <1>3 DEF FindRow
  <2>2. /\ handler'[h].at \in {"conflict", "update"}
        /\ handler'[h].id = id /\ handler'[h].upd = Updates(sms, rows[id])
        /\ \A g \in Handlers \ {h} : handler'[g] = handler[g]
    BY <2>1 DEF StoreTypes, TypeOK
  <2>3. id \in Present /\ rows[id] # NoRow
    BY DEF Matching, Present
  <2>4. sms \in Payloads
    BY DEF FindRow, StoreTypes, HandlersOK
  <2>5. Message(sms) \in Texts \ Hex /\ Message(sms) # NoText
    BY <2>4, MessageType, StoreAssumption DEF Message, DecodesPlain, Payload
  <2> HIDE DEF sms
  <2>6. CASE NewText(sms, rows[id]) = NoText
    <3>1. handler'[h].upd.text = NoText /\ handler'[h].upd.otp = NoOtp
      BY <2>2, <2>6 DEF Updates
    <3>2. Turns(h) /\ HandlerOtp(h)'
      BY <2>2, <3>1 DEF Turns, HandlerOtp
    <3> QED BY <1>1, <2>2, <3>2, OtpMoves
  <2>7. CASE NewText(sms, rows[id]) # NoText
    <3>1. rows[id].text \in Hex /\ NewText(sms, rows[id]) = Message(sms)
      BY <2>7 DEF NewText
    <3>2. rows[id].otp = NoOtp
      BY <2>3, <3>1 DEF OtpInv, HexBare
    <3>3. handler'[h].upd.text = Message(sms) /\ handler'[h].upd.otp = OtpOf[Message(sms)]
      BY <2>2, <2>7, <3>1, <3>2 DEF Updates
    <3>4. Turns(h)
      BY <2>2, <2>3, <3>1 DEF Turns
    <3>5. HandlerOtp(h)'
      BY <2>2, <2>5, <3>3 DEF HandlerOtp
    <3> QED BY <1>1, <2>2, <3>4, <3>5, OtpMoves
  <2> QED BY <2>6, <2>7
<1> QED BY <1>2, <1>3

LEMMA OtpFindNone ==
    ASSUME StoreTypes, OtpInv, NEW h \in Handlers, FindNone(h) \/ Announce(h)
    PROVE  OtpInv'
<1>1. handler'[h].at \notin Suspended /\ \A g \in Handlers \ {h} : handler'[g] = handler[g]
  BY EndFact DEF FindNone, Announce, Goto, Suspended, StoreTypes, TypeOK
<1>2. Honest /\ Careful /\ Shrinks
  BY OtpTable DEF FindNone, Announce
<1> QED BY <1>1, <1>2, OtpEnds

\* A conflict whose OTP is missing is an odd row: nobody writes to its text.
LEMMA OtpFindConflict ==
    ASSUME StoreTypes, OtpInv, NEW h \in Handlers, FindConflict(h)
    PROVE  OtpInv'
<1> DEFINE c == handler[h]
<1>1. c.at = "conflict" /\ UNCHANGED <<rows, backfill>> /\ Honest /\ Careful /\ Shrinks
  BY OtpTable DEF FindConflict
<1>2. HandlerOtp(h) /\ c.at \in Suspended /\ c.upd \in Update
  BY <1>1 DEF OtpInv, StoreTypes, TypeOK, Suspended
<1>3. /\ handler'[h].id = c.id /\ handler'[h].upd = c.upd
      /\ \A g \in Handlers \ {h} : handler'[g] = handler[g]
      /\ \/ handler'[h].at \in {"update", "delete"}
         \/ /\ handler'[h].at = "fill"
            /\ handler'[h].other \in Conflict(c)
            /\ c.upd.otp # NoOtp /\ rows[handler'[h].other].otp = NoOtp
  <2>1. CASE Goto(h, "update")
    BY <2>1 DEF Goto, StoreTypes, TypeOK
  <2>2. ASSUME NEW id \in Conflict(c), NEW next \in {"fill", "delete"},
               handler' = [handler EXCEPT ![h].at = next, ![h].other = id]
        PROVE  /\ handler'[h].id = c.id /\ handler'[h].upd = c.upd
               /\ \A g \in Handlers \ {h} : handler'[g] = handler[g]
               /\ handler'[h].at = next /\ handler'[h].other = id
    BY <2>2 DEF StoreTypes, TypeOK
  <2> QED BY <2>1, <2>2 DEF FindConflict
<1>4. Turns(h)
  BY <1>2, <1>3 DEF Turns
<1>5. \A g \in Handlers : Turns(g)
  BY <1>3, <1>4 DEF Turns
<1>6. CASE handler'[h].at # "fill"
  <2>1. HandlerOtp(h)'
    BY <1>2, <1>3, <1>6 DEF HandlerOtp
  <2> QED BY <1>1, <1>3, <1>4, <2>1, OtpMoves
<1>7. CASE handler'[h].at = "fill"
  <2>1. PICK i, x : i = handler'[h].other /\ x = c.upd.text
    OBVIOUS
  <2>2. i \in Present /\ i \in Conflict(c) /\ c.upd.otp # NoOtp /\ rows[i].otp = NoOtp
    BY <1>3, <1>7, <2>1 DEF Conflict
  <2>3. x # NoText /\ x \notin Hex /\ c.upd.otp = OtpOf[x]
    BY <1>2, <2>1, <2>2 DEF HandlerOtp
  <2>4. rows[i].text = x
    BY <2>1, <2>2, <2>3 DEF Conflict, SameKey, TextAfter
  <2>5. x \in Texts /\ Decode[x] = x
    BY <1>2, <2>1, <2>3, StoreAssumption DEF Update
  <2>6. ~Agrees(rows[i])
    BY <2>2, <2>3, <2>4, <2>5 DEF Agrees
  <2>7. Keeps(i, x)
    BY <2>2, <2>3, <2>4, <2>6 DEF OtpInv, OddTodo
  <2>8. Keeps(i, x)'
    BY <1>1, <1>5, <2>2, <2>7, KeepsStays DEF Present
  <2>9. HandlerOtp(h)'
    <3>1. Keeps(handler[h].other, handler[h].upd.text)'
      BY <1>3, <2>1, <2>8 DEF Keeps, Frozen
    <3> QED BY <1>2, <1>3, <2>1, <2>3, <3>1 DEF HandlerOtp
  <2> QED BY <1>1, <1>3, <1>4, <2>9, OtpMoves
<1> QED BY <1>6, <1>7

\* A row that is written with the texts of its writer, or with none.
LEMMA OtpWrite ==
    ASSUME StoreTypes, NEW id \in Ids, rows[id] # NoRow, NEW r \in Row,
           rows' = [rows EXCEPT ![id] = r],
           \/ r.text = rows[id].text /\ r.otp = rows[id].otp
           \/ r.text \notin Hex /\ Agrees(r),
           Frozen(id) => r.text = rows[id].text
    PROVE  Honest /\ Careful
<1>1. rows'[id] = r /\ r # NoRow /\ \A i \in Ids \ {id} : rows'[i] = rows[i]
  BY StoreAssumption DEF StoreTypes, TypeOK
<1>2. Honest
  BY <1>1 DEF Honest
<1>3. \A h \in Handlers : handler[h].at = "fill" => handler[h].other \in Ids
  BY DEF StoreTypes, HandlersOK
<1>4. \A t \in backfill.todo : t.id \in Ids
  BY DEF StoreTypes, TypeOK
<1>5. Careful
  BY <1>1, <1>3, <1>4 DEF Careful
<1> QED BY <1>2, <1>5

\* A merge fills in the OTP of the text that it has seen, or deletes a row.
LEMMA OtpMerge ==
    ASSUME StoreTypes, OtpInv, NEW h \in Handlers, Fill(h) \/ Delete(h)
    PROVE  OtpInv'
<1> DEFINE c == handler[h]
<1>1. c.at \in {"fill", "delete"} /\ UNCHANGED backfill
  BY DEF Fill, Delete
<1>2. HandlerOtp(h) /\ c.at \in Suspended /\ c.id \in Ids /\ c.upd \in Update
  BY <1>1 DEF OtpInv, StoreTypes, TypeOK, HandlersOK, Suspended
<1>3. CASE Fill(h) /\ rows[c.other] # NoRow
  <2>1. /\ c.at = "fill" /\ c.other \in Ids /\ rows[c.other] \in Row
        /\ rows' = [rows EXCEPT ![c.other].otp = c.upd.otp]
        /\ Goto(h, "delete")
    BY <1>3 DEF Fill, Missing, StoreTypes, TypeOK, HandlersOK
  <2>2. /\ rows'[c.other] = [rows[c.other] EXCEPT !.otp = c.upd.otp]
        /\ \A i \in Ids \ {c.other} : rows'[i] = rows[i]
    BY <2>1 DEF StoreTypes, TypeOK
  <2>3. /\ rows'[c.other] \in Row
        /\ rows'[c.other].text = rows[c.other].text
        /\ rows'[c.other].otp = c.upd.otp
    BY <1>2, <2>1, <2>2 DEF Row, Update
  <2>4. rows[c.other].text = c.upd.text /\ c.upd.text \notin Hex /\ c.upd.otp = OtpOf[c.upd.text]
    BY <1>2, <1>3, <2>1 DEF HandlerOtp, Keeps
  <2>5. rows'[c.other].text \notin Hex /\ Agrees(rows'[c.other])
    BY <2>3, <2>4, PlainAgrees
  <2>6. /\ handler'[h].at = "delete" /\ handler'[h].id = c.id /\ handler'[h].upd = c.upd
        /\ \A g \in Handlers \ {h} : handler'[g] = handler[g]
    BY <2>1 DEF Goto, StoreTypes, TypeOK
  <2>7. rows' = [rows EXCEPT ![c.other] = rows'[c.other]]
    BY <2>1, <2>2
  <2> HIDE DEF c
  <2>8. Honest /\ Careful
    <3>1. PICK i, r : i = c.other /\ r = rows'[c.other]
      OBVIOUS
    <3> QED BY <1>3, <2>1, <2>3, <2>5, <2>7, <3>1, OtpWrite DEF c
  <2>9. Shrinks
    BY <1>1 DEF Shrinks
  <2>10. Turns(h) /\ HandlerOtp(h)'
    BY <1>2, <2>6 DEF Turns, HandlerOtp, c
  <2> QED BY <2>6, <2>8, <2>9, <2>10, OtpMoves
<1>4. CASE Delete(h) \/ rows[c.other] = NoRow
  <2>1. Done(h)
    BY <1>4 DEF Fill, Delete, Missing
  <2>2. \A i \in Ids : rows'[i] = rows[i] \/ rows'[i] = NoRow
    <3>1. CASE UNCHANGED rows
      BY <3>1
    <3>2. CASE rows' = [rows EXCEPT ![c.id] = NoRow]
      BY <3>2 DEF StoreTypes, TypeOK
    <3> QED BY <1>4, <3>1, <3>2 DEF Fill, Delete, Missing
  <2>3. \A i : i \notin Ids => rows'[i] = rows[i]
    <3>1. CASE UNCHANGED rows
      BY <3>1
    <3>2. CASE rows' = [rows EXCEPT ![c.id] = NoRow]
      BY <1>2, <3>2 DEF StoreTypes, TypeOK
    <3> QED BY <1>4, <3>1, <3>2 DEF Fill, Delete, Missing
  <2>4. Honest /\ Careful /\ Shrinks
    BY <1>1, <2>2, <2>3 DEF Honest, Careful, Shrinks
  <2> QED BY <2>1, <2>4, EndFact, OtpEnds
<1> QED BY <1>3, <1>4

LEMMA OtpUpdate ==
    ASSUME StoreTypes, OtpInv, NEW h \in Handlers, UpdateRow(h) \/ UpdateUndated(h)
    PROVE  OtpInv'
<1> DEFINE c == handler[h]
<1>1. c.at \in {"update", "undated"} /\ UNCHANGED backfill
  BY DEF UpdateRow, UpdateUndated
<1>2. HandlerOtp(h) /\ c.at \in Suspended /\ c.id \in Ids /\ c.upd \in Update
  BY <1>1 DEF OtpInv, StoreTypes, TypeOK, HandlersOK, Suspended
<1>3. Shrinks
  BY <1>1 DEF Shrinks
<1>4. ASSUME NEW u \in Update, u.text = c.upd.text, u.otp = c.upd.otp, rows[c.id] # NoRow,
             Write(c.id, Updated(rows[c.id], u))
      PROVE  Honest /\ Careful
  <2> DEFINE r == Updated(rows[c.id], u)
  <2>1. rows[c.id] \in Row
    BY <1>2, <1>4 DEF StoreTypes, TypeOK
  <2>2. r \in Row /\ rows' = [rows EXCEPT ![c.id] = r]
    BY <1>4, <2>1, UpdatedType DEF Write
  <2>3. /\ u.text = NoText => r.text = rows[c.id].text /\ r.otp = rows[c.id].otp
        /\ u.text # NoText => r.text = u.text /\ r.otp = u.otp
    BY <2>1 DEF Updated, Row
  <2>4. u.text # NoText => r.text \notin Hex /\ Agrees(r)
    BY <1>2, <1>4, <2>2, <2>3, PlainAgrees DEF HandlerOtp
  <2>5. Frozen(c.id) => u.text = NoText
    BY <1>2, <1>4 DEF Frozen
  <2> HIDE DEF r, c
  <2> QED BY <1>2, <1>4, <2>2, <2>3, <2>4, <2>5, OtpWrite
<1>5. Honest /\ Careful
  <2>1. CASE UNCHANGED rows
    BY <1>1, <2>1, OtpTable
  <2>2. CASE rows[c.id] # NoRow /\ Write(c.id, Updated(rows[c.id], c.upd))
    BY <1>2, <1>4, <2>2
  <2>3. CASE rows[c.id] # NoRow /\ Write(c.id, Updated(rows[c.id], [c.upd EXCEPT !.time = NoTime]))
    <3>1. /\ [c.upd EXCEPT !.time = NoTime] \in Update
          /\ [c.upd EXCEPT !.time = NoTime].text = c.upd.text
          /\ [c.upd EXCEPT !.time = NoTime].otp = c.upd.otp
      BY <1>2 DEF Update
    <3> QED BY <1>4, <2>3, <3>1
  <2> QED BY <2>1, <2>2, <2>3 DEF UpdateRow, UpdateUndated, Missing
<1>6. CASE Done(h)
  BY <1>3, <1>5, <1>6, EndFact, OtpEnds
<1>7. CASE ~Done(h)
  <2>1. Goto(h, "undated")
    BY <1>7 DEF UpdateRow, UpdateUndated, Missing
  <2>2. /\ handler'[h].at = "undated" /\ handler'[h].id = c.id /\ handler'[h].upd = c.upd
        /\ \A g \in Handlers \ {h} : handler'[g] = handler[g]
    BY <2>1 DEF Goto, StoreTypes, TypeOK
  <2> HIDE DEF c
  <2>3. Turns(h) /\ HandlerOtp(h)'
    BY <1>2, <2>2 DEF Turns, HandlerOtp, c
  <2> QED BY <1>3, <1>5, <2>2, <2>3, OtpMoves
<1> QED BY <1>6, <1>7

\* A new row has the OTP of its text, and an id that nobody remembers.
LEMMA OtpCreate ==
    ASSUME DecodesPlain, StoreTypes, OtpInv, NEW h \in Handlers, Create(h)
    PROVE  OtpInv'
<1> DEFINE sms == handler[h].sms
           new == NewRow(sms)
<1>1. UNCHANGED backfill /\ sms \in Payloads
  BY DEF Create, StoreTypes, HandlersOK
<1>2. Shrinks
  BY <1>1 DEF Shrinks
<1>3. handler'[h].at \notin Suspended /\ \A g \in Handlers \ {h} : handler'[g] = handler[g]
  BY EndFact DEF Create, Goto, Suspended, StoreTypes, TypeOK
<1>4. CASE UNCHANGED rows
  BY <1>1, <1>3, <1>4, OtpTable, OtpEnds
<1>5. CASE FreeIds # {} /\ Write(CHOOSE id \in FreeIds : TRUE, new)
  <2>1. PICK id \in FreeIds : rows' = [rows EXCEPT ![id] = new]
    BY <1>5 DEF Write
  <2>2. /\ id \in Ids /\ rows[id] = NoRow
        /\ \A g \in Handlers : id # handler[g].other
        /\ \A t \in backfill.todo : t.id # id
    BY <2>1 DEF FreeIds
  <2>3. new \in Row
    BY <1>1, MessageType
  <2>4. new.text \notin Hex /\ new.otp = OtpOf[new.text]
    BY <1>1, StoreAssumption DEF NewRow, Message, DecodesPlain, Payload
  <2>5. Agrees(new)
    BY <2>3, <2>4, PlainAgrees
  <2> HIDE DEF new
  <2>6. rows'[id] = new /\ \A i \in Ids \ {id} : rows'[i] = rows[i]
    BY <2>1, <2>2 DEF StoreTypes, TypeOK
  <2>7. Honest
    BY <2>4, <2>5, <2>6 DEF Honest
  <2>8. \A g \in Handlers : handler[g].at = "fill" => handler[g].other \in Ids \ {id}
    BY <2>2 DEF StoreTypes, HandlersOK
  <2>9. \A t \in backfill.todo : t.id \in Ids \ {id}
    BY <2>2 DEF StoreTypes, TypeOK
  <2>10. Careful
    BY <2>2, <2>6, <2>8, <2>9 DEF Careful
  <2> QED BY <1>2, <1>3, <2>7, <2>10, OtpEnds
<1> QED BY <1>4, <1>5 DEF Create

\* The backfills read the rows that they have to correct.
LEMMA OtpBackfillRead ==
    ASSUME StoreTypes, OtpInv, BackfillRead
    PROVE  OtpInv'
<1> DEFINE todo == {t \in [id : Present, row : {rows[id] : id \in Present}] :
                      t.row = rows[t.id] /\ NeedsBackfill(t.row)}
<1>1. UNCHANGED <<rows, handler>>
  BY DEF BackfillRead
<1>2. backfill'.stage = backfill.stage /\ backfill'.read = TRUE /\ backfill'.todo = todo /\ backfill.stage # "over"
  BY DEF BackfillRead, StoreTypes, TypeOK
<1>3. \A t \in todo : t.id \in Present /\ t.row = rows[t.id] /\ NeedsBackfill(t.row)
  OBVIOUS
<1>4. ASSUME NEW i \in Present, NeedsBackfill(rows[i]) PROVE \E t \in todo : t.id = i
  <2>1. [id |-> i, row |-> rows[i]] \in todo
    BY <1>4
  <2> QED BY <2>1
<1> HIDE DEF todo
<1>5. ASSUME NEW i, NEW x, Keeps(i, x) PROVE Keeps(i, x)'
  <2>1. backfill.stage = "hex" => \A t \in todo : t.id # i
    BY <1>3, <1>5 DEF Keeps, NeedsBackfill, Present
  <2> QED BY <1>1, <1>2, <1>5, <2>1 DEF Keeps, Frozen
<1>6. HexBare'
  BY <1>1 DEF OtpInv, HexBare, Present
<1>7. ASSUME NEW h \in Handlers PROVE HandlerOtp(h)'
  <2>1. PICK i, x : i = handler[h].other /\ x = handler[h].upd.text
    OBVIOUS
  <2>2. handler[h].at = "fill" => Keeps(i, x)'
    BY <1>5, <2>1 DEF OtpInv, HandlerOtp
  <2>3. handler[h].at = "fill" => Keeps(handler[h].other, handler[h].upd.text)'
    BY <1>1, <2>1, <2>2 DEF Keeps, Frozen
  <2> QED BY <1>1, <2>3 DEF OtpInv, HandlerOtp
<1>8. TodoOtp'
  <2> SUFFICES ASSUME NEW t \in todo
               PROVE  /\ backfill.stage = "hex" => t.row.text \in Hex /\ t.row.otp = NoOtp
                      /\ backfill.stage = "otps" => Keeps(t.id, t.row.text)'
    BY <1>2 DEF TodoOtp
  <2>1. t.id \in Present /\ t.row = rows[t.id] /\ NeedsBackfill(t.row)
    BY <1>3
  <2>2. backfill.stage = "hex" => t.row.text \in Hex /\ t.row.otp = NoOtp
    BY <2>1 DEF NeedsBackfill, OtpInv, HexBare
  <2>3. CASE backfill.stage = "otps"
    <3>1. t.row.text \notin Hex
      BY <2>1, <2>3 DEF OtpInv, HexTodo
    <3>2. ~Agrees(rows[t.id])
      BY <2>1, <2>3 DEF NeedsBackfill, Agrees
    <3>3. Keeps(t.id, t.row.text)
      BY <2>1, <3>1, <3>2 DEF OtpInv, OddTodo
    <3> QED BY <1>5, <2>2, <3>3
  <2> QED BY <2>2, <2>3
<1>9. HexTodo'
  BY <1>1, <1>2, <1>4 DEF OtpInv, HexTodo, Present, NeedsBackfill
<1>10. OddTodo'
  <2> SUFFICES ASSUME NEW i \in Present, rows[i].text \notin Hex, ~Agrees(rows[i])
               PROVE  /\ Keeps(i, rows[i].text)'
                      /\ backfill.stage = "otps" => \E t \in todo : t.id = i
    BY <1>1, <1>2 DEF OddTodo, Present
  <2>1. PICK x : x = rows[i].text
    OBVIOUS
  <2>2. Keeps(i, x)
    BY <2>1 DEF OtpInv, OddTodo
  <2>3. Keeps(i, rows[i].text)'
    BY <1>1, <1>5, <2>1, <2>2 DEF Keeps
  <2>4. backfill.stage = "otps" => \E t \in todo : t.id = i
    BY <1>4 DEF NeedsBackfill, Agrees
  <2> QED BY <2>3, <2>4
<1> QED BY <1>6, <1>7, <1>8, <1>9, <1>10 DEF OtpInv

\* The next backfill begins when the previous one has nothing left.
LEMMA OtpBackfillNext ==
    ASSUME StoreTypes, OtpInv, BackfillNext
    PROVE  OtpInv'
<1>1. UNCHANGED <<rows, handler>> /\ backfill.read /\ backfill.todo = {}
  BY DEF BackfillNext
<1>2. backfill'.todo = {} /\ ~backfill'.read
  BY DEF BackfillNext, Unread
<1>3. backfill.stage = "otps" <=> backfill'.stage = "over"
  BY DEF BackfillNext, Unread, NextStage, StoreTypes, TypeOK, BackfillOK, Stages
<1>4. ASSUME NEW i, NEW x, Keeps(i, x) PROVE Keeps(i, x)'
  BY <1>1, <1>2, <1>4 DEF Keeps, Frozen
<1>5. HexBare' /\ TodoOtp' /\ HexTodo'
  BY <1>1, <1>2 DEF OtpInv, HexBare, TodoOtp, HexTodo, Present
<1>6. ASSUME NEW h \in Handlers PROVE HandlerOtp(h)'
  <2>1. PICK i, x : i = handler[h].other /\ x = handler[h].upd.text
    OBVIOUS
  <2>2. handler[h].at = "fill" => Keeps(i, x)'
    BY <1>4, <2>1 DEF OtpInv, HandlerOtp
  <2>3. handler[h].at = "fill" => Keeps(handler[h].other, handler[h].upd.text)'
    BY <1>1, <2>1, <2>2 DEF Keeps, Frozen
  <2> QED BY <1>1, <2>3 DEF OtpInv, HandlerOtp
<1>7. OddTodo'
  <2> SUFFICES ASSUME NEW i \in Present, rows[i].text \notin Hex, ~Agrees(rows[i])
               PROVE  Keeps(i, rows[i].text)' /\ backfill'.stage # "over"
    BY <1>1, <1>2 DEF OddTodo, Present
  <2>1. PICK x : x = rows[i].text
    OBVIOUS
  <2>2. Keeps(i, x) /\ backfill.stage # "otps"
    BY <1>1, <2>1 DEF OtpInv, OddTodo
  <2>3. Keeps(i, rows[i].text)'
    BY <1>1, <1>4, <2>1, <2>2 DEF Keeps
  <2> QED BY <1>3, <2>2, <2>3
<1> QED BY <1>5, <1>6, <1>7 DEF OtpInv

\* A backfill writes what it has read of a row that nobody else gives a text.
LEMMA OtpBackfillRow ==
    ASSUME DecodesPlain, StoreTypes, OtpInv, BackfillRow
    PROVE  OtpInv'
<1>1. PICK t \in backfill.todo :
        /\ backfill' = [backfill EXCEPT !.todo = @ \ {t}]
        /\ \/ backfill.stage = "dates" /\ UNCHANGED rows
           \/ rows[t.id] # NoRow /\ rows' = [rows EXCEPT ![t.id] = Backfilled(rows[t.id], t.row)]
  BY DEF BackfillRow, Skipped, Write
<1>2. UNCHANGED handler
  BY DEF BackfillRow
<1>3. \A g \in Handlers : Turns(g)
  BY <1>2 DEF Turns
<1>4. /\ backfill'.stage = backfill.stage /\ backfill'.read = backfill.read
      /\ backfill'.todo = backfill.todo \ {t}
  BY <1>1 DEF StoreTypes, TypeOK
<1>5. t.id \in Ids /\ t.row \in Row /\ backfill.stage \in {"hex", "dates", "otps"}
  BY DEF StoreTypes, TypeOK, BackfillOK, Stages
<1>6. CASE backfill.stage = "dates" /\ UNCHANGED rows
  <2>1. Honest /\ Careful /\ Shrinks
    BY <1>4, <1>6 DEF Honest, Careful, Shrinks
  <2> QED BY <1>2, <1>3, <2>1, OtpStays
<1>7. CASE rows[t.id] # NoRow /\ rows' = [rows EXCEPT ![t.id] = Backfilled(rows[t.id], t.row)]
  <2> DEFINE new == Backfilled(rows[t.id], t.row)
  <2>1. rows[t.id] \in Row
    BY <1>5, <1>7 DEF StoreTypes, TypeOK
  <2>2. new \in Row
    BY <2>1, BackfilledType
  <2>3. t.row.text \in Texts /\ Decode[t.row.text] \in Texts \ Hex
    BY <1>5, StoreAssumption DEF Row, DecodesPlain
  <2>4. /\ \/ new.text = rows[t.id].text /\ new.otp = rows[t.id].otp
           \/ new.text \notin Hex /\ Agrees(new)
        /\ Frozen(t.id) => new.text = rows[t.id].text
        /\ backfill.stage # "dates" => new.text \notin Hex /\ Agrees(new)
    <3>1. CASE backfill.stage = "hex"
      <4>1. ~Frozen(t.id)
        BY <3>1 DEF Frozen
      <4>2. new.text \notin Hex /\ Agrees(new)
        <5>1. t.row.otp = NoOtp
          BY <3>1 DEF OtpInv, TodoOtp
        <5>2. new.text = Decode[t.row.text] /\ new.otp = OtpOf[Decode[t.row.text]]
          BY <2>1, <3>1, <5>1 DEF Backfilled, Row
        <5> HIDE DEF new
        <5> QED BY <2>2, <2>3, <5>2, PlainAgrees
      <4> QED BY <3>1, <4>1, <4>2
    <3>2. CASE backfill.stage = "dates"
      BY <2>1, <3>2 DEF Backfilled, Row
    <3>3. CASE backfill.stage = "otps"
      <4>1. rows[t.id].text = t.row.text /\ t.row.text \notin Hex
        BY <1>7, <3>3 DEF OtpInv, TodoOtp, Keeps
      <4>2. new.text = rows[t.id].text /\ new.otp = OtpOf[Decode[t.row.text]]
        BY <2>1, <3>3 DEF Backfilled, Row
      <4> HIDE DEF new
      <4> QED BY <4>1, <4>2 DEF Agrees
    <3> QED BY <1>5, <3>1, <3>2, <3>3
  <2> HIDE DEF new
  <2>5. Honest /\ Careful
    <3>1. PICK i, r : i = t.id /\ r = new
      OBVIOUS
    <3> QED BY <1>5, <1>7, <2>2, <2>4, <3>1, OtpWrite DEF new
  <2>6. rows'[t.id] = new
    BY <1>5, <1>7 DEF new, StoreTypes, TypeOK
  <2>7. Shrinks
    BY <1>4, <2>4, <2>6 DEF Shrinks
  <2> QED BY <1>2, <1>3, <2>5, <2>7, OtpStays
<1> QED BY <1>1, <1>6, <1>7

\* At a start no handler and no backfill holds anything.
LEMMA OtpReset ==
    ASSUME StoreTypes, OtpInv, Reset
    PROVE  OtpInv'
<1>1. UNCHANGED rows /\ backfill'.todo = {} /\ ~backfill'.read /\ backfill'.stage = "hex"
  BY DEF Reset, Unread
<1>2. \A h \in Handlers : handler'[h].at = "idle"
  BY DEF Reset, Idle
<1>3. \A h \in Handlers : HandlerOtp(h)'
  BY <1>2 DEF HandlerOtp, Suspended
<1>4. HexBare' /\ TodoOtp' /\ HexTodo'
  BY <1>1 DEF OtpInv, HexBare, TodoOtp, HexTodo, Present
<1>5. OddTodo'
  BY <1>1, <1>2 DEF OddTodo, Keeps, Frozen, Suspended
<1> QED BY <1>3, <1>4, <1>5 DEF OtpInv

LEMMA OtpInit == ASSUME HexHasNoOtp, Init PROVE OtpInv
<1>1. backfill.todo = {} /\ ~backfill.read /\ backfill.stage = "hex"
  BY DEF Init, Unread
<1>2. \A h \in Handlers : handler[h].at = "idle"
  BY DEF Init, Idle
<1>3. \A i \in Present : rows[i] = Legacy[i]
  BY DEF Init, Present
<1>4. HexBare
  BY <1>3 DEF HexBare, HexHasNoOtp, Present
<1>5. \A h \in Handlers : HandlerOtp(h)
  BY <1>2 DEF HandlerOtp, Suspended
<1>6. TodoOtp /\ HexTodo /\ OddTodo
  BY <1>1, <1>2 DEF TodoOtp, HexTodo, OddTodo, Keeps, Frozen, Suspended
<1> QED BY <1>4, <1>5, <1>6 DEF OtpInv

LEMMA OtpStep ==
    ASSUME DecodesPlain, StoreInv, OtpInv, [Next]_vars
    PROVE  OtpInv'
<1> USE DEF StoreInv
<1>1. ASSUME NEW h \in Handlers, Handle(h) PROVE OtpInv'
  BY <1>1, OtpFindRow, OtpFindNone, OtpFindConflict, OtpMerge, OtpUpdate, OtpCreate DEF Handle
<1>2. ASSUME NEW h \in Handlers, NEW sms \in Payloads, Receive(h, sms) PROVE OtpInv'
  BY <1>2, OtpReceive
<1>3. CASE UNCHANGED <<rows, handler, backfill>>
  BY <1>3, OtpTable, OtpStays DEF Turns
<1>4. CASE BackfillFails \/ Restart
  BY <1>4, OtpReset DEF BackfillFails, Restart
<1>5. ASSUME NEW c \in Clients, Wait(c) \/ Expire(c) PROVE OtpInv'
  BY <1>3, <1>5 DEF Wait, Expire, storeVars
<1>6. CASE UNCHANGED vars
  BY <1>3, <1>6 DEF vars, storeVars
<1> QED
  BY <1>1, <1>2, <1>4, <1>5, <1>6, OtpBackfillRead, OtpBackfillRow, OtpBackfillNext DEF Next

\* When the backfills are over, nothing is left for them to correct.
LEMMA OtpOver == StoreInv /\ OtpInv => OtpsAgree
<1> SUFFICES ASSUME StoreInv, OtpInv, backfill.stage = "over", NEW i \in Present
             PROVE  Agrees(rows[i])
  BY DEF OtpsAgree, Agrees
<1>1. backfill.todo = {}
  BY DEF StoreInv, StoreTypes, BackfillOK
<1>2. rows[i].text \notin Hex
  BY DEF OtpInv, HexTodo
<1> QED BY <1>1, <1>2 DEF OtpInv, OddTodo

----------------------------------------------------------------------------
(* The theorems.                                                             *)

\* The strengthened invariant of SmsStore: types, unique keys, waiters, and what
\* suspended handlers and the backfill know.
THEOREM StoreInvariant == Spec => []StoreInv
<1>1. Init => StoreInv
  BY StoreInit
<1>2. StoreInv /\ [Next]_vars => StoreInv'
  BY StoreStep
<1> QED BY <1>1, <1>2, PTL DEF Spec

\* Every variable of SmsStore and WaitOtp keeps its type: only whole rows with
\* real dates are ever written.
THEOREM StoreTypeCorrect == Spec => []TypeOK
<1>1. StoreInv => TypeOK
  BY DEF StoreInv, StoreTypes
<1> QED BY <1>1, StoreInvariant, PTL

\* No interleaving of handlers and backfills puts two rows with one key in the
\* table.
THEOREM UniqueKeyAlways == Spec => []UniqueKey
<1>1. StoreInv => UniqueKey
  BY DEF StoreInv
<1> QED BY <1>1, StoreInvariant, PTL

\* A request is in the list and has a timer exactly while its client waits.
THEOREM WaitersArmedAlways == Spec => []WaitersArmed
<1>1. StoreInv => WaitersArmed
  BY DEF StoreInv
<1> QED BY <1>1, StoreInvariant, PTL

\* A client gets an answer exactly if it waits when an OTP that it asked for is
\* announced.
THEOREM AnsweredAlways == Spec => []AnsweredWhenDue
<1>1. StoreInv => AnsweredWhenDue
  BY DEF StoreInv
<1> QED BY <1>1, StoreInvariant, PTL

\* The inductive invariant of the lines whose SMS are handled one by one.
THEOREM QuietInvariant == ASSUME PlainTexts PROVE Spec => []QuietInv
<1>1. Init => QuietInv
  BY QuietInit
<1>2. StoreInv /\ QuietInv /\ [Next]_vars => QuietInv'
  BY QuietStep
<1> QED BY <1>1, <1>2, StoreInvariant, PTL DEF Spec

\* Unless a decoded text looks like hex again, a text has one row on a line without
\* legacy rows whose SMS are handled one after the other.
THEOREM OneRowAlways == ASSUME PlainTexts PROVE Spec => []OneRowPerText
<1>1. QuietInv => OneRowPerText
  BY DEF QuietInv
<1> QED BY <1>1, QuietInvariant, PTL

\* On the same condition an SMS of such a line is announced once.
THEOREM AnnouncedOnceAlways == ASSUME PlainTexts PROVE Spec => []AnnouncedOnce
<1>1. QuietInv => AnnouncedOnce
  BY DEF QuietInv
<1> QED BY <1>1, QuietInvariant, PTL

\* What merges need: the handler of a plain line holds a row that is there still,
\* and one that has its text, until it deletes it.
THEOREM KeptInvariant == Spec => []KeptInv
<1>1. Init => KeptInv
  BY KeptInit
<1>2. StoreInv /\ KeptInv /\ [Next]_vars => KeptInv'
  BY KeptStep
<1> QED BY <1>1, <1>2, StoreInvariant, PTL DEF Spec

\* No text is lost by merging the rows of a line whose SMS are handled one after the
\* other and which never had a text in hex, whatever is backfilled meanwhile.
THEOREM TextsKeptAlways == Spec => []TextsKept
<1>1. KeptInv => TextsKept
  BY DEF KeptInv
<1> QED BY <1>1, KeptInvariant, PTL

\* The inductive invariant of OTPs and texts.
THEOREM OtpInvariant == ASSUME DecodesPlain, HexHasNoOtp PROVE Spec => []OtpInv
<1>1. Init => OtpInv
  BY OtpInit
<1>2. StoreInv /\ OtpInv /\ [Next]_vars => OtpInv'
  BY OtpStep
<1> QED BY <1>1, <1>2, StoreInvariant, PTL DEF Spec

\* Whatever handlers did while the backfills ran, afterwards the OTP of a row is
\* the one in its text, if no decoded text looks like hex again.
THEOREM OtpsAgreeAlways == ASSUME DecodesPlain PROVE Spec => []OtpsAgree
<1>1. CASE HexHasNoOtp
  <2>1. StoreInv /\ OtpInv => OtpsAgree
    BY OtpOver
  <2>2. Spec => []OtpInv
    BY <1>1, OtpInvariant
  <2> QED BY <2>1, <2>2, StoreInvariant, PTL
<1>2. CASE ~HexHasNoOtp
  <2>1. OtpsAgree
    BY <1>2 DEF OtpsAgree
  <2> QED BY <2>1, PTL
<1> QED BY <1>1, <1>2

=============================================================================
