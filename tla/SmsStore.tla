------------------------------ MODULE SmsStore ------------------------------
(***************************************************************************)
(* SmsService (src/src/sms/sms.service.ts): the table of messages, the     *)
(* handlers of incoming SMS, which overlap, the backfills of the start and *)
(* the OTP events for WaitOtp.                                             *)
(*                                                                         *)
(* An action is one answer of the database and what follows up to the next *)
(* await.  A handler works with the row that findFirst returned to it (the *)
(* snapshot in its record), whatever happens to the table meanwhile.  A    *)
(* line is a port and a sender: rows of two lines never meet.              *)
(***************************************************************************)
EXTENDS WaitOtp, Integers, FiniteSets

CONSTANTS
    Lines,      \* ports with a sender
    LinePort,   \* the port of each line
    Payloads,   \* the SMS that are reported, in real time or from a SIM's inbox
    Handlers,   \* bound: the calls of handleIncomingSms under way at once
    Texts, NoText,
    Hex,        \* the texts that isUcs2HexBody takes for UCS2 in hex
    Decode,     \* decodeSmsBody
    Otps, NoOtp,
    OtpOf,      \* OtpExtractor.extract
    Times, NoTime,
    Plausible,  \* the times from 2020 to 2030
    Corrected,  \* correctStoredGsmDate
    Scanned,    \* the times that backfillMisParsedTimestamps asks for
    Ids,        \* bound: the ids that the table and its readers can hold
    NoRow,
    NoSms,
    Legacy      \* the rows, of each id, that an earlier version may have left

Row == [line : Lines, text : Texts, time : Times, otp : Otps \cup {NoOtp}]
Payload == [line : Lines, text : Texts, time : Times]
Update == [text : Texts \cup {NoText}, otp : Otps \cup {NoOtp}, time : Times \cup {NoTime}]

ASSUME StoreAssumption ==
    /\ LinePort \in [Lines -> Ports]
    /\ Payloads \subseteq Payload /\ NoSms \notin Payloads
    /\ Hex \subseteq Texts
    /\ Decode \in [Texts -> Texts] /\ \A t \in Texts \ Hex : Decode[t] = t
    /\ OtpOf \in [Texts -> Otps \cup {NoOtp}]
    /\ Plausible \subseteq Times /\ Scanned \subseteq Times
    /\ Corrected \in [Times -> Times \cup {NoTime}]
    /\ NoText \notin Texts /\ NoOtp \notin Otps /\ NoTime \notin Times
    /\ NoRow \notin Ids \cup Row
    /\ Legacy \in [Ids -> Row \cup {NoRow}]

VARIABLES
    rows,       \* the table sms_messages
    handler,    \* the calls of handleIncomingSms
    backfill,   \* runStartupBackfills: the stage, and the rows it still has
    announced,  \* history: lines and texts that were announced, and how often (0, 1, 2 or more)
    overlapped, \* history: the lines where two handlers were under way at once
    disturbed,  \* history: those lines, and those that had a legacy row
    stored,     \* history: the lines and texts that were stored
    due         \* history: the clients that waited when an OTP they asked for was announced

storeVars == <<rows, handler, backfill>>
history == <<announced, overlapped, disturbed, stored, due>>
vars == <<storeVars, waitVars, history>>

NoUpdate == [text |-> NoText, otp |-> NoOtp, time |-> NoTime]
Stages == {"hex", "dates", "otps", "over"}
Steps == {"idle", "find", "conflict", "fill", "delete", "update", "undated", "create", "announce"}
Idle == [sms |-> NoSms, at |-> "idle", id |-> NoRow, row |-> NoRow, upd |-> NoUpdate, other |-> NoRow]
Unread(stage) == [stage |-> stage, read |-> FALSE, todo |-> {}]

Present == {id \in Ids : rows[id] # NoRow}
SameKey(r, s) == r.line = s.line /\ r.text = s.text /\ r.time = s.time

\* sms_messages_dedup_key: another row than id has the key of r.
Taken(r, id) == \E i \in Present \ {id} : SameKey(rows[i], r)

TypeOK ==
    /\ WaitTypeOK
    /\ rows \in [Ids -> Row \cup {NoRow}]
    /\ handler \in [Handlers -> [sms : Payloads \cup {NoSms}, at : Steps, id : Ids \cup {NoRow}, row : Row \cup {NoRow},
                               upd : Update, other : Ids \cup {NoRow}]]
    /\ backfill \in [stage : Stages, read : BOOLEAN, todo : SUBSET [id : Ids, row : Row]]
    /\ announced \in [Lines \X Texts -> 0 .. 2]
    /\ overlapped \subseteq Lines /\ disturbed \subseteq Lines
    /\ stored \subseteq Lines \X Texts
    /\ due \subseteq Clients

----------------------------------------------------------------------------
(* handleIncomingSms.                                                      *)

Message(sms) == Decode[sms.text]
Goto(h, step) == handler' = [handler EXCEPT ![h].at = step]
Done(h) == handler' = [handler EXCEPT ![h] = Idle]

\* The event is emitted: the handler runs to findFirst.
Receive(h, sms) ==
    /\ handler[h].at = "idle"
    /\ handler' = [handler EXCEPT ![h].sms = sms, ![h].at = "find"]
    /\ LET now == {l \in {sms.line} : \E g \in Handlers :
                        handler[g].at # "idle" /\ handler[g].sms.line = l} IN
       overlapped' = overlapped \cup now /\ disturbed' = disturbed \cup now
    /\ UNCHANGED <<rows, backfill, waitVars, announced, stored, due>>

\* Mutant: only the timestamp is compared.
Matching_Time(sms) == {id \in Present : rows[id].line = sms.line /\ rows[id].time = sms.time}

\* What findFirst may return: it names no order.
Matching(sms) ==
    {id \in Present :
        /\ rows[id].line = sms.line
        /\ rows[id].time = sms.time \/ rows[id].text \in {sms.text, Message(sms)}}

\* updates.message
NewText(sms, r) == IF r.text # Message(sms) /\ r.text \in Hex THEN Message(sms) ELSE NoText

\* updates.receivedAt
NewTime(sms, r) ==
    IF Corrected[r.time] # NoTime THEN Corrected[r.time]
    ELSE IF r.time # sms.time /\ sms.time \in Plausible THEN sms.time ELSE NoTime

\* updates
Updates(sms, r) ==
    [text |-> NewText(sms, r),
     otp |-> IF NewText(sms, r) = NoText THEN NoOtp
             ELSE IF OtpOf[Message(sms)] # NoOtp THEN OtpOf[Message(sms)] ELSE r.otp,
     time |-> NewTime(sms, r)]

\* findFirst finds a row: an upgrade, or a duplicate to be skipped.
FindRow(h) ==
    /\ handler[h].at = "find"
    /\ \E id \in Matching(handler[h].sms) :
         LET upd == Updates(handler[h].sms, rows[id])
             next == IF upd.time # NoTime THEN "conflict" ELSE "update"
         IN  IF upd.text = NoText /\ upd.time = NoTime
             THEN Done(h)
             ELSE handler' = [handler EXCEPT ![h] =
                    [@ EXCEPT !.at = next, !.id = id, !.row = rows[id], !.upd = upd]]
    /\ UNCHANGED <<rows, backfill, waitVars, history>>

FindNone(h) ==
    /\ handler[h].at = "find"
    /\ Matching(handler[h].sms) = {}
    /\ Goto(h, "create")
    /\ UNCHANGED <<rows, backfill, waitVars, history>>

----------------------------------------------------------------------------
(* applyExistingRecordUpdates.                                             *)

TextAfter(c) == IF c.upd.text # NoText THEN c.upd.text ELSE c.row.text

\* Mutant: a row that a backfill has re-dated meanwhile conflicts with itself.
Conflict_Self(c) ==
    {id \in Present :
        SameKey(rows[id], [line |-> c.row.line, text |-> TextAfter(c), time |-> c.upd.time])}

\* The other row that has the key which the update is going to write.
Conflict(c) ==
    {id \in Present \ {c.id} :
        SameKey(rows[id], [line |-> c.row.line, text |-> TextAfter(c), time |-> c.upd.time])}

\* The conflict has the new text already: only its OTP may be missing.
FindConflict(h) ==
    /\ handler[h].at = "conflict"
    /\ \/ /\ Conflict(handler[h]) = {}
          /\ Goto(h, "update")
       \/ \E id \in Conflict(handler[h]) :
            LET next == IF handler[h].upd.otp # NoOtp /\ rows[id].otp = NoOtp THEN "fill" ELSE "delete"
            IN  handler' = [handler EXCEPT ![h].at = next, ![h].other = id]
    /\ UNCHANGED <<rows, backfill, waitVars, history>>

\* The row is gone: Prisma rejects, and the wrapper of the listener logs it.
Missing(h, id) ==
    /\ rows[id] = NoRow
    /\ Done(h)
    /\ UNCHANGED rows

\* conflictUpdates
Fill(h) ==
    LET id == handler[h].other IN
    /\ handler[h].at = "fill"
    /\ \/ Missing(h, id)
       \/ /\ rows[id] # NoRow
          /\ rows' = [rows EXCEPT ![id].otp = handler[h].upd.otp]
          /\ Goto(h, "delete")
    /\ UNCHANGED <<backfill, waitVars, history>>

\* The existing row is merged into the conflict.
Delete(h) ==
    LET id == handler[h].id IN
    /\ handler[h].at = "delete"
    /\ \/ Missing(h, id)
       \/ /\ rows[id] # NoRow
          /\ rows' = [rows EXCEPT ![id] = NoRow]
          /\ Done(h)
    /\ UNCHANGED <<backfill, waitVars, history>>

\* The row r with the update u.
Updated(r, u) ==
    [r EXCEPT !.text = IF u.text = NoText THEN r.text ELSE u.text,
              !.otp = IF u.text = NoText THEN r.otp ELSE u.otp,
              !.time = IF u.time = NoTime THEN r.time ELSE u.time]

\* A row is written: its text counts as stored.
Write(id, r) ==
    /\ rows' = [rows EXCEPT ![id] = r]
    /\ stored' = stored \cup {<<r.line, r.text>>}

\* P2002 on the update leads to one without the timestamp, if that leaves any.
UpdateRow(h) ==
    LET c == handler[h]
        new == Updated(rows[c.id], c.upd) IN
    /\ c.at = "update"
    /\ \/ Missing(h, c.id) /\ UNCHANGED stored
       \/ /\ rows[c.id] # NoRow
          /\ ~Taken(new, c.id)
          /\ Write(c.id, new)
          /\ Done(h)
       \/ /\ rows[c.id] # NoRow
          /\ Taken(new, c.id)
          /\ IF c.upd.text = NoText THEN Done(h) ELSE Goto(h, "undated")
          /\ UNCHANGED <<rows, stored>>
    /\ UNCHANGED <<backfill, waitVars, announced, overlapped, disturbed, due>>

\* A second P2002 is thrown.
UpdateUndated(h) ==
    LET c == handler[h]
        new == Updated(rows[c.id], [c.upd EXCEPT !.time = NoTime]) IN
    /\ c.at = "undated"
    /\ Done(h)
    /\ IF rows[c.id] # NoRow /\ ~Taken(new, c.id)
       THEN Write(c.id, new)
       ELSE UNCHANGED <<rows, stored>>
    /\ UNCHANGED <<backfill, waitVars, announced, overlapped, disturbed, due>>

----------------------------------------------------------------------------
(* A new message.                                                          *)

\* Autoincrement: an id that neither the table nor a reader knows.
FreeIds ==
    {id \in Ids :
        /\ rows[id] = NoRow
        /\ \A h \in Handlers : id \notin {handler[h].id, handler[h].other}
        /\ \A t \in backfill.todo : t.id # id}

NewRow(sms) ==
    [line |-> sms.line, text |-> Message(sms), time |-> sms.time, otp |-> OtpOf[Message(sms)]]

\* P2002 ends the handler; an OTP is announced once the row is saved.
Create(h) ==
    /\ handler[h].at = "create"
    /\ LET new == NewRow(handler[h].sms) IN
       \/ /\ Taken(new, NoRow)
          /\ Done(h)
          /\ UNCHANGED <<rows, stored>>
       \/ /\ ~Taken(new, NoRow)
          /\ FreeIds # {}
          /\ Write(CHOOSE id \in FreeIds : TRUE, new)
          /\ IF new.otp = NoOtp THEN Done(h) ELSE Goto(h, "announce")
    /\ UNCHANGED <<backfill, waitVars, announced, overlapped, disturbed, due>>

\* The await of create returns: OTP_RECEIVED_EVENT reaches WaitOtp.
Announce(h) ==
    LET p == LinePort[handler[h].sms.line]
        k == <<handler[h].sms.line, Message(handler[h].sms)>> IN
    /\ handler[h].at = "announce"
    /\ Done(h)
    /\ HandleOtpReceived(p)
    /\ announced' = [announced EXCEPT ![k] = IF @ = 2 THEN 2 ELSE @ + 1]
    /\ due' = due \cup {c \in Clients : outcome[c] = "waiting" /\ Asks(c, p)}
    /\ UNCHANGED <<rows, backfill, overlapped, disturbed, stored>>

----------------------------------------------------------------------------
(* The backfills of the start, and restarts.                               *)

\* Mutant: a date that cannot be corrected is written all the same.
NeedsBackfill_AllDates(r) ==
    CASE backfill.stage = "hex"   -> r.text \in Hex
      [] backfill.stage = "dates" -> r.time \in Scanned
      [] backfill.stage = "otps"  -> OtpOf[Decode[r.text]] # r.otp

\* The rows that a backfill does not skip.
NeedsBackfill(r) ==
    CASE backfill.stage = "hex"   -> r.text \in Hex
      [] backfill.stage = "dates" -> r.time \in Scanned /\ Corrected[r.time] # NoTime
      [] backfill.stage = "otps"  -> OtpOf[Decode[r.text]] # r.otp

\* findMany: the rows to be updated, as they are now.
BackfillRead ==
    /\ backfill.stage # "over"
    /\ ~backfill.read
    /\ backfill' = [backfill EXCEPT !.read = TRUE, !.todo =
         {t \in [id : Present, row : {rows[id] : id \in Present}] :
            t.row = rows[t.id] /\ NeedsBackfill(t.row)}]
    /\ UNCHANGED <<rows, handler, waitVars, history>>

\* Mutant: the next backfill starts over the rows of the previous one.
NextStage_Skip == [hex |-> "dates", dates |-> "over", otps |-> "over"]

\* The order of runStartupBackfills.
NextStage == [hex |-> "dates", dates |-> "otps", otps |-> "over"]

BackfillNext ==
    /\ backfill.read
    /\ backfill.todo = {}
    /\ backfill' = Unread(NextStage[backfill.stage])
    /\ UNCHANGED <<rows, handler, waitVars, history>>

\* What a backfill writes over the row r, from the row old that it has read.
Backfilled(r, old) ==
    CASE backfill.stage = "hex" ->
           [r EXCEPT !.text = Decode[old.text],
                     !.otp = IF old.otp # NoOtp THEN old.otp ELSE OtpOf[Decode[old.text]]]
      [] backfill.stage = "dates" -> [r EXCEPT !.time = Corrected[old.time]]
      [] backfill.stage = "otps"  -> [r EXCEPT !.otp = OtpOf[Decode[old.text]]]

\* P2002
Collides(t) == rows[t.id] # NoRow /\ Taken(Backfilled(rows[t.id], t.row), t.id)

\* Only the backfill of timestamps goes on after P2002.
Skipped(t) == backfill.stage = "dates" /\ Collides(t)

BackfillRow ==
    \E t \in backfill.todo :
      /\ backfill' = [backfill EXCEPT !.todo = @ \ {t}]
      /\ \/ Skipped(t) /\ UNCHANGED <<rows, stored>>
         \/ /\ rows[t.id] # NoRow
            /\ ~Collides(t)
            /\ Write(t.id, Backfilled(rows[t.id], t.row))
      /\ UNCHANGED <<handler, waitVars, announced, overlapped, disturbed, due>>

\* The process ends and starts again: the table stays.
Reset ==
    /\ handler' = [h \in Handlers |-> Idle]
    /\ backfill' = Unread("hex")
    /\ LoseWaiters
    /\ UNCHANGED <<rows, history>>

\* An update of a backfill rejects, and nobody catches it.
BackfillFails ==
    /\ \E t \in backfill.todo :
         \/ rows[t.id] = NoRow
         \/ Collides(t) /\ ~Skipped(t)
    /\ Reset

Restart == Reset

----------------------------------------------------------------------------
\* The database never holds two rows with one key, whichever of its writers,
\* handlers merging, upgrading and inserting and backfills, come together.
UniqueKey == \A i, j \in Present : i # j => ~SameKey(rows[i], rows[j])

\* One wait-otp request, and the callback of its timer.
Wait(c) == WaitForOtp(c) /\ UNCHANGED <<storeVars, history>>
Expire(c) == TimesOut(c) /\ UNCHANGED <<storeVars, history>>

Init ==
    /\ WaitInit
    /\ \E ids \in SUBSET Ids : rows = [id \in Ids |-> IF id \in ids THEN Legacy[id] ELSE NoRow]
    /\ UniqueKey
    /\ overlapped = {}
    /\ disturbed = {rows[id].line : id \in Present}
    /\ stored = {<<rows[id].line, rows[id].text>> : id \in Present}
    /\ handler = [h \in Handlers |-> Idle]
    /\ backfill = Unread("hex")
    /\ announced = [k \in Lines \X Texts |-> 0]
    /\ due = {}

Handle(h) ==
    \/ FindRow(h) \/ FindNone(h) \/ FindConflict(h) \/ Fill(h) \/ Delete(h)
    \/ UpdateRow(h) \/ UpdateUndated(h) \/ Create(h) \/ Announce(h)

Next ==
    \/ \E h \in Handlers : Handle(h) \/ \E sms \in Payloads : Receive(h, sms)
    \/ \E c \in Clients : Wait(c) \/ Expire(c)
    \/ BackfillRead \/ BackfillRow \/ BackfillNext \/ BackfillFails \/ Restart

Spec == Init /\ [][Next]_vars

----------------------------------------------------------------------------
(* Properties.                                                             *)

\* As long as the SMS of a line without legacy rows are handled one after the
\* other, a text has one row: a resync or a repetition never adds another (the two
\* queries of handleIncomingSms, lines 78-88 and 147).
OneRowPerText ==
    \A i, j \in Present :
        i # j /\ rows[i].line = rows[j].line /\ rows[i].line \notin disturbed
            => rows[i].text # rows[j].text

\* On such a line an SMS is announced once, however often the inbox of the SIM
\* gives it back, and across restarts.
AnnouncedOnce ==
    \A k \in DOMAIN announced : k[1] \notin disturbed => announced[k] <= 1

\* Rows of an earlier version may repeat a text.  They are merged when the inbox
\* is read again, while backfills change dates; as long as the SMS of a line are
\* handled one after the other, a row that is deleted leaves another with its text
\* (applyExistingRecordUpdates, lines 339-366).  A line that had a text in hex is
\* exempt: a row with such a text gets the text of any SMS of its time, and what
\* it held is lost (lines 83, 94-96).
TextsKept ==
    \A k \in stored : k[1] \notin overlapped /\ (\A t \in Hex : <<k[1], t>> \notin stored)
        => \E i \in Present : rows[i].line = k[1] /\ rows[i].text = k[2]

\* No text in hex was stored with an OTP.
HexHasNoOtp == \A id \in Ids : Legacy[id] # NoRow /\ Legacy[id].text \in Hex => Legacy[id].otp = NoOtp

\* When the backfills are over, the OTP of each row is the one in its text,
\* although handlers wrote while they worked on the rows they had read.  If an
\* earlier version took an OTP from a text in hex, it does not hold: a handler
\* that upgrades such a row may overtake backfillOtpCodes, or be overtaken by it.
OtpsAgree ==
    HexHasNoOtp /\ backfill.stage = "over"
        => \A i \in Present : rows[i].otp = OtpOf[Decode[rows[i].text]]

\* A request has a timer exactly while it waits, and is in the list exactly then.
WaitersArmed == waiters = armed /\ armed = {c \in Clients : outcome[c] = "waiting"}

\* A client gets an answer exactly if it waits when an OTP that it asked for is
\* announced: no time-out and no other client takes it away.
AnsweredWhenDue == due = {c \in Clients : outcome[c] = "answered"}

\* "PostgreSQL persistence": no text that was stored is ever lost.  Violated: two
\* handlers that found two copies delete one copy each.
NothingLost ==
    \A k \in stored : \E i \in Present : rows[i].line = k[1] /\ Decode[rows[i].text] = Decode[k[2]]

=============================================================================
