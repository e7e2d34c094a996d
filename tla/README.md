# A TLA+ model of gsm-16ports

`gsm-16ports` is a NestJS service for a USB bank of sixteen GSM modems.  It opens
a COM port per modem, keeps each link alive, receives and reassembles SMS,
extracts one-time passwords, stores everything in PostgreSQL and hands OTPs to
long-poll clients, webhooks and a dashboard.  It is one Node process: there are
no threads, but nearly every function suspends at an `await`, and what runs in
between (timers, serial port events, HTTP requests, other modems) is where the
program can go wrong.  The modules in this directory model that: an action is
what runs between two awaits, and TLC explores every order in which the event
loop can run them.

## 1. Inventory

Paths are relative to `src/src`.

| Component | State | Operations | Talks to | What is hard |
|---|---|---|---|---|
| `ModemInstance` (`modem/modem.instance.ts`) | connection status, `SerialPort`, two timers, command chain and active command, `destroyed`, `connectingInProgress`, `closingIntentionally`, current ICCID | `start`, `stop`, `forceReconnect`, `connect`, `runHealthCheck`, `handleDisconnect`, `closePort`, `sendCommand`, `sendSms` | serial port, `AtCommandService`, the SMS parsers, config (phone override), events | every one of them suspends and may be overtaken by the others; late or missing answers, which carry no mark of their command; ports that vanish |
| `ModemManager` (`modem/modem.manager.ts`) | `instances` Map, `knownSystemPorts`, discovery timer | discovery (automatic or from a list), PATCH enabled / phone / label, `sendSms`, `forceReconnect`, shutdown | instances, config, `RunQueue`, events | Map entries read before an await and used after it; discovery against PATCH |
| `RunQueue` (`common/utils/run-queue.util.ts`) | `running`, `queued`, `pendingTask` | `schedule` | manager | coalescing, a task that rejects |
| `ModemConfigService` (`config/modem-config.service.ts`) | the yaml file and its image in memory | `getEntries`, `ensureEntry`, `updateEntry*`, `clearPhoneOverride` | manager, instances | an empty list means the whole port range |
| `SmsParser` (`modem/sms.parser.ts`) | ports that await a PDU, groups of parts with a timer each | `parseLine`, `flushGroup` | instances, events | parts out of order, repeated, late, lost; reused references |
| `SimInboxParser` (`modem/sim-inbox.parser.ts`) | none (it reads the memory of the SIM) | `parseCmglResponse` | instances | parts in any order and of several messages; a memory that is emptied before it is read |
| `SimPortHistoryService` (`modem/sim-port-history.service.ts`) | table of ICCID and last port | `handleIccidObserved` | events, database | read, then write, with several ports reporting |
| `SmsService` (`sms/sms.service.ts`) | table of messages | `handleIncomingSms`, start-up backfills, queries | events, database, extractor | duplicate check and insert are two steps |
| `WaitOtpService` (`otp/wait-otp.service.ts`) | list of waiters with a timer each | `waitForOtp`, `handleOtpReceived` | events, HTTP | time-out against answer |
| `OtpExtractor`, `AtCommandService`, timestamps, phones | none | pure functions on text | | regular expressions |
| Webhooks (`otp/*webhook*`, `common/utils/webhook-post.util.ts`) | last result | POST with bounded retry | events, HTTP | overlapping deliveries |
| PDU codec (`common/utils/pdu.util.ts`) | none | encode, decode, split | instance, parsers | boundaries at 160/153 and 70/67 |
| Dashboard (`dashboard/`) | in the browser: table of ports, drawer, dialogs, requests under way; SMS feed and its mode | events of the gateway, reloads, polling, saves; merging, grouping and searching SMS | gateway, HTTP API | an answer older than an event; events missed while the socket is down; rows merged one by one and grouped anew |
| HTTP API, guards, filters, health | none | routing | all | |

`PROJECT.json` lists for each of them whether it is modelled, and under
`hazards` what can go wrong where, with the properties that cover it.

## 2. Modules

| Module | Models | Used by |
|---|---|---|
| `LinkMonitor` | what an instance promises the manager: five modes, no rest while the link is down, a stop is final | refined by `ModemLink` |
| `ModemLink` | one `ModemInstance` from `start()` to `stop()` | `MCModemLink`, `ModemProofs` |
| `RunQueue` | the queue that serialises discovery | `Fleet` (`INSTANCE`) |
| `Fleet` | `ModemManager` with `ModemConfigService` | `MCFleet`, `FleetProofs` |
| `SimIdentity` | ICCID, SIM changes, phone override and port history of the ports | `MCSimIdentity`, `SimIdentityProofs` |
| `SmsParser` | the lines of incoming SMS and the reassembly of their parts | `MCSmsParser`, `ModemProofs` |
| `AtChannel` | the serial line of one instance: commands, `sendSms` and what comes back | `MCAtChannel`, `AtChannelProofs` |
| `PduCodec` | `pdu.util.ts`: alphabets, septets, headers, parts | `SimInbox` (`EXTENDS`), `SimInboxProofs` |
| `SimInbox` | the memory of a SIM, how it is read, regrouped and emptied | `MCSimInbox`, `SimInboxProofs` |
| `Dashboard` | the table of ports, the drawer and the dialogs of one page | `MCDashboard`, `DashboardProofs` |
| `SmsFeed` | the SMS feed of one page | `MCSmsFeed`, `SmsFeedProofs` |
| `WaitOtp` | the list of waiting clients and their timers | `SmsStore` (`EXTENDS`) |
| `SmsStore` | the table of messages, its handlers and backfills, OTP events; composed with `WaitOtp` | `MCSmsStore`, `SmsStoreProofs` |
| `MC*` | constants, symmetry and message tables for TLC | the `.cfg` files |
| `*Proofs` | theorems | |

No module uses a `RECURSIVE` operator, so that every one can be proved about.
The modules meet at their edges: `Fleet` relies on `ConnectReturns` of
`ModemLink`; `SimIdentity` on `NeverStranded` and `WatchedIffOnline`;
`AtChannel` refines what `ModemLink` calls an answer, a failure or a time-out,
and takes from it only that a port may close at any time; `SmsParser` and
`SimInbox` end in the `SMS_RECEIVED` events that `SmsStore` and `SmsFeed` begin
with; `Dashboard` sees of `Fleet` what `getAllStates` lists.
A definition `X_Y` under a comment "Mutant" is not part of the model: it is `X`
with a plausible mistake, kept to show that the properties would notice it.

### ModemLink

State is the class's own: `status`, `destroyed`, `port`, `closingIntentionally`,
the two timers, `chain` (commandChain) and `phase` (how far the command at its
head is).  `pc` says at which await each asynchronous function is suspended: one
`connect()` (the guard `connectingInProgress` lets in no second) and as many
overlapping `runHealthCheck` as `HealthChecks` has members.  `slot` is the
operating system's view of each `SerialPort` object; `owner` says which caller
of `closePort` awaits the close of a slot.

The scheduling of JavaScript is part of the model.  A macrotask (timer, I/O
callback, call of the manager) needs `Quiet`: no continuation of a settled
promise is pending.  What runs to the next await is one action, e.g.
`BeginConnect` is `connect()` from its guard to the await of `close()` or
`open()`, `closePort` included.  AT commands whose outcome is handled alike are
one stage (`SETUP`, `STAT`, `META`); an answer is success, failure or "SIM
absent".

### AtChannel

Where `ModemLink` only says that a command ends, this module says how.  A job
(`connect()` up to online, a health check, an outgoing SMS) joins `chain`; the
head is written (`step`), becomes `activeCommand` in the callback of the write,
and is settled by the next final line (`isFinalResponse`), by its timer or by
`closePort`.  `owed` is the queue of answers that the modem still has to give;
each knows its job, but the code that receives it does not: `Answer` hands it to
whatever is active, and drops it when nothing is.  `sendSms` checks
registration, then for each part awaits the prompt, which any `>` in the buffer
satisfies and which no `closePort` rejects (`deaf`), writes the PDU and awaits
the reference. `accepted` is what the network has taken; `gaveUp` records that
some job was left before its answer came, the only way in which answers shift.

### Fleet

`instances` maps each port to none, a live or a stopped instance, `orphaned` are
the ports with a live instance that the Map has lost.  `disc` is the suspended
discovery with its local variables (`wanted` is `systemPorts` or `activePorts`,
`left` the previous ports that are gone), `client` the suspended PATCH requests.
The synchronous parts of discovery are split into one action per port, and
nothing else runs before they end (`Yielding`).  Both modes of `autoDiscover`,
every yaml file and every set of plugged devices are initial states.  `Restart`
ends the process at any await and starts it again with the yaml file it wrote;
this is also what an unhandled rejection of the discovery does.

### SimIdentity

One level above `ModemLink`: of `connect()` and the overlapping health checks
only the commands that read the ICCID and the phone number remain (`flow` is the
await at which each is suspended), for several ports at once, because a card
moves from one port to another and both report it to `SimPortHistoryService`.
`inserted` is the truth, `currentIccid` and `iccid` what the program remembers
and shows, `override` the number in the yaml file, `lastPort` the table, `record`
the `recordAndCheck` under way.  `Unreliable` says when a command of a flow may
fail: on a flaky link, or because another flow has closed the port.  Every
reading function swallows failures, so `Reads` may return null.  `status` keeps
of the connection status what these guards look at.

### SmsParser

`handleLine` gives away the lines of a port one by one: `Header` is a `+CMT:`
line, `PduLine` the line after it, `PduSwallowed` the same line while a command
is active, `StrayLine` any other line that reaches `parseLine`.  `groups` and
`timers` are kept apart, as in the code, where a timer is known only to its
group and could outlive it.  A text is represented by the message it comes from,
at each position; `heard`, `age` and `mixed` are history variables that only
properties look at.

### PduCodec and SimInbox

`PduCodec` has one operator per function of `pdu.util.ts`, over code points and
octets instead of hex digits; packing and unpacking are stated bit by bit.
`SimInbox` is its use: a message goes through `encodeSubmitPdu` (`Send`), its
parts reach the slots of the SIM in any order, late, twice or never (`Store`),
`CheckMemory` is the part of `refreshMetadata` that deletes everything from nine
tenths on, `Sync` is `syncSimInbox` with `parseCmglResponse`, `decodeDeliverPdu`
and `reassemble`, with stray lines between the entries.  A live part goes to
`SmsParser`, hence `Store` needs an instance that is down.

### SmsStore and WaitOtp

The database is the only thing these functions await, so an action is one of its
answers and the code after it up to the next query: `FindRow` and `FindNone` are
`findFirst` of `handleIncomingSms`, `FindConflict`, `Fill`, `Delete`,
`UpdateRow`, `UpdateUndated` the steps of `applyExistingRecordUpdates`, `Create`
the insert, `Announce` what follows it.  `handler` holds each call under way with
what it has read: the row it found (`row`) is a copy and may be out of date by the
time it is used.  The handlers of one port are not serialised: the inbox sync
emits every stored SMS in one go.  A line is a port with a sender, the scope of
every query.  `rows` is the table with its unique key; a write that breaks it is
P2002.  `findFirst` names no order, so it may give any row that matches.

The texts, times and OTPs are model values; what the code computes from them
(`Decode`, `OtpOf`, `Corrected`, `Plausible`) are constant functions, `Corrected`
with the clock held still.  `backfill` is the suspended `runStartupBackfills`
with the rows that it has read and not yet written.  Rejections differ: those of
an event handler are caught and logged by the wrapper of `@nestjs/event-emitter`
(`Missing`, `UpdateUndated`), those of a backfill by nobody, and the process ends
(`BackfillFails`).  `WaitOtp` is called synchronously by the event, hence a
conjunct of `Announce` and not an action of its own.

### Dashboard

The state of a port is a revision, 0 for none.  `events` are the
`modem.status` and `modem.removed` on their way: they keep their order and are
lost while the socket is down.  A reload (`load`) or a save (`save`) is asked,
answered with what the server then has, and handled by the page later, so that
answers overtake events and each other.  `pending` is the dialog that
is open, `shown` what `renderDrawerDetail` last put on the screen; that a
dialog, a drawer and a poll do not know of each other is in the code.

The server is not tied to its events, as it is not in the code: what
`getAllStates` says of a port changes first (`Change`, `Unlist`) and is told
later (`Report`) or, for a disabled port that discovery finds, never; an instance
that was stopped while its `connect()` was under way goes on telling
(`Straggle`); in manual mode a disabled port is listed though `modem.removed` was
sent (`RemovedListed`); `forceReconnect` answers after a long await, and for a
port that has gone meanwhile (`AnswerReconnect`).  `unsure` is a history variable:
the ports whose last event was lost, was not of their present state, or overtook
an answer of another state (`Overtakes`).

### SmsFeed

A row of the feed is the sequence of its SMS; its text, times and OTP are
functions of it.  `Announce` is `SMS_RECEIVED`, which the gateway sends before
`SmsService` has looked whether it has the SMS, and again when the modem lists it
again.  The service then finds no row and inserts one (`LookUp`, `Create`), or
finds one with the text, however old, or with the time (`Existing`), stores
nothing and may move that row to the time of the new SMS (`SkipDuplicate`): the
page has shown an SMS that the database does not have.  `Receive` is
`mergeIntoTopSmsRow` or `prependFeedItem`; `LoadReturns` replaces the feed by
`renderSmsGroups` of an answer.  Several SMS may have one time, and the query
orders by time alone: which of them are on a page (`Pages`) and in what order
they are rendered (`RenderSmsGroups`, a set of renderings) is left open.
`GroupSmsMessages` is a definition by sets; an assumption of the MC module, which
TLC evaluates, says that it is what the loop of `groupSmsMessages` computes on
every page.  `exact` is a history variable: a reload brought what the page had
been told of, and nothing was missed, late, repeated or of the time of another
since.

## 3. Runs

Nine runs pass; three show where the code departs from what its documents say.

- `link` (`MCModemLink.cfg`): no interleaving of timers, port events, forced
  reconnects, stop and answers leaves an instance without a timer or a flow that
  will bring it back (`NeverStranded`), arms the health interval while the link
  is down or forgets to arm it (`WatchedIffOnline`), opens two handles at once
  (`OneOpening`), forgets a handle that `connect()` has finished opening
  (`OpenedHandleHeld`; one that is dropped while it opens is not covered, see
  section 5) or an unsettled promise (`NoLostCommand`), or reconnects once it is
  stopped and its `connect()` is over (`StoppedStaysDown`).
  Every `connect()` returns (`ConnectReturns`), on which `Fleet` relies, and the
  instance implements `LinkMonitor` (`ImplementsMonitor`).
- `fleet` (`MCFleet.cfg`): the Map keeps no entry of a stopped instance
  (`NoDeadEntry`) or of a disabled port (`DisabledHasNoEntry`) beyond the call
  that will remove it; a live instance that the Map has lost is in neither (see
  section 5).  When requests cease, ports that stay enabled and present get and
  keep an entry, and ports that are disabled, or gone after a scan saw them, lose
  theirs (`MapFollowsConfig`).
- `sim` (`MCSimIdentity.cfg`): the ICCID shown is the one the next check
  compares with (`ShownIsCompared`); a card that stays put while link and
  process are left alone is recognised for good (`IccidConverges`), and its port
  is in the table for good, however late the database handled what another port
  had observed (`HistoryConverges`).
- `parser` (`MCSmsParser.cfg`): a group has one timer, which never outlives it
  (`OneTimer`); a handled part is pending or emitted (`NothingDropped`); a
  message whose parts come within the timeout is emitted whole (`WholeInTime`);
  every group ends (`GroupsEnd`).
- `store` (`MCSmsStore.cfg`): whatever handlers and restarts do to the table
  meanwhile, after the backfills an OTP is the one in its text (`OtpsAgree`),
  provided that no row in hex had one.  As long as the SMS of a line are handled
  one after the other, the merges of repeated rows of an earlier version lose no
  text, while backfills change their dates and restarts interrupt both
  (`TextsKept`; lines that never had a text in hex); if there were no such rows, a
  text gets one row (`OneRowPerText`) and is announced at most once
  (`AnnouncedOnce`).  A client has a
  timer and a place in the list exactly while it waits (`WaitersArmed`), and is
  answered exactly if it waits when its OTP is announced (`AnsweredWhenDue`).
- `channel` (`MCAtChannel.cfg`): the timer of a command never outlives it and
  takes a later command away (`ActiveArmed`); as long as no job was left before
  its answer, answers are not mixed up, and a request that is answered with a
  reference had every part accepted, in order (`SentIsAccepted`); every request
  to send is answered (`SendsSettle`).
- `inbox` (`MCSimInbox.cfg`): whatever was read completely is announced as it
  was written (`WholeAgain`), and the network can take every part
  (`FitsOneSms`).
- `dashboard` (`MCDashboard.cfg`): a port of which the page was told what it now
  is ends with that row, through events, reloads and answers in any order
  (`RowsFollow`), the drawer shows what the table does (`DrawerAgrees`), and
  polling repairs what was missed, late or never told (`PollingConverges`).
- `feed` (`MCSmsFeed.cfg`): merging one by one gives the rows that
  `renderSmsGroups` makes of the same SMS, the newest that the page was told of
  (`LiveAsGrouped`); that the database has the same SMS is not said, and does not
  hold.  Polling brings what the database has (`FeedConverges`).
- `sim_bogus`, `store_lost`, `inbox_cleared`: one property each, violated; see
  section 5.

### Bounds

`ModemLink`: two slots are what `connect()` can have alive at once (one closing,
one opening), so a third would never be used; two health checks are enough for
one to be behind another and behind or before `connect()` in the chain.  Nothing
else is bounded.  `Fleet`: two ports, so that one port's request or cable
interferes with the loop that works on the other; one request under way at a
time in the run with liveness (the proofs cover any number); one restart
(`MaxRestarts`).  `SimIdentity`: two ports and one card, the least in which a
card moves and two ports report it; one health check beside `connect()` per
port; restarts are unbounded.  The database answers for one observation of a
port before the port's next (in the guard of `CheckIccid`).  The violation
`sim_bogus` needs one port and two cards.  `SmsParser`: two messages of two
parts that use one reference one after the other or at once, and a plain one, on
one port (groups of different ports share nothing); a timeout of two ticks, so
that parts come before, between and after them; one repeated part
(`MaxRepeats`).  Three parts were checked too, but take three minutes; the
proofs cover any number. `SmsStore`: one line (rows of different lines never
meet) with two handlers under way, the least that overlap; a text with an OTP
and one without, one of them also in hex as an earlier version stored it; a date
to be corrected and the date it is corrected to, so that a correction can meet
an existing key; any subset of three legacy rows; four ids, which one row more
than the legacy ones needs (the merge frees ids; when none is free, `Create`
waits).  Two clients, one that asks by port and one by phone.  The handlers are
symmetric, which is sound here because the run checks invariants only.
`store_lost` starts from an empty table and one code that is reported with two
times.

`AtChannel`: one health check beside `connect()`, a message of two parts, which
has a boundary between parts, and one of a single part; a modem that owes up to
three answers (`MaxOwed`), so that an answer can be two commands late.
`SimInbox`: seven messages that lie on the boundaries of the codec (160 and 161
septets, 70 and 71 code points, three parts, an extension character that ends a
part and one that is cut in two), numbers of three kinds and two references, so
that two messages can share one; two messages sent (`MaxSent`), three slots, so
that a text of three parts fits and two messages compete; one stray line
(`MaxStray`), as a second would cost one more PDU in the same way. `Dashboard`:
two ports, since a row is touched by the other's save and reload; two
overlapping reloads, one save behind a dialog (it keeps its port while the
drawer changes) and one behind a button; a change of the ports' states after
the first (`MaxRevision`) beside any number of removals; one event
(`MaxEvents`) and two requests (`MaxRequests`) under way, so that answers
overtake events and each other (the proofs take any number of events).
`SmsFeed`: three SMS of one thread, each in time for the one before but the last
not for the first, whose text it repeats; one of another thread that may come in
between; and one of the first thread with the time of the last, so that the
server finds duplicates by text and by time.  The first two are stored before.
Window and limits (`Window`, `PageSize`, `MaxRows`) are 2, so that each of them
cuts; two loads; four announcements (`MaxAnnounced`), two events (`MaxEvents`)
and two SMS being stored (`MaxSaving`) at a time.

### Fairness

`ModemLink`: continuations run, the operating system answers every open and
close, armed timers fire, and a command ends, at the latest by its timeout
(`WF(CommandFails)`: it is not assumed that a modem ever answers).  Calls of the
manager, answers, cables and health ticks are free.  `Fleet`: the interval
fires, `SerialPort.list()`, `start()` and `stop()` resolve.  For `start()` this
is `ConnectReturns` of `ModemLink`; for `stop()`, that the operating system
calls back a close.  A request whose await is over is blocked for as long as a
synchronous part of discovery runs, hence strong fairness for the two actions
that resume requests.  `MapFollowsConfig` also supposes that requests cease: the
manual sweep iterates the live Map, and a client that switches ports on and off
for ever may keep it busy for ever.  `SimIdentity`: a port that is not online is
connected again and an online one is checked again (`NeverStranded` and
`WatchedIffOnline` of `ModemLink`), and commands and the database answer.  The
antecedent of its liveness properties says what must end: changes of the card,
flaky commands, reconnects of a link that is up, restarts.  `SmsParser`: time
goes by and expired timers fire; nothing is assumed of network or modem.
`AtChannel`: the next job starts, a write calls back with or without an error,
and armed timers fire; nothing is assumed of the modem, the port or the callers.
`Dashboard` and `SmsFeed`: the poll timer fires, handlers run on, and a request
is answered or fails.  A server may fail any one request, so what is assumed is
that some answer comes if it is asked again and again, hence strong fairness; in
`Dashboard` the poll gets it as well, since `MaxRequests` lets the user's
requests disable it now and then, which the code does not.  Socket and user are
free; both liveness properties say that the socket stays down, which is when the
code polls.  `SimInbox` has no liveness property: nothing makes a port come back
there, that is `ModemLink`'s subject.

## 4. Proofs

`tlapm` checks every proof.  They hold for every value of the constants that
satisfies the named assumptions of the modules (`FlowsAssumption`,
`SlotsAssumption`, `InRangeAssumption`, `SimsAssumption`, `MessagesAssumption`,
`JobsAssumption`, `PartsAssumption`, `RequestsAssumption`, `StoreAssumption`,
...), which only say that model values differ, that tables have the right
domains and that bounds are positive.  Two of `SimInbox` say more: texts have at
most the 640 characters that the form takes (`BodyAssumption`,
`send-sms.dto.ts:19`), and references fit an octet (`ReferencesAssumption`,
`pdu.util.ts:612`).  Where a theorem needs more, it is a
hypothesis of the theorem (`PlainTexts`, `DecodesPlain`, below).

- `ModemProofs`, on `ModemLink`.  `LinkInv` is inductive: types, `NoLostCommand`,
  `OneOpening`, `OpenedHandleHeld`, `WatchedIffOnline`, and three facts that hold
  them together: each closing slot has the caller that awaits it
  (`ClosersMatch`), a stopped instance has no timer (`StoppedUnarmed`), and only
  `connect()` goes online (`OnlyConnectOnline`).  `WatchedIffOnline` is not
  inductive alone: that `GoOnline` arms the interval of a live instance only
  matters because nobody else sets the status to online, and `OpenedHandleHeld`
  (a handle that `connect()` finished opening is `this.port` until it is closed)
  needs to know who closes what.  From `LinkInvariant` follow `TypeCorrect`,
  `CommandsSettled`, `OpenedHandlesHeld`, `Watched`; `StopIsFinal` is an action
  property from the same invariant.  `NeverStranded` needs one fact more,
  `SimGone`: if `connect()` still has commands to run while the status is
  `no_sim`, a health check has closed the port for want of a card, those
  commands fail at once, and the reconnect timer of that close is armed or about
  to be; so the end of `connect()` cannot come after that timer (`StrandInv`).
  `RefinesMonitor` maps each initial state and each step of `ModemLink` to one
  of `LinkMonitor` or to a stutter.
- `FleetProofs`.  `FleetInv` adds to the types, `NoDeadEntry` and
  `DisabledHasNoEntry` (both about entries of the Map) that a free queue means
  an idle discovery (`IdleWhenFree`: otherwise a second run could start and
  overwrite the `disc` of the one that is about to delete an entry) and that a
  suspended discovery or request names a port (`Targets`).
- `SimIdentityProofs`.  The types are inductive; `ShownIsCompared` is inductive
  given the types.
- `ModemProofs`, on `SmsParser` (whose `ParserInit`, `ParserNext`, ... have
  names of their own so that one module can extend both). `ParserInv` adds
  `GroupsOK` to the properties: a group without total has no parts and vice
  versa, a part lies under its own key, and a message that met no other gave the
  group its total. The last fact is why `NothingDropped` survives a flush: the
  text has as many positions as the group's total, and a part is among them
  because the total is its message's. `WholeInTime` has an invariant of its own,
  `TimeInv`: the timer of a group that holds only one message is `Timeout` minus
  the age of that message (`Pending`), so that it cannot fire before the message
  is too old to count, and a group that has all parts of its message is emitted
  whole by the very part that filled it.
- `SmsStoreProofs`.  `StoreInv` adds to the types and the properties what a
  suspended call knows: a handler that works on a row has its id and its copy
  (`HandlersOK`; otherwise its update could write an absent text), and the
  backfill of dates holds only rows that can be corrected, that of a finished
  start none (`BackfillOK`; otherwise it could write an absent time).
  `UniqueKey` is preserved because every writer goes through a test of `Taken`;
  lemma `WriteKeepsKeys` says so once for all five.  `AnsweredWhenDue` needs
  `WaitersArmed`: an OTP answers those in the list, and only those wait.
  `OneRowPerText` and `AnnouncedOnce` speak of lines without legacy rows whose
  SMS are handled one after the other; `QuietInv` says what the only handler of
  such a line knows: what it found is in the table still, what it did not find
  is not there, and the backfill will not undo it.  These two suppose
  `PlainTexts`: no SMS has a text that looks like hex again when it is decoded;
  the code cannot tell such a text from UCS2 in hex (`sms.service.ts:75`).
  `TextsKept` speaks of lines with legacy rows, too, where rows are merged:
  `KeptInv` says that the handler of such a line, from the look-up to the
  delete, holds a row that is there still and, where it merges, another one with
  the same text, and that the backfill, which deletes nothing, writes that row
  no other text.  It needs no hypothesis about texts, as lines that had one in
  hex are exempt.  `OtpInv` is why handlers and backfills do not disturb each
  other's OTPs although both write what they had read: a row whose OTP is about
  to be filled in or corrected keeps its text, for only rows in hex get another
  one, and those have no OTP (`HexBare`).  It supposes `DecodesPlain`: no
  decoded text looks like hex again.
- `AtChannelProofs`.  `ChannelInv`: the types, which stages a job can be in,
  that each unsettled job is in the chain once (`ChainAccounted`), how far its
  head can be, `ActiveArmed`, and what the network has of each message.
  `SentIsAccepted` is inductive only with the latter three: that the answer
  which comes is the active command's follows from `InSync`, and that the
  reference is that of the next part from the count of parts at the head.
- `DashboardProofs`.  `TableInv`: the last event about a port that the page was
  told of says what the server has, and where there is none, the row and every
  answer under way do (`Follows`).  Stated of the row alone it is not inductive: an
  answer that was given before a change would write the old state back.
- `SmsFeedProofs`.  `LiveAsGrouped` compares two computations, a feed that grows
  by one SMS at a time and the grouping of the same SMS sorted anew.  Neither is
  reasoned about through the other: both are *grouped* (`Grouped`: in the order
  of time, and two neighbours are in one row if and only if the thread goes on
  from one to the next), and a set of SMS is grouped in one way only
  (`GroupedOnce`: the newest SMS is the last of the top row; a row ends where
  the thread does, so that the rest is the same set again).  `RenderedGrouped`
  says that a reload groups: a page can be sorted (`ChronologicalSome`) and, if
  no two of its SMS have one time, in one way only (`ChronologicalIs`), and the
  rows are the segments between the positions where one begins (`SegmentsAre`).
  `AddedGrouped` says that a newer SMS, merged or put on top, keeps what is
  grouped, and that the limit of rows cuts off the oldest (`UpClosed`), so that
  what is left is the newest SMS (`NewestIs`).  The invariant `FeedInv` adds to
  this the types, that there are finitely many SMS, and that the events under
  way are later than what the page was told of (`Known`, `Right`).  That no two
  SMS that the page was told of have the same time (`Distinct`) is no
  assumption: `exact` ends when one has.
- `SimInboxProofs` is the codec, end to end, and then the inbox.  From bits up:
  packed septets are read back behind a header of any length
  (`SeptetsReadBack`), UCS2 too (`Ucs2ReadsBack`), texts with their extension
  pairs (`TextReadsBack`), numbers with an odd digit and names
  (`SenderReadsBack`); the pieces of a text hold its items once and in order
  (`PiecesHoldAll`); each part has at most 140 octets and a true length field
  (`PartFitsOneSms`) and reads back (`PartReadsBack`).
  `FitsOneSms` then needs of the state only that what is in `submitted` came from
  `encodeSubmitPdu` (`Submitted`), and of the text that it has at most 640
  characters: as many as 1280 septets in 9 parts, so that the numbers of parts
  fit their octet (`MessageFits`).
  `WholeAgain` is not inductive alone: the invariant `IInv` adds the types,
  `Submitted`, and that what was announced is what the parser makes of an answer
  that listed the slots of `read` as they still are (`HeardFromRead`).  The rest
  is about operators: the entries of an answer are the decoded parts of the slots
  without a stray line (`EntriesAre`), each part is decoded to its piece, sender
  and number (`PartDecoded`), all entries with the key of the message are its
  own, sorting them by rank puts part *i* at position *i* (`RankSort`), and the
  texts of the pieces joined are the text: pieces of septets are cut between
  characters, as `Intact` says (`TextsJoin`, `ReadingPiece`).
  What looks like induction over data is done without an induction theorem that
  takes an operator: a property of the first *n* positions of a sequence is a set
  of naturals, and its least counterexample refutes itself (`UpTo`, from the
  well-foundedness of `<` on `Nat`); `FlattenIs` and `ReadingIs`
  characterise the folds of `FlattenSeq` and `SeptetsToText` that way.

## 5. What the code does not do

Each of these is a run whose property states a line of the repository and is
violated by a behaviour of the model; `PROJECT.json` quotes the lines.

- `sim_bogus`: one failed reading in `checkSimChange` is taken for a SIM change
  and deletes the override, the very thing that `readAndTrackIccid` guards
  against.
- `store_lost`: overlapping handlers store one text twice, with different times;
  two later ones each find one copy, take the other for the conflict and delete
  their own: nothing is left.
- `inbox_cleared`: `AT+CMGD=1,4` deletes unread messages, too, and `connect()`
  runs it before it reads the inbox: what filled the SIM while the program was
  down is lost.

Other things to know of are behaviours of the models that no property excludes.

- `ModemLink`: a reconnect timer armed by `handleDisconnect` after its await
  survives the `connect()` that ran meanwhile and closes the healthy port
  (`modem.instance.ts:826`).  `stop()` while `connect()` awaits `close()` or
  `open()` leaves a stopped instance with an open port (`:116`).  A handle that
  is dropped while its `open()` is under way (a health check that fails for want
  of a card, or `stop()`) opens all the same; nobody refers to it any more, and
  the COM port stays locked until the device goes (`leaked`, `:936`).
- `AtChannel`: after a time-out, answers shift by one command until the modem
  has been silent; a part may be accepted and its request fail.
- `Fleet`: two callers stop one instance, the later one deletes the entry of the
  instance that was started in between, and discovery starts another
  (`modem.manager.ts:135`).  The instance that the Map has lost (`orphaned`) goes
  on monitoring its port until the process ends, also when the port is disabled:
  nothing can stop it any more.  `src/README.md:108` ("Tắt hẳn monitor"), `:256`
  ("không reconnect") and `:244` (one `ModemInstance` per COM port) promise
  otherwise.  With `autoDiscover: false` and an empty list, which
  stands for the port range, a PATCH of one port makes that port the whole list
  (`EnsureEntry`).  An instance that PATCH started for a port unplugged before
  the next scan is in no set that is ever swept, so that its row stays
  (`ToSweep`).
- `SimIdentity`: a card replaced before `connect()` reads it is adopted
  silently; the override keeps the number of the old one
  (`modem.instance.ts:174`).
- `SmsParser`: the PDU line of an SMS that comes during an AT command is lost,
  since only its header is recognised as unsolicited (`:487`).  Messages that
  reuse a reference while a group is open are mixed, and a group that stays
  incomplete is emitted as it is.
- `PduCodec`: an escape pair may be cut at septet 153 and is then read as two
  characters; code points above 16 bits are cut down; a raw ESC is read as one
  character with what follows.
- `SmsStore`: a row in hex from which an earlier version took an OTP breaks
  `OtpsAgree`, as the handler that upgrades it and `backfillOtpCodes` both write
  what they had read.  A row in hex that an SMS of another text finds by its time
  gets the text of that SMS, and its own is lost (`sms.service.ts:83`, `:94-96`).
  An SMS with the time of another one of its sender is taken for a duplicate and
  not stored.
  Nothing says that `Corrected` is stable: the correction of a date may be
  corrected again by the next start (`gsm-timestamp.util.ts` swaps 30 January
  2029 and 29 January 2030 for ever), and a resync writes the reported date back.
- `Dashboard` and `SmsFeed`: nothing is reloaded when the socket comes back, so
  that what was missed stays unseen until the next poll or reload.  The same goes
  for a row that an event or an answer brings back after its port has gone: a
  dialog that was confirmed for it, a late answer of `forceReconnect`, or the
  `modem.status` of an instance that was stopped while its `connect()` was under
  way (`modem.instance.ts:184`, `:194`, `:406`), which `modem.removed` precedes;
  and for a disabled port that discovery lists without an event
  (`modem.manager.ts:332-348`).  `RowsFollow` is about the page and exempts
  these.  An SMS that is listed again is shown again, and so is one that the
  server takes for a duplicate of another (`sms.service.ts:78-135`): the next
  reload drops it, or moves the row of the other to its time.  SMS of one time
  may change places from one reload to the next.  When the list of ports becomes
  empty, `renderModems` returns before it renders the list of the set-up panel,
  which stays as it was.

## 6. Only model-checked, not modelled

Liveness (`ConnectReturns`, the liveness part of `ImplementsMonitor`,
`MapFollowsConfig`, `IccidConverges`, `HistoryConverges`, `GroupsEnd`,
`SendsSettle`, `PollingConverges`, `FeedConverges`) is out of the prover's reach
and stays with TLC.  Every invariant that a passing run
checks is proved.

Not modelled, and why:

- `OtpExtractor`, most of `AtCommandService`, `sms-body.util.ts`: regular
  expressions over text.  The models take their verdicts as constants or inputs.
- Timestamps (`gsm-timestamp.util.ts`): calendar arithmetic; `SmsStore` takes
  the corrected date as a constant function.
- Webhooks: at most three attempts in a loop; deliveries share nothing but the
  last result that an admin sees.
- HTTP API, guards, `OtpController`, configuration from the environment,
  helpers: no state.  The requests that change something are actions of `Fleet`,
  `ModemLink`, `AtChannel` and `Dashboard`.
- Of the instance, what it merely shows: signal, network, labels, last error,
  and the phone number of its state (`state.phone`).
- Of the manager, `sendSms`, which looks up an instance, and the `ModemState`
  table, which nothing reads back.
- Of `SmsService`, the queries other than `searchMessages`.
- Of the dashboard, rendering, alerts of moved SIMs, the OTP panel and the form
  to send an SMS.

Abstractions to know of: `ModemLink` knows of a command only whether it
succeeded, failed or said that no SIM is there; `AtChannel` takes the commands
of `connect()` up to online as one, and a text in the buffer as a whole answer;
`Fleet` takes the `start()` of an instance as one await and leaves out labels
and phones; `SimIdentity` leaves out the events for the dashboard, and counts a
link as recovered when the next `connect()` is over; in `SmsParser` a timer
fires on time, and parts that cannot be decoded do not occur beside stray lines;
`SimInbox` lets the sender be a phone of the same kind, so that what is read was
written by `encodeSubmitPdu`; `SmsStore` lets a backfill write its rows in any
order and read all of them (the code reads the last 500 and 1000), and takes the
phone of a port as fixed; `Dashboard` takes the state of a port as a number, and
`SmsFeed` an SMS as its thread, its text and its time, and leaves to `SmsStore`
what two updates of one row make of each other.
