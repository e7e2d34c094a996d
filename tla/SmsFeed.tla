------------------------------ MODULE SmsFeed ------------------------------
(***************************************************************************)
(* The SMS feed of one browser page (src/src/dashboard/public/             *)
(* dashboard.js): SMS come as events, which mergeIntoTopSmsRow and         *)
(* prependFeedItem add one by one, and as pages of the database, which     *)
(* groupSmsMessages (dashboard-helpers.js) groups anew.  The event of an   *)
(* SMS is sent before SmsService has looked whether it has the SMS, which  *)
(* it does not store again (sms.service.ts), and is sent again whenever    *)
(* the modem lists the SMS again.                                          *)
(*                                                                         *)
(* A row of the feed is the sequence of its SMS; its text, its times, the  *)
(* number of its parts and its OTP are functions of it.                    *)
(***************************************************************************)
EXTENDS Integers, Sequences, SequencesExt, FiniteSets

CONSTANTS
    Messages,   \* SMS, each told by its thread, text and time
    Earlier,    \* those stored before the page was opened
    Thread,     \* the port and the sender of each
    Text,       \* the message of each
    At,         \* receivedAt of each
    Window,     \* SMS_GROUP_WINDOW_MS
    PageSize,   \* SMS in an answer to loadLiveMessages
    MaxRows,    \* rows that prependFeedItem keeps
    Filters,    \* what a search may ask for: sets of SMS
    Loads,      \* GET /api/messages requests that may overlap
    MaxAnnounced, \* bound: announcements, first ones and others
    MaxEvents,  \* bound: events under way
    MaxSaving   \* bound: SMS being stored

\* Several SMS may have one time, and the database is finite.
ConstantsOK ==
    /\ At \in [Messages -> Nat]
    /\ Earlier \subseteq Messages /\ IsFiniteSet(Earlier)
    /\ Filters \subseteq SUBSET Messages /\ Messages \notin Filters
    /\ Window \in Nat /\ PageSize \in Nat \ {0} /\ MaxRows \in Nat \ {0}
    /\ MaxAnnounced \in Nat /\ MaxEvents \in Nat \ {0} /\ MaxSaving \in Nat \ {0}

ASSUME ConstantsAssumption == ConstantsOK

VARIABLES
    announced,  \* SMS of which SMS_RECEIVED was emitted
    repeats,    \* how many times that happened again
    saving,     \* SMS that SmsService is about to look up
    creating,   \* SMS of which it found no row
    stored,     \* rows of the database
    connected,  \* socket.connected
    events,     \* sms.received on their way to the page
    mode,       \* smsMode
    feed,       \* smsFeed, the newest row first
    load,       \* each request
    exact       \* nothing was missed, late or repeated since the feed was right

serverVars == <<announced, repeats, saving, creating, stored, connected, events>>
vars == <<announced, repeats, saving, creating, stored, connected, events, mode, feed, load, exact>>

Live == Messages   \* what loadLiveMessages asks for: any SMS
Idle == [phase |-> "idle", of |-> Live, page |-> {}]

TypeOK ==
    /\ announced \in SUBSET Messages
    /\ repeats \in 0 .. MaxAnnounced
    /\ saving \in SUBSET Messages
    /\ creating \in SUBSET Messages
    /\ stored \in SUBSET Messages
    /\ connected \in BOOLEAN
    /\ events \in Seq(Messages)
    /\ mode \in {"live", "search"}
    /\ feed \in Seq(Seq(Messages))
    /\ load \in [Loads -> [phase : {"idle", "asked", "answered"},
                           of : Filters \cup {Live}, page : SUBSET Messages]]
    /\ exact \in BOOLEAN

----------------------------------------------------------------------------
(* Rows.                                                                   *)

Gap(m, n) == IF At[m] < At[n] THEN At[n] - At[m] ELSE At[m] - At[n]

Newer(m, n) == At[m] < At[n]

\* All of these SMS have different times.
Distinct(messages) == \A m, n \in messages : At[m] = At[n] => m = n

\* The newest of these SMS.
Newest(messages, size) ==
    {m \in messages : Cardinality({n \in messages : Newer(m, n)}) < size}

\* The pages of the API that hold the newest of these SMS; which of several with
\* the last time is left open, as the query orders by receivedAt alone.
Pages(messages) ==
    {page \in SUBSET messages :
        /\ Cardinality(page) <= PageSize /\ (page = messages \/ Cardinality(page) = PageSize)
        /\ \A m \in page, n \in messages \ page : ~Newer(m, n)}

\* groupSmsMessages, of SMS in the order of time: a row begins where the thread
\* changes or the gap to the SMS before is too long.
GroupSmsMessages(sms) ==
    LET begins == {i \in 1 .. Len(sms) :
                     i > 1 => \/ Thread[sms[i]] # Thread[sms[i - 1]]
                              \/ Gap(sms[i], sms[i - 1]) > Window}
        row(i)  == Cardinality({j \in begins : j <= i})
        first(g) == CHOOSE i \in begins : row(i) = g
        last(g)  == CHOOSE i \in 1 .. Len(sms) : row(i) = g /\ (i = Len(sms) \/ i + 1 \in begins)
    IN [g \in 1 .. Cardinality(begins) |-> SubSeq(sms, first(g), last(g))]

\* These SMS, the oldest first; SMS of one time come in any order.
Chronological(messages) ==
    {s \in SetToSeqs(messages) : \A i, j \in 1 .. Len(s) : i < j => ~Newer(s[j], s[i])}

\* renderSmsGroups, of a page of SMS in one of these orders: the newest row first.
RenderSmsGroups ==
    [page \in SUBSET Messages |-> {Reverse(GroupSmsMessages(s)) : s \in Chronological(page)}]

\* Mutant: the window is counted from the first SMS of the row.
SameThread_First(m) == /\ Thread[Head(Head(feed))] = Thread[m]
                       /\ Gap(Head(Head(feed)), m) <= Window

\* m goes on with the row at the top.
SameThread(m) == /\ Thread[Last(Head(feed))] = Thread[m]
                 /\ Gap(Last(Head(feed)), m) <= Window

\* mergeIntoTopSmsRow, or prependFeedItem with its limit of rows.
Added(m) ==
    IF feed # <<>> /\ SameThread(m)
    THEN <<Append(Head(feed), m)>> \o Tail(feed)
    ELSE LET rows == <<<<m>>>> \o feed IN
         SubSeq(rows, 1, IF Len(rows) < MaxRows THEN Len(rows) ELSE MaxRows)

\* SMS that the page has been told of.
Told == {m \in announced : \A i \in 1 .. Len(events) : events[i] # m}

\* Events under way are in the order of their SMS, and later than all others.
InOrder ==
    \A i \in 1 .. Len(events) :
        \A m \in Told \cup {events[j] : j \in 1 .. (i - 1)} : Newer(m, events[i])

----------------------------------------------------------------------------
(* The server.                                                             *)

\* SMS_RECEIVED: the gateway sends it to the page if it is connected; the
\* service goes on to look whether it has the SMS.
Announce(m) ==
    /\ Cardinality(announced) + repeats < MaxAnnounced
    /\ Len(events) < MaxEvents /\ Cardinality(saving) + Cardinality(creating) < MaxSaving
    /\ repeats' = IF m \in announced THEN repeats + 1 ELSE repeats
    /\ announced' = announced \cup {m}
    /\ saving' = saving \cup {m}
    /\ events' = IF connected THEN Append(events, m) ELSE events
    /\ exact' = (exact /\ connected /\ \A n \in announced : Newer(n, m))
    /\ UNCHANGED <<creating, stored, connected, mode, feed, load>>

\* Rows that handleIncomingSms takes for m: same thread, and the same text however
\* old, or the same time.
Existing(m) ==
    {n \in stored : Thread[n] = Thread[m] /\ (Text[n] = Text[m] \/ At[n] = At[m])}

\* findFirst finds none; a row may be created before m's is.
LookUp(m) ==
    /\ m \in saving /\ Existing(m) = {}
    /\ saving' = saving \ {m}
    /\ creating' = creating \cup {m}
    /\ UNCHANGED <<announced, repeats, stored, connected, events, mode, feed, load, exact>>

Create(m) ==
    /\ m \in creating
    /\ creating' = creating \ {m}
    /\ stored' = stored \cup {m}
    /\ UNCHANGED <<announced, repeats, saving, connected, events, mode, feed, load, exact>>

\* A row with m's text gets m's time, which makes it m's; nothing is changed in one
\* with another text.  (What two such updates make of each other: SmsStore.)
SkipDuplicate(m) ==
    /\ m \in saving
    /\ saving' = saving \ {m}
    /\ \E n \in Existing(m) :
          stored' = IF Text[n] = Text[m] THEN (stored \ {n}) \cup {m} ELSE stored
    /\ UNCHANGED <<announced, repeats, creating, connected, events, mode, feed, load, exact>>

AnswerLoad(l) ==
    /\ load[l].phase = "asked"
    /\ \E page \in IF load[l].of = Live THEN Pages(stored) ELSE {stored \cap load[l].of} :
          load' = [load EXCEPT ![l].phase = "answered", ![l].page = page]
    /\ UNCHANGED <<serverVars, mode, feed, exact>>

\* A toast; the feed stays as it is.
RefuseLoad(l) ==
    /\ load[l].phase = "asked"
    /\ load' = [load EXCEPT ![l] = Idle]
    /\ UNCHANGED <<serverVars, mode, feed, exact>>

----------------------------------------------------------------------------
(* The page.                                                               *)

\* Nothing is reloaded on connect.
Connect ==
    /\ ~connected
    /\ connected' = TRUE
    /\ UNCHANGED <<announced, repeats, saving, creating, stored, events, mode, feed, load, exact>>

Disconnect ==
    /\ connected
    /\ connected' = FALSE
    /\ events' = <<>>
    /\ exact' = (exact /\ events = <<>>)
    /\ UNCHANGED <<announced, repeats, saving, creating, stored, mode, feed, load>>

\* sms.received; a search is not disturbed.
Receive ==
    /\ events # <<>>
    /\ feed' = IF mode = "live" THEN Added(Head(events)) ELSE feed
    /\ exact' = (exact /\ mode = "live")
    /\ events' = Tail(events)
    /\ UNCHANGED <<announced, repeats, saving, creating, stored, connected, mode, load>>

\* Requests have no names: the next one is any that is idle.
Ask(l, of) ==
    /\ load[l].phase = "idle"
    /\ l = CHOOSE k \in Loads : load[k].phase = "idle"
    /\ load' = [load EXCEPT ![l].phase = "asked", ![l].of = of]
    /\ UNCHANGED <<serverVars, feed, exact>>

\* The old rows stay until the answer comes.
EnterLiveMode(l) == mode' = "live" /\ Ask(l, Live)

RunSearch(l, filter) == mode' = "search" /\ Ask(l, filter)

\* Mutant: the fallback polls the table of modems only.
Poll_ModemsOnly(l) == ~connected /\ mode = "search" /\ Ask(l, Live) /\ UNCHANGED mode

\* Every five seconds while the socket is down.
Poll(l) == ~connected /\ mode = "live" /\ Ask(l, Live) /\ UNCHANGED mode

\* The answer is rendered in whatever mode the page is by now.
LoadReturns(l) ==
    /\ load[l].phase = "answered"
    /\ load' = [load EXCEPT ![l] = Idle]
    /\ UNCHANGED <<serverVars, mode>>
    /\ feed' \in RenderSmsGroups[load[l].page]
    /\ exact' = (/\ load[l].of = Live /\ load[l].page = Newest(Told, PageSize)
                /\ InOrder /\ Distinct(Told))

----------------------------------------------------------------------------
\* The page has been opened and its first answer is under way.
Init ==
    /\ announced = Earlier
    /\ repeats = 0
    /\ saving = {}
    /\ creating = {}
    /\ stored = Earlier
    /\ connected = TRUE
    /\ events = <<>>
    /\ mode = "live"
    /\ feed = <<>>
    /\ LET first == CHOOSE l \in Loads : TRUE IN
       load = [l \in Loads |-> IF l = first THEN [Idle EXCEPT !.phase = "asked"] ELSE Idle]
    /\ exact = (Earlier = {})

Next ==
    \/ \E m \in Messages : Announce(m) \/ LookUp(m) \/ Create(m) \/ SkipDuplicate(m)
    \/ \E l \in Loads : \/ AnswerLoad(l) \/ RefuseLoad(l) \/ LoadReturns(l)
                        \/ EnterLiveMode(l) \/ Poll(l)
                        \/ \E filter \in Filters : RunSearch(l, filter)
    \/ Connect
    \/ Disconnect
    \/ Receive

Spec == Init /\ [][Next]_vars

\* The poll timer fires, handlers run on, and a server that is
\* asked again and again answers some time; which request comes first is open.
Fairness ==
    /\ WF_vars(\E l \in Loads : Poll(l))
    /\ SF_vars(\E l \in Loads : AnswerLoad(l))
    /\ WF_vars(\E l \in Loads : LoadReturns(l))

FairSpec == Spec /\ Fairness

----------------------------------------------------------------------------
(* Safety.                                                                 *)

Shown == UNION {ToSet(feed[i]) : i \in 1 .. Len(feed)}

\* However events and reloads take turns, the live feed has the rows that
\* renderSmsGroups makes of the SMS in it, in the same order, though they were
\* merged one by one; they are the newest that the page was told of, and what is
\* missing was cut off by a limit.  This holds from a reload that brought what the
\* page had been told of until an SMS is missed, repeated, late or of the time of
\* another.  It is not said that a reload brings the same SMS again: the server
\* drops or moves those that it takes for duplicates, which the feed shows.
LiveAsGrouped ==
    exact /\ mode = "live" =>
        /\ RenderSmsGroups[Shown] = {feed}
        /\ Shown = Newest(Told, Cardinality(Shown))
        /\ Shown = Told \/ Len(feed) >= MaxRows \/ Cardinality(Shown) >= PageSize

----------------------------------------------------------------------------
(* Liveness.                                                               *)

\* Polling makes good for a socket that stays down: events that were lost or
\* repeated, SMS that the server did not keep, and late answers of searches are
\* gone from the live feed in the end, and the newest that are stored are in it.
FeedConverges ==
    <>[](~connected /\ mode = "live")
        => <>[](feed \in UNION {RenderSmsGroups[page] : page \in Pages(stored)})
=============================================================================
