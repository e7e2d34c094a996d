----------------------------- MODULE SmsParser -----------------------------
(***************************************************************************)
(* How SMS reach the program in real time: the lines "+CMT:" and PDU that  *)
(* a modem sends, as handleLine (src/src/modem/modem.instance.ts) gives    *)
(* them to SmsParser (src/src/modem/sms.parser.ts), which puts the parts   *)
(* of a concatenated SMS together and emits what came after 15 seconds.    *)
(*                                                                         *)
(* A line is handled in one action.  The text of part i of message m is    *)
(* represented by m, standing at position i.  The network loses, repeats,  *)
(* delays and reorders parts; time goes by in Ticks.                       *)
(***************************************************************************)
EXTENDS Integers, FiniteSets

CONSTANTS
    Ports,       \* the serial ports
    Messages,    \* the SMS that are sent to the SIMs of these ports
    Keys,        \* groups of parts: port, sender and reference
    Total,       \* how many parts each message has
    KeyOf,       \* its key, NoKey when it is no concatenated SMS
    PortOf,      \* the port it comes to
    NoKey,
    NoText,      \* a position with no part
    NoPart,      \* no PDU line is due
    Timeout,     \* CONCAT_FLUSH_TIMEOUT_MS in ticks
    MaxRepeats   \* bound: parts that the network delivers again

ASSUME MessagesAssumption ==
    /\ Total \in [Messages -> Nat \ {0}]
    /\ KeyOf \in [Messages -> Keys \cup {NoKey}]
    /\ PortOf \in [Messages -> Ports]
    /\ NoText \notin Messages
    /\ NoKey \notin Keys
    /\ \A m \in Messages : KeyOf[m] = NoKey => Total[m] = 1
    /\ \A m, n \in Messages : KeyOf[m] \in Keys /\ KeyOf[m] = KeyOf[n] => PortOf[m] = PortOf[n]
ASSUME TimeoutAssumption == Timeout \in Nat \ {0} /\ MaxRepeats \in Nat

Numbers == UNION {1 .. Total[m] : m \in Messages}
Part == UNION {{m} \X (1 .. Total[m]) : m \in Messages}
ASSUME PartAssumption == NoPart \notin Part

VARIABLES
    air,       \* the parts that the network has still to deliver
    repeats,   \* how many parts it has delivered again
    pdu,       \* the PDU line of each port that follows a header line
    active,    \* the ports where a command awaits its final answer
    awaiting,  \* awaitingPduByPort
    groups,    \* groups: the total of each, 0 if there is none, and its parts
    timers,    \* the time that the timers of each key have left
    emitted,   \* the texts that were emitted
    heard,     \* history: the parts that were handled since the start
    age,       \* history: time since the first part of each message
    mixed      \* history: the messages that met another one in their group

network == <<air, repeats>>
line == <<pdu, active>>
parser == <<awaiting, groups, timers>>
history == <<heard, age, mixed>>
parserVars == <<network, line, parser, emitted, history>>

NoParts == [i \in Numbers |-> NoText]
NoGroup == [total |-> 0, parts |-> NoParts]

Present(g) == {i \in Numbers : g.parts[i] # NoText}

\* Mutant: the parts are numbered from 0.
TextOf_FromZero(g) ==
    [i \in 0 .. g.total - 1 |-> IF i \in Numbers THEN g.parts[i] ELSE NoText]

\* The text of a group: '' stands for a part that has not come.
TextOf(g) == [i \in 1 .. g.total |-> g.parts[i]]
Whole(m) == [i \in 1 .. Total[m] |-> m]

ParserTypeOK ==
    /\ air \subseteq Part
    /\ repeats \in 0 .. MaxRepeats
    /\ pdu \in [Ports -> Part \cup {NoPart}]
    /\ active \subseteq Ports
    /\ awaiting \subseteq Ports
    /\ groups \in [Keys -> [total : {0} \cup Numbers, parts : [Numbers -> Messages \cup {NoText}]]]
    /\ timers \in [Keys -> SUBSET (0 .. Timeout)]
    /\ \A t \in emitted : \E n \in Numbers : t \in [1 .. n -> Messages \cup {NoText}]
    /\ heard \subseteq Part
    /\ age \in [Messages -> 0 .. Timeout]
    /\ mixed \subseteq Messages

----------------------------------------------------------------------------
(* SmsParser.                                                              *)

\* Mutant: a group that is complete leaves its timer armed.
ClearTimer_Armed(k) == timers[k]

\* clearTimeout(group.timer)
ClearTimer(k) == {}

\* Mutant: a new group has no timer.
ArmTimer_Never(k) == timers[k]

\* setTimeout, when addPart opens a group
ArmTimer(k) == timers[k] \cup {Timeout}

\* Mutant: every part opens a group of its own.
Opened_Anew(k, m) == [NoGroup EXCEPT !.total = Total[m]]

\* The group that a part of m joins: a new one takes its total from m.
Opened(k, m) == IF groups[k].total = 0 THEN [NoGroup EXCEPT !.total = Total[m]] ELSE groups[k]

\* Mutant: a group counts as complete one part too early.
Complete_Early(g) == Cardinality(Present(g)) >= g.total - 1

Complete(g) == Cardinality(Present(g)) >= g.total

\* addPart
AddPart(m, i) ==
    LET k == KeyOf[m]
        g == [Opened(k, m) EXCEPT !.parts[i] = m]
    IN  IF Complete(g)
        THEN /\ groups' = [groups EXCEPT ![k] = NoGroup]
             /\ timers' = [timers EXCEPT ![k] = ClearTimer(k)]
             /\ emitted' = emitted \cup {TextOf(g)}
        ELSE /\ groups' = [groups EXCEPT ![k] = g]
             /\ timers' = IF groups[k].total = 0 THEN [timers EXCEPT ![k] = ArmTimer(k)] ELSE timers
             /\ UNCHANGED emitted

\* handlePdu, for a PDU that can be decoded.
HandlePdu(m, i) ==
    IF KeyOf[m] = NoKey
    THEN emitted' = emitted \cup {Whole(m)} /\ UNCHANGED <<groups, timers>>
    ELSE AddPart(m, i)

\* What the history records of it: the messages of other parts in the group
\* have met m.
Hear(m, i) ==
    LET met == IF KeyOf[m] = NoKey THEN {}
               ELSE {groups[KeyOf[m]].parts[j] : j \in Numbers} \ {m, NoText}
    IN  /\ heard' = heard \cup {<<m, i>>}
        /\ mixed' = mixed \cup met \cup (IF met = {} THEN {} ELSE {m})
        /\ UNCHANGED age

\* flushGroup when a timer fires.
Flush(k) ==
    /\ 0 \in timers[k]
    /\ timers' = [timers EXCEPT ![k] = @ \ {0}]
    /\ groups' = [groups EXCEPT ![k] = NoGroup]
    /\ emitted' = IF groups[k].total = 0 THEN emitted ELSE emitted \cup {TextOf(groups[k])}
    /\ UNCHANGED <<network, line, awaiting, history>>

----------------------------------------------------------------------------
(* The lines of a port, as handleLine gives them away.                     *)

\* The network delivers a part for the first time, or once more; its header
\* line goes to parseLine whatever command is active.
Header(m, i) ==
    /\ pdu[PortOf[m]] = NoPart
    /\ pdu' = [pdu EXCEPT ![PortOf[m]] = <<m, i>>]
    /\ awaiting' = awaiting \cup {PortOf[m]}
    /\ \/ <<m, i>> \in air /\ air' = air \ {<<m, i>>} /\ UNCHANGED repeats
       \/ /\ <<m, i>> \in heard
          /\ repeats < MaxRepeats
          /\ repeats' = repeats + 1
          /\ UNCHANGED air
    /\ UNCHANGED <<active, groups, timers, emitted, history>>

\* The PDU line while no command is active: it goes to parseLine.
PduLine(p) ==
    /\ pdu[p] # NoPart
    /\ p \notin active
    /\ pdu' = [pdu EXCEPT ![p] = NoPart]
    /\ awaiting' = awaiting \ {p}
    /\ IF p \in awaiting
       THEN HandlePdu(pdu[p][1], pdu[p][2]) /\ Hear(pdu[p][1], pdu[p][2])
       ELSE UNCHANGED <<groups, timers, emitted, history>>
    /\ UNCHANGED <<network, active>>

\* The PDU line while a command is active: it is taken for a line of its answer.
PduSwallowed(p) ==
    /\ pdu[p] # NoPart
    /\ p \in active
    /\ pdu' = [pdu EXCEPT ![p] = NoPart]
    /\ UNCHANGED <<network, active, parser, emitted, history>>

\* Another line while no command is active, such as the late answer of one
\* that timed out: it is taken for the PDU that a header has announced.
StrayLine(p) ==
    /\ pdu[p] = NoPart
    /\ p \in awaiting \ active
    /\ awaiting' = awaiting \ {p}
    /\ UNCHANGED <<network, line, groups, timers, emitted, history>>

\* sendCommand sets activeCommand; it is reset by the final answer, by the
\* timeout and by closePort.
Command(p) ==
    /\ active' = IF p \in active THEN active \ {p} ELSE active \cup {p}
    /\ UNCHANGED <<network, pdu, parser, emitted, history>>

----------------------------------------------------------------------------
\* A part is lost on its way.
Lose(m, i) ==
    /\ <<m, i>> \in air
    /\ air' = air \ {<<m, i>>}
    /\ UNCHANGED <<repeats, line, parser, emitted, history>>

\* Time goes by; a timer that has expired fires first.
Tick ==
    /\ \E k \in Keys : timers[k] # {}
    /\ \A k \in Keys : 0 \notin timers[k]
    /\ timers' = [k \in Keys |-> {t - 1 : t \in timers[k]}]
    /\ age' = [m \in Messages |-> IF (\E i \in 1 .. Total[m] : <<m, i>> \in heard) /\ KeyOf[m] # NoKey /\ age[m] < Timeout
                                  THEN age[m] + 1 ELSE age[m]]
    /\ UNCHANGED <<network, line, awaiting, groups, emitted, heard, mixed>>

\* The process starts again; what waits for other parts is forgotten.
Restart ==
    /\ pdu' = [p \in Ports |-> NoPart]
    /\ active' = {}
    /\ awaiting' = {}
    /\ groups' = [k \in Keys |-> NoGroup]
    /\ timers' = [k \in Keys |-> {}]
    /\ heard' = {}
    /\ age' = [m \in Messages |-> 0]
    /\ mixed' = {}
    /\ UNCHANGED <<network, emitted>>

ParserInit ==
    /\ air = Part
    /\ repeats = 0
    /\ pdu = [p \in Ports |-> NoPart]
    /\ active = {}
    /\ awaiting = {}
    /\ groups = [k \in Keys |-> NoGroup]
    /\ timers = [k \in Keys |-> {}]
    /\ emitted = {}
    /\ heard = {}
    /\ age = [m \in Messages |-> 0]
    /\ mixed = {}

ParserNext ==
    \/ \E part \in Part : Header(part[1], part[2]) \/ Lose(part[1], part[2])
    \/ \E p \in Ports : PduLine(p) \/ PduSwallowed(p) \/ StrayLine(p) \/ Command(p)
    \/ \E k \in Keys : Flush(k)
    \/ Tick
    \/ Restart

ParserSpec == ParserInit /\ [][ParserNext]_parserVars

\* Time goes by, and expired timers fire.
FairParserSpec == ParserSpec /\ WF_parserVars(Tick) /\ \A k \in Keys : WF_parserVars(Flush(k))

----------------------------------------------------------------------------
(* Properties.                                                             *)

\* A group has exactly one timer, and no timer outlives its group to flush
\* the next one of the same key before its time.
OneTimer == \A k \in Keys : \/ groups[k].total = 0 /\ timers[k] = {}
                            \/ groups[k].total # 0 /\ \E t \in 0 .. Timeout : timers[k] = {t}

\* No part is lost in SmsParser: unless messages met in their group, a part
\* that was handled is in the group still or in a text that was emitted.
NothingDropped ==
    \A part \in heard : part[1] \notin mixed =>
        \/ KeyOf[part[1]] # NoKey /\ groups[KeyOf[part[1]]].parts[part[2]] = part[1]
        \/ \E t \in emitted : part[2] \in DOMAIN t /\ t[part[2]] = part[1]

\* A message all of whose parts are handled within 15 seconds is emitted
\* whole, whatever order they come in and whatever is repeated, unless another
\* message with its reference met it in the group.
WholeInTime ==
    \A m \in Messages :
        /\ \A i \in 1 .. Total[m] : <<m, i>> \in heard
        /\ age[m] < Timeout
        /\ m \notin mixed
        => Whole(m) \in emitted

\* No group waits for ever for a part that was lost.
GroupsEnd == \A k \in Keys : groups[k].total # 0 ~> groups[k].total = 0

=============================================================================
