------------------------------ MODULE SimInbox ------------------------------
(***************************************************************************)
(* The memory of one SIM, where SMS end up while the program does not      *)
(* listen, and how it is read and emptied: refreshMetadata and             *)
(* syncSimInbox (src/src/modem/modem.instance.ts) and SimInboxParser       *)
(* (src/src/modem/sim-inbox.parser.ts).                                    *)
(*                                                                         *)
(* Other phones of the same kind send the SMS, so that a message goes      *)
(* through encodeSubmitPdu, a network that delays, reorders and repeats    *)
(* its parts, the slots of the SIM, AT+CMGL and decodeDeliverPdu.          *)
(***************************************************************************)
EXTENDS PduCodec, FiniteSets

CONSTANTS
    OwnNumber,   \* the number of this SIM
    Messages,    \* SMS to it
    Sender,      \* the number each is sent from, or the name of a service
    Body,        \* its text
    SentAt,      \* its time stamp, as the network writes it
    References,  \* what Math.random makes of each
    Slots,       \* slots of the SIM
    MaxSent,     \* bound: messages sent
    MaxStray     \* bound: stray lines in one answer

ASSUME SlotsAssumption == Slots \in Nat \ {0} /\ MaxSent \in Nat /\ MaxStray \in Nat
ASSUME FreeAssumption == NULL \notin [message : Messages, seq : Nat]

\* Texts are as long as the form of the dashboard takes them.
MaxLength == 640

ASSUME BodyAssumption ==
    \A m \in Messages : Body[m] \in Seq(Nat) /\ Len(Body[m]) <= MaxLength

ASSUME ReferencesAssumption == References \subseteq Octets

\* Numbers have digits; names are in the basic alphabet or its extension.
ASSUME SenderAssumption ==
    \A m \in Messages :
        LET sender == Sender[m] IN
        /\ sender.plus \in BOOLEAN /\ sender.digits \in Seq(Digits) /\ sender.name \in Seq(Nat)
        /\ IF sender.name = <<>> THEN sender.digits # <<>>
           ELSE InGsm7(sender.name) /\ \A i \in 1 .. Len(sender.name) : sender.name[i] # ESC

ASSUME SentAtAssumption == SentAt \in [Messages -> [1 .. 7 -> Octets]]

VARIABLES
    submitted,   \* the PDUs of each message, none before it is sent
    slots,       \* the SIM: parts, [message, seq]
    stage,       \* of the instance: "down", two steps of connect(), "online"
    read,        \* slots that AT+CMGL has read since the instance was down
    heard        \* SMS_RECEIVED events of that reading

vars == <<submitted, slots, stage, read, heard>>

Sent == {m \in Messages : submitted[m] # <<>>}

\* The parts of a message that was sent.
PartsOf(m) == [message : {m}, seq : 1 .. Len(submitted[m])]

\* Names are packed septets; the length counts half octets.
OriginatingAddress(sender) ==
    IF sender.name = <<>> THEN EncodeAddress(sender)
    ELSE LET codes == TextToSeptetCodes(sender.name) IN
         [ton |-> 208, length |-> (7 * Len(codes) + 3) \div 4,
          octets |-> PackSeptetsWithHeader(<<>>, codes)]

Part == UNION {PartsOf(m) : m \in Sent}

\* A part as the modem lists it.
Delivered(p) ==
    LET pdu == submitted[p.message][p.seq] IN
    [type |-> pdu.type - 1, address |-> OriginatingAddress(Sender[p.message]), dcs |-> pdu.dcs,
     scts |-> SentAt[p.message], udl |-> pdu.udl, ud |-> pdu.ud]

Used == {k \in 1 .. Slots : slots[k] # NULL}

TypeOK ==
    /\ DOMAIN submitted = Messages
    /\ slots \in [1 .. Slots -> Part \cup {NULL}]
    /\ stage \in {"down", "memory", "sync", "online"}
    /\ read \subseteq Used
    /\ \A h \in heard : DOMAIN h = {"sender", "message", "receivedAt"}

----------------------------------------------------------------------------
(* SimInboxParser.                                                         *)

\* parseCmglResponse: a PDU counts right after a header line, with its index; any
\* other line takes the index away.
Entries(lines) ==
    LET counts(i) == /\ lines[i].kind = "header"
                     /\ lines[i + 1].kind = "pdu"
                     /\ IsDeliverPdu(lines[i + 1].pdu)
    IN {[index |-> lines[i].index, sms |-> DecodeDeliverPdu(lines[i + 1].pdu)] :
          i \in {j \in 1 .. Len(lines) - 1 : counts(j)}}

\* Mutant: parts are told apart by reference and total alone.
KeyOf_Senderless(sms) == <<sms.concat.reference, sms.concat.total>>

KeyOf(sms) == <<sms.sender, sms.concat.reference, sms.concat.total>>

Earlier(s, t) == \E i \in 1 .. 6 : s[i] < t[i] /\ \A j \in 1 .. (i - 1) : s[j] = t[j]

\* Parts by number, and in the order of their slots when it is the same.
InOrder(a, b) ==
    \/ a.sms.concat.seq < b.sms.concat.seq
    \/ a.sms.concat.seq = b.sms.concat.seq /\ a.index < b.index

Sorted(group) ==
    [i \in 1 .. Cardinality(group) |->
        CHOOSE e \in group : Cardinality({d \in group : InOrder(d, e)}) = i - 1]

Combined(group) ==
    LET sorted == Sorted(group)
        times  == {e.sms.timestamp : e \in group}
    IN [sender |-> sorted[1].sms.sender,
        message |-> FlattenSeq([i \in 1 .. Len(sorted) |-> sorted[i].sms.text]),
        receivedAt |-> CHOOSE t \in times : \A u \in times : ~Earlier(u, t)]

\* What trim() takes away.
Whitespace == 9 .. 13 \cup {32, 160, 5760} \cup 8192 .. 8202
                \cup {8232, 8233, 8239, 8287, 12288, 65279}

Blank(text) == \A i \in 1 .. Len(text) : text[i] \in Whitespace

\* reassemble, with the blank messages left out.
Reassemble(entries) ==
    LET singles    == {e \in entries : e.sms.concat = NULL}
        keys       == {KeyOf(e.sms) : e \in entries \ singles}
        group(key) == {e \in entries \ singles : KeyOf(e.sms) = key}
        items      == {[sender |-> e.sms.sender, message |-> e.sms.text,
                        receivedAt |-> e.sms.timestamp] : e \in singles}
                        \cup {Combined(group(key)) : key \in keys}
    IN {item \in items : ~Blank(item.message)}

\* The answer to AT+CMGL=4: two lines a slot, a stray one between the two for
\* the slots in stray.
CmglLines(stray) ==
    LET lines(k) ==
          IF slots[k] = NULL THEN <<>>
          ELSE <<[kind |-> "header", index |-> k]>>
               \o (IF k \in stray THEN <<[kind |-> "stray"]>> ELSE <<>>)
               \o <<[kind |-> "pdu", pdu |-> Delivered(slots[k])]>>
    IN FlattenSeq([k \in 1 .. Slots |-> lines(k)])

----------------------------------------------------------------------------
(* The network; what it delivers while the program listens is SmsParser's. *)

Send(m, r) ==
    /\ stage = "down"
    /\ m \notin Sent
    /\ Cardinality(Sent) < MaxSent
    /\ submitted' = [submitted EXCEPT ![m] = EncodeSubmitPdu(OwnNumber, Body[m], r)]
    /\ UNCHANGED <<slots, stage, read, heard>>

\* A part is stored in the first free slot while nobody listens; parts come in
\* any order, never, or again.
Store(p) ==
    /\ stage = "down"
    /\ Used # 1 .. Slots
    /\ LET free == CHOOSE k \in (1 .. Slots) \ Used : \A j \in (1 .. Slots) \ Used : k <= j IN
       slots' = [slots EXCEPT ![free] = p]
    /\ UNCHANGED <<submitted, stage, read, heard>>

----------------------------------------------------------------------------
(* ModemInstance.                                                          *)

\* connect() up to refreshMetadata
Connect ==
    /\ stage = "down"
    /\ stage' = "memory"
    /\ UNCHANGED <<submitted, slots, read, heard>>

\* refreshMetadata, on connecting and on every health check: AT+CPMS? and, when
\* nine slots of ten are used, AT+CMGD=1,4.  A failure of either is ignored.
CheckMemory ==
    /\ stage \in {"memory", "online"}
    /\ stage' = IF stage = "memory" THEN "sync" ELSE "online"
    /\ \/ UNCHANGED <<slots, read>>
       \/ /\ 10 * Cardinality(Used) >= 9 * Slots
          /\ slots' = [k \in 1 .. Slots |-> NULL]
          /\ read' = {}
    /\ UNCHANGED <<submitted, heard>>

\* Nothing is removed from the SIM.
Sync(stray) ==
    /\ stage = "sync"
    /\ stray \subseteq Used
    /\ Cardinality(stray) <= MaxStray
    /\ stage' = "online"
    /\ read' = Used \ stray
    /\ heard' = Reassemble(Entries(CmglLines(stray)))
    /\ UNCHANGED <<submitted, slots>>

\* Switched off, or the SIM is not ready, or AT+CMGL fails: online all the same.
SkipSync ==
    /\ stage = "sync"
    /\ stage' = "online"
    /\ UNCHANGED <<submitted, slots, read, heard>>

Disconnect ==
    /\ stage # "down"
    /\ stage' = "down"
    /\ read' = {}
    /\ heard' = {}
    /\ UNCHANGED <<submitted, slots>>

----------------------------------------------------------------------------
Init ==
    /\ submitted = [m \in Messages |-> <<>>]
    /\ slots = [k \in 1 .. Slots |-> NULL]
    /\ stage = "down"
    /\ read = {}
    /\ heard = {}

Next ==
    \/ \E m \in Messages, r \in References : Send(m, r)
    \/ \E p \in Part : Store(p)
    \/ Connect
    \/ CheckMemory
    \/ \E stray \in SUBSET Used : Sync(stray)
    \/ SkipSync
    \/ Disconnect

Spec == Init /\ [][Next]_vars

----------------------------------------------------------------------------
(* Safety.                                                                 *)

\* A number as it is written abroad, or a name.
SenderShown(m) ==
    LET sender == Sender[m] IN
    IF sender.name # <<>> THEN [plus |-> FALSE, digits |-> sender.name]
    ELSE IF ~sender.plus /\ Head(sender.digits) = 0
    THEN [plus |-> TRUE, digits |-> <<8, 4>> \o Tail(sender.digits)]
    ELSE [plus |-> sender.plus, digits |-> sender.digits]

\* The known limits: blank texts, code points beyond 16 bits, an ESC in the
\* text, and an extension character whose two septets fall into two parts.
Intact(m) ==
    LET codes == TextToSeptetCodes(Body[m]) IN
    /\ ~Blank(Body[m])
    /\ \A i \in 1 .. Len(Body[m]) : Body[m][i] < 65536
    /\ InGsm7(Body[m]) =>
         /\ \A i \in 1 .. Len(Body[m]) : Body[m][i] # ESC
         /\ Len(codes) > GSM7_SINGLE_MAX =>
              \A i \in 1 .. Len(codes) : i % GSM7_MULTI_MAX = 0 => codes[i] # ESC

\* The slots of m that the last AT+CMGL has read.
ReadOf(m) == {k \in read : slots[k].message = m}

\* No other message that was read looks like a part of this one.
Alone(m) ==
    \A n \in Sent \ {m} :
        ReadOf(n) # {} =>
            \/ SenderShown(n) # SenderShown(m)
            \/ Len(submitted[n]) # Len(submitted[m])
            \/ SubSeq(submitted[n][1].ud, 4, 4) # SubSeq(submitted[m][1].ud, 4, 4)

\* A message all of whose parts were read once is announced as it was written,
\* by the number that wrote it, wherever its parts lie in the SIM and whatever
\* lies between them, unless another one has its sender, reference and total.
WholeAgain ==
    \A m \in Sent :
        /\ {slots[k] : k \in ReadOf(m)} = PartsOf(m)
        /\ Cardinality(ReadOf(m)) = Len(submitted[m])
        /\ Alone(m)
        /\ Intact(m)
        => [sender |-> SenderShown(m), message |-> Body[m],
            receivedAt |-> DecodeTimestamp(SentAt[m])] \in heard

\* The network takes every part: 140 octets of user data, the length field says
\* how much of it there is, and numbers of parts fit their octet.
FitsOneSms ==
    \A m \in Sent :
        LET parts == submitted[m] IN
        /\ Len(parts) <= 255
        /\ \A i \in 1 .. Len(parts) :
             /\ Len(parts[i].ud) <= 140
             /\ \A j \in 1 .. Len(parts[i].ud) : parts[i].ud[j] \in Octets
             /\ IF parts[i].dcs = 0
                THEN parts[i].udl <= 160 /\ Len(parts[i].ud) = (7 * parts[i].udl + 7) \div 8
                ELSE parts[i].udl = Len(parts[i].ud)

----------------------------------------------------------------------------
(* What the documents say and the code does not do.                        *)

\* The memory that is running full is cleared of messages that were read.
OnlyReadCleared ==
    [][\A k \in Used : slots'[k] = NULL => k \in read]_vars
=============================================================================
