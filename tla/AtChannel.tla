----------------------------- MODULE AtChannel -----------------------------
(***************************************************************************)
(* The serial line of one ModemInstance (src/src/modem/modem.instance.ts): *)
(* AT commands and outgoing SMS share commandChain, one activeCommand and  *)
(* the bytes that come back.  A modem answers late or never, a port closes *)
(* and opens again under a command, and an answer carries no mark of the   *)
(* command it belongs to.                                                  *)
(*                                                                         *)
(* An action is one macrotask with the promise continuations it sets off;  *)
(* the start of the next job of the chain is a microtask (Quiet).  When    *)
(* the port closes is ModemLink's subject, here it may at any time.        *)
(***************************************************************************)
EXTENDS Naturals, Sequences

CONSTANTS
    Setup,      \* the commands of connect() up to online, as one
    Checks,     \* health checks: one command each, again and again
    Messages,   \* POST /api/modems/:port/send-sms requests
    Parts,      \* PDUs that encodeSubmitPdu makes of each message
    NoJob,      \* activeCommand === null
    MaxOwed     \* bound: answers that a modem can be late with

Jobs == {Setup} \cup Checks \cup Messages

ASSUME JobsAssumption ==
    /\ Setup \notin Checks \cup Messages
    /\ Checks \cap Messages = {}
    /\ NoJob \notin Jobs
ASSUME PartsAssumption == Parts \in [Messages -> Nat \ {0}]
ASSUME MaxOwedAssumption == MaxOwed \in Nat \ {0}

VARIABLES
    open,           \* this.port?.isOpen
    status,         \* state.status
    stage,          \* what each job awaits
    chain,          \* commandChain: the unsettled jobs
    step,           \* progress of the job at the head
    part,           \* parts of the head that were sent
    activeCommand,  \* the job whose answer handleLine collects
    timers,         \* jobs with an armed answer timer
    owed,           \* answers that the modem has still to give, in order
    accepted,       \* parts of each message that the network has accepted
    gaveUp          \* some job was left before its answer came

vars == <<open, status, stage, chain, step, part, activeCommand, timers, owed,
          accepted, gaveUp>>

Stages == {"idle", "command", "creg", "parts", "sent", "failed"}
Steps  == {"none", "queued", "writing", "prompt", "deaf", "answer"}
Owed   == [to : Jobs, kind : {"final", "prompt", "pdu"}, part : Nat]

TypeOK ==
    /\ open \in BOOLEAN
    /\ status \in {"offline", "connecting", "online"}
    /\ stage \in [Jobs -> Stages]
    /\ chain \in Seq(Jobs)
    /\ step \in Steps
    /\ part \in Nat
    /\ activeCommand \in Jobs \cup {NoJob}
    /\ timers \in SUBSET Jobs
    /\ owed \in Seq(Owed)
    /\ accepted \in [Messages -> SUBSET Nat]
    /\ gaveUp \in BOOLEAN

----------------------------------------------------------------------------
\* No microtask is pending: the head of the chain has been started.
Quiet == step # "queued"

\* A job joins commandChain; it starts at once when nothing is under way.
Enqueue(j, st) ==
    /\ stage' = [stage EXCEPT ![j] = st]
    /\ chain' = Append(chain, j)
    /\ step' = IF chain = <<>> THEN "queued" ELSE step

\* The head is settled at stage st and the next job starts.
Leave(st) ==
    /\ stage' = [stage EXCEPT ![Head(chain)] = st]
    /\ chain' = Tail(chain)
    /\ step' = IF Len(chain) = 1 THEN "none" ELSE "queued"
    /\ part' = 0

\* preFlightSmsCheck is over: the signal that the last health check stored
\* is too weak, or the parts of the message join the chain.
SignalCheck ==
    \/ Leave("failed")
    \/ /\ stage' = [stage EXCEPT ![Head(chain)] = "parts"]
       /\ chain' = Append(Tail(chain), Head(chain))
       /\ step' = "queued"
       /\ part' = 0

\* The head's command or part fails.  A failed AT+CREG? does not keep a
\* message from being sent.
Fails ==
    \/ stage[Head(chain)] = "command" /\ Leave("idle")
    \/ stage[Head(chain)] = "creg" /\ SignalCheck
    \/ stage[Head(chain)] = "parts" /\ Leave("failed")

\* Mutant: a failed connect() reports a status that no reader of it knows.
FailedStatus_Unknown == IF Head(chain) = Setup THEN "failed" ELSE status

\* The status when the head has failed: connect() reports offline.
FailedStatus == IF Head(chain) = Setup THEN "offline" ELSE status

\* Mutant: the timer of a settled command is not cleared.
Disarm_Armed ==
    /\ activeCommand' = NoJob
    /\ UNCHANGED timers

\* The active command is settled: its timer is cleared with it.
Disarm ==
    /\ activeCommand' = NoJob
    /\ timers' = timers \ {activeCommand}

\* activeCommand = {...} with its timer
Arm ==
    /\ activeCommand' = Head(chain)
    /\ timers' = timers \cup {Head(chain)}
    /\ step' = "answer"

\* What the modem owes, after q, for the bytes that go out for the head; it
\* forgets what exceeds MaxOwed.
Owing(q, kind) ==
    IF Len(q) < MaxOwed
    THEN Append(q, [to |-> Head(chain), kind |-> kind, part |-> part + 1])
    ELSE q

----------------------------------------------------------------------------
(* connect(), health checks, requests, loss of the port.                   *)

\* connect() gets its port; a write to the old one has called back by then.
Open ==
    /\ step \notin {"queued", "writing"}
    /\ ~open
    /\ stage[Setup] = "idle"
    /\ open' = TRUE
    /\ status' = "connecting"
    /\ Enqueue(Setup, "command")
    /\ UNCHANGED <<part, activeCommand, timers, owed, accepted, gaveUp>>

HealthTick(c) ==
    /\ Quiet
    /\ status = "online"
    /\ stage[c] = "idle"
    /\ Enqueue(c, "command")
    /\ UNCHANGED <<open, status, part, activeCommand, timers, owed, accepted, gaveUp>>

\* sendSms: refused for a port without instance, that is not online or whose
\* SIM is not ready; else AT+CREG? joins the chain.
SendSms(m) ==
    /\ Quiet
    /\ stage[m] = "idle"
    /\ \/ /\ stage' = [stage EXCEPT ![m] = "failed"]
          /\ UNCHANGED <<chain, step>>
       \/ status = "online" /\ Enqueue(m, "creg")
    /\ UNCHANGED <<open, status, part, activeCommand, timers, owed, accepted, gaveUp>>

\* The port goes and closePort rejects the active command.  A command that is
\* being written fails later; a sendSms that awaits the prompt goes on
\* listening to the old port.
PortCloses ==
    /\ Quiet
    /\ open
    /\ open' = FALSE
    /\ status' = "offline"
    /\ gaveUp' = TRUE
    /\ \/ /\ activeCommand # NoJob
          /\ Fails
          /\ Disarm
       \/ /\ activeCommand = NoJob
          /\ step' = IF step = "prompt" THEN "deaf" ELSE step
          /\ UNCHANGED <<stage, chain, part, activeCommand, timers>>
    /\ UNCHANGED <<owed, accepted>>

----------------------------------------------------------------------------
(* The chain.                                                              *)

\* The head is written when the port is open and fails when it is not; a
\* message starts with AT+CMGS for its next part.
Start ==
    /\ step = "queued"
    /\ \/ /\ open
          /\ step' = "writing"
          /\ owed' = Owing(owed, IF stage[Head(chain)] = "parts" THEN "prompt" ELSE "final")
          /\ UNCHANGED <<status, stage, chain, part>>
       \/ /\ ~open
          /\ Fails
          /\ status' = FailedStatus
          /\ UNCHANGED owed
    /\ UNCHANGED <<open, activeCommand, timers, accepted, gaveUp>>

\* The write callback: only now does the program listen for the answer, or
\* for the prompt when there still is a port.
Written ==
    /\ step = "writing"
    /\ \/ /\ stage[Head(chain)] # "parts"
          /\ Arm
          /\ UNCHANGED <<status, stage, chain, part>>
       \/ /\ stage[Head(chain)] = "parts" /\ open
          /\ step' = "prompt"
          /\ UNCHANGED <<status, stage, chain, part, activeCommand, timers>>
       \/ /\ stage[Head(chain)] = "parts" /\ ~open
          /\ Fails
          /\ UNCHANGED <<status, activeCommand, timers>>
    /\ UNCHANGED <<open, owed, accepted, gaveUp>>

\* The write callback with an error, for a command or for a PDU.
WriteFails ==
    /\ step \in {"writing", "answer"}
    /\ step = "answer" => stage[Head(chain)] = "parts"
    /\ gaveUp' = TRUE
    /\ Fails
    /\ Disarm
    /\ status' = FailedStatus
    /\ UNCHANGED <<open, owed, accepted>>

AnswerTimeout ==
    /\ Quiet
    /\ timers # {}
    /\ gaveUp' = TRUE
    /\ Fails
    /\ status' = FailedStatus
    /\ \E j \in timers : timers' = timers \ {j}
    /\ activeCommand' = NoJob
    /\ UNCHANGED <<open, owed, accepted>>

\* Mutant: the timer of the prompt gives up only while the port is there.
PromptTimeout_Live ==
    \/ /\ step = "prompt"
       /\ gaveUp' = TRUE
       /\ Fails
       /\ UNCHANGED <<open, status, activeCommand, timers, owed, accepted>>
    \/ /\ step = "deaf"
       /\ UNCHANGED vars

PromptTimeout ==
    /\ step \in {"prompt", "deaf"}
    /\ gaveUp' = TRUE
    /\ Fails
    /\ UNCHANGED <<open, status, activeCommand, timers, owed, accepted>>

----------------------------------------------------------------------------
(* Bytes from the modem.                                                   *)

\* Text that the oldest owed answer turns out to be.
TextOf(kind, ok) ==
    IF ~ok THEN "ERROR"
    ELSE CASE kind = "prompt" -> ">"
           [] kind = "pdu"    -> "+CMGS"
           [] OTHER           -> "OK"

\* The network accepts a part when the modem says so.
Accept(e, ok) ==
    accepted' = IF ok /\ e.kind = "pdu"
                THEN [accepted EXCEPT ![e.to] = @ \cup {e.part}]
                ELSE accepted

\* awaitPromptCharacter reads every chunk: '>' lets the PDU go, whichever
\* AT+CMGS it answers, and any ERROR ends the SMS.
PromptText(text) ==
    \/ /\ text = ">"
       /\ owed' = Owing(Tail(owed), "pdu")
       /\ Arm
       /\ UNCHANGED <<status, stage, chain, part>>
    \/ /\ text = "ERROR"
       /\ Fails
       /\ owed' = Tail(owed)
       /\ UNCHANGED <<status, activeCommand, timers>>
    \/ /\ text \notin {">", "ERROR"}
       /\ owed' = Tail(owed)
       /\ UNCHANGED <<status, stage, chain, step, part, activeCommand, timers>>

\* Mutant: sendSms counts the parts from one and stops a part too early.
PartAnswered_OffByOne(text) ==
    /\ text = "+CMGS"
    /\ IF part + 2 < Parts[Head(chain)]
       THEN part' = part + 1 /\ step' = "queued" /\ UNCHANGED <<stage, chain>>
       ELSE Leave("sent")

\* A reference moves the message on to its next part.
PartAnswered(text) ==
    /\ text = "+CMGS"
    /\ IF part + 1 < Parts[Head(chain)]
       THEN part' = part + 1 /\ step' = "queued" /\ UNCHANGED <<stage, chain>>
       ELSE Leave("sent")

\* A final line settles the active command; '>' has no line end and is none.
AnswerText(text) ==
    /\ owed' = Tail(owed)
    /\ IF text = ">"
       THEN UNCHANGED <<status, stage, chain, step, part, activeCommand, timers>>
       ELSE /\ Disarm
            /\ \/ text = "ERROR" /\ Fails
               \/ text # "ERROR" /\ stage[Head(chain)] = "command" /\ Leave("idle")
               \/ \* registered or not
                  text = "OK" /\ stage[Head(chain)] = "creg" /\ SignalCheck
               \/ text # "ERROR" /\ stage[Head(chain)] = "creg" /\ Leave("failed")
               \/ stage[Head(chain)] = "parts" /\ PartAnswered(text)
               \/ text = "OK" /\ stage[Head(chain)] = "parts" /\ Leave("failed")
            /\ status' = IF text = "ERROR" THEN FailedStatus
                         ELSE IF Head(chain) = Setup THEN "online" ELSE status

\* The modem answers what it owes longest, whoever listens by now; with no
\* active command the line goes to smsParser, which ignores it.
Answer(ok) ==
    /\ Quiet
    /\ open
    /\ owed # <<>>
    /\ Accept(Head(owed), ok)
    /\ LET text == TextOf(Head(owed).kind, ok) IN
       \/ step = "prompt" /\ PromptText(text)
       \/ activeCommand # NoJob /\ AnswerText(text)
       \/ /\ step # "prompt"
          /\ activeCommand = NoJob
          /\ owed' = Tail(owed)
          /\ UNCHANGED <<status, stage, chain, step, part, activeCommand, timers>>
    /\ UNCHANGED <<open, gaveUp>>

\* An answer never comes; the part may have been accepted all the same.
AnswerLost ==
    /\ Quiet
    /\ owed # <<>>
    /\ owed' = Tail(owed)
    /\ \E ok \in BOOLEAN : Accept(Head(owed), ok)
    /\ UNCHANGED <<open, status, stage, chain, step, part, activeCommand, timers, gaveUp>>

----------------------------------------------------------------------------
Init ==
    /\ open = FALSE
    /\ status = "offline"
    /\ stage = [j \in Jobs |-> "idle"]
    /\ chain = <<>>
    /\ step = "none"
    /\ part = 0
    /\ activeCommand = NoJob
    /\ timers = {}
    /\ owed = <<>>
    /\ accepted = [m \in Messages |-> {}]
    /\ gaveUp = FALSE

Next ==
    \/ Open
    \/ \E c \in Checks : HealthTick(c)
    \/ \E m \in Messages : SendSms(m)
    \/ PortCloses
    \/ Start
    \/ Written
    \/ WriteFails
    \/ AnswerTimeout
    \/ PromptTimeout
    \/ \E ok \in BOOLEAN : Answer(ok)
    \/ AnswerLost

Spec == Init /\ [][Next]_vars

\* Microtasks run, writes call back and timers fire; nothing is assumed of the
\* modem, of the port or of the callers.
Fairness ==
    /\ WF_vars(Start)
    /\ WF_vars(Written \/ WriteFails)
    /\ WF_vars(AnswerTimeout)
    /\ WF_vars(PromptTimeout)

FairSpec == Spec /\ Fairness

----------------------------------------------------------------------------
(* Safety.                                                                 *)

\* There is an active command exactly while the head awaits its answer, it is
\* the head's, and its timer is the only one armed.  The timer of an earlier
\* command would take the active command of a later one away, for it clears
\* whatever is active (sendCommand, sendPduPart, handleLine, closePort).
ActiveArmed ==
    /\ timers = IF activeCommand = NoJob THEN {} ELSE {activeCommand}
    /\ activeCommand # NoJob <=> step = "answer"
    /\ step = "answer" => activeCommand = Head(chain)

\* Nobody awaits a promise of the chain that is not in it, none is in it
\* twice, and the chain does not rest before it is empty.
ChainAccounted ==
    /\ \A j \in Jobs :
          stage[j] \in {"command", "creg", "parts"} <=> \E i \in 1 .. Len(chain) : chain[i] = j
    /\ \A i, k \in 1 .. Len(chain) : chain[i] = chain[k] => i = k
    /\ chain = <<>> <=> step = "none"

\* What the modem owes is the answer to what the head has written last.
InSync ==
    \A i \in 1 .. Len(owed) :
        /\ i = 1
        /\ step \in {"writing", "prompt", "answer"}
        /\ owed[1].to = Head(chain)
        /\ owed[1].part = part + 1
        /\ owed[1].kind = IF stage[Head(chain)] # "parts" THEN "final"
                          ELSE IF step = "answer" THEN "pdu" ELSE "prompt"

\* As long as no job was left before its answer, answers are not mixed up
\* though they carry no mark: a request that is answered with a reference had
\* every part accepted, and parts reach the network in order and on time.
SentIsAccepted ==
    ~gaveUp =>
        /\ InSync
        /\ \A m \in Messages :
             /\ stage[m] = "sent" => accepted[m] = 1 .. Parts[m]
             /\ stage[m] = "parts" =>
                  LET sent == IF m = Head(chain) THEN part ELSE 0 IN
                  accepted[m] \in {1 .. sent, 1 .. (sent + 1)}

----------------------------------------------------------------------------
(* Liveness.                                                               *)

\* Every POST is answered: whatever the modem does not answer, and whenever
\* the port closes under the prompt, the chain goes on.
SendsSettle ==
    \A m \in Messages :
        stage[m] \in {"creg", "parts"} ~> stage[m] \in {"sent", "failed"}

=============================================================================
