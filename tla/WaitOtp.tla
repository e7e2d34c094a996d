------------------------------ MODULE WaitOtp ------------------------------
(***************************************************************************)
(* WaitOtpService (src/src/otp/wait-otp.service.ts): clients that wait for *)
(* the next OTP of a port or of a phone number, each with a timer.  A      *)
(* client makes one request.                                               *)
(***************************************************************************)
CONSTANTS
    Clients,    \* the requests POST /api/wait-otp
    Ports,      \* the serial ports
    Phones,     \* the numbers of the SIMs
    AnyPort,    \* no port in the request
    AnyPhone,   \* no phone in the request
    WaitPort,   \* the port of each request
    WaitPhone,  \* its phone
    PhoneOf     \* the number of each port's SIM, AnyPhone if it is not known

ASSUME RequestsAssumption ==
    /\ AnyPort \notin Ports
    /\ AnyPhone \notin Phones
    /\ WaitPort \in [Clients -> Ports \cup {AnyPort}]
    /\ WaitPhone \in [Clients -> Phones \cup {AnyPhone}]
    /\ PhoneOf \in [Ports -> Phones \cup {AnyPhone}]

VARIABLES
    waiters,  \* waiters: the requests that handleOtpReceived looks at
    armed,    \* the requests whose timer runs
    outcome   \* what each client knows

waitVars == <<waiters, armed, outcome>>

Outcomes == {"none", "waiting", "answered", "timed out", "lost"}

WaitTypeOK ==
    /\ waiters \subseteq Clients
    /\ armed \subseteq Clients
    /\ outcome \in [Clients -> Outcomes]

WaitInit ==
    /\ waiters = {}
    /\ armed = {}
    /\ outcome = [c \in Clients |-> "none"]

\* waitForOtp; a request without port and phone is refused and leaves no trace.
WaitForOtp(c) ==
    /\ outcome[c] = "none"
    /\ WaitPort[c] # AnyPort \/ WaitPhone[c] # AnyPhone
    /\ waiters' = waiters \cup {c}
    /\ armed' = armed \cup {c}
    /\ outcome' = [outcome EXCEPT ![c] = "waiting"]

\* A promise is settled once: a later resolve or reject has no effect.
Settle(cs, how) ==
    outcome' = [c \in Clients |-> IF c \in cs /\ outcome[c] = "waiting" THEN how ELSE outcome[c]]

\* Mutant: the timer of a request that is answered goes on.
RemoveWaiters_Armed(cs) ==
    /\ waiters' = waiters \ cs
    /\ armed' = armed

\* removeWaiter
RemoveWaiters(cs) ==
    /\ waiters' = waiters \ cs
    /\ armed' = armed \ cs

\* The callback of setTimeout.
TimesOut(c) ==
    /\ c \in armed
    /\ RemoveWaiters({c})
    /\ Settle({c}, "timed out")

\* The request c asks for the OTPs of port p: phonesMatch is false for a number
\* that is not known.
Asks(c, p) ==
    /\ WaitPort[c] \in {AnyPort, p}
    /\ WaitPhone[c] # AnyPhone => WaitPhone[c] = PhoneOf[p]

\* Mutant: the first waiter takes the OTP.
Answered_First(p) ==
    LET all == {c \in waiters : Asks(c, p)}
    IN  IF all = {} THEN {} ELSE {CHOOSE c \in all : TRUE}

\* The waiters that an OTP of port p answers.
Answered(p) == {c \in waiters : Asks(c, p)}

\* handleOtpReceived
HandleOtpReceived(p) ==
    /\ RemoveWaiters(Answered(p))
    /\ Settle(Answered(p), "answered")

\* The process ends: the connections of the clients break.
LoseWaiters ==
    /\ waiters' = {}
    /\ armed' = {}
    /\ Settle(Clients, "lost")

=============================================================================
