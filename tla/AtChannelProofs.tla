-------------------------- MODULE AtChannelProofs --------------------------
(* Proofs about AtChannel, for any number of health checks and messages,    *)
(* parts of each, and answers that the modem is late with.                  *)
EXTENDS AtChannel, SequenceTheorems, TLAPS

Pending == {"command", "creg", "parts"}

\* Which stages a job can be in.
StagesFit ==
    \A j \in Jobs : stage[j] \in IF j \in Messages
                                 THEN {"idle", "creg", "parts", "sent", "failed"}
                                 ELSE {"idle", "command"}

\* The head of the chain, and how far it is.
HeadFits ==
    /\ chain = <<>> => part = 0
    /\ step \in {"prompt", "deaf"} => stage[Head(chain)] = "parts"
    /\ chain # <<>> /\ stage[Head(chain)] = "parts" => part < Parts[Head(chain)]

\* All that is said of the jobs and their chain.
Jobbing ==
    /\ stage \in [Jobs -> Stages]
    /\ chain \in Seq(Jobs)
    /\ step \in Steps
    /\ part \in Nat
    /\ StagesFit
    /\ ChainAccounted
    /\ HeadFits

\* A command under way on a closed port has seen the port close.
ClosedIsKnown == step \in {"writing", "prompt", "deaf", "answer"} /\ ~open => gaveUp

\* What the network has of a message.  Only the last part may have been
\* accepted without the program having been told.
AcceptedSoFar(m) ==
    /\ stage[m] \in {"idle", "creg"} => accepted[m] = {}
    /\ stage[m] = "sent" => accepted[m] = 1 .. Parts[m]
    /\ stage[m] = "parts" =>
         IF m = Head(chain)
         THEN \/ accepted[m] = 1 .. part
              \/ step = "answer" /\ owed = <<>> /\ accepted[m] = 1 .. (part + 1)
         ELSE accepted[m] = {}

InStep == ~gaveUp => InSync /\ \A m \in Messages : AcceptedSoFar(m)

ChannelInv ==
    /\ TypeOK
    /\ Jobbing
    /\ ActiveArmed
    /\ ClosedIsKnown
    /\ InStep

----------------------------------------------------------------------------
(* The chain.                                                              *)

\* A job that joins the chain.
LEMMA EnqueueJobs ==
    ASSUME Jobbing, NEW j \in Jobs, stage[j] = "idle", UNCHANGED part,
           NEW st, st = (IF j \in Messages THEN "creg" ELSE "command"), Enqueue(j, st)
    PROVE  /\ Jobbing'
           /\ stage' = [stage EXCEPT ![j] = st]
           /\ chain = <<>> => step = "none" /\ step' = "queued" /\ Head(chain') = j
           /\ chain # <<>> => step' = step /\ Head(chain') = Head(chain) /\ Head(chain) # j
<1> USE DEF Jobbing
<1>1. /\ chain' \in Seq(Jobs) /\ chain' # <<>>
      /\ Len(chain') = Len(chain) + 1
      /\ \A i \in 1 .. Len(chain) : chain'[i] = chain[i]
      /\ chain'[Len(chain) + 1] = j
      /\ Head(chain') = chain'[1]
      /\ chain # <<>> => Head(chain) = chain[1] /\ 1 \in 1 .. Len(chain)
      /\ chain = <<>> => Len(chain) = 0
  BY DEF Enqueue
<1>2. /\ stage' = [stage EXCEPT ![j] = st]
      /\ step' = IF chain = <<>> THEN "queued" ELSE step
      /\ st \in Pending
  BY DEF Enqueue, Pending
<1>3. \A i \in 1 .. Len(chain) : chain[i] # j
  BY DEF ChainAccounted
<1>4. /\ chain = <<>> => step = "none" /\ step' = "queued" /\ Head(chain') = j
      /\ chain # <<>> => step' = step /\ Head(chain') = Head(chain) /\ Head(chain) # j
  BY <1>1, <1>2, <1>3 DEF ChainAccounted
<1>5. stage' \in [Jobs -> Stages] /\ step' \in Steps /\ part' \in Nat
  BY <1>2 DEF Stages, Steps
<1>6. StagesFit'
  BY <1>2 DEF StagesFit
<1>7. ChainAccounted'
  <2>1. ASSUME NEW k \in Jobs
        PROVE  stage'[k] \in Pending <=> \E i \in 1 .. Len(chain') : chain'[i] = k
    <3>1. CASE k = j
      BY <1>1, <1>2, <3>1
    <3>2. CASE k # j
      <4>1. stage'[k] = stage[k]
        BY <1>2, <3>2
      <4>2. stage[k] \in Pending <=> \E i \in 1 .. Len(chain) : chain[i] = k
        BY DEF ChainAccounted, Pending
      <4> QED BY <1>1, <3>2, <4>1, <4>2
    <3> QED BY <3>1, <3>2
  <2>2. \A i, k \in 1 .. Len(chain') : chain'[i] = chain'[k] => i = k
    BY <1>1, <1>3 DEF ChainAccounted
  <2>3. step' # "none"
    BY <1>2 DEF ChainAccounted
  <2> QED BY <1>1, <2>1, <2>2, <2>3 DEF ChainAccounted, Pending
<1>8. HeadFits'
  <2>1. CASE chain = <<>>
    BY <1>1, <1>2, <1>4, <2>1 DEF HeadFits
  <2>2. CASE chain # <<>>
    <3>1. Head(chain) \in Jobs
      BY <1>1, <2>2
    <3> QED BY <1>1, <1>2, <1>4, <2>2, <3>1 DEF HeadFits
  <2> QED BY <2>1, <2>2
<1> QED BY <1>1, <1>2, <1>4, <1>5, <1>6, <1>7, <1>8

\* The head leaves the chain for good.
LEMMA LeaveJobs ==
    ASSUME Jobbing, chain # <<>>, NEW st, Leave(st),
           st \in IF Head(chain) \in Messages THEN {"sent", "failed"} ELSE {"idle"}
    PROVE  /\ Jobbing'
           /\ stage' = [stage EXCEPT ![Head(chain)] = st]
           /\ step' \in {"none", "queued"}
           /\ part' = 0
<1> USE DEF Jobbing
<1>1. /\ Len(chain) \in Nat \ {0}
      /\ Head(chain) = chain[1] /\ Head(chain) \in Jobs
      /\ Tail(chain) \in Seq(Jobs)
      /\ Len(Tail(chain)) = Len(chain) - 1
      /\ \A i \in 1 .. Len(chain) - 1 : Tail(chain)[i] = chain[i + 1]
      /\ Len(chain) = 1 <=> Tail(chain) = <<>>
  <2>1. chain \in Seq(Jobs)
    OBVIOUS
  <2>2. /\ Len(chain) \in Nat \ {0}
        /\ Head(chain) = chain[1] /\ Head(chain) \in Jobs
    BY <2>1
  <2>3. /\ Tail(chain) \in Seq(Jobs)
        /\ Len(Tail(chain)) = Len(chain) - 1
        /\ \A i \in 1 .. Len(chain) - 1 : Tail(chain)[i] = chain[i + 1]
    BY <2>1
  <2>4. Len(Tail(chain)) = 0 <=> Tail(chain) = <<>>
    BY <2>3, EmptySeq
  <2> QED BY <2>2, <2>3, <2>4
<1>2. /\ stage' = [stage EXCEPT ![Head(chain)] = st]
      /\ chain' = Tail(chain)
      /\ step' = IF Len(chain) = 1 THEN "none" ELSE "queued"
      /\ part' = 0
      /\ st \notin Pending /\ st \in Stages
  BY DEF Leave, Pending, Stages
<1>3. stage' \in [Jobs -> Stages] /\ step' \in Steps /\ part' \in Nat /\ chain' \in Seq(Jobs)
  BY <1>1, <1>2 DEF Steps
<1>4. StagesFit'
  BY <1>1, <1>2 DEF StagesFit
<1>5. ChainAccounted'
  <2>1. ASSUME NEW k \in Jobs
        PROVE  stage'[k] \in Pending <=> \E i \in 1 .. Len(chain') : chain'[i] = k
    <3>1. CASE k = Head(chain)
      <4>1. stage'[k] \notin Pending
        BY <1>1, <1>2, <3>1
      <4>2. \A i \in 1 .. Len(chain') : chain'[i] # k
        BY <1>1, <1>2, <3>1 DEF ChainAccounted
      <4> QED BY <4>1, <4>2
    <3>2. CASE k # Head(chain)
      <4>1. stage'[k] = stage[k]
        BY <1>1, <1>2, <3>2
      <4>2. stage[k] \in Pending <=> \E i \in 1 .. Len(chain) : chain[i] = k
        BY DEF ChainAccounted, Pending
      <4>3. ASSUME NEW i \in 1 .. Len(chain), chain[i] = k
            PROVE  i - 1 \in 1 .. Len(chain') /\ chain'[i - 1] = k
        BY <1>1, <1>2, <3>2, <4>3
      <4>4. ASSUME NEW i \in 1 .. Len(chain'), chain'[i] = k
            PROVE  i + 1 \in 1 .. Len(chain) /\ chain[i + 1] = k
        BY <1>1, <1>2, <4>4
      <4> QED BY <4>1, <4>2, <4>3, <4>4
    <3> QED BY <3>1, <3>2
  <2>2. \A i, k \in 1 .. Len(chain') : chain'[i] = chain'[k] => i = k
    BY <1>1, <1>2 DEF ChainAccounted
  <2>3. chain' = <<>> <=> step' = "none"
    BY <1>1, <1>2
  <2> QED BY <2>1, <2>2, <2>3 DEF ChainAccounted, Pending
<1>6. HeadFits'
  <2>1. ASSUME chain' # <<>>, stage'[Head(chain')] = "parts"
        PROVE  part' < Parts[Head(chain')]
    <3>1. Head(chain') \in Jobs
      BY <1>3, <2>1
    <3>2. Head(chain') \in Messages
      BY <1>4, <2>1, <3>1 DEF StagesFit
    <3>3. Parts[Head(chain')] \in Nat \ {0}
      BY <3>2, PartsAssumption
    <3>4. part' = 0
      BY <1>2
    <3> HIDE DEF Jobbing
    <3> QED BY <3>3, <3>4
  <2> QED BY <1>2, <2>1 DEF HeadFits
<1> QED BY <1>2, <1>3, <1>4, <1>5, <1>6

\* The head goes to the end of the chain with the parts of its message.
LEMMA SignalCheckJobs ==
    ASSUME Jobbing, chain # <<>>, stage[Head(chain)] = "creg", SignalCheck
    PROVE  /\ Jobbing'
           /\ \E st \in {"failed", "parts"} : stage' = [stage EXCEPT ![Head(chain)] = st]
           /\ step' \in {"none", "queued"}
           /\ part' = 0
<1>0. Head(chain) \in Jobs /\ Head(chain) \in Messages
  <2>1. Head(chain) \in Jobs
    BY DEF Jobbing
  <2> QED BY <2>1 DEF Jobbing, StagesFit
<1>1. CASE Leave("failed")
  BY <1>0, <1>1, LeaveJobs
<1>2. CASE /\ stage' = [stage EXCEPT ![Head(chain)] = "parts"]
           /\ chain' = Append(Tail(chain), Head(chain))
           /\ step' = "queued"
           /\ part' = 0
  <2> USE DEF Jobbing
  <2>1. /\ Len(chain) \in Nat \ {0}
        /\ Head(chain) = chain[1]
        /\ Tail(chain) \in Seq(Jobs)
        /\ Len(Tail(chain)) = Len(chain) - 1
        /\ \A i \in 1 .. Len(chain) - 1 : Tail(chain)[i] = chain[i + 1]
    <3>1. chain \in Seq(Jobs)
      OBVIOUS
    <3> QED BY <3>1
  <2>2. /\ chain' \in Seq(Jobs) /\ chain' # <<>>
        /\ Len(chain') = Len(chain)
        /\ \A i \in 1 .. Len(chain) - 1 : chain'[i] = chain[i + 1]
        /\ chain'[Len(chain)] = chain[1]
        /\ Head(chain') = chain'[1] /\ Head(chain') \in Jobs
    <3>1. /\ chain' \in Seq(Jobs) /\ chain' # <<>>
          /\ Len(chain') = Len(chain)
          /\ \A i \in 1 .. Len(chain) - 1 : chain'[i] = Tail(chain)[i]
          /\ chain'[Len(chain)] = chain[1]
      BY <1>0, <1>2, <2>1
    <3>2. Head(chain') = chain'[1] /\ Head(chain') \in Jobs
      BY <3>1
    <3> QED BY <2>1, <3>1, <3>2
  <2>3. stage' \in [Jobs -> Stages] /\ step' \in Steps /\ part' \in Nat
    BY <1>2 DEF Stages, Steps
  <2>4. StagesFit'
    BY <1>0, <1>2 DEF StagesFit
  <2>5. ChainAccounted'
    <3>1. ASSUME NEW k \in Jobs
          PROVE  stage'[k] \in Pending <=> \E i \in 1 .. Len(chain') : chain'[i] = k
      <4>1. stage'[k] \in Pending <=> stage[k] \in Pending
        BY <1>0, <1>2 DEF Pending
      <4>2. stage[k] \in Pending <=> \E i \in 1 .. Len(chain) : chain[i] = k
        BY DEF ChainAccounted, Pending
      <4>3. ASSUME NEW i \in 1 .. Len(chain), chain[i] = k
            PROVE  \E j \in 1 .. Len(chain') : chain'[j] = k
        <5>1. CASE i = 1
          BY <2>1, <2>2, <4>3, <5>1
        <5>2. CASE i # 1
          <6>1. i - 1 \in 1 .. Len(chain) - 1 /\ chain'[i - 1] = k
            BY <2>1, <2>2, <4>3, <5>2
          <6> QED BY <2>1, <2>2, <6>1
        <5> QED BY <5>1, <5>2
      <4>4. ASSUME NEW j \in 1 .. Len(chain'), chain'[j] = k
            PROVE  \E i \in 1 .. Len(chain) : chain[i] = k
        <5>1. CASE j = Len(chain)
          BY <2>1, <2>2, <4>4, <5>1
        <5>2. CASE j # Len(chain)
          <6>1. j \in 1 .. Len(chain) - 1
            <7>1. j \in 1 .. Len(chain) /\ Len(chain) \in Nat
              BY <2>1, <2>2
            <7> HIDE DEF Jobbing
            <7> QED BY <5>2, <7>1
          <6>2. j + 1 \in 1 .. Len(chain) /\ chain[j + 1] = k
            BY <2>1, <2>2, <4>4, <6>1
          <6> QED BY <6>2
        <5> QED BY <5>1, <5>2
      <4> QED BY <4>1, <4>2, <4>3, <4>4
    <3>2. ASSUME NEW i \in 1 .. Len(chain'), NEW k \in 1 .. Len(chain'), chain'[i] = chain'[k]
          PROVE  i = k
      <4>1. \A j \in 1 .. Len(chain) - 1 :
               j + 1 \in 1 .. Len(chain) /\ chain'[j] = chain[j + 1] /\ j + 1 # 1
        BY <2>1, <2>2
      <4>2. \A x, y \in 1 .. Len(chain) : chain[x] = chain[y] => x = y
        BY DEF ChainAccounted
      <4>3. /\ i \in 1 .. Len(chain) - 1 \/ i = Len(chain)
            /\ k \in 1 .. Len(chain) - 1 \/ k = Len(chain)
            /\ 1 \in 1 .. Len(chain)
        <5>1. i \in 1 .. Len(chain) /\ k \in 1 .. Len(chain) /\ Len(chain) \in Nat \ {0}
          BY <2>1, <2>2
        <5> HIDE DEF Jobbing
        <5> QED BY <5>1
      <4>4. i \in Int /\ k \in Int
        OBVIOUS
      <4>5. CASE i = Len(chain) /\ k = Len(chain)
        BY <4>5
      <4>6. CASE i = Len(chain) /\ k \in 1 .. Len(chain) - 1
        <5>1. chain[1] = chain[k + 1]
          BY <2>2, <3>2, <4>1, <4>6
        <5> QED BY <4>1, <4>2, <4>3, <4>6, <5>1
      <4>7. CASE k = Len(chain) /\ i \in 1 .. Len(chain) - 1
        <5>1. chain[1] = chain[i + 1]
          BY <2>2, <3>2, <4>1, <4>7
        <5> QED BY <4>1, <4>2, <4>3, <4>7, <5>1
      <4>8. CASE i \in 1 .. Len(chain) - 1 /\ k \in 1 .. Len(chain) - 1
        <5>1. chain[i + 1] = chain[k + 1]
          BY <3>2, <4>1, <4>8
        <5>2. i + 1 = k + 1
          BY <4>1, <4>2, <4>8, <5>1
        <5> QED BY <4>4, <5>2
      <4> QED BY <4>3, <4>5, <4>6, <4>7, <4>8
    <3> QED BY <1>2, <2>2, <3>1, <3>2 DEF ChainAccounted, Pending
  <2>6. HeadFits'
    <3>1. ASSUME stage'[Head(chain')] = "parts"
          PROVE  part' < Parts[Head(chain')]
      <4>1. Head(chain') \in Messages
        BY <2>2, <2>4, <3>1 DEF StagesFit
      <4>2. Parts[Head(chain')] \in Nat \ {0}
        BY <4>1, PartsAssumption
      <4>3. part' = 0
        BY <1>2
      <4> HIDE DEF Jobbing
      <4> QED BY <4>2, <4>3
    <3> QED BY <1>2, <2>2, <3>1 DEF HeadFits
  <2> QED BY <1>2, <2>2, <2>3, <2>4, <2>5, <2>6
<1> QED BY <1>1, <1>2 DEF SignalCheck

\* The head fails, or goes on without its AT+CREG?.
LEMMA FailsJobs ==
    ASSUME Jobbing, chain # <<>>, Fails
    PROVE  /\ Jobbing'
           /\ \E st \in {"idle", "failed", "parts"} :
                /\ stage' = [stage EXCEPT ![Head(chain)] = st]
                /\ st = "parts" => stage[Head(chain)] = "creg"
                /\ st = "idle" => Head(chain) \notin Messages
           /\ step' \in {"none", "queued"}
           /\ part' = 0
<1>0. /\ Head(chain) \in Jobs
      /\ stage[Head(chain)] = "command" => Head(chain) \notin Messages
      /\ stage[Head(chain)] \in {"creg", "parts"} => Head(chain) \in Messages
  <2>1. Head(chain) \in Jobs
    BY DEF Jobbing
  <2> QED BY <2>1 DEF Jobbing, StagesFit
<1>1. CASE stage[Head(chain)] = "command" /\ Leave("idle")
  BY <1>0, <1>1, LeaveJobs
<1>2. CASE stage[Head(chain)] = "creg" /\ SignalCheck
  BY <1>2, SignalCheckJobs
<1>3. CASE stage[Head(chain)] = "parts" /\ Leave("failed")
  BY <1>0, <1>3, LeaveJobs
<1> QED BY <1>1, <1>2, <1>3 DEF Fails

----------------------------------------------------------------------------
(* Types of what the lemmas above do not speak of.                         *)

\* The head is a job that awaits the chain, and only its own kind of stage.
LEMMA HeadIsPending ==
    ASSUME Jobbing, chain # <<>>
    PROVE  /\ Head(chain) \in Jobs
           /\ stage[Head(chain)] \in Pending
           /\ stage[Head(chain)] = "command" => Head(chain) \notin Messages
           /\ stage[Head(chain)] \in {"creg", "parts"} => Head(chain) \in Messages
<1>1. Head(chain) \in Jobs /\ 1 \in 1 .. Len(chain) /\ Head(chain) = chain[1]
  <2>1. chain \in Seq(Jobs)
    BY DEF Jobbing
  <2> QED BY <2>1
<1>2. stage[Head(chain)] \in Pending
  BY <1>1 DEF Jobbing, ChainAccounted, Pending
<1> QED BY <1>1, <1>2 DEF Jobbing, StagesFit, Pending

\* What the modem owes after a write.
LEMMA OwingType ==
    ASSUME NEW q \in Seq(Owed), Head(chain) \in Jobs, part \in Nat,
           NEW kind \in {"final", "prompt", "pdu"}
    PROVE  /\ Owing(q, kind) \in Seq(Owed)
           /\ q = <<>> => \/ Owing(q, kind) = <<>>
                          \/ Owing(q, kind) = <<[to |-> Head(chain), kind |-> kind, part |-> part + 1]>>
<1>1. [to |-> Head(chain), kind |-> kind, part |-> part + 1] \in Owed
  BY DEF Owed
<1>2. Append(q, [to |-> Head(chain), kind |-> kind, part |-> part + 1]) \in Seq(Owed)
  BY <1>1
<1>3. q = <<>> => Append(q, [to |-> Head(chain), kind |-> kind, part |-> part + 1])
                    = <<[to |-> Head(chain), kind |-> kind, part |-> part + 1]>>
  OBVIOUS
<1> QED BY <1>2, <1>3 DEF Owing

\* An answer that was owed.
LEMMA OwedHead ==
    ASSUME NEW q \in Seq(Owed), q # <<>>
    PROVE  /\ Head(q) \in Owed /\ Head(q) = q[1] /\ 1 \in 1 .. Len(q)
           /\ Tail(q) \in Seq(Owed)
           /\ (\A i \in 1 .. Len(q) : i = 1) => Tail(q) = <<>>
<1>1. /\ Head(q) \in Owed /\ Head(q) = q[1] /\ 1 \in 1 .. Len(q)
      /\ Tail(q) \in Seq(Owed) /\ Len(Tail(q)) = Len(q) - 1
  OBVIOUS
<1>2. ASSUME \A i \in 1 .. Len(q) : i = 1 PROVE Tail(q) = <<>>
  <2>1. Len(q) \in Nat /\ Len(q) \in 1 .. Len(q)
    BY <1>1
  <2>2. Len(q) = 1
    BY <1>2, <2>1
  <2>3. Len(Tail(q)) = 0
    BY <1>1, <2>2
  <2> QED BY <1>1, <2>3, EmptySeq
<1> QED BY <1>1, <1>2

\* What the network has accepted.
LEMMA AcceptType ==
    ASSUME accepted \in [Messages -> SUBSET Nat], NEW e \in Owed, NEW ok \in BOOLEAN,
           Accept(e, ok)
    PROVE  /\ accepted' \in [Messages -> SUBSET Nat]
           /\ ~ok \/ e.kind # "pdu" => accepted' = accepted
           /\ \A m \in Messages : m # e.to => accepted'[m] = accepted[m]
           /\ \A m \in Messages : m = e.to /\ ok /\ e.kind = "pdu"
                                     => accepted'[m] = accepted[m] \cup {e.part}
<1>1. e.part \in Nat
  BY DEF Owed
<1> QED BY <1>1 DEF Accept

----------------------------------------------------------------------------
(* Answers and the commands they belong to.                                *)

\* Whatever job leaves or goes to the end of the chain, the others keep what
\* the network has of them.
LEMMA OthersSoFar ==
    ASSUME Jobbing, chain # <<>>, NEW st, stage' = [stage EXCEPT ![Head(chain)] = st],
           part' = 0, NEW m \in Messages, m # Head(chain), AcceptedSoFar(m),
           accepted'[m] = accepted[m]
    PROVE  AcceptedSoFar(m)'
<1>1. stage'[m] = stage[m]
  BY HeadIsPending DEF Jobbing, Jobs
<1>2. 1 .. 0 = {}
  OBVIOUS
<1> QED BY <1>1, <1>2 DEF AcceptedSoFar

\* A job that failed.
LEMMA FailsSoFar ==
    ASSUME Jobbing, chain # <<>>, Fails, accepted' = accepted,
           \A m \in Messages : AcceptedSoFar(m)
    PROVE  \A m \in Messages : AcceptedSoFar(m)'
<1> SUFFICES ASSUME NEW m \in Messages PROVE AcceptedSoFar(m)'
  OBVIOUS
<1>1. PICK st \in {"idle", "failed", "parts"} :
        /\ stage' = [stage EXCEPT ![Head(chain)] = st]
        /\ st = "parts" => stage[Head(chain)] = "creg"
        /\ st = "idle" => Head(chain) \notin Messages
  BY FailsJobs
<1>2. part' = 0
  BY FailsJobs
<1>3. CASE m # Head(chain)
  BY <1>1, <1>2, <1>3, OthersSoFar
<1>4. CASE m = Head(chain)
  <2>1. stage'[m] = st
    BY <1>1, <1>4 DEF Jobbing, Jobs
  <2>2. 1 .. 0 = {}
    OBVIOUS
  <2> QED BY <1>1, <1>2, <1>4, <2>1, <2>2 DEF AcceptedSoFar
<1> QED BY <1>3, <1>4

\* A modem that owes nothing is in step.
LEMMA NothingOwed ==
    ASSUME owed' = <<>>
    PROVE  InSync'
<1>1. \A i \in 1 .. Len(owed') : FALSE
  OBVIOUS
<1> QED BY <1>1 DEF InSync

\* A job that joins the chain.
LEMMA EnqueueInStep ==
    ASSUME Jobbing, InStep, UNCHANGED <<part, owed, accepted, gaveUp>>,
           NEW j \in Jobs, stage[j] = "idle",
           Enqueue(j, IF j \in Messages THEN "creg" ELSE "command")
    PROVE  InStep'
<1> DEFINE st == IF j \in Messages THEN "creg" ELSE "command"
<1>1. /\ stage' = [stage EXCEPT ![j] = st]
      /\ chain = <<>> => step = "none" /\ step' = "queued" /\ Head(chain') = j
      /\ chain # <<>> => step' = step /\ Head(chain') = Head(chain) /\ Head(chain) # j
  BY EnqueueJobs
<1> SUFFICES ASSUME ~gaveUp PROVE InSync' /\ \A m \in Messages : AcceptedSoFar(m)'
  BY DEF InStep
<1>2. InSync /\ \A m \in Messages : AcceptedSoFar(m)
  BY DEF InStep
<1>3. InSync'
  <2>1. CASE chain = <<>>
    <3>1. \A i \in 1 .. Len(owed) : FALSE
      BY <1>1, <1>2, <2>1 DEF InSync
    <3> QED BY <3>1 DEF InSync
  <2>2. CASE chain # <<>>
    <3>1. stage'[Head(chain)] = stage[Head(chain)]
      BY <1>1, <2>2, HeadIsPending DEF Jobbing
    <3> QED BY <1>1, <1>2, <2>2, <3>1 DEF InSync
  <2> QED BY <2>1, <2>2
<1>4. ASSUME NEW m \in Messages PROVE AcceptedSoFar(m)'
  <2>1. m \in Jobs
    BY DEF Jobs
  <2>2. CASE m = j
    <3>1. stage'[m] = "creg"
      BY <1>1, <2>1, <2>2 DEF Jobbing
    <3> QED BY <1>2, <2>2, <3>1 DEF AcceptedSoFar
  <2>3. CASE m # j
    <3>1. stage'[m] = stage[m]
      BY <1>1, <2>1, <2>3 DEF Jobbing
    <3>2. stage[m] = "parts" => chain # <<>>
      BY <2>1 DEF Jobbing, ChainAccounted
    <3> QED BY <1>1, <1>2, <3>1, <3>2 DEF AcceptedSoFar
  <2> QED BY <2>2, <2>3
<1> QED BY <1>3, <1>4

----------------------------------------------------------------------------
(* Every action preserves the invariant.                                   *)

\* The chain is not empty once its head has been started.
LEMMA StepHasHead ==
    ASSUME ChannelInv, step # "none"
    PROVE  chain # <<>>
BY DEF ChannelInv, Jobbing, ChainAccounted

\* A failed head leaves one of the known statuses.
LEMMA FailedStatusType ==
    ASSUME ChannelInv
    PROVE  FailedStatus \in {"offline", "connecting", "online"}
BY DEF ChannelInv, TypeOK, FailedStatus

\* Nobody awaits an answer once the head has been settled.
LEMMA SettledInv ==
    ASSUME Jobbing', step' \in {"none", "queued"}, activeCommand' = NoJob, timers' = {},
           open' \in BOOLEAN, status' \in {"offline", "connecting", "online"},
           owed' \in Seq(Owed), accepted' \in [Messages -> SUBSET Nat],
           gaveUp' \in BOOLEAN, InStep'
    PROVE  ChannelInv'
<1>1. TypeOK'
  BY DEF TypeOK, Jobbing
<1>2. ActiveArmed'
  BY DEF ActiveArmed
<1>3. ClosedIsKnown'
  BY DEF ClosedIsKnown
<1> QED BY <1>1, <1>2, <1>3 DEF ChannelInv

\* The head fails before its answer, and the rest of the chain goes on.
LEMMA GiveUpInv ==
    ASSUME ChannelInv, chain # <<>>, Fails, gaveUp' = TRUE, activeCommand' = NoJob,
           timers' = {}, open' \in BOOLEAN,
           status' \in {"offline", "connecting", "online"}, UNCHANGED <<owed, accepted>>
    PROVE  ChannelInv'
<1>1. Jobbing' /\ step' \in {"none", "queued"}
  BY FailsJobs DEF ChannelInv
<1>2. owed' \in Seq(Owed) /\ accepted' \in [Messages -> SUBSET Nat]
  BY DEF ChannelInv, TypeOK
<1>3. InStep'
  BY DEF InStep
<1> QED BY <1>1, <1>2, <1>3, SettledInv

\* A job joins the chain.
LEMMA JoinInv ==
    ASSUME ChannelInv, NEW j \in Jobs, stage[j] = "idle",
           Enqueue(j, IF j \in Messages THEN "creg" ELSE "command"),
           UNCHANGED <<part, activeCommand, timers, owed, accepted, gaveUp>>,
           open' \in BOOLEAN, open => open',
           status' \in {"offline", "connecting", "online"}
    PROVE  ChannelInv'
<1> DEFINE st == IF j \in Messages THEN "creg" ELSE "command"
<1>1. /\ Jobbing'
      /\ chain = <<>> => step = "none" /\ step' = "queued"
      /\ chain # <<>> => step' = step /\ Head(chain') = Head(chain)
  BY EnqueueJobs DEF ChannelInv
<1>2. TypeOK'
  BY <1>1 DEF ChannelInv, TypeOK, Jobbing
<1>3. ActiveArmed'
  <2>1. step = "answer" => chain # <<>>
    BY StepHasHead
  <2> QED BY <1>1, <2>1 DEF ChannelInv, ActiveArmed
<1>4. ClosedIsKnown'
  BY <1>1 DEF ChannelInv, TypeOK, ClosedIsKnown
<1>5. InStep'
  BY EnqueueInStep DEF ChannelInv
<1> QED BY <1>1, <1>2, <1>3, <1>4, <1>5 DEF ChannelInv

\* connect() has its port.
LEMMA OpenInv == ASSUME ChannelInv, Open PROVE ChannelInv'
<1>1. Setup \in Jobs /\ Setup \notin Messages
  BY JobsAssumption DEF Jobs
<1> QED BY <1>1, JoinInv DEF Open

\* A health check joins the chain.
LEMMA HealthTickInv == ASSUME ChannelInv, NEW c \in Checks, HealthTick(c) PROVE ChannelInv'
<1>1. c \in Jobs /\ c \notin Messages
  BY JobsAssumption DEF Jobs
<1>2. open' \in BOOLEAN /\ (open => open') /\ status' \in {"offline", "connecting", "online"}
  BY DEF HealthTick, ChannelInv, TypeOK
<1> QED BY <1>1, <1>2, JoinInv DEF HealthTick

\* A message joins the chain or is refused.
LEMMA SendSmsInv == ASSUME ChannelInv, NEW m \in Messages, SendSms(m) PROVE ChannelInv'
<1>1. m \in Jobs
  BY DEF Jobs
<1>2. open' \in BOOLEAN /\ (open => open') /\ status' \in {"offline", "connecting", "online"}
  BY DEF SendSms, ChannelInv, TypeOK
<1>3. CASE Enqueue(m, "creg")
  BY <1>1, <1>2, <1>3, JoinInv DEF SendSms
<1>4. CASE stage' = [stage EXCEPT ![m] = "failed"] /\ UNCHANGED <<chain, step>>
  <2>1. stage[m] = "idle" /\ UNCHANGED <<open, part, activeCommand, timers, owed, accepted, gaveUp>>
    BY DEF SendSms
  <2>2. step # "none" => Head(chain) # m /\ stage'[Head(chain)] = stage[Head(chain)]
    BY <1>4, <2>1, StepHasHead, HeadIsPending DEF ChannelInv, Pending, Jobbing
  <2>3. chain # <<>> => step # "none"
    BY DEF ChannelInv, Jobbing, ChainAccounted
  <2>4. Jobbing'
    <3>1. stage' \in [Jobs -> Stages] /\ StagesFit'
      BY <1>4 DEF ChannelInv, Jobbing, Stages, StagesFit
    <3>2. ChainAccounted'
      <4>1. \A j \in Jobs : stage'[j] \in Pending <=> stage[j] \in Pending
        BY <1>4, <2>1 DEF ChannelInv, Jobbing, Pending
      <4> QED BY <1>4, <4>1 DEF ChannelInv, Jobbing, ChainAccounted, Pending
    <3>3. HeadFits'
      BY <1>4, <2>1, <2>2, <2>3 DEF ChannelInv, Jobbing, HeadFits
    <3> QED BY <1>4, <2>1, <3>1, <3>2, <3>3 DEF ChannelInv, Jobbing
  <2>5. TypeOK'
    BY <1>2, <1>4, <2>1, <2>4 DEF ChannelInv, Jobbing, TypeOK
  <2>6. ActiveArmed' /\ ClosedIsKnown'
    BY <1>4, <2>1 DEF ChannelInv, ActiveArmed, ClosedIsKnown
  <2>7. InStep'
    <3> SUFFICES ASSUME ~gaveUp PROVE InSync' /\ \A n \in Messages : AcceptedSoFar(n)'
      BY <2>1 DEF InStep
    <3>1. InSync /\ \A n \in Messages : AcceptedSoFar(n)
      BY DEF ChannelInv, InStep
    <3>2. InSync'
      BY <1>4, <2>1, <2>2, <3>1 DEF InSync
    <3>3. ASSUME NEW n \in Messages PROVE AcceptedSoFar(n)'
      <4>1. stage'[n] = IF n = m THEN "failed" ELSE stage[n]
        BY <1>1, <1>4 DEF ChannelInv, Jobbing, Jobs
      <4> QED BY <1>4, <2>1, <3>1, <4>1 DEF AcceptedSoFar
    <3> QED BY <3>2, <3>3
  <2> QED BY <2>4, <2>5, <2>6, <2>7 DEF ChannelInv
<1> QED BY <1>3, <1>4 DEF SendSms

\* The port goes.
LEMMA PortClosesInv == ASSUME ChannelInv, PortCloses PROVE ChannelInv'
<1>1. open' = FALSE /\ status' = "offline" /\ gaveUp' = TRUE /\ UNCHANGED <<owed, accepted>>
  BY DEF PortCloses
<1>2. CASE activeCommand # NoJob /\ Fails /\ Disarm
  <2>1. timers' = {} /\ activeCommand' = NoJob
    BY <1>2 DEF ChannelInv, ActiveArmed, Disarm
  <2>2. chain # <<>>
    BY <1>2, StepHasHead DEF ChannelInv, ActiveArmed
  <2> QED BY <1>1, <1>2, <2>1, <2>2, GiveUpInv
<1>3. CASE /\ activeCommand = NoJob
           /\ step' = IF step = "prompt" THEN "deaf" ELSE step
           /\ UNCHANGED <<stage, chain, part, activeCommand, timers>>
  <2>1. Jobbing'
    <3>1. step' \in Steps /\ (step' = "none" <=> step = "none")
          /\ (step' \in {"prompt", "deaf"} <=> step \in {"prompt", "deaf"})
      BY <1>3 DEF ChannelInv, Jobbing, Steps
    <3>2. StagesFit'
      BY <1>3 DEF ChannelInv, Jobbing, StagesFit
    <3>3. ChainAccounted'
      BY <1>3, <3>1 DEF ChannelInv, Jobbing, ChainAccounted
    <3>4. HeadFits'
      BY <1>3, <3>1 DEF ChannelInv, Jobbing, HeadFits
    <3> QED BY <1>3, <3>1, <3>2, <3>3, <3>4 DEF ChannelInv, Jobbing
  <2>2. TypeOK'
    BY <1>1, <1>3, <2>1 DEF ChannelInv, Jobbing, TypeOK
  <2>3. ActiveArmed'
    BY <1>3 DEF ChannelInv, ActiveArmed
  <2>4. ClosedIsKnown' /\ InStep'
    BY <1>1 DEF ClosedIsKnown, InStep
  <2> QED BY <2>1, <2>2, <2>3, <2>4 DEF ChannelInv
<1> QED BY <1>2, <1>3 DEF PortCloses

\* The head is written, or fails on a closed port.
LEMMA StartInv == ASSUME ChannelInv, Start PROVE ChannelInv'
<1>1. /\ step = "queued" /\ UNCHANGED <<open, activeCommand, timers, accepted, gaveUp>>
      /\ activeCommand = NoJob /\ timers = {} /\ chain # <<>>
  BY StepHasHead DEF Start, ChannelInv, ActiveArmed
<1>2. /\ Head(chain) \in Jobs /\ part \in Nat /\ owed \in Seq(Owed)
      /\ ~gaveUp => owed = <<>> /\ \A m \in Messages : AcceptedSoFar(m)
  <2>1. ~gaveUp => \A i \in 1 .. Len(owed) : FALSE
    BY <1>1 DEF ChannelInv, InStep, InSync
  <2>2. owed \in Seq(Owed)
    BY DEF ChannelInv, TypeOK
  <2>3. owed # <<>> => 1 \in 1 .. Len(owed)
    BY <2>2, OwedHead
  <2> QED BY <1>1, <2>1, <2>2, <2>3, HeadIsPending DEF ChannelInv, Jobbing, InStep
<1>3. CASE /\ open
           /\ step' = "writing"
           /\ owed' = Owing(owed, IF stage[Head(chain)] = "parts" THEN "prompt" ELSE "final")
           /\ UNCHANGED <<status, stage, chain, part>>
  <2> DEFINE kind == IF stage[Head(chain)] = "parts" THEN "prompt" ELSE "final"
  <2>1. /\ owed' \in Seq(Owed)
        /\ ~gaveUp => \/ owed' = <<>>
                      \/ owed' = <<[to |-> Head(chain), kind |-> kind, part |-> part + 1]>>
    BY <1>2, <1>3, OwingType
  <2>2. Jobbing'
    BY <1>1, <1>3 DEF ChannelInv, Jobbing, StagesFit, ChainAccounted, HeadFits, Steps
  <2>3. TypeOK'
    BY <1>1, <1>3, <2>1, <2>2 DEF ChannelInv, TypeOK, Steps
  <2>4. ActiveArmed' /\ ClosedIsKnown'
    BY <1>1, <1>3 DEF ActiveArmed, ClosedIsKnown
  <2>5. InStep'
    <3> SUFFICES ASSUME ~gaveUp PROVE InSync' /\ \A m \in Messages : AcceptedSoFar(m)'
      BY <1>1 DEF InStep
    <3>1. \A m \in Messages : AcceptedSoFar(m)'
      BY <1>1, <1>2, <1>3 DEF AcceptedSoFar
    <3>2. CASE owed' = <<>>
      BY <3>1, <3>2, NothingOwed
    <3>3. CASE owed' = <<[to |-> Head(chain), kind |-> kind, part |-> part + 1]>>
      <4>1. /\ Len(owed') = 1
            /\ owed'[1] = [to |-> Head(chain), kind |-> kind, part |-> part + 1]
        BY <3>3
      <4>2. \A i \in 1 .. Len(owed') : i = 1
        BY <4>1
      <4>3. /\ owed'[1].to = Head(chain') /\ owed'[1].part = part' + 1
            /\ owed'[1].kind = IF stage'[Head(chain')] = "parts" THEN "prompt" ELSE "final"
        BY <1>3, <4>1
      <4> QED BY <1>3, <3>1, <4>2, <4>3 DEF InSync
    <3> QED BY <2>1, <3>2, <3>3
  <2> QED BY <2>2, <2>3, <2>4, <2>5 DEF ChannelInv
<1>4. CASE ~open /\ Fails /\ status' = FailedStatus /\ UNCHANGED owed
  <2>1. Jobbing' /\ step' \in {"none", "queued"}
    BY <1>1, <1>4, FailsJobs DEF ChannelInv
  <2>2. /\ open' \in BOOLEAN /\ status' \in {"offline", "connecting", "online"}
        /\ owed' \in Seq(Owed) /\ accepted' \in [Messages -> SUBSET Nat]
        /\ gaveUp' \in BOOLEAN
    BY <1>1, <1>4, FailedStatusType DEF ChannelInv, TypeOK
  <2>3. InStep'
    <3> SUFFICES ASSUME ~gaveUp PROVE InSync' /\ \A m \in Messages : AcceptedSoFar(m)'
      BY <1>1 DEF InStep
    <3>1. \A m \in Messages : AcceptedSoFar(m)'
      BY <1>1, <1>2, <1>4, FailsSoFar DEF ChannelInv
    <3>2. owed' = <<>>
      BY <1>2, <1>4
    <3> QED BY <3>1, <3>2, NothingOwed
  <2> QED BY <1>1, <2>1, <2>2, <2>3, SettledInv
<1> QED BY <1>3, <1>4 DEF Start

\* The write calls back.
LEMMA WrittenInv == ASSUME ChannelInv, Written PROVE ChannelInv'
<1>1. /\ step = "writing" /\ UNCHANGED <<open, owed, accepted, gaveUp>>
      /\ activeCommand = NoJob /\ timers = {} /\ chain # <<>>
  BY StepHasHead DEF Written, ChannelInv, ActiveArmed
<1>2. Head(chain) \in Jobs /\ Head(chain) # NoJob
  BY <1>1, HeadIsPending, JobsAssumption DEF ChannelInv
<1>3. CASE stage[Head(chain)] # "parts" /\ Arm /\ UNCHANGED <<status, stage, chain, part>>
  <2>1. step' = "answer" /\ activeCommand' = Head(chain) /\ timers' = {Head(chain)}
    BY <1>1, <1>3 DEF Arm
  <2>2. Jobbing'
    BY <1>1, <1>3, <2>1 DEF ChannelInv, Jobbing, StagesFit, ChainAccounted, HeadFits, Steps
  <2>3. TypeOK'
    BY <1>1, <1>2, <1>3, <2>1, <2>2 DEF ChannelInv, TypeOK, Steps
  <2>4. ActiveArmed' /\ ClosedIsKnown'
    BY <1>1, <1>2, <1>3, <2>1 DEF ChannelInv, ActiveArmed, ClosedIsKnown
  <2>5. InStep'
    BY <1>1, <1>3, <2>1 DEF ChannelInv, InStep, InSync, AcceptedSoFar
  <2> QED BY <2>2, <2>3, <2>4, <2>5 DEF ChannelInv
<1>4. CASE /\ stage[Head(chain)] = "parts" /\ open
           /\ step' = "prompt"
           /\ UNCHANGED <<status, stage, chain, part, activeCommand, timers>>
  <2>1. Jobbing'
    BY <1>1, <1>4 DEF ChannelInv, Jobbing, StagesFit, ChainAccounted, HeadFits, Steps
  <2>2. TypeOK'
    BY <1>1, <1>4, <2>1 DEF ChannelInv, TypeOK, Steps
  <2>3. ActiveArmed' /\ ClosedIsKnown'
    BY <1>1, <1>4 DEF ActiveArmed, ClosedIsKnown
  <2>4. InStep'
    BY <1>1, <1>4 DEF ChannelInv, InStep, InSync, AcceptedSoFar
  <2> QED BY <2>1, <2>2, <2>3, <2>4 DEF ChannelInv
<1>5. CASE /\ stage[Head(chain)] = "parts" /\ ~open
           /\ Fails
           /\ UNCHANGED <<status, activeCommand, timers>>
  <2>1. gaveUp /\ gaveUp' = TRUE
    BY <1>1, <1>5 DEF ChannelInv, ClosedIsKnown, TypeOK
  <2>2. open' \in BOOLEAN /\ status' \in {"offline", "connecting", "online"}
    BY <1>1, <1>5 DEF ChannelInv, TypeOK
  <2> QED BY <1>1, <1>5, <2>1, <2>2, GiveUpInv
<1> QED BY <1>3, <1>4, <1>5 DEF Written

\* The write calls back with an error.
LEMMA WriteFailsInv == ASSUME ChannelInv, WriteFails PROVE ChannelInv'
<1>1. /\ chain # <<>> /\ Fails /\ gaveUp' = TRUE /\ UNCHANGED <<open, owed, accepted>>
      /\ status' = FailedStatus
  BY StepHasHead DEF WriteFails
<1>2. timers' = {} /\ activeCommand' = NoJob
  BY DEF WriteFails, ChannelInv, ActiveArmed, Disarm
<1>3. open' \in BOOLEAN
  BY <1>1 DEF ChannelInv, TypeOK
<1> QED BY <1>1, <1>2, <1>3, FailedStatusType, GiveUpInv

\* The timer of the active command fires.
LEMMA AnswerTimeoutInv == ASSUME ChannelInv, AnswerTimeout PROVE ChannelInv'
<1>1. /\ Fails /\ gaveUp' = TRUE /\ UNCHANGED <<open, owed, accepted>>
      /\ status' = FailedStatus /\ activeCommand' = NoJob
      /\ timers # {} /\ \E j \in timers : timers' = timers \ {j}
  BY DEF AnswerTimeout
<1>2. step = "answer" /\ timers' = {}
  BY <1>1 DEF ChannelInv, ActiveArmed
<1>3. chain # <<>> /\ open' \in BOOLEAN
  BY <1>1, <1>2, StepHasHead DEF ChannelInv, TypeOK
<1> QED BY <1>1, <1>2, <1>3, FailedStatusType, GiveUpInv

\* The timer of the prompt fires.
LEMMA PromptTimeoutInv == ASSUME ChannelInv, PromptTimeout PROVE ChannelInv'
<1>1. /\ Fails /\ gaveUp' = TRUE
      /\ UNCHANGED <<open, status, activeCommand, timers, owed, accepted>>
      /\ step \in {"prompt", "deaf"}
  BY DEF PromptTimeout
<1>2. activeCommand' = NoJob /\ timers' = {}
  BY <1>1 DEF ChannelInv, ActiveArmed
<1>3. /\ chain # <<>> /\ open' \in BOOLEAN
      /\ status' \in {"offline", "connecting", "online"}
  BY <1>1, StepHasHead DEF ChannelInv, TypeOK
<1> QED BY <1>1, <1>2, <1>3, GiveUpInv

----------------------------------------------------------------------------
(* Answers.                                                                *)

\* What the modem owes when no job was left before its answer: nothing else
\* than the answer to what the head has written last.
LEMMA OldestIsOwn ==
    ASSUME ChannelInv, owed # <<>>
    PROVE  /\ Head(owed) \in Owed /\ Tail(owed) \in Seq(Owed)
           /\ ~gaveUp =>
                /\ Tail(owed) = <<>>
                /\ step \in {"writing", "prompt", "answer"}
                /\ Head(owed).to = Head(chain)
                /\ Head(owed).part = part + 1
                /\ Head(owed).kind = IF stage[Head(chain)] # "parts" THEN "final"
                                     ELSE IF step = "answer" THEN "pdu" ELSE "prompt"
<1>1. owed \in Seq(Owed)
  BY DEF ChannelInv, TypeOK
<1>2. /\ Head(owed) \in Owed /\ Head(owed) = owed[1] /\ 1 \in 1 .. Len(owed)
      /\ Tail(owed) \in Seq(Owed)
      /\ (\A i \in 1 .. Len(owed) : i = 1) => Tail(owed) = <<>>
  BY <1>1, OwedHead
<1> QED BY <1>2 DEF ChannelInv, InStep, InSync

\* What an answer says.
LEMMA TextIs ==
    ASSUME NEW kind, NEW ok \in BOOLEAN
    PROVE  /\ TextOf(kind, ok) = "ERROR" <=> ~ok
           /\ TextOf(kind, ok) = ">" <=> ok /\ kind = "prompt"
           /\ TextOf(kind, ok) = "+CMGS" <=> ok /\ kind = "pdu"
BY DEF TextOf

\* The oldest answer is used up, and nobody is told.
LEMMA DroppedInv ==
    ASSUME ChannelInv, owed # <<>>, NEW ok \in BOOLEAN, Accept(Head(owed), ok),
           owed' = Tail(owed), UNCHANGED <<open, status, stage, chain, step, part>>,
           UNCHANGED <<activeCommand, timers, gaveUp>>
    PROVE  ChannelInv'
<1>1. /\ Tail(owed) \in Seq(Owed) /\ accepted' \in [Messages -> SUBSET Nat]
  BY OldestIsOwn, AcceptType DEF ChannelInv, TypeOK
<1>2. Jobbing'
  BY DEF ChannelInv, Jobbing, StagesFit, ChainAccounted, HeadFits
<1>3. TypeOK'
  BY <1>1 DEF ChannelInv, TypeOK
<1>4. ActiveArmed' /\ ClosedIsKnown'
  BY DEF ChannelInv, ActiveArmed, ClosedIsKnown
<1>5. InStep'
  <2> SUFFICES ASSUME ~gaveUp PROVE InSync' /\ \A m \in Messages : AcceptedSoFar(m)'
    BY DEF InStep
  <2>1. owed' = <<>>
    BY OldestIsOwn
  <2>2. InSync'
    BY <2>1, NothingOwed
  <2>3. ASSUME NEW m \in Messages PROVE AcceptedSoFar(m)'
    <3>1. AcceptedSoFar(m)
      BY DEF ChannelInv, InStep
    <3>2. CASE accepted'[m] = accepted[m]
      BY <2>1, <3>1, <3>2 DEF AcceptedSoFar
    <3>3. CASE m = Head(owed).to /\ ok /\ Head(owed).kind = "pdu"
      <4>1. /\ m = Head(chain) /\ stage[m] = "parts" /\ step = "answer"
            /\ Head(owed).part = part + 1
        BY <3>3, OldestIsOwn
      <4>2. accepted'[m] = accepted[m] \cup {part + 1}
        BY <3>3, <4>1, OldestIsOwn, AcceptType DEF ChannelInv, TypeOK
      <4>3. accepted[m] = 1 .. part /\ part \in Nat
        BY <3>1, <4>1 DEF AcceptedSoFar, ChannelInv, TypeOK
      <4>4. (1 .. part) \cup {part + 1} = 1 .. (part + 1)
        BY <4>3
      <4> QED BY <2>1, <4>1, <4>2, <4>3, <4>4 DEF AcceptedSoFar
    <3>4. accepted'[m] = accepted[m] \/ (m = Head(owed).to /\ ok /\ Head(owed).kind = "pdu")
      BY OldestIsOwn, AcceptType DEF ChannelInv, TypeOK
    <3> QED BY <3>2, <3>3, <3>4
  <2> QED BY <2>2, <2>3
<1> QED BY <1>2, <1>3, <1>4, <1>5 DEF ChannelInv

\* An answer is lost.
LEMMA AnswerLostInv == ASSUME ChannelInv, AnswerLost PROVE ChannelInv'
<1>1. PICK ok \in BOOLEAN : Accept(Head(owed), ok)
  BY DEF AnswerLost
<1> QED BY <1>1, DroppedInv DEF AnswerLost

\* What the prompt's listener makes of an answer.
LEMMA PromptTextInv ==
    ASSUME ChannelInv, open, owed # <<>>, NEW ok \in BOOLEAN, Accept(Head(owed), ok),
           step = "prompt", PromptText(TextOf(Head(owed).kind, ok)),
           UNCHANGED <<open, gaveUp>>
    PROVE  ChannelInv'
<1> DEFINE text == TextOf(Head(owed).kind, ok)
<1>1. /\ chain # <<>> /\ Head(chain) \in Jobs /\ Head(chain) # NoJob
      /\ part \in Nat /\ stage[Head(chain)] = "parts"
      /\ activeCommand = NoJob /\ timers = {}
  BY StepHasHead, HeadIsPending, JobsAssumption DEF ChannelInv, ActiveArmed, Jobbing, HeadFits
<1>2. /\ Tail(owed) \in Seq(Owed) /\ accepted' \in [Messages -> SUBSET Nat]
      /\ ~gaveUp => /\ Tail(owed) = <<>> /\ Head(owed).kind = "prompt"
                    /\ accepted' = accepted
                    /\ \A m \in Messages : AcceptedSoFar(m)
  <2>1. Head(owed) \in Owed /\ accepted \in [Messages -> SUBSET Nat]
    BY OldestIsOwn DEF ChannelInv, TypeOK
  <2>2. /\ accepted' \in [Messages -> SUBSET Nat]
        /\ Head(owed).kind # "pdu" => accepted' = accepted
    BY <2>1, AcceptType
  <2>3. /\ Tail(owed) \in Seq(Owed)
        /\ ~gaveUp => Tail(owed) = <<>> /\ Head(owed).kind = "prompt"
    BY <1>1, OldestIsOwn
  <2>4. ~gaveUp => \A m \in Messages : AcceptedSoFar(m)
    BY DEF ChannelInv, InStep
  <2> QED BY <2>2, <2>3, <2>4
<1>3. CASE /\ text = ">"
           /\ owed' = Owing(Tail(owed), "pdu")
           /\ Arm
           /\ UNCHANGED <<status, stage, chain, part>>
  <2>1. step' = "answer" /\ activeCommand' = Head(chain) /\ timers' = {Head(chain)}
    BY <1>1, <1>3 DEF Arm
  <2>2. /\ owed' \in Seq(Owed)
        /\ ~gaveUp => \/ owed' = <<>>
                      \/ owed' = <<[to |-> Head(chain), kind |-> "pdu", part |-> part + 1]>>
    BY <1>1, <1>2, <1>3, OwingType
  <2>3. Jobbing'
    BY <1>1, <1>3, <2>1 DEF ChannelInv, Jobbing, StagesFit, ChainAccounted, HeadFits, Steps
  <2>4. TypeOK'
    BY <1>1, <1>2, <1>3, <2>1, <2>2, <2>3 DEF ChannelInv, TypeOK, Steps
  <2>5. ActiveArmed' /\ ClosedIsKnown'
    BY <1>1, <1>3, <2>1 DEF ChannelInv, ActiveArmed, ClosedIsKnown
  <2>6. InStep'
    <3> SUFFICES ASSUME ~gaveUp PROVE InSync' /\ \A m \in Messages : AcceptedSoFar(m)'
      BY DEF InStep
    <3>1. \A m \in Messages : AcceptedSoFar(m)'
      BY <1>2, <1>3 DEF AcceptedSoFar
    <3>2. CASE owed' = <<>>
      BY <3>1, <3>2, NothingOwed
    <3>3. CASE owed' = <<[to |-> Head(chain), kind |-> "pdu", part |-> part + 1]>>
      <4>1. /\ Len(owed') = 1
            /\ owed'[1] = [to |-> Head(chain), kind |-> "pdu", part |-> part + 1]
        BY <3>3
      <4>2. \A i \in 1 .. Len(owed') : i = 1
        BY <4>1
      <4> QED BY <1>1, <1>3, <2>1, <3>1, <4>1, <4>2 DEF InSync
    <3> QED BY <2>2, <3>2, <3>3
  <2> QED BY <2>3, <2>4, <2>5, <2>6 DEF ChannelInv
<1>4. CASE /\ text = "ERROR"
           /\ Fails
           /\ owed' = Tail(owed)
           /\ UNCHANGED <<status, activeCommand, timers>>
  <2>1. Jobbing' /\ step' \in {"none", "queued"}
    BY <1>1, <1>4, FailsJobs DEF ChannelInv
  <2>2. /\ status' \in {"offline", "connecting", "online"}
        /\ open' \in BOOLEAN /\ gaveUp' \in BOOLEAN
    BY <1>4 DEF ChannelInv, TypeOK
  <2>3. InStep'
    <3> SUFFICES ASSUME ~gaveUp PROVE InSync' /\ \A m \in Messages : AcceptedSoFar(m)'
      BY DEF InStep
    <3>1. \A m \in Messages : AcceptedSoFar(m)'
      BY <1>1, <1>2, <1>4, FailsSoFar DEF ChannelInv
    <3> QED BY <1>2, <1>4, <3>1, NothingOwed
  <2> QED BY <1>1, <1>2, <1>4, <2>1, <2>2, <2>3, SettledInv
<1>5. CASE /\ text \notin {">", "ERROR"}
           /\ owed' = Tail(owed)
           /\ UNCHANGED <<status, stage, chain, step, part, activeCommand, timers>>
  BY <1>5, DroppedInv
<1> QED BY <1>3, <1>4, <1>5 DEF PromptText

\* A head that is settled by its answer: what the network has of it is what
\* AcceptedSoFar says of its new stage.
LEMMA SettledByAnswer ==
    ASSUME ChannelInv, chain # <<>>, Jobbing', step' \in {"none", "queued"}, part' = 0,
           activeCommand' = NoJob, timers' = {}, UNCHANGED <<open, gaveUp>>,
           NEW st, stage' = [stage EXCEPT ![Head(chain)] = st],
           status' \in {"offline", "connecting", "online"},
           owed # <<>>, owed' = Tail(owed), NEW ok \in BOOLEAN, Accept(Head(owed), ok),
           ~gaveUp /\ Head(chain) \in Messages =>
              \/ st = "failed"
              \/ st = "parts" /\ accepted'[Head(chain)] = {}
              \/ st = "sent" /\ accepted'[Head(chain)] = 1 .. Parts[Head(chain)]
    PROVE  ChannelInv'
<1>1. /\ open' \in BOOLEAN /\ gaveUp' \in BOOLEAN /\ Tail(owed) \in Seq(Owed)
      /\ accepted' \in [Messages -> SUBSET Nat]
  BY OldestIsOwn, AcceptType DEF ChannelInv, TypeOK
<1>2. InStep'
  <2> SUFFICES ASSUME ~gaveUp PROVE InSync' /\ \A m \in Messages : AcceptedSoFar(m)'
    BY DEF InStep
  <2>1. owed' = <<>> /\ Head(owed).to = Head(chain)
    BY OldestIsOwn
  <2>2. ASSUME NEW m \in Messages PROVE AcceptedSoFar(m)'
    <3>1. CASE m # Head(chain)
      <4>1. AcceptedSoFar(m) /\ accepted'[m] = accepted[m]
        BY <2>1, <3>1, OldestIsOwn, AcceptType DEF ChannelInv, InStep, TypeOK
      <4> QED BY <3>1, <4>1, OthersSoFar DEF ChannelInv
    <3>2. CASE m = Head(chain)
      <4>1. stage'[m] = st
        BY <3>2 DEF ChannelInv, Jobbing, Jobs
      <4>2. 1 .. 0 = {}
        OBVIOUS
      <4> QED BY <3>2, <4>1, <4>2 DEF AcceptedSoFar
    <3> QED BY <3>1, <3>2
  <2> QED BY <2>1, <2>2, NothingOwed
<1> QED BY <1>1, <1>2, SettledInv

\* What handleLine makes of an answer.
LEMMA AnswerTextInv ==
    ASSUME ChannelInv, open, owed # <<>>, NEW ok \in BOOLEAN, Accept(Head(owed), ok),
           activeCommand # NoJob, AnswerText(TextOf(Head(owed).kind, ok)),
           UNCHANGED <<open, gaveUp>>
    PROVE  ChannelInv'
<1> DEFINE text == TextOf(Head(owed).kind, ok)
<1>1. /\ step = "answer" /\ chain # <<>> /\ activeCommand = Head(chain)
      /\ timers = {Head(chain)} /\ owed' = Tail(owed)
  BY StepHasHead DEF ChannelInv, ActiveArmed, AnswerText
<1>2. /\ Head(chain) \in Jobs /\ stage[Head(chain)] \in Pending
      /\ stage[Head(chain)] = "command" => Head(chain) \notin Messages
      /\ stage[Head(chain)] \in {"creg", "parts"} => Head(chain) \in Messages
  BY <1>1, HeadIsPending DEF ChannelInv
<1>3. ~gaveUp => \A m \in Messages : AcceptedSoFar(m)
  BY DEF ChannelInv, InStep
<1>4. CASE text = ">"
  <2>1. UNCHANGED <<status, stage, chain, step, part, activeCommand, timers>>
    BY <1>4 DEF AnswerText
  <2> QED BY <1>1, <2>1, DroppedInv
<1>5. CASE text # ">"
  <2>1. /\ activeCommand' = NoJob /\ timers' = {}
        /\ status' \in {"offline", "connecting", "online"}
    BY <1>1, <1>5, FailedStatusType DEF AnswerText, Disarm, ChannelInv, TypeOK
  <2>2. CASE text = "ERROR" /\ Fails
    <3>1. PICK st \in {"idle", "failed", "parts"} :
            /\ stage' = [stage EXCEPT ![Head(chain)] = st]
            /\ st = "parts" => stage[Head(chain)] = "creg"
            /\ st = "idle" => Head(chain) \notin Messages
      BY <1>1, <2>2, FailsJobs DEF ChannelInv
    <3>2. Jobbing' /\ step' \in {"none", "queued"} /\ part' = 0
      BY <1>1, <2>2, FailsJobs DEF ChannelInv
    <3>3. accepted' = accepted
      BY <2>2, TextIs, OldestIsOwn, AcceptType DEF ChannelInv, TypeOK
    <3> QED BY <1>1, <1>2, <1>3, <2>1, <3>1, <3>2, <3>3, SettledByAnswer DEF AcceptedSoFar
  <2>3. CASE stage[Head(chain)] = "command" /\ Leave("idle")
    <3>1. /\ Jobbing' /\ step' \in {"none", "queued"} /\ part' = 0
          /\ stage' = [stage EXCEPT ![Head(chain)] = "idle"]
      BY <1>1, <1>2, <2>3, LeaveJobs DEF ChannelInv
    <3> QED BY <1>1, <1>2, <2>1, <2>3, <3>1, SettledByAnswer
  <2>4. CASE stage[Head(chain)] = "creg" /\ (SignalCheck \/ Leave("failed"))
    <3>1. /\ Jobbing' /\ step' \in {"none", "queued"} /\ part' = 0
          /\ \E st \in {"failed", "parts"} : stage' = [stage EXCEPT ![Head(chain)] = st]
      BY <1>1, <1>2, <2>4, LeaveJobs, SignalCheckJobs DEF ChannelInv
    <3>2. ~gaveUp => accepted' = accepted
      BY <2>4, OldestIsOwn, AcceptType DEF ChannelInv, TypeOK
    <3> QED BY <1>1, <1>2, <1>3, <2>1, <2>4, <3>1, <3>2, SettledByAnswer DEF AcceptedSoFar
  <2>5. CASE stage[Head(chain)] = "parts" /\ Leave("failed")
    <3>1. /\ Jobbing' /\ step' \in {"none", "queued"} /\ part' = 0
          /\ stage' = [stage EXCEPT ![Head(chain)] = "failed"]
      BY <1>1, <1>2, <2>5, LeaveJobs DEF ChannelInv
    <3> QED BY <1>1, <2>1, <3>1, SettledByAnswer
  <2>6. CASE stage[Head(chain)] = "parts" /\ PartAnswered(text)
    <3>1. /\ Head(chain) \in Messages /\ part \in Nat /\ part < Parts[Head(chain)]
          /\ Parts[Head(chain)] \in Nat \ {0}
      BY <1>1, <1>2, <2>6, PartsAssumption DEF ChannelInv, Jobbing, HeadFits
    <3>2. ~gaveUp => accepted'[Head(chain)] = 1 .. (part + 1)
      <4> SUFFICES ASSUME ~gaveUp PROVE accepted'[Head(chain)] = 1 .. (part + 1)
        OBVIOUS
      <4>1. accepted[Head(chain)] = 1 .. part
        BY <1>3, <2>6, <3>1 DEF AcceptedSoFar
      <4>2. accepted'[Head(chain)] = accepted[Head(chain)] \cup {part + 1}
        <5>1. ok /\ Head(owed).kind = "pdu"
          BY <2>6, TextIs DEF PartAnswered
        <5>2. Head(owed).to = Head(chain) /\ Head(owed).part = part + 1 /\ Head(owed) \in Owed
          BY OldestIsOwn
        <5> QED BY <3>1, <5>1, <5>2, AcceptType DEF ChannelInv, TypeOK
      <4>3. (1 .. part) \cup {part + 1} = 1 .. (part + 1)
        BY <3>1
      <4> QED BY <4>1, <4>2, <4>3
    <3>3. CASE /\ part + 1 < Parts[Head(chain)]
               /\ part' = part + 1 /\ step' = "queued" /\ UNCHANGED <<stage, chain>>
      <4>1. Jobbing'
        <5>1. step' # "none" /\ step # "none" /\ step' \in Steps /\ part' \in Nat
          BY <1>1, <3>1, <3>3 DEF Steps
        <5>2. HeadFits'
          BY <1>1, <3>3 DEF HeadFits
        <5>3. StagesFit' /\ ChainAccounted'
          BY <3>3, <5>1 DEF ChannelInv, Jobbing, StagesFit, ChainAccounted
        <5> QED BY <3>3, <5>1, <5>2, <5>3 DEF ChannelInv, Jobbing
      <4>2. /\ open' \in BOOLEAN /\ gaveUp' \in BOOLEAN /\ Tail(owed) \in Seq(Owed)
            /\ accepted' \in [Messages -> SUBSET Nat]
        BY OldestIsOwn, AcceptType DEF ChannelInv, TypeOK
      <4>3. InStep'
        <5> SUFFICES ASSUME ~gaveUp PROVE InSync' /\ \A m \in Messages : AcceptedSoFar(m)'
          BY DEF InStep
        <5>1. owed' = <<>> /\ Head(owed).to = Head(chain)
          BY <1>1, OldestIsOwn
        <5>2. ASSUME NEW m \in Messages PROVE AcceptedSoFar(m)'
          <6>1. m # Head(chain) => accepted'[m] = accepted[m]
            BY <5>1, OldestIsOwn, AcceptType DEF ChannelInv, TypeOK
          <6> QED BY <1>3, <2>6, <3>2, <3>3, <6>1 DEF AcceptedSoFar
        <5> QED BY <5>1, <5>2, NothingOwed
      <4> QED BY <1>1, <2>1, <3>3, <4>1, <4>2, <4>3, SettledInv
    <3>4. CASE ~(part + 1 < Parts[Head(chain)]) /\ Leave("sent")
      <4>1. /\ Jobbing' /\ step' \in {"none", "queued"} /\ part' = 0
            /\ stage' = [stage EXCEPT ![Head(chain)] = "sent"]
        BY <1>1, <3>1, <3>4, LeaveJobs DEF ChannelInv
      <4>2. part + 1 = Parts[Head(chain)]
        BY <3>1, <3>4
      <4> QED BY <1>1, <2>1, <3>2, <4>1, <4>2, SettledByAnswer
    <3> QED BY <2>6, <3>3, <3>4 DEF PartAnswered
  <2> QED BY <1>5, <2>2, <2>3, <2>4, <2>5, <2>6 DEF AnswerText
<1> QED BY <1>4, <1>5

\* The modem answers.
LEMMA AnswerInv == ASSUME ChannelInv, NEW ok \in BOOLEAN, Answer(ok) PROVE ChannelInv'
<1> DEFINE text == TextOf(Head(owed).kind, ok)
<1>1. open /\ owed # <<>> /\ Accept(Head(owed), ok) /\ UNCHANGED <<open, gaveUp>>
  BY DEF Answer
<1>2. CASE step = "prompt" /\ PromptText(text)
  BY <1>1, <1>2, PromptTextInv
<1>3. CASE activeCommand # NoJob /\ AnswerText(text)
  BY <1>1, <1>3, AnswerTextInv
<1>4. CASE /\ owed' = Tail(owed)
           /\ UNCHANGED <<status, stage, chain, step, part, activeCommand, timers>>
  BY <1>1, <1>4, DroppedInv
<1> QED BY <1>2, <1>3, <1>4 DEF Answer

----------------------------------------------------------------------------
(* The theorems.                                                           *)

LEMMA ChannelInit == ASSUME Init PROVE ChannelInv
<1>1. \A j \in Jobs : stage[j] = "idle"
  BY DEF Init
<1>2. ChainAccounted
  BY <1>1 DEF Init, ChainAccounted
<1>3. TypeOK
  <2>1. stage \in [Jobs -> Stages] /\ accepted \in [Messages -> SUBSET Nat]
    BY DEF Init, Stages
  <2>2. <<>> \in Seq(Jobs) /\ <<>> \in Seq(Owed)
    OBVIOUS
  <2> QED BY <2>1, <2>2 DEF Init, TypeOK, Steps
<1>4. Jobbing
  BY <1>1, <1>2, <1>3 DEF Init, TypeOK, Jobbing, StagesFit, HeadFits
<1>5. ActiveArmed /\ ClosedIsKnown
  BY DEF Init, ActiveArmed, ClosedIsKnown
<1>6. InStep
  <2>1. InSync
    BY DEF Init, InSync
  <2>2. \A m \in Messages : AcceptedSoFar(m)
    BY <1>1 DEF Init, AcceptedSoFar, Jobs
  <2> QED BY <2>1, <2>2 DEF InStep
<1> QED BY <1>3, <1>4, <1>5, <1>6 DEF ChannelInv

LEMMA ChannelNext == ASSUME ChannelInv, [Next]_vars PROVE ChannelInv'
<1>1. CASE Next
  BY <1>1, OpenInv, HealthTickInv, SendSmsInv, PortClosesInv, StartInv, WrittenInv,
     WriteFailsInv, AnswerTimeoutInv, PromptTimeoutInv, AnswerInv, AnswerLostInv DEF Next
<1>2. CASE UNCHANGED vars
  BY <1>2 DEF vars, ChannelInv, TypeOK, Jobbing, StagesFit, ChainAccounted, HeadFits,
              ActiveArmed, ClosedIsKnown, InStep, InSync, AcceptedSoFar
<1> QED BY <1>1, <1>2

\* The invariant from which the theorems follow.
THEOREM ChannelInvariant == Spec => []ChannelInv
BY ChannelInit, ChannelNext, PTL DEF Spec

\* Type correctness of the channel.
THEOREM ChannelTypeOK == Spec => []TypeOK
<1>1. ChannelInv => TypeOK
  BY DEF ChannelInv
<1> QED BY <1>1, ChannelInvariant, PTL

\* One command awaits its answer, under the only timer that is armed
\* (sendCommand, sendPduPart, handleLine, closePort).
THEOREM ChannelActiveArmed == Spec => []ActiveArmed
<1>1. ChannelInv => ActiveArmed
  BY DEF ChannelInv
<1> QED BY <1>1, ChannelInvariant, PTL

\* Until a job is left before its answer, every message that is answered with
\* a reference has had all of its parts accepted (sendSms, sendPduPart).
THEOREM ChannelSentIsAccepted == Spec => []SentIsAccepted
<1>1. ChannelInv => SentIsAccepted
  <2> SUFFICES ASSUME ChannelInv, ~gaveUp PROVE
        /\ InSync
        /\ \A m \in Messages :
             /\ stage[m] = "sent" => accepted[m] = 1 .. Parts[m]
             /\ stage[m] = "parts" =>
                  LET sent == IF m = Head(chain) THEN part ELSE 0 IN
                  accepted[m] \in {1 .. sent, 1 .. (sent + 1)}
    BY DEF SentIsAccepted
  <2>1. InSync /\ \A m \in Messages : AcceptedSoFar(m)
    BY DEF ChannelInv, InStep
  <2>2. 1 .. 0 = {}
    OBVIOUS
  <2> QED BY <2>1, <2>2 DEF AcceptedSoFar
<1> QED BY <1>1, ChannelInvariant, PTL


=============================================================================
