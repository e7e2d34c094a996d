--------------------------- MODULE SimInboxProofs ---------------------------
(***************************************************************************)
(* Proofs about the PDU codec and the memory of the SIM: packing and       *)
(* unpacking are inverse to each other, every part of every text fits into *)
(* an SMS, a text comes back from its parts, and a message all of whose    *)
(* parts were read is announced as it was written.                         *)
(*                                                                         *)
(* What is defined along a sequence (FlattenSeq, the escapes of            *)
(* SeptetsToText) is reasoned about by induction over positions: UpTo.     *)
(***************************************************************************)
EXTENDS SimInbox, SequenceTheorems, FiniteSetTheorems, WellFoundedInduction, TLAPS

----------------------------------------------------------------------------
(* Induction and recursion, for what is defined along a sequence.          *)

\* A set of naturals has a least one.
LEMMA NatMin ==
    ASSUME NEW S \in SUBSET Nat, S # {}
    PROVE  \E n \in S : \A k \in S : n <= k
<1> DEFINE T == {0 .. n : n \in S}
<1>1. T \subseteq FiniteSubsetsOf(Nat) /\ T # {}
  <2>1. ASSUME NEW n \in S PROVE 0 .. n \in FiniteSubsetsOf(Nat)
    BY FS_Interval DEF FiniteSubsetsOf
  <2> QED BY <2>1
<1>2. PICK x \in T : \A y \in T : ~(<<y, x>> \in StrictSubsetOrdering(Nat))
  <2> HIDE DEF T
  <2> QED BY <1>1, FS_StrictSubsetOrderingWellFounded, WFMin
<1>3. PICK n \in S : x = 0 .. n
  OBVIOUS
<1>4. ASSUME NEW k \in S PROVE n <= k
  <2> SUFFICES ASSUME k < n PROVE FALSE
    OBVIOUS
  <2>1. 0 .. k \in T /\ 0 .. k \subseteq 0 .. n /\ 0 .. k # 0 .. n
    <3>1. n \in 0 .. n /\ n \notin 0 .. k
      OBVIOUS
    <3> QED BY <3>1
  <2>2. <<0 .. k, 0 .. n>> \in StrictSubsetOrdering(Nat)
    BY <2>1, <1>3 DEF StrictSubsetOrdering
  <2> QED BY <2>1, <2>2, <1>2, <1>3
<1> QED BY <1>4

\* Induction up to a bound, for a property given as the set of what has it.
LEMMA UpTo ==
    ASSUME NEW n \in Nat, NEW T, 0 \in T, \A i \in 0 .. n - 1 : i \in T => i + 1 \in T
    PROVE  \A i \in 0 .. n : i \in T
<1> DEFINE S == (0 .. n) \ T
<1> SUFFICES ASSUME S # {} PROVE FALSE
  OBVIOUS
<1>1. PICK k \in S : \A j \in S : k <= j
  <2>1. S \in SUBSET Nat
    OBVIOUS
  <2> HIDE DEF S
  <2> QED BY <2>1, NatMin
<1>2. k # 0 /\ k \in 0 .. n /\ k \notin T
  OBVIOUS
<1>3. k - 1 \in 0 .. n - 1 /\ (k - 1) + 1 = k /\ ~(k <= k - 1)
  BY <1>2
<1>4. k - 1 \in T
  BY <1>1, <1>3
<1> QED BY <1>2, <1>3, <1>4

\* A value for every position from the value at the one before.
StepsIn(step, n, V) == \A i \in 1 .. n : \A v \in V : step[i][v] \in V

Iterated(f, start, step, n) == f[0] = start /\ \A i \in 1 .. n : f[i] = step[i][f[i - 1]]

\* A function that is defined from its value one below exists.
LEMMA Iterates ==
    ASSUME NEW V, NEW start \in V, NEW n \in Nat, NEW step, StepsIn(step, n, V)
    PROVE  \E f \in [0 .. n -> V] : Iterated(f, start, step, n)
<1> DEFINE Is(f, k) == f[0] = start /\ \A i \in 1 .. k : f[i] = step[i][f[i - 1]]
           T == {k \in 0 .. n : \E f \in [0 .. k -> V] : Is(f, k)}
<1>1. 0 \in T
  <2>1. [j \in 0 .. 0 |-> start] \in [0 .. 0 -> V] /\ Is([j \in 0 .. 0 |-> start], 0)
    OBVIOUS
  <2>2. 0 \in 0 .. n
    OBVIOUS
  <2> HIDE DEF Is
  <2> QED BY <2>1, <2>2
<1>2. ASSUME NEW k \in 0 .. n - 1, k \in T PROVE k + 1 \in T
  <2>1. PICK f \in [0 .. k -> V] : Is(f, k)
    BY <1>2
  <2> DEFINE x == step[k + 1][f[k]]
             g == [j \in 0 .. k + 1 |-> IF j <= k THEN f[j] ELSE x]
  <2>2. k \in Nat /\ k + 1 \in 1 .. n /\ f[k] \in V
    OBVIOUS
  <2>3. x \in V
    BY <2>2 DEF StepsIn
  <2>4. g \in [0 .. k + 1 -> V]
    BY <2>2, <2>3
  <2>5. \A i \in 1 .. k : g[i] = f[i] /\ g[i - 1] = f[i - 1] /\ i \in 1 .. k + 1
    BY <2>2
  <2>6. g[0] = f[0] /\ g[k + 1] = x /\ g[(k + 1) - 1] = f[k]
    BY <2>2
  <2>7. \A i \in 1 .. k + 1 : i \in 1 .. k \/ i = k + 1
    BY <2>2
  <2>8. Is(g, k + 1)
    <3> HIDE DEF g
    <3> QED BY <2>1, <2>5, <2>6, <2>7
  <2> HIDE DEF Is, g
  <2> QED BY <2>2, <2>4, <2>8
<1>3. n \in T
  <2> HIDE DEF T
  <2>1. \A i \in 0 .. n : i \in T
    BY <1>1, <1>2, UpTo
  <2>2. n \in 0 .. n
    OBVIOUS
  <2> QED BY <2>1, <2>2
<1> QED BY <1>3 DEF Iterated

\* How FlattenSeq grows along the pieces.
Flattens(F, seqs) ==
    /\ F[0] = <<>>
    /\ \A i \in 1 .. Len(seqs) : F[i] = F[i - 1] \o seqs[i]

\* What FlattenSeq makes grows by one piece at a time.
LEMMA FlattenIs ==
    ASSUME NEW S, NEW seqs \in Seq(Seq(S))
    PROVE  \E F \in [0 .. Len(seqs) -> Seq(S)] :
              Flattens(F, seqs) /\ FlattenSeq(seqs) = F[Len(seqs)]
<1> DEFINE n == Len(seqs)
           Is(G) == G = [i \in 1 .. n |-> IF i = 1 THEN seqs[i] ELSE G[i - 1] \o seqs[i]]
           H == CHOOSE G : Is(G)
           step == [i \in 1 .. n |-> [s \in Seq(S) |-> s \o seqs[i]]]
<1>1. n \in Nat /\ \A i \in 1 .. n : seqs[i] \in Seq(S)
  OBVIOUS
<1>2. PICK f \in [0 .. n -> Seq(S)] : Iterated(f, <<>>, step, n)
  <2>1. ASSUME NEW i \in 1 .. n, NEW s \in Seq(S) PROVE step[i][s] \in Seq(S)
    <3>1. step[i][s] = s \o seqs[i]
      OBVIOUS
    <3> HIDE DEF step, n
    <3> QED BY <1>1, <3>1, ConcatProperties
  <2>2. <<>> \in Seq(S)
    OBVIOUS
  <2> HIDE DEF step, n
  <2>3. StepsIn(step, n, Seq(S))
    BY <2>1 DEF StepsIn
  <2> QED BY <1>1, <2>2, <2>3, Iterates
<1>3. f[0] = <<>> /\ \A i \in 1 .. n : f[i] = step[i][f[i - 1]]
  BY <1>2 DEF Iterated
<1>4. ASSUME NEW i \in 1 .. n
      PROVE  f[i] = f[i - 1] \o seqs[i] /\ f[i - 1] \in Seq(S) /\ i - 1 \in 0 .. n
  <2>1. i - 1 \in 0 .. n /\ f[i - 1] \in Seq(S)
    <3>1. i - 1 \in 0 .. n
      BY <1>1
    <3> HIDE DEF step, n
    <3> QED BY <1>3, <3>1
  <2>2. step[i][f[i - 1]] = f[i - 1] \o seqs[i]
    BY <2>1
  <2> HIDE DEF step
  <2> QED BY <1>3, <2>1, <2>2
<1> DEFINE G0 == [i \in 1 .. n |-> f[i]]
<1>5. Is(G0)
  <2>1. ASSUME NEW i \in 1 .. n
        PROVE  f[i] = IF i = 1 THEN seqs[i] ELSE G0[i - 1] \o seqs[i]
    <3>1. CASE i = 1
      <4>1. f[i] = <<>> \o seqs[i]
        <5>1. f[1 - 1] = <<>>
          BY <1>3
        <5> HIDE DEF step, G0, n
        <5> QED BY <1>4, <3>1, <5>1
      <4> QED BY <1>1, <3>1, <4>1, ConcatEmptySeq
    <3>2. CASE i # 1
      <4>1. i - 1 \in 1 .. n
        BY <1>1, <3>2
      <4> QED BY <1>4, <3>2, <4>1
    <3> QED BY <3>1, <3>2
  <2> HIDE DEF n
  <2> QED BY <2>1
<1>6. Is(H)
  <2> HIDE DEF Is, G0
  <2> QED BY <1>5
<1> DEFINE F == [i \in 0 .. n |-> IF i = 0 THEN <<>> ELSE H[i]]
<1> HIDE DEF H
<1>7. \A i \in 1 .. n : H[i] = IF i = 1 THEN seqs[i] ELSE H[i - 1] \o seqs[i]
  <2> HIDE DEF n
  <2> QED BY <1>6
<1>8. ASSUME NEW i \in 1 .. n PROVE F[i] = F[i - 1] \o seqs[i]
  <2>1. F[i] = H[i] /\ F[i - 1] = IF i = 1 THEN <<>> ELSE H[i - 1]
    BY <1>1
  <2>2. <<>> \o seqs[i] = seqs[i]
    BY <1>1, ConcatEmptySeq
  <2> HIDE DEF F
  <2> QED BY <1>7, <2>1, <2>2
<1>9. F[0] = <<>> /\ DOMAIN F = 0 .. n
  BY <1>1
<1>10. F \in [0 .. n -> Seq(S)]
  <2> DEFINE T == {i \in 0 .. n : F[i] \in Seq(S)}
  <2>1. 0 \in T
    BY <1>1, <1>9
  <2>2. ASSUME NEW i \in 0 .. n - 1, i \in T PROVE i + 1 \in T
    <3>1. i + 1 \in 1 .. n /\ (i + 1) - 1 = i
      BY <1>1
    <3>2. F[i + 1] = F[i] \o seqs[i + 1] /\ F[i] \in Seq(S) /\ seqs[i + 1] \in Seq(S)
      <4> HIDE DEF F
      <4> QED BY <1>1, <1>8, <2>2, <3>1
    <3>3. F[i + 1] \in Seq(S)
      <4> HIDE DEF F, n
      <4> QED BY <3>2, ConcatProperties
    <3> QED BY <3>1, <3>3
  <2>3. \A i \in 0 .. n : i \in T
    <3> HIDE DEF T
    <3> QED BY <1>1, <2>1, <2>2, UpTo
  <2>4. F = [i \in 0 .. n |-> F[i]]
    OBVIOUS
  <2> HIDE DEF F
  <2> QED BY <2>3, <2>4
<1>11. FlattenSeq(seqs) = F[n]
  <2>1. CASE n = 0
    <3>1. FlattenSeq(seqs) = seqs
      BY <2>1 DEF FlattenSeq
    <3>2. seqs = <<>>
      BY <2>1
    <3> QED BY <1>9, <2>1, <3>1, <3>2
  <2>2. CASE n # 0
    <3>1. FlattenSeq(seqs) = H[n]
      BY <2>2 DEF FlattenSeq, H
    <3>2. F[n] = H[n]
      BY <1>1, <2>2
    <3> QED BY <3>1, <3>2
  <2> QED BY <2>1, <2>2
<1> HIDE DEF F, n
<1>12. Flattens(F, seqs)
  BY <1>8, <1>9 DEF Flattens, n
<1> QED BY <1>10, <1>11, <1>12 DEF n

Binary == 0 .. 1

\* Code points that two octets hold.
CodeUnits == {c \in Nat : c < 65536}

----------------------------------------------------------------------------
(* Bits, septets and octets.                                               *)

\* A septet's bits make it up.
LEMMA SeptetOfBits ==
    ASSUME NEW x \in Septets
    PROVE  Septet([k \in 0 .. 6 |-> Bit(x, k)]) = x
<1> DEFINE q0 == x \div 2  q1 == x \div 4  q2 == x \div 8  q3 == x \div 16
           q4 == x \div 32  q5 == x \div 64
<1>1. x \in 0 .. 127
  BY DEF Septets
<1>2. /\ x = 2 * q0 + (x % 2)
      /\ q0 = 2 * q1 + (q0 % 2)
      /\ q1 = 2 * q2 + (q1 % 2)
      /\ q2 = 2 * q3 + (q2 % 2)
      /\ q3 = 2 * q4 + (q3 % 2)
      /\ q4 = 2 * q5 + (q4 % 2)
      /\ q5 \in 0 .. 1
  BY <1>1
<1>3. q5 % 2 = q5
  BY <1>2
<1>4. Septet([k \in 0 .. 6 |-> Bit(x, k)])
        = (x % 2) + 2 * (q0 % 2) + 4 * (q1 % 2) + 8 * (q2 % 2) + 16 * (q3 % 2)
          + 32 * (q4 % 2) + 64 * (q5 % 2)
  BY DEF Septet, Bit
<1> HIDE DEF q0, q1, q2, q3, q4, q5
<1>5. q0 \in Int /\ q1 \in Int /\ q2 \in Int /\ q3 \in Int /\ q4 \in Int
      /\ x % 2 \in Int /\ q0 % 2 \in Int /\ q1 % 2 \in Int /\ q2 % 2 \in Int
      /\ q3 % 2 \in Int /\ q4 % 2 \in Int
  BY <1>1 DEF q0, q1, q2, q3, q4
<1> QED BY <1>1, <1>2, <1>3, <1>4, <1>5

\* Bits are zeros and ones.
LEMMA BitType ==
    ASSUME NEW x \in Int, NEW k \in 0 .. 7
    PROVE  Bit(x, k) \in Binary
BY DEF Bit, Binary

\* An octet's bits are the ones it was made of.
LEMMA BitOfOctet ==
    ASSUME NEW b \in [0 .. 7 -> Binary]
    PROVE  /\ Octet(b) \in Octets
           /\ \A k \in 0 .. 7 : Bit(Octet(b), k) = b[k]
<1>1. /\ b[0] \in 0 .. 1 /\ b[1] \in 0 .. 1 /\ b[2] \in 0 .. 1 /\ b[3] \in 0 .. 1
      /\ b[4] \in 0 .. 1 /\ b[5] \in 0 .. 1 /\ b[6] \in 0 .. 1 /\ b[7] \in 0 .. 1
  BY DEF Binary
<1>2. Octet(b) = b[0] + 2 * b[1] + 4 * b[2] + 8 * b[3] + 16 * b[4] + 32 * b[5] + 64 * b[6] + 128 * b[7]
  BY <1>1 DEF Octet, Septet
<1>3. Octet(b) \in Octets
  BY <1>1, <1>2 DEF Octets
<1>4. /\ Octet(b) % 2 = b[0]
      /\ (Octet(b) \div 2) % 2 = b[1]
      /\ (Octet(b) \div 4) % 2 = b[2]
      /\ (Octet(b) \div 8) % 2 = b[3]
      /\ (Octet(b) \div 16) % 2 = b[4]
      /\ (Octet(b) \div 32) % 2 = b[5]
      /\ (Octet(b) \div 64) % 2 = b[6]
      /\ (Octet(b) \div 128) % 2 = b[7]
  BY <1>1, <1>2
<1>5. \A k \in 0 .. 7 : k \in {0, 1, 2, 3, 4, 5, 6, 7}
  OBVIOUS
<1> QED BY <1>3, <1>4, <1>5 DEF Bit

----------------------------------------------------------------------------
(* Packing.                                                                *)

\* The text starts at the first septet boundary behind the header.
LEMMA TextStartIs ==
    ASSUME NEW header \in Seq(Octets)
    PROVE  /\ OctetsToSeptetCount(Len(header)) \in Nat
           /\ TextStart(header) = 7 * OctetsToSeptetCount(Len(header))
           /\ 8 * Len(header) <= TextStart(header)
<1>1. Len(header) \in Nat
  OBVIOUS
<1> DEFINE n == Len(header)
<1>2. CASE n = 0
  BY <1>2 DEF TextStart, OctetsToSeptetCount
<1>3. CASE n # 0
  <2>1. TextStart(header) = 8 * n + ((7 - ((8 * n) % 7)) % 7)
    <3>1. 8 * Len(header) # 0
      BY <1>1, <1>3
    <3>2. TextStart(header) = 8 * Len(header)
            + (IF 8 * Len(header) = 0 THEN 0 ELSE (7 - ((8 * Len(header)) % 7)) % 7)
      BY DEF TextStart
    <3> QED BY <3>1, <3>2
  <2>2. OctetsToSeptetCount(n) = (n * 8 + 6) \div 7
    BY DEF OctetsToSeptetCount
  <2> HIDE DEF n
  <2>3. n \in Nat
    BY <1>1 DEF n
  <2>4. /\ (n * 8 + 6) \div 7 \in Nat
        /\ 8 * n + ((7 - ((8 * n) % 7)) % 7) = 7 * ((n * 8 + 6) \div 7)
        /\ 8 * n <= 8 * n + ((7 - ((8 * n) % 7)) % 7)
    BY <2>3
  <2> QED BY <2>1, <2>2, <2>4 DEF n
<1> QED BY <1>2, <1>3

\* What is written are bits.
LEMMA WrittenType ==
    ASSUME NEW header \in Seq(Octets), NEW codes \in Seq(Septets), NEW i \in Nat
    PROVE  Written(header, codes, i) \in Binary
<1> DEFINE start == TextStart(header)
<1>1. start \in Nat /\ Len(header) \in Nat /\ Len(codes) \in Nat
  BY TextStartIs
<1>2. CASE i < 8 * Len(header)
  <2>1. (i \div 8) + 1 \in 1 .. Len(header) /\ i % 8 \in 0 .. 7
    BY <1>1, <1>2
  <2>2. header[(i \div 8) + 1] \in Int
    <3>1. header[(i \div 8) + 1] \in Octets
      BY <2>1, ElementOfSeq
    <3>2. \A x \in Octets : x \in Int
      BY DEF Octets
    <3> QED BY <3>1, <3>2
  <2> QED BY <1>2, <2>1, <2>2, BitType DEF Written
<1>3. CASE ~(i < 8 * Len(header)) /\ start <= i /\ i < start + 7 * Len(codes)
  <2> DEFINE d == i - start
  <2>1. d \in Nat /\ d < 7 * Len(codes)
    BY <1>1, <1>3
  <2>2. Written(header, codes, i) = Bit(codes[(d \div 7) + 1], d % 7)
    BY <1>3 DEF Written
  <2> HIDE DEF d
  <2>3. (d \div 7) + 1 \in 1 .. Len(codes) /\ d % 7 \in 0 .. 7
    BY <1>1, <2>1
  <2>4. codes[(d \div 7) + 1] \in Int
    <3>1. codes[(d \div 7) + 1] \in Septets
      BY <2>3, ElementOfSeq
    <3>2. \A x \in Septets : x \in Int
      BY DEF Septets
    <3> QED BY <3>1, <3>2
  <2> QED BY <2>2, <2>3, <2>4, BitType
<1>4. CASE ~(i < 8 * Len(header)) /\ ~(start <= i /\ i < start + 7 * Len(codes))
  BY <1>4 DEF Written, Binary
<1> QED BY <1>2, <1>3, <1>4

\* Where the bits of a septet are written.
LEMMA WrittenText ==
    ASSUME NEW header \in Seq(Octets), NEW codes \in Seq(Septets),
           NEW j \in 1 .. Len(codes), NEW k \in 0 .. 6
    PROVE  Written(header, codes, TextStart(header) + 7 * (j - 1) + k) = Bit(codes[j], k)
<1> DEFINE start == TextStart(header)
           i == start + 7 * (j - 1) + k
           d == 7 * (j - 1) + k
<1>1. start \in Nat /\ 8 * Len(header) <= start /\ Len(codes) \in Nat /\ Len(header) \in Nat
  BY TextStartIs
<1>2. /\ ~(i < 8 * Len(header)) /\ start <= i /\ i < start + 7 * Len(codes)
      /\ i - start = d
  BY <1>1
<1>3. d \div 7 = j - 1 /\ d % 7 = k
  BY <1>1
<1>4. (j - 1) + 1 = j
  OBVIOUS
<1> HIDE DEF start, i, d
<1>5. Written(header, codes, i) = Bit(codes[((i - start) \div 7) + 1], (i - start) % 7)
  BY <1>2 DEF Written, start
<1> QED BY <1>2, <1>3, <1>4, <1>5 DEF i, start

\* The packed octets.
LEMMA PackType ==
    ASSUME NEW header \in Seq(Octets), NEW codes \in Seq(Septets)
    PROVE  LET packed == PackSeptetsWithHeader(header, codes)
               bits   == TextStart(header) + 7 * Len(codes)
           IN /\ packed \in Seq(Octets)
              /\ Len(packed) = (bits + 7) \div 8
              /\ bits \in Nat
              /\ \A i \in 0 .. bits - 1 :
                    /\ (i \div 8) + 1 \in 1 .. Len(packed)
                    /\ Bit(packed[(i \div 8) + 1], i % 8) = Written(header, codes, i)
<1> DEFINE packed == PackSeptetsWithHeader(header, codes)
           bits == TextStart(header) + 7 * Len(codes)
           b(j) == [k \in 0 .. 7 |-> Written(header, codes, 8 * (j - 1) + k)]
<1>1. bits \in Nat
  <2>1. TextStart(header) \in Nat /\ Len(codes) \in Nat
    BY TextStartIs
  <2> QED BY <2>1
<1>2. /\ PackedLength(header, codes) = (bits + 7) \div 8
      /\ PackedLength(header, codes) \in Nat
  BY <1>1 DEF PackedLength
<1>3. ASSUME NEW j \in 1 .. PackedLength(header, codes)
      PROVE  /\ packed[j] = Octet(b(j))
             /\ packed[j] \in Octets
             /\ \A k \in 0 .. 7 : Bit(packed[j], k) = Written(header, codes, 8 * (j - 1) + k)
  <2>1. \A k \in 0 .. 7 : 8 * (j - 1) + k \in Nat
    BY <1>2
  <2>2. b(j) \in [0 .. 7 -> Binary]
    BY <2>1, WrittenType
  <2>3. packed[j] = Octet(b(j))
    BY DEF PackSeptetsWithHeader
  <2>4. \A k \in 0 .. 7 : b(j)[k] = Written(header, codes, 8 * (j - 1) + k)
    OBVIOUS
  <2> HIDE DEF b, packed
  <2> QED BY <2>2, <2>3, <2>4, BitOfOctet
<1>4. /\ packed \in Seq(Octets)
      /\ Len(packed) = PackedLength(header, codes)
  <2>1. packed \in [1 .. PackedLength(header, codes) -> Octets]
    BY <1>3 DEF PackSeptetsWithHeader
  <2> HIDE DEF packed
  <2>2. packed \in Seq(Octets)
    BY <1>2, <2>1, SeqDef
  <2>3. DOMAIN packed = 1 .. PackedLength(header, codes)
    BY <2>1
  <2> QED BY <1>2, <2>2, <2>3, LenProperties
<1>5. ASSUME NEW i \in 0 .. bits - 1
      PROVE  /\ (i \div 8) + 1 \in 1 .. Len(packed)
             /\ Bit(packed[(i \div 8) + 1], i % 8) = Written(header, codes, i)
  <2> HIDE DEF bits, packed
  <2>1. /\ (i \div 8) + 1 \in 1 .. ((bits + 7) \div 8) /\ i % 8 \in 0 .. 7
        /\ 8 * (((i \div 8) + 1) - 1) + (i % 8) = i
    BY <1>1
  <2> QED BY <1>2, <1>3, <1>4, <2>1
<1> QED BY <1>1, <1>2, <1>4, <1>5

----------------------------------------------------------------------------
(* Reading back.                                                           *)

\* The receiver finds the septets behind the header as they were.
THEOREM SeptetsReadBack ==
    ASSUME NEW header \in Seq(Octets), NEW codes \in Seq(Septets)
    PROVE  LET first == OctetsToSeptetCount(Len(header))
               back  == UnpackSeptets(PackSeptetsWithHeader(header, codes), first + Len(codes))
           IN SubSeq(back, first + 1, Len(back)) = codes
<1> DEFINE first  == OctetsToSeptetCount(Len(header))
           packed == PackSeptetsWithHeader(header, codes)
           bits   == TextStart(header) + 7 * Len(codes)
           count  == first + Len(codes)
           back   == UnpackSeptets(packed, count)
           text   == SubSeq(back, first + 1, Len(back))
           at(i)  == Septet([k \in 0 .. 6 |->
                       Bit(packed[((7 * (i - 1) + k) \div 8) + 1], (7 * (i - 1) + k) % 8)])
<1>1. first \in Nat /\ TextStart(header) = 7 * first /\ Len(codes) \in Nat
  BY TextStartIs
<1>2. /\ packed \in Seq(Octets) /\ Len(packed) \in Nat
      /\ Len(packed) = (bits + 7) \div 8
      /\ \A i \in 0 .. bits - 1 :
            Bit(packed[(i \div 8) + 1], i % 8) = Written(header, codes, i)
  <2> HIDE DEF packed, bits
  <2>1. /\ packed \in Seq(Octets)
        /\ Len(packed) = (bits + 7) \div 8
        /\ \A i \in 0 .. bits - 1 :
              /\ (i \div 8) + 1 \in 1 .. Len(packed)
              /\ Bit(packed[(i \div 8) + 1], i % 8) = Written(header, codes, i)
    BY PackType, Zenon DEF packed, bits
  <2>2. Len(packed) \in Nat
    BY <2>1, LenProperties
  <2> QED BY <2>1, <2>2
<1>3. bits = 7 * count /\ count \in Nat
  BY <1>1
<1>4. back = [i \in 1 .. count |-> at(i)]
  <2>1. ~((8 * Len(packed)) \div 7 < count) /\ (count < (8 * Len(packed)) \div 7 \/ count = (8 * Len(packed)) \div 7)
    <3> HIDE DEF bits, count, packed
    <3>1. 8 * ((7 * count + 7) \div 8) >= 7 * count
      BY <1>3
    <3>2. Len(packed) = (7 * count + 7) \div 8
      BY <1>2, <1>3
    <3>3. (8 * Len(packed)) \div 7 >= count /\ (8 * Len(packed)) \div 7 \in Nat
      BY <1>2, <1>3, <3>1, <3>2
    <3> QED BY <1>3, <3>3
  <2> HIDE DEF count, packed
  <2> QED BY <2>1 DEF UnpackSeptets
<1>5. ASSUME NEW j \in 1 .. Len(codes)
      PROVE  /\ at(first + j) = codes[j]
  <2>1. \A k \in 0 .. 6 :
          Bit(packed[((7 * ((first + j) - 1) + k) \div 8) + 1], (7 * ((first + j) - 1) + k) % 8)
            = Bit(codes[j], k)
    <3> SUFFICES ASSUME NEW k \in 0 .. 6
                 PROVE  Bit(packed[((7 * ((first + j) - 1) + k) \div 8) + 1],
                            (7 * ((first + j) - 1) + k) % 8) = Bit(codes[j], k)
      OBVIOUS
    <3> DEFINE i == 7 * ((first + j) - 1) + k
    <3>1. i \in 0 .. bits - 1 /\ i = TextStart(header) + 7 * (j - 1) + k
      BY <1>1
    <3> HIDE DEF i, packed, bits
    <3>2. Bit(packed[(i \div 8) + 1], i % 8) = Written(header, codes, i)
      BY <1>2, <3>1
    <3>3. Written(header, codes, i) = Bit(codes[j], k)
      BY <3>1, WrittenText
    <3> QED BY <3>2, <3>3 DEF i
  <2>2. at(first + j) = Septet([k \in 0 .. 6 |-> Bit(codes[j], k)])
    BY <2>1
  <2>3. codes[j] \in Septets
    BY ElementOfSeq
  <2> HIDE DEF at
  <2> QED BY <2>2, <2>3, SeptetOfBits
<1> HIDE DEF at, packed, first
<1>6. Len(back) = count
  BY <1>3, <1>4
<1>7. \A j \in 1 .. Len(codes) : back[first + j] = codes[j]
  BY <1>1, <1>3, <1>4, <1>5
<1>8. /\ text \in Seq(Septets)
      /\ Len(text) = Len(codes)
      /\ \A j \in 1 .. Len(codes) : text[j] = back[first + j]
  <2>1. \A i \in first + 1 .. Len(back) : back[i] \in Septets
    <3> SUFFICES ASSUME NEW i \in first + 1 .. Len(back) PROVE back[i] \in Septets
      OBVIOUS
    <3>1. i - first \in 1 .. Len(codes) /\ first + (i - first) = i
      BY <1>1, <1>6
    <3>2. codes[i - first] \in Septets
      BY <3>1, ElementOfSeq
    <3> QED BY <1>7, <3>1, <3>2
  <2>2. first + 1 \in Int /\ Len(back) \in Int
    BY <1>1, <1>6
  <2> HIDE DEF back
  <2>3. /\ text \in Seq(Septets)
        /\ Len(text) = IF first + 1 <= Len(back) THEN Len(back) - (first + 1) + 1 ELSE 0
        /\ \A j \in 1 .. Len(back) - (first + 1) + 1 : text[j] = back[(first + 1) + j - 1]
    BY <2>1, <2>2, SubSeqProperties
  <2>4. /\ Len(back) - (first + 1) + 1 = Len(codes)
        /\ \A j \in 1 .. Len(codes) : (first + 1) + j - 1 = first + j
        /\ (IF first + 1 <= Len(back) THEN Len(back) - (first + 1) + 1 ELSE 0) = Len(codes)
    BY <1>1, <1>6
  <2> QED BY <2>3, <2>4
<1>9. text = codes
  BY <1>7, <1>8, SeqEqual
<1> QED BY <1>9 DEF first, packed

\* UCS2 takes two octets a code point.
LEMMA Ucs2Type ==
    ASSUME NEW text \in Seq(Nat)
    PROVE  /\ EncodeUcs2(text) \in Seq(Octets)
           /\ Len(EncodeUcs2(text)) = 2 * Len(text)
           /\ \A j \in 1 .. 2 * Len(text) :
                EncodeUcs2(text)[j] = IF j % 2 = 1 THEN (text[(j + 1) \div 2] \div 256) % 256
                                                   ELSE text[(j + 1) \div 2] % 256
<1> DEFINE bytes == EncodeUcs2(text)
<1>1. Len(text) \in Nat
  OBVIOUS
<1>2. ASSUME NEW j \in 1 .. 2 * Len(text)
      PROVE  /\ bytes[j] = IF j % 2 = 1 THEN (text[(j + 1) \div 2] \div 256) % 256
                                        ELSE text[(j + 1) \div 2] % 256
             /\ bytes[j] \in Octets
  <2>1. (j + 1) \div 2 \in 1 .. Len(text)
    BY <1>1
  <2>2. text[(j + 1) \div 2] \in Nat
    BY <2>1, ElementOfSeq
  <2>3. bytes[j] = IF j % 2 = 1 THEN (text[(j + 1) \div 2] \div 256) % 256
                                ELSE text[(j + 1) \div 2] % 256
    BY DEF EncodeUcs2
  <2>4. \A c \in Nat : (c \div 256) % 256 \in Octets /\ c % 256 \in Octets
    BY DEF Octets
  <2> HIDE DEF bytes
  <2> QED BY <2>2, <2>3, <2>4
<1>3. bytes \in [1 .. 2 * Len(text) -> Octets]
  BY <1>2 DEF EncodeUcs2
<1> HIDE DEF bytes
<1>4. bytes \in Seq(Octets)
  BY <1>1, <1>3, SeqDef
<1>5. DOMAIN bytes = 1 .. 2 * Len(text)
  BY <1>3
<1>6. Len(bytes) = 2 * Len(text)
  BY <1>1, <1>4, <1>5, LenProperties
<1> QED BY <1>2, <1>4, <1>6 DEF bytes

\* Code points of 16 bits survive UCS2.
THEOREM Ucs2ReadsBack ==
    ASSUME NEW text \in Seq(CodeUnits)
    PROVE  DecodeUcs2(EncodeUcs2(text)) = text
<1> DEFINE bytes == EncodeUcs2(text)
<1>1. Len(text) \in Nat
  OBVIOUS
<1>2. text \in Seq(Nat)
  BY SeqMonotonic DEF CodeUnits
<1>3. /\ Len(bytes) = 2 * Len(text)
      /\ \A j \in 1 .. 2 * Len(text) :
            bytes[j] = IF j % 2 = 1 THEN (text[(j + 1) \div 2] \div 256) % 256
                                   ELSE text[(j + 1) \div 2] % 256
  BY <1>2, Ucs2Type
<1> HIDE DEF bytes
<1>4. ASSUME NEW i \in 1 .. Len(text)
      PROVE  256 * bytes[2 * i - 1] + bytes[2 * i] = text[i]
  <2>1. /\ 2 * i - 1 \in 1 .. 2 * Len(text) /\ 2 * i \in 1 .. 2 * Len(text)
        /\ ((2 * i - 1) + 1) \div 2 = i /\ (2 * i + 1) \div 2 = i
        /\ (2 * i - 1) % 2 = 1 /\ (2 * i) % 2 # 1
    BY <1>1
  <2>2. /\ bytes[2 * i - 1] = (text[i] \div 256) % 256
        /\ bytes[2 * i] = text[i] % 256
    BY <1>3, <2>1
  <2>3. text[i] \in CodeUnits
    BY ElementOfSeq
  <2>4. \A c \in CodeUnits : 256 * ((c \div 256) % 256) + (c % 256) = c
    BY DEF CodeUnits
  <2> QED BY <2>2, <2>3, <2>4
<1>5. Len(bytes) \div 2 = Len(text)
  BY <1>1, <1>3
<1>6. DecodeUcs2(bytes) = [i \in 1 .. Len(text) |-> text[i]]
  BY <1>4, <1>5 DEF DecodeUcs2
<1>7. text = [i \in 1 .. Len(text) |-> text[i]]
  OBVIOUS
<1> QED BY <1>6, <1>7 DEF bytes

----------------------------------------------------------------------------
(* Splitting.                                                              *)

\* How many pieces there are.
LEMMA DivBounds ==
    ASSUME NEW a \in Nat, NEW b \in Nat \ {0}
    PROVE  a \div b \in Nat /\ b * (a \div b) <= a /\ a < b * (a \div b) + b
OBVIOUS

\* Pieces of a text: none is empty or too long, all but the last are full, and
\* every item is in the piece and at the place where it belongs.
THEOREM PiecesHoldAll ==
    ASSUME NEW S, NEW items \in Seq(S), NEW size \in Nat \ {0}
    PROVE  LET pieces == ChunkArray(items, size) IN
           /\ Len(pieces) = (Len(items) + size - 1) \div size
           /\ \A i \in 1 .. Len(pieces) :
                /\ pieces[i] \in Seq(S)
                /\ Len(pieces[i]) \in 1 .. size
                /\ i < Len(pieces) => Len(pieces[i]) = size
                /\ i = Len(pieces) => size * (i - 1) + Len(pieces[i]) = Len(items)
                /\ \A k \in 1 .. Len(pieces[i]) : pieces[i][k] = items[size * (i - 1) + k]
<1> DEFINE n == (Len(items) + size - 1) \div size
           pieces == ChunkArray(items, size)
           last(i) == IF size * i < Len(items) THEN size * i ELSE Len(items)
<1>1. Len(items) \in Nat /\ Len(items) + size - 1 \in Nat
  OBVIOUS
<1>2. n \in Nat /\ size * n <= Len(items) + size - 1 /\ Len(items) + size - 1 < size * n + size
  BY <1>1, DivBounds
<1>3. pieces = [i \in 1 .. n |-> SubSeq(items, size * (i - 1) + 1, last(i))]
  BY DEF ChunkArray
<1> HIDE DEF n
<1>4. Len(pieces) = n
  BY <1>2, <1>3
<1>5. ASSUME NEW i \in 1 .. n
      PROVE  /\ pieces[i] \in Seq(S)
             /\ Len(pieces[i]) \in 1 .. size
             /\ i < n => Len(pieces[i]) = size
             /\ i = n => size * (i - 1) + Len(pieces[i]) = Len(items)
             /\ \A k \in 1 .. Len(pieces[i]) : pieces[i][k] = items[size * (i - 1) + k]
  <2> DEFINE before == size * (i - 1)
  <2>1. before \in Nat /\ size * i = before + size
    BY <1>2
  <2>2. before < Len(items)
    <3>1. size * i <= size * n
      BY <1>2
    <3>2. size * i \in Nat /\ size * n \in Nat
      BY <1>2
    <3> HIDE DEF before
    <3> QED BY <1>1, <1>2, <2>1, <3>1, <3>2
  <2>3. i < n => before + size <= Len(items)
    <3> SUFFICES ASSUME i < n PROVE before + size <= Len(items)
      OBVIOUS
    <3>1. size * i + size <= size * n
      <4>1. i + 1 <= n
        BY <1>2
      <4>2. size * (i + 1) <= size * n
        BY <1>2, <4>1
      <4> QED BY <4>2
    <3>2. size * i \in Nat /\ size * n \in Nat
      BY <1>2
    <3> HIDE DEF before
    <3> QED BY <1>1, <1>2, <2>1, <3>1, <3>2
  <2>4. i = n => Len(items) <= before + size
    <3>1. size * n \in Nat
      BY <1>2
    <3> HIDE DEF before
    <3> QED BY <1>1, <1>2, <2>1, <3>1
  <2>5. /\ last(i) = IF before + size < Len(items) THEN before + size ELSE Len(items)
        /\ pieces[i] = SubSeq(items, before + 1, last(i))
    BY <1>3, <2>1
  <2> HIDE DEF before, pieces, last
  <2>6. before + 1 \in Int /\ last(i) \in Int /\ before + 1 <= last(i) /\ last(i) <= Len(items)
    BY <1>1, <2>1, <2>2, <2>5
  <2>7. \A k \in before + 1 .. last(i) : items[k] \in S
    BY <1>1, <2>1, <2>6, ElementOfSeq
  <2>8. /\ pieces[i] \in Seq(S)
        /\ Len(pieces[i]) = last(i) - (before + 1) + 1
        /\ \A k \in 1 .. last(i) - (before + 1) + 1 : pieces[i][k] = items[before + 1 + k - 1]
    BY <2>5, <2>6, <2>7, SubSeqProperties
  <2>9. /\ last(i) - (before + 1) + 1 = last(i) - before
        /\ \A k \in Int : before + 1 + k - 1 = before + k
    BY <2>1, <2>6
  <2>10. /\ last(i) - before \in 1 .. size
         /\ i < n => last(i) - before = size
         /\ i = n => before + (last(i) - before) = Len(items)
    BY <1>1, <2>1, <2>2, <2>3, <2>4, <2>5, <2>6
  <2>11. ASSUME NEW k \in 1 .. Len(pieces[i]) PROVE pieces[i][k] = items[before + k]
    <3>1. k \in 1 .. last(i) - (before + 1) + 1 /\ k \in Int
      BY <2>8
    <3>2. pieces[i][k] = items[before + 1 + k - 1]
      BY <2>8, <3>1
    <3>3. before + 1 + k - 1 = before + k
      BY <2>9, <3>1
    <3> QED BY <3>2, <3>3
  <2> QED BY <2>8, <2>9, <2>10, <2>11 DEF before
<1> HIDE DEF pieces
<1>6. \A i \in 1 .. Len(pieces) : i \in 1 .. n
  BY <1>4
<1> QED BY <1>4, <1>5, <1>6 DEF n, pieces

----------------------------------------------------------------------------
(* Parts.                                                                  *)

\* What encodeSubmitPdu gives buildSubmitPart for one part of a message.
PartInput(alphabet, codes, concat) ==
    /\ \/ alphabet = "7bit" /\ codes \in Seq(Septets)
       \/ alphabet = "ucs2" /\ codes \in Seq(Nat)
    /\ \/ /\ concat = NULL
          /\ Len(codes) <= IF alphabet = "7bit" THEN GSM7_SINGLE_MAX ELSE UCS2_SINGLE_MAX
       \/ /\ concat # NULL
          /\ concat \in [reference : Octets, total : Octets, seq : Octets]
          /\ Len(codes) <= IF alphabet = "7bit" THEN GSM7_MULTI_MAX ELSE UCS2_MULTI_MAX

\* The header of a part.
LEMMA HeaderType ==
    ASSUME NEW alphabet, NEW codes, NEW concat, PartInput(alphabet, codes, concat)
    PROVE  /\ ConcatHeader(concat) \in Seq(Octets)
           /\ concat = NULL => Len(ConcatHeader(concat)) = 0 /\ ConcatHeader(concat) = <<>>
           /\ concat # NULL => Len(ConcatHeader(concat)) = 6
<1>1. CASE concat = NULL
  BY <1>1 DEF ConcatHeader
<1>2. CASE concat # NULL
  <2>1. concat.reference \in Octets /\ concat.total \in Octets /\ concat.seq \in Octets
    BY <1>2 DEF PartInput
  <2>2. 5 \in Octets /\ 0 \in Octets /\ 3 \in Octets
    BY DEF Octets
  <2>3. ConcatHeader(concat) = <<5, 0, 3, concat.reference, concat.total, concat.seq>>
    BY <1>2 DEF ConcatHeader
  <2> QED BY <1>2, <2>1, <2>2, <2>3
<1> QED BY <1>1, <1>2

\* Every part fits one SMS: at most 140 octets of user data, whose length field
\* says how many septets or octets they are (buildSubmitPart and its limits).
THEOREM PartFitsOneSms ==
    ASSUME NEW address, NEW alphabet, NEW codes, NEW concat, PartInput(alphabet, codes, concat)
    PROVE  LET part == BuildSubmitPart(address, alphabet, codes, concat) IN
           /\ part.ud \in Seq(Octets)
           /\ Len(part.ud) <= 140
           /\ part.dcs = 0 => part.udl <= 160 /\ Len(part.ud) = (7 * part.udl + 7) \div 8
           /\ part.dcs # 0 => part.udl = Len(part.ud)
<1> DEFINE header == ConcatHeader(concat)
           ud == UserData(alphabet, header, codes)
           part == BuildSubmitPart(address, alphabet, codes, concat)
<1>1. /\ header \in Seq(Octets) /\ Len(header) \in {0, 6}
      /\ concat = NULL => Len(header) = 0
      /\ concat # NULL => Len(header) = 6
  BY HeaderType
<1>2. /\ part.ud = ud
      /\ part.dcs = IF alphabet = "7bit" THEN 0 ELSE 8
      /\ part.udl = IF alphabet = "7bit" THEN OctetsToSeptetCount(Len(header)) + Len(codes)
                                         ELSE Len(ud)
  BY DEF BuildSubmitPart
<1>3. CASE alphabet = "7bit"
  <2>1. codes \in Seq(Septets) /\ Len(codes) \in Nat
    BY <1>3 DEF PartInput
  <2>2. /\ ud = PackSeptetsWithHeader(header, codes)
        /\ TextStart(header) = 7 * OctetsToSeptetCount(Len(header))
        /\ OctetsToSeptetCount(Len(header)) = IF concat = NULL THEN 0 ELSE 7
    <3>1. ud = PackSeptetsWithHeader(header, codes)
      BY <1>3 DEF UserData
    <3> HIDE DEF header
    <3>2. TextStart(header) = 7 * OctetsToSeptetCount(Len(header))
      BY <1>1, TextStartIs
    <3>3. OctetsToSeptetCount(0) = 0 /\ OctetsToSeptetCount(6) = 7
      BY DEF OctetsToSeptetCount
    <3> QED BY <1>1, <3>1, <3>2, <3>3
  <2>3. ud \in Seq(Octets) /\ Len(ud) = ((TextStart(header) + 7 * Len(codes)) + 7) \div 8
    <3> HIDE DEF ud, header
    <3> QED BY <1>1, <2>1, <2>2, PackType
  <2>4. OctetsToSeptetCount(Len(header)) + Len(codes) <= 160
    BY <1>3, <2>1, <2>2 DEF PartInput, GSM7_SINGLE_MAX, GSM7_MULTI_MAX
  <2> DEFINE udl == OctetsToSeptetCount(Len(header)) + Len(codes)
  <2>5. udl \in Nat /\ TextStart(header) + 7 * Len(codes) = 7 * udl
    BY <2>1, <2>2
  <2> HIDE DEF udl, ud, header, part
  <2>6. (7 * udl + 7) \div 8 <= 140
    BY <2>4, <2>5 DEF udl
  <2> QED BY <1>2, <1>3, <2>3, <2>4, <2>5, <2>6 DEF udl, part
<1>4. CASE alphabet = "ucs2"
  <2>1. codes \in Seq(Nat) /\ Len(codes) \in Nat
    BY <1>4 DEF PartInput
  <2>2. ud = header \o EncodeUcs2(codes)
    BY <1>4 DEF UserData
  <2>3. EncodeUcs2(codes) \in Seq(Octets) /\ Len(EncodeUcs2(codes)) = 2 * Len(codes)
    BY <2>1, Ucs2Type
  <2> HIDE DEF ud, header, part
  <2>4. ud \in Seq(Octets) /\ Len(ud) = Len(header) + 2 * Len(codes)
    <3> DEFINE bytes == EncodeUcs2(codes)
    <3>1. bytes \in Seq(Octets) /\ Len(bytes) = 2 * Len(codes) /\ ud = header \o bytes
      BY <2>2, <2>3
    <3> HIDE DEF bytes
    <3>2. ud \in Seq(Octets) /\ Len(ud) = Len(header) + Len(bytes)
      BY <1>1, <3>1, ConcatProperties
    <3> QED BY <3>1, <3>2
  <2>5. Len(codes) <= IF concat = NULL THEN 70 ELSE 67
    BY <1>4 DEF PartInput, UCS2_SINGLE_MAX, UCS2_MULTI_MAX
  <2>6. Len(ud) <= 140
    <3>1. CASE concat = NULL
      BY <1>1, <2>1, <2>4, <2>5, <3>1
    <3>2. CASE concat # NULL
      <4>1. Len(codes) <= 67 /\ Len(header) = 6
        BY <1>1, <2>5, <3>2
      <4>2. Len(codes) \in Nat /\ Len(ud) = Len(header) + 2 * Len(codes)
        BY <2>1, <2>4
      <4> QED BY <4>1, <4>2
    <3> QED BY <3>1, <3>2
  <2> QED BY <1>2, <1>4, <2>4, <2>6 DEF part
<1> QED BY <1>3, <1>4 DEF PartInput

\* Every part is read as the text it was made of, behind its header
\* (decodeDeliverPdu after buildSubmitPart).
THEOREM PartReadsBack ==
    ASSUME NEW address, NEW alphabet, NEW codes, NEW concat, PartInput(alphabet, codes, concat),
           alphabet = "ucs2" => codes \in Seq(CodeUnits)
    PROVE  LET part == BuildSubmitPart(address, alphabet, codes, concat)
               back == DecodeText(DecodeDcsAlphabet(part.dcs), part.ud, part.udl,
                                  IF concat = NULL THEN 0 ELSE 6)
           IN back = IF alphabet = "7bit" THEN SeptetsToText(codes) ELSE codes
<1> DEFINE header == ConcatHeader(concat)
           ud == UserData(alphabet, header, codes)
           part == BuildSubmitPart(address, alphabet, codes, concat)
           octets == IF concat = NULL THEN 0 ELSE 6
<1>1. header \in Seq(Octets) /\ Len(header) = octets
  BY HeaderType
<1>2. /\ part.ud = ud
      /\ part.dcs = IF alphabet = "7bit" THEN 0 ELSE 8
      /\ part.udl = IF alphabet = "7bit" THEN OctetsToSeptetCount(Len(header)) + Len(codes)
                                         ELSE Len(ud)
  BY DEF BuildSubmitPart
<1>3. CASE alphabet = "7bit"
  <2>1. DecodeDcsAlphabet(part.dcs) = "7bit"
    BY <1>2, <1>3 DEF DecodeDcsAlphabet
  <2>2. codes \in Seq(Septets) /\ ud = PackSeptetsWithHeader(header, codes)
    BY <1>3 DEF PartInput, UserData
  <2> DEFINE first == OctetsToSeptetCount(Len(header))
             septets == UnpackSeptets(ud, first + Len(codes))
  <2> HIDE DEF header, ud, part, octets
  <2>3. SubSeq(septets, first + 1, Len(septets)) = codes
    BY <1>1, <2>2, SeptetsReadBack
  <2>4. DecodeText("7bit", part.ud, part.udl, octets)
          = SeptetsToText(SubSeq(septets, first + 1, Len(septets)))
    BY <1>1, <1>2, <1>3 DEF DecodeText
  <2> QED BY <1>3, <2>1, <2>3, <2>4 DEF part, octets
<1>4. CASE alphabet = "ucs2"
  <2>1. DecodeDcsAlphabet(part.dcs) = "ucs2"
    BY <1>2, <1>4 DEF DecodeDcsAlphabet
  <2>2. codes \in Seq(CodeUnits) /\ ud = header \o EncodeUcs2(codes)
    BY <1>4 DEF UserData
  <2> DEFINE bytes == EncodeUcs2(codes)
  <2>3. bytes \in Seq(Octets) /\ DecodeUcs2(bytes) = codes /\ ud = header \o bytes
    <3>1. codes \in Seq(Nat)
      BY <2>2, SeqMonotonic DEF CodeUnits
    <3> QED BY <2>2, <3>1, Ucs2Type, Ucs2ReadsBack
  <2> DEFINE rest == SubSeq(ud, octets + 1, Len(ud))
  <2> HIDE DEF header, ud, part, octets, bytes
  <2>4. /\ ud \in Seq(Octets) /\ Len(ud) = octets + Len(bytes)
        /\ \A i \in 1 .. octets + Len(bytes) :
              ud[i] = IF i <= octets THEN header[i] ELSE bytes[i - octets]
    BY <1>1, <2>3, ConcatProperties
  <2>5. octets \in Nat /\ Len(bytes) \in Nat
    BY <1>1, <2>3, LenProperties
  <2>6. /\ rest \in Seq(Octets) /\ Len(rest) = Len(bytes)
        /\ \A i \in 1 .. Len(bytes) : rest[i] = bytes[i]
    <3>1. \A i \in octets + 1 .. Len(ud) : ud[i] \in Octets
      BY <2>4, <2>5, ElementOfSeq
    <3>2. /\ rest \in Seq(Octets)
          /\ Len(rest) = IF octets + 1 <= Len(ud) THEN Len(ud) - (octets + 1) + 1 ELSE 0
          /\ \A i \in 1 .. Len(ud) - (octets + 1) + 1 : rest[i] = ud[octets + 1 + i - 1]
      <4>1. octets + 1 \in Int /\ Len(ud) \in Int
        BY <2>4, <2>5
      <4> QED BY <3>1, <4>1, SubSeqProperties
    <3> HIDE DEF rest
    <3>3. Len(rest) = Len(bytes) /\ Len(ud) - (octets + 1) + 1 = Len(bytes)
      BY <2>4, <2>5, <3>2
    <3>4. ASSUME NEW i \in 1 .. Len(bytes) PROVE rest[i] = bytes[i]
      <4>1. octets + 1 + i - 1 = octets + i /\ octets + i \in 1 .. octets + Len(bytes)
            /\ ~(octets + i <= octets) /\ (octets + i) - octets = i
        BY <2>5
      <4>2. rest[i] = ud[octets + 1 + i - 1]
        BY <3>2, <3>3
      <4> QED BY <2>4, <4>1, <4>2
    <3> QED BY <3>2, <3>3, <3>4
  <2>7. rest = bytes
    <3> HIDE DEF rest
    <3> QED BY <2>3, <2>6, SeqEqual
  <2>8. DecodeText("ucs2", part.ud, part.udl, octets) = DecodeUcs2(rest)
    <3>1. part.ud = ud /\ part.udl = Len(ud)
      BY <1>2, <1>4
    <3> QED BY <3>1 DEF DecodeText
  <2> QED BY <1>4, <2>1, <2>3, <2>7, <2>8 DEF part, octets
<1> QED BY <1>3, <1>4 DEF PartInput

\* An octet's bits make it up.
LEMMA OctetOfBits ==
    ASSUME NEW x \in Octets
    PROVE  Octet([k \in 0 .. 7 |-> Bit(x, k)]) = x
<1> DEFINE y == x % 128
<1>1. x \in 0 .. 255
  BY DEF Octets
<1>2. y \in Septets /\ x = y + 128 * ((x \div 128) % 2)
  BY <1>1 DEF Septets
<1>3. /\ x % 2 = y % 2
      /\ (x \div 2) % 2 = (y \div 2) % 2
      /\ (x \div 4) % 2 = (y \div 4) % 2
      /\ (x \div 8) % 2 = (y \div 8) % 2
      /\ (x \div 16) % 2 = (y \div 16) % 2
      /\ (x \div 32) % 2 = (y \div 32) % 2
      /\ (x \div 64) % 2 = (y \div 64) % 2
  BY <1>1
<1> HIDE DEF y
<1>4. Septet([k \in 0 .. 7 |-> Bit(x, k)]) = Septet([k \in 0 .. 6 |-> Bit(y, k)])
  BY <1>3 DEF Septet, Bit
<1>5. Octet([k \in 0 .. 7 |-> Bit(x, k)])
        = Septet([k \in 0 .. 7 |-> Bit(x, k)]) + 128 * ((x \div 128) % 2)
  BY DEF Octet, Bit
<1> QED BY <1>2, <1>4, <1>5, SeptetOfBits

\* The header comes first.
LEMMA HeaderFirst ==
    ASSUME NEW header \in Seq(Octets), NEW codes \in Seq(Septets), NEW j \in 1 .. Len(header)
    PROVE  /\ PackSeptetsWithHeader(header, codes)[j] = header[j]
           /\ j \in 1 .. Len(PackSeptetsWithHeader(header, codes))
<1> DEFINE bits == TextStart(header) + 7 * Len(codes)
           packed == PackSeptetsWithHeader(header, codes)
<1>1. Len(header) \in Nat /\ Len(codes) \in Nat /\ 8 * Len(header) <= TextStart(header)
      /\ TextStart(header) \in Nat
  BY TextStartIs
<1>2. bits \in Nat /\ 8 * Len(header) <= bits
  BY <1>1
<1>3. PackedLength(header, codes) = (bits + 7) \div 8
  BY DEF PackedLength
<1>4. j \in 1 .. PackedLength(header, codes)
  <2> HIDE DEF bits
  <2>1. \A b \in Nat : b >= 8 * j => (b + 7) \div 8 >= j
    BY <1>1
  <2>2. (bits + 7) \div 8 >= j /\ (bits + 7) \div 8 \in Nat
    BY <1>1, <1>2, <2>1
  <2> QED BY <1>1, <1>3, <2>2
<1>5. packed[j] = Octet([k \in 0 .. 7 |-> Written(header, codes, 8 * (j - 1) + k)])
  BY <1>4 DEF PackSeptetsWithHeader
<1>6. ASSUME NEW k \in 0 .. 7 PROVE Written(header, codes, 8 * (j - 1) + k) = Bit(header[j], k)
  <2>1. /\ 8 * (j - 1) + k < 8 * Len(header)
        /\ ((8 * (j - 1) + k) \div 8) + 1 = j
        /\ (8 * (j - 1) + k) % 8 = k
    BY <1>1
  <2> QED BY <2>1 DEF Written
<1>7. packed[j] = Octet([k \in 0 .. 7 |-> Bit(header[j], k)])
  <2>1. [k \in 0 .. 7 |-> Written(header, codes, 8 * (j - 1) + k)] = [k \in 0 .. 7 |-> Bit(header[j], k)]
    BY <1>6
  <2> HIDE DEF packed
  <2> QED BY <1>5, <2>1
<1>8. header[j] \in Octets
  BY ElementOfSeq
<1>9. Len(packed) = PackedLength(header, codes)
  BY <1>3, PackType
<1> HIDE DEF packed
<1> QED BY <1>4, <1>7, <1>8, <1>9, OctetOfBits DEF packed

\* What decodeDeliverPdu reads of the header.
LEMMA HeaderReadsBack ==
    ASSUME NEW r \in Octets, NEW t \in Octets, NEW s \in Octets
    PROVE  ParseConcatIe(<<0, 3, r, t, s>>) = [reference |-> r, total |-> t, seq |-> s]
<1> DEFINE udh == <<0, 3, r, t, s>>
           n == Len(udh) + 258
           len(i) == udh[i + 1]
           data(i) == SubSeq(udh, i + 2, IF i + 1 + len(i) < Len(udh) THEN i + 1 + len(i) ELSE Len(udh))
           body(from, i) ==
              IF i + 1 > Len(udh) THEN NULL
              ELSE IF udh[i] = 0 /\ len(i) = 3 /\ Len(data(i)) = 3
                   THEN [reference |-> data(i)[1], total |-> data(i)[2], seq |-> data(i)[3]]
                   ELSE IF udh[i] = 8 /\ len(i) = 4 /\ Len(data(i)) = 4
                   THEN [reference |-> 256 * data(i)[1] + data(i)[2], total |-> data(i)[3], seq |-> data(i)[4]]
                   ELSE from[i + 2 + len(i)]
           Is(from) == from = [i \in 1 .. n |-> body(from, i)]
           concat == [reference |-> r, total |-> t, seq |-> s]
           from0 == [i \in 1 .. n |-> IF i = 1 THEN concat ELSE NULL]
<1>1. Len(udh) = 5 /\ n = 263 /\ udh \in Seq(Octets)
  BY DEF Octets
<1>7. ASSUME NEW m \in 5 .. 6, NEW k \in 4 .. 5
      PROVE  Len(SubSeq(udh, m, k)) \in 0 .. 1
  <2>1. \A i \in m .. k : udh[i] \in Octets
    <3>1. \A i \in m .. k : i \in 1 .. Len(udh)
      BY <1>1
    <3> HIDE DEF udh
    <3> QED BY <1>1, <3>1, ElementOfSeq
  <2>2. Len(SubSeq(udh, m, k)) = IF m <= k THEN k - m + 1 ELSE 0
    <3> HIDE DEF udh
    <3> QED BY <2>1, SubSeqProperties
  <2> HIDE DEF udh
  <2> QED BY <2>2
<1>2. ASSUME NEW f PROVE body(f, 1) = concat
  <2>1. data(1) = <<r, t, s>>
    <3>1. data(1) = SubSeq(udh, 3, 5)
      <4>1. 1 + 2 = 3 /\ 1 + 1 + 3 = 5 /\ len(1) = 3
        OBVIOUS
      <4> HIDE DEF udh, len
      <4> QED BY <1>1, <4>1
    <3>2. SubSeq(udh, 3, 5) = <<udh[3], udh[4], udh[5]>>
      <4> HIDE DEF udh
      <4>1. \A i \in 3 .. 5 : udh[i] \in Octets
        <5>1. \A i \in 3 .. 5 : i \in 1 .. Len(udh)
          BY <1>1
        <5> QED BY <1>1, <5>1, ElementOfSeq
      <4>2. /\ SubSeq(udh, 3, 5) \in Seq(Octets)
            /\ Len(SubSeq(udh, 3, 5)) = 3
            /\ \A i \in 1 .. 3 : SubSeq(udh, 3, 5)[i] = udh[2 + i]
        <5>1. /\ SubSeq(udh, 3, 5) \in Seq(Octets)
              /\ Len(SubSeq(udh, 3, 5)) = IF 3 <= 5 THEN 5 - 3 + 1 ELSE 0
              /\ \A i \in 1 .. 5 - 3 + 1 : SubSeq(udh, 3, 5)[i] = udh[3 + i - 1]
          BY <4>1, SubSeqProperties
        <5>2. \A i \in 1 .. 3 : 3 + i - 1 = 2 + i
          OBVIOUS
        <5> QED BY <5>1, <5>2
      <4>3. udh[3] \in Octets /\ udh[4] \in Octets /\ udh[5] \in Octets
        BY <4>1
      <4> DEFINE g == <<udh[3], udh[4], udh[5]>>
      <4>4. g \in Seq(Octets) /\ Len(g) = 3 /\ g[1] = udh[3] /\ g[2] = udh[4] /\ g[3] = udh[5]
        BY <4>3
      <4>5. \A i \in 1 .. 3 : g[i] = udh[2 + i]
        <5> HIDE DEF g
        <5> QED BY <4>4
      <4> HIDE DEF g
      <4>6. SubSeq(udh, 3, 5) = g
        BY <4>2, <4>4, <4>5, SeqEqual
      <4> QED BY <4>6 DEF g
    <3> QED BY <3>1, <3>2
  <2>2. udh[1] = 0 /\ len(1) = 3
    OBVIOUS
  <2> HIDE DEF udh, data, len
  <2> QED BY <1>1, <2>1, <2>2
<1>3. Is(from0)
  <2>1. ASSUME NEW i \in 1 .. n PROVE from0[i] = body(from0, i)
    <3>1. r \in 0 .. 255 /\ t \in 0 .. 255 /\ s \in 0 .. 255
      BY DEF Octets
    <3>2. CASE i = 1
      <4>1. from0[1] = concat
        BY <1>1
      <4> HIDE DEF from0, body
      <4> QED BY <1>2, <3>2, <4>1
    <3>3. CASE i >= 5
      BY <1>1, <3>3
    <3>4. CASE i = 2
      <4>1. udh[2] = 3 /\ len(2) = r
        OBVIOUS
      <4>2. body(from0, 2) = from0[2 + 2 + r]
        <5> HIDE DEF from0, data, udh, len
        <5> QED BY <1>1, <4>1
      <4>3. 2 + 2 + r \in 1 .. n /\ 2 + 2 + r # 1
        BY <1>1, <3>1
      <4> QED BY <1>1, <3>4, <4>2, <4>3
    <3>5. CASE i = 3
      <4>1. udh[3] = r /\ len(3) = t
        OBVIOUS
      <4>2. Len(data(3)) \in 0 .. 1
        <5>1. data(3) = SubSeq(udh, 5, IF 4 + t < 5 THEN 4 + t ELSE 5)
          <6>1. 3 + 2 = 5 /\ 3 + 1 + t = 4 + t
            BY <3>1
          <6> HIDE DEF udh
          <6> QED BY <1>1, <4>1, <6>1
        <5>2. (IF 4 + t < 5 THEN 4 + t ELSE 5) \in 4 .. 5 /\ 5 \in 5 .. 6
          BY <3>1
        <5> HIDE DEF udh, data
        <5> QED BY <5>1, <5>2, <1>7
      <4>3. body(from0, 3) = from0[3 + 2 + t]
        <5> HIDE DEF from0, data, udh, len
        <5> QED BY <1>1, <4>1, <4>2
      <4>4. 3 + 2 + t \in 1 .. n /\ 3 + 2 + t # 1
        BY <1>1, <3>1
      <4> QED BY <1>1, <3>5, <4>3, <4>4
    <3>6. CASE i = 4
      <4>1. udh[4] = t /\ len(4) = s
        OBVIOUS
      <4>2. Len(data(4)) \in 0 .. 1
        <5>1. data(4) = SubSeq(udh, 6, IF 5 + s < 5 THEN 5 + s ELSE 5)
          <6>1. 4 + 2 = 6 /\ 4 + 1 + s = 5 + s
            BY <3>1
          <6> HIDE DEF udh
          <6> QED BY <1>1, <4>1, <6>1
        <5> HIDE DEF udh, data
        <5> QED BY <1>1, <3>1, <5>1, <1>7
      <4>3. body(from0, 4) = from0[4 + 2 + s]
        <5> HIDE DEF from0, data, udh, len
        <5> QED BY <1>1, <4>1, <4>2
      <4>4. 4 + 2 + s \in 1 .. n /\ 4 + 2 + s # 1
        BY <1>1, <3>1
      <4> QED BY <1>1, <3>6, <4>3, <4>4
    <3> QED BY <1>1, <3>2, <3>3, <3>4, <3>5, <3>6
  <2>2. from0 = [i \in 1 .. n |-> from0[i]]
    OBVIOUS
  <2> HIDE DEF from0, body, n
  <2> QED BY <2>1, <2>2
<1> DEFINE from1 == CHOOSE from : Is(from)
<1>4. Is(from1)
  <2> HIDE DEF Is, from0
  <2> QED BY <1>3
<1>5. from1[1] = concat
  <2>1. 1 \in 1 .. n
    BY <1>1
  <2>2. from1[1] = body(from1, 1)
    <3> HIDE DEF from1, body, n
    <3> QED BY <1>4, <2>1
  <2> HIDE DEF from1, body
  <2> QED BY <1>2, <2>2
<1>6. ParseConcatIe(udh) = from1[1]
  BY DEF ParseConcatIe
<1> QED BY <1>5, <1>6

\* Every part is read as it was built: decodeDeliverPdu after buildSubmitPart.
LEMMA DeliverReadsBack ==
    ASSUME NEW address, NEW alphabet, NEW codes, NEW concat, PartInput(alphabet, codes, concat),
           NEW pdu,
           pdu.type = BuildSubmitPart(address, alphabet, codes, concat).type - 1,
           pdu.dcs = BuildSubmitPart(address, alphabet, codes, concat).dcs,
           pdu.udl = BuildSubmitPart(address, alphabet, codes, concat).udl,
           pdu.ud = BuildSubmitPart(address, alphabet, codes, concat).ud
    PROVE  /\ IsDeliverPdu(pdu)
           /\ DecodeDeliverPdu(pdu).sender = DecodeAddress(pdu.address)
           /\ DecodeDeliverPdu(pdu).timestamp = DecodeTimestamp(pdu.scts)
           /\ DecodeDeliverPdu(pdu).concat = concat
           /\ (alphabet = "ucs2" => codes \in Seq(CodeUnits)) =>
                DecodeDeliverPdu(pdu).text = IF alphabet = "7bit" THEN SeptetsToText(codes) ELSE codes
<1> DEFINE part == BuildSubmitPart(address, alphabet, codes, concat)
           header == ConcatHeader(concat)
           octets == IF concat = NULL THEN 0 ELSE 6
           hasUdh == (pdu.type \div 64) % 2 = 1
           headerOctets == IF hasUdh THEN 1 + Head(pdu.ud) ELSE 0
<1>1. part.type = (IF concat = NULL THEN 1 ELSE 65) /\ part.ud = UserData(alphabet, header, codes)
  BY DEF BuildSubmitPart
<1>2. pdu.type = IF concat = NULL THEN 0 ELSE 64
  <2> HIDE DEF part
  <2> QED BY <1>1 DEF part
<1>3. IsDeliverPdu(pdu) /\ (hasUdh <=> concat # NULL)
  BY <1>2 DEF IsDeliverPdu
<1>4. concat # NULL =>
        /\ pdu.ud \in Seq(Octets) /\ Len(pdu.ud) \in Nat /\ Len(pdu.ud) >= 6
        /\ \A i \in 1 .. 6 : pdu.ud[i] = <<5, 0, 3, concat.reference, concat.total, concat.seq>>[i]
  <2> SUFFICES ASSUME concat # NULL
               PROVE  /\ pdu.ud \in Seq(Octets) /\ Len(pdu.ud) \in Nat /\ Len(pdu.ud) >= 6
                      /\ \A i \in 1 .. 6 : pdu.ud[i] = header[i]
    BY DEF ConcatHeader
  <2>1. header \in Seq(Octets) /\ Len(header) = 6
    BY HeaderType
  <2>2. pdu.ud = UserData(alphabet, header, codes)
    BY <1>1
  <2> HIDE DEF header
  <2>3. CASE alphabet = "7bit"
    <3>1. codes \in Seq(Septets) /\ pdu.ud = PackSeptetsWithHeader(header, codes)
      BY <2>2, <2>3 DEF PartInput, UserData
    <3>2. pdu.ud \in Seq(Octets)
      BY <2>1, <3>1, PackType
    <3>3. ASSUME NEW i \in 1 .. 6 PROVE pdu.ud[i] = header[i] /\ i \in 1 .. Len(pdu.ud)
      BY <2>1, <3>1, HeaderFirst
    <3>4. Len(pdu.ud) \in Nat
      BY <3>2
    <3>5. 6 \in 1 .. Len(pdu.ud)
      <4>1. 6 \in 1 .. 6
        OBVIOUS
      <4> QED BY <4>1, <3>3
    <3>6. Len(pdu.ud) >= 6
      BY <3>4, <3>5
    <3> QED BY <3>2, <3>3, <3>4, <3>6
  <2>4. CASE alphabet = "ucs2"
    <3>1. codes \in Seq(Nat) /\ pdu.ud = header \o EncodeUcs2(codes)
      BY <2>2, <2>4 DEF PartInput, UserData
    <3> DEFINE bytes == EncodeUcs2(codes)
    <3>2. bytes \in Seq(Octets) /\ pdu.ud = header \o bytes
      BY <3>1, Ucs2Type
    <3> HIDE DEF bytes
    <3>3. Len(bytes) \in Nat
      BY <3>2
    <3>4. /\ pdu.ud \in Seq(Octets) /\ Len(pdu.ud) = 6 + Len(bytes)
          /\ \A i \in 1 .. 6 + Len(bytes) : pdu.ud[i] = IF i <= 6 THEN header[i] ELSE bytes[i - 6]
      <4>1. /\ header \o bytes \in Seq(Octets) /\ Len(header \o bytes) = Len(header) + Len(bytes)
            /\ \A i \in 1 .. Len(header) + Len(bytes) :
                 (header \o bytes)[i] = IF i <= Len(header) THEN header[i] ELSE bytes[i - Len(header)]
        BY <2>1, <3>2, ConcatProperties
      <4> QED BY <2>1, <3>2, <4>1
    <3>5. \A i \in 1 .. 6 : i \in 1 .. 6 + Len(bytes) /\ i <= 6
      BY <3>3
    <3>6. Len(pdu.ud) \in Nat /\ Len(pdu.ud) >= 6
      BY <3>3, <3>4
    <3> QED BY <3>4, <3>5, <3>6
  <2> QED BY <2>3, <2>4 DEF PartInput
<1>5. headerOctets = octets
  <2>1. CASE concat # NULL
    <3>1. pdu.ud[1] = 5
      <4>1. 1 \in 1 .. 6
        OBVIOUS
      <4>2. pdu.ud[1] = <<5, 0, 3, concat.reference, concat.total, concat.seq>>[1]
        BY <1>4, <2>1, <4>1
      <4> QED BY <4>2
    <3>2. pdu.ud # <<>> /\ Head(pdu.ud) = pdu.ud[1]
      BY <1>4, <2>1
    <3> QED BY <1>3, <2>1, <3>1, <3>2
  <2>2. CASE concat = NULL
    BY <1>3, <2>2
  <2> QED BY <2>1, <2>2
<1>6. DecodeDeliverPdu(pdu) =
        [sender |-> DecodeAddress(pdu.address),
         timestamp |-> DecodeTimestamp(pdu.scts),
         text |-> DecodeText(DecodeDcsAlphabet(pdu.dcs), pdu.ud, pdu.udl, octets),
         concat |-> IF concat # NULL THEN ParseConcatIe(SubSeq(pdu.ud, 2, octets)) ELSE NULL]
  <2>1. DecodeDeliverPdu(pdu) =
        [sender |-> DecodeAddress(pdu.address),
         timestamp |-> DecodeTimestamp(pdu.scts),
         text |-> DecodeText(DecodeDcsAlphabet(pdu.dcs), pdu.ud, pdu.udl, headerOctets),
         concat |-> IF hasUdh THEN ParseConcatIe(SubSeq(pdu.ud, 2, headerOctets)) ELSE NULL]
    BY DEF DecodeDeliverPdu
  <2> HIDE DEF headerOctets, octets, hasUdh
  <2> QED BY <2>1, <1>3, <1>5, Zenon
<1>7. concat # NULL => ParseConcatIe(SubSeq(pdu.ud, 2, octets)) = concat
  <2> SUFFICES ASSUME concat # NULL PROVE ParseConcatIe(SubSeq(pdu.ud, 2, 6)) = concat
    OBVIOUS
  <2>1. concat \in [reference : Octets, total : Octets, seq : Octets]
    BY DEF PartInput
  <2> DEFINE h == <<0, 3, concat.reference, concat.total, concat.seq>>
             g == SubSeq(pdu.ud, 2, 6)
  <2>2. g = h
    <3>1. \A i \in 2 .. 6 : pdu.ud[i] \in Octets
      <4>1. \A i \in 2 .. 6 : i \in 1 .. Len(pdu.ud)
        BY <1>4
      <4> QED BY <1>4, <4>1, ElementOfSeq
    <3>2. g \in Seq(Octets) /\ Len(g) = 5 /\ \A i \in 1 .. 5 : g[i] = pdu.ud[2 + i - 1]
      <4>1. /\ g \in Seq(Octets)
            /\ Len(g) = IF 2 <= 6 THEN 6 - 2 + 1 ELSE 0
            /\ \A i \in 1 .. 6 - 2 + 1 : g[i] = pdu.ud[2 + i - 1]
        BY <3>1, SubSeqProperties
      <4> HIDE DEF g
      <4> QED BY <4>1
    <3> HIDE DEF g
    <3>3. h \in Seq(Octets) /\ Len(h) = 5
      <4>1. 0 \in Octets /\ 3 \in Octets
        BY DEF Octets
      <4> QED BY <2>1, <4>1
    <3>4. g[1] = pdu.ud[2] /\ g[2] = pdu.ud[3] /\ g[3] = pdu.ud[4] /\ g[4] = pdu.ud[5] /\ g[5] = pdu.ud[6]
      BY <3>2
    <3>5. pdu.ud[2] = 0 /\ pdu.ud[3] = 3 /\ pdu.ud[4] = concat.reference
          /\ pdu.ud[5] = concat.total /\ pdu.ud[6] = concat.seq
      BY <1>4
    <3>6. \A i \in 1 .. 5 : g[i] = h[i]
      BY <3>4, <3>5
    <3> HIDE DEF h
    <3> QED BY <3>2, <3>3, <3>6, SeqEqual
  <2>3. ParseConcatIe(h) = [reference |-> concat.reference, total |-> concat.total, seq |-> concat.seq]
    BY <2>1, HeaderReadsBack
  <2>4. concat = [reference |-> concat.reference, total |-> concat.total, seq |-> concat.seq]
    BY <2>1
  <2> HIDE DEF g, h
  <2> QED BY <2>2, <2>3, <2>4 DEF g
<1>8. (alphabet = "ucs2" => codes \in Seq(CodeUnits)) =>
        DecodeText(DecodeDcsAlphabet(pdu.dcs), pdu.ud, pdu.udl, octets)
          = IF alphabet = "7bit" THEN SeptetsToText(codes) ELSE codes
  <2> SUFFICES ASSUME alphabet = "ucs2" => codes \in Seq(CodeUnits)
               PROVE  DecodeText(DecodeDcsAlphabet(pdu.dcs), pdu.ud, pdu.udl, octets)
                        = IF alphabet = "7bit" THEN SeptetsToText(codes) ELSE codes
    OBVIOUS
  <2>1. DecodeText(DecodeDcsAlphabet(part.dcs), part.ud, part.udl, octets)
          = IF alphabet = "7bit" THEN SeptetsToText(codes) ELSE codes
    BY PartReadsBack
  <2> HIDE DEF octets
  <2> QED BY <2>1
<1> HIDE DEF octets
<1> QED BY <1>3, <1>6, <1>7, <1>8

\* Code points of n septets, ESC at its place.
CodePoints(s, n) == s \in Seq(Nat) /\ Len(s) = n
HasEsc(s)        == s[28] = ESC

\* Putting alphabets together.
LEMMA AlphabetGrows ==
    ASSUME NEW s, NEW t, NEW m \in Nat, NEW n \in Nat, m >= 28,
           CodePoints(s, m), HasEsc(s), CodePoints(t, n)
    PROVE  CodePoints(s \o t, m + n) /\ HasEsc(s \o t)
<1>1. s \in Seq(Nat) /\ t \in Seq(Nat) /\ Len(s) = m /\ Len(t) = n /\ s[28] = ESC
  BY DEF CodePoints, HasEsc
<1>2. /\ s \o t \in Seq(Nat) /\ Len(s \o t) = Len(s) + Len(t)
      /\ \A i \in 1 .. Len(s) + Len(t) : (s \o t)[i] = IF i <= Len(s) THEN s[i] ELSE t[i - Len(s)]
  BY <1>1, ConcatProperties
<1>3. 28 \in 1 .. Len(s) + Len(t) /\ 28 <= Len(s)
  BY <1>1
<1> QED BY <1>1, <1>2, <1>3 DEF CodePoints, HasEsc

\* The alphabet.
LEMMA AlphabetType ==
    /\ GSM7_BASIC \in Seq(Nat) /\ Len(GSM7_BASIC) = 128
    /\ GSM7_BASIC[28] = ESC
<1> DEFINE a == <<64, 163, 36, 165, 232, 233, 249, 236, 242, 199, 10, 216, 248, 13, 197, 229,
                  916, 95, 934, 915, 923, 937, 928, 936, 931, 920, 926, ESC, 198, 230, 223, 201,
                  32, 33, 34, 35, 164>>
           b == [i \in 1 .. 27 |-> 36 + i]
           c == <<161>>
           d == [i \in 1 .. 26 |-> 64 + i]
           e == <<196, 214, 209, 220, 167, 191>>
           f == [i \in 1 .. 26 |-> 96 + i]
           g == <<228, 246, 241, 252, 224>>
<1>1. CodePoints(a, 37) /\ HasEsc(a)
  BY DEF ESC, CodePoints, HasEsc
<1>2. CodePoints(b, 27)
  BY DEF CodePoints
<1>3. CodePoints(c, 1)
  BY DEF CodePoints
<1>4. CodePoints(d, 26)
  BY DEF CodePoints
<1>5. CodePoints(e, 6)
  BY DEF CodePoints
<1>6. CodePoints(f, 26)
  BY DEF CodePoints
<1>7. CodePoints(g, 5)
  BY DEF CodePoints
<1>8. GSM7_BASIC = a \o b \o c \o d \o e \o f \o g
  BY DEF GSM7_BASIC
<1> HIDE DEF a, b, c, d, e, f, g
<1>9. CodePoints(a \o b, 37 + 27) /\ HasEsc(a \o b)
  BY <1>1, <1>2, AlphabetGrows
<1>10. CodePoints(a \o b \o c, 64 + 1) /\ HasEsc(a \o b \o c)
  BY <1>9, <1>3, AlphabetGrows
<1>11. CodePoints(a \o b \o c \o d, 65 + 26) /\ HasEsc(a \o b \o c \o d)
  BY <1>10, <1>4, AlphabetGrows
<1>12. CodePoints(a \o b \o c \o d \o e, 91 + 6) /\ HasEsc(a \o b \o c \o d \o e)
  BY <1>11, <1>5, AlphabetGrows
<1>13. CodePoints(a \o b \o c \o d \o e \o f, 97 + 26) /\ HasEsc(a \o b \o c \o d \o e \o f)
  BY <1>12, <1>6, AlphabetGrows
<1>14. CodePoints(a \o b \o c \o d \o e \o f \o g, 123 + 5) /\ HasEsc(a \o b \o c \o d \o e \o f \o g)
  BY <1>13, <1>7, AlphabetGrows
<1> QED BY <1>8, <1>14 DEF CodePoints, HasEsc

\* Septets behind ESC are told apart.
LEMMA ExtCharIs ==
    ASSUME NEW e \in GSM7_EXT
    PROVE  e[1] \in Septets /\ e[2] \in Nat /\ ExtChar(e[1]) = e[2]
<1>1. e[1] \in Septets /\ e[2] \in Nat
  BY DEF GSM7_EXT, Septets
<1>2. \A f \in GSM7_EXT : f[1] = e[1] => f = e
  BY DEF GSM7_EXT
<1>3. ExtChar(e[1]) = (CHOOSE f \in GSM7_EXT : f[1] = e[1])[2]
  BY DEF ExtChar
<1>4. (CHOOSE f \in GSM7_EXT : f[1] = e[1]) = e
  BY <1>2
<1> QED BY <1>1, <1>3, <1>4

\* What a character becomes, and how it is found again.
LEMMA SeptetCodesIs ==
    ASSUME NEW char \in BasicChars \cup ExtChars
    PROVE  /\ SeptetCodes(char) \in Seq(Septets) /\ Len(SeptetCodes(char)) \in 1 .. 2
           /\ char # ESC =>
                \/ \E code \in Septets :
                      SeptetCodes(char) = <<code>> /\ code # ESC /\ GSM7_BASIC[code + 1] = char
                \/ \E code \in Septets :
                      SeptetCodes(char) = <<ESC, code>> /\ ExtChar(code) = char
<1>1. CASE char \in BasicChars
  <2> DEFINE i == CHOOSE j \in 1 .. 128 : GSM7_BASIC[j] = char
  <2>1. \E j \in 1 .. 128 : GSM7_BASIC[j] = char
    BY <1>1 DEF BasicChars
  <2>2. i \in 1 .. 128 /\ GSM7_BASIC[i] = char
    BY <2>1
  <2>3. SeptetCodes(char) = <<i - 1>>
    BY <1>1 DEF SeptetCodes
  <2> HIDE DEF i
  <2>4. i - 1 \in Septets /\ (i - 1) + 1 = i
    BY <2>2 DEF Septets
  <2>5. char # ESC => i - 1 # ESC
    <3> SUFFICES ASSUME i - 1 = 27 PROVE char = ESC
      BY DEF ESC
    <3>1. i = 28
      BY <2>2
    <3> QED BY <2>2, <3>1, AlphabetType
  <2>6. <<i - 1>> \in Seq(Septets) /\ Len(<<i - 1>>) = 1
    BY <2>4
  <2> QED BY <2>2, <2>3, <2>4, <2>5, <2>6
<1>2. CASE char \notin BasicChars
  <2> DEFINE e == CHOOSE x \in GSM7_EXT : x[2] = char
  <2>1. \E x \in GSM7_EXT : x[2] = char
    BY <1>2 DEF ExtChars
  <2>2. e \in GSM7_EXT /\ e[2] = char
    BY <2>1
  <2>3. SeptetCodes(char) = <<ESC, e[1]>>
    BY <1>2 DEF SeptetCodes
  <2> HIDE DEF e
  <2>4. e[1] \in Septets /\ ExtChar(e[1]) = char
    BY <2>2, ExtCharIs
  <2>5. <<ESC, e[1]>> \in Seq(Septets) /\ Len(<<ESC, e[1]>>) = 2
    <3>1. ESC \in Septets
      BY DEF ESC, Septets
    <3> QED BY <3>1, <2>4
  <2> QED BY <2>3, <2>4, <2>5
<1> QED BY <1>1, <1>2

\* Characters are code points.
LEMMA CharType ==
    ASSUME NEW code \in Septets
    PROVE  ExtChar(code) \in Nat /\ GSM7_BASIC[code + 1] \in Nat
<1>1. GSM7_BASIC[code + 1] \in Nat
  <2>1. code + 1 \in 1 .. Len(GSM7_BASIC)
    BY AlphabetType DEF Septets
  <2> QED BY <2>1, AlphabetType, ElementOfSeq
<1>2. ExtChar(code) \in Nat
  <2>1. CASE \E e \in GSM7_EXT : e[1] = code
    BY <2>1, ExtCharIs
  <2>2. CASE ~\E e \in GSM7_EXT : e[1] = code
    BY <2>2 DEF ExtChar
  <2> QED BY <2>1, <2>2
<1> QED BY <1>1, <1>2

\* What has been flattened stays where it is.
Extends(t, s) == Len(s) <= Len(t) /\ \A k \in 1 .. Len(s) : t[k] = s[k]

\* Later pieces leave what is there alone.
LEMMA FlattenPrefix ==
    ASSUME NEW S, NEW seqs \in Seq(Seq(S)), NEW F \in [0 .. Len(seqs) -> Seq(S)],
           Flattens(F, seqs), NEW i \in 0 .. Len(seqs)
    PROVE  \A j \in i .. Len(seqs) : Extends(F[j], F[i])
<1> DEFINE n == Len(seqs)
           Is(j) == Len(F[i]) <= Len(F[j]) /\ \A k \in 1 .. Len(F[i]) : F[j][k] = F[i][k]
           T == {d \in 0 .. n - i : Is(i + d)}
<1>1. n \in Nat /\ i \in Nat /\ i <= n /\ n - i \in Nat
  OBVIOUS
<1>2. \A j \in 0 .. n : F[j] \in Seq(S) /\ Len(F[j]) \in Nat
  OBVIOUS
<1>3. 0 \in T
  <2>1. i + 0 = i
    BY <1>1
  <2>2. Is(i)
    BY <1>2
  <2> HIDE DEF Is
  <2> QED BY <1>1, <2>1, <2>2
<1>4. ASSUME NEW d \in 0 .. (n - i) - 1, d \in T PROVE d + 1 \in T
  <2>1. /\ i + d \in 0 .. n /\ i + (d + 1) \in 1 .. n /\ (i + (d + 1)) - 1 = i + d
        /\ d + 1 \in 0 .. n - i
    BY <1>1
  <2> DEFINE j == i + d
             l == i + (d + 1)
  <2> HIDE DEF j, l
  <2>2. j \in 0 .. n /\ l \in 1 .. n /\ l - 1 = j /\ l \in 0 .. n
    BY <1>1, <2>1 DEF j, l
  <2>3. F[l] = F[j] \o seqs[l]
    BY <2>2 DEF Flattens
  <2>4. F[j] \in Seq(S) /\ seqs[l] \in Seq(S) /\ Len(F[j]) \in Nat /\ Len(seqs[l]) \in Nat
    BY <1>2, <2>2
  <2>5. /\ Len(F[j] \o seqs[l]) = Len(F[j]) + Len(seqs[l])
        /\ \A k \in 1 .. Len(F[j]) + Len(seqs[l]) :
              (F[j] \o seqs[l])[k] = IF k <= Len(F[j]) THEN F[j][k] ELSE seqs[l][k - Len(F[j])]
    BY <2>4, ConcatProperties
  <2>6. Is(j)
    BY <1>4 DEF j
  <2>7. Is(l)
    <3>1. Len(F[i]) \in Nat /\ Len(F[i]) <= Len(F[j])
      BY <1>1, <1>2, <2>6
    <3> DEFINE a == Len(F[i])  b == Len(F[j])  c == Len(seqs[l])
    <3>4. a \in Nat /\ b \in Nat /\ c \in Nat /\ a <= b /\ Len(F[l]) = b + c
      BY <2>3, <2>4, <2>5, <3>1
    <3>2. Len(F[i]) <= Len(F[l])
      <4> HIDE DEF a, b, c
      <4>1. a <= b + c
        BY <3>4
      <4> QED BY <3>4, <4>1 DEF a
    <3>3. ASSUME NEW k \in 1 .. Len(F[i]) PROVE F[l][k] = F[i][k]
      <4>1. k \in 1 .. b + c /\ k <= b
        <5>1. k \in 1 .. a
          OBVIOUS
        <5> HIDE DEF a, b, c
        <5> QED BY <3>4, <5>1
      <4>2. F[l][k] = F[j][k]
        BY <2>3, <2>5, <4>1
      <4> QED BY <2>6, <4>2
    <3> QED BY <3>2, <3>3
  <2> HIDE DEF Is
  <2> QED BY <2>1, <2>7 DEF l
<1>5. \A d \in 0 .. n - i : d \in T
  <2> HIDE DEF T
  <2> QED BY <1>1, <1>3, <1>4, UpTo
<1>6. ASSUME NEW j \in i .. n PROVE Is(j)
  <2>1. j - i \in 0 .. n - i /\ i + (j - i) = j
    BY <1>1
  <2>2. Is(i + (j - i))
    <3> HIDE DEF Is
    <3> QED BY <1>5, <2>1
  <2> HIDE DEF Is
  <2> QED BY <2>1, <2>2
<1> QED BY <1>6 DEF Extends

\* Where every piece lies.
PieceAt(S, F, seqs, i) ==
    /\ F[i - 1] \in Seq(S) /\ F[i] \in Seq(S) /\ seqs[i] \in Seq(S)
    /\ Len(F[i]) = Len(F[i - 1]) + Len(seqs[i])
    /\ Len(F[i]) <= Len(F[Len(seqs)])
    /\ \A k \in 1 .. Len(seqs[i]) : F[Len(seqs)][Len(F[i - 1]) + k] = seqs[i][k]

\* A piece starts where the ones before it end.
LEMMA FlattenPiece ==
    ASSUME NEW S, NEW seqs \in Seq(Seq(S)), NEW F \in [0 .. Len(seqs) -> Seq(S)],
           Flattens(F, seqs), NEW i \in 1 .. Len(seqs)
    PROVE  PieceAt(S, F, seqs, i)
<1> DEFINE n == Len(seqs)
           all == F[n]
<1>1. n \in Nat /\ i \in 0 .. n /\ i - 1 \in 0 .. n /\ n \in i .. n
  OBVIOUS
<1>2. F[i - 1] \in Seq(S) /\ F[i] \in Seq(S) /\ seqs[i] \in Seq(S)
  <2>1. seqs[i] \in Seq(S)
    OBVIOUS
  <2> HIDE DEF n
  <2>2. F \in [0 .. n -> Seq(S)]
    BY DEF n
  <2> QED BY <1>1, <2>1, <2>2
<1>3. F[i] = F[i - 1] \o seqs[i]
  BY DEF Flattens
<1>4. /\ Len(F[i]) = Len(F[i - 1]) + Len(seqs[i])
      /\ \A k \in 1 .. Len(F[i - 1]) + Len(seqs[i]) :
           F[i][k] = IF k <= Len(F[i - 1]) THEN F[i - 1][k] ELSE seqs[i][k - Len(F[i - 1])]
  <2> DEFINE s == F[i - 1]  t == seqs[i]
  <2>1. s \in Seq(S) /\ t \in Seq(S) /\ F[i] = s \o t
    BY <1>2, <1>3
  <2> HIDE DEF s, t
  <2>2. /\ Len(s \o t) = Len(s) + Len(t)
        /\ \A k \in 1 .. Len(s) + Len(t) : (s \o t)[k] = IF k <= Len(s) THEN s[k] ELSE t[k - Len(s)]
    BY <2>1, ConcatProperties
  <2> QED BY <2>1, <2>2 DEF s, t
<1>5. Len(F[i]) <= Len(all) /\ \A k \in 1 .. Len(F[i]) : all[k] = F[i][k]
  <2>1. \A j \in i .. n : Extends(F[j], F[i])
    <3>1. i \in 0 .. Len(seqs)
      BY <1>1
    <3> QED BY <3>1, FlattenPrefix
  <2> HIDE DEF n
  <2> QED BY <1>1, <2>1 DEF Extends
<1>6. ASSUME NEW k \in 1 .. Len(seqs[i]) PROVE all[Len(F[i - 1]) + k] = seqs[i][k]
  <2>1. Len(F[i - 1]) \in Nat /\ Len(seqs[i]) \in Nat
    BY <1>2
  <2> DEFINE l == Len(F[i - 1]) + k
  <2>2. /\ l \in 1 .. Len(F[i - 1]) + Len(seqs[i]) /\ l \in 1 .. Len(F[i])
        /\ ~(l <= Len(F[i - 1])) /\ l - Len(F[i - 1]) = k
    <3> DEFINE a == Len(F[i - 1])  b == Len(seqs[i])
    <3>1. a \in Nat /\ b \in Nat /\ k \in 1 .. b /\ l = a + k /\ Len(F[i]) = a + b
      BY <1>4, <2>1
    <3> HIDE DEF a, b, l
    <3>2. l \in 1 .. a + b /\ ~(l <= a) /\ l - a = k
      BY <3>1
    <3> QED BY <3>1, <3>2 DEF a, b
  <2> HIDE DEF l, n, all
  <2> QED BY <1>4, <1>5, <2>2 DEF l
<1> QED BY <1>2, <1>4, <1>5, <1>6 DEF PieceAt

\* The same for all of them.
LEMMA FlattenPieces ==
    ASSUME NEW S, NEW seqs \in Seq(Seq(S)), NEW F \in [0 .. Len(seqs) -> Seq(S)],
           Flattens(F, seqs)
    PROVE  \A i \in 1 .. Len(seqs) : PieceAt(S, F, seqs, i)
BY FlattenPiece

----------------------------------------------------------------------------
(* Reading septets.                                                        *)

\* E: which codes are an ESC for the next one; G: the text so far.
CharsOf(codes, E, i) ==
    IF E[i] THEN <<>>
    ELSE IF E[i - 1] THEN <<ExtChar(codes[i])>> ELSE <<GSM7_BASIC[codes[i] + 1]>>

Reading(codes, E, G) ==
    /\ E[0] = FALSE /\ G[0] = <<>>
    /\ \A i \in 1 .. Len(codes) :
         /\ E[i] = (codes[i] = ESC /\ i < Len(codes) /\ ~E[i - 1])
         /\ G[i] = G[i - 1] \o CharsOf(codes, E, i)

\* How SeptetsToText reads.
LEMMA ReadingIs ==
    ASSUME NEW codes \in Seq(Septets)
    PROVE  \E E \in [0 .. Len(codes) -> BOOLEAN], G \in [0 .. Len(codes) -> Seq(Nat)] :
              Reading(codes, E, G) /\ SeptetsToText(codes) = G[Len(codes)]
<1> DEFINE n == Len(codes)
           Is(f) == f = [i \in 0 .. n |-> i # 0 /\ codes[i] = ESC /\ i < n /\ ~f[i - 1]]
           step == [i \in 1 .. n |-> [v \in BOOLEAN |-> codes[i] = ESC /\ i < n /\ ~v]]
           E == CHOOSE f : Is(f)
           pieces == [i \in 1 .. n |-> CharsOf(codes, E, i)]
<1>1. n \in Nat /\ \A i \in 1 .. n : codes[i] \in Septets
  OBVIOUS
<1>2. PICK f \in [0 .. n -> BOOLEAN] : Iterated(f, FALSE, step, n)
  <2>1. StepsIn(step, n, BOOLEAN)
    BY DEF StepsIn
  <2> HIDE DEF step, n
  <2> QED BY <1>1, <2>1, Iterates
<1>3. Is(f)
  <2>1. f[0] = FALSE
    BY <1>2 DEF Iterated
  <2>2. ASSUME NEW i \in 1 .. n PROVE f[i] = (codes[i] = ESC /\ i < n /\ ~f[i - 1])
    <3>1. i - 1 \in 0 .. n
      BY <1>1
    <3>2. f[i - 1] \in BOOLEAN
      <4> HIDE DEF n, step
      <4> QED BY <3>1
    <3>3. f[i] = step[i][f[i - 1]]
      BY <1>2 DEF Iterated
    <3>4. step[i][f[i - 1]] = (codes[i] = ESC /\ i < n /\ ~f[i - 1])
      <4> HIDE DEF n
      <4> QED BY <3>2
    <3> QED BY <3>3, <3>4
  <2>3. ASSUME NEW i \in 0 .. n
        PROVE  f[i] = (i # 0 /\ codes[i] = ESC /\ i < n /\ ~f[i - 1])
    <3>1. CASE i = 0
      BY <2>1, <3>1
    <3>2. CASE i # 0
      <4>1. i \in 1 .. n
        BY <1>1, <3>2
      <4> HIDE DEF n, step
      <4> QED BY <2>2, <3>2, <4>1
    <3> QED BY <3>1, <3>2
  <2>4. f = [i \in 0 .. n |-> f[i]]
    OBVIOUS
  <2> HIDE DEF n, step
  <2> QED BY <2>3, <2>4
<1>4. Is(E)
  <2> HIDE DEF Is
  <2> QED BY <1>3
<1> HIDE DEF E
<1>5. /\ E \in [0 .. n -> BOOLEAN]
      /\ E[0] = FALSE
      /\ \A i \in 1 .. n : E[i] = (codes[i] = ESC /\ i < n /\ ~E[i - 1])
  <2> HIDE DEF n
  <2>1. E \in [0 .. n -> BOOLEAN]
    BY <1>4
  <2>2. 0 \in 0 .. n /\ \A i \in 1 .. n : i \in 0 .. n /\ i # 0
    BY <1>1
  <2>3. \A i \in 0 .. n : E[i] = (i # 0 /\ codes[i] = ESC /\ i < n /\ ~E[i - 1])
    BY <1>4
  <2>4. E[0] = FALSE
    BY <2>2, <2>3
  <2>5. \A i \in 1 .. n : E[i] = (codes[i] = ESC /\ i < n /\ ~E[i - 1])
    BY <2>2, <2>3, Zenon
  <2> QED BY <2>1, <2>4, <2>5
<1>6. pieces \in Seq(Seq(Nat)) /\ Len(pieces) = n
  <2>1. ASSUME NEW i \in 1 .. n PROVE CharsOf(codes, E, i) \in Seq(Nat)
    <3>1. ExtChar(codes[i]) \in Nat /\ GSM7_BASIC[codes[i] + 1] \in Nat
      BY <1>1, CharType
    <3>2. <<>> \in Seq(Nat) /\ <<ExtChar(codes[i])>> \in Seq(Nat) /\ <<GSM7_BASIC[codes[i] + 1]>> \in Seq(Nat)
      BY <3>1
    <3> QED BY <3>2 DEF CharsOf
  <2>2. pieces \in [1 .. n -> Seq(Nat)]
    BY <2>1
  <2> HIDE DEF pieces, n
  <2>3. pieces \in Seq(Seq(Nat))
    BY <1>1, <2>2, SeqDef
  <2>4. DOMAIN pieces = 1 .. n
    BY <2>2
  <2> QED BY <1>1, <2>3, <2>4, LenProperties
<1>7. PICK G \in [0 .. n -> Seq(Nat)] : Flattens(G, pieces) /\ FlattenSeq(pieces) = G[n]
  <2> HIDE DEF pieces, n
  <2> QED BY <1>6, FlattenIs
<1>8. SeptetsToText(codes) = FlattenSeq(pieces)
  BY DEF SeptetsToText, CharsOf, E
<1>9. Reading(codes, E, G)
  <2>1. G[0] = <<>> /\ \A i \in 1 .. n : G[i] = G[i - 1] \o pieces[i]
    <3> HIDE DEF pieces
    <3> QED BY <1>6, <1>7 DEF Flattens
  <2>2. \A i \in 1 .. n : pieces[i] = CharsOf(codes, E, i)
    OBVIOUS
  <2> HIDE DEF pieces
  <2> QED BY <1>5, <2>1, <2>2 DEF Reading
<1> QED BY <1>5, <1>7, <1>8, <1>9

\* A position of a piece of codes.
LEMMA PieceOf ==
    ASSUME NEW S, NEW s \in Seq(S), NEW a \in 0 .. Len(s), NEW b \in a .. Len(s)
    PROVE  /\ SubSeq(s, a + 1, b) \in Seq(S)
           /\ Len(SubSeq(s, a + 1, b)) = b - a
           /\ \A i \in 1 .. b - a : SubSeq(s, a + 1, b)[i] = s[a + i]
<1>1. Len(s) \in Nat /\ a \in Nat /\ b \in Nat /\ a <= b /\ b <= Len(s)
  OBVIOUS
<1>2. \A i \in a + 1 .. b : s[i] \in S
  <2>1. \A i \in a + 1 .. b : i \in 1 .. Len(s)
    BY <1>1
  <2> QED BY <2>1, ElementOfSeq
<1>3. a + 1 \in Int /\ b \in Int
  BY <1>1
<1>4. /\ SubSeq(s, a + 1, b) \in Seq(S)
      /\ Len(SubSeq(s, a + 1, b)) = IF a + 1 <= b THEN b - (a + 1) + 1 ELSE 0
      /\ \A i \in 1 .. b - (a + 1) + 1 : SubSeq(s, a + 1, b)[i] = s[(a + 1) + i - 1]
  BY <1>2, <1>3, SubSeqProperties
<1>5. (IF a + 1 <= b THEN b - (a + 1) + 1 ELSE 0) = b - a /\ b - (a + 1) + 1 = b - a
  BY <1>1
<1>6. \A i \in 1 .. b - a : (a + 1) + i - 1 = a + i
  BY <1>1
<1> QED BY <1>4, <1>5, <1>6

\* Concatenating texts.
LEMMA TextsAssociate ==
    \A s, t, u \in Seq(Nat) : (s \o t) \o u = s \o (t \o u)
BY ConcatAssociative

\* A piece that neither starts nor ends behind an ESC is read like the whole.
LEMMA ReadingPiece ==
    ASSUME NEW codes \in Seq(Septets),
           NEW E \in [0 .. Len(codes) -> BOOLEAN], NEW G \in [0 .. Len(codes) -> Seq(Nat)],
           Reading(codes, E, G),
           NEW a \in 0 .. Len(codes), NEW b \in a .. Len(codes), E[a] = FALSE, E[b] = FALSE
    PROVE  G[b] = G[a] \o SeptetsToText(SubSeq(codes, a + 1, b))
<1> DEFINE c == SubSeq(codes, a + 1, b)
           m == b - a
           n == Len(codes)
<1> HIDE DEF c, m, n
<1>1. n \in Nat /\ a \in Nat /\ b \in Nat /\ a <= b /\ b <= n /\ m \in Nat /\ a + m = b
  BY DEF m, n
<1>2. c \in Seq(Septets) /\ Len(c) = m /\ \A i \in 1 .. m : c[i] = codes[a + i]
  BY PieceOf DEF c, m
<1>3. PICK E2 \in [0 .. m -> BOOLEAN], G2 \in [0 .. m -> Seq(Nat)] :
         Reading(c, E2, G2) /\ SeptetsToText(c) = G2[m]
  BY <1>2, ReadingIs
<1>4. /\ E2[0] = FALSE /\ G2[0] = <<>>
      /\ \A i \in 1 .. m :
           /\ E2[i] = (c[i] = ESC /\ i < m /\ ~E2[i - 1])
           /\ G2[i] = G2[i - 1] \o CharsOf(c, E2, i)
  BY <1>2, <1>3 DEF Reading
<1>5. \A i \in 1 .. n :
        /\ E[i] = (codes[i] = ESC /\ i < n /\ ~E[i - 1])
        /\ G[i] = G[i - 1] \o CharsOf(codes, E, i)
  BY DEF Reading, n
<1>6. \A i \in 0 .. n : G[i] \in Seq(Nat) /\ E[i] \in BOOLEAN
  BY DEF n
<1> DEFINE T == {i \in 0 .. m : E2[i] = E[a + i] /\ G[a + i] = G[a] \o G2[i]}
<1>7. 0 \in T
  <2>1. a + 0 = a /\ G[a] \in Seq(Nat)
    BY <1>1, <1>6
  <2>2. G[a] \o <<>> = G[a]
    BY <2>1, ConcatEmptySeq
  <2>3. E2[0] = E[a + 0] /\ G[a + 0] = G[a] \o G2[0]
    BY <1>4, <2>1, <2>2, Zenon
  <2>4. 0 \in 0 .. m
    BY <1>1
  <2> QED BY <2>3, <2>4, Zenon
<1>8. ASSUME NEW i \in 0 .. m - 1, i \in T PROVE i + 1 \in T
  <2> DEFINE l == i + 1
             k == a + l
  <2>1. /\ l \in 1 .. m /\ l - 1 = i /\ k \in 1 .. n /\ k - 1 = a + i /\ i \in 0 .. m
        /\ l \in 0 .. m /\ a \in 0 .. n
    BY <1>1
  <2>2. l < m => k < n
    BY <1>1
  <2>3. ~(l < m) => l = m /\ k = b
    BY <1>1, <2>1
  <2> HIDE DEF l, k
  <2>4. c[l] = codes[k]
    BY <1>2, <2>1 DEF k
  <2>5. E2[i] = E[k - 1] /\ G[k - 1] = G[a] \o G2[i]
    BY <1>8, <2>1
  <2>6. E2[l] = E[k]
    <3>1. CASE l < m
      <4>1. E2[l] = (c[l] = ESC /\ l < m /\ ~E2[i])
        BY <1>4, <2>1
      <4>2. E[k] = (codes[k] = ESC /\ k < n /\ ~E[k - 1])
        BY <1>5, <2>1
      <4> QED BY <2>2, <2>4, <2>5, <3>1, <4>1, <4>2
    <3>2. CASE ~(l < m)
      <4>1. E2[l] = FALSE
        <5>1. E2[l] = (c[l] = ESC /\ l < m /\ ~E2[i])
          BY <1>4, <2>1
        <5> QED BY <3>2, <5>1
      <4> QED BY <2>3, <3>2, <4>1
    <3> QED BY <3>1, <3>2
  <2>7. CharsOf(c, E2, l) = CharsOf(codes, E, k)
    <3>1. E2[l - 1] = E[k - 1]
      BY <2>1, <2>5
    <3> QED BY <2>4, <2>6, <3>1 DEF CharsOf
  <2>8. CharsOf(codes, E, k) \in Seq(Nat)
    <3>1. codes[k] \in Septets
      BY <2>1, ElementOfSeq DEF n
    <3>2. ExtChar(codes[k]) \in Nat /\ GSM7_BASIC[codes[k] + 1] \in Nat
      BY <3>1, CharType
    <3>3. <<>> \in Seq(Nat) /\ <<ExtChar(codes[k])>> \in Seq(Nat) /\ <<GSM7_BASIC[codes[k] + 1]>> \in Seq(Nat)
      BY <3>2
    <3> QED BY <3>3 DEF CharsOf
  <2>9. G[k] = G[a] \o G2[l]
    <3> DEFINE x == CharsOf(codes, E, k)
    <3> HIDE DEF x
    <3>1. G[k] = (G[a] \o G2[i]) \o x
      BY <1>5, <2>1, <2>5 DEF x
    <3>2. G2[l] = G2[i] \o x
      BY <1>4, <2>1, <2>7 DEF x
    <3>3. G[a] \in Seq(Nat) /\ G2[i] \in Seq(Nat) /\ x \in Seq(Nat)
      BY <1>6, <2>1, <2>8 DEF x
    <3>4. (G[a] \o G2[i]) \o x = G[a] \o (G2[i] \o x)
      BY <3>3, TextsAssociate, Zenon
    <3> QED BY <3>1, <3>2, <3>4
  <2>10. l \in T
    BY <2>1, <2>6, <2>9 DEF k
  <2> QED BY <2>10 DEF l
<1>9. m \in T
  <2> HIDE DEF T
  <2>1. \A i \in 0 .. m : i \in T
    BY <1>1, <1>7, <1>8, UpTo
  <2> QED BY <1>1, <2>1
<1> QED BY <1>1, <1>3, <1>9 DEF c

\* Texts without ESC in the alphabet.
Plainly(text) ==
    /\ text \in Seq(Nat) /\ InGsm7(text)
    /\ \A i \in 1 .. Len(text) : text[i] # ESC

\* The codes of a text.
LEMMA CodesType ==
    ASSUME NEW text \in Seq(Nat), InGsm7(text)
    PROVE  /\ TextToSeptetCodes(text) \in Seq(Septets)
           /\ [i \in 1 .. Len(text) |-> SeptetCodes(text[i])] \in Seq(Seq(Septets))
           /\ Len([i \in 1 .. Len(text) |-> SeptetCodes(text[i])]) = Len(text)
<1> DEFINE n == Len(text)
           pieces == [i \in 1 .. n |-> SeptetCodes(text[i])]
<1>1. n \in Nat
  OBVIOUS
<1>2. ASSUME NEW i \in 1 .. n PROVE SeptetCodes(text[i]) \in Seq(Septets)
  BY SeptetCodesIs DEF InGsm7
<1>3. pieces \in Seq(Seq(Septets)) /\ Len(pieces) = n
  <2>2. pieces \in [1 .. n -> Seq(Septets)]
    BY <1>2
  <2> HIDE DEF pieces, n
  <2>3. pieces \in Seq(Seq(Septets))
    BY <1>1, <2>2, SeqDef
  <2>4. DOMAIN pieces = 1 .. n
    BY <2>2
  <2> QED BY <1>1, <2>3, <2>4, LenProperties
<1>4. TextToSeptetCodes(text) = FlattenSeq(pieces)
  BY DEF TextToSeptetCodes
<1>5. FlattenSeq(pieces) \in Seq(Septets)
  <2> HIDE DEF pieces
  <2>1. PICK F \in [0 .. n -> Seq(Septets)] : FlattenSeq(pieces) = F[n]
    BY <1>3, FlattenIs
  <2>2. n \in 0 .. n
    BY <1>1
  <2> HIDE DEF n
  <2> QED BY <2>1, <2>2
<1> QED BY <1>3, <1>4, <1>5

\* A text is read back as it was written (septetsToText after
\* textToSeptetCodes).
THEOREM TextReadsBack ==
    ASSUME NEW text, Plainly(text)
    PROVE  SeptetsToText(TextToSeptetCodes(text)) = text
<1> DEFINE n == Len(text)
           pieces == [i \in 1 .. n |-> SeptetCodes(text[i])]
           codes == TextToSeptetCodes(text)
<1>1. text \in Seq(Nat) /\ InGsm7(text) /\ n \in Nat
  BY DEF Plainly
<1>2. codes \in Seq(Septets) /\ pieces \in Seq(Seq(Septets)) /\ Len(pieces) = n
  BY <1>1, CodesType
<1>3. codes = FlattenSeq(pieces)
  BY DEF TextToSeptetCodes
<1>4. ASSUME NEW i \in 1 .. n
      PROVE  \/ \E code \in Septets :
                   pieces[i] = <<code>> /\ code # ESC /\ GSM7_BASIC[code + 1] = text[i]
             \/ \E code \in Septets : pieces[i] = <<ESC, code>> /\ ExtChar(code) = text[i]
  <2>1. text[i] \in BasicChars \cup ExtChars /\ text[i] # ESC
    BY DEF Plainly, InGsm7
  <2>2. pieces[i] = SeptetCodes(text[i])
    OBVIOUS
  <2> HIDE DEF pieces
  <2> QED BY <2>1, <2>2, SeptetCodesIs
<1> HIDE DEF pieces, codes
<1>5. PICK F \in [0 .. n -> Seq(Septets)] : Flattens(F, pieces) /\ codes = F[n]
  BY <1>2, <1>3, FlattenIs
<1>6. PICK E \in [0 .. Len(codes) -> BOOLEAN], G \in [0 .. Len(codes) -> Seq(Nat)] :
         Reading(codes, E, G) /\ SeptetsToText(codes) = G[Len(codes)]
  BY <1>2, ReadingIs
<1>7. \A i \in 1 .. Len(codes) :
         /\ E[i] = (codes[i] = ESC /\ i < Len(codes) /\ ~E[i - 1])
         /\ G[i] = G[i - 1] \o CharsOf(codes, E, i)
  BY <1>6 DEF Reading
<1> DEFINE T == {i \in 0 .. n : E[Len(F[i])] = FALSE /\ G[Len(F[i])] = SubSeq(text, 1, i)}
<1>8. 0 \in T
  <2>1. F[0] = <<>> /\ Len(F[0]) = 0
    BY <1>5 DEF Flattens
  <2>2. SubSeq(text, 1, 0) = <<>>
    BY SubSeqEmpty
  <2>3. E[0] = FALSE /\ G[0] = <<>>
    BY <1>6 DEF Reading
  <2>4. 0 \in 0 .. n
    BY <1>1
  <2> QED BY <2>1, <2>2, <2>3, <2>4
<1>9. ASSUME NEW j \in 0 .. n - 1, j \in T PROVE j + 1 \in T
  <2> DEFINE i == j + 1
  <2>1. i \in 1 .. n /\ i - 1 = j /\ i \in 0 .. n
    BY <1>1
  <2> HIDE DEF i, n
  <2> DEFINE a == Len(F[j])
  <2>2. /\ F[j] \in Seq(Septets) /\ F[i] \in Seq(Septets) /\ pieces[i] \in Seq(Septets)
        /\ Len(F[i]) = a + Len(pieces[i]) /\ Len(F[i]) <= Len(codes)
        /\ \A k \in 1 .. Len(pieces[i]) : codes[a + k] = pieces[i][k]
    <3>1. i \in 1 .. Len(pieces)
      BY <1>2, <2>1
    <3>2. F \in [0 .. Len(pieces) -> Seq(Septets)] /\ Flattens(F, pieces)
      BY <1>2, <1>5
    <3>3. /\ F[i - 1] \in Seq(Septets) /\ F[i] \in Seq(Septets) /\ pieces[i] \in Seq(Septets)
          /\ Len(F[i]) = Len(F[i - 1]) + Len(pieces[i]) /\ Len(F[i]) <= Len(F[Len(pieces)])
          /\ \A k \in 1 .. Len(pieces[i]) : F[Len(pieces)][Len(F[i - 1]) + k] = pieces[i][k]
      <4>1. PieceAt(Septets, F, pieces, i)
        BY <1>2, <3>1, <3>2, FlattenPieces
      <4> QED BY <4>1 DEF PieceAt
    <3>4. F[Len(pieces)] = codes
      BY <1>2, <1>5
    <3> QED BY <2>1, <3>3, <3>4
  <2>3. a \in Nat /\ Len(codes) \in Nat
    BY <1>2, <2>2
  <2>4. E[a] = FALSE /\ G[a] = SubSeq(text, 1, j)
    BY <1>9
  <2> HIDE DEF a
  <2>5. text[i] \in Nat /\ SubSeq(text, 1, i) = SubSeq(text, 1, j) \o <<text[i]>>
    <3>1. text[i] \in Nat
      BY <1>1, <2>1, ElementOfSeq DEF n
    <3>2. 1 \in 1 .. Len(text) /\ i \in 1 .. Len(text)
      BY <1>1, <2>1 DEF n
    <3>3. SubSeq(text, 1, i) = SubSeq(text, 1, i - 1) \o <<text[i]>>
      BY <1>1, <3>2, SubSeqRecursiveSecond
    <3> QED BY <2>1, <3>1, <3>3
  <2>6. CASE \E code \in Septets :
                pieces[i] = <<code>> /\ code # ESC /\ GSM7_BASIC[code + 1] = text[i]
    <3>1. PICK code \in Septets : pieces[i] = <<code>> /\ code # ESC /\ GSM7_BASIC[code + 1] = text[i]
      BY <2>6
    <3>2. Len(pieces[i]) = 1 /\ pieces[i][1] = code
      BY <3>1
    <3>3. Len(F[i]) = a + 1 /\ a + 1 \in 1 .. Len(codes) /\ (a + 1) - 1 = a /\ codes[a + 1] = code
      BY <2>2, <2>3, <3>2
    <3>4. E[a + 1] = FALSE
      BY <1>7, <3>1, <3>3
    <3>5. CharsOf(codes, E, a + 1) = <<text[i]>>
      BY <2>4, <3>1, <3>3, <3>4 DEF CharsOf
    <3>6. G[a + 1] = SubSeq(text, 1, i)
      BY <1>7, <2>4, <2>5, <3>3, <3>5
    <3> QED BY <2>1, <3>3, <3>4, <3>6 DEF i
  <2>7. CASE \E code \in Septets : pieces[i] = <<ESC, code>> /\ ExtChar(code) = text[i]
    <3>1. PICK code \in Septets : pieces[i] = <<ESC, code>> /\ ExtChar(code) = text[i]
      BY <2>7
    <3>2. Len(pieces[i]) = 2 /\ pieces[i][1] = ESC /\ pieces[i][2] = code
      BY <3>1
    <3>3. /\ Len(F[i]) = a + 2 /\ a + 1 \in 1 .. Len(codes) /\ (a + 1) - 1 = a
          /\ a + 2 \in 1 .. Len(codes) /\ (a + 2) - 1 = a + 1 /\ a + 1 < Len(codes)
      BY <2>2, <2>3, <3>2
    <3>8. codes[a + 1] = ESC /\ codes[a + 2] = code
      BY <2>2, <3>2
    <3>4. E[a + 1] = TRUE /\ E[a + 2] = FALSE
      <4>1. E[a + 1] = (codes[a + 1] = ESC /\ a + 1 < Len(codes) /\ ~E[a])
        BY <1>7, <3>3
      <4>2. E[a + 2] = (codes[a + 2] = ESC /\ a + 2 < Len(codes) /\ ~E[a + 1])
        BY <1>7, <3>3
      <4> QED BY <2>4, <3>3, <3>8, <4>1, <4>2
    <3>5. CharsOf(codes, E, a + 1) = <<>> /\ CharsOf(codes, E, a + 2) = <<text[i]>>
      BY <2>4, <3>1, <3>3, <3>4, <3>8 DEF CharsOf
    <3>6. G[a + 1] = SubSeq(text, 1, j)
      <4>1. G[a + 1] = G[a] \o <<>>
        BY <1>7, <3>3, <3>5
      <4>2. G[a] \in Seq(Nat)
        <5>1. a \in 0 .. Len(codes)
          BY <2>3, <3>3
        <5> QED BY <5>1, <1>6
      <4> QED BY <2>4, <4>1, <4>2, ConcatEmptySeq
    <3>7. G[a + 2] = SubSeq(text, 1, i)
      BY <1>7, <2>5, <3>3, <3>5, <3>6
    <3> QED BY <2>1, <3>3, <3>4, <3>7 DEF i
  <2> QED BY <1>4, <2>1, <2>6, <2>7
<1>10. n \in T
  <2> HIDE DEF T, n
  <2>1. \A i \in 0 .. n : i \in T
    BY <1>1, <1>8, <1>9, UpTo
  <2> QED BY <1>1, <2>1
<1>11. G[Len(codes)] = SubSeq(text, 1, n)
  BY <1>5, <1>10
<1>12. SubSeq(text, 1, n) = text
  BY <1>1, SubSeqFull
<1> QED BY <1>6, <1>11, <1>12 DEF codes

\* A sequence that grows along the pieces is what they make up.
LEMMA Joins ==
    ASSUME NEW S, NEW seqs \in Seq(Seq(S)), NEW H, Flattens(H, seqs)
    PROVE  FlattenSeq(seqs) = H[Len(seqs)]
<1> DEFINE n == Len(seqs)
<1>1. PICK F \in [0 .. n -> Seq(S)] : Flattens(F, seqs) /\ FlattenSeq(seqs) = F[n]
  BY FlattenIs
<1>2. n \in Nat
  OBVIOUS
<1> DEFINE T == {i \in 0 .. n : F[i] = H[i]}
<1>3. 0 \in T
  BY <1>1, <1>2 DEF Flattens
<1>4. ASSUME NEW i \in 0 .. n - 1, i \in T PROVE i + 1 \in T
  <2>1. i + 1 \in 1 .. n /\ (i + 1) - 1 = i /\ i + 1 \in 0 .. n
    BY <1>2
  <2>2. F[i + 1] = F[i] \o seqs[i + 1] /\ H[i + 1] = H[i] \o seqs[i + 1]
    <3>1. F[i + 1] = F[(i + 1) - 1] \o seqs[i + 1] /\ H[i + 1] = H[(i + 1) - 1] \o seqs[i + 1]
      BY <1>1, <2>1 DEF Flattens
    <3> QED BY <2>1, <3>1
  <2> QED BY <1>4, <2>1, <2>2
<1>5. n \in T
  <2> HIDE DEF T, n
  <2>1. \A i \in 0 .. n : i \in T
    BY <1>2, <1>3, <1>4, UpTo
  <2> QED BY <1>2, <2>1
<1> QED BY <1>1, <1>5

----------------------------------------------------------------------------
(* The pieces of a text, put together.                                     *)

\* Where the i-th piece ends.
Cut(size, length, i) == IF size * i < length THEN size * i ELSE length

CutAt(items, size, i) ==
    /\ Cut(size, Len(items), i - 1) = size * (i - 1)
    /\ Cut(size, Len(items), i - 1) \in 0 .. Len(items)
    /\ Cut(size, Len(items), i) \in Cut(size, Len(items), i - 1) .. Len(items)
    /\ ChunkArray(items, size)[i]
         = SubSeq(items, Cut(size, Len(items), i - 1) + 1, Cut(size, Len(items), i))

\* Pieces are cut one after the other (chunkArray).
LEMMA CutsAre ==
    ASSUME NEW S, NEW items \in Seq(S), NEW size \in Nat \ {0}
    PROVE  LET n == Len(ChunkArray(items, size)) IN
           /\ n \in Nat
           /\ ChunkArray(items, size) \in Seq(Seq(S))
           /\ Cut(size, Len(items), 0) = 0 /\ Cut(size, Len(items), n) = Len(items)
           /\ \A i \in 1 .. n : CutAt(items, size, i)
<1> DEFINE n == (Len(items) + size - 1) \div size
           pieces == ChunkArray(items, size)
           l == Len(items)
<1>1. l \in Nat /\ l + size - 1 \in Nat
  OBVIOUS
<1>2. n \in Nat /\ size * n <= l + size - 1 /\ l + size - 1 < size * n + size
  BY <1>1, DivBounds
<1>3. pieces = [i \in 1 .. n |-> SubSeq(items, size * (i - 1) + 1, Cut(size, l, i))]
  BY DEF ChunkArray, Cut
<1>4. Len(pieces) = n /\ pieces \in Seq(Seq(S))
  <2>1. Len(pieces) = n
    <3> HIDE DEF n
    <3> QED BY <1>2, <1>3
  <2>2. pieces = [i \in 1 .. n |-> pieces[i]]
    BY <1>3
  <2>3. \A i \in 1 .. n : pieces[i] \in Seq(S)
    <3> HIDE DEF pieces, n
    <3> QED BY <2>1, PiecesHoldAll DEF pieces
  <2> HIDE DEF pieces, n
  <2>4. pieces \in [1 .. n -> Seq(S)]
    BY <2>2, <2>3
  <2> QED BY <1>2, <2>1, <2>4, SeqDef
<1> HIDE DEF n, l
<1>5. Cut(size, l, 0) = 0
  BY <1>1 DEF Cut
<1>6. Cut(size, l, n) = l
  <2>1. size * n \in Nat
    BY <1>2
  <2>2. ~(size * n < l)
    <3> DEFINE p == size * n
    <3>1. p \in Nat /\ l + size - 1 < p + size
      BY <1>2, <2>1
    <3> HIDE DEF p
    <3>2. ~(p < l)
      BY <1>1, <3>1
    <3> QED BY <3>2 DEF p
  <2> QED BY <2>2 DEF Cut
<1>7. ASSUME NEW i \in 1 .. n PROVE CutAt(items, size, i)
  <2> DEFINE before == size * (i - 1)
  <2>1. before \in Nat /\ size * i = before + size
    BY <1>2
  <2>2. before < l
    <3>1. size * i <= size * n
      BY <1>2
    <3>2. size * i \in Nat /\ size * n \in Nat
      BY <1>2
    <3> DEFINE p == size * n  q == size * i
    <3>3. p \in Nat /\ q <= p /\ q = before + size /\ p <= l + size - 1
      BY <1>2, <2>1, <3>1, <3>2
    <3> HIDE DEF before, p, q
    <3> QED BY <1>1, <2>1, <3>3
  <2>3. Cut(size, l, i - 1) = before
    BY <2>2 DEF Cut
  <2>4. Cut(size, l, i) = IF before + size < l THEN before + size ELSE l
    BY <2>1 DEF Cut
  <2>5. pieces[i] = SubSeq(items, before + 1, Cut(size, l, i))
    BY <1>3
  <2> HIDE DEF before, pieces
  <2>6. before \in 0 .. l /\ Cut(size, l, i) \in before .. l
    BY <1>1, <2>1, <2>2, <2>4
  <2> QED BY <2>3, <2>5, <2>6 DEF CutAt, before, pieces, l
<1> QED BY <1>2, <1>4, <1>5, <1>6, <1>7 DEF l

\* The pieces make up what was split.
LEMMA ChunksJoin ==
    ASSUME NEW S, NEW items \in Seq(S), NEW size \in Nat \ {0}
    PROVE  FlattenSeq(ChunkArray(items, size)) = items
<1> DEFINE pieces == ChunkArray(items, size)
           n == Len(pieces)
           cut(i) == Cut(size, Len(items), i)
           H == [i \in 0 .. n |-> SubSeq(items, 1, cut(i))]
<1>1. /\ n \in Nat /\ pieces \in Seq(Seq(S))
      /\ cut(0) = 0 /\ cut(n) = Len(items)
      /\ \A i \in 1 .. n : CutAt(items, size, i)
  BY CutsAre
<1>2. Len(items) \in Nat
  OBVIOUS
<1>3. H[0] = <<>>
  <2>1. H[0] = SubSeq(items, 1, 0)
    <3> HIDE DEF n, cut
    <3> QED BY <1>1
  <2>2. SubSeq(items, 1, 0) = <<>>
    BY SubSeqEmpty
  <2> HIDE DEF H
  <2> QED BY <2>1, <2>2
<1>4. ASSUME NEW i \in 1 .. n PROVE H[i] = H[i - 1] \o pieces[i]
  <2>1. /\ cut(i - 1) \in 0 .. Len(items) /\ cut(i) \in cut(i - 1) .. Len(items)
        /\ pieces[i] = SubSeq(items, cut(i - 1) + 1, cut(i))
    BY <1>1 DEF CutAt
  <2>2. i \in 0 .. n /\ i - 1 \in 0 .. n
    BY <1>1
  <2>3. H[i] = SubSeq(items, 1, cut(i)) /\ H[i - 1] = SubSeq(items, 1, cut(i - 1))
    BY <2>2
  <2> HIDE DEF H, n, pieces, cut
  <2>4. 1 \in 1 .. Len(items) + 1 /\ cut(i - 1) \in 1 - 1 .. Len(items)
    BY <1>2, <2>1
  <2>5. SubSeq(items, 1, cut(i - 1)) \o SubSeq(items, cut(i - 1) + 1, cut(i)) = SubSeq(items, 1, cut(i))
    BY <2>1, <2>4, ConcatAdjacentSubSeq
  <2> QED BY <2>1, <2>3, <2>5
<1>5. H[n] = items
  <2>1. H[n] = SubSeq(items, 1, Len(items))
    <3> HIDE DEF n, cut
    <3> QED BY <1>1
  <2> QED BY <2>1, SubSeqFull
<1> HIDE DEF H, pieces
<1>6. Flattens(H, pieces)
  BY <1>3, <1>4 DEF Flattens
<1>7. FlattenSeq(pieces) = H[Len(pieces)]
  BY <1>1, <1>6, Joins
<1> QED BY <1>5, <1>7 DEF pieces

\* The texts of the parts make up the text, when no ESC ends a part that is
\* not the last one.
LEMMA TextsJoin ==
    ASSUME NEW text, Plainly(text),
           LET codes == TextToSeptetCodes(text) IN
             \A i \in 1 .. Len(codes) : i % GSM7_MULTI_MAX = 0 => codes[i] # ESC
    PROVE  LET chunks == ChunkArray(TextToSeptetCodes(text), GSM7_MULTI_MAX) IN
           FlattenSeq([i \in 1 .. Len(chunks) |-> SeptetsToText(chunks[i])]) = text
<1> DEFINE codes == TextToSeptetCodes(text)
           size == GSM7_MULTI_MAX
           chunks == ChunkArray(codes, size)
           n == Len(chunks)
           cut(i) == Cut(size, Len(codes), i)
           texts == [i \in 1 .. n |-> SeptetsToText(chunks[i])]
<1>1. codes \in Seq(Septets) /\ Len(codes) \in Nat
  BY CodesType DEF Plainly
<1>2. SeptetsToText(codes) = text
  BY TextReadsBack
<1>3. \A i \in 1 .. Len(codes) : i % size = 0 => codes[i] # ESC
  OBVIOUS
<1>4. size = 153 /\ size \in Nat \ {0}
  BY DEF GSM7_MULTI_MAX
<1> HIDE DEF codes, size
<1>5. /\ n \in Nat /\ chunks \in Seq(Seq(Septets))
      /\ cut(0) = 0 /\ cut(n) = Len(codes)
      /\ \A i \in 1 .. n : CutAt(codes, size, i)
  BY <1>1, <1>4, CutsAre
<1>6. PICK E \in [0 .. Len(codes) -> BOOLEAN], G \in [0 .. Len(codes) -> Seq(Nat)] :
         Reading(codes, E, G) /\ SeptetsToText(codes) = G[Len(codes)]
  BY <1>1, ReadingIs
<1> DEFINE H == [i \in 0 .. n |-> G[cut(i)]]
<1>7. texts \in Seq(Seq(Nat)) /\ Len(texts) = n
  <2>1. ASSUME NEW c \in Seq(Septets) PROVE SeptetsToText(c) \in Seq(Nat)
    <3>1. PICK F \in [0 .. Len(c) -> Seq(Nat)] : SeptetsToText(c) = F[Len(c)]
      BY ReadingIs
    <3>2. Len(c) \in 0 .. Len(c)
      <4>1. Len(c) \in Nat
        OBVIOUS
      <4> QED BY <4>1
    <3> QED BY <3>1, <3>2
  <2>2. \A i \in 1 .. n : chunks[i] \in Seq(Septets)
    <3> HIDE DEF chunks
    <3> QED BY <1>5, ElementOfSeq
  <2> HIDE DEF chunks, n
  <2>3. texts \in [1 .. n -> Seq(Nat)]
    BY <2>1, <2>2
  <2> HIDE DEF texts
  <2>4. texts \in Seq(Seq(Nat))
    BY <1>5, <2>3, SeqDef
  <2>5. DOMAIN texts = 1 .. n
    BY <2>3
  <2> QED BY <1>5, <2>4, <2>5, LenProperties
<1>8. H[0] = <<>>
  <2>1. H[0] = G[0]
    <3> HIDE DEF n, cut
    <3> QED BY <1>5
  <2> QED BY <1>6, <2>1 DEF Reading
<1>9. ASSUME NEW i \in 1 .. n PROVE H[i] = H[i - 1] \o texts[i]
  <2>1. /\ cut(i - 1) \in 0 .. Len(codes) /\ cut(i) \in cut(i - 1) .. Len(codes)
        /\ chunks[i] = SubSeq(codes, cut(i - 1) + 1, cut(i))
    BY <1>5 DEF CutAt
  <2>2. i \in 0 .. n /\ i - 1 \in 0 .. n
    BY <1>5
  <2>3. H[i] = G[cut(i)] /\ H[i - 1] = G[cut(i - 1)] /\ texts[i] = SeptetsToText(chunks[i])
    BY <2>2
  <2>4. \A k \in 0 .. n : cut(k) \in 0 .. Len(codes) => E[cut(k)] = FALSE
    <3> SUFFICES ASSUME NEW k \in 0 .. n, cut(k) \in 0 .. Len(codes) PROVE E[cut(k)] = FALSE
      OBVIOUS
    <3>1. cut(k) = Len(codes) \/ (cut(k) = 153 * k /\ (153 * k) % 153 = 0)
      BY <1>4, <1>5 DEF Cut
    <3>2. /\ E[0] = FALSE
          /\ \A j \in 1 .. Len(codes) : E[j] = (codes[j] = ESC /\ j < Len(codes) /\ ~E[j - 1])
      BY <1>6 DEF Reading
    <3> DEFINE c == cut(k)
    <3>3. c \in 0 .. Len(codes) /\ (c = Len(codes) \/ c % size = 0)
      BY <1>4, <3>1
    <3> HIDE DEF c
    <3>4. E[c] = FALSE
      <4>1. CASE c = 0
        BY <3>2, <4>1
      <4>2. CASE c # 0
        <5>1. c \in 1 .. Len(codes)
          BY <3>3, <4>2
        <5>2. ~(codes[c] = ESC /\ c < Len(codes) /\ ~E[c - 1])
          BY <1>1, <1>3, <3>3, <5>1
        <5> QED BY <3>2, <5>1, <5>2
      <4> QED BY <4>1, <4>2
    <3> QED BY <3>4 DEF c
  <2>5. cut(i) \in 0 .. Len(codes)
    <3> HIDE DEF cut
    <3> QED BY <1>1, <2>1
  <2>6. E[cut(i - 1)] = FALSE /\ E[cut(i)] = FALSE
    BY <2>1, <2>2, <2>4, <2>5
  <2> HIDE DEF H, n, texts, chunks, cut
  <2>7. G[cut(i)] = G[cut(i - 1)] \o SeptetsToText(SubSeq(codes, cut(i - 1) + 1, cut(i)))
    BY <1>1, <1>6, <2>1, <2>6, ReadingPiece
  <2> QED BY <2>1, <2>3, <2>7
<1>10. H[n] = text
  <2>1. H[n] = G[Len(codes)]
    <3> HIDE DEF n, cut
    <3> QED BY <1>5
  <2> QED BY <1>2, <1>6, <2>1 DEF codes
<1> HIDE DEF H, texts, n
<1>11. Flattens(H, texts)
  BY <1>7, <1>8, <1>9 DEF Flattens
<1>12. FlattenSeq(texts) = H[Len(texts)]
  BY <1>7, <1>11, Joins
<1> QED BY <1>7, <1>10, <1>12 DEF texts, n, codes, size

----------------------------------------------------------------------------
(* The parts of a message.                                                 *)

AlphabetOf(text) == IF InGsm7(text) THEN "7bit" ELSE "ucs2"

CodesOf(text) == IF InGsm7(text) THEN TextToSeptetCodes(text) ELSE text

ChunksOf(text) == Chunks(AlphabetOf(text), CodesOf(text))

ConcatOf(text, r, i) ==
    IF Len(ChunksOf(text)) = 1 THEN NULL
    ELSE [reference |-> r, total |-> Len(ChunksOf(text)), seq |-> i]

PartOf(text, r, i) ==
    BuildSubmitPart(EncodeAddress(OwnNumber), AlphabetOf(text), ChunksOf(text)[i], ConcatOf(text, r, i))

\* encodeSubmitPdu, part by part.
LEMMA PartsAre ==
    ASSUME NEW text, NEW r, Len(ChunksOf(text)) \in Nat
    PROVE  LET parts == EncodeSubmitPdu(OwnNumber, text, r) IN
           /\ parts = [i \in 1 .. Len(ChunksOf(text)) |-> PartOf(text, r, i)]
           /\ Len(parts) = Len(ChunksOf(text))
<1> DEFINE parts == EncodeSubmitPdu(OwnNumber, text, r)
           n == Len(ChunksOf(text))
<1>1. parts = [i \in 1 .. n |-> PartOf(text, r, i)]
  BY DEF EncodeSubmitPdu, PartOf, ConcatOf, ChunksOf, CodesOf, AlphabetOf
<1> HIDE DEF parts, n
<1>2. Len(parts) = n
  <2>1. n \in Nat
    BY DEF n
  <2> QED BY <1>1, <2>1
<1> QED BY <1>1, <1>2 DEF parts, n

\* A character takes two septets at most.
LEMMA CodesBound ==
    ASSUME NEW text \in Seq(Nat), InGsm7(text)
    PROVE  Len(TextToSeptetCodes(text)) <= 2 * Len(text)
<1> DEFINE n == Len(text)
           pieces == [i \in 1 .. n |-> SeptetCodes(text[i])]
<1>1. n \in Nat
  OBVIOUS
<1>2. pieces \in Seq(Seq(Septets)) /\ Len(pieces) = n
  BY CodesType
<1>3. ASSUME NEW i \in 1 .. n PROVE Len(pieces[i]) \in 1 .. 2
  BY SeptetCodesIs DEF InGsm7
<1>4. TextToSeptetCodes(text) = FlattenSeq(pieces)
  BY DEF TextToSeptetCodes
<1> HIDE DEF pieces, n
<1>5. PICK F \in [0 .. Len(pieces) -> Seq(Septets)] :
        Flattens(F, pieces) /\ FlattenSeq(pieces) = F[Len(pieces)]
  BY <1>2, FlattenIs
<1>6. \A i \in 1 .. Len(pieces) : PieceAt(Septets, F, pieces, i)
  BY <1>2, <1>5, FlattenPieces
<1> DEFINE T == {i \in 0 .. n : Len(F[i]) <= 2 * i}
<1>7. 0 \in T
  <2>1. Len(F[0]) = 0
    BY <1>5 DEF Flattens
  <2> QED BY <1>1, <2>1
<1>8. ASSUME NEW i \in 0 .. n - 1, i \in T PROVE i + 1 \in T
  <2> DEFINE j == i + 1
  <2>1. j \in 1 .. n /\ j - 1 = i /\ j \in 0 .. n /\ 2 * j = 2 * i + 2
    BY <1>1
  <2> HIDE DEF j
  <2>2. /\ Len(F[j]) = Len(F[i]) + Len(pieces[j]) /\ F[i] \in Seq(Septets)
    BY <1>2, <1>6, <2>1 DEF PieceAt
  <2>3. Len(pieces[j]) \in 1 .. 2 /\ Len(F[i]) \in Nat
    BY <1>3, <2>1, <2>2
  <2> DEFINE a == Len(F[i])  b == Len(pieces[j])
  <2>4. a <= 2 * i /\ a \in Nat /\ b \in 1 .. 2 /\ Len(F[j]) = a + b
    BY <1>8, <2>2, <2>3
  <2> HIDE DEF a, b
  <2>5. a + b <= 2 * j
    BY <2>1, <2>4
  <2> QED BY <2>1, <2>4, <2>5 DEF j
<1>9. n \in T
  <2> HIDE DEF T
  <2>1. \A i \in 0 .. n : i \in T
    BY <1>1, <1>7, <1>8, UpTo
  <2> QED BY <1>1, <2>1
<1> QED BY <1>2, <1>4, <1>5, <1>9 DEF n

\* The codes of a text of an SMS, and how many parts they make.
LEMMA ChunksFit ==
    ASSUME NEW text \in Seq(Nat), Len(text) <= MaxLength
    PROVE  LET n == Len(ChunksOf(text)) IN
           /\ n \in 1 .. 255
           /\ n = 1 => ChunksOf(text) = <<CodesOf(text)>>
           /\ n = 1 => Len(CodesOf(text)) <= IF InGsm7(text) THEN GSM7_SINGLE_MAX ELSE UCS2_SINGLE_MAX
           /\ n > 1 => /\ ChunksOf(text) =
                            ChunkArray(CodesOf(text), IF InGsm7(text) THEN GSM7_MULTI_MAX
                                                                      ELSE UCS2_MULTI_MAX)
                       /\ Len(CodesOf(text)) > IF InGsm7(text) THEN GSM7_SINGLE_MAX ELSE UCS2_SINGLE_MAX
           /\ CodesOf(text) \in IF InGsm7(text) THEN Seq(Septets) ELSE Seq(Nat)
<1> DEFINE codes == CodesOf(text)
           l == Len(codes)
<1>1. CASE InGsm7(text)
  <2>1. codes \in Seq(Septets) /\ l <= 2 * Len(text)
    BY <1>1, CodesType, CodesBound DEF CodesOf
  <2>2. l \in Nat /\ l <= 1280
    <3>1. Len(text) \in Nat /\ Len(text) <= 640
      BY DEF MaxLength
    <3>2. l \in Nat
      BY <2>1
    <3> HIDE DEF l
    <3> QED BY <2>1, <3>1, <3>2
  <2>3. AlphabetOf(text) = "7bit"
    BY <1>1 DEF AlphabetOf
  <2>4. CASE l <= 160
    <3>1. ChunksOf(text) = <<codes>>
      BY <2>3, <2>4 DEF ChunksOf, Chunks, GSM7_SINGLE_MAX
    <3> HIDE DEF codes
    <3>2. Len(ChunksOf(text)) = 1
      BY <3>1
    <3> QED BY <1>1, <2>1, <2>4, <3>1, <3>2 DEF codes, GSM7_SINGLE_MAX
  <2>5. CASE ~(l <= 160)
    <3>1. l > 160
      <4> HIDE DEF l
      <4> QED BY <2>2, <2>5
    <3>2. ChunksOf(text) = ChunkArray(codes, 153)
      BY <2>3, <3>1 DEF ChunksOf, Chunks, GSM7_SINGLE_MAX, GSM7_MULTI_MAX
    <3>3. Len(ChunkArray(codes, 153)) = (l + 153 - 1) \div 153
      <4> DEFINE size == 153
      <4>1. size \in Nat \ {0}
        OBVIOUS
      <4> HIDE DEF codes, size
      <4>2. Len(ChunkArray(codes, size)) = (Len(codes) + size - 1) \div size
        BY <2>1, <4>1, PiecesHoldAll
      <4> QED BY <4>2 DEF size
    <3>4. (l + 153 - 1) \div 153 \in 2 .. 255
      <4> HIDE DEF l
      <4> QED BY <2>2, <3>1
    <3> DEFINE k == Len(ChunksOf(text))
    <3>5. k \in 2 .. 255
      BY <3>2, <3>3, <3>4
    <3> HIDE DEF k, codes
    <3>6. k \in 1 .. 255 /\ k # 1
      BY <3>5
    <3>7. l > 160
      BY <3>1
    <3> QED BY <3>6, <3>7, <1>1, <2>1, <3>2 DEF k, codes, GSM7_SINGLE_MAX, GSM7_MULTI_MAX, UCS2_SINGLE_MAX, UCS2_MULTI_MAX
  <2> QED BY <2>4, <2>5
<1>2. CASE ~InGsm7(text)
  <2>1. codes = text
    BY <1>2 DEF CodesOf
  <2>2. l \in Nat /\ l <= 640 /\ codes \in Seq(Nat)
    BY <2>1 DEF MaxLength
  <2>3. AlphabetOf(text) = "ucs2"
    BY <1>2 DEF AlphabetOf
  <2>4. CASE l <= 70
    <3>1. ChunksOf(text) = <<codes>>
      BY <2>3, <2>4 DEF ChunksOf, Chunks, UCS2_SINGLE_MAX
    <3> HIDE DEF codes
    <3>2. Len(ChunksOf(text)) = 1
      BY <3>1
    <3> QED BY <1>2, <2>2, <2>4, <3>1, <3>2 DEF codes, UCS2_SINGLE_MAX
  <2>5. CASE ~(l <= 70)
    <3>1. l > 70
      <4> HIDE DEF l
      <4> QED BY <2>2, <2>5
    <3>2. ChunksOf(text) = ChunkArray(codes, 67)
      BY <2>3, <3>1 DEF ChunksOf, Chunks, UCS2_SINGLE_MAX, UCS2_MULTI_MAX
    <3>3. Len(ChunkArray(codes, 67)) = (l + 67 - 1) \div 67
      <4> DEFINE size == 67
      <4>1. size \in Nat \ {0}
        OBVIOUS
      <4> HIDE DEF codes, size
      <4>2. Len(ChunkArray(codes, size)) = (Len(codes) + size - 1) \div size
        BY <2>2, <4>1, PiecesHoldAll
      <4> QED BY <4>2 DEF size
    <3>4. (l + 67 - 1) \div 67 \in 2 .. 255
      <4> HIDE DEF l
      <4> QED BY <2>2, <3>1
    <3> DEFINE k == Len(ChunksOf(text))
    <3>5. k \in 2 .. 255
      BY <3>2, <3>3, <3>4
    <3> HIDE DEF k, codes
    <3>6. k \in 1 .. 255 /\ k # 1
      BY <3>5
    <3>7. l > 70
      BY <3>1
    <3> QED BY <3>6, <3>7, <1>2, <2>2, <3>2 DEF k, codes, GSM7_SINGLE_MAX, GSM7_MULTI_MAX, UCS2_SINGLE_MAX, UCS2_MULTI_MAX
  <2> QED BY <2>4, <2>5
<1> QED BY <1>1, <1>2

\* Every part is one that buildSubmitPart takes.
LEMMA PartsInput ==
    ASSUME NEW text \in Seq(Nat), Len(text) <= MaxLength, NEW r \in Octets,
           NEW i \in 1 .. Len(ChunksOf(text))
    PROVE  PartInput(AlphabetOf(text), ChunksOf(text)[i], ConcatOf(text, r, i))
<1> DEFINE n == Len(ChunksOf(text))
           chunk == ChunksOf(text)[i]
           codes == CodesOf(text)
           S == IF InGsm7(text) THEN Septets ELSE Nat
<1>1. n \in 1 .. 255 /\ codes \in Seq(S)
  BY ChunksFit
<1>2. AlphabetOf(text) = (IF InGsm7(text) THEN "7bit" ELSE "ucs2")
  BY DEF AlphabetOf
<1>3. CASE n = 1
  <2>1. ConcatOf(text, r, i) = NULL
    BY <1>3 DEF ConcatOf
  <2>2. ChunksOf(text) = <<codes>> /\ i = 1
    BY <1>3, ChunksFit
  <2>3. chunk = codes
    <3> HIDE DEF codes
    <3> QED BY <2>2
  <2>4. Len(codes) <= IF InGsm7(text) THEN GSM7_SINGLE_MAX ELSE UCS2_SINGLE_MAX
    BY <1>3, ChunksFit
  <2> HIDE DEF n, chunk, codes
  <2> QED BY <1>1, <1>2, <2>1, <2>3, <2>4 DEF PartInput, chunk
<1>4. CASE n # 1
  <2>1. ConcatOf(text, r, i) = [reference |-> r, total |-> n, seq |-> i]
    BY <1>4 DEF ConcatOf
  <2>2. n > 1
    <3> HIDE DEF n
    <3> QED BY <1>1, <1>4
  <2>3. i \in Octets /\ n \in Octets
    <3>1. n \in 1 .. 255 /\ i \in 1 .. n
      BY <1>1
    <3> HIDE DEF n
    <3> QED BY <3>1 DEF Octets
  <2>4. /\ ConcatOf(text, r, i) \in [reference : Octets, total : Octets, seq : Octets]
        /\ ConcatOf(text, r, i) # NULL
    <3>1. r \in Nat /\ i \in Nat /\ n \in Nat
      BY <2>3 DEF Octets
    <3>2. ConcatOf(text, r, i) \in [reference : Nat, total : Nat, seq : Nat]
      <4> HIDE DEF n
      <4> QED BY <2>1, <3>1
    <3> HIDE DEF n
    <3> QED BY <2>1, <2>3, <3>2, NullAssumption
  <2> DEFINE size == IF InGsm7(text) THEN GSM7_MULTI_MAX ELSE UCS2_MULTI_MAX
  <2>5. ChunksOf(text) = ChunkArray(codes, size)
    BY <2>2, ChunksFit
  <2>6. size \in Nat \ {0}
    BY DEF GSM7_MULTI_MAX, UCS2_MULTI_MAX
  <2>7. chunk \in Seq(S) /\ Len(chunk) <= size
    <3> HIDE DEF size, codes, S
    <3>1. i \in 1 .. Len(ChunkArray(codes, size))
      BY <2>5
    <3>2. ChunkArray(codes, size)[i] \in Seq(S) /\ Len(ChunkArray(codes, size)[i]) \in 1 .. size
      BY <1>1, <2>6, <3>1, PiecesHoldAll
    <3> QED BY <2>5, <2>6, <3>2
  <2> HIDE DEF n, chunk, codes
  <2> QED BY <1>2, <2>4, <2>7 DEF PartInput, chunk
<1> QED BY <1>3, <1>4

\* Every part of every text fits into an SMS.
THEOREM MessageFits ==
    ASSUME NEW text \in Seq(Nat), Len(text) <= MaxLength, NEW r \in Octets
    PROVE  LET parts == EncodeSubmitPdu(OwnNumber, text, r) IN
           /\ Len(parts) \in 1 .. 255
           /\ \A i \in 1 .. Len(parts) :
                /\ parts[i].ud \in Seq(Octets)
                /\ Len(parts[i].ud) <= 140
                /\ parts[i].dcs = 0 => parts[i].udl <= 160 /\ Len(parts[i].ud) = (7 * parts[i].udl + 7) \div 8
                /\ parts[i].dcs # 0 => parts[i].udl = Len(parts[i].ud)
<1> DEFINE parts == EncodeSubmitPdu(OwnNumber, text, r)
           n == Len(ChunksOf(text))
<1>1. n \in 1 .. 255
  BY ChunksFit
<1>2. parts = [i \in 1 .. n |-> PartOf(text, r, i)] /\ Len(parts) = n
  <2>1. n \in Nat
    <3> HIDE DEF n
    <3> QED BY <1>1
  <2> QED BY <2>1, PartsAre
<1>3. ASSUME NEW i \in 1 .. n
      PROVE  /\ parts[i].ud \in Seq(Octets)
             /\ Len(parts[i].ud) <= 140
             /\ parts[i].dcs = 0 => parts[i].udl <= 160 /\ Len(parts[i].ud) = (7 * parts[i].udl + 7) \div 8
             /\ parts[i].dcs # 0 => parts[i].udl = Len(parts[i].ud)
  <2>1. parts[i] = PartOf(text, r, i)
    <3> HIDE DEF parts, n
    <3> QED BY <1>2
  <2>2. PartInput(AlphabetOf(text), ChunksOf(text)[i], ConcatOf(text, r, i))
    BY PartsInput
  <2> HIDE DEF parts
  <2> QED BY <2>1, <2>2, PartFitsOneSms DEF PartOf
<1> HIDE DEF parts, n
<1> QED BY <1>1, <1>2, <1>3 DEF parts

----------------------------------------------------------------------------
(* The inductive invariant.                                                *)

\* Sent messages are in parts as encodeSubmitPdu makes them.
Submitted ==
    /\ submitted = [m \in Messages |-> submitted[m]]
    /\ \A m \in Sent : \E r \in References : submitted[m] = EncodeSubmitPdu(OwnNumber, Body[m], r)

\* What was announced is what the slots hold.
HeardFromRead ==
    read # {} =>
      /\ stage = "online"
      /\ \E stray \in SUBSET Used :
           read = Used \ stray /\ heard = Reassemble(Entries(CmglLines(stray)))

IInv == TypeOK /\ Submitted /\ HeardFromRead

\* Parts have numbers.
LEMMA PartIs ==
    ASSUME TypeOK, Submitted
    PROVE  /\ NULL \notin Part
           /\ \A p \in Part : p.message \in Sent /\ p.seq \in 1 .. Len(submitted[p.message])
           /\ \A m \in Sent : /\ Len(submitted[m]) \in 1 .. 255
                              /\ Body[m] \in Seq(Nat) /\ Len(Body[m]) <= MaxLength
<1>1. ASSUME NEW m \in Sent
      PROVE  /\ Len(submitted[m]) \in 1 .. 255
             /\ Body[m] \in Seq(Nat) /\ Len(Body[m]) <= MaxLength
  <2>1. PICK r \in References : submitted[m] = EncodeSubmitPdu(OwnNumber, Body[m], r)
    BY DEF Submitted
  <2>2. Body[m] \in Seq(Nat) /\ Len(Body[m]) <= MaxLength /\ r \in Octets
    BY BodyAssumption, ReferencesAssumption DEF Sent
  <2> QED BY <2>1, <2>2, MessageFits
<1>2. ASSUME NEW p \in Part
      PROVE  /\ p.message \in Sent /\ p.seq \in 1 .. Len(submitted[p.message])
             /\ p \in [message : Messages, seq : Nat]
  <2>1. PICK m \in Sent : p \in PartsOf(m)
    BY DEF Part
  <2>2. p \in [message : {m}, seq : 1 .. Len(submitted[m])]
    BY <2>1 DEF PartsOf
  <2>3. m \in Messages /\ Len(submitted[m]) \in 1 .. 255
    BY <1>1 DEF Sent
  <2>4. \A s \in 1 .. Len(submitted[m]) : s \in Nat
    BY <2>3
  <2> QED BY <2>2, <2>3, <2>4
<1> QED BY <1>1, <1>2, FreeAssumption

\* It holds at first.
LEMMA InitIInv == Init => IInv
<1> SUFFICES ASSUME Init PROVE IInv
  OBVIOUS
<1>1. Sent = {} /\ Submitted
  <2>1. submitted = [m \in Messages |-> <<>>]
    BY DEF Init
  <2> QED BY <2>1 DEF Submitted, Sent
<1>2. Used = {}
  BY DEF Init, Used
<1>3. TypeOK
  BY <1>1, <1>2 DEF TypeOK, Init
<1> QED BY <1>1, <1>3 DEF IInv, HeardFromRead, Init

\* Announcements have a sender, a text and a time.
LEMMA HeardType ==
    ASSUME NEW entries
    PROVE  \A h \in Reassemble(entries) : DOMAIN h = {"sender", "message", "receivedAt"}
<1> DEFINE singles == {e \in entries : e.sms.concat = NULL}
           keys == {KeyOf(e.sms) : e \in entries \ singles}
           group(key) == {e \in entries \ singles : KeyOf(e.sms) = key}
           single == {[sender |-> e.sms.sender, message |-> e.sms.text,
                       receivedAt |-> e.sms.timestamp] : e \in singles}
           whole == {Combined(group(key)) : key \in keys}
<1>1. Reassemble(entries) \subseteq single \cup whole
  <2>1. Reassemble(entries) = {item \in single \cup whole : ~Blank(item.message)}
    BY DEF Reassemble
  <2> HIDE DEF single, whole
  <2> QED BY <2>1
<1>2. \A h \in single : DOMAIN h = {"sender", "message", "receivedAt"}
  OBVIOUS
<1>3. ASSUME NEW key \in keys
      PROVE  DOMAIN Combined(group(key)) = {"sender", "message", "receivedAt"}
  <2> HIDE DEF group
  <2> QED BY DEF Combined
<1>4. \A h \in whole : DOMAIN h = {"sender", "message", "receivedAt"}
  <2> HIDE DEF keys, group
  <2> QED BY <1>3
<1> HIDE DEF single, whole
<1> QED BY <1>1, <1>2, <1>4

\* Every step keeps the invariant.
LEMMA StepIInv == IInv /\ [Next]_vars => IInv'
<1> SUFFICES ASSUME IInv, [Next]_vars PROVE IInv'
  OBVIOUS
<1> USE DEF IInv
<1>1. ASSUME NEW m \in Messages, NEW r \in References, Send(m, r) PROVE IInv'
  <2>1. /\ stage = "down" /\ m \notin Sent
        /\ submitted' = [submitted EXCEPT ![m] = EncodeSubmitPdu(OwnNumber, Body[m], r)]
        /\ UNCHANGED <<slots, stage, read, heard>>
    BY <1>1 DEF Send
  <2>2. /\ submitted' = [n \in Messages |-> submitted'[n]]
        /\ submitted'[m] = EncodeSubmitPdu(OwnNumber, Body[m], r)
        /\ \A n \in Messages : n # m => submitted'[n] = submitted[n]
    BY <2>1 DEF Submitted
  <2>3. Sent' = Sent \cup {m}
    <3>1. Len(EncodeSubmitPdu(OwnNumber, Body[m], r)) \in 1 .. 255
      <4>1. Body[m] \in Seq(Nat) /\ Len(Body[m]) <= MaxLength /\ r \in Octets
        BY BodyAssumption, ReferencesAssumption
      <4> QED BY <4>1, MessageFits
    <3>2. Len(<<>>) = 0 /\ 0 \notin 1 .. 255
      OBVIOUS
    <3>3. submitted'[m] # <<>>
      BY <2>2, <3>1, <3>2
    <3> QED BY <2>2, <3>3 DEF Sent
  <2>4. Submitted'
    <3>1. ASSUME NEW n \in Sent'
          PROVE  \E s \in References : submitted'[n] = EncodeSubmitPdu(OwnNumber, Body[n], s)
      BY <2>1, <2>2, <2>3 DEF Submitted, Sent
    <3> QED BY <2>2, <3>1 DEF Submitted
  <2>5. Part \subseteq Part'
    <3>1. \A n \in Sent : n \in Sent' /\ PartsOf(n) = PartsOf(n)'
      BY <2>1, <2>2, <2>3 DEF PartsOf, Sent
    <3> QED BY <3>1 DEF Part
  <2>6. read = {} /\ read' = {}
    BY <2>1 DEF HeardFromRead
  <2>7. TypeOK'
    <3>1. Used' = Used
      BY <2>1 DEF Used
    <3>2. slots \in [1 .. Slots -> Part' \cup {NULL}]
      BY <2>5 DEF TypeOK
    <3>3. DOMAIN submitted' = Messages
      BY <2>2
    <3> QED BY <2>1, <3>1, <3>2, <3>3 DEF TypeOK
  <2> QED BY <2>4, <2>6, <2>7 DEF HeardFromRead
<1>2. ASSUME NEW p \in Part, Store(p) PROVE IInv'
  <2> DEFINE free == CHOOSE k \in (1 .. Slots) \ Used : \A j \in (1 .. Slots) \ Used : k <= j
  <2>1. /\ stage = "down" /\ Used # 1 .. Slots
        /\ slots' = [slots EXCEPT ![free] = p]
        /\ UNCHANGED <<submitted, stage, read, heard>>
    BY <1>2 DEF Store
  <2>2. Sent' = Sent /\ Part' = Part
    BY <2>1 DEF Sent, Part, PartsOf
  <2>3. read = {} /\ read' = {}
    BY <2>1 DEF HeardFromRead
  <2>4. free \in (1 .. Slots) \ Used
    <3>1. (1 .. Slots) \ Used \in SUBSET Nat /\ (1 .. Slots) \ Used # {}
      BY <2>1, SlotsAssumption DEF Used
    <3>2. \E k \in (1 .. Slots) \ Used : \A j \in (1 .. Slots) \ Used : k <= j
      BY <3>1, NatMin
    <3> QED BY <3>2
  <2> HIDE DEF free
  <2>5. slots' \in [1 .. Slots -> Part \cup {NULL}]
    BY <2>1, <2>4 DEF TypeOK
  <2>6. TypeOK'
    BY <2>1, <2>2, <2>3, <2>5 DEF TypeOK
  <2>7. Submitted'
    BY <2>1, <2>2 DEF Submitted
  <2> QED BY <2>3, <2>6, <2>7 DEF HeardFromRead
<1>3. ASSUME submitted' = submitted, slots' = slots PROVE Submitted' /\ Part' = Part /\ Used' = Used
             /\ \A stray : CmglLines(stray)' = CmglLines(stray)
  <2>1. Sent' = Sent /\ Part' = Part /\ Used' = Used
    BY <1>3 DEF Sent, Part, PartsOf, Used
  <2>2. Submitted'
    BY <1>3, <2>1 DEF Submitted
  <2>3. \A stray : CmglLines(stray)' = CmglLines(stray)
    BY <1>3 DEF CmglLines, Delivered
  <2> QED BY <2>1, <2>2, <2>3
<1>4. ASSUME Connect PROVE IInv'
  <2>1. read = {} /\ read' = {}
    BY <1>4 DEF Connect, HeardFromRead
  <2> QED BY <1>3, <1>4, <2>1 DEF Connect, TypeOK, HeardFromRead
<1>5. ASSUME CheckMemory PROVE IInv'
  <2>1. stage' \in {"sync", "online"} /\ (stage = "online" => stage' = "online")
        /\ submitted' = submitted /\ heard' = heard
    BY <1>5 DEF CheckMemory
  <2>2. CASE UNCHANGED <<slots, read>>
    <3>1. TypeOK'
      BY <1>3, <2>1, <2>2 DEF TypeOK
    <3>2. HeardFromRead'
      BY <1>3, <2>1, <2>2 DEF HeardFromRead
    <3> QED BY <1>3, <2>1, <2>2, <3>1, <3>2
  <2>3. CASE slots' = [k \in 1 .. Slots |-> NULL] /\ read' = {}
    <3>1. Sent' = Sent /\ Part' = Part
      BY <2>1 DEF Sent, Part, PartsOf
    <3>2. Submitted'
      BY <2>1, <3>1 DEF Submitted
    <3>3. TypeOK'
      BY <2>1, <2>3, <3>1 DEF TypeOK
    <3> QED BY <2>3, <3>2, <3>3 DEF HeardFromRead
  <2> QED BY <1>5, <2>2, <2>3 DEF CheckMemory
<1>6. ASSUME NEW stray \in SUBSET Used, Sync(stray) PROVE IInv'
  <2>1. /\ stage' = "online" /\ read' = Used \ stray
        /\ heard' = Reassemble(Entries(CmglLines(stray)))
        /\ submitted' = submitted /\ slots' = slots
    BY <1>6 DEF Sync
  <2>2. TypeOK'
    BY <1>3, <2>1, HeardType DEF TypeOK
  <2>3. HeardFromRead'
    <3>1. stray \in SUBSET Used' /\ read' = Used' \ stray
      BY <1>3, <2>1
    <3>2. heard' = Reassemble(Entries(CmglLines(stray)'))
      BY <1>3, <2>1
    <3> QED BY <2>1, <3>1, <3>2 DEF HeardFromRead
  <2> QED BY <1>3, <2>1, <2>2, <2>3
<1>7. ASSUME SkipSync PROVE IInv'
  <2>1. read = {} /\ read' = {}
    BY <1>7 DEF SkipSync, HeardFromRead
  <2> QED BY <1>3, <1>7, <2>1 DEF SkipSync, TypeOK, HeardFromRead
<1>8. ASSUME Disconnect PROVE IInv'
  BY <1>3, <1>8 DEF Disconnect, TypeOK, HeardFromRead
<1>9. CASE UNCHANGED vars
  <2>1. UNCHANGED <<submitted, slots, stage, read, heard>>
    BY <1>9 DEF vars
  <2>2. HeardFromRead'
    BY <1>3, <2>1 DEF HeardFromRead
  <2> QED BY <1>3, <2>1, <2>2 DEF TypeOK
<1> QED BY <1>1, <1>2, <1>4, <1>5, <1>6, <1>7, <1>8, <1>9 DEF Next

\* The state is one of the program's: the read slots are in use and hold parts
\* of messages that were sent.
THEOREM TypeCorrect == Spec => []TypeOK
<1>1. IInv => TypeOK
  BY DEF IInv
<1> QED BY InitIInv, StepIInv, <1>1, PTL DEF Spec

\* Whatever the dashboard sends, the network takes every part of it
\* (encodeSubmitPdu).
THEOREM PartsFit == Spec => []FitsOneSms
<1>1. ASSUME IInv PROVE FitsOneSms
  <2> SUFFICES ASSUME NEW m \in Sent
               PROVE  LET parts == submitted[m] IN
                      /\ Len(parts) <= 255
                      /\ \A i \in 1 .. Len(parts) :
                           /\ Len(parts[i].ud) <= 140
                           /\ \A j \in 1 .. Len(parts[i].ud) : parts[i].ud[j] \in Octets
                           /\ IF parts[i].dcs = 0
                              THEN parts[i].udl <= 160 /\ Len(parts[i].ud) = (7 * parts[i].udl + 7) \div 8
                              ELSE parts[i].udl = Len(parts[i].ud)
    BY DEF FitsOneSms
  <2> DEFINE parts == submitted[m]
  <2>1. PICK r \in References : parts = EncodeSubmitPdu(OwnNumber, Body[m], r)
    BY <1>1 DEF IInv, Submitted
  <2>2. Body[m] \in Seq(Nat) /\ Len(Body[m]) <= MaxLength /\ r \in Octets
    BY BodyAssumption, ReferencesAssumption DEF Sent
  <2>3. /\ Len(parts) \in 1 .. 255
        /\ \A i \in 1 .. Len(parts) :
             /\ parts[i].ud \in Seq(Octets)
             /\ Len(parts[i].ud) <= 140
             /\ parts[i].dcs = 0 => parts[i].udl <= 160 /\ Len(parts[i].ud) = (7 * parts[i].udl + 7) \div 8
             /\ parts[i].dcs # 0 => parts[i].udl = Len(parts[i].ud)
    BY <2>1, <2>2, MessageFits
  <2> HIDE DEF parts
  <2>4. ASSUME NEW i \in 1 .. Len(parts), NEW j \in 1 .. Len(parts[i].ud)
        PROVE  parts[i].ud[j] \in Octets
    BY <2>3, ElementOfSeq
  <2>5. Len(parts) <= 255
    <3> DEFINE l == Len(parts)
    <3>1. l \in 1 .. 255
      BY <2>3
    <3> HIDE DEF l
    <3>2. l <= 255
      BY <3>1
    <3> QED BY <3>2 DEF l
  <2> QED BY <2>3, <2>4, <2>5 DEF parts
<1> QED BY InitIInv, StepIInv, <1>1, PTL DEF Spec

----------------------------------------------------------------------------
(* Addresses.                                                              *)

\* Digits are read back as they were written (decodeSemiOctetDigits after
\* encodeSemiOctetDigits).
LEMMA DigitsReadBack ==
    ASSUME NEW digits \in Seq(Digits)
    PROVE  DecodeSemiOctetDigits(EncodeSemiOctetDigits(digits), Len(digits)) = digits
<1> DEFINE l == Len(digits)
           n == (l + 1) \div 2
           bytes == EncodeSemiOctetDigits(digits)
           half(i) == IF i % 2 = 1 THEN bytes[(i + 1) \div 2] % 16 ELSE bytes[i \div 2] \div 16
           pieces == [i \in 1 .. 2 * n |-> IF half(i) = 15 THEN <<>> ELSE <<half(i)>>]
           end(i) == IF i <= l THEN i ELSE l
           H == [i \in 0 .. 2 * n |-> SubSeq(digits, 1, end(i))]
<1>1. l \in Nat /\ n \in Nat /\ 2 * n \in l .. l + 1
  OBVIOUS
<1>2. \A i \in 1 .. l : digits[i] \in 0 .. 9
  BY ElementOfSeq DEF Digits
<1>3. Len(bytes) = n /\ \A j \in 1 .. n :
        bytes[j] = 16 * (IF 2 * j <= l THEN digits[2 * j] ELSE 15) + digits[2 * j - 1]
  <2>1. bytes = [j \in 1 .. n |-> 16 * (IF 2 * j <= l THEN digits[2 * j] ELSE 15) + digits[2 * j - 1]]
    BY DEF EncodeSemiOctetDigits
  <2> HIDE DEF bytes, n, l
  <2> QED BY <1>1, <2>1
<1>4. ASSUME NEW i \in 1 .. 2 * n PROVE half(i) = IF i <= l THEN digits[i] ELSE 15
  <2>1. CASE i % 2 = 1
    <3> DEFINE j == (i + 1) \div 2
    <3>1. j \in 1 .. n /\ 2 * j - 1 = i /\ i <= l
      <4> HIDE DEF l, n
      <4> QED BY <1>1, <2>1
    <3> HIDE DEF j, bytes, n, l
    <3>2. bytes[j] = 16 * (IF 2 * j <= l THEN digits[2 * j] ELSE 15) + digits[i]
      BY <1>3, <3>1
    <3>3. 2 * j <= l => digits[2 * j] \in 0 .. 9
      BY <1>1, <1>2, <3>1
    <3>4. digits[i] \in 0 .. 9
      BY <1>1, <1>2, <3>1
    <3>5. bytes[j] % 16 = digits[i]
      <4> DEFINE x == IF 2 * j <= l THEN digits[2 * j] ELSE 15
      <4>1. x \in 0 .. 15 /\ bytes[j] = 16 * x + digits[i]
        BY <3>2, <3>3
      <4> HIDE DEF x
      <4> QED BY <3>4, <4>1
    <3> QED BY <2>1, <3>1, <3>5 DEF j
  <2>2. CASE i % 2 # 1
    <3> DEFINE j == i \div 2
    <3>1. j \in 1 .. n /\ 2 * j = i /\ 2 * j - 1 \in 1 .. l
      <4> HIDE DEF l, n
      <4> QED BY <1>1, <2>2
    <3> HIDE DEF j, bytes, n, l
    <3>2. bytes[j] = 16 * (IF i <= l THEN digits[i] ELSE 15) + digits[2 * j - 1]
      BY <1>3, <3>1
    <3>3. digits[2 * j - 1] \in 0 .. 9
      BY <1>2, <3>1
    <3>4. i <= l => digits[i] \in 0 .. 9
      BY <1>1, <1>2
    <3>5. bytes[j] \div 16 = IF i <= l THEN digits[i] ELSE 15
      <4> DEFINE x == IF i <= l THEN digits[i] ELSE 15
      <4>1. x \in 0 .. 15 /\ bytes[j] = 16 * x + digits[2 * j - 1]
        BY <3>2, <3>4
      <4> HIDE DEF x
      <4>2. bytes[j] \div 16 = x
        <5> DEFINE y == digits[2 * j - 1]  z == bytes[j]
        <5>1. z = 16 * x + y /\ y \in 0 .. 9 /\ x \in 0 .. 15
          BY <3>3, <4>1
        <5> HIDE DEF y, z
        <5>2. z \div 16 = x
          BY <5>1
        <5> QED BY <5>2 DEF z
      <4> QED BY <4>2 DEF x
    <3> QED BY <2>2, <3>5 DEF j
  <2> QED BY <2>1, <2>2
<1>5. pieces \in Seq(Seq(Nat)) /\ Len(pieces) = 2 * n
  <2>1. ASSUME NEW i \in 1 .. 2 * n PROVE pieces[i] \in Seq(Nat)
    <3>1. i <= l => digits[i] \in 0 .. 9
      BY <1>1, <1>2
    <3>2. half(i) = 15 \/ half(i) \in Nat
      <4> HIDE DEF half, l, n
      <4> QED BY <1>4, <3>1
    <3> HIDE DEF half
    <3> QED BY <3>2
  <2>2. pieces = [i \in 1 .. 2 * n |-> pieces[i]]
    OBVIOUS
  <2> HIDE DEF pieces, n
  <2>3. pieces \in [1 .. 2 * n -> Seq(Nat)]
    BY <2>1, <2>2
  <2>4. 2 * n \in Nat
    BY <1>1
  <2>5. pieces \in Seq(Seq(Nat))
    BY <2>3, <2>4, SeqDef
  <2>6. DOMAIN pieces = 1 .. 2 * n
    BY <2>3
  <2> QED BY <2>4, <2>5, <2>6, LenProperties
<1>6. H[0] = <<>>
  <2>1. H[0] = SubSeq(digits, 1, 0)
    <3> HIDE DEF n, l
    <3> QED BY <1>1
  <2>2. SubSeq(digits, 1, 0) = <<>>
    BY SubSeqEmpty
  <2> HIDE DEF H
  <2> QED BY <2>1, <2>2
<1>7. ASSUME NEW i \in 1 .. 2 * n PROVE H[i] = H[i - 1] \o pieces[i]
  <2>1. i \in 0 .. 2 * n /\ i - 1 \in 0 .. 2 * n
    BY <1>1
  <2>2. H[i] = SubSeq(digits, 1, end(i)) /\ H[i - 1] = SubSeq(digits, 1, end(i - 1))
    BY <2>1
  <2>3. CASE i <= l
    <3>1. end(i) = i /\ end(i - 1) = i - 1
      BY <1>1, <2>3
    <3>2. pieces[i] = <<digits[i]>>
      <4>1. half(i) = digits[i] /\ digits[i] # 15
        <5> HIDE DEF half, n
        <5>1. digits[i] \in 0 .. 9
          BY <1>1, <1>2, <2>3
        <5> QED BY <1>4, <2>3, <5>1
      <4> HIDE DEF half
      <4> QED BY <4>1
    <3>3. SubSeq(digits, 1, i) = SubSeq(digits, 1, i - 1) \o <<digits[i]>>
      <4>1. 1 \in 1 .. Len(digits) /\ i \in 1 .. Len(digits)
        BY <1>1, <2>3
      <4> QED BY <4>1, SubSeqRecursiveSecond
    <3> HIDE DEF H, pieces, end
    <3> QED BY <2>2, <3>1, <3>2, <3>3
  <2>4. CASE ~(i <= l)
    <3>1. end(i) = l /\ end(i - 1) = l
      <4>1. i - 1 = l
        <5> HIDE DEF l, n
        <5> QED BY <1>1, <2>4
      <4> QED BY <2>4, <4>1
    <3>2. pieces[i] = <<>>
      <4>1. half(i) = 15
        <5> HIDE DEF half, n
        <5> QED BY <1>4, <2>4
      <4> HIDE DEF half
      <4> QED BY <4>1
    <3>3. SubSeq(digits, 1, l) = digits
      BY SubSeqFull
    <3>4. digits \o <<>> = digits
      BY ConcatEmptySeq
    <3> HIDE DEF H, pieces, end, l
    <3> QED BY <2>2, <3>1, <3>2, <3>3, <3>4
  <2> QED BY <2>3, <2>4
<1>8. H[2 * n] = digits
  <2>1. H[2 * n] = SubSeq(digits, 1, l)
    <3>1. 2 * n \in 0 .. 2 * n /\ (2 * n <= l => 2 * n = l)
      BY <1>1
    <3> HIDE DEF n, l
    <3> QED BY <3>1
  <2> QED BY <2>1, SubSeqFull
<1>9. FlattenSeq(pieces) = digits
  <2> HIDE DEF H, pieces
  <2>1. Flattens(H, pieces)
    BY <1>5, <1>6, <1>7 DEF Flattens
  <2> QED BY <1>5, <1>8, <2>1, Joins
<1>10. DecodeSemiOctetDigits(bytes, l)
         = SubSeq(FlattenSeq(pieces), 1,
                  IF l < Len(FlattenSeq(pieces)) THEN l ELSE Len(FlattenSeq(pieces)))
  BY <1>3 DEF DecodeSemiOctetDigits
<1> HIDE DEF pieces, bytes
<1>11. DecodeSemiOctetDigits(bytes, l) = SubSeq(digits, 1, l)
  BY <1>1, <1>9, <1>10
<1> QED BY <1>11, SubSeqFull DEF bytes

\* Packed septets without a header are read back.
LEMMA PackedReadsBack ==
    ASSUME NEW codes \in Seq(Septets)
    PROVE  UnpackSeptets(PackSeptetsWithHeader(<<>>, codes), Len(codes)) = codes
<1> DEFINE packed == PackSeptetsWithHeader(<<>>, codes)
           n == Len(codes)
           back == UnpackSeptets(packed, n)
<1>1. <<>> \in Seq(Octets) /\ Len(<<>>) = 0 /\ n \in Nat
  OBVIOUS
<1>2. OctetsToSeptetCount(0) = 0
  BY DEF OctetsToSeptetCount
<1>3. SubSeq(back, 1, Len(back)) = codes
  <2>1. SubSeq(UnpackSeptets(packed, OctetsToSeptetCount(Len(<<>>)) + n), OctetsToSeptetCount(Len(<<>>)) + 1,
               Len(UnpackSeptets(packed, OctetsToSeptetCount(Len(<<>>)) + n))) = codes
    BY <1>1, SeptetsReadBack
  <2> DEFINE c == OctetsToSeptetCount(Len(<<>>))
  <2>2. SubSeq(UnpackSeptets(packed, c + n), c + 1, Len(UnpackSeptets(packed, c + n))) = codes
    BY <2>1
  <2>3. c = 0 /\ n \in Nat
    BY <1>1, <1>2
  <2> HIDE DEF packed, n, c
  <2>4. c + n = n /\ c + 1 = 1
    BY <2>3
  <2> QED BY <2>2, <2>4 DEF n, packed
<1>4. packed \in Seq(Octets)
  BY <1>1, PackType
<1> DEFINE there == (8 * Len(packed)) \div 7
           count == IF n < there THEN n ELSE there
<1>5. count \in Nat
  <2>1. Len(packed) \in Nat
    <3> HIDE DEF packed
    <3> QED BY <1>4
  <2> HIDE DEF packed
  <2> QED BY <1>1, <2>1
<1>6. back = [i \in 1 .. count |-> back[i]]
  BY DEF UnpackSeptets
<1> HIDE DEF back, count
<1>7. back \in Seq({back[i] : i \in 1 .. count})
  <2>1. back \in [1 .. count -> {back[i] : i \in 1 .. count}]
    BY <1>6
  <2> QED BY <1>5, <2>1, SeqDef
<1>8. SubSeq(back, 1, Len(back)) = back
  BY <1>7, SubSeqFull
<1> QED BY <1>3, <1>8 DEF back

\* The sender is shown as it wrote, a national number with the country's code
\* (decodeAddress).
LEMMA SenderReadsBack ==
    ASSUME NEW m \in Messages
    PROVE  DecodeAddress(OriginatingAddress(Sender[m])) = SenderShown(m)
<1> DEFINE sender == Sender[m]
           name == sender.name
           digits == sender.digits
<1>1. /\ sender.plus \in BOOLEAN /\ digits \in Seq(Digits) /\ name \in Seq(Nat)
      /\ name = <<>> => digits # <<>>
      /\ name # <<>> => InGsm7(name) /\ \A i \in 1 .. Len(name) : name[i] # ESC
  BY SenderAssumption
<1>2. CASE name # <<>>
  <2> DEFINE codes == TextToSeptetCodes(name)
             n == Len(codes)
             length == (7 * n + 3) \div 4
             octets == PackSeptetsWithHeader(<<>>, codes)
  <2>1. Plainly(name)
    BY <1>1, <1>2 DEF Plainly
  <2>2. codes \in Seq(Septets) /\ SeptetsToText(codes) = name
    BY <1>1, <1>2, <2>1, CodesType, TextReadsBack
  <2>3. n \in Nat
    BY <2>2
  <2>4. (length * 4) \div 7 = n
    <3> HIDE DEF n
    <3> QED BY <2>3
  <2>5. OriginatingAddress(sender) = [ton |-> 208, length |-> length, octets |-> octets]
    BY <1>2 DEF OriginatingAddress
  <2> HIDE DEF codes, length
  <2>6. UnpackSeptets(octets, n) = codes
    BY <2>2, PackedReadsBack
  <2>7. (208 \div 16) % 8 = 5
    OBVIOUS
  <2> HIDE DEF octets, n
  <2>8. DecodeAddress(OriginatingAddress(sender)) = [plus |-> FALSE, digits |-> name]
    <3> DEFINE address == OriginatingAddress(sender)
    <3>1. address.ton = 208 /\ address.length = length /\ address.octets = octets
      BY <2>5
    <3> HIDE DEF address, name
    <3>2. (address.ton \div 16) % 8 = 5
      BY <2>7, <3>1
    <3>3. SeptetsToText(UnpackSeptets(address.octets, (address.length * 4) \div 7)) = name
      BY <2>2, <2>4, <2>6, <3>1
    <3>4. DecodeAddress(address) = [plus |-> FALSE, digits |-> name]
      BY <3>2, <3>3 DEF DecodeAddress
    <3> QED BY <3>4 DEF address
  <2> QED BY <1>2, <2>8 DEF SenderShown
<1>3. CASE name = <<>>
  <2> DEFINE national == ~sender.plus /\ digits # <<>> /\ Head(digits) = 0
             d == IF national THEN <<8, 4>> \o Tail(digits) ELSE digits
             ton == IF sender.plus \/ national THEN 145 ELSE 129
  <2>1. digits # <<>>
    BY <1>1, <1>3
  <2>2. d \in Seq(Digits)
    <3>1. Tail(digits) \in Seq(Digits)
      BY <1>1, <2>1, HeadTailProperties
    <3>2. <<8, 4>> \in Seq(Digits)
      BY DEF Digits
    <3> DEFINE a == <<8, 4>>  b == Tail(digits)
    <3> HIDE DEF a, b
    <3>3. a \o b \in Seq(Digits)
      BY <3>1, <3>2, ConcatProperties DEF a, b
    <3> QED BY <1>1, <3>3 DEF a, b
  <2>3. OriginatingAddress(sender) =
          [ton |-> ton, length |-> Len(d), octets |-> EncodeSemiOctetDigits(d)]
    BY <1>3 DEF OriginatingAddress, EncodeAddress
  <2>4. /\ (145 \div 16) % 8 = 1
        /\ (129 \div 16) % 8 = 0
    OBVIOUS
  <2>5. (ton \div 16) % 8 = (IF sender.plus \/ national THEN 1 ELSE 0)
    BY <2>4
  <2> HIDE DEF d
  <2>6. DecodeSemiOctetDigits(EncodeSemiOctetDigits(d), Len(d)) = d
    BY <2>2, DigitsReadBack
  <2> HIDE DEF ton, national
  <2>7. DecodeAddress(OriginatingAddress(sender)) = [plus |-> sender.plus \/ national, digits |-> d]
    <3>1. DecodeAddress(OriginatingAddress(sender)) = [plus |-> (ton \div 16) % 8 = 1, digits |-> d]
      <4>1. (ton \div 16) % 8 # 5
        BY <2>5
      <4> QED BY <2>3, <2>6, <4>1 DEF DecodeAddress
    <3>2. ((ton \div 16) % 8 = 1) <=> (sender.plus \/ national)
      BY <2>5
    <3> DEFINE one == (ton \div 16) % 8 = 1
               abroad == sender.plus \/ national
    <3>3. one = abroad
      BY <3>2, Zenon
    <3>4. [plus |-> one, digits |-> d] = [plus |-> abroad, digits |-> d]
      <4> HIDE DEF one, abroad
      <4> QED BY <3>3, Zenon
    <3> QED BY <3>1, <3>4, Zenon
  <2>8. SenderShown(m) = [plus |-> sender.plus \/ national, digits |-> d]
    BY <1>1, <1>3, <2>1 DEF SenderShown, d, national
  <2> QED BY <2>7, <2>8
<1> QED BY <1>2, <1>3

----------------------------------------------------------------------------
(* What is read from a slot.                                               *)

RefOf(m) == CHOOSE r \in References : submitted[m] = EncodeSubmitPdu(OwnNumber, Body[m], r)

PieceText(text, i) == IF InGsm7(text) THEN SeptetsToText(ChunksOf(text)[i]) ELSE ChunksOf(text)[i]

\* A message that was sent.
LEMMA SentIs ==
    ASSUME IInv, NEW m \in Sent
    PROVE  /\ RefOf(m) \in Octets /\ m \in Messages
           /\ Body[m] \in Seq(Nat) /\ Len(Body[m]) <= MaxLength
           /\ Len(submitted[m]) = Len(ChunksOf(Body[m])) /\ Len(submitted[m]) \in 1 .. 255
           /\ \A i \in 1 .. Len(submitted[m]) :
                /\ submitted[m][i] = PartOf(Body[m], RefOf(m), i)
                /\ PartInput(AlphabetOf(Body[m]), ChunksOf(Body[m])[i], ConcatOf(Body[m], RefOf(m), i))
<1> DEFINE r == RefOf(m)
           n == Len(ChunksOf(Body[m]))
<1>1. r \in References /\ submitted[m] = EncodeSubmitPdu(OwnNumber, Body[m], r)
  <2>1. \E s \in References : submitted[m] = EncodeSubmitPdu(OwnNumber, Body[m], s)
    BY DEF IInv, Submitted
  <2> QED BY <2>1 DEF RefOf
<1>2. m \in Messages /\ Body[m] \in Seq(Nat) /\ Len(Body[m]) <= MaxLength /\ r \in Octets
  <2>1. m \in Messages
    BY DEF Sent
  <2> HIDE DEF r
  <2> QED BY <1>1, <2>1, BodyAssumption, ReferencesAssumption
<1> HIDE DEF r
<1>3. n \in 1 .. 255
  BY <1>2, ChunksFit
<1>4. submitted[m] = [i \in 1 .. n |-> PartOf(Body[m], r, i)] /\ Len(submitted[m]) = n
  <2>1. n \in Nat
    <3> HIDE DEF n
    <3> QED BY <1>3
  <2> QED BY <1>1, <2>1, PartsAre
<1>5. ASSUME NEW i \in 1 .. n
      PROVE  /\ submitted[m][i] = PartOf(Body[m], r, i)
             /\ PartInput(AlphabetOf(Body[m]), ChunksOf(Body[m])[i], ConcatOf(Body[m], r, i))
  <2>1. PartInput(AlphabetOf(Body[m]), ChunksOf(Body[m])[i], ConcatOf(Body[m], r, i))
    BY <1>2, PartsInput
  <2> HIDE DEF n
  <2> QED BY <1>4, <2>1
<1> HIDE DEF n
<1> QED BY <1>2, <1>3, <1>4, <1>5 DEF r, n

\* Pieces of a text of 16 bit code points.
LEMMA UnitsPiece ==
    ASSUME NEW text \in Seq(Nat), Len(text) <= MaxLength, ~InGsm7(text),
           \A i \in 1 .. Len(text) : text[i] < 65536, NEW i \in 1 .. Len(ChunksOf(text))
    PROVE  ChunksOf(text)[i] \in Seq(CodeUnits)
<1>1. text \in Seq(CodeUnits)
  <2>1. text \in [1 .. Len(text) -> CodeUnits] /\ Len(text) \in Nat
    BY DEF CodeUnits
  <2> QED BY <2>1, SeqDef
<1>2. CodesOf(text) = text
  BY DEF CodesOf
<1> DEFINE n == Len(ChunksOf(text))
<1>3. n \in 1 .. 255
  BY ChunksFit
<1>4. CASE n = 1
  <2>1. ChunksOf(text) = <<text>> /\ i = 1
    BY <1>2, <1>4, ChunksFit
  <2> QED BY <1>1, <2>1
<1>5. CASE n # 1
  <2>1. n > 1
    <3> HIDE DEF n
    <3> QED BY <1>3, <1>5
  <2>2. ChunksOf(text) = ChunkArray(text, UCS2_MULTI_MAX)
    BY <1>2, <2>1, ChunksFit
  <2>3. UCS2_MULTI_MAX \in Nat \ {0}
    BY DEF UCS2_MULTI_MAX
  <2>4. i \in 1 .. Len(ChunkArray(text, UCS2_MULTI_MAX))
    BY <2>2
  <2>5. ChunkArray(text, UCS2_MULTI_MAX)[i] \in Seq(CodeUnits)
    <3> DEFINE size == UCS2_MULTI_MAX  pieces == ChunkArray(text, size)
    <3>1. size \in Nat \ {0} /\ i \in 1 .. Len(pieces)
      BY <2>3, <2>4
    <3> HIDE DEF size
    <3>2. pieces \in Seq(Seq(CodeUnits))
      BY <1>1, <3>1, CutsAre
    <3> HIDE DEF pieces
    <3>3. pieces[i] \in Seq(CodeUnits)
      BY <3>1, <3>2, ElementOfSeq
    <3> QED BY <3>3 DEF pieces, size
  <2> QED BY <2>2, <2>5
<1> QED BY <1>4, <1>5

\* A part as it is decoded.
DecodedAs(p, m, sms) ==
    /\ sms.sender = SenderShown(m)
    /\ sms.timestamp = DecodeTimestamp(SentAt[m])
    /\ sms.concat = ConcatOf(Body[m], RefOf(m), p.seq)
    /\ (~InGsm7(Body[m]) => \A i \in 1 .. Len(Body[m]) : Body[m][i] < 65536)
         => sms.text = PieceText(Body[m], p.seq)

\* decodeDeliverPdu on a part that was sent.
LEMMA PartDecoded ==
    ASSUME IInv, NEW p \in Part
    PROVE  /\ IsDeliverPdu(Delivered(p))
           /\ DecodedAs(p, p.message, DecodeDeliverPdu(Delivered(p)))
<1> DEFINE m == p.message
           i == p.seq
           text == Body[m]
           alphabet == AlphabetOf(text)
           codes == ChunksOf(text)[i]
           concat == ConcatOf(text, RefOf(m), i)
           pdu == Delivered(p)
           address == EncodeAddress(OwnNumber)
           part == BuildSubmitPart(address, alphabet, codes, concat)
<1>1. m \in Sent /\ i \in 1 .. Len(submitted[m])
  BY PartIs DEF IInv
<1>2. /\ m \in Messages /\ text \in Seq(Nat) /\ Len(text) <= MaxLength
      /\ i \in 1 .. Len(ChunksOf(text))
      /\ submitted[m][i] = part
      /\ PartInput(alphabet, codes, concat)
  <2> HIDE DEF m, i
  <2> QED BY <1>1, SentIs DEF PartOf
<1>3. /\ pdu.type = part.type - 1 /\ pdu.dcs = part.dcs /\ pdu.udl = part.udl /\ pdu.ud = part.ud
      /\ pdu.address = OriginatingAddress(Sender[m]) /\ pdu.scts = SentAt[m]
  <2>1. pdu = [type |-> part.type - 1, address |-> OriginatingAddress(Sender[m]), dcs |-> part.dcs,
               scts |-> SentAt[m], udl |-> part.udl, ud |-> part.ud]
    BY <1>2 DEF Delivered
  <2> HIDE DEF pdu, part
  <2> QED BY <2>1
<1>4. alphabet = (IF InGsm7(text) THEN "7bit" ELSE "ucs2")
  BY DEF AlphabetOf
<1> DEFINE sms == DecodeDeliverPdu(pdu)
<1> HIDE DEF pdu, codes, concat, alphabet, address
<1>5. /\ IsDeliverPdu(pdu)
      /\ sms.sender = DecodeAddress(pdu.address)
      /\ sms.timestamp = DecodeTimestamp(pdu.scts)
      /\ sms.concat = concat
      /\ (alphabet = "ucs2" => codes \in Seq(CodeUnits)) =>
           sms.text = IF alphabet = "7bit" THEN SeptetsToText(codes) ELSE codes
  BY <1>2, <1>3, DeliverReadsBack
<1>6. DecodeAddress(pdu.address) = SenderShown(m)
  BY <1>2, <1>3, SenderReadsBack
<1>7. ASSUME ~InGsm7(text) => \A j \in 1 .. Len(text) : text[j] < 65536
      PROVE  sms.text = PieceText(text, i)
  <2>1. ~InGsm7(text) => codes \in Seq(CodeUnits)
    <3> HIDE DEF text, i
    <3> QED BY <1>2, <1>7, UnitsPiece DEF codes
  <2> QED BY <1>4, <1>5, <2>1 DEF PieceText, codes
<1> HIDE DEF sms
<1> QED BY <1>3, <1>5, <1>6, <1>7 DEF DecodedAs, sms, pdu, concat

\* Parts of a long message carry its reference.
LEMMA ReferenceIs ==
    ASSUME IInv, NEW m \in Sent, Len(submitted[m]) # 1
    PROVE  SubSeq(submitted[m][1].ud, 4, 4) = <<RefOf(m)>>
<1> DEFINE text == Body[m]
           n == Len(submitted[m])
           codes == ChunksOf(text)[1]
           concat == ConcatOf(text, RefOf(m), 1)
           alphabet == AlphabetOf(text)
           header == ConcatHeader(concat)
           ud == UserData(alphabet, header, codes)
<1>1. /\ n \in 1 .. 255 /\ n = Len(ChunksOf(text)) /\ RefOf(m) \in Octets
      /\ 1 \in 1 .. n
  <2>1. n \in 1 .. 255 /\ n = Len(ChunksOf(text)) /\ RefOf(m) \in Octets
    BY SentIs
  <2>2. 1 \in 1 .. n
    <3>1. n \in 1 .. 255
      BY <2>1
    <3> HIDE DEF n
    <3> QED BY <3>1
  <2> QED BY <2>1, <2>2
<1>2. /\ submitted[m][1] = PartOf(text, RefOf(m), 1)
      /\ PartInput(alphabet, codes, concat)
  BY <1>1, SentIs
<1>3. submitted[m][1].ud = ud
  BY <1>2 DEF PartOf, BuildSubmitPart
<1>4. concat = [reference |-> RefOf(m), total |-> n, seq |-> 1] /\ concat # NULL
  <2>1. concat = [reference |-> RefOf(m), total |-> n, seq |-> 1]
    BY <1>1 DEF ConcatOf
  <2>2. RefOf(m) \in Nat /\ n \in Nat /\ 1 \in Nat
    <3>1. RefOf(m) \in Octets /\ n \in 1 .. 255
      BY <1>1
    <3> HIDE DEF n
    <3> QED BY <3>1 DEF Octets
  <2> HIDE DEF n, concat
  <2>3. concat \in [reference : Nat, total : Nat, seq : Nat]
    BY <2>1, <2>2
  <2> QED BY <2>1, <2>3, NullAssumption
<1>5. header \in Seq(Octets) /\ Len(header) = 6 /\ header[4] = RefOf(m)
  <2>1. header \in Seq(Octets) /\ Len(header) = 6
    BY <1>2, <1>4, HeaderType
  <2>2. header = <<5, 0, 3, concat.reference, concat.total, concat.seq>>
    BY <1>4 DEF ConcatHeader
  <2> HIDE DEF header, concat, n
  <2> QED BY <1>4, <2>1, <2>2
<1>6. ud \in Seq(Octets) /\ 4 \in 1 .. Len(ud) /\ ud[4] = RefOf(m)
  <2>1. CASE alphabet = "7bit"
    <3>1. codes \in Seq(Septets) /\ ud = PackSeptetsWithHeader(header, codes)
      BY <1>2, <2>1 DEF PartInput, UserData
    <3>2. 4 \in 1 .. Len(header)
      <4> HIDE DEF header
      <4> QED BY <1>5
    <3> HIDE DEF header, codes, ud
    <3> QED BY <1>5, <3>1, <3>2, HeaderFirst, PackType
  <2>2. CASE alphabet = "ucs2"
    <3> DEFINE bytes == EncodeUcs2(codes)
    <3>1. codes \in Seq(Nat) /\ ud = header \o bytes
      BY <1>2, <2>2 DEF PartInput, UserData
    <3>2. bytes \in Seq(Octets)
      BY <3>1, Ucs2Type
    <3> HIDE DEF header, codes, ud, bytes
    <3>3. Len(bytes) \in Nat
      BY <3>2
    <3>4. /\ header \o bytes \in Seq(Octets) /\ Len(header \o bytes) = Len(header) + Len(bytes)
          /\ \A i \in 1 .. Len(header) + Len(bytes) :
               (header \o bytes)[i] = IF i <= Len(header) THEN header[i] ELSE bytes[i - Len(header)]
      BY <1>5, <3>2, ConcatProperties
    <3>5. 4 \in 1 .. Len(header) + Len(bytes) /\ 4 <= Len(header)
      BY <1>5, <3>3
    <3> QED BY <1>5, <3>1, <3>4, <3>5
  <2> QED BY <1>2, <2>1, <2>2 DEF PartInput
<1> HIDE DEF ud
<1>7. SubSeq(ud, 4, 4) = <<ud[4]>>
  <2>1. 4 \in 4 .. Len(ud)
    BY <1>6
  <2>2. SubSeq(ud, 4, 4) = <<ud[4]>> \o SubSeq(ud, 5, 4)
    <3>1. SubSeq(ud, 4, 4) = <<ud[4]>> \o SubSeq(ud, 4 + 1, 4)
      BY <1>6, <2>1, SubSeqRecursiveFirst
    <3> QED BY <3>1
  <2>3. SubSeq(ud, 5, 4) = <<>>
    BY SubSeqEmpty
  <2>4. <<ud[4]>> \o <<>> = <<ud[4]>>
    OBVIOUS
  <2> QED BY <2>2, <2>3, <2>4
<1> QED BY <1>3, <1>6, <1>7

\* Every place lies in a piece.
Placed(F, seqs) ==
    \A q \in 1 .. Len(F[Len(seqs)]) :
      \E k \in 1 .. Len(seqs) : \E o \in 1 .. Len(seqs[k]) : q = Len(F[k - 1]) + o

\* No place is outside the pieces.
LEMMA FlattenPlaces ==
    ASSUME NEW S, NEW seqs \in Seq(Seq(S)), NEW F \in [0 .. Len(seqs) -> Seq(S)],
           Flattens(F, seqs)
    PROVE  Placed(F, seqs)
<1> DEFINE n == Len(seqs)
           InPiece(q) == \E k \in 1 .. n : \E o \in 1 .. Len(seqs[k]) : q = Len(F[k - 1]) + o
           T == {i \in 0 .. n : \A q \in 1 .. Len(F[i]) : InPiece(q)}
<1>1. n \in Nat /\ \A i \in 1 .. n : PieceAt(S, F, seqs, i)
  BY FlattenPieces
<1>2. 0 \in T
  <2>1. Len(F[0]) = 0
    BY DEF Flattens
  <2> QED BY <1>1, <2>1
<1>3. ASSUME NEW i \in 0 .. n - 1, i \in T PROVE i + 1 \in T
  <2> DEFINE j == i + 1
  <2>1. j \in 1 .. n /\ j - 1 = i /\ j \in 0 .. n
    BY <1>1
  <2> HIDE DEF j, n
  <2>2. Len(F[j]) = Len(F[i]) + Len(seqs[j]) /\ F[i] \in Seq(S) /\ seqs[j] \in Seq(S)
    BY <1>1, <2>1 DEF PieceAt
  <2>3. ASSUME NEW q \in 1 .. Len(F[j]) PROVE InPiece(q)
    <3> DEFINE a == Len(F[i])  b == Len(seqs[j])
    <3>1. a \in Nat /\ b \in Nat /\ q \in 1 .. a + b
      <4>1. a \in Nat /\ b \in Nat
        BY <2>2
      <4>2. Len(F[j]) = a + b
        BY <2>2
      <4>3. q \in 1 .. a + b
        BY <4>2
      <4> QED BY <4>1, <4>3
    <3>2. CASE q <= a
      <4>1. q \in 1 .. Len(F[i])
        <5>1. q \in 1 .. a
          <6> HIDE DEF a, b
          <6> QED BY <3>1, <3>2
        <5> QED BY <5>1
      <4>2. \A x \in 1 .. Len(F[i]) : InPiece(x)
        BY <1>3
      <4> HIDE DEF InPiece
      <4> QED BY <4>1, <4>2
    <3>3. CASE ~(q <= a)
      <4> DEFINE o == q - a
      <4>1. o \in 1 .. b /\ q = a + o
        <5> HIDE DEF a, b
        <5> QED BY <3>1, <3>3
      <4> HIDE DEF o
      <4>2. o \in 1 .. Len(seqs[j]) /\ q = Len(F[j - 1]) + o
        BY <2>1, <4>1
      <4> QED BY <2>1, <4>2
    <3> QED BY <3>2, <3>3
  <2>4. j \in T
    <3> HIDE DEF InPiece
    <3> QED BY <2>1, <2>3
  <2> QED BY <2>4 DEF j
<1>4. n \in T
  <2> HIDE DEF T, n
  <2>1. \A i \in 0 .. n : i \in T
    BY <1>1, <1>2, <1>3, UpTo
  <2> QED BY <1>1, <2>1
<1> QED BY <1>4 DEF Placed

----------------------------------------------------------------------------
(* The answer to AT+CMGL.                                                  *)

\* The lines of a slot.
LEMMA ThreeLines ==
    \A x, y, z : <<x>> \o <<y>> \o <<z>> = <<x, y, z>> /\ <<x>> \o <<>> \o <<z>> = <<x, z>>
<1> SUFFICES ASSUME NEW x, NEW y, NEW z
             PROVE  <<x>> \o <<y>> \o <<z>> = <<x, y, z>> /\ <<x>> \o <<>> \o <<z>> = <<x, z>>
  OBVIOUS
<1> DEFINE S == {x, y, z}
<1>3. <<x>> \in Seq(S) /\ <<y>> \in Seq(S) /\ <<z>> \in Seq(S) /\ <<x, y>> \in Seq(S)
      /\ <<x, z>> \in Seq(S) /\ <<x, y, z>> \in Seq(S)
  OBVIOUS
<1>4. /\ Len(<<x>>) = 1 /\ <<x>>[1] = x /\ Len(<<y>>) = 1 /\ <<y>>[1] = y
      /\ Len(<<z>>) = 1 /\ <<z>>[1] = z
      /\ Len(<<x, y>>) = 2 /\ <<x, y>>[1] = x /\ <<x, y>>[2] = y
      /\ Len(<<x, z>>) = 2 /\ <<x, z>>[1] = x /\ <<x, z>>[2] = z
      /\ Len(<<x, y, z>>) = 3 /\ <<x, y, z>>[1] = x /\ <<x, y, z>>[2] = y /\ <<x, y, z>>[3] = z
  OBVIOUS
<1>5. ASSUME NEW s \in Seq(S), NEW e \in Seq(S), Len(e) = 1, NEW t \in Seq(S),
             Len(t) = Len(s) + 1, \A i \in 1 .. Len(s) : t[i] = s[i], t[Len(s) + 1] = e[1]
      PROVE  s \o e = t
  <2> HIDE DEF S
  <2>1. /\ s \o e \in Seq(S) /\ Len(s \o e) = Len(s) + Len(e)
        /\ \A i \in 1 .. Len(s) + Len(e) : (s \o e)[i] = IF i <= Len(s) THEN s[i] ELSE e[i - Len(s)]
    BY ConcatProperties
  <2> DEFINE l == Len(s)
  <2>2. l \in Nat
    OBVIOUS
  <2>3. ASSUME NEW i \in 1 .. Len(t) PROVE (s \o e)[i] = t[i]
    <3>1. i \in 1 .. l + 1
      BY <1>5
    <3>2. CASE i <= l
      <4>1. i \in 1 .. l
        BY <2>2, <3>1, <3>2
      <4> QED BY <1>5, <2>1, <3>1, <3>2, <4>1
    <3>3. CASE ~(i <= l)
      <4>1. i = l + 1 /\ i - l = 1
        <5> HIDE DEF l
        <5> QED BY <2>2, <3>1, <3>3
      <4> QED BY <1>5, <2>1, <3>1, <3>3, <4>1
    <3> QED BY <3>2, <3>3
  <2> DEFINE u == s \o e
  <2>4. u \in Seq(S) /\ Len(u) = Len(t) /\ \A i \in 1 .. Len(u) : u[i] = t[i]
    BY <1>5, <2>1, <2>3
  <2> HIDE DEF u
  <2>5. u = t
    BY <2>4, SeqEqual
  <2> QED BY <2>5 DEF u
<1> DEFINE OneMore(s, e, t) ==
             /\ Len(e) = 1 /\ Len(t) = Len(s) + 1
             /\ \A i \in 1 .. Len(s) : t[i] = s[i]
             /\ t[Len(s) + 1] = e[1]
<1>6. \A s, e, t \in Seq(S) : OneMore(s, e, t) => s \o e = t
  <2> HIDE DEF S
  <2> QED BY <1>5
<1> HIDE DEF S
<1>1. <<x>> \o <<y>> = <<x, y>> /\ <<x>> \o <<>> = <<x>>
  <2>1. <<x>> \o <<y>> = <<x, y>>
    <3>1. OneMore(<<x>>, <<y>>, <<x, y>>)
      BY <1>4
    <3> HIDE DEF OneMore
    <3> QED BY <1>3, <1>6, <3>1, Zenon
  <2>2. <<x>> \o <<>> = <<x>>
    BY <1>3, ConcatEmptySeq
  <2> QED BY <2>1, <2>2
<1>2. <<x, y>> \o <<z>> = <<x, y, z>> /\ <<x>> \o <<z>> = <<x, z>>
  <2>1. <<x>> \o <<z>> = <<x, z>>
    <3>1. OneMore(<<x>>, <<z>>, <<x, z>>)
      BY <1>4
    <3> HIDE DEF OneMore
    <3> QED BY <1>3, <1>6, <3>1, Zenon
  <2>2. <<x, y>> \o <<z>> = <<x, y, z>>
    <3>1. OneMore(<<x, y>>, <<z>>, <<x, y, z>>)
      <4>1. Len(<<x, y>>) = 2 /\ \A i \in 1 .. 2 : i = 1 \/ i = 2
        BY <1>4
      <4> QED BY <1>4, <4>1
    <3> HIDE DEF OneMore
    <3> QED BY <1>3, <1>6, <3>1, Zenon
  <2> QED BY <2>1, <2>2
<1> QED BY <1>1, <1>2, Zenon

EntryOf(k) == [index |-> k, sms |-> DecodeDeliverPdu(Delivered(slots[k]))]

\* parseCmglResponse finds the slots that have no stray line, each one once.
LEMMA EntriesAre ==
    ASSUME IInv, NEW stray \in SUBSET Used
    PROVE  Entries(CmglLines(stray)) = {EntryOf(k) : k \in Used \ stray}
<1> DEFINE header(k) == [kind |-> "header", index |-> k]
           odd == [kind |-> "stray"]
           body(k) == [kind |-> "pdu", pdu |-> Delivered(slots[k])]
           S == {header(k) : k \in 1 .. Slots} \cup {odd} \cup {body(k) : k \in 1 .. Slots}
           lines(k) == IF slots[k] = NULL THEN <<>>
                       ELSE <<header(k)>> \o (IF k \in stray THEN <<odd>> ELSE <<>>) \o <<body(k)>>
           seqs == [k \in 1 .. Slots |-> lines(k)]
           all == CmglLines(stray)
<1>1. Slots \in Nat
  BY SlotsAssumption
<1>2. all = FlattenSeq(seqs)
  BY DEF CmglLines
<1>3. \A k \in 1 .. Slots : header(k) \in S /\ odd \in S /\ body(k) \in S
  OBVIOUS
<1>4. \A k \in 1 .. Slots : k \in Used <=> slots[k] # NULL
  BY DEF Used
<1>5. ASSUME NEW k \in 1 .. Slots
      PROVE  /\ k \notin Used => lines(k) = <<>>
             /\ k \in stray => lines(k) = <<header(k), odd, body(k)>>
             /\ k \in Used \ stray => lines(k) = <<header(k), body(k)>>
             /\ lines(k) \in Seq(S)
  <2>1. header(k) \in S /\ odd \in S /\ body(k) \in S
    BY <1>3
  <2> HIDE DEF header, odd, body, S
  <2>2. k \notin Used => lines(k) = <<>>
    BY <1>4
  <2>3. ASSUME k \in stray PROVE lines(k) = <<header(k), odd, body(k)>>
    <3>1. lines(k) = <<header(k)>> \o <<odd>> \o <<body(k)>>
      BY <1>4, <2>3
    <3>2. <<header(k)>> \o <<odd>> \o <<body(k)>> = <<header(k), odd, body(k)>>
      BY ThreeLines
    <3> HIDE DEF lines
    <3> QED BY <3>1, <3>2
  <2>4. ASSUME k \in Used \ stray PROVE lines(k) = <<header(k), body(k)>>
    <3>1. lines(k) = <<header(k)>> \o <<>> \o <<body(k)>>
      BY <1>4, <2>4
    <3>2. <<header(k)>> \o <<>> \o <<body(k)>> = <<header(k), body(k)>>
      BY ThreeLines
    <3> HIDE DEF lines
    <3> QED BY <3>1, <3>2
  <2>5. <<>> \in Seq(S) /\ <<header(k), odd, body(k)>> \in Seq(S) /\ <<header(k), body(k)>> \in Seq(S)
    BY <2>1
  <2> HIDE DEF lines
  <2> QED BY <2>2, <2>3, <2>4, <2>5
<1>6. seqs \in Seq(Seq(S)) /\ Len(seqs) = Slots /\ \A k \in 1 .. Slots : seqs[k] = lines(k)
  <2> HIDE DEF S, lines
  <2>1. seqs \in [1 .. Slots -> Seq(S)]
    BY <1>5
  <2>2. \A k \in 1 .. Slots : seqs[k] = lines(k)
    OBVIOUS
  <2> HIDE DEF seqs
  <2>3. seqs \in Seq(Seq(S))
    BY <1>1, <2>1, SeqDef
  <2>4. DOMAIN seqs = 1 .. Slots
    BY <2>1
  <2> QED BY <1>1, <2>2, <2>3, <2>4, LenProperties
<1> HIDE DEF S, seqs, lines, all
<1>7. PICK F \in [0 .. Len(seqs) -> Seq(S)] : Flattens(F, seqs) /\ all = F[Len(seqs)]
  BY <1>2, <1>6, FlattenIs
<1>8. ASSUME NEW k \in 1 .. Slots
      PROVE  /\ Len(F[k - 1]) \in Nat /\ Len(lines(k)) \in Nat /\ Len(F[k - 1]) + Len(lines(k)) <= Len(all)
             /\ \A o \in 1 .. Len(lines(k)) : all[Len(F[k - 1]) + o] = lines(k)[o]
  <2>1. PieceAt(S, F, seqs, k)
    BY <1>6, <1>7, FlattenPieces
  <2>2. /\ F[k - 1] \in Seq(S) /\ F[k] \in Seq(S) /\ seqs[k] \in Seq(S)
        /\ Len(F[k]) = Len(F[k - 1]) + Len(seqs[k])
        /\ Len(F[k]) <= Len(F[Len(seqs)])
        /\ \A o \in 1 .. Len(seqs[k]) : F[Len(seqs)][Len(F[k - 1]) + o] = seqs[k][o]
    BY <2>1 DEF PieceAt
  <2>3. seqs[k] = lines(k) /\ F[Len(seqs)] = all
    BY <1>6, <1>7
  <2>4. Len(F[k - 1]) \in Nat /\ Len(lines(k)) \in Nat
    BY <2>2, <2>3
  <2>5. Len(F[k - 1]) + Len(lines(k)) <= Len(all)
    BY <2>2, <2>3
  <2>6. \A o \in 1 .. Len(lines(k)) : all[Len(F[k - 1]) + o] = lines(k)[o]
    BY <2>2, <2>3
  <2> QED BY <2>4, <2>5, <2>6
<1>9. \A q \in 1 .. Len(all) : \E k \in 1 .. Slots : \E o \in 1 .. Len(lines(k)) : q = Len(F[k - 1]) + o
  <2>1. \A q \in 1 .. Len(F[Len(seqs)]) :
          \E k \in 1 .. Len(seqs) : \E o \in 1 .. Len(seqs[k]) : q = Len(F[k - 1]) + o
    <3>1. Placed(F, seqs)
      BY <1>6, <1>7, FlattenPlaces
    <3> QED BY <3>1 DEF Placed
  <2> QED BY <1>6, <1>7, <2>1
<1>10. Len(all) \in Nat
  <2>1. Len(seqs) \in 0 .. Len(seqs)
    BY <1>1, <1>6
  <2>2. all \in Seq(S)
    BY <1>7, <2>1
  <2> QED BY <2>2
<1> DEFINE counts(i) == /\ all[i].kind = "header" /\ all[i + 1].kind = "pdu"
                        /\ IsDeliverPdu(all[i + 1].pdu)
           I == {j \in 1 .. Len(all) - 1 : counts(j)}
           entry(i) == [index |-> all[i].index, sms |-> DecodeDeliverPdu(all[i + 1].pdu)]
<1>11. Entries(all) = {entry(i) : i \in I}
  BY DEF Entries
<1>12. ASSUME NEW k \in Used \ stray
       PROVE  \E i \in I : entry(i) = EntryOf(k)
  <2> DEFINE i == Len(F[k - 1]) + 1
  <2>1. k \in 1 .. Slots /\ lines(k) = <<header(k), body(k)>>
    BY <1>5 DEF Used
  <2>2. Len(lines(k)) = 2 /\ lines(k)[1] = header(k) /\ lines(k)[2] = body(k)
    <3> HIDE DEF header, body
    <3> QED BY <2>1
  <2>3. /\ Len(F[k - 1]) \in Nat /\ Len(F[k - 1]) + 2 <= Len(all)
        /\ all[Len(F[k - 1]) + 1] = header(k) /\ all[Len(F[k - 1]) + 2] = body(k)
    <3>1. 1 \in 1 .. Len(lines(k)) /\ 2 \in 1 .. Len(lines(k))
      BY <2>2
    <3> HIDE DEF header, body
    <3> QED BY <1>8, <2>1, <2>2, <3>1
  <2>4. i \in 1 .. Len(all) - 1 /\ i + 1 = Len(F[k - 1]) + 2
    <3> DEFINE a == Len(F[k - 1])  b == Len(all)
    <3>1. a \in Nat /\ b \in Nat /\ a + 2 <= b
      BY <1>10, <2>3
    <3> HIDE DEF a, b
    <3>2. a + 1 \in 1 .. b - 1 /\ (a + 1) + 1 = a + 2
      BY <3>1
    <3> QED BY <3>2 DEF a, b
  <2>5. all[i] = header(k) /\ all[i + 1] = body(k)
    BY <2>3, <2>4
  <2>6. IsDeliverPdu(Delivered(slots[k]))
    <3>1. slots[k] \in Part
      BY <2>1 DEF IInv, TypeOK, Used
    <3> QED BY <3>1, PartDecoded
  <2> HIDE DEF i, all
  <2>7. all[i].kind = "header" /\ all[i].index = k /\ all[i + 1].kind = "pdu"
        /\ all[i + 1].pdu = Delivered(slots[k])
    BY <2>5
  <2>8. i \in I
    BY <2>4, <2>6, <2>7
  <2>9. entry(i) = EntryOf(k)
    BY <2>7 DEF EntryOf
  <2> QED BY <2>8, <2>9
<1>13. ASSUME NEW i \in I
       PROVE  \E k \in Used \ stray : entry(i) = EntryOf(k)
  <2>1. i \in 1 .. Len(all) /\ counts(i)
    <3>1. i \in 1 .. Len(all) - 1
      OBVIOUS
    <3> DEFINE b == Len(all)
    <3>2. b \in Nat /\ i \in 1 .. b - 1
      BY <1>10, <3>1
    <3> HIDE DEF b
    <3>3. i \in 1 .. b
      BY <3>2
    <3> QED BY <3>3 DEF b
  <2>2. PICK k \in 1 .. Slots : \E p \in 1 .. Len(lines(k)) : i = Len(F[k - 1]) + p
    BY <1>9, <2>1
  <2>10. PICK o \in 1 .. Len(lines(k)) : i = Len(F[k - 1]) + o
    BY <2>2
  <2>3. /\ Len(F[k - 1]) \in Nat /\ Len(lines(k)) \in Nat
        /\ \A p \in 1 .. Len(lines(k)) : all[Len(F[k - 1]) + p] = lines(k)[p]
    BY <1>8
  <2>4. all[i] = lines(k)[o]
    BY <2>10, <2>3
  <2>5. k \in Used
    <3> SUFFICES ASSUME k \notin Used PROVE FALSE
      OBVIOUS
    <3>1. lines(k) = <<>>
      BY <1>5
    <3>2. o \in 1 .. 0
      BY <3>1
    <3> QED BY <3>2
  <2>6. k \notin stray /\ o = 1
    <3>1. CASE k \in stray
      <4>1. lines(k) = <<header(k), odd, body(k)>>
        BY <1>5, <3>1
      <4>2. /\ Len(lines(k)) = 3 /\ lines(k)[1] = header(k) /\ lines(k)[2] = odd
            /\ lines(k)[3] = body(k)
        <5> HIDE DEF header, odd, body
        <5> QED BY <4>1
      <4>3. odd.kind = "stray" /\ body(k).kind = "pdu"
        OBVIOUS
      <4>4. o \in {1, 2, 3}
        BY <4>2
      <4>5. o = 1
        <5> HIDE DEF header, odd, body
        <5> QED BY <2>1, <2>4, <4>2, <4>3, <4>4
      <4>6. all[i + 1] = odd
        <5>1. 2 \in 1 .. Len(lines(k))
          BY <4>2
        <5>2. i + 1 = Len(F[k - 1]) + 2
          BY <2>10, <2>3, <4>5
        <5> HIDE DEF odd
        <5> QED BY <2>3, <4>2, <5>1, <5>2
      <4> HIDE DEF odd
      <4> QED BY <2>1, <4>3, <4>6
    <3>2. CASE k \notin stray
      <4>1. lines(k) = <<header(k), body(k)>>
        BY <1>5, <2>5, <3>2
      <4>2. Len(lines(k)) = 2 /\ lines(k)[1] = header(k) /\ lines(k)[2] = body(k)
        <5> HIDE DEF header, body
        <5> QED BY <4>1
      <4>3. body(k).kind = "pdu"
        OBVIOUS
      <4>4. o \in {1, 2}
        BY <4>2
      <4>5. o = 1
        <5> HIDE DEF header, body
        <5> QED BY <2>1, <2>4, <4>2, <4>3, <4>4
      <4> QED BY <3>2, <4>5
    <3> QED BY <3>1, <3>2
  <2>7. all[i] = header(k) /\ all[i + 1] = body(k)
    <3>1. lines(k) = <<header(k), body(k)>>
      BY <1>5, <2>5, <2>6
    <3>2. Len(lines(k)) = 2 /\ lines(k)[1] = header(k) /\ lines(k)[2] = body(k)
      <4> HIDE DEF header, body
      <4> QED BY <3>1
    <3>3. 2 \in 1 .. Len(lines(k)) /\ i + 1 = Len(F[k - 1]) + 2
      BY <2>10, <2>3, <2>6, <3>2
    <3> HIDE DEF header, body
    <3> QED BY <2>3, <2>4, <2>6, <3>2, <3>3
  <2>8. all[i].index = k /\ all[i + 1].pdu = Delivered(slots[k])
    BY <2>7
  <2>9. entry(i) = EntryOf(k)
    BY <2>8 DEF EntryOf
  <2> QED BY <2>5, <2>6, <2>9
<1>14. {entry(i) : i \in I} = {EntryOf(k) : k \in Used \ stray}
  <2> HIDE DEF I, entry
  <2> QED BY <1>12, <1>13
<1> QED BY <1>11, <1>14 DEF all

----------------------------------------------------------------------------
(* Sorting parts.                                                          *)

\* How many parts there are.
LEMMA CardinalityOf ==
    ASSUME NEW k \in Nat, NEW g, \A i, j \in 1 .. k : g[i] = g[j] => i = j
    PROVE  Cardinality({g[i] : i \in 1 .. k}) = k
<1> DEFINE S == {g[i] : i \in 1 .. k}
           f == [i \in 1 .. k |-> g[i]]
<1>1. IsFiniteSet(1 .. k) /\ Cardinality(1 .. k) = k
  BY FS_Interval
<1>2. f \in Bijection(1 .. k, S)
  <2>1. f \in [1 .. k -> S]
    OBVIOUS
  <2>2. \A i, j \in 1 .. k : f[i] = f[j] => i = j
    OBVIOUS
  <2>3. \A s \in S : \E i \in 1 .. k : f[i] = s
    OBVIOUS
  <2> HIDE DEF f, S
  <2> QED BY <2>1, <2>2, <2>3 DEF Bijection, Injection, Surjection, IsInjective
<1> HIDE DEF f, S
<1>3. ExistsBijection(1 .. k, S)
  BY <1>2 DEF ExistsBijection
<1> QED BY <1>1, <1>3, FS_Bijection DEF S

\* Parts that are in order in one way only are sorted that way.
LEMMA RankSort ==
    ASSUME NEW n \in Nat, NEW g, \A i, j \in 1 .. n : InOrder(g[i], g[j]) <=> i < j
    PROVE  Sorted({g[i] : i \in 1 .. n}) = [i \in 1 .. n |-> g[i]]
<1> DEFINE G == {g[i] : i \in 1 .. n}
           before(e) == {d \in G : InOrder(d, e)}
<1>1. \A i, j \in 1 .. n : g[i] = g[j] => i = j
  <2> SUFFICES ASSUME NEW i \in 1 .. n, NEW j \in 1 .. n, g[i] = g[j] PROVE i = j
    OBVIOUS
  <2>1. InOrder(g[i], g[i]) <=> i < i
    OBVIOUS
  <2>2. InOrder(g[i], g[j]) <=> i < j
    OBVIOUS
  <2>3. InOrder(g[j], g[i]) <=> j < i
    OBVIOUS
  <2> QED BY <2>1, <2>2, <2>3
<1>2. Cardinality(G) = n
  BY <1>1, CardinalityOf
<1>3. ASSUME NEW i \in 1 .. n PROVE Cardinality(before(g[i])) = i - 1
  <2>1. before(g[i]) = {g[j] : j \in 1 .. i - 1}
    <3>1. \A j \in 1 .. n : InOrder(g[j], g[i]) <=> j \in 1 .. i - 1
      OBVIOUS
    <3>2. \A j \in 1 .. i - 1 : j \in 1 .. n
      OBVIOUS
    <3> QED BY <3>1, <3>2
  <2>2. i - 1 \in Nat /\ \A j, k \in 1 .. i - 1 : g[j] = g[k] => j = k
    BY <1>1
  <2> HIDE DEF before
  <2> QED BY <2>1, <2>2, CardinalityOf
<1>4. ASSUME NEW i \in 1 .. n
      PROVE  (CHOOSE e \in G : Cardinality(before(e)) = i - 1) = g[i]
  <2>1. g[i] \in G /\ Cardinality(before(g[i])) = i - 1
    BY <1>3
  <2>2. ASSUME NEW e \in G, Cardinality(before(e)) = i - 1 PROVE e = g[i]
    <3>1. PICK j \in 1 .. n : e = g[j]
      OBVIOUS
    <3>2. Cardinality(before(e)) = j - 1
      <4> HIDE DEF before
      <4> QED BY <1>3, <3>1
    <3>3. j = i
      BY <2>2, <3>2
    <3> QED BY <3>1, <3>3
  <2> HIDE DEF G, before
  <2> QED BY <2>1, <2>2
<1>5. Sorted(G) = [i \in 1 .. Cardinality(G) |-> CHOOSE e \in G : Cardinality(before(e)) = i - 1]
  BY DEF Sorted
<1> HIDE DEF G, before
<1>6. Sorted(G) = [i \in 1 .. n |-> g[i]]
  BY <1>2, <1>4, <1>5
<1> QED BY <1>6 DEF G

----------------------------------------------------------------------------
(* Messages.                                                               *)

\* The texts of the parts make up the text.
LEMMA WholeText ==
    ASSUME IInv, NEW m \in Sent, Intact(m)
    PROVE  LET n == Len(submitted[m]) IN
           /\ n = 1 => PieceText(Body[m], 1) = Body[m]
           /\ n # 1 => FlattenSeq([i \in 1 .. n |-> PieceText(Body[m], i)]) = Body[m]
<1> DEFINE text == Body[m]
           n == Len(submitted[m])
           codes == TextToSeptetCodes(text)
<1>1. text \in Seq(Nat) /\ Len(text) <= MaxLength /\ n = Len(ChunksOf(text)) /\ n \in 1 .. 255
  BY SentIs
<1>2. InGsm7(text) => Plainly(text)
  BY <1>1 DEF Intact, Plainly
<1>3. CASE n = 1
  <2>1. ChunksOf(text) = <<CodesOf(text)>>
    BY <1>1, <1>3, ChunksFit
  <2>2. CASE InGsm7(text)
    <3>1. ChunksOf(text)[1] = codes
      BY <2>1, <2>2 DEF CodesOf
    <3> HIDE DEF codes
    <3> QED BY <1>2, <1>3, <2>2, <3>1, TextReadsBack DEF PieceText, codes
  <2>3. CASE ~InGsm7(text)
    <3>1. ChunksOf(text)[1] = text
      BY <2>1, <2>3 DEF CodesOf
    <3> QED BY <1>3, <2>3, <3>1 DEF PieceText
  <2> QED BY <2>2, <2>3
<1>4. CASE n # 1
  <2>1. Len(ChunksOf(text)) > 1
    <3>1. n \in 1 .. 255 /\ n = Len(ChunksOf(text))
      BY <1>1
    <3> HIDE DEF n
    <3>2. n \in 1 .. 255
      BY <3>1
    <3>4. n # 1
      BY <1>4
    <3>3. n > 1
      BY <3>2, <3>4
    <3> QED BY <3>1, <3>3
  <2>2. CASE InGsm7(text)
    <3>1. ChunksOf(text) = ChunkArray(codes, GSM7_MULTI_MAX) /\ Len(codes) > GSM7_SINGLE_MAX
      BY <1>1, <2>1, <2>2, ChunksFit DEF CodesOf
    <3>2. \A i \in 1 .. Len(codes) : i % GSM7_MULTI_MAX = 0 => codes[i] # ESC
      BY <2>2, <3>1 DEF Intact
    <3> DEFINE chunks == ChunkArray(codes, GSM7_MULTI_MAX)
    <3>3. FlattenSeq([i \in 1 .. Len(chunks) |-> SeptetsToText(chunks[i])]) = text
      BY <1>2, <2>2, <3>2, TextsJoin
    <3>4. [i \in 1 .. n |-> PieceText(text, i)] = [i \in 1 .. Len(chunks) |-> SeptetsToText(chunks[i])]
      <4>1. \A i : PieceText(text, i) = SeptetsToText(chunks[i])
        BY <2>2, <3>1 DEF PieceText
      <4>2. n = Len(chunks)
        BY <1>1, <3>1
      <4> HIDE DEF chunks, n
      <4> QED BY <4>1, <4>2
    <3> HIDE DEF chunks, n
    <3> QED BY <1>4, <3>3, <3>4 DEF n
  <2>3. CASE ~InGsm7(text)
    <3>1. ChunksOf(text) = ChunkArray(text, UCS2_MULTI_MAX)
      BY <1>1, <2>1, <2>3, ChunksFit DEF CodesOf
    <3> DEFINE chunks == ChunkArray(text, UCS2_MULTI_MAX)
    <3>2. FlattenSeq(chunks) = text /\ chunks \in Seq(Seq(Nat))
      <4> DEFINE size == UCS2_MULTI_MAX
      <4>1. size \in Nat \ {0}
        BY DEF UCS2_MULTI_MAX
      <4> HIDE DEF size, text
      <4>2. ChunkArray(text, size) \in Seq(Seq(Nat))
        BY <1>1, <4>1, CutsAre
      <4>3. FlattenSeq(ChunkArray(text, size)) = text
        BY <1>1, <4>1, ChunksJoin
      <4> QED BY <4>2, <4>3 DEF size
    <3>3. [i \in 1 .. n |-> PieceText(text, i)] = chunks
      <4>1. \A i : PieceText(text, i) = chunks[i]
        BY <2>3, <3>1 DEF PieceText
      <4>2. n = Len(chunks)
        BY <1>1, <3>1
      <4> HIDE DEF chunks, n
      <4>3. chunks = [i \in 1 .. Len(chunks) |-> chunks[i]]
        BY <3>2
      <4> QED BY <4>1, <4>2, <4>3
    <3> HIDE DEF chunks, n
    <3> QED BY <1>4, <3>2, <3>3 DEF n
  <2> QED BY <2>2, <2>3
<1> QED BY <1>3, <1>4

\* No time is earlier than itself.
LEMMA NotEarlier ==
    ASSUME NEW m \in Messages
    PROVE  ~Earlier(DecodeTimestamp(SentAt[m]), DecodeTimestamp(SentAt[m]))
<1> DEFINE t == DecodeTimestamp(SentAt[m])
<1>1. ASSUME NEW i \in 1 .. 6 PROVE t[i] \in Int
  <2>1. t[i] = BcdSwap(SentAt[m][i])
    BY DEF DecodeTimestamp
  <2>2. SentAt[m][i] \in Octets
    BY SentAtAssumption
  <2> DEFINE x == SentAt[m][i]
  <2> HIDE DEF t, x
  <2>3. x \in 0 .. 255 /\ t[i] = (x % 16) * 10 + (x \div 16)
    BY <2>1, <2>2 DEF BcdSwap, Octets, x
  <2> QED BY <2>3
<1> HIDE DEF t
<1>2. ~Earlier(t, t)
  BY <1>1 DEF Earlier
<1> QED BY <1>2 DEF t

\* A message of one part is announced as it is.
LEMMA SingleHeard ==
    ASSUME NEW entries, NEW e \in entries, e.sms.concat = NULL, ~Blank(e.sms.text)
    PROVE  [sender |-> e.sms.sender, message |-> e.sms.text, receivedAt |-> e.sms.timestamp]
             \in Reassemble(entries)
BY DEF Reassemble

\* A group of parts is announced together.
LEMMA GroupHeard ==
    ASSUME NEW entries, NEW key, NEW group,
           group = {e \in entries : e.sms.concat # NULL /\ KeyOf(e.sms) = key},
           group # {}, ~Blank(Combined(group).message)
    PROVE  Combined(group) \in Reassemble(entries)
<1> DEFINE singles == {e \in entries : e.sms.concat = NULL}
           keys == {KeyOf(e.sms) : e \in entries \ singles}
           groupOf(k) == {e \in entries \ singles : KeyOf(e.sms) = k}
           single == {[sender |-> e.sms.sender, message |-> e.sms.text,
                       receivedAt |-> e.sms.timestamp] : e \in singles}
<1>1. groupOf(key) = group
  <2> HIDE DEF KeyOf
  <2> QED OBVIOUS
<1>2. key \in keys
  <2>1. PICK e \in group : TRUE
    OBVIOUS
  <2>2. e \in entries \ singles /\ KeyOf(e.sms) = key
    OBVIOUS
  <2> HIDE DEF singles
  <2> QED BY <2>2
<1>3. Reassemble(entries) = {item \in single \cup {Combined(groupOf(k)) : k \in keys} : ~Blank(item.message)}
  BY DEF Reassemble
<1> HIDE DEF single, keys, groupOf
<1> QED BY <1>1, <1>2, <1>3

\* What was read of a message that is there as a whole.
LEMMA ReadIs ==
    ASSUME IInv, NEW m \in Sent, {slots[k] : k \in ReadOf(m)} = PartsOf(m),
           Cardinality(ReadOf(m)) = Len(submitted[m])
    PROVE  \E K \in [1 .. Len(submitted[m]) -> ReadOf(m)] :
             /\ ReadOf(m) = {K[i] : i \in 1 .. Len(submitted[m])}
             /\ \A i \in 1 .. Len(submitted[m]) : slots[K[i]].seq = i
<1> DEFINE n == Len(submitted[m])
           f == [k \in ReadOf(m) |-> slots[k].seq]
           K == [i \in 1 .. n |-> CHOOSE k \in ReadOf(m) : slots[k].seq = i]
<1>1. n \in Nat
  <2>1. n \in 1 .. 255
    BY SentIs
  <2> HIDE DEF n
  <2> QED BY <2>1
<1>2. PartsOf(m) = [message : {m}, seq : 1 .. n]
  BY DEF PartsOf
<1> HIDE DEF n
<1>3. IsFiniteSet(ReadOf(m))
  <2>1. ReadOf(m) \subseteq 1 .. Slots
    BY DEF IInv, TypeOK, ReadOf, Used
  <2>2. IsFiniteSet(1 .. Slots)
    BY SlotsAssumption, FS_Interval
  <2> QED BY <2>1, <2>2, FS_Subset
<1>4. \A i \in 1 .. n : \E k \in ReadOf(m) : slots[k].seq = i
  <2> SUFFICES ASSUME NEW i \in 1 .. n PROVE \E k \in ReadOf(m) : slots[k].seq = i
    OBVIOUS
  <2> DEFINE p == [message |-> m, seq |-> i]
  <2>1. p \in PartsOf(m) /\ p.seq = i
    BY <1>2
  <2> HIDE DEF p
  <2>2. p \in {slots[k] : k \in ReadOf(m)}
    BY <2>1
  <2> QED BY <2>1, <2>2
<1>5. \A k \in ReadOf(m) : slots[k].seq \in 1 .. n
  <2> SUFFICES ASSUME NEW k \in ReadOf(m) PROVE slots[k].seq \in 1 .. n
    OBVIOUS
  <2>1. slots[k] \in PartsOf(m)
    OBVIOUS
  <2> QED BY <1>2, <2>1
<1>6. f \in Surjection(ReadOf(m), 1 .. n)
  <2>1. f \in [ReadOf(m) -> 1 .. n]
    BY <1>5
  <2>2. \A i \in 1 .. n : \E k \in ReadOf(m) : f[k] = i
    BY <1>4
  <2> HIDE DEF f
  <2> QED BY <2>1, <2>2 DEF Surjection
<1>7. Cardinality(1 .. n) = Cardinality(ReadOf(m))
  <2>1. Cardinality(1 .. n) = n
    BY <1>1, FS_Interval
  <2> QED BY <2>1 DEF n
<1>8. \A j, k \in ReadOf(m) : slots[j].seq = slots[k].seq => j = k
  <2>1. f \in Injection(ReadOf(m), 1 .. n)
    <3> HIDE DEF f
    <3> QED BY <1>3, <1>6, <1>7, FS_SurjSameCardinalityImpliesInj
  <2>2. \A j, k \in ReadOf(m) : f[j] = f[k] => j = k
    <3> HIDE DEF f
    <3> QED BY <2>1 DEF Injection, IsInjective
  <2> QED BY <2>2
<1>9. \A i \in 1 .. n : K[i] \in ReadOf(m) /\ slots[K[i]].seq = i
  <2> SUFFICES ASSUME NEW i \in 1 .. n PROVE K[i] \in ReadOf(m) /\ slots[K[i]].seq = i
    OBVIOUS
  <2>1. \E k \in ReadOf(m) : slots[k].seq = i
    BY <1>4
  <2>2. K[i] = CHOOSE k \in ReadOf(m) : slots[k].seq = i
    OBVIOUS
  <2> HIDE DEF K
  <2> QED BY <2>1, <2>2
<1>10. K \in [1 .. n -> ReadOf(m)]
  BY <1>9
<1> HIDE DEF K
<1>11. ReadOf(m) = {K[i] : i \in 1 .. n}
  <2>1. ASSUME NEW k \in ReadOf(m) PROVE k \in {K[i] : i \in 1 .. n}
    <3> DEFINE i == slots[k].seq
    <3>1. i \in 1 .. n
      BY <1>5
    <3>2. slots[K[i]].seq = slots[k].seq /\ K[i] \in ReadOf(m)
      BY <1>9, <3>1
    <3>3. K[i] = k
      BY <1>8, <3>2
    <3> HIDE DEF i
    <3> QED BY <3>1, <3>3
  <2> QED BY <1>9, <2>1
<1> QED BY <1>9, <1>10, <1>11 DEF n

\* An announcement of every message that is there as a whole.
LEMMA WholeHeard ==
    ASSUME IInv, NEW m \in Sent, {slots[k] : k \in ReadOf(m)} = PartsOf(m),
           Cardinality(ReadOf(m)) = Len(submitted[m]), Alone(m), Intact(m)
    PROVE  [sender |-> SenderShown(m), message |-> Body[m],
            receivedAt |-> DecodeTimestamp(SentAt[m])] \in heard
<1> DEFINE n == Len(submitted[m])
           r == RefOf(m)
           text == Body[m]
           t == DecodeTimestamp(SentAt[m])
<1>1. PICK K \in [1 .. n -> ReadOf(m)] :
         /\ ReadOf(m) = {K[i] : i \in 1 .. n}
         /\ \A i \in 1 .. n : slots[K[i]].seq = i
  BY ReadIs
<1>2. /\ n \in 1 .. 255 /\ n = Len(ChunksOf(text)) /\ r \in Octets /\ m \in Messages
  BY SentIs
<1>3. n \in Nat /\ 1 \in 1 .. n
  <2>1. n \in 1 .. 255
    BY <1>2
  <2> HIDE DEF n
  <2> QED BY <2>1
<1>4. read # {}
  <2>1. K[1] \in ReadOf(m)
    <3> HIDE DEF n
    <3> QED BY <1>3
  <2> QED BY <2>1 DEF ReadOf
<1> DEFINE entries == {EntryOf(k) : k \in read}
<1>5. heard = Reassemble(entries)
  <2>1. PICK stray \in SUBSET Used :
          read = Used \ stray /\ heard = Reassemble(Entries(CmglLines(stray)))
    BY <1>4 DEF IInv, HeardFromRead
  <2>2. Entries(CmglLines(stray)) = {EntryOf(k) : k \in Used \ stray}
    BY <2>1, EntriesAre
  <2> QED BY <2>1, <2>2
\* what is read of every message
<1>6. ASSUME NEW k \in read
      PROVE  /\ slots[k] \in Part /\ slots[k].message \in Sent
             /\ k \in ReadOf(slots[k].message)
             /\ DecodedAs(slots[k], slots[k].message, EntryOf(k).sms)
             /\ EntryOf(k).index = k
  <2>1. slots[k] \in Part
    BY DEF IInv, TypeOK, Used
  <2>2. slots[k].message \in Sent
    BY <2>1, PartIs DEF IInv
  <2>3. DecodedAs(slots[k], slots[k].message, DecodeDeliverPdu(Delivered(slots[k])))
    BY <2>1, PartDecoded
  <2> QED BY <2>1, <2>2, <2>3 DEF ReadOf, EntryOf
\* what is read of this one
<1> DEFINE g == [i \in 1 .. n |-> EntryOf(K[i])]
<1>7. ASSUME NEW i \in 1 .. n
      PROVE  /\ K[i] \in read /\ slots[K[i]].message = m
             /\ g[i] = EntryOf(K[i]) /\ g[i] \in entries
             /\ g[i].sms.sender = SenderShown(m)
             /\ g[i].sms.timestamp = t
             /\ g[i].sms.concat = ConcatOf(text, r, i)
             /\ g[i].sms.text = PieceText(text, i)
  <2>1. K[i] \in ReadOf(m)
    <3> HIDE DEF n
    <3> QED BY <1>1
  <2>2. K[i] \in read /\ slots[K[i]].message = m
    BY <2>1 DEF ReadOf
  <2>3. DecodedAs(slots[K[i]], m, EntryOf(K[i]).sms)
    BY <1>6, <2>2
  <2>4. slots[K[i]].seq = i
    BY <1>1
  <2>5. ~InGsm7(text) => \A j \in 1 .. Len(text) : text[j] < 65536
    BY DEF Intact
  <2>6. g[i] = EntryOf(K[i])
    OBVIOUS
  <2> HIDE DEF g, n, r, t, text
  <2>7. /\ EntryOf(K[i]).sms.sender = SenderShown(m)
        /\ EntryOf(K[i]).sms.timestamp = t
        /\ EntryOf(K[i]).sms.concat = ConcatOf(text, r, i)
        /\ EntryOf(K[i]).sms.text = PieceText(text, i)
    BY <2>3, <2>4, <2>5 DEF DecodedAs, t, r, text
  <2> QED BY <2>2, <2>6, <2>7
<1>8. ~Blank(text)
  BY DEF Intact
<1>9. CASE n = 1
  <2>1. g[1] \in entries /\ g[1].sms.concat = NULL
    <3>1. ConcatOf(text, r, 1) = NULL
      BY <1>2, <1>9 DEF ConcatOf
    <3> HIDE DEF g, entries, n
    <3> QED BY <1>3, <1>7, <3>1
  <2>2. g[1].sms.text = text /\ g[1].sms.sender = SenderShown(m) /\ g[1].sms.timestamp = t
    <3>1. PieceText(text, 1) = text
      BY <1>9, WholeText
    <3> HIDE DEF g, entries, n
    <3> QED BY <1>3, <1>7, <3>1
  <2> HIDE DEF g, entries, n, text, t
  <2>3. [sender |-> g[1].sms.sender, message |-> g[1].sms.text, receivedAt |-> g[1].sms.timestamp]
          \in Reassemble(entries)
    BY <1>8, <2>1, <2>2, SingleHeard
  <2> QED BY <1>5, <2>2, <2>3 DEF text, t
<1>10. CASE n # 1
  <2> DEFINE key == <<SenderShown(m), r, n>>
             group == {g[i] : i \in 1 .. n}
  <2>1. ASSUME NEW q \in Sent, Len(submitted[q]) # 1, NEW i \in Nat
        PROVE  /\ ConcatOf(Body[q], RefOf(q), i) =
                    [reference |-> RefOf(q), total |-> Len(submitted[q]), seq |-> i]
               /\ ConcatOf(Body[q], RefOf(q), i) # NULL
    <3> DEFINE total == Len(submitted[q])  ref == RefOf(q)
    <3>1. total = Len(ChunksOf(Body[q])) /\ ref \in Octets /\ total \in 1 .. 255
      BY SentIs
    <3>2. ConcatOf(Body[q], ref, i) = [reference |-> ref, total |-> total, seq |-> i]
      BY <2>1, <3>1 DEF ConcatOf
    <3>3. ref \in Nat /\ total \in Nat
      <4>1. total \in 1 .. 255 /\ ref \in Octets
        BY <3>1
      <4> HIDE DEF total, ref
      <4> QED BY <4>1 DEF Octets
    <3> HIDE DEF total, ref
    <3>4. [reference |-> ref, total |-> total, seq |-> i] \in [reference : Nat, total : Nat, seq : Nat]
      BY <3>3
    <3> QED BY <3>2, <3>4, NullAssumption DEF total, ref
  <2>2. ASSUME NEW i \in 1 .. n
        PROVE  /\ g[i].sms.concat # NULL /\ KeyOf(g[i].sms) = key
               /\ g[i].sms.concat.seq = i
    <3>1. i \in Nat
      <4> HIDE DEF n
      <4> QED BY <1>3
    <3>2. /\ ConcatOf(text, r, i) = [reference |-> r, total |-> n, seq |-> i]
          /\ ConcatOf(text, r, i) # NULL
      BY <1>10, <2>1, <3>1
    <3> HIDE DEF g, n, r, text
    <3>3. g[i].sms.concat = [reference |-> r, total |-> n, seq |-> i] /\ g[i].sms.concat # NULL
          /\ g[i].sms.sender = SenderShown(m)
      BY <1>7, <3>2
    <3> QED BY <3>3 DEF KeyOf
  <2>3. ASSUME NEW e \in entries, e.sms.concat # NULL, KeyOf(e.sms) = key
        PROVE  e \in group
    <3>1. PICK k \in read : e = EntryOf(k)
      OBVIOUS
    <3> DEFINE q == slots[k].message
    <3>2. /\ q \in Sent /\ slots[k] \in Part /\ k \in ReadOf(q)
          /\ DecodedAs(slots[k], q, e.sms)
      BY <1>6, <3>1
    <3> HIDE DEF q
    <3>3. e.sms.sender = SenderShown(q) /\ e.sms.concat = ConcatOf(Body[q], RefOf(q), slots[k].seq)
      BY <3>2 DEF DecodedAs
    <3>4. Len(submitted[q]) # 1
      <4> SUFFICES ASSUME Len(submitted[q]) = 1 PROVE FALSE
        OBVIOUS
      <4>1. Len(ChunksOf(Body[q])) = 1
        BY <3>2, SentIs
      <4>2. e.sms.concat = NULL
        BY <3>3, <4>1 DEF ConcatOf
      <4> QED BY <2>3, <4>2
    <3>5. slots[k].seq \in Nat
      <4>1. slots[k].message \in Sent /\ slots[k].seq \in 1 .. Len(submitted[slots[k].message])
        BY <3>2, PartIs DEF IInv
      <4>2. Len(submitted[slots[k].message]) \in 1 .. 255
        BY <4>1, SentIs
      <4> DEFINE l == Len(submitted[slots[k].message])
      <4>3. l \in 1 .. 255 /\ slots[k].seq \in 1 .. l
        BY <4>1, <4>2
      <4> HIDE DEF l
      <4> QED BY <4>3
    <3>6. e.sms.concat = [reference |-> RefOf(q), total |-> Len(submitted[q]), seq |-> slots[k].seq]
      BY <2>1, <3>2, <3>3, <3>4, <3>5
    <3>7. KeyOf(e.sms) = <<SenderShown(q), RefOf(q), Len(submitted[q])>>
      BY <3>3, <3>6 DEF KeyOf
    <3>8. SenderShown(q) = SenderShown(m) /\ RefOf(q) = r /\ Len(submitted[q]) = n
      <4> HIDE DEF n, r, KeyOf
      <4> QED BY <2>3, <3>7
    <3>9. q = m
      <4> SUFFICES ASSUME q # m PROVE FALSE
        OBVIOUS
      <4>1. q \in Sent \ {m} /\ ReadOf(q) # {}
        BY <3>2
      <4>2. SubSeq(submitted[q][1].ud, 4, 4) # SubSeq(submitted[m][1].ud, 4, 4)
        BY <3>8, <4>1 DEF Alone
      <4>3. SubSeq(submitted[q][1].ud, 4, 4) = <<RefOf(q)>>
        BY <3>2, <3>4, ReferenceIs
      <4>4. SubSeq(submitted[m][1].ud, 4, 4) = <<r>>
        BY <1>10, ReferenceIs
      <4> QED BY <3>8, <4>2, <4>3, <4>4
    <3>10. PICK i \in 1 .. n : k = K[i]
      <4>1. k \in ReadOf(m)
        BY <3>2, <3>9
      <4> QED BY <1>1, <4>1
    <3>11. e = g[i]
      BY <3>1, <3>10
    <3> HIDE DEF g
    <3> QED BY <3>11
  <2>4. group = {e \in entries : e.sms.concat # NULL /\ KeyOf(e.sms) = key}
    <3>1. \A i \in 1 .. n : g[i] \in entries
      BY <1>7
    <3> HIDE DEF g, entries, KeyOf, key, n
    <3> QED BY <2>2, <2>3, <3>1
  <2>5. \A i, j \in 1 .. n : InOrder(g[i], g[j]) <=> i < j
    <3> SUFFICES ASSUME NEW i \in 1 .. n, NEW j \in 1 .. n PROVE InOrder(g[i], g[j]) <=> i < j
      OBVIOUS
    <3>1. g[i].sms.concat.seq = i /\ g[j].sms.concat.seq = j
      BY <2>2
    <3>2. i \in Nat /\ j \in Nat
      <4> HIDE DEF n
      <4> QED BY <1>3
    <3>3. i = j => ~(g[i].index < g[j].index)
      <4> SUFFICES ASSUME i = j, g[i].index < g[i].index PROVE FALSE
        OBVIOUS
      <4>1. g[i].index = K[i]
        BY DEF EntryOf
      <4>2. K[i] \in Int
        <5>1. K[i] \in read
          BY <1>7
        <5>2. read \subseteq 1 .. Slots
          BY DEF IInv, TypeOK, Used
        <5>3. K[i] \in 1 .. Slots
          BY <5>1, <5>2
        <5> HIDE DEF g, n
        <5> QED BY <5>3, SlotsAssumption
      <4> HIDE DEF g
      <4> QED BY <4>1, <4>2
    <3> HIDE DEF g
    <3> QED BY <3>1, <3>2, <3>3 DEF InOrder
  <2> DEFINE sorted == Sorted(group)
  <2>6. sorted = [i \in 1 .. n |-> g[i]]
    <3> HIDE DEF g, n
    <3> QED BY <1>3, <2>5, RankSort
  <2>7. Len(sorted) = n /\ \A i \in 1 .. n : sorted[i] = g[i]
    <3> HIDE DEF g, n, sorted
    <3> QED BY <1>3, <2>6
  <2>8. {e.sms.timestamp : e \in group} = {t}
    <3>1. \A e \in group : e.sms.timestamp = t
      <4>1. \A i \in 1 .. n : g[i].sms.timestamp = t
        BY <1>7
      <4> HIDE DEF g, n, t
      <4> QED BY <4>1
    <3>2. g[1] \in group
      <4> HIDE DEF g, n
      <4> QED BY <1>3
    <3> HIDE DEF g, group, t
    <3> QED BY <3>1, <3>2
  <2>9. (CHOOSE x \in {t} : \A u \in {t} : ~Earlier(u, x)) = t
    <3>1. ~Earlier(t, t)
      BY <1>2, NotEarlier
    <3> HIDE DEF t
    <3> QED BY <3>1
  <2>10. FlattenSeq([i \in 1 .. Len(sorted) |-> sorted[i].sms.text]) = text
    <3>1. [i \in 1 .. Len(sorted) |-> sorted[i].sms.text] = [i \in 1 .. n |-> PieceText(text, i)]
      <4>1. \A i \in 1 .. n : sorted[i].sms.text = PieceText(text, i)
        <5>1. \A i \in 1 .. n : g[i].sms.text = PieceText(text, i)
          BY <1>7
        <5> HIDE DEF sorted, g, n, text
        <5> QED BY <2>7, <5>1
      <4> HIDE DEF sorted, n, text
      <4> QED BY <2>7, <4>1
    <3>2. FlattenSeq([i \in 1 .. n |-> PieceText(text, i)]) = text
      BY <1>10, WholeText
    <3> HIDE DEF sorted, n, text
    <3> QED BY <3>1, <3>2
  <2>11. Combined(group) = [sender |-> SenderShown(m), message |-> text, receivedAt |-> t]
    <3>1. sorted[1].sms.sender = SenderShown(m)
      <4>1. \A i \in 1 .. n : g[i].sms.sender = SenderShown(m)
        BY <1>7
      <4> HIDE DEF sorted, g, n
      <4> QED BY <1>3, <2>7, <4>1
    <3>2. Combined(group) =
            [sender |-> sorted[1].sms.sender,
             message |-> FlattenSeq([i \in 1 .. Len(sorted) |-> sorted[i].sms.text]),
             receivedAt |-> CHOOSE x \in {e.sms.timestamp : e \in group} :
                              \A u \in {e.sms.timestamp : e \in group} : ~Earlier(u, x)]
      BY DEF Combined
    <3> HIDE DEF sorted, group, text, t
    <3> QED BY <2>8, <2>9, <2>10, <3>1, <3>2
  <2>12. group # {}
    <3>1. g[1] \in group
      <4> HIDE DEF g, n
      <4> QED BY <1>3
    <3> HIDE DEF group
    <3> QED BY <3>1
  <2>13. ~Blank(Combined(group).message)
    <3> HIDE DEF group, text, t
    <3> QED BY <1>8, <2>11
  <2> HIDE DEF group, entries, key, text, t
  <2>14. Combined(group) \in Reassemble(entries)
    BY <2>4, <2>12, <2>13, GroupHeard
  <2> QED BY <1>5, <2>11, <2>14 DEF text, t
<1> QED BY <1>9, <1>10

\* A message all of whose parts were read once is announced as it was written,
\* by the number that wrote it, wherever its parts lie in the SIM and whatever
\* lies between them, unless another one has its sender, reference and total
\* (SimInboxParser on what AT+CMGL lists).
THEOREM MessagesWhole == Spec => []WholeAgain
<1>1. ASSUME IInv PROVE WholeAgain
  BY <1>1, WholeHeard DEF WholeAgain
<1> QED BY InitIInv, StepIInv, <1>1, PTL DEF Spec
=============================================================================
