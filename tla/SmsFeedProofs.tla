--------------------------- MODULE SmsFeedProofs ---------------------------
(* Proofs about SmsFeed, for any SMS, sizes and windows: however events and *)
(* reloads take turns, the rows that are merged one by one are those that   *)
(* renderSmsGroups makes of the same SMS.  The argument is that a set of    *)
(* SMS is grouped into rows in one way only (GroupedOnce): a reload groups  *)
(* (RenderedGrouped), and a new SMS at the top keeps what is grouped        *)
(* (AddedGrouped).                                                          *)
EXTENDS SmsFeed, SequenceTheorems, FiniteSetTheorems, WellFoundedInduction, TLAPS

\* A set of naturals has a least one.
LEMMA NatMin ==
    ASSUME NEW S \in SUBSET Nat, S # {}
    PROVE  \E n \in S : \A k \in S : n <= k
<1> DEFINE T == {0 .. n : n \in S}
<1>1. T \subseteq FiniteSubsetsOf(Nat) /\ T # {}
  <2>1. ASSUME NEW n \in S PROVE 0 .. n \in FiniteSubsetsOf(Nat)
    BY FS_Interval DEF FiniteSubsetsOf
  <2> QED BY <2>1
<1>2. PICK x \in T : \A y \in T : ~(<<y, x>> \in StrictSubsetOrdering(Nat))
  <2> HIDE DEF T
  <2> QED BY <1>1, FS_StrictSubsetOrderingWellFounded, WFMin
<1>3. PICK n \in S : x = 0 .. n
  OBVIOUS
<1>4. ASSUME NEW k \in S PROVE n <= k
  <2> SUFFICES ASSUME k < n PROVE FALSE
    OBVIOUS
  <2>1. 0 .. k \in T /\ 0 .. k \subseteq 0 .. n /\ 0 .. k # 0 .. n
    <3>1. n \in 0 .. n /\ n \notin 0 .. k
      OBVIOUS
    <3> QED BY <3>1
  <2>2. <<0 .. k, 0 .. n>> \in StrictSubsetOrdering(Nat)
    BY <2>1, <1>3 DEF StrictSubsetOrdering
  <2> QED BY <2>1, <2>2, <1>2, <1>3
<1> QED BY <1>4

\* Induction up to a bound, for a property given as the set of what has it.
LEMMA UpTo ==
    ASSUME NEW n \in Nat, NEW T, 0 \in T, \A i \in 0 .. n - 1 : i \in T => i + 1 \in T
    PROVE  \A i \in 0 .. n : i \in T
<1> DEFINE S == (0 .. n) \ T
<1> SUFFICES ASSUME S # {} PROVE FALSE
  OBVIOUS
<1>1. PICK k \in S : \A j \in S : k <= j
  <2>1. S \in SUBSET Nat
    OBVIOUS
  <2> HIDE DEF S
  <2> QED BY <2>1, NatMin
<1>2. k # 0 /\ k \in 0 .. n /\ k \notin T
  OBVIOUS
<1>3. k - 1 \in 0 .. n - 1 /\ (k - 1) + 1 = k /\ ~(k <= k - 1)
  BY <1>2
<1>4. k - 1 \in T
  BY <1>1, <1>3
<1> QED BY <1>2, <1>3, <1>4

----------------------------------------------------------------------------
(* Rows of the SMS feed, and how SMS follow each other in time.            *)

\* The thread of m goes on with n.
Continues(m, n) == Thread[m] = Thread[n] /\ Gap(m, n) <= Window

\* Rows as groupSmsMessages makes them: in the order of time, the newest row
\* first, each as long as its thread goes on.
Filled(f) == f \in Seq(Seq(Messages)) /\ \A g \in 1 .. Len(f) : f[g] # <<>>

InTime(f) ==
    /\ \A g \in 1 .. Len(f) : \A i, j \in 1 .. Len(f[g]) : i < j => Newer(f[g][i], f[g][j])
    /\ \A g, h \in 1 .. Len(f) : \A i \in 1 .. Len(f[g]), j \in 1 .. Len(f[h]) :
          g > h => Newer(f[g][i], f[h][j])

Threaded(f) ==
    /\ \A g \in 1 .. Len(f) : \A i \in 1 .. Len(f[g]) - 1 : Continues(f[g][i], f[g][i + 1])
    /\ \A g \in 1 .. Len(f) - 1 : ~Continues(f[g + 1][Len(f[g + 1])], f[g][1])

Grouped(f) == Filled(f) /\ InTime(f) /\ Threaded(f)

\* The SMS in the rows after the first k.
Rest(f, k) == UNION {ToSet(f[g]) : g \in k + 1 .. Len(f)}

\* What the remaining rows hold, place by place.
LEMMA RestIs ==
    ASSUME NEW f \in Seq(Seq(Messages)), NEW k \in Nat
    PROVE  /\ \A x \in Rest(f, k) : x \in Messages /\ \E g \in k + 1 .. Len(f) : \E i \in 1 .. Len(f[g]) : x = f[g][i]
           /\ \A g \in k + 1 .. Len(f) : \A i \in 1 .. Len(f[g]) : f[g][i] \in Rest(f, k)
<1>1. \A g \in k + 1 .. Len(f) : f[g] \in Seq(Messages)
  OBVIOUS
<1>2. ASSUME NEW x \in Rest(f, k)
      PROVE x \in Messages /\ \E g \in k + 1 .. Len(f) : \E i \in 1 .. Len(f[g]) : x = f[g][i]
  <2>1. PICK g \in k + 1 .. Len(f) : x \in ToSet(f[g])
    BY DEF Rest
  <2>2. PICK i \in 1 .. Len(f[g]) : x = f[g][i]
    BY <1>1, <2>1 DEF ToSet
  <2> QED BY <1>1, <2>2
<1>3. ASSUME NEW g \in k + 1 .. Len(f), NEW i \in 1 .. Len(f[g])
      PROVE  f[g][i] \in Rest(f, k)
  <2>1. f[g][i] \in ToSet(f[g])
    BY <1>1 DEF ToSet
  <2> QED BY <2>1 DEF Rest
<1> QED BY <1>2, <1>3

\* Newer is a strict order on the SMS.
LEMMA Times ==
    ASSUME ConstantsOK, NEW m \in Messages, NEW n \in Messages
    PROVE  /\ At[m] \in Nat
           /\ ~Newer(m, m)
           /\ Newer(m, n) => ~Newer(n, m)
           /\ \A o \in Messages : Newer(m, n) /\ Newer(n, o) => Newer(m, o)
<1>1. At[m] \in Nat /\ At[n] \in Nat /\ \A o \in Messages : At[o] \in Nat
  BY DEF ConstantsOK
<1> QED BY <1>1 DEF Newer

\* It is total on SMS of different times.
LEMMA Apart ==
    ASSUME ConstantsOK, NEW S \in SUBSET Messages, Distinct(S), NEW m \in S, NEW n \in S
    PROVE  m = n \/ Newer(m, n) \/ Newer(n, m)
<1>1. At[m] \in Nat /\ At[n] \in Nat /\ (At[m] = At[n] => m = n)
  BY DEF ConstantsOK, Distinct
<1> QED BY <1>1 DEF Newer

----------------------------------------------------------------------------
(* What is in a row, from its newest SMS on.                               *)

\* The newest j SMS of the row after the first k.
Latest(f, k, j) == {f[k + 1][Len(f[k + 1]) - i] : i \in 0 .. j - 1}

\* x is the newest of S.
Top(x, S) == x \in S /\ \A y \in S : y = x \/ Newer(y, x)

\* There is one newest SMS.
LEMMA TopOne ==
    ASSUME ConstantsOK, NEW S \in SUBSET Messages, NEW x, NEW y, Top(x, S), Top(y, S)
    PROVE  x = y
<1>1. x \in Messages /\ y \in Messages
  BY DEF Top
<1>2. x = y \/ (Newer(x, y) /\ Newer(y, x))
  BY DEF Top
<1>3. ~(Newer(x, y) /\ Newer(y, x))
  BY <1>1, Times
<1> QED BY <1>2, <1>3

\* The next row has an SMS.
LEMMA RowIs ==
    ASSUME NEW f, Grouped(f), NEW k \in Nat, k < Len(f)
    PROVE  /\ k + 1 \in 1 .. Len(f) /\ Len(f) \in Nat
           /\ f[k + 1] \in Seq(Messages) /\ Len(f[k + 1]) \in Nat \ {0}
<1>1. Len(f) \in Nat /\ k + 1 \in 1 .. Len(f)
  BY DEF Grouped, Filled
<1>2. f[k + 1] \in Seq(Messages) /\ f[k + 1] # <<>>
  BY <1>1 DEF Grouped, Filled
<1> QED BY <1>1, <1>2

\* From the newest SMS of the row on, each is the newest of what is left.
LEMMA LatestTop ==
    ASSUME ConstantsOK, NEW f, Grouped(f), NEW k \in Nat, k < Len(f),
           NEW j \in 0 .. Len(f[k + 1]) - 1
    PROVE  Top(f[k + 1][Len(f[k + 1]) - j], Rest(f, k) \ Latest(f, k, j))
<1> DEFINE r == f[k + 1]
           p == Len(r)
<1>1. k + 1 \in 1 .. Len(f) /\ Len(f) \in Nat /\ r \in Seq(Messages) /\ p \in Nat /\ k + 1 \in k + 1 .. Len(f)
  BY RowIs
<1>2. f \in Seq(Seq(Messages))
  BY DEF Grouped, Filled
<1>3. \A i, h \in 1 .. p : i < h => Newer(r[i], r[h])
  BY <1>1 DEF Grouped, InTime
<1>4. p - j \in 1 .. p /\ \A i \in 0 .. j - 1 : p - i \in 1 .. p /\ p - j < p - i
  BY <1>1
<1>5. r[p - j] \in Rest(f, k)
  <2> HIDE DEF p
  <2> QED BY <1>1, <1>2, <1>4, RestIs DEF p
<1>6. r[p - j] \notin Latest(f, k, j)
  <2> SUFFICES ASSUME NEW i \in 0 .. j - 1, r[p - j] = r[p - i] PROVE FALSE
    BY DEF Latest
  <2>1. Newer(r[p - j], r[p - i])
    BY <1>3, <1>4
  <2>2. r[p - j] \in Messages
    BY <1>1, <1>4
  <2> QED BY <2>1, <2>2, Times
<1>7. ASSUME NEW y \in Rest(f, k) \ Latest(f, k, j)
      PROVE  y = r[p - j] \/ Newer(y, r[p - j])
  <2>1. PICK g \in k + 1 .. Len(f) : \E i \in 1 .. Len(f[g]) : y = f[g][i]
    BY <1>2, RestIs
  <2>2. PICK i \in 1 .. Len(f[g]) : y = f[g][i]
    BY <2>1
  <2>3. CASE g = k + 1
    <3>1. i \in 1 .. p /\ y = r[i]
      BY <2>2, <2>3
    <3>2. p - i \notin 0 .. j - 1
      <4> SUFFICES ASSUME p - i \in 0 .. j - 1 PROVE FALSE
        OBVIOUS
      <4>1. p - (p - i) = i
        BY <1>1, <3>1
      <4>2. r[p - (p - i)] \in Latest(f, k, j)
        BY DEF Latest
      <4> QED BY <3>1, <4>1, <4>2, <1>7
    <3>3. i = p - j \/ i < p - j
      BY <1>1, <3>1, <3>2
    <3> QED BY <1>3, <1>4, <3>1, <3>3
  <2>4. CASE g # k + 1
    <3>1. g > k + 1 /\ g \in 1 .. Len(f)
      BY <1>1, <2>4
    <3>2. Newer(f[g][i], f[k + 1][p - j])
      <4> HIDE DEF p
      <4> QED BY <1>1, <1>4, <2>2, <3>1 DEF Grouped, InTime, p
    <3> QED BY <2>2, <3>2
  <2> QED BY <2>3, <2>4
<1> QED BY <1>5, <1>6, <1>7 DEF Top

\* What is left without a whole row.
LEMMA RestNext ==
    ASSUME ConstantsOK, NEW f, Grouped(f), NEW k \in Nat, k < Len(f)
    PROVE  Rest(f, k + 1) = Rest(f, k) \ Latest(f, k, Len(f[k + 1]))
<1> DEFINE r == f[k + 1]
           p == Len(r)
<1>1. k + 1 \in 1 .. Len(f) /\ Len(f) \in Nat /\ r \in Seq(Messages) /\ p \in Nat /\ k + 1 \in k + 1 .. Len(f)
  BY RowIs
<1>2. f \in Seq(Seq(Messages))
  BY DEF Grouped, Filled
<1>3. ASSUME NEW y \in Rest(f, k + 1) PROVE y \in Rest(f, k) /\ y \notin Latest(f, k, p)
  <2>1. PICK g \in (k + 1) + 1 .. Len(f) : \E i \in 1 .. Len(f[g]) : y = f[g][i]
    <3>1. k + 1 \in Nat
      OBVIOUS
    <3> QED BY <1>2, <3>1, RestIs
  <2>2. PICK i \in 1 .. Len(f[g]) : y = f[g][i]
    BY <2>1
  <2>3. g \in k + 1 .. Len(f) /\ g \in 1 .. Len(f) /\ g > k + 1
    BY <1>1
  <2>4. y \in Rest(f, k) /\ y \in Messages
    BY <1>2, <2>2, <2>3, RestIs
  <2>5. ASSUME NEW h \in 0 .. p - 1, y = r[p - h] PROVE FALSE
    <3>1. p - h \in 1 .. p
      BY <1>1
    <3>2. Newer(f[g][i], f[k + 1][p - h])
      <4> HIDE DEF p
      <4> QED BY <1>1, <2>2, <2>3, <3>1 DEF Grouped, InTime, p
    <3> QED BY <2>2, <2>4, <2>5, <3>2, Times
  <2> QED BY <2>4, <2>5 DEF Latest
<1>4. ASSUME NEW y \in Rest(f, k), y \notin Latest(f, k, p) PROVE y \in Rest(f, k + 1)
  <2>1. PICK g \in k + 1 .. Len(f) : \E i \in 1 .. Len(f[g]) : y = f[g][i]
    BY <1>2, RestIs
  <2>2. PICK i \in 1 .. Len(f[g]) : y = f[g][i]
    BY <2>1
  <2>3. g # k + 1
    <3> SUFFICES ASSUME g = k + 1 PROVE FALSE
      OBVIOUS
    <3>1. i \in 1 .. p /\ y = r[i]
      BY <2>2
    <3>2. p - i \in 0 .. p - 1 /\ p - (p - i) = i
      BY <1>1, <3>1
    <3>3. r[p - (p - i)] \in Latest(f, k, p)
      BY <3>2 DEF Latest
    <3> QED BY <3>1, <3>2, <3>3, <1>4
  <2>4. g \in (k + 1) + 1 .. Len(f) /\ k + 1 \in Nat
    BY <1>1, <2>3
  <2> QED BY <1>2, <2>2, <2>4, RestIs
<1> QED BY <1>3, <1>4

----------------------------------------------------------------------------
(* SMS are grouped in one way only.                                        *)

\* Two feeds of the same SMS have the same row next: none of the two rows ends
\* before the other, since the SMS that comes next would continue it.
LEMMA RowWithin ==
    ASSUME ConstantsOK, NEW f, NEW e, Grouped(f), Grouped(e), NEW k \in Nat,
           k < Len(f), k < Len(e), Rest(f, k) = Rest(e, k)
    PROVE  /\ Len(f[k + 1]) <= Len(e[k + 1])
           /\ \A i \in 0 .. Len(f[k + 1]) - 1 :
                 f[k + 1][Len(f[k + 1]) - i] = e[k + 1][Len(e[k + 1]) - i]
<1> DEFINE r == f[k + 1]
           s == e[k + 1]
           p == Len(r)
           q == Len(s)
           Same(j) == \A i \in 0 .. j - 1 : r[p - i] = s[q - i]
           T == {j \in 0 .. p : j <= q /\ Same(j)}
<1>1. /\ k + 1 \in 1 .. Len(f) /\ Len(f) \in Nat /\ r \in Seq(Messages) /\ p \in Nat \ {0}
      /\ k + 1 \in 1 .. Len(e) /\ Len(e) \in Nat /\ s \in Seq(Messages) /\ q \in Nat \ {0}
  BY RowIs
<1>2. f \in Seq(Seq(Messages)) /\ e \in Seq(Seq(Messages))
  BY DEF Grouped, Filled
<1>3. 0 \in T
  BY <1>1
<1>4. ASSUME NEW j \in 0 .. p - 1, j \in T PROVE j + 1 \in T
  <2>1. j \in Nat /\ j <= q /\ Same(j)
    BY <1>4
  <2>2. Latest(f, k, j) = Latest(e, k, j)
    BY <2>1 DEF Latest
  <2> DEFINE D == Rest(f, k) \ Latest(f, k, j)
             x == r[p - j]
  <2>3. Top(x, D)
    BY LatestTop
  <2>4. D \in SUBSET Messages
    BY <1>2, RestIs
  <2>5. j < q
    <3> SUFFICES ASSUME j = q PROVE FALSE
      BY <1>1, <2>1
    <3>1. D = Rest(e, k + 1)
      BY <2>2, RestNext
    <3>2. x \in Rest(e, k + 1)
      BY <2>3, <3>1 DEF Top
    <3>3. k + 1 \in Nat /\ k + 1 < Len(e)
      <4>1. k + 1 \in Nat
        OBVIOUS
      <4>2. PICK g \in (k + 1) + 1 .. Len(e) : \E i \in 1 .. Len(e[g]) : x = e[g][i]
        <5> HIDE DEF x
        <5> QED BY <1>2, <3>2, <4>1, RestIs
      <4> QED BY <1>1, <4>1, <4>2
    <3> DEFINE t == e[(k + 1) + 1]
               y == t[Len(t)]
    <3>4. t \in Seq(Messages) /\ Len(t) \in Nat \ {0}
      BY <3>3, RowIs
    <3>5. Top(y, D)
      <4>1. 0 \in 0 .. Len(t) - 1 /\ Len(t) - 0 = Len(t)
        BY <3>4
      <4>2. Top(t[Len(t) - 0], Rest(e, k + 1) \ Latest(e, k + 1, 0))
        <5> HIDE DEF t
        <5>1. 0 \in 0 .. Len(e[(k + 1) + 1]) - 1
          BY <4>1 DEF t
        <5> QED BY <3>3, <5>1, LatestTop DEF t
      <4>3. Latest(e, k + 1, 0) = {}
        BY DEF Latest
      <4> HIDE DEF t
      <4> QED BY <3>1, <4>1, <4>2, <4>3
    <3>6. x = y
      <4> HIDE DEF x, y, D
      <4> QED BY <2>3, <2>4, <3>5, TopOne
    <3>7. p - j \in 1 .. p - 1 /\ p - (j - 1) = (p - j) + 1 /\ j - 1 \in 0 .. j - 1 /\ q - (j - 1) = 1
      <4>1. p \in Nat \ {0} /\ q \in Nat \ {0} /\ j \in 0 .. p - 1 /\ j = q
        BY <1>1
      <4> HIDE DEF p, q
      <4> QED BY <4>1
    <3>8. Continues(x, r[(p - j) + 1])
      <4> HIDE DEF p
      <4> QED BY <1>1, <3>7 DEF Grouped, Threaded, p
    <3>9. r[(p - j) + 1] = s[1]
      <4>1. r[p - (j - 1)] = s[q - (j - 1)]
        BY <2>1, <3>7
      <4> HIDE DEF r, s, p, q
      <4> QED BY <3>7, <4>1
    <3>10. ~Continues(y, s[1])
      <4>1. k + 1 \in 1 .. Len(e) - 1
        BY <1>1, <3>3
      <4> QED BY <4>1 DEF Grouped, Threaded
    <3> HIDE DEF x, y, r, s
    <3> QED BY <3>6, <3>8, <3>9, <3>10
  <2>6. x = s[q - j]
    <3>1. j \in 0 .. q - 1
      BY <1>1, <2>1, <2>5
    <3>2. Top(s[q - j], Rest(e, k) \ Latest(e, k, j))
      BY <3>1, LatestTop
    <3>3. Top(s[q - j], D)
      BY <3>2, <2>2
    <3> HIDE DEF D, x, s, q
    <3> QED BY <2>3, <2>4, <3>3, TopOne
  <2>7. \A i \in 0 .. (j + 1) - 1 : i \in 0 .. j - 1 \/ i = j
    BY <2>1
  <2>8. Same(j + 1)
    <3> HIDE DEF r, s, p, q
    <3> QED BY <2>1, <2>6, <2>7 DEF x
  <2>9. j + 1 \in 0 .. p /\ j + 1 <= q
    BY <1>1, <2>1, <2>5
  <2> HIDE DEF Same
  <2> QED BY <2>8, <2>9
<1>5. p \in T
  <2> HIDE DEF T
  <2>1. \A j \in 0 .. p : j \in T
    <3>1. p \in Nat
      BY <1>1
    <3> HIDE DEF p
    <3> QED BY <1>3, <1>4, <3>1, UpTo
  <2>2. p \in 0 .. p
    BY <1>1
  <2> QED BY <2>1, <2>2
<1> QED BY <1>5

\* ... so they are equal, and the same SMS remain.
LEMMA RowSame ==
    ASSUME ConstantsOK, NEW f, NEW e, Grouped(f), Grouped(e), NEW k \in Nat,
           k < Len(f), k < Len(e), Rest(f, k) = Rest(e, k)
    PROVE  f[k + 1] = e[k + 1] /\ Rest(f, k + 1) = Rest(e, k + 1)
<1> DEFINE r == f[k + 1]
           s == e[k + 1]
           p == Len(r)
<1>1. r \in Seq(Messages) /\ p \in Nat /\ s \in Seq(Messages) /\ Len(s) \in Nat
  BY RowIs
<1>2. p <= Len(s) /\ \A i \in 0 .. p - 1 : r[p - i] = s[Len(s) - i]
  BY RowWithin
<1>3. Len(s) <= p
  BY RowWithin
<1>4. Len(s) = p
  BY <1>1, <1>2, <1>3
<1>5. ASSUME NEW i \in 1 .. p PROVE r[i] = s[i]
  <2>1. p - i \in 0 .. p - 1 /\ p - (p - i) = i
    BY <1>1
  <2>2. r[p - (p - i)] = s[p - (p - i)]
    BY <1>2, <1>4, <2>1
  <2> HIDE DEF r, s, p
  <2> QED BY <2>1, <2>2
<1>6. r = s
  <2> HIDE DEF r, s
  <2> QED BY <1>1, <1>4, <1>5 DEF p
<1>7. Latest(f, k, p) = Latest(e, k, p)
  BY <1>6 DEF Latest
<1>8. Rest(f, k + 1) = Rest(f, k) \ Latest(f, k, p)
  BY RestNext
<1>9. Rest(e, k + 1) = Rest(e, k) \ Latest(e, k, Len(s))
  BY RestNext
<1> HIDE DEF p, r, s
<1>10. Rest(f, k + 1) = Rest(e, k + 1)
  BY <1>4, <1>7, <1>8, <1>9
<1> QED BY <1>6, <1>10 DEF r, s

\* There is one way to group SMS.
THEOREM GroupedOnce ==
    ASSUME ConstantsOK, NEW f, NEW e, Grouped(f), Grouped(e), Rest(f, 0) = Rest(e, 0)
    PROVE  f = e
<1> DEFINE n == Len(f)
           Same(k) == k <= Len(e) /\ Rest(f, k) = Rest(e, k) /\ \A i \in 1 .. k : f[i] = e[i]
           T == {k \in 0 .. n : Same(k)}
<1>1. f \in Seq(Seq(Messages)) /\ e \in Seq(Seq(Messages)) /\ n \in Nat /\ Len(e) \in Nat
  BY DEF Grouped, Filled
<1>2. \A d : Grouped(d) => \A k \in Nat : (k < Len(d)) <=> (Rest(d, k) # {})
  <2> SUFFICES ASSUME NEW d, Grouped(d), NEW k \in Nat PROVE (k < Len(d)) <=> (Rest(d, k) # {})
    OBVIOUS
  <2>1. d \in Seq(Seq(Messages)) /\ Len(d) \in Nat
    BY DEF Grouped, Filled
  <2>2. ASSUME k < Len(d) PROVE Rest(d, k) # {}
    <3>1. k + 1 \in k + 1 .. Len(d) /\ 1 \in 1 .. Len(d[k + 1])
      BY <2>2, RowIs
    <3> QED BY <2>1, <3>1, RestIs
  <2>3. ASSUME Rest(d, k) # {} PROVE k < Len(d)
    <3>1. PICK x \in Rest(d, k) : TRUE
      BY <2>3
    <3>2. PICK g \in k + 1 .. Len(d) : TRUE
      BY <2>1, <3>1, RestIs
    <3> QED BY <2>1, <3>2
  <2> QED BY <2>2, <2>3
<1>3. 0 \in T
  BY <1>1
<1>4. ASSUME NEW k \in 0 .. n - 1, k \in T PROVE k + 1 \in T
  <2>1. k \in Nat /\ k < Len(f) /\ Same(k)
    BY <1>1, <1>4
  <2>2. k < Len(e)
    BY <1>2, <2>1
  <2>3. f[k + 1] = e[k + 1] /\ Rest(f, k + 1) = Rest(e, k + 1)
    BY <2>1, <2>2, RowSame
  <2>4. k + 1 <= Len(e) /\ k + 1 \in 0 .. n /\ \A i \in 1 .. k + 1 : i \in 1 .. k \/ i = k + 1
    BY <1>1, <2>1, <2>2
  <2>5. \A i \in 1 .. k + 1 : f[i] = e[i]
    BY <2>1, <2>3, <2>4
  <2> QED BY <2>3, <2>4, <2>5
<1>5. n \in T
  <2> HIDE DEF T, n
  <2>1. \A k \in 0 .. n : k \in T
    BY <1>1, <1>3, <1>4, UpTo
  <2>2. n \in 0 .. n
    BY <1>1
  <2> QED BY <2>1, <2>2
<1>6. Len(e) = n
  <2>1. ~(n < Len(f))
    BY <1>1
  <2>2. ~(n < Len(e))
    BY <1>1, <1>2, <1>5, <2>1
  <2> QED BY <1>1, <1>5, <2>2
<1>7. \A i \in 1 .. n : f[i] = e[i]
  BY <1>5
<1> DEFINE R == Seq(Messages)
<1>8. f \in Seq(R) /\ e \in Seq(R) /\ Len(f) = n
  BY <1>1
<1> HIDE DEF T, n, R
<1> QED BY <1>6, <1>7, <1>8

----------------------------------------------------------------------------
(* A feed that grows by an SMS at its top.                                 *)

\* S holds with each of its SMS the newer ones of T.
UpClosed(S, T) == S \subseteq T /\ \A m \in S : \A n \in T : Newer(m, n) => n \in S

\* The newest rows of a feed are a feed, of the newest SMS.
LEMMA CutGrouped ==
    ASSUME ConstantsOK, NEW f, Grouped(f), NEW k \in 0 .. Len(f)
    PROVE  /\ Grouped(SubSeq(f, 1, k)) /\ Len(SubSeq(f, 1, k)) = k
           /\ UpClosed(Rest(SubSeq(f, 1, k), 0), Rest(f, 0))
           /\ k > 0 => f[1][Len(f[1])] \in Rest(SubSeq(f, 1, k), 0)
<1> DEFINE e == SubSeq(f, 1, k)
           R == Seq(Messages)
<1>1. f \in Seq(R) /\ Len(f) \in Nat /\ f \in Seq(Seq(Messages))
  BY DEF Grouped, Filled
<1>2. e \in Seq(R) /\ Len(e) = k /\ \A g \in 1 .. k : e[g] = f[g] /\ g \in 1 .. Len(f)
  <2> HIDE DEF R
  <2> QED BY <1>1
<1> HIDE DEF e
<1>3. Filled(e)
  BY <1>2 DEF Grouped, Filled
<1>4. InTime(e)
  BY <1>2 DEF Grouped, InTime
<1>5. Threaded(e)
  <2>1. \A g \in 1 .. k - 1 : g \in 1 .. k /\ g + 1 \in 1 .. k /\ g \in 1 .. Len(f) - 1
    BY <1>1
  <2> QED BY <1>2, <2>1 DEF Grouped, Threaded
<1>6. ASSUME NEW x \in Rest(e, 0) PROVE \E g \in 1 .. k : \E i \in 1 .. Len(f[g]) : x = f[g][i]
  <2>1. e \in Seq(Seq(Messages)) /\ 0 \in Nat
    BY <1>2
  <2>2. PICK g \in 0 + 1 .. Len(e) : \E i \in 1 .. Len(e[g]) : x = e[g][i]
    BY <2>1, RestIs
  <2> QED BY <1>2, <2>2
<1>7. ASSUME NEW g \in 1 .. k, NEW i \in 1 .. Len(f[g]) PROVE f[g][i] \in Rest(e, 0)
  <2>1. e \in Seq(Seq(Messages)) /\ 0 \in Nat /\ g \in 0 + 1 .. Len(e) /\ i \in 1 .. Len(e[g]) /\ e[g] = f[g]
    BY <1>2
  <2>2. e[g][i] \in Rest(e, 0)
    BY <2>1, RestIs
  <2> QED BY <2>1, <2>2
<1>8. ASSUME NEW x \in Rest(f, 0)
      PROVE  x \in Messages /\ \E g \in 1 .. Len(f) : \E i \in 1 .. Len(f[g]) : x = f[g][i]
  <2>1. 0 \in Nat /\ 0 + 1 = 1
    OBVIOUS
  <2> QED BY <1>1, <2>1, RestIs
<1>9. UpClosed(Rest(e, 0), Rest(f, 0))
  <2>1. ASSUME NEW x \in Rest(e, 0) PROVE x \in Rest(f, 0)
    <3>1. PICK g \in 1 .. k : \E i \in 1 .. Len(f[g]) : x = f[g][i]
      BY <1>6
    <3>2. g \in 0 + 1 .. Len(f) /\ 0 \in Nat
      BY <1>1
    <3> QED BY <1>1, <3>1, <3>2, RestIs
  <2>2. ASSUME NEW x \in Rest(e, 0), NEW y \in Rest(f, 0), Newer(x, y) PROVE y \in Rest(e, 0)
    <3>1. PICK g \in 1 .. k : \E i \in 1 .. Len(f[g]) : x = f[g][i]
      BY <1>6
    <3>2. PICK i \in 1 .. Len(f[g]) : x = f[g][i]
      BY <3>1
    <3>3. PICK h \in 1 .. Len(f) : \E j \in 1 .. Len(f[h]) : y = f[h][j]
      BY <1>8
    <3>4. PICK j \in 1 .. Len(f[h]) : y = f[h][j]
      BY <3>3
    <3>5. ~(h > g)
      <4> SUFFICES ASSUME h > g PROVE FALSE
        OBVIOUS
      <4>1. Newer(y, x)
        BY <1>2, <3>2, <3>4 DEF Grouped, InTime
      <4>2. x \in Messages /\ y \in Messages
        BY <2>1, <1>8
      <4> QED BY <2>2, <4>1, <4>2, Times
    <3>6. h \in 1 .. k
      BY <3>5
    <3> QED BY <1>7, <3>4, <3>6
  <2> QED BY <2>1, <2>2 DEF UpClosed
<1>10. ASSUME k > 0 PROVE f[1][Len(f[1])] \in Rest(e, 0)
  <2>1. f[1] \in Seq(Messages) /\ f[1] # <<>>
    BY <1>1, <1>10 DEF Grouped, Filled
  <2>2. 1 \in 1 .. k /\ Len(f[1]) \in 1 .. Len(f[1])
    BY <1>10, <2>1
  <2> QED BY <1>7, <2>2
<1> QED BY <1>2, <1>3, <1>4, <1>5, <1>9, <1>10 DEF Grouped, e

\* A newer SMS goes on with the row at the top.
LEMMA MergedGrouped ==
    ASSUME ConstantsOK, NEW f, Grouped(f), f # <<>>, NEW m \in Messages,
           \A x \in Rest(f, 0) : Newer(x, m), Continues(Last(Head(f)), m)
    PROVE  /\ Grouped(<<Append(Head(f), m)>> \o Tail(f))
           /\ Len(<<Append(Head(f), m)>> \o Tail(f)) = Len(f)
           /\ Rest(<<Append(Head(f), m)>> \o Tail(f), 0) = Rest(f, 0) \cup {m}
<1> DEFINE e == <<Append(Head(f), m)>> \o Tail(f)
           R == Seq(Messages)
           n == Len(f)
           r == f[1]
           p == Len(r)
<1>1. f \in Seq(R) /\ n \in Nat \ {0} /\ f \in Seq(Seq(Messages))
  BY DEF Grouped, Filled
<1>2. r \in Seq(Messages) /\ p \in Nat \ {0} /\ Head(f) = r /\ Last(r) = r[p]
  <2>1. 1 \in 1 .. n /\ f[1] \in Seq(Messages) /\ f[1] # <<>>
    BY <1>1 DEF Grouped, Filled
  <2> QED BY <1>1, <2>1 DEF Last
<1>3. e \in Seq(R) /\ Len(e) = n /\ e[1] = Append(r, m) /\ \A g \in 2 .. n : e[g] = f[g]
  <2>1. Append(r, m) \in R
    BY <1>2
  <2> DEFINE a == Append(r, m)
  <2>2. e = <<a>> \o Tail(f) /\ a \in R
    BY <1>2, <2>1
  <2>3. Tail(f) \in Seq(R) /\ Len(Tail(f)) = n - 1 /\ \A g \in 1 .. n - 1 : Tail(f)[g] = f[g + 1]
    <3> HIDE DEF R
    <3> QED BY <1>1
  <2>4. <<a>> \in Seq(R) /\ Len(<<a>>) = 1 /\ <<a>>[1] = a
    <3> HIDE DEF a, R
    <3> QED BY <2>2
  <2> HIDE DEF e, a, R, n
  <2>5. e \in Seq(R) /\ Len(e) = 1 + (n - 1)
    BY <1>1, <2>2, <2>3, <2>4
  <2>6. e[1] = a
    BY <1>1, <2>2, <2>3, <2>4
  <2>7. \A g \in 2 .. n : e[g] = f[g]
    <3> SUFFICES ASSUME NEW g \in 2 .. n PROVE e[g] = f[g]
      OBVIOUS
    <3>1. e[g] = Tail(f)[g - 1]
      BY <1>1, <2>2, <2>3, <2>4
    <3>2. g - 1 \in 1 .. n - 1 /\ (g - 1) + 1 = g
      BY <1>1
    <3> QED BY <2>3, <3>1, <3>2
  <2> QED BY <1>1, <2>5, <2>6, <2>7 DEF a
<1>4. Append(r, m) \in Seq(Messages) /\ Len(Append(r, m)) = p + 1 /\ Append(r, m)[p + 1] = m /\ Append(r, m)[1] = r[1]
      /\ \A i \in 1 .. p : Append(r, m)[i] = r[i]
  <2> HIDE DEF r
  <2> QED BY <1>2
<1> DEFINE a == Append(r, m)
<1>5. a \in Seq(Messages) /\ Len(a) = p + 1 /\ a[p + 1] = m /\ a[1] = r[1] /\ (\A i \in 1 .. p : a[i] = r[i]) /\ e[1] = a
  BY <1>3, <1>4
<1> HIDE DEF a, e
<1>6. e \in Seq(Seq(Messages)) /\ \A g \in 1 .. n : g = 1 \/ g \in 2 .. n
  BY <1>1, <1>3
<1>7. Filled(e)
  <2>1. e[1] # <<>>
    BY <1>2, <1>5
  <2> QED BY <1>3, <1>6, <2>1 DEF Grouped, Filled
<1>8. \A g \in 1 .. n : \A i \in 1 .. Len(f[g]) : f[g][i] \in Rest(f, 0)
  BY <1>1, RestIs
<1>9. \A i \in 1 .. p : Newer(r[i], m)
  <2>1. 1 \in 1 .. n
    BY <1>1
  <2> QED BY <1>8, <2>1
<1>10. \A i \in 1 .. Len(a) : i \in 1 .. p \/ i = p + 1
  BY <1>2, <1>5
<1>11. 1 \in 1 .. n /\ n \in Nat /\ p \in Nat
  BY <1>1, <1>2
<1> HIDE DEF r, p, n
<1>12. InTime(e)
  <2>1. ASSUME NEW g \in 1 .. n, NEW i \in 1 .. Len(e[g]), NEW j \in 1 .. Len(e[g]), i < j
        PROVE  Newer(e[g][i], e[g][j])
    <3>1. CASE g = 1
      <4>1. i \in 1 .. p
        BY <1>5, <1>11, <2>1, <3>1
      <4>2. CASE j \in 1 .. p
        BY <1>5, <1>11, <2>1, <3>1, <4>1, <4>2 DEF Grouped, InTime, r, p, n
      <4>3. CASE j = p + 1
        BY <1>5, <1>9, <3>1, <4>1, <4>3
      <4> QED BY <1>5, <1>10, <3>1, <4>2, <4>3
    <3>2. CASE g \in 2 .. n
      BY <1>3, <2>1, <3>2 DEF Grouped, InTime, n
    <3> QED BY <1>6, <3>1, <3>2
  <2>2. ASSUME NEW g \in 1 .. n, NEW h \in 1 .. n, NEW i \in 1 .. Len(e[g]), NEW j \in 1 .. Len(e[h]), g > h
        PROVE  Newer(e[g][i], e[h][j])
    <3>1. g \in 2 .. n /\ e[g] = f[g]
      BY <1>3, <2>2
    <3>2. CASE h = 1 /\ j = p + 1
      BY <1>5, <1>8, <3>1, <3>2
    <3>3. CASE h = 1 /\ j \in 1 .. p
      BY <1>5, <1>11, <2>2, <3>1, <3>3 DEF Grouped, InTime, r, p, n
    <3>4. CASE h \in 2 .. n
      BY <1>3, <2>2, <3>1, <3>4 DEF Grouped, InTime, n
    <3> QED BY <1>5, <1>6, <1>10, <3>2, <3>3, <3>4
  <2> QED BY <1>3, <2>1, <2>2 DEF InTime
<1>13. Threaded(e)
  <2>1. ASSUME NEW g \in 1 .. n, NEW i \in 1 .. Len(e[g]) - 1 PROVE Continues(e[g][i], e[g][i + 1])
    <3>1. CASE g = 1 /\ i = p
      BY <1>2, <1>5, <1>11, <3>1
    <3>2. CASE g = 1 /\ i # p
      <4>1. i \in 1 .. p - 1 /\ i \in 1 .. p /\ i + 1 \in 1 .. p
        BY <1>5, <1>11, <3>2
      <4> QED BY <1>5, <1>11, <3>2, <4>1 DEF Grouped, Threaded, r, p, n
    <3>3. CASE g \in 2 .. n
      BY <1>3, <3>3 DEF Grouped, Threaded, n
    <3> QED BY <1>6, <3>1, <3>2, <3>3
  <2>2. ASSUME NEW g \in 1 .. n - 1 PROVE ~Continues(e[g + 1][Len(e[g + 1])], e[g][1])
    <3>1. g + 1 \in 2 .. n /\ e[g + 1] = f[g + 1] /\ g \in 1 .. n
      BY <1>3, <1>11
    <3>2. e[g][1] = f[g][1]
      BY <1>3, <1>5, <1>6, <3>1 DEF r
    <3>3. ~Continues(f[g + 1][Len(f[g + 1])], f[g][1])
      BY DEF Grouped, Threaded, n
    <3> QED BY <3>1, <3>2, <3>3
  <2> QED BY <1>3, <2>1, <2>2 DEF Threaded
<1>14. Rest(e, 0) = Rest(f, 0) \cup {m}
  <2>1. ASSUME NEW x \in Rest(e, 0) PROVE x \in Rest(f, 0) \cup {m}
    <3>1. PICK g \in 1 .. n : \E i \in 1 .. Len(e[g]) : x = e[g][i]
      BY <1>3, <1>6, RestIs
    <3>2. PICK i \in 1 .. Len(e[g]) : x = e[g][i]
      BY <3>1
    <3>3. CASE g = 1 /\ i \in 1 .. p
      <4>1. x = f[1][i] /\ i \in 1 .. Len(f[1])
        BY <1>5, <3>2, <3>3 DEF r, p
      <4> QED BY <1>8, <1>11, <4>1
    <3>4. CASE g = 1 /\ i = p + 1
      BY <1>5, <3>2, <3>4
    <3>5. CASE g \in 2 .. n
      BY <1>3, <1>8, <3>2, <3>5
    <3> QED BY <1>5, <1>6, <1>10, <3>2, <3>3, <3>4, <3>5
  <2>2. \A g \in 1 .. n : \A i \in 1 .. Len(e[g]) : e[g][i] \in Rest(e, 0)
    BY <1>3, <1>6, RestIs
  <2>3. m \in Rest(e, 0)
    <3>1. p + 1 \in 1 .. Len(e[1])
      BY <1>5, <1>11
    <3> QED BY <1>5, <1>11, <2>2, <3>1
  <2>4. ASSUME NEW x \in Rest(f, 0) PROVE x \in Rest(e, 0)
    <3>1. PICK g \in 1 .. n : \E i \in 1 .. Len(f[g]) : x = f[g][i]
      BY <1>1, RestIs DEF n
    <3>2. PICK i \in 1 .. Len(f[g]) : x = f[g][i]
      BY <3>1
    <3>3. i \in 1 .. Len(e[g]) /\ e[g][i] = x
      <4>1. CASE g = 1
        BY <1>5, <1>11, <3>2, <4>1 DEF r, p
      <4>2. CASE g \in 2 .. n
        BY <1>3, <3>2, <4>2
      <4> QED BY <1>6, <4>1, <4>2
    <3> QED BY <2>2, <3>3
  <2> QED BY <2>1, <2>3, <2>4
<1> QED BY <1>3, <1>7, <1>12, <1>13, <1>14 DEF Grouped, e, n

\* A newer SMS that does not go on with the top row gets a row of its own.
LEMMA RowGrouped ==
    ASSUME ConstantsOK, NEW f, Grouped(f), NEW m \in Messages,
           \A x \in Rest(f, 0) : Newer(x, m), f # <<>> => ~Continues(Last(Head(f)), m)
    PROVE  /\ Grouped(<<<<m>>>> \o f) /\ Len(<<<<m>>>> \o f) = Len(f) + 1
           /\ (<<<<m>>>> \o f)[1] = <<m>>
           /\ Rest(<<<<m>>>> \o f, 0) = Rest(f, 0) \cup {m}
<1> DEFINE a == <<m>>
           e == <<a>> \o f
           R == Seq(Messages)
           n == Len(f)
<1>1. f \in Seq(R) /\ n \in Nat /\ f \in Seq(Seq(Messages))
  BY DEF Grouped, Filled
<1>2. a \in Seq(Messages) /\ Len(a) = 1 /\ a[1] = m /\ a # <<>>
  OBVIOUS
<1> HIDE DEF a
<1>3. e \in Seq(R) /\ Len(e) = n + 1 /\ e[1] = a /\ \A g \in 1 .. n : e[g + 1] = f[g]
  <2>1. <<a>> \in Seq(R) /\ Len(<<a>>) = 1 /\ <<a>>[1] = a
    BY <1>2
  <2> HIDE DEF R
  <2>2. e \in Seq(R) /\ Len(e) = 1 + n
    BY <1>1, <2>1
  <2>3. e[1] = a
    BY <1>1, <2>1
  <2>4. ASSUME NEW g \in 1 .. n PROVE e[g + 1] = f[g]
    <3>1. g + 1 \in 2 .. n + 1 /\ (g + 1) - 1 = g
      BY <1>1
    <3>2. e[g + 1] = f[(g + 1) - 1]
      BY <1>1, <2>1, <3>1
    <3> QED BY <3>1, <3>2
  <2> QED BY <1>1, <2>2, <2>3, <2>4
<1> HIDE DEF e
<1>4. e \in Seq(Seq(Messages)) /\ n + 1 \in Nat
  BY <1>1, <1>3
<1>5. \A g \in 1 .. n + 1 : g = 1 \/ \E h \in 1 .. n : g = h + 1
  <2> SUFFICES ASSUME NEW g \in 1 .. n + 1, g # 1 PROVE \E h \in 1 .. n : g = h + 1
    OBVIOUS
  <2>1. g - 1 \in 1 .. n /\ g = (g - 1) + 1
    BY <1>1
  <2> QED BY <2>1
<1>6. \A g \in 1 .. n : g \in Nat \ {0} /\ g + 1 \in 1 .. n + 1 /\ g + 1 # 1
  BY <1>1
<1>7. 1 \in 1 .. n + 1 /\ \A i \in 1 .. Len(a) : i = 1
  BY <1>1, <1>2
<1>8. \A g \in 1 .. n : f[g] \in Seq(Messages) /\ f[g] # <<>> /\ \A i \in 1 .. Len(f[g]) : f[g][i] \in Rest(f, 0)
  BY <1>1, RestIs DEF Grouped, Filled
<1> HIDE DEF n
<1>9. Filled(e)
  <2>1. ASSUME NEW g \in 1 .. n + 1 PROVE e[g] # <<>>
    <3>1. CASE g = 1
      BY <1>2, <1>3, <3>1
    <3>2. CASE \E h \in 1 .. n : g = h + 1
      BY <1>3, <1>8, <3>2
    <3> QED BY <1>5, <3>1, <3>2
  <2> QED BY <1>3, <1>4, <2>1 DEF Filled
<1>10. InTime(e)
  <2>1. ASSUME NEW g \in 1 .. n + 1, NEW i \in 1 .. Len(e[g]), NEW j \in 1 .. Len(e[g]), i < j
        PROVE  Newer(e[g][i], e[g][j])
    <3>1. CASE g = 1
      <4>1. i = 1 /\ j = 1
        BY <1>3, <1>7, <3>1
      <4> QED BY <2>1, <4>1
    <3>2. ASSUME NEW h \in 1 .. n, g = h + 1 PROVE Newer(e[g][i], e[g][j])
      <4>1. e[g] = f[h]
        BY <1>3, <3>2
      <4> QED BY <2>1, <4>1 DEF Grouped, InTime, n
    <3> QED BY <1>5, <3>1, <3>2
  <2>2. ASSUME NEW g \in 1 .. n + 1, NEW h \in 1 .. n + 1, NEW i \in 1 .. Len(e[g]), NEW j \in 1 .. Len(e[h]), g > h
        PROVE  Newer(e[g][i], e[h][j])
    <3>1. PICK k \in 1 .. n : g = k + 1
      BY <1>5, <2>2
    <3>2. e[g] = f[k] /\ e[g][i] \in Rest(f, 0)
      BY <1>3, <1>8, <3>1
    <3>3. CASE h = 1
      <4>1. j = 1 /\ e[h][j] = m
        BY <1>2, <1>3, <1>7, <3>3
      <4> QED BY <3>2, <4>1
    <3>4. ASSUME NEW l \in 1 .. n, h = l + 1 PROVE Newer(e[g][i], e[h][j])
      <4>1. e[h] = f[l] /\ k > l
        BY <1>3, <1>6, <2>2, <3>1, <3>4
      <4> QED BY <3>2, <4>1 DEF Grouped, InTime, n
    <3> QED BY <1>5, <3>3, <3>4
  <2> QED BY <1>3, <2>1, <2>2 DEF InTime
<1>11. Threaded(e)
  <2>1. ASSUME NEW g \in 1 .. n + 1, NEW i \in 1 .. Len(e[g]) - 1 PROVE Continues(e[g][i], e[g][i + 1])
    <3>1. CASE g = 1
      <4>1. Len(e[g]) = 1
        BY <1>2, <1>3, <3>1
      <4> QED BY <4>1
    <3>2. ASSUME NEW h \in 1 .. n, g = h + 1 PROVE Continues(e[g][i], e[g][i + 1])
      <4>1. e[g] = f[h]
        BY <1>3, <3>2
      <4> QED BY <4>1 DEF Grouped, Threaded, n
    <3> QED BY <1>5, <3>1, <3>2
  <2>2. ASSUME NEW g \in 1 .. (n + 1) - 1 PROVE ~Continues(e[g + 1][Len(e[g + 1])], e[g][1])
    <3>1. g \in 1 .. n /\ g \in 1 .. n + 1 /\ e[g + 1] = f[g]
      BY <1>1, <1>3
    <3>2. CASE g = 1
      <4>1. f # <<>> /\ Head(f) = f[1] /\ Last(f[1]) = f[1][Len(f[1])]
        <5>1. Len(f) # 0
          BY <1>1, <3>1 DEF n
        <5> QED BY <1>1, <5>1 DEF Last
      <4> QED BY <1>2, <1>3, <3>1, <3>2, <4>1
    <3>3. ASSUME NEW h \in 1 .. n, g = h + 1 PROVE ~Continues(e[g + 1][Len(e[g + 1])], e[g][1])
      <4>1. h \in 1 .. n - 1 /\ e[g] = f[h] /\ e[g + 1] = f[h + 1]
        BY <1>1, <1>3, <3>1, <3>3
      <4> QED BY <4>1 DEF Grouped, Threaded, n
    <3> QED BY <1>5, <3>1, <3>2, <3>3
  <2> QED BY <1>3, <2>1, <2>2 DEF Threaded
<1>12. Rest(e, 0) = Rest(f, 0) \cup {m}
  <2>1. ASSUME NEW x \in Rest(e, 0) PROVE x \in Rest(f, 0) \cup {m}
    <3>1. PICK g \in 1 .. n + 1 : \E i \in 1 .. Len(e[g]) : x = e[g][i]
      BY <1>3, <1>4, RestIs
    <3>2. PICK i \in 1 .. Len(e[g]) : x = e[g][i]
      BY <3>1
    <3>3. CASE g = 1
      BY <1>2, <1>3, <1>7, <3>2, <3>3
    <3>4. ASSUME NEW h \in 1 .. n, g = h + 1 PROVE x \in Rest(f, 0)
      BY <1>3, <1>8, <3>2, <3>4
    <3> QED BY <1>5, <3>3, <3>4
  <2>2. \A g \in 1 .. n + 1 : \A i \in 1 .. Len(e[g]) : e[g][i] \in Rest(e, 0)
    BY <1>3, <1>4, RestIs
  <2>3. m \in Rest(e, 0)
    <3>1. 1 \in 1 .. Len(e[1]) /\ e[1][1] = m
      BY <1>2, <1>3
    <3> QED BY <1>7, <2>2, <3>1
  <2>4. ASSUME NEW x \in Rest(f, 0) PROVE x \in Rest(e, 0)
    <3>1. PICK g \in 1 .. n : \E i \in 1 .. Len(f[g]) : x = f[g][i]
      BY <1>1, RestIs DEF n
    <3> QED BY <1>3, <1>6, <2>2, <3>1
  <2> QED BY <2>1, <2>3, <2>4
<1> QED BY <1>1, <1>3, <1>9, <1>10, <1>11, <1>12 DEF Grouped, e, a, n

\* One SMS more, newer than the others: the feed is of the newest SMS still, and
\* one is only missing when there are as many rows as there may be.
THEOREM AddedGrouped ==
    ASSUME ConstantsOK, Grouped(feed), NEW m \in Messages,
           \A x \in Rest(feed, 0) : Newer(x, m)
    PROVE  /\ Grouped(Added(m))
           /\ UpClosed(Rest(Added(m), 0), Rest(feed, 0) \cup {m})
           /\ m \in Rest(Added(m), 0)
           /\ \/ Rest(Added(m), 0) = Rest(feed, 0) \cup {m} /\ Len(Added(m)) >= Len(feed)
              \/ Len(Added(m)) >= MaxRows
<1> DEFINE e == Added(m)
           S == Rest(feed, 0) \cup {m}
           n == Len(feed)
<1>1. feed \in Seq(Seq(Messages)) /\ n \in Nat
  BY DEF Grouped, Filled
<1>2. SameThread(m) <=> Continues(Last(Head(feed)), m)
  BY DEF SameThread, Continues
<1>3. UpClosed(S, S) /\ m \in S
  BY DEF UpClosed
<1>4. ASSUME feed # <<>>, SameThread(m)
      PROVE  Grouped(e) /\ Len(e) = n /\ Rest(e, 0) = S
  <2>1. e = <<Append(Head(feed), m)>> \o Tail(feed)
    BY <1>4 DEF Added
  <2> QED BY <1>2, <1>4, <2>1, MergedGrouped
<1>5. ASSUME ~(feed # <<>> /\ SameThread(m))
      PROVE  /\ Grouped(e) /\ UpClosed(Rest(e, 0), S) /\ m \in Rest(e, 0)
             /\ (Rest(e, 0) = S /\ Len(e) = n + 1) \/ Len(e) = MaxRows
  <2> DEFINE rows == <<<<m>>>> \o feed
             k == IF Len(rows) < MaxRows THEN Len(rows) ELSE MaxRows
  <2>1. e = SubSeq(rows, 1, k)
    BY <1>5 DEF Added
  <2>2. Grouped(rows) /\ Len(rows) = n + 1 /\ rows[1] = <<m>> /\ Rest(rows, 0) = S
    BY <1>2, <1>5, RowGrouped
  <2> HIDE DEF rows, e, S
  <2>3. MaxRows \in Nat \ {0}
    BY DEF ConstantsOK
  <2>4. k \in 0 .. Len(rows) /\ k > 0
    BY <1>1, <2>2, <2>3
  <2>5. /\ Grouped(e) /\ Len(e) = k
        /\ UpClosed(Rest(e, 0), S)
        /\ rows[1][Len(rows[1])] \in Rest(e, 0)
    <3> HIDE DEF k
    <3> QED BY <2>1, <2>2, <2>4, CutGrouped
  <2>6. rows[1][Len(rows[1])] = m
    BY <2>2
  <2>7. CASE Len(rows) < MaxRows
    <3>1. rows \in Seq(Seq(Messages)) /\ k = Len(rows)
      BY <2>2, <2>7 DEF Grouped, Filled
    <3>2. SubSeq(rows, 1, Len(rows)) = rows
      BY <3>1
    <3>3. e = rows
      BY <2>1, <3>1, <3>2
    <3> HIDE DEF k
    <3> QED BY <2>2, <2>5, <2>6, <3>3
  <2>8. CASE ~(Len(rows) < MaxRows)
    BY <2>5, <2>6, <2>8
  <2> QED BY <2>7, <2>8
<1> HIDE DEF e, S, n
<1>6. (Len(e) = n \/ Len(e) = n + 1 => Len(e) >= n) /\ (Len(e) = MaxRows => Len(e) >= MaxRows)
  BY <1>1 DEF ConstantsOK
<1>7. Grouped(e) /\ UpClosed(Rest(e, 0), S) /\ m \in Rest(e, 0)
  BY <1>3, <1>4, <1>5
<1>8. (Rest(e, 0) = S /\ Len(e) >= n) \/ Len(e) >= MaxRows
  BY <1>4, <1>5, <1>6
<1> QED BY <1>7, <1>8 DEF e, S, n

----------------------------------------------------------------------------
(* A page in the order of time.                                            *)

\* The SMS of a page that are older than m.
Before(page, m) == {n \in page : Newer(n, m)}

\* How many SMS are older tells the place of an SMS, and each place is taken.
LEMMA Ranks ==
    ASSUME ConstantsOK, NEW page \in SUBSET Messages, IsFiniteSet(page), Distinct(page)
    PROVE  /\ Cardinality(page) \in Nat
           /\ \A m \in page : Cardinality(Before(page, m)) \in 0 .. Cardinality(page) - 1
           /\ \A m, n \in page : Newer(m, n) =>
                 Cardinality(Before(page, m)) < Cardinality(Before(page, n))
           /\ \A m, n \in page : Cardinality(Before(page, m)) = Cardinality(Before(page, n)) => m = n
           /\ \A k \in 0 .. Cardinality(page) - 1 : \E m \in page : Cardinality(Before(page, m)) = k
<1> DEFINE c == Cardinality(page)
           rank(m) == Cardinality(Before(page, m))
<1>1. c \in Nat
  BY FS_CardinalityType
<1>2. ASSUME NEW m \in page
      PROVE  /\ IsFiniteSet(Before(page, m)) /\ rank(m) \in Nat /\ rank(m) \in 0 .. c - 1
             /\ IsFiniteSet(Before(page, m) \cup {m})
             /\ Cardinality(Before(page, m) \cup {m}) = rank(m) + 1
  <2>1. Before(page, m) \in SUBSET page /\ m \notin Before(page, m)
    BY Times DEF Before
  <2>2. IsFiniteSet(Before(page, m)) /\ rank(m) \in Nat
    BY <2>1, FS_Subset, FS_CardinalityType
  <2>3. /\ IsFiniteSet(Before(page, m) \cup {m})
        /\ Cardinality(Before(page, m) \cup {m}) = rank(m) + 1
    BY <2>1, <2>2, FS_AddElement
  <2>4. Before(page, m) \cup {m} \in SUBSET page
    BY <2>1
  <2>5. rank(m) + 1 <= c
    BY <2>3, <2>4, FS_Subset
  <2> HIDE DEF rank, c
  <2> QED BY <1>1, <2>2, <2>3, <2>5
<1>3. ASSUME NEW m \in page, NEW n \in page, Newer(m, n) PROVE rank(m) < rank(n)
  <2>1. Before(page, m) \cup {m} \in SUBSET Before(page, n)
    <3>1. ASSUME NEW o \in page, Newer(o, m) PROVE Newer(o, n)
      BY <1>3, <3>1, Times
    <3> QED BY <1>3, <3>1 DEF Before
  <2>2. rank(m) + 1 <= rank(n)
    <3>1. Cardinality(Before(page, m) \cup {m}) <= Cardinality(Before(page, n))
      <4>1. IsFiniteSet(Before(page, n))
        BY <1>2
      <4> QED BY <2>1, <4>1, FS_Subset
    <3>2. Cardinality(Before(page, m) \cup {m}) = rank(m) + 1
      BY <1>2
    <3> QED BY <3>1, <3>2
  <2>3. rank(m) \in Nat /\ rank(n) \in Nat
    <3> HIDE DEF rank, c
    <3> QED BY <1>2
  <2> HIDE DEF rank
  <2> QED BY <2>2, <2>3
<1>4. ASSUME NEW m \in page, NEW n \in page, rank(m) = rank(n) PROVE m = n
  <2>1. rank(m) \in Nat
    <3> HIDE DEF rank, c
    <3> QED BY <1>2
  <2>2. ~(rank(m) < rank(n)) /\ ~(rank(n) < rank(m))
    <3> HIDE DEF rank
    <3> QED BY <1>4, <2>1
  <2> QED BY <1>3, <2>2, Apart
<1>5. ASSUME NEW k \in 0 .. c - 1 PROVE \E m \in page : rank(m) = k
  <2> DEFINE f == [m \in page |-> rank(m)]
             T == 0 .. c - 1
  <2>1. f \in Injection(page, T)
    <3>1. f \in [page -> T]
      BY <1>2
    <3>2. \A m, n \in page : f[m] = f[n] => m = n
      <4> HIDE DEF rank
      <4> QED BY <1>4
    <3> HIDE DEF f, T
    <3> QED BY <3>1, <3>2 DEF Injection, IsInjective
  <2>2. IsFiniteSet(T) /\ Cardinality(T) = c
    <3>1. 0 \in Int /\ c - 1 \in Int /\ (IF 0 > c - 1 THEN 0 ELSE (c - 1) - 0 + 1) = c
      <4> HIDE DEF c
      <4> QED BY <1>1
    <3> HIDE DEF c
    <3> QED BY <3>1, FS_Interval
  <2>3. f \in Surjection(page, T)
    <3> HIDE DEF f, T
    <3> QED BY <2>1, <2>2, FS_Injection DEF c
  <2>4. \E m \in page : f[m] = k
    <3> HIDE DEF f
    <3> QED BY <2>3 DEF Surjection
  <2> HIDE DEF rank
  <2> QED BY <2>4
<1> HIDE DEF c, rank
<1> QED BY <1>1, <1>2, <1>3, <1>4, <1>5 DEF c, rank

\* In the order of time.
Sorted(s) == \A i, j \in 1 .. Len(s) : i < j => Newer(s[i], s[j])

\* A page in an order of time holds what the page holds.
LEMMA ChronologicalIs ==
    ASSUME NEW page \in SUBSET Messages, IsFiniteSet(page), NEW s \in Chronological(page)
    PROVE  /\ s \in Seq(Messages)
           /\ page = {s[i] : i \in 1 .. Len(s)}
           /\ ConstantsOK /\ Distinct(page) => Sorted(s)
<1> DEFINE c == Cardinality(page)
           D == 1 .. c
<1>1. c \in Nat
  BY FS_CardinalityType
<1>2. s \in [D -> page] /\ \A i, j \in D : i # j => s[i] # s[j]
  BY DEF Chronological, SetToSeqs
<1>3. \A i, j \in 1 .. Len(s) : i < j => ~Newer(s[j], s[i])
  BY DEF Chronological
<1>4. s \in Seq(Messages) /\ Len(s) = c
  <2> HIDE DEF c
  <2> QED BY <1>1, <1>2
<1>5. \A m \in page : \E i \in D : s[i] = m
  <2>1. s \in Injection(D, page)
    <3> HIDE DEF D
    <3> QED BY <1>2 DEF Injection, IsInjective
  <2>2. Cardinality(D) = c
    <3>1. 1 \in Int /\ c \in Int /\ (IF 1 > c THEN 0 ELSE c - 1 + 1) = c
      <4> HIDE DEF c
      <4> QED BY <1>1
    <3> HIDE DEF c
    <3> QED BY <3>1, FS_Interval
  <2>3. s \in Surjection(D, page)
    <3> HIDE DEF D
    <3> QED BY <2>1, <2>2, FS_Injection DEF c
  <2> QED BY <2>3 DEF Surjection
<1> HIDE DEF c
<1>6. page = {s[i] : i \in 1 .. Len(s)}
  BY <1>2, <1>4, <1>5
<1>7. ASSUME ConstantsOK, Distinct(page) PROVE Sorted(s)
  <2> SUFFICES ASSUME NEW i \in 1 .. Len(s), NEW j \in 1 .. Len(s), i < j
               PROVE  Newer(s[i], s[j])
    BY DEF Sorted
  <2>1. s[i] \in page /\ s[j] \in page /\ i # j /\ s[i] # s[j]
    BY <1>2, <1>4
  <2>2. ~Newer(s[j], s[i])
    BY <1>3
  <2> QED BY <1>7, <2>1, <2>2, Apart
<1> QED BY <1>4, <1>6, <1>7

\* SMS of different times have an order.
LEMMA ChronologicalSome ==
    ASSUME ConstantsOK, NEW page \in SUBSET Messages, IsFiniteSet(page), Distinct(page)
    PROVE  Chronological(page) # {}
<1> DEFINE c == Cardinality(page)
           rank(m) == Cardinality(Before(page, m))
           s == [i \in 1 .. c |-> CHOOSE m \in page : rank(m) = i - 1]
<1>1. c \in Nat /\ \A m \in page : rank(m) \in 0 .. c - 1
  BY Ranks
<1>2. s = [i \in 1 .. c |-> CHOOSE m \in page : rank(m) = i - 1]
  OBVIOUS
<1>3. ASSUME NEW i \in 1 .. c PROVE s[i] \in page /\ rank(s[i]) = i - 1
  <2>1. i - 1 \in 0 .. c - 1
    BY <1>1
  <2>2. \E m \in page : rank(m) = i - 1
    BY <2>1, Ranks
  <2>3. s[i] = CHOOSE m \in page : rank(m) = i - 1
    <3> HIDE DEF rank, c, s
    <3> QED BY <1>2
  <2> HIDE DEF rank, c, s
  <2> QED BY <2>2, <2>3
<1> HIDE DEF s
<1>4. s \in [1 .. c -> page] /\ Len(s) = c
  <2> HIDE DEF rank, c
  <2>1. s \in [1 .. c -> page]
    BY <1>2, <1>3
  <2>2. s \in Seq(page)
    BY <1>1, <2>1
  <2> QED BY <1>1, <2>1, <2>2
<1>5. ASSUME NEW i \in 1 .. c, NEW j \in 1 .. c, i # j PROVE s[i] # s[j]
  <2>1. rank(s[i]) = i - 1 /\ rank(s[j]) = j - 1
    BY <1>3
  <2> HIDE DEF rank, c
  <2> QED BY <1>1, <1>5, <2>1
<1>6. ASSUME NEW i \in 1 .. c, NEW j \in 1 .. c, i < j PROVE ~Newer(s[j], s[i])
  <2> SUFFICES ASSUME Newer(s[j], s[i]) PROVE FALSE
    OBVIOUS
  <2>1. s[i] \in page /\ s[j] \in page /\ rank(s[i]) = i - 1 /\ rank(s[j]) = j - 1
    BY <1>3
  <2>2. rank(s[j]) < rank(s[i])
    BY <2>1, Ranks
  <2> HIDE DEF rank, c
  <2> QED BY <1>1, <1>6, <2>1, <2>2
<1> HIDE DEF rank
<1>7. s \in SetToSeqs(page)
  BY <1>4, <1>5 DEF SetToSeqs
<1>8. s \in Chronological(page)
  BY <1>4, <1>6, <1>7 DEF Chronological
<1> QED BY <1>8

----------------------------------------------------------------------------
(* Segments of a sequence.                                                 *)

\* The number of the segment that i is in, when segments begin at B.
Segment(B, i) == Cardinality({j \in B : j <= i})

\* A position opens a segment or stays in the one before.
LEMMA SegmentStep ==
    ASSUME NEW n \in Nat, NEW B \in SUBSET (1 .. n), NEW i \in 0 .. n - 1
    PROVE  /\ Segment(B, i) \in Nat
           /\ Segment(B, i + 1) = IF i + 1 \in B THEN Segment(B, i) + 1 ELSE Segment(B, i)
<1> DEFINE S == {j \in B : j <= i}
<1>0. \A j \in B : j \in 1 .. n
  OBVIOUS
<1>1. S \in SUBSET (1 .. n) /\ i + 1 \notin S
  <2>1. ~(i + 1 <= i)
    OBVIOUS
  <2>2. i + 1 \notin S
    BY <2>1
  <2> QED BY <1>0, <2>2
<1>2. IsFiniteSet(S) /\ Cardinality(S) \in Nat
  <2>1. IsFiniteSet(1 .. n)
    BY FS_Interval
  <2> HIDE DEF S
  <2> QED BY <1>1, <2>1, FS_Subset, FS_CardinalityType
<1>3. {j \in B : j <= i + 1} = IF i + 1 \in B THEN S \cup {i + 1} ELSE S
  <2>1. \A j \in B : j <= i + 1 <=> (j <= i \/ j = i + 1)
    BY <1>0
  <2> QED BY <2>1
<1>4. Cardinality(S \cup {i + 1}) = Cardinality(S) + 1
  <2> HIDE DEF S
  <2> QED BY <1>1, <1>2, FS_AddElement
<1> HIDE DEF S
<1> QED BY <1>2, <1>3, <1>4 DEF Segment, S

\* Later positions are in the same or in later segments.
LEMMA SegmentGrows ==
    ASSUME NEW n \in Nat, NEW B \in SUBSET (1 .. n), NEW i \in 0 .. n, NEW j \in 0 .. n, i <= j
    PROVE  /\ Segment(B, i) \in Nat /\ Segment(B, i) <= Segment(B, j)
           /\ i < j /\ j \in B => Segment(B, i) < Segment(B, j)
<1> DEFINE S(k) == {l \in B : l <= k}
<1>0. IsFiniteSet(1 .. n)
  BY FS_Interval
<1>1. \A k \in 0 .. n : S(k) \in SUBSET (1 .. n)
  OBVIOUS
<1>2. \A k \in 0 .. n : IsFiniteSet(S(k)) /\ Cardinality(S(k)) \in Nat
  <2> HIDE DEF S
  <2> QED BY <1>0, <1>1, FS_Subset, FS_CardinalityType
<1>3. S(i) \in SUBSET S(j)
  <2>1. \A k \in B : k \in 1 .. n /\ (k <= i => k <= j)
    OBVIOUS
  <2> QED BY <2>1
<1>4. Cardinality(S(i)) <= Cardinality(S(j)) /\ (Cardinality(S(j)) = Cardinality(S(i)) => S(j) = S(i))
  <2> HIDE DEF S
  <2> QED BY <1>2, <1>3, FS_Subset
<1>5. i < j /\ j \in B => S(i) # S(j)
  <2> SUFFICES ASSUME i < j, j \in B PROVE S(i) # S(j)
    OBVIOUS
  <2>1. j \in S(j) /\ j \notin S(i)
    OBVIOUS
  <2> HIDE DEF S
  <2> QED BY <2>1
<1>6. Cardinality(S(i)) = Segment(B, i) /\ Cardinality(S(j)) = Segment(B, j)
  BY DEF Segment
<1> HIDE DEF S
<1> QED BY <1>2, <1>4, <1>5, <1>6

\* Where segment g begins and where it ends, as groupSmsMessages finds it.
Start(B, g)  == CHOOSE i \in B : Segment(B, i) = g
End(B, n, g) == CHOOSE i \in 1 .. n : Segment(B, i) = g /\ (i = n \/ i + 1 \in B)

\* The ends of the segments of 1 .. n.
Segments(B, n) ==
    LET c == Cardinality(B) IN
    /\ c \in Nat /\ (n > 0 => c > 0)
    /\ \A g \in 1 .. c : /\ Start(B, g) \in B /\ Start(B, g) \in 1 .. n /\ End(B, n, g) \in 1 .. n
                         /\ Start(B, g) <= End(B, n, g)
                         /\ \A i \in Start(B, g) + 1 .. End(B, n, g) : i \notin B
    /\ \A g \in 1 .. c - 1 : Start(B, g + 1) = End(B, n, g) + 1
    /\ \A g, h \in 1 .. c : g < h => End(B, n, g) < Start(B, h)
    /\ \A i \in 1 .. n : \E g \in 1 .. c : i \in Start(B, g) .. End(B, n, g)

\* Segments that begin with the first position follow one another.
LEMMA SegmentsAre ==
    ASSUME NEW n \in Nat, NEW B \in SUBSET (1 .. n), n > 0 => 1 \in B
    PROVE  Segments(B, n)
<1> DEFINE c == Cardinality(B)
           seg(i) == Segment(B, i)
<1>1. IsFiniteSet(B) /\ c \in Nat /\ IsFiniteSet(1 .. n)
  <2>1. IsFiniteSet(1 .. n)
    BY FS_Interval
  <2> QED BY <2>1, FS_Subset, FS_CardinalityType
<1>2. seg(n) = c
  <2>1. {j \in B : j <= n} = B
    <3>1. \A j \in B : j \in 1 .. n /\ j <= n
      OBVIOUS
    <3> QED BY <3>1
  <2> QED BY <2>1 DEF Segment
<1>3. seg(0) = 0
  <2>1. {j \in B : j <= 0} = {}
    <3>1. \A j \in B : j \in 1 .. n /\ ~(j <= 0)
      OBVIOUS
    <3> QED BY <3>1
  <2> QED BY <2>1, FS_EmptySet DEF Segment
<1>4. \A i \in 0 .. n : seg(i) \in Nat
  BY SegmentGrows
<1>5. \A i, j \in 0 .. n : i <= j => seg(i) <= seg(j)
  BY SegmentGrows
<1>6. \A i \in 0 .. n, j \in B : i < j => seg(i) < seg(j)
  BY SegmentGrows
<1>7. \A i \in 0 .. n - 1 : seg(i + 1) = IF i + 1 \in B THEN seg(i) + 1 ELSE seg(i)
  BY SegmentStep
<1>8. \A i \in 1 .. n : seg(i) \in 1 .. c
  <2> SUFFICES ASSUME NEW i \in 1 .. n PROVE seg(i) \in 1 .. c
    OBVIOUS
  <2>1. n > 0 /\ 1 \in B /\ i \in 0 .. n /\ n \in 0 .. n /\ 0 \in 0 .. n /\ i <= n /\ 0 < 1
    OBVIOUS
  <2>2. seg(i) <= c
    <3> HIDE DEF c, seg
    <3> QED BY <1>2, <1>5, <2>1
  <2>3. seg(1) > 0
    <3> HIDE DEF c, seg
    <3> QED BY <1>3, <1>4, <1>6, <2>1
  <2>4. seg(1) <= seg(i)
    <3>1. 1 \in 0 .. n /\ 1 <= i
      OBVIOUS
    <3> HIDE DEF c, seg
    <3> QED BY <1>5, <2>1, <3>1
  <2>5. seg(i) \in Nat /\ seg(1) \in Nat
    <3>1. 1 \in 0 .. n
      OBVIOUS
    <3> HIDE DEF c, seg
    <3> QED BY <1>4, <2>1, <3>1
  <2> HIDE DEF c, seg
  <2> QED BY <1>1, <2>2, <2>3, <2>4, <2>5
<1>9. ASSUME NEW g \in 1 .. c PROVE Start(B, g) \in B /\ seg(Start(B, g)) = g
  <2> DEFINE S == {i \in 0 .. n : seg(i) >= g}
  <2>1. n \in S
    BY <1>1, <1>2
  <2>2. PICK i \in S : \A k \in S : i <= k
    <3>1. S \in SUBSET Nat /\ S # {}
      BY <2>1
    <3> HIDE DEF S
    <3> QED BY <3>1, NatMin
  <2>3. i \in 0 .. n /\ seg(i) >= g /\ i # 0
    <3> HIDE DEF seg
    <3> QED BY <1>3
  <2>4. i - 1 \in 0 .. n - 1 /\ i - 1 \in 0 .. n /\ (i - 1) + 1 = i /\ ~(i <= i - 1)
    BY <2>3
  <2>5. ~(seg(i - 1) >= g)
    <3> HIDE DEF seg
    <3> QED BY <2>2, <2>4
  <2>6. seg(i) = IF i \in B THEN seg(i - 1) + 1 ELSE seg(i - 1)
    <3> HIDE DEF seg
    <3> QED BY <1>7, <2>4
  <2>7. i \in B /\ seg(i) = g
    <3>1. seg(i - 1) \in Nat /\ g \in Nat
      BY <1>4, <2>4
    <3> HIDE DEF seg
    <3> QED BY <2>3, <2>5, <2>6, <3>1
  <2> HIDE DEF S
  <2> QED BY <2>7 DEF Start
<1>10. \A i, j \in B : seg(i) = seg(j) => i = j
  <2> SUFFICES ASSUME NEW i \in B, NEW j \in B, seg(i) = seg(j) PROVE i = j
    OBVIOUS
  <2>1. i \in 0 .. n /\ j \in 0 .. n
    OBVIOUS
  <2>2. seg(i) \in Nat /\ (i < j => seg(i) < seg(j)) /\ (j < i => seg(j) < seg(i))
    <3> HIDE DEF seg
    <3> QED BY <1>4, <1>6, <2>1
  <2> HIDE DEF seg
  <2> QED BY <2>1, <2>2
<1>11. \A i \in B : i \in 1 .. n /\ i \in 0 .. n
  OBVIOUS
<1> DEFINE ends(i, g) == i \in 1 .. n /\ seg(i) = g /\ (i = n \/ i + 1 \in B)
<1>12. ASSUME NEW g \in 1 .. c PROVE \E i \in 1 .. n : ends(i, g)
  <2>1. CASE g = c
    <3>1. n \in 1 .. n
      <4>1. n # 0
        <5>1. ASSUME n = 0 PROVE c = 0
          BY <5>1, <1>2, <1>3
        <5> HIDE DEF c
        <5> QED BY <1>1, <5>1
      <4> QED BY <4>1
    <3> QED BY <1>2, <2>1, <3>1
  <2>2. CASE g # c
    <3>1. g + 1 \in 1 .. c
      BY <1>1, <2>2
    <3> DEFINE k == Start(B, g + 1)
    <3>2. k \in B /\ seg(k) = g + 1 /\ k \in 1 .. n
      BY <1>9, <1>11, <3>1
    <3>3. k - 1 \in 0 .. n - 1 /\ (k - 1) + 1 = k
      BY <3>2
    <3>4. seg(k) = seg(k - 1) + 1
      <4> HIDE DEF seg, k
      <4> QED BY <1>7, <3>2, <3>3
    <3>5. seg(k - 1) = g
      <4>1. seg(k - 1) \in Nat
        BY <1>4, <3>3
      <4> HIDE DEF seg, k
      <4> QED BY <3>2, <3>4, <4>1
    <3>6. k - 1 # 0
      <4>1. k - 1 = 0 => seg(k - 1) = 0
        BY <1>3
      <4> HIDE DEF seg, k
      <4> QED BY <3>5, <4>1
    <3>7. k - 1 \in 1 .. n
      <4> HIDE DEF k
      <4> QED BY <3>3, <3>6
    <3> HIDE DEF seg, k
    <3> QED BY <3>2, <3>3, <3>5, <3>7
  <2> QED BY <2>1, <2>2
<1>13. ASSUME NEW g \in 1 .. c PROVE ends(End(B, n, g), g)
  BY <1>12 DEF End
<1>14. ASSUME NEW g \in 1 .. c, NEW i \in 1 .. n, i > End(B, n, g) PROVE seg(i) > g
  <2> DEFINE e == End(B, n, g)
  <2>1. e \in 1 .. n /\ seg(e) = g /\ e + 1 \in B /\ e < i
    <3>1. ends(e, g)
      BY <1>13
    <3> HIDE DEF e, seg
    <3> QED BY <1>14, <3>1 DEF e
  <2>2. e \in 0 .. n /\ e + 1 \in 0 .. n /\ i \in 0 .. n /\ e + 1 <= i /\ e < e + 1
    <3> HIDE DEF e
    <3> QED BY <2>1, <1>11
  <2>3. seg(e) < seg(e + 1) /\ seg(e + 1) <= seg(i) /\ seg(e + 1) \in Nat /\ seg(i) \in Nat
    <3> HIDE DEF seg, e
    <3> QED BY <1>4, <1>5, <1>6, <2>1, <2>2
  <2> HIDE DEF seg, e
  <2> QED BY <2>1, <2>3
<1>15. ASSUME NEW g \in 1 .. c, NEW i \in 1 .. n, i < Start(B, g) PROVE seg(i) < g
  <2>1. i \in 0 .. n
    OBVIOUS
  <2> HIDE DEF seg
  <2> QED BY <1>6, <1>9, <1>15, <2>1
<1>16. ASSUME NEW g \in 1 .. c, NEW i \in 1 .. n, seg(i) = g
       PROVE  i \in Start(B, g) .. End(B, n, g)
  <2>1. Start(B, g) \in 1 .. n /\ End(B, n, g) \in 1 .. n
    BY <1>9, <1>11, <1>13
  <2>2. ~(seg(i) < g) /\ ~(seg(i) > g)
    BY <1>16
  <2>3. ~(i < Start(B, g)) /\ ~(i > End(B, n, g))
    <3> HIDE DEF seg
    <3> QED BY <1>14, <1>15, <2>2
  <2> QED BY <2>1, <2>3
<1>17. ASSUME NEW g \in 1 .. c
       PROVE  /\ Start(B, g) \in B /\ Start(B, g) \in 1 .. n /\ End(B, n, g) \in 1 .. n
              /\ Start(B, g) <= End(B, n, g)
  <2>1. Start(B, g) \in B /\ Start(B, g) \in 1 .. n /\ End(B, n, g) \in 1 .. n /\ seg(Start(B, g)) = g
    BY <1>9, <1>11, <1>13
  <2>2. Start(B, g) \in Start(B, g) .. End(B, n, g)
    <3> HIDE DEF seg
    <3> QED BY <1>16, <2>1
  <2> QED BY <2>1, <2>2
<1>18. ASSUME NEW g \in 1 .. c, NEW i \in Start(B, g) + 1 .. End(B, n, g) PROVE i \notin B
  <2> SUFFICES ASSUME i \in B PROVE FALSE
    OBVIOUS
  <2>1. Start(B, g) \in 0 .. n /\ Start(B, g) < i /\ i \in 1 .. n /\ i \in 0 .. n /\ End(B, n, g) \in 0 .. n /\ i <= End(B, n, g)
    BY <1>17
  <2>2. seg(Start(B, g)) < seg(i) /\ seg(i) <= seg(End(B, n, g)) /\ seg(i) \in Nat
    <3> HIDE DEF seg
    <3> QED BY <1>4, <1>5, <1>6, <2>1
  <2>3. seg(Start(B, g)) = g /\ seg(End(B, n, g)) = g
    BY <1>9, <1>13
  <2> HIDE DEF seg
  <2> QED BY <2>2, <2>3
<1>19. ASSUME NEW g \in 1 .. c, NEW h \in 1 .. c, g < h PROVE End(B, n, g) < Start(B, h)
  <2>1. Start(B, h) \in 0 .. n /\ End(B, n, g) \in 0 .. n
    BY <1>17
  <2>2. seg(Start(B, h)) = h /\ seg(End(B, n, g)) = g
    BY <1>9, <1>13
  <2>3. ~(Start(B, h) <= End(B, n, g))
    <3> SUFFICES ASSUME Start(B, h) <= End(B, n, g) PROVE FALSE
      OBVIOUS
    <3>1. h <= g
      <4> HIDE DEF seg
      <4> QED BY <1>5, <2>1, <2>2
    <3> QED BY <1>19, <3>1
  <2> QED BY <2>1, <2>3
<1>20. ASSUME NEW g \in 1 .. c - 1 PROVE Start(B, g + 1) = End(B, n, g) + 1
  <2>1. g \in 1 .. c /\ g + 1 \in 1 .. c /\ g < g + 1
    BY <1>1
  <2> DEFINE e == End(B, n, g)
  <2>2. e \in 1 .. n /\ seg(e) = g /\ (e = n \/ e + 1 \in B)
    BY <1>13, <2>1
  <2>3. e < Start(B, g + 1) /\ Start(B, g + 1) \in 1 .. n
    BY <1>17, <1>19, <2>1
  <2>4. e + 1 \in B /\ e \in 0 .. n - 1
    <3> HIDE DEF e, seg
    <3> QED BY <2>2, <2>3
  <2>5. seg(e + 1) = g + 1
    <3> HIDE DEF e, seg
    <3> QED BY <1>7, <2>2, <2>4
  <2>6. Start(B, g + 1) \in B /\ seg(Start(B, g + 1)) = g + 1
    BY <1>9, <2>1
  <2> HIDE DEF seg, e
  <2> QED BY <1>10, <2>4, <2>5, <2>6 DEF e
<1>21. ASSUME NEW i \in 1 .. n PROVE \E g \in 1 .. c : i \in Start(B, g) .. End(B, n, g)
  BY <1>8, <1>16
<1>22. n > 0 => c > 0
  <2> SUFFICES ASSUME n > 0 PROVE c > 0
    OBVIOUS
  <2>1. n \in 1 .. n
    OBVIOUS
  <2>2. c \in 1 .. c
    <3> HIDE DEF seg, c
    <3> QED BY <1>2, <1>8, <2>1
  <2> HIDE DEF c
  <2> QED BY <2>2
<1> HIDE DEF seg, ends
<1> QED BY <1>1, <1>17, <1>18, <1>19, <1>20, <1>21, <1>22 DEF Segments

----------------------------------------------------------------------------
(* What a reload renders.                                                  *)

\* Where the rows of SMS in the order of time begin.
Begins(s) == {i \in 1 .. Len(s) : i > 1 => \/ Thread[s[i]] # Thread[s[i - 1]]
                                           \/ Gap(s[i], s[i - 1]) > Window}

\* A gap is the same from both ends.
LEMMA GapIs ==
    ASSUME ConstantsOK, NEW m \in Messages, NEW n \in Messages
    PROVE  /\ Gap(m, n) = Gap(n, m)
           /\ ~(Gap(m, n) > Window) <=> Gap(n, m) <= Window
<1>1. At[m] \in Nat /\ At[n] \in Nat /\ Window \in Nat
  BY DEF ConstantsOK
<1>2. Gap(m, n) \in Int /\ Gap(m, n) = Gap(n, m)
  BY <1>1 DEF Gap
<1> QED BY <1>1, <1>2

\* A row begins where the thread does not go on.
LEMMA BeginsIs ==
    ASSUME ConstantsOK, NEW s \in Seq(Messages), NEW i \in 1 .. Len(s) - 1
    PROVE  i + 1 \in Begins(s) <=> ~Continues(s[i], s[i + 1])
<1>1. i + 1 \in 1 .. Len(s) /\ i + 1 > 1 /\ (i + 1) - 1 = i /\ i \in 1 .. Len(s)
  OBVIOUS
<1>2. s[i] \in Messages /\ s[i + 1] \in Messages
  BY <1>1
<1>3. i + 1 \in Begins(s) <=> (Thread[s[i + 1]] # Thread[s[i]] \/ Gap(s[i + 1], s[i]) > Window)
  BY <1>1 DEF Begins
<1>4. ~(Gap(s[i + 1], s[i]) > Window) <=> Gap(s[i], s[i + 1]) <= Window
  BY <1>2, GapIs
<1> QED BY <1>3, <1>4 DEF Continues

\* Segment g of s.
Piece(s, g) == SubSeq(s, Start(Begins(s), g), End(Begins(s), Len(s), g))

\* groupSmsMessages makes a row of each segment.
LEMMA GroupsIs ==
    ASSUME NEW s
    PROVE  GroupSmsMessages(s) = [g \in 1 .. Cardinality(Begins(s)) |-> Piece(s, g)]
BY DEF GroupSmsMessages, Begins, Piece, Start, End, Segment

\* The rows of groupSmsMessages, the newest first, hold what it is given, and are
\* grouped if that is in the order of time.
LEMMA GroupsGrouped ==
    ASSUME ConstantsOK, NEW s \in Seq(Messages)
    PROVE  /\ Reverse(GroupSmsMessages(s)) \in Seq(Seq(Messages))
           /\ Sorted(s) => Grouped(Reverse(GroupSmsMessages(s)))
           /\ Rest(Reverse(GroupSmsMessages(s)), 0) = {s[i] : i \in 1 .. Len(s)}
<1> DEFINE n == Len(s)
           B == Begins(s)
           c == Cardinality(B)
           a(g) == Start(B, g)
           z(g) == End(B, n, g)
           f == Reverse(GroupSmsMessages(s))
<1>1. n \in Nat /\ \A i \in 1 .. n : s[i] \in Messages
  OBVIOUS
<1>2. Segments(B, n)
  <2>1. B \in SUBSET (1 .. n) /\ (n > 0 => 1 \in B)
    BY <1>1 DEF Begins
  <2> HIDE DEF B
  <2> QED BY <1>1, <2>1, SegmentsAre
<1>3. /\ c \in Nat /\ (n > 0 => c > 0)
      /\ \A g \in 1 .. c : /\ a(g) \in B /\ a(g) \in 1 .. n /\ z(g) \in 1 .. n /\ a(g) <= z(g)
                           /\ \A i \in a(g) + 1 .. z(g) : i \notin B
      /\ \A g \in 1 .. c - 1 : a(g + 1) = z(g) + 1
      /\ \A g, h \in 1 .. c : g < h => z(g) < a(h)
      /\ \A i \in 1 .. n : \E g \in 1 .. c : i \in a(g) .. z(g)
  BY <1>2 DEF Segments
<1>4. \A i \in 1 .. n - 1 : i + 1 \in B <=> ~Continues(s[i], s[i + 1])
  BY BeginsIs
<1>5. Sorted(s) => \A i, j \in 1 .. n : i < j => Newer(s[i], s[j])
  BY DEF Sorted
<1>6. \A g \in 1 .. c : /\ Piece(s, g) \in Seq(Messages) /\ Len(Piece(s, g)) = z(g) - a(g) + 1
                        /\ Len(Piece(s, g)) \in Nat \ {0}
                        /\ \A i \in 1 .. Len(Piece(s, g)) : /\ Piece(s, g)[i] = s[a(g) + i - 1]
                                                            /\ a(g) + i - 1 \in a(g) .. z(g)
                                                            /\ a(g) + i - 1 \in 1 .. n
  <2> SUFFICES ASSUME NEW g \in 1 .. c
      PROVE  /\ Piece(s, g) \in Seq(Messages) /\ Len(Piece(s, g)) = z(g) - a(g) + 1
             /\ Len(Piece(s, g)) \in Nat \ {0}
             /\ \A i \in 1 .. Len(Piece(s, g)) : /\ Piece(s, g)[i] = s[a(g) + i - 1]
                                                 /\ a(g) + i - 1 \in a(g) .. z(g)
                                                 /\ a(g) + i - 1 \in 1 .. n
    OBVIOUS
  <2> DEFINE x == a(g)
             y == z(g)
  <2>1. x \in 1 .. n /\ y \in 1 .. n /\ x <= y
    BY <1>3
  <2>2. Piece(s, g) = SubSeq(s, x, y)
    BY DEF Piece
  <2> HIDE DEF x, y
  <2>3. Piece(s, g) \in Seq(Messages) /\ Len(Piece(s, g)) = y - x + 1
    BY <2>1, <2>2
  <2>4. ASSUME NEW i \in 1 .. y - x + 1
        PROVE Piece(s, g)[i] = s[x + i - 1] /\ x + i - 1 \in x .. y /\ x + i - 1 \in 1 .. n
    BY <2>1, <2>2
  <2>5. y - x + 1 \in Nat \ {0}
    BY <2>1
  <2> QED BY <2>3, <2>4, <2>5 DEF x, y
<1> DEFINE q(g) == Piece(s, (c - g) + 1)
<1>7. f = [g \in 1 .. c |-> q(g)]
  <2>1. GroupSmsMessages(s) = [g \in 1 .. c |-> Piece(s, g)]
    BY GroupsIs
  <2> DEFINE G == GroupSmsMessages(s)
  <2>2. Len(G) = c /\ \A g \in 1 .. c : G[g] = Piece(s, g)
    <3> HIDE DEF c
    <3> QED BY <1>3, <2>1
  <2>3. f = [g \in 1 .. c |-> G[(c - g) + 1]]
    <3> HIDE DEF G, c
    <3> QED BY <2>2 DEF Reverse, G
  <2>4. \A g \in 1 .. c : (c - g) + 1 \in 1 .. c
    <3> HIDE DEF c
    <3> QED BY <1>3
  <2> HIDE DEF G, f, c
  <2> QED BY <2>2, <2>3, <2>4
<1> DEFINE r(g) == (c - g) + 1
<1>8. /\ \A g \in 1 .. c : r(g) \in 1 .. c
      /\ \A g, h \in 1 .. c : g > h => r(g) < r(h)
      /\ \A g \in 1 .. c - 1 : r(g + 1) \in 1 .. c - 1 /\ r(g + 1) + 1 = r(g) /\ g \in 1 .. c /\ g + 1 \in 1 .. c
      /\ \A g \in 1 .. c : r(r(g)) = g
  <2>1. c \in Nat
    BY <1>3
  <2> HIDE DEF c
  <2> QED BY <2>1
<1> HIDE DEF f, c, B, n, a, z
<1>9. f \in Seq(Seq(Messages)) /\ Len(f) = c
  <2>1. \A g \in 1 .. c : q(g) \in Seq(Messages)
    BY <1>6, <1>8
  <2> HIDE DEF q
  <2> QED BY <1>3, <1>7, <2>1
<1>10. \A g \in 1 .. c : f[g] = Piece(s, r(g))
  BY <1>7
<1> HIDE DEF q, r
<1>11. Filled(f)
  <2>1. ASSUME NEW g \in 1 .. c PROVE f[g] # <<>>
    BY <1>6, <1>8, <1>10
  <2> QED BY <1>9, <2>1 DEF Filled
<1>12. ASSUME Sorted(s) PROVE InTime(f)
  <2>1. ASSUME NEW g \in 1 .. c, NEW i \in 1 .. Len(f[g]), NEW j \in 1 .. Len(f[g]), i < j
        PROVE  Newer(f[g][i], f[g][j])
    <3> DEFINE k == r(g)
    <3>1. k \in 1 .. c /\ f[g] = Piece(s, k)
      BY <1>8, <1>10
    <3> HIDE DEF k
    <3>2. f[g][i] = s[a(k) + i - 1] /\ f[g][j] = s[a(k) + j - 1] /\ a(k) + i - 1 \in 1 .. n /\ a(k) + j - 1 \in 1 .. n
      BY <1>6, <2>1, <3>1
    <3>3. a(k) + i - 1 < a(k) + j - 1
      <4>1. a(k) \in Int
        BY <1>3, <3>1
      <4> QED BY <2>1, <4>1
    <3> QED BY <1>5, <1>12, <3>2, <3>3
  <2>2. ASSUME NEW g \in 1 .. c, NEW h \in 1 .. c, NEW i \in 1 .. Len(f[g]), NEW j \in 1 .. Len(f[h]), g > h
        PROVE  Newer(f[g][i], f[h][j])
    <3> DEFINE k == r(g)
               l == r(h)
    <3>1. k \in 1 .. c /\ f[g] = Piece(s, k) /\ l \in 1 .. c /\ f[h] = Piece(s, l) /\ k < l
      BY <1>8, <1>10, <2>2
    <3> HIDE DEF k, l
    <3> DEFINE x == a(k) + i - 1
               y == a(l) + j - 1
    <3>2. f[g][i] = s[x] /\ x \in a(k) .. z(k) /\ x \in 1 .. n
      BY <1>6, <3>1
    <3>3. f[h][j] = s[y] /\ y \in a(l) .. z(l) /\ y \in 1 .. n
      BY <1>6, <3>1
    <3>4. z(k) < a(l) /\ z(k) \in Int /\ a(l) \in Int /\ a(k) \in Int /\ z(l) \in Int
      BY <1>3, <3>1
    <3> HIDE DEF x, y
    <3>5. x < y
      BY <3>2, <3>3, <3>4
    <3> QED BY <1>5, <1>12, <3>2, <3>3, <3>5
  <2> QED BY <1>9, <2>1, <2>2 DEF InTime
<1>13. Threaded(f)
  <2>1. ASSUME NEW g \in 1 .. c, NEW i \in 1 .. Len(f[g]) - 1
        PROVE  Continues(f[g][i], f[g][i + 1])
    <3> DEFINE k == r(g)
    <3>1. k \in 1 .. c /\ f[g] = Piece(s, k)
      BY <1>8, <1>10
    <3> HIDE DEF k
    <3>2. Len(f[g]) \in Nat /\ Len(f[g]) = z(k) - a(k) + 1 /\ a(k) \in 1 .. n /\ z(k) \in 1 .. n
      BY <1>3, <1>6, <3>1
    <3> DEFINE x == a(k) + i - 1
    <3>3. i \in 1 .. Len(f[g]) /\ i + 1 \in 1 .. Len(f[g])
      BY <3>2
    <3>4. f[g][i] = s[x] /\ f[g][i + 1] = s[a(k) + (i + 1) - 1]
      BY <1>6, <3>1, <3>3
    <3>5. a(k) + (i + 1) - 1 = x + 1 /\ x \in 1 .. n - 1 /\ x + 1 \in a(k) + 1 .. z(k)
      BY <1>1, <3>2, <3>3
    <3>6. x + 1 \notin B
      BY <1>3, <3>1, <3>5
    <3> HIDE DEF x
    <3> QED BY <1>4, <3>4, <3>5, <3>6
  <2>2. ASSUME NEW g \in 1 .. c - 1 PROVE ~Continues(f[g + 1][Len(f[g + 1])], f[g][1])
    <3> DEFINE k == r(g + 1)
    <3>1. k \in 1 .. c - 1 /\ k \in 1 .. c /\ f[g + 1] = Piece(s, k) /\ f[g] = Piece(s, k + 1) /\ k + 1 \in 1 .. c
      BY <1>8, <1>10
    <3> HIDE DEF k
    <3>2. /\ a(k) \in 1 .. n /\ z(k) \in 1 .. n /\ a(k + 1) = z(k) + 1 /\ a(k + 1) \in B /\ a(k + 1) \in 1 .. n
      BY <1>3, <3>1
    <3> DEFINE p == Len(f[g + 1])
    <3>3. p \in Nat \ {0} /\ p = z(k) - a(k) + 1 /\ 1 \in 1 .. Len(f[g]) /\ p \in 1 .. Len(f[g + 1])
      BY <1>6, <3>1
    <3>4. f[g + 1][p] = s[a(k) + p - 1] /\ f[g][1] = s[a(k + 1) + 1 - 1]
      BY <1>6, <3>1, <3>3
    <3> HIDE DEF p
    <3>5. a(k) + p - 1 = z(k) /\ a(k + 1) + 1 - 1 = z(k) + 1 /\ z(k) \in 1 .. n - 1
      BY <1>1, <3>2, <3>3
    <3>6. ~Continues(s[z(k)], s[z(k) + 1])
      BY <1>4, <3>2, <3>5
    <3> QED BY <3>4, <3>5, <3>6 DEF p
  <2> QED BY <1>9, <2>1, <2>2 DEF Threaded
<1>14. Rest(f, 0) = {s[i] : i \in 1 .. n}
  <2>1. ASSUME NEW x \in Rest(f, 0) PROVE x \in {s[i] : i \in 1 .. n}
    <3>1. PICK g \in 1 .. c : \E i \in 1 .. Len(f[g]) : x = f[g][i]
      BY <1>9, RestIs
    <3>2. r(g) \in 1 .. c /\ f[g] = Piece(s, r(g))
      BY <1>8, <1>10
    <3> QED BY <1>6, <3>1, <3>2
  <2>2. ASSUME NEW i \in 1 .. n PROVE s[i] \in Rest(f, 0)
    <3>1. PICK k \in 1 .. c : i \in a(k) .. z(k)
      BY <1>3
    <3>2. a(k) \in 1 .. n /\ z(k) \in 1 .. n /\ Len(Piece(s, k)) = z(k) - a(k) + 1
      BY <1>3, <1>6
    <3> DEFINE j == i - a(k) + 1
    <3>3. j \in 1 .. Len(Piece(s, k)) /\ a(k) + j - 1 = i
      BY <3>1, <3>2
    <3> HIDE DEF j
    <3>4. Piece(s, k)[j] = s[i]
      BY <1>6, <3>3
    <3>5. r(k) \in 1 .. c /\ f[r(k)] = Piece(s, k)
      BY <1>8, <1>10
    <3>6. \A g \in 1 .. c : \A m \in 1 .. Len(f[g]) : f[g][m] \in Rest(f, 0)
      BY <1>9, RestIs
    <3> QED BY <3>3, <3>4, <3>5, <3>6
  <2> QED BY <2>1, <2>2
<1> QED BY <1>9, <1>11, <1>12, <1>13, <1>14 DEF Grouped, f, n

\* What a reload renders are rows; they are grouped, and hold the page, if no two
\* SMS of the page have one time.
THEOREM RenderedGrouped ==
    ASSUME ConstantsOK, NEW page \in SUBSET Messages, IsFiniteSet(page),
           NEW f \in RenderSmsGroups[page]
    PROVE  /\ f \in Seq(Seq(Messages))
           /\ Rest(f, 0) = page
           /\ Distinct(page) => Grouped(f)
<1>1. PICK s \in Chronological(page) : f = Reverse(GroupSmsMessages(s))
  BY DEF RenderSmsGroups
<1>2. s \in Seq(Messages) /\ page = {s[i] : i \in 1 .. Len(s)} /\ (Distinct(page) => Sorted(s))
  BY ChronologicalIs
<1>3. /\ f \in Seq(Seq(Messages))
      /\ Sorted(s) => Grouped(f)
      /\ Rest(f, 0) = {s[i] : i \in 1 .. Len(s)}
  BY <1>1, <1>2, GroupsGrouped
<1> QED BY <1>2, <1>3

\* Grouped rows are what a reload of their SMS renders.
LEMMA GroupedRendered ==
    ASSUME ConstantsOK, NEW f, Grouped(f), IsFiniteSet(Rest(f, 0)), Distinct(Rest(f, 0))
    PROVE  RenderSmsGroups[Rest(f, 0)] = {f}
<1> DEFINE page == Rest(f, 0)
<1>1. page \in SUBSET Messages
  BY RestIs DEF Grouped, Filled
<1> HIDE DEF page
<1>2. ASSUME NEW g \in RenderSmsGroups[page] PROVE g = f
  <2>1. Grouped(g) /\ Rest(g, 0) = Rest(f, 0)
    BY <1>1, RenderedGrouped DEF page
  <2> QED BY <2>1, GroupedOnce
<1>3. RenderSmsGroups[page] # {}
  <2>1. Chronological(page) # {}
    BY <1>1, ChronologicalSome DEF page
  <2> QED BY <1>1, <2>1 DEF RenderSmsGroups
<1> QED BY <1>2, <1>3 DEF page

----------------------------------------------------------------------------
(* The newest SMS.                                                         *)

\* A set that holds the newer ones with each of its SMS is the newest ones.
LEMMA NewestIs ==
    ASSUME ConstantsOK, NEW T \in SUBSET Messages, IsFiniteSet(T), Distinct(T), NEW S, UpClosed(S, T)
    PROVE  IsFiniteSet(S) /\ S = Newest(T, Cardinality(S))
<1> DEFINE above(m) == {n \in T : Newer(m, n)}
           k == Cardinality(S)
<1>1. IsFiniteSet(S) /\ k \in Nat /\ S \subseteq T
  BY FS_Subset, FS_CardinalityType DEF UpClosed
<1>2. \A m \in T : IsFiniteSet(above(m)) /\ Cardinality(above(m)) \in Nat
  <2> SUFFICES ASSUME NEW m \in T PROVE IsFiniteSet(above(m)) /\ Cardinality(above(m)) \in Nat
    OBVIOUS
  <2>1. above(m) \in SUBSET T
    OBVIOUS
  <2> HIDE DEF above
  <2> QED BY <2>1, FS_Subset, FS_CardinalityType
<1>3. ASSUME NEW m \in S PROVE Cardinality(above(m)) < k
  <2>1. above(m) \cup {m} \in SUBSET S /\ m \notin above(m)
    <3>1. \A n \in T : Newer(m, n) => n \in S
      BY DEF UpClosed
    <3>2. ~Newer(m, m)
      BY <1>1, Times
    <3> QED BY <3>1, <3>2
  <2>2. IsFiniteSet(above(m)) /\ Cardinality(above(m)) \in Nat
    <3>1. m \in T
      BY <1>1
    <3> HIDE DEF above
    <3> QED BY <1>2, <3>1
  <2>3. Cardinality(above(m) \cup {m}) = Cardinality(above(m)) + 1
    <3> HIDE DEF above
    <3> QED BY <2>1, <2>2, FS_AddElement
  <2>4. Cardinality(above(m) \cup {m}) <= k
    <3> HIDE DEF above
    <3> QED BY <1>1, <2>1, FS_Subset
  <2> HIDE DEF above, k
  <2> QED BY <1>1, <2>2, <2>3, <2>4
<1>4. ASSUME NEW m \in T, m \notin S PROVE ~(Cardinality(above(m)) < k)
  <2>1. ASSUME NEW n \in S PROVE n \in above(m)
    <3>1. n \in T /\ n # m
      BY <1>1, <1>4
    <3>2. ~Newer(n, m)
      BY <1>4 DEF UpClosed
    <3>3. Newer(m, n)
      BY <3>1, <3>2, Apart
    <3> QED BY <3>1, <3>3
  <2>2. S \in SUBSET above(m)
    BY <2>1
  <2>3. k <= Cardinality(above(m))
    <3> HIDE DEF above
    <3> QED BY <1>2, <2>2, FS_Subset
  <2>4. Cardinality(above(m)) \in Nat
    <3> HIDE DEF above
    <3> QED BY <1>2
  <2> HIDE DEF above, k
  <2> QED BY <1>1, <2>3, <2>4
<1>5. Newest(T, k) = {m \in T : Cardinality(above(m)) < k}
  BY DEF Newest
<1> HIDE DEF above, k
<1>6. S = Newest(T, k)
  BY <1>1, <1>3, <1>4, <1>5
<1> QED BY <1>1, <1>6 DEF k

\* The newest SMS hold the newer ones with each of theirs, and are as many as
\* were asked for or all there are.
LEMMA NewestClosed ==
    ASSUME ConstantsOK, NEW T \in SUBSET Messages, IsFiniteSet(T), NEW size \in Nat
    PROVE  /\ UpClosed(Newest(T, size), T)
           /\ IsFiniteSet(Newest(T, size)) /\ Cardinality(Newest(T, size)) \in Nat
           /\ Newest(T, size) = T \/ Cardinality(Newest(T, size)) >= size
<1> DEFINE above(m) == {n \in T : Newer(m, n)}
           S == Newest(T, size)
<1>1. S = {m \in T : Cardinality(above(m)) < size}
  BY DEF Newest
<1>2. \A m \in T : above(m) \in SUBSET T
  OBVIOUS
<1>3. \A m \in T : IsFiniteSet(above(m)) /\ Cardinality(above(m)) \in Nat
  <2> HIDE DEF above
  <2> QED BY <1>2, FS_Subset, FS_CardinalityType
<1>4. S \in SUBSET T
  <2> HIDE DEF above, S
  <2> QED BY <1>1
<1>5. IsFiniteSet(S) /\ Cardinality(S) \in Nat
  <2> HIDE DEF S
  <2> QED BY <1>4, FS_Subset, FS_CardinalityType
<1>6. ASSUME NEW m \in T, NEW n \in T, Newer(m, n)
      PROVE  Cardinality(above(n)) < Cardinality(above(m))
  <2>1. above(n) \cup {n} \in SUBSET above(m) /\ n \notin above(n)
    <3>1. \A o \in T : Newer(n, o) => Newer(m, o)
      BY <1>6, Times
    <3>2. ~Newer(n, n)
      BY Times
    <3> QED BY <1>6, <3>1, <3>2
  <2>2. Cardinality(above(n) \cup {n}) = Cardinality(above(n)) + 1
    <3> HIDE DEF above
    <3> QED BY <1>3, <2>1, FS_AddElement
  <2>3. Cardinality(above(n) \cup {n}) <= Cardinality(above(m))
    <3> HIDE DEF above
    <3> QED BY <1>3, <2>1, FS_Subset
  <2>4. Cardinality(above(n)) \in Nat /\ Cardinality(above(m)) \in Nat
    <3> HIDE DEF above
    <3> QED BY <1>3
  <2> HIDE DEF above
  <2> QED BY <2>2, <2>3, <2>4
<1>7. UpClosed(S, T)
  <2> SUFFICES ASSUME NEW m \in S, NEW n \in T, Newer(m, n) PROVE n \in S
    BY <1>4 DEF UpClosed
  <2>1. m \in T /\ Cardinality(above(m)) < size
    <3> HIDE DEF S, above
    <3> QED BY <1>1
  <2>2. Cardinality(above(n)) < Cardinality(above(m)) /\ Cardinality(above(n)) \in Nat /\ Cardinality(above(m)) \in Nat
    <3> HIDE DEF S, above
    <3> QED BY <1>3, <1>6, <2>1
  <2>3. Cardinality(above(n)) < size
    <3> HIDE DEF S, above
    <3> QED BY <2>1, <2>2
  <2> HIDE DEF S, above
  <2> QED BY <1>1, <2>3
<1>8. ASSUME S # T PROVE Cardinality(S) >= size
  <2> DEFINE counts == {Cardinality(above(m)) : m \in T \ S}
  <2>1. counts \in SUBSET Nat /\ counts # {}
    <3>1. T \ S # {}
      BY <1>4, <1>8
    <3> HIDE DEF above, S
    <3> QED BY <1>3, <3>1
  <2>2. PICK k \in counts : \A l \in counts : k <= l
    <3> HIDE DEF counts
    <3> QED BY <2>1, NatMin
  <2>3. PICK m \in T \ S : k = Cardinality(above(m))
    <3> HIDE DEF above, S
    <3> QED OBVIOUS
  <2>4. above(m) \in SUBSET S
    <3> SUFFICES ASSUME NEW n \in T, Newer(m, n), n \notin S PROVE FALSE
      OBVIOUS
    <3>1. Cardinality(above(n)) < k /\ Cardinality(above(n)) \in Nat /\ k \in Nat
      <4> HIDE DEF above, S
      <4> QED BY <1>3, <1>6, <2>3
    <3>2. k <= Cardinality(above(n))
      <4> HIDE DEF above, S
      <4> QED BY <2>2
    <3> HIDE DEF above, S, counts
    <3> QED BY <3>1, <3>2
  <2>5. k <= Cardinality(S) /\ k \in Nat
    <3> HIDE DEF above, S
    <3> QED BY <1>3, <1>5, <2>3, <2>4, FS_Subset
  <2>6. ~(k < size)
    <3> HIDE DEF above, S
    <3> QED BY <1>1, <2>3
  <2> HIDE DEF S, above, counts
  <2> QED BY <1>5, <2>5, <2>6
<1> HIDE DEF S, above
<1>9. S = T \/ Cardinality(S) >= size
  BY <1>8
<1> QED BY <1>5, <1>7, <1>9 DEF S

----------------------------------------------------------------------------
(* The feed as it is told of SMS.                                          *)

\* What the feed is when nothing was missed: grouped, of the newest SMS of those
\* that the page was told of, and nothing is missing but for a limit.
Kept(f, told) ==
    /\ Grouped(f)
    /\ UpClosed(Rest(f, 0), told)
    /\ Rest(f, 0) = told \/ Len(f) >= MaxRows \/ Cardinality(Rest(f, 0)) >= PageSize

\* What is stored, being stored, under way or in an answer was announced.
Known ==
    /\ IsFiniteSet(announced)
    /\ saving \subseteq announced /\ creating \subseteq announced /\ stored \subseteq announced
    /\ \A i \in 1 .. Len(events) : events[i] \in announced
    /\ \A l \in Loads : load[l].page \subseteq announced

Right == exact => InOrder /\ Distinct(Told) /\ Kept(feed, Told)

FeedInv == TypeOK /\ Known /\ Right

\* The page that was opened just now.
LEMMA FeedInit == ASSUME ConstantsOK, Init PROVE FeedInv
<1> USE DEF Init
<1>1. announced = Earlier /\ Earlier \in SUBSET Messages /\ IsFiniteSet(Earlier) /\ MaxAnnounced \in Nat
  BY DEF ConstantsOK
<1>2. load \in [Loads -> [phase : {"idle", "asked", "answered"}, of : Filters \cup {Live}, page : SUBSET Messages]]
      /\ \A l \in Loads : load[l].page = {}
  BY DEF Idle, Live
<1>3. TypeOK
  BY <1>1, <1>2 DEF TypeOK
<1>4. Known
  BY <1>1, <1>2 DEF Known
<1>5. Right
  <2> SUFFICES ASSUME exact PROVE InOrder /\ Distinct(Told) /\ Kept(feed, Told)
    BY DEF Right
  <2>1. announced = {} /\ Told = {} /\ feed = <<>>
    BY DEF Told
  <2>2. InOrder
    BY DEF InOrder
  <2>3. Grouped(feed) /\ Rest(feed, 0) = {}
    <3>1. feed \in Seq(Seq(Messages)) /\ Len(feed) = 0
      BY <1>3 DEF TypeOK
    <3>2. Filled(feed) /\ InTime(feed) /\ Threaded(feed)
      BY <3>1 DEF Filled, InTime, Threaded
    <3>3. 0 + 1 .. Len(feed) = {}
      BY <3>1
    <3>4. Rest(feed, 0) = {}
      BY <3>3 DEF Rest
    <3> QED BY <3>2, <3>4 DEF Grouped
  <2> QED BY <2>1, <2>2, <2>3 DEF Kept, UpClosed, Distinct
<1> QED BY <1>3, <1>4, <1>5 DEF FeedInv

\* What an action leaves right that changes neither the feed nor what is told.
LEMMA RightStays ==
    ASSUME FeedInv, announced' = announced, events' = events, feed' = feed, exact' = exact
    PROVE  Right'
BY DEF FeedInv, Right, InOrder, Told, Distinct

\* An announcement is under way to the page or to no one.
LEMMA AnnounceKnown ==
    ASSUME ConstantsOK, FeedInv, NEW m \in Messages, Announce(m)
    PROVE  TypeOK' /\ Known'
<1> USE DEF FeedInv, TypeOK, Known, Announce
<1>1. repeats' \in 0 .. MaxAnnounced
  <2>1. Cardinality(announced) \in Nat
    BY FS_CardinalityType
  <2> QED BY <2>1 DEF ConstantsOK
<1>2. IsFiniteSet(announced')
  BY FS_AddElement
<1>3. events' \in Seq(Messages) /\ \A i \in 1 .. Len(events') : events'[i] \in announced'
  <2>1. CASE connected
    <3>1. events' = Append(events, m)
      BY <2>1
    <3>2. Append(events, m) \in Seq(Messages) /\ \A i \in 1 .. Len(Append(events, m)) : Append(events, m)[i] \in announced \cup {m}
      OBVIOUS
    <3> QED BY <3>1, <3>2
  <2>2. CASE ~connected
    BY <2>2
  <2> QED BY <2>1, <2>2
<1>4. exact' \in BOOLEAN
  OBVIOUS
<1> QED BY <1>1, <1>2, <1>3, <1>4

\* An SMS newer than all others is last in the order.
LEMMA AnnounceRight ==
    ASSUME ConstantsOK, FeedInv, NEW m \in Messages, Announce(m)
    PROVE  Right'
<1> SUFFICES ASSUME exact' PROVE InOrder' /\ Distinct(Told') /\ Kept(feed', Told')
  BY DEF Right
<1>1. exact /\ connected /\ (\A n \in announced : Newer(n, m)) /\ announced' = announced \cup {m} /\ feed' = feed
  BY DEF Announce
<1>2. InOrder /\ Distinct(Told) /\ Kept(feed, Told)
  BY <1>1 DEF FeedInv, Right
<1> DEFINE k == Len(events)
<1>3. events \in Seq(Messages) /\ k \in Nat /\ announced \in SUBSET Messages
  BY DEF FeedInv, TypeOK
<1>4. /\ events' = Append(events, m) /\ Len(events') = k + 1 /\ events'[k + 1] = m
      /\ \A i \in 1 .. k : events'[i] = events[i] /\ events[i] \in announced
  BY <1>1, <1>3 DEF Announce, FeedInv, Known
<1>5. m \notin announced
  BY <1>1, Times
<1>6. \A i \in 1 .. k + 1 : i \in 1 .. k \/ i = k + 1
  BY <1>3
<1>7. \A i \in 1 .. k : i \in 1 .. k + 1 /\ k + 1 \in 1 .. k + 1 /\ \A j \in 1 .. i - 1 : j \in 1 .. k
  BY <1>3
<1> HIDE DEF k
<1>8. Told' = Told
  <2>1. Told' = {n \in announced' : \A i \in 1 .. k + 1 : events'[i] # n}
    BY <1>4 DEF Told
  <2>2. Told = {n \in announced : \A i \in 1 .. k : events[i] # n}
    BY DEF Told, k
  <2>3. k + 1 \in 1 .. k + 1 /\ \A i \in 1 .. k : i \in 1 .. k + 1
    BY <1>3
  <2>4. ASSUME NEW n \in announced PROVE (\A i \in 1 .. k + 1 : events'[i] # n) <=> (\A i \in 1 .. k : events[i] # n)
    <3>1. n # m
      BY <1>5
    <3> QED BY <1>4, <1>6, <2>3, <3>1
  <2>5. ~(\A i \in 1 .. k + 1 : events'[i] # m)
    BY <1>4, <2>3
  <2> QED BY <1>1, <2>1, <2>2, <2>4, <2>5
<1>9. ASSUME NEW i \in 1 .. k + 1, NEW n \in Told' \cup {events'[j] : j \in 1 .. i - 1}
      PROVE  Newer(n, events'[i])
  <2>1. CASE i \in 1 .. k
    <3>1. n \in Told \cup {events[j] : j \in 1 .. i - 1}
      BY <1>4, <1>7, <1>8, <2>1
    <3>2. Newer(n, events[i])
      BY <1>2, <2>1, <3>1 DEF InOrder, k
    <3> QED BY <1>4, <2>1, <3>2
  <2>2. CASE i = k + 1
    <3>1. \A j \in 1 .. i - 1 : j \in 1 .. k
      BY <1>3, <2>2
    <3>2. n \in announced
      <4>1. Told \subseteq announced
        BY DEF Told
      <4> QED BY <1>4, <1>8, <3>1, <4>1
    <3> QED BY <1>1, <1>4, <2>2, <3>2
  <2> QED BY <1>6, <2>1, <2>2
<1>10. InOrder'
  BY <1>4, <1>9 DEF InOrder
<1> QED BY <1>1, <1>2, <1>8, <1>10

\* The next event is the newest SMS that the page is told of.
LEMMA ReceiveRight ==
    ASSUME ConstantsOK, FeedInv, Receive
    PROVE  Right'
<1> SUFFICES ASSUME exact' PROVE InOrder' /\ Distinct(Told') /\ Kept(feed', Told')
  BY DEF Right
<1> DEFINE m == Head(events)
           k == Len(events)
           told == Told
           e == Added(m)
<1>1. exact /\ mode = "live" /\ announced' = announced /\ feed' = e /\ events # <<>> /\ events' = Tail(events)
  BY DEF Receive
<1>2. InOrder /\ Distinct(told) /\ Kept(feed, told)
  BY <1>1 DEF FeedInv, Right
<1>3. /\ events \in Seq(Messages) /\ k \in Nat \ {0} /\ announced \in SUBSET Messages
      /\ m = events[1] /\ m \in Messages /\ m \in announced
      /\ Len(events') = k - 1 /\ \A i \in 1 .. k - 1 : events'[i] = events[i + 1]
  <2>1. events \in Seq(Messages) /\ announced \in SUBSET Messages /\ events # <<>>
    BY <1>1 DEF FeedInv, TypeOK
  <2>2. 1 \in 1 .. Len(events) /\ Head(events) = events[1]
    BY <2>1
  <2>3. events[1] \in announced
    BY <2>2 DEF FeedInv, Known
  <2> QED BY <1>1, <2>1, <2>2, <2>3
<1> HIDE DEF m, k
<1>4. \A i \in 1 .. k : \A n \in told \cup {events[j] : j \in 1 .. i - 1} : Newer(n, events[i])
  BY <1>2 DEF InOrder, k
<1>5. told = {n \in announced : \A i \in 1 .. k : events[i] # n}
  BY DEF Told, k
<1>6. Told' = {n \in announced : \A i \in 1 .. k - 1 : events[i + 1] # n}
  BY <1>1, <1>3 DEF Told
<1>7. \A i \in 1 .. k : i = 1 \/ \E j \in 1 .. k - 1 : i = j + 1
  <2> SUFFICES ASSUME NEW i \in 1 .. k, i # 1 PROVE \E j \in 1 .. k - 1 : i = j + 1
    OBVIOUS
  <2>1. i - 1 \in 1 .. k - 1 /\ i = (i - 1) + 1
    BY <1>3
  <2> QED BY <2>1
<1>8. 1 \in 1 .. k /\ \A j \in 1 .. k - 1 : j + 1 \in 1 .. k /\ 1 \in 1 .. (j + 1) - 1
  BY <1>3
<1> HIDE DEF told
<1>9. \A n \in told : Newer(n, m)
  BY <1>3, <1>4, <1>8
<1>10. \A i \in 1 .. k - 1 : events[i + 1] # m
  <2> SUFFICES ASSUME NEW i \in 1 .. k - 1, events[i + 1] = m PROVE FALSE
    OBVIOUS
  <2>1. Newer(events[1], events[i + 1])
    BY <1>4, <1>8
  <2> QED BY <1>3, <2>1, Times
<1>11. Told' = told \cup {m}
  <2>1. \A n \in announced : (\A i \in 1 .. k : events[i] # n) <=> (n # m /\ \A i \in 1 .. k - 1 : events[i + 1] # n)
    BY <1>3, <1>7, <1>8
  <2> QED BY <1>3, <1>5, <1>6, <1>10, <2>1
<1>12. InOrder'
  <2>1. ASSUME NEW i \in 1 .. k - 1, NEW n \in Told' \cup {events'[j] : j \in 1 .. i - 1}
        PROVE  Newer(n, events'[i])
    <3>1. \A j \in 1 .. i - 1 : j \in 1 .. k - 1 /\ j + 1 \in 1 .. (i + 1) - 1
      BY <1>3
    <3>2. n \in told \cup {events[j] : j \in 1 .. (i + 1) - 1}
      BY <1>3, <1>8, <1>11, <3>1
    <3>3. i + 1 \in 1 .. k
      BY <1>8
    <3> QED BY <1>3, <1>4, <3>2, <3>3
  <2> QED BY <1>3, <2>1 DEF InOrder
<1> DEFINE S == Rest(feed, 0)
           S1 == Rest(e, 0)
<1>13. Grouped(feed) /\ UpClosed(S, told) /\ (S = told \/ Len(feed) >= MaxRows \/ Cardinality(S) >= PageSize)
  BY <1>2 DEF Kept
<1>14. told \subseteq Messages /\ S \subseteq told /\ IsFiniteSet(S) /\ Cardinality(S) \in Nat
  <2>1. told \subseteq announced
    BY <1>5
  <2>2. S \subseteq told
    BY <1>13 DEF UpClosed
  <2>3. IsFiniteSet(announced) /\ S \in SUBSET announced
    BY <2>1, <2>2 DEF FeedInv, Known
  <2> HIDE DEF S
  <2> QED BY <1>3, <2>1, <2>2, <2>3, FS_Subset, FS_CardinalityType
<1>15. /\ Grouped(e) /\ UpClosed(S1, S \cup {m}) /\ m \in S1
       /\ (S1 = S \cup {m} /\ Len(e) >= Len(feed)) \/ Len(e) >= MaxRows
  <2>1. \A x \in S : Newer(x, m)
    BY <1>9, <1>14
  <2> HIDE DEF e
  <2> QED BY <1>3, <1>13, <2>1, AddedGrouped DEF e
<1> HIDE DEF S, S1, e
<1>16. UpClosed(S1, told \cup {m})
  <2>1. S1 \subseteq S \cup {m}
    BY <1>15 DEF UpClosed
  <2>2. ASSUME NEW x \in S1, NEW n \in told \cup {m}, Newer(x, n) PROVE n \in S1
    <3>1. CASE n = m
      BY <1>15, <3>1
    <3>2. CASE n \in told /\ x = m
      <4>1. Newer(n, m) /\ n \in Messages
        BY <1>9, <1>14, <3>2
      <4> QED BY <1>3, <2>2, <3>2, <4>1, Times
    <3>3. CASE n \in told /\ x \in S
      <4>1. n \in S
        BY <1>13, <2>2, <3>3 DEF UpClosed
      <4> QED BY <1>15, <2>2, <4>1 DEF UpClosed
    <3> QED BY <2>1, <3>1, <3>2, <3>3
  <2> QED BY <1>14, <2>1, <2>2 DEF UpClosed
<1>17. S1 = told \cup {m} \/ Len(e) >= MaxRows \/ Cardinality(S1) >= PageSize
  <2> SUFFICES ASSUME S1 = S \cup {m}, Len(e) >= Len(feed)
      PROVE S1 = told \cup {m} \/ Len(e) >= MaxRows \/ Cardinality(S1) >= PageSize
    BY <1>15
  <2>1. Cardinality(S1) = IF m \in S THEN Cardinality(S) ELSE Cardinality(S) + 1
    BY <1>14, FS_AddElement
  <2>2. Cardinality(S1) >= Cardinality(S) /\ Cardinality(S1) \in Nat
    BY <1>14, <2>1
  <2>3. PageSize \in Nat /\ MaxRows \in Nat
    BY DEF ConstantsOK
  <2>4. Len(e) \in Nat /\ Len(feed) \in Nat
    BY <1>13, <1>15 DEF Grouped, Filled
  <2>5. CASE S = told
    BY <2>5
  <2>6. CASE Len(feed) >= MaxRows
    <3> DEFINE a == Len(e)
               b == Len(feed)
    <3>1. a >= b /\ b >= MaxRows /\ a \in Nat /\ b \in Nat
      BY <2>4, <2>6
    <3> HIDE DEF a, b
    <3>2. a >= MaxRows
      BY <2>3, <3>1
    <3> QED BY <3>2 DEF a
  <2>7. CASE Cardinality(S) >= PageSize
    BY <1>14, <2>2, <2>3, <2>7
  <2> QED BY <1>13, <2>5, <2>6, <2>7
<1>18. Kept(e, told \cup {m})
  BY <1>15, <1>16, <1>17 DEF Kept, S1
<1>19. Distinct(Told')
  <2> SUFFICES ASSUME NEW x \in told \cup {m}, NEW y \in told \cup {m}, At[x] = At[y] PROVE x = y
    BY <1>11 DEF Distinct
  <2>1. ~Newer(x, y) /\ ~Newer(y, x)
    <3>1. x \in Messages /\ y \in Messages
      BY <1>3, <1>14
    <3>2. At[x] \in Nat
      BY <3>1, Times
    <3> QED BY <3>2 DEF Newer
  <2>2. (x = m \/ x \in told) /\ (y = m \/ y \in told)
    OBVIOUS
  <2> QED BY <1>2, <1>9, <2>1, <2>2 DEF Distinct
<1> QED BY <1>1, <1>11, <1>12, <1>18, <1>19

\* An answer that holds the newest SMS makes the feed right again.
LEMMA LoadRight ==
    ASSUME ConstantsOK, FeedInv, NEW l \in Loads, LoadReturns(l)
    PROVE  Right' /\ feed' \in Seq(Seq(Messages))
<1> DEFINE page == load[l].page
<1>1. feed' \in RenderSmsGroups[page] /\ announced' = announced /\ events' = events
      /\ exact' = (/\ load[l].of = Live /\ page = Newest(Told, PageSize)
                  /\ InOrder /\ Distinct(Told))
  BY DEF LoadReturns, serverVars
<1>2. page \in SUBSET Messages /\ IsFiniteSet(page)
  <2>1. page \in SUBSET Messages /\ page \in SUBSET announced /\ IsFiniteSet(announced)
    BY DEF FeedInv, TypeOK, Known
  <2> HIDE DEF page
  <2> QED BY <2>1, FS_Subset
<1> HIDE DEF page
<1>3. feed' \in Seq(Seq(Messages)) /\ Rest(feed', 0) = page /\ (Distinct(page) => Grouped(feed'))
  BY <1>1, <1>2, RenderedGrouped
<1>4. ASSUME exact' PROVE InOrder' /\ Distinct(Told') /\ Kept(feed', Told')
  <2>1. page = Newest(Told, PageSize) /\ InOrder /\ Distinct(Told)
    BY <1>1, <1>4
  <2>2. Told' = Told /\ (InOrder' <=> InOrder)
    BY <1>1 DEF Told, InOrder
  <2>3. Told \in SUBSET Messages /\ IsFiniteSet(Told) /\ PageSize \in Nat
    <3>1. Told \in SUBSET announced /\ announced \in SUBSET Messages /\ IsFiniteSet(announced)
      BY DEF FeedInv, TypeOK, Known, Told
    <3> QED BY <3>1, FS_Subset DEF ConstantsOK
  <2>4. UpClosed(page, Told) /\ (page = Told \/ Cardinality(page) >= PageSize)
    BY <2>1, <2>3, NewestClosed
  <2>5. Distinct(page)
    BY <2>1, <2>4 DEF Distinct, UpClosed
  <2> QED BY <1>3, <2>1, <2>2, <2>4, <2>5 DEF Kept
<1> QED BY <1>3, <1>4 DEF Right

LoadType == [phase : {"idle", "asked", "answered"}, of : Filters \cup {Live}, page : SUBSET Messages]

\* A request keeps its type, and answers hold what was announced.
LEMMA LoadKnown ==
    ASSUME FeedInv, NEW l \in Loads, NEW r \in LoadType, r.page \subseteq announced,
           load' = [load EXCEPT ![l] = r]
    PROVE  load' \in [Loads -> LoadType] /\ \A k \in Loads : load'[k].page \subseteq announced
<1>1. load \in [Loads -> LoadType] /\ \A k \in Loads : load[k].page \subseteq announced
  BY DEF FeedInv, TypeOK, Known, LoadType
<1> QED BY <1>1

\* Every step of the feed keeps the invariant.
LEMMA FeedNext == ASSUME ConstantsOK, FeedInv, [Next]_vars PROVE FeedInv'
<1> SUFFICES TypeOK' /\ Known' /\ Right'
  BY DEF FeedInv
<1>0. TypeOK /\ Known /\ Right /\ load \in [Loads -> LoadType]
  BY DEF FeedInv, TypeOK, LoadType
<1>1. ASSUME NEW m \in Messages, Announce(m) PROVE TypeOK' /\ Known' /\ Right'
  BY <1>1, AnnounceKnown, AnnounceRight
<1>2. ASSUME NEW m \in Messages, LookUp(m) \/ Create(m) \/ SkipDuplicate(m)
      PROVE  TypeOK' /\ Known' /\ Right'
  <2>1. TypeOK' /\ Known'
    BY <1>0, <1>2 DEF LookUp, Create, SkipDuplicate, TypeOK, Known
  <2>2. Right'
    BY <1>2, RightStays DEF LookUp, Create, SkipDuplicate
  <2> QED BY <2>1, <2>2
<1>3. ASSUME NEW l \in Loads, AnswerLoad(l) PROVE TypeOK' /\ Known' /\ Right'
  <2>0. PICK page : /\ page \subseteq stored
                    /\ load' = [load EXCEPT ![l].phase = "answered", ![l].page = page]
    BY <1>3 DEF AnswerLoad, Pages
  <2> DEFINE r == [load[l] EXCEPT !.phase = "answered", !.page = page]
  <2>1. page \subseteq Messages /\ page \subseteq announced
    BY <1>0, <2>0 DEF TypeOK, Known
  <2>2. load' = [load EXCEPT ![l] = r]
    BY <1>0, <2>0 DEF LoadType
  <2>3. r \in LoadType /\ r.page = page
    BY <1>0, <2>1 DEF LoadType
  <2> HIDE DEF r
  <2>4. load' \in [Loads -> LoadType] /\ \A k \in Loads : load'[k].page \subseteq announced
    BY <2>1, <2>2, <2>3, LoadKnown
  <2>5. UNCHANGED <<announced, repeats, saving, creating, stored, connected, events, mode, feed, exact>>
    BY <1>3 DEF AnswerLoad, serverVars
  <2> QED BY <1>0, <2>4, <2>5, RightStays DEF TypeOK, Known, LoadType
<1>4. ASSUME NEW l \in Loads, RefuseLoad(l) PROVE TypeOK' /\ Known' /\ Right'
  <2>1. load' = [load EXCEPT ![l] = Idle] /\ Idle \in LoadType /\ Idle.page \subseteq announced
    BY <1>4 DEF RefuseLoad, Idle, LoadType
  <2>2. load' \in [Loads -> LoadType] /\ \A k \in Loads : load'[k].page \subseteq announced
    BY <2>1, LoadKnown
  <2>3. UNCHANGED <<announced, repeats, saving, creating, stored, connected, events, mode, feed, exact>>
    BY <1>4 DEF RefuseLoad, serverVars
  <2> QED BY <1>0, <2>2, <2>3, RightStays DEF TypeOK, Known, LoadType
<1>5. ASSUME NEW l \in Loads, LoadReturns(l) PROVE TypeOK' /\ Known' /\ Right'
  <2>1. load' = [load EXCEPT ![l] = Idle] /\ Idle \in LoadType /\ Idle.page \subseteq announced
    BY <1>5 DEF LoadReturns, Idle, LoadType
  <2>2. load' \in [Loads -> LoadType] /\ \A k \in Loads : load'[k].page \subseteq announced
    BY <2>1, LoadKnown
  <2>3. UNCHANGED <<announced, repeats, saving, creating, stored, connected, events, mode>> /\ exact' \in BOOLEAN
    BY <1>5 DEF LoadReturns, serverVars
  <2>4. Right' /\ feed' \in Seq(Seq(Messages))
    BY <1>5, LoadRight
  <2> QED BY <1>0, <2>2, <2>3, <2>4 DEF TypeOK, Known, LoadType
<1>6. ASSUME NEW l \in Loads, NEW of \in Filters \cup {Live}, Ask(l, of), mode' \in {"live", "search"}
      PROVE  TypeOK' /\ Known' /\ Right'
  <2> DEFINE r == [load[l] EXCEPT !.phase = "asked", !.of = of]
  <2>1. load' = [load EXCEPT ![l] = r]
    BY <1>0, <1>6 DEF Ask, LoadType
  <2>2. r \in LoadType /\ r.page = load[l].page
    BY <1>0 DEF LoadType
  <2>3. load[l].page \subseteq announced
    BY <1>0 DEF Known
  <2> HIDE DEF r
  <2>4. load' \in [Loads -> LoadType] /\ \A k \in Loads : load'[k].page \subseteq announced
    BY <2>1, <2>2, <2>3, LoadKnown
  <2>5. UNCHANGED <<announced, repeats, saving, creating, stored, connected, events, feed, exact>>
    BY <1>6 DEF Ask, serverVars
  <2> QED BY <1>0, <1>6, <2>4, <2>5, RightStays DEF TypeOK, Known, LoadType
<1>7. CASE Connect
  <2>1. TypeOK' /\ Known'
    BY <1>0, <1>7 DEF Connect, TypeOK, Known
  <2>2. Right'
    BY <1>7, RightStays DEF Connect
  <2> QED BY <2>1, <2>2
<1>8. CASE Disconnect
  <2>1. TypeOK' /\ Known'
    <3>1. events' = <<>> /\ connected' \in BOOLEAN /\ exact' \in BOOLEAN
      BY <1>8 DEF Disconnect
    <3>2. events' \in Seq(Messages) /\ Len(events') = 0
      BY <3>1
    <3>3. UNCHANGED <<announced, repeats, saving, creating, stored, mode, feed, load>>
      BY <1>8 DEF Disconnect
    <3> QED BY <1>0, <3>1, <3>2, <3>3 DEF TypeOK, Known
  <2>2. ASSUME exact' PROVE InOrder' /\ Distinct(Told') /\ Kept(feed', Told')
    <3>1. exact /\ events = <<>> /\ events' = events /\ announced' = announced /\ feed' = feed
      BY <1>8, <2>2 DEF Disconnect
    <3> QED BY <1>0, <3>1 DEF Right, InOrder, Told, Distinct
  <2> QED BY <2>1, <2>2 DEF Right
<1>9. CASE Receive
  <2>1. Right'
    BY <1>9, ReceiveRight
  <2>2. events \in Seq(Messages) /\ events # <<>> /\ Head(events) \in Messages /\ feed \in Seq(Seq(Messages))
    BY <1>0, <1>9 DEF Receive, TypeOK
  <2>3. feed' \in Seq(Seq(Messages))
    <3>1. CASE mode = "live"
      <4>1. feed' = Added(Head(events))
        BY <1>9, <3>1 DEF Receive
      <4> DEFINE m == Head(events)
      <4>2. m \in Messages
        BY <2>2
      <4> HIDE DEF m
      <4>3. CASE feed # <<>> /\ SameThread(m)
        <5>1. Added(m) = <<Append(Head(feed), m)>> \o Tail(feed)
          BY <4>3 DEF Added
        <5>2. Head(feed) \in Seq(Messages) /\ Tail(feed) \in Seq(Seq(Messages))
          BY <2>2, <4>3
        <5>3. Append(Head(feed), m) \in Seq(Messages)
          BY <4>2, <5>2
        <5> DEFINE a == Append(Head(feed), m)
                   t == Tail(feed)
                   R == Seq(Messages)
        <5>4. Added(m) = <<a>> \o t /\ a \in R /\ t \in Seq(R)
          BY <5>1, <5>2, <5>3
        <5> HIDE DEF a, t, R
        <5>5. Added(m) \in Seq(R)
          BY <5>4
        <5> QED BY <4>1, <5>5 DEF m, R
      <4>4. CASE ~(feed # <<>> /\ SameThread(m))
        <5> DEFINE rows == <<<<m>>>> \o feed
                   k == IF Len(rows) < MaxRows THEN Len(rows) ELSE MaxRows
        <5>1. Added(m) = SubSeq(rows, 1, k)
          BY <4>4 DEF Added
        <5>2. rows \in Seq(Seq(Messages)) /\ MaxRows \in Nat
          BY <2>2, <4>2 DEF ConstantsOK
        <5> HIDE DEF rows
        <5>3. k \in 0 .. Len(rows)
          BY <5>2
        <5> HIDE DEF k
        <5>4. SubSeq(rows, 1, k) \in Seq(Seq(Messages))
          BY <5>2, <5>3
        <5> QED BY <4>1, <5>1, <5>4 DEF m
      <4> QED BY <4>3, <4>4
    <3>2. CASE mode # "live"
      BY <1>9, <2>2, <3>2 DEF Receive
    <3> QED BY <3>1, <3>2
  <2>4. events' \in Seq(Messages) /\ \A i \in 1 .. Len(events') : events'[i] \in announced
    <3>1. events' = Tail(events)
      BY <1>9 DEF Receive
    <3>2. Tail(events) \in Seq(Messages) /\ Len(Tail(events)) = Len(events) - 1
          /\ \A i \in 1 .. Len(events) - 1 : Tail(events)[i] = events[i + 1] /\ i + 1 \in 1 .. Len(events)
      BY <2>2
    <3> QED BY <1>0, <3>1, <3>2 DEF Known
  <2>5. UNCHANGED <<announced, repeats, saving, creating, stored, connected, mode, load>> /\ exact' \in BOOLEAN
    BY <1>0, <1>9 DEF Receive, TypeOK
  <2> QED BY <1>0, <2>1, <2>3, <2>4, <2>5 DEF TypeOK, Known
<1>10. CASE UNCHANGED vars
  <2>1. TypeOK' /\ Known'
    BY <1>0, <1>10 DEF vars, TypeOK, Known
  <2>2. Right'
    BY <1>10, RightStays DEF vars
  <2> QED BY <2>1, <2>2
<1>11. ASSUME NEW l \in Loads, EnterLiveMode(l) PROVE TypeOK' /\ Known' /\ Right'
  BY <1>6, <1>11 DEF EnterLiveMode
<1>12. ASSUME NEW l \in Loads, Poll(l) PROVE TypeOK' /\ Known' /\ Right'
  <2>1. mode' \in {"live", "search"}
    BY <1>0, <1>12 DEF Poll, TypeOK
  <2> QED BY <1>6, <1>12, <2>1 DEF Poll
<1>13. ASSUME NEW l \in Loads, NEW filter \in Filters, RunSearch(l, filter) PROVE TypeOK' /\ Known' /\ Right'
  BY <1>6, <1>13 DEF RunSearch
<1> QED
  BY <1>1, <1>2, <1>3, <1>4, <1>5, <1>7, <1>8, <1>9, <1>10, <1>11, <1>12, <1>13 DEF Next

\* The inductive invariant of the feed (prependFeedItem, mergeIntoTopSmsRow,
\* renderSmsGroups): what is shown is grouped as groupSmsMessages would.
THEOREM FeedInvariant == Spec => []FeedInv
<1>1. Init => FeedInv
  BY FeedInit, ConstantsAssumption
<1>2. FeedInv /\ [Next]_vars => FeedInv'
  BY FeedNext, ConstantsAssumption
<1> QED BY <1>1, <1>2, PTL DEF Spec

\* Every variable of SmsFeed keeps its type.
THEOREM FeedTypeOK == Spec => []TypeOK
<1>1. FeedInv => TypeOK
  BY DEF FeedInv
<1> QED BY <1>1, FeedInvariant, PTL

\* What the invariant says of the live feed.
LEMMA LiveFromInv == ASSUME ConstantsOK, FeedInv PROVE LiveAsGrouped
<1> SUFFICES ASSUME exact
    PROVE  /\ RenderSmsGroups[Shown] = {feed}
           /\ Shown = Newest(Told, Cardinality(Shown))
           /\ Shown = Told \/ Len(feed) >= MaxRows \/ Cardinality(Shown) >= PageSize
  BY DEF LiveAsGrouped
<1>1. Shown = Rest(feed, 0)
  BY DEF Shown, Rest
<1>2. Kept(feed, Told) /\ Distinct(Told)
  BY DEF FeedInv, Right
<1>3. Told \in SUBSET Messages /\ IsFiniteSet(Told)
  <2>1. Told \in SUBSET announced /\ announced \in SUBSET Messages /\ IsFiniteSet(announced)
    BY DEF FeedInv, TypeOK, Known, Told
  <2> QED BY <2>1, FS_Subset
<1>4. IsFiniteSet(Shown) /\ Shown = Newest(Told, Cardinality(Shown))
  BY <1>1, <1>2, <1>3, NewestIs DEF Kept
<1>5. RenderSmsGroups[Shown] = {feed}
  <2>1. Distinct(Shown)
    BY <1>1, <1>2 DEF Kept, UpClosed, Distinct
  <2> QED BY <1>1, <1>2, <1>4, <2>1, GroupedRendered DEF Kept
<1> QED BY <1>1, <1>2, <1>4, <1>5 DEF Kept

\* Merging SMS one by one makes the rows that renderSmsGroups makes of the same SMS,
\* however events and reloads take turns (mergeIntoTopSmsRow, groupSmsMessages).
THEOREM LiveAlways == Spec => []LiveAsGrouped
<1>1. FeedInv => LiveAsGrouped
  BY LiveFromInv, ConstantsAssumption
<1> QED BY <1>1, FeedInvariant, PTL

=============================================================================
