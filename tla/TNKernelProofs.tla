---------------------------- MODULE TNKernelProofs -----------------------------
(***************************************************************************)
(* The scheduler keeps its lists and runs the task it should, and the      *)
(* calls of every synchronisation object keep its wait queues, whatever    *)
(* the tasks, priorities and arguments.  The first part is about the       *)
(* functions of CDLL alone: they keep rings rings.                         *)
(***************************************************************************)
EXTENDS TNObjects, FiniteSetTheorems, SequenceTheorems, WellFoundedInduction, TLAPS

-----------------------------------------------------------------------------
\* Sequences.

\* A set of natural numbers that is not empty has a least element.
LEMMA MinProperties ==
  ASSUME NEW S \in SUBSET Nat, S # {}
  PROVE  Min(S) \in S /\ \A y \in S : Min(S) <= y
<1>1. PICK x \in S : \A y \in S : ~(<<y, x>> \in OpToRel(<, Nat))
  BY WFMin, NatLessThanWellFounded
<1>2. ASSUME NEW y \in S
      PROVE  x <= y
  <2>1. y < x => <<y, x>> \in OpToRel(<, Nat)
    BY DEF OpToRel
  <2>2. ~(y < x)
    BY <1>1, <2>1, Zenon
  <2>3. QED
    BY <2>2
<1>3. QED
  BY <1>2 DEF Min

\* Induction: a set that has 0, and with each number the next one, has them all.
LEMMA SetInduction ==
  ASSUME NEW S, 0 \in S, \A n \in Nat : n \in S => n + 1 \in S
  PROVE  Nat \subseteq S
<1> DEFINE T == Nat \ S
<1> SUFFICES ASSUME T # {}
             PROVE  FALSE
  OBVIOUS
<1>1. Min(T) \in T /\ \A y \in T : Min(T) <= y
  BY MinProperties
<1>2. PICK x \in T : \A y \in T : x <= y
  BY <1>1
<1>3. x \in Nat /\ x # 0 /\ x \notin S
  BY <1>2
<1>4. x - 1 \in Nat /\ x - 1 \notin T
  BY <1>2, <1>3
<1>5. x - 1 \in S /\ (x - 1) + 1 = x
  BY <1>3, <1>4
<1>6. QED
  BY <1>3, <1>4, <1>5

\* Following a function from b, again and again.
Iterates(f, b, g, n) == g = [i \in 0 .. n |-> IF i = 0 THEN b ELSE f[g[i - 1]]]

LEMMA IterateAgree ==
  ASSUME NEW f, NEW b, NEW g, NEW h, NEW m \in Nat, NEW n \in Nat,
         Iterates(f, b, g, m), Iterates(f, b, h, n)
  PROVE  \A i \in Nat : i <= m /\ i <= n => g[i] = h[i]
<1> DEFINE S == {i \in Nat : i <= m /\ i <= n => g[i] = h[i]}
<1>1. 0 \in S
  BY DEF Iterates
<1>2. ASSUME NEW i \in Nat, i \in S
      PROVE  i + 1 \in S
  <2> SUFFICES ASSUME i + 1 <= m, i + 1 <= n
               PROVE  g[i + 1] = h[i + 1]
    OBVIOUS
  <2>1. g[i] = h[i] /\ i + 1 \in 0 .. m /\ i + 1 \in 0 .. n /\ (i + 1) - 1 = i /\ i + 1 # 0
    BY <1>2
  <2>2. g[i + 1] = f[g[i]] /\ h[i + 1] = f[h[i]]
    BY <2>1 DEF Iterates
  <2>3. QED
    BY <2>1, <2>2
<1> HIDE DEF S
<1>3. Nat \subseteq S
  BY <1>1, <1>2, SetInduction
<1>4. QED
  BY <1>3 DEF S

Iteration(f, b) == CHOOSE g : g = [i \in Nat |-> IF i = 0 THEN b ELSE f[g[i - 1]]]

LEMMA IterationIs ==
  ASSUME NEW f, NEW b
  PROVE  Iteration(f, b) =
           [i \in Nat |-> IF i = 0 THEN b ELSE f[Iteration(f, b)[i - 1]]]
<1> DEFINE S == {n \in Nat : \E g : Iterates(f, b, g, n)}
<1>1. 0 \in S
  <2>1. Iterates(f, b, [i \in 0 .. 0 |-> b], 0)
    BY DEF Iterates
  <2>2. QED
    BY <2>1
<1>2. ASSUME NEW n \in Nat, n \in S
      PROVE  n + 1 \in S
  <2>1. PICK g : Iterates(f, b, g, n)
    BY <1>2
  <2> DEFINE h == [i \in 0 .. n + 1 |-> IF i <= n THEN g[i] ELSE f[g[n]]]
  <2>2. ASSUME NEW i \in 0 .. n + 1
        PROVE  h[i] = IF i = 0 THEN b ELSE f[h[i - 1]]
    <3>1. CASE i = 0
      BY <2>1, <3>1 DEF Iterates
    <3>2. CASE i \in 1 .. n
      <4>1. h[i] = g[i] /\ h[i - 1] = g[i - 1] /\ i \in 0 .. n /\ i # 0
        BY <3>2
      <4>2. QED
        BY <2>1, <4>1 DEF Iterates
    <3>3. CASE i = n + 1
      BY <3>3
    <3>4. QED
      BY <3>1, <3>2, <3>3
  <2>3. h = [i \in 0 .. n + 1 |-> h[i]]
    OBVIOUS
  <2> HIDE DEF h
  <2>4. Iterates(f, b, h, n + 1)
    BY <2>2, <2>3 DEF Iterates
  <2>5. QED
    BY <2>4
<1> HIDE DEF S
<1>3. Nat \subseteq S
  BY <1>1, <1>2, SetInduction
<1> DEFINE H(n) == CHOOSE g : Iterates(f, b, g, n)
           G == [n \in Nat |-> H(n)[n]]
<1>4. ASSUME NEW n \in Nat
      PROVE  Iterates(f, b, H(n), n)
  BY <1>3 DEF S
<1>5. ASSUME NEW n \in Nat
      PROVE  G[n] = IF n = 0 THEN b ELSE f[G[n - 1]]
  <2>1. Iterates(f, b, H(n), n) /\ G[n] = H(n)[n]
    BY <1>4
  <2>2. CASE n = 0
    <3> HIDE DEF H
    <3>1. QED
      BY <2>1, <2>2 DEF Iterates
  <2>3. CASE n # 0
    <3>1. n - 1 \in Nat /\ Iterates(f, b, H(n - 1), n - 1) /\ G[n - 1] = H(n - 1)[n - 1]
      BY <1>4, <2>3
    <3> HIDE DEF H, G
    <3>2. H(n)[n - 1] = H(n - 1)[n - 1]
      <4>1. n - 1 <= n - 1 /\ n - 1 <= n
        BY <3>1
      <4>2. QED
        BY <2>1, <3>1, <4>1, IterateAgree
    <3>3. H(n)[n] = f[H(n)[n - 1]]
      BY <2>1, <2>3 DEF Iterates
    <3>4. QED
      BY <2>1, <2>3, <3>1, <3>2, <3>3
  <2>4. QED
    BY <2>2, <2>3
<1>6. G = [n \in Nat |-> G[n]]
  OBVIOUS
<1> HIDE DEF G
<1>7. G = [n \in Nat |-> IF n = 0 THEN b ELSE f[G[n - 1]]]
  BY <1>5, <1>6
<1>8. QED
  BY <1>7, Zenon DEF Iteration

\* RemoveFirst yields a sequence over the same set.
LEMMA RemoveFirstType ==
  ASSUME NEW S, NEW s \in Seq(S), NEW e
  PROVE  RemoveFirst(s, e) \in Seq(S)
<1> DEFINE I == {i \in 1 .. Len(s) : s[i] = e}
           m == SelectInSeq(s, LAMBDA v : v = e)
<1>1. CASE \E i \in 1 .. Len(s) : s[i] = e
  <2>1. I \in SUBSET Nat /\ I # {}
    BY <1>1
  <2>2. m = Min(I)
    BY <2>1 DEF SelectInSeq
  <2>3. m \in 1 .. Len(s)
    BY <2>1, <2>2, MinProperties
  <2>4. RemoveFirst(s, e) = SubSeq(s, 1, m - 1) \o SubSeq(s, m + 1, Len(s))
    BY <1>1 DEF RemoveFirst, RemoveAt
  <2> HIDE DEF m
  <2>5. SubSeq(s, 1, m - 1) \in Seq(S) /\ SubSeq(s, m + 1, Len(s)) \in Seq(S)
    BY <2>3
  <2>6. QED
    BY <2>4, <2>5, ConcatProperties
<1>2. CASE ~\E i \in 1 .. Len(s) : s[i] = e
  BY <1>2 DEF RemoveFirst
<1>3. QED
  BY <1>1, <1>2

\* A sequence without repetitions has as many entries as places.
LEMMA RangeSize ==
  ASSUME NEW S, NEW s \in Seq(S), IsInjective(s)
  PROVE  IsFiniteSet(Range(s)) /\ Cardinality(Range(s)) = Len(s)
<1> DEFINE n == Len(s)
<1>1. n \in Nat /\ DOMAIN s = 1 .. n
  OBVIOUS
<1>2. s \in [1 .. n -> Range(s)] /\ \A x \in Range(s) : \E i \in 1 .. n : s[i] = x
  BY <1>1 DEF Range
<1>3. s \in Bijection(1 .. n, Range(s))
  BY <1>1, <1>2 DEF Bijection, Injection, Surjection, IsInjective
<1>4. ExistsBijection(1 .. n, Range(s))
  BY <1>3 DEF ExistsBijection
<1>5. IsFiniteSet(1 .. n) /\ Cardinality(1 .. n) = n
  BY <1>1, FS_Interval
<1>6. QED
  BY <1>4, <1>5, FS_Bijection

\* RemoveFirst takes one occurrence out and keeps the order of the rest.
LEMMA RemoveFirstIs ==
  ASSUME NEW S, NEW s \in Seq(S), NEW e, \E i \in 1 .. Len(s) : s[i] = e
  PROVE  \E m \in 1 .. Len(s) :
           /\ s[m] = e
           /\ RemoveFirst(s, e) =
                [i \in 1 .. Len(s) - 1 |-> IF i < m THEN s[i] ELSE s[i + 1]]
<1> DEFINE I == {i \in 1 .. Len(s) : s[i] = e}
           m == SelectInSeq(s, LAMBDA v : v = e)
           r == RemoveFirst(s, e)
           n == Len(s)
<1>n. n \in Nat /\ DOMAIN s = 1 .. n
  OBVIOUS
<1>1. I \in SUBSET Nat /\ I # {}
  OBVIOUS
<1>2. m = Min(I)
  BY <1>1 DEF SelectInSeq
<1>3. m \in I
  BY <1>1, <1>2, MinProperties
<1>4. r = SubSeq(s, 1, m - 1) \o SubSeq(s, m + 1, n)
  BY DEF RemoveFirst, RemoveAt
<1>5. m \in 1 .. n /\ s[m] = e
  BY <1>3
<1> HIDE DEF m, r, n
<1>6. /\ SubSeq(s, 1, m - 1) \in Seq(S) /\ SubSeq(s, m + 1, n) \in Seq(S)
      /\ Len(SubSeq(s, 1, m - 1)) = m - 1 /\ Len(SubSeq(s, m + 1, n)) = n - m
      /\ \A i \in 1 .. m - 1 : SubSeq(s, 1, m - 1)[i] = s[i]
      /\ \A i \in 1 .. n - m : SubSeq(s, m + 1, n)[i] = s[i + m]
  <2>1. n \in Int /\ m \in Int /\ m - 1 \in Int /\ m + 1 \in Int /\ 1 \in Int
        /\ \A i \in 1 .. n : s[i] \in S
    BY <1>n, <1>5 DEF n
  <2>2. /\ \A i \in 1 .. m - 1 : s[i] \in S
        /\ \A i \in m + 1 .. n : s[i] \in S
    BY <1>n, <1>5, <2>1
  <2>3. /\ SubSeq(s, 1, m - 1) \in Seq(S)
        /\ Len(SubSeq(s, 1, m - 1)) = IF 1 <= m - 1 THEN (m - 1) - 1 + 1 ELSE 0
        /\ \A i \in 1 .. (m - 1) - 1 + 1 : SubSeq(s, 1, m - 1)[i] = s[1 + i - 1]
    BY <2>1, <2>2, SubSeqProperties
  <2>4. /\ SubSeq(s, m + 1, n) \in Seq(S)
        /\ Len(SubSeq(s, m + 1, n)) = IF m + 1 <= n THEN n - (m + 1) + 1 ELSE 0
        /\ \A i \in 1 .. n - (m + 1) + 1 : SubSeq(s, m + 1, n)[i] = s[(m + 1) + i - 1]
    BY <2>1, <2>2, SubSeqProperties
  <2>5. /\ (m - 1) - 1 + 1 = m - 1 /\ n - (m + 1) + 1 = n - m
        /\ \A i \in Int : 1 + i - 1 = i /\ (m + 1) + i - 1 = i + m
        /\ 1 <= m - 1 \/ m - 1 = 0
        /\ m + 1 <= n \/ n - m = 0
    BY <1>n, <1>5, <2>1
  <2>6. \A i \in 1 .. m - 1 : SubSeq(s, 1, m - 1)[i] = s[i]
    <3> TAKE i \in 1 .. m - 1
    <3>1. i \in 1 .. (m - 1) - 1 + 1 /\ 1 + i - 1 = i
      BY <2>1
    <3>2. QED
      BY <2>3, <3>1
  <2>7. \A i \in 1 .. n - m : SubSeq(s, m + 1, n)[i] = s[i + m]
    <3> TAKE i \in 1 .. n - m
    <3>1. i \in 1 .. n - (m + 1) + 1 /\ (m + 1) + i - 1 = i + m
      BY <2>1
    <3>2. QED
      BY <2>4, <3>1
  <2>8. QED
    BY <2>3, <2>4, <2>5, <2>6, <2>7
<1>7. /\ DOMAIN r = 1 .. n - 1
      /\ \A i \in 1 .. n - 1 : r[i] = IF i < m THEN s[i] ELSE s[i + 1]
  <2> DEFINE a == SubSeq(s, 1, m - 1)
             b == SubSeq(s, m + 1, n)
  <2>1. /\ a \in Seq(S) /\ b \in Seq(S) /\ Len(a) = m - 1 /\ Len(b) = n - m
        /\ \A i \in 1 .. m - 1 : a[i] = s[i]
        /\ \A i \in 1 .. n - m : b[i] = s[i + m]
    BY <1>6
  <2>2. r = a \o b
    BY <1>4
  <2> HIDE DEF a, b
  <2>3. /\ Len(a \o b) = (m - 1) + (n - m) /\ a \o b \in Seq(S)
        /\ \A i \in 1 .. (m - 1) + (n - m) :
              (a \o b)[i] = IF i <= m - 1 THEN a[i] ELSE b[i - (m - 1)]
    <3>1. /\ Len(a \o b) = Len(a) + Len(b) /\ a \o b \in Seq(S)
          /\ \A i \in 1 .. Len(a) + Len(b) :
                (a \o b)[i] = IF i <= Len(a) THEN a[i] ELSE b[i - Len(a)]
      BY <2>1, ConcatProperties
    <3>2. QED
      BY <2>1, <3>1
  <2>4. ASSUME NEW i \in 1 .. n - 1
        PROVE  r[i] = IF i < m THEN s[i] ELSE s[i + 1]
    <3>1. CASE i < m
      BY <1>n, <1>5, <2>1, <2>2, <2>3, <3>1
    <3>2. CASE ~(i < m)
      <4>1. i - (m - 1) \in 1 .. n - m /\ (i - (m - 1)) + m = i + 1
        BY <1>n, <1>5, <3>2
      <4>2. i \in 1 .. (m - 1) + (n - m) /\ ~(i <= m - 1)
        BY <1>n, <1>5, <3>2
      <4>3. (a \o b)[i] = b[i - (m - 1)]
        BY ONLY <2>3, <4>2
      <4>4. b[i - (m - 1)] = s[i + 1]
        BY <2>1, <4>1
      <4>5. QED
        BY <2>2, <3>2, <4>3, <4>4
    <3>3. QED
      BY <3>1, <3>2
  <2>5. QED
    BY <1>n, <1>5, <2>2, <2>3, <2>4
<1>8. r = [i \in 1 .. n - 1 |-> IF i < m THEN s[i] ELSE s[i + 1]]
  <2> DEFINE u == [i \in 1 .. n - 1 |-> IF i < m THEN s[i] ELSE s[i + 1]]
  <2>1. r \in Seq(S)
    <3>1. SubSeq(s, 1, m - 1) \in Seq(S) /\ SubSeq(s, m + 1, n) \in Seq(S)
      BY <1>6
    <3> HIDE DEF u
    <3>2. QED
      BY <1>4, <3>1, ConcatProperties
  <2>2. DOMAIN u = 1 .. n - 1 /\ \A i \in 1 .. n - 1 : u[i] = r[i]
    BY <1>7
  <2>3. QED
    BY <1>7, <2>1, <2>2
<1>9. QED
  BY <1>5, <1>8 DEF r, n

\* Of a sequence without repetitions it leaves the other entries.
LEMMA RemoveFirstEntries ==
  ASSUME NEW S, NEW s \in Seq(S), NEW e, IsInjective(s)
  PROVE  /\ IsInjective(RemoveFirst(s, e))
         /\ Range(RemoveFirst(s, e)) = Range(s) \ {e}
<1> DEFINE r == RemoveFirst(s, e)
           n == Len(s)
<1>n. n \in Nat /\ DOMAIN s = 1 .. n
  OBVIOUS
<1>1. CASE \E i \in 1 .. Len(s) : s[i] = e
  <2>1. PICK m \in 1 .. n :
          /\ s[m] = e
          /\ r = [i \in 1 .. n - 1 |-> IF i < m THEN s[i] ELSE s[i + 1]]
    BY <1>1, RemoveFirstIs
  <2>2. /\ DOMAIN r = 1 .. n - 1
        /\ \A i \in 1 .. n - 1 : r[i] = IF i < m THEN s[i] ELSE s[i + 1]
    BY <2>1
  <2> HIDE DEF r, n
  <2>3. \A i, j \in 1 .. n : s[i] = s[j] => i = j
    BY <1>n DEF IsInjective
  <2>4. IsInjective(r)
    <3> SUFFICES ASSUME NEW i \in 1 .. n - 1, NEW j \in 1 .. n - 1, r[i] = r[j]
                 PROVE  i = j
      BY <2>2 DEF IsInjective
    <3>1. i \in 1 .. n /\ i + 1 \in 1 .. n /\ j \in 1 .. n /\ j + 1 \in 1 .. n
      BY <1>n
    <3>2. QED
      BY <1>n, <2>1, <2>2, <2>3, <3>1
  <2>5. Range(r) = Range(s) \ {e}
    <3>1. ASSUME NEW i \in 1 .. n - 1
          PROVE  \E j \in 1 .. n : r[i] = s[j] /\ s[j] # e
      <4>1. i \in 1 .. n /\ i + 1 \in 1 .. n
        BY <1>n
      <4>2. r[i] = IF i < m THEN s[i] ELSE s[i + 1]
        BY <2>2
      <4>3. CASE i < m
        BY <2>1, <2>3, <4>1, <4>2, <4>3
      <4>4. CASE ~(i < m)
        <5>1. i + 1 # m
          BY <1>n, <2>1, <4>4
        <5>2. QED
          BY <2>1, <2>3, <4>1, <4>2, <4>4, <5>1
      <4>5. QED
        BY <4>3, <4>4
    <3>2. ASSUME NEW j \in 1 .. n, s[j] # e
          PROVE  \E i \in 1 .. n - 1 : r[i] = s[j]
      <4>1. CASE j < m
        <5>1. j \in 1 .. n - 1
          BY <1>n, <2>1, <4>1
        <5>2. QED
          BY <2>2, <4>1, <5>1
      <4>2. CASE ~(j < m)
        <5>1. j # m
          BY <2>1, <3>2
        <5>2. j - 1 \in 1 .. n - 1 /\ ~(j - 1 < m) /\ (j - 1) + 1 = j
          BY <1>n, <2>1, <4>2, <5>1
        <5>3. r[j - 1] = s[j]
          BY <2>2, <5>2
        <5>4. QED
          BY <5>2, <5>3
      <4>3. QED
        BY <4>1, <4>2
    <3>3. /\ Range(r) = {r[i] : i \in 1 .. n - 1}
          /\ Range(s) = {s[j] : j \in 1 .. n}
      BY <1>n, <2>2 DEF Range, n
    <3>4. ASSUME NEW v \in Range(r)
          PROVE  v \in Range(s) \ {e}
      <4>1. PICK i \in 1 .. n - 1 : v = r[i]
        BY <3>3
      <4>2. PICK j \in 1 .. n : r[i] = s[j] /\ s[j] # e
        BY <3>1
      <4>3. QED
        BY <3>3, <4>1, <4>2
    <3>5. ASSUME NEW v \in Range(s) \ {e}
          PROVE  v \in Range(r)
      <4>1. PICK j \in 1 .. n : v = s[j] /\ s[j] # e
        BY <3>3
      <4>2. PICK i \in 1 .. n - 1 : r[i] = s[j]
        BY <3>2, <4>1
      <4>3. QED
        BY <3>3, <4>1, <4>2
    <3>6. QED
      BY <3>4, <3>5
  <2>6. QED
    BY <2>4, <2>5 DEF r
<1>2. CASE ~\E i \in 1 .. Len(s) : s[i] = e
  BY <1>n, <1>2 DEF RemoveFirst, Range
<1>3. QED
  BY <1>1, <1>2

\* Append adds an entry that is not there.
LEMMA AppendEntries ==
  ASSUME NEW S, NEW s \in Seq(S), NEW e \in S, IsInjective(s), e \notin Range(s)
  PROVE  IsInjective(Append(s, e)) /\ Range(Append(s, e)) = Range(s) \cup {e}
<1> DEFINE r == Append(s, e)
           n == Len(s)
<1>1. /\ n \in Nat /\ DOMAIN s = 1 .. n /\ DOMAIN r = 1 .. n + 1
      /\ r[n + 1] = e /\ \A i \in 1 .. n : r[i] = s[i]
  OBVIOUS
<1>2. \A i \in 1 .. n : s[i] # e
  BY <1>1 DEF Range
<1> HIDE DEF r, n
<1>3. \A i \in 1 .. n + 1 : i \in 1 .. n \/ i = n + 1
  BY <1>1
<1>4. IsInjective(r)
  BY <1>1, <1>2, <1>3 DEF IsInjective
<1>5. Range(r) = Range(s) \cup {e}
  <2>1. \A i \in 1 .. n : i \in 1 .. n + 1
    BY <1>1
  <2>2. n + 1 \in 1 .. n + 1
    BY <1>1
  <2>3. QED
    BY <1>1, <1>3, <2>1, <2>2 DEF Range
<1>6. QED
  BY <1>4, <1>5 DEF r

-----------------------------------------------------------------------------
\* Rings.

Links(N) == [next : [N -> N], prev : [N -> N]]

\* A queue s of distinct entries hangs on head h.
Holds(q, h, s, N) ==
  /\ h \in N /\ s \in Seq(N \ {h}) /\ IsInjective(s) /\ IsRing(q, h, s)

\* Whatever a function does to other nodes leaves a ring alone.
LEMMA RingFrame ==
  ASSUME NEW N, NEW q, NEW r, NEW h, NEW s, Holds(q, h, s, N),
         r.next[h] = q.next[h], r.prev[h] = q.prev[h],
         \A i \in DOMAIN s : r.next[s[i]] = q.next[s[i]] /\ r.prev[s[i]] = q.prev[s[i]]
  PROVE  Holds(r, h, s, N)
BY DEF Holds, IsRing, RingNode

\* The nodes of a ring: all of its own, the head apart from the entries.
LEMMA RingNodes ==
  ASSUME NEW N, NEW q \in Links(N), NEW h, NEW s, Holds(q, h, s, N)
  PROVE  /\ h \in N /\ Len(s) \in Nat /\ DOMAIN s = 1 .. Len(s)
         /\ \A i \in 1 .. Len(s) : s[i] \in N \ {h}
         /\ \A i \in Int : RingNode(h, s, i) \in N
         /\ \A i, j \in 0 .. Len(s) :
               RingNode(h, s, i) = RingNode(h, s, j) => i = j
         /\ RingNode(h, s, 0) = h /\ RingNode(h, s, Len(s) + 1) = h
         /\ q.prev[h] = RingNode(h, s, Len(s))
         /\ q.next[h] = RingNode(h, s, 1)
<1>1. h \in N /\ Len(s) \in Nat /\ DOMAIN s = 1 .. Len(s)
      /\ \A i \in 1 .. Len(s) : s[i] \in N \ {h}
  BY DEF Holds
<1>2. \A i \in Int : RingNode(h, s, i) \in N
  BY <1>1 DEF RingNode
<1>3. \A i, j \in 0 .. Len(s) : RingNode(h, s, i) = RingNode(h, s, j) => i = j
  BY <1>1 DEF RingNode, Holds, IsInjective
<1>4. RingNode(h, s, 0) = h /\ RingNode(h, s, Len(s) + 1) = h
  BY <1>1 DEF RingNode
<1>5. q.prev[h] = RingNode(h, s, Len(s)) /\ q.next[h] = RingNode(h, s, 1)
  BY <1>1, <1>4, 0 \in 0 .. Len(s), Len(s) \in 0 .. Len(s) DEF Holds, IsRing
<1>6. QED
  BY <1>1, <1>2, <1>3, <1>4, <1>5

\* queue_add_tail appends an entry that is not queued.
LEMMA RingAddTail ==
  ASSUME NEW N, NEW q \in Links(N), NEW h, NEW s, Holds(q, h, s, N),
         NEW e \in N \ {h}, \A i \in DOMAIN s : s[i] # e
  PROVE  /\ queue_add_tail(q, h, e) \in Links(N)
         /\ Holds(queue_add_tail(q, h, e), h, Append(s, e), N)
<1> DEFINE n == Len(s)
           t == Append(s, e)
           r == queue_add_tail(q, h, e)
           last == RingNode(h, s, n)
<1>0. /\ h \in N /\ n \in Nat /\ DOMAIN s = 1 .. n
      /\ \A i \in 1 .. n : s[i] \in N \ {h}
      /\ \A i \in Int : RingNode(h, s, i) \in N
      /\ \A i, j \in 0 .. n : RingNode(h, s, i) = RingNode(h, s, j) => i = j
      /\ RingNode(h, s, 0) = h /\ RingNode(h, s, n + 1) = h
      /\ q.prev[h] = last
  BY RingNodes
<1>n. n \in Nat /\ 0 \in 0 .. n /\ n \in 0 .. n
  BY RingNodes
<1>1. q.next \in [N -> N] /\ q.prev \in [N -> N] /\ last \in N
  BY <1>0 DEF Links
<1>2. /\ r.next = [q.next EXCEPT ![e] = h, ![last] = e]
      /\ r.prev = [q.prev EXCEPT ![e] = last, ![h] = e]
      /\ r \in Links(N)
  BY <1>0, <1>1 DEF queue_add_tail, Links
<1>3. /\ t \in Seq(N \ {h}) /\ Len(t) = n + 1 /\ DOMAIN t = 1 .. n + 1
      /\ t[n + 1] = e /\ \A i \in 1 .. n : t[i] = s[i]
  BY <1>0 DEF Holds
<1>4. IsInjective(t)
  BY <1>0, <1>3 DEF IsInjective, Holds
<1>5. /\ \A i \in 0 .. n : RingNode(h, t, i) = RingNode(h, s, i)
      /\ RingNode(h, t, n + 1) = e /\ RingNode(h, t, n + 2) = h
  BY <1>0, <1>3 DEF RingNode
<1>6. \A i \in 0 .. n : RingNode(h, s, i) # e
  BY <1>0 DEF RingNode
<1>7. ASSUME NEW i \in 0 .. n + 1
      PROVE  /\ r.next[RingNode(h, t, i)] = RingNode(h, t, i + 1)
             /\ r.prev[RingNode(h, t, i + 1)] = RingNode(h, t, i)
  <2>1. CASE i < n
    <3>1. i \in 0 .. n /\ i + 1 \in 0 .. n /\ i + 1 # 0 /\ i # n
      BY <1>n, <2>1
    <3>2. /\ q.next[RingNode(h, s, i)] = RingNode(h, s, i + 1)
          /\ q.prev[RingNode(h, s, i + 1)] = RingNode(h, s, i)
      BY <3>1 DEF Holds, IsRing
    <3>3. RingNode(h, s, i) # last /\ RingNode(h, s, i + 1) # h
      BY <1>0, <1>n, <3>1
    <3>4. RingNode(h, s, i) \in N /\ RingNode(h, s, i + 1) \in N
      BY <1>0, <3>1
    <3>5. QED
      BY <1>1, <1>2, <1>5, <1>6, <3>1, <3>2, <3>3, <3>4
  <2>2. CASE i = n
    <3>1. RingNode(h, t, i) = last /\ RingNode(h, t, i + 1) = e
      BY <1>n, <1>5, <2>2
    <3>2. QED
      BY <1>0, <1>1, <1>2, <3>1
  <2>3. CASE i = n + 1
    <3>1. RingNode(h, t, i) = e /\ RingNode(h, t, i + 1) = h
      BY <1>n, <1>5, <2>3
    <3>2. last # e
      BY <1>n, <1>6
    <3>3. QED
      BY <1>0, <1>1, <1>2, <3>1, <3>2
  <2>4. QED
    BY <1>n, <2>1, <2>2, <2>3
<1>8. QED
  BY <1>0, <1>2, <1>3, <1>4, <1>7 DEF Holds, IsRing

\* queue_add_head puts an entry that is not queued before all others.
LEMMA RingAddHead ==
  ASSUME NEW N, NEW q \in Links(N), NEW h, NEW s, Holds(q, h, s, N),
         NEW e \in N \ {h}, \A i \in DOMAIN s : s[i] # e
  PROVE  LET t == [i \in 1 .. Len(s) + 1 |-> IF i = 1 THEN e ELSE s[i - 1]]
         IN /\ queue_add_head(q, h, e) \in Links(N)
            /\ Holds(queue_add_head(q, h, e), h, t, N)
<1> DEFINE n == Len(s)
           t == [i \in 1 .. n + 1 |-> IF i = 1 THEN e ELSE s[i - 1]]
           r == queue_add_head(q, h, e)
           first == RingNode(h, s, 1)
<1>0. /\ h \in N /\ n \in Nat /\ DOMAIN s = 1 .. n
      /\ \A i \in 1 .. n : s[i] \in N \ {h}
      /\ \A i \in Int : RingNode(h, s, i) \in N
      /\ \A i, j \in 0 .. n : RingNode(h, s, i) = RingNode(h, s, j) => i = j
      /\ RingNode(h, s, 0) = h /\ RingNode(h, s, n + 1) = h
      /\ q.next[h] = first
  BY RingNodes
<1>n. n \in Nat /\ 0 \in 0 .. n /\ 1 \in Int
  BY RingNodes
<1>1. q.next \in [N -> N] /\ q.prev \in [N -> N] /\ first \in N
  BY <1>0 DEF Links
<1>2. /\ r.next = [q.next EXCEPT ![e] = first, ![h] = e]
      /\ r.prev = [q.prev EXCEPT ![e] = h, ![first] = e]
      /\ r \in Links(N)
  BY <1>0, <1>1 DEF queue_add_head, Links
<1>3. /\ DOMAIN t = 1 .. n + 1 /\ t[1] = e
      /\ \A i \in 2 .. n + 1 : i - 1 \in 1 .. n /\ t[i] = s[i - 1]
  BY <1>n
<1>4. t \in Seq(N \ {h}) /\ Len(t) = n + 1
  <2>1. \A i \in 1 .. n + 1 : t[i] \in N \ {h}
    BY <1>n, <1>0, <1>3
  <2>2. t \in [1 .. n + 1 -> N \ {h}] /\ n + 1 \in Nat
    BY <1>n, <2>1
  <2>3. QED
    BY <2>2
<1>5. IsInjective(t)
  BY <1>0, <1>3 DEF IsInjective, Holds
<1>6. /\ RingNode(h, t, 0) = h /\ RingNode(h, t, 1) = e
      /\ \A i \in 1 .. n + 1 : RingNode(h, t, i + 1) = RingNode(h, s, i)
  <2> HIDE DEF t
  <2>1. QED
    BY <1>n, <1>0, <1>3 DEF RingNode
<1>7. \A i \in 0 .. n + 1 : RingNode(h, s, i) # e
  BY <1>0 DEF RingNode
<1>8. ASSUME NEW i \in 0 .. n + 1
      PROVE  /\ r.next[RingNode(h, t, i)] = RingNode(h, t, i + 1)
             /\ r.prev[RingNode(h, t, i + 1)] = RingNode(h, t, i)
  <2>1. CASE i = 0
    BY <1>0, <1>1, <1>2, <1>6, <2>1, 1 \in 0 .. n + 1, <1>7
  <2>2. CASE i = 1
    <3>1. RingNode(h, t, i) = e /\ RingNode(h, t, i + 1) = first
      BY <1>n, <1>6, <2>2
    <3>2. QED
      BY <1>0, <1>1, <1>2, <3>1
  <2>3. CASE i \in 2 .. n + 1
    <3> DEFINE x == RingNode(h, s, i - 1)
               y == RingNode(h, s, i)
    <3>1. /\ i - 1 \in 0 .. n /\ i - 1 # 0 /\ (i - 1) + 1 = i /\ i - 1 \in 1 .. n + 1
          /\ i \in 1 .. n + 1 /\ i \in Int /\ i - 1 \in Int /\ 1 \in 0 .. n /\ i # 1
      BY <1>n, <2>3
    <3>2. RingNode(h, t, i) = x /\ RingNode(h, t, i + 1) = y
      BY <1>6, <3>1
    <3>3. q.next[x] = y /\ q.prev[y] = x
      BY <3>1 DEF Holds, IsRing
    <3>4. x \in N /\ y \in N /\ x # h /\ x # e /\ y # e
      <4>1. x # h
        BY <1>0, <1>n, <3>1
      <4>2. QED
        BY <1>0, <1>7, <3>1, <4>1, i \in 0 .. n + 1, i - 1 \in 0 .. n + 1
    <3>5. y # first
      <4>1. CASE i \in 0 .. n
        BY <1>0, <3>1, <4>1
      <4>2. CASE i = n + 1
        BY <1>0, <1>n, <3>1, <4>2
      <4>3. QED
        BY <1>n, <4>1, <4>2
    <3>6. QED
      BY <1>1, <1>2, <3>2, <3>3, <3>4, <3>5
  <2>4. QED
    BY <1>n, <2>1, <2>2, <2>3
<1>9. QED
  BY <1>0, <1>2, <1>4, <1>5, <1>8 DEF Holds, IsRing

\* queue_remove_entry takes a queued entry out and closes the ring.
LEMMA RingRemoveEntry ==
  ASSUME NEW N, NEW q \in Links(N), NEW h, NEW s, Holds(q, h, s, N),
         NEW m \in DOMAIN s
  PROVE  LET t == [i \in 1 .. Len(s) - 1 |-> IF i < m THEN s[i] ELSE s[i + 1]]
         IN /\ queue_remove_entry(q, s[m]) \in Links(N)
            /\ Holds(queue_remove_entry(q, s[m]), h, t, N)
            /\ q.prev[s[m]] = RingNode(h, s, m - 1)
            /\ q.next[s[m]] = RingNode(h, s, m + 1)
<1> DEFINE n == Len(s)
           t == [i \in 1 .. n - 1 |-> IF i < m THEN s[i] ELSE s[i + 1]]
           r == queue_remove_entry(q, s[m])
           before == RingNode(h, s, m - 1)
           after == RingNode(h, s, m + 1)
<1>0. /\ h \in N /\ DOMAIN s = 1 .. n
      /\ \A i \in 1 .. n : s[i] \in N \ {h}
      /\ \A i \in Int : RingNode(h, s, i) \in N
      /\ \A i, j \in 0 .. n : RingNode(h, s, i) = RingNode(h, s, j) => i = j
      /\ RingNode(h, s, 0) = h /\ RingNode(h, s, n + 1) = h
  BY RingNodes
<1>n. n \in Nat /\ m \in 1 .. n /\ m - 1 \in 0 .. n /\ m \in 0 .. n /\ n - 1 \in Nat
  BY RingNodes
<1>1. q.next \in [N -> N] /\ q.prev \in [N -> N] /\ before \in N /\ after \in N
  BY <1>0, <1>n DEF Links
<1>2. q.prev[s[m]] = before /\ q.next[s[m]] = after
  <2>1. RingNode(h, s, m) = s[m] /\ (m - 1) + 1 = m
    BY <1>n, <1>0 DEF RingNode
  <2>2. QED
    BY <1>n, <2>1 DEF Holds, IsRing
<1>3. /\ r.next = [q.next EXCEPT ![before] = after]
      /\ r.prev = [q.prev EXCEPT ![after] = before]
      /\ r \in Links(N)
  BY <1>0, <1>1, <1>2 DEF queue_remove_entry, Links
\* Position i of t is position i or i + 1 of s.
<1> DEFINE at(i) == IF i < m THEN i ELSE i + 1
<1>4. /\ DOMAIN t = 1 .. n - 1
      /\ \A i \in 1 .. n - 1 : t[i] = s[at(i)]
  OBVIOUS
<1>a. \A i \in 1 .. n - 1 : at(i) \in 1 .. n
  BY <1>n
<1>b. \A i, j \in 0 .. n : at(i) = at(j) => i = j
  BY <1>n
<1>5. t \in Seq(N \ {h}) /\ Len(t) = n - 1
  <2>1. \A i \in 1 .. n - 1 : t[i] \in N \ {h}
    <3> HIDE DEF at, t
    <3>1. QED
      BY <1>0, <1>4, <1>a
  <2>2. t \in [1 .. n - 1 -> N \ {h}]
    BY <2>1
  <2>3. QED
    BY <1>n, <2>2
<1>6. IsInjective(t)
  <2>1. \A i, j \in 1 .. n : s[i] = s[j] => i = j
    BY <1>0 DEF Holds, IsInjective
  <2>2. SUFFICES ASSUME NEW i \in 1 .. n - 1, NEW j \in 1 .. n - 1, t[i] = t[j]
                 PROVE  i = j
    BY <1>4 DEF IsInjective
  <2>3. at(i) = at(j)
    <3> HIDE DEF at, t
    <3>1. QED
      BY <1>4, <1>a, <2>1, <2>2
  <2>4. i \in 0 .. n /\ j \in 0 .. n
    BY <1>n
  <2>5. QED
    BY <1>b, <2>3, <2>4
<1>7. \A i \in 0 .. n : RingNode(h, t, i) = RingNode(h, s, at(i))
  <2> SUFFICES ASSUME NEW i \in 0 .. n
               PROVE  RingNode(h, t, i) = RingNode(h, s, at(i))
    OBVIOUS
  <2>1. CASE i \in 1 .. n - 1
    <3> HIDE DEF at, t
    <3>1. QED
      BY <1>0, <1>4, <1>a, <2>1 DEF RingNode
  <2>2. CASE i = 0
    <3>1. at(i) = 0 /\ i \notin 1 .. n - 1
      BY <1>n, <2>2
    <3> HIDE DEF at, t
    <3>2. QED
      BY <1>0, <1>4, <3>1 DEF RingNode
  <2>3. CASE i = n
    <3>1. at(i) = n + 1 /\ i \notin 1 .. n - 1
      BY <1>n, <2>3
    <3> HIDE DEF at, t
    <3>2. QED
      BY <1>0, <1>4, <3>1 DEF RingNode
  <2>4. QED
    BY <1>n, <2>1, <2>2, <2>3
<1>8. ASSUME NEW i \in 0 .. n - 1
      PROVE  /\ r.next[RingNode(h, t, i)] = RingNode(h, t, i + 1)
             /\ r.prev[RingNode(h, t, i + 1)] = RingNode(h, t, i)
  <2>0. i \in 0 .. n /\ i + 1 \in 0 .. n /\ i \in Int
    BY <1>n
  <2>1. CASE i = m - 1
    <3>0. at(i) = m - 1 /\ at(i + 1) = m + 1
      BY <1>n, <2>1
    <3>1. RingNode(h, t, i) = before /\ RingNode(h, t, i + 1) = after
      <4> HIDE DEF at, t
      <4>1. QED
        BY <1>7, <2>0, <3>0
    <3>2. QED
      BY <1>1, <1>3, <3>1
  <2>2. CASE i # m - 1
    <3>1. /\ at(i) \in 0 .. n /\ at(i + 1) = at(i) + 1 /\ at(i) # m - 1
          /\ at(i) + 1 # m + 1 /\ at(i) \in Int /\ at(i) + 1 # 0
          /\ (at(i) = n => at(i) + 1 = n + 1 /\ m + 1 \in 0 .. n)
          /\ (at(i) # n => at(i) + 1 \in 0 .. n)
          /\ (m + 1 \notin 0 .. n => m + 1 = n + 1)
          /\ m + 1 # 0 /\ 0 \in 0 .. n /\ m + 1 \in Int /\ at(i) + 1 \in Int
      BY <1>n, <2>0, <2>2
    <3> DEFINE u == at(i)
               x == RingNode(h, s, u)
               y == RingNode(h, s, u + 1)
    <3> HIDE DEF at, t
    <3>2. RingNode(h, t, i) = x /\ RingNode(h, t, i + 1) = y
      BY <1>7, <2>0, <3>1
    <3>3. q.next[x] = y /\ q.prev[y] = x
      BY <3>1 DEF Holds, IsRing
    <3>4. x # before /\ x \in N /\ y \in N
      BY <1>0, <1>n, <3>1
    <3>5. y # after
      BY <1>0, <3>1
    <3>6. QED
      BY <1>1, <1>3, <3>2, <3>3, <3>4, <3>5
  <2>3. QED
    BY <2>1, <2>2
<1>9. QED
  BY <1>0, <1>n, <1>2, <1>3, <1>5, <1>6, <1>8 DEF Holds, IsRing

\* A loop over a queue visits its entries in order.
LEMMA RingVisits ==
  ASSUME NEW N, IsFiniteSet(N), NEW q \in Links(N), NEW h, NEW s, Holds(q, h, s, N)
  PROVE  Entries(q, h) = s
<1> DEFINE Visit == CHOOSE g : g = [i \in Nat |-> IF i = 0 THEN h ELSE q.next[g[i - 1]]]
           End == CHOOSE n \in 1 .. Cardinality(DOMAIN q.next) :
                    Visit[n] = h /\ \A i \in 1 .. n - 1 : Visit[i] # h
           m == Len(s) + 1
<1>1. Entries(q, h) = [i \in 1 .. End - 1 |-> Visit[i]]
  BY DEF Entries
<1>2. Visit = [i \in Nat |-> IF i = 0 THEN h ELSE q.next[Visit[i - 1]]]
  <2>1. Visit = Iteration(q.next, h)
    BY DEF Iteration
  <2> HIDE DEF Visit
  <2>2. QED
    BY <2>1, IterationIs
<1> HIDE DEF Visit
<1>3. /\ h \in N /\ Len(s) \in Nat /\ DOMAIN s = 1 .. Len(s)
      /\ \A i \in 1 .. Len(s) : s[i] \in N \ {h}
      /\ RingNode(h, s, 0) = h /\ RingNode(h, s, m) = h
      /\ \A i \in 0 .. Len(s) : q.next[RingNode(h, s, i)] = RingNode(h, s, i + 1)
      /\ \A i \in 1 .. Len(s) : RingNode(h, s, i) = s[i]
  <2>1. \A i \in 1 .. Len(s) : RingNode(h, s, i) = s[i]
    BY RingNodes DEF RingNode
  <2>2. QED
    BY <2>1, RingNodes DEF Holds, IsRing
<1>4. \A i \in 0 .. m : Visit[i] = RingNode(h, s, i)
  <2> DEFINE S == {i \in Nat : i <= m => Visit[i] = RingNode(h, s, i)}
  <2>1. 0 \in S
    BY <1>2, <1>3
  <2>2. ASSUME NEW i \in Nat, i \in S
        PROVE  i + 1 \in S
    <3> SUFFICES ASSUME i + 1 <= m
                 PROVE  Visit[i + 1] = RingNode(h, s, i + 1)
      OBVIOUS
    <3>1. i \in 0 .. Len(s) /\ Visit[i] = RingNode(h, s, i)
      BY <1>3, <2>2
    <3>2. Visit[i + 1] = q.next[Visit[i]]
      <4>1. i + 1 \in Nat /\ i + 1 # 0 /\ (i + 1) - 1 = i
        OBVIOUS
      <4>2. QED
        BY <1>2, <4>1
    <3>3. QED
      BY <1>3, <3>1, <3>2
  <2> HIDE DEF S
  <2>3. Nat \subseteq S
    BY <2>1, <2>2, SetInduction
  <2>4. QED
    BY <1>3, <2>3 DEF S
<1>5. m \in 1 .. Cardinality(DOMAIN q.next)
  <2>1. Range(s) \subseteq N \ {h} /\ s \in Seq(N \ {h}) /\ IsInjective(s) /\ DOMAIN q.next = N
    BY DEF Holds, Links, Range
  <2>2. IsFiniteSet(Range(s)) /\ Cardinality(Range(s)) = Len(s)
    BY <2>1, RangeSize
  <2>3. IsFiniteSet(Range(s) \cup {h}) /\ Cardinality(Range(s) \cup {h}) = Len(s) + 1
    BY <2>1, <2>2, FS_AddElement
  <2>4. Range(s) \cup {h} \subseteq N
    BY <1>3, <2>1
  <2>5. Cardinality(Range(s) \cup {h}) <= Cardinality(N) /\ Cardinality(N) \in Nat
    BY <2>4, FS_Subset, FS_CardinalityType
  <2>6. QED
    BY <1>3, <2>1, <2>3, <2>5
<1>6. End = m
  <2>1. Visit[m] = h /\ \A i \in 1 .. m - 1 : Visit[i] # h
    BY <1>3, <1>4
  <2>2. ASSUME NEW n \in 1 .. Cardinality(DOMAIN q.next), Visit[n] = h,
               \A i \in 1 .. n - 1 : Visit[i] # h
        PROVE  n = m
    <3>1. ~(n \in 1 .. m - 1)
      BY <2>1, <2>2
    <3>2. ~(m \in 1 .. n - 1)
      BY <2>1, <2>2
    <3>3. QED
      BY <1>3, <1>5, <3>1, <3>2
  <2>3. QED
    BY <1>5, <2>1, <2>2
<1> HIDE DEF End
<1>7. Entries(q, h) = [i \in 1 .. Len(s) |-> s[i]]
  <2>1. End - 1 = Len(s)
    BY <1>3, <1>6
  <2>2. \A i \in 1 .. Len(s) : Visit[i] = s[i]
    BY <1>3, <1>4
  <2>3. QED
    BY <1>1, <2>1, <2>2
<1>8. s = [i \in 1 .. Len(s) |-> s[i]]
  BY DEF Holds
<1>9. QED
  BY <1>7, <1>8

-----------------------------------------------------------------------------
\* The queue goes on without e, and the neighbours of e were on it.
RemovedFrom(q, h, s, e, N) ==
  /\ queue_remove_entry(q, e) \in Links(N)
  /\ Holds(queue_remove_entry(q, e), h, RemoveFirst(s, e), N)
  /\ Range(RemoveFirst(s, e)) = Range(s) \ {e}
  /\ q.next[e] \in Range(s) \cup {h} /\ q.prev[e] \in Range(s) \cup {h}

LEMMA RingRemoveFirst ==
  ASSUME NEW N, NEW q \in Links(N), NEW h, NEW s, Holds(q, h, s, N), NEW e \in Range(s)
  PROVE  RemovedFrom(q, h, s, e, N)
<1>1. /\ s \in Seq(N \ {h}) /\ IsInjective(s) /\ Len(s) \in Nat
      /\ DOMAIN s = 1 .. Len(s)
  BY DEF Holds
<1>2. \E i \in 1 .. Len(s) : s[i] = e
  BY <1>1 DEF Range
<1>3. PICK m \in 1 .. Len(s) :
        /\ s[m] = e
        /\ RemoveFirst(s, e) =
             [i \in 1 .. Len(s) - 1 |-> IF i < m THEN s[i] ELSE s[i + 1]]
  BY <1>1, <1>2, RemoveFirstIs
<1>t. m \in DOMAIN s
  BY <1>1
<1>4. /\ queue_remove_entry(q, e) \in Links(N)
      /\ Holds(queue_remove_entry(q, e), h, RemoveFirst(s, e), N)
      /\ q.prev[e] = RingNode(h, s, m - 1) /\ q.next[e] = RingNode(h, s, m + 1)
  BY <1>t, <1>3, RingRemoveEntry
<1>5. \A i \in Int : RingNode(h, s, i) \in Range(s) \cup {h}
  BY <1>1 DEF RingNode, Range
<1>6. q.next[e] \in Range(s) \cup {h} /\ q.prev[e] \in Range(s) \cup {h}
  BY <1>3, <1>4, <1>5
<1>7. QED
  BY <1>1, <1>4, <1>6, RemoveFirstEntries DEF RemovedFrom

\* queue_remove_head takes out the first entry.
LEMMA RingRemoveHead ==
  ASSUME NEW N, NEW q \in Links(N), NEW h, NEW s, Holds(q, h, s, N), s # <<>>
  PROVE  /\ q.next[h] = s[1] /\ s[1] \in Range(s)
         /\ queue_remove_head(q, h) = queue_remove_entry(q, s[1])
         /\ RemoveFirst(s, s[1]) = Tail(s)
<1>1. /\ s \in Seq(N \ {h}) /\ IsInjective(s) /\ Len(s) \in Nat \ {0}
      /\ DOMAIN s = 1 .. Len(s) /\ 1 \in 1 .. Len(s)
  BY DEF Holds
<1>2. q.next[h] = s[1] /\ q.prev[s[1]] = h
  <2>1. /\ RingNode(h, s, 0) = h /\ RingNode(h, s, 1) = s[1]
        /\ 0 \in 0 .. Len(s) /\ 0 + 1 = 1
    BY <1>1 DEF RingNode
  <2>2. q.next[RingNode(h, s, 0)] = RingNode(h, s, 0 + 1)
        /\ q.prev[RingNode(h, s, 0 + 1)] = RingNode(h, s, 0)
    BY <2>1 DEF Holds, IsRing
  <2>3. QED
    BY <2>1, <2>2
<1>3. queue_remove_head(q, h) = queue_remove_entry(q, s[1])
  BY <1>2 DEF queue_remove_head, queue_remove_entry
<1>4. PICK m \in 1 .. Len(s) :
        /\ s[m] = s[1]
        /\ RemoveFirst(s, s[1]) =
             [i \in 1 .. Len(s) - 1 |-> IF i < m THEN s[i] ELSE s[i + 1]]
  BY <1>1, RemoveFirstIs
<1>5. m = 1
  BY <1>1, <1>4 DEF IsInjective
<1>6. RemoveFirst(s, s[1]) = [i \in 1 .. Len(s) - 1 |-> s[i + 1]]
  BY <1>1, <1>4, <1>5
<1>7. Tail(s) = [i \in 1 .. Len(s) - 1 |-> s[i + 1]]
  <2> DEFINE u == [i \in 1 .. Len(s) - 1 |-> s[i + 1]]
             v == Tail(s)
  <2>1. /\ v \in Seq(N \ {h}) /\ Len(v) = Len(s) - 1
        /\ \A i \in 1 .. Len(v) : v[i] = s[i + 1]
    BY <1>1, HeadTailProperties
  <2> HIDE DEF v
  <2>2. DOMAIN v = 1 .. Len(s) - 1 /\ v = [i \in DOMAIN v |-> v[i]]
    BY <2>1
  <2>3. QED
    BY <2>1, <2>2 DEF v
<1>8. QED
  BY <1>1, <1>2, <1>3, <1>6, <1>7 DEF Range

\* The links determine the order of a queue.
LEMMA RingUnique ==
  ASSUME NEW N, NEW q, NEW h, NEW s, Holds(q, h, s, N),
         NEW u \in SetToSeqs(Range(s)), IsRing(q, h, u)
  PROVE  u = s
<1> DEFINE n == Len(s)
<1>1. s \in Seq(N \ {h}) /\ n \in Nat /\ DOMAIN s = 1 .. n /\ IsInjective(s)
  BY DEF Holds
<1>2. u \in [1 .. n -> Range(s)]
  BY <1>1, RangeSize DEF SetToSeqs
<1>3. Len(u) = n /\ DOMAIN u = 1 .. n
  BY <1>1, <1>2
<1> HIDE DEF n
<1>4. \A i \in 1 .. n : u[i] = s[i]
  <2> DEFINE D == {i \in 1 .. n : u[i] # s[i]}
             m == Min(D)
  <2> SUFFICES ASSUME D # {}
               PROVE  FALSE
    OBVIOUS
  <2>0. D \in SUBSET Nat
    BY <1>1
  <2>1. m \in D /\ \A i \in D : m <= i
    BY <2>0, MinProperties
  <2> HIDE DEF m
  <2>2. m \in 1 .. n /\ m - 1 \in 0 .. n /\ (m - 1) + 1 = m /\ m - 1 \notin D
    BY <1>1, <2>1
  <2>3. RingNode(h, s, m - 1) = RingNode(h, u, m - 1)
    BY <1>1, <1>3, <2>2 DEF RingNode
  <2>4. q.next[RingNode(h, s, m - 1)] = s[m] /\ q.next[RingNode(h, u, m - 1)] = u[m]
    BY <1>1, <1>3, <2>2 DEF Holds, IsRing, RingNode, n
  <2>5. QED
    BY <2>1, <2>3, <2>4
<1>5. QED
  BY <1>1, <1>2, <1>4

\* The set of entries on a queue, in whatever order: what the users of a queue
\* need to know of it.
Queue(q, h, E, N) == \E s : Holds(q, h, s, N) /\ Range(s) = E

\* The links two heaps agree on.
Agree(q, r, X) == \A x \in X : r.next[x] = q.next[x] /\ r.prev[x] = q.prev[x]

\* The first entry of a queue that is not empty.
First(q, h) == q.next[h]

LEMMA QueueFrame ==
  ASSUME NEW N, NEW q, NEW r, NEW h, NEW E, Queue(q, h, E, N),
         Agree(q, r, E \cup {h})
  PROVE  Queue(r, h, E, N)
<1>1. PICK s : Holds(q, h, s, N) /\ Range(s) = E
  BY DEF Queue
<1>2. \A i \in DOMAIN s : s[i] \in E
  BY <1>1 DEF Range
<1>3. Holds(r, h, s, N)
  BY <1>1, <1>2, RingFrame DEF Agree
<1>4. QED
  BY <1>1, <1>3 DEF Queue

\* Both ends of a queue, and the neighbours of its entries, are on it.
LEMMA QueueEnds ==
  ASSUME NEW N, NEW q \in Links(N), NEW h, NEW E, Queue(q, h, E, N)
  PROVE  /\ h \in N /\ E \subseteq N \ {h}
         /\ is_queue_empty(q, h) <=> E = {}
         /\ E # {} => q.next[h] \in E /\ q.prev[h] \in E
         /\ E = {} => q.next[h] = h /\ q.prev[h] = h
<1>1. PICK s : Holds(q, h, s, N) /\ Range(s) = E
  BY DEF Queue
<1> DEFINE n == Len(s)
<1>2. /\ h \in N /\ n \in Nat /\ DOMAIN s = 1 .. n
      /\ \A i \in 1 .. n : s[i] \in N \ {h}
      /\ q.prev[h] = RingNode(h, s, n) /\ q.next[h] = RingNode(h, s, 1)
  BY <1>1, RingNodes
<1>3. E \subseteq N \ {h}
  BY <1>1, <1>2 DEF Range
<1>4. CASE n = 0
  <2>1. DOMAIN s = {}
    BY <1>2, <1>4
  <2>2. E = {} /\ q.prev[h] = h /\ q.next[h] = h
    BY <1>1, <1>2, <2>1 DEF Range, RingNode
  <2>3. QED
    BY <1>2, <2>2 DEF is_queue_empty
<1>5. CASE n # 0
  <2>1. 1 \in DOMAIN s /\ n \in DOMAIN s
    BY <1>2, <1>5
  <2>2. q.prev[h] = s[n] /\ q.next[h] = s[1]
    BY <1>2, <2>1 DEF RingNode
  <2>3. s[1] \in E /\ s[n] \in E
    BY <1>1, <2>1 DEF Range
  <2>4. QED
    BY <1>2, <1>3, <2>2, <2>3 DEF is_queue_empty
<1>6. QED
  BY <1>4, <1>5

LEMMA QueueAddTail ==
  ASSUME NEW N, NEW q \in Links(N), NEW h, NEW E, Queue(q, h, E, N),
         NEW e \in N \ {h}, e \notin E
  PROVE  /\ queue_add_tail(q, h, e) \in Links(N)
         /\ Queue(queue_add_tail(q, h, e), h, E \cup {e}, N)
         /\ Agree(q, queue_add_tail(q, h, e), N \ (E \cup {h, e}))
<1>1. PICK s : Holds(q, h, s, N) /\ Range(s) = E
  BY DEF Queue
<1>2. \A i \in DOMAIN s : s[i] # e
  BY <1>1 DEF Range
<1>3. /\ queue_add_tail(q, h, e) \in Links(N)
      /\ Holds(queue_add_tail(q, h, e), h, Append(s, e), N)
  BY <1>1, <1>2, RingAddTail
<1>4. Range(Append(s, e)) = E \cup {e}
  BY <1>1, AppendEntries DEF Holds
<1>5. q.prev[h] \in E \cup {h} /\ h \in N
  BY QueueEnds
<1>6. Agree(q, queue_add_tail(q, h, e), N \ (E \cup {h, e}))
  BY <1>5 DEF Agree, queue_add_tail, Links
<1>7. QED
  BY <1>3, <1>4, <1>6 DEF Queue

\* The entry becomes the first one only of an empty queue.
LEMMA QueueAddFirst ==
  ASSUME NEW N, NEW q \in Links(N), NEW h, NEW E, Queue(q, h, E, N),
         NEW e \in N \ {h}, e \notin E
  PROVE  First(queue_add_tail(q, h, e), h) = IF E = {} THEN e ELSE First(q, h)
<1>1. /\ E \subseteq N \ {h} /\ h \in N
      /\ E # {} => q.prev[h] \in E
      /\ E = {} => q.prev[h] = h
  BY QueueEnds
<1>2. QED
  BY <1>1 DEF queue_add_tail, Links, First

LEMMA QueueAddHead ==
  ASSUME NEW N, NEW q \in Links(N), NEW h, NEW E, Queue(q, h, E, N),
         NEW e \in N \ {h}, e \notin E
  PROVE  /\ queue_add_head(q, h, e) \in Links(N)
         /\ Queue(queue_add_head(q, h, e), h, E \cup {e}, N)
         /\ Agree(q, queue_add_head(q, h, e), N \ (E \cup {h, e}))
<1>1. PICK s : Holds(q, h, s, N) /\ Range(s) = E
  BY DEF Queue
<1> DEFINE t == [i \in 1 .. Len(s) + 1 |-> IF i = 1 THEN e ELSE s[i - 1]]
<1>2. \A i \in DOMAIN s : s[i] # e
  BY <1>1 DEF Range
<1>3. /\ queue_add_head(q, h, e) \in Links(N)
      /\ Holds(queue_add_head(q, h, e), h, t, N)
  BY <1>1, <1>2, RingAddHead
<1>4. Range(t) = E \cup {e}
  <2>1. Len(s) \in Nat /\ DOMAIN s = 1 .. Len(s)
    BY <1>1 DEF Holds
  <2>2. DOMAIN t = 1 .. Len(s) + 1 /\ t[1] = e /\ 1 \in 1 .. Len(s) + 1
    BY <2>1
  <2>3. \A i \in 1 .. Len(s) + 1 : i # 1 => i - 1 \in 1 .. Len(s) /\ t[i] = s[i - 1]
    BY <2>1
  <2>4. \A i \in 1 .. Len(s) : i + 1 \in 1 .. Len(s) + 1 /\ t[i + 1] = s[i]
    BY <2>1
  <2>5. Range(t) = {t[i] : i \in 1 .. Len(s) + 1} /\ E = {s[i] : i \in 1 .. Len(s)}
    BY <1>1, <2>1 DEF Range
  <2> HIDE DEF t
  <2>6. Range(t) \subseteq E \cup {e}
    BY <2>2, <2>3, <2>5
  <2>7. E \cup {e} \subseteq Range(t)
    BY <2>2, <2>4, <2>5
  <2>8. QED
    BY <2>6, <2>7
<1>5. q.next[h] \in E \cup {h} /\ h \in N
  BY QueueEnds
<1>6. Agree(q, queue_add_head(q, h, e), N \ (E \cup {h, e}))
  BY <1>5 DEF Agree, queue_add_head, Links
<1>7. QED
  BY <1>3, <1>4, <1>6 DEF Queue

LEMMA QueueRemoveEntry ==
  ASSUME NEW N, NEW q \in Links(N), NEW h, NEW E, Queue(q, h, E, N), NEW e \in E
  PROVE  /\ queue_remove_entry(q, e) \in Links(N)
         /\ Queue(queue_remove_entry(q, e), h, E \ {e}, N)
         /\ Agree(q, queue_remove_entry(q, e), N \ (E \cup {h}))
         /\ q.next[e] \in E \cup {h} /\ q.prev[e] \in E \cup {h}
<1>1. PICK s : Holds(q, h, s, N) /\ Range(s) = E
  BY DEF Queue
<1>2. RemovedFrom(q, h, s, e, N)
  BY <1>1, RingRemoveFirst
<1>3. Agree(q, queue_remove_entry(q, e), N \ (E \cup {h}))
  BY <1>1, <1>2 DEF Agree, queue_remove_entry, Links, RemovedFrom
<1>4. QED
  BY <1>1, <1>2, <1>3 DEF Queue, RemovedFrom

\* It leaves the first entry of the queue, unless that is the one taken out.
LEMMA QueueRemoveFirst ==
  ASSUME NEW N, NEW q \in Links(N), NEW h, NEW E, Queue(q, h, E, N), NEW e \in E,
         First(q, h) # e
  PROVE  First(queue_remove_entry(q, e), h) = First(q, h)
<1>1. PICK s : Holds(q, h, s, N) /\ Range(s) = E
  BY DEF Queue
<1>2. PICK m \in DOMAIN s : s[m] = e
  BY <1>1 DEF Range
<1> DEFINE n == Len(s)
<1>n. n \in Nat /\ DOMAIN s = 1 .. n /\ m \in 1 .. n
  BY <1>1 DEF Holds
<1>3. m - 1 \in 0 .. n /\ (m - 1) + 1 = m /\ RingNode(h, s, m) = e
  BY <1>2, <1>n DEF RingNode
<1>4. q.next[q.prev[e]] = e
  BY <1>1, <1>3 DEF Holds, IsRing
<1>5. h \in N
  BY <1>1 DEF Holds
<1>6. QED
  BY <1>4, <1>5 DEF queue_remove_entry, Links, First

\* queue_remove_tail is queue_remove_entry of the last entry.
LEMMA QueueRemoveTail ==
  ASSUME NEW N, NEW q \in Links(N), NEW h, NEW E, Queue(q, h, E, N), E # {}
  PROVE  queue_remove_tail(q, h) = queue_remove_entry(q, q.prev[h])
<1>1. PICK s : Holds(q, h, s, N) /\ Range(s) = E
  BY DEF Queue
<1> DEFINE n == Len(s)
<1>2. n \in Nat /\ n \in 0 .. n /\ DOMAIN s = 1 .. n
  BY <1>1 DEF Holds
<1>3. q.prev[h] = RingNode(h, s, n) /\ RingNode(h, s, n + 1) = h
  BY <1>1, RingNodes
<1>4. q.next[q.prev[h]] = h
  BY <1>1, <1>2, <1>3 DEF Holds, IsRing
<1>5. QED
  BY <1>4 DEF queue_remove_tail, queue_remove_entry

LEMMA QueueReset ==
  ASSUME NEW N, NEW q \in Links(N), NEW e \in N
  PROVE  /\ queue_reset(q, e) \in Links(N)
         /\ Agree(q, queue_reset(q, e), N \ {e})
BY DEF Links, Agree, queue_reset

\* The order of a queue of E is one of the sequences SetToSeqs(E) lists.
LEMMA QueueOrder ==
  ASSUME NEW N, NEW q, NEW h, NEW E, Queue(q, h, E, N)
  PROVE  \E s \in SetToSeqs(E) : IsRing(q, h, s)
<1>1. PICK s : Holds(q, h, s, N) /\ Range(s) = E
  BY DEF Queue
<1> DEFINE n == Len(s)
<1>2. s \in Seq(N \ {h}) /\ n \in Nat /\ DOMAIN s = 1 .. n
  BY <1>1 DEF Holds
<1>3. s \in [1 .. n -> E]
  BY <1>1, <1>2 DEF Range
<1>4. \A i, j \in 1 .. n : s[i] = s[j] => i = j
  BY <1>1, <1>2 DEF Holds, IsInjective
<1>5. Cardinality(E) = n
  BY <1>1, RangeSize DEF Holds
<1>6. s \in SetToSeqs(E)
  BY <1>3, <1>4, <1>5 DEF SetToSeqs
<1>7. QED
  BY <1>1, <1>6 DEF Holds

-----------------------------------------------------------------------------
\* The lists of the scheduler.

Slices == ~(TSliceArgs \subseteq {NO_TIME_SLICE})

At(s, R, p) == {t \in R : s.priority[t] = p}

\* The ready lists hold the tasks of R and the bitmap says which are not empty.
ListsOK(s, R) ==
  \A p \in Priority : /\ Queue(s.q, p, At(s, R, p), Node)
                      /\ p \in s.tn_ready_to_run_bmp <=> At(s, R, p) # {}

\* Task t is in R and no task of R has a higher priority.
Top(s, R, t) == t \in R /\ \A u \in R : s.priority[t] <= s.priority[u]

\* Without time slices tn_next_task_to_run is the first of its list.
FirstInList(s) ==
  LET t == s.tn_next_task_to_run IN Slices \/ s.q.next[s.priority[t]] = t

Sched(s, R) == /\ R \subseteq Task
               /\ ListsOK(s, R)
               /\ Top(s, R, s.tn_next_task_to_run)
               /\ FirstInList(s)

-----------------------------------------------------------------------------
\* The nodes of the heap of links.

LEMMA Nodes ==
  /\ Task \subseteq Node /\ Priority \subseteq Node /\ Priority \subseteq Nat
  /\ \A t \in Task : t \notin Priority
  /\ \A n \in Node : n # NULL
  /\ tn_timer_task \in Task /\ tn_idle_task \in Task /\ AppTask \subseteq Task
  /\ tn_timer_task \notin AppTask /\ tn_idle_task \notin AppTask
  /\ tn_timer_task # tn_idle_task
BY TaskAssumption, PriorityAssumption DEF Task, Node, Priority

\* The fields ListsOK and Top depend on.
SameLists(s, r) == /\ r.q = s.q /\ r.priority = s.priority
                   /\ r.tn_ready_to_run_bmp = s.tn_ready_to_run_bmp
                   /\ r.tn_next_task_to_run = s.tn_next_task_to_run

LEMMA SchedFrame ==
  ASSUME NEW s, NEW r, NEW R, Sched(s, R), SameLists(s, r)
  PROVE  Sched(r, R)
BY DEF Sched, SameLists, ListsOK, At, Top, FirstInList

\* The nodes no ready list of the tasks of R reaches: those of the other tasks
\* and of the wait queues.
OffLists(R) == Node \ (R \cup Priority)

\* What find_next_task_to_run finds.
LEMMA FindNext ==
  ASSUME NEW s \in KernelState, NEW R \in SUBSET Task, R # {}, ListsOK(s, R)
  PROVE  LET t == s.q.next[ffs_asm(s.tn_ready_to_run_bmp)]
         IN Top(s, R, t) /\ s.q.next[s.priority[t]] = t
<1> DEFINE bmp == s.tn_ready_to_run_bmp
           p == Min(bmp)
           t == s.q.next[p]
<1>1. bmp \in SUBSET Nat /\ bmp \subseteq Priority /\ s.priority \in [Task -> Priority]
  BY Nodes DEF KernelState
<1>2. \A u \in R : s.priority[u] \in bmp
  BY <1>1 DEF ListsOK, At
<1>3. p \in bmp /\ \A y \in bmp : p <= y
  BY <1>1, <1>2, MinProperties
<1>4. p \in Priority /\ Queue(s.q, p, At(s, R, p), Node) /\ At(s, R, p) # {}
  BY <1>1, <1>3 DEF ListsOK
<1>5. t \in At(s, R, p)
  <2>1. s.q \in Links(Node)
    BY DEF KernelState, Links
  <2>2. QED
    BY <1>4, <2>1, QueueEnds
<1>6. t \in R /\ s.priority[t] = p
  BY <1>5 DEF At
<1>7. QED
  BY <1>2, <1>3, <1>6 DEF Top, ffs_asm

-----------------------------------------------------------------------------
\* The functions that move a task.  They leave the other fields alone.
OtherFields(s, r) ==
  /\ r.tn_wait_timeout_list = s.tn_wait_timeout_list
  /\ r.tn_tslice_ticks = s.tn_tslice_ticks
  /\ r.created = s.created /\ r.task_wait_reason = s.task_wait_reason
  /\ r.task_wait_rc = s.task_wait_rc /\ r.tick_count = s.tick_count
  /\ r.tslice_count = s.tslice_count /\ r.wakeup_count = s.wakeup_count
  /\ r.activate_count = s.activate_count

\* Removing t from the ready lists: rings and bitmap, before anything is said
\* of the next task to run.
LEMMA RemoveFromList ==
  ASSUME NEW s \in KernelState, NEW R \in SUBSET Task, ListsOK(s, R), NEW t \in R,
         NEW r, r.q = queue_remove_entry(s.q, t), r.priority = s.priority,
         r.tn_ready_to_run_bmp = IF is_queue_empty(r.q, s.priority[t])
                                 THEN s.tn_ready_to_run_bmp \ {s.priority[t]}
                                 ELSE s.tn_ready_to_run_bmp
  PROVE  /\ ListsOK(r, R \ {t}) /\ r.q \in Links(Node)
         /\ \A p \in Priority : s.q.next[p] # t => r.q.next[p] = s.q.next[p]
         /\ Agree(s.q, r.q, OffLists(R))
<1> DEFINE pri == s.priority[t]
<1>1. s.q \in Links(Node) /\ s.priority \in [Task -> Priority] /\ pri \in Priority
  BY DEF KernelState, Links
<1>2. t \in At(s, R, pri) /\ Queue(s.q, pri, At(s, R, pri), Node)
  BY <1>1 DEF At, ListsOK
<1>3. /\ r.q \in Links(Node)
      /\ Queue(r.q, pri, At(s, R, pri) \ {t}, Node)
      /\ Agree(s.q, r.q, Node \ (At(s, R, pri) \cup {pri}))
      /\ s.q.next[pri] # t => r.q.next[pri] = s.q.next[pri]
  <2> DEFINE E == At(s, R, pri)
             l == s.q
  <2>1. l \in Links(Node) /\ Queue(l, pri, E, Node) /\ t \in E
    BY <1>1, <1>2
  <2> HIDE DEF E, l, pri
  <2>2. /\ queue_remove_entry(l, t) \in Links(Node)
        /\ Queue(queue_remove_entry(l, t), pri, E \ {t}, Node)
        /\ Agree(l, queue_remove_entry(l, t), Node \ (E \cup {pri}))
        /\ First(l, pri) # t => First(queue_remove_entry(l, t), pri) = First(l, pri)
    BY <2>1, QueueRemoveEntry, QueueRemoveFirst
  <2>3. QED
    BY <2>2 DEF E, l, First
<1>4. ASSUME NEW p \in Priority, p # pri
      PROVE  /\ Queue(r.q, p, At(s, R, p), Node)
             /\ r.q.next[p] = s.q.next[p]
  <2>1. Queue(s.q, p, At(s, R, p), Node)
    BY DEF ListsOK
  <2>2. At(s, R, p) \cup {p} \subseteq Node \ (At(s, R, pri) \cup {pri})
    BY <1>1, <1>4, Nodes DEF At
  <2>3. Agree(s.q, r.q, At(s, R, p) \cup {p})
    BY <1>3, <2>2 DEF Agree
  <2>4. QED
    BY <2>1, <2>3, QueueFrame DEF Agree
<1>5. ASSUME NEW p \in Priority
      PROVE  At(r, R \ {t}, p) = IF p = pri THEN At(s, R, p) \ {t} ELSE At(s, R, p)
  BY <1>1 DEF At
<1>6. is_queue_empty(r.q, pri) <=> At(r, R \ {t}, pri) = {}
  <2> DEFINE E == At(s, R, pri) \ {t}
             l == r.q
  <2>1. l \in Links(Node) /\ Queue(l, pri, E, Node)
    BY <1>3
  <2> HIDE DEF E, l, pri
  <2>2. is_queue_empty(l, pri) <=> E = {}
    BY <2>1, QueueEnds
  <2>3. QED
    BY <1>1, <1>5, <2>2 DEF E, l
<1>7. ASSUME NEW p \in Priority
      PROVE  /\ Queue(r.q, p, At(r, R \ {t}, p), Node)
             /\ p \in r.tn_ready_to_run_bmp <=> At(r, R \ {t}, p) # {}
  <2>1. CASE p = pri
    BY <1>2, <1>3, <1>5, <1>6, <2>1 DEF ListsOK
  <2>2. CASE p # pri
    BY <1>4, <1>5, <2>2 DEF ListsOK
  <2>3. QED
    BY <2>1, <2>2
<1>8. Agree(s.q, r.q, OffLists(R))
  BY <1>1, <1>3 DEF Agree, OffLists, At
<1>9. QED
  BY <1>3, <1>4, <1>7, <1>8 DEF ListsOK

\* What adding t does to the first entries of the ready lists.
FirstsAfterAdd(s, r, R, t, pri) ==
  /\ \A p \in Priority : At(s, R, p) # {} => r.q.next[p] = s.q.next[p]
  /\ At(s, R, pri) = {} => r.q.next[pri] = t

LEMMA AddToList ==
  ASSUME NEW s \in KernelState, NEW R \in SUBSET Task, ListsOK(s, R),
         NEW t \in Task \ R, NEW pri \in Priority, NEW r,
         r.q = queue_add_tail(s.q, pri, t),
         r.priority = [s.priority EXCEPT ![t] = pri],
         r.tn_ready_to_run_bmp = s.tn_ready_to_run_bmp \cup {pri}
  PROVE  /\ ListsOK(r, R \cup {t}) /\ r.q \in Links(Node)
         /\ FirstsAfterAdd(s, r, R, t, pri)
         /\ Agree(s.q, r.q, OffLists(R \cup {t}))
<1>1. s.q \in Links(Node) /\ s.priority \in [Task -> Priority]
  BY DEF KernelState, Links
<1>2. Queue(s.q, pri, At(s, R, pri), Node) /\ t \notin At(s, R, pri)
      /\ t \in Node \ {pri}
  BY <1>1, Nodes DEF At, ListsOK
<1>3. /\ r.q \in Links(Node)
      /\ Queue(r.q, pri, At(s, R, pri) \cup {t}, Node)
      /\ Agree(s.q, r.q, Node \ (At(s, R, pri) \cup {pri, t}))
      /\ r.q.next[pri] = IF At(s, R, pri) = {} THEN t ELSE s.q.next[pri]
  <2> DEFINE E == At(s, R, pri)
             l == s.q
  <2>1. /\ l \in Links(Node) /\ Queue(l, pri, E, Node)
        /\ t \notin E /\ t \in Node \ {pri}
    BY <1>1, <1>2
  <2> HIDE DEF E, l
  <2>2. /\ queue_add_tail(l, pri, t) \in Links(Node)
        /\ Queue(queue_add_tail(l, pri, t), pri, E \cup {t}, Node)
        /\ Agree(l, queue_add_tail(l, pri, t), Node \ (E \cup {pri, t}))
    BY <2>1, QueueAddTail
  <2>3. First(queue_add_tail(l, pri, t), pri) = IF E = {} THEN t ELSE First(l, pri)
    BY <2>1, QueueAddFirst
  <2>4. QED
    BY <2>2, <2>3 DEF E, l, First
<1>4. ASSUME NEW p \in Priority, p # pri
      PROVE  /\ Queue(r.q, p, At(s, R, p), Node)
             /\ r.q.next[p] = s.q.next[p]
  <2>1. Queue(s.q, p, At(s, R, p), Node)
    BY DEF ListsOK
  <2>2. At(s, R, p) \cup {p} \subseteq Node \ (At(s, R, pri) \cup {pri, t})
    <3>1. At(s, R, p) \subseteq Task /\ At(s, R, p) \cap At(s, R, pri) = {}
          /\ At(s, R, pri) \subseteq Task /\ t \notin At(s, R, p)
      BY <1>4 DEF At
    <3>2. Task \cap Priority = {} /\ Task \cup Priority \subseteq Node
      BY Nodes
    <3>3. QED
      BY <1>4, <3>1, <3>2
  <2>3. Agree(s.q, r.q, At(s, R, p) \cup {p})
    BY <1>3, <2>2 DEF Agree
  <2>4. QED
    BY <2>1, <2>3, QueueFrame DEF Agree
<1>5. ASSUME NEW p \in Priority
      PROVE  At(r, R \cup {t}, p)
                = IF p = pri THEN At(s, R, p) \cup {t} ELSE At(s, R, p)
  BY <1>1 DEF At
<1>6. ASSUME NEW p \in Priority
      PROVE  /\ Queue(r.q, p, At(r, R \cup {t}, p), Node)
             /\ p \in r.tn_ready_to_run_bmp <=> At(r, R \cup {t}, p) # {}
  <2>1. CASE p = pri
    BY <1>3, <1>5, <2>1
  <2>2. CASE p # pri
    BY <1>4, <1>5, <2>2 DEF ListsOK
  <2>3. QED
    BY <2>1, <2>2
<1>7. Agree(s.q, r.q, OffLists(R \cup {t}))
  BY <1>1, <1>3 DEF Agree, OffLists, At
<1>8. QED
  BY <1>3, <1>4, <1>6, <1>7 DEF ListsOK, FirstsAfterAdd

\* Only tn_next_task_to_run is left to be set after RemoveFromList.
LEMMA ToNonRunnable ==
  ASSUME NEW s \in KernelState, NEW R \in SUBSET Task, Sched(s, R), NEW t \in R,
         R \ {t} # {}
  PROVE  LET r == task_to_non_runnable(s, t)
         IN /\ r \in KernelState /\ Sched(r, R \ {t})
            /\ OtherFields(s, r) /\ r.priority = s.priority /\ r.task_state = s.task_state
            /\ Slices \/ s.tn_next_task_to_run \in {t, r.tn_next_task_to_run}
            /\ Agree(s.q, r.q, OffLists(R))
<1> DEFINE r == task_to_non_runnable(s, t)
           pri == s.priority[t]
           q1 == queue_remove_entry(s.q, t)
           bmp == IF is_queue_empty(q1, pri) THEN s.tn_ready_to_run_bmp \ {pri}
                                             ELSE s.tn_ready_to_run_bmp
           s1 == [s EXCEPT !.q = q1, !.tn_ready_to_run_bmp = bmp]
           nxt == s.tn_next_task_to_run
<1>1. s1.q = q1 /\ s1.tn_ready_to_run_bmp = bmp /\ s1.priority = s.priority
      /\ s1.tn_next_task_to_run = nxt
  BY DEF KernelState
<1>2. /\ ListsOK(s1, R \ {t}) /\ q1 \in Links(Node)
      /\ \A p \in Priority : s.q.next[p] # t => q1.next[p] = s.q.next[p]
      /\ Agree(s.q, q1, OffLists(R))
  <2>1. /\ ListsOK(s, R)
        /\ s1.q = queue_remove_entry(s.q, t)
        /\ s1.tn_ready_to_run_bmp = IF is_queue_empty(s1.q, s.priority[t])
                                    THEN s.tn_ready_to_run_bmp \ {s.priority[t]}
                                    ELSE s.tn_ready_to_run_bmp
    BY <1>1 DEF Sched
  <2> HIDE DEF s1
  <2>2. /\ ListsOK(s1, R \ {t}) /\ s1.q \in Links(Node)
        /\ \A p \in Priority : s.q.next[p] # t => s1.q.next[p] = s.q.next[p]
        /\ Agree(s.q, s1.q, OffLists(R))
    BY <1>1, <2>1, RemoveFromList
  <2>3. QED
    BY <1>1, <2>2
<1>3. s1 \in KernelState
  BY <1>2 DEF KernelState, Links
<1>4. s1.priority \in [Task -> Priority] /\ nxt \in R /\ pri \in Priority
  BY <1>3 DEF KernelState, Sched, Top
<1>5. \A u \in R : s.priority[nxt] <= s.priority[u]
  BY DEF Sched, Top
<1> DEFINE found == q1.next[ffs_asm(bmp)]
\* The value the branches of the code give to tn_next_task_to_run.
<1>6. PICK n : /\ r = [s1 EXCEPT !.tn_next_task_to_run = n]
               /\ Top(s1, R \ {t}, n) /\ (Slices \/ q1.next[s.priority[n]] = n)
  <2>1. Top(s1, R \ {t}, found) /\ q1.next[s.priority[found]] = found
    <3>1. R \ {t} \in SUBSET Task
      OBVIOUS
    <3> HIDE DEF s1, q1, bmp
    <3>2. QED
      BY <1>1, <1>2, <1>3, <3>1, FindNext
  <2>2. CASE is_queue_empty(q1, pri)
    <3>1. bmp # {}
      <4> HIDE DEF s1, q1, bmp
      <4>1. PICK u \in R \ {t} : u \in At(s1, R \ {t}, s1.priority[u])
        BY DEF At
      <4>2. s1.priority[u] \in bmp
        BY <1>1, <1>2, <1>4, <4>1 DEF ListsOK
      <4>3. QED
        BY <4>2
    <3>2. r = [s1 EXCEPT !.tn_next_task_to_run = found]
      BY <2>2, <3>1 DEF task_to_non_runnable, find_next_task_to_run, KernelState
    <3>3. QED
      BY <2>1, <3>2
  <2>3. CASE ~is_queue_empty(q1, pri) /\ nxt = t
    <3>1. r = [s1 EXCEPT !.tn_next_task_to_run = q1.next[pri]]
      BY <2>3 DEF task_to_non_runnable, KernelState
    <3>2. q1.next[pri] \in At(s1, R \ {t}, pri)
      <4> DEFINE E == At(s1, R \ {t}, pri)
      <4>1. q1 \in Links(Node) /\ Queue(q1, pri, E, Node)
        BY <1>1, <1>2, <1>4 DEF ListsOK
      <4>2. ~is_queue_empty(q1, pri)
        BY <2>3
      <4> HIDE DEF q1, E, pri
      <4>3. q1.next[pri] \in E
        BY <4>1, <4>2, QueueEnds
      <4>4. QED
        BY <4>3 DEF E
    <3> DEFINE n == q1.next[pri]
    <3>3. n \in R \ {t} /\ s1.priority[n] = pri
      BY <3>2 DEF At
    <3> HIDE DEF s1, q1, n
    <3>4. Top(s1, R \ {t}, n)
      BY <1>1, <1>5, <2>3, <3>3 DEF Top
    <3>5. q1.next[s.priority[n]] = n
      BY <1>1, <3>3 DEF n
    <3>6. QED
      BY <3>1, <3>4, <3>5 DEF n
  <2>4. CASE ~is_queue_empty(q1, pri) /\ nxt # t
    <3>1. r = [s1 EXCEPT !.tn_next_task_to_run = nxt]
      BY <2>4 DEF task_to_non_runnable, KernelState
    <3>2. Top(s1, R \ {t}, nxt)
      BY <1>1, <1>4, <1>5, <2>4 DEF Top
    <3>3. Slices \/ q1.next[s.priority[nxt]] = nxt
      BY <1>1, <1>2, <1>4, <2>4 DEF Sched, FirstInList
    <3>4. QED
      BY <3>1, <3>2, <3>3
  <2>5. QED
    BY <2>2, <2>3, <2>4
<1>7. n \in R \ {t} /\ n \in Task /\ n \in Node
  BY <1>6, Nodes DEF Top
<1>8. OtherFields(s, s1) /\ s1.task_state = s.task_state
  BY DEF KernelState, OtherFields
<1> HIDE DEF r, s1, q1, bmp, found
<1>9. /\ r.q = q1 /\ r.tn_ready_to_run_bmp = bmp /\ r.tn_next_task_to_run = n
      /\ OtherFields(s, r) /\ r.priority = s.priority /\ r.task_state = s.task_state
  BY <1>1, <1>3, <1>6, <1>8 DEF KernelState, OtherFields
<1>10. r \in KernelState
  BY <1>3, <1>6, <1>7 DEF KernelState
<1>11. Sched(r, R \ {t})
  <2>1. ListsOK(r, R \ {t})
    BY <1>1, <1>2, <1>9 DEF ListsOK, At
  <2>2. QED
    BY <1>1, <1>6, <1>9, <2>1 DEF Sched, Top, FirstInList
<1>12. Slices \/ nxt \in {t, n}
  <2> SUFFICES ASSUME ~Slices, nxt # t
               PROVE  nxt = n
    OBVIOUS
  <2>1. s.priority[n] <= s.priority[nxt] /\ s.priority[nxt] <= s.priority[n]
    BY <1>1, <1>4, <1>5, <1>6, <1>7 DEF Top
  <2>2. s.priority[n] \in Priority /\ s.priority[nxt] \in Priority
    BY <1>1, <1>4, <1>7
  <2>3. s.priority[n] \in Nat /\ s.priority[nxt] \in Nat
    BY <2>2, Nodes
  <2>4. s.priority[n] = s.priority[nxt]
    BY <2>1, <2>3
  <2>5. q1.next[s.priority[nxt]] = nxt
    BY <1>2, <2>2 DEF Sched, FirstInList
  <2>6. QED
    BY <1>6, <2>4, <2>5
<1>13. QED
  BY <1>2, <1>9, <1>10, <1>11, <1>12 DEF r

LEMMA ToRunnable ==
  ASSUME NEW s \in KernelState, NEW R \in SUBSET Task, Sched(s, R),
         NEW t \in Task \ R
  PROVE  LET r == task_to_runnable(s, t)
         IN /\ r \in KernelState /\ Sched(r, R \cup {t})
            /\ OtherFields(s, r) /\ r.priority = s.priority
            /\ r.task_state = [s.task_state EXCEPT ![t] = "RUNNABLE"]
            /\ r.tn_next_task_to_run \in {t, s.tn_next_task_to_run}
            /\ Agree(s.q, r.q, OffLists(R \cup {t}))
<1> DEFINE r == task_to_runnable(s, t)
           pri == s.priority[t]
           nxt == s.tn_next_task_to_run
           n == IF pri < s.priority[nxt] THEN t ELSE nxt
           q1 == queue_add_tail(s.q, pri, t)
           bmp == s.tn_ready_to_run_bmp \cup {pri}
<1>1. /\ s.priority \in [Task -> Priority] /\ pri \in Priority
      /\ nxt \in R /\ nxt # NULL
      /\ \A u \in R : s.priority[nxt] <= s.priority[u]
  BY Nodes DEF KernelState, Sched, Top
<1>2. r = [s EXCEPT !.task_state[t] = "RUNNABLE", !.q = q1,
                    !.tn_ready_to_run_bmp = bmp, !.tn_next_task_to_run = n]
  BY <1>1 DEF task_to_runnable
<1>3. /\ r.q = q1 /\ r.tn_ready_to_run_bmp = bmp /\ r.tn_next_task_to_run = n
      /\ OtherFields(s, r) /\ r.priority = s.priority
      /\ r.task_state = [s.task_state EXCEPT ![t] = "RUNNABLE"]
  <2> HIDE DEF r, q1, bmp, n, pri
  <2>1. QED
    BY <1>2 DEF KernelState, OtherFields
<1>4. /\ ListsOK(r, R \cup {t}) /\ r.q \in Links(Node)
      /\ \A p \in Priority : At(s, R, p) # {} => r.q.next[p] = s.q.next[p]
      /\ At(s, R, pri) = {} => r.q.next[pri] = t
      /\ Agree(s.q, r.q, OffLists(R \cup {t}))
  <2>1. /\ r.q = queue_add_tail(s.q, pri, t)
        /\ r.priority = [s.priority EXCEPT ![t] = pri]
        /\ r.tn_ready_to_run_bmp = s.tn_ready_to_run_bmp \cup {pri}
        /\ ListsOK(s, R)
    BY <1>1, <1>3 DEF Sched
  <2> HIDE DEF r, pri
  <2>2. /\ ListsOK(r, R \cup {t}) /\ r.q \in Links(Node)
        /\ FirstsAfterAdd(s, r, R, t, pri)
        /\ Agree(s.q, r.q, OffLists(R \cup {t}))
    BY <1>1, <2>1, AddToList
  <2>3. QED
    BY <2>2 DEF FirstsAfterAdd
<1> HIDE DEF r, q1, bmp
<1>5. n \in R \cup {t} /\ n \in Node
  BY <1>1, Nodes
<1>6. r \in KernelState
  <2>1. q1 \in Links(Node) /\ bmp \in SUBSET Priority
    BY <1>1, <1>3, <1>4 DEF KernelState, bmp
  <2> HIDE DEF n, pri
  <2>2. QED
    BY <1>2, <1>5, <2>1 DEF KernelState, Links
<1>7. \A u \in R \cup {t} : s.priority[n] <= s.priority[u]
  <2>1. \A u \in Task : s.priority[u] \in Nat
    BY <1>1, Nodes
  <2>2. QED
    BY <1>1, <2>1
<1>8. Slices \/ r.q.next[s.priority[n]] = n
  <2>1. CASE pri < s.priority[nxt]
    <3>1. \A u \in R : s.priority[u] # pri
      <4>1. \A u \in Task : s.priority[u] \in Nat
        BY <1>1, Nodes
      <4>2. QED
        BY <1>1, <2>1, <4>1
    <3>2. At(s, R, pri) = {}
      BY <3>1 DEF At
    <3>3. QED
      BY <1>4, <2>1, <3>2
  <2>2. CASE ~(pri < s.priority[nxt])
    <3>1. s.priority[nxt] \in Priority /\ nxt \in At(s, R, s.priority[nxt])
      BY <1>1 DEF At
    <3>2. r.q.next[s.priority[nxt]] = s.q.next[s.priority[nxt]]
      BY <1>4, <3>1
    <3>3. QED
      BY <2>2, <3>2 DEF Sched, FirstInList
  <2>3. QED
    BY <2>1, <2>2
<1>9. Sched(r, R \cup {t})
  <2> HIDE DEF n
  <2>1. QED
    BY <1>3, <1>4, <1>5, <1>7, <1>8 DEF Sched, Top, FirstInList
<1>10. QED
  BY <1>3, <1>4, <1>6, <1>9 DEF r

LEMMA ChangeRunning ==
  ASSUME NEW s \in KernelState, NEW R \in SUBSET Task, Sched(s, R), NEW t \in R,
         NEW new \in Priority
  PROVE  LET r == change_running_task_priority(s, t, new)
         IN /\ r \in KernelState /\ Sched(r, R)
            /\ OtherFields(s, r) /\ r.task_state = s.task_state
            /\ r.priority = [s.priority EXCEPT ![t] = new]
            /\ Agree(s.q, r.q, OffLists(R))
<1> DEFINE r == change_running_task_priority(s, t, new)
           old == s.priority[t]
           nxt == s.tn_next_task_to_run
           q1 == queue_remove_entry(s.q, t)
           bmp == IF is_queue_empty(q1, old) THEN s.tn_ready_to_run_bmp \ {old}
                                             ELSE s.tn_ready_to_run_bmp
           s0 == [s EXCEPT !.q = q1, !.tn_ready_to_run_bmp = bmp]
           s1 == [s EXCEPT !.q = queue_add_tail(q1, new, t),
                           !.priority[t] = new,
                           !.tn_ready_to_run_bmp = bmp \cup {new}]
<1>1. /\ s.priority \in [Task -> Priority] /\ old \in Priority
      /\ nxt \in R /\ nxt \in Task /\ t \in Task
      /\ \A u \in R : s.priority[nxt] <= s.priority[u]
  BY DEF KernelState, Sched, Top
<1>n. new \in Nat /\ \A u \in Task : s.priority[u] \in Nat
  BY <1>1, Nodes
<1>2. /\ s0.q = q1 /\ s0.tn_ready_to_run_bmp = bmp /\ s0.priority = s.priority
  BY DEF KernelState
<1>3. /\ ListsOK(s0, R \ {t}) /\ q1 \in Links(Node)
      /\ \A p \in Priority : s.q.next[p] # t => q1.next[p] = s.q.next[p]
      /\ Agree(s.q, q1, OffLists(R))
  <2>1. /\ ListsOK(s, R)
        /\ s0.q = queue_remove_entry(s.q, t)
        /\ s0.tn_ready_to_run_bmp = IF is_queue_empty(s0.q, s.priority[t])
                                    THEN s.tn_ready_to_run_bmp \ {s.priority[t]}
                                    ELSE s.tn_ready_to_run_bmp
    BY <1>2 DEF Sched
  <2> HIDE DEF s0
  <2>2. /\ ListsOK(s0, R \ {t}) /\ s0.q \in Links(Node)
        /\ \A p \in Priority : s.q.next[p] # t => s0.q.next[p] = s.q.next[p]
        /\ Agree(s.q, s0.q, OffLists(R))
    BY <1>2, <2>1, RemoveFromList
  <2>3. QED
    BY <1>2, <2>2
<1>4. s0 \in KernelState
  BY <1>3 DEF KernelState, Links
<1>5. /\ s1.q = queue_add_tail(q1, new, t)
      /\ s1.priority = [s.priority EXCEPT ![t] = new]
      /\ s1.tn_ready_to_run_bmp = bmp \cup {new}
      /\ s1.tn_next_task_to_run = nxt
      /\ OtherFields(s, s1) /\ s1.task_state = s.task_state
  <2> HIDE DEF q1, bmp
  <2>1. QED
    BY DEF KernelState, OtherFields
<1>6. /\ ListsOK(s1, R) /\ s1.q \in Links(Node)
      /\ \A p \in Priority : At(s0, R \ {t}, p) # {} => s1.q.next[p] = q1.next[p]
      /\ At(s0, R \ {t}, new) = {} => s1.q.next[new] = t
      /\ Agree(q1, s1.q, OffLists(R))
  <2>1. R \ {t} \in SUBSET Task /\ t \in Task \ (R \ {t}) /\ (R \ {t}) \cup {t} = R
    BY <1>1
  <2>2. /\ s1.q = queue_add_tail(s0.q, new, t)
        /\ s1.priority = [s0.priority EXCEPT ![t] = new]
        /\ s1.tn_ready_to_run_bmp = s0.tn_ready_to_run_bmp \cup {new}
    BY <1>2, <1>5
  <2> DEFINE R0 == R \ {t}
  <2>3. ListsOK(s0, R0) /\ R0 \in SUBSET Task /\ t \in Task \ R0
    BY <1>3, <2>1
  <2> HIDE DEF s0, s1, R0
  <2>4. /\ ListsOK(s1, R0 \cup {t}) /\ s1.q \in Links(Node)
        /\ FirstsAfterAdd(s0, s1, R0, t, new)
        /\ Agree(s0.q, s1.q, OffLists(R0 \cup {t}))
    BY <1>4, <2>2, <2>3, AddToList
  <2>5. QED
    BY <1>2, <2>1, <2>4 DEF R0, FirstsAfterAdd
<1>7. s1 \in KernelState
  <2>1. s1.q \in Links(Node) /\ s1.priority \in [Task -> Priority]
        /\ s1.tn_ready_to_run_bmp \in SUBSET Priority
    <3>1. s.priority \in [Task -> Priority] /\ new \in Priority /\ bmp \subseteq Priority
      BY <1>1, <1>2, <1>4 DEF KernelState
    <3> HIDE DEF s1, bmp
    <3>2. QED
      BY <1>5, <1>6, <3>1
  <2>2. QED
    BY <1>5, <2>1 DEF KernelState, Links
\* The value the branches of the code give to tn_next_task_to_run.
<1> DEFINE found == s1.q.next[ffs_asm(s1.tn_ready_to_run_bmp)]
           n == IF nxt = t THEN IF new >= old THEN found ELSE t
                ELSE IF new < s.priority[nxt] THEN t ELSE nxt
<1>8. r = [s1 EXCEPT !.tn_next_task_to_run = n]
  <2>1. s1.priority[nxt] = IF nxt = t THEN new ELSE s.priority[nxt]
    BY <1>1, <1>5
  <2>2. s1 = [s1 EXCEPT !.tn_next_task_to_run = nxt]
    BY <1>5, <1>7 DEF KernelState
  <2>3. r = IF nxt = t THEN IF new >= old
                            THEN [s1 EXCEPT !.tn_next_task_to_run = found] ELSE s1
            ELSE IF new < s1.priority[nxt]
                 THEN [s1 EXCEPT !.tn_next_task_to_run = t] ELSE s1
    BY DEF change_running_task_priority, find_next_task_to_run
  <2> HIDE DEF s1, found, r
  <2>4. QED
    BY <2>1, <2>2, <2>3
<1> HIDE DEF r, s1, s0, q1, bmp
<1>9. Top(s1, R, found) /\ s1.q.next[s1.priority[found]] = found
  BY <1>1, <1>6, <1>7, FindNext
<1>10. Top(s1, R, n) /\ (Slices \/ s1.q.next[s1.priority[n]] = n)
  <2> HIDE DEF found
  <2>0. /\ s1.priority[t] = new
        /\ \A u \in R \ {t} : s1.priority[u] = s.priority[u]
    BY <1>1, <1>5
  <2>1. CASE nxt = t /\ new >= old
    BY <1>9, <2>1
  <2>2. CASE (nxt = t /\ ~(new >= old)) \/ (nxt # t /\ new < s.priority[nxt])
    <3>1. n = t
      BY <2>2
    <3>2. \A u \in R \ {t} : new < s.priority[u]
      <4>1. new < s.priority[nxt]
        BY <1>n, <1>1, <2>2
      <4>2. QED
        BY <1>n, <1>1, <4>1
    <3>3. Top(s1, R, t)
      BY <1>n, <2>0, <3>2 DEF Top
    <3>4. At(s0, R \ {t}, new) = {}
      BY <1>n, <1>1, <1>2, <3>2 DEF At
    <3>5. QED
      BY <1>6, <2>0, <3>1, <3>3, <3>4
  <2>3. CASE nxt # t /\ ~(new < s.priority[nxt])
    <3>1. n = nxt
      BY <2>3
    <3>2. s.priority[nxt] <= new
      BY <1>n, <1>1, <2>3
    <3>3. Top(s1, R, nxt)
      BY <1>1, <2>0, <2>3, <3>2 DEF Top
    <3>4. nxt \in At(s0, R \ {t}, s.priority[nxt]) /\ s.priority[nxt] \in Priority
      BY <1>1, <1>2, <2>3 DEF At
    <3>5. Slices \/ s1.q.next[s.priority[nxt]] = nxt
      BY <1>3, <1>6, <2>3, <3>4 DEF Sched, FirstInList
    <3>6. QED
      BY <1>1, <2>0, <2>3, <3>1, <3>3, <3>5
  <2>4. QED
    BY <2>1, <2>2, <2>3
<1> HIDE DEF n
<1>11. n \in R /\ n \in Node
  BY <1>10, Nodes DEF Top
<1>12. /\ r.q = s1.q /\ r.tn_ready_to_run_bmp = s1.tn_ready_to_run_bmp
       /\ r.tn_next_task_to_run = n /\ OtherFields(s, r)
       /\ r.priority = s1.priority /\ r.task_state = s.task_state
  BY <1>5, <1>7, <1>8 DEF KernelState, OtherFields
<1>13. r \in KernelState
  BY <1>7, <1>8, <1>11 DEF KernelState
<1>14. Sched(r, R)
  <2>1. ListsOK(r, R)
    BY <1>6, <1>12 DEF ListsOK, At
  <2>2. QED
    BY <1>10, <1>12, <2>1 DEF Sched, Top, FirstInList
<1>15. Agree(s.q, r.q, OffLists(R))
  BY <1>3, <1>6, <1>12 DEF Agree
<1>16. QED
  BY <1>5, <1>12, <1>13, <1>14, <1>15 DEF r

\* A round of round robin changes the order of one list.
LEMMA Rotate ==
  ASSUME NEW s \in KernelState, NEW R \in SUBSET Task, Sched(s, R),
         NEW pri \in Priority, Slices
  PROVE  LET r == RotateReadyList(s, pri)
         IN /\ r \in KernelState /\ Sched(r, R) /\ OtherFields(s, r)
            /\ r.task_state = s.task_state /\ r.priority = s.priority
            /\ r.tn_next_task_to_run = s.tn_next_task_to_run
            /\ Agree(s.q, r.q, OffLists(R))
<1> DEFINE r == RotateReadyList(s, pri)
           last == s.q.prev[pri]
           q1 == queue_remove_tail(s.q, pri)
           q2 == queue_add_head(q1, pri, last)
           E == At(s, R, pri)
<1>1. s.q \in Links(Node) /\ s.priority \in [Task -> Priority]
  BY DEF KernelState, Links
<1>2. Queue(s.q, pri, E, Node)
  BY DEF Sched, ListsOK
<1>3. CASE is_queue_empty(s.q, pri) \/ s.q.next[s.q.next[pri]] = pri
  BY <1>3 DEF RotateReadyList, OtherFields, Agree
<1>4. CASE ~(is_queue_empty(s.q, pri) \/ s.q.next[s.q.next[pri]] = pri)
  <2>1. r = [s EXCEPT !.q = q2]
    BY <1>4 DEF RotateReadyList
  <2>2. ~is_queue_empty(s.q, pri)
    BY <1>4
  <2> HIDE DEF r, q2
  <2>3. last \in E /\ E # {} /\ E \subseteq Node \ {pri}
    <3> DEFINE l == s.q
    <3>1. l \in Links(Node) /\ Queue(l, pri, E, Node) /\ ~is_queue_empty(l, pri)
      BY <1>1, <1>2, <2>2
    <3> HIDE DEF E, l
    <3>2. E # {} /\ l.prev[pri] \in E /\ E \subseteq Node \ {pri}
      BY <3>1, QueueEnds
    <3>3. QED
      BY <3>2 DEF l
  <2> HIDE DEF E
  <2>4. q1 = queue_remove_entry(s.q, last)
    BY <1>1, <1>2, <2>3, QueueRemoveTail
  <2> HIDE DEF q1, last
  <2>5. /\ q1 \in Links(Node) /\ Queue(q1, pri, E \ {last}, Node)
        /\ Agree(s.q, q1, Node \ (E \cup {pri}))
    BY <1>1, <1>2, <2>3, <2>4, QueueRemoveEntry
  <2>6. /\ q2 \in Links(Node) /\ Queue(q2, pri, E, Node)
        /\ Agree(q1, q2, Node \ (E \cup {pri}))
    <3> DEFINE F == E \ {last}
    <3>1. /\ Queue(q1, pri, F, Node) /\ last \in Node \ {pri} /\ last \notin F
          /\ F \cup {last} = E /\ F \cup {pri, last} = E \cup {pri}
      BY <2>3, <2>5
    <3> HIDE DEF F
    <3>2. /\ q2 \in Links(Node) /\ Queue(q2, pri, F \cup {last}, Node)
          /\ Agree(q1, q2, Node \ (F \cup {pri, last}))
      BY <2>5, <3>1, QueueAddHead DEF q2
    <3>3. QED
      BY <3>1, <3>2
  <2>7. /\ r.q = q2 /\ OtherFields(s, r) /\ r.task_state = s.task_state
        /\ r.priority = s.priority
        /\ r.tn_ready_to_run_bmp = s.tn_ready_to_run_bmp
        /\ r.tn_next_task_to_run = s.tn_next_task_to_run
    BY <2>1 DEF KernelState, OtherFields
  <2>8. r \in KernelState
    BY <2>1, <2>6 DEF KernelState, Links
  <2>9. ASSUME NEW p \in Priority
        PROVE  Queue(q2, p, At(s, R, p), Node)
    <3>1. CASE p = pri
      BY <2>6, <3>1 DEF E
    <3>2. CASE p # pri
      <4>1. Queue(s.q, p, At(s, R, p), Node)
        BY DEF Sched, ListsOK
      <4>2. At(s, R, p) \cup {p} \subseteq Node \ (E \cup {pri})
        BY <1>1, <3>2, Nodes DEF At, E
      <4>3. Agree(s.q, q2, At(s, R, p) \cup {p})
        BY <2>5, <2>6, <4>2 DEF Agree
      <4>4. QED
        BY <4>1, <4>3, QueueFrame
    <3>3. QED
      BY <3>1, <3>2
  <2>10. Sched(r, R)
    BY <2>7, <2>9 DEF Sched, ListsOK, At, Top, FirstInList
  <2>11. Agree(s.q, r.q, OffLists(R))
    BY <1>1, <2>5, <2>6, <2>7 DEF Agree, OffLists, At, E
  <2>12. QED
    BY <2>7, <2>8, <2>10, <2>11 DEF r
<1>5. QED
  BY <1>3, <1>4

-----------------------------------------------------------------------------
\* The invariant of the kernel's data.

Rdy(s) == {t \in Task : s.task_state[t] = "RUNNABLE"}

\* The application's tasks are between the two system tasks.
Levels(s) ==
  /\ s.priority[tn_timer_task] = 0
  /\ s.priority[tn_idle_task] = TN_NUM_PRIORITY - 1
  /\ \A t \in AppTask : s.priority[t] \in 1 .. TN_NUM_PRIORITY - 2

\* What the task control blocks promise about each other.
TaskOK(s) ==
  /\ s.task_state[tn_idle_task] = "RUNNABLE"
  /\ Levels(s)
  /\ \A t \in Task \ s.created : s.task_state[t] = "DORMANT"
  /\ \A t \in Task : s.tick_count[t] # TN_WAIT_INFINITE => Waiting(s, t)
  /\ Slices \/ \A p \in Priority : s.tn_tslice_ticks[p] = NO_TIME_SLICE

KernelOK(s) == s \in KernelState /\ Sched(s, Rdy(s)) /\ TaskOK(s)

Waits(s) == {t \in Task : Waiting(s, t)}

\* From s to r the tasks of T stop waiting; the others that wait keep their
\* reason and, as the wait queues do, their links.
Stops(s, r, T) ==
  /\ Waits(r) = Waits(s) \ T
  /\ \A t \in Waits(r) : r.task_wait_reason[t] = s.task_wait_reason[t]
  /\ Agree(s.q, r.q, Waits(r) \cup WaitQueue)

\* From s to r only t comes to wait.
Begins(s, r, t, reason) ==
  /\ Waits(r) = Waits(s) \cup {t}
  /\ r.task_wait_reason[t] = reason
  /\ \A u \in Waits(s) : r.task_wait_reason[u] = s.task_wait_reason[u]
  /\ Agree(s.q, r.q, Waits(s) \cup WaitQueue)

LEMMA StopsSame ==
  ASSUME NEW s, NEW r, r.q = s.q, r.task_state = s.task_state,
         r.task_wait_reason = s.task_wait_reason
  PROVE  Stops(s, r, {})
BY DEF Stops, Waits, Waiting, Agree

LEMMA StopsTrans ==
  ASSUME NEW s, NEW r, NEW u, NEW T, NEW U, Stops(s, r, T), Stops(r, u, U)
  PROVE  Stops(s, u, T \cup U)
BY DEF Stops, Agree

\* Waiting tasks and wait queues are on no ready list.
LEMMA WaitNodes ==
  ASSUME NEW s, NEW R \in SUBSET Task, R \cap Waits(s) = {}
  PROVE  Waits(s) \cup WaitQueue \subseteq OffLists(R)
BY Nodes, TaskAssumption DEF OffLists, Waits, Node

LEMMA KernelFrame ==
  ASSUME NEW s, NEW r \in KernelState, KernelOK(s), SameLists(s, r),
         Rdy(r) = Rdy(s), TaskOK(r)
  PROVE  KernelOK(r)
BY SchedFrame DEF KernelOK

\* A task that is neither runnable nor waiting is started.
LEMMA StartTask ==
  ASSUME NEW s, KernelOK(s), NEW t \in s.created,
         s.task_state[t] \in {"DORMANT", "SUSPEND"}
  PROVE  LET r == task_to_runnable(s, t)
         IN /\ KernelOK(r) /\ Rdy(r) = Rdy(s) \cup {t} /\ r.priority = s.priority
            /\ r.tn_next_task_to_run \in {t, s.tn_next_task_to_run}
            /\ Stops(s, r, {})
<1> DEFINE r == task_to_runnable(s, t)
<1>1. /\ s \in KernelState /\ Rdy(s) \in SUBSET Task /\ Sched(s, Rdy(s))
      /\ t \in Task \ Rdy(s) /\ t \in Task
  BY DEF KernelOK, Rdy, KernelState
<1>2. /\ r \in KernelState /\ Sched(r, Rdy(s) \cup {t})
      /\ OtherFields(s, r) /\ r.priority = s.priority
      /\ r.task_state = [s.task_state EXCEPT ![t] = "RUNNABLE"]
      /\ r.tn_next_task_to_run \in {t, s.tn_next_task_to_run}
      /\ Agree(s.q, r.q, OffLists(Rdy(s) \cup {t}))
  BY <1>1, ToRunnable
<1> HIDE DEF r
<1>3. s.task_state \in [Task -> {"RUNNABLE", "WAIT", "SUSPEND", "WAITSUSP", "DORMANT"}]
  BY <1>1 DEF KernelState
<1>4. Rdy(r) = Rdy(s) \cup {t}
  BY <1>1, <1>2, <1>3 DEF Rdy
<1>5. TaskOK(r)
  BY <1>1, <1>2, <1>3 DEF KernelOK, TaskOK, Levels, OtherFields, Waiting
<1>6. Stops(s, r, {})
  <2>1. Waits(r) = Waits(s) /\ (Rdy(s) \cup {t}) \cap Waits(s) = {}
    BY <1>1, <1>2, <1>3 DEF Waits, Waiting, Rdy
  <2>2. Waits(s) \cup WaitQueue \subseteq OffLists(Rdy(s) \cup {t})
    <3>1. Rdy(s) \cup {t} \in SUBSET Task
      BY <1>1
    <3>2. QED
      BY <2>1, <3>1, WaitNodes
  <2>3. QED
    BY <1>2, <2>1, <2>2 DEF Stops, Agree, OtherFields
<1>7. QED
  BY <1>2, <1>4, <1>5, <1>6 DEF KernelOK, r

\* What StopTimer leaves: no timer, and everything else.
LEMMA StopTimerOnly ==
  ASSUME NEW s \in KernelState, NEW t \in Task
  PROVE  LET r == StopTimer(s, t)
         IN /\ r \in KernelState /\ SameLists(s, r)
            /\ r.tick_count = [s.tick_count EXCEPT ![t] = TN_WAIT_INFINITE]
            /\ r.task_state = s.task_state /\ r.created = s.created
            /\ r.task_wait_reason = s.task_wait_reason
            /\ r.tn_tslice_ticks = s.tn_tslice_ticks
<1>1. s.tick_count \in [Task -> Nat \cup {TN_WAIT_INFINITE}]
      /\ s.tn_wait_timeout_list \in Seq(Task)
  BY DEF KernelState
<1>2. CASE s.tick_count[t] = TN_WAIT_INFINITE
  <2>1. s.tick_count = [s.tick_count EXCEPT ![t] = TN_WAIT_INFINITE]
    BY <1>1, <1>2
  <2>2. QED
    BY <1>2, <2>1 DEF StopTimer, SameLists
<1>3. CASE s.tick_count[t] # TN_WAIT_INFINITE
  <2> DEFINE list == RemoveFirst(s.tn_wait_timeout_list, t)
             ticks == [s.tick_count EXCEPT ![t] = TN_WAIT_INFINITE]
  <2>1. list \in Seq(Task) /\ ticks \in [Task -> Nat \cup {TN_WAIT_INFINITE}]
    BY <1>1, RemoveFirstType
  <2>2. StopTimer(s, t) = [s EXCEPT !.tn_wait_timeout_list = list,
                                    !.tick_count = ticks]
    BY <1>1, <1>3 DEF StopTimer, KernelState
  <2> HIDE DEF list, ticks
  <2>3. QED
    BY <2>1, <2>2 DEF KernelState, SameLists, ticks
<1>4. QED
  BY <1>2, <1>3

LEMMA WaitComplete ==
  ASSUME NEW s, KernelOK(s), NEW t \in Task, Waiting(s, t)
  PROVE  LET r == task_wait_complete(s, t)
         IN /\ KernelOK(r) /\ r.priority = s.priority
            /\ Suspended(s, t) => SameLists(s, r) /\ Rdy(r) = Rdy(s)
            /\ ~Suspended(s, t) => Rdy(r) = Rdy(s) \cup {t}
            /\ Stops(s, r, {t})
<1> DEFINE r == task_wait_complete(s, t)
           s0 == StopTimer(s, t)
           s1 == [s0 EXCEPT !.task_wait_reason[t] = "none",
                            !.task_wait_rc[t] = "TERR_NO_ERR"]
<1>1. /\ s \in KernelState /\ Rdy(s) \in SUBSET Task /\ Sched(s, Rdy(s))
      /\ t \in Task \ Rdy(s)
  BY DEF KernelOK, Rdy, KernelState, Waiting
<1>2. /\ s0 \in KernelState /\ SameLists(s, s0)
      /\ s0.tick_count = [s.tick_count EXCEPT ![t] = TN_WAIT_INFINITE]
      /\ s0.task_state = s.task_state /\ s0.created = s.created
      /\ s0.task_wait_reason = s.task_wait_reason
      /\ s0.tn_tslice_ticks = s.tn_tslice_ticks
  BY <1>1, StopTimerOnly
<1> HIDE DEF s0
<1>3. /\ s1 \in KernelState /\ SameLists(s, s1)
      /\ s1.tick_count = s0.tick_count
      /\ s1.task_state = s.task_state /\ s1.created = s.created
      /\ s1.task_wait_reason = [s.task_wait_reason EXCEPT ![t] = "none"]
      /\ s1.tn_tslice_ticks = s.tn_tslice_ticks
  BY <1>2 DEF KernelState, SameLists
<1>4. r = IF Suspended(s, t) THEN [s1 EXCEPT !.task_state[t] = "SUSPEND"]
                             ELSE task_to_runnable(s1, t)
  BY DEF task_wait_complete, s0
<1> HIDE DEF s1, r
<1>5. /\ s.task_state \in [Task -> {"RUNNABLE", "WAIT", "SUSPEND", "WAITSUSP", "DORMANT"}]
      /\ s.tick_count \in [Task -> Nat \cup {TN_WAIT_INFINITE}]
      /\ s.task_wait_reason \in [Task -> {"none"} \cup WaitReason]
      /\ s.task_state[t] \in {"WAIT", "WAITSUSP"}
  BY <1>1 DEF KernelState, Waiting
<1>6. CASE Suspended(s, t)
  <2>1. /\ r \in KernelState /\ SameLists(s, r) /\ r.created = s.created
        /\ r.task_state = [s.task_state EXCEPT ![t] = "SUSPEND"]
        /\ r.tick_count = s0.tick_count
        /\ r.task_wait_reason = [s.task_wait_reason EXCEPT ![t] = "none"]
        /\ r.tn_tslice_ticks = s.tn_tslice_ticks
    BY <1>3, <1>4, <1>6 DEF KernelState, SameLists
  <2>2. Rdy(r) = Rdy(s)
    BY <1>5, <2>1 DEF Rdy
  <2>3. TaskOK(r)
    BY <1>2, <1>5, <2>1 DEF KernelOK, TaskOK, Levels, Waiting, SameLists
  <2>4. Stops(s, r, {t})
    BY <1>5, <2>1 DEF Stops, Waits, Waiting, SameLists, Agree
  <2>5. QED
    BY <1>6, <2>1, <2>2, <2>3, <2>4, KernelFrame DEF r, SameLists
<1>7. CASE ~Suspended(s, t)
  <2>1. Sched(s1, Rdy(s))
    BY <1>1, <1>3, SchedFrame
  <2>2. /\ r \in KernelState /\ Sched(r, Rdy(s) \cup {t})
        /\ OtherFields(s1, r) /\ r.priority = s1.priority
        /\ r.task_state = [s1.task_state EXCEPT ![t] = "RUNNABLE"]
        /\ Agree(s1.q, r.q, OffLists(Rdy(s) \cup {t}))
    BY <1>1, <1>3, <1>4, <1>7, <2>1, ToRunnable
  <2>3. Rdy(r) = Rdy(s) \cup {t}
    BY <1>3, <1>5, <2>2 DEF Rdy
  <2>4. TaskOK(r)
    BY <1>2, <1>3, <1>5, <2>2
    DEF KernelOK, TaskOK, Levels, Waiting, SameLists, OtherFields
  <2>5. Stops(s, r, {t})
    <3>1. Waits(r) = Waits(s) \ {t} /\ (Rdy(s) \cup {t}) \cap Waits(r) = {}
      BY <1>1, <1>3, <1>5, <2>2 DEF Waits, Waiting, Rdy
    <3>2. Waits(r) \cup WaitQueue \subseteq OffLists(Rdy(s) \cup {t})
      <4>1. Rdy(s) \cup {t} \in SUBSET Task
        BY <1>1
      <4>2. QED
        BY <3>1, <4>1, WaitNodes
    <3>3. \A u \in Waits(r) : r.task_wait_reason[u] = s.task_wait_reason[u]
      BY <1>3, <1>5, <2>2, <3>1 DEF OtherFields, Waits
    <3>4. QED
      BY <1>3, <2>2, <3>1, <3>2, <3>3 DEF Stops, Agree, SameLists
  <2>6. QED
    BY <1>3, <1>7, <2>2, <2>3, <2>4, <2>5 DEF KernelOK, r, SameLists
<1>8. QED
  BY <1>6, <1>7

\* A runnable task other than the idle task stops running to wait; it is not
\* yet in the wait queue.
LEMMA StartWait ==
  ASSUME NEW s, KernelOK(s), NEW t \in Rdy(s), t # tn_idle_task,
         NEW reason \in WaitReason, NEW timeout \in Nat \cup {TN_WAIT_INFINITE}
  PROVE  LET r == task_curr_to_wait_action(s, t, NULL, reason, timeout)
         IN /\ KernelOK(r) /\ Rdy(r) = Rdy(s) \ {t} /\ r.priority = s.priority
            /\ Begins(s, r, t, reason)
<1> DEFINE r == task_curr_to_wait_action(s, t, NULL, reason, timeout)
           s1 == task_to_non_runnable(s, t)
           s2 == [s1 EXCEPT !.task_state[t] = "WAIT",
                            !.task_wait_reason[t] = reason,
                            !.tick_count[t] = timeout]
<1>1. /\ s \in KernelState /\ Rdy(s) \in SUBSET Task /\ Sched(s, Rdy(s))
      /\ t \in Task /\ Rdy(s) \ {t} # {}
  BY Nodes DEF KernelOK, Rdy, TaskOK
<1>2. /\ s1 \in KernelState /\ Sched(s1, Rdy(s) \ {t})
      /\ OtherFields(s, s1) /\ s1.priority = s.priority /\ s1.task_state = s.task_state
      /\ Agree(s.q, s1.q, OffLists(Rdy(s)))
  BY <1>1, ToNonRunnable
<1> HIDE DEF s1
<1>3. /\ s2 \in KernelState /\ SameLists(s1, s2) /\ s2.created = s.created
      /\ s2.task_state = [s.task_state EXCEPT ![t] = "WAIT"]
      /\ s2.task_wait_reason = [s.task_wait_reason EXCEPT ![t] = reason]
      /\ s2.tick_count = [s.tick_count EXCEPT ![t] = timeout]
      /\ s2.tn_tslice_ticks = s.tn_tslice_ticks
  BY <1>2 DEF KernelState, SameLists, OtherFields
<1>4. r = IF timeout = TN_WAIT_INFINITE THEN s2
          ELSE [s2 EXCEPT !.tn_wait_timeout_list = Append(@, t)]
  BY DEF task_curr_to_wait_action, s1
<1> HIDE DEF s2, r
<1>5. /\ r \in KernelState /\ SameLists(s1, r) /\ r.created = s.created
      /\ r.task_state = [s.task_state EXCEPT ![t] = "WAIT"]
      /\ r.task_wait_reason = [s.task_wait_reason EXCEPT ![t] = reason]
      /\ r.tick_count = [s.tick_count EXCEPT ![t] = timeout]
      /\ r.tn_tslice_ticks = s.tn_tslice_ticks
  <2>1. Append(s2.tn_wait_timeout_list, t) \in Seq(Task)
    BY <1>1, <1>3 DEF KernelState
  <2>2. QED
    BY <1>3, <1>4, <2>1 DEF KernelState, SameLists
<1>6. /\ s.task_state \in [Task -> {"RUNNABLE", "WAIT", "SUSPEND", "WAITSUSP", "DORMANT"}]
      /\ s.tick_count \in [Task -> Nat \cup {TN_WAIT_INFINITE}]
      /\ s.task_wait_reason \in [Task -> {"none"} \cup WaitReason]
      /\ s.task_state[t] = "RUNNABLE"
  BY <1>1 DEF KernelState, Rdy
<1>7. Rdy(r) = Rdy(s) \ {t} /\ Waits(r) = Waits(s) \cup {t} /\ t \notin Waits(s)
  BY <1>1, <1>5, <1>6 DEF Rdy, Waits, Waiting
<1>8. Sched(r, Rdy(r))
  BY <1>2, <1>5, <1>7, SchedFrame
<1>9. TaskOK(r)
  BY <1>1, <1>2, <1>5, <1>6, Nodes DEF KernelOK, TaskOK, Levels, Waiting, SameLists
<1>10. Begins(s, r, t, reason)
  <2>1. Rdy(s) \cap Waits(s) = {}
    BY DEF Rdy, Waits, Waiting
  <2>2. Waits(s) \cup WaitQueue \subseteq OffLists(Rdy(s))
    BY <1>1, <2>1, WaitNodes
  <2>3. \A u \in Waits(s) : u \in Task /\ u # t
    BY <1>7 DEF Waits
  <2>4. QED
    BY <1>1, <1>2, <1>5, <1>6, <1>7, <2>2, <2>3 DEF Begins, SameLists, Agree
<1>11. QED
  BY <1>2, <1>5, <1>7, <1>8, <1>9, <1>10 DEF KernelOK, SameLists, r

LEMMA SuspendRunnable ==
  ASSUME NEW s, KernelOK(s), NEW t \in Rdy(s), t # tn_idle_task
  PROVE  LET r == task_to_non_runnable([s EXCEPT !.task_state[t] = "SUSPEND"], t)
         IN KernelOK(r) /\ Stops(s, r, {})
<1> DEFINE s1 == [s EXCEPT !.task_state[t] = "SUSPEND"]
           r == task_to_non_runnable(s1, t)
<1>1. /\ s \in KernelState /\ Rdy(s) \in SUBSET Task /\ Sched(s, Rdy(s))
      /\ t \in Task /\ Rdy(s) \ {t} # {} /\ s.task_state[t] = "RUNNABLE"
  BY Nodes DEF KernelOK, Rdy, TaskOK
<1>2. /\ s1 \in KernelState /\ SameLists(s, s1) /\ OtherFields(s, s1)
      /\ s1.task_state = [s.task_state EXCEPT ![t] = "SUSPEND"]
  BY <1>1 DEF KernelState, SameLists, OtherFields
<1> HIDE DEF s1
<1>3. Sched(s1, Rdy(s))
  BY <1>1, <1>2, SchedFrame
<1>4. /\ r \in KernelState /\ Sched(r, Rdy(s) \ {t})
      /\ OtherFields(s1, r) /\ r.priority = s1.priority /\ r.task_state = s1.task_state
      /\ Agree(s1.q, r.q, OffLists(Rdy(s)))
  BY <1>1, <1>2, <1>3, ToNonRunnable
<1> HIDE DEF r
<1>5. s.task_state \in [Task -> {"RUNNABLE", "WAIT", "SUSPEND", "WAITSUSP", "DORMANT"}]
  BY <1>1 DEF KernelState
<1>6. Rdy(r) = Rdy(s) \ {t}
  BY <1>1, <1>2, <1>4, <1>5 DEF Rdy
<1>7. TaskOK(r)
  BY <1>1, <1>2, <1>4, <1>5, Nodes
  DEF KernelOK, TaskOK, Levels, Waiting, SameLists, OtherFields
<1>8. Stops(s, r, {})
  <2>1. Waits(r) = Waits(s) /\ Rdy(s) \cap Waits(s) = {}
    BY <1>1, <1>2, <1>4, <1>5 DEF Waits, Waiting, Rdy
  <2>2. Waits(s) \cup WaitQueue \subseteq OffLists(Rdy(s))
    BY <1>1, <2>1, WaitNodes
  <2>3. QED
    BY <1>2, <1>4, <2>1, <2>2 DEF Stops, Agree, SameLists, OtherFields
<1>9. QED
  BY <1>4, <1>6, <1>7, <1>8 DEF KernelOK, r, s1

\* The task block of t is reset once t is on no ready list.
LEMMA SetDormant ==
  ASSUME NEW s \in KernelState, NEW t \in AppTask,
         Sched(s, Rdy(s) \ {t}), TaskOK(s)
  PROVE  LET r == task_set_dormant_state(s, t)
         IN /\ KernelOK(r) /\ Rdy(r) = Rdy(s) \ {t}
            /\ r.task_state[t] = "DORMANT" /\ r.created = s.created
            /\ r.activate_count = s.activate_count
            /\ r.tn_next_task_to_run = s.tn_next_task_to_run
            /\ r.priority = [s.priority EXCEPT ![t] = BasePriority[t]]
            /\ Stops(s, r, {t})
<1> DEFINE r == task_set_dormant_state(s, t)
           q1 == queue_reset(s.q, t)
           R == Rdy(s) \ {t}
           nxt == s.tn_next_task_to_run
<1>1. /\ s.q \in Links(Node) /\ s.priority \in [Task -> Priority]
      /\ s.task_state \in [Task -> {"RUNNABLE", "WAIT", "SUSPEND", "WAITSUSP", "DORMANT"}]
      /\ s.tick_count \in [Task -> Nat \cup {TN_WAIT_INFINITE}]
      /\ s.task_wait_reason \in [Task -> {"none"} \cup WaitReason]
  BY DEF KernelState, Links
<1>2. /\ t \in Task /\ t \in Node /\ t # tn_idle_task /\ t # tn_timer_task
      /\ BasePriority[t] \in Priority
  BY Nodes, PriorityAssumption
<1>3. q1 \in Links(Node) /\ Agree(s.q, q1, Node \ {t})
  <2> DEFINE l == s.q
  <2>1. l \in Links(Node)
    BY <1>1
  <2> HIDE DEF l
  <2>2. queue_reset(l, t) \in Links(Node) /\ Agree(l, queue_reset(l, t), Node \ {t})
    BY <1>2, <2>1, QueueReset
  <2>3. QED
    BY <2>2 DEF l
<1> HIDE DEF q1
<1>4. r = [s EXCEPT !.q = q1, !.priority[t] = BasePriority[t],
                    !.task_state[t] = "DORMANT", !.task_wait_reason[t] = "none",
                    !.task_wait_rc[t] = "TERR_NO_ERR",
                    !.tick_count[t] = TN_WAIT_INFINITE,
                    !.wakeup_count[t] = 0, !.tslice_count[t] = 0]
  BY DEF task_set_dormant_state, q1
<1> HIDE DEF r
<1>5. /\ r.q = q1 /\ r.priority = [s.priority EXCEPT ![t] = BasePriority[t]]
      /\ r.task_state = [s.task_state EXCEPT ![t] = "DORMANT"]
      /\ r.task_wait_reason = [s.task_wait_reason EXCEPT ![t] = "none"]
      /\ r.tick_count = [s.tick_count EXCEPT ![t] = TN_WAIT_INFINITE]
      /\ r.created = s.created /\ r.activate_count = s.activate_count
      /\ r.tn_tslice_ticks = s.tn_tslice_ticks
      /\ r.tn_ready_to_run_bmp = s.tn_ready_to_run_bmp
      /\ r.tn_next_task_to_run = nxt
  BY <1>4 DEF KernelState
<1>6. r \in KernelState
  <2> DEFINE pr == [s.priority EXCEPT ![t] = BasePriority[t]]
             st == [s.task_state EXCEPT ![t] = "DORMANT"]
             re == [s.task_wait_reason EXCEPT ![t] = "none"]
             rc == [s.task_wait_rc EXCEPT ![t] = "TERR_NO_ERR"]
             ti == [s.tick_count EXCEPT ![t] = TN_WAIT_INFINITE]
             wa == [s.wakeup_count EXCEPT ![t] = 0]
             sl == [s.tslice_count EXCEPT ![t] = 0]
  <2>1. r = [s EXCEPT !.q = q1, !.priority = pr, !.task_state = st,
                      !.task_wait_reason = re, !.task_wait_rc = rc,
                      !.tick_count = ti, !.wakeup_count = wa, !.tslice_count = sl]
    BY <1>4 DEF KernelState
  <2>2. /\ pr \in [Task -> Priority]
        /\ st \in [Task -> {"RUNNABLE", "WAIT", "SUSPEND", "WAITSUSP", "DORMANT"}]
        /\ re \in [Task -> {"none"} \cup WaitReason]
        /\ rc \in [Task -> {"TERR_NO_ERR", "TERR_TIMEOUT", "TERR_DLT"}]
        /\ ti \in [Task -> Nat \cup {TN_WAIT_INFINITE}]
        /\ wa \in [Task -> 0 .. 1] /\ sl \in [Task -> Nat]
    BY <1>2 DEF KernelState
  <2> HIDE DEF pr, st, re, rc, ti, wa, sl
  <2>3. QED
    BY <1>3, <2>1, <2>2 DEF KernelState, Links
<1>7. Rdy(r) = R
  BY <1>1, <1>2, <1>5 DEF Rdy
<1>8. \A p \in Priority : At(r, R, p) = At(s, R, p)
  BY <1>1, <1>5 DEF At, Rdy
<1>9. ListsOK(r, R)
  <2> SUFFICES ASSUME NEW p \in Priority
               PROVE  /\ Queue(q1, p, At(s, R, p), Node)
                      /\ p \in s.tn_ready_to_run_bmp <=> At(s, R, p) # {}
    BY <1>5, <1>8 DEF ListsOK
  <2>1. /\ Queue(s.q, p, At(s, R, p), Node)
        /\ p \in s.tn_ready_to_run_bmp <=> At(s, R, p) # {}
    BY DEF Sched, ListsOK
  <2>2. At(s, R, p) \cup {p} \subseteq Node \ {t}
    BY <1>2, Nodes DEF At, Rdy
  <2>3. Agree(s.q, q1, At(s, R, p) \cup {p})
    BY <1>3, <2>2 DEF Agree
  <2>4. QED
    BY <2>1, <2>3, QueueFrame
<1>10. nxt \in R /\ \A u \in R : s.priority[nxt] <= s.priority[u]
  BY DEF Sched, Top
<1>11. Sched(r, R)
  <2>1. \A u \in R : r.priority[u] = s.priority[u]
    BY <1>1, <1>5 DEF Rdy
  <2>2. Slices \/ q1.next[s.priority[nxt]] = nxt
    <3>1. s.priority[nxt] \in Node \ {t}
      BY <1>1, <1>2, <1>10, Nodes DEF Rdy
    <3>2. QED
      BY <1>3, <3>1 DEF Sched, FirstInList, Agree
  <2> HIDE DEF R
  <2>3. QED
    BY <1>5, <1>9, <1>10, <2>1, <2>2 DEF Sched, Top, FirstInList, Rdy, R
<1>12. TaskOK(r)
  <2>1. Levels(r)
    BY <1>1, <1>2, <1>5, Nodes, PriorityAssumption DEF TaskOK, Levels
  <2>2. QED
    BY <1>1, <1>2, <1>5, <2>1 DEF TaskOK, Waiting
<1>13. Stops(s, r, {t})
  <2>1. Waits(r) = Waits(s) \ {t}
    BY <1>1, <1>5 DEF Waits, Waiting
  <2>2. Waits(r) \cup WaitQueue \subseteq Node \ {t}
    BY <1>2, <2>1, TaskAssumption DEF Waits, Node
  <2>3. Agree(s.q, r.q, Waits(r) \cup WaitQueue)
    BY <1>3, <1>5, <2>2 DEF Agree
  <2>4. QED
    BY <1>1, <1>5, <2>1, <2>3 DEF Stops, Waits
<1>14. QED
  BY <1>2, <1>1, <1>5, <1>6, <1>7, <1>11, <1>12, <1>13 DEF KernelOK, r

LEMMA ReactivateOK ==
  ASSUME NEW s, KernelOK(s), NEW t \in s.created, s.task_state[t] = "DORMANT"
  PROVE  LET r == Reactivate(s, t)
         IN /\ KernelOK(r) /\ Stops(s, r, {})
            /\ s.activate_count[t] = 0 => r = s
<1> DEFINE s1 == [s EXCEPT !.activate_count[t] = @ - 1]
<1>1. /\ s \in KernelState /\ t \in Task
      /\ s.activate_count \in [Task -> 0 .. 1]
  BY DEF KernelOK, KernelState
<1>2. CASE s.activate_count[t] > 0
  <2>1. s.activate_count[t] - 1 \in 0 .. 1
    BY <1>1, <1>2
  <2>2. /\ s1 \in KernelState /\ SameLists(s, s1) /\ s1.created = s.created
        /\ s1.task_state = s.task_state /\ s1.tick_count = s.tick_count
        /\ s1.task_wait_reason = s.task_wait_reason
        /\ s1.tn_tslice_ticks = s.tn_tslice_ticks
    BY <1>1, <2>1 DEF KernelState, SameLists
  <2>3. Reactivate(s, t) = task_to_runnable(s1, t)
    BY <1>2 DEF Reactivate
  <2> HIDE DEF s1
  <2>4. KernelOK(s1)
    BY <2>2, KernelFrame DEF Rdy, TaskOK, Levels, KernelOK, Waiting, SameLists
  <2>5. KernelOK(task_to_runnable(s1, t)) /\ Stops(s1, task_to_runnable(s1, t), {})
    BY <2>2, <2>4, StartTask
  <2>6. Stops(s, task_to_runnable(s1, t), {})
    <3>1. Stops(s, s1, {})
      BY <2>2, StopsSame DEF SameLists
    <3>2. QED
      BY <2>5, <3>1 DEF Stops, Agree
  <2>7. QED
    BY <1>2, <2>3, <2>5, <2>6
<1>3. CASE ~(s.activate_count[t] > 0)
  BY <1>3, StopsSame DEF Reactivate
<1>4. QED
  BY <1>2, <1>3

\* d is what s becomes when t is taken off the list it is in.
Detached(s, d, t) ==
  /\ d \in KernelState /\ Sched(d, Rdy(d) \ {t}) /\ TaskOK(d)
  /\ Rdy(d) = Rdy(s) /\ d.activate_count = s.activate_count
  /\ d.created = s.created /\ d.priority = s.priority
  /\ Slices \/ s.tn_next_task_to_run \in {t, d.tn_next_task_to_run}

\* Takes a task that does not wait off its ready list, if it is on one.
LEMMA DetachOK ==
  ASSUME NEW s, KernelOK(s), NEW t \in AppTask, ~Waiting(s, t), NEW d,
         d = Detach(s, t) \/ (t \in Rdy(s) /\ d = task_to_non_runnable(s, t))
  PROVE  Detached(s, d, t) /\ Stops(s, d, {})
<1>1. /\ s \in KernelState /\ Rdy(s) \in SUBSET Task /\ Sched(s, Rdy(s))
      /\ t \in Task /\ Rdy(s) \ {t} # {}
  BY Nodes DEF KernelOK, Rdy, TaskOK
<1>2. CASE t \in Rdy(s)
  <2>1. d = task_to_non_runnable(s, t)
    BY <1>2 DEF Detach, Rdy
  <2>2. /\ d \in KernelState /\ Sched(d, Rdy(s) \ {t})
        /\ OtherFields(s, d) /\ d.priority = s.priority /\ d.task_state = s.task_state
        /\ Slices \/ s.tn_next_task_to_run \in {t, d.tn_next_task_to_run}
        /\ Agree(s.q, d.q, OffLists(Rdy(s)))
    BY <1>1, <1>2, <2>1, ToNonRunnable
  <2>3. Rdy(d) = Rdy(s)
    BY <2>2 DEF Rdy
  <2>4. TaskOK(d)
    BY <2>2 DEF KernelOK, TaskOK, Levels, Waiting, OtherFields
  <2>5. Stops(s, d, {})
    <3>1. Waits(d) = Waits(s) /\ Rdy(s) \cap Waits(s) = {}
      BY <2>2 DEF Waits, Waiting, Rdy
    <3>2. Waits(s) \cup WaitQueue \subseteq OffLists(Rdy(s))
      BY <1>1, <3>1, WaitNodes
    <3>3. QED
      BY <2>2, <3>1, <3>2 DEF Stops, Agree, OtherFields
  <2>6. QED
    BY <2>2, <2>3, <2>4, <2>5 DEF Detached, OtherFields
<1>3. CASE t \notin Rdy(s)
  <2>1. d = s /\ Rdy(s) \ {t} = Rdy(s)
    BY <1>1, <1>3 DEF Detach, Rdy
  <2>2. QED
    BY <1>1, <2>1, StopsSame DEF KernelOK, Detached
<1>4. QED
  BY <1>2, <1>3

LEMMA TimeSliceOK ==
  ASSUME NEW s, KernelOK(s), NEW t \in Task
  PROVE  LET r == TimeSlice(s, t)
         IN /\ KernelOK(r) /\ Rdy(r) = Rdy(s) /\ r.priority = s.priority
            /\ r.tn_next_task_to_run = s.tn_next_task_to_run
            /\ Stops(s, r, {})
<1> DEFINE r == TimeSlice(s, t)
           pri == s.priority[t]
           s0 == [s EXCEPT !.tslice_count[t] = 0]
           s1 == [s EXCEPT !.tslice_count[t] = @ + 1]
<1>1. /\ s \in KernelState /\ Rdy(s) \in SUBSET Task /\ Sched(s, Rdy(s))
      /\ TaskOK(s) /\ pri \in Priority
  BY DEF KernelOK, Rdy, KernelState
<1>2. CASE s.tn_tslice_ticks[pri] = NO_TIME_SLICE
  BY <1>2, StopsSame DEF TimeSlice
<1>3. CASE s.tn_tslice_ticks[pri] # NO_TIME_SLICE
  <2>1. Slices
    BY <1>1, <1>3 DEF TaskOK
  <2>2. r = IF s.tslice_count[t] + 1 > s.tn_tslice_ticks[pri]
            THEN RotateReadyList(s0, pri) ELSE s1
    BY <1>3 DEF TimeSlice
  <2>3. /\ s0 \in KernelState /\ SameLists(s, s0) /\ Rdy(s0) = Rdy(s)
        /\ s0.task_state = s.task_state /\ s0.created = s.created
        /\ s0.task_wait_reason = s.task_wait_reason /\ s0.tick_count = s.tick_count
        /\ s0.tn_tslice_ticks = s.tn_tslice_ticks
    <3>1. s0.tslice_count \in [Task -> Nat]
      BY <1>1 DEF KernelState
    <3>2. QED
      BY <1>1, <3>1 DEF KernelState, SameLists, Rdy
  <2>4. /\ s1 \in KernelState /\ SameLists(s, s1) /\ Rdy(s1) = Rdy(s)
        /\ s1.task_state = s.task_state /\ s1.created = s.created
        /\ s1.task_wait_reason = s.task_wait_reason /\ s1.tick_count = s.tick_count
        /\ s1.tn_tslice_ticks = s.tn_tslice_ticks
    <3> DEFINE counts == [s.tslice_count EXCEPT ![t] = @ + 1]
    <3>1. counts \in [Task -> Nat]
      BY <1>1 DEF KernelState
    <3>2. s1 = [s EXCEPT !.tslice_count = counts]
      BY <1>1 DEF KernelState
    <3> HIDE DEF counts, s1
    <3>3. QED
      BY <1>1, <3>1, <3>2 DEF KernelState, SameLists, Rdy
  <2> HIDE DEF s0, s1, r
  <2>5. KernelOK(s0) /\ KernelOK(s1)
    BY <1>1, <2>3, <2>4, KernelFrame DEF TaskOK, Levels, Waiting, SameLists
  <2>6. CASE r = s1
    BY <2>4, <2>5, <2>6, StopsSame DEF r, SameLists
  <2>7. CASE r = RotateReadyList(s0, pri)
    <3>1. /\ r \in KernelState /\ Sched(r, Rdy(s)) /\ OtherFields(s0, r)
          /\ r.task_state = s0.task_state /\ r.priority = s0.priority
          /\ r.tn_next_task_to_run = s0.tn_next_task_to_run
          /\ Agree(s0.q, r.q, OffLists(Rdy(s)))
      <4>1. Sched(s0, Rdy(s))
        BY <2>3, <2>5 DEF KernelOK
      <4>2. QED
        BY <1>1, <2>1, <2>3, <2>7, <4>1, Rotate
    <3>2. Rdy(r) = Rdy(s)
      BY <2>3, <3>1 DEF Rdy
    <3>3. TaskOK(r)
      BY <2>5, <3>1 DEF KernelOK, TaskOK, Levels, Waiting, OtherFields
    <3>4. Stops(s, r, {})
      <4>1. Waits(r) = Waits(s) /\ Rdy(s) \cap Waits(s) = {}
        BY <2>3, <3>1 DEF Waits, Waiting, Rdy
      <4>2. Waits(s) \cup WaitQueue \subseteq OffLists(Rdy(s))
        BY <1>1, <4>1, WaitNodes
      <4>3. QED
        BY <2>3, <3>1, <4>1, <4>2 DEF Stops, Agree, SameLists, OtherFields
    <3>5. QED
      BY <2>3, <3>1, <3>2, <3>3, <3>4 DEF KernelOK, SameLists, r
  <2>8. QED
    BY <2>2, <2>6, <2>7
<1>4. QED
  BY <1>2, <1>3

-----------------------------------------------------------------------------
\* The invariant of the processor.

\* The running task is outside the kernel and no switch is pending.
Settled == pc \in {"init", "entry", "user"} /\ ~tn_context_switch_request

\* The running task is the one that should run.
Right(s) == /\ Top(s, Rdy(s), tn_curr_run_task)
            /\ Slices \/ s.tn_next_task_to_run = tn_curr_run_task

Control ==
  /\ tn_curr_run_task \in Task /\ pc \in Place
  /\ task_stk \in [Task -> Place \ {"init"}]
  /\ tn_int_counter \in 0 .. 1 /\ tn_context_switch_request \in BOOLEAN
  /\ tick_walk \in Seq(Task)
  /\ tn_context_switch_request \/ tick_walk # <<>> => tn_int_counter = 1
  /\ pc = "init" => tn_int_counter = 0 /\ tn_curr_run_task = tn_timer_task
  /\ Settled => Right(k)

IInv == KernelOK(k) /\ Control

\* What a task that makes a call may rely on.
LEMMA CallerFacts ==
  ASSUME IInv, tn_int_counter = 0, pc \in {"init", "entry", "user"}
  PROVE  /\ KernelOK(k) /\ k \in KernelState /\ Right(k)
         /\ tn_curr_run_task \in Rdy(k) /\ tn_curr_run_task \in k.created
         /\ tn_curr_run_task \in Task /\ k.task_state[tn_curr_run_task] = "RUNNABLE"
<1>1. KernelOK(k) /\ k \in KernelState /\ Right(k) /\ tn_curr_run_task \in Task
  BY DEF IInv, Control, KernelOK, Settled
<1>2. tn_curr_run_task \in Rdy(k)
  BY <1>1 DEF Right, Top
<1>3. QED
  BY <1>1, <1>2 DEF Rdy, KernelOK, TaskOK

\* A call that returns, one that goes on to a switch, and one of a handler.
LEMMA AfterReturn ==
  ASSUME IInv, tn_int_counter = 0, Returns, KernelOK(k'), Right(k'),
         task_stk' \in [Task -> Place \ {"init"}]
  PROVE  IInv'
BY DEF IInv, Control, Settled, Right, Returns, interrupts, Place

LEMMA AfterSwitches ==
  ASSUME IInv, tn_int_counter = 0, Switches, KernelOK(k'),
         task_stk' \in [Task -> Place \ {"init"}]
  PROVE  IInv'
BY DEF IInv, Control, Settled, Switches, interrupts, Place

LEMMA AfterHandlerCall ==
  ASSUME IInv, NEW request \in BOOLEAN, HandlerCall(request), KernelOK(k'),
         tick_walk' \in Seq(Task), tn_int_counter = 1,
         request \/ (Right(k) => Right(k'))
  PROVE  IInv'
BY DEF IInv, Control, Settled, Right, HandlerCall

\* Right is about the runnable tasks, their priorities and the next task.
LEMMA RightFrame ==
  ASSUME NEW s, NEW r, Right(s), Rdy(r) = Rdy(s), r.priority = s.priority,
         r.tn_next_task_to_run = s.tn_next_task_to_run
  PROVE  Right(r)
BY DEF Right, Top

-----------------------------------------------------------------------------
\* The invariant holds at the start.

LEMMA InitOK == Init => IInv
<1> SUFFICES ASSUME Init
             PROVE  IInv
  OBVIOUS
<1> DEFINE timer == tn_timer_task
           idle == tn_idle_task
           low == TN_NUM_PRIORITY - 1
           l0 == AllReset(Node)
           l1 == queue_add_tail(l0, low, idle)
           l2 == queue_add_tail(l1, 0, timer)
<1>1. /\ timer \in Node /\ idle \in Node /\ timer # idle
      /\ 0 \in Priority /\ low \in Priority /\ 0 # low
      /\ Priority \subseteq Node
      /\ \A p \in Priority : p # timer /\ p # idle
  BY Nodes, PriorityAssumption DEF Priority
<1>2. l0 \in Links(Node) /\ \A p \in Priority : Queue(l0, p, {}, Node)
  <2>1. l0 \in Links(Node)
    BY DEF AllReset, Links
  <2>2. ASSUME NEW p \in Priority
        PROVE  Queue(l0, p, {}, Node)
    <3>1. Holds(l0, p, <<>>, Node)
      BY <1>1 DEF Holds, IsRing, RingNode, AllReset, IsInjective
    <3>2. Range(<<>>) = {}
      BY DEF Range
    <3>3. QED
      BY <3>1, <3>2 DEF Queue
  <2>3. QED
    BY <2>1, <2>2
<1> HIDE DEF l0, low
<1>3. /\ l1 \in Links(Node) /\ Queue(l1, low, {idle}, Node)
      /\ Agree(l0, l1, Node \ {low, idle})
  <2>1. Queue(l0, low, {}, Node) /\ idle \in Node \ {low} /\ idle \notin {}
        /\ {} \cup {idle} = {idle} /\ {} \cup {low, idle} = {low, idle}
    BY <1>1, <1>2
  <2>2. /\ queue_add_tail(l0, low, idle) \in Links(Node)
        /\ Queue(queue_add_tail(l0, low, idle), low, {} \cup {idle}, Node)
        /\ Agree(l0, queue_add_tail(l0, low, idle), Node \ ({} \cup {low, idle}))
    BY <1>2, <2>1, QueueAddTail
  <2>3. QED
    BY <2>1, <2>2
<1> HIDE DEF l1
<1>4. \A p \in Priority \ {low} : Queue(l1, p, {}, Node)
  <2> TAKE p \in Priority \ {low}
  <2>1. Agree(l0, l1, {} \cup {p})
    BY <1>1, <1>3 DEF Agree
  <2>2. QED
    BY <1>2, <2>1, QueueFrame
<1>5. /\ l2 \in Links(Node) /\ Queue(l2, 0, {timer}, Node)
      /\ Agree(l1, l2, Node \ {0, timer}) /\ First(l2, 0) = timer
  <2>1. Queue(l1, 0, {}, Node) /\ timer \in Node \ {0} /\ timer \notin {}
        /\ {} \cup {timer} = {timer} /\ {} \cup {0, timer} = {0, timer}
    BY <1>1, <1>4
  <2>2. /\ queue_add_tail(l1, 0, timer) \in Links(Node)
        /\ Queue(queue_add_tail(l1, 0, timer), 0, {} \cup {timer}, Node)
        /\ Agree(l1, queue_add_tail(l1, 0, timer), Node \ ({} \cup {0, timer}))
    BY <1>3, <2>1, QueueAddTail
  <2>3. First(queue_add_tail(l1, 0, timer), 0) = timer
    BY <1>3, <2>1, QueueAddFirst
  <2>4. QED
    BY <2>1, <2>2, <2>3
<1> HIDE DEF l2
<1>6. /\ Queue(l2, low, {idle}, Node)
      /\ \A p \in Priority \ {low, 0} : Queue(l2, p, {}, Node)
  <2>1. Agree(l1, l2, {idle} \cup {low})
    BY <1>1, <1>5 DEF Agree
  <2>2. ASSUME NEW p \in Priority \ {low, 0}
        PROVE  Queue(l2, p, {}, Node)
    <3>1. Agree(l1, l2, {} \cup {p})
      BY <1>1, <1>5 DEF Agree
    <3>2. QED
      BY <1>4, <3>1, QueueFrame
  <2>3. QED
    BY <1>3, <2>1, <2>2, QueueFrame
<1>7. /\ k.q = l2 /\ k.tn_ready_to_run_bmp = {0, low}
      /\ k.tn_next_task_to_run = timer /\ k.priority = BasePriority
      /\ k.created = {timer, idle}
      /\ k.task_state = [t \in Task |-> IF t \in {timer, idle}
                                        THEN "RUNNABLE" ELSE "DORMANT"]
      /\ k.tick_count = [t \in Task |-> TN_WAIT_INFINITE]
      /\ k.tn_tslice_ticks = [p \in Priority |-> NO_TIME_SLICE]
  BY DEF Init, l0, l1, l2, low
<1>8. k \in KernelState
  <2>1. l2 \in [next : [Node -> Node], prev : [Node -> Node]]
    BY <1>5 DEF Links
  <2>2. {timer, idle} \subseteq Task /\ BasePriority \in [Task -> Priority]
    BY Nodes, PriorityAssumption
  <2>3. k = [q |-> l2, tn_ready_to_run_bmp |-> {0, low},
             tn_next_task_to_run |-> timer, tn_wait_timeout_list |-> <<>>,
             tn_tslice_ticks |-> [p \in Priority |-> NO_TIME_SLICE],
             created |-> {timer, idle},
             task_state |-> [t \in Task |-> IF t \in {timer, idle}
                                            THEN "RUNNABLE" ELSE "DORMANT"],
             priority |-> BasePriority,
             task_wait_reason |-> [t \in Task |-> "none"],
             task_wait_rc |-> [t \in Task |-> "TERR_NO_ERR"],
             tick_count |-> [t \in Task |-> TN_WAIT_INFINITE],
             tslice_count |-> [t \in Task |-> 0],
             wakeup_count |-> [t \in Task |-> 0],
             activate_count |-> [t \in Task |-> 0]]
    BY DEF Init, l0, l1, l2, low
  <2>4. QED
    BY <1>1, <2>1, <2>2, <2>3 DEF KernelState, NO_TIME_SLICE
<1>9. Rdy(k) = {timer, idle}
  BY <1>7, Nodes DEF Rdy
<1>10. /\ At(k, Rdy(k), 0) = {timer} /\ At(k, Rdy(k), low) = {idle}
       /\ \A p \in Priority \ {0, low} : At(k, Rdy(k), p) = {}
  BY <1>1, <1>7, <1>9, PriorityAssumption DEF At, low
<1>11. ListsOK(k, Rdy(k))
  BY <1>1, <1>5, <1>6, <1>7, <1>10 DEF ListsOK
<1>12. Top(k, Rdy(k), timer)
  BY <1>1, <1>7, <1>9, PriorityAssumption, Nodes DEF Top, low, Priority
<1>13. Sched(k, Rdy(k))
  BY <1>5, <1>7, <1>9, <1>11, <1>12, Nodes, PriorityAssumption
  DEF Sched, FirstInList, First
<1>14. TaskOK(k)
  BY <1>7, Nodes, PriorityAssumption DEF TaskOK, Levels, Waiting
<1>15. Control
  <2>1. /\ tn_curr_run_task = timer /\ pc = "init"
        /\ task_stk = [t \in Task |-> "entry"] /\ tn_int_counter = 0
        /\ tn_context_switch_request = FALSE /\ tick_walk = <<>>
    BY DEF Init
  <2>2. Right(k)
    BY <1>7, <1>12, <2>1 DEF Right
  <2>3. task_stk \in [Task -> Place \ {"init"}] /\ tick_walk \in Seq(Task)
    BY <2>1 DEF Place
  <2>4. pc \in Place /\ tn_curr_run_task \in Task
    BY <2>1, Nodes DEF Place
  <2>5. ~(tn_context_switch_request \/ tick_walk # <<>>)
    BY <2>1, Zenon
  <2>6. tn_int_counter \in 0 .. 1
    BY <2>1
  <2>7. tn_context_switch_request \in BOOLEAN
    BY <2>1, Zenon
  <2>8. QED
    BY <2>1, <2>2, <2>3, <2>4, <2>5, <2>6, <2>7, Zenon DEF Control
<1>16. QED
  BY <1>8, <1>13, <1>14, <1>15 DEF IInv, KernelOK

-----------------------------------------------------------------------------
\* Every step keeps the invariant: the calls of a task.

LEMMA CreateOK ==
  ASSUME IInv, NEW t \in AppTask, NEW start \in BOOLEAN,
         tn_task_create(t, start), start => pc = "init"
  PROVE  IInv' /\ Stops(k, k', {})
<1> DEFINE s0 == [k EXCEPT !.created = @ \cup {t}, !.activate_count[t] = 0]
           s1 == task_set_dormant_state(s0, t)
           curr == tn_curr_run_task
<1>1. tn_int_counter = 0 /\ pc \in {"init", "entry", "user"}
  BY DEF tn_task_create, Caller, IInv, Control
<1>2. KernelOK(k) /\ k \in KernelState /\ Right(k) /\ curr \in Rdy(k)
  BY <1>1, CallerFacts
<1>3. /\ t \in Task /\ t # tn_timer_task /\ t # tn_idle_task /\ t \notin k.created
      /\ k.task_state[t] = "DORMANT" /\ t \notin Rdy(k)
  BY <1>2, Nodes DEF tn_task_create, KernelOK, TaskOK, Rdy
<1>4. /\ s0 \in KernelState /\ SameLists(k, s0) /\ s0.task_state = k.task_state
      /\ s0.created = k.created \cup {t} /\ s0.tick_count = k.tick_count
      /\ s0.task_wait_reason = k.task_wait_reason
      /\ s0.tn_tslice_ticks = k.tn_tslice_ticks
  <2> DEFINE counts == [k.activate_count EXCEPT ![t] = 0]
             made == k.created \cup {t}
  <2>1. counts \in [Task -> 0 .. 1] /\ made \in SUBSET Task
    BY <1>2, <1>3 DEF KernelState
  <2>2. s0 = [k EXCEPT !.created = made, !.activate_count = counts]
    BY <1>2 DEF KernelState
  <2> HIDE DEF counts, s0
  <2>3. QED
    BY <1>2, <2>1, <2>2 DEF KernelState, SameLists
<1>5. k' = IF start THEN task_to_runnable(s1, t) ELSE s1
  BY DEF tn_task_create
<1> HIDE DEF s0
<1>6. Rdy(s0) = Rdy(k) /\ Rdy(s0) \ {t} = Rdy(k)
  BY <1>3, <1>4 DEF Rdy
<1>7. Sched(s0, Rdy(s0) \ {t}) /\ TaskOK(s0)
  BY <1>2, <1>4, <1>6, SchedFrame DEF KernelOK, TaskOK, Levels, Waiting, SameLists
<1>8. /\ KernelOK(s1) /\ Rdy(s1) = Rdy(k)
      /\ s1.task_state[t] = "DORMANT" /\ s1.created = s0.created
      /\ s1.tn_next_task_to_run = s0.tn_next_task_to_run
      /\ s1.priority = [s0.priority EXCEPT ![t] = BasePriority[t]]
      /\ Stops(s0, s1, {t})
  BY <1>4, <1>6, <1>7, SetDormant
<1> HIDE DEF s1
<1>9. /\ s1.tn_next_task_to_run = k.tn_next_task_to_run
      /\ s1.priority = [k.priority EXCEPT ![t] = BasePriority[t]]
      /\ k.priority \in [Task -> Priority]
  BY <1>2, <1>4, <1>8 DEF SameLists, KernelState
<1>s. Stops(k, s1, {})
  <2>1. Stops(k, s0, {}) /\ t \notin Waits(k)
    BY <1>3, <1>4, StopsSame DEF SameLists, Waits, Waiting
  <2>2. QED
    BY <1>8, <2>1 DEF Stops, Agree
<1>10. KernelOK(k') /\ Right(k') /\ Stops(k, k', {})
  <2>1. CASE ~start
    <3>1. k' = s1
      BY <1>5, <2>1
    <3>2. \A u \in Rdy(k) : s1.priority[u] = k.priority[u]
      BY <1>3, <1>9 DEF Rdy
    <3>3. Right(s1)
      BY <1>2, <1>8, <1>9, <3>2 DEF Right, Top
    <3>4. curr' = curr
      BY DEF tn_task_create, Returns
    <3>5. QED
      BY <1>8, <1>s, <3>1, <3>3, <3>4 DEF Right
  <2>2. CASE start
    <3>1. k' = task_to_runnable(s1, t) /\ t \in s1.created
      BY <1>4, <1>5, <1>8, <2>2
    <3>2. /\ KernelOK(k') /\ Rdy(k') = Rdy(k) \cup {t} /\ k'.priority = s1.priority
          /\ k'.tn_next_task_to_run \in {t, s1.tn_next_task_to_run}
          /\ Stops(s1, k', {})
      BY <1>8, <3>1, StartTask
    <3>3. curr = tn_timer_task /\ curr' = curr
      BY <2>2 DEF IInv, Control, tn_task_create, Returns
    <3>4. k'.priority[curr] = 0 /\ \A u \in Task : k'.priority[u] \in Nat
      BY <1>3, <1>8, <3>2, <3>3, Nodes DEF KernelOK, TaskOK, Levels, KernelState
    <3>5. Top(k', Rdy(k'), curr)
      BY <1>2, <3>2, <3>4 DEF Top, Rdy
    <3>6. k'.tn_next_task_to_run # t
      <4>1. k'.priority[t] = BasePriority[t]
        BY <1>3, <1>9, <3>2
      <4>2. BasePriority[t] > 0
        BY PriorityAssumption
      <4>3. t \in Rdy(k') /\ curr \in Rdy(k')
        BY <1>2, <3>2
      <4>4. QED
        BY <3>2, <3>4, <4>1, <4>2, <4>3 DEF KernelOK, Sched, Top
    <3>7. Stops(k, k', {})
      BY <1>s, <3>2 DEF Stops, Agree
    <3>8. QED
      BY <1>2, <1>9, <3>2, <3>3, <3>5, <3>6, <3>7 DEF Right
  <2>3. QED
    BY <2>1, <2>2
<1>11. task_stk' \in [Task -> Place \ {"init"}] /\ Returns
  BY <1>3 DEF tn_task_create, IInv, Control, Place
<1>12. QED
  BY <1>1, <1>10, <1>11, AfterReturn

\* A change of a field that concerns neither lists nor states.
LEMMA SmallChange ==
  ASSUME KernelOK(k), k' \in KernelState, SameLists(k, k'),
         k'.task_state = k.task_state, k'.created = k.created,
         k'.tick_count = k.tick_count, k'.task_wait_reason = k.task_wait_reason,
         Slices \/ \A p \in Priority : k'.tn_tslice_ticks[p] = NO_TIME_SLICE
  PROVE  KernelOK(k') /\ Rdy(k') = Rdy(k) /\ Stops(k, k', {})
<1>1. Rdy(k') = Rdy(k)
  BY DEF Rdy
<1>2. TaskOK(k')
  BY DEF KernelOK, TaskOK, Levels, Waiting, SameLists
<1>3. QED
  BY <1>1, <1>2, KernelFrame, StopsSame DEF SameLists

\* Between WAIT and WAITSUSP.
LEMMA WaitSusp ==
  ASSUME KernelOK(k), NEW t \in Task, NEW st \in {"WAIT", "WAITSUSP"},
         Waiting(k, t), k' = [k EXCEPT !.task_state[t] = st]
  PROVE  KernelOK(k') /\ Rdy(k') = Rdy(k) /\ SameLists(k, k') /\ Stops(k, k', {})
<1>1. /\ k' \in KernelState /\ SameLists(k, k') /\ k'.created = k.created
      /\ k'.task_state = [k.task_state EXCEPT ![t] = st]
      /\ k'.tick_count = k.tick_count /\ k'.task_wait_reason = k.task_wait_reason
      /\ k'.tn_tslice_ticks = k.tn_tslice_ticks
  BY DEF KernelOK, KernelState, SameLists
<1>2. k.task_state \in [Task -> {"RUNNABLE", "WAIT", "SUSPEND", "WAITSUSP", "DORMANT"}]
  BY DEF KernelOK, KernelState
<1>3. Rdy(k') = Rdy(k)
  BY <1>1, <1>2 DEF Rdy, Waiting
<1>4. TaskOK(k')
  BY <1>1, <1>2 DEF KernelOK, TaskOK, Levels, Waiting, SameLists
<1>5. Stops(k, k', {})
  BY <1>1, <1>2 DEF Stops, Waits, Waiting, SameLists, Agree
<1>6. QED
  BY <1>1, <1>3, <1>4, <1>5, KernelFrame

LEMMA SuspendOK ==
  ASSUME IInv, NEW t \in AppTask, tn_task_suspend(t)
  PROVE  IInv' /\ Stops(k, k', {})
<1>1. /\ tn_int_counter = 0 /\ pc \in {"init", "entry", "user"}
      /\ task_stk' \in [Task -> Place \ {"init"}] /\ t \in Task
      /\ t # tn_idle_task
  BY Nodes DEF tn_task_suspend, Caller, IInv, Control
<1>2. KernelOK(k) /\ Right(k)
  BY <1>1, CallerFacts
<1>3. CASE /\ k.task_state[t] = "RUNNABLE"
           /\ k' = task_to_non_runnable([k EXCEPT !.task_state[t] = "SUSPEND"], t)
           /\ Switches
  <2>1. t \in Rdy(k)
    BY <1>1, <1>3 DEF Rdy
  <2>2. KernelOK(k') /\ Stops(k, k', {})
    BY <1>1, <1>2, <1>3, <2>1, SuspendRunnable
  <2>3. QED
    BY <1>1, <1>3, <2>2, AfterSwitches
<1>4. CASE /\ k.task_state[t] = "WAIT"
           /\ k' = [k EXCEPT !.task_state[t] = "WAITSUSP"] /\ Returns
  <2>1. KernelOK(k') /\ Rdy(k') = Rdy(k) /\ SameLists(k, k') /\ Stops(k, k', {})
    BY <1>1, <1>2, <1>4, WaitSusp DEF Waiting
  <2>2. Right(k')
    BY <1>2, <1>4, <2>1 DEF Right, Top, SameLists, Returns
  <2>3. QED
    BY <1>1, <1>4, <2>1, <2>2, AfterReturn
<1>5. QED
  BY <1>3, <1>4 DEF tn_task_suspend

LEMMA ResumeOK ==
  ASSUME IInv, NEW t \in AppTask, tn_task_resume(t)
  PROVE  IInv' /\ Stops(k, k', {})
<1>1. /\ tn_int_counter = 0 /\ pc \in {"init", "entry", "user"}
      /\ task_stk' \in [Task -> Place \ {"init"}] /\ t \in Task /\ t \in k.created
  BY Nodes DEF tn_task_resume, Caller, IInv, Control
<1>2. KernelOK(k) /\ Right(k)
  BY <1>1, CallerFacts
<1>3. CASE k.task_state[t] = "SUSPEND" /\ k' = task_to_runnable(k, t) /\ Switches
  <2>1. KernelOK(k') /\ Stops(k, k', {})
    BY <1>1, <1>2, <1>3, StartTask
  <2>2. QED
    BY <1>1, <1>3, <2>1, AfterSwitches
<1>4. CASE /\ k.task_state[t] = "WAITSUSP"
           /\ k' = [k EXCEPT !.task_state[t] = "WAIT"] /\ Returns
  <2>1. KernelOK(k') /\ Rdy(k') = Rdy(k) /\ SameLists(k, k') /\ Stops(k, k', {})
    BY <1>1, <1>2, <1>4, WaitSusp DEF Waiting
  <2>2. Right(k')
    BY <1>2, <1>4, <2>1 DEF Right, Top, SameLists, Returns
  <2>3. QED
    BY <1>1, <1>4, <2>1, <2>2, AfterReturn
<1>5. QED
  BY <1>3, <1>4 DEF tn_task_resume

\* The wakeup count of the running task.
LEMMA CountedWakeups ==
  ASSUME KernelOK(k), tn_curr_run_task \in Task, NEW n \in 0 .. 1,
         k' = [k EXCEPT !.wakeup_count[tn_curr_run_task] = n]
  PROVE  KernelOK(k') /\ Rdy(k') = Rdy(k) /\ SameLists(k, k') /\ Stops(k, k', {})
<1> DEFINE counts == [k.wakeup_count EXCEPT ![tn_curr_run_task] = n]
<1>1. k \in KernelState /\ counts \in [Task -> 0 .. 1]
  BY DEF KernelOK, KernelState
<1>2. k' = [k EXCEPT !.wakeup_count = counts]
  BY <1>1 DEF KernelState
<1> HIDE DEF counts
<1>3. /\ k' \in KernelState /\ SameLists(k, k') /\ k'.task_state = k.task_state
      /\ k'.created = k.created /\ k'.tick_count = k.tick_count
      /\ k'.task_wait_reason = k.task_wait_reason
      /\ k'.tn_tslice_ticks = k.tn_tslice_ticks
  BY <1>1, <1>2 DEF KernelState, SameLists
<1>4. QED
  BY <1>3, SmallChange DEF KernelOK, TaskOK

LEMMA SleepOK ==
  ASSUME IInv, NEW timeout \in Timeouts \cup {TN_WAIT_INFINITE},
         tn_task_sleep(timeout)
  PROVE  IInv' /\ (Stops(k, k', {}) \/ Begins(k, k', tn_curr_run_task, "SLEEP"))
<1> DEFINE curr == tn_curr_run_task
<1>1. /\ tn_int_counter = 0 /\ pc \in {"init", "entry", "user"}
      /\ task_stk' \in [Task -> Place \ {"init"}]
      /\ curr # tn_idle_task
  BY Nodes DEF tn_task_sleep, Caller, IInv, Control
<1>2. KernelOK(k) /\ Right(k) /\ curr \in Rdy(k) /\ curr \in Task
  BY <1>1, CallerFacts
<1>3. CASE k.wakeup_count[curr] > 0
  <2>1. k' = [k EXCEPT !.wakeup_count[curr] = @ - 1] /\ Returns
    BY <1>3 DEF tn_task_sleep
  <2>2. k.wakeup_count[curr] - 1 \in 0 .. 1
    BY <1>2, <1>3 DEF KernelOK, KernelState
  <2>3. k' = [k EXCEPT !.wakeup_count[curr] = k.wakeup_count[curr] - 1]
    BY <2>1
  <2>4. KernelOK(k') /\ Rdy(k') = Rdy(k) /\ SameLists(k, k') /\ Stops(k, k', {})
    BY <1>2, <2>2, <2>3, CountedWakeups
  <2>5. Right(k')
    BY <1>2, <2>1, <2>4 DEF Right, Top, SameLists, Returns
  <2>6. QED
    BY <1>1, <2>1, <2>4, <2>5, AfterReturn
<1>4. CASE ~(k.wakeup_count[curr] > 0)
  <2>1. /\ k' = task_curr_to_wait_action(k, curr, NULL, "SLEEP", timeout)
        /\ Switches
    BY <1>4 DEF tn_task_sleep
  <2>2. KernelOK(k') /\ Begins(k, k', curr, "SLEEP")
    BY <1>1, <1>2, <2>1, StartWait, ArgumentAssumption DEF WaitReason
  <2>3. QED
    BY <1>1, <2>1, <2>2, AfterSwitches
<1>5. QED
  BY <1>3, <1>4

\* The wait of a task ends in a call of another.
LEMMA EndWait ==
  ASSUME IInv, NEW t \in Task, Waiting(k, t), k' = task_wait_complete(k, t),
         Caller, task_stk' = task_stk,
         IF Suspended(k, t) THEN Returns ELSE Switches
  PROVE  IInv' /\ Stops(k, k', {t})
<1>1. /\ tn_int_counter = 0 /\ pc \in {"init", "entry", "user"}
      /\ task_stk' \in [Task -> Place \ {"init"}]
  BY DEF Caller, IInv, Control
<1>2. KernelOK(k) /\ Right(k)
  BY <1>1, CallerFacts
<1>3. KernelOK(k') /\ (Suspended(k, t) => SameLists(k, k') /\ Rdy(k') = Rdy(k))
      /\ Stops(k, k', {t})
  BY <1>2, WaitComplete
<1>4. CASE Suspended(k, t)
  <2>1. Right(k') /\ Returns
    BY <1>2, <1>3, <1>4 DEF Right, Top, SameLists, Returns
  <2>2. QED
    BY <1>1, <1>3, <2>1, AfterReturn
<1>5. CASE ~Suspended(k, t)
  BY <1>1, <1>3, <1>5, AfterSwitches
<1>6. QED
  BY <1>4, <1>5

LEMMA WakeupOK ==
  ASSUME IInv, NEW t \in AppTask, tn_task_wakeup(t)
  PROVE  IInv' /\ \E T : Stops(k, k', T)
<1>1. /\ tn_int_counter = 0 /\ pc \in {"init", "entry", "user"}
      /\ task_stk' \in [Task -> Place \ {"init"}] /\ t \in Task /\ Caller
      /\ task_stk' = task_stk
  BY Nodes DEF tn_task_wakeup, Caller, IInv, Control
<1>2. KernelOK(k) /\ Right(k) /\ tn_curr_run_task \in Task
  BY <1>1, CallerFacts
<1>3. CASE /\ Sleeping(t) /\ k' = task_wait_complete(k, t)
           /\ IF Suspended(k, t) THEN Returns ELSE Switches
  BY <1>1, <1>3, EndWait DEF Sleeping
<1>4. CASE CountWakeup /\ Returns
  <2>1. KernelOK(k') /\ Rdy(k') = Rdy(k) /\ SameLists(k, k') /\ Stops(k, k', {})
    BY <1>2, <1>4, CountedWakeups, 1 \in 0 .. 1 DEF CountWakeup
  <2>2. Right(k')
    BY <1>2, <1>4, <2>1 DEF Right, Top, SameLists, Returns
  <2>3. QED
    BY <1>1, <1>4, <2>1, <2>2, AfterReturn
<1>5. QED
  BY <1>3, <1>4 DEF tn_task_wakeup

LEMMA ReleaseWaitOK ==
  ASSUME IInv, NEW t \in AppTask, tn_task_release_wait(t)
  PROVE  IInv' /\ \E T : Stops(k, k', T)
BY EndWait, Nodes DEF tn_task_release_wait

\* Counting an activation.
LEMMA CountedActivation ==
  ASSUME KernelOK(k), NEW t \in Task, CountActivation(t)
  PROVE  KernelOK(k') /\ Rdy(k') = Rdy(k) /\ SameLists(k, k') /\ Stops(k, k', {})
<1> DEFINE counts == [k.activate_count EXCEPT ![t] = 1]
<1>1. k \in KernelState /\ counts \in [Task -> 0 .. 1]
  BY DEF KernelOK, KernelState
<1>2. k' = [k EXCEPT !.activate_count = counts]
  BY <1>1 DEF KernelState, CountActivation
<1> HIDE DEF counts
<1>3. /\ k' \in KernelState /\ SameLists(k, k') /\ k'.task_state = k.task_state
      /\ k'.created = k.created /\ k'.tick_count = k.tick_count
      /\ k'.task_wait_reason = k.task_wait_reason
      /\ k'.tn_tslice_ticks = k.tn_tslice_ticks
  BY <1>1, <1>2 DEF KernelState, SameLists
<1>4. QED
  BY <1>3, SmallChange DEF KernelOK, TaskOK

LEMMA ActivateOK ==
  ASSUME IInv, NEW t \in AppTask, tn_task_activate(t)
  PROVE  IInv' /\ Stops(k, k', {})
<1>1. /\ tn_int_counter = 0 /\ pc \in {"init", "entry", "user"}
      /\ task_stk' \in [Task -> Place \ {"init"}] /\ t \in Task /\ t \in k.created
  BY Nodes DEF tn_task_activate, Caller, IInv, Control
<1>2. KernelOK(k) /\ Right(k)
  BY <1>1, CallerFacts
<1>3. CASE k.task_state[t] = "DORMANT"
  <2>1. k' = task_to_runnable(k, t) /\ Switches
    BY <1>3 DEF tn_task_activate
  <2>2. KernelOK(k') /\ Stops(k, k', {})
    BY <1>1, <1>2, <1>3, <2>1, StartTask
  <2>3. QED
    BY <1>1, <2>1, <2>2, AfterSwitches
<1>4. CASE k.task_state[t] # "DORMANT"
  <2>1. CountActivation(t) /\ Returns
    BY <1>4 DEF tn_task_activate
  <2>2. KernelOK(k') /\ Rdy(k') = Rdy(k) /\ SameLists(k, k') /\ Stops(k, k', {})
    BY <1>1, <1>2, <2>1, CountedActivation
  <2>3. Right(k')
    BY <1>2, <2>1, <2>2 DEF Right, Top, SameLists, Returns
  <2>4. QED
    BY <1>1, <2>1, <2>2, <2>3, AfterReturn
<1>5. QED
  BY <1>3, <1>4

\* Deleting a dormant task takes nothing but its name.
LEMMA Deleted ==
  ASSUME NEW s, KernelOK(s), NEW t \in Task, s.task_state[t] = "DORMANT"
  PROVE  LET r == [s EXCEPT !.created = @ \ {t}]
         IN KernelOK(r) /\ Rdy(r) = Rdy(s) /\ SameLists(s, r) /\ Stops(s, r, {})
<1> DEFINE r == [s EXCEPT !.created = @ \ {t}]
<1>1. /\ r \in KernelState /\ SameLists(s, r) /\ r.task_state = s.task_state
      /\ r.created = s.created \ {t} /\ r.tick_count = s.tick_count
      /\ r.task_wait_reason = s.task_wait_reason
      /\ r.tn_tslice_ticks = s.tn_tslice_ticks
  BY DEF KernelOK, KernelState, SameLists
<1> HIDE DEF r
<1>2. Rdy(r) = Rdy(s)
  BY <1>1 DEF Rdy
<1>3. TaskOK(r)
  BY <1>1 DEF KernelOK, TaskOK, Levels, Waiting, SameLists
<1>4. QED
  BY <1>1, <1>2, <1>3, KernelFrame, StopsSame DEF r, SameLists

LEMMA ExitOK ==
  ASSUME IInv, NEW delete \in BOOLEAN, tn_task_exit(delete),
         delete => k.activate_count[tn_curr_run_task] = 0
  PROVE  IInv' /\ Stops(k, k', {})
<1> DEFINE t == tn_curr_run_task
           d == task_to_non_runnable(k, t)
           s1 == task_set_dormant_state(d, t)
           s2 == Reactivate(s1, t)
<1>1. /\ tn_int_counter = 0 /\ pc \in {"init", "entry", "user"} /\ t \in AppTask
  BY DEF tn_task_exit, Caller
<1>2. /\ KernelOK(k) /\ t \in Rdy(k) /\ t \in k.created /\ t \in Task
      /\ k.task_state[t] = "RUNNABLE"
  BY <1>1, CallerFacts
<1>3. ~Waiting(k, t)
  BY <1>2 DEF Waiting
<1>4. /\ d \in KernelState /\ Sched(d, Rdy(d) \ {t}) /\ TaskOK(d)
      /\ d.activate_count = k.activate_count /\ d.created = k.created
      /\ Stops(k, d, {})
  BY <1>1, <1>2, <1>3, DetachOK DEF Detached
<1>5. k' = IF delete THEN [s2 EXCEPT !.created = @ \ {t}] ELSE s2
  BY DEF tn_task_exit
<1> HIDE DEF d
<1>6. /\ KernelOK(s1) /\ s1.task_state[t] = "DORMANT" /\ s1.created = d.created
      /\ s1.activate_count = d.activate_count /\ Stops(d, s1, {t})
  BY <1>1, <1>4, SetDormant
<1> HIDE DEF s1
<1>7. KernelOK(s2) /\ Stops(s1, s2, {}) /\ (s1.activate_count[t] = 0 => s2 = s1)
  BY <1>2, <1>4, <1>6, ReactivateOK
<1> HIDE DEF s2
<1>8. KernelOK(k') /\ Stops(s2, k', {})
  <2>1. CASE delete
    <3>1. s2 = s1
      BY <1>4, <1>6, <1>7, <2>1
    <3>2. QED
      BY <1>2, <1>5, <1>6, <2>1, <3>1, Deleted
  <2>2. CASE ~delete
    BY <1>5, <1>7, <2>2, StopsSame
  <2>3. QED
    BY <2>1, <2>2
<1>9. /\ task_stk' = [task_stk EXCEPT ![t] = "entry"] /\ pc' = "exit"
      /\ UNCHANGED <<tn_curr_run_task, interrupts>>
  BY DEF tn_task_exit
<1>10. task_stk' \in [Task -> Place \ {"init"}]
  BY <1>9 DEF IInv, Control, Place
<1>s. Stops(k, k', {})
  <2>1. t \notin Waits(k)
    BY <1>3 DEF Waits
  <2>2. QED
    BY <1>4, <1>6, <1>7, <1>8, <2>1 DEF Stops, Agree
<1>11. QED
  BY <1>1, <1>8, <1>9, <1>10, <1>s DEF IInv, Control, Settled, interrupts, Place

LEMMA TerminateOK ==
  ASSUME IInv, NEW t \in AppTask, tn_task_terminate(t), Detached(k, Detach(k, t), t)
  PROVE  IInv' /\ Stops(Detach(k, t), k', {t})
<1> DEFINE d == Detach(k, t)
           s1 == task_set_dormant_state(d, t)
           curr == tn_curr_run_task
<1>1. /\ tn_int_counter = 0 /\ pc \in {"init", "entry", "user"}
      /\ t \in Task /\ t \in k.created /\ t # curr /\ t # tn_idle_task
      /\ task_stk' = [task_stk EXCEPT ![t] = "entry"]
      /\ IF k.activate_count[t] > 0 THEN Switches ELSE Returns
  BY Nodes DEF tn_task_terminate, Caller
<1>2. /\ KernelOK(k) /\ k \in KernelState /\ Right(k) /\ curr \in Rdy(k)
  BY <1>1, CallerFacts
<1>4. /\ d \in KernelState /\ Sched(d, Rdy(d) \ {t}) /\ TaskOK(d)
      /\ Rdy(d) = Rdy(k) /\ d.activate_count = k.activate_count
      /\ d.created = k.created /\ d.priority = k.priority
      /\ Slices \/ k.tn_next_task_to_run \in {t, d.tn_next_task_to_run}
  BY DEF Detached
<1>5. k' = Reactivate(s1, t)
  BY DEF tn_task_terminate
<1> HIDE DEF d
<1>6. /\ KernelOK(s1) /\ Rdy(s1) = Rdy(d) \ {t}
      /\ s1.task_state[t] = "DORMANT" /\ s1.created = d.created
      /\ s1.activate_count = d.activate_count
      /\ s1.tn_next_task_to_run = d.tn_next_task_to_run
      /\ s1.priority = [d.priority EXCEPT ![t] = BasePriority[t]]
      /\ Stops(d, s1, {t})
  BY <1>4, SetDormant
<1> HIDE DEF s1
<1>7. KernelOK(k') /\ Stops(s1, k', {}) /\ (s1.activate_count[t] = 0 => k' = s1)
  BY <1>1, <1>4, <1>5, <1>6, ReactivateOK
<1>8. task_stk' \in [Task -> Place \ {"init"}]
  BY <1>1 DEF IInv, Control, Place
<1>s. Stops(Detach(k, t), k', {t})
  BY <1>6, <1>7 DEF Stops, Agree, d
<1>9. CASE k.activate_count[t] > 0
  BY <1>1, <1>7, <1>8, <1>9, <1>s, AfterSwitches
<1>10. CASE ~(k.activate_count[t] > 0)
  <2>1. Returns /\ curr' = curr
    BY <1>1, <1>10 DEF Returns
  <2>2. k.activate_count[t] = 0
    BY <1>1, <1>2, <1>10 DEF KernelState
  <2>3. k' = s1
    BY <1>4, <1>6, <1>7, <2>2
  <2>4. /\ Rdy(s1) = Rdy(k) \ {t} /\ \A u \in Rdy(k) \ {t} : u \in Task
        /\ \A u \in Rdy(k) \ {t} : s1.priority[u] = k.priority[u]
    BY <1>2, <1>4, <1>6 DEF KernelState, Rdy
  <2>5. Top(s1, Rdy(s1), curr)
    BY <1>1, <1>2, <2>4 DEF Right, Top
  <2>6. Slices \/ s1.tn_next_task_to_run = curr
    BY <1>1, <1>2, <1>4, <1>6 DEF Right
  <2>7. Right(k')
    BY <2>1, <2>3, <2>5, <2>6 DEF Right
  <2>8. QED
    BY <1>1, <1>7, <1>8, <1>s, <2>1, <2>7, AfterReturn
<1>11. QED
  BY <1>9, <1>10

LEMMA DeleteOK ==
  ASSUME IInv, NEW t \in AppTask, tn_task_delete(t)
  PROVE  IInv' /\ Stops(k, k', {})
<1>1. /\ tn_int_counter = 0 /\ pc \in {"init", "entry", "user"}
      /\ task_stk' \in [Task -> Place \ {"init"}] /\ t \in Task
      /\ k.task_state[t] = "DORMANT" /\ Returns
      /\ k' = [k EXCEPT !.created = @ \ {t}]
  BY Nodes DEF tn_task_delete, Caller, IInv, Control
<1>2. KernelOK(k) /\ Right(k)
  BY <1>1, CallerFacts
<1>3. KernelOK(k') /\ Rdy(k') = Rdy(k) /\ SameLists(k, k') /\ Stops(k, k', {})
  BY <1>1, <1>2, Deleted
<1>4. Right(k')
  BY <1>1, <1>2, <1>3 DEF Right, Top, SameLists, Returns
<1>5. QED
  BY <1>1, <1>3, <1>4, AfterReturn

\* A task off the ready lists may change its priority.
LEMMA OffListPriority ==
  ASSUME NEW s, KernelOK(s), NEW t \in AppTask, t \notin Rdy(s),
         NEW new \in 1 .. TN_NUM_PRIORITY - 2
  PROVE  LET r == [s EXCEPT !.priority[t] = new]
         IN /\ KernelOK(r) /\ Rdy(r) = Rdy(s)
            /\ r.tn_next_task_to_run = s.tn_next_task_to_run
            /\ r.priority = [s.priority EXCEPT ![t] = new]
            /\ Stops(s, r, {})
<1> DEFINE prios == [s.priority EXCEPT ![t] = new]
           r == [s EXCEPT !.priority = prios]
           R == Rdy(s)
<1>0. new \in Priority
  BY PriorityAssumption DEF Priority
<1>1. /\ s \in KernelState /\ Sched(s, R) /\ TaskOK(s) /\ t \in Task
      /\ prios \in [Task -> Priority] /\ R \subseteq Task
  BY <1>0, Nodes DEF KernelOK, KernelState, Rdy
<1>2. \A u \in R : prios[u] = s.priority[u]
  BY <1>1 DEF Rdy, KernelState
<1>3. /\ prios[tn_timer_task] = 0 /\ prios[tn_idle_task] = TN_NUM_PRIORITY - 1
      /\ \A u \in AppTask : prios[u] \in 1 .. TN_NUM_PRIORITY - 2
  BY <1>1, Nodes DEF KernelState, TaskOK, Levels
<1>4. r = [s EXCEPT !.priority[t] = new]
  BY <1>1 DEF KernelState
<1> HIDE DEF prios
<1>5. /\ r \in KernelState /\ r.q = s.q /\ r.priority = prios
      /\ r.tn_ready_to_run_bmp = s.tn_ready_to_run_bmp
      /\ r.tn_next_task_to_run = s.tn_next_task_to_run
      /\ r.task_state = s.task_state /\ r.created = s.created
      /\ r.tick_count = s.tick_count /\ r.task_wait_reason = s.task_wait_reason
      /\ r.tn_tslice_ticks = s.tn_tslice_ticks
  BY <1>1 DEF KernelState
<1> HIDE DEF r
<1>6. Rdy(r) = R
  BY <1>5 DEF Rdy
<1> HIDE DEF R
<1>7. \A p \in Priority : At(r, R, p) = At(s, R, p)
  BY <1>2, <1>5 DEF At
<1>8. Sched(r, R)
  BY <1>1, <1>2, <1>5, <1>7 DEF Sched, ListsOK, Top, FirstInList
<1>9. TaskOK(r)
  BY <1>1, <1>3, <1>5 DEF TaskOK, Levels, Waiting
<1>10. QED
  BY <1>4, <1>5, <1>6, <1>8, <1>9, StopsSame DEF KernelOK, R, prios

LEMMA ChangePriorityOK ==
  ASSUME IInv, NEW t \in AppTask, NEW p \in Priority,
         tn_task_change_priority(t, p), ~Slices
  PROVE  IInv' /\ Stops(k, k', {})
<1> DEFINE new == IF p = 0 THEN BasePriority[t] ELSE p
           curr == tn_curr_run_task
<1>1. /\ tn_int_counter = 0 /\ pc \in {"init", "entry", "user"}
      /\ task_stk' \in [Task -> Place \ {"init"}] /\ t \in Task
      /\ new \in 1 .. TN_NUM_PRIORITY - 2 /\ new \in Priority
  BY Nodes, PriorityAssumption
  DEF tn_task_change_priority, Caller, IInv, Control, Priority
<1>2. /\ KernelOK(k) /\ k \in KernelState /\ Right(k) /\ curr \in Rdy(k)
      /\ k.tn_next_task_to_run = curr
  BY <1>1, CallerFacts DEF Right
<1> HIDE DEF new
<1>3. CASE /\ k.task_state[t] = "RUNNABLE"
           /\ k' = change_running_task_priority(k, t, new)
           /\ IF k'.tn_next_task_to_run # k.tn_next_task_to_run
              THEN Switches ELSE Returns
  <2>1. t \in Rdy(k) /\ Rdy(k) \in SUBSET Task /\ Sched(k, Rdy(k))
    BY <1>1, <1>2, <1>3 DEF Rdy, KernelOK
  <2>2. /\ k' \in KernelState /\ Sched(k', Rdy(k)) /\ OtherFields(k, k')
        /\ k'.task_state = k.task_state
        /\ k'.priority = [k.priority EXCEPT ![t] = new]
        /\ Agree(k.q, k'.q, OffLists(Rdy(k)))
    BY <1>1, <1>2, <1>3, <2>1, ChangeRunning
  <2>3. Rdy(k') = Rdy(k)
    BY <2>2 DEF Rdy
  <2>4. Levels(k')
    <3>1. Levels(k) /\ k.priority \in [Task -> Priority]
      BY <1>2 DEF KernelState, KernelOK, TaskOK
    <3>2. t \notin {tn_timer_task, tn_idle_task} /\ AppTask \subseteq Task
          /\ tn_timer_task \in Task /\ tn_idle_task \in Task
      BY Nodes
    <3>3. QED
      BY <1>1, <2>2, <3>1, <3>2 DEF Levels
  <2>5. TaskOK(k')
    BY <1>2, <2>2, <2>4 DEF KernelOK, TaskOK, Waiting, OtherFields
  <2>6. KernelOK(k') /\ Stops(k, k', {})
    <3>1. Waits(k') = Waits(k) /\ Rdy(k) \cap Waits(k) = {}
      BY <2>2 DEF Waits, Waiting, Rdy
    <3>2. Waits(k) \cup WaitQueue \subseteq OffLists(Rdy(k))
      BY <2>1, <3>1, WaitNodes
    <3>3. QED
      BY <2>2, <2>3, <2>5, <3>1, <3>2 DEF KernelOK, Stops, Agree, OtherFields
  <2>7. CASE k'.tn_next_task_to_run # k.tn_next_task_to_run
    BY <1>1, <1>3, <2>6, <2>7, AfterSwitches
  <2>8. CASE k'.tn_next_task_to_run = k.tn_next_task_to_run
    <3>1. Returns /\ curr' = curr
      BY <1>3, <2>8 DEF Returns
    <3>2. Right(k')
      BY <1>2, <2>2, <2>3, <2>8, <3>1 DEF Right, Sched
    <3>3. QED
      BY <1>1, <2>6, <3>1, <3>2, AfterReturn
  <2>9. QED
    BY <2>7, <2>8
<1>4. CASE /\ k.task_state[t] \notin {"RUNNABLE", "DORMANT"}
           /\ k' = [k EXCEPT !.priority[t] = new] /\ Returns
  <2>1. t \notin Rdy(k)
    BY <1>4 DEF Rdy
  <2>2. /\ KernelOK(k') /\ Rdy(k') = Rdy(k)
        /\ k'.tn_next_task_to_run = k.tn_next_task_to_run /\ Stops(k, k', {})
    BY <1>1, <1>2, <1>4, <2>1, OffListPriority
  <2>3. Top(k', Rdy(k'), k'.tn_next_task_to_run)
    BY <2>2 DEF KernelOK, Sched
  <2>4. curr' = curr
    BY <1>4 DEF Returns
  <2>5. Right(k')
    BY <1>2, <2>2, <2>3, <2>4 DEF Right
  <2>6. QED
    BY <1>1, <1>4, <2>2, <2>5, AfterReturn
<1>5. QED
  BY <1>3, <1>4 DEF tn_task_change_priority, new

LEMMA TSliceOK ==
  ASSUME IInv, NEW pri \in Priority, NEW v \in TSliceArgs,
         tn_sys_tslice_ticks(pri, v)
  PROVE  IInv' /\ Stops(k, k', {})
<1> DEFINE ticks == [k.tn_tslice_ticks EXCEPT ![pri] = v]
<1>1. /\ tn_int_counter = 0 /\ pc \in {"init", "entry", "user"}
      /\ task_stk' \in [Task -> Place \ {"init"}] /\ Returns
      /\ k' = [k EXCEPT !.tn_tslice_ticks[pri] = v]
  BY DEF tn_sys_tslice_ticks, Caller, IInv, Control
<1>2. KernelOK(k) /\ k \in KernelState /\ Right(k)
  BY <1>1, CallerFacts
<1>3. ticks \in [Priority -> Nat] /\ k' = [k EXCEPT !.tn_tslice_ticks = ticks]
  BY <1>1, <1>2, ArgumentAssumption DEF KernelState
<1>4. Slices \/ \A p \in Priority : ticks[p] = NO_TIME_SLICE
  BY <1>2 DEF KernelOK, TaskOK, KernelState, Slices
<1> HIDE DEF ticks
<1>5. /\ k' \in KernelState /\ SameLists(k, k') /\ k'.task_state = k.task_state
      /\ k'.created = k.created /\ k'.tick_count = k.tick_count
      /\ k'.task_wait_reason = k.task_wait_reason /\ k'.tn_tslice_ticks = ticks
  BY <1>2, <1>3 DEF KernelState, SameLists
<1>6. KernelOK(k') /\ Rdy(k') = Rdy(k) /\ Stops(k, k', {})
  BY <1>2, <1>4, <1>5, SmallChange
<1>7. Right(k')
  BY <1>1, <1>2, <1>5, <1>6 DEF Right, Top, SameLists, Returns
<1>8. QED
  BY <1>1, <1>6, <1>7, AfterReturn

-----------------------------------------------------------------------------
\* Interrupts and context switches.

LEMMA IrqEnterOK ==
  ASSUME IInv, IrqEnter
  PROVE  IInv'
<1>1. /\ tn_int_counter' = 1 /\ pc # "init"
      /\ UNCHANGED <<k, tn_curr_run_task, pc, task_stk,
                     tn_context_switch_request, tick_walk>>
  BY DEF IrqEnter
<1>2. QED
  BY <1>1 DEF IInv, Control, Settled, Right

\* A switch to tn_next_task_to_run, wherever that task resumes.
LEMMA SwitchOK ==
  ASSUME IInv, k' = k, tn_int_counter' = 0, tn_context_switch_request' = FALSE,
         tick_walk' = <<>>, tn_curr_run_task' = k.tn_next_task_to_run,
         task_stk' \in [Task -> Place \ {"init"}],
         pc' = task_stk'[k.tn_next_task_to_run]
  PROVE  IInv'
<1>1. KernelOK(k) /\ Top(k, Rdy(k), k.tn_next_task_to_run)
  BY DEF IInv, KernelOK, Sched
<1>2. k.tn_next_task_to_run \in Task
  BY <1>1 DEF Top, Rdy
<1>3. Right(k)'
  BY <1>1 DEF Right
<1>4. pc' \in Place \ {"init"}
  BY <1>2
<1>5. tn_int_counter' \in 0 .. 1
  OBVIOUS
<1>6. tick_walk' \in Seq(Task) /\ tick_walk' = <<>>
  OBVIOUS
<1>7. tn_context_switch_request' \in BOOLEAN /\ ~tn_context_switch_request'
  BY Zenon
<1>8. Control'
  BY <1>2, <1>3, <1>4, <1>5, <1>6, <1>7 DEF Control
<1>9. QED
  BY <1>1, <1>8 DEF IInv

LEMMA IrqExitOK ==
  ASSUME IInv, IrqExit
  PROVE  IInv'
<1>1. /\ k' = k /\ tick_walk' = tick_walk /\ tick_walk = <<>>
      /\ tn_int_counter' = 0 /\ tn_context_switch_request' = FALSE
      /\ tn_int_counter = 1
  BY DEF IrqExit, InHandler
<1>2. CASE tn_context_switch_request
  <2>1. /\ task_stk' = [task_stk EXCEPT ![tn_curr_run_task] = pc]
        /\ tn_curr_run_task' = k.tn_next_task_to_run
        /\ pc' = task_stk'[k.tn_next_task_to_run]
    BY <1>2 DEF IrqExit
  <2>2. pc \in Place \ {"init"}
    BY <1>1 DEF IInv, Control
  <2>3. task_stk' \in [Task -> Place \ {"init"}]
    BY <2>1, <2>2 DEF IInv, Control
  <2>4. QED
    BY <1>1, <2>1, <2>3, SwitchOK
<1>3. CASE ~tn_context_switch_request
  <2>1. UNCHANGED <<tn_curr_run_task, pc, task_stk>>
    BY <1>3 DEF IrqExit
  <2>2. Settled' <=> Settled
    BY <1>1, <1>3, <2>1 DEF Settled
  <2>3. Right(k)' <=> Right(k)
    BY <1>1, <2>1 DEF Right
  <2>4. tn_int_counter' \in 0 .. 1 /\ pc # "init"
    BY <1>1 DEF IInv, Control
  <2>5. tn_context_switch_request' \in BOOLEAN /\ ~tn_context_switch_request'
    BY <1>1, Zenon
  <2>6. QED
    BY <1>1, <2>1, <2>2, <2>3, <2>4, <2>5 DEF IInv, Control
<1>4. QED
  BY <1>2, <1>3

LEMMA TickOK ==
  ASSUME IInv, tn_tick_int_processing
  PROVE  IInv' /\ Stops(k, k', {})
<1>1. /\ tn_int_counter = 1 /\ k' = TimeSlice(k, tn_curr_run_task)
      /\ tick_walk' = k.tn_wait_timeout_list /\ HandlerCall(FALSE)
  BY DEF tn_tick_int_processing, InHandler
<1>2. KernelOK(k) /\ k \in KernelState /\ tn_curr_run_task \in Task
  BY DEF IInv, KernelOK, Control
<1>3. /\ KernelOK(k') /\ Rdy(k') = Rdy(k) /\ k'.priority = k.priority
      /\ k'.tn_next_task_to_run = k.tn_next_task_to_run /\ Stops(k, k', {})
  BY <1>1, <1>2, TimeSliceOK
<1>4. tick_walk' \in Seq(Task)
  BY <1>1, <1>2 DEF KernelState
<1>5. Right(k) => Right(k')
  BY <1>1, <1>3 DEF Right, Top, HandlerCall
<1>6. FALSE \in BOOLEAN
  BY Zenon
<1>7. QED
  BY <1>1, <1>3, <1>4, <1>5, <1>6, AfterHandlerCall

LEMMA TickEntryOK ==
  ASSUME IInv, TickEntry
  PROVE  IInv' /\ \E T : Stops(k, k', T)
<1> DEFINE t == Head(tick_walk)
           n == k.tick_count[t]
           counts == [k.tick_count EXCEPT ![t] = n - 1]
           s1 == [k EXCEPT !.tick_count[t] = @ - 1]
           s2 == task_wait_complete(s1, t)
           s3 == [s2 EXCEPT !.task_wait_rc[t] = "TERR_TIMEOUT"]
<1>1. /\ tick_walk # <<>> /\ tick_walk' = Tail(tick_walk)
      /\ tick_walk \in Seq(Task) /\ tn_int_counter = 1
      /\ KernelOK(k) /\ k \in KernelState /\ TaskOK(k)
  BY DEF TickEntry, IInv, Control, KernelOK
<1>2. t \in Task /\ tick_walk' \in Seq(Task)
  BY <1>1
<1>3. FALSE \in BOOLEAN /\ TRUE \in BOOLEAN
  BY Zenon
<1>4. CASE n <= 0
  <2>1. k' = k /\ HandlerCall(FALSE)
    BY <1>4 DEF TickEntry
  <2>2. Right(k) => Right(k')
    BY <2>1 DEF Right, HandlerCall
  <2>3. QED
    BY <1>1, <1>2, <1>3, <2>1, <2>2, AfterHandlerCall, StopsSame
<1>5. CASE ~(n <= 0)
  <2>1. n \in Nat /\ n > 0 /\ n # TN_WAIT_INFINITE
    BY <1>1, <1>2, <1>5 DEF KernelState, TN_WAIT_INFINITE
  <2>2. Waiting(k, t)
    BY <1>1, <1>2, <2>1 DEF TaskOK
  <2>3. counts \in [Task -> Nat \cup {TN_WAIT_INFINITE}]
    BY <1>1, <1>2, <2>1 DEF KernelState
  <2>4. s1 = [k EXCEPT !.tick_count = counts]
    BY <1>1 DEF KernelState
  <2>5. \A u \in Task : counts[u] # TN_WAIT_INFINITE => Waiting(k, u)
    BY <1>1, <2>2 DEF TaskOK, KernelState
  <2> HIDE DEF counts, s1
  <2>6. /\ s1 \in KernelState /\ SameLists(k, s1) /\ s1.created = k.created
        /\ s1.task_state = k.task_state /\ s1.tick_count = counts
        /\ s1.task_wait_reason = k.task_wait_reason
        /\ s1.tn_tslice_ticks = k.tn_tslice_ticks
    BY <1>1, <2>3, <2>4 DEF KernelState, SameLists
  <2>7. Rdy(s1) = Rdy(k) /\ TaskOK(s1)
    BY <1>1, <2>5, <2>6 DEF Rdy, TaskOK, Levels, Waiting, SameLists
  <2>8. KernelOK(s1) /\ Stops(k, s1, {})
    BY <1>1, <2>6, <2>7, KernelFrame, StopsSame DEF SameLists
  <2>9. Waiting(s1, t) /\ (Suspended(s1, t) <=> Suspended(k, t))
    BY <2>2, <2>6 DEF Waiting, Suspended
  <2>10. /\ KernelOK(s2) /\ s2.priority = s1.priority
         /\ Suspended(k, t) => SameLists(s1, s2) /\ Rdy(s2) = Rdy(s1)
         /\ Stops(k, s2, {t})
    BY <1>2, <2>8, <2>9, WaitComplete DEF Stops, Agree
  <2>11. CASE k' = s1 /\ HandlerCall(FALSE)
    <3>1. Right(k) => Right(k')
      BY <2>6, <2>7, <2>11 DEF Right, Top, SameLists, HandlerCall
    <3>2. QED
      BY <1>1, <1>2, <1>3, <2>8, <2>11, <3>1, AfterHandlerCall
  <2>12. CASE Suspended(k, t) /\ k' = s2 /\ HandlerCall(FALSE)
    <3> HIDE DEF s2
    <3>1. Right(k) => Right(k')
      BY <2>6, <2>7, <2>10, <2>12 DEF Right, Top, SameLists, HandlerCall
    <3>2. QED
      BY <1>1, <1>2, <1>3, <2>10, <2>12, <3>1, AfterHandlerCall
  <2>13. CASE k' = s3 /\ HandlerCall(TRUE)
    <3> HIDE DEF s2
    <3>1. s2 \in KernelState /\ TaskOK(s2)
      BY <2>10 DEF KernelOK
    <3>2. /\ s3 \in KernelState /\ SameLists(s2, s3) /\ s3.created = s2.created
          /\ s3.task_state = s2.task_state /\ s3.tick_count = s2.tick_count
          /\ s3.task_wait_reason = s2.task_wait_reason
          /\ s3.tn_tslice_ticks = s2.tn_tslice_ticks
      BY <1>2, <3>1 DEF KernelState, SameLists
    <3> HIDE DEF s3
    <3>3. Rdy(s3) = Rdy(s2) /\ TaskOK(s3)
      BY <3>1, <3>2 DEF Rdy, TaskOK, Levels, Waiting, SameLists
    <3>4. KernelOK(s3) /\ Stops(k, s3, {t})
      <4>1. Stops(s2, s3, {})
        BY <3>2, StopsSame DEF SameLists
      <4>2. QED
        BY <2>10, <3>2, <3>3, <4>1, KernelFrame DEF Stops, Agree
    <3>5. QED
      BY <1>1, <1>2, <1>3, <2>13, <3>4, AfterHandlerCall
  <2>14. QED
    BY <1>5, <2>11, <2>12, <2>13 DEF TickEntry, s1
<1>6. QED
  BY <1>4, <1>5

\* The wait of a task ends in a call of a handler.
LEMMA EndWaitInt ==
  ASSUME IInv, NEW t \in Task, InHandler, Waiting(k, t),
         k' = task_wait_complete(k, t), tick_walk' = tick_walk,
         HandlerCall(~Suspended(k, t))
  PROVE  IInv' /\ Stops(k, k', {t})
<1>1. /\ KernelOK(k) /\ tn_int_counter = 1 /\ tick_walk' \in Seq(Task)
  BY DEF IInv, InHandler, Control
<1>2. /\ KernelOK(k') /\ k'.priority = k.priority
      /\ Suspended(k, t) => SameLists(k, k') /\ Rdy(k') = Rdy(k)
      /\ Stops(k, k', {t})
  BY <1>1, WaitComplete
<1>3. (~Suspended(k, t)) \in BOOLEAN
  BY Zenon
<1>4. ~Suspended(k, t) \/ (Right(k) => Right(k'))
  BY <1>2 DEF Right, Top, SameLists, HandlerCall
<1>5. QED
  BY <1>1, <1>2, <1>3, <1>4, AfterHandlerCall

LEMMA IwakeupOK ==
  ASSUME IInv, NEW t \in AppTask, tn_task_iwakeup(t)
  PROVE  IInv' /\ \E T : Stops(k, k', T)
<1>1. t \in Task /\ InHandler /\ tick_walk' = tick_walk
  BY Nodes DEF tn_task_iwakeup
<1>2. CASE /\ Sleeping(t) /\ k' = task_wait_complete(k, t)
           /\ HandlerCall(~Suspended(k, t))
  BY <1>1, <1>2, EndWaitInt DEF Sleeping
<1>3. CASE CountWakeup /\ HandlerCall(FALSE)
  <2>1. /\ KernelOK(k) /\ tn_int_counter = 1 /\ tick_walk' \in Seq(Task)
        /\ tn_curr_run_task \in Task
    BY <1>1 DEF IInv, InHandler, Control
  <2>2. KernelOK(k') /\ Rdy(k') = Rdy(k) /\ SameLists(k, k') /\ Stops(k, k', {})
    BY <1>3, <2>1, CountedWakeups, 1 \in 0 .. 1 DEF CountWakeup
  <2>3. Right(k) => Right(k')
    BY <1>3, <2>2 DEF Right, Top, SameLists, HandlerCall
  <2>4. FALSE \in BOOLEAN
    BY Zenon
  <2>5. QED
    BY <1>3, <2>1, <2>2, <2>3, <2>4, AfterHandlerCall
<1>4. QED
  BY <1>2, <1>3 DEF tn_task_iwakeup

LEMMA IactivateOK ==
  ASSUME IInv, NEW t \in AppTask, tn_task_iactivate(t)
  PROVE  IInv' /\ Stops(k, k', {})
<1>1. /\ t \in Task /\ t \in k.created /\ tick_walk' = tick_walk
      /\ KernelOK(k) /\ tn_int_counter = 1 /\ tick_walk' \in Seq(Task)
  BY Nodes DEF tn_task_iactivate, IInv, InHandler, Control
<1>2. CASE k.task_state[t] = "DORMANT"
  <2> DEFINE request == k'.tn_next_task_to_run # tn_curr_run_task
  <2>1. k' = task_to_runnable(k, t) /\ HandlerCall(request)
    BY <1>2 DEF tn_task_iactivate
  <2>2. /\ KernelOK(k') /\ Rdy(k') = Rdy(k) \cup {t} /\ k'.priority = k.priority
        /\ k'.tn_next_task_to_run \in {t, k.tn_next_task_to_run} /\ Stops(k, k', {})
    BY <1>1, <1>2, <2>1, StartTask
  <2>3. request \in BOOLEAN
    BY Zenon
  <2>4. request \/ (Right(k) => Right(k'))
    <3> SUFFICES ASSUME k'.tn_next_task_to_run = tn_curr_run_task
                 PROVE  Right(k')
      OBVIOUS
    <3>1. Top(k', Rdy(k'), k'.tn_next_task_to_run)
      BY <2>2 DEF KernelOK, Sched
    <3>2. tn_curr_run_task' = tn_curr_run_task
      BY <2>1 DEF HandlerCall
    <3>3. QED
      BY <3>1, <3>2 DEF Right
  <2> HIDE DEF request
  <2>5. QED
    BY <1>1, <2>1, <2>2, <2>3, <2>4, AfterHandlerCall
<1>3. CASE k.task_state[t] # "DORMANT"
  <2>1. CountActivation(t) /\ HandlerCall(FALSE)
    BY <1>3 DEF tn_task_iactivate
  <2>2. KernelOK(k') /\ Rdy(k') = Rdy(k) /\ SameLists(k, k') /\ Stops(k, k', {})
    BY <1>1, <2>1, CountedActivation
  <2>3. Right(k) => Right(k')
    BY <2>1, <2>2 DEF Right, Top, SameLists, HandlerCall
  <2>4. FALSE \in BOOLEAN
    BY Zenon
  <2>5. QED
    BY <1>1, <2>1, <2>2, <2>3, <2>4, AfterHandlerCall
<1>4. QED
  BY <1>2, <1>3

LEMMA IreleaseWaitOK ==
  ASSUME IInv, NEW t \in AppTask, tn_task_irelease_wait(t)
  PROVE  IInv' /\ \E T : Stops(k, k', T)
BY EndWaitInt, Nodes DEF tn_task_irelease_wait

LEMMA ContextSwitchOK ==
  ASSUME IInv, ContextSwitch
  PROVE  IInv'
<1>1. /\ k' = k /\ tn_int_counter' = 0 /\ tn_int_counter = 0
      /\ tick_walk' = tick_walk
      /\ tn_context_switch_request' = tn_context_switch_request
      /\ tn_curr_run_task' = k.tn_next_task_to_run
      /\ pc' = task_stk'[k.tn_next_task_to_run]
  BY DEF ContextSwitch, tn_switch_context, tn_switch_context_exit, interrupts
<1>2. tick_walk = <<>>
  BY <1>1 DEF IInv, Control
<1>3. tn_context_switch_request' = FALSE
  <2>1. tn_context_switch_request \in BOOLEAN /\ ~tn_context_switch_request
    BY <1>1 DEF IInv, Control
  <2>2. QED
    BY <1>1, <2>1, Zenon
<1>4. task_stk' \in [Task -> Place \ {"init"}]
  BY DEF ContextSwitch, tn_switch_context, tn_switch_context_exit, IInv, Control,
         Place
<1>5. QED
  BY <1>1, <1>2, <1>3, <1>4, SwitchOK

LEMMA IntEnableOK ==
  ASSUME IInv, tn_cpu_int_enable
  PROVE  IInv'
BY DEF tn_cpu_int_enable, interrupts, IInv, Control, Settled, Right, Place

-----------------------------------------------------------------------------
\* Every step, and what the invariant implies.

\* Without an object to wait for, the tasks that wait are asleep.
Sleepers == \A t \in Waits(k) : k.task_wait_reason[t] = "SLEEP"

LEMMA SleepersStay ==
  ASSUME IInv, Sleepers,
         \/ \E T : Stops(k, k', T)
         \/ Begins(k, k', tn_curr_run_task, "SLEEP")
  PROVE  Sleepers'
<1>1. CASE \E T : Stops(k, k', T)
  <2>1. PICK T : Stops(k, k', T)
    BY <1>1
  <2>2. QED
    BY <2>1 DEF Stops, Sleepers
<1>2. CASE Begins(k, k', tn_curr_run_task, "SLEEP")
  BY <1>2 DEF Begins, Sleepers
<1>3. QED
  BY <1>1, <1>2

\* A task that is not asleep is terminated.
LEMMA TerminateAwake ==
  ASSUME IInv, Sleepers, NEW t \in AppTask, tn_task_terminate(t), ~Sleeping(t)
  PROVE  IInv' /\ Stops(k, k', {t})
<1>1. KernelOK(k) /\ t \in Task /\ ~Waiting(k, t)
  BY Nodes DEF IInv, Sleepers, Sleeping, Waits
<1> DEFINE d == Detach(k, t)
<1>2. Detached(k, d, t) /\ Stops(k, d, {})
  BY <1>1, DetachOK
<1>3. IInv' /\ Stops(d, k', {t})
  BY <1>2, TerminateOK
<1>4. QED
  BY <1>2, <1>3 DEF Stops, Agree

\* What every step does to the tasks that wait.
LEMMA StepOK ==
  ASSUME IInv, Sleepers, [DisciplinedNext]_vars
  PROVE  /\ IInv'
         /\ \/ \E T : Stops(k, k', T)
            \/ Begins(k, k', tn_curr_run_task, "SLEEP")
<1> DEFINE Goal == /\ IInv'
                   /\ \/ \E T : Stops(k, k', T)
                      \/ Begins(k, k', tn_curr_run_task, "SLEEP")
<1>s. k' = k => Stops(k, k', {})
  BY StopsSame
<1>1. CASE Startup
  <2>1. ASSUME NEW t \in AppTask, NEW start \in BOOLEAN, pc = "init",
               tn_task_create(t, start)
        PROVE  Goal
    BY <2>1, CreateOK
  <2>2. ASSUME NEW pri \in Priority, NEW v \in TSliceArgs, tn_sys_tslice_ticks(pri, v)
        PROVE  Goal
    BY <2>2, TSliceOK
  <2>3. CASE tn_cpu_int_enable
    BY <1>s, <2>3, IntEnableOK DEF tn_cpu_int_enable
  <2>4. QED
    BY <1>1, <2>1, <2>2, <2>3 DEF Startup
<1>2. CASE DisciplinedCall
  <2>1. ASSUME NEW t \in AppTask, Caller, tn_task_create(t, FALSE)
        PROVE  Goal
    BY <2>1, CreateOK
  <2>2. ASSUME NEW t \in AppTask, NEW p \in Priority,
               TSliceArgs \subseteq {NO_TIME_SLICE}, tn_task_change_priority(t, p)
        PROVE  Goal
    BY <2>2, ChangePriorityOK DEF Slices
  <2>3. ASSUME NEW t \in AppTask,
               \/ tn_task_suspend(t) \/ tn_task_resume(t)
               \/ tn_task_activate(t) \/ tn_task_delete(t)
        PROVE  Goal
    BY <2>3, SuspendOK, ResumeOK, ActivateOK, DeleteOK
  <2>4. ASSUME NEW t \in AppTask,
               \/ tn_task_wakeup(t) \/ tn_task_release_wait(t)
               \/ ~Sleeping(t) /\ tn_task_terminate(t)
        PROVE  Goal
    BY <2>4, WakeupOK, ReleaseWaitOK, TerminateAwake
  <2>5. CASE \E delete \in BOOLEAN :
                /\ delete => k.activate_count[tn_curr_run_task] = 0
                /\ tn_task_exit(delete)
    BY <2>5, ExitOK
  <2>6. CASE \E pri \in Priority, v \in TSliceArgs :
                Caller /\ tn_sys_tslice_ticks(pri, v)
    BY <2>6, TSliceOK
  <2>7. CASE SleepCall
    BY <2>7, SleepOK DEF SleepCall
  <2>8. QED
    BY <1>2, <2>1, <2>2, <2>3, <2>4, <2>5, <2>6, <2>7 DEF DisciplinedCall
<1>3. CASE Interrupt
  <2>1. CASE IrqEnter \/ IrqExit
    BY <1>s, <2>1, IrqEnterOK, IrqExitOK DEF IrqEnter, IrqExit
  <2>2. CASE tn_tick_int_processing \/ TickEntry
    BY <2>2, TickOK, TickEntryOK
  <2>3. ASSUME NEW t \in AppTask,
               tn_task_iwakeup(t) \/ tn_task_iactivate(t) \/ tn_task_irelease_wait(t)
        PROVE  Goal
    BY <2>3, IwakeupOK, IactivateOK, IreleaseWaitOK
  <2>4. QED
    BY <1>3, <2>1, <2>2, <2>3 DEF Interrupt
<1>4. CASE ContextSwitch
  <2>1. k' = k
    BY <1>4 DEF ContextSwitch, tn_switch_context, tn_switch_context_exit
  <2>2. QED
    BY <1>s, <1>4, <2>1, ContextSwitchOK
<1>5. CASE UNCHANGED vars
  BY <1>s, <1>5 DEF vars, IInv, Control, Settled, Right
<1>6. QED
  BY <1>1, <1>2, <1>3, <1>4, <1>5 DEF DisciplinedNext

\* The invariant holds of every disciplined application.
THEOREM Invariant == DisciplinedSpec => [](IInv /\ Sleepers)
<1>1. Init => Sleepers
  BY DEF Init, Sleepers, Waits, Waiting
<1>2. IInv /\ Sleepers /\ [DisciplinedNext]_vars => (IInv /\ Sleepers)'
  BY StepOK, SleepersStay
<1>3. QED
  BY <1>1, <1>2, InitOK, PTL DEF DisciplinedSpec

\* What the invariant says of the properties.
LEMMA TypesFrom ==
  ASSUME IInv
  PROVE  TypeOK
<1>1. task_stk \in [Task -> Place]
  BY DEF IInv, Control
<1>2. k.tn_next_task_to_run \in Task
  BY DEF IInv, KernelOK, Sched, Top
<1>3. QED
  BY <1>1, <1>2 DEF IInv, KernelOK, Control, TypeOK

LEMMA SchedulerFrom ==
  ASSUME IInv
  PROVE  SchedulerSound
<1>1. ReadyListsSound
  <2> SUFFICES ASSUME NEW p \in Priority
               PROVE  /\ \E s \in SetToSeqs(RunnableAt(p)) : IsRing(k.q, p, s)
                      /\ p \in k.tn_ready_to_run_bmp <=> RunnableAt(p) # {}
    BY DEF ReadyListsSound
  <2>1. /\ Queue(k.q, p, At(k, Rdy(k), p), Node)
        /\ p \in k.tn_ready_to_run_bmp <=> At(k, Rdy(k), p) # {}
    BY DEF IInv, KernelOK, Sched, ListsOK
  <2>2. RunnableAt(p) = At(k, Rdy(k), p)
    BY DEF RunnableAt, Runnable, At, Rdy
  <2>3. QED
    BY <2>1, <2>2, QueueOrder
<1>2. NoLostPreemption
  <2> SUFFICES ASSUME tn_int_counter = 0, pc \in {"init", "entry", "user"}
               PROVE  /\ tn_curr_run_task \in Runnable
                      /\ \A t \in Runnable :
                            k.priority[tn_curr_run_task] <= k.priority[t]
    BY DEF NoLostPreemption
  <2>1. Right(k)
    BY CallerFacts
  <2>2. QED
    BY <2>1 DEF Right, Top, Runnable, Rdy
<1>3. QED
  BY <1>1, <1>2 DEF SchedulerSound

\* Every variable keeps its type: in particular tn_next_task_to_run is never
\* NULL or the head of a list, and the wakeup and activation requests that
\* tn_task_wakeup and tn_task_activate count never exceed one.
THEOREM TypeCorrect == DisciplinedSpec => []TypeOK
BY TypesFrom, Invariant, PTL

\* The lists and the bitmap of tn_tasks.c: through every call, interrupt and
\* switch each ready list is an intact ring of exactly the runnable tasks of
\* its priority, and the bitmap names the lists that are not empty.
THEOREM ReadyListsCorrect == DisciplinedSpec => []ReadyListsSound
<1>1. IInv => ReadyListsSound
  BY SchedulerFrom DEF SchedulerSound
<1>2. QED
  BY <1>1, Invariant, PTL

\* tn_next_task_to_run, which five functions of tn_tasks.c maintain step by
\* step, is always a runnable task of the highest priority.
THEOREM NextCorrect == DisciplinedSpec => []NextIsHighest
<1>1. IInv => NextIsHighest
  BY DEF IInv, KernelOK, Sched, Top, NextIsHighest, Runnable, Rdy
<1>2. QED
  BY <1>1, Invariant, PTL

\* No preemption is lost: whenever a task runs outside the kernel and outside
\* interrupts, it is runnable and no runnable task has a higher priority.
THEOREM NoPreemptionLost == DisciplinedSpec => []NoLostPreemption
<1>1. IInv => NoLostPreemption
  BY SchedulerFrom DEF SchedulerSound
<1>2. QED
  BY <1>1, Invariant, PTL

-----------------------------------------------------------------------------
\* Timeouts and suspensions: the timeout list holds exactly the tasks that wait
\* with a finite timeout, and no end of a wait ends a suspension.

Timed(s) == {t \in Task : s.tick_count[t] # TN_WAIT_INFINITE}

\* The list and the counters agree on which timers run.
Listed(s) == /\ IsInjective(s.tn_wait_timeout_list)
             /\ Range(s.tn_wait_timeout_list) = Timed(s)

TimersOK(s) == Listed(s) /\ \A t \in Timed(s) : s.tick_count[t] > 0

SameTimers(s, r) == /\ r.tn_wait_timeout_list = s.tn_wait_timeout_list
                    /\ r.tick_count = s.tick_count

LEMMA TimersFrame ==
  ASSUME NEW s, NEW r, TimersOK(s), SameTimers(s, r)
  PROVE  TimersOK(r)
BY DEF TimersOK, Listed, Timed, SameTimers

-----------------------------------------------------------------------------
\* What the functions of tn_tasks.c do to the timers and to the task states.

LEMMA ToRunnableTimers ==
  ASSUME NEW s \in KernelState, NEW t \in Task
  PROVE  LET r == task_to_runnable(s, t)
         IN /\ SameTimers(s, r)
            /\ r.task_state = [s.task_state EXCEPT ![t] = "RUNNABLE"]
BY DEF task_to_runnable, KernelState, SameTimers

LEMMA ToNonRunnableTimers ==
  ASSUME NEW s \in KernelState, NEW t \in Task
  PROVE  LET r == task_to_non_runnable(s, t)
         IN SameTimers(s, r) /\ r.task_state = s.task_state
<1> DEFINE pri == s.priority[t]
           q1 == queue_remove_entry(s.q, t)
           s1 == [s EXCEPT !.q = q1]
           s2 == [s1 EXCEPT !.tn_ready_to_run_bmp = @ \ {pri}]
           Next1(n) == [s1 EXCEPT !.tn_next_task_to_run = n]
           Next2(n) == [s2 EXCEPT !.tn_next_task_to_run = n]
           Kept(r) == SameTimers(s, r) /\ r.task_state = s.task_state
           r0 == task_to_non_runnable(s, t)
<1>1. Kept(s1)
  <2> HIDE DEF q1, pri
  <2>1. QED
    BY DEF KernelState, SameTimers
<1>2. \A n : Kept(Next1(n)) /\ Kept(Next2(n))
  <2> HIDE DEF q1, pri
  <2>1. QED
    BY DEF KernelState, SameTimers
<1>3. r0 = IF is_queue_empty(q1, pri)
           THEN IF s2.tn_ready_to_run_bmp = {}
                THEN Next2(NULL)
                ELSE Next2(s2.q.next[ffs_asm(s2.tn_ready_to_run_bmp)])
           ELSE IF s1.tn_next_task_to_run = t THEN Next1(q1.next[pri]) ELSE s1
  BY DEF task_to_non_runnable, find_next_task_to_run
<1> HIDE DEF r0, Next1, Next2, s1, s2, q1, pri
<1> HIDE DEF Kept
<1>4. Kept(r0)
  BY <1>1, <1>2, <1>3
<1>5. QED
  BY <1>4 DEF Kept, r0

LEMMA StopTimerListed ==
  ASSUME NEW s \in KernelState, Listed(s), NEW t \in Task
  PROVE  LET r == StopTimer(s, t)
         IN /\ r \in KernelState /\ Listed(r) /\ r.task_state = s.task_state
            /\ r.tick_count = [s.tick_count EXCEPT ![t] = TN_WAIT_INFINITE]
<1> DEFINE r == StopTimer(s, t)
           list == RemoveFirst(s.tn_wait_timeout_list, t)
           ticks == [s.tick_count EXCEPT ![t] = TN_WAIT_INFINITE]
<1>1. /\ r \in KernelState /\ r.task_state = s.task_state
      /\ r.tick_count = ticks
  BY StopTimerOnly
<1>2. /\ s.tick_count \in [Task -> Nat \cup {TN_WAIT_INFINITE}]
      /\ s.tn_wait_timeout_list \in Seq(Task)
  BY DEF KernelState
<1>3. Timed(r) = Timed(s) \ {t}
  BY <1>1, <1>2 DEF Timed
<1>4. IsInjective(list) /\ Range(list) = Timed(s) \ {t}
  BY <1>2, RemoveFirstEntries DEF Listed
<1>5. r.tn_wait_timeout_list = IF s.tick_count[t] = TN_WAIT_INFINITE
                               THEN s.tn_wait_timeout_list ELSE list
  BY DEF StopTimer, KernelState
<1>6. CASE s.tick_count[t] = TN_WAIT_INFINITE
  <2>1. Timed(s) \ {t} = Timed(s)
    BY <1>6 DEF Timed
  <2>2. QED
    BY <1>1, <1>3, <1>5, <1>6, <2>1 DEF Listed
<1>7. CASE s.tick_count[t] # TN_WAIT_INFINITE
  BY <1>1, <1>3, <1>4, <1>5, <1>7 DEF Listed
<1>8. QED
  BY <1>6, <1>7

LEMMA WaitCompleteTimers ==
  ASSUME NEW s \in KernelState, Listed(s), NEW t \in Task
  PROVE  LET r == task_wait_complete(s, t)
         IN /\ Listed(r)
            /\ r.tick_count = [s.tick_count EXCEPT ![t] = TN_WAIT_INFINITE]
            /\ r.task_state = [s.task_state EXCEPT ![t] =
                                  IF Suspended(s, t) THEN "SUSPEND" ELSE "RUNNABLE"]
<1> DEFINE s0 == StopTimer(s, t)
           s1 == [s0 EXCEPT !.task_wait_reason[t] = "none",
                            !.task_wait_rc[t] = "TERR_NO_ERR"]
           r == task_wait_complete(s, t)
<1>1. /\ s0 \in KernelState /\ Listed(s0) /\ s0.task_state = s.task_state
      /\ s0.tick_count = [s.tick_count EXCEPT ![t] = TN_WAIT_INFINITE]
  BY StopTimerListed
<1>2. r = IF Suspended(s, t) THEN [s1 EXCEPT !.task_state[t] = "SUSPEND"]
                             ELSE task_to_runnable(s1, t)
  BY DEF task_wait_complete
<1> HIDE DEF s0, r
<1>3. /\ s1 \in KernelState /\ SameTimers(s0, s1) /\ s1.task_state = s0.task_state
  BY <1>1 DEF KernelState, SameTimers
<1> HIDE DEF s1
<1>4. /\ SameTimers(s1, r)
      /\ r.task_state = [s1.task_state EXCEPT ![t] =
                            IF Suspended(s, t) THEN "SUSPEND" ELSE "RUNNABLE"]
  <2>1. CASE Suspended(s, t)
    BY <1>2, <1>3, <2>1 DEF KernelState, SameTimers
  <2>2. CASE ~Suspended(s, t)
    BY <1>2, <1>3, <2>2, ToRunnableTimers
  <2>3. QED
    BY <2>1, <2>2
<1>5. QED
  BY <1>1, <1>3, <1>4 DEF SameTimers, Listed, Timed, r

\* The functions that start no timer and stop none that runs.
Quiet(s, r, t) == /\ SameTimers(s, r)
                  /\ \A u \in Task \ {t} : r.task_state[u] = s.task_state[u]

LEMMA SetDormantTimers ==
  ASSUME NEW s \in KernelState, NEW t \in Task,
         s.tick_count[t] = TN_WAIT_INFINITE
  PROVE  Quiet(s, task_set_dormant_state(s, t), t)
<1> DEFINE q1 == queue_reset(s.q, t)
<1>1. /\ s.tick_count \in [Task -> Nat \cup {TN_WAIT_INFINITE}]
      /\ s.task_state \in [Task -> {"RUNNABLE", "WAIT", "SUSPEND", "WAITSUSP", "DORMANT"}]
  BY DEF KernelState
<1>2. s.tick_count = [s.tick_count EXCEPT ![t] = TN_WAIT_INFINITE]
  BY <1>1
<1> HIDE DEF q1
<1>3. task_set_dormant_state(s, t)
        = [s EXCEPT !.q = q1, !.priority[t] = BasePriority[t],
                    !.task_state[t] = "DORMANT", !.task_wait_reason[t] = "none",
                    !.task_wait_rc[t] = "TERR_NO_ERR",
                    !.tick_count[t] = TN_WAIT_INFINITE,
                    !.wakeup_count[t] = 0, !.tslice_count[t] = 0]
  BY DEF task_set_dormant_state, q1
<1>4. LET r == task_set_dormant_state(s, t)
      IN /\ r.tn_wait_timeout_list = s.tn_wait_timeout_list
         /\ r.tick_count = [s.tick_count EXCEPT ![t] = TN_WAIT_INFINITE]
         /\ r.task_state = [s.task_state EXCEPT ![t] = "DORMANT"]
  BY <1>3 DEF KernelState
<1>5. QED
  BY <1>1, <1>2, <1>4 DEF Quiet, SameTimers

LEMMA ReactivateTimers ==
  ASSUME NEW s \in KernelState, NEW t \in Task
  PROVE  Quiet(s, Reactivate(s, t), t)
<1> DEFINE s1 == [s EXCEPT !.activate_count[t] = @ - 1]
<1>1. s.task_state \in [Task -> {"RUNNABLE", "WAIT", "SUSPEND", "WAITSUSP", "DORMANT"}]
      /\ s.activate_count \in [Task -> 0 .. 1]
  BY DEF KernelState
<1>2. CASE s.activate_count[t] > 0
  <2> DEFINE counts == [s.activate_count EXCEPT ![t] = @ - 1]
  <2>1. s.activate_count[t] - 1 \in 0 .. 1
    BY <1>1, <1>2
  <2>2. counts \in [Task -> 0 .. 1] /\ s1 = [s EXCEPT !.activate_count = counts]
    BY <1>1, <2>1 DEF KernelState
  <2> HIDE DEF counts, s1
  <2>3. s1 \in KernelState /\ SameTimers(s, s1) /\ s1.task_state = s.task_state
    BY <2>2 DEF KernelState, SameTimers
  <2>4. Reactivate(s, t) = task_to_runnable(s1, t)
    BY <1>2 DEF Reactivate, s1
  <2> DEFINE r == Reactivate(s, t)
  <2>5. SameTimers(s1, r) /\ r.task_state = [s1.task_state EXCEPT ![t] = "RUNNABLE"]
    BY <2>3, <2>4, ToRunnableTimers
  <2> HIDE DEF r
  <2>6. SameTimers(s, r)
    BY <2>3, <2>5 DEF SameTimers
  <2>7. \A u \in Task \ {t} : r.task_state[u] = s.task_state[u]
    BY <1>1, <2>3, <2>5
  <2>8. QED
    BY <2>6, <2>7 DEF Quiet, r
<1>3. CASE ~(s.activate_count[t] > 0)
  BY <1>3 DEF Reactivate, Quiet, SameTimers
<1>4. QED
  BY <1>2, <1>3

\* A task that does not wait ends, or is ended, and may start anew.
LEMMA EndTimers ==
  ASSUME NEW s, KernelOK(s), NEW t \in AppTask, ~Waiting(s, t), NEW d,
         d = Detach(s, t) \/ (t \in Rdy(s) /\ d = task_to_non_runnable(s, t))
  PROVE  Quiet(s, Reactivate(task_set_dormant_state(d, t), t), t)
<1> DEFINE s1 == task_set_dormant_state(d, t)
           r == Reactivate(s1, t)
<1>1. /\ s \in KernelState /\ t \in Task /\ s.tick_count[t] = TN_WAIT_INFINITE
  BY Nodes DEF KernelOK, TaskOK
<1>2. d \in KernelState /\ Sched(d, Rdy(d) \ {t}) /\ TaskOK(d)
  BY DetachOK DEF Detached
<1>3. SameTimers(s, d) /\ d.task_state = s.task_state
  <2>1. CASE d = task_to_non_runnable(s, t)
    BY <1>1, <2>1, ToNonRunnableTimers
  <2>2. CASE d = s
    BY <2>2 DEF SameTimers
  <2>3. QED
    BY <2>1, <2>2 DEF Detach
<1>4. s1 \in KernelState
  BY <1>2, SetDormant DEF KernelOK
<1>5. Quiet(d, s1, t)
  BY <1>1, <1>2, <1>3, SetDormantTimers DEF SameTimers
<1> HIDE DEF s1
<1>6. Quiet(s1, r, t)
  BY <1>1, <1>4, ReactivateTimers
<1>7. QED
  BY <1>3, <1>5, <1>6 DEF Quiet, SameTimers, s1

LEMMA ChangeRunningTimers ==
  ASSUME NEW s, KernelOK(s), NEW t \in Rdy(s), NEW new \in Priority, NEW r,
         r = change_running_task_priority(s, t, new)
  PROVE  SameTimers(s, r) /\ r.task_state = s.task_state
<1>1. /\ s \in KernelState /\ Rdy(s) \in SUBSET Task /\ Sched(s, Rdy(s))
      /\ t \in Rdy(s) /\ new \in Priority
  BY DEF KernelOK, Rdy
<1>2. /\ r \in KernelState /\ Sched(r, Rdy(s)) /\ OtherFields(s, r)
      /\ r.task_state = s.task_state
      /\ r.priority = [s.priority EXCEPT ![t] = new]
  BY <1>1, ChangeRunning
<1>3. QED
  BY <1>2 DEF OtherFields, SameTimers

LEMMA TimeSliceTimers ==
  ASSUME NEW s \in KernelState, NEW t \in Task
  PROVE  LET r == TimeSlice(s, t)
         IN SameTimers(s, r) /\ r.task_state = s.task_state
<1> DEFINE pri == s.priority[t]
           last == s.q.prev[pri]
           s0 == [s EXCEPT !.tslice_count[t] = 0]
           s1 == [s EXCEPT !.tslice_count[t] = @ + 1]
           q1 == queue_add_head(queue_remove_tail(s0.q, pri), pri, s0.q.prev[pri])
           s2 == [s0 EXCEPT !.q = q1]
           Kept(r) == SameTimers(s, r) /\ r.task_state = s.task_state
<1>1. Kept(s) /\ Kept(s0) /\ Kept(s1)
  BY DEF KernelState, SameTimers
<1>2. Kept(s2)
  <2> HIDE DEF q1
  <2>1. QED
    BY DEF KernelState, SameTimers
<1>3. TimeSlice(s, t) \in {s, s0, s1, s2}
  <2> HIDE DEF s0, s1, pri
  <2>1. RotateReadyList(s0, pri) \in {s0, s2}
    BY DEF RotateReadyList
  <2> HIDE DEF s2
  <2>2. TimeSlice(s, t) = s \/ TimeSlice(s, t) = RotateReadyList(s0, pri)
        \/ TimeSlice(s, t) = s1
    BY DEF TimeSlice, s0, s1, pri
  <2>3. QED
    BY <2>1, <2>2
<1> HIDE DEF Kept, s0, s1, s2
<1>4. Kept(TimeSlice(s, t))
  BY <1>1, <1>2, <1>3
<1>5. QED
  BY <1>4 DEF Kept

\* A runnable task goes to sleep: its timer starts if the timeout is finite.
LEMMA SleepTimers ==
  ASSUME NEW s, KernelOK(s), TimersOK(s), NEW t \in Rdy(s), t # tn_idle_task,
         NEW timeout \in Timeouts \cup {TN_WAIT_INFINITE}
  PROVE  LET r == task_curr_to_wait_action(s, t, NULL, "SLEEP", timeout)
         IN /\ TimersOK(r)
            /\ \A u \in Task \ {t} : r.task_state[u] = s.task_state[u]
<1> DEFINE s1 == task_to_non_runnable(s, t)
           s2 == [s1 EXCEPT !.task_state[t] = "WAIT",
                            !.task_wait_reason[t] = "SLEEP",
                            !.tick_count[t] = timeout]
           r == task_curr_to_wait_action(s, t, NULL, "SLEEP", timeout)
           list == s.tn_wait_timeout_list
<1>1. /\ s \in KernelState /\ Rdy(s) \in SUBSET Task /\ Sched(s, Rdy(s))
      /\ t \in Task /\ Rdy(s) \ {t} # {} /\ s.task_state[t] = "RUNNABLE"
  BY Nodes DEF KernelOK, Rdy, TaskOK
<1>2. s.tick_count[t] = TN_WAIT_INFINITE
  BY <1>1 DEF KernelOK, TaskOK, Waiting
<1>3. /\ s.tick_count \in [Task -> Nat \cup {TN_WAIT_INFINITE}]
      /\ s.task_state \in [Task -> {"RUNNABLE", "WAIT", "SUSPEND", "WAITSUSP", "DORMANT"}]
      /\ list \in Seq(Task)
  BY <1>1 DEF KernelState
<1>4. /\ s1 \in KernelState /\ SameTimers(s, s1) /\ s1.task_state = s.task_state
  BY <1>1, ToNonRunnable DEF OtherFields, SameTimers
<1> HIDE DEF s1
<1>5. /\ s2.tick_count = [s.tick_count EXCEPT ![t] = timeout]
      /\ s2.tn_wait_timeout_list = list
      /\ s2.task_state = [s.task_state EXCEPT ![t] = "WAIT"]
      /\ [s2 EXCEPT !.tn_wait_timeout_list = Append(@, t)].tick_count = s2.tick_count
      /\ [s2 EXCEPT !.tn_wait_timeout_list = Append(@, t)].task_state = s2.task_state
      /\ [s2 EXCEPT !.tn_wait_timeout_list = Append(@, t)].tn_wait_timeout_list
            = Append(list, t)
  BY <1>4 DEF KernelState, SameTimers
<1>6. r = IF timeout = TN_WAIT_INFINITE THEN s2
          ELSE [s2 EXCEPT !.tn_wait_timeout_list = Append(@, t)]
  BY DEF task_curr_to_wait_action, s1
<1> HIDE DEF s2, r
<1>7. /\ r.tick_count = [s.tick_count EXCEPT ![t] = timeout]
      /\ r.task_state = [s.task_state EXCEPT ![t] = "WAIT"]
      /\ r.tn_wait_timeout_list = IF timeout = TN_WAIT_INFINITE THEN list
                                  ELSE Append(list, t)
  BY <1>5, <1>6
<1>8. timeout = TN_WAIT_INFINITE \/ (timeout \in Nat /\ timeout > 0)
  BY ArgumentAssumption
<1>9. CASE timeout = TN_WAIT_INFINITE
  <2>1. r.tick_count = s.tick_count
    BY <1>2, <1>3, <1>7, <1>9
  <2>2. QED
    BY <1>3, <1>7, <1>9, <2>1, TimersFrame DEF SameTimers, r
<1>10. CASE timeout # TN_WAIT_INFINITE
  <2>1. Timed(r) = Timed(s) \cup {t}
    BY <1>1, <1>3, <1>7, <1>10 DEF Timed
  <2>2. /\ IsInjective(list) /\ Range(list) = Timed(s)
        /\ t \notin Range(list) /\ \A u \in Timed(s) : s.tick_count[u] > 0
    BY <1>2 DEF TimersOK, Listed, Timed
  <2>3. /\ IsInjective(Append(list, t))
        /\ Range(Append(list, t)) = Range(list) \cup {t}
    BY <1>1, <1>3, <2>2, AppendEntries
  <2>4. Listed(r)
    BY <1>7, <1>10, <2>1, <2>2, <2>3 DEF Listed
  <2>5. \A u \in Timed(r) : r.tick_count[u] > 0
    BY <1>1, <1>3, <1>7, <1>8, <1>10, <2>1, <2>2 DEF Timed
  <2>6. QED
    BY <1>3, <1>7, <2>4, <2>5 DEF TimersOK, r
<1>11. QED
  BY <1>9, <1>10

-----------------------------------------------------------------------------
\* The effect of each step on the timers and on suspended tasks.

\* No suspension ends, except perhaps that of t.
LastsBut(t) == \A u \in AppTask \ {t} : Suspended(k, u) => Suspended(k', u)
Lasts == \A u \in AppTask : Suspended(k, u) => Suspended(k', u)

LEMMA QuietStep ==
  ASSUME TimersOK(k), NEW t, Quiet(k, k', t)
  PROVE  TimersOK(k') /\ LastsBut(t)
BY TimersFrame, Nodes DEF Quiet, LastsBut, Suspended

\* The step changes the state of t alone, which is not suspended before it.
LEMMA LastsFromBut ==
  ASSUME NEW t, LastsBut(t), ~Suspended(k, t)
  PROVE  Lasts
BY DEF LastsBut, Lasts

LEMMA StillStep ==
  ASSUME TimersOK(k), SameTimers(k, k'), k'.task_state = k.task_state
  PROVE  TimersOK(k') /\ Lasts
BY TimersFrame DEF Lasts, Suspended

LEMMA CreateTimers ==
  ASSUME IInv, TimersOK(k), NEW t \in AppTask, NEW start \in BOOLEAN,
         tn_task_create(t, start)
  PROVE  TimersOK(k') /\ LastsBut(t)
<1> DEFINE s0 == [k EXCEPT !.created = @ \cup {t}, !.activate_count[t] = 0]
           s1 == task_set_dormant_state(s0, t)
           counts == [k.activate_count EXCEPT ![t] = 0]
           made == k.created \cup {t}
<1>1. KernelOK(k) /\ k \in KernelState /\ t \in Task /\ t \notin k.created
  BY Nodes DEF IInv, KernelOK, tn_task_create
<1>2. k.task_state[t] = "DORMANT" /\ k.tick_count[t] = TN_WAIT_INFINITE
      /\ t \notin Rdy(k)
  BY <1>1 DEF KernelOK, TaskOK, Waiting, Rdy
<1>3. /\ s0 \in KernelState /\ SameLists(k, s0) /\ s0.task_state = k.task_state
      /\ s0.created = made /\ SameTimers(k, s0)
      /\ s0.task_wait_reason = k.task_wait_reason
      /\ s0.tn_tslice_ticks = k.tn_tslice_ticks
  <2>1. counts \in [Task -> 0 .. 1] /\ made \in SUBSET Task
    BY <1>1 DEF KernelState
  <2>2. s0 = [k EXCEPT !.created = made, !.activate_count = counts]
    BY <1>1 DEF KernelState
  <2> HIDE DEF counts, s0, made
  <2>3. QED
    BY <1>1, <2>1, <2>2 DEF KernelState, SameLists, SameTimers
<1>4. k' = IF start THEN task_to_runnable(s1, t) ELSE s1
  BY DEF tn_task_create
<1> HIDE DEF s0
<1>5. Sched(s0, Rdy(s0) \ {t}) /\ TaskOK(s0)
  <2>1. Rdy(s0) \ {t} = Rdy(k)
    BY <1>2, <1>3 DEF Rdy
  <2>2. QED
    BY <1>1, <1>2, <1>3, <2>1, SchedFrame
    DEF KernelOK, TaskOK, Levels, Waiting, SameLists, SameTimers
<1>6. s1 \in KernelState
  BY <1>3, <1>5, SetDormant DEF KernelOK
<1>7. Quiet(s0, s1, t)
  BY <1>1, <1>2, <1>3, SetDormantTimers DEF SameTimers
<1> HIDE DEF s1
<1>8. Quiet(s1, k', t)
  <2>1. CASE start
    <3>1. k' = task_to_runnable(s1, t)
      BY <1>4, <2>1
    <3>2. /\ SameTimers(s1, k')
          /\ k'.task_state = [s1.task_state EXCEPT ![t] = "RUNNABLE"]
      BY <1>1, <1>6, <3>1, ToRunnableTimers
    <3>3. QED
      BY <1>6, <3>2 DEF Quiet, KernelState
  <2>2. CASE ~start
    <3>1. k' = s1
      BY <1>4, <2>2
    <3>2. QED
      BY <3>1 DEF Quiet, SameTimers
  <2>3. QED
    BY <2>1, <2>2
<1>9. Quiet(k, k', t)
  BY <1>3, <1>7, <1>8 DEF Quiet, SameTimers
<1>10. QED
  BY <1>9, QuietStep

LEMMA SuspendTimers ==
  ASSUME IInv, TimersOK(k), NEW t \in AppTask, tn_task_suspend(t)
  PROVE  TimersOK(k') /\ Lasts
<1>1. KernelOK(k) /\ k \in KernelState /\ t \in Task
  BY Nodes DEF IInv, KernelOK
<1> DEFINE s1 == [k EXCEPT !.task_state[t] = "SUSPEND"]
<1>2. ASSUME k.task_state[t] = "RUNNABLE", k' = task_to_non_runnable(s1, t)
      PROVE  Quiet(k, k', t) /\ ~Suspended(k, t)
  <2>1. /\ s1 \in KernelState /\ SameTimers(k, s1)
        /\ s1.task_state = [k.task_state EXCEPT ![t] = "SUSPEND"]
    BY <1>1 DEF KernelState, SameTimers
  <2> HIDE DEF s1
  <2>2. SameTimers(s1, k') /\ k'.task_state = s1.task_state
    BY <1>1, <1>2, <2>1, ToNonRunnableTimers
  <2>3. QED
    BY <1>1, <1>2, <2>1, <2>2 DEF Quiet, SameTimers, Suspended, KernelState
<1>3. ASSUME k.task_state[t] = "WAIT",
             k' = [k EXCEPT !.task_state[t] = "WAITSUSP"]
      PROVE  Quiet(k, k', t) /\ ~Suspended(k, t)
  BY <1>1, <1>3 DEF Quiet, SameTimers, Suspended, KernelState
<1>4. Quiet(k, k', t) /\ ~Suspended(k, t)
  BY <1>2, <1>3 DEF tn_task_suspend
<1>5. QED
  BY <1>4, QuietStep, LastsFromBut

LEMMA ResumeTimers ==
  ASSUME IInv, TimersOK(k), NEW t \in AppTask, tn_task_resume(t)
  PROVE  TimersOK(k') /\ LastsBut(t)
<1>1. k \in KernelState /\ t \in Task
  BY Nodes DEF IInv, KernelOK
<1>2. ASSUME k' = task_to_runnable(k, t)
      PROVE  Quiet(k, k', t)
  <2>1. SameTimers(k, k') /\ k'.task_state = [k.task_state EXCEPT ![t] = "RUNNABLE"]
    BY <1>1, <1>2, ToRunnableTimers
  <2>2. QED
    BY <1>1, <2>1 DEF Quiet, KernelState
<1>3. ASSUME k' = [k EXCEPT !.task_state[t] = "WAIT"]
      PROVE  Quiet(k, k', t)
  BY <1>1, <1>3 DEF Quiet, SameTimers, KernelState
<1>4. Quiet(k, k', t)
  BY <1>2, <1>3 DEF tn_task_resume
<1>5. QED
  BY <1>4, QuietStep

LEMMA SleepStep ==
  ASSUME IInv, TimersOK(k), NEW timeout \in Timeouts \cup {TN_WAIT_INFINITE},
         tn_task_sleep(timeout)
  PROVE  TimersOK(k') /\ Lasts
<1> DEFINE curr == tn_curr_run_task
<1>1. /\ tn_int_counter = 0 /\ pc \in {"init", "entry", "user"}
      /\ curr # tn_idle_task
  BY Nodes DEF tn_task_sleep, Caller
<1>2. /\ KernelOK(k) /\ k \in KernelState /\ curr \in Rdy(k) /\ curr \in Task
      /\ k.task_state[curr] = "RUNNABLE"
  BY <1>1, CallerFacts
<1>3. CASE k.wakeup_count[curr] > 0
  <2>1. k' = [k EXCEPT !.wakeup_count[curr] = @ - 1]
    BY <1>3 DEF tn_task_sleep
  <2>2. SameTimers(k, k') /\ k'.task_state = k.task_state
    BY <1>2, <2>1 DEF KernelState, SameTimers
  <2>3. QED
    BY <2>2, StillStep
<1>4. CASE ~(k.wakeup_count[curr] > 0)
  <2>1. k' = task_curr_to_wait_action(k, curr, NULL, "SLEEP", timeout)
    BY <1>4 DEF tn_task_sleep
  <2>2. /\ TimersOK(k')
        /\ \A u \in Task \ {curr} : k'.task_state[u] = k.task_state[u]
    BY <1>1, <1>2, <2>1, SleepTimers
  <2>3. QED
    BY <1>2, <2>2, Nodes DEF Lasts, Suspended
<1>5. QED
  BY <1>3, <1>4

\* Whoever ends the wait, a suspended task stays suspended.
LEMMA EndWaitTimers ==
  ASSUME IInv, TimersOK(k), NEW t \in Task, k' = task_wait_complete(k, t)
  PROVE  TimersOK(k') /\ Lasts
<1>1. k \in KernelState /\ Listed(k)
  BY DEF IInv, KernelOK, TimersOK
<1>2. /\ Listed(k')
      /\ k'.tick_count = [k.tick_count EXCEPT ![t] = TN_WAIT_INFINITE]
      /\ k'.task_state = [k.task_state EXCEPT ![t] =
                             IF Suspended(k, t) THEN "SUSPEND" ELSE "RUNNABLE"]
  BY <1>1, WaitCompleteTimers
<1>3. TimersOK(k')
  BY <1>1, <1>2 DEF TimersOK, Timed, KernelState
<1>4. Lasts
  BY <1>1, <1>2, Nodes DEF Lasts, Suspended, KernelState
<1>5. QED
  BY <1>3, <1>4

\* A request that is only counted.
LEMMA CountTimers ==
  ASSUME IInv, TimersOK(k), NEW t \in Task, CountWakeup \/ CountActivation(t)
  PROVE  TimersOK(k') /\ Lasts
<1>1. k \in KernelState
  BY DEF IInv, KernelOK
<1>2. SameTimers(k, k') /\ k'.task_state = k.task_state
  BY <1>1 DEF CountWakeup, CountActivation, KernelState, SameTimers
<1>3. QED
  BY <1>2, StillStep

LEMMA ActivateTimers ==
  ASSUME IInv, TimersOK(k), NEW t \in AppTask,
         \/ k.task_state[t] = "DORMANT" /\ k' = task_to_runnable(k, t)
         \/ CountActivation(t)
  PROVE  TimersOK(k') /\ Lasts
<1>1. k \in KernelState /\ t \in Task
  BY Nodes DEF IInv, KernelOK
<1>2. CASE k.task_state[t] = "DORMANT" /\ k' = task_to_runnable(k, t)
  <2>1. SameTimers(k, k') /\ k'.task_state = [k.task_state EXCEPT ![t] = "RUNNABLE"]
    BY <1>1, <1>2, ToRunnableTimers
  <2>2. Quiet(k, k', t) /\ ~Suspended(k, t)
    BY <1>1, <1>2, <2>1 DEF Quiet, Suspended, KernelState
  <2>3. QED
    BY <2>2, QuietStep, LastsFromBut
<1>3. CASE CountActivation(t)
  BY <1>1, <1>3, CountTimers
<1>4. QED
  BY <1>2, <1>3

LEMMA ExitTimers ==
  ASSUME IInv, TimersOK(k), NEW delete \in BOOLEAN, tn_task_exit(delete)
  PROVE  TimersOK(k') /\ Lasts
<1> DEFINE t == tn_curr_run_task
           s2 == Reactivate(task_set_dormant_state(task_to_non_runnable(k, t), t), t)
<1>1. tn_int_counter = 0 /\ pc \in {"init", "entry", "user"} /\ t \in AppTask
  BY DEF tn_task_exit, Caller
<1>2. /\ KernelOK(k) /\ t \in Rdy(k) /\ k.task_state[t] = "RUNNABLE"
  BY <1>1, CallerFacts
<1>3. ~Waiting(k, t) /\ ~Suspended(k, t)
  BY <1>2 DEF Waiting, Suspended
<1> DEFINE d == task_to_non_runnable(k, t)
           s1 == task_set_dormant_state(d, t)
<1>4. Quiet(k, s2, t)
  <2>1. t \in Rdy(k) /\ d = task_to_non_runnable(k, t)
    BY <1>2
  <2> HIDE DEF d
  <2>2. Quiet(k, Reactivate(task_set_dormant_state(d, t), t), t)
    BY <1>1, <1>2, <1>3, <2>1, EndTimers
  <2>3. QED
    BY <2>2 DEF d
<1>5. k' = IF delete THEN [s2 EXCEPT !.created = @ \ {t}] ELSE s2
  BY DEF tn_task_exit
<1>6. s2 \in KernelState
  <2>1. d \in KernelState /\ Sched(d, Rdy(d) \ {t}) /\ TaskOK(d) /\ d.created = k.created
    BY <1>1, <1>2, <1>3, DetachOK DEF Detached
  <2> HIDE DEF d
  <2>2. KernelOK(s1) /\ s1.task_state[t] = "DORMANT" /\ s1.created = d.created
    BY <1>1, <2>1, SetDormant
  <2>3. t \in k.created
    BY <1>1, CallerFacts
  <2> HIDE DEF s1
  <2>4. KernelOK(Reactivate(s1, t))
    BY <2>1, <2>2, <2>3, ReactivateOK
  <2>5. QED
    BY <2>4 DEF KernelOK, s1, d
<1> HIDE DEF s2
<1>7. Quiet(k, k', t)
  BY <1>4, <1>5, <1>6 DEF Quiet, SameTimers, KernelState
<1>8. QED
  BY <1>3, <1>7, QuietStep, LastsFromBut

LEMMA TerminateTimers ==
  ASSUME IInv, Sleepers, TimersOK(k), NEW t \in AppTask, tn_task_terminate(t), ~Sleeping(t)
  PROVE  TimersOK(k') /\ LastsBut(t)
<1> DEFINE d == Detach(k, t)
<1>1. KernelOK(k) /\ t \in Task
  BY Nodes DEF IInv
<1>2. ~Waiting(k, t)
  BY <1>1 DEF Sleeping, Sleepers, Waits
<1>3. k' = Reactivate(task_set_dormant_state(d, t), t) /\ d = Detach(k, t)
  BY DEF tn_task_terminate
<1> HIDE DEF d
<1>4. Quiet(k, k', t)
  BY <1>1, <1>2, <1>3, EndTimers
<1>5. QED
  BY <1>4, QuietStep

LEMMA DeleteTimers ==
  ASSUME IInv, TimersOK(k), NEW t \in AppTask, tn_task_delete(t)
  PROVE  TimersOK(k') /\ Lasts
<1>1. k \in KernelState /\ k' = [k EXCEPT !.created = @ \ {t}]
  BY DEF IInv, KernelOK, tn_task_delete
<1>2. SameTimers(k, k') /\ k'.task_state = k.task_state
  BY <1>1 DEF KernelState, SameTimers
<1>3. QED
  BY <1>2, StillStep

LEMMA ChangePriorityTimers ==
  ASSUME IInv, TimersOK(k), NEW t \in AppTask, NEW p \in Priority,
         tn_task_change_priority(t, p)
  PROVE  TimersOK(k') /\ Lasts
<1> DEFINE new == IF p = 0 THEN BasePriority[t] ELSE p
<1>1. KernelOK(k) /\ k \in KernelState /\ t \in Task /\ new \in Priority
  BY Nodes, PriorityAssumption DEF IInv, KernelOK
<1> HIDE DEF new
<1>2. ASSUME k.task_state[t] = "RUNNABLE",
             k' = change_running_task_priority(k, t, new)
      PROVE  SameTimers(k, k') /\ k'.task_state = k.task_state
  <2>1. t \in Rdy(k)
    BY <1>1, <1>2 DEF Rdy
  <2>2. QED
    BY <1>1, <1>2, <2>1, ChangeRunningTimers
<1>3. ASSUME k' = [k EXCEPT !.priority[t] = new]
      PROVE  SameTimers(k, k') /\ k'.task_state = k.task_state
  BY <1>1, <1>3 DEF KernelState, SameTimers
<1>4. SameTimers(k, k') /\ k'.task_state = k.task_state
  BY <1>2, <1>3 DEF tn_task_change_priority, new
<1>5. QED
  BY <1>4, StillStep

LEMMA SliceTicksTimers ==
  ASSUME IInv, TimersOK(k), NEW pri, NEW v, tn_sys_tslice_ticks(pri, v)
  PROVE  TimersOK(k') /\ Lasts
<1>1. k \in KernelState /\ k' = [k EXCEPT !.tn_tslice_ticks[pri] = v]
  BY DEF IInv, KernelOK, tn_sys_tslice_ticks
<1>2. SameTimers(k, k') /\ k'.task_state = k.task_state
  BY <1>1 DEF KernelState, SameTimers
<1>3. QED
  BY <1>2, StillStep

LEMMA TickTimers ==
  ASSUME IInv, TimersOK(k), tn_tick_int_processing
  PROVE  TimersOK(k') /\ Lasts
<1>1. /\ k \in KernelState /\ tn_curr_run_task \in Task
      /\ k' = TimeSlice(k, tn_curr_run_task)
  BY DEF IInv, KernelOK, Control, tn_tick_int_processing
<1>2. SameTimers(k, k') /\ k'.task_state = k.task_state
  BY <1>1, TimeSliceTimers
<1>3. QED
  BY <1>2, StillStep

LEMMA TickEntryTimers ==
  ASSUME IInv, TimersOK(k), TickEntry
  PROVE  TimersOK(k') /\ Lasts
<1> DEFINE t == Head(tick_walk)
           n == k.tick_count[t]
           counts == [k.tick_count EXCEPT ![t] = n - 1]
           s1 == [k EXCEPT !.tick_count[t] = @ - 1]
           s2 == task_wait_complete(s1, t)
           s3 == [s2 EXCEPT !.task_wait_rc[t] = "TERR_TIMEOUT"]
<1>1. /\ tick_walk # <<>> /\ tick_walk \in Seq(Task)
      /\ KernelOK(k) /\ k \in KernelState
  BY DEF TickEntry, IInv, Control, KernelOK
<1>2. t \in Task
  BY <1>1
<1>t. /\ k.tick_count \in [Task -> Nat \cup {TN_WAIT_INFINITE}]
      /\ k.task_state \in [Task -> {"RUNNABLE", "WAIT", "SUSPEND", "WAITSUSP", "DORMANT"}]
      /\ Listed(k) /\ \A u \in Timed(k) : k.tick_count[u] > 0
  BY <1>1 DEF KernelState, TimersOK
<1>3. CASE n <= 0
  <2>1. k' = k
    BY <1>3 DEF TickEntry
  <2>2. QED
    BY <2>1, StillStep DEF SameTimers
<1>4. CASE ~(n <= 0)
  <2>1. n \in Nat /\ n > 0 /\ n # TN_WAIT_INFINITE
    BY <1>2, <1>t, <1>4 DEF TN_WAIT_INFINITE
  <2>2. /\ counts \in [Task -> Nat \cup {TN_WAIT_INFINITE}]
        /\ n - 1 \in Nat /\ n - 1 # TN_WAIT_INFINITE
    <3> HIDE DEF n, t
    <3>1. n - 1 \in Nat /\ n - 1 # TN_WAIT_INFINITE
      BY <2>1 DEF TN_WAIT_INFINITE
    <3>2. counts \in [Task -> Nat \cup {TN_WAIT_INFINITE}]
      BY <1>t, <3>1
    <3>3. QED
      BY <3>1, <3>2
  <2>3. s1 = [k EXCEPT !.tick_count = counts]
    BY <1>1 DEF KernelState
  <2>4. \A u \in Task : counts[u] # TN_WAIT_INFINITE <=> k.tick_count[u] # TN_WAIT_INFINITE
    BY <1>2, <1>t, <2>1, <2>2
  <2> HIDE DEF s1
  <2>5. /\ s1 \in KernelState /\ s1.tick_count = counts
        /\ s1.tn_wait_timeout_list = k.tn_wait_timeout_list
        /\ s1.task_state = k.task_state
    <3> HIDE DEF counts
    <3>1. QED
      BY <1>1, <2>2, <2>3 DEF KernelState
  <2>6. Listed(s1)
    <3>1. Timed(s1) = Timed(k)
      BY <2>4, <2>5 DEF Timed
    <3>2. QED
      BY <1>t, <2>5, <3>1 DEF Listed
  <2>7. CASE n > 1 /\ k' = s1
    <3>1. \A u \in Timed(k') : k'.tick_count[u] > 0
      BY <1>2, <1>t, <2>1, <2>4, <2>5, <2>7 DEF Timed
    <3>2. QED
      BY <2>5, <2>6, <2>7, <3>1 DEF TimersOK, Lasts, Suspended
  <2>8. /\ Listed(s2)
        /\ s2.tick_count = [counts EXCEPT ![t] = TN_WAIT_INFINITE]
        /\ s2.task_state = [k.task_state EXCEPT ![t] =
                               IF Suspended(k, t) THEN "SUSPEND" ELSE "RUNNABLE"]
    <3>1. Suspended(s1, t) <=> Suspended(k, t)
      BY <2>5 DEF Suspended
    <3>2. LET r == task_wait_complete(s1, t)
          IN /\ Listed(r)
             /\ r.tick_count = [s1.tick_count EXCEPT ![t] = TN_WAIT_INFINITE]
             /\ r.task_state = [s1.task_state EXCEPT ![t] =
                                  IF Suspended(s1, t) THEN "SUSPEND" ELSE "RUNNABLE"]
      BY <1>2, <2>5, <2>6, WaitCompleteTimers
    <3> HIDE DEF counts, t
    <3>3. QED
      BY <2>5, <3>1, <3>2
  <2>9. /\ s3.tick_count = s2.tick_count /\ s3.task_state = s2.task_state
        /\ s3.tn_wait_timeout_list = s2.tn_wait_timeout_list
    <3>1. s2 \in KernelState
      <4>1. Waiting(k, t)
        BY <1>1, <1>2, <2>1 DEF KernelOK, TaskOK
      <4>2. KernelOK(s1)
        <5>1. /\ SameLists(k, s1) /\ s1.created = k.created
              /\ s1.task_wait_reason = k.task_wait_reason
              /\ s1.tn_tslice_ticks = k.tn_tslice_ticks
          BY <1>1, <2>3 DEF KernelState, SameLists
        <5>2. \A u \in Task : counts[u] # TN_WAIT_INFINITE => Waiting(k, u)
          BY <1>1, <2>4 DEF KernelOK, TaskOK
        <5> HIDE DEF counts
        <5>3. TaskOK(s1)
          BY <1>1, <2>5, <5>1, <5>2 DEF KernelOK, TaskOK, Levels, Waiting, SameLists
        <5>4. Rdy(s1) = Rdy(k)
          BY <2>5 DEF Rdy
        <5>5. QED
          BY <1>1, <2>5, <5>1, <5>3, <5>4, KernelFrame
      <4>3. Waiting(s1, t)
        BY <2>5, <4>1 DEF Waiting
      <4>4. KernelOK(s2)
        BY <1>2, <4>2, <4>3, WaitComplete
      <4>5. QED
        BY <4>4 DEF KernelOK
    <3> HIDE DEF s2, t
    <3>2. QED
      BY <3>1 DEF KernelState
  <2>10. CASE k' \in {s2, s3}
    <3> HIDE DEF s2, s3
    <3>1. /\ Listed(k')
          /\ k'.tick_count = [counts EXCEPT ![t] = TN_WAIT_INFINITE]
          /\ k'.task_state = [k.task_state EXCEPT ![t] =
                                 IF Suspended(k, t) THEN "SUSPEND" ELSE "RUNNABLE"]
      <4>1. CASE k' = s2
        BY <2>8, <4>1
      <4>2. CASE k' = s3
        <5>1. Timed(s3) = Timed(s2)
          BY <2>9 DEF Timed
        <5>2. QED
          BY <2>8, <2>9, <4>2, <5>1 DEF Listed
      <4>3. QED
        BY <2>10, <4>1, <4>2
    <3>2. \A u \in Timed(k') : k'.tick_count[u] > 0
      BY <1>2, <1>t, <2>1, <2>2, <2>4, <3>1 DEF Timed
    <3>3. Lasts
      BY <1>t, <1>2, <3>1, Nodes DEF Lasts, Suspended
    <3>4. QED
      BY <3>1, <3>2, <3>3 DEF TimersOK
  <2>11. \/ n > 1 /\ k' = s1
         \/ k' \in {s2, s3}
    BY <1>4 DEF TickEntry, s1
  <2>12. QED
    BY <2>7, <2>10, <2>11
<1>5. QED
  BY <1>3, <1>4

-----------------------------------------------------------------------------
\* Every step, and the theorems.

\* The calls that may end the suspension of t.
Ends(t) == \/ tn_task_resume(t) \/ tn_task_terminate(t)
           \/ tn_task_create(t, TRUE) \/ tn_task_create(t, FALSE)
Lasting == \A t \in AppTask : Suspended(k, t) /\ ~Suspended(k', t) => Ends(t)

LEMMA LastingFrom ==
  ASSUME NEW t \in AppTask, LastsBut(t), Ends(t)
  PROVE  Lasting
BY DEF LastsBut, Lasting

LEMMA TimerStep ==
  ASSUME IInv, Sleepers, TimersOK(k), [DisciplinedNext]_vars
  PROVE  TimersOK(k') /\ Lasting
<1> DEFINE Good == TimersOK(k') /\ Lasting
<1> SUFFICES Good
  OBVIOUS
<1>0. TimersOK(k') /\ Lasts => Good
  BY DEF Lasts, Lasting
<1> HIDE DEF Good
<1>c. ASSUME NEW t \in AppTask, NEW start \in BOOLEAN, tn_task_create(t, start)
      PROVE  Good
  <2>1. TimersOK(k') /\ LastsBut(t)
    BY <1>c, CreateTimers
  <2>2. Ends(t)
    <3>1. start = TRUE \/ start = FALSE
      BY Zenon
    <3>2. QED
      BY <1>c, <3>1, Zenon DEF Ends
  <2>3. QED
    BY <2>1, <2>2, LastingFrom DEF Good
<1>s. ASSUME NEW pri, NEW v, tn_sys_tslice_ticks(pri, v)
      PROVE  Good
  BY <1>s, <1>0, SliceTicksTimers
<1>1. CASE Startup
  <2>1. CASE tn_cpu_int_enable
    <3>1. k' = k
      BY <2>1 DEF tn_cpu_int_enable
    <3>2. QED
      BY <1>0, <3>1, StillStep DEF SameTimers
  <2>2. QED
    BY <1>1, <1>c, <1>s, <2>1 DEF Startup
<1>2. CASE DisciplinedCall
  <2>1. ASSUME NEW t \in AppTask, tn_task_suspend(t)
        PROVE  Good
    BY <1>0, <2>1, SuspendTimers
  <2>2. ASSUME NEW t \in AppTask, tn_task_resume(t)
        PROVE  Good
    BY <2>2, ResumeTimers, LastingFrom DEF Ends, Good
  <2>3. ASSUME NEW t \in AppTask, tn_task_wakeup(t)
        PROVE  Good
    <3>1. t \in Task
      BY Nodes
    <3>2. k' = task_wait_complete(k, t) \/ CountWakeup
      BY <2>3 DEF tn_task_wakeup
    <3>3. QED
      BY <1>0, <3>1, <3>2, EndWaitTimers, CountTimers
  <2>4. ASSUME NEW t \in AppTask, tn_task_activate(t)
        PROVE  Good
    BY <1>0, <2>4, ActivateTimers DEF tn_task_activate
  <2>5. ASSUME NEW t \in AppTask, tn_task_release_wait(t)
        PROVE  Good
    BY <1>0, <2>5, EndWaitTimers, Nodes DEF tn_task_release_wait
  <2>6. ASSUME NEW t \in AppTask, ~Sleeping(t), tn_task_terminate(t)
        PROVE  Good
    BY <2>6, TerminateTimers, LastingFrom DEF Ends, Good
  <2>7. ASSUME NEW t \in AppTask, tn_task_delete(t)
        PROVE  Good
    BY <1>0, <2>7, DeleteTimers
  <2>8. ASSUME NEW t \in AppTask, NEW p \in Priority, tn_task_change_priority(t, p)
        PROVE  Good
    BY <1>0, <2>8, ChangePriorityTimers
  <2>9. ASSUME NEW delete \in BOOLEAN, tn_task_exit(delete)
        PROVE  Good
    BY <1>0, <2>9, ExitTimers
  <2>10. CASE SleepCall
    BY <1>0, <2>10, SleepStep DEF SleepCall
  <2>11. FALSE \in BOOLEAN
    BY Zenon
  <2>12. QED
    BY <1>2, <1>c, <1>s, <2>1, <2>2, <2>3, <2>4, <2>5, <2>6, <2>7, <2>8, <2>9,
       <2>10, <2>11 DEF DisciplinedCall
<1>3. CASE Interrupt
  <2>1. CASE IrqEnter \/ IrqExit
    <3>1. k' = k
      BY <2>1 DEF IrqEnter, IrqExit
    <3>2. QED
      BY <1>0, <3>1, StillStep DEF SameTimers
  <2>2. CASE tn_tick_int_processing
    BY <1>0, <2>2, TickTimers
  <2>3. CASE TickEntry
    BY <1>0, <2>3, TickEntryTimers
  <2>4. ASSUME NEW t \in AppTask, tn_task_iwakeup(t)
        PROVE  Good
    <3>1. t \in Task
      BY Nodes
    <3>2. k' = task_wait_complete(k, t) \/ CountWakeup
      BY <2>4 DEF tn_task_iwakeup
    <3>3. QED
      BY <1>0, <3>1, <3>2, EndWaitTimers, CountTimers
  <2>5. ASSUME NEW t \in AppTask, tn_task_iactivate(t)
        PROVE  Good
    BY <1>0, <2>5, ActivateTimers DEF tn_task_iactivate
  <2>6. ASSUME NEW t \in AppTask, tn_task_irelease_wait(t)
        PROVE  Good
    BY <1>0, <2>6, EndWaitTimers, Nodes DEF tn_task_irelease_wait
  <2>7. QED
    BY <1>3, <2>1, <2>2, <2>3, <2>4, <2>5, <2>6 DEF Interrupt
<1>4. CASE ContextSwitch \/ UNCHANGED vars
  <2>1. k' = k
    BY <1>4 DEF ContextSwitch, tn_switch_context, tn_switch_context_exit, vars
  <2>2. QED
    BY <1>0, <2>1, StillStep DEF SameTimers
<1>5. QED
  BY <1>1, <1>2, <1>3, <1>4 DEF DisciplinedNext

LEMMA TimersInit == Init => TimersOK(k)
<1> SUFFICES ASSUME Init
             PROVE  TimersOK(k)
  OBVIOUS
<1>1. /\ k.tn_wait_timeout_list = <<>>
      /\ k.tick_count = [t \in Task |-> TN_WAIT_INFINITE]
  BY DEF Init
<1>2. Timed(k) = {}
  BY <1>1 DEF Timed
<1>3. IsInjective(<<>>) /\ Range(<<>>) = {}
  BY DEF IsInjective, Range
<1>4. QED
  BY <1>1, <1>2, <1>3 DEF TimersOK, Listed

LEMMA TimersAlways == DisciplinedSpec => [](IInv /\ Sleepers /\ TimersOK(k))
<1>1. IInv /\ Sleepers /\ TimersOK(k) /\ [DisciplinedNext]_vars => TimersOK(k)'
  BY TimerStep
<1>2. QED
  BY <1>1, Invariant, TimersInit, PTL DEF DisciplinedSpec

\* The timeout list of tn_tasks.c and tn.c: whatever calls and handlers end a
\* wait that the tick is about to end, the list holds exactly the tasks that
\* wait with a finite timeout, each once, and each has ticks left to count.
THEOREM TimeoutsCorrect == DisciplinedSpec => []TimeoutListExact
<1>1. IInv /\ TimersOK(k) => TimeoutListExact
  <2> SUFFICES ASSUME IInv, TimersOK(k)
               PROVE  TimeoutListExact
    OBVIOUS
  <2> DEFINE list == k.tn_wait_timeout_list
  <2>1. /\ IsInjective(list) /\ Range(list) = Timed(k)
        /\ \A t \in Timed(k) : k.tick_count[t] > 0
    BY DEF TimersOK, Listed
  <2>2. \A t \in Timed(k) : Waiting(k, t)
    BY DEF IInv, KernelOK, TaskOK, Timed
  <2>3. Timed(k) = {t \in Task : Waiting(k, t) /\ k.tick_count[t] # TN_WAIT_INFINITE}
    BY <2>2 DEF Timed
  <2>4. \A t \in Task \ Timed(k) : k.tick_count[t] = TN_WAIT_INFINITE
    BY DEF Timed
  <2>5. QED
    BY <2>1, <2>3, <2>4 DEF TimeoutListExact
<1>2. QED
  BY <1>1, TimersAlways, PTL

\* A task that tn_task_suspend has suspended stays suspended, whatever ends
\* its wait, until tn_task_resume or until it is started anew.
THEOREM SuspensionsLast == DisciplinedSpec => SuspensionLasts
<1>1. IInv /\ Sleepers /\ TimersOK(k) /\ [DisciplinedNext]_vars =>
        [\A t \in AppTask : Suspended(k, t) /\ ~Suspended(k', t) =>
           tn_task_resume(t) \/ tn_task_terminate(t) \/ tn_task_create(t, TRUE)
                             \/ tn_task_create(t, FALSE)]_vars
  BY TimerStep DEF Lasting, Ends
<1>2. QED
  BY <1>1, TimersAlways, PTL DEF DisciplinedSpec, SuspensionLasts

-----------------------------------------------------------------------------
\* The wait queues of an object, in the calls of TNObjects.

\* The tasks of s that wait for this reason.
On(s, reason) == {t \in Waits(s) : s.task_wait_reason[t] = reason}

\* They wait on que, in the order w.
Line(s, que, reason, w) == Holds(s.q, que, w, Node) /\ Range(w) = On(s, reason)

\* From s to r nothing changes but on que and for its reason.
Apart(s, r, que, reason) ==
  /\ \A x : x # reason => On(r, x) = On(s, x)
  /\ \A p \in WaitQueue \ {que} : \A x, w :
        x # reason /\ Line(s, p, x, w) => Line(r, p, x, w)

\* The line is what the properties of TNObjects are about.
LEMMA LineChoice ==
  ASSUME NEW s, NEW que, NEW reason, NEW w, Line(s, que, reason, w)
  PROVE  /\ \E u \in SetToSeqs(On(s, reason)) : IsRing(s.q, que, u)
         /\ (CHOOSE u \in SetToSeqs(On(s, reason)) : IsRing(s.q, que, u)) = w
<1>1. Queue(s.q, que, Range(w), Node) /\ Range(w) = On(s, reason)
  BY DEF Line, Queue
<1>2. \E u \in SetToSeqs(Range(w)) : IsRing(s.q, que, u)
  BY <1>1, QueueOrder
<1>3. \A u \in SetToSeqs(Range(w)) : IsRing(s.q, que, u) => u = w
  BY RingUnique DEF Line
<1>4. QED
  BY <1>1, <1>2, <1>3

LEMMA LineOrder ==
  ASSUME NEW que, NEW reason, NEW w, Line(k, que, reason, w)
  PROVE  /\ Waiters(reason) = Range(w)
         /\ WaitListSound(que, reason) /\ Order(que, reason) = w
<1>1. Waiters(reason) = On(k, reason)
  BY DEF Waiters, On, Waits
<1>2. /\ \E u \in SetToSeqs(On(k, reason)) : IsRing(k.q, que, u)
      /\ (CHOOSE u \in SetToSeqs(On(k, reason)) : IsRing(k.q, que, u)) = w
  BY LineChoice
<1>3. QED
  BY <1>1, <1>2, Zenon DEF WaitListSound, Order, Line

\* The kernel reads the links of the ready lists only.
LEMMA LinksFrame ==
  ASSUME NEW s, KernelOK(s), NEW q \in Links(Node), Agree(s.q, q, Rdy(s) \cup Priority)
  PROVE  LET r == [s EXCEPT !.q = q]
         IN /\ KernelOK(r) /\ Rdy(r) = Rdy(s) /\ Waits(r) = Waits(s)
            /\ \A x : On(r, x) = On(s, x)
<1> DEFINE r == [s EXCEPT !.q = q]
<1>1. s \in KernelState /\ r \in KernelState
  BY DEF KernelOK, KernelState, Links
<1>2. /\ r.q = q /\ r.priority = s.priority /\ r.task_state = s.task_state
      /\ r.tn_ready_to_run_bmp = s.tn_ready_to_run_bmp
      /\ r.tn_next_task_to_run = s.tn_next_task_to_run
      /\ r.created = s.created /\ r.task_wait_reason = s.task_wait_reason
      /\ r.tick_count = s.tick_count /\ r.tn_tslice_ticks = s.tn_tslice_ticks
  BY <1>1 DEF KernelState
<1> HIDE DEF r
<1>3. Rdy(r) = Rdy(s) /\ Waits(r) = Waits(s) /\ \A x : On(r, x) = On(s, x)
  BY <1>2 DEF Rdy, Waits, Waiting, On
<1>4. TaskOK(r)
  BY <1>2 DEF KernelOK, TaskOK, Levels, Waiting
<1>5. ListsOK(r, Rdy(s))
  <2> SUFFICES ASSUME NEW p \in Priority
               PROVE  /\ Queue(r.q, p, At(r, Rdy(s), p), Node)
                      /\ p \in r.tn_ready_to_run_bmp <=> At(r, Rdy(s), p) # {}
    BY DEF ListsOK
  <2>1. /\ Queue(s.q, p, At(s, Rdy(s), p), Node)
        /\ p \in s.tn_ready_to_run_bmp <=> At(s, Rdy(s), p) # {}
    BY DEF KernelOK, Sched, ListsOK
  <2>2. At(r, Rdy(s), p) = At(s, Rdy(s), p)
    BY <1>2 DEF At
  <2>3. Agree(s.q, r.q, At(s, Rdy(s), p) \cup {p})
    BY <1>2 DEF Agree, At
  <2>4. QED
    BY <1>2, <2>1, <2>2, <2>3, QueueFrame
<1>6. Top(r, Rdy(s), r.tn_next_task_to_run) /\ FirstInList(r)
  <2>1. Top(s, Rdy(s), s.tn_next_task_to_run) /\ FirstInList(s)
    BY DEF KernelOK, Sched
  <2>2. s.priority[s.tn_next_task_to_run] \in Priority
    BY <1>1, <2>1 DEF Top, Rdy, KernelState
  <2>3. QED
    BY <1>2, <2>1, <2>2 DEF Top, FirstInList, Agree
<1>7. Rdy(s) \subseteq Task
  BY DEF Rdy
<1>8. QED
  BY <1>1, <1>3, <1>4, <1>5, <1>6, <1>7 DEF KernelOK, Sched, r

\* Queues and the tasks on them are no ready lists and on none.
LEMMA WaitNodesApart ==
  ASSUME NEW s, NEW que \in WaitQueue, NEW reason
  PROVE  /\ que \notin Task \cup Priority /\ que \in Node /\ que # NULL
         /\ On(s, reason) \cap (Rdy(s) \cup Priority) = {}
         /\ On(s, reason) \subseteq Waits(s) /\ Waits(s) \subseteq Task
         /\ \A x : x # reason => On(s, x) \cap On(s, reason) = {}
<1>1. Waits(s) \cap Rdy(s) = {}
  BY DEF Waits, Waiting, Rdy
<1>2. QED
  BY <1>1, TaskAssumption DEF On, Waits, Node

\* A line stays when no node of it changes.
LEMMA LineFrame ==
  ASSUME NEW s, NEW r, NEW que \in WaitQueue, NEW reason, NEW w,
         Holds(s.q, que, w, Node), Range(w) = On(r, reason),
         Agree(s.q, r.q, Range(w) \cup {que})
  PROVE  Line(r, que, reason, w)
<1>1. /\ r.q.next[que] = s.q.next[que] /\ r.q.prev[que] = s.q.prev[que]
      /\ \A i \in DOMAIN w : /\ r.q.next[w[i]] = s.q.next[w[i]]
                             /\ r.q.prev[w[i]] = s.q.prev[w[i]]
  BY DEF Agree, Range
<1>2. QED
  BY <1>1, RingFrame DEF Line

\* When tasks of T stop waiting, the lines of the others stay.
LEMMA LineStops ==
  ASSUME NEW s, NEW r, NEW T, Stops(s, r, T), NEW que \in WaitQueue, NEW reason, NEW w,
         Holds(s.q, que, w, Node), Range(w) = On(s, reason) \ T
  PROVE  Line(r, que, reason, w)
<1>1. On(r, reason) = On(s, reason) \ T
  BY DEF Stops, On
<1>2. On(r, reason) \subseteq Waits(r)
  BY DEF On
<1>3. QED
  BY <1>1, <1>2, LineFrame DEF Stops, Agree

LEMMA StopsApart ==
  ASSUME NEW s, NEW r, NEW reason, NEW T, T \subseteq On(s, reason), Stops(s, r, T),
         NEW que \in WaitQueue
  PROVE  Apart(s, r, que, reason) /\ On(r, reason) = On(s, reason) \ T
<1>1. \A x : On(r, x) = On(s, x) \ T
  BY DEF Stops, On
<1>2. \A x : x # reason => On(s, x) \ T = On(s, x)
  BY DEF On
<1>3. QED
  BY <1>1, <1>2, LineStops DEF Apart, Line

LEMMA ApartTrans ==
  ASSUME NEW s, NEW r, NEW u, NEW que, NEW reason,
         Apart(s, r, que, reason), Apart(r, u, que, reason)
  PROVE  Apart(s, u, que, reason)
BY DEF Apart

-----------------------------------------------------------------------------
\* Taking a task off a wait queue, and putting one on.

\* s without t in the ring of que; t is still marked as waiting.
Unlinked(s, t) == [s EXCEPT !.q = queue_remove_entry(@, t)]

LEMMA LineUnlink ==
  ASSUME NEW s, KernelOK(s), NEW que \in WaitQueue, NEW reason, NEW w,
         Line(s, que, reason, w), NEW t \in Range(w)
  PROVE  LET r == Unlinked(s, t)
         IN /\ KernelOK(r) /\ Rdy(r) = Rdy(s) /\ Apart(s, r, que, reason)
            /\ \A x : On(r, x) = On(s, x)
            /\ Holds(r.q, que, RemoveFirst(w, t), Node)
            /\ Range(RemoveFirst(w, t)) = On(r, reason) \ {t}
<1> DEFINE q == queue_remove_entry(s.q, t)
           r == [s EXCEPT !.q = q]
<1>1. s \in KernelState /\ s.q \in Links(Node)
  BY DEF KernelOK, KernelState, Links
<1>2. RemovedFrom(s.q, que, w, t, Node)
  BY <1>1, RingRemoveFirst DEF Line
<1>3. q \in Links(Node)
  BY <1>2 DEF RemovedFrom
<1>4. Agree(s.q, q, Node \ (Range(w) \cup {que}))
  <2>1. s.q.next[t] \in Range(w) \cup {que} /\ s.q.prev[t] \in Range(w) \cup {que}
    BY <1>2 DEF RemovedFrom
  <2>2. QED
    BY <1>1, <2>1 DEF Agree, queue_remove_entry, Links
<1>5. Agree(s.q, q, Rdy(s) \cup Priority)
  <2>1. Rdy(s) \cup Priority \subseteq Node /\ que \notin Rdy(s) \cup Priority
    BY WaitNodesApart, Nodes DEF Rdy
  <2>2. Range(w) \cap (Rdy(s) \cup Priority) = {}
    BY WaitNodesApart DEF Line
  <2>3. QED
    BY <1>4, <2>1, <2>2 DEF Agree
<1> HIDE DEF q
<1>6. /\ KernelOK(r) /\ Rdy(r) = Rdy(s) /\ \A x : On(r, x) = On(s, x)
  BY <1>3, <1>5, LinksFrame
<1>7. r.q = q
  BY <1>1 DEF KernelState
<1> HIDE DEF r
<1>8. Apart(s, r, que, reason)
  <2> SUFFICES ASSUME NEW p \in WaitQueue \ {que}, NEW x, NEW v, x # reason,
                      Line(s, p, x, v)
               PROVE  Line(r, p, x, v)
    BY <1>6 DEF Apart
  <2>1. Range(v) = On(s, x) /\ Range(w) = On(s, reason)
    BY DEF Line
  <2>2. On(s, x) \cap On(s, reason) = {} /\ On(s, x) \subseteq Task /\ p \in Node
        /\ que \notin Task /\ p \notin Task /\ On(s, reason) \subseteq Task
    BY WaitNodesApart
  <2>3. Agree(s.q, r.q, Range(v) \cup {p})
    BY <1>4, <1>7, <2>1, <2>2, Nodes DEF Agree
  <2>4. QED
    BY <1>6, <2>3, LineFrame DEF Line
<1>9. QED
  BY <1>2, <1>6, <1>7, <1>8 DEF RemovedFrom, Line, r, q, Unlinked

\* A waiter is released, which need not be the first.
Released(s, t) == task_wait_complete(Unlinked(s, t), t)

LEMMA ReleaseOK ==
  ASSUME NEW s, KernelOK(s), NEW que \in WaitQueue, NEW reason, NEW w,
         Line(s, que, reason, w), NEW t \in Range(w), NEW r, r = Released(s, t)
  PROVE  /\ t \in Task /\ t \in Waits(s)
         /\ KernelOK(r) /\ r.priority = s.priority
         /\ Suspended(s, t) =>
              Rdy(r) = Rdy(s) /\ r.tn_next_task_to_run = s.tn_next_task_to_run
         /\ ~Suspended(s, t) => Rdy(r) = Rdy(s) \cup {t}
         /\ Line(r, que, reason, RemoveFirst(w, t)) /\ Apart(s, r, que, reason)
         /\ Waits(r) = Waits(s) \ {t}
         /\ Range(RemoveFirst(w, t)) = Range(w) \ {t}
         /\ \A u \in Task \ {t} : r.task_state[u] = s.task_state[u]
<1> DEFINE v == RemoveFirst(w, t)
           s1 == Unlinked(s, t)
<1>0. r = task_wait_complete(s1, t)
  BY DEF Released
<1>1. s \in KernelState /\ s.q \in Links(Node)
  BY DEF KernelOK, KernelState, Links
<1>4. t \in On(s, reason) /\ t \in Task /\ Waiting(s, t) /\ t \in Waits(s)
  BY DEF Line, On, Waits
<1>5. /\ KernelOK(s1) /\ Rdy(s1) = Rdy(s) /\ Apart(s, s1, que, reason)
      /\ \A x : On(s1, x) = On(s, x)
      /\ Holds(s1.q, que, v, Node)
      /\ Range(v) = On(s1, reason) \ {t}
  BY LineUnlink
<1>6. /\ s1.task_state = s.task_state /\ s1.priority = s.priority
      /\ s1.tn_next_task_to_run = s.tn_next_task_to_run
  BY <1>1 DEF KernelState, Unlinked
<1> HIDE DEF s1, v
<1>7. Waiting(s1, t) /\ (Suspended(s1, t) <=> Suspended(s, t)) /\ Waits(s1) = Waits(s)
  BY <1>4, <1>6 DEF Waiting, Suspended, Waits
<1>8. /\ KernelOK(r) /\ r.priority = s1.priority /\ Stops(s1, r, {t})
      /\ Suspended(s1, t) => SameLists(s1, r) /\ Rdy(r) = Rdy(s1)
      /\ ~Suspended(s1, t) => Rdy(r) = Rdy(s1) \cup {t}
  BY <1>0, <1>4, <1>5, <1>7, WaitComplete
<1>9. \A u \in Task \ {t} : r.task_state[u] = s1.task_state[u]
  <2>1. s1 \in KernelState
    BY <1>5 DEF KernelOK
  <2> DEFINE s2 == [StopTimer(s1, t) EXCEPT !.task_wait_reason[t] = "none",
                                            !.task_wait_rc[t] = "TERR_NO_ERR"]
  <2>2. StopTimer(s1, t) \in KernelState /\ StopTimer(s1, t).task_state = s1.task_state
    BY <1>4, <2>1, StopTimerOnly
  <2>3. s2.task_state = s1.task_state /\ s2 \in KernelState
    BY <1>4, <2>2 DEF KernelState
  <2>4. r = IF Suspended(s1, t) THEN [s2 EXCEPT !.task_state[t] = "SUSPEND"]
                                ELSE task_to_runnable(s2, t)
    BY <1>0 DEF task_wait_complete
  <2> HIDE DEF s2
  <2>5. \/ r.task_state = [s2.task_state EXCEPT ![t] = "SUSPEND"]
        \/ r.task_state = [s2.task_state EXCEPT ![t] = "RUNNABLE"]
    BY <2>3, <2>4 DEF task_to_runnable, KernelState
  <2>6. QED
    BY <2>3, <2>5 DEF KernelState
<1>10. Line(r, que, reason, v)
  BY <1>5, <1>8, LineStops
<1>11. Apart(s, r, que, reason)
  <2>1. {t} \subseteq On(s1, reason)
    BY <1>4, <1>5
  <2>2. QED
    BY <1>5, <1>8, <2>1, StopsApart, ApartTrans
<1>12. Waits(r) = Waits(s) \ {t}
  BY <1>7, <1>8 DEF Stops
<1>13. Range(v) = Range(w) \ {t}
  BY <1>5 DEF Line
<1>14. QED
  BY <1>4, <1>5, <1>6, <1>7, <1>8, <1>9, <1>10, <1>11, <1>12, <1>13
  DEF v, SameLists

\* The first waiter is released: it leaves the head of the line.
LEMMA ReleaseFirstOK ==
  ASSUME NEW s, KernelOK(s), NEW que \in WaitQueue, NEW reason, NEW w,
         Line(s, que, reason, w), w # <<>>
  PROVE  LET t == FirstWaiter(s, que)
             r == ReleaseFirst(s, que)
         IN /\ t = w[1] /\ t \in Range(w) /\ t \in Task
            /\ KernelOK(r) /\ r.priority = s.priority
            /\ Suspended(s, t) =>
                 Rdy(r) = Rdy(s) /\ r.tn_next_task_to_run = s.tn_next_task_to_run
            /\ ~Suspended(s, t) => Rdy(r) = Rdy(s) \cup {t}
            /\ Line(r, que, reason, Tail(w)) /\ Apart(s, r, que, reason)
            /\ Waits(r) = Waits(s) \ {t}
            /\ Tail(w) = RemoveFirst(w, t) /\ Range(Tail(w)) = Range(w) \ {t}
            /\ \A u \in Task \ {t} : r.task_state[u] = s.task_state[u]
<1>1. s \in KernelState /\ s.q \in Links(Node)
  BY DEF KernelOK, KernelState, Links
<1>2. PICK t : t = FirstWaiter(s, que)
  OBVIOUS
<1>3. /\ t = w[1] /\ t \in Range(w) /\ RemoveFirst(w, t) = Tail(w)
      /\ queue_remove_head(s.q, que) = queue_remove_entry(s.q, t)
  BY <1>1, <1>2, RingRemoveHead DEF FirstWaiter, Line
<1>4. ReleaseFirst(s, que) = Released(s, t)
  BY <1>1, <1>2, <1>3 DEF ReleaseFirst, Released, Unlinked, KernelState
<1>5. PICK r : r = Released(s, t)
  OBVIOUS
<1>5a. KernelOK(s) /\ que \in WaitQueue /\ Line(s, que, reason, w) /\ t \in Range(w)
  BY <1>3
<1>6. /\ t \in Task /\ KernelOK(r) /\ r.priority = s.priority
      /\ Suspended(s, t) =>
           Rdy(r) = Rdy(s) /\ r.tn_next_task_to_run = s.tn_next_task_to_run
      /\ ~Suspended(s, t) => Rdy(r) = Rdy(s) \cup {t}
      /\ Line(r, que, reason, RemoveFirst(w, t)) /\ Apart(s, r, que, reason)
      /\ Waits(r) = Waits(s) \ {t}
      /\ Range(RemoveFirst(w, t)) = Range(w) \ {t}
      /\ \A u \in Task \ {t} : r.task_state[u] = s.task_state[u]
  BY ONLY <1>5, <1>5a, ReleaseOK
<1>7. r = ReleaseFirst(s, que)
  BY <1>4, <1>5
<1>8. QED
  BY <1>2, <1>3, <1>6, <1>7

\* A running task joins the end of the line.
LEMMA JoinLine ==
  ASSUME NEW s, KernelOK(s), NEW t \in Rdy(s), t # tn_idle_task,
         NEW que \in WaitQueue, NEW reason \in WaitReason, NEW w,
         Line(s, que, reason, w), NEW timeout \in Nat \cup {TN_WAIT_INFINITE}
  PROVE  LET r == task_curr_to_wait_action(s, t, que, reason, timeout)
         IN /\ KernelOK(r) /\ Rdy(r) = Rdy(s) \ {t} /\ t \notin Range(w)
            /\ Line(r, que, reason, Append(w, t)) /\ Apart(s, r, que, reason)
            /\ Waits(r) = Waits(s) \cup {t}
<1> DEFINE s1 == task_curr_to_wait_action(s, t, NULL, reason, timeout)
           q == queue_add_tail(s1.q, que, t)
           r == [s1 EXCEPT !.q = q]
<1>1. /\ KernelOK(s1) /\ Rdy(s1) = Rdy(s) \ {t} /\ Begins(s, s1, t, reason)
  BY StartWait
<1>2. task_curr_to_wait_action(s, t, que, reason, timeout) = r
  <2> DEFINE a == task_to_non_runnable(s, t)
             b == [a EXCEPT !.task_state[t] = "WAIT", !.task_wait_reason[t] = reason,
                            !.tick_count[t] = timeout]
             b1 == [b EXCEPT !.q = queue_add_tail(b.q, que, t)]
  <2>1. a \in KernelState
    <3>1. Rdy(s) \ {t} # {}
      BY Nodes DEF KernelOK, TaskOK, Rdy
    <3>2. Rdy(s) \in SUBSET Task /\ s \in KernelState /\ Sched(s, Rdy(s))
      BY DEF Rdy, KernelOK
    <3>3. QED
      BY <3>1, <3>2, ToNonRunnable
  <2>2. b \in KernelState
    <3>1. t \in Task /\ timeout \in Nat \cup {TN_WAIT_INFINITE}
      BY DEF Rdy
    <3> HIDE DEF a
    <3>2. QED
      BY <2>1, <3>1 DEF KernelState
  <2>3. s1 = IF timeout = TN_WAIT_INFINITE THEN b
             ELSE [b EXCEPT !.tn_wait_timeout_list = Append(b.tn_wait_timeout_list, t)]
    BY Zenon DEF task_curr_to_wait_action
  <2>4. task_curr_to_wait_action(s, t, que, reason, timeout) =
          IF timeout = TN_WAIT_INFINITE THEN b1
          ELSE [b1 EXCEPT !.tn_wait_timeout_list = Append(b1.tn_wait_timeout_list, t)]
    <3>1. que # NULL
      BY WaitNodesApart
    <3>2. QED
      BY <3>1, Zenon DEF task_curr_to_wait_action
  <2> HIDE DEF b, a
  <2>5. CASE timeout = TN_WAIT_INFINITE
    BY <2>3, <2>4, <2>5 DEF r, q
  <2>6. CASE timeout # TN_WAIT_INFINITE
    <3>1. s1 = [b EXCEPT !.tn_wait_timeout_list = Append(b.tn_wait_timeout_list, t)]
      BY <2>3, <2>6
    <3>2. s1.q = b.q /\ b1.tn_wait_timeout_list = b.tn_wait_timeout_list
      BY <2>2, <3>1 DEF KernelState
    <3>3. r = [s1 EXCEPT !.q = queue_add_tail(b.q, que, t)]
      BY <3>2 DEF r, q
    <3> HIDE DEF r, s1
    <3>4. r = [b1 EXCEPT !.tn_wait_timeout_list = Append(b1.tn_wait_timeout_list, t)]
      BY <2>2, <3>1, <3>2, <3>3 DEF KernelState
    <3>5. QED
      BY <2>4, <2>6, <3>4
  <2>7. QED
    BY <2>5, <2>6
<1> HIDE DEF s1
<1>3. s1 \in KernelState /\ s1.q \in Links(Node)
  BY <1>1 DEF KernelOK, KernelState, Links
<1>4. /\ t \notin Range(w) /\ t \in Task /\ t \in Node \ {que}
      /\ On(s1, reason) = On(s, reason) \cup {t} /\ Range(w) = On(s, reason)
      /\ \A x : x # reason => On(s1, x) = On(s, x)
      /\ Waits(s1) = Waits(s) \cup {t}
  <2>1. t \notin Waits(s) /\ t \in Task
    BY DEF Waits, Waiting, Rdy
  <2>2. QED
    BY <1>1, <2>1, WaitNodesApart, Nodes DEF Begins, On, Line
<1>5. Holds(s1.q, que, w, Node)
  <2>1. Agree(s.q, s1.q, Range(w) \cup {que})
    BY <1>1, <1>4 DEF Begins, Agree, On
  <2>2. /\ s1.q.next[que] = s.q.next[que] /\ s1.q.prev[que] = s.q.prev[que]
        /\ \A i \in DOMAIN w : /\ s1.q.next[w[i]] = s.q.next[w[i]]
                               /\ s1.q.prev[w[i]] = s.q.prev[w[i]]
    BY <2>1 DEF Agree, Range
  <2>3. QED
    BY <2>2, RingFrame DEF Line
<1>6. /\ q \in Links(Node) /\ Holds(q, que, Append(w, t), Node)
      /\ Agree(s1.q, q, Node \ (Range(w) \cup {que, t}))
  <2>1. \A i \in DOMAIN w : w[i] # t
    BY <1>4 DEF Range
  <2>2. Queue(s1.q, que, Range(w), Node)
    BY <1>5 DEF Queue
  <2>3. QED
    BY <1>3, <1>4, <1>5, <2>1, <2>2, RingAddTail, QueueAddTail
<1>7. Range(Append(w, t)) = On(s1, reason)
  BY <1>4, <1>5, AppendEntries DEF Holds
<1>8. Agree(s1.q, q, Rdy(s1) \cup Priority)
  <2>1. Rdy(s1) \cup Priority \subseteq Node /\ que \notin Rdy(s1) \cup Priority
    BY WaitNodesApart, Nodes DEF Rdy
  <2>2. On(s1, reason) \cap (Rdy(s1) \cup Priority) = {}
    BY WaitNodesApart
  <2>3. QED
    BY <1>4, <1>6, <2>1, <2>2 DEF Agree
<1>9. r.q = q
  BY <1>3 DEF KernelState
<1> HIDE DEF q
<1>10. /\ KernelOK(r) /\ Rdy(r) = Rdy(s1) /\ Waits(r) = Waits(s1)
       /\ \A x : On(r, x) = On(s1, x)
  BY <1>1, <1>6, <1>8, LinksFrame
<1> HIDE DEF r
<1>11. Apart(s, r, que, reason)
  <2> SUFFICES ASSUME NEW p \in WaitQueue \ {que}, NEW x, NEW v, x # reason,
                      Line(s, p, x, v)
               PROVE  Line(r, p, x, v)
    BY <1>4, <1>10 DEF Apart
  <2>1. Range(v) = On(s, x) /\ On(s, x) \cap On(s1, reason) = {}
    BY <1>4, WaitNodesApart DEF Line
  <2>2. /\ On(s, x) \subseteq Waits(s) /\ Waits(s) \subseteq Task /\ p \in Node
        /\ que \notin Task /\ p \notin Task
    BY WaitNodesApart
  <2>3. Agree(s.q, s1.q, Range(v) \cup {p})
    BY <1>1, <2>1, <2>2 DEF Begins, Agree
  <2>4. Agree(s1.q, q, Range(v) \cup {p})
    <3>1. Range(v) \cup {p} \subseteq Node
      BY <2>1, <2>2, Nodes
    <3>2. (Range(v) \cup {p}) \cap (Range(w) \cup {que, t}) = {}
      <4>1. Range(w) \cup {t} = On(s1, reason) /\ Range(w) \cup {t} \subseteq Task
        BY <1>4, WaitNodesApart
      <4>2. QED
        BY <2>1, <2>2, <4>1
    <3>3. QED
      BY <1>6, <3>1, <3>2 DEF Agree
  <2>5. Agree(s.q, r.q, Range(v) \cup {p})
    BY <1>9, <2>3, <2>4 DEF Agree
  <2>6. Range(v) = On(r, x)
    BY <1>4, <1>10, <2>1
  <2>7. QED
    BY <2>5, <2>6, LineFrame DEF Line
<1>12. QED
  BY <1>1, <1>2, <1>4, <1>6, <1>7, <1>9, <1>10, <1>11 DEF Line

\* A task that is terminated while it waits leaves its place in the line.
LEMMA DetachWaiter ==
  ASSUME NEW s, KernelOK(s), NEW que \in WaitQueue, NEW reason, NEW w,
         Line(s, que, reason, w), NEW t \in Range(w)
  PROVE  LET d == Detach(s, t)
         IN /\ Detached(s, d, t) /\ Apart(s, d, que, reason)
            /\ On(d, reason) = On(s, reason) /\ Waits(d) = Waits(s)
            /\ Holds(d.q, que, RemoveFirst(w, t), Node)
            /\ Range(RemoveFirst(w, t)) = On(d, reason) \ {t}
<1> DEFINE s1 == Unlinked(s, t)
           d == StopTimer(s1, t)
<1>1. t \in Task /\ Waiting(s, t) /\ t \notin Rdy(s) /\ s \in KernelState
  BY DEF Line, On, Waits, Waiting, Rdy, KernelOK
<1>2. Detach(s, t) = d
  BY <1>1 DEF Detach, Rdy, Unlinked
<1>3. /\ KernelOK(s1) /\ Rdy(s1) = Rdy(s) /\ Apart(s, s1, que, reason)
      /\ \A x : On(s1, x) = On(s, x)
      /\ Holds(s1.q, que, RemoveFirst(w, t), Node)
      /\ Range(RemoveFirst(w, t)) = On(s1, reason) \ {t}
  BY LineUnlink
<1>4. /\ s1.activate_count = s.activate_count /\ s1.created = s.created
      /\ s1.priority = s.priority /\ s1.tn_next_task_to_run = s.tn_next_task_to_run
      /\ s1.task_state = s.task_state
  BY <1>1 DEF KernelState, Unlinked
<1>5. s1 \in KernelState
  BY <1>3 DEF KernelOK
<1> HIDE DEF s1
<1>6. /\ d \in KernelState /\ SameLists(s1, d)
      /\ d.tick_count = [s1.tick_count EXCEPT ![t] = TN_WAIT_INFINITE]
      /\ d.task_state = s1.task_state /\ d.created = s1.created
      /\ d.task_wait_reason = s1.task_wait_reason
      /\ d.tn_tslice_ticks = s1.tn_tslice_ticks
  BY <1>1, <1>5, StopTimerOnly
<1>7. d.activate_count = s1.activate_count
  BY <1>5 DEF StopTimer, KernelState
<1> HIDE DEF d
<1>8. Rdy(d) = Rdy(s1) /\ Waits(d) = Waits(s1) /\ \A x : On(d, x) = On(s1, x)
  BY <1>6 DEF Rdy, Waits, Waiting, On
<1>9. TaskOK(d)
  BY <1>1, <1>3, <1>5, <1>6 DEF KernelOK, TaskOK, Levels, Waiting, SameLists, KernelState
<1>10. Sched(d, Rdy(d) \ {t})
  BY <1>1, <1>3, <1>6, <1>8, SchedFrame DEF KernelOK
<1>11. Detached(s, d, t)
  BY <1>3, <1>4, <1>6, <1>7, <1>8, <1>9, <1>10 DEF Detached, SameLists
<1>12. Apart(s, d, que, reason)
  BY <1>3, <1>6, <1>8 DEF Apart, Line, SameLists
<1>13. Waits(d) = Waits(s)
  BY <1>4, <1>6 DEF Waits, Waiting
<1>14. QED
  BY <1>2, <1>3, <1>6, <1>8, <1>11, <1>12, <1>13 DEF SameLists

-----------------------------------------------------------------------------
\* The calls that wake a waiter and that wait.

LEMMA EmptyLine ==
  ASSUME NEW s, KernelOK(s), NEW que, NEW reason, NEW w, Line(s, que, reason, w)
  PROVE  /\ is_queue_empty(s.q, que) <=> w = <<>>
         /\ w = <<>> <=> On(s, reason) = {}
<1>1. s.q \in Links(Node)
  BY DEF KernelOK, KernelState, Links
<1>2. Queue(s.q, que, Range(w), Node) /\ w \in Seq(Node \ {que})
  BY DEF Line, Queue, Holds
<1>3. w = <<>> <=> Range(w) = {}
  BY <1>2 DEF Range
<1>4. QED
  BY <1>1, <1>2, <1>3, QueueEnds DEF Line

LEMMA WakeFirstOK ==
  ASSUME IInv, NEW que \in WaitQueue, NEW reason, NEW w, Line(k, que, reason, w),
         w # <<>>, Caller, task_stk' = task_stk, WakeFirst(k, que)
  PROVE  /\ IInv' /\ Line(k', que, reason, Tail(w)) /\ Apart(k, k', que, reason)
         /\ Tail(w) = RemoveFirst(w, w[1]) /\ w[1] \in Range(w)
         /\ Waits(k') = Waits(k) \ {w[1]} /\ Range(Tail(w)) \subseteq Range(w)
<1> DEFINE t == FirstWaiter(k, que)
<1>1. KernelOK(k)
  BY DEF IInv
<1>2. /\ t = w[1] /\ t \in Range(w) /\ t \in Task
      /\ KernelOK(k') /\ k'.priority = k.priority
      /\ Suspended(k, t) =>
           Rdy(k') = Rdy(k) /\ k'.tn_next_task_to_run = k.tn_next_task_to_run
      /\ Line(k', que, reason, Tail(w)) /\ Apart(k, k', que, reason)
      /\ Tail(w) = RemoveFirst(w, t) /\ Waits(k') = Waits(k) \ {t}
      /\ Range(Tail(w)) = Range(w) \ {t}
  BY <1>1, ReleaseFirstOK DEF WakeFirst
<1>3. IF Suspended(k, t) THEN Returns ELSE Switches
  BY DEF WakeFirst
<1>4. /\ tn_int_counter = 0 /\ task_stk' \in [Task -> Place \ {"init"}] /\ Right(k)
  BY CallerFacts DEF Caller, IInv, Control
<1> HIDE DEF t
<1>5. IInv'
  <2>1. CASE Suspended(k, t)
    <3>1. Right(k')
      BY <1>2, <1>4, <2>1, RightFrame
    <3>2. QED
      BY <1>2, <1>3, <1>4, <2>1, <3>1, AfterReturn
  <2>2. CASE ~Suspended(k, t)
    BY <1>2, <1>3, <1>4, <2>2, AfterSwitches
  <2>3. QED
    BY <2>1, <2>2
<1>6. QED
  BY <1>2, <1>5

LEMMA iWakeFirstOK ==
  ASSUME IInv, NEW que \in WaitQueue, NEW reason, NEW w, Line(k, que, reason, w),
         w # <<>>, InHandler, iWakeFirst(k, que)
  PROVE  /\ IInv' /\ Line(k', que, reason, Tail(w)) /\ Apart(k, k', que, reason)
         /\ Tail(w) = RemoveFirst(w, w[1]) /\ w[1] \in Range(w)
         /\ Waits(k') = Waits(k) \ {w[1]} /\ Range(Tail(w)) \subseteq Range(w)
<1> DEFINE t == FirstWaiter(k, que)
<1>1. KernelOK(k)
  BY DEF IInv
<1>2. /\ t = w[1] /\ t \in Range(w) /\ t \in Task
      /\ KernelOK(k') /\ k'.priority = k.priority
      /\ Suspended(k, t) =>
           Rdy(k') = Rdy(k) /\ k'.tn_next_task_to_run = k.tn_next_task_to_run
      /\ Line(k', que, reason, Tail(w)) /\ Apart(k, k', que, reason)
      /\ Tail(w) = RemoveFirst(w, t) /\ Waits(k') = Waits(k) \ {t}
      /\ Range(Tail(w)) = Range(w) \ {t}
  BY <1>1, ReleaseFirstOK DEF iWakeFirst
<1>3. HandlerCall(~Suspended(k, t))
  BY DEF iWakeFirst
<1>4. tick_walk' \in Seq(Task) /\ tn_int_counter = 1
  BY DEF InHandler, iWakeFirst, IInv, Control
<1> HIDE DEF t
<1>5. (~Suspended(k, t)) \in BOOLEAN /\ (~Suspended(k, t) \/ (Right(k) => Right(k')))
  <2>1. Suspended(k, t) /\ Right(k) => Right(k')
    BY <1>2, RightFrame
  <2>2. (~Suspended(k, t)) \in BOOLEAN
    BY Zenon
  <2>3. QED
    BY <2>1, <2>2
<1>6. IInv'
  BY <1>2, <1>3, <1>4, <1>5, AfterHandlerCall
<1>7. QED
  BY <1>2, <1>6

LEMMA WaitForOK ==
  ASSUME IInv, NEW que \in WaitQueue, NEW reason \in WaitReason, NEW w,
         Line(k, que, reason, w), NEW timeout \in Nat \cup {TN_WAIT_INFINITE},
         Caller, task_stk' = task_stk, WaitFor(k, que, reason, timeout)
  PROVE  /\ IInv' /\ Line(k', que, reason, Append(w, tn_curr_run_task))
         /\ Apart(k, k', que, reason) /\ tn_curr_run_task \notin Range(w)
         /\ Waits(k') = Waits(k) \cup {tn_curr_run_task}
<1>1. /\ tn_int_counter = 0 /\ task_stk' \in [Task -> Place \ {"init"}]
      /\ tn_curr_run_task \in Rdy(k) /\ tn_curr_run_task # tn_idle_task /\ KernelOK(k)
  BY CallerFacts, Nodes DEF Caller, IInv, Control
<1>2. /\ KernelOK(k') /\ tn_curr_run_task \notin Range(w)
      /\ Line(k', que, reason, Append(w, tn_curr_run_task))
      /\ Apart(k, k', que, reason) /\ Waits(k') = Waits(k) \cup {tn_curr_run_task}
  BY <1>1, JoinLine DEF WaitFor
<1>3. QED
  BY <1>1, <1>2, AfterSwitches DEF WaitFor

\* The end of a task that may wait on que.
LEMMA TerminateWaiterOK ==
  ASSUME IInv, NEW que \in WaitQueue, NEW reason, NEW w, Line(k, que, reason, w),
         NEW t \in AppTask, t \in Range(w), tn_task_terminate(t)
  PROVE  /\ IInv' /\ Line(k', que, reason, RemoveFirst(w, t))
         /\ Apart(k, k', que, reason) /\ Waits(k') = Waits(k) \ {t}
<1> DEFINE d == Detach(k, t)
<1>1. KernelOK(k)
  BY DEF IInv
<1>2. /\ Detached(k, d, t) /\ Apart(k, d, que, reason)
      /\ On(d, reason) = On(k, reason) /\ Waits(d) = Waits(k)
      /\ Holds(d.q, que, RemoveFirst(w, t), Node)
      /\ Range(RemoveFirst(w, t)) = On(d, reason) \ {t}
  BY <1>1, DetachWaiter
<1>3. IInv' /\ Stops(d, k', {t})
  BY <1>2, TerminateOK
<1> HIDE DEF d
<1>4. {t} \subseteq On(d, reason)
  BY <1>2 DEF Line
<1>5. Line(k', que, reason, RemoveFirst(w, t))
  BY <1>2, <1>3, LineStops
<1>6. Apart(d, k', que, reason)
  BY <1>3, <1>4, StopsApart
<1>7. QED
  BY <1>2, <1>3, <1>5, <1>6, ApartTrans DEF Stops

-----------------------------------------------------------------------------
\* The invariant of an object: rs[j] is what the tasks on list j wait for.

Kinds(rs) ==
  /\ rs \in [1 .. Len(WaitLists) -> WaitReason \ {"SLEEP"}]
  /\ IsInjective(rs) /\ IsInjective(WaitLists)

\* Whoever waits sleeps, or is a task of the application on one of the lists.
WaitersOK(s, rs) ==
  /\ \A j \in DOMAIN WaitLists : \E w : Line(s, WaitLists[j], rs[j], w)
  /\ \A t \in Waits(s) :
        \/ s.task_wait_reason[t] = "SLEEP"
        \/ t \in AppTask /\ \E j \in DOMAIN WaitLists : s.task_wait_reason[t] = rs[j]

\* The lines of s are lines of r.
SameLines(s, r, rs) ==
  \A j \in DOMAIN WaitLists : \A w :
     Line(s, WaitLists[j], rs[j], w) => Line(r, WaitLists[j], rs[j], w)

NoWaiters(j) == is_queue_empty(k.q, WaitLists[j])

\* t deletes the object.  It runs with the highest priority and alone, and the
\* lists it has been through are empty.
Deletes(t) ==
  /\ t = tn_curr_run_task /\ t \in AppTask /\ id
  /\ pc \in {"user", "switch"} /\ ~tn_context_switch_request
  /\ t \in Rdy(k) /\ tn_timer_task \notin Rdy(k)
  /\ \A u \in AppTask \ {t} : k.priority[t] < k.priority[u] /\ ~Suspended(k, u)
  /\ deleting[t].at # "out" /\ ~deleting[t].locked
  /\ deleting[t].list \in DOMAIN WaitLists
  /\ \A j \in 1 .. deleting[t].list - 1 : NoWaiters(j)
  /\ deleting[t].at = "remove" => ~NoWaiters(deleting[t].list)
  /\ deleting[t].at = "end" => \A j \in DOMAIN WaitLists : NoWaiters(j)

DeletersOK == \A t \in Task : deleting[t] # Outside => Deletes(t)

ObjectOK == /\ id \in BOOLEAN
            /\ deleting \in [Task -> [at : {"out", "test", "remove", "end"},
                                      list : 0 .. Len(WaitLists), locked : BOOLEAN]]
            /\ DeletersOK

ObjectInv(rs) == IInv /\ WaitersOK(k, rs) /\ ObjectOK

LEMMA Lists ==
  ASSUME NEW rs, Kinds(rs)
  PROVE  /\ Len(WaitLists) \in Nat /\ DOMAIN WaitLists = 1 .. Len(WaitLists)
         /\ \A j \in DOMAIN WaitLists : /\ WaitLists[j] \in WaitQueue
                                        /\ rs[j] \in WaitReason /\ rs[j] # "SLEEP"
         /\ \A i, j \in DOMAIN WaitLists :
               i # j => WaitLists[i] # WaitLists[j] /\ rs[i] # rs[j]
BY WaitListsAssumption DEF Kinds, IsInjective, WaitReason

\* Steps that take no task off a list and put none on.
LEMMA StillWaits ==
  ASSUME NEW rs, Kinds(rs), NEW s, NEW r, WaitersOK(s, rs), Stops(s, r, {})
  PROVE  WaitersOK(r, rs) /\ SameLines(s, r, rs)
<1>1. SameLines(s, r, rs)
  BY Lists, LineStops DEF SameLines, Line
<1>2. QED
  BY <1>1 DEF WaitersOK, SameLines, Stops

LEMMA StillSleeps ==
  ASSUME NEW rs, Kinds(rs), NEW s, NEW r, NEW t, WaitersOK(s, rs), t \notin Waits(s),
         Begins(s, r, t, "SLEEP")
  PROVE  WaitersOK(r, rs) /\ SameLines(s, r, rs)
<1>1. SameLines(s, r, rs)
  <2> SUFFICES ASSUME NEW j \in DOMAIN WaitLists, NEW w,
                      Line(s, WaitLists[j], rs[j], w)
               PROVE  Line(r, WaitLists[j], rs[j], w)
    BY DEF SameLines
  <2>1. WaitLists[j] \in WaitQueue /\ rs[j] # "SLEEP"
    BY Lists
  <2>2. On(r, rs[j]) = On(s, rs[j])
    BY <2>1 DEF Begins, On
  <2>3. Agree(s.q, r.q, Range(w) \cup {WaitLists[j]})
    BY <2>1 DEF Begins, Agree, Line, On
  <2>4. QED
    BY <2>1, <2>2, <2>3, LineFrame DEF Line
<1>2. QED
  BY <1>1 DEF WaitersOK, SameLines, Begins

\* A step that concerns the tasks on list i only.
LEMMA OneLine ==
  ASSUME NEW rs, Kinds(rs), NEW s, NEW r, NEW i \in DOMAIN WaitLists, NEW w,
         WaitersOK(s, rs), Apart(s, r, WaitLists[i], rs[i]),
         Line(r, WaitLists[i], rs[i], w), Range(w) \subseteq AppTask
  PROVE  /\ WaitersOK(r, rs)
         /\ \A j \in DOMAIN WaitLists \ {i} : \A v :
               Line(s, WaitLists[j], rs[j], v) => Line(r, WaitLists[j], rs[j], v)
<1>1. ASSUME NEW j \in DOMAIN WaitLists \ {i}, NEW v, Line(s, WaitLists[j], rs[j], v)
      PROVE  Line(r, WaitLists[j], rs[j], v)
  <2>1. WaitLists[j] \in WaitQueue \ {WaitLists[i]} /\ rs[j] # rs[i]
    BY Lists
  <2>2. QED
    BY <1>1, <2>1 DEF Apart
<1>2. ASSUME NEW j \in DOMAIN WaitLists
      PROVE  \E v : Line(r, WaitLists[j], rs[j], v)
  <2>1. PICK v : Line(s, WaitLists[j], rs[j], v)
    BY DEF WaitersOK
  <2>2. QED
    BY <1>1, <2>1
<1>3. ASSUME NEW t \in Waits(r)
      PROVE  \/ r.task_wait_reason[t] = "SLEEP"
             \/ t \in AppTask /\ \E j \in DOMAIN WaitLists : r.task_wait_reason[t] = rs[j]
  <2> DEFINE x == r.task_wait_reason[t]
  <2>1. CASE x = rs[i]
    <3>1. t \in Range(w)
      BY <2>1 DEF Line, On
    <3>2. QED
      BY <2>1, <3>1
  <2>2. CASE x # rs[i]
    <3>1. t \in On(s, x)
      BY <2>2 DEF Apart, On
    <3>2. t \in Waits(s) /\ s.task_wait_reason[t] = x
      BY <3>1 DEF On
    <3>3. QED
      BY <3>2 DEF WaitersOK
  <2>3. QED
    BY <2>1, <2>2
<1>4. QED
  BY <1>1, <1>2, <1>3 DEF WaitersOK

\* The members of a line are tasks of the application.
LEMMA LineTasks ==
  ASSUME NEW rs, Kinds(rs), NEW s, WaitersOK(s, rs), NEW i \in DOMAIN WaitLists, NEW w,
         Line(s, WaitLists[i], rs[i], w)
  PROVE  Range(w) \subseteq AppTask
<1>1. rs[i] # "SLEEP"
  BY Lists
<1>2. QED
  BY <1>1 DEF Line, On, WaitersOK

\* A task that may call is in no delete function but its own.
LEMMA NobodyElse ==
  ASSUME ObjectOK, \/ Free
                   \/ NobodyDeletes
                   \/ tn_curr_run_task \notin AppTask
                   \/ pc \notin {"user", "switch"}
  PROVE  \A t \in Task : deleting[t] = Outside
BY DEF ObjectOK, DeletersOK, Deletes, Free, NobodyDeletes

LEMMA StillObject ==
  ASSUME ObjectOK, \A t \in Task : deleting'[t] = Outside, id' \in BOOLEAN,
         deleting' \in [Task -> [at : {"out", "test", "remove", "end"},
                                 list : 0 .. Len(WaitLists), locked : BOOLEAN]]
  PROVE  ObjectOK'
BY DEF ObjectOK, DeletersOK

-----------------------------------------------------------------------------
\* The steps that every object has.

LEMMA TaskStepOK ==
  ASSUME NEW rs, Kinds(rs), ObjectInv(rs),
         TaskCall \/ Start \/ (NobodyDeletes /\ TaskInterrupt)
  PROVE  /\ ObjectInv(rs)' /\ SameLines(k, k', rs) /\ id' = id
         /\ Waits(k) \subseteq Waits(k') /\ Waits(k') \subseteq Waits(k) \cup {tn_timer_task}
<1>1. IInv /\ WaitersOK(k, rs) /\ ObjectOK
  BY DEF ObjectInv
<1>2. UNCHANGED object
  BY DEF TaskCall, Start, TaskInterrupt
<1>3. /\ IInv'
      /\ \/ Stops(k, k', {})
         \/ /\ Begins(k, k', tn_curr_run_task, "SLEEP")
            /\ tn_curr_run_task \in Rdy(k) \cap {tn_timer_task}
  <2>1. ASSUME NEW t \in AppTask,
               tn_task_suspend(t) \/ tn_task_resume(t) \/ tn_task_activate(t)
        PROVE  IInv' /\ Stops(k, k', {})
    BY <1>1, <2>1, SuspendOK, ResumeOK, ActivateOK
  <2>2. ASSUME tn_task_exit(FALSE)
        PROVE  IInv' /\ Stops(k, k', {})
    <3>1. FALSE \in BOOLEAN
      BY Zenon
    <3>2. QED
      BY <1>1, <2>2, <3>1, ExitOK
  <2>3. ASSUME NEW t \in AppTask, pc = "init", tn_task_create(t, TRUE)
        PROVE  IInv' /\ Stops(k, k', {})
    <3>1. TRUE \in BOOLEAN
      BY Zenon
    <3>2. QED
      BY <1>1, <2>3, <3>1, CreateOK
  <2>4. ASSUME tn_cpu_int_enable
        PROVE  IInv' /\ Stops(k, k', {})
    <3>1. k' = k
      BY <2>4 DEF tn_cpu_int_enable
    <3>2. QED
      BY <1>1, <2>4, <3>1, IntEnableOK, StopsSame
  <2>5. ASSUME tn_curr_run_task = tn_timer_task, tn_task_sleep(TN_WAIT_INFINITE)
        PROVE  /\ IInv'
               /\ \/ Stops(k, k', {})
                  \/ /\ Begins(k, k', tn_curr_run_task, "SLEEP")
                     /\ tn_curr_run_task \in Rdy(k) \cap {tn_timer_task}
    <3>1. IInv' /\ (Stops(k, k', {}) \/ Begins(k, k', tn_curr_run_task, "SLEEP"))
      BY <1>1, <2>5, SleepOK
    <3>2. tn_int_counter = 0 /\ pc \in {"init", "entry", "user"}
      BY <2>5 DEF tn_task_sleep, Caller
    <3>3. QED
      BY <1>1, <2>5, <3>1, <3>2, CallerFacts
  <2>6. ASSUME NEW t \in AppTask, tn_task_iactivate(t)
        PROVE  IInv' /\ Stops(k, k', {})
    BY <1>1, <2>6, IactivateOK
  <2>7. QED
    BY <2>1, <2>2, <2>3, <2>4, <2>5, <2>6 DEF TaskCall, Start, TaskInterrupt
<1>4. /\ WaitersOK(k', rs) /\ SameLines(k, k', rs) /\ Waits(k) \subseteq Waits(k')
      /\ Waits(k') \subseteq Waits(k) \cup {tn_timer_task}
  <2>1. Rdy(k) \cap Waits(k) = {}
    BY DEF Rdy, Waits, Waiting
  <2>2. CASE Stops(k, k', {})
    BY <1>1, <2>2, StillWaits DEF Stops
  <2>3. CASE /\ Begins(k, k', tn_curr_run_task, "SLEEP")
             /\ tn_curr_run_task \in Rdy(k) \cap {tn_timer_task}
    BY <1>1, <2>1, <2>3, StillSleeps DEF Begins
  <2>4. QED
    BY <1>3, <2>2, <2>3
<1>5. \A t \in Task : deleting[t] = Outside
  <2>1. Free \/ NobodyDeletes \/ tn_curr_run_task \notin AppTask \/ pc \notin {"user", "switch"}
    BY Nodes DEF TaskCall, Start, tn_cpu_int_enable
  <2>2. QED
    BY <1>1, <2>1, NobodyElse
<1>6. ObjectOK'
  BY <1>1, <1>2, <1>5, StillObject DEF object, ObjectOK
<1>7. QED
  BY <1>2, <1>3, <1>4, <1>6 DEF ObjectInv, object

\* The kernel's data stay, and the task that deletes the object goes on.
LEMMA KeepsDeleting ==
  ASSUME NEW rs, Kinds(rs), ObjectInv(rs), IInv', k' = k, UNCHANGED object,
         (\E t \in Task : deleting[t] # Outside) =>
            /\ tn_curr_run_task' = tn_curr_run_task
            /\ pc' \in {"user", "switch"} /\ ~tn_context_switch_request'
  PROVE  ObjectInv(rs)' /\ SameLines(k, k', rs)
<1>1. SameLines(k, k', rs)
  BY DEF SameLines
<1>2. DeletersOK'
  BY DEF ObjectInv, ObjectOK, DeletersOK, Deletes, NoWaiters, object
<1>3. QED
  BY <1>1, <1>2 DEF ObjectInv, ObjectOK, object

\* The deleting task is the one that runs.
LEMMA DeleterRuns ==
  ASSUME IInv, NEW t \in Task, Deletes(t)
  PROVE  k.tn_next_task_to_run = t
<1> DEFINE n == k.tn_next_task_to_run
<1>1. /\ n \in Rdy(k) /\ n \in Task /\ k.priority[n] <= k.priority[t]
      /\ k.priority \in [Task -> Priority] /\ Levels(k)
  BY DEF IInv, KernelOK, Sched, Top, Deletes, Rdy, TaskOK, KernelState
<1> HIDE DEF n
<1>2. n # tn_timer_task
  BY <1>1 DEF Deletes
<1>3. n # tn_idle_task
  <2>1. k.priority[t] \in 1 .. TN_NUM_PRIORITY - 2
    BY <1>1 DEF Levels, Deletes
  <2>2. QED
    BY <1>1, <2>1, PriorityAssumption DEF Levels
<1>4. ASSUME n # t
      PROVE  FALSE
  <2>1. n \in AppTask \ {t}
    BY <1>1, <1>2, <1>3, <1>4 DEF Task
  <2>2. k.priority[t] < k.priority[n] /\ k.priority[t] \in Nat /\ k.priority[n] \in Nat
    BY <1>1, <2>1, Nodes DEF Deletes
  <2>3. QED
    BY <1>1, <2>2
<1>5. QED
  BY <1>4 DEF n

LEMMA SwitchStepOK ==
  ASSUME NEW rs, Kinds(rs), ObjectInv(rs), Enter \/ Leave \/ Switch
  PROVE  ObjectInv(rs)' /\ SameLines(k, k', rs) /\ k' = k /\ id' = id
<1>1. IInv /\ ObjectOK
  BY DEF ObjectInv
<1>2. k' = k /\ UNCHANGED object
  BY DEF Enter, Leave, Switch, IrqEnter, IrqExit, ContextSwitch, tn_switch_context,
         tn_switch_context_exit
<1>3. IInv'
  BY <1>1, IrqEnterOK, IrqExitOK, ContextSwitchOK DEF Enter, Leave, Switch
<1>4. ASSUME NEW t \in Task, deleting[t] # Outside
      PROVE  /\ tn_curr_run_task' = tn_curr_run_task
             /\ pc' \in {"user", "switch"} /\ ~tn_context_switch_request'
  <2>1. /\ t = tn_curr_run_task /\ pc \in {"user", "switch"}
        /\ ~tn_context_switch_request /\ Deletes(t)
    BY <1>1, <1>4 DEF ObjectOK, DeletersOK, Deletes
  <2>2. CASE Enter \/ Leave
    BY <2>1, <2>2 DEF Enter, Leave, IrqEnter, IrqExit
  <2>3. CASE Switch
    <3>1. tn_switch_context
      BY <2>1, <2>3 DEF Switch, ContextSwitch, tn_switch_context_exit
    <3>2. k.tn_next_task_to_run = t
      BY <1>1, <2>1, DeleterRuns
    <3>3. task_stk'[t] = "user"
      BY <1>1, <2>1, <3>1 DEF tn_switch_context, IInv, Control
    <3>4. QED
      BY <2>1, <3>1, <3>2, <3>3 DEF tn_switch_context, interrupts
  <2>4. QED
    BY <2>2, <2>3
<1>5. QED
  BY <1>2, <1>3, <1>4, KeepsDeleting DEF object

LEMMA DeleteBeginOK ==
  ASSUME NEW rs, Kinds(rs), ObjectInv(rs), Undisturbed, DeleteBegin, WaitLists # <<>>
  PROVE  ObjectInv(rs)' /\ SameLines(k, k', rs) /\ k' = k /\ id' = id
<1> DEFINE t == tn_curr_run_task
           new == [at |-> "test", list |-> 1, locked |-> FALSE]
<1>1. /\ IInv /\ ObjectOK /\ WaitersOK(k, rs) /\ k' = k /\ id' = id /\ id
      /\ tn_int_counter = 0 /\ pc \in {"entry", "user"} /\ t \in AppTask
      /\ Returns /\ task_stk' = task_stk
      /\ deleting' = [deleting EXCEPT ![t] = new]
  BY DEF ObjectInv, DeleteBegin, Caller
<1>2. /\ KernelOK(k) /\ Right(k) /\ t \in Rdy(k) /\ t \in Task
      /\ ~tn_context_switch_request
  BY <1>1, CallerFacts DEF IInv, Control
<1>3. tn_timer_task \notin Rdy(k)
  <2>1. /\ k.priority[tn_timer_task] = 0 /\ k.priority[t] \in 1 .. TN_NUM_PRIORITY - 2
    BY <1>1, <1>2 DEF KernelOK, TaskOK, Levels
  <2>2. tn_timer_task \in Rdy(k) => k.priority[t] <= 0
    BY <1>2, <2>1 DEF Right, Top
  <2>3. QED
    BY <2>1, <2>2
<1>4. IInv'
  BY <1>1, <1>2, AfterReturn DEF IInv, Control
<1>5. /\ deleting' \in [Task -> [at : {"out", "test", "remove", "end"},
                                 list : 0 .. Len(WaitLists), locked : BOOLEAN]]
      /\ 1 \in DOMAIN WaitLists
  <2>1. Len(WaitLists) \in Nat \ {0} /\ DOMAIN WaitLists = 1 .. Len(WaitLists)
    BY WaitListsAssumption
  <2>2. 1 \in 0 .. Len(WaitLists)
    BY <2>1
  <2>3. QED
    BY <1>1, <1>2, <2>1, <2>2 DEF ObjectOK
<1>6. \A u \in Task : deleting[u] = Outside
  BY <1>1, NobodyElse DEF DeleteBegin
<1>7. DeletersOK'
  <2> SUFFICES ASSUME NEW u \in Task, deleting'[u] # Outside
               PROVE  Deletes(u)'
    BY DEF DeletersOK
  <2>1. u = t /\ deleting'[u] = new /\ deleting'[u].list = 1
    BY <1>1, <1>5, <1>6
  <2>2. pc' = "user" /\ tn_curr_run_task' = t /\ ~tn_context_switch_request'
    BY <1>1, <1>2 DEF Returns, interrupts
  <2>3. \A v \in AppTask \ {t} : k'.priority[t] < k'.priority[v] /\ ~Suspended(k', v)
    BY <1>1 DEF Undisturbed
  <2>4. 1 .. deleting'[u].list - 1 = {}
    BY <2>1
  <2>5. QED
    BY <1>1, <1>2, <1>3, <1>5, <2>1, <2>2, <2>3, <2>4 DEF Deletes, NoWaiters
<1>8. QED
  BY <1>1, <1>4, <1>5, <1>7 DEF ObjectInv, ObjectOK, SameLines

\* A task in the delete function is the one that runs.
LEMMA AtPoint ==
  ASSUME NEW rs, Kinds(rs), ObjectInv(rs), NEW point, point # "out", DeletingAt(point)
  PROVE  /\ tn_curr_run_task \in Task /\ Deletes(tn_curr_run_task)
         /\ \A u \in Task \ {tn_curr_run_task} : deleting[u] = Outside
         /\ tn_int_counter = 0 /\ pc = "user" /\ Right(k)
<1>1. IInv /\ ObjectOK /\ tn_curr_run_task \in Task
  BY DEF ObjectInv, IInv, Control
<1>2. deleting[tn_curr_run_task] # Outside
  BY DEF DeletingAt, Outside
<1>3. tn_int_counter = 0 /\ pc = "user" /\ Right(k)
  BY <1>1, CallerFacts DEF DeletingAt
<1>4. QED
  BY <1>1, <1>2, <1>3 DEF ObjectOK, DeletersOK, Deletes

LEMMA DeleteTestOK ==
  ASSUME NEW rs, Kinds(rs), ObjectInv(rs), DeleteTest
  PROVE  ObjectInv(rs)' /\ SameLines(k, k', rs) /\ k' = k /\ id' = id
<1> DEFINE t == tn_curr_run_task
           d == deleting[t]
           new == IF ~is_queue_empty(k.q, ThisList) THEN [d EXCEPT !.at = "remove"]
                  ELSE IF d.list < Len(WaitLists) THEN [d EXCEPT !.list = @ + 1]
                  ELSE [d EXCEPT !.at = "end"]
<1>1. /\ IInv /\ ObjectOK /\ UNCHANGED vars /\ id' = id
      /\ deleting' = [deleting EXCEPT ![t] = new] /\ d.at = "test"
  BY DEF ObjectInv, DeleteTest, DeletingAt
<1>2. /\ t \in Task /\ Deletes(t) /\ \A u \in Task \ {t} : deleting[u] = Outside
  BY AtPoint DEF DeleteTest
<1>3. k' = k /\ IInv'
  BY <1>1 DEF vars, IInv, Control, Settled, Right
<1>4. /\ d \in [at : {"out", "test", "remove", "end"}, list : 0 .. Len(WaitLists),
                locked : BOOLEAN]
      /\ d.list \in DOMAIN WaitLists /\ ~d.locked
      /\ \A j \in 1 .. d.list - 1 : NoWaiters(j)
  BY <1>1, <1>2 DEF ObjectOK, Deletes
<1>n. Len(WaitLists) \in Nat /\ DOMAIN WaitLists = 1 .. Len(WaitLists)
  BY Lists
<1>t. NoWaiters(d.list) <=> is_queue_empty(k.q, ThisList)
  BY DEF NoWaiters, ThisList
<1> HIDE DEF d
<1>5. /\ new \in [at : {"out", "test", "remove", "end"}, list : 0 .. Len(WaitLists),
                  locked : BOOLEAN]
      /\ new.at # "out" /\ ~new.locked /\ new.list \in DOMAIN WaitLists
      /\ \A j \in 1 .. new.list - 1 : NoWaiters(j)
      /\ new.at = "remove" => ~NoWaiters(new.list)
      /\ new.at = "end" => \A j \in DOMAIN WaitLists : NoWaiters(j)
  <2>1. CASE ~NoWaiters(d.list)
    <3>1. new = [d EXCEPT !.at = "remove"]
      BY <1>t, <2>1
    <3>2. QED
      BY <1>1, <1>4, <2>1, <3>1
  <2>2. CASE NoWaiters(d.list) /\ d.list < Len(WaitLists)
    <3>1. new = [d EXCEPT !.list = @ + 1]
      BY <1>t, <2>2
    <3>2. d.list + 1 \in 1 .. Len(WaitLists) /\ d.list + 1 \in 0 .. Len(WaitLists)
      BY <1>n, <1>4, <2>2
    <3>3. new.at = "test" /\ new.list = d.list + 1 /\ new.locked = d.locked
      BY <1>1, <1>4, <3>1 DEF d
    <3>4. \A j \in 1 .. new.list - 1 : j \in 1 .. d.list - 1 \/ j = d.list
      BY <1>n, <1>4, <3>3
    <3>5. QED
      BY <1>n, <1>4, <2>2, <3>1, <3>2, <3>3, <3>4
  <2>3. CASE NoWaiters(d.list) /\ ~(d.list < Len(WaitLists))
    <3>1. new = [d EXCEPT !.at = "end"]
      BY <1>t, <2>3
    <3>2. \A j \in 1 .. Len(WaitLists) : j \in 1 .. d.list - 1 \/ j = d.list
      BY <1>n, <1>4, <2>3
    <3>3. QED
      BY <1>n, <1>4, <2>3, <3>1, <3>2
  <2>4. QED
    BY <2>1, <2>2, <2>3
<1> HIDE DEF new
<1>6. /\ deleting'[t] = new /\ \A u \in Task \ {t} : deleting'[u] = Outside
      /\ deleting' \in [Task -> [at : {"out", "test", "remove", "end"},
                                 list : 0 .. Len(WaitLists), locked : BOOLEAN]]
  BY <1>1, <1>2, <1>5 DEF ObjectOK
<1>7. ASSUME NEW u \in Task, u = t
      PROVE  Deletes(u)'
  BY <1>1, <1>2, <1>5, <1>6, <1>7 DEF Deletes, NoWaiters, vars
<1>8. DeletersOK'
  BY <1>6, <1>7 DEF DeletersOK
<1>9. QED
  BY <1>1, <1>3, <1>6, <1>8 DEF ObjectInv, ObjectOK, SameLines

\* t leaves its place w in list i; the other lists stay.
LeavesList(rs, i, w, t) ==
  /\ Line(k, WaitLists[i], rs[i], w) /\ t \in Range(w)
  /\ Line(k', WaitLists[i], rs[i], RemoveFirst(w, t))
  /\ \A j \in DOMAIN WaitLists \ {i} : \A v :
       Line(k, WaitLists[j], rs[j], v) => Line(k', WaitLists[j], rs[j], v)
  /\ Waits(k') = Waits(k) \ {t}

\* The body of the loop releases one task, with the code that says why.
LEMMA DeleteRemoveOK ==
  ASSUME NEW rs, Kinds(rs), ObjectInv(rs), DeleteRemove
  PROVE  /\ ObjectInv(rs)' /\ id' = id
         /\ \E i \in DOMAIN WaitLists : \E w, u :
              /\ LeavesList(rs, i, w, u) /\ k'.task_wait_rc[u] = "TERR_DLT"
              /\ k' = [ReleaseFirst(k, ThisList) EXCEPT !.task_wait_rc[u] = "TERR_DLT"]
              /\ u = FirstWaiter(k, ThisList)
<1> DEFINE t == tn_curr_run_task
           i == deleting[t].list
           que == WaitLists[i]
           u == FirstWaiter(k, que)
           s == ReleaseFirst(k, que)
<1>1. /\ IInv /\ KernelOK(k) /\ ObjectOK /\ WaitersOK(k, rs) /\ id' = id
      /\ task_stk' = task_stk /\ deleting[t].at = "remove"
  BY DEF ObjectInv, IInv, DeleteRemove, DeletingAt
<1>2. /\ t \in Task /\ Deletes(t) /\ tn_int_counter = 0
      /\ \A v \in Task \ {t} : deleting[v] = Outside
  BY AtPoint DEF DeleteRemove
<1>3. /\ i \in DOMAIN WaitLists /\ ~NoWaiters(i) /\ t \in AppTask
      /\ t \in Rdy(k) /\ tn_timer_task \notin Rdy(k)
      /\ \A v \in AppTask \ {t} : k.priority[t] < k.priority[v] /\ ~Suspended(k, v)
      /\ \A j \in 1 .. i - 1 : NoWaiters(j)
  BY <1>1, <1>2 DEF Deletes
<1>4. que = ThisList /\ que \in WaitQueue /\ rs[i] \in WaitReason
  BY <1>3, Lists DEF ThisList
<1> HIDE DEF i
<1>5. PICK w : Line(k, que, rs[i], w)
  BY <1>1, <1>3 DEF WaitersOK
<1>6. w # <<>>
  BY <1>1, <1>3, <1>5, EmptyLine DEF NoWaiters
<1> HIDE DEF que
<1>7. /\ u = w[1] /\ u \in Range(w) /\ u \in Task
      /\ KernelOK(s) /\ s.priority = k.priority
      /\ ~Suspended(k, u) => Rdy(s) = Rdy(k) \cup {u}
      /\ Line(s, que, rs[i], Tail(w)) /\ Apart(k, s, que, rs[i])
      /\ Waits(s) = Waits(k) \ {u} /\ Tail(w) = RemoveFirst(w, u)
      /\ Range(Tail(w)) = Range(w) \ {u}
      /\ \A v \in Task \ {u} : s.task_state[v] = k.task_state[v]
  BY <1>1, <1>4, <1>5, <1>6, ReleaseFirstOK
<1> HIDE DEF u, s
<1>8. Range(w) \subseteq AppTask
  BY <1>1, <1>3, <1>5, LineTasks DEF que
<1>9. u \in AppTask \ {t} /\ ~Suspended(k, u)
  <2>1. u \in Waits(k)
    BY <1>5, <1>7 DEF Line, On
  <2>2. u # t
    BY <1>3, <2>1 DEF Waits, Waiting, Rdy
  <2>3. QED
    BY <1>3, <1>7, <1>8, <2>2
<1>10. /\ ~is_queue_empty(k.q, que)
       /\ k' = [s EXCEPT !.task_wait_rc[u] = "TERR_DLT"]
       /\ Switches
       /\ deleting' = [deleting EXCEPT ![t].at = "test", ![t].locked = FALSE]
  <2>1. ~is_queue_empty(k.q, que)
    BY <1>3 DEF NoWaiters, que
  <2>2. ~is_queue_empty(k.q, ThisList) /\ ~Suspended(k, FirstWaiter(k, ThisList))
    BY <1>4, <1>9, <2>1 DEF u
  <2>3. /\ k' = ReleaseDeleted(k, que) /\ Switches
        /\ deleting' = [deleting EXCEPT ![t].at = "test", ![t].locked = FALSE]
    BY <1>4, <2>2, Zenon DEF DeleteRemove
  <2>4. QED
    BY <1>9, <2>1, <2>3 DEF ReleaseDeleted, s, u
<1>11. /\ k' \in KernelState /\ SameLists(s, k') /\ k'.task_state = s.task_state
       /\ k'.created = s.created /\ k'.tick_count = s.tick_count
       /\ k'.task_wait_reason = s.task_wait_reason
       /\ k'.tn_tslice_ticks = s.tn_tslice_ticks
       /\ k'.task_wait_rc[u] = "TERR_DLT"
  BY <1>7, <1>10 DEF KernelOK, KernelState, SameLists
<1>12. /\ Rdy(k') = Rdy(s) /\ Waits(k') = Waits(s) /\ \A x : On(k', x) = On(s, x)
       /\ TaskOK(k') /\ \A que2, x, v : Line(s, que2, x, v) <=> Line(k', que2, x, v)
  BY <1>7, <1>11 DEF Rdy, Waits, Waiting, On, KernelOK, TaskOK, Levels, SameLists, Line
<1>13. KernelOK(k')
  BY <1>7, <1>11, <1>12, KernelFrame
<1>14. Line(k', que, rs[i], Tail(w)) /\ Apart(k, k', que, rs[i])
  BY <1>7, <1>12 DEF Apart
<1>15. IInv'
  BY <1>1, <1>2, <1>10, <1>13, AfterSwitches DEF IInv, Control
<1>16. /\ WaitersOK(k', rs)
       /\ \A j \in DOMAIN WaitLists \ {i} : \A v :
            Line(k, WaitLists[j], rs[j], v) => Line(k', WaitLists[j], rs[j], v)
  <2>1. Range(Tail(w)) \subseteq AppTask
    BY <1>7, <1>8
  <2>2. QED
    BY <1>1, <1>3, <1>14, <2>1, OneLine DEF que
<1> DEFINE new == [deleting[t] EXCEPT !.at = "test", !.locked = FALSE]
<1>17. /\ deleting[t] \in [at : {"out", "test", "remove", "end"},
                           list : 0 .. Len(WaitLists), locked : BOOLEAN]
       /\ deleting' = [deleting EXCEPT ![t] = new]
  BY <1>1, <1>2, <1>10 DEF ObjectOK
<1>18. /\ new \in [at : {"out", "test", "remove", "end"},
                   list : 0 .. Len(WaitLists), locked : BOOLEAN]
       /\ new.at = "test" /\ new.list = i /\ ~new.locked
  BY <1>17 DEF i
<1> HIDE DEF new
<1>19. /\ deleting'[t] = new /\ \A v \in Task \ {t} : deleting'[v] = Outside
       /\ deleting' \in [Task -> [at : {"out", "test", "remove", "end"},
                                  list : 0 .. Len(WaitLists), locked : BOOLEAN]]
  BY <1>1, <1>2, <1>17, <1>18 DEF ObjectOK
<1>20. \A j \in 1 .. i - 1 : NoWaiters(j)'
  <2> SUFFICES ASSUME NEW j \in 1 .. i - 1
               PROVE  NoWaiters(j)'
    OBVIOUS
  <2>1. j \in DOMAIN WaitLists \ {i} /\ NoWaiters(j)
    BY <1>3, Lists
  <2>2. PICK v : Line(k, WaitLists[j], rs[j], v)
    BY <1>1, <2>1 DEF WaitersOK
  <2>3. v = <<>>
    BY <1>1, <2>1, <2>2, EmptyLine DEF NoWaiters
  <2>4. Line(k', WaitLists[j], rs[j], v)
    BY <1>16, <2>1, <2>2
  <2>5. is_queue_empty(k'.q, WaitLists[j])
    BY <1>13, <2>3, <2>4, EmptyLine
  <2>6. QED
    BY <2>5 DEF NoWaiters
<1>21. ASSUME NEW x \in Task, x = t
       PROVE  Deletes(x)'
  <2>1. /\ tn_curr_run_task' = t /\ pc' = "switch" /\ ~tn_context_switch_request' /\ id'
    BY <1>1, <1>2, <1>10 DEF Switches, interrupts, Deletes
  <2>2. /\ t \in Rdy(k') /\ tn_timer_task \notin Rdy(k')
    BY <1>3, <1>7, <1>9, <1>12, Nodes
  <2>3. ASSUME NEW v \in AppTask \ {t}
        PROVE  k'.priority[t] < k'.priority[v] /\ ~Suspended(k', v)
    <3>1. k'.priority = k.priority
      BY <1>7, <1>11 DEF SameLists
    <3>2. CASE v = u
      <4>1. u \in Rdy(k')
        BY <1>7, <1>9, <1>12
      <4>2. QED
        BY <1>3, <3>1, <3>2, <4>1 DEF Rdy, Suspended
    <3>3. CASE v # u
      <4>1. k'.task_state[v] = k.task_state[v]
        BY <1>7, <1>11, <3>3, Nodes
      <4>2. QED
        BY <1>3, <3>1, <4>1 DEF Suspended
    <3>4. QED
      BY <3>2, <3>3
  <2>4. QED
    BY <1>3, <1>18, <1>19, <1>20, <1>21, <2>1, <2>2, <2>3 DEF Deletes
<1>22. DeletersOK'
  BY <1>19, <1>21 DEF DeletersOK
<1>23. ObjectInv(rs)'
  BY <1>1, <1>15, <1>16, <1>19, <1>22 DEF ObjectInv, ObjectOK
<1>24. LeavesList(rs, i, w, u) /\ k'.task_wait_rc[u] = "TERR_DLT"
  BY <1>5, <1>7, <1>11, <1>12, <1>14, <1>16 DEF que, LeavesList
<1>25. /\ k' = [ReleaseFirst(k, ThisList) EXCEPT !.task_wait_rc[u] = "TERR_DLT"]
       /\ u = FirstWaiter(k, ThisList)
  BY <1>4, <1>10 DEF s, u
<1>26. QED
  BY <1>1, <1>3, <1>23, <1>24, <1>25

LEMMA DeleteEndOK ==
  ASSUME NEW rs, Kinds(rs), ObjectInv(rs), DeleteEnd
  PROVE  /\ ObjectInv(rs)' /\ SameLines(k, k', rs) /\ k' = k /\ id /\ ~id'
         /\ \A j \in DOMAIN WaitLists : NoWaiters(j)
<1> DEFINE t == tn_curr_run_task
<1>1. /\ IInv /\ KernelOK(k) /\ ObjectOK /\ WaitersOK(k, rs) /\ k' = k /\ id' = FALSE
      /\ task_stk' = task_stk /\ deleting[t].at = "end" /\ Returns
      /\ deleting' = [deleting EXCEPT ![t] = Outside]
  BY DEF ObjectInv, IInv, DeleteEnd, DeletingAt
<1>2. /\ t \in Task /\ Deletes(t) /\ tn_int_counter = 0 /\ pc = "user" /\ Right(k)
      /\ \A v \in Task \ {t} : deleting[v] = Outside
  BY AtPoint DEF DeleteEnd
<1>3. id /\ \A j \in DOMAIN WaitLists : NoWaiters(j)
  BY <1>1, <1>2 DEF Deletes
<1>4. IInv'
  BY <1>1, <1>2, AfterReturn DEF IInv, Control
<1>5. Outside \in [at : {"out", "test", "remove", "end"}, list : 0 .. Len(WaitLists),
                   locked : BOOLEAN]
  <2>1. 0 \in 0 .. Len(WaitLists)
    BY Lists
  <2>2. QED
    BY <2>1 DEF Outside
<1>6. /\ \A v \in Task : deleting'[v] = Outside
      /\ deleting' \in [Task -> [at : {"out", "test", "remove", "end"},
                                 list : 0 .. Len(WaitLists), locked : BOOLEAN]]
  BY <1>1, <1>2, <1>5 DEF ObjectOK
<1>7. ObjectOK'
  BY <1>1, <1>6, StillObject
<1>8. QED
  BY <1>1, <1>3, <1>4, <1>7 DEF ObjectInv, SameLines

LEMMA TerminateStepOK ==
  ASSUME NEW rs, Kinds(rs), ObjectInv(rs), NEW t \in AppTask, ~Sleeping(t), Terminate(t)
  PROVE  /\ ObjectInv(rs)' /\ id' = id
         /\ \/ SameLines(k, k', rs) /\ Waits(k') = Waits(k) /\ t \notin Waits(k)
            \/ \E i \in DOMAIN WaitLists : \E w : LeavesList(rs, i, w, t)
<1>1. /\ IInv /\ KernelOK(k) /\ ObjectOK /\ WaitersOK(k, rs) /\ id' = id
      /\ deleting' = [deleting EXCEPT ![t] = Outside] /\ t \in Task
      /\ tn_task_terminate(t)
  BY Nodes DEF ObjectInv, IInv, Terminate
<1>2. \A u \in Task : deleting[u] = Outside
  BY <1>1, NobodyElse DEF Terminate
<1>3. deleting' = deleting
  BY <1>1, <1>2 DEF ObjectOK
<1>4. ObjectOK'
  BY <1>1, <1>2, <1>3, StillObject DEF ObjectOK
<1>5. CASE ~Waiting(k, t)
  <2> DEFINE d == Detach(k, t)
  <2>1. Detached(k, d, t) /\ Stops(k, d, {})
    BY <1>1, <1>5, DetachOK
  <2>2. IInv' /\ Stops(d, k', {t})
    BY <1>1, <2>1, TerminateOK
  <2> HIDE DEF d
  <2>3. Stops(k, k', {} \cup {t})
    BY <2>1, <2>2, StopsTrans
  <2>4. Stops(k, k', {}) /\ Waits(k') = Waits(k) /\ t \notin Waits(k)
    BY <1>5, <2>3 DEF Stops, Waits
  <2>5. QED
    BY <1>1, <1>4, <2>2, <2>4, StillWaits DEF ObjectInv
<1>6. CASE Waiting(k, t)
  <2>1. PICK i \in DOMAIN WaitLists : t \in On(k, rs[i])
    BY <1>1, <1>6 DEF Sleeping, WaitersOK, Waits, On
  <2>2. PICK w : Line(k, WaitLists[i], rs[i], w)
    BY <1>1 DEF WaitersOK
  <2>3. t \in Range(w) /\ WaitLists[i] \in WaitQueue /\ Range(w) \subseteq AppTask
    BY <1>1, <2>1, <2>2, Lists, LineTasks DEF Line
  <2>4. /\ IInv' /\ Line(k', WaitLists[i], rs[i], RemoveFirst(w, t))
        /\ Apart(k, k', WaitLists[i], rs[i]) /\ Waits(k') = Waits(k) \ {t}
    BY <1>1, <2>2, <2>3, TerminateWaiterOK
  <2>5. Range(RemoveFirst(w, t)) \subseteq AppTask
    <3>1. w \in Seq(Node \ {WaitLists[i]}) /\ IsInjective(w)
      BY <2>2 DEF Line, Holds
    <3>2. QED
      BY <2>3, <3>1, RemoveFirstEntries
  <2>6. /\ WaitersOK(k', rs)
        /\ \A j \in DOMAIN WaitLists \ {i} : \A v :
             Line(k, WaitLists[j], rs[j], v) => Line(k', WaitLists[j], rs[j], v)
    BY <1>1, <2>4, <2>5, OneLine
  <2>7. LeavesList(rs, i, w, t)
    BY <2>2, <2>3, <2>4, <2>6 DEF LeavesList
  <2>8. QED
    BY <1>1, <1>4, <2>4, <2>6, <2>7 DEF ObjectInv
<1>7. QED
  BY <1>5, <1>6

\* The steps the applications of all objects share.
ObjectStep ==
  \/ DeleteSteps \/ TaskCall \/ Start \/ Enter \/ Leave \/ Switch
  \/ \E t \in AppTask : ~Sleeping(t) /\ Terminate(t)
  \/ NobodyDeletes /\ TaskInterrupt
  \/ Undisturbed /\ DeleteBegin

\* They end a wait only by deleting the object or by terminating the task, and
\* delete the object only when nobody waits.
LEMMA ObjectStepOK ==
  ASSUME NEW rs, Kinds(rs), WaitLists # <<>>, ObjectInv(rs), ObjectStep
  PROVE  /\ ObjectInv(rs)'
         /\ \/ SameLines(k, k', rs)
            \/ \E i \in DOMAIN WaitLists : \E w, t : LeavesList(rs, i, w, t)
         /\ \A t \in Waits(k) \ Waits(k') :
               k'.task_wait_rc[t] = "TERR_DLT" \/ Terminate(t)
         /\ \/ id' = id
            \/ id /\ ~id' /\ k' = k /\ \A j \in DOMAIN WaitLists : NoWaiters(j)
<1>1. CASE TaskCall \/ Start \/ (NobodyDeletes /\ TaskInterrupt)
  BY <1>1, TaskStepOK
<1>2. CASE Enter \/ Leave \/ Switch
  BY <1>2, SwitchStepOK
<1>3. CASE (Undisturbed /\ DeleteBegin) \/ DeleteTest
  BY <1>3, DeleteBeginOK, DeleteTestOK
<1>4. CASE DeleteEnd
  BY <1>4, DeleteEndOK
<1>5. CASE DeleteRemove
  <2>0. PICK i \in DOMAIN WaitLists :
          \E w, u : LeavesList(rs, i, w, u) /\ k'.task_wait_rc[u] = "TERR_DLT"
    BY <1>5, DeleteRemoveOK
  <2>1. PICK w, u : LeavesList(rs, i, w, u) /\ k'.task_wait_rc[u] = "TERR_DLT"
    BY <2>0
  <2>2. Waits(k') = Waits(k) \ {u}
    BY <2>1 DEF LeavesList
  <2>3. ObjectInv(rs)' /\ id' = id
    BY <1>5, DeleteRemoveOK
  <2>4. QED
    BY <2>1, <2>2, <2>3
<1>6. ASSUME NEW t \in AppTask, ~Sleeping(t), Terminate(t)
      PROVE  /\ ObjectInv(rs)'
             /\ \/ SameLines(k, k', rs)
                \/ \E i \in DOMAIN WaitLists : \E w, u : LeavesList(rs, i, w, u)
             /\ \A u \in Waits(k) \ Waits(k') : u = t
             /\ id' = id
  BY <1>6, TerminateStepOK DEF LeavesList
<1>7. QED
  BY <1>1, <1>2, <1>3, <1>4, <1>5, <1>6 DEF ObjectStep, DeleteSteps

-----------------------------------------------------------------------------
\* The code with which a task's last wait ended, and who is created: few
\* functions of the kernel touch either.

HasCodes(s) == {"created", "task_wait_rc"} \subseteq DOMAIN s
Codes(s) == <<DOMAIN s, s.created, s.task_wait_rc>>
Cleared(s, r, t) == /\ DOMAIN r = DOMAIN s /\ r.created = s.created
                    /\ r.task_wait_rc = [s.task_wait_rc EXCEPT ![t] = "TERR_NO_ERR"]

LEMMA CodesKept ==
  ASSUME NEW s, HasCodes(s), NEW t
  PROVE  /\ Codes(task_to_runnable(s, t)) = Codes(s)
         /\ Codes(task_to_non_runnable(s, t)) = Codes(s)
         /\ Codes(StopTimer(s, t)) = Codes(s)
         /\ Codes(Reactivate(s, t)) = Codes(s)
<1>1. Codes(task_to_runnable(s, t)) = Codes(s)
  BY DEF task_to_runnable, Codes, HasCodes
<1>2. Codes(task_to_non_runnable(s, t)) = Codes(s)
  BY DEF task_to_non_runnable, find_next_task_to_run, Codes, HasCodes
<1>3. Codes(StopTimer(s, t)) = Codes(s)
  BY DEF StopTimer, Codes, HasCodes
<1>4. Codes(Reactivate(s, t)) = Codes(s)
  <2> DEFINE r == [s EXCEPT !.activate_count[t] = @ - 1]
  <2>1. Codes(r) = Codes(s)
    BY DEF Codes, HasCodes
  <2>2. Reactivate(s, t) = s \/ Reactivate(s, t) = task_to_runnable(r, t)
    BY DEF Reactivate
  <2> HIDE DEF r
  <2>3. Codes(task_to_runnable(r, t)) = Codes(r)
    BY <2>1 DEF task_to_runnable, Codes, HasCodes
  <2>4. QED
    BY <2>1, <2>2, <2>3
<1>5. QED
  BY <1>1, <1>2, <1>3, <1>4

LEMMA CodesSet ==
  ASSUME NEW s, HasCodes(s), NEW t
  PROVE  /\ Cleared(s, task_wait_complete(s, t), t)
         /\ Cleared(s, task_set_dormant_state(s, t), t)
         /\ Codes(Detach(s, t)) = Codes(s)
         /\ \A que, reason, timeout :
              Codes(task_curr_to_wait_action(s, t, que, reason, timeout)) = Codes(s)
<1>1. Cleared(s, task_wait_complete(s, t), t)
  <2> DEFINE s0 == StopTimer(s, t)
             s1 == [s0 EXCEPT !.task_wait_reason[t] = "none",
                              !.task_wait_rc[t] = "TERR_NO_ERR"]
  <2>1. Codes(s0) = Codes(s)
    BY CodesKept
  <2>2. task_wait_complete(s, t) = IF Suspended(s, t) THEN [s1 EXCEPT !.task_state[t] = "SUSPEND"]
                                                      ELSE task_to_runnable(s1, t)
    BY DEF task_wait_complete
  <2> HIDE DEF s0
  <2>3. Cleared(s, s1, t)
    BY <2>1 DEF Cleared, Codes, HasCodes
  <2> HIDE DEF s1
  <2>4. HasCodes(s1)
    BY <2>3 DEF Cleared, HasCodes
  <2>5. Codes(task_to_runnable(s1, t)) = Codes(s1)
    BY <2>4, CodesKept
  <2>6. Codes([s1 EXCEPT !.task_state[t] = "SUSPEND"]) = Codes(s1)
    BY <2>4 DEF Codes, HasCodes
  <2>7. QED
    BY <2>2, <2>3, <2>5, <2>6 DEF Codes, Cleared
<1>2. Cleared(s, task_set_dormant_state(s, t), t)
  BY DEF task_set_dormant_state, Cleared, HasCodes
<1>3. Codes(Detach(s, t)) = Codes(s)
  <2> DEFINE r == [s EXCEPT !.q = queue_remove_entry(@, t)]
  <2>1. Codes(r) = Codes(s) /\ HasCodes(r)
    BY DEF Codes, HasCodes
  <2>2. \/ Detach(s, t) = task_to_non_runnable(s, t)
        \/ Detach(s, t) = StopTimer(r, t)
        \/ Detach(s, t) = s
    BY DEF Detach
  <2> HIDE DEF r
  <2>3. QED
    BY <2>1, <2>2, CodesKept
<1>4. ASSUME NEW que, NEW reason, NEW timeout
      PROVE  Codes(task_curr_to_wait_action(s, t, que, reason, timeout)) = Codes(s)
  <2> DEFINE s1 == task_to_non_runnable(s, t)
  <2>1. Codes(s1) = Codes(s)
    BY CodesKept
  <2>2. HasCodes(s1)
    BY <2>1 DEF Codes, HasCodes
  <2> HIDE DEF s1
  <2>3. Codes(task_curr_to_wait_action(s, t, que, reason, timeout)) = Codes(s1)
    BY <2>2 DEF task_curr_to_wait_action, s1, Codes, HasCodes
  <2>4. QED
    BY <2>1, <2>3
<1>5. QED
  BY <1>1, <1>2, <1>3, <1>4

LEMMA CodesReleased ==
  ASSUME NEW s, HasCodes(s), NEW que
  PROVE  Cleared(s, ReleaseFirst(s, que), FirstWaiter(s, que))
<1> DEFINE r == [s EXCEPT !.q = queue_remove_head(@, que)]
<1>1. Codes(r) = Codes(s) /\ HasCodes(r)
  BY DEF Codes, HasCodes
<1>2. ReleaseFirst(s, que) = task_wait_complete(r, FirstWaiter(s, que))
  BY DEF ReleaseFirst
<1> HIDE DEF r
<1>3. Cleared(r, task_wait_complete(r, FirstWaiter(s, que)), FirstWaiter(s, que))
  BY <1>1, CodesSet
<1>4. QED
  BY <1>1, <1>2, <1>3 DEF Cleared, Codes

\* A step that ends no task.
PlainStep ==
  \/ DeleteSteps \/ Start \/ Enter \/ Leave \/ Switch
  \/ /\ Free /\ UNCHANGED object
     /\ \E t \in AppTask : tn_task_suspend(t) \/ tn_task_resume(t) \/ tn_task_activate(t)
  \/ NobodyDeletes /\ TaskInterrupt
  \/ Undisturbed /\ DeleteBegin

\* A task keeps its code and goes on waiting, or is released by the deletion.
Undone(t) == \/ /\ k'.task_wait_rc[t] = k.task_wait_rc[t]
                /\ t \in Waits(k) => t \in Waits(k')
             \/ t \in Waits(k) /\ k'.task_wait_rc[t] = "TERR_DLT"

LEMMA PlainCodes ==
  ASSUME NEW rs, Kinds(rs), ObjectInv(rs), PlainStep, ~DeleteRemove
  PROVE  /\ k.created \subseteq k'.created
         /\ \A t \in k.created : k'.task_wait_rc[t] = k.task_wait_rc[t]
<1>1. k \in KernelState
  BY DEF ObjectInv, IInv, KernelOK
<1>2. HasCodes(k)
  BY <1>1 DEF KernelState, HasCodes
<1>3. Codes(k') = Codes(k) =>
        /\ k.created \subseteq k'.created
        /\ \A t \in k.created : k'.task_wait_rc[t] = k.task_wait_rc[t]
  BY DEF Codes
<1>4. CASE DeleteTest \/ DeleteEnd \/ DeleteBegin \/ Enter \/ Leave \/ Switch \/ tn_cpu_int_enable
  <2>1. k' = k
    BY <1>4 DEF DeleteTest, DeleteEnd, DeleteBegin, Enter, Leave, Switch, IrqEnter, IrqExit,
                ContextSwitch, tn_switch_context, tn_switch_context_exit, tn_cpu_int_enable, vars
  <2>2. QED
    BY <2>1
<1>5. ASSUME NEW t \in AppTask, tn_task_create(t, TRUE)
      PROVE  /\ k.created \subseteq k'.created
             /\ \A u \in k.created : k'.task_wait_rc[u] = k.task_wait_rc[u]
  <2> DEFINE s0 == [k EXCEPT !.created = @ \cup {t}, !.activate_count[t] = 0]
             s == task_set_dormant_state(s0, t)
  <2>1. /\ HasCodes(s0) /\ s0.created = k.created \cup {t} /\ s0.task_wait_rc = k.task_wait_rc
    BY <1>2 DEF HasCodes
  <2>2. t \notin k.created /\ k' = task_to_runnable(s, t)
    BY <1>5 DEF tn_task_create
  <2> HIDE DEF s0
  <2>3. Cleared(s0, s, t)
    BY <2>1, CodesSet
  <2> HIDE DEF s
  <2>4. Codes(k') = Codes(s)
    BY <2>1, <2>2, <2>3, CodesKept DEF Cleared, HasCodes
  <2>5. /\ k'.created = k.created \cup {t}
        /\ k'.task_wait_rc = [k.task_wait_rc EXCEPT ![t] = "TERR_NO_ERR"]
    BY <2>1, <2>3, <2>4 DEF Codes, Cleared
  <2>6. k.task_wait_rc \in [Task -> {"TERR_NO_ERR", "TERR_TIMEOUT", "TERR_DLT"}]
        /\ k.created \subseteq Task
    BY <1>1 DEF KernelState
  <2>7. QED
    BY <2>2, <2>5, <2>6
<1>6. ASSUME tn_task_sleep(TN_WAIT_INFINITE)
      PROVE  Codes(k') = Codes(k)
  <2>1. \/ k' = [k EXCEPT !.wakeup_count[tn_curr_run_task] = @ - 1]
        \/ k' = task_curr_to_wait_action(k, tn_curr_run_task, NULL, "SLEEP", TN_WAIT_INFINITE)
    BY <1>6 DEF tn_task_sleep
  <2>2. QED
    BY <1>2, <2>1, CodesSet DEF Codes, HasCodes
<1>7. ASSUME NEW t \in AppTask,
             \/ tn_task_suspend(t) \/ tn_task_resume(t)
             \/ tn_task_activate(t) \/ tn_task_iactivate(t)
      PROVE  Codes(k') = Codes(k)
  <2> DEFINE s == [k EXCEPT !.task_state[t] = "SUSPEND"]
  <2>1. Codes(s) = Codes(k) /\ HasCodes(s)
    BY <1>2 DEF Codes, HasCodes
  <2>2. \/ k' = task_to_non_runnable(s, t)
        \/ k' = task_to_runnable(k, t)
        \/ k' = [k EXCEPT !.task_state[t] = "WAITSUSP"]
        \/ k' = [k EXCEPT !.task_state[t] = "WAIT"]
        \/ k' = [k EXCEPT !.activate_count[t] = 1]
    BY <1>7 DEF tn_task_suspend, tn_task_resume, tn_task_activate, tn_task_iactivate,
                CountActivation
  <2> HIDE DEF s
  <2>3. /\ Codes(task_to_non_runnable(s, t)) = Codes(k)
        /\ Codes(task_to_runnable(k, t)) = Codes(k)
    BY <1>2, <2>1, CodesKept
  <2>4. /\ Codes([k EXCEPT !.task_state[t] = "WAITSUSP"]) = Codes(k)
        /\ Codes([k EXCEPT !.task_state[t] = "WAIT"]) = Codes(k)
        /\ Codes([k EXCEPT !.activate_count[t] = 1]) = Codes(k)
    BY <1>2 DEF Codes, HasCodes
  <2>5. QED
    BY <2>2, <2>3, <2>4
<1>8. QED
  BY <1>3, <1>4, <1>5, <1>6, <1>7 DEF PlainStep, DeleteSteps, Start, TaskInterrupt

LEMMA PlainStepOK ==
  ASSUME NEW rs, Kinds(rs), WaitLists # <<>>, ObjectInv(rs), PlainStep
  PROVE  /\ ObjectInv(rs)' /\ Waits(k') \subseteq Waits(k) \cup {tn_timer_task}
         /\ \/ SameLines(k, k', rs)
            \/ \E i \in DOMAIN WaitLists : \E w, t : LeavesList(rs, i, w, t)
         /\ \/ id' = id
            \/ id /\ ~id' /\ k' = k /\ \A j \in DOMAIN WaitLists : NoWaiters(j)
         /\ k.created \subseteq k'.created
         /\ \A t \in k.created : Undone(t)
<1>1. ObjectStep
  BY DEF PlainStep, ObjectStep, TaskCall
<1>2. /\ ObjectInv(rs)'
      /\ \/ SameLines(k, k', rs)
         \/ \E i \in DOMAIN WaitLists : \E w, t : LeavesList(rs, i, w, t)
      /\ \/ id' = id
         \/ id /\ ~id' /\ k' = k /\ \A j \in DOMAIN WaitLists : NoWaiters(j)
  BY <1>1, ObjectStepOK
<1>3. CASE DeleteRemove
  <2>1. PICK i \in DOMAIN WaitLists : \E w, u :
              /\ LeavesList(rs, i, w, u) /\ k'.task_wait_rc[u] = "TERR_DLT"
              /\ k' = [ReleaseFirst(k, ThisList) EXCEPT !.task_wait_rc[u] = "TERR_DLT"]
              /\ u = FirstWaiter(k, ThisList)
    BY <1>3, DeleteRemoveOK
  <2>2. PICK w, u :
              /\ LeavesList(rs, i, w, u) /\ k'.task_wait_rc[u] = "TERR_DLT"
              /\ k' = [ReleaseFirst(k, ThisList) EXCEPT !.task_wait_rc[u] = "TERR_DLT"]
              /\ u = FirstWaiter(k, ThisList)
    BY <2>1
  <2> DEFINE s == ReleaseFirst(k, ThisList)
  <2>3. k \in KernelState
    BY DEF ObjectInv, IInv, KernelOK
  <2>4. HasCodes(k) /\ k.created \subseteq Task
        /\ k.task_wait_rc \in [Task -> {"TERR_NO_ERR", "TERR_TIMEOUT", "TERR_DLT"}]
    BY <2>3 DEF KernelState, HasCodes
  <2>5. Cleared(k, s, u)
    BY <2>2, <2>4, CodesReleased
  <2> HIDE DEF s
  <2>6. /\ k'.created = k.created
        /\ \A t \in Task \ {u} : k'.task_wait_rc[t] = k.task_wait_rc[t]
    BY <2>2, <2>4, <2>5 DEF Cleared, HasCodes, s
  <2>7. Waits(k') = Waits(k) \ {u} /\ u \in Waits(k)
    BY <2>2 DEF LeavesList, Line, On
  <2>8. QED
    BY <1>2, <2>2, <2>4, <2>6, <2>7 DEF Undone
<1>4. CASE ~DeleteRemove
  <2>1. /\ k.created \subseteq k'.created
        /\ \A t \in k.created : k'.task_wait_rc[t] = k.task_wait_rc[t]
    BY <1>4, PlainCodes
  <2>2. Waits(k) \subseteq Waits(k') /\ Waits(k') \subseteq Waits(k) \cup {tn_timer_task}
    <3>1. CASE Start \/ TaskCall \/ (NobodyDeletes /\ TaskInterrupt)
      BY <3>1, TaskStepOK
    <3>2. CASE k' = k
      BY <3>2
    <3>3. QED
      BY <1>4, <3>1, <3>2, SwitchStepOK, DeleteBeginOK, DeleteTestOK, DeleteEndOK
      DEF PlainStep, DeleteSteps, TaskCall
  <2>3. QED
    BY <1>2, <2>1, <2>2 DEF Undone
<1>5. QED
  BY <1>3, <1>4

\* What becomes of the codes when a task ends.
LEMMA EndCodes ==
  ASSUME NEW rs, Kinds(rs), ObjectInv(rs), NEW t \in Task,
         tn_task_terminate(t) \/ (tn_task_exit(FALSE) /\ t = tn_curr_run_task)
  PROVE  Cleared(k, k', t)
<1>1. k \in KernelState
  BY DEF ObjectInv, IInv, KernelOK
<1>2. HasCodes(k)
  BY <1>1 DEF KernelState, HasCodes
<1>3. ASSUME NEW d, Codes(d) = Codes(k), NEW r, r = Reactivate(task_set_dormant_state(d, t), t)
      PROVE  Cleared(k, r, t)
  <2> DEFINE s == task_set_dormant_state(d, t)
  <2>1. HasCodes(d)
    BY <1>2, <1>3 DEF Codes, HasCodes
  <2>2. Cleared(d, s, t)
    BY <2>1, CodesSet
  <2> HIDE DEF s
  <2>3. HasCodes(s)
    BY <2>1, <2>2 DEF Cleared, HasCodes
  <2>4. Codes(Reactivate(s, t)) = Codes(s)
    BY <2>3, CodesKept
  <2>5. QED
    BY <1>3, <2>2, <2>4 DEF Codes, Cleared, s
<1>4. CASE tn_task_terminate(t)
  <2>1. k' = Reactivate(task_set_dormant_state(Detach(k, t), t), t)
    BY <1>4 DEF tn_task_terminate
  <2>2. Codes(Detach(k, t)) = Codes(k)
    BY <1>2, CodesSet
  <2>3. QED
    BY <1>3, <2>1, <2>2
<1>5. CASE tn_task_exit(FALSE) /\ t = tn_curr_run_task
  <2>1. k' = Reactivate(task_set_dormant_state(task_to_non_runnable(k, t), t), t)
    BY <1>5 DEF tn_task_exit
  <2>2. Codes(task_to_non_runnable(k, t)) = Codes(k)
    BY <1>2, CodesKept
  <2>3. QED
    BY <1>3, <2>1, <2>2
<1>6. QED
  BY <1>4, <1>5

-----------------------------------------------------------------------------
\* The tasks that are suspended while they wait.

Suspends(s) == {t \in Task : s.task_state[t] = "WAITSUSP"}
HasStates(s) == "task_state" \in DOMAIN s /\ DOMAIN s.task_state = Task
\* From s to r no task is added to them.
Fewer(s, r) == HasStates(r) /\ Suspends(r) \subseteq Suspends(s)

LEMMA FewerKept ==
  ASSUME NEW s, HasStates(s), NEW t
  PROVE  /\ Fewer(s, task_to_runnable(s, t)) /\ Fewer(s, task_to_non_runnable(s, t))
         /\ Fewer(s, StopTimer(s, t)) /\ Fewer(s, Reactivate(s, t))
<1>1. Fewer(s, task_to_runnable(s, t))
  BY DEF task_to_runnable, Fewer, HasStates, Suspends
<1>2. Fewer(s, task_to_non_runnable(s, t))
  BY DEF task_to_non_runnable, find_next_task_to_run, Fewer, HasStates, Suspends
<1>3. Fewer(s, StopTimer(s, t))
  BY DEF StopTimer, Fewer, HasStates, Suspends
<1>4. Fewer(s, Reactivate(s, t))
  <2> DEFINE r == [s EXCEPT !.activate_count[t] = @ - 1]
  <2>1. Fewer(s, r)
    BY DEF Fewer, HasStates, Suspends
  <2>2. Reactivate(s, t) = s \/ Reactivate(s, t) = task_to_runnable(r, t)
    BY DEF Reactivate
  <2> HIDE DEF r
  <2>3. Fewer(r, task_to_runnable(r, t))
    BY <2>1 DEF task_to_runnable, Fewer, HasStates, Suspends
  <2>4. QED
    BY <2>1, <2>2, <2>3 DEF Fewer
<1>5. QED
  BY <1>1, <1>2, <1>3, <1>4

LEMMA FewerSet ==
  ASSUME NEW s, HasStates(s), NEW t
  PROVE  /\ Fewer(s, task_wait_complete(s, t)) /\ Fewer(s, task_set_dormant_state(s, t))
         /\ Fewer(s, Detach(s, t))
         /\ \A que, reason, timeout :
              Fewer(s, task_curr_to_wait_action(s, t, que, reason, timeout))
<1>1. Fewer(s, task_wait_complete(s, t))
  <2> DEFINE s0 == StopTimer(s, t)
             s1 == [s0 EXCEPT !.task_wait_reason[t] = "none",
                              !.task_wait_rc[t] = "TERR_NO_ERR"]
  <2>1. Fewer(s, s0)
    BY FewerKept
  <2>2. task_wait_complete(s, t) = IF Suspended(s, t) THEN [s1 EXCEPT !.task_state[t] = "SUSPEND"]
                                                      ELSE task_to_runnable(s1, t)
    BY DEF task_wait_complete
  <2> HIDE DEF s0
  <2>3. Fewer(s, s1)
    BY <2>1 DEF Fewer, HasStates, Suspends
  <2> HIDE DEF s1
  <2>4. Fewer(s1, task_to_runnable(s1, t))
    BY <2>3, FewerKept DEF Fewer
  <2>5. Fewer(s1, [s1 EXCEPT !.task_state[t] = "SUSPEND"])
    BY <2>3 DEF Fewer, HasStates, Suspends
  <2>6. QED
    BY <2>2, <2>3, <2>4, <2>5 DEF Fewer
<1>2. Fewer(s, task_set_dormant_state(s, t))
  BY DEF task_set_dormant_state, Fewer, HasStates, Suspends
<1>3. Fewer(s, Detach(s, t))
  <2> DEFINE r == [s EXCEPT !.q = queue_remove_entry(@, t)]
  <2>1. Fewer(s, r)
    BY DEF Fewer, HasStates, Suspends
  <2>2. \/ Detach(s, t) = task_to_non_runnable(s, t)
        \/ Detach(s, t) = StopTimer(r, t)
        \/ Detach(s, t) = s
    BY DEF Detach
  <2> HIDE DEF r
  <2>3. Fewer(s, task_to_non_runnable(s, t)) /\ Fewer(r, StopTimer(r, t))
    BY <2>1, FewerKept DEF Fewer
  <2>4. QED
    BY <2>1, <2>2, <2>3 DEF Fewer
<1>4. ASSUME NEW que, NEW reason, NEW timeout
      PROVE  Fewer(s, task_curr_to_wait_action(s, t, que, reason, timeout))
  <2> DEFINE s1 == task_to_non_runnable(s, t)
  <2>1. Fewer(s, s1)
    BY FewerKept
  <2> HIDE DEF s1
  <2>2. Fewer(s1, task_curr_to_wait_action(s, t, que, reason, timeout))
    BY <2>1 DEF task_curr_to_wait_action, s1, Fewer, HasStates, Suspends
  <2>3. QED
    BY <2>1, <2>2 DEF Fewer
<1>5. QED
  BY <1>1, <1>2, <1>3, <1>4

LEMMA FewerReleased ==
  ASSUME NEW s, HasStates(s), NEW que
  PROVE  Fewer(s, ReleaseDeleted(s, que))
<1> DEFINE r == [s EXCEPT !.q = queue_remove_head(@, que)]
           t == FirstWaiter(s, que)
           d == ReleaseFirst(s, que)
<1>1. Fewer(s, r)
  BY DEF Fewer, HasStates, Suspends
<1>2. d = task_wait_complete(r, t)
  BY DEF ReleaseFirst
<1>3. ReleaseDeleted(s, que) = d \/ ReleaseDeleted(s, que) = [d EXCEPT !.task_wait_rc[t] = "TERR_DLT"]
  BY DEF ReleaseDeleted
<1> HIDE DEF r, t, d
<1>4. Fewer(s, d)
  BY <1>1, <1>2, FewerSet DEF Fewer
<1>5. QED
  BY <1>3, <1>4 DEF Fewer, HasStates, Suspends

\* Only tn_task_suspend adds one.
LEMMA NoMoreSuspends ==
  ASSUME NEW rs, ObjectInv(rs),
         \/ DeleteSteps \/ DeleteBegin \/ Start \/ Enter \/ Leave \/ Switch
         \/ \E t \in AppTask : tn_task_resume(t) \/ tn_task_activate(t) \/ tn_task_terminate(t)
         \/ tn_task_exit(FALSE)
  PROVE  Suspends(k') \subseteq Suspends(k)
<1>1. k \in KernelState
  BY DEF ObjectInv, IInv, KernelOK
<1>2. HasStates(k)
  BY <1>1 DEF KernelState, HasStates
<1>3. CASE DeleteTest \/ DeleteEnd \/ DeleteBegin \/ Enter \/ Leave \/ Switch \/ tn_cpu_int_enable
  <2>1. k' = k
    BY <1>3 DEF DeleteTest, DeleteEnd, DeleteBegin, Enter, Leave, Switch, IrqEnter, IrqExit,
                ContextSwitch, tn_switch_context, tn_switch_context_exit, tn_cpu_int_enable, vars
  <2>2. QED
    BY <2>1
<1>4. CASE DeleteRemove
  <2>1. k' = k \/ k' = ReleaseDeleted(k, ThisList)
    BY <1>4 DEF DeleteRemove
  <2>2. QED
    BY <1>2, <2>1, FewerReleased DEF Fewer
<1>5. ASSUME NEW t \in AppTask, tn_task_create(t, TRUE)
      PROVE  Suspends(k') \subseteq Suspends(k)
  <2> DEFINE s0 == [k EXCEPT !.created = @ \cup {t}, !.activate_count[t] = 0]
             s == task_set_dormant_state(s0, t)
  <2>1. Fewer(k, s0)
    BY <1>2 DEF Fewer, HasStates, Suspends
  <2>2. k' = task_to_runnable(s, t)
    BY <1>5 DEF tn_task_create
  <2> HIDE DEF s0
  <2>3. Fewer(s0, s)
    BY <2>1, FewerSet DEF Fewer
  <2> HIDE DEF s
  <2>4. Fewer(s, k')
    BY <2>2, <2>3, FewerKept DEF Fewer
  <2>5. QED
    BY <2>1, <2>3, <2>4 DEF Fewer
<1>6. ASSUME tn_task_sleep(TN_WAIT_INFINITE)
      PROVE  Suspends(k') \subseteq Suspends(k)
  <2>1. \/ k' = [k EXCEPT !.wakeup_count[tn_curr_run_task] = @ - 1]
        \/ k' = task_curr_to_wait_action(k, tn_curr_run_task, NULL, "SLEEP", TN_WAIT_INFINITE)
    BY <1>6 DEF tn_task_sleep
  <2>2. CASE k' = [k EXCEPT !.wakeup_count[tn_curr_run_task] = @ - 1]
    BY <1>2, <2>2 DEF HasStates, Suspends
  <2>3. CASE k' = task_curr_to_wait_action(k, tn_curr_run_task, NULL, "SLEEP", TN_WAIT_INFINITE)
    BY <1>2, <2>3, FewerSet DEF Fewer
  <2>4. QED
    BY <2>1, <2>2, <2>3
<1>7. ASSUME NEW t \in AppTask, tn_task_resume(t) \/ tn_task_activate(t)
      PROVE  Suspends(k') \subseteq Suspends(k)
  <2>1. \/ k' = task_to_runnable(k, t)
        \/ k' = [k EXCEPT !.task_state[t] = "WAIT"]
        \/ k' = [k EXCEPT !.activate_count[t] = 1]
    BY <1>7 DEF tn_task_resume, tn_task_activate, CountActivation
  <2>2. CASE k' = task_to_runnable(k, t)
    BY <1>2, <2>2, FewerKept DEF Fewer
  <2>3. CASE \/ k' = [k EXCEPT !.task_state[t] = "WAIT"]
             \/ k' = [k EXCEPT !.activate_count[t] = 1]
    BY <1>2, <2>3 DEF HasStates, Suspends
  <2>4. QED
    BY <2>1, <2>2, <2>3
<1>8. ASSUME NEW t, tn_task_terminate(t) \/ (tn_task_exit(FALSE) /\ t = tn_curr_run_task)
      PROVE  Suspends(k') \subseteq Suspends(k)
  <2>1. PICK d : /\ d \in {Detach(k, t), task_to_non_runnable(k, t)}
                 /\ k' = Reactivate(task_set_dormant_state(d, t), t)
    BY <1>8 DEF tn_task_terminate, tn_task_exit
  <2>2. Fewer(k, d)
    BY <1>2, <2>1, FewerSet, FewerKept
  <2> DEFINE s == task_set_dormant_state(d, t)
  <2>3. Fewer(d, s)
    BY <2>2, FewerSet DEF Fewer
  <2> HIDE DEF s
  <2>4. Fewer(s, Reactivate(s, t))
    BY <2>3, FewerKept DEF Fewer
  <2>5. QED
    BY <2>1, <2>2, <2>3, <2>4 DEF Fewer, s
<1>9. QED
  BY <1>3, <1>4, <1>5, <1>6, <1>7, <1>8 DEF DeleteSteps, Start

-----------------------------------------------------------------------------
\* The calls of the objects.

LEMMA CallReturns ==
  ASSUME NEW rs, Kinds(rs), ObjectInv(rs), Caller, Free, Returns, k' = k,
         task_stk' = task_stk, deleting' = deleting, id' \in BOOLEAN
  PROVE  ObjectInv(rs)' /\ SameLines(k, k', rs)
<1>1. /\ IInv /\ KernelOK(k) /\ ObjectOK /\ tn_int_counter = 0 /\ Right(k)
      /\ task_stk \in [Task -> Place \ {"init"}]
  BY CallerFacts DEF ObjectInv, Caller, IInv, Control
<1>2. IInv'
  BY <1>1, AfterReturn
<1>3. ObjectOK'
  BY <1>1, NobodyElse, StillObject DEF ObjectOK
<1>4. QED
  BY <1>2, <1>3 DEF ObjectInv, SameLines

LEMMA HandlerReturns ==
  ASSUME NEW rs, Kinds(rs), ObjectInv(rs), InHandler, NobodyDeletes, HandlerCall(FALSE),
         k' = k, tick_walk' = tick_walk, UNCHANGED object
  PROVE  ObjectInv(rs)' /\ SameLines(k, k', rs)
<1>1. IInv /\ KernelOK(k) /\ ObjectOK /\ tn_int_counter = 1 /\ tick_walk \in Seq(Task)
  BY DEF ObjectInv, InHandler, IInv, Control
<1>2. FALSE \in BOOLEAN
  BY Zenon
<1>3. IInv'
  BY <1>1, <1>2, AfterHandlerCall
<1>4. ObjectOK'
  BY <1>1, NobodyElse, StillObject DEF ObjectOK, object
<1>5. QED
  BY <1>3, <1>4 DEF ObjectInv, SameLines

\* A call or a handler wakes the first task of list i.
LEMMA CallWakes ==
  ASSUME NEW rs, Kinds(rs), ObjectInv(rs), NEW i \in DOMAIN WaitLists, NEW w,
         Line(k, WaitLists[i], rs[i], w), w # <<>>, UNCHANGED object,
         \/ Caller /\ Free /\ task_stk' = task_stk /\ WakeFirst(k, WaitLists[i])
         \/ InHandler /\ NobodyDeletes /\ iWakeFirst(k, WaitLists[i])
  PROVE  ObjectInv(rs)' /\ LeavesList(rs, i, w, w[1]) /\ Tail(w) = RemoveFirst(w, w[1])
<1>1. IInv /\ WaitersOK(k, rs) /\ ObjectOK /\ WaitLists[i] \in WaitQueue
  BY Lists DEF ObjectInv
<1>2. /\ IInv' /\ Line(k', WaitLists[i], rs[i], Tail(w))
      /\ Apart(k, k', WaitLists[i], rs[i])
      /\ Tail(w) = RemoveFirst(w, w[1]) /\ w[1] \in Range(w)
      /\ Waits(k') = Waits(k) \ {w[1]} /\ Range(Tail(w)) \subseteq Range(w)
  BY <1>1, WakeFirstOK, iWakeFirstOK
<1>3. Range(w) \subseteq AppTask
  BY <1>1, LineTasks
<1>3a. Range(Tail(w)) \subseteq AppTask
  BY <1>2, <1>3
<1>4. /\ WaitersOK(k', rs)
      /\ \A j \in DOMAIN WaitLists \ {i} : \A v :
           Line(k, WaitLists[j], rs[j], v) => Line(k', WaitLists[j], rs[j], v)
  BY <1>1, <1>2, <1>3a, OneLine
<1>5. ObjectOK'
  BY <1>1, NobodyElse, StillObject DEF ObjectOK, object
<1>6. QED
  BY <1>2, <1>4, <1>5 DEF ObjectInv, LeavesList

\* t joins the end of list i.
JoinsList(rs, i, w, t) ==
  /\ t \in AppTask /\ t \notin Range(w)
  /\ Line(k', WaitLists[i], rs[i], Append(w, t))
  /\ \A j \in DOMAIN WaitLists \ {i} : \A v :
       Line(k, WaitLists[j], rs[j], v) => Line(k', WaitLists[j], rs[j], v)
  /\ Waits(k') = Waits(k) \cup {t}

LEMMA CallWaits ==
  ASSUME NEW rs, Kinds(rs), ObjectInv(rs), NEW i \in DOMAIN WaitLists, NEW w,
         Line(k, WaitLists[i], rs[i], w), UNCHANGED object, Caller, Free,
         task_stk' = task_stk, NEW timeout \in Nat \cup {TN_WAIT_INFINITE},
         WaitFor(k, WaitLists[i], rs[i], timeout)
  PROVE  ObjectInv(rs)' /\ JoinsList(rs, i, w, tn_curr_run_task)
<1>1. /\ IInv /\ WaitersOK(k, rs) /\ ObjectOK
      /\ WaitLists[i] \in WaitQueue /\ rs[i] \in WaitReason
  BY Lists DEF ObjectInv
<1>2. /\ IInv' /\ Line(k', WaitLists[i], rs[i], Append(w, tn_curr_run_task))
      /\ Apart(k, k', WaitLists[i], rs[i]) /\ tn_curr_run_task \notin Range(w)
      /\ Waits(k') = Waits(k) \cup {tn_curr_run_task}
  BY <1>1, WaitForOK
<1>3. tn_curr_run_task \in AppTask /\ Range(w) \subseteq AppTask
  BY <1>1, LineTasks DEF Caller
<1>4. Range(Append(w, tn_curr_run_task)) \subseteq AppTask
  <2>1. w \in Seq(Node \ {WaitLists[i]}) /\ IsInjective(w)
    BY DEF Line, Holds
  <2>2. tn_curr_run_task \in Node \ {WaitLists[i]}
    BY <1>1, <1>3, Nodes, WaitNodesApart
  <2>3. QED
    BY <1>2, <1>3, <2>1, <2>2, AppendEntries
<1>5. /\ WaitersOK(k', rs)
      /\ \A j \in DOMAIN WaitLists \ {i} : \A v :
           Line(k, WaitLists[j], rs[j], v) => Line(k', WaitLists[j], rs[j], v)
  BY <1>1, <1>2, <1>4, OneLine
<1>6. ObjectOK'
  BY <1>1, NobodyElse, StillObject DEF ObjectOK, object
<1>7. QED
  BY <1>2, <1>3, <1>5, <1>6 DEF ObjectInv, JoinsList

\* Who is on the lists afterwards.
LEMMA Members ==
  ASSUME NEW rs, Kinds(rs), WaitersOK(k, rs), NEW i \in DOMAIN WaitLists, NEW w, NEW t
  PROVE  /\ SameLines(k, k', rs) =>
              \A j \in DOMAIN WaitLists : On(k', rs[j]) = On(k, rs[j])
         /\ LeavesList(rs, i, w, t) =>
              \A j \in DOMAIN WaitLists : On(k', rs[j]) = On(k, rs[j]) \ {t}
         /\ JoinsList(rs, i, w, t) =>
              \A j \in DOMAIN WaitLists \ {i} : On(k', rs[j]) = On(k, rs[j])
<1>1. ASSUME NEW j \in DOMAIN WaitLists,
             \A v : Line(k, WaitLists[j], rs[j], v) => Line(k', WaitLists[j], rs[j], v)
      PROVE  On(k', rs[j]) = On(k, rs[j])
  <2>1. PICK v : Line(k, WaitLists[j], rs[j], v)
    BY DEF WaitersOK
  <2>2. QED
    BY <1>1, <2>1 DEF Line
<1>2. ASSUME LeavesList(rs, i, w, t)
      PROVE  /\ On(k', rs[i]) = On(k, rs[i]) \ {t}
             /\ \A j \in DOMAIN WaitLists \ {i} : t \notin On(k, rs[j])
  <2>1. w \in Seq(Node \ {WaitLists[i]}) /\ IsInjective(w) /\ t \in Range(w)
    BY <1>2 DEF LeavesList, Line, Holds
  <2>2. Range(RemoveFirst(w, t)) = Range(w) \ {t}
    BY <2>1, RemoveFirstEntries
  <2>3. t \in On(k, rs[i])
    BY <1>2, <2>1 DEF LeavesList, Line
  <2>4. QED
    BY <1>2, <2>2, <2>3, Lists DEF LeavesList, Line, On
<1>3. QED
  BY <1>1, <1>2 DEF SameLines, LeavesList, JoinsList

\* The first task u of list i, which was x, is woken with success.
WokenFirst(rs, i, x, u) ==
  /\ FirstWaiter(k, WaitLists[i]) = u /\ u \in AppTask /\ u \in Waits(k)
  /\ Line(k', WaitLists[i], rs[i], Tail(x))
  /\ \A j \in DOMAIN WaitLists \ {i} : \A v :
       Line(k, WaitLists[j], rs[j], v) => Line(k', WaitLists[j], rs[j], v)
  /\ Waits(k') = Waits(k) \ {u}
  /\ \A j \in DOMAIN WaitLists : On(k', rs[j]) = On(k, rs[j]) \ {u}
  /\ k'.created = k.created
  /\ k'.task_wait_rc = [k.task_wait_rc EXCEPT ![u] = "TERR_NO_ERR"]
  /\ k'.task_wait_rc[u] = "TERR_NO_ERR"
  /\ \A t \in Task \ {u} : k'.task_wait_rc[t] = k.task_wait_rc[t]

LEMMA WakesOne ==
  ASSUME NEW rs, Kinds(rs), ObjectInv(rs), NEW i \in DOMAIN WaitLists, NEW x,
         Line(k, WaitLists[i], rs[i], x), x # <<>>, NEW u, u = x[1], UNCHANGED object,
         \/ Caller /\ Free /\ task_stk' = task_stk /\ WakeFirst(k, WaitLists[i])
         \/ InHandler /\ NobodyDeletes /\ iWakeFirst(k, WaitLists[i])
  PROVE  ObjectInv(rs)' /\ WokenFirst(rs, i, x, u)
<1> DEFINE que == WaitLists[i]
<1>1. ObjectInv(rs) /\ WaitersOK(k, rs) /\ KernelOK(k) /\ Kinds(rs)
  BY DEF ObjectInv, IInv
<1>2. ObjectInv(rs)' /\ LeavesList(rs, i, x, u) /\ Tail(x) = RemoveFirst(x, u)
  BY <1>1, CallWakes
<1>3. \A j \in DOMAIN WaitLists : On(k', rs[j]) = On(k, rs[j]) \ {u}
  BY ONLY <1>1, <1>2, i \in DOMAIN WaitLists, Members
<1>4. u \in Range(x) /\ u \in AppTask /\ u \in Waits(k) /\ Waits(k') = Waits(k) \ {u}
  BY <1>1, <1>2, LineTasks DEF LeavesList, Line, On
<1>5. FirstWaiter(k, que) = u
  <2>1. k.q \in Links(Node) /\ Holds(k.q, que, x, Node)
    BY <1>1 DEF KernelOK, KernelState, Links, Line
  <2>2. k.q.next[que] = u
    BY <2>1, RingRemoveHead
  <2>3. QED
    BY <2>2 DEF FirstWaiter
<1>6. k' = ReleaseFirst(k, que)
  BY DEF WakeFirst, iWakeFirst
<1>7. HasCodes(k) /\ k.task_wait_rc \in [Task -> {"TERR_NO_ERR", "TERR_TIMEOUT", "TERR_DLT"}]
  BY <1>1 DEF KernelOK, KernelState, HasCodes
<1> HIDE DEF que
<1>8. Cleared(k, k', u)
  BY <1>5, <1>6, <1>7, CodesReleased
<1>9. u \in Task
  BY <1>4, Nodes
<1>10. /\ k'.created = k.created
       /\ k'.task_wait_rc = [k.task_wait_rc EXCEPT ![u] = "TERR_NO_ERR"]
       /\ k'.task_wait_rc[u] = "TERR_NO_ERR"
       /\ \A t \in Task \ {u} : k'.task_wait_rc[t] = k.task_wait_rc[t]
  BY <1>7, <1>8, <1>9 DEF Cleared
<1>11. QED
  BY <1>2, <1>3, <1>4, <1>5, <1>10 DEF LeavesList, WokenFirst, que

\* A task joins the end of list i with no effect on the codes.
LEMMA WaitsOne ==
  ASSUME NEW rs, Kinds(rs), ObjectInv(rs), NEW i \in DOMAIN WaitLists, NEW x,
         Line(k, WaitLists[i], rs[i], x),
         UNCHANGED object, Caller, Free, task_stk' = task_stk,
         WaitFor(k, WaitLists[i], rs[i], TN_WAIT_INFINITE)
  PROVE  /\ ObjectInv(rs)'
         /\ tn_curr_run_task \in AppTask \ Range(x) /\ tn_curr_run_task \in k.created
         /\ Line(k', WaitLists[i], rs[i], Append(x, tn_curr_run_task))
         /\ \A j \in DOMAIN WaitLists \ {i} : \A v :
              Line(k, WaitLists[j], rs[j], v) => Line(k', WaitLists[j], rs[j], v)
         /\ Waits(k') = Waits(k) \cup {tn_curr_run_task}
         /\ On(k', rs[i]) = On(k, rs[i]) \cup {tn_curr_run_task}
         /\ \A j \in DOMAIN WaitLists \ {i} : On(k', rs[j]) = On(k, rs[j])
         /\ k'.created = k.created /\ k'.task_wait_rc = k.task_wait_rc
<1> DEFINE t == tn_curr_run_task
<1>1. ObjectInv(rs) /\ WaitersOK(k, rs) /\ KernelOK(k) /\ Kinds(rs) /\ IInv
  BY DEF ObjectInv, IInv
<1>2. TN_WAIT_INFINITE \in Nat \cup {TN_WAIT_INFINITE}
  OBVIOUS
<1>3. ObjectInv(rs)' /\ JoinsList(rs, i, x, t)
  BY <1>1, <1>2, CallWaits
<1>4. \A j \in DOMAIN WaitLists \ {i} : On(k', rs[j]) = On(k, rs[j])
  BY <1>1, <1>3, Members
<1>5. On(k', rs[i]) = On(k, rs[i]) \cup {t}
  <2>1. x \in Seq(Node \ {WaitLists[i]}) /\ IsInjective(x) /\ t \notin Range(x)
    BY <1>3 DEF JoinsList, Line, Holds
  <2>2. t \in Node \ {WaitLists[i]}
    BY <1>1, <1>3, Nodes, WaitNodesApart, Lists DEF JoinsList
  <2>3. Range(Append(x, t)) = Range(x) \cup {t}
    BY <2>1, <2>2, AppendEntries
  <2>4. QED
    BY <1>3, <2>3 DEF JoinsList, Line
<1>6. HasCodes(k)
  BY <1>1 DEF KernelOK, KernelState, HasCodes
<1>7. Codes(k') = Codes(k)
  BY <1>6, CodesSet DEF WaitFor
<1>8. t \in k.created
  BY <1>1, CallerFacts DEF Caller
<1>9. QED
  BY <1>3, <1>4, <1>5, <1>7, <1>8 DEF JoinsList, Codes

\* Resetting a queue on which nobody waits changes nothing.
LEMMA ResetEmpty ==
  ASSUME KernelOK(k), NEW que, is_queue_empty(k.q, que)
  PROVE  queue_reset(k.q, que) = k.q /\ [k EXCEPT !.q = k.q] = k
<1>1. k \in KernelState /\ k.q \in Links(Node)
  BY DEF KernelOK, KernelState, Links
<1>2. k.q.next \in [Node -> Node] /\ k.q.prev \in [Node -> Node]
      /\ k.q = [next |-> k.q.next, prev |-> k.q.prev]
  BY <1>1 DEF Links
<1>3. queue_reset(k.q, que) = k.q
  BY <1>2 DEF queue_reset, is_queue_empty
<1>4. QED
  BY <1>1, <1>3 DEF KernelState

-----------------------------------------------------------------------------
\* At the start nobody waits.

LEMMA ObjectInitOK ==
  ASSUME NEW rs, Kinds(rs), Init, ObjectInit
  PROVE  /\ ObjectInv(rs) /\ Waits(k) = {}
         /\ \A j \in DOMAIN WaitLists : Line(k, WaitLists[j], rs[j], <<>>)
<1>1. IInv
  BY InitOK
<1>2. Waits(k) = {}
  BY DEF Init, Waits, Waiting
<1>3. ASSUME NEW que \in WaitQueue
      PROVE  Holds(k.q, que, <<>>, Node)
  <2> DEFINE idle == TN_NUM_PRIORITY - 1
             q0 == queue_add_tail(AllReset(Node), idle, tn_idle_task)
  <2>1. /\ que \notin Task \cup Priority /\ que \in Node /\ idle \in Priority
        /\ 0 \in Priority /\ idle \in Node /\ 0 \in Node
        /\ tn_idle_task \in Task /\ tn_timer_task \in Task
    BY WaitNodesApart, PriorityAssumption, Nodes
  <2>2. AllReset(Node).prev[idle] = idle
    BY <2>1 DEF AllReset
  <2>3. q0.next[que] = que /\ q0.prev[que] = que /\ q0.prev[0] \in Task \cup Priority
    BY <2>1, <2>2 DEF queue_add_tail, AllReset
  <2> HIDE DEF q0
  <2>4. k.q = queue_add_tail(q0, 0, tn_timer_task)
    BY DEF Init, q0
  <2>t. q0.next \in [Node -> Node] /\ q0.prev \in [Node -> Node]
    BY <2>1, <2>2, Nodes DEF queue_add_tail, AllReset, q0
  <2>5. k.q.next[que] = que /\ k.q.prev[que] = que
    BY <2>1, <2>3, <2>4, <2>t DEF queue_add_tail
  <2>6. QED
    BY <2>1, <2>5 DEF Holds, IsInjective, IsRing, RingNode
<1>4. ASSUME NEW j \in DOMAIN WaitLists
      PROVE  Line(k, WaitLists[j], rs[j], <<>>)
  <2>1. Range(<<>>) = {} /\ On(k, rs[j]) = {}
    BY <1>2 DEF Range, On
  <2>2. QED
    BY <1>3, <2>1, Lists DEF Line
<1>5. Outside \in [at : {"out", "test", "remove", "end"}, list : 0 .. Len(WaitLists),
                   locked : BOOLEAN]
  <2>1. 0 \in 0 .. Len(WaitLists)
    BY Lists
  <2>2. QED
    BY <2>1 DEF Outside
<1>6. ObjectOK
  BY <1>5 DEF ObjectInit, ObjectOK, DeletersOK
<1>7. QED
  BY <1>1, <1>2, <1>4, <1>6 DEF ObjectInv, WaitersOK
=============================================================================
