-------------------------- MODULE USBControlProofs ---------------------------
(***************************************************************************)
(* The control transfers of USBControl, for every table of descriptors,    *)
(* every set of requests and every size of packets.                        *)
(***************************************************************************)
EXTENDS USBControl, WellFoundedInduction, TLAPS

Ends == Len(Descriptors)

LEMMA EndsIs == Ends \in Nat /\ DOMAIN Descriptors = 1 .. Ends
BY ControlAssumption DEF Ends

LEMMA DescriptorIs ==
  ASSUME NEW i \in 1 .. Ends
  PROVE  /\ Descriptors[i].type \in 0 .. 255 /\ Descriptors[i].length \in 1 .. 255
         /\ Descriptors[i].total \in Nat /\ Descriptors[i].value \in 0 .. 255
<1>1. Descriptors[i] \in TableEntries
  BY ControlAssumption DEF Ends
<1>2. QED
  BY <1>1 DEF TableEntries

\* Induction over the natural numbers, for a set.
LEMMA NatSetInduction ==
  ASSUME NEW S, 0 \in S, \A n \in Nat : n \in S => n + 1 \in S
  PROVE  Nat \subseteq S
<1> DEFINE T == Nat \ S
<1> SUFFICES ASSUME T # {}
             PROVE  FALSE
  OBVIOUS
<1>1. PICK x \in T : \A y \in T : ~(<<y, x>> \in OpToRel(<, Nat))
  BY WFMin, NatLessThanWellFounded
<1>2. \A y \in T : y < x => <<y, x>> \in OpToRel(<, Nat)
  BY DEF OpToRel
<1>3. x \in Nat /\ x # 0 /\ x \notin S
  BY <1>1
<1>4. x - 1 \in Nat /\ x - 1 \notin T
  <2>1. x - 1 \in Nat /\ x - 1 < x
    BY <1>3
  <2> HIDE DEF T
  <2>2. QED
    BY <1>1, <1>2, <2>1
<1>5. x - 1 \in S /\ (x - 1) + 1 = x
  BY <1>3, <1>4
<1>6. QED
  BY <1>3, <1>4, <1>5

\* A set of consecutive numbers has what its first has, if what one has its
\* successor has.
LEMMA UpToInduction ==
  ASSUME NEW S, NEW n \in Nat, 0 \in S, \A i \in 1 .. n : i - 1 \in S => i \in S
  PROVE  0 .. n \subseteq S
<1> DEFINE T == {i \in Nat : i <= n => i \in S}
<1>1. 0 \in T
  OBVIOUS
<1>2. ASSUME NEW i \in Nat, i \in T
      PROVE  i + 1 \in T
  <2>1. i + 1 <= n => i + 1 \in 1 .. n /\ (i + 1) - 1 = i /\ i <= n
    OBVIOUS
  <2>2. QED
    BY <1>2, <2>1
<1> HIDE DEF T
<1>3. Nat \subseteq T
  BY <1>1, <1>2, NatSetInduction
<1>4. QED
  BY <1>3 DEF T

-----------------------------------------------------------------------------
\* Where the descriptors are

OffsetsAre(f, n) ==
  f = [i \in 1 .. n |-> IF i = 1 THEN 0 ELSE f[i - 1] + Descriptors[i - 1].length]

LEMMA OffsetsExist == \E f : OffsetsAre(f, Ends)
<1> DEFINE S == {n \in Nat : \E f : OffsetsAre(f, n)}
<1>1. 0 \in S
  <2> DEFINE f == [i \in 1 .. 0 |-> 0]
  <2>1. OffsetsAre(f, 0)
    BY DEF OffsetsAre
  <2>2. QED
    BY <2>1
<1>2. ASSUME NEW n \in Nat, n \in S
      PROVE  n + 1 \in S
  <2>1. PICK g : OffsetsAre(g, n)
    BY <1>2
  <2> DEFINE f == [i \in 1 .. n + 1 |->
                     IF i = 1 THEN 0 ELSE g[i - 1] + Descriptors[i - 1].length]
  <2>2. ASSUME NEW i \in 1 .. n + 1
        PROVE  f[i] = IF i = 1 THEN 0 ELSE f[i - 1] + Descriptors[i - 1].length
    <3>1. CASE i = 1
      BY <3>1
    <3>2. CASE i # 1
      <4>1. i - 1 \in 1 .. n /\ i - 1 \in 1 .. n + 1
        BY <3>2
      <4>2. f[i - 1] = g[i - 1]
        BY <2>1, <4>1 DEF OffsetsAre
      <4>3. QED
        BY <3>2, <4>2
    <3>3. QED
      BY <3>1, <3>2
  <2>3. f = [i \in 1 .. n + 1 |-> f[i]]
    OBVIOUS
  <2> HIDE DEF f
  <2>4. OffsetsAre(f, n + 1)
    BY <2>2, <2>3 DEF OffsetsAre
  <2>5. QED
    BY <2>4
<1> HIDE DEF S
<1>3. Nat \subseteq S
  BY <1>1, <1>2, NatSetInduction
<1>4. QED
  BY <1>3, EndsIs DEF S

LEMMA OffsetIs ==
  /\ \A i \in 1 .. Ends : Offset[i] \in Nat
  /\ \A i \in 2 .. Ends : Offset[i] = Offset[i - 1] + Descriptors[i - 1].length
<1>1. OffsetsAre(Offset, Ends)
  <2>1. Offset = CHOOSE f : OffsetsAre(f, Ends)
    BY DEF Offset, OffsetsAre, Ends
  <2>2. QED
    BY <2>1, OffsetsExist
<1>2. \A i \in 1 .. Ends :
        Offset[i] = IF i = 1 THEN 0 ELSE Offset[i - 1] + Descriptors[i - 1].length
  BY <1>1 DEF OffsetsAre
<1>3. \A i \in 1 .. Ends : Offset[i] \in Nat
  <2> DEFINE S == {i \in Nat : i = 0 \/ Offset[i] \in Nat}
  <2>1. 0 \in S
    OBVIOUS
  <2>2. ASSUME NEW i \in 1 .. Ends, i - 1 \in S
        PROVE  i \in S
    <3>1. i \in Nat
      BY EndsIs
    <3>2. CASE i = 1
      <4>1. Offset[i] = 0
        BY <1>2, <3>2
      <4>2. QED
        BY <3>1, <4>1
    <3>3. CASE i # 1
      <4>1. i - 1 \in 1 .. Ends /\ i - 1 # 0
        BY <3>3, EndsIs
      <4>2. Offset[i - 1] \in Nat /\ Descriptors[i - 1].length \in 1 .. 255
        <5>1. Offset[i - 1] \in Nat
          BY <2>2, <4>1
        <5>2. QED
          BY <4>1, <5>1, DescriptorIs
      <4>3. Offset[i] = Offset[i - 1] + Descriptors[i - 1].length
        BY <1>2, <3>3
      <4>4. QED
        BY <3>1, <4>2, <4>3
    <3>4. QED
      BY <3>2, <3>3
  <2> HIDE DEF S
  <2>3. 0 .. Ends \subseteq S
    BY <2>1, <2>2, UpToInduction, EndsIs
  <2>4. \A i \in 1 .. Ends : i \in S /\ i # 0
    BY <2>3, EndsIs
  <2>5. QED
    BY <2>4 DEF S
<1>4. \A i \in 2 .. Ends : i \in 1 .. Ends /\ i # 1
  BY EndsIs
<1>5. QED
  BY <1>2, <1>3, <1>4

-----------------------------------------------------------------------------
\* The walk of usb_SET_CONFIGURATION

Start == [found |-> FALSE, skip |-> 0, aset |-> 0, eps |-> {}]
WalkIs(w, value, n) ==
  w = [i \in 0 .. n |-> IF i = 0 THEN Start ELSE Visit(value, w[i - 1], Descriptors[i])]

LEMMA WalkExists ==
  ASSUME NEW value
  PROVE  \E w : WalkIs(w, value, Ends)
<1> DEFINE S == {n \in Nat : \E w : WalkIs(w, value, n)}
           V(s, i) == Visit(value, s, Descriptors[i])
<1>1. 0 \in S
  <2> DEFINE w == [i \in 0 .. 0 |-> Start]
  <2>1. \A i \in 0 .. 0 : w[i] = Start /\ i = 0
    OBVIOUS
  <2>2. w = [i \in 0 .. 0 |-> IF i = 0 THEN Start ELSE V(w[i - 1], i)]
    BY <2>1
  <2> HIDE DEF w
  <2>3. WalkIs(w, value, 0)
    BY <2>2 DEF WalkIs
  <2>4. QED
    BY <2>3
<1>2. ASSUME NEW n \in Nat, n \in S
      PROVE  n + 1 \in S
  <2>1. PICK g : WalkIs(g, value, n)
    BY <1>2
  <2> DEFINE w == [i \in 0 .. n + 1 |-> IF i = 0 THEN Start ELSE V(g[i - 1], i)]
  <2>2. ASSUME NEW i \in 0 .. n + 1
        PROVE  w[i] = IF i = 0 THEN Start ELSE V(w[i - 1], i)
    <3>1. CASE i = 0
      BY <3>1
    <3>2. CASE i # 0
      <4>1. i - 1 \in 0 .. n /\ i - 1 \in 0 .. n + 1
        BY <3>2
      <4> HIDE DEF V
      <4>2. g[i - 1] = IF i - 1 = 0 THEN Start ELSE V(g[(i - 1) - 1], i - 1)
        BY <2>1, <4>1 DEF WalkIs, V
      <4>3. w[i - 1] = g[i - 1]
        BY <4>1, <4>2
      <4>4. QED
        BY <3>2, <4>3
    <3>3. QED
      BY <3>1, <3>2
  <2>3. w = [i \in 0 .. n + 1 |-> w[i]]
    OBVIOUS
  <2> HIDE DEF w, V
  <2>4. w = [i \in 0 .. n + 1 |-> IF i = 0 THEN Start ELSE V(w[i - 1], i)]
    BY <2>2, <2>3
  <2>5. WalkIs(w, value, n + 1)
    BY <2>4 DEF WalkIs, V
  <2>6. QED
    BY <2>5
<1> HIDE DEF S
<1>3. Nat \subseteq S
  BY <1>1, <1>2, NatSetInduction
<1>4. QED
  BY <1>3, EndsIs DEF S

\* What the walk has after k descriptors.  Of a configuration with another value it
\* passes over no more than the configuration.
Matches(value, k, c) == /\ c \in 1 .. k /\ Is(c, USB_DESCR_TYPE_CONFIGURATION)
                        /\ Descriptors[c].value = value
                        /\ \A j \in c + 1 .. k : ~Is(j, USB_DESCR_TYPE_CONFIGURATION)
Skips(S, k) ==
  S.skip > 0 => \E c \in 1 .. k :
    /\ Is(c, USB_DESCR_TYPE_CONFIGURATION)
    /\ k < Ends => S.skip + Offset[k + 1] <= Offset[c] + Descriptors[c].total
Seen(S, value, k) ==
  \A c : Matches(value, k, c) =>
    /\ S.skip <= 0
    /\ \A i \in c + 1 .. k :
         /\ Is(i, USB_DESCR_TYPE_INTERFACE)
         /\ \A j \in i + 1 .. k : ~Is(j, USB_DESCR_TYPE_INTERFACE)
         => S.aset = Descriptors[i].value
Endpoint(value, j) == /\ Is(j, USB_DESCR_TYPE_ENDPOINT)
                      /\ LastBefore(j, USB_DESCR_TYPE_CONFIGURATION) = value
                      /\ LastBefore(j, USB_DESCR_TYPE_INTERFACE) = 0
Found(S, value, k) == \A j \in 1 .. k : Endpoint(value, j) => Descriptors[j].value \in S.eps
Walkers == [found : BOOLEAN, skip : Int, aset : Int, eps : SUBSET (0 .. 255)]
WalkOK(S, value, k) == S \in Walkers /\ Skips(S, k) /\ Seen(S, value, k) /\ Found(S, value, k)

LEMMA LastIs ==
  ASSUME NEW j \in 1 .. Ends, NEW type, NEW i \in 1 .. j, Is(i, type),
         \A k \in i + 1 .. j : ~Is(k, type)
  PROVE  LastBefore(j, type) = Descriptors[i].value
<1> DEFINE S == {k \in 1 .. j : Is(k, type)}
<1>1. i \in S
  OBVIOUS
<1>2. \A k \in S : k \in Int /\ i \in Int /\ i >= k
  BY EndsIs
<1>3. \A x \in S : (\A y \in S : x >= y) => x = i
  BY <1>1, <1>2
<1> HIDE DEF S
<1>4. Max(S) = i
  BY <1>1, <1>2, <1>3 DEF Max
<1>5. QED
  BY <1>4 DEF LastBefore, S

\* The interface an endpoint belongs to, and its configuration.
LEMMA EndpointHas ==
  ASSUME NEW j \in 1 .. Ends, NEW value, Endpoint(value, j)
  PROVE  \E c, i \in 1 .. j - 1 :
           /\ Matches(value, j - 1, c) /\ c < i
           /\ Is(i, USB_DESCR_TYPE_INTERFACE) /\ Descriptors[i].value = 0
           /\ \A k \in i + 1 .. j - 1 : ~Is(k, USB_DESCR_TYPE_INTERFACE)
<1>1. Is(j, USB_DESCR_TYPE_ENDPOINT) /\ j \in DOMAIN Descriptors
  BY EndsIs DEF Endpoint
<1>2. PICK c, h \in 1 .. j :
         /\ Is(c, USB_DESCR_TYPE_CONFIGURATION) /\ Is(h, USB_DESCR_TYPE_INTERFACE) /\ c < h
         /\ \A k \in c + 1 .. j : ~Is(k, USB_DESCR_TYPE_CONFIGURATION)
  BY <1>1, DescriptorsAssumption
<1>3. /\ j \in Nat
      /\ ~Is(j, USB_DESCR_TYPE_CONFIGURATION) /\ ~Is(j, USB_DESCR_TYPE_INTERFACE)
  BY <1>1, EndsIs DEF Is, USB_DESCR_TYPE_CONFIGURATION, USB_DESCR_TYPE_INTERFACE,
                     USB_DESCR_TYPE_ENDPOINT
<1>4. Descriptors[c].value = value
  BY <1>2, LastIs DEF Endpoint
<1>5. PICK i \in 1 .. j : /\ Is(i, USB_DESCR_TYPE_INTERFACE) /\ h <= i
                          /\ \A k \in i + 1 .. j : ~Is(k, USB_DESCR_TYPE_INTERFACE)
  <2> SUFFICES ASSUME \A i \in 1 .. j :
                        Is(i, USB_DESCR_TYPE_INTERFACE) /\ h <= i =>
                        \E k \in i + 1 .. j : Is(k, USB_DESCR_TYPE_INTERFACE)
               PROVE  FALSE
    OBVIOUS
  <2> DEFINE U == {n \in Nat : \A m \in 1 .. j : m > j - n /\ m >= h =>
                                  ~Is(m, USB_DESCR_TYPE_INTERFACE)}
  <2>1. 0 \in U
    BY <1>3
  <2>2. ASSUME NEW n \in Nat, n \in U
        PROVE  n + 1 \in U
    <3> SUFFICES ASSUME NEW m \in 1 .. j, m > j - (n + 1), m >= h,
                        Is(m, USB_DESCR_TYPE_INTERFACE)
                 PROVE  FALSE
      BY <1>3
    <3>1. PICK k \in m + 1 .. j : Is(k, USB_DESCR_TYPE_INTERFACE)
      OBVIOUS
    <3>2. k \in 1 .. j /\ k > j - n /\ k >= h
      BY <1>2, <1>3
    <3>3. QED
      BY <2>2, <3>1, <3>2
  <2> HIDE DEF U
  <2>3. Nat \subseteq U
    BY <2>1, <2>2, NatSetInduction
  <2>4. j \in U
    BY <1>3, <2>3
  <2>5. h \in 1 .. j /\ h > j - j /\ h >= h
    BY <1>2, <1>3
  <2>6. QED
    BY <1>2, <2>4, <2>5 DEF U
<1>6. Descriptors[i].value = 0
  BY <1>5, LastIs DEF Endpoint
<1>7. i # j /\ c # j /\ c < i /\ c \in 1 .. j - 1 /\ i \in 1 .. j - 1
  BY <1>2, <1>3, <1>5
<1>8. Matches(value, j - 1, c)
  BY <1>2, <1>3, <1>4, <1>7 DEF Matches
<1>9. \A k \in i + 1 .. j - 1 : ~Is(k, USB_DESCR_TYPE_INTERFACE)
  BY <1>3, <1>5
<1>10. QED
  BY <1>5, <1>6, <1>7, <1>8, <1>9

LEMMA VisitIs ==
  ASSUME NEW value, NEW S \in Walkers, NEW d \in TableEntries, NEW T, T = Visit(value, S, d)
  PROVE  /\ T \in Walkers /\ S.eps \subseteq T.eps
         /\ S.skip > 0 => T = [S EXCEPT !.skip = @ - d.length]
         /\ S.skip <= 0 =>
              /\ d.type = USB_DESCR_TYPE_CONFIGURATION => 
                   T.skip = IF d.value = value THEN S.skip ELSE d.total - d.length
              /\ d.type # USB_DESCR_TYPE_CONFIGURATION => T.skip = S.skip
              /\ T.aset = IF d.type = USB_DESCR_TYPE_INTERFACE THEN d.value ELSE S.aset
              /\ d.type = USB_DESCR_TYPE_ENDPOINT /\ S.aset = 0 => d.value \in T.eps
<1>1. /\ d.type \in 0 .. 255 /\ d.length \in 1 .. 255 /\ d.total \in Nat /\ d.value \in 0 .. 255
      /\ S.skip \in Int
  BY DEF TableEntries, Walkers
<1>2. CASE S.skip > 0
  <2>1. T = [S EXCEPT !.skip = @ - d.length]
    BY <1>2 DEF Visit
  <2>2. T \in Walkers /\ T.eps = S.eps
    BY <1>1, <2>1 DEF Walkers
  <2>3. QED
    BY <1>1, <1>2, <2>1, <2>2
<1>3. CASE ~(S.skip > 0) /\ d.type = USB_DESCR_TYPE_CONFIGURATION
  <2>1. d.type # USB_DESCR_TYPE_INTERFACE /\ d.type # USB_DESCR_TYPE_ENDPOINT
    BY <1>3 DEF USB_DESCR_TYPE_CONFIGURATION, USB_DESCR_TYPE_INTERFACE, USB_DESCR_TYPE_ENDPOINT
  <2>2. CASE d.value = value
    <3>1. T = [S EXCEPT !.found = TRUE]
      BY <1>3, <2>1, <2>2 DEF Visit
    <3>2. T \in Walkers /\ T.eps = S.eps /\ T.aset = S.aset /\ T.skip = S.skip
      BY <3>1 DEF Walkers
    <3>3. QED
      BY <1>1, <1>3, <2>1, <2>2, <3>2
  <2>3. CASE d.value # value
    <3>1. T = [S EXCEPT !.skip = d.total - d.length]
      BY <1>3, <2>1, <2>3 DEF Visit
    <3>2. T \in Walkers /\ T.eps = S.eps /\ T.aset = S.aset /\ T.skip = d.total - d.length
      BY <1>1, <3>1 DEF Walkers
    <3>3. QED
      BY <1>1, <1>3, <2>1, <2>3, <3>2
  <2>4. QED
    BY <2>2, <2>3
<1>4. CASE ~(S.skip > 0) /\ d.type = USB_DESCR_TYPE_INTERFACE
  <2>0. d.type # USB_DESCR_TYPE_CONFIGURATION /\ d.type # USB_DESCR_TYPE_ENDPOINT
    BY <1>4 DEF USB_DESCR_TYPE_CONFIGURATION, USB_DESCR_TYPE_INTERFACE, USB_DESCR_TYPE_ENDPOINT
  <2>1. T = [S EXCEPT !.aset = d.value]
    BY <1>4, <2>0 DEF Visit
  <2>2. T \in Walkers /\ T.eps = S.eps /\ T.aset = d.value /\ T.skip = S.skip
    BY <1>1, <2>1 DEF Walkers
  <2>3. QED
    BY <1>1, <1>4, <2>2 DEF USB_DESCR_TYPE_CONFIGURATION, USB_DESCR_TYPE_INTERFACE,
                            USB_DESCR_TYPE_ENDPOINT
<1>5. CASE ~(S.skip > 0) /\ d.type = USB_DESCR_TYPE_ENDPOINT
  <2>1. T = IF S.aset = 0 THEN [S EXCEPT !.eps = @ \cup {d.value}] ELSE S
    BY <1>5 DEF Visit, USB_DESCR_TYPE_CONFIGURATION, USB_DESCR_TYPE_INTERFACE,
                USB_DESCR_TYPE_ENDPOINT
  <2>2. T \in Walkers /\ S.eps \subseteq T.eps /\ T.aset = S.aset /\ T.skip = S.skip
        /\ (S.aset = 0 => d.value \in T.eps)
    BY <1>1, <2>1 DEF Walkers
  <2>3. QED
    BY <1>1, <1>5, <2>2 DEF USB_DESCR_TYPE_CONFIGURATION, USB_DESCR_TYPE_INTERFACE,
                            USB_DESCR_TYPE_ENDPOINT
<1>6. CASE /\ ~(S.skip > 0) /\ d.type # USB_DESCR_TYPE_CONFIGURATION
           /\ d.type # USB_DESCR_TYPE_INTERFACE /\ d.type # USB_DESCR_TYPE_ENDPOINT
  <2>1. T = S
    BY <1>6 DEF Visit
  <2>2. QED
    BY <1>1, <1>6, <2>1
<1>7. QED
  BY <1>2, <1>3, <1>4, <1>5, <1>6

LEMMA WalkStep ==
  ASSUME NEW value, NEW k \in Nat, k < Ends, NEW S, WalkOK(S, value, k),
         NEW T, T = Visit(value, S, Descriptors[k + 1])
  PROVE  WalkOK(T, value, k + 1)
<1>1. PICK d : d = Descriptors[k + 1]
  OBVIOUS
<1>2. PICK m : m = k + 1
  OBVIOUS
<1>3. m \in 1 .. Ends /\ k \in Nat /\ m = k + 1 /\ m - 1 = k /\ Ends \in Nat
  BY <1>2, EndsIs
<1>4. /\ d = Descriptors[m] /\ d \in TableEntries
      /\ d.length \in 1 .. 255 /\ d.total \in Nat /\ d.value \in 0 .. 255
  <2>1. Descriptors \in Seq(TableEntries) /\ m \in 1 .. Len(Descriptors)
    BY <1>3, ControlAssumption DEF Ends
  <2>2. Descriptors[m] \in TableEntries
    BY ONLY <2>1
  <2>3. d \in TableEntries
    BY <1>1, <1>2, <2>2
  <2>4. d.length \in 1 .. 255 /\ d.total \in Nat /\ d.value \in 0 .. 255
    BY ONLY <2>3 DEF TableEntries
  <2>5. QED
    BY <1>1, <1>2, <2>3, <2>4
<1>5. /\ T \in Walkers /\ S.eps \subseteq T.eps
      /\ S.skip > 0 => T = [S EXCEPT !.skip = @ - d.length]
      /\ S.skip <= 0 =>
           /\ d.type = USB_DESCR_TYPE_CONFIGURATION =>
                T.skip = IF d.value = value THEN S.skip ELSE d.total - d.length
           /\ d.type # USB_DESCR_TYPE_CONFIGURATION => T.skip = S.skip
           /\ T.aset = IF d.type = USB_DESCR_TYPE_INTERFACE THEN d.value ELSE S.aset
           /\ d.type = USB_DESCR_TYPE_ENDPOINT /\ S.aset = 0 => d.value \in T.eps
  <2>1. S \in Walkers /\ T = Visit(value, S, d) /\ d \in TableEntries
    BY <1>1, <1>4 DEF WalkOK
  <2>2. QED
    BY ONLY <2>1, VisitIs
<1>6. \A type : Is(m, type) <=> d.type = type
  BY <1>4 DEF Is
<1>7. S.skip \in Int /\ T.skip \in Int
  BY <1>5 DEF WalkOK, Walkers
<1>8. m < Ends => Offset[m + 1] = Offset[m] + d.length
  <2>1. m < Ends => m + 1 \in 2 .. Ends /\ (m + 1) - 1 = m
    BY <1>3
  <2>2. QED
    BY <1>4, <2>1, OffsetIs
<1>9. \A i \in 1 .. Ends : Offset[i] \in Nat
  BY OffsetIs
<1>10. \A c : c \in 1 .. m <=> c \in 1 .. k \/ c = m
  BY <1>3
\* At a configuration no other is passed over.
<1>11. Is(m, USB_DESCR_TYPE_CONFIGURATION) => S.skip <= 0
  <2> SUFFICES ASSUME Is(m, USB_DESCR_TYPE_CONFIGURATION), S.skip > 0
               PROVE  FALSE
    BY <1>7
  <2>1. PICK c \in 1 .. k : /\ Is(c, USB_DESCR_TYPE_CONFIGURATION)
                            /\ S.skip + Offset[m] <= Offset[c] + Descriptors[c].total
    BY <1>3 DEF WalkOK, Skips
  <2>2. c \in 1 .. Ends /\ c < m
    BY <1>3
  <2>3. Offset[c] + Descriptors[c].total <= Offset[m]
    BY <1>3, <2>1, <2>2, EndsIs, DescriptorsAssumption
  <2>4. Offset[c] \in Nat /\ Offset[m] \in Nat /\ Descriptors[c].total \in Nat
    BY <1>3, <1>9, <2>2, DescriptorIs
  <2>5. QED
    BY <1>7, <2>1, <2>3, <2>4
<1>12. Skips(T, m)
  <2> SUFFICES ASSUME T.skip > 0
               PROVE  \E c \in 1 .. m :
                        /\ Is(c, USB_DESCR_TYPE_CONFIGURATION)
                        /\ m < Ends => T.skip + Offset[m + 1] <= Offset[c] + Descriptors[c].total
    BY DEF Skips
  <2>1. CASE S.skip > 0
    <3>1. PICK c \in 1 .. k : /\ Is(c, USB_DESCR_TYPE_CONFIGURATION)
                              /\ S.skip + Offset[m] <= Offset[c] + Descriptors[c].total
      BY <1>3, <2>1 DEF WalkOK, Skips
    <3>2. T.skip = S.skip - d.length
      BY <1>5, <2>1 DEF WalkOK, Walkers
    <3>3. /\ c \in 1 .. Ends /\ Offset[c] \in Nat /\ Offset[m] \in Nat
          /\ Descriptors[c].total \in Nat
      BY <1>3, <1>9, DescriptorIs
    <3>4. m < Ends => T.skip + Offset[m + 1] <= Offset[c] + Descriptors[c].total
      <4>1. SUFFICES ASSUME m < Ends
                     PROVE  T.skip + Offset[m + 1] <= Offset[c] + Descriptors[c].total
        OBVIOUS
      <4>2. PICK s, l, f, g, w : /\ s = S.skip /\ l = d.length /\ f = Offset[m] /\ g = Offset[c]
                                 /\ w = Descriptors[c].total
        OBVIOUS
      <4>3. s \in Int /\ l \in Int /\ f \in Int /\ g \in Int /\ w \in Int
        BY <1>4, <1>7, <3>3, <4>2
      <4>4. s + f <= g + w
        BY <3>1, <4>2
      <4>5. (s - l) + (f + l) <= g + w
        BY ONLY <4>3, <4>4
      <4>6. T.skip = s - l /\ Offset[m + 1] = f + l
        BY <1>8, <3>2, <4>1, <4>2
      <4>7. QED
        BY <4>2, <4>5, <4>6
    <3>5. QED
      BY <1>10, <3>1, <3>4
  <2>2. CASE S.skip <= 0
    <3>1. Is(m, USB_DESCR_TYPE_CONFIGURATION) /\ T.skip = d.total - d.length
      BY <1>5, <1>6, <1>7, <2>2
    <3>2. Offset[m] \in Nat
      BY <1>3, <1>9
    <3>3. m < Ends => T.skip + Offset[m + 1] <= Offset[m] + Descriptors[m].total
      BY <1>4, <1>8, <3>1, <3>2
    <3>4. QED
      BY <1>10, <3>1, <3>3
  <2>3. QED
    BY <1>7, <2>1, <2>2
\* What follows the configuration that is looked for is not passed over.
<1>13. \A c : Matches(value, m, c) => /\ S.skip <= 0 /\ T.skip <= 0
                                      /\ c # m => Matches(value, k, c)
  <2> SUFFICES ASSUME NEW c, Matches(value, m, c)
               PROVE  S.skip <= 0 /\ T.skip <= 0 /\ (c # m => Matches(value, k, c))
    OBVIOUS
  <2>1. CASE c = m
    BY <1>4, <1>5, <1>6, <1>11, <2>1 DEF Matches
  <2>2. CASE c # m
    <3>1. Matches(value, k, c) /\ ~Is(m, USB_DESCR_TYPE_CONFIGURATION)
      <4>1. c \in 1 .. k /\ m \in c + 1 .. m
        BY <1>3, <1>10, <2>2 DEF Matches
      <4>2. \A j \in c + 1 .. k : j \in c + 1 .. m
        BY <1>3, <4>1
      <4>3. QED
        BY <4>1, <4>2 DEF Matches
    <3>2. S.skip <= 0
      BY <3>1 DEF WalkOK, Seen
    <3>3. QED
      BY <1>5, <1>6, <3>1, <3>2
  <2>3. QED
    BY <2>1, <2>2
<1>14. Seen(T, value, m)
  <2> SUFFICES ASSUME NEW c, Matches(value, m, c), NEW i \in c + 1 .. m,
                      Is(i, USB_DESCR_TYPE_INTERFACE),
                      \A j \in i + 1 .. m : ~Is(j, USB_DESCR_TYPE_INTERFACE)
               PROVE  T.aset = Descriptors[i].value
    BY <1>13 DEF Seen
  <2>1. c \in Nat /\ S.skip <= 0
    BY <1>13 DEF Matches
  <2>2. CASE i = m
    BY <1>4, <1>5, <1>6, <2>1, <2>2
  <2>3. CASE i # m
    <3>1. i \in c + 1 .. k /\ m \in i + 1 .. m /\ c # m
      BY <1>3, <2>1, <2>3
    <3>2. \A j \in i + 1 .. k : j \in i + 1 .. m
      BY <1>3, <3>1
    <3>3. S.aset = Descriptors[i].value
      BY <1>13, <3>1, <3>2 DEF WalkOK, Seen
    <3>4. QED
      BY <1>5, <1>6, <2>1, <3>1, <3>3
  <2>4. QED
    BY <2>2, <2>3
<1>15. Found(T, value, m)
  <2> SUFFICES ASSUME NEW j \in 1 .. m, Endpoint(value, j)
               PROVE  Descriptors[j].value \in T.eps
    BY DEF Found
  <2>1. CASE j \in 1 .. k
    BY <1>5, <2>1 DEF WalkOK, Found
  <2>2. CASE j = m
    <3>1. PICK c, i \in 1 .. k :
            /\ Matches(value, k, c) /\ c < i
            /\ Is(i, USB_DESCR_TYPE_INTERFACE) /\ Descriptors[i].value = 0
            /\ \A h \in i + 1 .. k : ~Is(h, USB_DESCR_TYPE_INTERFACE)
      BY <1>3, <2>2, EndpointHas
    <3>2. i \in c + 1 .. k
      BY <1>3, <3>1
    <3>3. S.aset = 0 /\ S.skip <= 0
      BY <3>1, <3>2 DEF WalkOK, Seen
    <3>4. Is(m, USB_DESCR_TYPE_ENDPOINT)
      BY <2>2 DEF Endpoint
    <3>5. QED
      BY <1>4, <1>5, <1>6, <2>2, <3>3, <3>4
  <2>3. QED
    BY <1>10, <2>1, <2>2
<1>16. QED
  BY <1>2, <1>5, <1>12, <1>14, <1>15 DEF WalkOK

\* The walk enables every endpoint of the configuration.
LEMMA WalkCovers ==
  ASSUME NEW value
  PROVE  /\ Walk(value).eps \in SUBSET (0 .. 255)
         /\ EndpointsOf(value) \subseteq Walk(value).eps
<1>1. PICK w : WalkIs(w, value, Ends) /\ Walk(value) = w[Ends]
  <2> DEFINE W == CHOOSE w : WalkIs(w, value, Ends)
  <2>1. WalkIs(W, value, Ends)
    BY WalkExists
  <2>2. Walk(value) = W[Ends]
    BY DEF Walk, WalkIs, Start, Ends
  <2>3. QED
    BY <2>1, <2>2
<1> DEFINE S == {k \in Nat : k <= Ends => WalkOK(w[k], value, k)}
<1>2. 0 \in S
  <2>1. 0 \in 0 .. Ends
    BY EndsIs
  <2>2. w[0] = Start
    BY <1>1, <2>1 DEF WalkIs
  <2>3. Start \in Walkers
    BY DEF Start, Walkers
  <2>4. Skips(Start, 0) /\ Seen(Start, value, 0) /\ Found(Start, value, 0)
    BY DEF Skips, Seen, Found, Start, Matches
  <2>5. QED
    BY <2>2, <2>3, <2>4 DEF WalkOK
<1>3. ASSUME NEW i \in 1 .. Ends, i - 1 \in S
      PROVE  i \in S
  <2>1. PICK k \in Nat : i = k + 1 /\ k < Ends /\ k = i - 1
    BY EndsIs
  <2>2. WalkOK(w[k], value, k)
    <3>1. k \in S /\ k <= Ends
      BY <1>3, <2>1, EndsIs
    <3>2. QED
      BY <3>1
  <2>3. w[i] = Visit(value, w[k], Descriptors[k + 1])
    <3>1. i \in 0 .. Ends /\ i # 0
      BY <2>1, EndsIs
    <3>2. QED
      BY <1>1, <2>1, <3>1 DEF WalkIs
  <2>4. WalkOK(w[i], value, i)
    BY <2>1, <2>2, <2>3, WalkStep
  <2>5. QED
    BY <2>1, <2>4
<1> HIDE DEF S
<1>4. 0 .. Ends \subseteq S
  BY <1>2, <1>3, UpToInduction, EndsIs
<1>5. WalkOK(w[Ends], value, Ends)
  <2>1. Ends \in S /\ Ends \in Nat
    BY <1>4, EndsIs
  <2>2. QED
    BY <2>1 DEF S
<1>6. EndpointsOf(value) = {Descriptors[i].value : i \in {j \in 1 .. Ends : Endpoint(value, j)}}
  BY EndsIs DEF EndpointsOf, Endpoint
<1>7. QED
  BY <1>1, <1>5, <1>6 DEF WalkOK, Walkers, Found

-----------------------------------------------------------------------------
\* The states of the device and of the host

Addresses == [mem : {"buf", "descr"}, off : Int]
Udi == [Configuration : 0 .. 255, nbytes : Nat, pdata : Addresses,
        buf : Contents, usp : Requests \cup {NULL}]
Hw == [out : OutPackets \cup {NULL}, in : InPackets \cup {NULL}, rx : BOOLEAN,
       tx : BOOLEAN, reset : BOOLEAN, stalled : BOOLEAN, addr : Nat,
       configured : BOOLEAN, enabled : SUBSET (0 .. 255), waits : BOOLEAN,
       connected : BOOLEAN]
Phases == {"idle", "data in", "data out", "status in", "status out"}
ConfSets == SUBSET (0 .. 255)
Host == [phase : Phases, req : Requests \cup {NULL}, got : Nat, exact : BOOLEAN, done : BOOLEAN,
         confs : ConfSets]
Devices == [udi : Udi, hw : Hw]
ControlType == udi \in Udi /\ hw \in Hw /\ host \in Host

-----------------------------------------------------------------------------
\* What the functions of the firmware do to a device

\* What only the packets and the interrupts change.
Line(h) == <<h.out, h.in, h.rx, h.tx, h.reset, h.waits>>
Kept(D, E) == Line(E.hw) = Line(D.hw) /\ E.udi.usp = D.udi.usp
\* The firmware and the controller agree on the configuration.
Together(D) ==
  /\ (D.udi.Configuration # 0) = D.hw.configured
  /\ D.hw.configured => EndpointsOf(D.udi.Configuration) \subseteq D.hw.enabled
\* Effect, for a device.
EffectOn(D, r) ==
  /\ r.bRequest = "SET_ADDRESS" => D.hw.addr = r.wValue % 128
  /\ SetsConfiguration(r) =>
       /\ D.udi.Configuration = Value(r) /\ D.hw.configured = (Value(r) # 0)
       /\ EndpointsOf(Value(r)) \subseteq D.hw.enabled

\* The requests that are answered with data.
Readable(r) ==
  \/ r.type = "in" /\ r.bRequest \in {"GET_STATUS", "GET_CONFIGURATION"}
  \/ r.type = "in" /\ r.bRequest = "GET_DESCRIPTOR" /\ Asked(r) # {}
  \/ r.type = "class_in" /\ r.bRequest = "0xFE"
\* What is written is the answer to the request.
Source(D) == IF D.udi.pdata.mem = "buf" THEN D.udi.buf ELSE FromDescriptors
Gives(D, r) == LET a == Answers(r)
               IN D.udi.nbytes = a.len /\ D.udi.pdata.off = a.off /\ Source(D) \in a.from

\* What a request does that arrived in r.
Serves(D, r, A) ==
  /\ A = [ok |-> A.ok, D |-> A.D]
  /\ A.D \in Devices /\ Kept(D, A.D) /\ Together(A.D)
  /\ \/ A.D.udi.Configuration = D.udi.Configuration
     \/ A.ok /\ SetsConfiguration(r) /\ A.D.udi.Configuration = Value(r)
  /\ A.ok => /\ A.D.hw.stalled = D.hw.stalled /\ EffectOn(A.D, r)
             /\ DirectionIn(r) => Readable(r) /\ Gives(A.D, r)
             /\ ~DirectionIn(r) => A.D.udi.nbytes = D.udi.nbytes

LEMMA DeviceFields ==
  ASSUME NEW D \in Devices
  PROVE  /\ D.udi \in Udi /\ D.hw \in Hw /\ D = [udi |-> D.udi, hw |-> D.hw]
         /\ D.udi.Configuration \in 0 .. 255 /\ D.udi.nbytes \in Nat
         /\ D.hw.configured \in BOOLEAN /\ D.hw.stalled \in BOOLEAN /\ D.hw.addr \in Nat
         /\ D.hw.enabled \in SUBSET (0 .. 255)
BY DEF Devices, Udi, Hw

LEMMA UdiFields ==
  ASSUME NEW u \in Udi
  PROVE  /\ \A n \in Nat : [u EXCEPT !.nbytes = n] \in Udi
         /\ \A a \in Addresses : [u EXCEPT !.pdata = a] \in Udi
         /\ \A c \in Contents : [u EXCEPT !.buf = c] \in Udi
<1>1. \A n \in Nat : [u EXCEPT !.nbytes = n] \in Udi
  BY DEF Udi
<1>2. \A a \in Addresses : [u EXCEPT !.pdata = a] \in Udi
  BY DEF Udi
<1>3. \A c \in Contents : [u EXCEPT !.buf = c] \in Udi
  BY DEF Udi
<1>4. QED
  BY <1>1, <1>2, <1>3

LEMMA HwFields ==
  ASSUME NEW h \in Hw
  PROVE  /\ \A p \in OutPackets \cup {NULL} : [h EXCEPT !.out = p] \in Hw
         /\ \A p \in InPackets \cup {NULL} : [h EXCEPT !.in = p] \in Hw
         /\ \A b \in BOOLEAN : /\ [h EXCEPT !.rx = b] \in Hw
                               /\ [h EXCEPT !.tx = b] \in Hw
                               /\ [h EXCEPT !.reset = b] \in Hw
                               /\ [h EXCEPT !.stalled = b] \in Hw
                               /\ [h EXCEPT !.configured = b] \in Hw
                               /\ [h EXCEPT !.waits = b] \in Hw
                               /\ [h EXCEPT !.connected = b] \in Hw
         /\ \A n \in Nat : [h EXCEPT !.addr = n] \in Hw
<1>1. \A p \in OutPackets \cup {NULL} : [h EXCEPT !.out = p] \in Hw
  BY DEF Hw
<1>2. \A p \in InPackets \cup {NULL} : [h EXCEPT !.in = p] \in Hw
  BY DEF Hw
<1>3. \A b \in BOOLEAN : [h EXCEPT !.rx = b] \in Hw
  BY DEF Hw
<1>4. \A b \in BOOLEAN : [h EXCEPT !.tx = b] \in Hw
  BY DEF Hw
<1>5. \A b \in BOOLEAN : [h EXCEPT !.reset = b] \in Hw
  BY DEF Hw
<1>6. \A b \in BOOLEAN : [h EXCEPT !.stalled = b] \in Hw
  BY DEF Hw
<1>7. \A b \in BOOLEAN : [h EXCEPT !.configured = b] \in Hw
  BY DEF Hw
<1>8. \A b \in BOOLEAN : [h EXCEPT !.waits = b] \in Hw
  BY DEF Hw
<1>9. \A b \in BOOLEAN : [h EXCEPT !.connected = b] \in Hw
  BY DEF Hw
<1>10. \A n \in Nat : [h EXCEPT !.addr = n] \in Hw
  BY DEF Hw
<1>11. QED
  BY <1>1, <1>2, <1>3, <1>4, <1>5, <1>6, <1>7, <1>8, <1>9, <1>10

LEMMA StallField ==
  ASSUME NEW h \in Hw, NEW mode \in BOOLEAN, NEW g, g = [h EXCEPT !.stalled = mode]
  PROVE  /\ g \in Hw /\ Line(g) = Line(h) /\ g.stalled = mode
         /\ g.configured = h.configured /\ g.enabled = h.enabled
<1>1. g \in Hw
  BY DEF Hw
<1>2. Line(g) = Line(h)
  BY DEF Hw, Line
<1>3. g.stalled = mode /\ g.configured = h.configured /\ g.enabled = h.enabled
  BY DEF Hw
<1>4. QED
  BY <1>1, <1>2, <1>3

LEMMA ConfiguredField ==
  ASSUME NEW h \in Hw, NEW mode \in BOOLEAN, NEW g, g = [h EXCEPT !.configured = mode]
  PROVE  /\ g \in Hw /\ Line(g) = Line(h) /\ g.configured = mode
         /\ g.stalled = h.stalled /\ g.enabled = h.enabled
<1>1. g \in Hw
  BY DEF Hw
<1>2. Line(g) = Line(h)
  BY DEF Hw, Line
<1>3. g.configured = mode /\ g.stalled = h.stalled /\ g.enabled = h.enabled
  BY DEF Hw
<1>4. QED
  BY <1>1, <1>2, <1>3

LEMMA RequestIs ==
  ASSUME NEW r \in Requests
  PROVE  /\ r.type \in {"out", "in", "class_in", "class_out", "other"}
         /\ r.wValue \in Nat /\ r.wLength \in Nat /\ r # NULL /\ Value(r) \in 0 .. 255
         /\ r.type = "class_out" => r.bRequest # "0xFE"
         /\ r.type = "class_in" => r.bRequest # "0xFF"
<1>1. r \in SetupPackets /\ r # NULL
  BY ControlAssumption
<1>2. r.type \in {"out", "in", "class_in", "class_out", "other"}
      /\ r.wValue \in Nat /\ r.wLength \in Nat
  BY <1>1 DEF SetupPackets
<1>3. Value(r) \in 0 .. 255
  BY <1>2 DEF Value
<1>4. /\ r.type = "class_out" => r.bRequest # "0xFE"
      /\ r.type = "class_in" => r.bRequest # "0xFF"
  BY RequestsAssumption
<1>5. QED
  BY <1>1, <1>2, <1>3, <1>4

\* A descriptor that is found fits into a packet.
LEMMA AskedIs ==
  ASSUME NEW r, Asked(r) # {}, NEW d, d = CHOOSE e \in Asked(r) : TRUE
  PROVE  /\ d \in 1 .. Ends /\ Offset[d] \in Nat
         /\ Whole(Descriptors[d]) \in 0 .. USB_MAX_PACKET0
<1>1. d \in Asked(r)
  OBVIOUS
<1>2. d \in DOMAIN Descriptors
  BY <1>1 DEF Asked, Nth
<1>3. d \in 1 .. Ends
  BY <1>2, EndsIs
<1>4. Offset[d] \in Nat
  BY <1>3, OffsetIs
<1>5. Whole(Descriptors[d]) <= USB_MAX_PACKET0
  BY <1>2, DescriptorsAssumption
<1>6. Whole(Descriptors[d]) \in Nat
  <2>1. Descriptors[d].total \in Nat /\ Descriptors[d].length \in 1 .. 255
    BY <1>3, DescriptorIs
  <2>2. QED
    BY <2>1 DEF Whole
<1>7. USB_MAX_PACKET0 \in Nat
  BY ControlAssumption
<1>8. QED
  BY <1>3, <1>4, <1>5, <1>6, <1>7

LEMMA AnswersFit ==
  ASSUME NEW r \in Requests, Readable(r)
  PROVE  Answers(r).len \in 0 .. USB_MAX_PACKET0 /\ Answers(r).off \in Nat
<1>1. USB_MAX_PACKET0 \in Nat /\ USB_MAX_PACKET0 >= 8
  BY ControlAssumption
<1>2. CASE r.bRequest = "GET_DESCRIPTOR"
  <2>1. PICK d : d = CHOOSE e \in Asked(r) : TRUE
    OBVIOUS
  <2>2. Answers(r) = [from |-> {FromDescriptors}, off |-> Offset[d], len |-> Whole(Descriptors[d])]
    BY <1>2, <2>1 DEF Answers
  <2>3. Asked(r) # {}
    BY <1>2 DEF Readable
  <2>4. Offset[d] \in Nat /\ Whole(Descriptors[d]) \in 0 .. USB_MAX_PACKET0
    BY <2>1, <2>3, AskedIs
  <2>5. QED
    BY <2>2, <2>4
<1>3. CASE r.bRequest \in {"GET_CONFIGURATION", "GET_STATUS", "0xFE"}
  <2>1. Answers(r).len \in {1, 2} /\ Answers(r).off = 0
    BY <1>3 DEF Answers
  <2>2. QED
    BY <1>1, <2>1
<1>4. QED
  BY <1>2, <1>3 DEF Readable

LEMMA RefusedServes ==
  ASSUME NEW D \in Devices, NEW r \in Requests, Together(D)
  PROVE  Serves(D, r, Refused(D))
BY DEF Serves, Refused, Kept

LEMMA StallOutServes ==
  ASSUME NEW D \in Devices, NEW r \in Requests, Together(D)
  PROVE  Serves(D, r, Refused(usb_exch_stage_STALLOUT(D)))
<1>1. PICK E : E = usb_exch_stage_STALLOUT(D)
  OBVIOUS
<1>2. E = [udi |-> [D.udi EXCEPT !.nbytes = 0], hw |-> [D.hw EXCEPT !.stalled = TRUE]]
  BY <1>1, DeviceFields DEF usb_exch_stage_STALLOUT, tn_usb_stall_ep, Devices
<1>3. /\ E.udi \in Udi /\ E.hw \in Hw /\ Kept(D, E)
      /\ E.udi.Configuration = D.udi.Configuration /\ E.hw.configured = D.hw.configured
      /\ E.hw.enabled = D.hw.enabled
  <2>1. /\ E.udi \in Udi /\ E.udi.Configuration = D.udi.Configuration
        /\ E.udi.usp = D.udi.usp
    BY <1>2, DeviceFields DEF Udi
  <2>2. /\ E.hw \in Hw /\ E.hw.configured = D.hw.configured /\ E.hw.enabled = D.hw.enabled
        /\ Line(E.hw) = Line(D.hw)
    <3>1. E.hw = [D.hw EXCEPT !.stalled = TRUE] /\ D.hw \in Hw
      BY <1>2, DeviceFields
    <3>2. QED
      BY ONLY <3>1, StallField
  <2>3. QED
    BY <2>1, <2>2 DEF Kept
<1>4. E \in Devices
  BY <1>2, <1>3 DEF Devices
<1>5. Together(E)
  BY <1>3 DEF Together
<1>6. QED
  BY <1>1, <1>3, <1>4, <1>5 DEF Serves, Refused

LEMMA SetAddressServes ==
  ASSUME NEW D \in Devices, NEW r \in Requests, Together(D),
         r.type = "out", r.bRequest = "SET_ADDRESS"
  PROVE  Serves(D, r, usb_SET_ADDRESS(D, r))
<1>1. CASE r.recip = "device"
  <2>1. PICK E : E = tn_usb_set_addr(D, r.wValue)
    OBVIOUS
  <2>2. E = [udi |-> D.udi, hw |-> [D.hw EXCEPT !.addr = r.wValue % 128]]
    BY <2>1, DeviceFields DEF tn_usb_set_addr, Devices
  <2>3. r.wValue % 128 \in Nat
    BY RequestIs
  <2>4. /\ E.udi = D.udi /\ E.hw \in Hw /\ Kept(D, E)
        /\ E.hw.configured = D.hw.configured /\ E.hw.enabled = D.hw.enabled
        /\ E.hw.stalled = D.hw.stalled /\ E.hw.addr = r.wValue % 128
    BY <2>2, <2>3, DeviceFields DEF Hw, Line, Kept
  <2>5. E \in Devices /\ Together(E)
    BY <2>2, <2>4, DeviceFields DEF Devices, Together
  <2>6. ~SetsConfiguration(r) /\ ~DirectionIn(r)
    BY DEF SetsConfiguration, DirectionIn
  <2>7. EffectOn(E, r)
    BY <2>4, <2>6 DEF EffectOn
  <2>8. usb_SET_ADDRESS(D, r) = [ok |-> TRUE, D |-> E]
    BY <1>1, <2>1 DEF usb_SET_ADDRESS, Agreed
  <2>9. QED
    BY <2>4, <2>5, <2>6, <2>7, <2>8 DEF Serves
<1>2. CASE r.recip # "device"
  BY <1>2, RefusedServes DEF usb_SET_ADDRESS
<1>3. QED
  BY <1>1, <1>2

\* What is agreed to without any change.
LEMMA NothingServes ==
  ASSUME NEW D \in Devices, NEW r \in Requests, Together(D), ~DirectionIn(r),
         ~SetsConfiguration(r), r.bRequest # "SET_ADDRESS"
  PROVE  Serves(D, r, Agreed(D))
BY DEF Serves, Agreed, Kept, EffectOn

LEMMA NoneOfZero == EndpointsOf(0) = {}
<1> SUFFICES ASSUME NEW j \in 1 .. Ends, Endpoint(0, j)
             PROVE  FALSE
  BY EndsIs DEF EndpointsOf, Endpoint
<1>1. PICK c \in 1 .. j - 1 : Matches(0, j - 1, c)
  BY EndpointHas
<1>2. c \in 1 .. Ends
  BY EndsIs
<1>3. QED
  BY <1>1, <1>2, EndsIs, DescriptorsAssumption DEF Matches

LEMMA SetConfigurationServes ==
  ASSUME NEW D \in Devices, NEW r \in Requests, Together(D),
         r.type = "out", r.bRequest = "SET_CONFIGURATION"
  PROVE  Serves(D, r, usb_SET_CONFIGURATION(D, r))
<1>1. PICK value : value = r.wValue % 256
  OBVIOUS
<1>2. PICK walk : walk = Walk(value)
  OBVIOUS
<1>3. PICK E : E = [D EXCEPT !.hw.enabled = @ \cup walk.eps]
  OBVIOUS
<1>4. PICK A : A = usb_SET_CONFIGURATION(D, r)
  OBVIOUS
<1>5. /\ value = Value(r) /\ value \in 0 .. 255 /\ SetsConfiguration(r) /\ ~DirectionIn(r)
      /\ r.bRequest # "SET_ADDRESS"
  BY <1>1, RequestIs DEF Value, SetsConfiguration, DirectionIn
<1>6. walk.eps \in SUBSET (0 .. 255) /\ EndpointsOf(value) \subseteq walk.eps
  BY <1>2, WalkCovers
<1>7. E = [udi |-> D.udi, hw |-> [D.hw EXCEPT !.enabled = @ \cup walk.eps]]
  BY <1>3, DeviceFields DEF Devices
<1>8. /\ E.udi = D.udi /\ E.hw \in Hw /\ Kept(D, E)
      /\ E.hw.configured = D.hw.configured /\ E.hw.enabled = D.hw.enabled \cup walk.eps
      /\ E.hw.stalled = D.hw.stalled
  BY <1>6, <1>7, DeviceFields DEF Hw, Line, Kept
<1>9. E \in Devices /\ Together(E)
  BY <1>7, <1>8, DeviceFields DEF Devices, Together
<1>10. CASE value = 0
  <2>1. PICK F : F = tn_usb_configure_device([D EXCEPT !.udi.Configuration = 0], FALSE)
    OBVIOUS
  <2>2. F = [udi |-> [D.udi EXCEPT !.Configuration = 0], hw |-> [D.hw EXCEPT !.configured = FALSE]]
    BY <2>1, DeviceFields DEF tn_usb_configure_device, Devices
  <2>3. /\ F.udi \in Udi /\ F.hw \in Hw /\ Kept(D, F) /\ F.udi.Configuration = 0
        /\ F.udi.nbytes = D.udi.nbytes /\ F.hw.configured = FALSE /\ F.hw.stalled = D.hw.stalled
    <3>1. /\ F.udi \in Udi /\ F.udi.Configuration = 0 /\ F.udi.usp = D.udi.usp
          /\ F.udi.nbytes = D.udi.nbytes
      BY <2>2, DeviceFields DEF Udi
    <3>2. /\ F.hw \in Hw /\ F.hw.configured = FALSE /\ F.hw.stalled = D.hw.stalled
          /\ Line(F.hw) = Line(D.hw)
      <4>1. F.hw = [D.hw EXCEPT !.configured = FALSE] /\ D.hw \in Hw
        BY <2>2, DeviceFields
      <4>2. QED
        BY ONLY <4>1, ConfiguredField
    <3>3. QED
      BY <3>1, <3>2 DEF Kept
  <2>4. F \in Devices /\ Together(F)
    BY <2>2, <2>3 DEF Devices, Together
  <2>5. A = [ok |-> TRUE, D |-> F]
    BY <1>1, <1>4, <1>10, <2>1, <2>3 DEF usb_SET_CONFIGURATION
  <2>6. EndpointsOf(value) = {}
    BY <1>10, NoneOfZero
  <2>7. EffectOn(F, r)
    BY <1>5, <1>10, <2>3, <2>6 DEF EffectOn
  <2>8. QED
    BY <1>4, <1>5, <1>10, <2>3, <2>4, <2>5, <2>7 DEF Serves
<1>11. CASE value # 0 /\ walk.found
  <2>1. PICK F : F = tn_usb_configure_device([E EXCEPT !.udi.Configuration = value], TRUE)
    OBVIOUS
  <2>2. F = [udi |-> [D.udi EXCEPT !.Configuration = value],
             hw |-> [E.hw EXCEPT !.configured = TRUE]]
    BY <1>7, <1>8, <1>9, <2>1, DeviceFields DEF tn_usb_configure_device, Devices
  <2>3. /\ F.udi \in Udi /\ F.hw \in Hw /\ Kept(E, F) /\ F.udi.Configuration = value
        /\ F.udi.nbytes = D.udi.nbytes /\ F.hw.configured = TRUE /\ F.hw.stalled = D.hw.stalled
        /\ F.hw.enabled = E.hw.enabled
    <3>1. /\ F.udi \in Udi /\ F.udi.Configuration = value /\ F.udi.usp = D.udi.usp
          /\ F.udi.nbytes = D.udi.nbytes
      BY <1>5, <2>2, DeviceFields DEF Udi
    <3>2. /\ F.hw \in Hw /\ F.hw.configured = TRUE /\ F.hw.stalled = E.hw.stalled
          /\ F.hw.enabled = E.hw.enabled /\ Line(F.hw) = Line(E.hw)
      BY <1>8, <2>2, ConfiguredField
    <3>3. QED
      BY <1>8, <3>1, <3>2 DEF Kept
  <2>4. F \in Devices /\ Together(F)
    BY <1>6, <1>8, <1>11, <2>2, <2>3 DEF Devices, Together
  <2>5. A = [ok |-> TRUE, D |-> F]
    <3>1. A = [ok |-> F.udi.Configuration = value, D |-> F]
      <4>1. PICK N : N = tn_usb_configure_device(
                           [[D EXCEPT !.hw.enabled = @ \cup Walk(value).eps]
                              EXCEPT !.udi.Configuration = value], TRUE)
        OBVIOUS
      <4>2. N = F
        BY <1>2, <1>3, <2>1, <4>1
      <4>3. A = [ok |-> N.udi.Configuration = value, D |-> N]
        <5>1. ~(r.wValue % 256 = 0) /\ Walk(r.wValue % 256).found
          BY <1>1, <1>2, <1>11
        <5>2. N = tn_usb_configure_device(
                    [[D EXCEPT !.hw.enabled = @ \cup Walk(r.wValue % 256).eps]
                       EXCEPT !.udi.Configuration = r.wValue % 256], TRUE)
          BY <1>1, <4>1
        <5>3. A = [ok |-> N.udi.Configuration = r.wValue % 256, D |-> N]
          BY ONLY <1>4, <5>1, <5>2 DEF usb_SET_CONFIGURATION
        <5>4. QED
          BY <1>1, <5>3
      <4>4. QED
        BY <4>2, <4>3
    <3>2. (F.udi.Configuration = value) = TRUE
      BY <2>3
    <3>3. QED
      BY <3>1, <3>2
  <2>6. EffectOn(F, r)
    BY <1>5, <1>6, <1>8, <1>11, <2>3 DEF EffectOn
  <2>7. Kept(D, F)
    BY <1>8, <2>3 DEF Kept
  <2>8. QED
    BY <1>4, <1>5, <2>3, <2>4, <2>5, <2>6, <2>7 DEF Serves
<1>12. CASE value # 0 /\ ~walk.found
  <2>1. A = [ok |-> E.udi.Configuration = value, D |-> E]
    BY <1>1, <1>2, <1>3, <1>4, <1>12 DEF usb_SET_CONFIGURATION
  <2>2. E.udi.Configuration = value => EffectOn(E, r)
    BY <1>5, <1>9, <1>12 DEF EffectOn, Together
  <2>3. QED
    <3>1. /\ A.D = E /\ (A.ok => E.udi.Configuration = value)
          /\ A = [ok |-> A.ok, D |-> A.D]
      BY <2>1
    <3>2. /\ E \in Devices /\ Kept(D, E) /\ Together(E)
          /\ E.udi.Configuration = D.udi.Configuration /\ E.hw.stalled = D.hw.stalled
          /\ E.udi.nbytes = D.udi.nbytes
      BY <1>8, <1>9
    <3>3. QED
      BY <1>4, <1>5, <2>2, <3>1, <3>2 DEF Serves
<1>13. QED
  BY <1>10, <1>11, <1>12

\* An answer that is put into the buffer of the firmware.
LEMMA ReplyServes ==
  ASSUME NEW D \in Devices, NEW r \in Requests, Together(D), D.udi.pdata = InBuffer,
         NEW what \in Contents, NEW n \in Nat,
         r.type \in {"in", "class_in"}, r.bRequest # "SET_ADDRESS", Readable(r),
         Answers(r).len = n, Answers(r).off = 0, what \in Answers(r).from
  PROVE  Serves(D, r, Reply(D, what, n))
<1>1. PICK E : E = [D EXCEPT !.udi.buf = what, !.udi.nbytes = n]
  OBVIOUS
<1>2. PICK u : u = [[D.udi EXCEPT !.buf = what] EXCEPT !.nbytes = n]
  OBVIOUS
<1>3. /\ u \in Udi /\ u.Configuration = D.udi.Configuration /\ u.usp = D.udi.usp
      /\ u.nbytes = n /\ u.buf = what /\ u.pdata = InBuffer
  <2>1. u \in Udi
    <3>1. PICK v : v = [D.udi EXCEPT !.buf = what]
      OBVIOUS
    <3>2. v \in Udi
      BY <3>1, DeviceFields, UdiFields
    <3>3. QED
      BY <1>2, <3>1, <3>2, UdiFields
  <2>2. u.Configuration = D.udi.Configuration /\ u.usp = D.udi.usp /\ u.pdata = D.udi.pdata
    BY <1>2, DeviceFields DEF Udi
  <2>3. u.nbytes = n /\ u.buf = what
    BY <1>2, DeviceFields DEF Udi
  <2>4. QED
    BY <2>1, <2>2, <2>3
<1>4. E.udi = u /\ E.hw = D.hw /\ E = [udi |-> u, hw |-> D.hw]
  <2>1. PICK v : v = [D.udi EXCEPT !.buf = what]
    OBVIOUS
  <2>2. PICK F : F = [D EXCEPT !.udi.buf = what]
    OBVIOUS
  <2>3. F = [udi |-> v, hw |-> D.hw]
    BY <2>1, <2>2, DeviceFields DEF Devices
  <2>4. E = [F EXCEPT !.udi.nbytes = n] /\ u = [v EXCEPT !.nbytes = n]
    BY <1>1, <1>2, <2>1, <2>2
  <2>5. E = [udi |-> u, hw |-> D.hw]
    BY <2>3, <2>4
  <2>6. QED
    BY <2>5
<1>5. E \in Devices /\ Kept(D, E) /\ Together(E)
  BY <1>3, <1>4, DeviceFields DEF Devices, Kept, Together
<1>6. Source(E) = what /\ E.udi.pdata.off = 0
  BY <1>3, <1>4 DEF Source, InBuffer
<1>7. Gives(E, r)
  BY <1>3, <1>4, <1>6 DEF Gives
<1>8. DirectionIn(r) /\ EffectOn(E, r)
  BY DEF DirectionIn, EffectOn, SetsConfiguration
<1>9. Reply(D, what, n) = [ok |-> TRUE, D |-> E]
  BY <1>1 DEF Reply, Agreed
<1>10. QED
  BY <1>3, <1>4, <1>5, <1>7, <1>8, <1>9 DEF Serves

LEMMA GetStatusServes ==
  ASSUME NEW D \in Devices, NEW r \in Requests, Together(D), D.udi.pdata = InBuffer,
         r.type = "in", r.bRequest = "GET_STATUS"
  PROVE  Serves(D, r, usb_GET_STATUS(D, r))
<1>1. Answers(r) = [from |-> {Content("status", 0)}, off |-> 0, len |-> 2] /\ Readable(r)
  BY DEF Answers, Readable
<1>2. Content("status", 0) \in Contents
  BY DEF Content, Contents
<1>3. Serves(D, r, Reply(D, Content("status", 0), 2))
  BY <1>1, <1>2, ReplyServes
<1>4. QED
  BY <1>3, RefusedServes DEF usb_GET_STATUS

LEMMA GetConfigurationServes ==
  ASSUME NEW D \in Devices, NEW r \in Requests, Together(D), D.udi.pdata = InBuffer,
         D.udi.Configuration \in host.confs, r.type = "in", r.bRequest = "GET_CONFIGURATION"
  PROVE  Serves(D, r, usb_GET_CONFIGURATION(D, r))
<1>1. PICK what : what = Content("configuration", D.udi.Configuration)
  OBVIOUS
<1>2. Answers(r) = [from |-> {Content("configuration", c) : c \in host.confs},
                    off |-> 0, len |-> 1]
  BY DEF Answers
<1>3. what \in Contents
  BY <1>1, DeviceFields DEF Content, Contents
<1>4. what \in Answers(r).from /\ Answers(r).off = 0 /\ Answers(r).len = 1 /\ Readable(r)
  BY <1>1, <1>2 DEF Readable
<1>5. Serves(D, r, Reply(D, what, 1))
  BY <1>3, <1>4, ReplyServes
<1>6. QED
  BY <1>1, <1>5, RefusedServes DEF usb_GET_CONFIGURATION

LEMMA GetDescriptorServes ==
  ASSUME NEW D \in Devices, NEW r \in Requests, Together(D),
         r.type = "in", r.bRequest = "GET_DESCRIPTOR"
  PROVE  Serves(D, r, usb_GET_DESCRIPTOR(D, r))
<1>1. PICK d : d = CHOOSE e \in Asked(r) : TRUE
  OBVIOUS
<1>2. CASE r.recip = "device" /\ Asked(r) # {}
  <2>1. PICK E : E = [D EXCEPT !.udi.pdata = InDescriptors(Offset[d]),
                               !.udi.nbytes = Whole(Descriptors[d])]
    OBVIOUS
  <2>2. Offset[d] \in Nat /\ Whole(Descriptors[d]) \in Nat
    <3>1. Offset[d] \in Nat /\ Whole(Descriptors[d]) \in 0 .. USB_MAX_PACKET0
      BY <1>1, <1>2, AskedIs
    <3>2. QED
      BY <3>1
  <2>3. PICK u : u = [[D.udi EXCEPT !.pdata = InDescriptors(Offset[d])]
                         EXCEPT !.nbytes = Whole(Descriptors[d])]
    OBVIOUS
  <2>4. InDescriptors(Offset[d]) \in Addresses
    BY <2>2 DEF InDescriptors, Addresses
  <2>5. /\ u \in Udi /\ u.Configuration = D.udi.Configuration
        /\ u.usp = D.udi.usp /\ u.nbytes = Whole(Descriptors[d])
        /\ u.pdata = InDescriptors(Offset[d])
    <3>1. u \in Udi
      <4>1. PICK v : v = [D.udi EXCEPT !.pdata = InDescriptors(Offset[d])]
        OBVIOUS
      <4>2. v \in Udi
        BY <2>4, <4>1, DeviceFields, UdiFields
      <4>3. QED
        BY <2>2, <2>3, <4>1, <4>2, UdiFields
    <3>2. u.Configuration = D.udi.Configuration /\ u.usp = D.udi.usp
      BY <2>3, DeviceFields DEF Udi
    <3>3. u.nbytes = Whole(Descriptors[d]) /\ u.pdata = InDescriptors(Offset[d])
      BY <2>3, DeviceFields DEF Udi
    <3>4. QED
      BY <3>1, <3>2, <3>3
  <2>6. E.udi = u /\ E.hw = D.hw /\ E = [udi |-> u, hw |-> D.hw]
    BY <2>1, <2>3, DeviceFields DEF Devices
  <2>7. E \in Devices /\ Kept(D, E) /\ Together(E)
    BY <2>5, <2>6, DeviceFields DEF Devices, Kept, Together
  <2>8. Source(E) = FromDescriptors /\ E.udi.pdata.off = Offset[d]
    BY <2>5, <2>6 DEF Source, InDescriptors
  <2>9. Answers(r) = [from |-> {FromDescriptors}, off |-> Offset[d],
                      len |-> Whole(Descriptors[d])]
    BY <1>1 DEF Answers
  <2>10. Gives(E, r)
    BY <2>5, <2>6, <2>8, <2>9 DEF Gives
  <2>11. DirectionIn(r) /\ EffectOn(E, r) /\ Readable(r)
    BY <1>2 DEF DirectionIn, EffectOn, SetsConfiguration, Readable
  <2>12. usb_GET_DESCRIPTOR(D, r) = [ok |-> TRUE, D |-> E]
    BY <1>1, <1>2, <2>1 DEF usb_GET_DESCRIPTOR, Agreed
  <2>13. QED
    BY <2>5, <2>6, <2>7, <2>10, <2>11, <2>12 DEF Serves
<1>3. CASE ~(r.recip = "device" /\ Asked(r) # {})
  BY <1>3, RefusedServes DEF usb_GET_DESCRIPTOR
<1>4. QED
  BY <1>2, <1>3

LEMMA ClassServes ==
  ASSUME NEW D \in Devices, NEW r \in Requests, Together(D), D.udi.pdata = InBuffer,
         r.type \in {"class_in", "class_out"}
  PROVE  Serves(D, r, tn_usb_class_request(D, r))
<1>1. CASE r.bRequest = "0xFE"
  <2>1. r.type = "class_in"
    BY <1>1, RequestIs
  <2>2. Answers(r) = [from |-> {Content("LUN", 0)}, off |-> 0, len |-> 1] /\ Readable(r)
    BY <1>1, <2>1 DEF Answers, Readable
  <2>3. Content("LUN", 0) \in Contents
    BY DEF Content, Contents
  <2>4. Serves(D, r, Reply(D, Content("LUN", 0), 1))
    BY <1>1, <2>1, <2>2, <2>3, ReplyServes
  <2>5. QED
    BY <1>1, <2>4 DEF tn_usb_class_request
<1>2. CASE r.bRequest = "0xFF"
  <2>1. r.type = "class_out"
    BY <1>2, RequestIs
  <2>2. ~DirectionIn(r) /\ ~SetsConfiguration(r) /\ r.bRequest # "SET_ADDRESS"
    BY <1>2, <2>1 DEF DirectionIn, SetsConfiguration
  <2>3. Serves(D, r, Agreed(D))
    BY <2>2, NothingServes
  <2>4. QED
    BY <1>2, <2>3 DEF tn_usb_class_request
<1>3. CASE r.bRequest \notin {"0xFE", "0xFF"}
  BY <1>3, RefusedServes DEF tn_usb_class_request
<1>4. QED
  BY <1>1, <1>2, <1>3

LEMMA ClearFeatureServes ==
  ASSUME NEW D \in Devices, NEW r \in Requests, Together(D),
         r.type = "out", r.bRequest = "CLEAR_FEATURE"
  PROVE  Serves(D, r, usb_CLEAR_FEATURE(D, r))
<1>1. ~DirectionIn(r) /\ ~SetsConfiguration(r) /\ r.bRequest # "SET_ADDRESS"
  BY DEF DirectionIn, SetsConfiguration
<1>2. QED
  BY <1>1, NothingServes, RefusedServes DEF usb_CLEAR_FEATURE

\* A request of each kind.
LEMMA SetupServes ==
  ASSUME NEW D \in Devices, NEW r \in Requests, D.udi.usp = r, Together(D),
         D.udi.pdata = InBuffer, D.udi.Configuration \in host.confs
  PROVE  Serves(D, r, tn_usb_EP0_SETUP(D))
<1>1. PICK A : A = tn_usb_EP0_SETUP(D)
  OBVIOUS
<1>2. CASE r.type \in {"class_in", "class_out"}
  BY <1>2, ClassServes DEF tn_usb_EP0_SETUP
<1>3. CASE r.type = "out"
  <2>1. CASE r.bRequest = "SET_ADDRESS"
    BY <1>3, <2>1, SetAddressServes DEF tn_usb_EP0_SETUP
  <2>2. CASE r.bRequest \in {"SET_FEATURE", "SET_INTERFACE"}
    BY <1>3, <2>2, RefusedServes DEF tn_usb_EP0_SETUP, usb_SET_FEATURE, usb_SET_INTERFACE
  <2>3. CASE r.bRequest = "CLEAR_FEATURE"
    BY <1>3, <2>3, ClearFeatureServes DEF tn_usb_EP0_SETUP
  <2>4. CASE r.bRequest = "SET_CONFIGURATION"
    BY <1>3, <2>4, SetConfigurationServes DEF tn_usb_EP0_SETUP
  <2>5. CASE r.bRequest = "SET_DESCRIPTOR"
    BY <1>3, <2>5, StallOutServes DEF tn_usb_EP0_SETUP
  <2>6. CASE r.bRequest \notin {"SET_ADDRESS", "SET_FEATURE", "SET_INTERFACE", "CLEAR_FEATURE",
                                "SET_CONFIGURATION", "SET_DESCRIPTOR"}
    BY <1>3, <2>6, RefusedServes DEF tn_usb_EP0_SETUP
  <2>7. QED
    BY <2>1, <2>2, <2>3, <2>4, <2>5, <2>6
<1>4. CASE r.type = "in"
  <2>1. CASE r.bRequest = "GET_INTERFACE"
    BY <1>4, <2>1, RefusedServes DEF tn_usb_EP0_SETUP, usb_GET_INTERFACE
  <2>2. CASE r.bRequest = "GET_STATUS"
    BY <1>4, <2>2, GetStatusServes DEF tn_usb_EP0_SETUP
  <2>3. CASE r.bRequest = "GET_DESCRIPTOR"
    BY <1>4, <2>3, GetDescriptorServes DEF tn_usb_EP0_SETUP
  <2>4. CASE r.bRequest = "GET_CONFIGURATION"
    BY <1>4, <2>4, GetConfigurationServes DEF tn_usb_EP0_SETUP
  <2>5. CASE r.bRequest \notin {"GET_INTERFACE", "GET_STATUS", "GET_DESCRIPTOR",
                                "GET_CONFIGURATION"}
    BY <1>4, <2>5, RefusedServes DEF tn_usb_EP0_SETUP
  <2>6. QED
    BY <2>1, <2>2, <2>3, <2>4, <2>5
<1>5. CASE r.type = "other"
  BY <1>5, RefusedServes DEF tn_usb_EP0_SETUP
<1>6. QED
  BY <1>2, <1>3, <1>4, <1>5, RequestIs

-----------------------------------------------------------------------------
\* Packets for the host

Least(a, b) == IF a <= b THEN a ELSE b
\* What packets and interrupts do not change.
Settings(D) == <<D.udi.Configuration, D.hw.configured, D.hw.enabled, D.hw.addr>>
\* All of Line but the packet for the host.
Rest(h) == <<h.out, h.rx, h.tx, h.reset, h.waits>>

LEMMA SettingsKeep ==
  ASSUME NEW D, NEW E, Settings(E) = Settings(D), NEW r
  PROVE  /\ Together(D) => Together(E)
         /\ EffectOn(D, r) => EffectOn(E, r)
         /\ E.udi.Configuration = D.udi.Configuration
BY DEF Settings, Together, EffectOn

LEMMA InField ==
  ASSUME NEW h \in Hw, NEW p \in InPackets \cup {NULL}, NEW g, g = [h EXCEPT !.in = p]
  PROVE  /\ g \in Hw /\ Rest(g) = Rest(h) /\ g.in = p /\ g.stalled = h.stalled
         /\ g.configured = h.configured /\ g.enabled = h.enabled /\ g.addr = h.addr
<1>1. g \in Hw
  BY DEF Hw
<1>2. Rest(g) = Rest(h) /\ g.in = p /\ g.stalled = h.stalled
  BY DEF Hw, Rest
<1>3. g.configured = h.configured /\ g.enabled = h.enabled /\ g.addr = h.addr
  BY DEF Hw
<1>4. QED
  BY <1>1, <1>2, <1>3

\* pdata and nbytes after n bytes.
LEMMA AdvanceIs ==
  ASSUME NEW D \in Devices, NEW n \in Nat, n <= D.udi.nbytes, NEW E, E = Advance(D, n)
  PROVE  /\ E \in Devices /\ E.hw = D.hw /\ E.udi.nbytes = D.udi.nbytes - n
         /\ E.udi.Configuration = D.udi.Configuration /\ E.udi.usp = D.udi.usp
<1>1. PICK u : u = D.udi
  OBVIOUS
<1>2. PICK v : v = [u EXCEPT !.nbytes = u.nbytes - n]
  OBVIOUS
<1>3. PICK w : w = [v EXCEPT !.pdata.off = v.pdata.off + 4 * n]
  OBVIOUS
<1>4. u \in Udi /\ u.nbytes \in Nat /\ u.nbytes - n \in Nat
  <2>1. u \in Udi /\ u.nbytes \in Nat
    BY <1>1, DeviceFields
  <2>2. QED
    BY <1>1, <2>1
<1>5. v \in Udi
  BY <1>2, <1>4, UdiFields
<1>6. v.nbytes = u.nbytes - n /\ v.Configuration = u.Configuration /\ v.usp = u.usp
  BY <1>2, <1>4 DEF Udi
<1>7. [v.pdata EXCEPT !.off = v.pdata.off + 4 * n] \in Addresses
  <2>1. v.pdata \in Addresses
    BY <1>5 DEF Udi
  <2>2. v.pdata.off + 4 * n \in Int
    BY <2>1 DEF Addresses
  <2>3. QED
    BY <2>1, <2>2 DEF Addresses
<1>8. w = [v EXCEPT !.pdata = [v.pdata EXCEPT !.off = v.pdata.off + 4 * n]]
  BY <1>3
<1>9. w \in Udi
  BY <1>5, <1>7, <1>8, UdiFields
<1>10. w.nbytes = v.nbytes /\ w.Configuration = v.Configuration /\ w.usp = v.usp
  BY <1>5, <1>8 DEF Udi
<1>11. E = [udi |-> w, hw |-> D.hw]
  <2>1. PICK F : F = [D EXCEPT !.udi.nbytes = @ - n]
    OBVIOUS
  <2>2. F = [udi |-> v, hw |-> D.hw]
    BY <1>1, <1>2, <2>1, DeviceFields DEF Devices
  <2>3. E = [F EXCEPT !.udi.pdata.off = @ + 4 * n]
    BY <2>1 DEF Advance
  <2>4. QED
    BY <1>3, <2>2, <2>3
<1>12. QED
  BY <1>1, <1>6, <1>9, <1>10, <1>11, DeviceFields DEF Devices

LEMMA DataInIs ==
  ASSUME NEW D \in Devices, NEW E, E = tn_usb_st_DATAIN(D)
  PROVE  /\ E \in Devices /\ Settings(E) = Settings(D) /\ E.udi.usp = D.udi.usp
         /\ Rest(E.hw) = Rest(D.hw) /\ E.hw.stalled = D.hw.stalled
         /\ E.hw.in \in InPackets
         /\ E.hw.in.from = Source(D) /\ E.hw.in.off = D.udi.pdata.off
         /\ E.hw.in.len = Least(D.udi.nbytes, USB_MAX_PACKET0)
         /\ E.udi.nbytes = D.udi.nbytes - Least(D.udi.nbytes, USB_MAX_PACKET0)
<1>1. PICK n : n = Least(D.udi.nbytes, USB_MAX_PACKET0)
  OBVIOUS
<1>2. USB_MAX_PACKET0 \in Nat
  BY ControlAssumption
<1>3. D.udi.nbytes \in Nat /\ D.hw \in Hw /\ D.udi \in Udi
  BY DeviceFields
<1>4. n \in Nat /\ n <= D.udi.nbytes
  BY <1>1, <1>2, <1>3 DEF Least
<1>5. PICK p : p = [from |-> Source(D), off |-> D.udi.pdata.off, len |-> n]
  OBVIOUS
<1>6. p \in InPackets
  <2>1. D.udi.pdata \in Addresses /\ D.udi.buf \in Contents
    BY <1>3 DEF Udi
  <2>2. Source(D) \in Contents
    BY <2>1 DEF Source, FromDescriptors, Content, Contents
  <2>3. D.udi.pdata.off \in Int
    BY <2>1 DEF Addresses
  <2>4. QED
    BY <1>4, <1>5, <2>2, <2>3 DEF InPackets
<1>7. PICK F : F = tn_usb_ep0_write(D, n)
  OBVIOUS
<1>8. F = [udi |-> D.udi, hw |-> [D.hw EXCEPT !.in = p]]
  <2>1. F = [D EXCEPT !.hw.in = p]
    BY <1>5, <1>7 DEF tn_usb_ep0_write, Source
  <2>2. QED
    BY <2>1, DeviceFields DEF Devices
<1>9. /\ F.udi = D.udi /\ F.hw \in Hw /\ Rest(F.hw) = Rest(D.hw) /\ F.hw.in = p
      /\ F.hw.stalled = D.hw.stalled /\ F.hw.configured = D.hw.configured
      /\ F.hw.enabled = D.hw.enabled /\ F.hw.addr = D.hw.addr
  <2>1. D.hw \in Hw /\ p \in InPackets \cup {NULL} /\ F.hw = [D.hw EXCEPT !.in = p]
    BY <1>3, <1>6, <1>8
  <2>2. F.udi = D.udi
    BY <1>8
  <2>3. QED
    BY ONLY <2>1, <2>2, InField
<1>10. F \in Devices
  BY <1>3, <1>8, <1>9 DEF Devices
<1>11. E = Advance(F, n)
  <2>1. n = IF D.udi.nbytes > USB_MAX_PACKET0 THEN USB_MAX_PACKET0 ELSE D.udi.nbytes
    BY <1>1, <1>2, <1>3 DEF Least
  <2>2. QED
    BY <1>7, <2>1 DEF tn_usb_st_DATAIN
<1>12. /\ E \in Devices /\ E.hw = F.hw /\ E.udi.nbytes = D.udi.nbytes - n
       /\ E.udi.Configuration = D.udi.Configuration /\ E.udi.usp = D.udi.usp
  BY <1>4, <1>9, <1>10, <1>11, AdvanceIs
<1>13. Settings(E) = Settings(D)
  BY <1>9, <1>12 DEF Settings
<1>14. E.hw.in = p /\ Rest(E.hw) = Rest(D.hw) /\ E.hw.stalled = D.hw.stalled
  BY <1>9, <1>12
<1>15. QED
  BY <1>1, <1>5, <1>6, <1>12, <1>13, <1>14

\* A result that Answer turns into an answer to r, and what the device has then.
Ready(D, r, B) ==
  /\ B.D \in Devices /\ Kept(D, B.D) /\ Together(B.D)
  /\ \/ B.D.udi.Configuration = D.udi.Configuration
     \/ B.ok /\ SetsConfiguration(r) /\ B.D.udi.Configuration = Value(r)
  /\ B.ok => /\ B.D.hw.stalled = D.hw.stalled /\ EffectOn(B.D, r)
             /\ DirectionIn(r) =>
                  /\ Readable(r) /\ B.D.udi.nbytes = Least(Answers(r).len, r.wLength)
                  /\ B.D.udi.pdata.off = Answers(r).off /\ Source(B.D) \in Answers(r).from
             /\ ~DirectionIn(r) => B.D.udi.nbytes = 0
Outcome(D, r, N) ==
  /\ N \in Devices /\ Rest(N.hw) = Rest(D.hw) /\ N.udi.usp = D.udi.usp /\ Together(N)
  /\ \/ N.udi.Configuration = D.udi.Configuration
     \/ N.hw.in # NULL /\ SetsConfiguration(r) /\ N.udi.Configuration = Value(r)
  /\ \/ N.hw.stalled /\ N.hw.in = NULL
     \/ /\ N.hw.in # NULL /\ ~N.hw.stalled /\ EffectOn(N, r) /\ N.udi.nbytes = 0
        /\ DirectionIn(r) =>
             /\ Readable(r) /\ N.hw.in.len = Least(Answers(r).len, r.wLength)
             /\ N.hw.in.off = Answers(r).off /\ N.hw.in.from \in Answers(r).from
        /\ ~DirectionIn(r) => N.hw.in.len = 0

LEMMA CappedReady ==
  ASSUME NEW D \in Devices, NEW r \in Requests, NEW A, Serves(D, r, A), D.udi.usp = r,
         DirectionIn(r) \/ r.wLength = 0
  PROVE  Ready(D, r, Capped(A)) /\ (Capped(A).ok <=> A.ok)
<1>1. PICK E : E = A.D
  OBVIOUS
<1>2. E \in Devices /\ E.udi.usp = r /\ r.wLength \in Nat /\ E.udi.nbytes \in Nat
  BY <1>1, DeviceFields, RequestIs DEF Serves, Kept
<1>3. PICK F : F = Capped(A).D
  OBVIOUS
<1>4. /\ F \in Devices /\ F.hw = E.hw /\ F.udi.nbytes = Least(E.udi.nbytes, r.wLength)
      /\ F.udi.Configuration = E.udi.Configuration /\ F.udi.usp = E.udi.usp
      /\ F.udi.pdata = E.udi.pdata /\ F.udi.buf = E.udi.buf /\ (Capped(A).ok <=> A.ok)
  <2>1. r.wLength = E.udi.usp.wLength
    BY <1>2
  <2>2. CASE E.udi.nbytes > r.wLength
    <3>1. PICK u : u = [E.udi EXCEPT !.nbytes = r.wLength]
      OBVIOUS
    <3>2. PICK G : G = [E EXCEPT !.udi = u]
      OBVIOUS
    <3>3. u \in Udi
      BY <1>2, <3>1, DeviceFields, UdiFields
    <3>4. /\ u.nbytes = r.wLength /\ u.Configuration = E.udi.Configuration
          /\ u.usp = E.udi.usp /\ u.pdata = E.udi.pdata /\ u.buf = E.udi.buf
      BY <1>2, <3>1, DeviceFields DEF Udi
    <3>5. G = [udi |-> u, hw |-> E.hw]
      BY <1>2, <3>2, DeviceFields
    <3>6. Capped(A) = [A EXCEPT !.D = G]
      <4>1. Capped(A) = [A EXCEPT !.D.udi.nbytes = r.wLength]
        BY <1>1, <2>1, <2>2 DEF Capped
      <4>2. QED
        BY <1>1, <3>1, <3>2, <4>1
    <3>7. A = [ok |-> A.ok, D |-> A.D]
      BY DEF Serves
    <3>8. F = G /\ Capped(A).ok = A.ok
      BY <1>3, <3>6, <3>7
    <3>9. G \in Devices
      BY <1>2, <3>3, <3>5, DeviceFields DEF Devices
    <3>10. r.wLength = Least(E.udi.nbytes, r.wLength)
      BY <1>2, <2>2 DEF Least
    <3>11. QED
      BY <3>4, <3>5, <3>8, <3>9, <3>10
  <2>3. CASE E.udi.nbytes <= r.wLength
    <3>1. Capped(A) = A
      BY <1>1, <1>2, <2>1, <2>3 DEF Capped
    <3>2. QED
      BY <1>1, <1>2, <1>3, <2>3, <3>1 DEF Least
  <2>4. QED
    BY <1>2, <2>2, <2>3
<1>5. Settings(F) = Settings(E) /\ Source(F) = Source(E)
  BY <1>4 DEF Settings, Source
<1>6. Kept(D, F) /\ Together(F)
  BY <1>1, <1>4, <1>5, SettingsKeep DEF Serves, Kept
<1>7. A.ok => EffectOn(F, r)
  BY <1>1, <1>5, SettingsKeep DEF Serves
<1>8. A.ok /\ DirectionIn(r) =>
        /\ Readable(r) /\ F.udi.nbytes = Least(Answers(r).len, r.wLength)
        /\ F.udi.pdata.off = Answers(r).off /\ Source(F) \in Answers(r).from
  BY <1>1, <1>4, <1>5 DEF Serves, Gives
<1>9. A.ok /\ ~DirectionIn(r) => F.udi.nbytes = 0
  BY <1>2, <1>4 DEF Least
<1>10. QED
  BY <1>1, <1>3, <1>4, <1>6, <1>7, <1>8, <1>9 DEF Ready, Serves

LEMMA AnswerOutcome ==
  ASSUME NEW D \in Devices, NEW r \in Requests, NEW B, Ready(D, r, B),
         D.hw.in = NULL, ~D.hw.stalled
  PROVE  Outcome(D, r, Answer(B))
<1>1. PICK E : E = B.D
  OBVIOUS
<1>2. PICK N : N = Answer(B)
  OBVIOUS
<1>3. E \in Devices /\ Kept(D, E) /\ Together(E) /\ Rest(E.hw) = Rest(D.hw)
      /\ E.hw.in = NULL /\ E.udi.usp = D.udi.usp
  BY <1>1 DEF Ready, Kept, Line, Rest
<1>4. CASE B.ok
  <2>1. N = tn_usb_st_DATAIN(E)
    BY <1>1, <1>2, <1>4 DEF Answer
  <2>2. /\ N \in Devices /\ Settings(N) = Settings(E) /\ N.udi.usp = E.udi.usp
        /\ Rest(N.hw) = Rest(E.hw) /\ N.hw.stalled = E.hw.stalled
        /\ N.hw.in \in InPackets
        /\ N.hw.in.from = Source(E) /\ N.hw.in.off = E.udi.pdata.off
        /\ N.hw.in.len = Least(E.udi.nbytes, USB_MAX_PACKET0)
        /\ N.udi.nbytes = E.udi.nbytes - Least(E.udi.nbytes, USB_MAX_PACKET0)
    BY <1>3, <2>1, DataInIs
  <2>3. /\ Together(N) /\ EffectOn(N, r) /\ N.udi.Configuration = E.udi.Configuration
    BY <1>1, <1>3, <1>4, <2>2, SettingsKeep DEF Ready
  <2>4. N.hw.in # NULL
    BY <2>2, ControlAssumption
  \* All that is left fits into one packet.
  <2>5. E.udi.nbytes \in Nat /\ E.udi.nbytes <= USB_MAX_PACKET0
    <3>1. USB_MAX_PACKET0 \in Nat /\ r.wLength \in Nat
      BY ControlAssumption, RequestIs
    <3>2. CASE DirectionIn(r)
      <4>1. Readable(r) /\ E.udi.nbytes = Least(Answers(r).len, r.wLength)
        BY <1>1, <1>4, <3>2 DEF Ready
      <4>2. Answers(r).len \in 0 .. USB_MAX_PACKET0
        BY <4>1, AnswersFit
      <4>3. QED
        BY <3>1, <4>1, <4>2 DEF Least
    <3>3. CASE ~DirectionIn(r)
      BY <1>1, <1>4, <3>1, <3>3 DEF Ready
    <3>4. QED
      BY <3>2, <3>3
  <2>6. N.hw.in.len = E.udi.nbytes /\ N.udi.nbytes = 0
    BY <2>2, <2>5 DEF Least
  <2>7. /\ DirectionIn(r) =>
             /\ Readable(r) /\ N.hw.in.len = Least(Answers(r).len, r.wLength)
             /\ N.hw.in.off = Answers(r).off /\ N.hw.in.from \in Answers(r).from
        /\ ~DirectionIn(r) => N.hw.in.len = 0
    BY <1>1, <1>4, <2>2, <2>6 DEF Ready
  <2>8. \/ N.udi.Configuration = D.udi.Configuration
        \/ N.hw.in # NULL /\ SetsConfiguration(r) /\ N.udi.Configuration = Value(r)
    BY <1>1, <2>3, <2>4 DEF Ready
  <2>9. ~N.hw.stalled
    BY <1>1, <1>4, <2>2 DEF Ready
  <2>10. QED
    BY <1>2, <1>3, <2>2, <2>3, <2>4, <2>6, <2>7, <2>8, <2>9 DEF Outcome
<1>5. CASE ~B.ok
  <2>1. N = tn_usb_stall_ep(E)
    BY <1>1, <1>2, <1>5 DEF Answer
  <2>2. N = [udi |-> E.udi, hw |-> [E.hw EXCEPT !.stalled = TRUE]]
    BY <1>3, <2>1, DeviceFields DEF tn_usb_stall_ep, Devices
  <2>3. E.hw \in Hw /\ E.udi \in Udi /\ TRUE \in BOOLEAN
    BY <1>3, DeviceFields
  <2>4. /\ N.hw \in Hw /\ Line(N.hw) = Line(E.hw) /\ N.hw.stalled = TRUE
        /\ N.hw.configured = E.hw.configured /\ N.hw.enabled = E.hw.enabled
    <3>1. N.hw = [E.hw EXCEPT !.stalled = TRUE]
      BY <2>2
    <3>2. QED
      BY ONLY <2>3, <3>1, StallField
  <2>5. N \in Devices /\ N.udi = E.udi
    BY <2>2, <2>3, <2>4 DEF Devices
  <2>6. Together(N)
    BY <1>3, <2>4, <2>5 DEF Together
  <2>7. Rest(N.hw) = Rest(D.hw) /\ N.hw.in = NULL
    BY <1>3, <2>4 DEF Line, Rest
  <2>8. N.udi.Configuration = D.udi.Configuration
    BY <1>1, <1>5, <2>5 DEF Ready
  <2>9. QED
    BY <1>2, <1>3, <2>4, <2>5, <2>6, <2>7, <2>8 DEF Outcome
<1>6. QED
  BY <1>4, <1>5

-----------------------------------------------------------------------------
\* The handler of what the host wrote

\* A device as it is before the interrupt is cleared.
Ahead(N) == /\ N \in Devices /\ Together(N)
            /\ N.hw.tx = hw.tx /\ N.hw.reset = hw.reset
\* It has answered the request r, or refused it.
Answered(r, N) == \E F : F.udi.Configuration = udi.Configuration /\ Outcome(F, r, N)
\* It waits for n bytes of the request r.
Awaits(r, N, n) == /\ N.udi.nbytes = n /\ N.hw.in = NULL /\ ~N.hw.stalled
                   /\ N.udi.usp = r /\ N.udi.Configuration = udi.Configuration

LEMMA DeviceIs ==
  ASSUME ControlType
  PROVE  /\ Device \in Devices /\ Device.udi = udi /\ Device.hw = hw
         /\ hw.out \in OutPackets \cup {NULL} /\ hw.in \in InPackets \cup {NULL}
         /\ udi.nbytes \in Nat /\ udi.Configuration \in 0 .. 255
BY DEF ControlType, Device, Devices, Udi, Hw

\* The packet is read.
LEMMA ReadIs ==
  ASSUME NEW D \in Devices, NEW E, E = tn_usb_ep_read(D)
  PROVE  /\ E \in Devices /\ E.udi = D.udi /\ E = [udi |-> E.udi, hw |-> E.hw]
         /\ Settings(E) = Settings(D) /\ E.hw.out = NULL /\ E.hw.in = D.hw.in
         /\ E.hw.tx = D.hw.tx /\ E.hw.reset = D.hw.reset /\ E.hw.stalled = D.hw.stalled
         /\ E.hw.waits = D.hw.waits
<1>1. D.hw \in Hw /\ D.udi \in Udi
  BY DeviceFields
<1>2. E = [udi |-> D.udi, hw |-> [D.hw EXCEPT !.out = NULL]]
  BY DeviceFields DEF tn_usb_ep_read
<1>3. E.hw \in Hw
  <2>1. E.hw = [D.hw EXCEPT !.out = NULL] /\ NULL \in OutPackets \cup {NULL}
    BY <1>2
  <2>2. QED
    BY ONLY <1>1, <2>1 DEF Hw
<1>4. /\ E.hw.out = NULL /\ E.hw.in = D.hw.in
      /\ E.hw.tx = D.hw.tx /\ E.hw.reset = D.hw.reset /\ E.hw.stalled = D.hw.stalled
      /\ E.hw.waits = D.hw.waits
  BY <1>1, <1>2 DEF Hw
<1>5. /\ E.hw.configured = D.hw.configured /\ E.hw.enabled = D.hw.enabled
      /\ E.hw.addr = D.hw.addr
  BY <1>1, <1>2 DEF Hw
<1>6. E.udi = D.udi /\ E \in Devices
  BY <1>1, <1>2, <1>3 DEF Devices
<1>7. QED
  BY <1>2, <1>4, <1>5, <1>6 DEF Settings

LEMMA SetupArrivedIs ==
  ASSUME ControlType, hw.out # NULL, NEW r \in Requests, hw.out.req = r,
         hw.in = NULL, ~hw.stalled, Together(Device), udi.Configuration \in host.confs,
         NEW N, N = SetupArrived(Device)
  PROVE  /\ Ahead(N) /\ N.hw.out = NULL /\ N.hw.waits = hw.waits
         /\ r.wLength = 0 \/ DirectionIn(r) => Answered(r, N)
         /\ ~(r.wLength = 0 \/ DirectionIn(r)) => Awaits(r, N, r.wLength)
<1>1. PICK E : E = tn_usb_ep_read(Device)
  OBVIOUS
<1>2. /\ E \in Devices /\ E.udi = udi /\ E = [udi |-> E.udi, hw |-> E.hw]
      /\ Settings(E) = Settings(Device) /\ E.hw.out = NULL /\ E.hw.in = NULL
      /\ E.hw.tx = hw.tx /\ E.hw.reset = hw.reset /\ ~E.hw.stalled
      /\ E.hw.waits = hw.waits
  <2>1. Device \in Devices /\ Device.udi = udi /\ Device.hw = hw
    BY DeviceIs
  <2>2. /\ E \in Devices /\ E.udi = udi /\ E = [udi |-> E.udi, hw |-> E.hw]
        /\ Settings(E) = Settings(Device) /\ E.hw.out = NULL /\ E.hw.in = hw.in
        /\ E.hw.tx = hw.tx /\ E.hw.reset = hw.reset /\ E.hw.stalled = hw.stalled
        /\ E.hw.waits = hw.waits
    BY <1>1, <2>1, ReadIs
  <2>3. QED
    BY <2>2
<1>3. PICK u : u = [[[udi EXCEPT !.usp = r] EXCEPT !.pdata = InBuffer] EXCEPT !.nbytes = r.wLength]
  OBVIOUS
<1>4. r.wLength \in Nat /\ InBuffer \in Addresses
  BY RequestIs DEF InBuffer, Addresses
<1>5. /\ u \in Udi /\ u.usp = r /\ u.pdata = InBuffer /\ u.nbytes = r.wLength
      /\ u.Configuration = udi.Configuration
  <2>1. PICK v : v = [udi EXCEPT !.usp = r]
    OBVIOUS
  <2>2. v \in Udi /\ v.usp = r /\ v.Configuration = udi.Configuration
    BY <2>1 DEF ControlType, Udi
  <2>3. PICK w : w = [v EXCEPT !.pdata = InBuffer]
    OBVIOUS
  <2>4. w \in Udi
    BY <1>4, <2>2, <2>3, UdiFields
  <2>5. w.usp = r /\ w.pdata = InBuffer /\ w.Configuration = udi.Configuration
    BY <2>2, <2>3 DEF Udi
  <2>6. u = [w EXCEPT !.nbytes = r.wLength]
    BY <1>3, <2>1, <2>3
  <2>7. u \in Udi
    BY <1>4, <2>4, <2>6, UdiFields
  <2>8. QED
    BY <2>4, <2>5, <2>6, <2>7 DEF Udi
<1>6. PICK F : F = [E EXCEPT !.udi.usp = r, !.udi.pdata = InBuffer, !.udi.nbytes = r.wLength]
  OBVIOUS
<1>7. F = [udi |-> u, hw |-> E.hw]
  <2>1. PICK X : X = [E EXCEPT !.udi.usp = r]
    OBVIOUS
  <2>2. X = [udi |-> [udi EXCEPT !.usp = r], hw |-> E.hw]
    BY <1>2, <2>1
  <2>3. PICK Y : Y = [X EXCEPT !.udi.pdata = InBuffer]
    OBVIOUS
  <2>4. Y = [udi |-> [[udi EXCEPT !.usp = r] EXCEPT !.pdata = InBuffer], hw |-> E.hw]
    BY <2>2, <2>3
  <2>5. F = [Y EXCEPT !.udi.nbytes = r.wLength]
    BY <1>6, <2>1, <2>3
  <2>6. QED
    BY <1>3, <2>4, <2>5
<1>8. F \in Devices /\ Settings(F) = Settings(E) /\ F.udi = u /\ F.hw = E.hw
  BY <1>2, <1>5, <1>7, DeviceFields DEF Devices, Settings
<1>9. Together(F)
  <2>1. Together(E)
    BY <1>2, SettingsKeep
  <2>2. QED
    BY <1>8, <2>1, SettingsKeep
<1>10. CASE r.wLength = 0 \/ DirectionIn(r)
  <2>1. PICK A : A = tn_usb_EP0_SETUP(F)
    OBVIOUS
  <2>2. Serves(F, r, A)
    BY <1>5, <1>8, <1>9, <2>1, SetupServes
  <2>3. Ready(F, r, Capped(A))
    BY <1>5, <1>8, <1>10, <2>2, CappedReady
  <2>4. Outcome(F, r, Answer(Capped(A)))
    BY <1>2, <1>8, <2>3, AnswerOutcome
  <2>5. N = Answer(Capped(A))
    BY <1>1, <1>6, <1>10, <2>1, DeviceIs DEF SetupArrived
  <2>6. Outcome(F, r, N) /\ F.udi.Configuration = udi.Configuration
    BY <1>5, <1>8, <2>4, <2>5
  <2>7. Ahead(N) /\ N.hw.out = NULL /\ N.hw.waits = hw.waits
    BY <1>2, <1>8, <2>6 DEF Outcome, Rest, Ahead
  <2>8. Answered(r, N)
    BY <2>6 DEF Answered
  <2>9. QED
    BY <1>10, <2>7, <2>8
<1>11. CASE ~(r.wLength = 0 \/ DirectionIn(r))
  <2>1. N = F
    BY <1>1, <1>6, <1>11, DeviceIs DEF SetupArrived
  <2>2. Ahead(N) /\ N.hw.out = NULL /\ N.hw.waits = hw.waits
    BY <1>2, <1>8, <1>9, <2>1 DEF Ahead
  <2>3. Awaits(r, N, r.wLength)
    BY <1>2, <1>5, <1>8, <2>1 DEF Awaits
  <2>4. QED
    BY <1>11, <2>2, <2>3
<1>12. QED
  BY <1>10, <1>11

LEMMA DataArrivedIs ==
  ASSUME ControlType, hw.out # NULL, NEW r \in Requests, udi.usp = r, ~DirectionIn(r),
         hw.in = NULL, ~hw.stalled, Together(Device), udi.Configuration \in host.confs,
         hw.out.len <= udi.nbytes, udi.nbytes # 0,
         NEW N, N = DataArrived(Device)
  PROVE  /\ Ahead(N) /\ N.hw.out = NULL
         /\ udi.nbytes = hw.out.len => Answered(r, N)
         /\ udi.nbytes # hw.out.len => Awaits(r, N, udi.nbytes - hw.out.len)
<1>1. PICK E : E = tn_usb_ep_read(Device)
  OBVIOUS
<1>2. /\ E \in Devices /\ E.udi = udi /\ E = [udi |-> E.udi, hw |-> E.hw]
      /\ Settings(E) = Settings(Device) /\ E.hw.out = NULL /\ E.hw.in = NULL
      /\ E.hw.tx = hw.tx /\ E.hw.reset = hw.reset /\ ~E.hw.stalled
  <2>1. Device \in Devices /\ Device.udi = udi /\ Device.hw = hw
    BY DeviceIs
  <2>2. /\ E \in Devices /\ E.udi = udi /\ E = [udi |-> E.udi, hw |-> E.hw]
        /\ Settings(E) = Settings(Device) /\ E.hw.out = NULL /\ E.hw.in = hw.in
        /\ E.hw.tx = hw.tx /\ E.hw.reset = hw.reset /\ E.hw.stalled = hw.stalled
    BY <1>1, <2>1, ReadIs
  <2>3. QED
    BY <2>2
<1>3. PICK n : n = hw.out.len
  OBVIOUS
<1>4. n \in Nat /\ udi.nbytes \in Nat /\ n <= udi.nbytes
  <2>1. hw.out \in OutPackets
    BY DeviceIs
  <2>2. QED
    BY <1>3, <2>1, DeviceIs DEF OutPackets
<1>5. PICK G : G = [E EXCEPT !.udi.buf = FromHost]
  OBVIOUS
<1>6. /\ G \in Devices /\ G.hw = E.hw /\ G.udi.nbytes = udi.nbytes
      /\ G.udi.usp = r /\ G.udi.Configuration = udi.Configuration
  <2>1. FromHost \in Contents
    BY DEF FromHost, Content, Contents
  <2>2. PICK v : v = [udi EXCEPT !.buf = FromHost]
    OBVIOUS
  <2>3. v \in Udi
    BY <2>1, <2>2, UdiFields DEF ControlType
  <2>4. v.nbytes = udi.nbytes /\ v.usp = udi.usp /\ v.Configuration = udi.Configuration
    BY <2>2 DEF ControlType, Udi
  <2>5. G = [udi |-> v, hw |-> E.hw]
    BY <1>2, <1>5, <2>2
  <2>6. QED
    BY <1>2, <2>3, <2>4, <2>5, DeviceFields DEF Devices
<1>7. PICK H : H = Advance(G, n)
  OBVIOUS
<1>8. /\ H \in Devices /\ H.hw = E.hw /\ H.udi.nbytes = udi.nbytes - n
      /\ H.udi.Configuration = udi.Configuration /\ H.udi.usp = r
  BY <1>4, <1>6, <1>7, AdvanceIs
<1>9. Together(H)
  <2>1. Settings(H) = Settings(E)
    BY <1>2, <1>8 DEF Settings
  <2>2. Together(E)
    BY <1>2, SettingsKeep
  <2>3. QED
    BY <2>1, <2>2, SettingsKeep
<1>10. N = IF H.udi.nbytes = 0
           THEN Answer(tn_usb_EP0_SETUP([H EXCEPT !.udi.pdata = InBuffer]))
           ELSE [H EXCEPT !.hw.waits = TRUE]
  BY <1>1, <1>3, <1>5, <1>7, DeviceIs DEF DataArrived
<1>11. CASE udi.nbytes = n
  <2>1. PICK F : F = [H EXCEPT !.udi.pdata = InBuffer]
    OBVIOUS
  <2>2. PICK v : v = [H.udi EXCEPT !.pdata = InBuffer]
    OBVIOUS
  <2>3. v \in Udi
    <3>1. InBuffer \in Addresses
      BY DEF InBuffer, Addresses
    <3>2. QED
      BY <1>8, <2>2, <3>1, UdiFields, DeviceFields
  <2>4. /\ v.nbytes = H.udi.nbytes /\ v.usp = r /\ v.Configuration = udi.Configuration
        /\ v.pdata = InBuffer
    BY <1>8, <2>2, DeviceFields DEF Udi
  <2>5. F = [udi |-> v, hw |-> H.hw]
    BY <1>8, <2>1, <2>2, DeviceFields
  <2>6. /\ F \in Devices /\ F.hw = E.hw /\ F.udi.nbytes = 0 /\ F.udi.usp = r
        /\ F.udi.Configuration = udi.Configuration /\ F.udi.pdata = InBuffer
    BY <1>4, <1>8, <1>11, <2>3, <2>4, <2>5, DeviceFields DEF Devices
  <2>7. Together(F)
    BY <1>8, <1>9, <2>6, SettingsKeep DEF Settings
  <2>8. PICK A : A = tn_usb_EP0_SETUP(F)
    OBVIOUS
  <2>9. Serves(F, r, A)
    BY <2>6, <2>7, <2>8, SetupServes
  <2>10. Ready(F, r, A)
    BY <2>6, <2>9 DEF Ready, Serves
  <2>11. Outcome(F, r, Answer(A))
    BY <1>2, <2>6, <2>10, AnswerOutcome
  <2>12. N = Answer(A)
    <3>1. H.udi.nbytes = 0
      BY <1>4, <1>8, <1>11
    <3>2. QED
      BY <1>10, <2>1, <2>8, <3>1
  <2>13. Ahead(N) /\ N.hw.out = NULL
    BY <1>2, <2>6, <2>11, <2>12 DEF Outcome, Rest, Ahead
  <2>14. Answered(r, N)
    BY <2>6, <2>11, <2>12 DEF Answered
  <2>15. QED
    BY <1>3, <1>11, <2>13, <2>14
<1>12. CASE udi.nbytes # n
  <2>1. N = [H EXCEPT !.hw.waits = TRUE]
    <3>1. H.udi.nbytes # 0
      BY <1>4, <1>8, <1>12
    <3>2. QED
      BY <1>10, <3>1
  <2>2. PICK g : g = [H.hw EXCEPT !.waits = TRUE]
    OBVIOUS
  <2>3. g \in Hw
    BY <1>8, <2>2, DeviceFields, HwFields
  <2>4. /\ g.out = NULL /\ g.in = NULL /\ ~g.stalled /\ g.tx = hw.tx /\ g.reset = hw.reset
    BY <1>2, <1>8, <2>2, DeviceFields DEF Hw
  <2>5. g.configured = H.hw.configured /\ g.enabled = H.hw.enabled /\ g.addr = H.hw.addr
    BY <1>8, <2>2, DeviceFields DEF Hw
  <2>6. N = [udi |-> H.udi, hw |-> g]
    <3>1. H = [udi |-> H.udi, hw |-> H.hw]
      BY <1>8, DeviceFields
    <3>2. QED
      BY ONLY <2>1, <2>2, <3>1
  <2>7. N \in Devices /\ N.udi = H.udi /\ N.hw = g /\ Settings(N) = Settings(H)
    BY <1>8, <2>3, <2>5, <2>6, DeviceFields DEF Devices, Settings
  <2>8. Together(N)
    BY <1>9, <2>7, SettingsKeep
  <2>9. Ahead(N) /\ N.hw.out = NULL
    BY <2>4, <2>7, <2>8 DEF Ahead
  <2>10. Awaits(r, N, udi.nbytes - hw.out.len)
    BY <1>3, <1>8, <2>4, <2>7 DEF Awaits
  <2>11. QED
    BY <1>3, <1>12, <2>9, <2>10
<1>13. QED
  BY <1>11, <1>12

-----------------------------------------------------------------------------
\* The invariant, of a device and a host

\* Answers, for a host that takes confs for possible.
AnswerTo(confs, r) ==
  CASE r.bRequest = "GET_DESCRIPTOR" ->
         LET d == CHOOSE d \in Asked(r) : TRUE
         IN [from |-> {FromDescriptors}, off |-> Offset[d], len |-> Whole(Descriptors[d])]
    [] r.bRequest = "GET_CONFIGURATION" ->
         [from |-> {Content("configuration", c) : c \in confs}, off |-> 0, len |-> 1]
    [] r.bRequest = "GET_STATUS" -> [from |-> {Content("status", 0)}, off |-> 0, len |-> 2]
    [] r.bRequest = "0xFE" -> [from |-> {Content("LUN", 0)}, off |-> 0, len |-> 1]

\* What is on in a transfer, until the device has refused the request: the SETUP
\* packet is there to be read; data is on its way to the host; data is on its
\* way to the device; the request has been carried out.
Pending(D, s) ==
  /\ D.hw.out # NULL /\ D.hw.out.setup /\ D.hw.out.req = s.req /\ D.hw.rx /\ D.hw.in = NULL
  /\ ~D.hw.tx /\ ~D.hw.stalled /\ ~D.hw.waits /\ s.got = 0
  /\ s.phase = IF s.req.wLength = 0 THEN "status in"
               ELSE IF DirectionIn(s.req) THEN "data in" ELSE "data out"
Sending(D, s) ==
  /\ s.phase = "data in" /\ Readable(s.req) /\ D.hw.out = NULL /\ D.udi.nbytes = 0
  /\ LET a == AnswerTo(s.confs, s.req)
         all == Least(a.len, s.req.wLength)
     IN /\ D.hw.in = NULL => s.got = all
        /\ D.hw.in # NULL => /\ ~D.hw.tx /\ s.got + D.hw.in.len = all
                             /\ \/ D.hw.in.len = 0
                                \/ D.hw.in.from \in a.from /\ D.hw.in.off = a.off + s.got
Unread(h) == IF h.out = NULL THEN 0 ELSE h.out.len
Receiving(D, s) ==
  /\ ~DirectionIn(s.req) /\ s.req.wLength > 0
  /\ D.udi.usp = s.req /\ D.hw.in = NULL /\ ~D.hw.tx /\ ~D.hw.stalled
  /\ D.hw.out # NULL => ~D.hw.out.setup
  /\ s.got <= s.req.wLength /\ D.udi.nbytes >= (s.req.wLength - s.got) + Unread(D.hw)
  /\ s.phase = IF s.got < s.req.wLength THEN "data out" ELSE "status in"
Carried(D, s) ==
  /\ s.phase = "status in" /\ D.hw.out = NULL /\ ~D.hw.tx /\ ~D.hw.stalled
  /\ D.hw.in # NULL /\ D.hw.in.len = 0 /\ EffectOn(D, s.req)
Declined(D) == D.hw.stalled /\ D.hw.out = NULL /\ D.hw.in = NULL /\ ~D.hw.tx

Underway(s) == s.phase \in {"data in", "data out", "status in"}
Stage(D, s) == Pending(D, s) \/ Sending(D, s) \/ Receiving(D, s) \/ Carried(D, s) \/ Declined(D)
TransferInv(D, s) ==
  /\ Underway(s) => s.req \in Requests /\ Stage(D, s)
  /\ ~Underway(s) /\ D.hw.out # NULL => ~D.hw.out.setup /\ D.udi.nbytes = 0
  /\ s.phase = "status out" => D.udi.nbytes = 0

\* After a reset the host starts anew.
ResetInv(D, s) ==
  D.hw.reset => s.phase = "idle" /\ D.hw.out = NULL /\ ~D.hw.configured /\ 0 \in s.confs
\* The host knows the configuration, but for what it does not know yet to be done.
ConfsInv(D, s) ==
  \/ D.hw.reset \/ D.udi.Configuration \in s.confs
  \/ /\ s.phase = "status in" /\ D.hw.in # NULL /\ SetsConfiguration(s.req)
     /\ D.udi.Configuration = Value(s.req)

Holds(D, s) == /\ D \in Devices /\ s \in Host /\ s.exact /\ s.done
               /\ ~D.hw.reset => Together(D)
               /\ TransferInv(D, s) /\ ResetInv(D, s) /\ ConfsInv(D, s)
ControlInv == Holds(Device, host)

LEMMA AnswersAre == ASSUME NEW r PROVE Answers(r) = AnswerTo(host.confs, r)
BY DEF Answers, AnswerTo

LEMMA DevicePrime == Device' = [udi |-> udi', hw |-> hw']
BY DEF Device

LEMMA ControlIs == ASSUME ControlInv PROVE ControlType /\ Device = [udi |-> udi, hw |-> hw]
<1>1. Device = [udi |-> udi, hw |-> hw] /\ Device \in Devices /\ host \in Host
  BY DEF ControlInv, Holds, Device
<1>2. udi \in Udi /\ hw \in Hw
  BY <1>1, DeviceFields
<1>3. QED
  BY <1>1, <1>2 DEF ControlType

LEMMA HostIs ==
  ASSUME NEW s \in Host
  PROVE  /\ s.phase \in {"idle", "data in", "data out", "status in", "status out"}
         /\ s.req \in Requests \cup {NULL} /\ s.got \in Nat /\ s.confs \in SUBSET (0 .. 255)
BY DEF Host, Phases, ConfSets

\* What the host waits for when something lies in a buffer.
LEMMA StageByPackets ==
  ASSUME NEW D, NEW s, Stage(D, s)
  PROVE  /\ D.hw.out # NULL => Pending(D, s) \/ Receiving(D, s)
         /\ D.hw.in # NULL => Sending(D, s) \/ Carried(D, s)
         /\ D.hw.tx => Sending(D, s) /\ D.hw.in = NULL
         /\ s.phase = "data out" => Pending(D, s) \/ Receiving(D, s) \/ Declined(D)
<1>1. CASE Pending(D, s)
  BY <1>1 DEF Pending
<1>2. CASE Sending(D, s)
  BY <1>2 DEF Sending
<1>3. CASE Receiving(D, s)
  BY <1>3 DEF Receiving
<1>4. CASE Carried(D, s)
  BY <1>4 DEF Carried
<1>5. CASE Declined(D)
  BY <1>5 DEF Declined
<1>6. QED
  BY <1>1, <1>2, <1>3, <1>4, <1>5 DEF Stage

\* The host does not know the configuration only before it gets the acknowledgement.
LEMMA ConfsKnown ==
  ASSUME NEW D, NEW s, Holds(D, s), ~D.hw.reset,
         D.hw.in = NULL \/ D.hw.stalled \/ s.phase # "status in"
  PROVE  D.udi.Configuration \in s.confs
<1> SUFFICES ASSUME s.phase = "status in", D.hw.in # NULL, D.hw.stalled
             PROVE  FALSE
  BY DEF Holds, ConfsInv
<1>1. Stage(D, s)
  BY DEF Holds, TransferInv, Underway
<1>2. Sending(D, s) \/ Carried(D, s)
  BY <1>1, StageByPackets
<1>3. QED
  BY <1>2 DEF Sending, Carried

-----------------------------------------------------------------------------
\* The interrupt handler

LEMMA RxField ==
  ASSUME NEW h \in Hw, NEW b \in BOOLEAN, NEW g, g = [h EXCEPT !.rx = b]
  PROVE  /\ g \in Hw /\ g.out = h.out /\ g.in = h.in /\ g.tx = h.tx /\ g.reset = h.reset
         /\ g.stalled = h.stalled
         /\ g.configured = h.configured /\ g.enabled = h.enabled /\ g.addr = h.addr
<1>1. g \in Hw
  BY DEF Hw
<1>2. g.out = h.out /\ g.in = h.in /\ g.tx = h.tx /\ g.reset = h.reset /\ g.stalled = h.stalled
  BY DEF Hw
<1>3. g.configured = h.configured /\ g.enabled = h.enabled /\ g.addr = h.addr
  BY DEF Hw
<1>4. QED
  BY <1>1, <1>2, <1>3

\* The interrupt is cleared.
LEMMA ClearedIs ==
  ASSUME NEW N \in Devices, NEW E, E = [N EXCEPT !.hw.rx = FALSE]
  PROVE  /\ E \in Devices /\ E.udi = N.udi /\ Settings(E) = Settings(N)
         /\ E.hw.out = N.hw.out /\ E.hw.in = N.hw.in /\ E.hw.tx = N.hw.tx
         /\ E.hw.reset = N.hw.reset /\ E.hw.stalled = N.hw.stalled
         /\ E = [udi |-> E.udi, hw |-> E.hw]
<1>1. PICK h : h = N.hw
  OBVIOUS
<1>2. PICK g : g = [h EXCEPT !.rx = FALSE]
  OBVIOUS
<1>3. h \in Hw /\ N.udi \in Udi /\ N = [udi |-> N.udi, hw |-> h]
  BY <1>1, DeviceFields
<1>4. /\ g \in Hw /\ g.out = h.out /\ g.in = h.in /\ g.tx = h.tx /\ g.reset = h.reset
      /\ g.stalled = h.stalled
      /\ g.configured = h.configured /\ g.enabled = h.enabled /\ g.addr = h.addr
  BY ONLY <1>2, <1>3, RxField
<1>5. E = [udi |-> N.udi, hw |-> g]
  BY <1>1, <1>2, <1>3
<1>6. E.udi = N.udi /\ E.hw = g
  BY <1>5
<1>7. E \in Devices
  <2>1. N.udi \in Udi /\ g \in Hw
    BY <1>3, <1>4
  <2>2. QED
    BY ONLY <1>5, <2>1 DEF Devices
<1>8. QED
  BY <1>1, <1>4, <1>5, <1>6, <1>7 DEF Settings

\* A receive interrupt that finds nothing it has to read.
LEMMA NothingArrived ==
  ASSUME NEW D, NEW s, Holds(D, s), ~Pending(D, s), NEW E, E = [D EXCEPT !.hw.rx = FALSE]
  PROVE  Holds(E, s)
<1>1. /\ E \in Devices /\ E.udi = D.udi /\ Settings(E) = Settings(D)
      /\ E.hw.out = D.hw.out /\ E.hw.in = D.hw.in /\ E.hw.tx = D.hw.tx
      /\ E.hw.reset = D.hw.reset /\ E.hw.stalled = D.hw.stalled
  BY ClearedIs DEF Holds
<1>2. Together(D) => Together(E)
  BY <1>1, SettingsKeep
<1>3. E.hw.configured = D.hw.configured
  BY <1>1 DEF Settings
<1>4. Stage(D, s) => Stage(E, s)
  <2>1. Sending(D, s) => Sending(E, s)
    BY <1>1 DEF Sending
  <2>2. Receiving(D, s) => Receiving(E, s)
    BY <1>1 DEF Receiving, Unread
  <2>3. Carried(D, s) => Carried(E, s)
    BY <1>1, SettingsKeep DEF Carried
  <2>4. Declined(D) => Declined(E)
    BY <1>1 DEF Declined
  <2>5. QED
    BY <2>1, <2>2, <2>3, <2>4 DEF Stage
<1>5. TransferInv(E, s)
  BY <1>1, <1>4 DEF Holds, TransferInv
<1>6. ResetInv(E, s) /\ ConfsInv(E, s)
  BY <1>1, <1>3 DEF Holds, ResetInv, ConfsInv
<1>7. QED
  BY <1>1, <1>2, <1>5, <1>6 DEF Holds

\* The answer to a request, and the refusal of one.
LEMMA AnsweredHolds ==
  ASSUME ControlInv, ~hw.reset, ~hw.tx, NEW r \in Requests, host.req = r, NEW N,
         udi.Configuration \in host.confs,
         Ahead(N), N.hw.out = NULL, Answered(r, N),
         \/ DirectionIn(r) /\ r.wLength # 0 /\ host.phase = "data in" /\ host.got = 0
         \/ ~DirectionIn(r) /\ host.phase = "status in"
         \/ r.wLength = 0 /\ host.phase = "status in",
         NEW E, E = [N EXCEPT !.hw.rx = FALSE]
  PROVE  Holds(E, host)
<1>1. /\ E \in Devices /\ E.udi = N.udi /\ Settings(E) = Settings(N)
      /\ E.hw.out = NULL /\ E.hw.in = N.hw.in /\ ~E.hw.tx
      /\ ~E.hw.reset /\ E.hw.stalled = N.hw.stalled
  BY ClearedIs DEF Ahead
<1>2. Together(E)
  BY <1>1, SettingsKeep DEF Ahead
<1>3. PICK a : a = AnswerTo(host.confs, r)
  OBVIOUS
<1>4. a = Answers(r)
  BY <1>3, AnswersAre
<1>5. PICK F : F.udi.Configuration = udi.Configuration /\ Outcome(F, r, N)
  BY DEF Answered
<1>6. Stage(E, host)
  <2>1. CASE N.hw.stalled /\ N.hw.in = NULL
    BY <1>1, <2>1 DEF Stage, Declined
  <2>2. CASE ~(N.hw.stalled /\ N.hw.in = NULL)
    <3>1. /\ N.hw.in # NULL /\ ~N.hw.stalled /\ EffectOn(N, r) /\ N.udi.nbytes = 0
          /\ DirectionIn(r) =>
               /\ Readable(r) /\ N.hw.in.len = Least(a.len, r.wLength)
               /\ N.hw.in.off = a.off /\ N.hw.in.from \in a.from
          /\ ~DirectionIn(r) => N.hw.in.len = 0
      BY <1>4, <1>5, <2>2 DEF Outcome
    <3>2. DirectionIn(r) => a.len \in Nat /\ a.off \in Nat
      <4>1. SUFFICES ASSUME DirectionIn(r)
                     PROVE  a.len \in Nat /\ a.off \in Nat
        OBVIOUS
      <4>2. Readable(r)
        BY <3>1, <4>1
      <4>3. a.len \in 0 .. USB_MAX_PACKET0 /\ a.off \in Nat
        BY <1>4, <4>2, AnswersFit
      <4>4. QED
        BY ONLY <4>3
    <3>3. r.wLength \in Nat
      BY RequestIs
    <3>4. CASE host.phase = "data in"
      <4>1. DirectionIn(r) /\ host.got = 0
        BY <3>4
      <4>2. host.got + N.hw.in.len = Least(a.len, r.wLength) /\ N.hw.in.off = a.off + host.got
        <5>1. a.len \in Nat /\ a.off \in Nat
          BY <3>2, <4>1
        <5>2. N.hw.in.len = Least(a.len, r.wLength) /\ N.hw.in.off = a.off
          BY <3>1, <4>1
        <5>3. Least(a.len, r.wLength) \in Nat
          BY ONLY <3>3, <5>1 DEF Least
        <5>4. QED
          BY ONLY <4>1, <5>1, <5>2, <5>3
      <4>3. Sending(E, host)
        BY <1>1, <1>3, <3>1, <3>4, <4>1, <4>2 DEF Sending
      <4>4. QED
        BY <4>3 DEF Stage
    <3>5. CASE host.phase = "status in"
      <4>1. N.hw.in.len = 0
        <5>1. CASE DirectionIn(r)
          <6>1. r.wLength = 0
            BY <3>5, <5>1
          <6>2. a.len \in Nat /\ N.hw.in.len = Least(a.len, r.wLength)
            BY <3>1, <3>2, <5>1
          <6>3. QED
            BY ONLY <6>1, <6>2 DEF Least
        <5>2. QED
          BY <3>1, <5>1
      <4>2. EffectOn(E, r)
        BY <1>1, <3>1, SettingsKeep
      <4>3. Carried(E, host)
        BY <1>1, <3>1, <3>5, <4>1, <4>2 DEF Carried
      <4>4. QED
        BY <4>3 DEF Stage
    <3>6. QED
      BY <3>4, <3>5
  <2>3. QED
    BY <2>1, <2>2
<1>7. TransferInv(E, host) /\ ResetInv(E, host)
  BY <1>1, <1>6 DEF TransferInv, ResetInv, Underway
<1>8. ConfsInv(E, host)
  <2>1. CASE N.udi.Configuration = udi.Configuration
    BY <1>1, <1>5, <2>1 DEF ConfsInv
  <2>2. CASE N.hw.in # NULL /\ SetsConfiguration(r) /\ N.udi.Configuration = Value(r)
    <3>1. ~DirectionIn(r)
      BY <2>2 DEF SetsConfiguration, DirectionIn
    <3>2. QED
      BY <1>1, <2>2, <3>1 DEF ConfsInv
  <2>3. QED
    BY <1>5, <2>1, <2>2 DEF Outcome
<1>9. QED
  BY <1>1, <1>2, <1>7, <1>8 DEF ControlInv, Holds

\* A device that waits for the rest of the data.
LEMMA ReceivingHolds ==
  ASSUME ControlInv, ~hw.reset, ~hw.tx, NEW r \in Requests, host.req = r, ~DirectionIn(r),
         r.wLength # 0, udi.Configuration \in host.confs, NEW N, Ahead(N), N.hw.out = NULL,
         host.got <= r.wLength, NEW n, n >= r.wLength - host.got, Awaits(r, N, n),
         host.phase = (IF host.got < r.wLength THEN "data out" ELSE "status in"),
         NEW E, E = [N EXCEPT !.hw.rx = FALSE]
  PROVE  Holds(E, host)
<1>1. /\ E \in Devices /\ E.udi = N.udi /\ Settings(E) = Settings(N)
      /\ E.hw.out = NULL /\ E.hw.in = NULL /\ ~E.hw.tx
      /\ ~E.hw.reset /\ ~E.hw.stalled /\ E.udi.usp = r /\ E.udi.nbytes = n
      /\ E.udi.Configuration = udi.Configuration
  BY ClearedIs DEF Ahead, Awaits
<1>2. Together(E)
  BY <1>1, SettingsKeep DEF Ahead
<1>3. r.wLength \in Nat /\ host.got \in Nat
  BY RequestIs, HostIs DEF ControlInv, Holds
<1>4. r.wLength > 0 /\ (r.wLength - host.got) + 0 = r.wLength - host.got
  <2>1. r.wLength # 0
    OBVIOUS
  <2>2. QED
    BY ONLY <1>3, <2>1
<1>5. Receiving(E, host)
  BY <1>1, <1>4 DEF Receiving, Unread
<1>6. TransferInv(E, host) /\ ResetInv(E, host) /\ ConfsInv(E, host)
  BY <1>1, <1>5 DEF TransferInv, ResetInv, ConfsInv, Underway, Stage
<1>7. QED
  BY <1>1, <1>2, <1>6 DEF ControlInv, Holds

LEMMA RxKeeps ==
  ASSUME ControlInv, ~hw.reset, hw.rx, tn_usb_EP0_rx_int_func
  PROVE  Holds(Device', host)
<1>1. Device = [udi |-> udi, hw |-> hw] /\ ControlType
  BY ControlIs
<1>2. Together(Device) /\ TransferInv(Device, host)
  BY <1>1 DEF ControlInv, Holds
<1>3. PICK N : N = IF hw.out # NULL /\ hw.out.setup THEN SetupArrived(Device)
                   ELSE IF hw.out # NULL THEN DataArrived(Device) ELSE Device
  OBVIOUS
<1>4. PICK E : E = [N EXCEPT !.hw.rx = FALSE]
  OBVIOUS
<1>5. udi' = E.udi /\ hw' = E.hw
  BY <1>3, <1>4 DEF tn_usb_EP0_rx_int_func, SetDevice
<1>6. N \in Devices => Device' = E
  BY <1>4, <1>5, ClearedIs, DevicePrime
<1>7. CASE hw.out # NULL /\ hw.out.setup
  <2>1. Underway(host) /\ host.req \in Requests /\ Stage(Device, host)
    BY <1>1, <1>2, <1>7 DEF TransferInv
  <2>2. Pending(Device, host)
    <3>1. Device.hw.out # NULL /\ Device.hw.out.setup
      BY <1>1, <1>7
    <3>2. QED
      BY ONLY <2>1, <3>1, StageByPackets DEF Receiving
  <2>3. PICK r : r = host.req
    OBVIOUS
  <2>4. /\ r \in Requests /\ hw.out.req = r /\ hw.in = NULL /\ ~hw.tx /\ ~hw.stalled
        /\ host.got = 0
        /\ host.phase = IF r.wLength = 0 THEN "status in"
                        ELSE IF DirectionIn(r) THEN "data in" ELSE "data out"
    BY <1>1, <2>1, <2>2, <2>3 DEF Pending
  <2>5. udi.Configuration \in host.confs
    <3>1. Device.hw.in = NULL /\ ~Device.hw.reset /\ Device.udi.Configuration = udi.Configuration
      BY <1>1, <2>4
    <3>2. Device.udi.Configuration \in host.confs
      BY <3>1, ConfsKnown DEF ControlInv
    <3>3. QED
      BY <3>1, <3>2
  <2>6. N = SetupArrived(Device)
    BY <1>3, <1>7
  <2>7. /\ Ahead(N) /\ N.hw.out = NULL
        /\ r.wLength = 0 \/ DirectionIn(r) => Answered(r, N)
        /\ ~(r.wLength = 0 \/ DirectionIn(r)) => Awaits(r, N, r.wLength)
    BY <1>1, <1>2, <1>7, <2>4, <2>5, <2>6, SetupArrivedIs
  <2>8. CASE r.wLength = 0 \/ DirectionIn(r)
    <3>1. Answered(r, N)
      BY <2>7, <2>8
    <3>2. Holds(E, host)
      BY <1>4, <2>3, <2>4, <2>5, <2>7, <2>8, <3>1, AnsweredHolds
    <3>3. QED
      BY <1>6, <2>7, <3>2 DEF Ahead
  <2>9. CASE ~(r.wLength = 0 \/ DirectionIn(r))
    <3>1. Awaits(r, N, r.wLength)
      BY <2>7, <2>9
    <3>2. r.wLength \in Nat /\ r.wLength # 0
      BY <2>4, <2>9, RequestIs
    <3>3. host.got = 0 /\ host.phase = "data out"
      BY <2>4, <2>9
    <3>4. host.got <= r.wLength /\ r.wLength >= r.wLength - host.got /\ host.got < r.wLength
      <4>1. PICK w, g : w = r.wLength /\ g = host.got
        OBVIOUS
      <4>2. w \in Nat /\ w # 0 /\ g = 0
        BY <3>2, <3>3, <4>1
      <4>3. g <= w /\ w >= w - g /\ g < w
        BY ONLY <4>2
      <4>4. QED
        BY <4>1, <4>3
    <3>5. Holds(E, host)
      BY <1>4, <2>3, <2>4, <2>5, <2>7, <2>9, <3>1, <3>3, <3>4, ReceivingHolds
    <3>6. QED
      BY <1>6, <2>7, <3>5 DEF Ahead
  <2>10. QED
    BY <2>8, <2>9
<1>8. CASE hw.out # NULL /\ ~hw.out.setup /\ udi.nbytes # 0
  <2>1. Underway(host) /\ host.req \in Requests /\ Stage(Device, host)
    BY <1>1, <1>2, <1>8 DEF TransferInv
  <2>2. Receiving(Device, host)
    <3>1. Device.hw.out # NULL /\ ~Device.hw.out.setup
      BY <1>1, <1>8
    <3>2. QED
      BY ONLY <2>1, <3>1, StageByPackets DEF Pending
  <2>3. PICK r : r = host.req
    OBVIOUS
  <2>4. /\ r \in Requests /\ ~DirectionIn(r) /\ r.wLength > 0 /\ udi.usp = r
        /\ hw.in = NULL /\ ~hw.tx /\ ~hw.stalled
        /\ host.got <= r.wLength /\ udi.nbytes >= (r.wLength - host.got) + hw.out.len
        /\ host.phase = IF host.got < r.wLength THEN "data out" ELSE "status in"
    BY <1>1, <1>8, <2>1, <2>2, <2>3 DEF Receiving, Unread
  <2>5. udi.Configuration \in host.confs
    <3>1. Device.hw.in = NULL /\ ~Device.hw.reset /\ Device.udi.Configuration = udi.Configuration
      BY <1>1, <2>4
    <3>2. Device.udi.Configuration \in host.confs
      BY <3>1, ConfsKnown DEF ControlInv
    <3>3. QED
      BY <3>1, <3>2
  <2>6. N = DataArrived(Device)
    BY <1>3, <1>8
  <2>7. /\ r.wLength \in Nat /\ host.got \in Nat /\ hw.out.len \in Nat /\ udi.nbytes \in Nat
    <3>1. r.wLength \in Nat /\ host.got \in Nat
      BY <2>4, RequestIs, HostIs DEF ControlInv, Holds
    <3>2. hw.out \in OutPackets /\ udi.nbytes \in Nat
      BY <1>1, <1>8, DeviceIs
    <3>3. QED
      BY <3>1, <3>2 DEF OutPackets
  <2>8. /\ hw.out.len <= udi.nbytes
        /\ udi.nbytes = hw.out.len => ~(host.got < r.wLength)
        /\ udi.nbytes - hw.out.len >= r.wLength - host.got
        /\ r.wLength # 0
    <3>1. PICK w, g, n, m : w = r.wLength /\ g = host.got /\ n = hw.out.len /\ m = udi.nbytes
      OBVIOUS
    <3>2. /\ w \in Nat /\ g \in Nat /\ n \in Nat /\ m \in Nat
          /\ w > 0 /\ g <= w /\ m >= (w - g) + n
      BY <2>4, <2>7, <3>1
    <3>3. /\ n <= m /\ (m = n => ~(g < w)) /\ m - n >= w - g /\ w # 0
      BY ONLY <3>2
    <3>4. QED
      BY <3>1, <3>3
  <2>9. /\ Ahead(N) /\ N.hw.out = NULL
        /\ udi.nbytes = hw.out.len => Answered(r, N)
        /\ udi.nbytes # hw.out.len => Awaits(r, N, udi.nbytes - hw.out.len)
    BY <1>1, <1>2, <1>8, <2>4, <2>5, <2>6, <2>8, DataArrivedIs
  <2>10. CASE udi.nbytes = hw.out.len
    <3>1. Answered(r, N) /\ host.phase = "status in"
      BY <2>4, <2>8, <2>9, <2>10
    <3>2. Holds(E, host)
      BY <1>4, <2>3, <2>4, <2>5, <2>9, <3>1, AnsweredHolds
    <3>3. QED
      BY <1>6, <2>9, <3>2 DEF Ahead
  <2>11. CASE udi.nbytes # hw.out.len
    <3>1. Awaits(r, N, udi.nbytes - hw.out.len)
      BY <2>9, <2>11
    <3>2. Holds(E, host)
      BY <1>4, <2>3, <2>4, <2>5, <2>8, <2>9, <3>1, ReceivingHolds
    <3>3. QED
      BY <1>6, <2>9, <3>2 DEF Ahead
  <2>12. QED
    BY <2>10, <2>11
<1>9. CASE hw.out = NULL \/ (~hw.out.setup /\ udi.nbytes = 0)
  <2>1. N = Device
    BY <1>1, <1>3, <1>9 DEF DataArrived
  <2>2. ~Pending(Device, host)
    BY <1>1, <1>9 DEF Pending
  <2>3. Holds(E, host)
    BY <1>4, <2>1, <2>2, NothingArrived DEF ControlInv
  <2>4. QED
    BY <1>1, <1>6, <2>1, <2>3, DeviceIs
<1>10. QED
  BY <1>7, <1>8, <1>9

LEMMA TxField ==
  ASSUME NEW h \in Hw, NEW g, g = [h EXCEPT !.tx = FALSE]
  PROVE  /\ g \in Hw /\ ~g.tx
         /\ g.out = h.out /\ g.in = h.in /\ g.reset = h.reset /\ g.stalled = h.stalled
         /\ g.configured = h.configured /\ g.enabled = h.enabled /\ g.addr = h.addr
<1>1. g \in Hw
  <2>1. FALSE \in BOOLEAN
    OBVIOUS
  <2>2. QED
    BY <2>1, HwFields
<1>2. ~g.tx /\ g.out = h.out /\ g.in = h.in /\ g.reset = h.reset /\ g.stalled = h.stalled
  BY DEF Hw
<1>3. g.configured = h.configured /\ g.enabled = h.enabled /\ g.addr = h.addr
  BY DEF Hw
<1>4. QED
  BY <1>1, <1>2, <1>3

\* A transmit interrupt finds that all is sent, and sends an empty packet.
LEMMA TxKeeps ==
  ASSUME ControlInv, ~hw.reset, hw.tx, tn_usb_EP0_tx_int_func
  PROVE  Holds(Device', host)
<1>1. Device = [udi |-> udi, hw |-> hw] /\ ControlType
  BY ControlIs
<1>2. Together(Device) /\ TransferInv(Device, host)
  BY <1>1 DEF ControlInv, Holds
<1>3. Device \in Devices /\ Device.hw = hw /\ Device.udi = udi /\ udi.nbytes \in Nat
  BY <1>1, DeviceIs
<1>4. PICK N : N = tn_usb_st_DATAIN(Device)
  OBVIOUS
<1>5. PICK n : n = Least(udi.nbytes, USB_MAX_PACKET0)
  OBVIOUS
<1>6. /\ N \in Devices /\ Settings(N) = Settings(Device)
      /\ Rest(N.hw) = Rest(hw) /\ N.hw.stalled = hw.stalled
      /\ N.hw.in \in InPackets /\ N.hw.in.len = n /\ N.udi.nbytes = udi.nbytes - n
  BY <1>3, <1>4, <1>5, DataInIs
<1>7. PICK E : E = [N EXCEPT !.hw.tx = FALSE]
  OBVIOUS
<1>8. udi' = E.udi /\ hw' = E.hw
  BY <1>4, <1>7 DEF tn_usb_EP0_tx_int_func, SetDevice
<1>9. /\ E = [udi |-> N.udi, hw |-> E.hw] /\ E.hw \in Hw
      /\ E.hw.out = hw.out /\ E.hw.in = N.hw.in /\ ~E.hw.tx /\ E.hw.reset = hw.reset
      /\ E.hw.stalled = hw.stalled
      /\ E.hw.configured = N.hw.configured /\ E.hw.enabled = N.hw.enabled
      /\ E.hw.addr = N.hw.addr
  <2>1. PICK h : h = N.hw
    OBVIOUS
  <2>2. PICK g : g = [h EXCEPT !.tx = FALSE]
    OBVIOUS
  <2>3. h \in Hw /\ N = [udi |-> N.udi, hw |-> h]
    BY <1>6, <2>1, DeviceFields
  <2>4. /\ g \in Hw /\ ~g.tx
        /\ g.out = h.out /\ g.in = h.in /\ g.reset = h.reset /\ g.stalled = h.stalled
        /\ g.configured = h.configured /\ g.enabled = h.enabled /\ g.addr = h.addr
    BY ONLY <2>2, <2>3, TxField
  <2>5. E = [udi |-> N.udi, hw |-> g]
    BY <1>7, <2>1, <2>2, <2>3
  <2>6. h.out = hw.out /\ h.reset = hw.reset
    BY <1>6, <2>1 DEF Rest
  <2>7. E.hw = g
    BY <2>5
  <2>8. QED
    BY <1>6, <2>1, <2>4, <2>5, <2>6, <2>7
<1>10. E.udi = N.udi /\ E.udi \in Udi
  <2>1. E.udi = N.udi
    BY <1>9
  <2>2. QED
    BY <1>6, <2>1, DeviceFields
<1>11. E \in Devices /\ Device' = E
  <2>1. E = [udi |-> E.udi, hw |-> E.hw]
    BY <1>9, <1>10
  <2>2. E \in Devices
    BY ONLY <1>9, <1>10, <2>1 DEF Devices
  <2>3. QED
    BY <1>8, <2>1, <2>2, DevicePrime
<1>12. Settings(E) = Settings(Device)
  BY <1>6, <1>9, <1>10 DEF Settings
<1>13. Together(E) /\ E.udi.Configuration = udi.Configuration
  BY <1>2, <1>3, <1>12, SettingsKeep
<1>14. E.hw.in # NULL /\ E.hw.in.len = n
  BY <1>6, <1>9, ControlAssumption
<1>15. udi.nbytes = 0 => n = 0 /\ E.udi.nbytes = 0
  <2>1. USB_MAX_PACKET0 \in Nat
    BY ControlAssumption
  <2>2. udi.nbytes = 0 => n = 0 /\ udi.nbytes - n = 0
    <3>1. 0 <= USB_MAX_PACKET0 /\ 0 - 0 = 0
      BY ONLY <2>1
    <3>2. udi.nbytes = 0 => n = 0
      BY <1>5, <3>1 DEF Least
    <3>3. QED
      BY <3>1, <3>2
  <2>3. QED
    BY <1>6, <1>10, <2>2
<1>16. Underway(host) => Sending(Device, host) /\ hw.in = NULL
  BY <1>1, <1>2, <1>3, StageByPackets DEF TransferInv
<1>17. Underway(host) => host.req \in Requests /\ Stage(E, host)
  <2>1. SUFFICES ASSUME Underway(host)
                 PROVE  host.req \in Requests /\ Stage(E, host)
    OBVIOUS
  <2>2. host.req \in Requests
    BY <1>2, <2>1 DEF TransferInv
  <2>3. PICK a : a = AnswerTo(host.confs, host.req)
    OBVIOUS
  <2>4. PICK all : all = Least(a.len, host.req.wLength)
    OBVIOUS
  <2>5. /\ host.phase = "data in" /\ Readable(host.req) /\ hw.out = NULL /\ udi.nbytes = 0
        /\ host.got = all
    BY <1>3, <1>16, <2>1, <2>3, <2>4 DEF Sending
  <2>6. host.got \in Nat
    BY <1>1, HostIs DEF ControlType
  <2>7. E.hw.in.len = 0 /\ E.udi.nbytes = 0 /\ host.got + E.hw.in.len = all
    <3>1. n = 0 /\ E.udi.nbytes = 0 /\ E.hw.in.len = 0
      BY <1>14, <1>15, <2>5
    <3>2. host.got + 0 = host.got
      BY ONLY <2>6
    <3>3. QED
      BY <2>5, <3>1, <3>2
  <2>8. Sending(E, host)
    BY <1>9, <1>14, <2>3, <2>4, <2>5, <2>7 DEF Sending
  <2>9. QED
    BY <2>2, <2>8 DEF Stage
<1>18. TransferInv(E, host)
  <2>1. ~Underway(host) /\ hw.out # NULL => ~hw.out.setup /\ udi.nbytes = 0
    BY <1>2, <1>3 DEF TransferInv
  <2>2. host.phase = "status out" => udi.nbytes = 0
    BY <1>2, <1>3 DEF TransferInv
  <2>3. QED
    BY <1>9, <1>15, <1>17, <2>1, <2>2 DEF TransferInv
<1>19. udi.Configuration \in host.confs
  <2>1. Device.hw.in = NULL \/ host.phase # "status in"
    BY <1>3, <1>16 DEF Underway
  <2>2. ~Device.hw.reset /\ Device.udi.Configuration = udi.Configuration
    BY <1>3
  <2>3. Device.udi.Configuration \in host.confs
    BY <2>1, <2>2, ConfsKnown DEF ControlInv
  <2>4. QED
    BY <2>2, <2>3
<1>20. ResetInv(E, host) /\ ConfsInv(E, host)
  BY <1>9, <1>13, <1>19 DEF ResetInv, ConfsInv
<1>21. QED
  BY <1>11, <1>13, <1>18, <1>20 DEF ControlInv, Holds

LEMMA ResetKeeps ==
  ASSUME ControlInv, hw.reset, tn_usb_int_reset
  PROVE  Holds(Device', host)
<1>1. Device = [udi |-> udi, hw |-> hw] /\ ControlType
  BY ControlIs
<1>2. udi \in Udi /\ hw \in Hw
  BY <1>1 DEF ControlType
<1>3. host.phase = "idle" /\ hw.out = NULL /\ ~hw.configured /\ 0 \in host.confs
  BY <1>1 DEF ControlInv, Holds, ResetInv
<1>4. PICK u : u = [[udi EXCEPT !.Configuration = 0] EXCEPT !.nbytes = 0]
  OBVIOUS
<1>5. PICK h : h = [[[hw EXCEPT !.reset = FALSE] EXCEPT !.rx = FALSE] EXCEPT !.tx = FALSE]
  OBVIOUS
<1>6. udi' = u /\ hw' = h
  <2>1. PICK N : N = [Device EXCEPT !.udi.Configuration = 0, !.udi.nbytes = 0]
    OBVIOUS
  <2>2. N = [udi |-> u, hw |-> hw]
    <3>1. PICK X : X = [Device EXCEPT !.udi.Configuration = 0]
      OBVIOUS
    <3>2. X = [udi |-> [udi EXCEPT !.Configuration = 0], hw |-> hw]
      BY <1>1, <3>1
    <3>3. N = [X EXCEPT !.udi.nbytes = 0]
      BY <2>1, <3>1
    <3>4. QED
      BY <1>4, <3>2, <3>3
  <2>3. PICK E : E = [N EXCEPT !.hw.reset = FALSE, !.hw.rx = FALSE, !.hw.tx = FALSE]
    OBVIOUS
  <2>4. E = [udi |-> u, hw |-> h]
    <3>1. PICK X : X = [N EXCEPT !.hw.reset = FALSE]
      OBVIOUS
    <3>2. X = [udi |-> u, hw |-> [hw EXCEPT !.reset = FALSE]]
      BY <2>2, <3>1
    <3>3. PICK Y : Y = [X EXCEPT !.hw.rx = FALSE]
      OBVIOUS
    <3>4. Y = [udi |-> u, hw |-> [[hw EXCEPT !.reset = FALSE] EXCEPT !.rx = FALSE]]
      BY <3>2, <3>3
    <3>5. E = [Y EXCEPT !.hw.tx = FALSE]
      BY <2>3, <3>1, <3>3
    <3>6. QED
      BY <1>5, <3>4, <3>5
  <2>5. udi' = E.udi /\ hw' = E.hw
    BY <2>1, <2>3 DEF tn_usb_int_reset, tn_usb_reset_data, SetDevice
  <2>6. QED
    BY <2>4, <2>5
<1>7. u \in Udi /\ u.Configuration = 0
  <2>1. PICK v : v = [udi EXCEPT !.Configuration = 0]
    OBVIOUS
  <2>2. v \in Udi /\ v.Configuration = 0
    BY <1>2, <2>1 DEF Udi
  <2>3. u = [v EXCEPT !.nbytes = 0]
    BY <1>4, <2>1
  <2>4. u \in Udi
    BY <2>2, <2>3, UdiFields
  <2>5. u.Configuration = v.Configuration
    BY <2>2, <2>3 DEF Udi
  <2>6. QED
    BY <2>2, <2>4, <2>5
<1>8. h \in Hw /\ h.out = NULL /\ ~h.configured /\ ~h.reset
  <2>1. PICK g : g = [hw EXCEPT !.reset = FALSE]
    OBVIOUS
  <2>2. PICK f : f = [g EXCEPT !.rx = FALSE]
    OBVIOUS
  <2>3. FALSE \in BOOLEAN
    OBVIOUS
  <2>4. g \in Hw
    BY ONLY <1>2, <2>1, <2>3, HwFields
  <2>5. g.out = hw.out /\ g.configured = hw.configured /\ g.reset = FALSE
    BY ONLY <1>2, <2>1 DEF Hw
  <2>6. f \in Hw /\ f.out = g.out /\ f.configured = g.configured /\ f.reset = g.reset
    BY ONLY <2>2, <2>3, <2>4, RxField
  <2>7. h = [f EXCEPT !.tx = FALSE]
    BY <1>5, <2>1, <2>2
  <2>8. h \in Hw /\ h.out = f.out /\ h.configured = f.configured /\ h.reset = f.reset
    BY ONLY <2>6, <2>7, TxField
  <2>9. QED
    BY <1>3, <2>5, <2>6, <2>8
<1>9. PICK E : E = [udi |-> u, hw |-> h]
  OBVIOUS
<1>10. Device' = E
  BY <1>6, <1>9, DevicePrime
<1>11. E \in Devices
  BY <1>7, <1>8, <1>9 DEF Devices
<1>12. /\ E.udi.Configuration = 0 /\ E.hw.out = NULL /\ ~E.hw.configured /\ ~E.hw.reset
       /\ E.hw.configured \in BOOLEAN
  BY <1>7, <1>8, <1>9, <1>11, DeviceFields
<1>13. Together(E)
  BY <1>12 DEF Together
<1>14. TransferInv(E, host) /\ ResetInv(E, host) /\ ConfsInv(E, host)
  BY <1>3, <1>12 DEF TransferInv, ResetInv, ConfsInv, Underway
<1>15. QED
  BY <1>10, <1>11, <1>13, <1>14 DEF ControlInv, Holds

\* The packet the second read of the handler takes.
LEMMA DummyReadKeeps ==
  ASSUME ControlInv, DummyRead
  PROVE  Holds(Device', host)
<1>1. Device = [udi |-> udi, hw |-> hw] /\ ControlType
  BY ControlIs
<1>2. Device \in Devices /\ Device.hw = hw /\ Device.udi = udi /\ udi.nbytes \in Nat
  BY <1>1, DeviceIs
<1>3. udi \in Udi /\ hw \in Hw
  BY <1>1 DEF ControlType
<1>4. PICK g : g = [hw EXCEPT !.out = NULL]
  OBVIOUS
<1>5. PICK f : f = [g EXCEPT !.rx = FALSE]
  OBVIOUS
<1>6. PICK h : h = [f EXCEPT !.waits = FALSE]
  OBVIOUS
<1>7. hw.waits /\ hw.out # NULL /\ udi' = udi /\ hw' = h
  BY <1>4, <1>5, <1>6 DEF DummyRead
<1>8. g \in Hw
  BY ONLY <1>3, <1>4 DEF Hw
<1>9. /\ g.out = NULL /\ g.in = hw.in /\ g.tx = hw.tx /\ g.reset = hw.reset
      /\ g.stalled = hw.stalled
      /\ g.configured = hw.configured /\ g.enabled = hw.enabled /\ g.addr = hw.addr
  <2>1. g.out = NULL /\ g.in = hw.in /\ g.tx = hw.tx /\ g.reset = hw.reset
        /\ g.stalled = hw.stalled
    BY ONLY <1>3, <1>4 DEF Hw
  <2>2. g.configured = hw.configured /\ g.enabled = hw.enabled /\ g.addr = hw.addr
    BY ONLY <1>3, <1>4 DEF Hw
  <2>3. QED
    BY <2>1, <2>2
<1>10. /\ f \in Hw /\ f.out = g.out /\ f.in = g.in /\ f.tx = g.tx /\ f.reset = g.reset
       /\ f.stalled = g.stalled
       /\ f.configured = g.configured /\ f.enabled = g.enabled /\ f.addr = g.addr
  BY ONLY <1>5, <1>8, RxField
<1>11. h \in Hw
  <2>1. FALSE \in BOOLEAN
    OBVIOUS
  <2>2. QED
    BY ONLY <1>6, <1>10, <2>1, HwFields
<1>12. /\ h.out = f.out /\ h.in = f.in /\ h.tx = f.tx /\ h.reset = f.reset
       /\ h.stalled = f.stalled
  BY ONLY <1>6, <1>10 DEF Hw
<1>13. h.configured = f.configured /\ h.enabled = f.enabled /\ h.addr = f.addr
  BY ONLY <1>6, <1>10 DEF Hw
<1>14. PICK E : E = [udi |-> udi, hw |-> h]
  OBVIOUS
<1>15. Device' = E /\ E \in Devices /\ E.udi = udi /\ E.hw = h
  BY <1>3, <1>7, <1>11, <1>14, DevicePrime DEF Devices
<1>16. /\ E.hw.out = NULL /\ E.hw.in = hw.in /\ E.hw.tx = hw.tx /\ E.hw.reset = hw.reset
       /\ E.hw.stalled = hw.stalled
  BY <1>9, <1>10, <1>12, <1>15
<1>17. Settings(E) = Settings(Device)
  BY <1>2, <1>9, <1>10, <1>13, <1>15 DEF Settings
<1>18. ~hw.reset
  BY <1>2, <1>7 DEF ControlInv, Holds, ResetInv
<1>19. Together(E)
  BY <1>2, <1>17, <1>18, SettingsKeep DEF ControlInv, Holds
<1>20. Underway(host) => host.req \in Requests /\ Stage(E, host)
  <2>1. SUFFICES ASSUME Underway(host)
                 PROVE  host.req \in Requests /\ Stage(E, host)
    OBVIOUS
  <2>2. host.req \in Requests /\ Stage(Device, host)
    BY <2>1 DEF ControlInv, Holds, TransferInv
  <2>3. ~Pending(Device, host) /\ Device.hw.out # NULL
    BY <1>2, <1>7 DEF Pending
  <2>4. Receiving(Device, host)
    BY ONLY <2>2, <2>3, StageByPackets
  <2>5. udi.nbytes >= (host.req.wLength - host.got) + hw.out.len
    BY <1>2, <1>7, <2>4 DEF Receiving, Unread
  <2>6. udi.nbytes >= (host.req.wLength - host.got) + 0
    <3>1. PICK w, s, n, m : /\ w = host.req.wLength /\ s = host.got
                            /\ n = hw.out.len /\ m = udi.nbytes
      OBVIOUS
    <3>2. w \in Nat /\ s \in Nat
      BY <1>1, <2>2, <3>1, RequestIs, HostIs DEF ControlType
    <3>3. n \in Nat /\ m \in Nat
      BY <1>1, <1>7, <3>1, DeviceIs DEF OutPackets
    <3>4. m >= (w - s) + n
      BY <2>5, <3>1
    <3>5. m >= (w - s) + 0
      BY ONLY <3>2, <3>3, <3>4
    <3>6. QED
      BY <3>1, <3>5
  <2>7. Receiving(E, host)
    BY <1>2, <1>15, <1>16, <2>4, <2>6 DEF Receiving, Unread
  <2>8. QED
    BY <2>2, <2>7 DEF Stage
<1>21. TransferInv(E, host)
  BY <1>2, <1>15, <1>16, <1>20 DEF ControlInv, Holds, TransferInv
<1>22. ResetInv(E, host) /\ ConfsInv(E, host)
  BY <1>2, <1>15, <1>16, <1>18 DEF ControlInv, Holds, ResetInv, ConfsInv
<1>23. QED
  BY <1>15, <1>19, <1>21, <1>22 DEF ControlInv, Holds

LEMMA ConnectKeeps ==
  ASSUME ControlInv, tn_usb_connect
  PROVE  Holds(Device', host)
<1>1. Device = [udi |-> udi, hw |-> hw] /\ ControlType
  BY ControlIs
<1>2. Device \in Devices /\ Device.hw = hw /\ Device.udi = udi
  BY <1>1, DeviceIs
<1>3. udi \in Udi /\ hw \in Hw
  BY <1>1 DEF ControlType
<1>4. PICK h : h = [hw EXCEPT !.connected = TRUE]
  OBVIOUS
<1>5. udi' = udi /\ hw' = h
  BY <1>4 DEF tn_usb_connect
<1>6. h \in Hw
  <2>1. TRUE \in BOOLEAN
    OBVIOUS
  <2>2. QED
    BY ONLY <1>3, <1>4, <2>1, HwFields
<1>7. Line(h) = Line(hw)
  BY ONLY <1>3, <1>4 DEF Hw, Line
<1>8. /\ h.stalled = hw.stalled /\ h.configured = hw.configured /\ h.enabled = hw.enabled
      /\ h.addr = hw.addr
  BY ONLY <1>3, <1>4 DEF Hw
<1>9. PICK E : E = [udi |-> udi, hw |-> h]
  OBVIOUS
<1>10. Device' = E /\ E \in Devices /\ E.udi = udi /\ E.hw = h
  BY <1>3, <1>5, <1>6, <1>9, DevicePrime DEF Devices
<1>11. PICK D : D = Device
  OBVIOUS
<1>12. /\ E.udi = D.udi /\ E.hw.out = D.hw.out /\ E.hw.in = D.hw.in /\ E.hw.rx = D.hw.rx
       /\ E.hw.tx = D.hw.tx /\ E.hw.reset = D.hw.reset /\ E.hw.waits = D.hw.waits
       /\ E.hw.stalled = D.hw.stalled /\ E.hw.configured = D.hw.configured
       /\ Settings(E) = Settings(D)
  BY <1>2, <1>7, <1>8, <1>10, <1>11 DEF Line, Settings
<1>13. Holds(D, host)
  BY <1>11 DEF ControlInv
<1>14. Stage(D, host) => Stage(E, host)
  <2>1. Pending(D, host) => Pending(E, host)
    BY <1>12 DEF Pending
  <2>2. Sending(D, host) => Sending(E, host)
    BY <1>12 DEF Sending
  <2>3. Receiving(D, host) => Receiving(E, host)
    BY <1>12 DEF Receiving, Unread
  <2>4. Carried(D, host) => Carried(E, host)
    BY <1>12, SettingsKeep DEF Carried
  <2>5. Declined(D) => Declined(E)
    BY <1>12 DEF Declined
  <2>6. QED
    BY <2>1, <2>2, <2>3, <2>4, <2>5 DEF Stage
<1>15. TransferInv(E, host)
  BY <1>12, <1>13, <1>14 DEF Holds, TransferInv
<1>16. ResetInv(E, host) /\ ConfsInv(E, host)
  BY <1>12, <1>13 DEF Holds, ResetInv, ConfsInv
<1>17. Together(D) => Together(E)
  BY <1>12, SettingsKeep
<1>18. QED
  BY <1>10, <1>12, <1>13, <1>15, <1>16, <1>17 DEF Holds

-----------------------------------------------------------------------------
\* The host

LEMMA PhaseField ==
  ASSUME NEW s \in Host, NEW phase \in Phases, NEW t, t = [s EXCEPT !.phase = phase]
  PROVE  /\ t \in Host /\ t.phase = phase /\ t.req = s.req /\ t.got = s.got
         /\ t.exact = s.exact /\ t.done = s.done /\ t.confs = s.confs
<1>1. t \in Host
  BY DEF Host
<1>2. t.phase = phase /\ t.req = s.req /\ t.got = s.got
  BY DEF Host
<1>3. t.exact = s.exact /\ t.done = s.done /\ t.confs = s.confs
  BY DEF Host
<1>4. QED
  BY <1>1, <1>2, <1>3

LEMMA GotField ==
  ASSUME NEW s \in Host, NEW n \in Nat, NEW t, t = [s EXCEPT !.got = n]
  PROVE  /\ t \in Host /\ t.phase = s.phase /\ t.req = s.req /\ t.got = n
         /\ t.exact = s.exact /\ t.done = s.done /\ t.confs = s.confs
<1>1. t \in Host
  BY DEF Host
<1>2. t.phase = s.phase /\ t.req = s.req /\ t.got = n
  BY DEF Host
<1>3. t.exact = s.exact /\ t.done = s.done /\ t.confs = s.confs
  BY DEF Host
<1>4. QED
  BY <1>1, <1>2, <1>3

\* An action of the host that leaves the device alone.
LEMMA StalledKeeps ==
  ASSUME ControlInv, Stalled
  PROVE  Holds(Device', host')
<1>1. Device = [udi |-> udi, hw |-> hw] /\ ControlType
  BY ControlIs
<1>2. PICK D : D = Device
  OBVIOUS
<1>3. D \in Devices /\ D.hw = hw /\ D.udi = udi /\ Holds(D, host) /\ host \in Host
  BY <1>1, <1>2, DeviceIs DEF ControlInv, ControlType
<1>4. D.hw.stalled /\ host.phase # "idle" /\ Device' = D
  BY <1>1, <1>2, <1>3, DevicePrime DEF Stalled
<1>5. PICK t : t = host'
  OBVIOUS
<1>6. /\ t \in Host /\ t.phase = "idle" /\ t.req = host.req /\ t.got = host.got
      /\ t.exact = host.exact /\ t.done = host.done /\ t.confs = host.confs
  <2>1. t = [host EXCEPT !.phase = "idle"]
    BY <1>5 DEF Stalled
  <2>2. "idle" \in Phases
    BY DEF Phases
  <2>3. QED
    BY ONLY <1>3, <2>1, <2>2, PhaseField
<1>7. ~D.hw.reset
  BY <1>3, <1>4 DEF Holds, ResetInv
<1>8. D.udi.Configuration \in t.confs
  BY <1>3, <1>4, <1>6, <1>7, ConfsKnown
<1>9. D.hw.out # NULL => ~D.hw.out.setup /\ D.udi.nbytes = 0
  <2>1. ~Pending(D, host) /\ ~Receiving(D, host)
    BY <1>4 DEF Pending, Receiving
  <2>2. Underway(host) => D.hw.out = NULL
    <3>1. Underway(host) => Stage(D, host)
      BY <1>3 DEF Holds, TransferInv
    <3>2. Stage(D, host) => D.hw.out = NULL
      BY ONLY <2>1, StageByPackets
    <3>3. QED
      BY <3>1, <3>2
  <2>3. QED
    BY <1>3, <2>2 DEF Holds, TransferInv
<1>10. TransferInv(D, t) /\ ResetInv(D, t) /\ ConfsInv(D, t)
  BY <1>6, <1>7, <1>8, <1>9 DEF TransferInv, ResetInv, ConfsInv, Underway
<1>11. QED
  BY <1>3, <1>4, <1>5, <1>6, <1>10 DEF Holds

\* A packet of the host.
LEMMA OutIs ==
  ASSUME ControlInv, NEW n \in Nat, OutPacket(n), udi' = udi
  PROVE  LET E == Device'
         IN /\ E \in Devices /\ E.udi = udi /\ Settings(E) = Settings(Device)
            /\ E.hw.out = [setup |-> FALSE, len |-> n, req |-> NULL] /\ E.hw.out # NULL
            /\ E.hw.in = hw.in /\ E.hw.tx = hw.tx /\ E.hw.reset = hw.reset
            /\ E.hw.stalled = hw.stalled
<1>1. Device = [udi |-> udi, hw |-> hw] /\ ControlType
  BY ControlIs
<1>2. udi \in Udi /\ hw \in Hw
  BY <1>1 DEF ControlType
<1>3. PICK p : p = [setup |-> FALSE, len |-> n, req |-> NULL]
  OBVIOUS
<1>4. p \in OutPackets /\ p # NULL
  <2>1. p \in OutPackets
    BY <1>3 DEF OutPackets
  <2>2. QED
    BY <2>1, ControlAssumption
<1>5. PICK g : g = [hw EXCEPT !.out = p]
  OBVIOUS
<1>6. PICK h : h = [g EXCEPT !.rx = TRUE]
  OBVIOUS
<1>7. hw' = h
  BY <1>3, <1>5, <1>6 DEF OutPacket
<1>8. g \in Hw
  BY ONLY <1>2, <1>4, <1>5 DEF Hw
<1>9. /\ g.out = p /\ g.in = hw.in /\ g.tx = hw.tx /\ g.reset = hw.reset
      /\ g.stalled = hw.stalled
  BY ONLY <1>2, <1>5 DEF Hw
<1>10. g.configured = hw.configured /\ g.enabled = hw.enabled /\ g.addr = hw.addr
  BY ONLY <1>2, <1>5 DEF Hw
<1>11. /\ h \in Hw /\ h.out = g.out /\ h.in = g.in /\ h.tx = g.tx /\ h.reset = g.reset
       /\ h.stalled = g.stalled
       /\ h.configured = g.configured /\ h.enabled = g.enabled /\ h.addr = g.addr
  BY ONLY <1>6, <1>8, RxField
<1>12. PICK E : E = [udi |-> udi, hw |-> h]
  OBVIOUS
<1>13. Device' = E /\ E \in Devices /\ E.udi = udi /\ E.hw = h
  BY <1>2, <1>7, <1>11, <1>12, DevicePrime DEF Devices
<1>14. Settings(E) = Settings(Device)
  BY <1>1, <1>10, <1>11, <1>13, DeviceIs DEF Settings
<1>15. QED
  BY <1>3, <1>4, <1>9, <1>11, <1>13, <1>14

LEMMA LeastIs ==
  ASSUME NEW a \in Nat, NEW b \in Nat
  PROVE  /\ Min({a, b}) = Least(a, b)
         /\ Least(a, b) \in Nat /\ Least(a, b) <= a /\ Least(a, b) <= b
<1>1. \E x \in {a, b} : \A y \in {a, b} : x <= y
  OBVIOUS
<1>2. Min({a, b}) \in {a, b} /\ \A y \in {a, b} : Min({a, b}) <= y
  BY <1>1 DEF Min
<1>3. QED
  BY <1>2 DEF Least

LEMMA DataOutKeeps ==
  ASSUME ControlInv, DataOut
  PROVE  Holds(Device', host')
<1>1. Device = [udi |-> udi, hw |-> hw] /\ ControlType
  BY ControlIs
<1>2. PICK D : D = Device
  OBVIOUS
<1>3. D \in Devices /\ D.hw = hw /\ D.udi = udi /\ Holds(D, host) /\ host \in Host
  BY <1>1, <1>2, DeviceIs DEF ControlInv, ControlType
<1>4. host.phase = "data out" /\ hw.out = NULL /\ ~hw.stalled
  BY DEF DataOut
<1>5. host.req \in Requests /\ Stage(D, host)
  BY <1>3, <1>4 DEF Holds, TransferInv, Underway
<1>6. Receiving(D, host)
  <2>1. ~Pending(D, host) /\ ~Declined(D)
    BY <1>3, <1>4 DEF Pending, Declined
  <2>2. QED
    BY ONLY <1>4, <1>5, <2>1, StageByPackets
<1>7. PICK r : r = host.req
  OBVIOUS
<1>8. PICK w, s, m : w = r.wLength /\ s = host.got /\ m = udi.nbytes
  OBVIOUS
<1>9. /\ ~DirectionIn(r) /\ w > 0 /\ udi.usp = r /\ hw.in = NULL /\ ~hw.tx
      /\ s <= w /\ m >= (w - s) + 0 /\ (~(s < w) => host.phase = "status in")
  BY <1>3, <1>4, <1>6, <1>7, <1>8 DEF Receiving, Unread
<1>10. w \in Nat /\ s \in Nat /\ m \in Nat /\ USB_MAX_PACKET0 \in Nat
  <2>1. w \in Nat
    BY <1>5, <1>7, <1>8, RequestIs
  <2>2. s \in Nat
    BY <1>3, <1>8, HostIs
  <2>3. m \in Nat
    BY <1>1, <1>8, DeviceIs
  <2>4. QED
    BY <2>1, <2>2, <2>3, ControlAssumption
<1>11. w > 0 /\ s <= w /\ m >= (w - s) + 0
  BY <1>9
<1>12. PICK n : n = Min({USB_MAX_PACKET0, w - s})
  OBVIOUS
<1>13. w - s \in Nat
  BY ONLY <1>10, <1>11
<1>14. n \in Nat /\ n <= w - s
  BY <1>10, <1>12, <1>13, LeastIs
<1>15. OutPacket(n) /\ udi' = udi
  BY <1>7, <1>8, <1>12 DEF DataOut
<1>16. PICK E : E = Device'
  OBVIOUS
<1>17. /\ E \in Devices /\ E.udi = udi /\ Settings(E) = Settings(D)
       /\ E.hw.out = [setup |-> FALSE, len |-> n, req |-> NULL] /\ E.hw.out # NULL
       /\ E.hw.in = hw.in /\ E.hw.tx = hw.tx /\ E.hw.reset = hw.reset
       /\ E.hw.stalled = hw.stalled
  BY <1>2, <1>14, <1>15, <1>16, OutIs
<1>18. PICK t : t = host'
  OBVIOUS
<1>19. /\ t \in Host /\ t.req = r /\ t.got = s + n
       /\ t.phase = IF s + n = w THEN "status in" ELSE "data out"
       /\ t.exact = host.exact /\ t.done = host.done /\ t.confs = host.confs
  <2>1. PICK phase : phase = IF s + n = w THEN "status in" ELSE "data out"
    OBVIOUS
  <2>2. PICK x : x = [host EXCEPT !.got = s + n]
    OBVIOUS
  <2>3. s + n \in Nat
    BY ONLY <1>10, <1>14
  <2>4. /\ x \in Host /\ x.phase = host.phase /\ x.req = host.req /\ x.got = s + n
        /\ x.exact = host.exact /\ x.done = host.done /\ x.confs = host.confs
    BY ONLY <1>3, <2>2, <2>3, GotField
  <2>5. t = [x EXCEPT !.phase = phase]
    BY <1>4, <1>7, <1>8, <1>12, <1>18, <2>1, <2>2 DEF DataOut
  <2>6. phase \in Phases
    BY <2>1 DEF Phases
  <2>7. /\ t \in Host /\ t.phase = phase /\ t.req = x.req /\ t.got = x.got
        /\ t.exact = x.exact /\ t.done = x.done /\ t.confs = x.confs
    BY ONLY <2>4, <2>5, <2>6, PhaseField
  <2>8. QED
    BY <1>7, <2>1, <2>4, <2>7
<1>20. s + n <= w /\ m >= (w - (s + n)) + n /\ (s + n < w <=> s + n # w)
  BY ONLY <1>10, <1>14, <1>11
<1>21. Receiving(E, t)
  <2>1. Unread(E.hw) = n
    BY <1>17 DEF Unread
  <2>2. ~E.hw.out.setup
    BY <1>17
  <2>3. t.phase = IF t.got < w THEN "data out" ELSE "status in"
    BY <1>19, <1>20
  <2>4. t.got <= w /\ E.udi.nbytes >= (w - t.got) + n
    BY <1>8, <1>17, <1>19, <1>20
  <2>5. E.hw.in = NULL /\ ~E.hw.tx /\ ~E.hw.stalled /\ E.udi.usp = r
    BY <1>4, <1>9, <1>17
  <2>6. QED
    BY <1>8, <1>9, <1>19, <2>1, <2>2, <2>3, <2>4, <2>5 DEF Receiving
<1>22. Stage(E, t) /\ t.req \in Requests /\ Underway(t)
  BY <1>5, <1>7, <1>19, <1>21 DEF Stage, Underway
<1>23. ~hw.reset
  BY <1>3, <1>4 DEF Holds, ResetInv
<1>24. Together(E) /\ E.udi.Configuration = D.udi.Configuration
  BY <1>3, <1>17, <1>23, SettingsKeep DEF Holds
<1>25. D.udi.Configuration \in host.confs
  BY <1>3, <1>9, <1>23, ConfsKnown
<1>26. TransferInv(E, t) /\ ResetInv(E, t) /\ ConfsInv(E, t)
  BY <1>17, <1>19, <1>22, <1>23, <1>24, <1>25 DEF TransferInv, ResetInv, ConfsInv, Underway
<1>27. QED
  BY <1>3, <1>16, <1>17, <1>18, <1>19, <1>24, <1>26 DEF Holds

LEMMA StatusOutKeeps ==
  ASSUME ControlInv, StatusOut
  PROVE  Holds(Device', host')
<1>1. Device = [udi |-> udi, hw |-> hw] /\ ControlType
  BY ControlIs
<1>2. PICK D : D = Device
  OBVIOUS
<1>3. D \in Devices /\ D.hw = hw /\ D.udi = udi /\ Holds(D, host) /\ host \in Host
  BY <1>1, <1>2, DeviceIs DEF ControlInv, ControlType
<1>4. host.phase = "status out" /\ OutPacket(0) /\ udi' = udi
  BY DEF StatusOut
<1>5. PICK E : E = Device'
  OBVIOUS
<1>6. /\ E \in Devices /\ E.udi = udi /\ Settings(E) = Settings(D)
      /\ E.hw.out = [setup |-> FALSE, len |-> 0, req |-> NULL] /\ E.hw.reset = hw.reset
  BY <1>2, <1>4, <1>5, OutIs
<1>7. PICK t : t = host'
  OBVIOUS
<1>8. /\ t \in Host /\ t.phase = "idle" /\ t.exact = host.exact /\ t.done = host.done
      /\ t.confs = host.confs
  <2>1. t = [host EXCEPT !.phase = "idle"]
    BY <1>7 DEF StatusOut
  <2>2. "idle" \in Phases
    BY DEF Phases
  <2>3. QED
    BY ONLY <1>3, <2>1, <2>2, PhaseField
<1>9. ~hw.reset /\ udi.nbytes = 0
  BY <1>3, <1>4 DEF Holds, ResetInv, TransferInv
<1>10. Together(E) /\ E.udi.Configuration = D.udi.Configuration
  BY <1>3, <1>6, <1>9, SettingsKeep DEF Holds
<1>11. D.udi.Configuration \in host.confs
  BY <1>3, <1>4, <1>9, ConfsKnown
<1>12. TransferInv(E, t) /\ ResetInv(E, t) /\ ConfsInv(E, t)
  BY <1>6, <1>8, <1>9, <1>10, <1>11 DEF TransferInv, ResetInv, ConfsInv, Underway
<1>13. QED
  BY <1>3, <1>5, <1>6, <1>7, <1>8, <1>10, <1>12 DEF Holds

LEMMA ExactField ==
  ASSUME NEW s \in Host, NEW t, t = [s EXCEPT !.exact = TRUE]
  PROVE  /\ t \in Host /\ t.phase = s.phase /\ t.req = s.req /\ t.got = s.got
         /\ t.exact /\ t.done = s.done /\ t.confs = s.confs
<1>1. t \in Host
  <2>1. TRUE \in BOOLEAN
    OBVIOUS
  <2>2. QED
    BY <2>1 DEF Host
<1>2. t.phase = s.phase /\ t.req = s.req /\ t.got = s.got
  BY DEF Host
<1>3. t.exact /\ t.done = s.done /\ t.confs = s.confs
  BY DEF Host
<1>4. QED
  BY <1>1, <1>2, <1>3

LEMMA DoneField ==
  ASSUME NEW s \in Host, NEW t, t = [s EXCEPT !.done = TRUE]
  PROVE  /\ t \in Host /\ t.phase = s.phase /\ t.req = s.req /\ t.got = s.got
         /\ t.exact = s.exact /\ t.done /\ t.confs = s.confs
<1>1. t \in Host
  <2>1. TRUE \in BOOLEAN
    OBVIOUS
  <2>2. QED
    BY <2>1 DEF Host
<1>2. t.phase = s.phase /\ t.req = s.req /\ t.got = s.got
  BY DEF Host
<1>3. t.exact = s.exact /\ t.done /\ t.confs = s.confs
  BY DEF Host
<1>4. QED
  BY <1>1, <1>2, <1>3

LEMMA ConfsField ==
  ASSUME NEW s \in Host, NEW C \in ConfSets, NEW t, t = [s EXCEPT !.confs = C]
  PROVE  /\ t \in Host /\ t.phase = s.phase /\ t.req = s.req /\ t.got = s.got
         /\ t.exact = s.exact /\ t.done = s.done /\ t.confs = C
<1>1. t \in Host
  BY DEF Host
<1>2. t.phase = s.phase /\ t.req = s.req /\ t.got = s.got
  BY DEF Host
<1>3. t.exact = s.exact /\ t.done = s.done /\ t.confs = C
  BY DEF Host
<1>4. QED
  BY <1>1, <1>2, <1>3

LEMMA ReqField ==
  ASSUME NEW s \in Host, NEW r \in Requests \cup {NULL}, NEW t, t = [s EXCEPT !.req = r]
  PROVE  /\ t \in Host /\ t.phase = s.phase /\ t.req = r /\ t.got = s.got
         /\ t.exact = s.exact /\ t.done = s.done /\ t.confs = s.confs
<1>1. t \in Host
  BY DEF Host
<1>2. t.phase = s.phase /\ t.req = r /\ t.got = s.got
  BY DEF Host
<1>3. t.exact = s.exact /\ t.done = s.done /\ t.confs = s.confs
  BY DEF Host
<1>4. QED
  BY <1>1, <1>2, <1>3

\* The controller after a packet for the host.
LEMMA TakenIs ==
  ASSUME ControlInv, udi' = udi, hw' = [hw EXCEPT !.in = NULL, !.tx = TRUE]
  PROVE  LET E == Device'
         IN /\ E \in Devices /\ E.udi = udi /\ E.hw.in = NULL /\ E.hw.out = hw.out
            /\ E.hw.reset = hw.reset /\ (Together(Device) => Together(E))
<1>1. Device = [udi |-> udi, hw |-> hw] /\ ControlType
  BY ControlIs
<1>2. udi \in Udi /\ hw \in Hw
  BY <1>1 DEF ControlType
<1>3. PICK g : g = [hw EXCEPT !.in = NULL]
  OBVIOUS
<1>4. PICK h : h = [g EXCEPT !.tx = TRUE]
  OBVIOUS
<1>5. hw' = h
  BY <1>3, <1>4
<1>6. NULL \in InPackets \cup {NULL} /\ TRUE \in BOOLEAN
  OBVIOUS
<1>7. /\ g \in Hw /\ Rest(g) = Rest(hw) /\ g.in = NULL
      /\ g.configured = hw.configured /\ g.enabled = hw.enabled
  BY ONLY <1>2, <1>3, <1>6, InField
<1>8. h \in Hw
  BY ONLY <1>4, <1>6, <1>7, HwFields
<1>9. /\ h.in = g.in /\ h.out = g.out /\ h.reset = g.reset
      /\ h.configured = g.configured /\ h.enabled = g.enabled
  BY ONLY <1>4, <1>7 DEF Hw
<1>10. PICK E : E = [udi |-> udi, hw |-> h]
  OBVIOUS
<1>11. Device' = E /\ E.udi = udi /\ E.hw = h
  BY <1>5, <1>10, DevicePrime
<1>12. E \in Devices
  BY ONLY <1>2, <1>8, <1>10 DEF Devices
<1>13. Together(Device) => Together(E)
  BY <1>1, <1>7, <1>9, <1>11, DeviceIs DEF Together
<1>14. g.out = hw.out /\ g.reset = hw.reset
  BY <1>7 DEF Rest
<1>15. QED
  BY <1>7, <1>9, <1>11, <1>12, <1>13, <1>14

\* The host gets data.
LEMMA DataKeeps ==
  ASSUME ControlInv, In, host.phase = "data in"
  PROVE  Holds(Device', host')
<1>1. Device = [udi |-> udi, hw |-> hw] /\ ControlType
  BY ControlIs
<1>2. PICK D : D = Device
  OBVIOUS
<1>3. D \in Devices /\ D.hw = hw /\ D.udi = udi /\ Holds(D, host) /\ host \in Host
  BY <1>1, <1>2, DeviceIs DEF ControlInv, ControlType
<1>4. /\ hw.in # NULL /\ ~hw.stalled /\ host' = GetData(hw.in)
      /\ hw' = [hw EXCEPT !.in = NULL, !.tx = TRUE] /\ udi' = udi
  BY DEF In
<1>5. host.req \in Requests /\ Sending(D, host)
  <2>1. host.req \in Requests /\ Stage(D, host)
    BY <1>3 DEF Holds, TransferInv, Underway
  <2>2. Sending(D, host) \/ Carried(D, host)
    BY <1>3, <1>4, <2>1, StageByPackets
  <2>3. QED
    BY <2>1, <2>2 DEF Carried
<1>6. PICK a, r, p : a = AnswerTo(host.confs, host.req) /\ r = host.req /\ p = hw.in
  OBVIOUS
<1>7. PICK all, s, l, w : all = Least(a.len, w) /\ s = host.got /\ l = p.len /\ w = r.wLength
  OBVIOUS
<1>8. /\ Readable(r) /\ hw.out = NULL /\ udi.nbytes = 0 /\ s + l = all
      /\ l = 0 \/ (p.from \in a.from /\ p.off = a.off + s)
  BY <1>3, <1>4, <1>5, <1>6, <1>7 DEF Sending
<1>9. s \in Nat /\ l \in Nat /\ w \in Nat
  <2>1. p \in InPackets
    BY <1>1, <1>4, <1>6, DeviceIs
  <2>2. l \in Nat
    BY <1>7, <2>1 DEF InPackets
  <2>3. s \in Nat
    BY <1>3, <1>7, HostIs
  <2>4. w \in Nat
    BY <1>5, <1>6, <1>7, RequestIs
  <2>5. QED
    BY <2>2, <2>3, <2>4
<1>10. a.len \in Nat /\ Min({a.len, w}) = all
  <2>1. a.len \in 0 .. USB_MAX_PACKET0
    BY <1>5, <1>6, <1>8, AnswersAre, AnswersFit
  <2>2. a.len \in Nat
    BY ONLY <2>1
  <2>3. QED
    BY <1>7, <1>9, <2>2, LeastIs
<1>11. PICK last : last = (l < USB_MAX_PACKET0 \/ s + l >= w)
  OBVIOUS
<1>12. PICK phase : phase = IF last THEN "status out" ELSE "data in"
  OBVIOUS
<1>13. PICK e : e = (/\ l = 0 \/ (p.from \in a.from /\ p.off = a.off + s)
                     /\ last => s + l = Min({a.len, w}))
  OBVIOUS
<1>14. e = TRUE
  BY <1>8, <1>10, <1>13
<1>15. PICK x : x = [host EXCEPT !.got = s + l]
  OBVIOUS
<1>16. PICK y : y = [x EXCEPT !.phase = phase]
  OBVIOUS
<1>17. PICK t : t = [y EXCEPT !.exact = TRUE]
  OBVIOUS
<1>18. host' = t
  <2>1. host' = [host EXCEPT !.got = s + l, !.phase = phase, !.exact = e]
    <3>1. a = Answers(host.req)
      BY <1>6, AnswersAre
    <3>2. QED
      BY <1>4, <1>6, <1>7, <1>11, <1>12, <1>13, <3>1 DEF GetData
  <2>2. QED
    BY <1>14, <1>15, <1>16, <1>17, <2>1
<1>19. s + l \in Nat /\ phase \in Phases
  <2>1. s + l \in Nat
    BY ONLY <1>9
  <2>2. phase \in Phases
    BY <1>12 DEF Phases
  <2>3. QED
    BY <2>1, <2>2
<1>20. /\ x \in Host /\ x.req = r /\ x.got = all /\ x.done = host.done /\ x.confs = host.confs
  <2>1. /\ x \in Host /\ x.req = host.req /\ x.got = s + l /\ x.done = host.done
        /\ x.confs = host.confs
    BY ONLY <1>3, <1>15, <1>19, GotField
  <2>2. QED
    BY <1>6, <1>8, <2>1
<1>21. /\ y \in Host /\ y.phase = phase /\ y.req = x.req /\ y.got = x.got
       /\ y.done = x.done /\ y.confs = x.confs
  BY ONLY <1>16, <1>19, <1>20, PhaseField
<1>22. /\ t \in Host /\ t.phase = y.phase /\ t.req = y.req /\ t.got = y.got /\ t.exact
       /\ t.done = y.done /\ t.confs = y.confs
  BY ONLY <1>17, <1>21, ExactField
<1>23. PICK E : E = Device'
  OBVIOUS
<1>24. /\ E \in Devices /\ E.udi = udi /\ E.hw.in = NULL /\ E.hw.out = hw.out
       /\ E.hw.reset = hw.reset /\ (Together(D) => Together(E))
  BY <1>2, <1>4, <1>23, TakenIs
<1>25. ~hw.reset
  BY <1>3 DEF Holds, ResetInv
<1>26. D.udi.Configuration \in host.confs
  BY <1>3, <1>25, ConfsKnown
<1>27. t.phase = "data in" => Sending(E, t)
  BY <1>6, <1>7, <1>8, <1>20, <1>21, <1>22, <1>24 DEF Sending
<1>28. TransferInv(E, t)
  <2>1. t.phase = "data in" \/ t.phase = "status out"
    BY <1>12, <1>21, <1>22
  <2>2. t.phase = "data in" => t.req \in Requests /\ Stage(E, t)
    BY <1>5, <1>6, <1>20, <1>21, <1>22, <1>27 DEF Stage
  <2>3. E.udi.nbytes = 0 /\ E.hw.out = NULL
    BY <1>8, <1>24
  <2>4. QED
    BY <2>1, <2>2, <2>3 DEF TransferInv, Underway
<1>29. ResetInv(E, t) /\ ConfsInv(E, t)
  <2>1. t.confs = host.confs
    BY <1>20, <1>21, <1>22
  <2>2. QED
    BY <1>3, <1>24, <1>25, <1>26, <2>1 DEF ResetInv, ConfsInv
<1>30. Together(E) /\ t.done
  BY <1>3, <1>20, <1>21, <1>22, <1>24, <1>25 DEF Holds
<1>31. QED
  BY <1>18, <1>22, <1>23, <1>24, <1>28, <1>29, <1>30 DEF Holds

\* The host gets the acknowledgement.
LEMMA AcknowledgementKeeps ==
  ASSUME ControlInv, In, host.phase = "status in"
  PROVE  Holds(Device', host')
<1>1. Device = [udi |-> udi, hw |-> hw] /\ ControlType
  BY ControlIs
<1>2. PICK D : D = Device
  OBVIOUS
<1>3. D \in Devices /\ D.hw = hw /\ D.udi = udi /\ Holds(D, host) /\ host \in Host
  BY <1>1, <1>2, DeviceIs DEF ControlInv, ControlType
<1>4. /\ hw.in # NULL /\ ~hw.stalled /\ host' = GetStatus(hw.in)
      /\ hw' = [hw EXCEPT !.in = NULL, !.tx = TRUE] /\ udi' = udi
  BY DEF In
<1>5. host.req \in Requests /\ Carried(D, host)
  <2>1. host.req \in Requests /\ Stage(D, host)
    BY <1>3 DEF Holds, TransferInv, Underway
  <2>2. Sending(D, host) \/ Carried(D, host)
    BY <1>3, <1>4, <2>1, StageByPackets
  <2>3. QED
    BY <2>1, <2>2 DEF Sending
<1>6. PICK r : r = host.req
  OBVIOUS
<1>7. hw.out = NULL /\ hw.in.len = 0 /\ EffectOn(D, r)
  BY <1>3, <1>5, <1>6 DEF Carried
<1>8. PICK e : e = Effect(r)
  OBVIOUS
<1>9. e = TRUE
  BY <1>3, <1>7, <1>8 DEF Effect, EffectOn
<1>10. PICK C : C = IF SetsConfiguration(r) THEN {Value(r)} ELSE host.confs
  OBVIOUS
<1>11. C \in ConfSets
  <2>1. Value(r) \in 0 .. 255
    BY <1>5, <1>6, RequestIs
  <2>2. host.confs \in SUBSET (0 .. 255)
    BY <1>3, HostIs
  <2>3. QED
    BY <1>10, <2>1, <2>2 DEF ConfSets
<1>12. ~hw.reset
  BY <1>3 DEF Holds, ResetInv
<1>13. udi.Configuration \in C
  <2>1. CASE SetsConfiguration(r)
    BY <1>3, <1>7, <1>10, <2>1 DEF EffectOn
  <2>2. CASE ~SetsConfiguration(r)
    BY <1>3, <1>6, <1>10, <1>12, <2>2 DEF Holds, ConfsInv
  <2>3. QED
    BY <2>1, <2>2
<1>14. PICK x : x = [host EXCEPT !.phase = "idle"]
  OBVIOUS
<1>15. PICK y : y = [x EXCEPT !.exact = TRUE]
  OBVIOUS
<1>16. PICK z : z = [y EXCEPT !.done = TRUE]
  OBVIOUS
<1>17. PICK t : t = [z EXCEPT !.confs = C]
  OBVIOUS
<1>18. host' = t
  <2>1. (hw.in.len = 0) = TRUE
    BY <1>7
  <2>2. host' = [host EXCEPT !.phase = "idle", !.exact = TRUE, !.done = TRUE, !.confs = C]
    BY <1>4, <1>6, <1>8, <1>9, <1>10, <2>1 DEF GetStatus
  <2>3. QED
    BY <1>14, <1>15, <1>16, <1>17, <2>2
<1>19. x \in Host /\ x.phase = "idle"
  <2>1. "idle" \in Phases
    BY DEF Phases
  <2>2. QED
    BY ONLY <1>3, <1>14, <2>1, PhaseField
<1>20. y \in Host /\ y.phase = "idle" /\ y.exact
  BY ONLY <1>15, <1>19, ExactField
<1>21. z \in Host /\ z.phase = "idle" /\ z.exact /\ z.done
  BY ONLY <1>16, <1>20, DoneField
<1>22. t \in Host /\ t.phase = "idle" /\ t.exact /\ t.done /\ t.confs = C
  <2>1. /\ t \in Host /\ t.phase = z.phase /\ t.exact = z.exact /\ t.done = z.done
        /\ t.confs = C
    <3>1. z \in Host
      BY <1>21
    <3>2. QED
      BY ONLY <1>11, <1>17, <3>1, ConfsField
  <2>2. QED
    BY <1>21, <2>1
<1>23. PICK E : E = Device'
  OBVIOUS
<1>24. /\ E \in Devices /\ E.udi = udi /\ E.hw.in = NULL /\ E.hw.out = hw.out
       /\ E.hw.reset = hw.reset /\ (Together(D) => Together(E))
  BY <1>2, <1>4, <1>23, TakenIs
<1>25. TransferInv(E, t) /\ ResetInv(E, t) /\ ConfsInv(E, t)
  BY <1>7, <1>12, <1>13, <1>22, <1>24 DEF TransferInv, ResetInv, ConfsInv, Underway
<1>26. Together(E)
  BY <1>3, <1>12, <1>24 DEF Holds
<1>27. QED
  BY <1>18, <1>22, <1>23, <1>24, <1>25, <1>26 DEF Holds

\* The host starts a transfer, when the interrupts of the last one are served.
LEMMA SetupKeeps ==
  ASSUME ControlInv, Served, NEW r \in Requests, Setup(r)
  PROVE  Holds(Device', host')
<1>1. Device = [udi |-> udi, hw |-> hw] /\ ControlType
  BY ControlIs
<1>2. PICK D : D = Device
  OBVIOUS
<1>3. D \in Devices /\ D.hw = hw /\ D.udi = udi /\ Holds(D, host) /\ host \in Host
  BY <1>1, <1>2, DeviceIs DEF ControlInv, ControlType
<1>4. udi \in Udi /\ hw \in Hw
  BY <1>1 DEF ControlType
<1>5. ~hw.rx /\ ~hw.tx /\ ~hw.reset /\ ~hw.waits
  BY DEF Served
<1>6. PICK p : p = [setup |-> TRUE, len |-> 8, req |-> r]
  OBVIOUS
<1>7. p \in OutPackets /\ p # NULL /\ p.setup /\ p.req = r
  <2>1. p \in OutPackets
    BY <1>6 DEF OutPackets
  <2>2. p.setup /\ p.req = r
    BY <1>6
  <2>3. QED
    BY <2>1, <2>2, ControlAssumption
<1>8. PICK g1 : g1 = [hw EXCEPT !.out = p]
  OBVIOUS
<1>9. PICK g2 : g2 = [g1 EXCEPT !.in = NULL]
  OBVIOUS
<1>10. PICK g3 : g3 = [g2 EXCEPT !.stalled = FALSE]
  OBVIOUS
<1>11. PICK h : h = [g3 EXCEPT !.rx = TRUE]
  OBVIOUS
<1>12. hw' = h /\ udi' = udi
  <2>1. hw' = [hw EXCEPT !.out = p, !.in = NULL, !.stalled = FALSE, !.rx = TRUE]
    BY <1>6 DEF Setup
  <2>2. QED
    BY <1>8, <1>9, <1>10, <1>11, <2>1 DEF Setup
<1>13. NULL \in InPackets \cup {NULL} /\ TRUE \in BOOLEAN /\ FALSE \in BOOLEAN
  OBVIOUS
<1>14. g1 \in Hw
  BY ONLY <1>4, <1>7, <1>8 DEF Hw
<1>15. /\ g1.out = p /\ g1.tx = hw.tx /\ g1.reset = hw.reset /\ g1.waits = hw.waits
       /\ g1.configured = hw.configured /\ g1.enabled = hw.enabled
  BY ONLY <1>4, <1>8 DEF Hw
<1>16. /\ g2 \in Hw /\ Rest(g2) = Rest(g1) /\ g2.in = NULL
       /\ g2.configured = g1.configured /\ g2.enabled = g1.enabled
  BY ONLY <1>9, <1>13, <1>14, InField
<1>17. /\ g3 \in Hw /\ Line(g3) = Line(g2) /\ g3.stalled = FALSE
       /\ g3.configured = g2.configured /\ g3.enabled = g2.enabled
  BY ONLY <1>10, <1>13, <1>16, StallField
<1>18. h \in Hw
  BY ONLY <1>11, <1>13, <1>17, HwFields
<1>19. /\ h.out = g3.out /\ h.in = g3.in /\ h.tx = g3.tx /\ h.reset = g3.reset
       /\ h.waits = g3.waits /\ h.rx
  BY ONLY <1>11, <1>17 DEF Hw
<1>20. h.stalled = g3.stalled /\ h.configured = g3.configured /\ h.enabled = g3.enabled
  BY ONLY <1>11, <1>17 DEF Hw
<1>21. /\ g3.out = p /\ g3.in = NULL /\ g3.tx = hw.tx /\ g3.reset = hw.reset
       /\ g3.waits = hw.waits
  BY <1>15, <1>16, <1>17 DEF Rest, Line
<1>22. PICK E : E = [udi |-> udi, hw |-> h]
  OBVIOUS
<1>23. Device' = E /\ E.udi = udi /\ E.hw = h
  BY <1>12, <1>22, DevicePrime
<1>24. E \in Devices
  BY ONLY <1>4, <1>18, <1>22 DEF Devices
<1>25. /\ E.hw.out # NULL /\ E.hw.out.setup /\ E.hw.out.req = r /\ E.hw.rx /\ E.hw.in = NULL
       /\ ~E.hw.tx /\ ~E.hw.stalled /\ ~E.hw.waits /\ ~E.hw.reset
       /\ E.hw.configured = hw.configured /\ E.hw.enabled = hw.enabled
  BY <1>5, <1>7, <1>15, <1>16, <1>17, <1>19, <1>20, <1>21, <1>23
<1>26. Together(E)
  BY <1>3, <1>5, <1>23, <1>25 DEF Holds, Together
<1>27. PICK phase : phase = IF r.wLength = 0 THEN "status in"
                            ELSE IF DirectionIn(r) THEN "data in" ELSE "data out"
  OBVIOUS
<1>28. PICK C : C = IF host.phase # "idle" /\ SetsConfiguration(host.req)
                    THEN host.confs \cup {Value(host.req)} ELSE host.confs
  OBVIOUS
<1>29. C \in ConfSets
  <2>1. host.confs \in SUBSET (0 .. 255) /\ host.req \in Requests \cup {NULL}
    BY <1>3, HostIs
  <2>2. SetsConfiguration(host.req) => Value(host.req) \in 0 .. 255
    BY <2>1, RequestIs DEF SetsConfiguration
  <2>3. QED
    BY <1>28, <2>1, <2>2 DEF ConfSets
<1>30. udi.Configuration \in C
  <2>1. D.hw.reset = hw.reset /\ D.udi.Configuration = udi.Configuration
    BY <1>3
  <2>2. \/ udi.Configuration \in host.confs
        \/ /\ host.phase = "status in" /\ SetsConfiguration(host.req)
           /\ udi.Configuration = Value(host.req)
    BY <1>3, <1>5, <2>1 DEF Holds, ConfsInv
  <2>3. QED
    BY <1>28, <2>2
<1>31. PICK s1 : s1 = [host EXCEPT !.phase = phase]
  OBVIOUS
<1>32. PICK s2 : s2 = [s1 EXCEPT !.req = r]
  OBVIOUS
<1>33. PICK s3 : s3 = [s2 EXCEPT !.got = 0]
  OBVIOUS
<1>34. PICK t : t = [s3 EXCEPT !.confs = C]
  OBVIOUS
<1>35. host' = t
  <2>1. host' = [host EXCEPT !.phase = phase, !.req = r, !.got = 0, !.confs = C]
    BY <1>27, <1>28 DEF Setup
  <2>2. QED
    BY <1>31, <1>32, <1>33, <1>34, <2>1
<1>36. phase \in Phases /\ r \in Requests \cup {NULL} /\ 0 \in Nat
  BY <1>27 DEF Phases
<1>37. s1 \in Host /\ s1.phase = phase /\ s1.exact = host.exact /\ s1.done = host.done
  BY ONLY <1>3, <1>31, <1>36, PhaseField
<1>38. /\ s2 \in Host /\ s2.phase = s1.phase /\ s2.req = r /\ s2.exact = s1.exact
       /\ s2.done = s1.done
  BY ONLY <1>32, <1>36, <1>37, ReqField
<1>39. /\ s3 \in Host /\ s3.phase = s2.phase /\ s3.req = s2.req /\ s3.got = 0
       /\ s3.exact = s2.exact /\ s3.done = s2.done
  BY ONLY <1>33, <1>36, <1>38, GotField
<1>40. /\ t \in Host /\ t.phase = s3.phase /\ t.req = s3.req /\ t.got = s3.got
       /\ t.exact = s3.exact /\ t.done = s3.done /\ t.confs = C
  BY ONLY <1>29, <1>34, <1>39, ConfsField
<1>41. /\ t.phase = phase /\ t.req = r /\ t.got = 0 /\ t.exact /\ t.done
  BY <1>3, <1>37, <1>38, <1>39, <1>40 DEF Holds
<1>42. Pending(E, t)
  BY <1>25, <1>27, <1>41 DEF Pending
<1>43. TransferInv(E, t)
  <2>1. Underway(t)
    BY <1>27, <1>41 DEF Underway
  <2>2. t.phase # "status out"
    BY <1>27, <1>41
  <2>3. QED
    BY <1>41, <1>42, <2>1, <2>2 DEF TransferInv, Stage
<1>44. ResetInv(E, t) /\ ConfsInv(E, t)
  BY <1>23, <1>25, <1>30, <1>40 DEF ResetInv, ConfsInv
<1>45. QED
  BY <1>23, <1>24, <1>26, <1>35, <1>40, <1>41, <1>43, <1>44 DEF Holds

LEMMA BusResetKeeps ==
  ASSUME ControlInv, BusReset
  PROVE  Holds(Device', host')
<1>1. Device = [udi |-> udi, hw |-> hw] /\ ControlType
  BY ControlIs
<1>2. udi \in Udi /\ hw \in Hw /\ host \in Host /\ host.exact /\ host.done
  BY <1>1 DEF ControlType, ControlInv, Holds
<1>3. PICK g1 : g1 = [hw EXCEPT !.out = NULL]
  OBVIOUS
<1>4. PICK g2 : g2 = [g1 EXCEPT !.in = NULL]
  OBVIOUS
<1>5. PICK g3 : g3 = [g2 EXCEPT !.stalled = FALSE]
  OBVIOUS
<1>6. PICK g4 : g4 = [g3 EXCEPT !.addr = 0]
  OBVIOUS
<1>7. PICK g5 : g5 = [g4 EXCEPT !.configured = FALSE]
  OBVIOUS
<1>8. PICK h : h = [g5 EXCEPT !.reset = TRUE]
  OBVIOUS
<1>9. hw' = h /\ udi' = udi
  <2>1. hw' = [hw EXCEPT !.out = NULL, !.in = NULL, !.stalled = FALSE, !.addr = 0,
                         !.configured = FALSE, !.reset = TRUE]
    BY DEF BusReset
  <2>2. QED
    BY <1>3, <1>4, <1>5, <1>6, <1>7, <1>8, <2>1 DEF BusReset
<1>10. NULL \in InPackets \cup {NULL} /\ TRUE \in BOOLEAN /\ FALSE \in BOOLEAN /\ 0 \in Nat
  OBVIOUS
<1>11. g1 \in Hw /\ g1.out = NULL
  BY ONLY <1>2, <1>3 DEF Hw
<1>12. g2 \in Hw /\ Rest(g2) = Rest(g1)
  BY ONLY <1>4, <1>10, <1>11, InField
<1>13. g3 \in Hw /\ Line(g3) = Line(g2)
  BY ONLY <1>5, <1>10, <1>12, StallField
<1>14. g4 \in Hw
  BY ONLY <1>6, <1>10, <1>13, HwFields
<1>15. g4.out = g3.out
  BY ONLY <1>6, <1>13 DEF Hw
<1>16. g5 \in Hw /\ Line(g5) = Line(g4) /\ g5.configured = FALSE
  BY ONLY <1>7, <1>10, <1>14, ConfiguredField
<1>17. h \in Hw
  BY ONLY <1>8, <1>10, <1>16, HwFields
<1>18. h.out = g5.out /\ h.configured = g5.configured /\ h.reset
  BY ONLY <1>8, <1>16 DEF Hw
<1>19. g5.out = NULL
  BY <1>11, <1>12, <1>13, <1>15, <1>16 DEF Rest, Line
<1>20. PICK E : E = [udi |-> udi, hw |-> h]
  OBVIOUS
<1>21. Device' = E /\ E.udi = udi /\ E.hw = h
  BY <1>9, <1>20, DevicePrime
<1>22. E \in Devices
  BY ONLY <1>2, <1>17, <1>20 DEF Devices
<1>23. E.hw.out = NULL /\ ~E.hw.configured /\ E.hw.reset
  BY <1>16, <1>18, <1>19, <1>21
<1>24. PICK s1 : s1 = [host EXCEPT !.phase = "idle"]
  OBVIOUS
<1>25. PICK s2 : s2 = [s1 EXCEPT !.req = NULL]
  OBVIOUS
<1>26. PICK s3 : s3 = [s2 EXCEPT !.got = 0]
  OBVIOUS
<1>27. PICK t : t = [s3 EXCEPT !.confs = {0}]
  OBVIOUS
<1>28. host' = t
  <2>1. host' = [host EXCEPT !.phase = "idle", !.req = NULL, !.got = 0, !.confs = {0}]
    BY DEF BusReset
  <2>2. QED
    BY <1>24, <1>25, <1>26, <1>27, <2>1
<1>29. "idle" \in Phases /\ NULL \in Requests \cup {NULL} /\ {0} \in ConfSets
  BY DEF Phases, ConfSets
<1>30. s1 \in Host /\ s1.phase = "idle" /\ s1.exact = host.exact /\ s1.done = host.done
  <2>1. host \in Host
    BY <1>2
  <2>2. QED
    BY ONLY <1>24, <1>29, <2>1, PhaseField
<1>31. s2 \in Host /\ s2.phase = s1.phase /\ s2.exact = s1.exact /\ s2.done = s1.done
  BY ONLY <1>25, <1>29, <1>30, ReqField
<1>32. s3 \in Host /\ s3.phase = s2.phase /\ s3.exact = s2.exact /\ s3.done = s2.done
  BY ONLY <1>10, <1>26, <1>31, GotField
<1>33. /\ t \in Host /\ t.phase = s3.phase /\ t.exact = s3.exact /\ t.done = s3.done
       /\ t.confs = {0}
  <2>1. PICK C : C = {0}
    OBVIOUS
  <2>2. C \in ConfSets /\ t = [s3 EXCEPT !.confs = C]
    BY <1>27, <1>29, <2>1
  <2>3. /\ t \in Host /\ t.phase = s3.phase /\ t.exact = s3.exact /\ t.done = s3.done
        /\ t.confs = C
    BY ONLY <1>32, <2>2, ConfsField
  <2>4. QED
    BY <2>1, <2>3
<1>34. t.phase = "idle" /\ t.exact /\ t.done
  BY <1>2, <1>30, <1>31, <1>32, <1>33
<1>35. TransferInv(E, t) /\ ResetInv(E, t) /\ ConfsInv(E, t)
  BY <1>23, <1>33, <1>34 DEF TransferInv, ResetInv, ConfsInv, Underway
<1>36. QED
  BY <1>21, <1>22, <1>23, <1>28, <1>33, <1>34, <1>35 DEF Holds

-----------------------------------------------------------------------------
\* The theorems

LEMMA ControlInit == Ep0Init => ControlInv
<1> SUFFICES ASSUME Ep0Init
             PROVE  ControlInv
  OBVIOUS
<1>1. PICK D : D = Device
  OBVIOUS
<1>2. D.udi = udi /\ D.hw = hw /\ D = [udi |-> udi, hw |-> hw]
  BY <1>1 DEF Device
<1>3. udi \in Udi /\ udi.Configuration = 0
  BY DEF Ep0Init, Udi, Addresses, InBuffer, FromHost, Content, Contents
<1>4. hw \in Hw
  BY DEF Ep0Init, Hw
<1>5. hw.out = NULL /\ ~hw.reset /\ ~hw.configured /\ hw.configured \in BOOLEAN
  BY DEF Ep0Init
<1>6. host \in Host
  BY DEF Ep0Init, Host, Phases, ConfSets
<1>7. host.phase = "idle" /\ host.exact /\ host.done /\ host.confs = {0}
  BY DEF Ep0Init
<1>8. D \in Devices
  BY <1>2, <1>3, <1>4 DEF Devices
<1>9. Together(D)
  BY <1>2, <1>3, <1>5 DEF Together
<1>10. TransferInv(D, host) /\ ResetInv(D, host) /\ ConfsInv(D, host)
  BY <1>2, <1>3, <1>5, <1>7 DEF TransferInv, ResetInv, ConfsInv, Underway
<1>11. QED
  BY <1>1, <1>6, <1>7, <1>8, <1>9, <1>10 DEF ControlInv, Holds

LEMMA ControlNext == ControlInv /\ [Ep0Next]_ep0vars => ControlInv'
<1> SUFFICES ASSUME ControlInv, [Ep0Next]_ep0vars
             PROVE  Holds(Device', host')
  BY DEF ControlInv
<1>1. CASE tn_usb_connect
  BY <1>1, ConnectKeeps DEF tn_usb_connect
<1>2. CASE tn_usb_int_func
  <2>1. host' = host
    BY <1>2 DEF tn_usb_int_func
  <2>2. \/ hw.reset /\ tn_usb_int_reset
        \/ ~hw.reset /\ hw.rx /\ tn_usb_EP0_rx_int_func
        \/ ~hw.reset /\ hw.tx /\ tn_usb_EP0_tx_int_func
    BY <1>2 DEF tn_usb_int_func, tn_usb_EP0_rx_int_func, tn_usb_EP0_tx_int_func
  <2>3. Holds(Device', host)
    BY <2>2, ResetKeeps, RxKeeps, TxKeeps
  <2>4. QED
    BY <2>1, <2>3
<1>3. CASE DummyRead
  BY <1>3, DummyReadKeeps DEF DummyRead
<1>4. CASE In
  <2>1. host.phase = "data in" \/ host.phase = "status in"
    BY <1>4 DEF In
  <2>2. QED
    BY <1>4, <2>1, DataKeeps, AcknowledgementKeeps
<1>5. CASE DataOut
  BY <1>5, DataOutKeeps
<1>6. CASE StatusOut
  BY <1>6, StatusOutKeeps
<1>7. CASE Stalled
  BY <1>7, StalledKeeps
<1>8. CASE BusReset
  BY <1>8, BusResetKeeps
<1>9. CASE Served /\ \E r \in Requests : Setup(r)
  BY <1>9, SetupKeeps
<1>10. CASE UNCHANGED ep0vars
  <2>1. Device' = Device /\ host' = host
    BY <1>10 DEF ep0vars, Device
  <2>2. QED
    BY <2>1 DEF ControlInv
<1>11. QED
  BY <1>1, <1>2, <1>3, <1>4, <1>5, <1>6, <1>7, <1>8, <1>9, <1>10 DEF Ep0Next, Firmware, Transfer

(***************************************************************************)
(* Where a transfer is, whatever was given up before it and wherever a bus *)
(* reset comes.                                                            *)
(***************************************************************************)
THEOREM ControlInvariant == Ep0Spec => []ControlInv
BY ControlInit, ControlNext, PTL DEF Ep0Spec

(***************************************************************************)
(* What the host got is the answer to its request (tn_usb_st_DATAIN,       *)
(* tn_usb_EP0_rx_int_func).                                                *)
(***************************************************************************)
THEOREM AnswersCorrect == Ep0Spec => []AnswersExact
<1>1. ControlInv => AnswersExact
  BY DEF ControlInv, Holds, AnswersExact
<1>2. QED
  BY <1>1, ControlInvariant, PTL

(***************************************************************************)
(* What was acknowledged has been done (usb_SET_ADDRESS,                   *)
(* usb_SET_CONFIGURATION).                                                 *)
(***************************************************************************)
THEOREM AcknowledgementsCorrect == Ep0Spec => []AcknowledgedDone
<1>1. ControlInv => AcknowledgedDone
  BY DEF ControlInv, Holds, AcknowledgedDone
<1>2. QED
  BY <1>1, ControlInvariant, PTL

(***************************************************************************)
(* The firmware and the controller agree on the configuration, and its     *)
(* endpoints are enabled (usb_SET_CONFIGURATION, tn_usb_int_reset).        *)
(***************************************************************************)
THEOREM ConfiguredCorrect == Ep0Spec => []ConfiguredTogether
<1>1. ControlInv => ConfiguredTogether
  <2>1. SUFFICES ASSUME ControlInv, ~hw.reset
                 PROVE  /\ (udi.Configuration # 0) = hw.configured
                        /\ hw.configured => EndpointsOf(udi.Configuration) \subseteq hw.enabled
    BY DEF ConfiguredTogether
  <2>2. Device.hw = hw /\ Device.udi = udi
    BY DEF Device
  <2>3. Together(Device)
    BY <2>1, <2>2 DEF ControlInv, Holds
  <2>4. QED
    BY <2>2, <2>3 DEF Together
<1>2. QED
  BY <1>1, ControlInvariant, PTL
====
