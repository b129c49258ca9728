--------------------------- MODULE TNDqueueProofs ----------------------------
(***************************************************************************)
(* The data queue of TNDqueue: its storage and its two wait queues agree,  *)
(* whatever the tasks, their priorities, the elements and the number of    *)
(* entries.                                                                *)
(***************************************************************************)
EXTENDS TNDqueue, TNKernelProofs

-----------------------------------------------------------------------------
\* The storage of DataFifo.

FifoOK(f) == /\ f \in Ring!FifoState
             /\ f.num_entries > 0 => /\ f.tail_cnt < f.num_entries
                                     /\ f.header_cnt < f.num_entries
             /\ f.num_entries = 0 => f.tail_cnt = f.header_cnt

\* Only a place that is free is written, and the storage is not empty then.
LEMMA FifoWrite ==
  ASSUME NEW f, FifoOK(f), NEW d \in Data \cup {NULL}
  PROVE  /\ FifoOK(Ring!dque_fifo_write(f, d))
         /\ ~Ring!Full(f) => ~Ring!Empty(Ring!dque_fifo_write(f, d))
<1> DEFINE h == f.header_cnt
           n == f.num_entries
           fifo2 == [f.data_fifo EXCEPT ![h] = d]
           next == Ring!Wrap(h + 1, n)
           g == [data_fifo |-> fifo2, num_entries |-> n, tail_cnt |-> f.tail_cnt,
                 header_cnt |-> next]
<1>1. CASE Ring!Full(f)
  BY <1>1 DEF Ring!dque_fifo_write
<1>2. CASE ~Ring!Full(f)
  <2>1. /\ n \in 1 .. MaxEntries /\ f.tail_cnt \in Nat /\ h \in Nat /\ MaxEntries \in Nat
        /\ f.tail_cnt < n /\ h < n
        /\ ~(f.tail_cnt = 0 /\ h = n - 1) /\ h # f.tail_cnt - 1
    BY <1>2, DqueueAssumption DEF FifoOK, Ring!FifoState, Ring!Full
  <2>2. next \in 0 .. n - 1 /\ next # f.tail_cnt
    BY <2>1 DEF Ring!Wrap
  <2>3. f.data_fifo \in [0 .. MaxEntries - 1 -> Data \cup {NULL}]
        /\ f = [data_fifo |-> f.data_fifo, num_entries |-> n, tail_cnt |-> f.tail_cnt,
                header_cnt |-> h]
    BY DEF FifoOK, Ring!FifoState
  <2>4. fifo2 \in [0 .. MaxEntries - 1 -> Data \cup {NULL}]
    BY <2>1, <2>3
  <2>5. Ring!dque_fifo_write(f, d) = g
    BY <1>2, <2>3 DEF Ring!dque_fifo_write
  <2> HIDE DEF h, n, fifo2, next
  <2>6. FifoOK(g) /\ ~Ring!Empty(g)
    BY <2>1, <2>2, <2>4 DEF FifoOK, Ring!FifoState, Ring!Empty
  <2>7. QED
    BY <2>5, <2>6
<1>3. QED
  BY <1>1, <1>2

\* A place becomes free, and a storage that was full is full again after a
\* write.
LEMMA FifoRead ==
  ASSUME NEW f, FifoOK(f), ~Ring!Empty(f), NEW d \in Data \cup {NULL}
  PROVE  LET r == Ring!dque_fifo_read(f)
         IN /\ FifoOK(r) /\ ~Ring!Full(r) /\ Ring!Oldest(f) \in Data \cup {NULL}
            /\ Ring!Full(f) => Ring!Full(Ring!dque_fifo_write(r, d))
<1> DEFINE h == f.header_cnt
           t == f.tail_cnt
           n == f.num_entries
           r == Ring!dque_fifo_read(f)
           w == [r EXCEPT !.data_fifo[h] = d, !.header_cnt = Ring!Wrap(h + 1, n)]
<1>1. /\ n \in 1 .. MaxEntries /\ t \in Nat /\ h \in Nat /\ MaxEntries \in Nat
      /\ t < n /\ h < n /\ t # h
  BY DqueueAssumption DEF FifoOK, Ring!FifoState, Ring!Empty
<1>2. /\ r.data_fifo = f.data_fifo /\ r.num_entries = n /\ r.header_cnt = h
      /\ r.tail_cnt = Ring!Wrap(t + 1, n)
      /\ r = [data_fifo |-> r.data_fifo, num_entries |-> r.num_entries,
              tail_cnt |-> r.tail_cnt, header_cnt |-> r.header_cnt]
      /\ f.data_fifo \in [0 .. MaxEntries - 1 -> Data \cup {NULL}]
  BY DEF FifoOK, Ring!FifoState, Ring!dque_fifo_read
<1> HIDE DEF r
<1>3. FifoOK(r)
  BY <1>1, <1>2 DEF FifoOK, Ring!FifoState, Ring!Wrap
<1>4. ~Ring!Full(r)
  BY <1>1, <1>2 DEF Ring!Full, Ring!Wrap
<1>5. Ring!Oldest(f) \in Data \cup {NULL}
  BY <1>1, <1>2 DEF Ring!Oldest
<1>6. ASSUME Ring!Full(f)
      PROVE  Ring!Full(Ring!dque_fifo_write(r, d))
  <2>1. Ring!dque_fifo_write(r, d) = w
    BY <1>2, <1>4 DEF Ring!dque_fifo_write
  <2>2. /\ w.num_entries = n /\ w.tail_cnt = r.tail_cnt
        /\ w.header_cnt = Ring!Wrap(h + 1, n)
    BY <1>2
  <2> HIDE DEF w
  <2>3. Ring!Full(w)
    BY <1>1, <1>2, <1>6, <2>2 DEF Ring!Full, Ring!Wrap
  <2>4. QED
    BY <2>1, <2>3
<1>7. QED
  BY <1>3, <1>4, <1>5, <1>6 DEF r

\* What the two indices say of the elements stored.
LEMMA FifoContents ==
  ASSUME NEW f, FifoOK(f)
  PROVE  /\ Ring!Contents(f) \in Seq(Data \cup {NULL})
         /\ Len(Ring!Contents(f)) \in Nat /\ Ring!Room(f) \in Nat
         /\ Len(Ring!Contents(f)) = Ring!Stored(f)
         /\ \A i \in 1 .. Ring!Stored(f) :
               Ring!Contents(f)[i] = f.data_fifo[Ring!Place(f, i - 1)]
         /\ Len(Ring!Contents(f)) <= Ring!Room(f)
         /\ Ring!Full(f) <=> Len(Ring!Contents(f)) = Ring!Room(f)
         /\ Ring!Empty(f) <=> Ring!Contents(f) = <<>>
<1> DEFINE h == f.header_cnt
           t == f.tail_cnt
           n == f.num_entries
           c == Ring!Contents(f)
           m == Ring!Stored(f)
<1>1. /\ n \in 0 .. MaxEntries /\ t \in Nat /\ h \in Nat /\ MaxEntries \in Nat
      /\ n > 0 => t < n /\ h < n
      /\ n = 0 => t = h
      /\ f.data_fifo \in [0 .. MaxEntries - 1 -> Data \cup {NULL}]
  BY DqueueAssumption DEF FifoOK, Ring!FifoState
<1>2. m = IF h >= t THEN h - t ELSE h - t + n
  BY DEF Ring!Stored
<1> HIDE DEF m
<1>3. m \in Nat /\ (n = 0 => m = 0) /\ (n > 0 => m < n)
  BY <1>1, <1>2
<1>4. ASSUME NEW i \in 1 .. m
      PROVE  Ring!Place(f, i - 1) \in 0 .. MaxEntries - 1
  <2>1. Ring!Place(f, i - 1) = IF t + (i - 1) >= n THEN t + (i - 1) - n ELSE t + (i - 1)
    BY DEF Ring!Place
  <2>2. i \in Nat /\ i >= 1 /\ i <= m /\ n > 0
    BY <1>1, <1>3
  <2>3. QED
    BY <1>1, <1>3, <2>1, <2>2
<1>5. c = [i \in 1 .. m |-> f.data_fifo[Ring!Place(f, i - 1)]]
  BY DEF Ring!Contents, m
<1>6. \A i \in 1 .. m : f.data_fifo[Ring!Place(f, i - 1)] \in Data \cup {NULL}
  BY <1>1, <1>4
<1>7. c \in Seq(Data \cup {NULL}) /\ Len(c) = m
  BY <1>3, <1>5, <1>6
<1>8. Ring!Room(f) = IF n = 0 THEN 0 ELSE n - 1
  BY DEF Ring!Room
<1>9. Ring!Full(f) <=> m = Ring!Room(f)
  <2>1. Ring!Full(f) <=> n <= 0 \/ (t = 0 /\ h = n - 1) \/ h = t - 1
    BY DEF Ring!Full
  <2> HIDE DEF h, t, n
  <2>2. CASE n = 0
    BY <1>1, <1>2, <1>8, <2>1, <2>2
  <2>3. CASE n # 0
    BY <1>1, <1>2, <1>8, <2>1, <2>3
  <2>4. QED
    BY <2>2, <2>3
<1>10. Ring!Empty(f) <=> m = 0
  BY <1>1, <1>2 DEF Ring!Empty
<1> HIDE DEF c
<1>11. c = <<>> <=> Len(c) = 0
  BY <1>7
<1>12. \A i \in 1 .. m : c[i] = f.data_fifo[Ring!Place(f, i - 1)]
  BY <1>5
<1>13. Ring!Room(f) \in Nat /\ m <= Ring!Room(f)
  BY <1>1, <1>3, <1>8
<1>14. QED
  BY <1>3, <1>7, <1>9, <1>10, <1>11, <1>12, <1>13 DEF c, m

\* Two storages of as many elements, place by place the same, store the same.
LEMMA SameContents ==
  ASSUME NEW f, FifoOK(f), NEW c \in Seq(Data \cup {NULL}), Len(c) = Ring!Stored(f),
         \A i \in 1 .. Len(c) : c[i] = f.data_fifo[Ring!Place(f, i - 1)]
  PROVE  Ring!Contents(f) = c
<1> DEFINE e == Ring!Contents(f)
<1>1. /\ e \in Seq(Data \cup {NULL}) /\ Len(e) = Len(c)
      /\ \A i \in 1 .. Len(c) : e[i] = f.data_fifo[Ring!Place(f, i - 1)]
  BY FifoContents
<1> HIDE DEF e
<1>2. \A i \in 1 .. Len(c) : e[i] = c[i]
  BY <1>1
<1>3. e = c
  BY <1>1, <1>2
<1>4. QED
  BY <1>3 DEF e

\* A write puts the element behind those stored.
LEMMA WriteContents ==
  ASSUME NEW f, FifoOK(f), ~Ring!Full(f), NEW d \in Data \cup {NULL}
  PROVE  /\ Ring!Contents(Ring!dque_fifo_write(f, d)) = Append(Ring!Contents(f), d)
         /\ Ring!Room(Ring!dque_fifo_write(f, d)) = Ring!Room(f)
<1> DEFINE h == f.header_cnt
           t == f.tail_cnt
           n == f.num_entries
           c == Ring!Contents(f)
           m == Ring!Stored(f)
           g == Ring!dque_fifo_write(f, d)
           e == Append(c, d)
<1>1. /\ n \in 1 .. MaxEntries /\ t \in Nat /\ h \in Nat /\ MaxEntries \in Nat
      /\ t < n /\ h < n /\ ~(t = 0 /\ h = n - 1) /\ h # t - 1
      /\ f.data_fifo \in [0 .. MaxEntries - 1 -> Data \cup {NULL}]
  BY DqueueAssumption DEF FifoOK, Ring!FifoState, Ring!Full
<1>2. /\ c \in Seq(Data \cup {NULL}) /\ Len(c) = m
      /\ \A i \in 1 .. m : c[i] = f.data_fifo[Ring!Place(f, i - 1)]
  BY FifoContents
<1>3. FifoOK(g)
  BY FifoWrite
<1>4. /\ g.num_entries = n /\ g.tail_cnt = t
      /\ g.header_cnt = IF h + 1 >= n THEN 0 ELSE h + 1
      /\ g.data_fifo = [f.data_fifo EXCEPT ![h] = d]
  BY DEF Ring!dque_fifo_write, Ring!Wrap, FifoOK, Ring!FifoState
<1>5. \A j \in 0 .. MaxEntries - 1 : g.data_fifo[j] = IF j = h THEN d ELSE f.data_fifo[j]
  BY <1>1, <1>4
<1>6. m = IF h >= t THEN h - t ELSE h - t + n
  BY DEF Ring!Stored
<1> HIDE DEF g, m, c
<1>7. Ring!Stored(g) = m + 1
  <2> DEFINE x == IF h + 1 >= n THEN 0 ELSE h + 1
  <2>1. Ring!Stored(g) = IF x >= t THEN x - t ELSE x - t + n
    BY <1>4 DEF Ring!Stored
  <2>2. (IF x >= t THEN x - t ELSE x - t + n) = m + 1
    <3> HIDE DEF h, t, n
    <3>1. QED
      BY <1>1, <1>6
  <2>3. QED
    BY <2>1, <2>2
<1>8. m \in Nat /\ m < n - 1
  <2>1. CASE h >= t
    BY <1>1, <1>6, <2>1
  <2>2. CASE ~(h >= t)
    <3>1. m = h - t + n /\ h < t - 1
      BY <1>1, <1>6, <2>2
    <3> HIDE DEF h, t, n
    <3>2. QED
      BY <1>1, <3>1
  <2>3. QED
    BY <2>1, <2>2
<1>9. ASSUME NEW j \in Nat, j <= m
      PROVE  /\ Ring!Place(g, j) = Ring!Place(f, j)
             /\ Ring!Place(f, j) \in 0 .. MaxEntries - 1
             /\ Ring!Place(f, j) = h <=> j = m
  <2>1. Ring!Place(f, j) = IF t + j >= n THEN t + j - n ELSE t + j
    BY DEF Ring!Place
  <2>2. Ring!Place(g, j) = IF t + j >= n THEN t + j - n ELSE t + j
    BY <1>4 DEF Ring!Place
  <2> DEFINE p == Ring!Place(f, j)
  <2>3. p = IF t + j >= n THEN t + j - n ELSE t + j
    BY <2>1
  <2> HIDE DEF p, h, t, n
  <2>4. p \in 0 .. MaxEntries - 1
    BY <1>1, <1>6, <1>8, <1>9, <2>3
  <2>5. p = h <=> j = m
    BY <1>1, <1>6, <1>8, <1>9, <2>3
  <2>6. QED
    BY <2>1, <2>2, <2>4, <2>5 DEF p, h, t, n
<1>10. e \in Seq(Data \cup {NULL}) /\ Len(e) = m + 1 /\ e[m + 1] = d
       /\ \A i \in 1 .. m : e[i] = c[i]
  BY <1>2, <1>8
<1> HIDE DEF e
<1>11. ASSUME NEW i \in 1 .. Len(e)
       PROVE  e[i] = g.data_fifo[Ring!Place(g, i - 1)]
  <2>1. i \in Nat /\ i - 1 \in Nat /\ i - 1 <= m /\ (i = m + 1 \/ i \in 1 .. m)
    BY <1>8, <1>10
  <2>2. /\ Ring!Place(g, i - 1) = Ring!Place(f, i - 1)
        /\ Ring!Place(f, i - 1) \in 0 .. MaxEntries - 1
        /\ Ring!Place(f, i - 1) = h <=> i - 1 = m
    BY <1>9, <2>1
  <2>3. g.data_fifo[Ring!Place(g, i - 1)] =
          IF i - 1 = m THEN d ELSE f.data_fifo[Ring!Place(f, i - 1)]
    BY <1>5, <2>2
  <2>4. QED
    BY <1>2, <1>8, <1>10, <2>1, <2>3
<1>12. Ring!Contents(g) = e
  BY <1>3, <1>7, <1>10, <1>11, SameContents
<1>13. QED
  BY <1>4, <1>12 DEF e, c, g, Ring!Room

\* A read takes the first of them.
LEMMA ReadContents ==
  ASSUME NEW f, FifoOK(f), ~Ring!Empty(f)
  PROVE  /\ FifoOK(Ring!dque_fifo_read(f)) /\ ~Ring!Full(Ring!dque_fifo_read(f))
         /\ Ring!Contents(f) # <<>>
         /\ Ring!Oldest(f) = Head(Ring!Contents(f))
         /\ Ring!Contents(Ring!dque_fifo_read(f)) = Tail(Ring!Contents(f))
         /\ Ring!Room(Ring!dque_fifo_read(f)) = Ring!Room(f)
<1> DEFINE h == f.header_cnt
           t == f.tail_cnt
           n == f.num_entries
           c == Ring!Contents(f)
           m == Ring!Stored(f)
           r == Ring!dque_fifo_read(f)
           e == Tail(c)
<1>1. /\ n \in 1 .. MaxEntries /\ t \in Nat /\ h \in Nat /\ MaxEntries \in Nat
      /\ t < n /\ h < n /\ t # h
  BY DqueueAssumption DEF FifoOK, Ring!FifoState, Ring!Empty
<1>2. /\ c \in Seq(Data \cup {NULL}) /\ Len(c) = m /\ c # <<>>
      /\ \A i \in 1 .. m : c[i] = f.data_fifo[Ring!Place(f, i - 1)]
  BY FifoContents
<1>3. FifoOK(r) /\ ~Ring!Full(r)
  <2>1. NULL \in Data \cup {NULL}
    OBVIOUS
  <2>2. QED
    BY <2>1, FifoRead
<1>4. /\ r.num_entries = n /\ r.header_cnt = h /\ r.data_fifo = f.data_fifo
      /\ r.tail_cnt = IF t + 1 >= n THEN 0 ELSE t + 1
  BY DEF Ring!dque_fifo_read, Ring!Wrap, FifoOK, Ring!FifoState
<1>5. m = IF h >= t THEN h - t ELSE h - t + n
  BY DEF Ring!Stored
<1>6. Ring!Stored(r) = m - 1
  BY <1>1, <1>4, <1>5 DEF Ring!Stored
<1>7. Ring!Place(f, 0) = t
  BY <1>1 DEF Ring!Place
<1> HIDE DEF r, m, c
<1>8. m \in Nat \ {0} /\ m < n
  BY <1>1, <1>5
<1>9. Ring!Oldest(f) = c[1]
  <2>1. 1 \in 1 .. m /\ 1 - 1 = 0
    BY <1>8
  <2>2. c[1] = f.data_fifo[Ring!Place(f, 1 - 1)]
    BY <1>2, <2>1
  <2>3. QED
    BY <1>7, <2>1, <2>2 DEF Ring!Oldest
<1>10. ASSUME NEW j \in Nat, j < m - 1
       PROVE  Ring!Place(r, j) = Ring!Place(f, j + 1)
  BY <1>1, <1>4, <1>8, <1>10 DEF Ring!Place
<1>11. e \in Seq(Data \cup {NULL}) /\ Len(e) = m - 1
       /\ \A i \in 1 .. m - 1 : e[i] = c[i + 1]
  BY <1>2, <1>8
<1> HIDE DEF e
<1>12. ASSUME NEW i \in 1 .. Len(e)
       PROVE  e[i] = r.data_fifo[Ring!Place(r, i - 1)]
  <2>1. /\ i \in 1 .. m - 1 /\ i - 1 \in Nat /\ i - 1 < m - 1 /\ (i - 1) + 1 = i
        /\ i + 1 \in 1 .. m /\ (i + 1) - 1 = i
    BY <1>8, <1>11
  <2>2. Ring!Place(r, i - 1) = Ring!Place(f, (i - 1) + 1)
    BY <1>10, <2>1
  <2>3. c[i + 1] = f.data_fifo[Ring!Place(f, (i + 1) - 1)]
    BY <1>2, <2>1
  <2>4. QED
    BY <1>4, <1>11, <2>1, <2>2, <2>3
<1>13. Ring!Contents(r) = e
  BY <1>3, <1>6, <1>11, <1>12, SameContents
<1>14. QED
  BY <1>2, <1>3, <1>4, <1>9, <1>13 DEF e, c, r, Ring!Room

-----------------------------------------------------------------------------
\* The invariant.

kinds == <<"DQUE_WSEND", "DQUE_WRECEIVE">>
Senders == On(k, "DQUE_WSEND")
Getters == On(k, "DQUE_WRECEIVE")

\* Senders wait for a place and receivers for an element.
DqInv == /\ ObjectInv(kinds) /\ FifoOK(fifo)
         /\ data_elem \in [Task -> Data \cup {NULL}]
         /\ Senders # {} => id /\ Ring!Full(fifo)
         /\ Getters # {} => id /\ Ring!Empty(fifo)

LEMMA TwoKinds ==
  /\ Kinds(kinds) /\ WaitLists # <<>> /\ DOMAIN WaitLists = {1, 2}
  /\ kinds[1] = "DQUE_WSEND" /\ kinds[2] = "DQUE_WRECEIVE"
  /\ wait_send_list = WaitLists[1] /\ wait_receive_list = WaitLists[2]
  /\ wait_send_list \in WaitQueue /\ wait_receive_list \in WaitQueue
<1>1. Len(WaitLists) = 2 /\ WaitLists \in Seq(WaitQueue) /\ WaitLists[1] # WaitLists[2]
  BY DqueueAssumption, WaitListsAssumption
<1>2. /\ DOMAIN WaitLists = {1, 2} /\ DOMAIN WaitLists = 1 .. 2 /\ WaitLists # <<>>
      /\ wait_send_list \in WaitQueue /\ wait_receive_list \in WaitQueue
  BY <1>1 DEF wait_send_list, wait_receive_list
<1>3. /\ kinds \in [1 .. 2 -> WaitReason \ {"SLEEP"}] /\ DOMAIN kinds = {1, 2}
      /\ kinds[1] = "DQUE_WSEND" /\ kinds[2] = "DQUE_WRECEIVE"
  BY DEF kinds, WaitReason
<1>4. IsInjective(kinds) /\ IsInjective(WaitLists)
  BY <1>1, <1>2, <1>3 DEF IsInjective
<1>5. QED
  BY <1>1, <1>2, <1>3, <1>4 DEF Kinds, wait_send_list, wait_receive_list

\* The two lists are empty exactly when nobody waits there.
LEMMA QueuesTell ==
  ASSUME DqInv
  PROVE  /\ KernelOK(k) /\ WaitersOK(k, kinds) /\ id \in BOOLEAN
         /\ (noSender <=> Senders = {}) /\ (noReceiver <=> Getters = {})
         /\ \E w : Line(k, wait_send_list, "DQUE_WSEND", w) /\ (w = <<>> <=> Senders = {})
         /\ \E w : Line(k, wait_receive_list, "DQUE_WRECEIVE", w) /\ (w = <<>> <=> Getters = {})
<1>1. KernelOK(k) /\ WaitersOK(k, kinds) /\ id \in BOOLEAN
  BY DEF DqInv, ObjectInv, IInv, ObjectOK
<1>2. /\ \E w : Line(k, wait_send_list, "DQUE_WSEND", w)
      /\ \E w : Line(k, wait_receive_list, "DQUE_WRECEIVE", w)
  BY <1>1, TwoKinds DEF WaitersOK
<1>3. QED
  BY <1>1, <1>2, EmptyLine DEF noSender, noReceiver, Senders, Getters

\* A step after which fewer wait, or the same, and the storage is as before.
LEMMA DqShrinks ==
  ASSUME DqInv, ObjectInv(kinds)', fifo' = fifo,
         data_elem' \in [Task -> Data \cup {NULL}],
         Senders' \subseteq Senders, Getters' \subseteq Getters,
         id' = id \/ (Senders = {} /\ Getters = {})
  PROVE  DqInv'
BY DEF DqInv

\* What a call does when it neither wakes a task nor waits.
LEMMA DqReturns ==
  ASSUME DqInv, k' = k, deleting' = deleting, id' \in BOOLEAN,
         \/ Caller /\ Free /\ Returns /\ task_stk' = task_stk
         \/ /\ InHandler /\ NobodyDeletes /\ HandlerCall(FALSE)
            /\ tick_walk' = tick_walk /\ id' = id
  PROVE  ObjectInv(kinds)' /\ Senders' = Senders /\ Getters' = Getters
<1>1. ObjectInv(kinds)
  BY DEF DqInv
<1>2. ObjectInv(kinds)'
  BY <1>1, CallReturns, HandlerReturns, TwoKinds DEF object
<1>3. QED
  BY <1>2 DEF Senders, Getters

\* A call that wakes the first task of a list that is not empty.
LEMMA DqWakes ==
  ASSUME DqInv, UNCHANGED object, NEW list,
         \/ list = wait_send_list /\ ~noSender
         \/ list = wait_receive_list /\ ~noReceiver,
         \/ Caller /\ Free /\ task_stk' = task_stk /\ WakeFirst(k, list)
         \/ InHandler /\ NobodyDeletes /\ iWakeFirst(k, list)
  PROVE  /\ ObjectInv(kinds)' /\ Senders' \subseteq Senders /\ Getters' \subseteq Getters
         /\ FirstWaiter(k, list) \in AppTask
<1>1. ObjectInv(kinds) /\ WaitersOK(k, kinds) /\ KernelOK(k)
  BY QueuesTell DEF DqInv
<1>a. PICK i \in DOMAIN WaitLists :
        list = WaitLists[i] /\ \E w : Line(k, WaitLists[i], kinds[i], w) /\ w # <<>>
  BY QueuesTell, TwoKinds
<1>2. PICK w : Line(k, WaitLists[i], kinds[i], w) /\ w # <<>>
  BY <1>a
<1>3. ObjectInv(kinds)' /\ LeavesList(kinds, i, w, w[1])
  BY <1>1, <1>a, <1>2, CallWakes, TwoKinds
<1>4. On(k', kinds[1]) \subseteq On(k, kinds[1]) /\ On(k', kinds[2]) \subseteq On(k, kinds[2])
  <2>1. PICK u : u = w[1]
    OBVIOUS
  <2>2. Kinds(kinds) /\ LeavesList(kinds, i, w, u)
    BY <1>3, <2>1, TwoKinds
  <2>3. \A j \in DOMAIN WaitLists : On(k', kinds[j]) = On(k, kinds[j]) \ {u}
    BY <1>1, <2>2, Members
  <2>4. QED
    BY <2>3, TwoKinds
<1>5. FirstWaiter(k, list) \in AppTask
  <2>1. k.q \in Links(Node) /\ Holds(k.q, list, w, Node)
    BY <1>1, <1>a, <1>2 DEF KernelOK, KernelState, Links, Line
  <2>2. k.q.next[list] = w[1] /\ w[1] \in Range(w)
    BY <1>2, <1>3, <2>1, RingRemoveHead DEF LeavesList
  <2>3. Range(w) \subseteq AppTask
    BY <1>1, <1>2, LineTasks, TwoKinds
  <2>4. QED
    BY <2>2, <2>3 DEF FirstWaiter
<1>6. QED
  BY <1>3, <1>4, <1>5, TwoKinds DEF Senders, Getters

\* A call that waits.
LEMMA DqWaits ==
  ASSUME DqInv, UNCHANGED object, Caller, Free, task_stk' = task_stk,
         NEW timeout \in Nat \cup {TN_WAIT_INFINITE}
  PROVE  /\ WaitFor(k, wait_send_list, "DQUE_WSEND", timeout) =>
               ObjectInv(kinds)' /\ Getters' = Getters
         /\ WaitFor(k, wait_receive_list, "DQUE_WRECEIVE", timeout) =>
               ObjectInv(kinds)' /\ Senders' = Senders
<1>1. ObjectInv(kinds) /\ WaitersOK(k, kinds)
  BY QueuesTell DEF DqInv
<1>2. ASSUME NEW i \in DOMAIN WaitLists, WaitFor(k, WaitLists[i], kinds[i], timeout)
      PROVE  ObjectInv(kinds)' /\ \A j \in DOMAIN WaitLists \ {i} : On(k', kinds[j]) = On(k, kinds[j])
  <2>1. PICK w : Line(k, WaitLists[i], kinds[i], w)
    BY <1>1 DEF WaitersOK
  <2>2. ObjectInv(kinds)' /\ JoinsList(kinds, i, w, tn_curr_run_task)
    BY <1>1, <1>2, <2>1, CallWaits, TwoKinds
  <2>3. QED
    BY <1>1, <2>2, Members, TwoKinds
<1>3. QED
  BY <1>2, TwoKinds DEF Senders, Getters

-----------------------------------------------------------------------------
\* The calls.

LEMMA CreateDqOK ==
  ASSUME DqInv, NEW n \in 0 .. MaxEntries, tn_queue_create(n)
  PROVE  DqInv'
<1>1. /\ KernelOK(k) /\ Senders = {} /\ Getters = {} /\ noSender /\ noReceiver
      /\ ~id /\ Caller /\ Free /\ Returns /\ task_stk' = task_stk /\ deleting' = deleting
      /\ id' \in BOOLEAN
  BY QueuesTell DEF DqInv, tn_queue_create, Idle
<1>2. k' = k
  BY <1>1, ResetEmpty DEF tn_queue_create, noSender, noReceiver
<1>3. ObjectInv(kinds)' /\ Senders' = Senders /\ Getters' = Getters
  BY <1>1, <1>2, DqReturns
<1>4. FifoOK(fifo')
  <2>1. n \in Nat /\ 0 \in Nat /\ fifo \in Ring!FifoState
    BY DqueueAssumption DEF DqInv, FifoOK
  <2>2. fifo' = [data_fifo |-> fifo.data_fifo, num_entries |-> n, tail_cnt |-> 0,
                 header_cnt |-> 0]
    BY <2>1 DEF tn_queue_create, NewQueue, Ring!FifoState
  <2>3. fifo.data_fifo \in [0 .. MaxEntries - 1 -> Data \cup {NULL}]
    BY <2>1 DEF Ring!FifoState
  <2>4. QED
    BY <2>1, <2>2, <2>3 DEF FifoOK, Ring!FifoState
<1>5. QED
  BY <1>1, <1>3, <1>4 DEF DqInv, tn_queue_create

\* A receiver that waits gets the element.
LEMMA HandOverOK ==
  ASSUME DqInv, NEW d \in Data, HandOver(d), ~noReceiver, UNCHANGED object,
         \/ Caller /\ Free /\ task_stk' = task_stk /\ WakeFirst(k, wait_receive_list)
         \/ InHandler /\ NobodyDeletes /\ iWakeFirst(k, wait_receive_list)
  PROVE  DqInv'
<1>1. ObjectInv(kinds)' /\ Senders' \subseteq Senders /\ Getters' \subseteq Getters
  BY DqWakes
<1>2. data_elem' \in [Task -> Data \cup {NULL}] /\ fifo' = fifo
  BY DEF DqInv, HandOver
<1>3. QED
  BY <1>1, <1>2, DqShrinks DEF object

\* Without one it is stored, if there is room: then no sender waits either.
LEMMA StoreOK ==
  ASSUME DqInv, NEW d \in Data, Store(d), UNCHANGED object,
         \/ Caller /\ Free /\ Returns /\ task_stk' = task_stk
         \/ InHandler /\ NobodyDeletes /\ HandlerCall(FALSE) /\ tick_walk' = tick_walk
  PROVE  DqInv'
<1>1. Senders = {} /\ Getters = {} /\ id \in BOOLEAN
  BY QueuesTell DEF Store, DqInv
<1>2. ObjectInv(kinds)' /\ Senders' = Senders /\ Getters' = Getters
  BY <1>1, DqReturns DEF Store, object
<1>3. FifoOK(fifo')
  BY FifoWrite DEF Store, DqInv
<1>4. QED
  BY <1>1, <1>2, <1>3 DEF DqInv, Store

LEMMA SendOK ==
  ASSUME DqInv, NEW d \in Data,
         \/ tn_queue_send(d, TN_WAIT_INFINITE) \/ tn_queue_send_polling(d)
         \/ NobodyDeletes /\ tn_queue_isend_polling(d)
  PROVE  DqInv'
<1>1. CASE Idle /\ SendNow(d) /\ UNCHANGED <<task_stk, object>>
  BY <1>1, HandOverOK, StoreOK DEF SendNow, Idle
<1>2. CASE NobodyDeletes /\ tn_queue_isend_polling(d)
  BY <1>2, HandOverOK, StoreOK DEF tn_queue_isend_polling
<1>3. CASE /\ Idle /\ id /\ noReceiver /\ Ring!Full(fifo) /\ UNCHANGED <<task_stk, object>>
           /\ WaitFor(k, wait_send_list, "DQUE_WSEND", TN_WAIT_INFINITE)
           /\ data_elem' = [data_elem EXCEPT ![tn_curr_run_task] = d] /\ fifo' = fifo
  <2>1. TN_WAIT_INFINITE \in Nat \cup {TN_WAIT_INFINITE}
    OBVIOUS
  <2>2. ObjectInv(kinds)' /\ Getters' = Getters
    BY <1>3, <2>1, DqWaits DEF Idle
  <2>3. Getters = {}
    BY <1>3, QueuesTell
  <2>4. QED
    BY <1>3, <2>2, <2>3 DEF DqInv, object
<1>4. QED
  BY <1>1, <1>2, <1>3 DEF tn_queue_send, tn_queue_send_polling

\* A receiver frees a place, and a sender that waits fills it again.
LEMMA TakeOK ==
  ASSUME DqInv, Take, ~noSender => FirstSender \in AppTask
  PROVE  /\ FifoOK(fifo')
         /\ ~noSender => Ring!Full(fifo')
         /\ Getters # {} => Ring!Empty(fifo')
<1>1. (noSender <=> Senders = {}) /\ FifoOK(fifo)
  BY QueuesTell DEF DqInv
<1>2. CASE Ring!Empty(fifo) /\ ~noSender /\ fifo' = fifo
  BY <1>1, <1>2 DEF DqInv
<1>3. CASE ~Ring!Empty(fifo) /\ noSender
  BY <1>1, <1>3, FifoRead DEF DqInv, Take
<1>4. CASE ~Ring!Empty(fifo) /\ ~noSender
  <2> DEFINE d == data_elem[FirstSender]
             r == Ring!dque_fifo_read(fifo)
  <2>1. d \in Data \cup {NULL} /\ fifo' = Ring!dque_fifo_write(r, d) /\ Ring!Full(fifo)
    BY <1>1, <1>4 DEF DqInv, Take, Task
  <2>2. FifoOK(r) /\ Ring!Full(fifo')
    BY <1>1, <1>4, <2>1, FifoRead
  <2> HIDE DEF d, r
  <2>3. FifoOK(fifo')
    BY <2>1, <2>2, FifoWrite
  <2>4. QED
    BY <1>4, <2>2, <2>3 DEF DqInv
<1>5. QED
  BY <1>2, <1>3, <1>4 DEF Take

LEMMA TakesNowOK ==
  ASSUME DqInv, id, Take, UNCHANGED <<object, data_elem>>,
         \/ Caller /\ Free /\ task_stk' = task_stk
            /\ \/ noSender /\ Returns /\ UNCHANGED k
               \/ ~noSender /\ WakeFirst(k, wait_send_list)
         \/ InHandler /\ NobodyDeletes
            /\ \/ noSender /\ HandlerCall(FALSE) /\ UNCHANGED <<k, tick_walk>>
               \/ ~noSender /\ iWakeFirst(k, wait_send_list)
  PROVE  DqInv'
<1>1. id' = id /\ id \in BOOLEAN /\ deleting' = deleting /\ data_elem' = data_elem
      /\ (noSender <=> Senders = {})
  BY QueuesTell DEF object
<1>2. /\ ObjectInv(kinds)' /\ Senders' \subseteq Senders /\ Getters' \subseteq Getters
      /\ ~noSender => FirstSender \in AppTask
  <2>1. CASE noSender
    BY <1>1, <2>1, DqReturns
  <2>2. CASE ~noSender
    BY <2>2, DqWakes DEF FirstSender
  <2>3. QED
    BY <2>1, <2>2
<1>3. /\ FifoOK(fifo') /\ (~noSender => Ring!Full(fifo'))
      /\ (Getters # {} => Ring!Empty(fifo'))
  BY <1>2, TakeOK
<1>4. QED
  BY <1>1, <1>2, <1>3 DEF DqInv

LEMMA ReceiveOK ==
  ASSUME DqInv,
         \/ tn_queue_receive(TN_WAIT_INFINITE) \/ tn_queue_receive_polling
         \/ NobodyDeletes /\ tn_queue_ireceive
  PROVE  DqInv'
<1>1. CASE Idle /\ id /\ ReceiveNow /\ UNCHANGED <<task_stk, object, data_elem>>
  BY <1>1, TakesNowOK DEF ReceiveNow, Idle
<1>2. CASE NobodyDeletes /\ tn_queue_ireceive
  BY <1>2, TakesNowOK DEF tn_queue_ireceive
<1>3. CASE /\ Idle /\ id /\ noSender /\ Ring!Empty(fifo) /\ fifo' = fifo
           /\ UNCHANGED <<task_stk, object, data_elem>>
           /\ WaitFor(k, wait_receive_list, "DQUE_WRECEIVE", TN_WAIT_INFINITE)
  <2>1. TN_WAIT_INFINITE \in Nat \cup {TN_WAIT_INFINITE}
    OBVIOUS
  <2>2. ObjectInv(kinds)' /\ Senders' = Senders
    BY <1>3, <2>1, DqWaits DEF Idle
  <2>3. Senders = {}
    BY <1>3, QueuesTell
  <2>4. QED
    BY <1>3, <2>2, <2>3 DEF DqInv, object
<1>4. QED
  BY <1>1, <1>2, <1>3 DEF tn_queue_receive, tn_queue_receive_polling

-----------------------------------------------------------------------------
\* The steps that move no element, and every step.

LEMMA DqOthersOK ==
  ASSUME DqInv, ObjectStep, fifo' = fifo, data_elem' \in [Task -> Data \cup {NULL}]
  PROVE  DqInv'
<1>1. /\ ObjectInv(kinds) /\ WaitersOK(k, kinds) /\ KernelOK(k)
      /\ (noSender <=> Senders = {}) /\ (noReceiver <=> Getters = {})
  BY QueuesTell DEF DqInv
<1>2. /\ ObjectInv(kinds)'
      /\ \/ SameLines(k, k', kinds)
         \/ \E i \in DOMAIN WaitLists : \E w, t : LeavesList(kinds, i, w, t)
      /\ id' = id \/ \A j \in DOMAIN WaitLists : NoWaiters(j)
  BY <1>1, ObjectStepOK, TwoKinds
<1>3. Senders' \subseteq Senders /\ Getters' \subseteq Getters
  <2>1. Kinds(kinds)
    BY TwoKinds
  <2>2. ASSUME NEW i \in DOMAIN WaitLists, NEW w, NEW t,
               SameLines(k, k', kinds) \/ LeavesList(kinds, i, w, t)
        PROVE  \A j \in DOMAIN WaitLists : On(k', kinds[j]) \subseteq On(k, kinds[j])
    <3>1. \/ \A j \in DOMAIN WaitLists : On(k', kinds[j]) = On(k, kinds[j])
          \/ \A j \in DOMAIN WaitLists : On(k', kinds[j]) = On(k, kinds[j]) \ {t}
      BY <1>1, <2>1, <2>2, Members
    <3>2. QED
      BY <3>1
  <2>3. \A j \in DOMAIN WaitLists : On(k', kinds[j]) \subseteq On(k, kinds[j])
    BY <1>2, <2>2, TwoKinds
  <2>4. QED
    BY <2>3, TwoKinds DEF Senders, Getters
<1>4. id' = id \/ (Senders = {} /\ Getters = {})
  BY <1>1, <1>2, TwoKinds DEF NoWaiters, noSender, noReceiver
<1>5. QED
  BY <1>2, <1>3, <1>4, DqShrinks

LEMMA DqInitOK ==
  ASSUME DqInit
  PROVE  DqInv
<1>1. ObjectInv(kinds) /\ Senders = {} /\ Getters = {}
  BY ObjectInitOK, TwoKinds DEF DqInit, Senders, Getters, On
<1>2. FifoOK(fifo)
  BY DqueueAssumption DEF DqInit, FifoOK, Ring!FifoState
<1>3. data_elem \in [Task -> Data \cup {NULL}]
  BY DEF DqInit
<1>4. QED
  BY <1>1, <1>2, <1>3 DEF DqInv

LEMMA DqStepOK ==
  ASSUME DqInv, DqNext
  PROVE  DqInv'
<1>1. CASE DqCall
  BY <1>1, CreateDqOK, SendOK, ReceiveOK DEF DqCall
<1>2. CASE NobodyDeletes /\ DqInterrupt
  BY <1>2, SendOK, ReceiveOK DEF DqInterrupt
<1>3. CASE Undisturbed /\ Delete
  <2>1. ObjectStep /\ fifo' = fifo /\ data_elem' = data_elem
    BY <1>3 DEF Delete, dqueue, ObjectStep
  <2>2. QED
    BY <2>1, DqOthersOK DEF DqInv
<1>4. CASE Others
  <2>1. CASE ReceiveEnd
    BY <2>1 DEF ReceiveEnd, DqInv, Senders, Getters, ObjectInv, IInv, Control, Settled, Right,
                WaitersOK, ObjectOK, DeletersOK, Deletes, NoWaiters, vars, object
  <2>2. CASE /\ \/ DeleteSteps \/ Start \/ Enter \/ Leave \/ Switch
                \/ \E t \in AppTask : /\ Idle /\ UNCHANGED object
                                      /\ \/ tn_task_suspend(t) \/ tn_task_resume(t)
                                         \/ tn_task_activate(t)
             /\ taken' = None /\ UNCHANGED dqueue
    <3>1. ObjectStep /\ fifo' = fifo /\ data_elem' = data_elem
      BY <2>2 DEF ObjectStep, TaskCall, Idle, dqueue
    <3>2. QED
      BY <3>1, DqOthersOK DEF DqInv
  <2>3. CASE /\ \/ \E t \in AppTask : Idle /\ ~Sleeping(t) /\ Terminate(t) /\ Forget(t)
                \/ Idle /\ tn_task_exit(FALSE) /\ UNCHANGED object /\ Forget(tn_curr_run_task)
             /\ taken' = None /\ UNCHANGED fifo
    <3>1. ObjectStep
      BY <2>3 DEF ObjectStep, TaskCall, Idle
    <3>2. data_elem' \in [Task -> Data \cup {NULL}] /\ fifo' = fifo
      BY <2>3 DEF Forget, DqInv
    <3>3. QED
      BY <3>1, <3>2, DqOthersOK
  <2>4. QED
    BY <1>4, <2>1, <2>2, <2>3 DEF Others
<1>5. QED
  BY <1>1, <1>2, <1>3, <1>4 DEF DqNext

LEMMA DqStays ==
  ASSUME DqInv, UNCHANGED all
  PROVE  DqInv'
BY DEF all, dqueue, DqInv, Senders, Getters, ObjectInv, IInv, Control, Settled, Right,
       WaitersOK, ObjectOK, DeletersOK, Deletes, NoWaiters, vars, object

THEOREM DqInvariant == DqSpec => []DqInv
<1>1. DqInv /\ [DqNext]_all => DqInv'
  BY DqStepOK, DqStays
<1>2. QED
  BY <1>1, DqInitOK, PTL DEF DqSpec

\* What the invariant says of the properties.
LEMMA DqSoundFrom ==
  ASSUME DqInv
  PROVE  DqSound
<1>1. PICK w : Line(k, wait_send_list, "DQUE_WSEND", w)
  BY QueuesTell
<1>2. PICK v : Line(k, wait_receive_list, "DQUE_WRECEIVE", v)
  BY QueuesTell
<1>3. Waiters("DQUE_WSEND") = Senders /\ WaitListSound(wait_send_list, "DQUE_WSEND")
  BY <1>1, LineOrder DEF Line, Senders
<1>4. Waiters("DQUE_WRECEIVE") = Getters /\ WaitListSound(wait_receive_list, "DQUE_WRECEIVE")
  BY <1>2, LineOrder DEF Line, Getters
<1>5. TypeOK
  BY TypesFrom DEF DqInv, ObjectInv
<1>6. ObjectTypeOK
  BY <1>5 DEF DqInv, ObjectInv, ObjectOK, ObjectTypeOK
<1>7. QED
  BY <1>3, <1>4, <1>6 DEF DqSound, DqInv, FifoOK

-----------------------------------------------------------------------------
\* The channel: the senders that wait, as the channel sees them.

Elements == Data \cup {NULL}
Sent(w, e) == [i \in DOMAIN w |-> [from |-> w[i], elem |-> e[w[i]]]]
Offers(e) == {[from |-> t, elem |-> e[t]] : t \in Task}

LEMMA SentIs ==
  ASSUME NEW w \in Seq(Task), NEW e
  PROVE  /\ Sent(w, e) \in Seq(Offers(e))
         /\ Len(Sent(w, e)) = Len(w) /\ DOMAIN Sent(w, e) = 1 .. Len(w)
         /\ \A i \in 1 .. Len(w) : Sent(w, e)[i] = [from |-> w[i], elem |-> e[w[i]]]
         /\ Sent(w, e) = <<>> <=> w = <<>>
<1>1. Len(w) \in Nat /\ DOMAIN w = 1 .. Len(w) /\ \A i \in 1 .. Len(w) : w[i] \in Task
  OBVIOUS
<1>2. \A i \in 1 .. Len(w) : [from |-> w[i], elem |-> e[w[i]]] \in Offers(e)
  BY <1>1 DEF Offers
<1>3. /\ Sent(w, e) \in Seq(Offers(e)) /\ Len(Sent(w, e)) = Len(w)
      /\ DOMAIN Sent(w, e) = 1 .. Len(w)
      /\ \A i \in 1 .. Len(w) : Sent(w, e)[i] = [from |-> w[i], elem |-> e[w[i]]]
  BY <1>1, <1>2 DEF Sent
<1>4. Sent(w, e) = <<>> <=> w = <<>>
  BY <1>1, <1>3
<1>5. QED
  BY <1>3, <1>4

\* It depends only on the elements of the tasks in w.
LEMMA SentSame ==
  ASSUME NEW w \in Seq(Task), NEW e, NEW f, \A t \in Range(w) : e[t] = f[t]
  PROVE  Sent(w, e) = Sent(w, f)
BY DEF Sent, Range

\* A task that joins them, and what it offers.
Joined(w, t) == Append(w, t)
Offered(b, t, d) == Append(b, [from |-> t, elem |-> d])

LEMMA SentAppend ==
  ASSUME NEW w \in Seq(Task), NEW t \in Task, t \notin Range(w), NEW e, NEW f,
         \A u \in Task \ {t} : e[u] = f[u]
  PROVE  Sent(Joined(w, t), f) = Offered(Sent(w, e), t, f[t])
<1> DEFINE n == Len(w)
           r == [from |-> t, elem |-> f[t]]
           x == Joined(w, t)
           b == Sent(w, e)
           c == Sent(x, f)
           S == Offers(e) \cup {r}
<1>1. n \in Nat /\ DOMAIN w = 1 .. n /\ \A i \in 1 .. n : w[i] \in Task \ {t}
  BY DEF Range
<1>2. x \in Seq(Task) /\ Len(x) = n + 1 /\ x[n + 1] = t /\ \A i \in 1 .. n : x[i] = w[i]
  BY <1>1 DEF Joined
<1> HIDE DEF x
<1>3. /\ b \in Seq(Offers(e)) /\ Len(b) = n
      /\ \A i \in 1 .. n : b[i] = [from |-> w[i], elem |-> e[w[i]]]
  BY SentIs
<1>4. /\ c \in Seq(Offers(f)) /\ Len(c) = n + 1
      /\ \A i \in 1 .. n + 1 : c[i] = [from |-> x[i], elem |-> f[x[i]]]
  <2>1. /\ c \in Seq(Offers(f)) /\ Len(c) = Len(x)
        /\ \A i \in 1 .. Len(x) : c[i] = [from |-> x[i], elem |-> f[x[i]]]
    <3>1. x \in Seq(Task)
      BY <1>2
    <3>2. QED
      BY ONLY <3>1, SentIs
  <2>2. QED
    BY <1>2, <2>1
<1>5. \A i \in 1 .. n : c[i] = b[i]
  <2> TAKE i \in 1 .. n
  <2>1. x[i] = w[i] /\ w[i] \in Task \ {t} /\ i \in 1 .. n + 1
    BY <1>1, <1>2
  <2>2. e[w[i]] = f[w[i]]
    BY <2>1
  <2>3. QED
    BY <1>3, <1>4, <2>1, <2>2
<1>6. c[n + 1] = r
  BY <1>1, <1>2, <1>4
<1>7. b \in Seq(S) /\ r \in S
  BY <1>3
<1> HIDE DEF b, c, r, S, n
<1>8. c = Append(b, r)
  BY <1>1, <1>3, <1>4, <1>5, <1>6, <1>7
<1>9. QED
  BY <1>8 DEF b, c, r, x, Offered

LEMMA SentTail ==
  ASSUME NEW w \in Seq(Task), w # <<>>, NEW e, NEW x, x = Tail(w)
  PROVE  Sent(x, e) = Tail(Sent(w, e)) /\ Sent(w, e) # <<>> /\ x \in Seq(Task)
<1> DEFINE n == Len(w)
           b == Sent(w, e)
           c == Sent(x, e)
<1>1. n \in Nat \ {0} /\ x \in Seq(Task) /\ Len(x) = n - 1
      /\ \A i \in 1 .. n - 1 : x[i] = w[i + 1]
  OBVIOUS
<1>2. /\ b \in Seq(Offers(e)) /\ Len(b) = n
      /\ \A i \in 1 .. n : b[i] = [from |-> w[i], elem |-> e[w[i]]] /\ b # <<>>
  BY SentIs
<1>3. /\ c \in Seq(Offers(e)) /\ Len(c) = n - 1
      /\ \A i \in 1 .. n - 1 : c[i] = [from |-> x[i], elem |-> e[x[i]]]
  <2>1. /\ c \in Seq(Offers(e)) /\ Len(c) = Len(x)
        /\ \A i \in 1 .. Len(x) : c[i] = [from |-> x[i], elem |-> e[x[i]]]
    <3>1. x \in Seq(Task)
      BY <1>1
    <3>2. QED
      BY ONLY <3>1, SentIs
  <2>2. QED
    BY <1>1, <2>1
<1>4. \A i \in 1 .. n - 1 : c[i] = b[i + 1]
  <2> TAKE i \in 1 .. n - 1
  <2>1. i + 1 \in 1 .. n /\ x[i] = w[i + 1]
    BY <1>1
  <2>2. QED
    BY <1>2, <1>3, <2>1
<1> HIDE DEF b, c, n
<1>5. c = Tail(b)
  BY <1>1, <1>2, <1>3, <1>4
<1>6. QED
  BY <1>1, <1>2, <1>5 DEF b, c

\* Without its i-th entry.
LEMMA RemoveAtIs ==
  ASSUME NEW S, NEW s \in Seq(S), NEW i \in 1 .. Len(s)
  PROVE  RemoveAt(s, i) = [j \in 1 .. Len(s) - 1 |-> IF j < i THEN s[j] ELSE s[j + 1]]
<1> DEFINE n == Len(s)
           a == SubSeq(s, 1, i - 1)
           b == SubSeq(s, i + 1, n)
           r == RemoveAt(s, i)
<1>1. n \in Nat /\ i \in Nat /\ 1 <= i /\ i <= n
  OBVIOUS
<1>2. r = a \o b
  BY DEF RemoveAt
<1>3. a \in Seq(S) /\ Len(a) = i - 1 /\ \A j \in 1 .. i - 1 : a[j] = s[j]
  BY <1>1
<1>4. b \in Seq(S) /\ Len(b) = n - i /\ \A j \in 1 .. n - i : b[j] = s[j + i]
  BY <1>1
<1> HIDE DEF r, a, b
<1>5. /\ r \in Seq(S) /\ Len(r) = n - 1
      /\ \A j \in 1 .. i - 1 : r[j] = a[j]
      /\ \A j \in 1 .. n - i : r[j + (i - 1)] = b[j]
  <2>1. Len(a) + Len(b) = n - 1
    BY <1>1, <1>3, <1>4
  <2>2. r \in Seq(S) /\ Len(r) = Len(a) + Len(b)
    BY <1>2, <1>3, <1>4, ConcatProperties
  <2>3. \A j \in 1 .. i - 1 : r[j] = a[j]
    BY <1>1, <1>2, <1>3, <1>4
  <2>4. \A j \in 1 .. n - i : r[j + (i - 1)] = b[j]
    BY <1>1, <1>2, <1>3, <1>4
  <2>5. QED
    BY <2>1, <2>2, <2>3, <2>4
<1> HIDE DEF n
<1>6. ASSUME NEW j \in 1 .. n - 1
      PROVE  r[j] = IF j < i THEN s[j] ELSE s[j + 1]
  <2>1. CASE j < i
    BY <1>1, <1>3, <1>5, <2>1
  <2>2. CASE ~(j < i)
    <3> DEFINE m == j - (i - 1)
    <3>1. m \in 1 .. n - i /\ m + (i - 1) = j /\ m + i = j + 1
      BY <1>1, <2>2
    <3>2. r[m + (i - 1)] = b[m] /\ b[m] = s[m + i]
      BY <1>4, <1>5, <3>1
    <3>3. QED
      BY <2>2, <3>1, <3>2
  <2>3. QED
    BY <2>1, <2>2
<1>7. r = [j \in 1 .. n - 1 |-> IF j < i THEN s[j] ELSE s[j + 1]]
  BY <1>1, <1>5, <1>6
<1>8. QED
  BY <1>7 DEF r, n

\* The line of t without t, and the channel's without the sender t.
LEMMA SentWithout ==
  ASSUME NEW w \in Seq(Task), IsInjective(w), NEW t \in Range(w), NEW e, NEW f,
         \A u \in Range(w) \ {t} : e[u] = f[u], NEW x, x = RemoveFirst(w, t)
  PROVE  \E i \in 1 .. Len(w) : x = RemoveAt(w, i) /\ Sent(x, f) = RemoveAt(Sent(w, e), i)
<1> DEFINE n == Len(w)
           b == Sent(w, e)
           c == Sent(x, f)
           S == Offers(e)
<1>1. n \in Nat /\ DOMAIN w = 1 .. n /\ (\A i \in 1 .. n : w[i] \in Task)
      /\ \E i \in 1 .. n : w[i] = t
  BY DEF Range
<1>2. PICK i \in 1 .. n : w[i] = t /\ x = [j \in 1 .. n - 1 |-> IF j < i THEN w[j] ELSE w[j + 1]]
  <2>1. w \in Seq(Task) /\ x = RemoveFirst(w, t) /\ \E i \in 1 .. Len(w) : w[i] = t
    BY <1>1
  <2>2. QED
    BY ONLY <2>1, RemoveFirstIs
<1>3. RemoveAt(w, i) = [j \in 1 .. n - 1 |-> IF j < i THEN w[j] ELSE w[j + 1]]
  BY RemoveAtIs
<1>4. b \in Seq(S) /\ Len(b) = n
      /\ \A j \in 1 .. n : b[j] = [from |-> w[j], elem |-> e[w[j]]]
  BY SentIs
<1>5. RemoveAt(b, i) = [j \in 1 .. n - 1 |-> IF j < i THEN b[j] ELSE b[j + 1]]
  BY <1>4, RemoveAtIs
<1>6. DOMAIN x = 1 .. n - 1 /\ \A j \in 1 .. n - 1 : x[j] = IF j < i THEN w[j] ELSE w[j + 1]
  BY <1>2
<1>7. \A j \in 1 .. n : j # i => w[j] \in Range(w) \ {t}
  BY <1>1, <1>2 DEF IsInjective, Range
<1>8. c = [j \in 1 .. n - 1 |-> [from |-> x[j], elem |-> f[x[j]]]]
  BY <1>6 DEF Sent
<1> HIDE DEF b, c, n
<1>9. ASSUME NEW j \in 1 .. n - 1
      PROVE  [from |-> x[j], elem |-> f[x[j]]] = IF j < i THEN b[j] ELSE b[j + 1]
  <2>1. j \in 1 .. n /\ j + 1 \in 1 .. n /\ i \in Nat /\ j \in Nat
    BY <1>1
  <2>2. CASE j < i
    BY <1>4, <1>6, <1>7, <2>1, <2>2
  <2>3. CASE ~(j < i)
    <3>1. j + 1 # i
      BY <2>1, <2>3
    <3>2. x[j] = w[j + 1] /\ e[w[j + 1]] = f[w[j + 1]]
      BY <1>6, <1>7, <2>1, <2>3, <3>1
    <3>3. QED
      BY <1>4, <2>1, <2>3, <3>2
  <2>4. QED
    BY <2>2, <2>3
<1>10. c = RemoveAt(b, i)
  BY <1>5, <1>8, <1>9
<1>11. QED
  BY <1>2, <1>3, <1>10 DEF b, c, n

-----------------------------------------------------------------------------
\* The channel: what it sees of a state.

\* Whoever waits in tn_queue_receive will return from it, and whoever will
\* return from it waits nowhere else.
ReceivingOK ==
  /\ receiving \in [Task -> BOOLEAN]
  /\ \A t \in Task : receiving[t] => /\ t \in AppTask /\ t \in k.created
                                     /\ t \in Waits(k) => t \in Getters
  /\ \A t \in Getters : receiving[t]
ChInv == DqInv /\ ReceivingOK

\* The two wait queues of a kernel state s.
Looks(s, w, v) == /\ Line(s, wait_send_list, "DQUE_WSEND", w)
                  /\ Line(s, wait_receive_list, "DQUE_WRECEIVE", v)

LEMMA View ==
  ASSUME DqInv, NEW w, NEW v, Looks(k, w, v)
  PROVE  /\ w \in Seq(Task) /\ IsInjective(w) /\ Range(w) = Senders /\ Range(w) \subseteq AppTask
         /\ v \in Seq(Task) /\ IsInjective(v) /\ Range(v) = Getters /\ Range(v) \subseteq AppTask
         /\ (w = <<>> <=> noSender) /\ (v = <<>> <=> noReceiver)
         /\ Blocked = Sent(w, data_elem) /\ Receivers = v
         /\ Range(w) \cap Range(v) = {}
<1>1. KernelOK(k) /\ WaitersOK(k, kinds)
  BY QueuesTell
<1>2. /\ Line(k, wait_send_list, "DQUE_WSEND", w) /\ Line(k, wait_receive_list, "DQUE_WRECEIVE", v)
      /\ Line(k, WaitLists[1], kinds[1], w) /\ Line(k, WaitLists[2], kinds[2], v)
  BY TwoKinds DEF Looks
<1>3. Range(w) \subseteq AppTask /\ Range(v) \subseteq AppTask
  BY <1>1, <1>2, LineTasks, TwoKinds
<1>4. Range(w) = Senders /\ Range(v) = Getters /\ Range(w) \cap Range(v) = {}
  BY <1>2 DEF Line, Senders, Getters, On
<1>5. ASSUME NEW que, NEW reason, NEW x, Line(k, que, reason, x), Range(x) \subseteq AppTask
      PROVE  x \in Seq(Task) /\ IsInjective(x)
  <2>1. x \in Seq(Node \ {que}) /\ IsInjective(x) /\ \A i \in 1 .. Len(x) : x[i] \in AppTask
    BY <1>5 DEF Line, Holds, Range
  <2>2. \A i \in 1 .. Len(x) : x[i] \in Task
    BY <2>1, Nodes
  <2>3. QED
    BY <2>1, <2>2
<1>6. (w = <<>> <=> noSender) /\ (v = <<>> <=> noReceiver)
  BY <1>1, <1>2, EmptyLine DEF noSender, noReceiver
<1>7. Blocked = Sent(w, data_elem) /\ Receivers = v
  BY <1>2, LineOrder DEF Blocked, Receivers, Sent
<1>8. QED
  BY <1>2, <1>3, <1>4, <1>5, <1>6, <1>7

LEMMA ViewAfter ==
  ASSUME NEW w, NEW v, Looks(k', w, v)
  PROVE  Blocked' = Sent(w, data_elem') /\ Receivers' = v
<1>1. /\ Line(k', wait_send_list, "DQUE_WSEND", w)
      /\ Line(k', wait_receive_list, "DQUE_WRECEIVE", v)
  BY DEF Looks
<1>2. /\ (CHOOSE u \in SetToSeqs(On(k', "DQUE_WSEND")) : IsRing(k'.q, wait_send_list, u)) = w
      /\ (CHOOSE u \in SetToSeqs(On(k', "DQUE_WRECEIVE")) :
             IsRing(k'.q, wait_receive_list, u)) = v
  BY <1>1, LineChoice
<1>3. \A x : Waiters(x)' = On(k', x)
  BY DEF Waiters, On, Waits
<1>4. /\ Order(wait_send_list, "DQUE_WSEND")' = w
      /\ Order(wait_receive_list, "DQUE_WRECEIVE")' = v
  BY <1>2, <1>3, Zenon DEF Order, wait_send_list, wait_receive_list
<1>5. QED
  BY <1>4 DEF Blocked, Receivers, Sent

LEMMA SomeView == DqInv => \E w, v : Looks(k, w, v)
BY QueuesTell DEF Looks

\* What is with the receivers stays there,
LEMMA HandedSame ==
  ASSUME \A t \in AppTask : /\ Served(t)' <=> Served(t)
                            /\ Served(t) => data_elem'[t] = data_elem[t]
  PROVE  Handed' = Handed
BY DEF Handed

\* but for that of one task.
LEMMA HandedSet ==
  ASSUME NEW u \in AppTask, NEW d,
         \A t \in AppTask \ {u} : /\ Served(t)' <=> Served(t)
                                  /\ Served(t) => data_elem'[t] = data_elem[t],
         IF Served(u)' THEN data_elem'[u] = d ELSE d = None
  PROVE  Handed' = [Handed EXCEPT ![u] = d]
BY DEF Handed

\* The tasks of U leave their lists.
LEMMA ReceivingFrame ==
  ASSUME ReceivingOK, receiving' = receiving, k.created \subseteq k'.created,
         NEW U, Getters' = Getters \ U,
         Waits(k') \subseteq (Waits(k) \ U) \cup {tn_timer_task}
  PROVE  ReceivingOK'
<1>1. tn_timer_task \notin AppTask
  BY Nodes
<1>2. QED
  BY <1>1 DEF ReceivingOK

-----------------------------------------------------------------------------
\* The calls, as steps of the channel.

\* A receiver that waits gets the element and keeps it until it runs.
LEMMA ChHandOver ==
  ASSUME ChInv, NEW d \in Data, id, UNCHANGED object, receiving' = receiving, taken' = None,
         HandOver(d), ~noReceiver,
         \/ Caller /\ Free /\ task_stk' = task_stk /\ WakeFirst(k, wait_receive_list)
         \/ InHandler /\ NobodyDeletes /\ iWakeFirst(k, wait_receive_list)
  PROVE  ReceivingOK' /\ Promise!Send(d)
<1>1. PICK w, v : Looks(k, w, v)
  BY SomeView DEF ChInv
<1>2. /\ v \in Seq(Task) /\ v # <<>> /\ Range(v) = Getters /\ w \in Seq(Task)
      /\ Range(w) \subseteq AppTask /\ Range(w) \cap Range(v) = {}
      /\ Blocked = Sent(w, data_elem) /\ Receivers = v
  BY <1>1, View DEF ChInv
<1>u. PICK u : u = v[1]
  OBVIOUS
<1>3. /\ FirstWaiter(k, wait_receive_list) = u /\ u \in AppTask /\ u \in Waits(k)
      /\ Looks(k', w, Tail(v)) /\ Waits(k') = Waits(k) \ {u} /\ Getters' = Getters \ {u}
      /\ k'.created = k.created /\ k'.task_wait_rc[u] = "TERR_NO_ERR"
      /\ \A t \in Task \ {u} : k'.task_wait_rc[t] = k.task_wait_rc[t]
  <2>1. 2 \in DOMAIN WaitLists /\ Line(k, WaitLists[2], kinds[2], v) /\ ObjectInv(kinds)
        /\ wait_receive_list = WaitLists[2] /\ Kinds(kinds)
    BY <1>1, TwoKinds DEF ChInv, DqInv, Looks
  <2>2. /\ FirstWaiter(k, WaitLists[2]) = u /\ u \in AppTask /\ u \in Waits(k)
        /\ Line(k', WaitLists[2], kinds[2], Tail(v)) /\ Waits(k') = Waits(k) \ {u}
        /\ \A j \in DOMAIN WaitLists \ {2} : \A x :
              Line(k, WaitLists[j], kinds[j], x) => Line(k', WaitLists[j], kinds[j], x)
        /\ \A j \in DOMAIN WaitLists : On(k', kinds[j]) = On(k, kinds[j]) \ {u}
        /\ k'.created = k.created /\ k'.task_wait_rc[u] = "TERR_NO_ERR"
        /\ \A t \in Task \ {u} : k'.task_wait_rc[t] = k.task_wait_rc[t]
    <3>1. /\ UNCHANGED object /\ v # <<>>
          /\ \/ Caller /\ Free /\ task_stk' = task_stk /\ WakeFirst(k, WaitLists[2])
             \/ InHandler /\ NobodyDeletes /\ iWakeFirst(k, WaitLists[2])
      BY <1>2, <2>1
    <3>2. WokenFirst(kinds, 2, v, u)
      BY ONLY <1>u, <2>1, <3>1, WakesOne
    <3>3. QED
      BY <3>2 DEF WokenFirst
  <2>3. QED
    BY <1>1, <2>2, TwoKinds DEF Looks, Getters
<1>4. u \in Range(v) /\ u = Head(v) /\ u \notin Range(w)
  BY <1>2, <1>u DEF Range
<1>5. ReceivingOK'
  BY <1>3, ReceivingFrame DEF ChInv
<1>6. data_elem' = [data_elem EXCEPT ![u] = d] /\ fifo' = fifo /\ u \in Task
      /\ data_elem \in [Task -> Data \cup {NULL}]
  BY <1>3, Nodes DEF HandOver, ChInv, DqInv
<1>7. Handed' = [Handed EXCEPT ![u] = d]
  <2>1. \A t \in AppTask \ {u} : (Served(t)' <=> Served(t)) /\ data_elem'[t] = data_elem[t]
    BY <1>3, <1>6, Nodes DEF Served, Waits
  <2>2. Served(u)' /\ data_elem'[u] = d
    <3>1. receiving'[u] /\ u \notin Waits(k')
      BY <1>2, <1>3, <1>4 DEF ChInv, ReceivingOK
    <3>2. QED
      BY <1>3, <1>6, <3>1 DEF Served, Waits
  <2>3. QED
    BY <1>3, <2>1, <2>2, HandedSet
<1>8. Sent(w, data_elem') = Sent(w, data_elem)
  <2>1. \A t \in Range(w) : data_elem'[t] = data_elem[t]
    BY <1>2, <1>4, <1>6, Nodes
  <2>2. QED
    BY <1>2, <2>1, SentSame
<1>9. Blocked' = Blocked /\ Receivers' = Tail(v)
  BY <1>2, <1>3, <1>8, ViewAfter
<1>10. Promise!Send(d)
  BY <1>2, <1>4, <1>6, <1>7, <1>9 DEF Promise!Send, object
<1>11. QED
  BY <1>5, <1>10

\* An element that is stored goes behind those there are.
LEMMA ChStore ==
  ASSUME ChInv, NEW d \in Data, id, UNCHANGED object, receiving' = receiving, taken' = None,
         Store(d)
  PROVE  ReceivingOK' /\ Promise!Send(d)
<1>1. PICK w, v : Looks(k, w, v)
  BY SomeView DEF ChInv
<1>2. k' = k /\ data_elem' = data_elem /\ noReceiver /\ ~Ring!Full(fifo)
      /\ fifo' = Ring!dque_fifo_write(fifo, d) /\ FifoOK(fifo) /\ d \in Data \cup {NULL}
  BY DEF Store, ChInv, DqInv
<1>3. Receivers = <<>>
  BY <1>1, <1>2, View DEF ChInv
<1>4. Blocked' = Blocked /\ Receivers' = Receivers
  BY <1>1, <1>2, View, ViewAfter DEF ChInv
<1>5. Handed' = Handed
  BY <1>2, HandedSame DEF Served
<1>6. /\ Ring!Contents(fifo') = Append(Ring!Contents(fifo), d) /\ Ring!Room(fifo') = Ring!Room(fifo)
  BY <1>2, WriteContents
<1>7. Len(Ring!Contents(fifo)) < Ring!Room(fifo)
  BY <1>2, FifoContents
<1>8. ReceivingOK'
  BY <1>2 DEF ChInv, ReceivingOK, Getters
<1>9. Promise!Send(d)
  BY <1>3, <1>4, <1>5, <1>6, <1>7 DEF Promise!Send, object
<1>10. QED
  BY <1>8, <1>9

\* A sender waits when the storage is full and nobody waits for an element.
LEMMA ChBlock ==
  ASSUME ChInv, NEW d \in Data, id, Idle, UNCHANGED <<task_stk, object, receiving>>,
         taken' = None, noReceiver, Ring!Full(fifo), fifo' = fifo,
         data_elem' = [data_elem EXCEPT ![tn_curr_run_task] = d],
         WaitFor(k, wait_send_list, "DQUE_WSEND", TN_WAIT_INFINITE)
  PROVE  ReceivingOK' /\ Promise!Block(tn_curr_run_task, d)
<1> DEFINE t == tn_curr_run_task
<1>1. PICK w, v : Looks(k, w, v)
  BY SomeView DEF ChInv
<1>2. /\ w \in Seq(Task) /\ v = <<>> /\ Receivers = v /\ Blocked = Sent(w, data_elem)
      /\ Caller /\ Free /\ ~receiving[t] /\ receiving' = receiving
  BY <1>1, View DEF ChInv, Idle
<1>3. /\ t \in AppTask \ Range(w) /\ Looks(k', Append(w, t), v)
      /\ Waits(k') = Waits(k) \cup {t} /\ Getters' = Getters
      /\ k'.created = k.created /\ k'.task_wait_rc = k.task_wait_rc
  <2>1. /\ 1 \in DOMAIN WaitLists /\ 2 \in DOMAIN WaitLists \ {1} /\ ObjectInv(kinds) /\ Kinds(kinds)
        /\ Line(k, WaitLists[1], kinds[1], w)
        /\ WaitFor(k, WaitLists[1], kinds[1], TN_WAIT_INFINITE)
    BY <1>1, TwoKinds DEF ChInv, DqInv, Looks
  <2>2. /\ t \in AppTask \ Range(w) /\ Line(k', WaitLists[1], kinds[1], Append(w, t))
        /\ \A j \in DOMAIN WaitLists \ {1} : \A x :
              Line(k, WaitLists[j], kinds[j], x) => Line(k', WaitLists[j], kinds[j], x)
        /\ Waits(k') = Waits(k) \cup {t}
        /\ \A j \in DOMAIN WaitLists \ {1} : On(k', kinds[j]) = On(k, kinds[j])
        /\ k'.created = k.created /\ k'.task_wait_rc = k.task_wait_rc
    BY <1>2, <2>1, WaitsOne
  <2> HIDE DEF t
  <2>3. QED
    BY <1>1, <2>1, <2>2, TwoKinds DEF Looks, Getters
<1>4. t \in Task /\ data_elem' = [data_elem EXCEPT ![t] = d]
      /\ data_elem \in [Task -> Data \cup {NULL}]
  BY <1>3, Nodes DEF ChInv, DqInv
<1> HIDE DEF t
<1>5. ReceivingOK'
  BY <1>2, <1>3 DEF ChInv, ReceivingOK
<1>6. Handed' = Handed
  <2>1. \A u \in AppTask : /\ Served(u)' <=> Served(u)
                           /\ Served(u) => data_elem'[u] = data_elem[u]
    BY <1>2, <1>3, <1>4, Nodes DEF Served, Waits
  <2>2. QED
    BY <2>1, HandedSame
<1>7. Blocked' = Append(Blocked, [from |-> t, elem |-> d]) /\ Receivers' = Receivers
  <2>1. data_elem'[t] = d /\ \A u \in Task \ {t} : data_elem[u] = data_elem'[u]
    BY <1>4
  <2>2. Sent(Joined(w, t), data_elem') = Offered(Sent(w, data_elem), t, data_elem'[t])
    <3>1. PICK e : e = data_elem'
      OBVIOUS
    <3>2. /\ w \in Seq(Task) /\ t \in Task /\ t \notin Range(w)
          /\ \A u \in Task \ {t} : data_elem[u] = e[u]
      BY <1>2, <1>3, <1>4, <2>1, <3>1
    <3>3. Sent(Joined(w, t), e) = Offered(Sent(w, data_elem), t, e[t])
      BY ONLY <3>2, SentAppend
    <3>4. QED
      BY <3>1, <3>3
  <2>3. Blocked' = Sent(Joined(w, t), data_elem') /\ Receivers' = v
    BY <1>3, ViewAfter DEF Joined
  <2>4. QED
    BY <1>2, <2>1, <2>2, <2>3 DEF Offered
<1>8. Len(Ring!Contents(fifo)) >= Ring!Room(fifo)
  BY FifoContents DEF ChInv, DqInv
<1>9. Promise!Block(t, d)
  BY <1>2, <1>6, <1>7, <1>8 DEF Promise!Block, object
<1>10. QED
  BY <1>5, <1>9 DEF t

\* Taking the first of the elements c that are stored and e that are offered,
\* and moving the first of e into the place that becomes free.
LEMMA TakeLine ==
  ASSUME NEW S, NEW c \in Seq(S), NEW e \in Seq(S), c # <<>> \/ e # <<>>,
         NEW line, line = c \o e,
         NEW m, m = IF e = <<>> THEN Len(line) ELSE Len(line) - (Len(e) - 1)
  PROVE  /\ line # <<>>
         /\ Head(line) = IF c = <<>> THEN e[1] ELSE Head(c)
         /\ SubSeq(line, 2, m) = IF c = <<>> THEN <<>>
                                 ELSE IF e = <<>> THEN Tail(c) ELSE Append(Tail(c), e[1])
<1>1. Len(c) \in Nat /\ Len(e) \in Nat /\ line \in Seq(S) /\ Len(line) = Len(c) + Len(e)
  BY ConcatProperties
<1>2. \A i \in 1 .. Len(c) : line[i] = c[i]
  BY <1>1
<1>3. \A i \in 1 .. Len(e) : line[Len(c) + i] = e[i]
  BY <1>1
<1>4. (c = <<>> <=> Len(c) = 0) /\ (e = <<>> <=> Len(e) = 0) /\ (line = <<>> <=> Len(line) = 0)
  BY <1>1
<1>5. CASE c = <<>>
  <2>1. Len(c) = 0 /\ Len(e) >= 1 /\ Len(line) = Len(e) /\ line[1] = e[1]
    BY <1>1, <1>3, <1>4, <1>5
  <2>2. m = 1
    BY <1>1, <1>4, <2>1
  <2>3. SubSeq(line, 2, m) = <<>>
    BY <1>1, <2>1, <2>2
  <2>4. QED
    BY <1>1, <1>4, <1>5, <2>1, <2>3
<1>6. CASE c # <<>>
  <2> DEFINE n == Len(c)
             r == SubSeq(line, 2, m)
  <2>1. n \in Nat /\ n >= 1 /\ Len(line) >= 1 /\ line[1] = c[1]
    BY <1>1, <1>2, <1>4, <1>6
  <2>2. CASE e = <<>>
    <3>1. m = n /\ Len(line) = n
      BY <1>1, <1>4, <2>2
    <3>2. r \in Seq(S) /\ Len(r) = n - 1 /\ \A i \in 1 .. n - 1 : r[i] = line[i + 1]
      BY <1>1, <2>1, <3>1
    <3>3. Tail(c) \in Seq(S) /\ Len(Tail(c)) = n - 1
          /\ \A i \in 1 .. n - 1 : Tail(c)[i] = c[i + 1]
      BY <1>6, <2>1
    <3>4. \A i \in 1 .. n - 1 : i + 1 \in 1 .. n /\ line[i + 1] = c[i + 1]
      BY <1>2, <2>1
    <3> DEFINE g == Tail(c)
    <3> HIDE DEF r, g, n
    <3>5. r = g
      BY <3>2, <3>3, <3>4 DEF g
    <3>6. QED
      BY <1>4, <1>6, <2>1, <2>2, <3>5 DEF r, g
  <2>3. CASE e # <<>>
    <3>1. m = n + 1 /\ Len(line) >= n + 1
      BY <1>1, <1>4, <2>3
    <3>2. r \in Seq(S) /\ Len(r) = n /\ \A i \in 1 .. n : r[i] = line[i + 1]
      BY <1>1, <2>1, <3>1
    <3> DEFINE g == Append(Tail(c), e[1])
    <3>3. g \in Seq(S) /\ Len(g) = n /\ g[n] = e[1]
          /\ \A i \in 1 .. n - 1 : g[i] = c[i + 1]
      BY <1>1, <1>4, <1>6, <2>1, <2>3
    <3>4. /\ \A i \in 1 .. n - 1 : i + 1 \in 1 .. n /\ line[i + 1] = c[i + 1]
          /\ line[n + 1] = e[1]
      BY <1>1, <1>2, <1>3, <1>4, <2>1, <2>3
    <3> HIDE DEF r, g, n
    <3>5. \A i \in 1 .. n : i = n \/ i \in 1 .. n - 1
      BY <2>1
    <3>6. r = g
      <4>1. ASSUME NEW i \in 1 .. n
            PROVE  r[i] = g[i]
        BY <3>2, <3>3, <3>4, <3>5
      <4>2. QED
        BY <3>2, <3>3, <4>1
    <3>7. QED
      BY <1>4, <1>6, <2>1, <2>3, <3>6 DEF r, g
  <2>4. QED
    BY <2>2, <2>3
<1>7. QED
  BY <1>5, <1>6

\* The elements that the senders of w offer.
LEMMA OfferedElements ==
  ASSUME NEW w \in Seq(Task), NEW e \in [Task -> Elements], NEW b, b = Sent(w, e)
  PROVE  /\ [i \in DOMAIN b |-> b[i].elem] \in Seq(Elements)
         /\ Len([i \in DOMAIN b |-> b[i].elem]) = Len(w)
         /\ w # <<>> => [i \in DOMAIN b |-> b[i].elem][1] = e[w[1]]
<1> DEFINE a == [i \in DOMAIN b |-> b[i].elem]
<1>1. Len(w) \in Nat /\ \A i \in 1 .. Len(w) : w[i] \in Task
  OBVIOUS
<1>2. DOMAIN b = 1 .. Len(w) /\ \A i \in 1 .. Len(w) : b[i] = [from |-> w[i], elem |-> e[w[i]]]
  BY SentIs
<1>3. \A i \in 1 .. Len(w) : b[i].elem = e[w[i]] /\ e[w[i]] \in Elements
  BY <1>1, <1>2
<1>4. a = [i \in 1 .. Len(w) |-> e[w[i]]]
  BY <1>2, <1>3
<1> HIDE DEF a
<1>5. a \in Seq(Elements) /\ Len(a) = Len(w) /\ (w # <<>> => a[1] = e[w[1]])
  BY <1>1, <1>3, <1>4
<1>6. QED
  BY <1>5 DEF a

\* What Take does to the storage, c and w being what it stores and who offers.
LEMMA TakeContents ==
  ASSUME DqInv, Take, NEW w, NEW v, Looks(k, w, v), ~noSender => FirstSender = w[1],
         NEW c, c = Ring!Contents(fifo), NEW d, d = data_elem[w[1]]
  PROVE  /\ c \in Seq(Elements) /\ (c # <<>> \/ w # <<>>)
         /\ Ring!Room(fifo') = Ring!Room(fifo)
         /\ taken' = IF c = <<>> THEN d ELSE Head(c)
         /\ Ring!Contents(fifo') = IF c = <<>> THEN <<>>
                                   ELSE IF w = <<>> THEN Tail(c) ELSE Append(Tail(c), d)
<1>1. FifoOK(fifo) /\ (w = <<>> <=> noSender) /\ w \in Seq(Task)
      /\ data_elem \in [Task -> Elements]
  BY View DEF DqInv, Elements
<1>2. c \in Seq(Elements) /\ (Ring!Empty(fifo) <=> c = <<>>)
  BY <1>1, FifoContents DEF Elements
<1>3. CASE Ring!Empty(fifo) /\ ~noSender /\ taken' = data_elem[FirstSender] /\ fifo' = fifo
  BY <1>1, <1>2, <1>3
<1>4. ASSUME ~Ring!Empty(fifo), taken' = Ring!Oldest(fifo), NEW r, r = Ring!dque_fifo_read(fifo),
             fifo' = IF noSender THEN r ELSE Ring!dque_fifo_write(r, data_elem[FirstSender])
      PROVE  /\ Ring!Room(fifo') = Ring!Room(fifo) /\ taken' = Head(c)
             /\ Ring!Contents(fifo') = IF w = <<>> THEN Tail(c) ELSE Append(Tail(c), d)
  <2>1. /\ FifoOK(r) /\ ~Ring!Full(r) /\ Ring!Oldest(fifo) = Head(c)
        /\ Ring!Contents(r) = Tail(c) /\ Ring!Room(r) = Ring!Room(fifo)
    BY <1>1, <1>4, ReadContents
  <2>2. CASE noSender
    BY <1>1, <1>4, <2>1, <2>2
  <2>3. CASE ~noSender
    <3>1. w # <<>> /\ w[1] \in Task /\ d \in Elements /\ fifo' = Ring!dque_fifo_write(r, d)
      BY <1>1, <1>4, <2>3
    <3>2. d \in Data \cup {NULL}
      BY <3>1 DEF Elements
    <3>3. /\ Ring!Contents(Ring!dque_fifo_write(r, d)) = Append(Ring!Contents(r), d)
          /\ Ring!Room(Ring!dque_fifo_write(r, d)) = Ring!Room(r)
      BY <2>1, <3>2, WriteContents
    <3>4. QED
      BY <1>4, <2>1, <3>1, <3>3
  <2>4. QED
    BY <2>2, <2>3
<1>5. CASE /\ ~Ring!Empty(fifo) /\ taken' = Ring!Oldest(fifo)
           /\ fifo' = LET f == Ring!dque_fifo_read(fifo)
                      IN IF noSender THEN f ELSE Ring!dque_fifo_write(f, data_elem[FirstSender])
  BY <1>1, <1>2, <1>4, <1>5
<1>6. QED
  BY <1>1, <1>2, <1>3, <1>5 DEF Take

\* The first sender that waits, if there is one, is woken.
LEMMA ChSenderWoken ==
  ASSUME ChInv, UNCHANGED <<object, data_elem, receiving>>, NEW w, NEW v, Looks(k, w, v),
         \/ noSender /\ k' = k
         \/ /\ ~noSender
            /\ \/ Caller /\ Free /\ task_stk' = task_stk /\ WakeFirst(k, wait_send_list)
               \/ InHandler /\ NobodyDeletes /\ iWakeFirst(k, wait_send_list)
  PROVE  /\ ReceivingOK' /\ Handed' = Handed /\ Receivers' = Receivers
         /\ Blocked' = IF Blocked = <<>> THEN <<>> ELSE Tail(Blocked)
         /\ ~noSender => FirstSender = w[1]
<1>1. /\ w \in Seq(Task) /\ Range(w) = Senders /\ (w = <<>> <=> noSender) /\ v \in Seq(Task)
      /\ Blocked = Sent(w, data_elem) /\ Receivers = v /\ (Blocked = <<>> <=> w = <<>>)
  BY View, SentIs DEF ChInv
<1>2. CASE noSender
  <2>1. Blocked' = Blocked /\ Receivers' = Receivers
    BY <1>1, <1>2, ViewAfter
  <2>2. Handed' = Handed /\ ReceivingOK'
    BY <1>2, HandedSame DEF Served, ChInv, ReceivingOK, Getters
  <2>3. QED
    BY <1>1, <1>2, <2>1, <2>2
<1>3. CASE ~noSender
  <2>u. PICK u : u = w[1]
    OBVIOUS
  <2>1. /\ FirstWaiter(k, wait_send_list) = u /\ u \in AppTask /\ u \in Waits(k)
        /\ Looks(k', Tail(w), v) /\ Waits(k') = Waits(k) \ {u} /\ Getters' = Getters \ {u}
        /\ k'.created = k.created
        /\ \A t \in Task \ {u} : k'.task_wait_rc[t] = k.task_wait_rc[t]
    <3>1. 1 \in DOMAIN WaitLists /\ Line(k, WaitLists[1], kinds[1], w) /\ ObjectInv(kinds)
          /\ wait_send_list = WaitLists[1] /\ Kinds(kinds)
      BY TwoKinds DEF ChInv, DqInv, Looks
    <3>2. /\ FirstWaiter(k, WaitLists[1]) = u /\ u \in AppTask /\ u \in Waits(k)
          /\ Line(k', WaitLists[1], kinds[1], Tail(w)) /\ Waits(k') = Waits(k) \ {u}
          /\ \A j \in DOMAIN WaitLists \ {1} : \A x :
                Line(k, WaitLists[j], kinds[j], x) => Line(k', WaitLists[j], kinds[j], x)
          /\ \A j \in DOMAIN WaitLists : On(k', kinds[j]) = On(k, kinds[j]) \ {u}
          /\ k'.created = k.created
          /\ \A t \in Task \ {u} : k'.task_wait_rc[t] = k.task_wait_rc[t]
      <4>1. /\ UNCHANGED object /\ w # <<>>
            /\ \/ Caller /\ Free /\ task_stk' = task_stk /\ WakeFirst(k, WaitLists[1])
               \/ InHandler /\ NobodyDeletes /\ iWakeFirst(k, WaitLists[1])
        BY <1>1, <1>3, <3>1
      <4>2. WokenFirst(kinds, 1, w, u)
        BY ONLY <2>u, <3>1, <4>1, WakesOne
      <4>3. QED
        BY <4>2 DEF WokenFirst
    <3>3. QED
      BY <3>2, TwoKinds DEF Looks, Getters
  <2>2. u \in Senders
    BY <1>1, <1>3, <2>u DEF Range
  <2>3. ReceivingOK'
    BY <2>1, ReceivingFrame DEF ChInv
  <2>4. ~receiving[u] /\ u \in Task
    BY <2>1, <2>2, Nodes DEF ChInv, ReceivingOK, Senders, Getters, On
  <2>5. \A t \in AppTask : (Served(t)' <=> Served(t)) /\ data_elem'[t] = data_elem[t]
    BY <2>1, <2>4, Nodes DEF Served, Waits
  <2>6. Handed' = Handed
    BY <2>5, HandedSame
  <2>7. PICK x : x = Tail(w)
    OBVIOUS
  <2>8. Sent(x, data_elem) = Tail(Sent(w, data_elem))
    BY <1>1, <1>3, <2>7, SentTail
  <2>9. Blocked' = Sent(x, data_elem') /\ Receivers' = v
    BY <2>1, <2>7, ViewAfter
  <2>10. QED
    BY <1>1, <1>3, <2>u, <2>1, <2>3, <2>6, <2>8, <2>9 DEF FirstSender
<1>4. QED
  BY <1>2, <1>3

LEMMA ChReceive ==
  ASSUME ChInv, id, Take, UNCHANGED <<object, data_elem, receiving>>,
         \/ noSender /\ k' = k
         \/ /\ ~noSender
            /\ \/ Caller /\ Free /\ task_stk' = task_stk /\ WakeFirst(k, wait_send_list)
               \/ InHandler /\ NobodyDeletes /\ iWakeFirst(k, wait_send_list)
  PROVE  ReceivingOK' /\ Promise!Receive
<1>1. PICK w, v : Looks(k, w, v)
  BY SomeView DEF ChInv
<1>2. /\ ReceivingOK' /\ Handed' = Handed /\ Receivers' = Receivers
      /\ Blocked' = IF Blocked = <<>> THEN <<>> ELSE Tail(Blocked)
      /\ ~noSender => FirstSender = w[1]
  BY <1>1, ChSenderWoken
<1>3. PICK b : b = Blocked
  OBVIOUS
<1>4. /\ w \in Seq(Task) /\ b = Sent(w, data_elem) /\ (b = <<>> <=> w = <<>>)
      /\ b \in Seq(Offers(data_elem)) /\ Len(b) = Len(w) /\ data_elem \in [Task -> Elements]
  BY <1>1, <1>3, View, SentIs DEF ChInv, DqInv, Elements
<1>5. PICK e : e = [i \in DOMAIN b |-> b[i].elem]
  OBVIOUS
<1>6. e \in Seq(Elements) /\ Len(e) = Len(w) /\ (w # <<>> => e[1] = data_elem[w[1]])
  BY <1>4, <1>5, OfferedElements
<1>7. PICK c, d : c = Ring!Contents(fifo) /\ d = data_elem[w[1]]
  OBVIOUS
<1>8. /\ c \in Seq(Elements) /\ (c # <<>> \/ w # <<>>)
      /\ Ring!Room(fifo') = Ring!Room(fifo)
      /\ taken' = IF c = <<>> THEN d ELSE Head(c)
      /\ Ring!Contents(fifo') = IF c = <<>> THEN <<>>
                                ELSE IF w = <<>> THEN Tail(c) ELSE Append(Tail(c), d)
  BY <1>1, <1>2, <1>7, TakeContents DEF ChInv
<1>9. PICK line : line = c \o e
  OBVIOUS
<1>10. Promise!Line = line
  BY <1>3, <1>5, <1>7, <1>9 DEF Promise!Line
<1>11. e = <<>> <=> w = <<>>
  BY <1>4, <1>6
<1>12. Len(Blocked') = IF e = <<>> THEN 0 ELSE Len(e) - 1
  BY <1>2, <1>3, <1>4, <1>6, <1>11
<1>13. PICK m : m = IF e = <<>> THEN Len(line) ELSE Len(line) - (Len(e) - 1)
  OBVIOUS
<1>14. Len(line) \in Nat
  BY <1>6, <1>8, <1>9, ConcatProperties
<1>15. m = Len(line) - Len(Blocked')
  BY <1>12, <1>13, <1>14
<1>16. /\ line # <<>> /\ Head(line) = IF c = <<>> THEN e[1] ELSE Head(c)
       /\ SubSeq(line, 2, m) = IF c = <<>> THEN <<>>
                               ELSE IF e = <<>> THEN Tail(c) ELSE Append(Tail(c), e[1])
  BY <1>6, <1>8, <1>9, <1>11, <1>13, TakeLine
<1>17. taken' = Head(line) /\ Ring!Contents(fifo') = SubSeq(line, 2, m)
  BY <1>6, <1>7, <1>8, <1>11, <1>16
<1>18. Promise!Receive
  BY <1>2, <1>8, <1>10, <1>15, <1>16, <1>17 DEF Promise!Receive, object
<1>19. QED
  BY <1>2, <1>18

\* A receiver waits when nothing is stored or offered.
LEMMA ChAwait ==
  ASSUME ChInv, id, Idle, UNCHANGED <<task_stk, object, data_elem>>,
         taken' = None, noSender, Ring!Empty(fifo), fifo' = fifo,
         receiving' = [receiving EXCEPT ![tn_curr_run_task] = TRUE],
         WaitFor(k, wait_receive_list, "DQUE_WRECEIVE", TN_WAIT_INFINITE)
  PROVE  ReceivingOK' /\ Promise!Await(tn_curr_run_task)
<1> DEFINE t == tn_curr_run_task
<1>1. PICK w, v : Looks(k, w, v)
  BY SomeView DEF ChInv
<1>2. /\ w = <<>> /\ v \in Seq(Task) /\ Receivers = v /\ Blocked = Sent(w, data_elem)
      /\ Caller /\ Free /\ ~receiving[t] /\ data_elem' = data_elem
  BY <1>1, View DEF ChInv, Idle
<1>3. /\ t \in AppTask \ Range(v) /\ t \in k.created /\ Looks(k', w, Append(v, t))
      /\ Waits(k') = Waits(k) \cup {t} /\ Getters' = Getters \cup {t}
      /\ k'.created = k.created /\ k'.task_wait_rc = k.task_wait_rc
  <2>1. /\ 2 \in DOMAIN WaitLists /\ 1 \in DOMAIN WaitLists \ {2} /\ ObjectInv(kinds) /\ Kinds(kinds)
        /\ Line(k, WaitLists[2], kinds[2], v)
        /\ WaitFor(k, WaitLists[2], kinds[2], TN_WAIT_INFINITE)
    BY <1>1, TwoKinds DEF ChInv, DqInv, Looks
  <2>2. /\ t \in AppTask \ Range(v) /\ t \in k.created
        /\ Line(k', WaitLists[2], kinds[2], Append(v, t))
        /\ \A j \in DOMAIN WaitLists \ {2} : \A x :
              Line(k, WaitLists[j], kinds[j], x) => Line(k', WaitLists[j], kinds[j], x)
        /\ Waits(k') = Waits(k) \cup {t} /\ On(k', kinds[2]) = On(k, kinds[2]) \cup {t}
        /\ k'.created = k.created /\ k'.task_wait_rc = k.task_wait_rc
    BY <1>2, <2>1, WaitsOne
  <2> HIDE DEF t
  <2>3. QED
    BY <1>1, <2>1, <2>2, TwoKinds DEF Looks, Getters
<1>4. t \in Task /\ receiving' = [receiving EXCEPT ![t] = TRUE]
  BY <1>3, Nodes
<1> HIDE DEF t
<1>5. ReceivingOK'
  <2>1. /\ receiving' \in [Task -> BOOLEAN] /\ receiving'[t]
        /\ \A u \in Task \ {t} : receiving'[u] = receiving[u]
    BY <1>4 DEF ChInv, ReceivingOK
  <2>2. ASSUME NEW u \in Task, receiving'[u]
        PROVE  u \in AppTask /\ u \in k'.created /\ (u \in Waits(k') => u \in Getters')
    BY <1>3, <1>4, <2>1, <2>2 DEF ChInv, ReceivingOK
  <2>3. \A u \in Getters' : receiving'[u]
    BY <1>3, <2>1 DEF ChInv, ReceivingOK, Getters, On, Waits
  <2>4. QED
    BY <2>1, <2>2, <2>3 DEF ReceivingOK
<1>6. Handed' = Handed
  <2>1. \A u \in AppTask : (Served(u)' <=> Served(u)) /\ data_elem'[u] = data_elem[u]
    BY <1>2, <1>3, <1>4, Nodes DEF Served, Waits, ChInv, ReceivingOK
  <2>2. QED
    BY <2>1, HandedSame
<1>7. Blocked' = Blocked /\ Blocked = <<>> /\ Receivers' = Append(Receivers, t)
  <2>1. Blocked' = Sent(w, data_elem') /\ Receivers' = Append(v, t)
    BY <1>3, ViewAfter
  <2>2. w \in Seq(Task)
    BY <1>2
  <2>3. Blocked = <<>>
    BY <1>2, <2>2, SentIs
  <2>4. QED
    BY <1>2, <2>1, <2>3
<1>8. Promise!Line = <<>>
  <2>1. Ring!Contents(fifo) = <<>>
    BY FifoContents DEF ChInv, DqInv
  <2>2. QED
    BY <1>7, <2>1 DEF Promise!Line
<1>9. Promise!Await(t)
  BY <1>2, <1>6, <1>7, <1>8 DEF Promise!Await, object
<1>10. QED
  BY <1>5, <1>9 DEF t

\* A receiver runs again: with its element, or without when none came.
LEMMA ChReceiveEnd ==
  ASSUME ChInv, ReceiveEnd
  PROVE  ReceivingOK' /\ (Promise!Idle \/ Promise!Fetch(tn_curr_run_task))
<1>0. PICK t : t = tn_curr_run_task
  OBVIOUS
<1>1. /\ receiving[t] /\ receiving' = [receiving EXCEPT ![t] = FALSE]
      /\ taken' = IF k.task_wait_rc[t] = "TERR_NO_ERR" THEN data_elem[t] ELSE None
      /\ k' = k /\ UNCHANGED object /\ fifo' = fifo /\ data_elem' = data_elem
  BY <1>0 DEF ReceiveEnd, vars
<1>2. t \in Task /\ ~Waiting(k, t) /\ t \notin Waits(k)
  <2>1. t \in Task /\ k.task_state[t] = "RUNNABLE"
    BY <1>0, CallerFacts DEF ReceiveEnd, ChInv, DqInv, ObjectInv
  <2>2. QED
    BY <2>1 DEF Waiting, Waits
<1>3. t \in AppTask
  BY <1>1, <1>2 DEF ChInv, ReceivingOK
<1>4. ReceivingOK'
  BY <1>1, <1>2 DEF ChInv, ReceivingOK, Getters, On
<1>5. Blocked' = Blocked /\ Receivers' = Receivers
  BY <1>1 DEF Blocked, Receivers, Order, Waiters, Waiting
<1>6. Handed' = [Handed EXCEPT ![t] = None]
  <2>1. \A u \in AppTask \ {t} : (Served(u)' <=> Served(u)) /\ data_elem'[u] = data_elem[u]
    BY <1>1, Nodes DEF Served, ChInv, ReceivingOK
  <2>2. ~Served(t)'
    BY <1>1, <1>2 DEF Served, ChInv, ReceivingOK
  <2>3. QED
    BY <1>3, <2>1, <2>2, HandedSet
<1>7. taken' = Handed[t]
  BY <1>1, <1>2, <1>3 DEF Handed, Served
<1>8. CASE Handed[t] = None
  <2>1. Handed' = Handed
    BY <1>6, <1>8 DEF Handed
  <2>2. Promise!Idle
    BY <1>1, <1>5, <1>7, <1>8, <2>1 DEF Promise!Idle, object
  <2>3. QED
    BY <1>4, <2>2
<1>9. CASE Handed[t] # None
  <2>1. Promise!Fetch(t)
    BY <1>1, <1>5, <1>6, <1>7, <1>9 DEF Promise!Fetch, object
  <2>2. QED
    BY <1>0, <1>4, <2>1
<1>10. QED
  BY <1>8, <1>9

\* A queue that is created anew is empty.
LEMMA ChCreate ==
  ASSUME ChInv, NEW n \in 0 .. MaxEntries, tn_queue_create(n)
  PROVE  ReceivingOK' /\ Promise!Create
<1>1. /\ KernelOK(k) /\ noSender /\ noReceiver /\ ~id /\ id' = TRUE
      /\ fifo' = NewQueue(fifo, n) /\ taken' = None
      /\ data_elem' = data_elem /\ receiving' = receiving
  BY QueuesTell DEF ChInv, DqInv, tn_queue_create
<1>2. k' = k
  BY <1>1, ResetEmpty DEF tn_queue_create, noSender, noReceiver
<1>3. ReceivingOK'
  BY <1>1, <1>2 DEF ChInv, ReceivingOK, Getters
<1>4. Blocked' = Blocked /\ Receivers' = Receivers
  BY <1>1, <1>2 DEF Blocked, Receivers, Order, Waiters, Waiting
<1>5. Handed' = Handed
  BY <1>1, <1>2 DEF Handed, Served
<1>6. /\ fifo'.num_entries = n /\ fifo'.tail_cnt = 0 /\ fifo'.header_cnt = 0
  BY <1>1 DEF NewQueue, ChInv, DqInv, FifoOK, Ring!FifoState
<1>7. Ring!Contents(fifo') = <<>>
  <2>1. Ring!Stored(fifo') = 0
    BY <1>6 DEF Ring!Stored
  <2>2. QED
    BY <2>1 DEF Ring!Contents
<1>8. Ring!Room(fifo') = Ring!Room([num_entries |-> n])
  BY <1>6 DEF Ring!Room
<1>9. Promise!Create
  BY <1>1, <1>4, <1>5, <1>7, <1>8 DEF Promise!Create
<1>10. QED
  BY <1>3, <1>9

\* u leaves its place in one of the lists, and with it its place in the channel.
LEMMA ChLeaves ==
  ASSUME DqInv, NEW i \in DOMAIN WaitLists, NEW x, NEW u, LeavesList(kinds, i, x, u),
         NEW e, e = data_elem', \A t \in Task \ {u} : data_elem[t] = e[t]
  PROVE  /\ u \in Waits(k) /\ Waits(k') = Waits(k) \ {u} /\ Getters' = Getters \ {u}
         /\ \/ /\ \E j \in DOMAIN Blocked : Blocked' = Promise!RemoveAt(Blocked, j)
               /\ Receivers' = Receivers
            \/ /\ \E j \in DOMAIN Receivers : Receivers' = Promise!RemoveAt(Receivers, j)
               /\ Blocked' = Blocked
<1>1. PICK w, v : Looks(k, w, v)
  BY SomeView
<1>2. /\ w \in Seq(Task) /\ IsInjective(w) /\ v \in Seq(Task) /\ IsInjective(v)
      /\ Range(w) \cap Range(v) = {} /\ Blocked = Sent(w, data_elem) /\ Receivers = v
      /\ DOMAIN Blocked = 1 .. Len(w) /\ DOMAIN v = 1 .. Len(v)
  BY <1>1, View, SentIs
<1>3. /\ Line(k, WaitLists[i], kinds[i], x) /\ u \in Range(x)
      /\ Line(k', WaitLists[i], kinds[i], RemoveFirst(x, u))
      /\ \A j \in DOMAIN WaitLists \ {i} : \A y :
           Line(k, WaitLists[j], kinds[j], y) => Line(k', WaitLists[j], kinds[j], y)
      /\ u \in Waits(k) /\ Waits(k') = Waits(k) \ {u}
  BY DEF LeavesList, Line, On
<1>4. Getters' = Getters \ {u}
  <2>1. WaitersOK(k, kinds) /\ Kinds(kinds)
    BY QueuesTell, TwoKinds
  <2>2. \A j \in DOMAIN WaitLists : On(k', kinds[j]) = On(k, kinds[j]) \ {u}
    BY <2>1, Members
  <2>3. QED
    BY <2>2, TwoKinds DEF Getters
<1>5. \A s, j : Promise!RemoveAt(s, j) = RemoveAt(s, j)
  BY DEF Promise!RemoveAt, RemoveAt
<1>6. CASE i = 1
  <2>1. Line(k, wait_send_list, "DQUE_WSEND", x) /\ Line(k, wait_send_list, "DQUE_WSEND", w)
    BY <1>1, <1>3, <1>6, TwoKinds DEF Looks
  <2>2. x = w
    BY <2>1, LineOrder
  <2>3. PICK r : r = RemoveFirst(w, u)
    OBVIOUS
  <2>4. Looks(k', r, v)
    BY <1>1, <1>3, <1>6, <2>2, <2>3, TwoKinds DEF Looks
  <2>5. /\ u \in Range(w) /\ \A t \in Range(w) \ {u} : data_elem[t] = e[t]
    BY <1>2, <1>3, <2>2 DEF Range
  <2>6. \E j \in 1 .. Len(w) : r = RemoveAt(w, j) /\ Sent(r, e) = RemoveAt(Sent(w, data_elem), j)
    <3>1. w \in Seq(Task) /\ IsInjective(w)
      BY <1>2
    <3>2. QED
      BY ONLY <2>3, <2>5, <3>1, SentWithout
  <2>7. Blocked' = Sent(r, e) /\ Receivers' = v
    BY <2>4, ViewAfter
  <2>8. QED
    BY <1>2, <1>3, <1>4, <1>5, <2>6, <2>7
<1>7. CASE i = 2
  <2>1. /\ Line(k, wait_receive_list, "DQUE_WRECEIVE", x)
        /\ Line(k, wait_receive_list, "DQUE_WRECEIVE", v)
    BY <1>1, <1>3, <1>7, TwoKinds DEF Looks
  <2>2. x = v
    BY <2>1, LineOrder
  <2>3. PICK r : r = RemoveFirst(v, u)
    OBVIOUS
  <2>4. Looks(k', w, r)
    BY <1>1, <1>3, <1>7, <2>2, <2>3, TwoKinds DEF Looks
  <2>5. /\ u \in Range(v) /\ \A t \in Range(v) \ {u} : data_elem[t] = e[t]
    BY <1>2, <1>3, <2>2 DEF Range
  <2>6. \E j \in 1 .. Len(v) : r = RemoveAt(v, j) /\ Sent(r, e) = RemoveAt(Sent(v, data_elem), j)
    <3>1. v \in Seq(Task) /\ IsInjective(v)
      BY <1>2
    <3>2. QED
      BY ONLY <2>3, <2>5, <3>1, SentWithout
  <2>7. Sent(w, data_elem) = Sent(w, e)
    <3>1. \A t \in Range(w) : data_elem[t] = e[t]
      BY <1>2, <2>5 DEF Range
    <3>2. QED
      BY <1>2, <3>1, SentSame
  <2>8. Blocked' = Sent(w, e) /\ Receivers' = r
    BY <2>4, ViewAfter
  <2>9. QED
    BY <1>2, <1>3, <1>4, <1>5, <2>6, <2>7, <2>8
<1>8. QED
  BY <1>6, <1>7, TwoKinds

\* The lists stay.
LEMMA ChStay ==
  ASSUME DqInv, SameLines(k, k', kinds), NEW e, e = data_elem',
         \A t \in Senders : e[t] = data_elem[t]
  PROVE  Blocked' = Blocked /\ Receivers' = Receivers /\ Getters' = Getters
<1>1. PICK w, v : Looks(k, w, v)
  BY SomeView
<1>2. w \in Seq(Task) /\ Range(w) = Senders /\ Blocked = Sent(w, data_elem) /\ Receivers = v
  BY <1>1, View
<1>3. Looks(k', w, v)
  BY <1>1, TwoKinds DEF Looks, SameLines
<1>4. Getters' = Getters
  BY <1>1, <1>3 DEF Looks, Line, Getters
<1>5. Sent(w, e) = Sent(w, data_elem)
  BY <1>2, SentSame
<1>6. Blocked' = Sent(w, e) /\ Receivers' = v
  BY <1>3, ViewAfter
<1>7. QED
  BY <1>2, <1>4, <1>5, <1>6

\* Steps that move no element, and the deletion of the queue.
LEMMA ChPlain ==
  ASSUME ChInv, PlainStep, taken' = None, UNCHANGED dqueue
  PROVE  ReceivingOK' /\ (Promise!Idle \/ Promise!GiveUp \/ Promise!Delete)
<1>1. fifo' = fifo /\ data_elem' = data_elem /\ receiving' = receiving
  BY DEF dqueue
<1>2. /\ ObjectInv(kinds)' /\ Waits(k') \subseteq Waits(k) \cup {tn_timer_task}
      /\ \/ SameLines(k, k', kinds)
         \/ \E i \in DOMAIN WaitLists : \E x, u : LeavesList(kinds, i, x, u)
      /\ \/ id' = id
         \/ id /\ ~id' /\ k' = k /\ \A j \in DOMAIN WaitLists : NoWaiters(j)
      /\ k.created \subseteq k'.created /\ \A t \in k.created : Undone(t)
  BY PlainStepOK, TwoKinds DEF ChInv, DqInv
<1>3. Handed' = Handed
  <2>1. ASSUME NEW t \in AppTask
        PROVE  Served(t)' <=> Served(t)
    <3>1. CASE ~receiving[t]
      BY <1>1, <3>1 DEF Served
    <3>2. CASE receiving[t]
      <4>1. t \in Task /\ t # tn_timer_task /\ Undone(t)
        BY <1>2, <3>2, Nodes DEF ChInv, ReceivingOK
      <4>2. CASE k'.task_wait_rc[t] = k.task_wait_rc[t] /\ (t \in Waits(k) => t \in Waits(k'))
        <5>1. t \in Waits(k) <=> t \in Waits(k')
          BY <1>2, <4>1, <4>2
        <5>2. QED
          BY <1>1, <4>1, <4>2, <5>1 DEF Served, Waits
      <4>3. CASE t \in Waits(k) /\ k'.task_wait_rc[t] = "TERR_DLT"
        BY <4>3 DEF Served, Waits
      <4>4. QED
        BY <4>1, <4>2, <4>3 DEF Undone
    <3>3. QED
      BY <3>1, <3>2 DEF ChInv, ReceivingOK
  <2>2. QED
    BY <1>1, <2>1, HandedSame
<1>4. CASE SameLines(k, k', kinds)
  <2>1. Blocked' = Blocked /\ Receivers' = Receivers /\ Getters' = Getters
    BY <1>1, <1>4, ChStay DEF ChInv
  <2>2. ReceivingOK'
    <3>1. Getters' = Getters \ {} /\ Waits(k') \subseteq (Waits(k) \ {}) \cup {tn_timer_task}
      BY <1>2, <2>1
    <3>2. QED
      BY <1>1, <1>2, <3>1, ReceivingFrame DEF ChInv
  <2>3. CASE id' = id
    <3>1. Promise!Idle
      BY <1>1, <1>3, <2>1, <2>3 DEF Promise!Idle
    <3>2. QED
      BY <2>2, <3>1
  <2>4. CASE id /\ ~id' /\ \A j \in DOMAIN WaitLists : NoWaiters(j)
    <3>1. PICK w, v : Looks(k, w, v)
      BY SomeView DEF ChInv
    <3>2. noSender /\ noReceiver
      BY <2>4, TwoKinds DEF NoWaiters, noSender, noReceiver
    <3>3. Blocked = <<>> /\ Receivers = <<>>
      BY <3>1, <3>2, View, SentIs DEF ChInv
    <3>4. id' = FALSE
      BY <1>2, <2>4 DEF ObjectInv, ObjectOK
    <3>5. Promise!Delete
      BY <1>1, <1>3, <2>1, <2>4, <3>3, <3>4 DEF Promise!Delete
    <3>6. QED
      BY <2>2, <3>5
  <2>5. QED
    BY <1>2, <2>3, <2>4
<1>5. ASSUME NEW i \in DOMAIN WaitLists, NEW x, NEW u, LeavesList(kinds, i, x, u)
      PROVE  ReceivingOK' /\ Promise!GiveUp
  <2>1. id' = id
    <3>1. KernelOK(k) /\ Line(k, WaitLists[i], kinds[i], x) /\ x # <<>>
      BY <1>5, QueuesTell DEF ChInv, LeavesList, Range
    <3>2. ~NoWaiters(i)
      BY <3>1, EmptyLine DEF NoWaiters
    <3>3. QED
      BY <1>2, <3>2
  <2>2. /\ u \in Waits(k) /\ Waits(k') = Waits(k) \ {u} /\ Getters' = Getters \ {u}
        /\ \/ /\ \E j \in DOMAIN Blocked : Blocked' = Promise!RemoveAt(Blocked, j)
              /\ Receivers' = Receivers
           \/ /\ \E j \in DOMAIN Receivers : Receivers' = Promise!RemoveAt(Receivers, j)
              /\ Blocked' = Blocked
    BY <1>1, <1>5, ChLeaves DEF ChInv
  <2>3. ReceivingOK'
    BY <1>1, <1>2, <2>2, ReceivingFrame DEF ChInv
  <2>4. Promise!GiveUp
    BY <1>1, <1>3, <2>1, <2>2 DEF Promise!GiveUp
  <2>5. QED
    BY <2>3, <2>4
<1>6. QED
  BY <1>2, <1>4, <1>5

\* A task that ends gives up what it waits for or has been given.
LEMMA ChEnds ==
  ASSUME ChInv, NEW t \in AppTask, Forget(t), taken' = None, fifo' = fifo,
         \/ ~Sleeping(t) /\ Terminate(t)
         \/ Free /\ tn_task_exit(FALSE) /\ UNCHANGED object /\ t = tn_curr_run_task
  PROVE  ReceivingOK' /\ Promise!GiveUp
<1>1. /\ t \in Task /\ ObjectInv(kinds) /\ data_elem' = [data_elem EXCEPT ![t] = NULL]
      /\ data_elem \in [Task -> Data \cup {NULL}]
      /\ receiving' = [receiving EXCEPT ![t] = FALSE] /\ ReceivingOK
  BY Nodes DEF ChInv, DqInv, Forget
<1>2. /\ \A u \in Task \ {t} : data_elem'[u] = data_elem[u] /\ receiving'[u] = receiving[u]
      /\ ~receiving'[t] /\ receiving' \in [Task -> BOOLEAN]
  BY <1>1 DEF ReceivingOK
<1>3. /\ k'.created = k.created
      /\ \A u \in Task \ {t} : k'.task_wait_rc[u] = k.task_wait_rc[u]
  <2>1. Cleared(k, k', t)
    BY <1>1, EndCodes, TwoKinds DEF Terminate
  <2>2. k.task_wait_rc \in [Task -> {"TERR_NO_ERR", "TERR_TIMEOUT", "TERR_DLT"}]
    BY <1>1 DEF ObjectInv, IInv, KernelOK, KernelState
  <2>3. QED
    BY <2>1, <2>2 DEF Cleared
<1>4. /\ id' = id
      /\ \/ /\ SameLines(k, k', kinds) /\ t \notin Waits(k)
            /\ Waits(k) \subseteq Waits(k') /\ Waits(k') \subseteq Waits(k) \cup {tn_timer_task}
         \/ \E i \in DOMAIN WaitLists : \E w : LeavesList(kinds, i, w, t)
  <2>1. CASE ~Sleeping(t) /\ Terminate(t)
    BY <1>1, <2>1, TerminateStepOK, TwoKinds
  <2>2. CASE Free /\ tn_task_exit(FALSE) /\ UNCHANGED object /\ t = tn_curr_run_task
    <3>1. TaskCall
      BY <2>2 DEF TaskCall
    <3>2. /\ SameLines(k, k', kinds) /\ id' = id
          /\ Waits(k) \subseteq Waits(k') /\ Waits(k') \subseteq Waits(k) \cup {tn_timer_task}
      BY <1>1, <3>1, TaskStepOK, TwoKinds
    <3>3. k.task_state[t] = "RUNNABLE"
      BY <1>1, <2>2, CallerFacts DEF tn_task_exit, Caller, ObjectInv
    <3>4. QED
      BY <3>2, <3>3 DEF Waits, Waiting
  <2>3. QED
    BY <2>1, <2>2
<1>5. PICK e : e = data_elem'
  OBVIOUS
<1>6. /\ Getters' = Getters \ {t}
      /\ Waits(k) \ {t} \subseteq Waits(k') /\ Waits(k') \subseteq (Waits(k) \ {t}) \cup {tn_timer_task}
      /\ \/ Blocked' = Blocked /\ Receivers' = Receivers
         \/ /\ t \in Waits(k)
            /\ \/ /\ \E j \in DOMAIN Blocked : Blocked' = Promise!RemoveAt(Blocked, j)
                  /\ Receivers' = Receivers
               \/ /\ \E j \in DOMAIN Receivers : Receivers' = Promise!RemoveAt(Receivers, j)
                  /\ Blocked' = Blocked
  <2>1. ASSUME NEW i \in DOMAIN WaitLists, NEW w, LeavesList(kinds, i, w, t)
        PROVE  /\ t \in Waits(k) /\ Waits(k') = Waits(k) \ {t} /\ Getters' = Getters \ {t}
               /\ \/ /\ \E j \in DOMAIN Blocked : Blocked' = Promise!RemoveAt(Blocked, j)
                     /\ Receivers' = Receivers
                  \/ /\ \E j \in DOMAIN Receivers : Receivers' = Promise!RemoveAt(Receivers, j)
                     /\ Blocked' = Blocked
    <3>1. DqInv /\ \A u \in Task \ {t} : data_elem[u] = e[u]
      BY <1>2, <1>5 DEF ChInv
    <3>2. QED
      BY <1>5, <2>1, <3>1, ChLeaves
  <2>2. CASE SameLines(k, k', kinds) /\ t \notin Waits(k)
    <3>1. DqInv /\ \A u \in Senders : e[u] = data_elem[u]
      BY <1>2, <1>5, <2>2 DEF ChInv, Senders, On, Waits
    <3>2. Blocked' = Blocked /\ Receivers' = Receivers /\ Getters' = Getters
      BY <1>5, <2>2, <3>1, ChStay
    <3>3. t \notin Getters
      BY <2>2 DEF Getters, On
    <3>4. QED
      BY <1>4, <2>1, <2>2, <3>2, <3>3
  <2>3. QED
    BY <1>4, <2>1, <2>2
<1>7. ReceivingOK'
  <2>1. ASSUME NEW u \in Task, receiving'[u]
        PROVE  u \in AppTask /\ u \in k'.created /\ (u \in Waits(k') => u \in Getters')
    BY <1>1, <1>2, <1>3, <1>6, <2>1, Nodes DEF ReceivingOK
  <2>2. ASSUME NEW u \in Getters'
        PROVE  receiving'[u]
    <3>1. u \in Getters /\ u # t
      BY <1>6, <2>2
    <3>2. u \in Task
      BY <3>1 DEF Getters, On, Waits
    <3>3. QED
      BY <1>1, <1>2, <3>1, <3>2 DEF ReceivingOK
  <2>3. QED
    BY <1>2, <2>1, <2>2 DEF ReceivingOK
<1>8. Handed' = [Handed EXCEPT ![t] = None]
  <2>1. \A u \in AppTask \ {t} : (Served(u)' <=> Served(u)) /\ data_elem'[u] = data_elem[u]
    <3> TAKE u \in AppTask \ {t}
    <3>1. u \in Task /\ u # t /\ u # tn_timer_task
      BY Nodes
    <3>2. u \in Waits(k) <=> u \in Waits(k')
      BY <1>6, <3>1
    <3>3. QED
      BY <1>2, <1>3, <3>1, <3>2 DEF Served, Waits
  <2>2. ~Served(t)'
    BY <1>2 DEF Served
  <2>3. QED
    BY <2>1, <2>2, HandedSet
<1>9. CASE Blocked' = Blocked /\ Receivers' = Receivers
  <2>1. Promise!GiveUp
    BY <1>4, <1>8, <1>9 DEF Promise!GiveUp
  <2>2. QED
    BY <1>7, <2>1
<1>10. CASE /\ t \in Waits(k)
            /\ \/ /\ \E j \in DOMAIN Blocked : Blocked' = Promise!RemoveAt(Blocked, j)
                  /\ Receivers' = Receivers
               \/ /\ \E j \in DOMAIN Receivers : Receivers' = Promise!RemoveAt(Receivers, j)
                  /\ Blocked' = Blocked
  <2>1. Handed[t] = None
    BY <1>10 DEF Handed, Served, Waits
  <2>2. Handed' = Handed
    BY <1>8, <2>1 DEF Handed
  <2>3. Promise!GiveUp
    BY <1>4, <1>10, <2>2 DEF Promise!GiveUp
  <2>4. QED
    BY <1>7, <2>3
<1>11. QED
  BY <1>6, <1>9, <1>10

\* Every step is one of the channel's.
LEMMA ChSend ==
  ASSUME ChInv, NEW d \in Data,
         \/ tn_queue_send(d, TN_WAIT_INFINITE) \/ tn_queue_send_polling(d)
         \/ NobodyDeletes /\ tn_queue_isend_polling(d)
  PROVE  ReceivingOK' /\ Promise!Next
<1>1. /\ ReceivingOK'
      /\ Promise!Send(d) \/ \E t \in AppTask : Promise!Block(t, d)
  <2>1. CASE /\ Idle /\ id /\ SendNow(d) /\ taken' = None
             /\ UNCHANGED <<task_stk, object, receiving>>
    <3>1. Caller /\ Free
      BY <2>1 DEF Idle
    <3>2. QED
      BY <2>1, <3>1, ChHandOver, ChStore DEF SendNow
  <2>2. CASE NobodyDeletes /\ tn_queue_isend_polling(d)
    BY <2>2, ChHandOver, ChStore DEF tn_queue_isend_polling
  <2>3. CASE /\ Idle /\ id /\ noReceiver /\ Ring!Full(fifo) /\ taken' = None
             /\ data_elem' = [data_elem EXCEPT ![tn_curr_run_task] = d] /\ fifo' = fifo
             /\ WaitFor(k, wait_send_list, "DQUE_WSEND", TN_WAIT_INFINITE)
             /\ UNCHANGED <<task_stk, object, receiving>>
    <3>1. tn_curr_run_task \in AppTask
      BY <2>3 DEF Idle, Caller
    <3>2. QED
      BY <2>3, <3>1, ChBlock
  <2>4. QED
    BY <2>1, <2>2, <2>3 DEF tn_queue_send, tn_queue_send_polling
<1>2. QED
  BY <1>1 DEF Promise!Next

LEMMA ChReceives ==
  ASSUME ChInv,
         \/ tn_queue_receive(TN_WAIT_INFINITE) \/ tn_queue_receive_polling
         \/ NobodyDeletes /\ tn_queue_ireceive
  PROVE  ReceivingOK' /\ Promise!Next
<1>1. /\ ReceivingOK'
      /\ Promise!Receive \/ \E t \in AppTask : Promise!Await(t)
  <2>1. CASE Idle /\ id /\ ReceiveNow /\ UNCHANGED <<task_stk, object, data_elem, receiving>>
    <3>1. Caller /\ Free /\ Take /\ UNCHANGED <<object, data_elem, receiving>>
          /\ \/ noSender /\ k' = k
             \/ ~noSender /\ WakeFirst(k, wait_send_list)
      BY <2>1 DEF Idle, ReceiveNow
    <3>2. QED
      BY <2>1, <3>1, ChReceive
  <2>2. CASE NobodyDeletes /\ tn_queue_ireceive
    <3>1. InHandler /\ id /\ Take /\ UNCHANGED <<object, data_elem, receiving>>
          /\ \/ noSender /\ k' = k
             \/ ~noSender /\ iWakeFirst(k, wait_send_list)
      BY <2>2 DEF tn_queue_ireceive
    <3>2. QED
      BY <2>2, <3>1, ChReceive
  <2>3. CASE /\ Idle /\ id /\ noSender /\ Ring!Empty(fifo) /\ taken' = None /\ fifo' = fifo
             /\ receiving' = [receiving EXCEPT ![tn_curr_run_task] = TRUE]
             /\ WaitFor(k, wait_receive_list, "DQUE_WRECEIVE", TN_WAIT_INFINITE)
             /\ UNCHANGED <<task_stk, object, data_elem>>
    <3>1. tn_curr_run_task \in AppTask
      BY <2>3 DEF Idle, Caller
    <3>2. QED
      BY <2>3, <3>1, ChAwait
  <2>4. QED
    BY <2>1, <2>2, <2>3 DEF tn_queue_receive, tn_queue_receive_polling
<1>2. QED
  BY <1>1 DEF Promise!Next

LEMMA ChStep ==
  ASSUME ChInv, DqNext
  PROVE  ReceivingOK' /\ Promise!Next
<1>1. CASE DqCall
  <2>1. ASSUME NEW n \in 0 .. MaxEntries, tn_queue_create(n)
        PROVE  ReceivingOK' /\ Promise!Next
    BY <2>1, ChCreate DEF Promise!Next
  <2>2. QED
    BY <1>1, <2>1, ChSend, ChReceives DEF DqCall
<1>2. CASE NobodyDeletes /\ DqInterrupt
  BY <1>2, ChSend, ChReceives DEF DqInterrupt
<1>3. CASE Undisturbed /\ Delete
  <2>1. PlainStep /\ taken' = None /\ UNCHANGED dqueue
    BY <1>3 DEF Delete, PlainStep
  <2>2. QED
    BY <2>1, ChPlain DEF Promise!Next
<1>4. CASE Others
  <2>1. CASE ReceiveEnd
    <3>1. tn_curr_run_task \in AppTask
      BY <2>1 DEF ReceiveEnd, ChInv, DqInv, ObjectInv, IInv, Control, ReceivingOK
    <3>2. QED
      BY <2>1, <3>1, ChReceiveEnd DEF Promise!Next
  <2>2. CASE /\ \/ DeleteSteps \/ Start \/ Enter \/ Leave \/ Switch
                \/ \E t \in AppTask : /\ Idle /\ UNCHANGED object
                                      /\ \/ tn_task_suspend(t) \/ tn_task_resume(t)
                                         \/ tn_task_activate(t)
             /\ taken' = None /\ UNCHANGED dqueue
    <3>1. PlainStep
      BY <2>2 DEF PlainStep, Idle
    <3>2. QED
      BY <2>2, <3>1, ChPlain DEF Promise!Next
  <2>3. CASE /\ \/ \E t \in AppTask : Idle /\ ~Sleeping(t) /\ Terminate(t) /\ Forget(t)
                \/ Idle /\ tn_task_exit(FALSE) /\ UNCHANGED object /\ Forget(tn_curr_run_task)
             /\ taken' = None /\ UNCHANGED fifo
    <3>1. \E t \in AppTask :
            /\ Forget(t)
            /\ \/ ~Sleeping(t) /\ Terminate(t)
               \/ Free /\ tn_task_exit(FALSE) /\ UNCHANGED object /\ t = tn_curr_run_task
      BY <2>3 DEF Idle, Caller
    <3>2. ReceivingOK' /\ Promise!GiveUp
      BY <2>3, <3>1, ChEnds
    <3>3. QED
      BY <3>2 DEF Promise!Next
  <2>4. QED
    BY <1>4, <2>1, <2>2, <2>3 DEF Others
<1>5. QED
  BY <1>1, <1>2, <1>3, <1>4 DEF DqNext

LEMMA ChInitOK ==
  ASSUME DqInit
  PROVE  ChInv /\ Promise!Init
<1>1. /\ DqInv /\ Waits(k) = {} /\ Looks(k, <<>>, <<>>)
  BY DqInitOK, ObjectInitOK, TwoKinds DEF DqInit, Looks
<1>2. /\ id = TRUE /\ taken = None /\ receiving = [t \in Task |-> FALSE]
      /\ fifo.num_entries \in 0 .. MaxEntries /\ fifo.tail_cnt = 0 /\ fifo.header_cnt = 0
  BY DEF DqInit, ObjectInit
<1>3. ChInv
  BY <1>1, <1>2 DEF ChInv, ReceivingOK, Getters, On
<1>4. Handed = [t \in AppTask |-> None]
  BY <1>2, Nodes DEF Handed, Served
<1>5. Blocked = <<>> /\ Receivers = <<>>
  <2>1. PICK w : w = <<>>
    OBVIOUS
  <2>2. w \in Seq(Task) /\ Looks(k, w, w)
    BY <1>1, <2>1
  <2>3. Blocked = Sent(w, data_elem) /\ Receivers = w
    BY <1>1, <2>2, View
  <2>4. QED
    BY <2>1, <2>2, <2>3, SentIs
<1>6. Ring!Contents(fifo) = <<>>
  <2>1. Ring!Stored(fifo) = 0
    BY <1>2 DEF Ring!Stored
  <2>2. QED
    BY <2>1 DEF Ring!Contents
<1>7. Ring!Room(fifo) = Ring!Room([num_entries |-> fifo.num_entries])
  BY DEF Ring!Room
<1>8. Promise!Init
  BY <1>2, <1>4, <1>5, <1>6, <1>7 DEF Promise!Init
<1>9. QED
  BY <1>3, <1>8

LEMMA ChStutters ==
  ASSUME ChInv, UNCHANGED all
  PROVE  ReceivingOK' /\ UNCHANGED Promise!vars
<1>1. /\ k' = k /\ id' = id /\ fifo' = fifo /\ data_elem' = data_elem
      /\ receiving' = receiving /\ taken' = taken
  BY DEF all, vars, object, dqueue
<1>2. ReceivingOK'
  BY <1>1 DEF ChInv, ReceivingOK, Getters
<1>3. Blocked' = Blocked /\ Receivers' = Receivers /\ Handed' = Handed
  BY <1>1 DEF Blocked, Receivers, Handed, Served, Order, Waiters, Waiting
<1>4. QED
  BY <1>1, <1>2, <1>3 DEF Promise!vars

-----------------------------------------------------------------------------
\* The theorems.

\* tn_dqueue.c keeps its two wait queues and its storage in step: both queues
\* are intact rings of exactly the tasks that wait there, senders wait only
\* when the storage is full and receivers only when it is empty.
THEOREM DqCorrect == DqSpec => []DqSound
BY DqSoundFrom, DqInvariant, PTL

\* The scheduler stays right with tasks on the two wait queues.
THEOREM DqScheduler == DqSpec => []SchedulerSound
<1>1. DqInv => SchedulerSound
  BY SchedulerFrom DEF DqInv, ObjectInv
<1>2. QED
  BY <1>1, DqInvariant, PTL

\* tn_dqueue.c implements the channel of the abstract specification: no element
\* is overtaken, delivered twice or lost but with a task that gives up, whether
\* it is stored, offered by a sender that waits or handed to a receiver.
THEOREM DqImplements == DqSpec => ImplementsChannel
<1>1. DqInit => ChInv /\ Promise!Init
  BY ChInitOK
<1>2. ChInv /\ [DqNext]_all => ChInv'
  BY DqStepOK, DqStays, ChStep, ChStutters DEF ChInv
<1>3. ChInv /\ [DqNext]_all => [Promise!Next]_(Promise!vars)
  BY ChStep, ChStutters
<1>4. QED
  BY <1>1, <1>2, <1>3, PTL DEF DqSpec, ImplementsChannel, Promise!Spec
=============================================================================
