-------------------------- MODULE USBLoopbackProofs --------------------------
(***************************************************************************)
(* Where the blocks of the loopback tasks' buffers are, and what the host  *)
(* reads from Endpoint 2, whatever the sizes of the buffers.               *)
(***************************************************************************)
EXTENDS USBLoopback, TLAPS

-----------------------------------------------------------------------------
\* The places of the n blocks of one buffer: the pool P and the queue Q, the
\* hands of the task that receives (x) and of the one that sends (y), the hand
\* of the call in progress (h), and l blocks in no place any more.

One(b) == IF b = NoBlock THEN 0 ELSE 1
Outside(P, Q, b) == /\ \A i \in 1 .. Len(P) : P[i] # b
                    /\ \A i \in 1 .. Len(Q) : Q[i] # b
Apart(P, Q, x, y, h) ==
  /\ \A i, j \in 1 .. Len(P) : P[i] = P[j] => i = j
  /\ \A i, j \in 1 .. Len(Q) : Q[i] = Q[j] => i = j
  /\ \A i \in 1 .. Len(P), j \in 1 .. Len(Q) : P[i] # Q[j]
  /\ Outside(P, Q, x) /\ Outside(P, Q, y) /\ Outside(P, Q, h)
  /\ x # NoBlock => x # y /\ x # h
  /\ y # NoBlock => y # h
Parts(n, P, Q, x, y, h, l) ==
  /\ P \in Seq(1 .. n) /\ Q \in Seq(1 .. n)
  /\ x \in 0 .. n /\ y \in 0 .. n /\ h \in 0 .. n
  /\ l \in Nat
  /\ Apart(P, Q, x, y, h)
  /\ Len(P) + Len(Q) + One(x) + One(y) + One(h) + l = n

\* A block may go from hand to hand.
LEMMA Hands ==
  ASSUME NEW n, NEW P, NEW Q, NEW x, NEW y, NEW h, NEW l, Parts(n, P, Q, x, y, h, l)
  PROVE  /\ Parts(n, P, Q, h, y, x, l)
         /\ Parts(n, P, Q, x, h, y, l)
<1>1. One(x) \in Nat /\ One(y) \in Nat /\ One(h) \in Nat
  BY DEF One
<1>2. Apart(P, Q, h, y, x) /\ Apart(P, Q, x, h, y)
  BY DEF Parts, Apart
<1>3. Len(P) \in Nat /\ Len(Q) \in Nat
  BY DEF Parts
<1>4. QED
  BY <1>1, <1>2, <1>3 DEF Parts

\* The head of the pool is taken.
LEMMA PopPool ==
  ASSUME NEW n \in Nat, NEW P, NEW Q, NEW x, NEW y, NEW l,
         Parts(n, P, Q, x, y, NoBlock, l), P # <<>>
  PROVE  Parts(n, Tail(P), Q, x, y, Head(P), l) /\ Head(P) # NoBlock
<1>1. /\ P \in Seq(1 .. n) /\ Len(P) \in Nat \ {0} /\ Tail(P) \in Seq(1 .. n)
      /\ Len(Tail(P)) = Len(P) - 1 /\ Head(P) = P[1] /\ Head(P) \in 1 .. n
      /\ \A i \in 1 .. Len(P) - 1 : Tail(P)[i] = P[i + 1]
  BY DEF Parts
<1>2. Apart(Tail(P), Q, x, y, Head(P))
  <2>1. \A i \in 1 .. Len(Tail(P)) : i + 1 \in 1 .. Len(P) /\ Tail(P)[i] = P[i + 1]
    BY <1>1
  <2>2. 1 \in 1 .. Len(P)
    BY <1>1
  <2>3. /\ \A i, j \in 1 .. Len(Tail(P)) : Tail(P)[i] = Tail(P)[j] => i = j
        /\ \A i \in 1 .. Len(Tail(P)) : Tail(P)[i] # Head(P)
    <3>1. ASSUME NEW i \in 1 .. Len(Tail(P)), NEW j \in 1 .. Len(Tail(P)),
                 Tail(P)[i] = Tail(P)[j]
          PROVE  i = j
      <4>1. i + 1 = j + 1
        BY <2>1, <3>1 DEF Parts, Apart
      <4>2. QED
        BY <1>1, <4>1
    <3>2. ASSUME NEW i \in 1 .. Len(Tail(P)), Tail(P)[i] = Head(P)
          PROVE  FALSE
      <4>1. i + 1 = 1
        BY <1>1, <2>1, <2>2, <3>2 DEF Parts, Apart
      <4>2. QED
        BY <1>1, <4>1
    <3>3. QED
      BY <3>1, <3>2
  <2>4. \A i \in 1 .. Len(Tail(P)) : \A j \in 1 .. Len(Q) : Tail(P)[i] # Q[j]
    BY <2>1 DEF Parts, Apart
  <2>5. Outside(Tail(P), Q, x) /\ Outside(Tail(P), Q, y)
    BY <2>1 DEF Parts, Apart, Outside
  <2>6. Outside(Tail(P), Q, Head(P))
    BY <1>1, <2>2, <2>3 DEF Parts, Apart, Outside
  <2>7. (x # NoBlock => x # y /\ x # Head(P)) /\ (y # NoBlock => y # Head(P))
    BY <1>1, <2>2 DEF Parts, Apart, Outside
  <2>8. QED
    BY <2>3, <2>4, <2>5, <2>6, <2>7 DEF Parts, Apart
<1>3. One(Head(P)) = 1 /\ One(NoBlock) = 0 /\ One(x) \in Nat /\ One(y) \in Nat
  BY <1>1 DEF One, NoBlock
<1>4. Len(Tail(P)) + Len(Q) + One(x) + One(y) + One(Head(P)) + l = n
  BY <1>1, <1>3 DEF Parts
<1>5. Head(P) # NoBlock /\ Head(P) \in 0 .. n
  BY <1>1 DEF NoBlock
<1>6. QED
  BY <1>1, <1>2, <1>4, <1>5 DEF Parts

\* The head of the queue is taken.
LEMMA PopQueue ==
  ASSUME NEW n \in Nat, NEW P, NEW Q, NEW x, NEW y, NEW l,
         Parts(n, P, Q, x, y, NoBlock, l), Q # <<>>
  PROVE  Parts(n, P, Tail(Q), x, y, Head(Q), l) /\ Head(Q) # NoBlock
<1>1. Parts(n, Q, P, x, y, NoBlock, l)
  BY DEF Parts, Apart, Outside
<1>2. Parts(n, Tail(Q), P, x, y, Head(Q), l) /\ Head(Q) # NoBlock
  BY <1>1, PopPool
<1>3. QED
  BY <1>2 DEF Parts, Apart, Outside

\* A block in the hand goes to the pool.
LEMMA PushPool ==
  ASSUME NEW n \in Nat, NEW P, NEW Q, NEW x, NEW y, NEW h, NEW l,
         Parts(n, P, Q, x, y, h, l), h # NoBlock
  PROVE  Parts(n, <<h>> \o P, Q, x, y, NoBlock, l)
<1> DEFINE R == <<h>> \o P
<1>1. /\ P \in Seq(1 .. n) /\ Q \in Seq(1 .. n) /\ h \in 1 .. n /\ Len(P) \in Nat
  BY DEF Parts, NoBlock
<1>2. /\ R \in Seq(1 .. n) /\ Len(R) = Len(P) + 1 /\ R[1] = h
      /\ \A i \in 2 .. Len(R) : i - 1 \in 1 .. Len(P) /\ R[i] = P[i - 1]
  BY <1>1
<1> HIDE DEF R
<1>3. ASSUME NEW i \in 1 .. Len(R), i # 1
      PROVE  i \in 2 .. Len(R)
  BY <1>1, <1>2, <1>3
<1>4. ASSUME NEW i \in 1 .. Len(R), NEW j \in 1 .. Len(R), R[i] = R[j]
      PROVE  i = j
  <2>1. CASE i = 1 /\ j # 1
    BY <1>2, <1>3, <1>4, <2>1 DEF Parts, Apart, Outside
  <2>2. CASE i # 1 /\ j = 1
    BY <1>2, <1>3, <1>4, <2>2 DEF Parts, Apart, Outside
  <2>3. CASE i # 1 /\ j # 1
    <3>1. PICK a \in 1 .. Len(P) : a = i - 1 /\ R[i] = P[a]
      BY <1>2, <1>3, <2>3
    <3>2. PICK b \in 1 .. Len(P) : b = j - 1 /\ R[j] = P[b]
      BY <1>2, <1>3, <2>3
    <3>3. a = b
      BY <1>4, <3>1, <3>2 DEF Parts, Apart
    <3>4. QED
      BY <1>1, <1>2, <3>1, <3>2, <3>3
  <2>4. QED
    BY <2>1, <2>2, <2>3
<1>5. ASSUME NEW i \in 1 .. Len(R)
      PROVE  /\ \A j \in 1 .. Len(Q) : R[i] # Q[j]
             /\ R[i] # x /\ R[i] # y /\ R[i] # NoBlock
  <2>1. CASE i = 1
    BY <1>1, <1>2, <2>1 DEF Parts, Apart, Outside, NoBlock
  <2>2. CASE i # 1
    <3>1. PICK a \in 1 .. Len(P) : R[i] = P[a]
      BY <1>2, <1>3, <2>2
    <3>2. P[a] \in 1 .. n
      BY <1>1
    <3>3. \A j \in 1 .. Len(Q) : P[a] # Q[j]
      BY <3>1 DEF Parts, Apart
    <3>4. P[a] # x /\ P[a] # y /\ P[a] # NoBlock
      BY <3>2 DEF Parts, Apart, Outside, NoBlock
    <3>5. QED
      BY <3>1, <3>3, <3>4
  <2>3. QED
    BY <2>1, <2>2
<1>6. \A i \in 1 .. Len(Q) : Q[i] # NoBlock
  BY <1>1 DEF NoBlock
<1>7. Apart(R, Q, x, y, NoBlock)
  BY <1>4, <1>5, <1>6 DEF Parts, Apart, Outside
<1>8. One(h) = 1 /\ One(NoBlock) = 0 /\ One(x) \in Nat /\ One(y) \in Nat
  BY DEF One
<1>9. Parts(n, R, Q, x, y, NoBlock, l)
  BY <1>1, <1>2, <1>7, <1>8 DEF Parts, NoBlock
<1>10. QED
  BY <1>9 DEF R

\* A block in the hand goes to the end of the queue.
LEMMA PushQueue ==
  ASSUME NEW n \in Nat, NEW P, NEW Q, NEW x, NEW y, NEW h, NEW l,
         Parts(n, P, Q, x, y, h, l), h # NoBlock
  PROVE  Parts(n, P, Append(Q, h), x, y, NoBlock, l)
<1> DEFINE R == Append(Q, h)
<1>1. /\ P \in Seq(1 .. n) /\ Q \in Seq(1 .. n) /\ h \in 1 .. n /\ Len(Q) \in Nat
  BY DEF Parts, NoBlock
<1>2. /\ R \in Seq(1 .. n) /\ Len(R) = Len(Q) + 1 /\ R[Len(R)] = h
      /\ \A i \in 1 .. Len(Q) : R[i] = Q[i]
  BY <1>1
<1> HIDE DEF R
<1>3. ASSUME NEW i \in 1 .. Len(R), i # Len(R)
      PROVE  i \in 1 .. Len(Q)
  BY <1>1, <1>2, <1>3
<1>4. ASSUME NEW i \in 1 .. Len(R), NEW j \in 1 .. Len(R), R[i] = R[j]
      PROVE  i = j
  <2>1. CASE i = Len(R) /\ j # Len(R)
    BY <1>2, <1>3, <1>4, <2>1 DEF Parts, Apart, Outside
  <2>2. CASE i # Len(R) /\ j = Len(R)
    BY <1>2, <1>3, <1>4, <2>2 DEF Parts, Apart, Outside
  <2>3. CASE i # Len(R) /\ j # Len(R)
    BY <1>2, <1>3, <1>4, <2>3 DEF Parts, Apart
  <2>4. QED
    BY <2>1, <2>2, <2>3
<1>5. ASSUME NEW i \in 1 .. Len(R)
      PROVE  /\ \A j \in 1 .. Len(P) : R[i] # P[j]
             /\ R[i] # x /\ R[i] # y /\ R[i] # NoBlock
  <2>1. CASE i = Len(R)
    BY <1>1, <1>2, <2>1 DEF Parts, Apart, Outside, NoBlock
  <2>2. CASE i # Len(R)
    <3>1. PICK a \in 1 .. Len(Q) : R[i] = Q[a]
      BY <1>2, <1>3, <2>2
    <3>2. Q[a] \in 1 .. n
      BY <1>1
    <3>3. \A j \in 1 .. Len(P) : Q[a] # P[j]
      BY <3>1 DEF Parts, Apart
    <3>4. Q[a] # x /\ Q[a] # y /\ Q[a] # NoBlock
      BY <3>2 DEF Parts, Apart, Outside, NoBlock
    <3>5. QED
      BY <3>1, <3>3, <3>4
  <2>3. QED
    BY <2>1, <2>2
<1>6. \A i \in 1 .. Len(P) : P[i] # NoBlock
  BY <1>1 DEF NoBlock
<1>7. Apart(P, R, x, y, NoBlock)
  BY <1>4, <1>5, <1>6 DEF Parts, Apart, Outside
<1>8. One(h) = 1 /\ One(NoBlock) = 0 /\ One(x) \in Nat /\ One(y) \in Nat /\ Len(P) \in Nat
  BY <1>1 DEF One
<1>9. Parts(n, P, R, x, y, NoBlock, l)
  BY <1>1, <1>2, <1>7, <1>8 DEF Parts, NoBlock
<1>10. QED
  BY <1>9 DEF R

-----------------------------------------------------------------------------
\* The tasks at the two ends of a queue.

RecvBuf == {"EP2RX", "EP5RX", "EPExch"}
SendBuf == {"EP2TX", "EP5TX", "EPExch"}
Receiver(q) == CASE q = "EP2RX" -> "ep2_rx"
                 [] q = "EP5RX" -> "ep5_rx"
                 [] q = "EPExch" -> "ep5_tx"
Sender(q) == CASE q = "EP2TX" -> "ep2_tx"
               [] q = "EP5TX" -> "ep5_tx"
               [] q = "EPExch" -> "ep2_rx"

LEMMA TaskNames == Task = {"ep5_tx", "ep5_rx", "ep2_tx", "ep2_rx"}
<1>1. DOMAIN Tasks = 1 .. 4
  BY DEF Tasks
<1>2. /\ Tasks[1] = "ep5_tx" /\ Tasks[2] = "ep5_rx"
      /\ Tasks[3] = "ep2_tx" /\ Tasks[4] = "ep2_rx"
  BY DEF Tasks
<1>3. 1 .. 4 = {1, 2, 3, 4}
  OBVIOUS
<1> HIDE DEF Tasks
<1>4. Task = {Tasks[i] : i \in {1, 2, 3, 4}}
  BY <1>1, <1>3 DEF Task, Range
<1>5. QED
  BY <1>2, <1>4

LEMMA Ends ==
  /\ \A t \in Task :
       /\ Source[t] # NoBuffer => Source[t] \in RecvBuf /\ Receiver(Source[t]) = t
       /\ Target[t] # NoBuffer => Target[t] \in SendBuf /\ Sender(Target[t]) = t
       /\ Source[t] # Target[t]
  /\ \A q \in RecvBuf : Receiver(q) \in Task /\ Source[Receiver(q)] = q
  /\ \A q \in SendBuf : Sender(q) \in Task /\ Target[Sender(q)] = q
  /\ RecvBuf \subseteq Buffer /\ SendBuf \subseteq Buffer /\ NoBuffer \notin Buffer
BY TaskNames DEF Source, Target, RecvBuf, SendBuf, Receiver, Sender, NoBuffer, Buffer

LEMMA SourceEnd ==
  ASSUME NEW t \in Task, NEW q \in Buffer, q = Source[t]
  PROVE  q \in RecvBuf /\ Receiver(q) = t
<1>1. Source[t] # NoBuffer
  BY Ends
<1>2. Source[t] \in RecvBuf /\ Receiver(Source[t]) = t
  BY <1>1, Ends, Zenon
<1>3. QED
  BY <1>2

LEMMA TargetEnd ==
  ASSUME NEW t \in Task, NEW q \in Buffer, q = Target[t]
  PROVE  q \in SendBuf /\ Sender(q) = t
<1>1. Target[t] # NoBuffer
  BY Ends
<1>2. Target[t] \in SendBuf /\ Sender(Target[t]) = t
  BY <1>1, Ends, Zenon
<1>3. QED
  BY <1>2

-----------------------------------------------------------------------------
\* The tasks' records.

Place == {"receive", "get", "copy", "send", "release"}
TaskRecord == [at : Place, waits : BOOLEAN, ptr1 : Nat, ptr : Nat]

\* What the task that receives from p holds, and the one that sends to p.
XOf(r) == IF r.at # "receive" THEN r.ptr1 ELSE NoBlock
YOf(r) == IF r.at \in {"copy", "send"} THEN r.ptr ELSE NoBlock
X(T, p) == IF p \in RecvBuf THEN XOf(T[Receiver(p)]) ELSE NoBlock
Y(T, p) == IF p \in SendBuf THEN YOf(T[Sender(p)]) ELSE NoBlock

\* A task is only in the places of its loop, and what it holds is a block.
RecordOK(t, r) ==
  /\ r \in TaskRecord
  /\ Source[t] = NoBuffer => r.at \notin {"receive", "release"}
  /\ Target[t] = NoBuffer => r.at \notin {"get", "copy", "send"}
  /\ Source[t] # NoBuffer /\ r.at # "receive" => r.ptr1 # NoBlock
  /\ r.at \in {"copy", "send"} => r.ptr # NoBlock
TasksOK(T) == T \in [Task -> TaskRecord] /\ \A t \in Task : RecordOK(t, T[t])

\* A buffer that is not this one's, or one of no task, is not touched when the
\* record of a task changes.
With(T, t, r) == [T EXCEPT ![t] = r]
LEMMA SetRecord ==
  ASSUME NEW T, T \in [Task -> TaskRecord], NEW t \in Task, NEW r, NEW p \in Buffer
  PROVE  /\ p = Source[t] => X(With(T, t, r), p) = XOf(r) /\ X(T, p) = XOf(T[t])
         /\ p # Source[t] => X(With(T, t, r), p) = X(T, p)
         /\ p = Target[t] => Y(With(T, t, r), p) = YOf(r) /\ Y(T, p) = YOf(T[t])
         /\ p # Target[t] => Y(With(T, t, r), p) = Y(T, p)
<1> DEFINE S == With(T, t, r)
<1>1. \A u \in Task : S[u] = IF u = t THEN r ELSE T[u]
  BY DEF With
<1> HIDE DEF S
<1>4. ASSUME p # Source[t]
      PROVE  X(S, p) = X(T, p)
  <2>1. p \in RecvBuf => Receiver(p) \in Task /\ Receiver(p) # t
    BY <1>4, Ends
  <2>2. QED
    BY <1>1, <2>1 DEF X
<1>5. ASSUME p # Target[t]
      PROVE  Y(S, p) = Y(T, p)
  <2>1. p \in SendBuf => Sender(p) \in Task /\ Sender(p) # t
    BY <1>5, Ends
  <2>2. QED
    BY <1>1, <2>1 DEF Y
<1>6. p = Source[t] => X(S, p) = XOf(r) /\ X(T, p) = XOf(T[t])
  BY <1>1, SourceEnd DEF X
<1>7. p = Target[t] => Y(S, p) = YOf(r) /\ Y(T, p) = YOf(T[t])
  BY <1>1, TargetEnd DEF Y
<1>8. QED
  BY <1>4, <1>5, <1>6, <1>7 DEF S

LEMMA SetTasksOK ==
  ASSUME NEW T, TasksOK(T), NEW t \in Task, NEW r, RecordOK(t, r)
  PROVE  TasksOK([T EXCEPT ![t] = r])
<1> DEFINE S == [T EXCEPT ![t] = r]
<1>1. r \in TaskRecord /\ T \in [Task -> TaskRecord]
  BY DEF TasksOK, RecordOK
<1>2. S \in [Task -> TaskRecord] /\ \A u \in Task : S[u] = IF u = t THEN r ELSE T[u]
  BY <1>1
<1> HIDE DEF S
<1>3. TasksOK(S)
  BY <1>2 DEF TasksOK
<1>4. QED
  BY <1>3 DEF S

-----------------------------------------------------------------------------
\* The calls.

Bf(P, Q, T) == [pool |-> P, queue |-> Q, task |-> T]
\* The task's record one place further, with these blocks.
Further(T, t, a, b) == [at |-> After(t, T[t].at), waits |-> FALSE, ptr1 |-> a, ptr |-> b]

\* The task's record when it goes on with the block b it received or got.
Receives(T, t, b) == With(T, t, Further(T, t, b, T[t].ptr))
Gets(T, t, b)     == With(T, t, Further(T, t, T[t].ptr1, b))
Advances(T, t)    == With(T, t, Further(T, t, T[t].ptr1, T[t].ptr))

LEMMA GoesIs ==
  ASSUME NEW P, NEW Q, NEW T, T \in [Task -> TaskRecord], NEW t \in Task, NEW b
  PROVE  /\ Goes(Bf(P, Q, T), t) = Bf(P, Q, Advances(T, t))
         /\ Received(Bf(P, Q, T), t, b) = Bf(P, Q, Receives(T, t, b))
         /\ Gotten(Bf(P, Q, T), t, b) = Bf(P, Q, Gets(T, t, b))
<1> DEFINE B  == Bf(P, Q, T)
           on == After(t, T[t].at)
           r1 == [at |-> on, waits |-> T[t].waits, ptr1 |-> T[t].ptr1, ptr |-> T[t].ptr]
           r2 == Further(T, t, T[t].ptr1, T[t].ptr)
           S  == [T EXCEPT ![t] = r2]
<1>1. T[t] = [at |-> T[t].at, waits |-> T[t].waits, ptr1 |-> T[t].ptr1, ptr |-> T[t].ptr]
  BY DEF TaskRecord
<1>2. [T[t] EXCEPT !.at = on] = r1
  BY <1>1
<1>3. PICK a, w, c, d, f : /\ a = on /\ w = T[t].waits /\ c = T[t].ptr1 /\ d = T[t].ptr
                           /\ f = FALSE
  OBVIOUS
<1>4. S[t] = r2
  OBVIOUS
<1>5. [r1 EXCEPT !.waits = FALSE] = r2
  <2>1. /\ r1 = [at |-> a, waits |-> w, ptr1 |-> c, ptr |-> d]
        /\ r2 = [at |-> a, waits |-> f, ptr1 |-> c, ptr |-> d]
    BY <1>3 DEF Further
  <2> HIDE DEF r1, r2
  <2>2. [r1 EXCEPT !.waits = f] = [at |-> a, waits |-> f, ptr1 |-> c, ptr |-> d]
    BY <2>1
  <2>3. QED
    BY <1>3, <2>1, <2>2
<1>6. /\ [r2 EXCEPT !.ptr1 = b] = Further(T, t, b, T[t].ptr)
      /\ [r2 EXCEPT !.ptr = b] = Further(T, t, T[t].ptr1, b)
  <2>1. /\ r2 = [at |-> a, waits |-> f, ptr1 |-> c, ptr |-> d]
        /\ Further(T, t, b, T[t].ptr) = [at |-> a, waits |-> f, ptr1 |-> b, ptr |-> d]
        /\ Further(T, t, T[t].ptr1, b) = [at |-> a, waits |-> f, ptr1 |-> c, ptr |-> b]
    BY <1>3 DEF Further
  <2> HIDE DEF r2
  <2>2. [r2 EXCEPT !.ptr1 = b] = [at |-> a, waits |-> f, ptr1 |-> b, ptr |-> d]
    BY <2>1
  <2>3. [r2 EXCEPT !.ptr = b] = [at |-> a, waits |-> f, ptr1 |-> c, ptr |-> b]
    BY <2>1
  <2>4. QED
    BY <2>1, <2>2, <2>3
<1> HIDE DEF r1, r2
<1>7. B = [pool |-> P, queue |-> Q, task |-> T] /\ B.task = T
  BY DEF Bf
<1>8. Goes(B, t) = Bf(P, Q, S)
  <2>1. Goes(B, t) = [B EXCEPT !.task = [[T EXCEPT ![t].at = on] EXCEPT ![t].waits = FALSE]]
    BY <1>7 DEF Goes
  <2>2. [[T EXCEPT ![t].at = on] EXCEPT ![t].waits = FALSE] =
          [T EXCEPT ![t] = [[T[t] EXCEPT !.at = on] EXCEPT !.waits = FALSE]]
    OBVIOUS
  <2>3. [B EXCEPT !.task = S] = Bf(P, Q, S)
    BY <1>7 DEF Bf
  <2>4. QED
    BY <1>2, <1>5, <2>1, <2>2, <2>3
<1>9. ASSUME NEW G, G = Bf(P, Q, S)
      PROVE  /\ [G EXCEPT !.task[t].ptr1 = b] =
                  Bf(P, Q, [T EXCEPT ![t] = [r2 EXCEPT !.ptr1 = b]])
             /\ [G EXCEPT !.task[t].ptr = b] =
                  Bf(P, Q, [T EXCEPT ![t] = [r2 EXCEPT !.ptr = b]])
  <2>1. G = [pool |-> P, queue |-> Q, task |-> S] /\ G.task = S
    BY <1>9 DEF Bf
  <2>2. /\ [G EXCEPT !.task[t].ptr1 = b] = [G EXCEPT !.task = [S EXCEPT ![t].ptr1 = b]]
        /\ [G EXCEPT !.task[t].ptr = b] = [G EXCEPT !.task = [S EXCEPT ![t].ptr = b]]
    BY <2>1
  <2>3. /\ [S EXCEPT ![t].ptr1 = b] = [T EXCEPT ![t] = [r2 EXCEPT !.ptr1 = b]]
        /\ [S EXCEPT ![t].ptr = b] = [T EXCEPT ![t] = [r2 EXCEPT !.ptr = b]]
    BY <1>4
  <2> HIDE DEF S
  <2>4. \A R : [G EXCEPT !.task = R] = Bf(P, Q, R)
    BY <2>1 DEF Bf
  <2>5. QED
    BY <2>2, <2>3, <2>4
<1>10. QED
  BY <1>6, <1>8, <1>9 DEF Received, Gotten, Receives, Gets, Advances, With, r2

\* Only the task at its end can wait for a buffer.
LEMMA WaitsAtIs ==
  ASSUME NEW P, NEW Q, NEW T, T \in [Task -> TaskRecord], NEW q \in Buffer
  PROVE  LET W(place) == WaitsAt(Bf(P, Q, T), place, q)
         IN /\ W("receive") # {} <=>
                 q \in RecvBuf /\ T[Receiver(q)].waits /\ T[Receiver(q)].at = "receive"
            /\ W("receive") # {} => Only(W("receive")) = Receiver(q)
            /\ \A place \in {"get", "send"} :
                 /\ W(place) # {} <=>
                      q \in SendBuf /\ T[Sender(q)].waits /\ T[Sender(q)].at = place
                 /\ W(place) # {} => Only(W(place)) = Sender(q)
<1> DEFINE W(place) == WaitsAt(Bf(P, Q, T), place, q)
<1>1. W("receive") = {t \in Task : T[t].at = "receive" /\ T[t].waits /\ q = Source[t]}
  BY DEF WaitsAt, Bf
<1>2. ASSUME NEW t \in W("receive")
      PROVE  q \in RecvBuf /\ t = Receiver(q) /\ T[t].at = "receive" /\ T[t].waits
  BY <1>1, SourceEnd
<1>3. q \in RecvBuf /\ T[Receiver(q)].waits /\ T[Receiver(q)].at = "receive" =>
        Receiver(q) \in W("receive")
  BY <1>1, Ends
<1>4. ASSUME NEW place \in {"get", "send"}
      PROVE  W(place) = {t \in Task : T[t].at = place /\ T[t].waits /\ q = Target[t]}
  BY DEF WaitsAt, Bf
<1>5. ASSUME NEW place \in {"get", "send"}, NEW t \in W(place)
      PROVE  q \in SendBuf /\ t = Sender(q) /\ T[t].at = place /\ T[t].waits
  BY <1>4, <1>5, TargetEnd
<1>6. ASSUME NEW place \in {"get", "send"}
      PROVE  q \in SendBuf /\ T[Sender(q)].waits /\ T[Sender(q)].at = place =>
               Sender(q) \in W(place)
  BY <1>4, Ends
<1> HIDE DEF W
<1>7. W("receive") # {} => Only(W("receive")) = Receiver(q)
  <2>1. W("receive") # {} => W("receive") = {Receiver(q)}
    BY <1>2
  <2>2. QED
    BY <2>1 DEF Only
<1>8. ASSUME NEW place \in {"get", "send"}
      PROVE  W(place) # {} => Only(W(place)) = Sender(q)
  <2>1. W(place) # {} => W(place) = {Sender(q)}
    BY <1>5
  <2>2. QED
    BY <2>1 DEF Only
<1>9. QED
  BY <1>2, <1>3, <1>5, <1>6, <1>7, <1>8 DEF W

\* What the three calls do.
QueuesOK(Q) == Q \in [Buffer -> Seq(Nat)]
RecvWaits(T, q) == q \in RecvBuf /\ T[Receiver(q)].waits /\ T[Receiver(q)].at = "receive"
SendWaits(T, q, place) == q \in SendBuf /\ T[Sender(q)].waits /\ T[Sender(q)].at = place
Appended(Q, q, b) == [Q EXCEPT ![q] = Append(Q[q], b)]
Headless(Q, q)    == [Q EXCEPT ![q] = Tail(Q[q])]
Prepended(P, p, b) == [P EXCEPT ![p] = <<b>> \o P[p]]

LEMMA SendIs ==
  ASSUME NEW P, NEW Q, NEW T, TasksOK(T), NEW q \in Buffer, NEW b
  PROVE  /\ RecvWaits(T, q) =>
              Send(Bf(P, Q, T), q, b) = Bf(P, Q, Receives(T, Receiver(q), b))
         /\ ~RecvWaits(T, q) =>
              Send(Bf(P, Q, T), q, b) = Bf(P, Appended(Q, q, b), T)
         /\ CanSend(Bf(P, Q, T), q) <=> RecvWaits(T, q) \/ Len(Q[q]) # Size[q] - 1
<1>01. T \in [Task -> TaskRecord]
  BY DEF TasksOK
<1>0. PICK B : B = Bf(P, Q, T)
  OBVIOUS
<1> DEFINE W == WaitsAt(B, "receive", q)
<1>1. (W # {} <=> RecvWaits(T, q)) /\ (W # {} => Only(W) = Receiver(q))
  BY <1>0, <1>01, WaitsAtIs DEF RecvWaits
<1>2. B.queue = Q /\ [B EXCEPT !.queue[q] = Append(@, b)] = Bf(P, Appended(Q, q, b), T)
  BY <1>0 DEF Bf, Appended
<1>3. ASSUME RecvWaits(T, q)
      PROVE  Received(B, Receiver(q), b) = Bf(P, Q, Receives(T, Receiver(q), b))
  <2>1. Receiver(q) \in Task
    BY <1>3, Ends DEF RecvWaits
  <2>2. QED
    BY <1>0, <2>1, <1>01, GoesIs
<1>4. Send(B, q, b) = IF W # {} THEN Received(B, Only(W), b)
                      ELSE [B EXCEPT !.queue[q] = Append(@, b)]
  BY DEF Send
<1>5. CanSend(B, q) <=> W # {} \/ Len(Q[q]) # Size[q] - 1
  BY <1>2 DEF CanSend, IsFull
<1> HIDE DEF W
<1>6. QED
  BY <1>0, <1>1, <1>2, <1>3, <1>4, <1>5

LEMMA TakeHeadIs ==
  ASSUME NEW P, NEW Q, NEW T, TasksOK(T), NEW q \in Buffer,
         QueuesOK(Q)
  PROVE  /\ SendWaits(T, q, "send") =>
              TakeHead(Bf(P, Q, T), q) =
                Bf(P, Appended(Headless(Q, q), q, T[Sender(q)].ptr), Advances(T, Sender(q)))
         /\ ~SendWaits(T, q, "send") =>
              TakeHead(Bf(P, Q, T), q) = Bf(P, Headless(Q, q), T)
<1>01. T \in [Task -> TaskRecord] /\ Q \in [Buffer -> Seq(Nat)]
  BY DEF TasksOK, QueuesOK
<1>0. PICK B : B = Bf(P, Q, T)
  OBVIOUS
<1> DEFINE W == WaitsAt(B, "send", q)
           A == Bf(P, Headless(Q, q), T)
           s == Sender(q)
           C == [A EXCEPT !.queue[q] = Append(@, T[s].ptr)]
<1>1. (W # {} <=> SendWaits(T, q, "send")) /\ (W # {} => Only(W) = s)
  BY <1>0, <1>01, WaitsAtIs DEF SendWaits
<1>2. B.task = T /\ [B EXCEPT !.queue[q] = Tail(@)] = A
  <2>1. PICK v : v = Tail(Q[q])
    OBVIOUS
  <2>2. B.task = T /\ B.queue = Q /\ [B EXCEPT !.queue[q] = v] = Bf(P, [Q EXCEPT ![q] = v], T)
    BY <1>0 DEF Bf
  <2>3. QED
    BY <2>1, <2>2 DEF Headless
<1>3. C = Bf(P, Appended(Headless(Q, q), q, T[s].ptr), T)
  <2>1. PICK Q1 : Q1 = Headless(Q, q)
    OBVIOUS
  <2>2. ASSUME NEW D, D = Bf(P, Q1, T)
        PROVE  [D EXCEPT !.queue[q] = Append(@, T[s].ptr)] =
                 Bf(P, [Q1 EXCEPT ![q] = Append(@, T[s].ptr)], T)
    BY <2>2 DEF Bf
  <2>3. QED
    BY <2>1, <2>2 DEF Appended
<1>4. ASSUME SendWaits(T, q, "send")
      PROVE  Goes(C, s) = Bf(P, Appended(Headless(Q, q), q, T[s].ptr), Advances(T, s))
  <2>1. s \in Task
    BY <1>4, Ends DEF SendWaits
  <2>2. PICK Q2 : Q2 = Appended(Headless(Q, q), q, T[s].ptr)
    OBVIOUS
  <2>3. Goes(Bf(P, Q2, T), s) = Bf(P, Q2, Advances(T, s))
    <3>1. T \in [Task -> TaskRecord]
      BY <1>01
    <3>2. QED
      BY ONLY <2>1, <3>1, GoesIs
  <2>4. QED
    BY <1>3, <2>2, <2>3
<1>5. TakeHead(B, q) = IF W = {} THEN [B EXCEPT !.queue[q] = Tail(@)]
                       ELSE Goes([[B EXCEPT !.queue[q] = Tail(@)]
                                    EXCEPT !.queue[q] = Append(@, B.task[Only(W)].ptr)], Only(W))
  BY DEF TakeHead
<1> HIDE DEF W, A
<1>6. CASE W = {}
  BY <1>0, <1>1, <1>2, <1>5, <1>6 DEF A
<1>7. CASE W # {}
  <2>1. TakeHead(B, q) = Goes(C, s)
    BY <1>1, <1>2, <1>5, <1>7
  <2>2. QED
    BY <1>0, <1>1, <1>4, <1>7, <2>1
<1>8. QED
  BY <1>6, <1>7

LEMMA FreeIs ==
  ASSUME NEW P, NEW Q, NEW T, TasksOK(T), NEW p \in Buffer, NEW b
  PROVE  /\ SendWaits(T, p, "get") =>
              Free(Bf(P, Q, T), p, b) = Bf(P, Q, Gets(T, Sender(p), b))
         /\ ~SendWaits(T, p, "get") =>
              Free(Bf(P, Q, T), p, b) = Bf(Prepended(P, p, b), Q, T)
<1>01. T \in [Task -> TaskRecord]
  BY DEF TasksOK
<1>0. PICK B : B = Bf(P, Q, T)
  OBVIOUS
<1> DEFINE W == WaitsAt(B, "get", p)
<1>1. (W # {} <=> SendWaits(T, p, "get")) /\ (W # {} => Only(W) = Sender(p))
  BY <1>0, <1>01, WaitsAtIs DEF SendWaits
<1>2. [B EXCEPT !.pool[p] = <<b>> \o @] = Bf(Prepended(P, p, b), Q, T)
  <2>1. PICK v : v = <<b>> \o P[p]
    OBVIOUS
  <2>2. B.pool = P /\ [B EXCEPT !.pool[p] = v] = Bf([P EXCEPT ![p] = v], Q, T)
    BY <1>0 DEF Bf
  <2>3. QED
    BY <2>1, <2>2 DEF Prepended
<1>3. ASSUME SendWaits(T, p, "get")
      PROVE  Gotten(B, Sender(p), b) = Bf(P, Q, Gets(T, Sender(p), b))
  <2>1. Sender(p) \in Task
    BY <1>3, Ends DEF SendWaits
  <2>2. QED
    BY <1>0, <2>1, <1>01, GoesIs
<1>4. Free(B, p, b) = IF W # {} THEN Gotten(B, Only(W), b)
                      ELSE [B EXCEPT !.pool[p] = <<b>> \o @]
  BY DEF Free
<1> HIDE DEF W
<1>5. QED
  BY <1>0, <1>1, <1>2, <1>3, <1>4

-----------------------------------------------------------------------------
\* A task that goes on: what it holds then.

LEMMA AfterIs ==
  ASSUME NEW t \in Task, NEW r, RecordOK(t, r)
  PROVE  /\ After(t, r.at) \in Place
         /\ After(t, r.at) = "receive" <=> r.at = "release"
         /\ After(t, r.at) \in {"copy", "send"} <=> r.at \in {"get", "copy"}
         /\ Source[t] = NoBuffer => After(t, r.at) \notin {"receive", "release"}
         /\ Target[t] = NoBuffer => After(t, r.at) \notin {"get", "copy", "send"}
<1>1. r.at \in Place
  BY DEF RecordOK, TaskRecord
<1>2. Source[t] = NoBuffer => Target[t] # NoBuffer
  BY TaskNames DEF Source, Target, NoBuffer
<1>3. CASE r.at = "receive"
  BY <1>2, <1>3 DEF After, RecordOK, Place
<1>4. CASE r.at = "get"
  BY <1>2, <1>4 DEF After, RecordOK, Place
<1>5. CASE r.at = "copy"
  BY <1>2, <1>5 DEF After, RecordOK, Place
<1>6. CASE r.at = "send"
  BY <1>2, <1>6 DEF After, RecordOK, Place
<1>7. CASE r.at = "release"
  BY <1>2, <1>7 DEF After, RecordOK, Place
<1>8. QED
  BY <1>1, <1>3, <1>4, <1>5, <1>6, <1>7 DEF Place

LEMMA Advance ==
  ASSUME NEW T, TasksOK(T), NEW t \in Task, NEW a \in Nat, NEW b \in Nat,
         Source[t] # NoBuffer /\ T[t].at # "release" => a # NoBlock,
         T[t].at \in {"get", "copy"} => b # NoBlock,
         NEW S, S = With(T, t, Further(T, t, a, b))
  PROVE  /\ TasksOK(S)
         /\ XOf(Further(T, t, a, b)) = IF T[t].at = "release" THEN NoBlock ELSE a
         /\ YOf(Further(T, t, a, b)) = IF T[t].at \in {"get", "copy"} THEN b ELSE NoBlock
<1>0. PICK r : r = Further(T, t, a, b)
  OBVIOUS
<1>1. RecordOK(t, T[t]) /\ T \in [Task -> TaskRecord]
  BY DEF TasksOK
<1>2. r.at = After(t, T[t].at) /\ r.waits = FALSE /\ r.ptr1 = a /\ r.ptr = b
  BY <1>0 DEF Further
<1>3. r \in TaskRecord
  BY <1>0, <1>1, AfterIs DEF Further, TaskRecord
<1>4. RecordOK(t, r)
  BY <1>1, <1>2, <1>3, AfterIs DEF RecordOK
<1>5. TasksOK(S)
  BY <1>0, <1>4, SetTasksOK DEF With
<1>6. XOf(r) = IF T[t].at = "release" THEN NoBlock ELSE a
  <2>1. r.at = "receive" <=> T[t].at = "release"
    BY <1>1, <1>2, AfterIs
  <2>2. QED
    BY <1>2, <2>1 DEF XOf
<1>7. YOf(r) = IF T[t].at \in {"get", "copy"} THEN b ELSE NoBlock
  <2>1. r.at \in {"copy", "send"} <=> T[t].at \in {"get", "copy"}
    BY <1>1, <1>2, AfterIs
  <2>2. QED
    BY <1>2, <2>1 DEF YOf
<1>8. QED
  BY <1>0, <1>5, <1>6, <1>7

-----------------------------------------------------------------------------
\* The buffers, with the block h of q in the hand of a call, and l[p] lost.

Hand(p, q, h) == IF p = q THEN h ELSE NoBlock
BuffersOK(P, Q, T, l, q, h) ==
  /\ QueuesOK(P) /\ QueuesOK(Q) /\ TasksOK(T)
  /\ \A p \in Buffer : Parts(Size[p], P[p], Q[p], X(T, p), Y(T, p), Hand(p, q, h), l[p])

LEMMA SizeType == \A p \in Buffer : Size[p] \in Nat
BY LoopbackAssumption

\* When the state of one buffer changes, the others have still to be right.
LEMMA OneBuffer ==
  ASSUME NEW P, NEW Q, NEW T, NEW l, NEW q \in Buffer, NEW h, BuffersOK(P, Q, T, l, q, h),
         NEW v \in Seq(Nat), NEW w \in Seq(Nat), NEW S, TasksOK(S), NEW g,
         \A p \in Buffer : p # q => X(S, p) = X(T, p) /\ Y(S, p) = Y(T, p),
         Parts(Size[q], v, w, X(S, q), Y(S, q), g, l[q])
  PROVE  BuffersOK([P EXCEPT ![q] = v], [Q EXCEPT ![q] = w], S, l, q, g)
<1> DEFINE P2 == [P EXCEPT ![q] = v]
           Q2 == [Q EXCEPT ![q] = w]
<1>1. P \in [Buffer -> Seq(Nat)] /\ Q \in [Buffer -> Seq(Nat)]
  BY DEF BuffersOK, QueuesOK
<1>2. P2 \in [Buffer -> Seq(Nat)] /\ Q2 \in [Buffer -> Seq(Nat)]
  BY <1>1
<1>3. \A p \in Buffer : /\ P2[p] = IF p = q THEN v ELSE P[p]
                        /\ Q2[p] = IF p = q THEN w ELSE Q[p]
  BY <1>1
<1> HIDE DEF P2, Q2
<1>4. ASSUME NEW p \in Buffer
      PROVE  Parts(Size[p], P2[p], Q2[p], X(S, p), Y(S, p), Hand(p, q, g), l[p])
  <2>1. CASE p = q
    BY <1>3, <2>1 DEF Hand
  <2>2. CASE p # q
    <3>1. Parts(Size[p], P[p], Q[p], X(T, p), Y(T, p), Hand(p, q, h), l[p])
      BY DEF BuffersOK, QueuesOK
    <3>2. Hand(p, q, h) = NoBlock /\ Hand(p, q, g) = NoBlock
      BY <2>2 DEF Hand
    <3>3. QED
      BY <1>3, <2>2, <3>1, <3>2
  <2>3. QED
    BY <2>1, <2>2
<1>5. QED
  BY <1>2, <1>4 DEF BuffersOK, QueuesOK, P2, Q2

\* The same where the sequences stay.
LEMMA OnlyTasks ==
  ASSUME NEW P, NEW Q, NEW T, NEW l, NEW q \in Buffer, NEW h, BuffersOK(P, Q, T, l, q, h),
         NEW S, TasksOK(S), NEW g,
         \A p \in Buffer : p # q => X(S, p) = X(T, p) /\ Y(S, p) = Y(T, p),
         Parts(Size[q], P[q], Q[q], X(S, q), Y(S, q), g, l[q])
  PROVE  BuffersOK(P, Q, S, l, q, g)
<1>1. [P EXCEPT ![q] = P[q]] = P /\ [Q EXCEPT ![q] = Q[q]] = Q
  BY DEF BuffersOK, QueuesOK
<1>2. P[q] \in Seq(Nat) /\ Q[q] \in Seq(Nat)
  BY DEF BuffersOK, QueuesOK
<1>3. BuffersOK([P EXCEPT ![q] = P[q]], [Q EXCEPT ![q] = Q[q]], S, l, q, g)
  BY <1>2, OneBuffer
<1>4. QED
  BY <1>1, <1>3

LEMMA HandParts ==
  ASSUME NEW P, NEW Q, NEW T, NEW l, NEW q \in Buffer, NEW h, BuffersOK(P, Q, T, l, q, h)
  PROVE  /\ Parts(Size[q], P[q], Q[q], X(T, q), Y(T, q), h, l[q])
         /\ h \in Nat /\ X(T, q) \in Nat /\ Y(T, q) \in Nat
         /\ P[q] \in Seq(Nat) /\ Q[q] \in Seq(Nat)
         /\ TasksOK(T) /\ T \in [Task -> TaskRecord]
         /\ \A t \in Task : RecordOK(t, T[t]) /\ T[t].ptr1 \in Nat /\ T[t].ptr \in Nat
<1>1. Parts(Size[q], P[q], Q[q], X(T, q), Y(T, q), h, l[q])
  BY DEF BuffersOK, QueuesOK, Hand
<1>2. h \in Nat /\ X(T, q) \in Nat /\ Y(T, q) \in Nat
  BY <1>1, SizeType DEF Parts
<1>3. \A t \in Task : RecordOK(t, T[t]) /\ T[t].ptr1 \in Nat /\ T[t].ptr \in Nat
  BY DEF BuffersOK, QueuesOK, TasksOK, TaskRecord
<1>4. QED
  BY <1>1, <1>2, <1>3 DEF BuffersOK, QueuesOK, TasksOK

\* The task at "receive" takes the block in the hand.
LEMMA ReceivesOK ==
  ASSUME NEW P, NEW Q, NEW T, NEW l, NEW q \in Buffer, NEW h, BuffersOK(P, Q, T, l, q, h),
         h # NoBlock, NEW t \in Task, q = Source[t], T[t].at = "receive"
  PROVE  BuffersOK(P, Q, Receives(T, t, h), l, q, NoBlock)
<1> DEFINE r == Further(T, t, h, T[t].ptr)
<1>0. PICK S : S = With(T, t, r)
  OBVIOUS
<1>1. /\ h \in Nat /\ TasksOK(T) /\ T \in [Task -> TaskRecord] /\ T[t].ptr \in Nat
      /\ Parts(Size[q], P[q], Q[q], X(T, q), Y(T, q), h, l[q])
  BY HandParts
<1>2. TasksOK(S) /\ XOf(r) = h /\ YOf(r) = NoBlock
  BY <1>0, <1>1, Advance
<1>3. XOf(T[t]) = NoBlock /\ YOf(T[t]) = NoBlock
  BY DEF XOf, YOf
<1> HIDE DEF r
<1>4. \A p \in Buffer : p # q => X(S, p) = X(T, p) /\ Y(S, p) = Y(T, p)
  BY <1>0, <1>1, <1>2, <1>3, SetRecord
<1>5. X(S, q) = h /\ X(T, q) = NoBlock /\ Y(S, q) = Y(T, q)
  BY <1>0, <1>1, <1>2, <1>3, Ends, SetRecord
<1>6. Parts(Size[q], P[q], Q[q], X(S, q), Y(S, q), NoBlock, l[q])
  BY <1>1, <1>5, Hands
<1>7. BuffersOK(P, Q, S, l, q, NoBlock)
  BY <1>2, <1>4, <1>6, OnlyTasks
<1>8. QED
  BY <1>0, <1>7 DEF Receives, r

\* The task at "get" takes the block in the hand.
LEMMA GetsOK ==
  ASSUME NEW P, NEW Q, NEW T, NEW l, NEW q \in Buffer, NEW h, BuffersOK(P, Q, T, l, q, h),
         h # NoBlock, NEW t \in Task, q = Target[t], T[t].at = "get"
  PROVE  BuffersOK(P, Q, Gets(T, t, h), l, q, NoBlock)
<1> DEFINE r == Further(T, t, T[t].ptr1, h)
<1>0. PICK S : S = With(T, t, r)
  OBVIOUS
<1>1. /\ h \in Nat /\ TasksOK(T) /\ T \in [Task -> TaskRecord] /\ T[t].ptr1 \in Nat
      /\ RecordOK(t, T[t])
      /\ Parts(Size[q], P[q], Q[q], X(T, q), Y(T, q), h, l[q])
  BY HandParts
<1>2. Source[t] # NoBuffer => T[t].ptr1 # NoBlock
  BY <1>1 DEF RecordOK
<1>3. TasksOK(S) /\ XOf(r) = T[t].ptr1 /\ YOf(r) = h
  BY <1>0, <1>1, <1>2, Advance
<1>4. XOf(T[t]) = T[t].ptr1 /\ YOf(T[t]) = NoBlock
  BY DEF XOf, YOf
<1> HIDE DEF r
<1>5. \A p \in Buffer : p # q => X(S, p) = X(T, p) /\ Y(S, p) = Y(T, p)
  BY <1>0, <1>1, <1>3, <1>4, SetRecord
<1>6. Y(S, q) = h /\ Y(T, q) = NoBlock /\ X(S, q) = X(T, q)
  BY <1>0, <1>1, <1>3, <1>4, Ends, SetRecord
<1>7. Parts(Size[q], P[q], Q[q], X(S, q), Y(S, q), NoBlock, l[q])
  BY <1>1, <1>6, Hands
<1>8. BuffersOK(P, Q, S, l, q, NoBlock)
  BY <1>3, <1>5, <1>7, OnlyTasks
<1>9. QED
  BY <1>0, <1>8 DEF Gets, r

\* The task at "send" leaves its block to the call, the one at "release" too,
\* and the one at "copy" keeps both.
LEMMA AdvancesOK ==
  ASSUME NEW P, NEW Q, NEW T, NEW l, NEW q \in Buffer, BuffersOK(P, Q, T, l, q, NoBlock),
         NEW t \in Task
  PROVE  /\ q = Target[t] /\ T[t].at = "send" =>
              BuffersOK(P, Q, Advances(T, t), l, q, T[t].ptr) /\ T[t].ptr # NoBlock
                /\ T[t].ptr = Y(T, q) /\ Y(Advances(T, t), q) = NoBlock
         /\ q = Source[t] /\ T[t].at = "release" =>
              BuffersOK(P, Q, Advances(T, t), l, q, T[t].ptr1) /\ T[t].ptr1 # NoBlock
         /\ q = Target[t] /\ T[t].at = "copy" =>
              BuffersOK(P, Q, Advances(T, t), l, q, NoBlock)
<1> DEFINE r == Further(T, t, T[t].ptr1, T[t].ptr)
<1>0. PICK S : S = With(T, t, r)
  OBVIOUS
<1>1. /\ TasksOK(T) /\ T \in [Task -> TaskRecord] /\ T[t].ptr1 \in Nat /\ T[t].ptr \in Nat
      /\ RecordOK(t, T[t])
      /\ Parts(Size[q], P[q], Q[q], X(T, q), Y(T, q), NoBlock, l[q])
  BY HandParts
<1>2. S = Advances(T, t)
  BY <1>0 DEF Advances, r
<1>3. ASSUME T[t].at \in {"send", "release", "copy"}
      PROVE  /\ TasksOK(S)
             /\ XOf(r) = IF T[t].at = "release" THEN NoBlock ELSE T[t].ptr1
             /\ YOf(r) = IF T[t].at = "copy" THEN T[t].ptr ELSE NoBlock
             /\ XOf(T[t]) = T[t].ptr1
             /\ YOf(T[t]) = IF T[t].at \in {"copy", "send"} THEN T[t].ptr ELSE NoBlock
             /\ T[t].at \in {"copy", "send"} => T[t].ptr # NoBlock
             /\ Source[t] # NoBuffer => T[t].ptr1 # NoBlock
  <2>1. /\ T[t].at \in {"copy", "send"} => T[t].ptr # NoBlock
        /\ Source[t] # NoBuffer => T[t].ptr1 # NoBlock
    BY <1>1, <1>3 DEF RecordOK
  <2>2. /\ TasksOK(S)
        /\ XOf(r) = IF T[t].at = "release" THEN NoBlock ELSE T[t].ptr1
        /\ YOf(r) = IF T[t].at \in {"get", "copy"} THEN T[t].ptr ELSE NoBlock
    BY <1>0, <1>1, <1>3, <2>1, Advance
  <2> HIDE DEF r
  <2>3. QED
    BY <1>3, <2>1, <2>2 DEF XOf, YOf
<1> HIDE DEF r
<1>4. ASSUME q = Target[t], T[t].at = "send"
      PROVE  BuffersOK(P, Q, S, l, q, T[t].ptr) /\ T[t].ptr # NoBlock
               /\ T[t].ptr = Y(T, q) /\ Y(S, q) = NoBlock
  <2>1. \A p \in Buffer : p # q => X(S, p) = X(T, p) /\ Y(S, p) = Y(T, p)
    BY <1>0, <1>1, <1>3, <1>4, SetRecord
  <2>2. Y(S, q) = NoBlock /\ Y(T, q) = T[t].ptr /\ X(S, q) = X(T, q)
    BY <1>0, <1>1, <1>3, <1>4, Ends, SetRecord
  <2>3. Parts(Size[q], P[q], Q[q], X(S, q), Y(S, q), T[t].ptr, l[q])
    BY <1>1, <2>2, Hands
  <2>4. QED
    BY <1>3, <1>4, <2>1, <2>2, <2>3, OnlyTasks
<1>5. ASSUME q = Source[t], T[t].at = "release"
      PROVE  BuffersOK(P, Q, S, l, q, T[t].ptr1) /\ T[t].ptr1 # NoBlock
  <2>1. \A p \in Buffer : p # q => X(S, p) = X(T, p) /\ Y(S, p) = Y(T, p)
    BY <1>0, <1>1, <1>3, <1>5, SetRecord
  <2>2. X(S, q) = NoBlock /\ X(T, q) = T[t].ptr1 /\ Y(S, q) = Y(T, q)
    BY <1>0, <1>1, <1>3, <1>5, Ends, SetRecord
  <2>3. Parts(Size[q], P[q], Q[q], X(S, q), Y(S, q), T[t].ptr1, l[q])
    BY <1>1, <2>2, Hands
  <2>4. Source[t] # NoBuffer
    BY <1>5, Ends
  <2>5. QED
    BY <1>3, <1>5, <2>1, <2>3, <2>4, OnlyTasks
<1>6. ASSUME q = Target[t], T[t].at = "copy"
      PROVE  BuffersOK(P, Q, S, l, q, NoBlock)
  <2>1. \A p \in Buffer : X(S, p) = X(T, p) /\ Y(S, p) = Y(T, p)
    BY <1>0, <1>1, <1>3, <1>6, SetRecord
  <2>2. QED
    BY <1>1, <1>3, <1>6, <2>1, OnlyTasks
<1>7. QED
  BY <1>2, <1>4, <1>5, <1>6

-----------------------------------------------------------------------------
\* The calls keep the buffers.

StateOK(B, l, q, h) == BuffersOK(B.pool, B.queue, B.task, l, q, h)

LEMMA StateBf ==
  ASSUME NEW P, NEW Q, NEW T, NEW l, NEW q, NEW h, BuffersOK(P, Q, T, l, q, h)
  PROVE  StateOK(Bf(P, Q, T), l, q, h)
BY DEF StateOK, Bf

\* The block in the hand is sent.
LEMMA SendOK ==
  ASSUME NEW P, NEW Q, NEW T, NEW l, NEW q \in Buffer, NEW h, BuffersOK(P, Q, T, l, q, h),
         h # NoBlock
  PROVE  StateOK(Send(Bf(P, Q, T), q, h), l, q, NoBlock)
<1>1. /\ h \in Nat /\ T \in [Task -> TaskRecord] /\ TasksOK(T)
      /\ P[q] \in Seq(Nat) /\ Q[q] \in Seq(Nat)
      /\ Parts(Size[q], P[q], Q[q], X(T, q), Y(T, q), h, l[q])
  BY HandParts
<1>2. CASE RecvWaits(T, q)
  <2>1. Receiver(q) \in Task /\ q = Source[Receiver(q)] /\ T[Receiver(q)].at = "receive"
    BY <1>2, Ends DEF RecvWaits
  <2>2. BuffersOK(P, Q, Receives(T, Receiver(q), h), l, q, NoBlock)
    BY <2>1, ReceivesOK
  <2>3. Send(Bf(P, Q, T), q, h) = Bf(P, Q, Receives(T, Receiver(q), h))
    BY <1>1, <1>2, SendIs
  <2>4. QED
    BY <2>2, <2>3, StateBf
<1>3. CASE ~RecvWaits(T, q)
  <2>1. Parts(Size[q], P[q], Append(Q[q], h), X(T, q), Y(T, q), NoBlock, l[q])
    BY <1>1, SizeType, PushQueue
  <2>2. Append(Q[q], h) \in Seq(Nat)
    BY <1>1
  <2>3. BuffersOK([P EXCEPT ![q] = P[q]], [Q EXCEPT ![q] = Append(Q[q], h)], T, l, q, NoBlock)
    BY <1>1, <2>1, <2>2, OneBuffer
  <2>4. [P EXCEPT ![q] = P[q]] = P
    BY DEF BuffersOK, QueuesOK
  <2>5. Send(Bf(P, Q, T), q, h) = Bf(P, Appended(Q, q, h), T)
    BY <1>1, <1>3, SendIs
  <2>6. BuffersOK(P, Appended(Q, q, h), T, l, q, NoBlock)
    BY <2>3, <2>4 DEF Appended
  <2>7. QED
    BY <2>5, <2>6, StateBf
<1>4. QED
  BY <1>2, <1>3

\* The head of the queue comes into the hand, and the block of a task that
\* waits to send into the queue.
LEMMA TakeHeadOK ==
  ASSUME NEW P, NEW Q, NEW T, NEW l, NEW q \in Buffer, BuffersOK(P, Q, T, l, q, NoBlock),
         Q[q] # <<>>
  PROVE  /\ StateOK(TakeHead(Bf(P, Q, T), q), l, q, Head(Q[q]))
         /\ Head(Q[q]) # NoBlock
<1> DEFINE h == Head(Q[q])
           s == Sender(q)
<1>1. /\ T \in [Task -> TaskRecord] /\ TasksOK(T)
      /\ P[q] \in Seq(Nat) /\ Q[q] \in Seq(Nat)
      /\ Parts(Size[q], P[q], Q[q], X(T, q), Y(T, q), NoBlock, l[q])
  BY HandParts
<1>2. Parts(Size[q], P[q], Tail(Q[q]), X(T, q), Y(T, q), h, l[q]) /\ h # NoBlock
  BY <1>1, SizeType, PopQueue
<1>3. Tail(Q[q]) \in Seq(Nat) /\ [P EXCEPT ![q] = P[q]] = P /\ QueuesOK(Q)
  BY <1>1 DEF BuffersOK, QueuesOK
<1>4. CASE SendWaits(T, q, "send")
  <2>1. s \in Task /\ q = Target[s] /\ T[s].at = "send"
    BY <1>4, Ends DEF SendWaits
  <2>2. /\ BuffersOK(P, Q, Advances(T, s), l, q, T[s].ptr) /\ T[s].ptr # NoBlock
        /\ T[s].ptr = Y(T, q) /\ Y(Advances(T, s), q) = NoBlock
    BY <2>1, AdvancesOK
  <2>3. PICK S : S = Advances(T, s)
    OBVIOUS
  <2>4. /\ TasksOK(S) /\ T[s].ptr \in Nat
        /\ Parts(Size[q], P[q], Q[q], X(S, q), Y(S, q), T[s].ptr, l[q])
    BY <2>2, <2>3, HandParts
  <2>5. Parts(Size[q], P[q], Q[q], X(S, q), T[s].ptr, NoBlock, l[q])
    BY <2>2, <2>3, <2>4, Hands
  <2>6. Parts(Size[q], P[q], Tail(Q[q]), X(S, q), T[s].ptr, h, l[q])
    BY <1>1, <2>5, SizeType, PopQueue
  <2>7. Parts(Size[q], P[q], Tail(Q[q]), X(S, q), h, T[s].ptr, l[q])
    BY <2>6, Hands
  <2>8. Parts(Size[q], P[q], Append(Tail(Q[q]), T[s].ptr), X(S, q), h, NoBlock, l[q])
    BY <2>2, <2>7, SizeType, PushQueue
  <2>9. Parts(Size[q], P[q], Append(Tail(Q[q]), T[s].ptr), X(S, q), Y(S, q), h, l[q])
    BY <2>2, <2>3, <2>8, Hands
  <2>10. Append(Tail(Q[q]), T[s].ptr) \in Seq(Nat)
    BY <1>3, <2>4
  <2>11. BuffersOK([P EXCEPT ![q] = P[q]], [Q EXCEPT ![q] = Append(Tail(Q[q]), T[s].ptr)],
                   S, l, q, h)
    BY <1>1, <2>2, <2>3, <2>4, <2>9, <2>10, OneBuffer
  <2>12. Appended(Headless(Q, q), q, T[s].ptr) = [Q EXCEPT ![q] = Append(Tail(Q[q]), T[s].ptr)]
    BY <1>3 DEF Appended, Headless, QueuesOK
  <2>13. BuffersOK(P, Appended(Headless(Q, q), q, T[s].ptr), S, l, q, h)
    BY <1>3, <2>11, <2>12
  <2>14. TakeHead(Bf(P, Q, T), q) = Bf(P, Appended(Headless(Q, q), q, T[s].ptr), S)
    BY <1>1, <1>3, <1>4, <2>3, TakeHeadIs
  <2>15. QED
    BY <1>2, <2>13, <2>14, StateBf
<1>5. CASE ~SendWaits(T, q, "send")
  <2>1. BuffersOK([P EXCEPT ![q] = P[q]], [Q EXCEPT ![q] = Tail(Q[q])], T, l, q, h)
    BY <1>1, <1>2, <1>3, OneBuffer
  <2>2. TakeHead(Bf(P, Q, T), q) = Bf(P, Headless(Q, q), T)
    BY <1>1, <1>3, <1>5, TakeHeadIs
  <2>3. BuffersOK(P, Headless(Q, q), T, l, q, h)
    BY <1>3, <2>1 DEF Headless
  <2>4. QED
    BY <1>2, <2>2, <2>3, StateBf
<1>6. QED
  BY <1>4, <1>5

\* The block in the hand is given back.
LEMMA FreeOK ==
  ASSUME NEW P, NEW Q, NEW T, NEW l, NEW q \in Buffer, NEW h, BuffersOK(P, Q, T, l, q, h),
         h # NoBlock
  PROVE  StateOK(Free(Bf(P, Q, T), q, h), l, q, NoBlock)
<1>1. /\ h \in Nat /\ T \in [Task -> TaskRecord] /\ TasksOK(T)
      /\ P[q] \in Seq(Nat) /\ Q[q] \in Seq(Nat)
      /\ Parts(Size[q], P[q], Q[q], X(T, q), Y(T, q), h, l[q])
  BY HandParts
<1>2. CASE SendWaits(T, q, "get")
  <2>1. Sender(q) \in Task /\ q = Target[Sender(q)] /\ T[Sender(q)].at = "get"
    BY <1>2, Ends DEF SendWaits
  <2>2. BuffersOK(P, Q, Gets(T, Sender(q), h), l, q, NoBlock)
    BY <2>1, GetsOK
  <2>3. Free(Bf(P, Q, T), q, h) = Bf(P, Q, Gets(T, Sender(q), h))
    BY <1>1, <1>2, FreeIs
  <2>4. QED
    BY <2>2, <2>3, StateBf
<1>3. CASE ~SendWaits(T, q, "get")
  <2>1. Parts(Size[q], <<h>> \o P[q], Q[q], X(T, q), Y(T, q), NoBlock, l[q])
    BY <1>1, SizeType, PushPool
  <2>2. <<h>> \o P[q] \in Seq(Nat)
    BY <1>1
  <2>3. BuffersOK([P EXCEPT ![q] = <<h>> \o P[q]], [Q EXCEPT ![q] = Q[q]], T, l, q, NoBlock)
    BY <1>1, <2>1, <2>2, OneBuffer
  <2>4. [Q EXCEPT ![q] = Q[q]] = Q
    BY DEF BuffersOK, QueuesOK
  <2>5. Free(Bf(P, Q, T), q, h) = Bf(Prepended(P, q, h), Q, T)
    BY <1>1, <1>3, FreeIs
  <2>6. BuffersOK(Prepended(P, q, h), Q, T, l, q, NoBlock)
    BY <2>3, <2>4 DEF Prepended
  <2>7. QED
    BY <2>5, <2>6, StateBf
<1>4. QED
  BY <1>2, <1>3

\* The head of the pool comes into the hand.
LEMMA PopPoolOK ==
  ASSUME NEW P, NEW Q, NEW T, NEW l, NEW q \in Buffer, BuffersOK(P, Q, T, l, q, NoBlock),
         P[q] # <<>>
  PROVE  /\ BuffersOK([P EXCEPT ![q] = Tail(@)], Q, T, l, q, Head(P[q]))
         /\ Head(P[q]) # NoBlock
<1>1. /\ TasksOK(T) /\ P[q] \in Seq(Nat) /\ Q[q] \in Seq(Nat)
      /\ Parts(Size[q], P[q], Q[q], X(T, q), Y(T, q), NoBlock, l[q])
  BY HandParts
<1>2. Parts(Size[q], Tail(P[q]), Q[q], X(T, q), Y(T, q), Head(P[q]), l[q])
      /\ Head(P[q]) # NoBlock
  BY <1>1, SizeType, PopPool
<1>3. Tail(P[q]) \in Seq(Nat) /\ [Q EXCEPT ![q] = Q[q]] = Q
  BY <1>1 DEF BuffersOK, QueuesOK
<1>4. BuffersOK([P EXCEPT ![q] = Tail(P[q])], [Q EXCEPT ![q] = Q[q]], T, l, q, Head(P[q]))
  BY <1>1, <1>2, <1>3, OneBuffer
<1>5. QED
  BY <1>2, <1>3, <1>4

\* Going on and a call for another task's sake are independent.
LEMMA WithTwo ==
  ASSUME NEW T, T \in [Task -> TaskRecord], NEW t \in Task, NEW u \in Task, t # u,
         NEW r, NEW v
  PROVE  /\ With(With(T, t, r), u, v) = With(With(T, u, v), t, r)
         /\ With(T, t, r)[u] = T[u]
BY DEF With

LEMMA AdvancesOther ==
  ASSUME NEW T, T \in [Task -> TaskRecord], NEW t \in Task, NEW u \in Task, t # u, NEW b
  PROVE  /\ Receives(Advances(T, t), u, b) = Advances(Receives(T, u, b), t)
         /\ Gets(Advances(T, t), u, b) = Advances(Gets(T, u, b), t)
         /\ Advances(T, t)[u] = T[u]
<1>1. /\ With(T, t, Further(T, t, T[t].ptr1, T[t].ptr))[u] = T[u]
      /\ \A v : With(T, u, v)[t] = T[t]
  BY WithTwo
<1>2. /\ \A a, c : Further(Advances(T, t), u, a, c) = Further(T, u, a, c)
      /\ \A v, a, c : Further(With(T, u, v), t, a, c) = Further(T, t, a, c)
  BY <1>1 DEF Further, Advances
<1>3. Advances(T, t)[u] = T[u]
  BY <1>1 DEF Advances
<1>4. Receives(Advances(T, t), u, b) = Advances(Receives(T, u, b), t)
  <2> DEFINE v == Further(T, u, b, T[u].ptr)
             w == Further(T, t, T[t].ptr1, T[t].ptr)
  <2>1. Receives(Advances(T, t), u, b) = With(With(T, t, w), u, v)
    BY <1>2, <1>3 DEF Receives, Advances
  <2>2. Advances(Receives(T, u, b), t) = With(With(T, u, v), t, w)
    BY <1>1, <1>2 DEF Receives, Advances
  <2> HIDE DEF v, w
  <2>3. QED
    BY <2>1, <2>2, WithTwo
<1>5. Gets(Advances(T, t), u, b) = Advances(Gets(T, u, b), t)
  <2> DEFINE v == Further(T, u, T[u].ptr1, b)
             w == Further(T, t, T[t].ptr1, T[t].ptr)
  <2>1. Gets(Advances(T, t), u, b) = With(With(T, t, w), u, v)
    BY <1>2, <1>3 DEF Gets, Advances
  <2>2. Advances(Gets(T, u, b), t) = With(With(T, u, v), t, w)
    BY <1>1, <1>2 DEF Gets, Advances
  <2> HIDE DEF v, w
  <2>3. QED
    BY <2>1, <2>2, WithTwo
<1>6. QED
  BY <1>3, <1>4, <1>5

\* A task other than t, which waits, is as it was when t has gone on.
LEMMA SendCommutes ==
  ASSUME NEW P, NEW Q, NEW T, TasksOK(T), NEW t \in Task, TasksOK(Advances(T, t)),
         NEW q \in Buffer, q = Target[t], NEW b \in Nat, b # NoBlock
  PROVE  Goes(Send(Bf(P, Q, T), q, b), t) = Send(Bf(P, Q, Advances(T, t)), q, b)
<1>0. T \in [Task -> TaskRecord]
  BY DEF TasksOK
<1>1. q \in RecvBuf => /\ Receiver(q) \in Task /\ Receiver(q) # t
                       /\ Advances(T, t)[Receiver(q)] = T[Receiver(q)]
  <2>1. q \in RecvBuf => Receiver(q) \in Task /\ Source[Receiver(q)] = q
    BY Ends
  <2>2. Source[t] # Target[t]
    BY Ends
  <2>3. QED
    BY <1>0, <2>1, <2>2, AdvancesOther
<1>2. RecvWaits(Advances(T, t), q) <=> RecvWaits(T, q)
  BY <1>1 DEF RecvWaits
<1>3. CASE RecvWaits(T, q)
  <2>1. PICK u \in Task : u = Receiver(q) /\ u # t /\ T[u].at = "receive"
    BY <1>1, <1>3 DEF RecvWaits
  <2>2. PICK S : S = Receives(T, u, b)
    OBVIOUS
  <2>3. S \in [Task -> TaskRecord]
    <3>1. T[u].ptr \in Nat
      BY <1>0 DEF TaskRecord
    <3>2. TasksOK(S)
      BY <2>1, <2>2, <3>1, Advance DEF Receives
    <3>3. QED
      BY <3>2 DEF TasksOK
  <2>4. Send(Bf(P, Q, T), q, b) = Bf(P, Q, S)
    BY <1>3, <2>1, <2>2, SendIs
  <2>5. Goes(Bf(P, Q, S), t) = Bf(P, Q, Advances(S, t))
    BY <2>3, GoesIs
  <2>6. Send(Bf(P, Q, Advances(T, t)), q, b) = Bf(P, Q, Receives(Advances(T, t), u, b))
    BY <1>2, <1>3, <2>1, SendIs
  <2>7. Receives(Advances(T, t), u, b) = Advances(S, t)
    BY <1>0, <2>1, <2>2, AdvancesOther
  <2>8. QED
    BY <2>4, <2>5, <2>6, <2>7
<1>4. CASE ~RecvWaits(T, q)
  <2>1. Send(Bf(P, Q, T), q, b) = Bf(P, Appended(Q, q, b), T)
    BY <1>4, SendIs
  <2>2. PICK Q1 : Q1 = Appended(Q, q, b)
    OBVIOUS
  <2>3. Goes(Bf(P, Q1, T), t) = Bf(P, Q1, Advances(T, t))
    BY <1>0, GoesIs
  <2>4. Send(Bf(P, Q, Advances(T, t)), q, b) = Bf(P, Appended(Q, q, b), Advances(T, t))
    BY <1>2, <1>4, SendIs
  <2>5. QED
    BY <2>1, <2>2, <2>3, <2>4
<1>5. QED
  BY <1>3, <1>4

LEMMA FreeCommutes ==
  ASSUME NEW P, NEW Q, NEW T, TasksOK(T), NEW t \in Task, TasksOK(Advances(T, t)),
         NEW p \in Buffer, p = Source[t], NEW b \in Nat, b # NoBlock
  PROVE  Goes(Free(Bf(P, Q, T), p, b), t) = Free(Bf(P, Q, Advances(T, t)), p, b)
<1>0. T \in [Task -> TaskRecord]
  BY DEF TasksOK
<1>1. p \in SendBuf => /\ Sender(p) \in Task /\ Sender(p) # t
                       /\ Advances(T, t)[Sender(p)] = T[Sender(p)]
  <2>1. p \in SendBuf => Sender(p) \in Task /\ Target[Sender(p)] = p
    BY Ends
  <2>2. Source[t] # Target[t]
    BY Ends
  <2>3. QED
    BY <1>0, <2>1, <2>2, AdvancesOther
<1>2. SendWaits(Advances(T, t), p, "get") <=> SendWaits(T, p, "get")
  BY <1>1 DEF SendWaits
<1>3. CASE SendWaits(T, p, "get")
  <2>1. PICK u \in Task : u = Sender(p) /\ u # t /\ T[u].at = "get"
    BY <1>1, <1>3 DEF SendWaits
  <2>2. PICK S : S = Gets(T, u, b)
    OBVIOUS
  <2>3. S \in [Task -> TaskRecord]
    <3>1. T[u].ptr1 \in Nat /\ (Source[u] # NoBuffer => T[u].ptr1 # NoBlock)
      BY <1>0, <2>1 DEF TasksOK, RecordOK, TaskRecord
    <3>2. TasksOK(S)
      BY <2>1, <2>2, <3>1, Advance DEF Gets
    <3>3. QED
      BY <3>2 DEF TasksOK
  <2>4. Free(Bf(P, Q, T), p, b) = Bf(P, Q, S)
    BY <1>3, <2>1, <2>2, FreeIs
  <2>5. Goes(Bf(P, Q, S), t) = Bf(P, Q, Advances(S, t))
    BY <2>3, GoesIs
  <2>6. Free(Bf(P, Q, Advances(T, t)), p, b) = Bf(P, Q, Gets(Advances(T, t), u, b))
    BY <1>2, <1>3, <2>1, FreeIs
  <2>7. Gets(Advances(T, t), u, b) = Advances(S, t)
    BY <1>0, <2>1, <2>2, AdvancesOther
  <2>8. QED
    BY <2>4, <2>5, <2>6, <2>7
<1>4. CASE ~SendWaits(T, p, "get")
  <2>1. Free(Bf(P, Q, T), p, b) = Bf(Prepended(P, p, b), Q, T)
    BY <1>4, FreeIs
  <2>2. PICK P1 : P1 = Prepended(P, p, b)
    OBVIOUS
  <2>3. Goes(Bf(P1, Q, T), t) = Bf(P1, Q, Advances(T, t))
    BY <1>0, GoesIs
  <2>4. Free(Bf(P, Q, Advances(T, t)), p, b) = Bf(Prepended(P, p, b), Q, Advances(T, t))
    BY <1>2, <1>4, FreeIs
  <2>5. QED
    BY <2>1, <2>2, <2>3, <2>4
<1>5. QED
  BY <1>3, <1>4

-----------------------------------------------------------------------------
\* The inductive invariant.

LostIn(d) == [p \in Buffer |-> IF p \in RxEndpoint THEN d[p] ELSE 0]
\* Between two steps no block is in the hand of a call.
BlocksInv == /\ dropped \in [RxEndpoint -> {0, 1}]
             /\ \A q \in Buffer : BuffersOK(pool, queue, task, LostIn(dropped), q, NoBlock)

LEMMA AnyHand ==
  ASSUME NEW P, NEW Q, NEW T, NEW l, NEW q \in Buffer, BuffersOK(P, Q, T, l, q, NoBlock),
         NEW p \in Buffer
  PROVE  BuffersOK(P, Q, T, l, p, NoBlock)
BY DEF BuffersOK, Hand, QueuesOK

\* A step that leaves the buffers right leaves the invariant.
LEMMA Kept ==
  ASSUME NEW B, NEW q \in Buffer, StateOK(B, LostIn(dropped), q, NoBlock), SetBuffers(B),
         BlocksInv, UNCHANGED dropped
  PROVE  BlocksInv'
<1>1. BuffersOK(pool', queue', task', LostIn(dropped), q, NoBlock)
  BY DEF StateOK, SetBuffers
<1>2. \A p \in Buffer : BuffersOK(pool', queue', task', LostIn(dropped), p, NoBlock)
  BY <1>1, AnyHand
<1>3. LostIn(dropped)' = LostIn(dropped)
  BY DEF LostIn
<1>4. QED
  BY <1>2, <1>3 DEF BlocksInv

\* Waiting moves no block.
LEMMA WaitKept ==
  ASSUME BlocksInv, NEW t \in Task, Wait(t), UNCHANGED dropped
  PROVE  BlocksInv'
<1>1. PICK w : w = TRUE
  OBVIOUS
<1>2. PICK r : r = [task[t] EXCEPT !.waits = w]
  OBVIOUS
<1>3. PICK q \in Buffer : TRUE
  BY DEF Buffer
<1>4. BuffersOK(pool, queue, task, LostIn(dropped), q, NoBlock)
  BY DEF BlocksInv
<1>5. TasksOK(task) /\ RecordOK(t, task[t]) /\ task \in [Task -> TaskRecord]
      /\ Parts(Size[q], pool[q], queue[q], X(task, q), Y(task, q), NoBlock, LostIn(dropped)[q])
  BY <1>4, HandParts
<1>6. r \in TaskRecord /\ r.at = task[t].at /\ r.ptr1 = task[t].ptr1 /\ r.ptr = task[t].ptr
  BY <1>1, <1>2, <1>5 DEF TaskRecord
<1>7. RecordOK(t, r) /\ XOf(r) = XOf(task[t]) /\ YOf(r) = YOf(task[t])
  BY <1>5, <1>6 DEF RecordOK, XOf, YOf
<1>8. PICK S : S = With(task, t, r)
  OBVIOUS
<1>9. S = task'
  BY <1>1, <1>2, <1>8 DEF Wait, With
<1>10. TasksOK(S)
  BY <1>5, <1>7, <1>8, SetTasksOK DEF With
<1>11. \A p \in Buffer : X(S, p) = X(task, p) /\ Y(S, p) = Y(task, p)
  BY <1>5, <1>7, <1>8, SetRecord
<1>12. BuffersOK(pool, queue, S, LostIn(dropped), q, NoBlock)
  BY <1>4, <1>5, <1>10, <1>11, OnlyTasks
<1>13. StateOK(Bf(pool, queue, S), LostIn(dropped), q, NoBlock)
  BY <1>12, StateBf
<1>14. SetBuffers(Bf(pool, queue, S))
  BY <1>9 DEF SetBuffers, Bf, Wait
<1>15. QED
  BY <1>13, <1>14, Kept

LEMMA BlocksInit == Init => BlocksInv
<1> SUFFICES ASSUME Init
             PROVE  BlocksInv
  OBVIOUS
<1>1. TasksOK(task)
  <2>1. ASSUME NEW t \in Task
        PROVE  task[t].at \in Place /\ task[t].waits \in BOOLEAN
    BY DEF Init, Place
  <2>2. task \in [Task -> TaskRecord]
    BY <2>1 DEF Init, TaskRecord, NoBlock, Place
  <2>3. ASSUME NEW t \in Task
        PROVE  RecordOK(t, task[t])
    <3>1. Source[t] = NoBuffer => Target[t] # NoBuffer
      BY TaskNames DEF Source, Target, NoBuffer
    <3>2. /\ task[t].at = (IF Source[t] = NoBuffer THEN "get" ELSE "receive")
          /\ task[t] \in TaskRecord
      BY <2>2 DEF Init
    <3>3. QED
      BY <3>1, <3>2 DEF RecordOK
  <2>4. QED
    BY <2>2, <2>3 DEF TasksOK
<1>2. ASSUME NEW p \in Buffer
      PROVE  X(task, p) = NoBlock /\ Y(task, p) = NoBlock
  <2>1. p \in RecvBuf => task[Receiver(p)].at = "receive"
    <3>1. p \in RecvBuf => Receiver(p) \in Task /\ Source[Receiver(p)] # NoBuffer
      BY Ends
    <3>2. QED
      BY <3>1 DEF Init
  <2>2. p \in SendBuf => task[Sender(p)].at \notin {"copy", "send"}
    <3>1. p \in SendBuf => Sender(p) \in Task
      BY Ends
    <3>2. QED
      BY <3>1 DEF Init
  <2>3. QED
    BY <2>1, <2>2 DEF X, Y, XOf, YOf
<1>3. QueuesOK(pool) /\ QueuesOK(queue) /\ dropped = [e \in RxEndpoint |-> 0]
  <2>1. \A p \in Buffer : [i \in 1 .. Size[p] |-> i] \in Seq(Nat)
    BY SizeType
  <2>2. QED
    BY <2>1 DEF Init, QueuesOK
<1>4. ASSUME NEW p \in Buffer
      PROVE  Parts(Size[p], pool[p], queue[p], NoBlock, NoBlock, NoBlock, 0)
  <2>1. /\ queue[p] = <<>> /\ Size[p] \in Nat
        /\ pool[p] = [i \in 1 .. Size[p] |-> i]
    BY SizeType DEF Init
  <2>2. /\ pool[p] \in Seq(1 .. Size[p]) /\ Len(pool[p]) = Size[p]
        /\ \A i \in 1 .. Size[p] : pool[p][i] = i
    BY <2>1
  <2>3. /\ queue[p] \in Seq(1 .. Size[p]) /\ Len(queue[p]) = 0
    BY <2>1
  <2>4. Apart(pool[p], queue[p], NoBlock, NoBlock, NoBlock)
    BY <2>1, <2>2, <2>3 DEF Apart, Outside, NoBlock
  <2>5. One(NoBlock) = 0
    BY DEF One
  <2>6. QED
    BY <2>1, <2>2, <2>3, <2>4, <2>5 DEF Parts, NoBlock
<1>5. \A p \in Buffer : LostIn(dropped)[p] = 0
  BY <1>3 DEF LostIn
<1>6. \A p, q \in Buffer : Hand(p, q, NoBlock) = NoBlock
  BY DEF Hand
<1>7. \A q \in Buffer : BuffersOK(pool, queue, task, LostIn(dropped), q, NoBlock)
  BY <1>1, <1>2, <1>3, <1>4, <1>5, <1>6 DEF BuffersOK
<1>8. QED
  BY <1>3, <1>7 DEF BlocksInv

-----------------------------------------------------------------------------
\* The steps of the tasks.

LEMMA TheBuffers ==
  ASSUME BlocksInv
  PROVE  /\ Buffers = Bf(pool, queue, task)
         /\ \A q \in Buffer : BuffersOK(pool, queue, task, LostIn(dropped), q, NoBlock)
         /\ TasksOK(task) /\ task \in [Task -> TaskRecord]
         /\ QueuesOK(pool) /\ QueuesOK(queue)
         /\ \A t \in Task : RecordOK(t, task[t]) /\ task[t].ptr1 \in Nat /\ task[t].ptr \in Nat
<1>1. Buffers = Bf(pool, queue, task)
  BY DEF Buffers, Bf
<1>2. PICK q \in Buffer : TRUE
  BY DEF Buffer
<1>3. BuffersOK(pool, queue, task, LostIn(dropped), q, NoBlock)
  BY DEF BlocksInv
<1>4. /\ TasksOK(task) /\ task \in [Task -> TaskRecord]
      /\ \A t \in Task : RecordOK(t, task[t]) /\ task[t].ptr1 \in Nat /\ task[t].ptr \in Nat
  BY <1>3, HandParts
<1>5. QueuesOK(pool) /\ QueuesOK(queue)
  BY <1>3 DEF BuffersOK
<1>6. QED
  BY <1>1, <1>4, <1>5 DEF BlocksInv

\* A task with a buffer at that end.
LEMMA HasSource ==
  ASSUME NEW t \in Task, NEW r, RecordOK(t, r), r.at \in {"receive", "release"}
  PROVE  Source[t] \in Buffer
BY Ends DEF RecordOK

LEMMA HasTarget ==
  ASSUME NEW t \in Task, NEW r, RecordOK(t, r), r.at \in {"get", "copy", "send"}
  PROVE  Target[t] \in Buffer
BY Ends DEF RecordOK

LEMMA ReceiveKept ==
  ASSUME BlocksInv, NEW t \in Task, tn_queue_receive(t)
  PROVE  BlocksInv'
<1>1. UNCHANGED dropped /\ task[t].at = "receive"
  BY DEF tn_queue_receive, others, At
<1>2. PICK q \in Buffer : q = Source[t]
  BY <1>1, TheBuffers, HasSource
<1>3. CASE queue[q] = <<>>
  BY <1>1, <1>2, <1>3, WaitKept DEF tn_queue_receive
<1>4. CASE queue[q] # <<>>
  <2>1. PICK h : h = Head(queue[q])
    OBVIOUS
  <2>2. PICK B : B = TakeHead(Buffers, q)
    OBVIOUS
  <2>3. StateOK(B, LostIn(dropped), q, h) /\ h # NoBlock
    BY <1>4, <2>1, <2>2, TheBuffers, TakeHeadOK
  <2>4. B = Bf(B.pool, B.queue, B.task) /\ B.task[t] = task[t]
    <3>1. ~SendWaits(task, q, "send") \/ (Sender(q) \in Task /\ Sender(q) # t)
      BY <1>2, Ends DEF SendWaits
    <3>2. CASE SendWaits(task, q, "send")
      <4>1. PICK Q1 : Q1 = Appended(Headless(queue, q), q, task[Sender(q)].ptr)
        OBVIOUS
      <4>2. B = Bf(pool, Q1, Advances(task, Sender(q)))
        BY <2>2, <3>2, <4>1, TheBuffers, TakeHeadIs
      <4>3. Advances(task, Sender(q))[t] = task[t]
        BY <3>1, <3>2, TheBuffers, AdvancesOther
      <4>4. QED
        BY <4>2, <4>3 DEF Bf
    <3>3. CASE ~SendWaits(task, q, "send")
      <4>1. PICK Q1 : Q1 = Headless(queue, q)
        OBVIOUS
      <4>2. B = Bf(pool, Q1, task)
        BY <2>2, <3>3, <4>1, TheBuffers, TakeHeadIs
      <4>3. QED
        BY <4>2 DEF Bf
    <3>4. QED
      BY <3>2, <3>3
  <2>5. BuffersOK(B.pool, B.queue, B.task, LostIn(dropped), q, h)
    BY <2>3 DEF StateOK
  <2>6. BuffersOK(B.pool, B.queue, Receives(B.task, t, h), LostIn(dropped), q, NoBlock)
    BY <1>1, <1>2, <2>3, <2>4, <2>5, ReceivesOK
  <2>7. B.task \in [Task -> TaskRecord]
    BY <2>5, HandParts
  <2>8. Received(B, t, h) = Bf(B.pool, B.queue, Receives(B.task, t, h))
    BY <2>4, <2>7, GoesIs
  <2>9. StateOK(Received(B, t, h), LostIn(dropped), q, NoBlock)
    BY <2>6, <2>8, StateBf
  <2>10. SetBuffers(Received(B, t, h))
    BY <1>2, <1>4, <2>1, <2>2 DEF tn_queue_receive
  <2>11. QED
    BY <1>1, <2>9, <2>10, Kept
<1>5. QED
  BY <1>3, <1>4

LEMMA GetKept ==
  ASSUME BlocksInv, NEW t \in Task, tn_fmem_get(t)
  PROVE  BlocksInv'
<1>1. UNCHANGED dropped /\ task[t].at = "get"
  BY DEF tn_fmem_get, others, At
<1>2. PICK p \in Buffer : p = Target[t]
  BY <1>1, TheBuffers, HasTarget
<1>3. CASE pool[p] = <<>>
  BY <1>1, <1>2, <1>3, WaitKept DEF tn_fmem_get
<1>4. CASE pool[p] # <<>>
  <2>1. PICK h : h = Head(pool[p])
    OBVIOUS
  <2>2. PICK P1 : P1 = [pool EXCEPT ![p] = Tail(@)]
    OBVIOUS
  <2>3. BuffersOK(P1, queue, task, LostIn(dropped), p, h) /\ h # NoBlock
    BY <1>4, <2>1, <2>2, TheBuffers, PopPoolOK
  <2>4. BuffersOK(P1, queue, Gets(task, t, h), LostIn(dropped), p, NoBlock)
    BY <1>1, <1>2, <2>3, GetsOK
  <2>5. PICK B : B = Gotten(Buffers, t, h)
    OBVIOUS
  <2>6. B = Bf(pool, queue, Gets(task, t, h))
    BY <2>5, TheBuffers, GoesIs
  <2>7. PICK v : v = Tail(pool[p])
    OBVIOUS
  <2>8. [B EXCEPT !.pool[p] = v] = Bf([pool EXCEPT ![p] = v], queue, Gets(task, t, h))
    BY <2>6 DEF Bf
  <2>9. B.pool[p] = pool[p]
    BY <2>6 DEF Bf
  <2>10. PICK C : C = [B EXCEPT !.pool[p] = Tail(@)]
    OBVIOUS
  <2>11. SetBuffers(C)
    BY <1>2, <1>4, <2>1, <2>5, <2>10 DEF tn_fmem_get
  <2>12. StateOK(C, LostIn(dropped), p, NoBlock)
    <3>1. C = Bf(P1, queue, Gets(task, t, h))
      BY <2>2, <2>7, <2>8, <2>9, <2>10
    <3>2. QED
      BY <2>4, <3>1, StateBf
  <2>13. QED
    BY <1>1, <2>11, <2>12, Kept
<1>5. QED
  BY <1>3, <1>4

LEMMA CopyKept ==
  ASSUME BlocksInv, NEW t \in Task, Copy(t)
  PROVE  BlocksInv'
<1>1. UNCHANGED dropped /\ task[t].at = "copy"
  BY DEF Copy, others, At
<1>2. PICK q \in Buffer : q = Target[t]
  BY <1>1, TheBuffers, HasTarget
<1>3. BuffersOK(pool, queue, Advances(task, t), LostIn(dropped), q, NoBlock)
  BY <1>1, <1>2, TheBuffers, AdvancesOK
<1>4. Goes(Buffers, t) = Bf(pool, queue, Advances(task, t))
  <2>1. PICK B, b : B = Bf(pool, queue, task) /\ b = NoBlock
    OBVIOUS
  <2>2. Goes(B, t) = Bf(pool, queue, Advances(task, t))
    <3>1. /\ Goes(Bf(pool, queue, task), t) = Bf(pool, queue, Advances(task, t))
          /\ Received(Bf(pool, queue, task), t, b) = Bf(pool, queue, Receives(task, t, b))
      BY TheBuffers, GoesIs
    <3>2. QED
      BY <2>1, <3>1
  <2>3. QED
    BY <2>1, <2>2, TheBuffers
<1>5. StateOK(Goes(Buffers, t), LostIn(dropped), q, NoBlock)
  BY <1>3, <1>4, StateBf
<1>6. SetBuffers(Goes(Buffers, t))
  BY DEF Copy
<1>7. QED
  BY <1>1, <1>5, <1>6, Kept

LEMMA SendKept ==
  ASSUME BlocksInv, NEW t \in Task, tn_queue_send(t)
  PROVE  BlocksInv'
<1>1. UNCHANGED dropped /\ task[t].at = "send"
  BY DEF tn_queue_send, others, At
<1>2. PICK q \in Buffer : q = Target[t]
  BY <1>1, TheBuffers, HasTarget
<1>3. CASE ~CanSend(Buffers, q)
  BY <1>1, <1>2, <1>3, WaitKept DEF tn_queue_send
<1>4. CASE CanSend(Buffers, q)
  <2>1. PICK h : h = task[t].ptr
    OBVIOUS
  <2>2. PICK S : S = Advances(task, t)
    OBVIOUS
  <2>3. BuffersOK(pool, queue, S, LostIn(dropped), q, h) /\ h # NoBlock
    BY <1>1, <1>2, <2>1, <2>2, TheBuffers, AdvancesOK
  <2>4. TasksOK(S) /\ h \in Nat
    BY <2>3, HandParts
  <2>5. StateOK(Send(Bf(pool, queue, S), q, h), LostIn(dropped), q, NoBlock)
    BY <2>3, SendOK
  <2>6. Goes(Send(Buffers, q, h), t) = Send(Bf(pool, queue, S), q, h)
    BY <1>2, <2>2, <2>3, <2>4, TheBuffers, SendCommutes
  <2>7. SetBuffers(Goes(Send(Buffers, q, h), t))
    BY <1>2, <1>4, <2>1 DEF tn_queue_send
  <2>8. QED
    BY <1>1, <2>5, <2>6, <2>7, Kept
<1>5. QED
  BY <1>3, <1>4

LEMMA ReleaseKept ==
  ASSUME BlocksInv, NEW t \in Task, tn_fmem_release(t)
  PROVE  BlocksInv'
<1>1. UNCHANGED dropped /\ task[t].at = "release"
  BY DEF tn_fmem_release, others, At
<1>2. PICK p \in Buffer : p = Source[t]
  BY <1>1, TheBuffers, HasSource
<1>3. PICK h : h = task[t].ptr1
  OBVIOUS
<1>4. PICK S : S = Advances(task, t)
  OBVIOUS
<1>5. BuffersOK(pool, queue, S, LostIn(dropped), p, h) /\ h # NoBlock
  BY <1>1, <1>2, <1>3, <1>4, TheBuffers, AdvancesOK
<1>6. TasksOK(S) /\ h \in Nat
  BY <1>5, HandParts
<1>7. StateOK(Free(Bf(pool, queue, S), p, h), LostIn(dropped), p, NoBlock)
  BY <1>5, FreeOK
<1>8. Goes(Free(Buffers, p, h), t) = Free(Bf(pool, queue, S), p, h)
  BY <1>2, <1>4, <1>5, <1>6, TheBuffers, FreeCommutes
<1>9. SetBuffers(Goes(Free(Buffers, p, h), t))
  BY <1>2, <1>3 DEF tn_fmem_release
<1>10. QED
  BY <1>1, <1>7, <1>8, <1>9, Kept

-----------------------------------------------------------------------------
\* The interrupts.

\* A block in the hand that goes nowhere is lost.
LEMMA Lose ==
  ASSUME NEW n \in Nat, NEW P, NEW Q, NEW x, NEW y, NEW h, NEW l,
         Parts(n, P, Q, x, y, h, l), h # NoBlock
  PROVE  Parts(n, P, Q, x, y, NoBlock, l + 1)
<1>1. /\ P \in Seq(1 .. n) /\ Q \in Seq(1 .. n) /\ l \in Nat
      /\ Len(P) \in Nat /\ Len(Q) \in Nat
      /\ One(h) = 1 /\ One(NoBlock) = 0 /\ One(x) \in Nat /\ One(y) \in Nat
  BY DEF Parts, One
<1>2. Outside(P, Q, NoBlock)
  BY <1>1 DEF Outside, NoBlock
<1>3. Apart(P, Q, x, y, NoBlock)
  BY <1>2 DEF Parts, Apart
<1>4. NoBlock \in 0 .. n
  BY DEF NoBlock
<1>5. Len(P) + Len(Q) + One(x) + One(y) + One(NoBlock) + (l + 1) = n
  BY <1>1 DEF Parts
<1>6. QED
  BY <1>1, <1>3, <1>4, <1>5 DEF Parts

\* No block was lost when there is one in the pool and n - 1 are in the queue.
LEMMA FullQueue ==
  ASSUME NEW n \in Nat, NEW P, NEW Q, NEW x, NEW y, NEW l,
         Parts(n, P, Q, x, y, NoBlock, l), P # <<>>, Len(Q) = n - 1
  PROVE  l = 0
<1>1. Len(P) \in Nat \ {0}
  BY DEF Parts
<1>2. One(x) \in Nat /\ One(y) \in Nat /\ One(NoBlock) = 0 /\ l \in Nat
  BY DEF Parts, One
<1>3. QED
  BY <1>1, <1>2 DEF Parts

LEMMA RxKept ==
  ASSUME BlocksInv, NEW e \in RxEndpoint, tn_usb_ep_rx_int(e)
  PROVE  BlocksInv'
<1>0. e \in Buffer /\ pool[e] # <<>>
  BY DEF RxEndpoint, Buffer, tn_usb_ep_rx_int
<1>1. PICK h : h = Head(pool[e])
  OBVIOUS
<1>2. PICK P1 : P1 = [pool EXCEPT ![e] = Tail(@)]
  OBVIOUS
<1>3. BuffersOK(P1, queue, task, LostIn(dropped), e, h) /\ h # NoBlock
  BY <1>0, <1>1, <1>2, TheBuffers, PopPoolOK
<1>4. PICK B : B = [Buffers EXCEPT !.pool[e] = Tail(@)]
  OBVIOUS
<1>5. B = Bf(P1, queue, task)
  <2>1. PICK v : v = Tail(pool[e])
    OBVIOUS
  <2>2. Buffers.pool[e] = pool[e] /\ [Buffers EXCEPT !.pool[e] = v] = Bf([pool EXCEPT ![e] = v], queue, task)
    BY DEF Buffers, Bf
  <2>3. QED
    BY <1>2, <1>4, <2>1, <2>2
<1>6. CASE CanSend(B, e)
  <2>1. StateOK(Send(B, e, h), LostIn(dropped), e, NoBlock)
    BY <1>0, <1>3, <1>5, SendOK
  <2>2. SetBuffers(Send(B, e, h)) /\ UNCHANGED dropped
    BY <1>1, <1>4, <1>6 DEF tn_usb_ep_rx_int
  <2>3. QED
    BY <1>0, <2>1, <2>2, Kept
<1>7. CASE ~CanSend(B, e)
  <2>1. SetBuffers(B) /\ dropped' = [dropped EXCEPT ![e] = @ + 1]
    BY <1>1, <1>4, <1>7 DEF tn_usb_ep_rx_int
  <2>2. pool' = P1 /\ queue' = queue /\ task' = task
    BY <1>5, <2>1 DEF SetBuffers, Bf
  <2>3. Len(queue[e]) = Size[e] - 1
    BY <1>0, <1>5, <1>7, TheBuffers, SendIs
  <2>4. LostIn(dropped)[e] = 0
    <3>1. Parts(Size[e], pool[e], queue[e], X(task, e), Y(task, e), NoBlock, LostIn(dropped)[e])
      BY <1>0, TheBuffers, HandParts
    <3>2. QED
      BY <1>0, <2>3, <3>1, SizeType, FullQueue
  <2>5. dropped[e] = 0 /\ dropped \in [RxEndpoint -> {0, 1}]
    BY <1>0, <2>4 DEF LostIn, BlocksInv
  <2>6. dropped' \in [RxEndpoint -> {0, 1}]
    BY <2>1, <2>5
  <2>7. \A p \in Buffer : LostIn(dropped)'[p] = IF p = e THEN LostIn(dropped)[p] + 1
                                                ELSE LostIn(dropped)[p]
    BY <2>1, <2>5 DEF LostIn
  <2>8. ASSUME NEW q \in Buffer, NEW p \in Buffer
        PROVE  Parts(Size[p], P1[p], queue[p], X(task, p), Y(task, p), Hand(p, q, NoBlock),
                     LostIn(dropped)'[p])
    <3>1. Hand(p, q, NoBlock) = NoBlock /\ Hand(e, e, h) = h
          /\ (p # e => Hand(p, e, h) = NoBlock)
      BY DEF Hand
    <3>2. Parts(Size[p], P1[p], queue[p], X(task, p), Y(task, p), Hand(p, e, h), LostIn(dropped)[p])
      BY <1>3 DEF BuffersOK
    <3>3. CASE p = e
      <4>1. Parts(Size[p], P1[p], queue[p], X(task, p), Y(task, p), NoBlock, LostIn(dropped)[p] + 1)
        BY <1>3, <3>1, <3>2, <3>3, SizeType, Lose
      <4>2. QED
        BY <2>7, <3>1, <3>3, <4>1
    <3>4. CASE p # e
      BY <2>7, <3>1, <3>2, <3>4
    <3>5. QED
      BY <3>3, <3>4
  <2>9. QueuesOK(P1) /\ QueuesOK(queue) /\ TasksOK(task)
    BY <1>3 DEF BuffersOK
  <2>10. PICK d : d = LostIn(dropped)'
    OBVIOUS
  <2>11. \A q \in Buffer : BuffersOK(P1, queue, task, d, q, NoBlock)
    BY <2>8, <2>9, <2>10 DEF BuffersOK
  <2>12. QED
    BY <2>2, <2>6, <2>10, <2>11 DEF BlocksInv
<1>8. QED
  BY <1>6, <1>7

LEMMA TxKept ==
  ASSUME BlocksInv, NEW e \in TxEndpoint, tn_usb_ep_tx_int(e)
  PROVE  BlocksInv'
<1>0. e \in Buffer /\ queue[e] # <<>>
  BY DEF TxEndpoint, Buffer, tn_usb_ep_tx_int
<1>1. PICK h : h = Head(queue[e])
  OBVIOUS
<1>2. PICK B : B = TakeHead(Buffers, e)
  OBVIOUS
<1>3. StateOK(B, LostIn(dropped), e, h) /\ h # NoBlock
  BY <1>0, <1>1, <1>2, TheBuffers, TakeHeadOK
<1>4. B = Bf(B.pool, B.queue, B.task)
  <2>1. CASE SendWaits(task, e, "send")
    <3>1. PICK Q1, S : Q1 = Appended(Headless(queue, e), e, task[Sender(e)].ptr)
                       /\ S = Advances(task, Sender(e))
      OBVIOUS
    <3>2. B = Bf(pool, Q1, S)
      BY <1>0, <1>2, <2>1, <3>1, TheBuffers, TakeHeadIs
    <3>3. QED
      BY <3>2 DEF Bf
  <2>2. CASE ~SendWaits(task, e, "send")
    <3>1. PICK Q1 : Q1 = Headless(queue, e)
      OBVIOUS
    <3>2. B = Bf(pool, Q1, task)
      BY <1>0, <1>2, <2>2, <3>1, TheBuffers, TakeHeadIs
    <3>3. QED
      BY <3>2 DEF Bf
  <2>3. QED
    BY <2>1, <2>2
<1>5. BuffersOK(B.pool, B.queue, B.task, LostIn(dropped), e, h)
  BY <1>3 DEF StateOK
<1>6. StateOK(Free(B, e, h), LostIn(dropped), e, NoBlock)
  BY <1>0, <1>3, <1>4, <1>5, FreeOK
<1>7. SetBuffers(Free(B, e, h)) /\ UNCHANGED dropped
  BY <1>1, <1>2 DEF tn_usb_ep_tx_int
<1>8. QED
  BY <1>0, <1>6, <1>7, Kept

-----------------------------------------------------------------------------
\* The places of a buffer's blocks in a row.

Distinct(s) == \A i, j \in 1 .. Len(s) : s[i] = s[j] => i = j
Without(s, b) == \A i \in 1 .. Len(s) : s[i] # b
Row(x) == IF x = NoBlock THEN <<>> ELSE <<x>>

LEMMA SeqIs ==
  ASSUME NEW n \in Nat, NEW u, u \in Seq(1 .. n)
  PROVE  DOMAIN u = 1 .. Len(u) /\ \A i \in 1 .. Len(u) : u[i] \in 1 .. n
OBVIOUS

InARow(P, Q, x, y) == P \o Q \o Row(x) \o Row(y)

LEMMA Join ==
  ASSUME NEW n \in Nat, NEW s \in Seq(1 .. n), NEW t \in Seq(1 .. n), Distinct(s), Distinct(t),
         \A i \in 1 .. Len(t) : Without(s, t[i])
  PROVE  /\ s \o t \in Seq(1 .. n) /\ Len(s \o t) = Len(s) + Len(t)
         /\ Distinct(s \o t)
         /\ \A b : Without(s, b) /\ Without(t, b) => Without(s \o t, b)
<1>1. PICK u : u = s \o t
  OBVIOUS
<1>2. /\ u \in Seq(1 .. n) /\ Len(u) = Len(s) + Len(t)
      /\ Len(s) \in Nat /\ Len(t) \in Nat
      /\ \A i \in 1 .. Len(u) : \/ i \in 1 .. Len(s) /\ u[i] = s[i]
                                \/ i - Len(s) \in 1 .. Len(t) /\ u[i] = t[i - Len(s)]
  BY <1>1
<1>3. ASSUME NEW b, Without(s, b), Without(t, b)
      PROVE  Without(u, b)
  BY <1>2, <1>3 DEF Without
<1>4. ASSUME NEW i \in 1 .. Len(u), NEW j \in 1 .. Len(u), u[i] = u[j]
      PROVE  i = j
  <2>1. CASE (i \in 1 .. Len(s) /\ u[i] = s[i]) /\ (j \in 1 .. Len(s) /\ u[j] = s[j])
    BY <1>4, <2>1 DEF Distinct
  <2>2. CASE (i - Len(s) \in 1 .. Len(t) /\ u[i] = t[i - Len(s)])
             /\ (j - Len(s) \in 1 .. Len(t) /\ u[j] = t[j - Len(s)])
    <3>1. i - Len(s) = j - Len(s)
      BY <1>4, <2>2 DEF Distinct
    <3>2. QED
      BY <1>2, <3>1
  <2>3. CASE (i \in 1 .. Len(s) /\ u[i] = s[i])
             /\ (j - Len(s) \in 1 .. Len(t) /\ u[j] = t[j - Len(s)])
    BY <1>4, <2>3 DEF Without
  <2>4. CASE (i - Len(s) \in 1 .. Len(t) /\ u[i] = t[i - Len(s)])
             /\ (j \in 1 .. Len(s) /\ u[j] = s[j])
    BY <1>4, <2>4 DEF Without
  <2>5. QED
    BY <1>2, <2>1, <2>2, <2>3, <2>4
<1>5. Distinct(u)
  BY <1>4 DEF Distinct
<1>6. QED
  BY <1>1, <1>2, <1>3, <1>5

LEMMA RowIs ==
  ASSUME NEW n \in Nat, NEW x \in 0 .. n
  PROVE  /\ Row(x) \in Seq(1 .. n) /\ Len(Row(x)) = One(x) /\ Distinct(Row(x))
         /\ \A i \in 1 .. Len(Row(x)) : Row(x)[i] = x /\ x # NoBlock
         /\ \A b : b # x => Without(Row(x), b)
<1>1. CASE x = NoBlock
  BY <1>1 DEF Row, One, Distinct, Without
<1>2. CASE x # NoBlock
  BY <1>2 DEF Row, One, Distinct, Without, NoBlock
<1>3. QED
  BY <1>1, <1>2

LEMMA Rows ==
  ASSUME NEW n \in Nat, NEW P, NEW Q, NEW x, NEW y, NEW l, Parts(n, P, Q, x, y, NoBlock, l),
         NEW v, v = InARow(P, Q, x, y)
  PROVE  v \in Seq(1 .. n) /\ Distinct(v) /\ Len(v) + l = n
<1>1. P \in Seq(1 .. n) /\ Q \in Seq(1 .. n) /\ x \in 0 .. n /\ y \in 0 .. n /\ l \in Nat
  BY DEF Parts
<1>2. /\ Distinct(P) /\ Distinct(Q) /\ \A i \in 1 .. Len(Q) : Without(P, Q[i])
      /\ Without(P, x) /\ Without(Q, x) /\ Without(P, y) /\ Without(Q, y)
      /\ x # NoBlock => x # y
  BY DEF Parts, Apart, Outside, Distinct, Without
<1>3. PICK s : s = P \o Q
  OBVIOUS
<1>4. /\ s \in Seq(1 .. n) /\ Len(s) = Len(P) + Len(Q) /\ Distinct(s)
      /\ Without(s, x) /\ Without(s, y)
  BY <1>1, <1>2, <1>3, Join
<1>5. PICK r : r = Row(x)
  OBVIOUS
<1>6. /\ r \in Seq(1 .. n) /\ Len(r) = One(x) /\ Distinct(r)
      /\ \A i \in 1 .. Len(r) : r[i] = x /\ x # NoBlock
      /\ y # x => Without(r, y)
  BY <1>1, <1>5, RowIs
<1>7. PICK t : t = s \o r
  OBVIOUS
<1>8. /\ t \in Seq(1 .. n) /\ Len(t) = Len(s) + Len(r) /\ Distinct(t)
      /\ Without(r, y) => Without(t, y)
  BY <1>4, <1>6, <1>7, Join
<1>9. PICK u : u = Row(y)
  OBVIOUS
<1>10. /\ u \in Seq(1 .. n) /\ Len(u) = One(y) /\ Distinct(u)
       /\ \A i \in 1 .. Len(u) : u[i] = y /\ y # NoBlock
  BY <1>1, <1>9, RowIs
<1>11. \A i \in 1 .. Len(u) : Without(t, u[i])
  BY <1>2, <1>6, <1>8, <1>10
<1>12. v = t \o u
  BY <1>3, <1>5, <1>7, <1>9 DEF InARow
<1>13. v \in Seq(1 .. n) /\ Len(v) = Len(t) + Len(u) /\ Distinct(v)
  BY <1>8, <1>10, <1>11, <1>12, Join
<1>14. Len(v) + l = n
  <2>1. Len(P) + Len(Q) + One(x) + One(y) + One(NoBlock) + l = n /\ One(NoBlock) = 0
    BY DEF Parts, One
  <2>2. Len(P) \in Nat /\ Len(Q) \in Nat /\ One(x) \in Nat /\ One(y) \in Nat
    BY <1>1 DEF One
  <2>3. QED
    BY <1>1, <1>4, <1>6, <1>8, <1>10, <1>13, <2>1, <2>2
<1>15. QED
  BY <1>13, <1>14

LEMMA Wiring ==
  /\ Source["ep5_tx"] = "EPExch" /\ Target["ep5_tx"] = "EP5TX"
  /\ Source["ep5_rx"] = "EP5RX" /\ Target["ep5_rx"] = NoBuffer
  /\ Source["ep2_tx"] = NoBuffer /\ Target["ep2_tx"] = "EP2TX"
  /\ Source["ep2_rx"] = "EP2RX" /\ Target["ep2_rx"] = "EPExch"
  /\ \A p \in Buffer : p # NoBuffer
  /\ Receiver("EP2RX") = "ep2_rx" /\ Receiver("EP5RX") = "ep5_rx"
  /\ Receiver("EPExch") = "ep5_tx"
  /\ Sender("EP2TX") = "ep2_tx" /\ Sender("EP5TX") = "ep5_tx" /\ Sender("EPExch") = "ep2_rx"
  /\ "EP2RX" \in RecvBuf \ SendBuf /\ "EP5RX" \in RecvBuf \ SendBuf
  /\ "EP2TX" \in SendBuf \ RecvBuf /\ "EP5TX" \in SendBuf \ RecvBuf
  /\ "EPExch" \in RecvBuf \cap SendBuf
BY DEF Source, Target, Receiver, Sender, RecvBuf, SendBuf, NoBuffer, Buffer

\* Held of all tasks in a row: what the receiver holds, then what the sender.
LEMMA HeldRow ==
  ASSUME TasksOK(task), NEW p \in Buffer, NEW s \in Seq(Nat)
  PROVE  s \o Held("ep5_tx", p) \o Held("ep5_rx", p) \o Held("ep2_tx", p) \o Held("ep2_rx", p)
           = s \o Row(X(task, p)) \o Row(Y(task, p))
<1> DEFINE R(t) == IF task[t].at # "receive" THEN <<task[t].ptr1>> ELSE <<>>
           S(t) == IF task[t].at \in {"copy", "send"} THEN <<task[t].ptr>> ELSE <<>>
<1>1. ASSUME NEW t \in Task
      PROVE  /\ R(t) \in Seq(Nat) /\ S(t) \in Seq(Nat)
             /\ Source[t] # NoBuffer => R(t) = Row(XOf(task[t]))
             /\ S(t) = Row(YOf(task[t]))
  <2>1. RecordOK(t, task[t]) /\ task[t].ptr1 \in Nat /\ task[t].ptr \in Nat
    BY DEF TasksOK, TaskRecord
  <2>2. R(t) \in Seq(Nat) /\ S(t) \in Seq(Nat)
    BY <2>1
  <2>3. Source[t] # NoBuffer => R(t) = Row(XOf(task[t]))
    BY <2>1 DEF RecordOK, XOf, Row
  <2>4. S(t) = Row(YOf(task[t]))
    BY <2>1 DEF RecordOK, YOf, Row
  <2>5. QED
    BY <2>2, <2>3, <2>4
<1>2. ASSUME NEW t \in Task
      PROVE  /\ Source[t] = p => Held(t, p) = R(t) \o <<>>
             /\ Target[t] = p => Held(t, p) = <<>> \o S(t)
             /\ Source[t] # p /\ Target[t] # p => Held(t, p) = <<>> \o <<>>
  <2>1. Source[t] # Target[t]
    BY Ends
  <2>2. QED
    BY <2>1 DEF Held
<1> HIDE DEF R, S
<1>3. ASSUME NEW t \in Task
      PROVE  /\ Source[t] = p => Held(t, p) = Row(XOf(task[t]))
             /\ Target[t] = p => Held(t, p) = Row(YOf(task[t]))
             /\ Source[t] # p /\ Target[t] # p => Held(t, p) = <<>>
  <2>1. /\ R(t) \o <<>> = R(t) /\ <<>> \o S(t) = S(t)
    BY <1>1
  <2>2. <<>> \o <<>> = <<>>
    OBVIOUS
  <2>3. Source[t] = p => Source[t] # NoBuffer
    BY Ends
  <2>4. QED
    BY <1>1, <1>2, <2>1, <2>2, <2>3
<1>4. \A u \in Seq(Nat) : u \o <<>> = u
  OBVIOUS
<1>5. PICK h1, h2, h3, h4 : /\ h1 = Held("ep5_tx", p) /\ h2 = Held("ep5_rx", p)
                            /\ h3 = Held("ep2_tx", p) /\ h4 = Held("ep2_rx", p)
  OBVIOUS
<1>6. PICK x, y : x = Row(X(task, p)) /\ y = Row(Y(task, p))
  OBVIOUS
<1>7. /\ p \notin RecvBuf => x = <<>>
      /\ p \in RecvBuf => Receiver(p) \in Task /\ Source[Receiver(p)] = p
                            /\ x = Row(XOf(task[Receiver(p)]))
      /\ p \notin SendBuf => y = <<>>
      /\ p \in SendBuf => Sender(p) \in Task /\ Target[Sender(p)] = p
                            /\ y = Row(YOf(task[Sender(p)]))
  <2>1. p \notin RecvBuf => X(task, p) = NoBlock
    BY DEF X
  <2>2. p \notin SendBuf => Y(task, p) = NoBlock
    BY DEF Y
  <2>3. Row(NoBlock) = <<>>
    BY DEF Row
  <2>4. p \in RecvBuf => X(task, p) = XOf(task[Receiver(p)])
    BY DEF X
  <2>5. p \in SendBuf => Y(task, p) = YOf(task[Sender(p)])
    BY DEF Y
  <2>6. QED
    BY <1>6, <2>1, <2>2, <2>3, <2>4, <2>5, Ends
<1>8. x \in Seq(Nat) /\ y \in Seq(Nat) /\ s \o x \in Seq(Nat)
  <2>1. \A t \in Task : XOf(task[t]) \in Nat /\ YOf(task[t]) \in Nat
    BY DEF TasksOK, TaskRecord, XOf, YOf, NoBlock
  <2>2. <<>> \in Seq(Nat) /\ \A n \in Nat : Row(n) \in Seq(Nat)
    BY DEF Row
  <2>3. x \in Seq(Nat) /\ y \in Seq(Nat)
    BY <1>7, <2>1, <2>2
  <2>4. QED
    BY <2>3
<1>9. s \o h1 \o h2 \o h3 \o h4 = s \o x \o y
  <2>1. CASE p = "EP2RX"
    <3>1. h1 = <<>> /\ h2 = <<>> /\ h3 = <<>> /\ h4 = x /\ y = <<>>
      BY <1>3, <1>5, <1>7, <2>1, TaskNames, Wiring
    <3>2. QED
      BY <1>4, <1>8, <3>1
  <2>2. CASE p = "EP2TX"
    <3>1. h1 = <<>> /\ h2 = <<>> /\ h3 = y /\ h4 = <<>> /\ x = <<>>
      BY <1>3, <1>5, <1>7, <2>2, TaskNames, Wiring
    <3>2. s \o y \in Seq(Nat)
      BY <1>8
    <3>3. QED
      BY <1>4, <3>1, <3>2
  <2>3. CASE p = "EP5RX"
    <3>1. h1 = <<>> /\ h2 = x /\ h3 = <<>> /\ h4 = <<>> /\ y = <<>>
      BY <1>3, <1>5, <1>7, <2>3, TaskNames, Wiring
    <3>2. QED
      BY <1>4, <1>8, <3>1
  <2>4. CASE p = "EP5TX"
    <3>1. h1 = y /\ h2 = <<>> /\ h3 = <<>> /\ h4 = <<>> /\ x = <<>>
      BY <1>3, <1>5, <1>7, <2>4, TaskNames, Wiring
    <3>2. s \o y \in Seq(Nat)
      BY <1>8
    <3>3. QED
      BY <1>4, <3>1, <3>2
  <2>5. CASE p = "EPExch"
    <3>1. h1 = x /\ h2 = <<>> /\ h3 = <<>> /\ h4 = y
      BY <1>3, <1>5, <1>7, <2>5, TaskNames, Wiring
    <3>2. QED
      BY <1>4, <1>8, <3>1
  <2>6. QED
    BY <2>1, <2>2, <2>3, <2>4, <2>5 DEF Buffer
<1>10. QED
  BY <1>5, <1>6, <1>9

-----------------------------------------------------------------------------
\* The invariant holds in every state, and what follows from it.

LEMMA BlocksStep == BlocksInv /\ [Next]_vars => BlocksInv'
<1> SUFFICES ASSUME BlocksInv, [Next]_vars
             PROVE  BlocksInv'
  OBVIOUS
<1>1. ASSUME NEW t \in Task, TaskStep(t)
      PROVE  BlocksInv'
  BY <1>1, ReceiveKept, GetKept, CopyKept, SendKept, ReleaseKept DEF TaskStep
<1>2. CASE Interrupt
  BY <1>2, RxKept, TxKept DEF Interrupt
<1>3. CASE UNCHANGED vars
  BY <1>3 DEF vars, BlocksInv
<1>4. QED
  BY <1>1, <1>2, <1>3 DEF Next

THEOREM BlocksInvariant == Spec => []BlocksInv
<1>1. QED
  BY BlocksInit, BlocksStep, PTL DEF Spec

LEMMA InvAccounts == BlocksInv => BlocksAccounted
<1> SUFFICES ASSUME BlocksInv, NEW p \in Buffer
             PROVE  /\ IsInjective(Blocks(p)) /\ Range(Blocks(p)) \subseteq Block(p)
                    /\ Len(Blocks(p)) + Lost(p) = Size[p]
                    /\ Lost(p) <= 1
  BY DEF BlocksAccounted
<1>1. /\ Parts(Size[p], pool[p], queue[p], X(task, p), Y(task, p), NoBlock, LostIn(dropped)[p])
      /\ TasksOK(task) /\ pool[p] \in Seq(Nat) /\ queue[p] \in Seq(Nat)
  BY TheBuffers, HandParts
<1>2. PICK s : s = pool[p] \o queue[p] \o Row(X(task, p)) \o Row(Y(task, p))
  OBVIOUS
<1>3. s \in Seq(1 .. Size[p]) /\ Distinct(s) /\ Len(s) + LostIn(dropped)[p] = Size[p]
  <2>1. PICK n, P, Q, x, y, l :
          /\ n = Size[p] /\ P = pool[p] /\ Q = queue[p]
          /\ x = X(task, p) /\ y = Y(task, p) /\ l = LostIn(dropped)[p]
    OBVIOUS
  <2>2. n \in Nat /\ Parts(n, P, Q, x, y, NoBlock, l)
    BY <1>1, <2>1, SizeType
  <2>3. s = InARow(P, Q, x, y)
    BY <1>2, <2>1 DEF InARow
  <2>4. s \in Seq(1 .. n) /\ Distinct(s) /\ Len(s) + l = n
    BY <2>2, <2>3, Rows
  <2>5. QED
    BY <2>1, <2>4
<1>4. Blocks(p) = s
  <2>1. PICK u : u = pool[p] \o queue[p]
    OBVIOUS
  <2>2. u \in Seq(Nat)
    BY <1>1, <2>1
  <2>3. Blocks(p) = u \o Held("ep5_tx", p) \o Held("ep5_rx", p)
                      \o Held("ep2_tx", p) \o Held("ep2_rx", p)
    BY <2>1 DEF Blocks
  <2>4. s = u \o Row(X(task, p)) \o Row(Y(task, p))
    BY <1>2, <2>1
  <2>5. QED
    BY <1>1, <2>2, <2>3, <2>4, HeldRow
<1>5. IsInjective(s) /\ Range(s) \subseteq Block(p)
  <2>1. DOMAIN s = 1 .. Len(s) /\ \A i \in 1 .. Len(s) : s[i] \in 1 .. Size[p]
    BY <1>3, SizeType, SeqIs
  <2>2. IsInjective(s)
    BY <1>3, <2>1 DEF IsInjective, Distinct
  <2>3. Range(s) \subseteq Block(p)
    BY <2>1 DEF Range, Block
  <2>4. QED
    BY <2>2, <2>3
<1>6. LostIn(dropped)[p] = Lost(p) /\ Lost(p) <= 1
  <2>1. p \in RxEndpoint => dropped[p] \in {0, 1}
    BY DEF BlocksInv
  <2>2. QED
    BY <2>1 DEF LostIn, Lost
<1>7. QED
  BY <1>3, <1>4, <1>5, <1>6

(***************************************************************************)
(* Whatever the sizes of the queues and pools and however many packets     *)
(* come: no call, task or interrupt of the loopback puts a block of a      *)
(* memory pool in two places, and each buffer loses at most the one block  *)
(* that tn_usb_ep_rx_int could not queue (tn_usb_ep.c:135).                *)
(***************************************************************************)
THEOREM BlocksCorrect == Spec => []BlocksAccounted
<1>1. QED
  BY BlocksInvariant, InvAccounts, PTL

-----------------------------------------------------------------------------
\* What the steps do with the queues and the tasks' records.

Stays(t) == /\ queue' = queue /\ \A u \in Task \ {t} : task'[u] = task[u]
            /\ task'[t].at = task[t].at /\ task'[t].ptr1 = task[t].ptr1
            /\ task'[t].ptr = task[t].ptr
Moves(t, a, b) == /\ task'[t].at = After(t, task[t].at) /\ task'[t].waits = FALSE
                  /\ task'[t].ptr1 = a /\ task'[t].ptr = b
Rest(S) == \A u \in Task \ S : task'[u] = task[u]

LEMMA WithIs ==
  ASSUME NEW T, T = [u \in Task |-> T[u]], NEW t \in Task, NEW r
  PROVE  /\ With(T, t, r) = [u \in Task |-> With(T, t, r)[u]]
         /\ \A u \in Task : With(T, t, r)[u] = IF u = t THEN r ELSE T[u]
BY DEF With

\* One task goes on.
LEMMA OneMoves ==
  ASSUME NEW T, T = task, task = [u \in Task |-> task[u]], NEW t \in Task, NEW a, NEW b,
         task' = With(T, t, Further(T, t, a, b))
  PROVE  Moves(t, a, b) /\ Rest({t})
<1>1. PICK r : r = Further(T, t, a, b)
  OBVIOUS
<1>2. \A u \in Task : task'[u] = IF u = t THEN r ELSE task[u]
  BY <1>1, WithIs
<1>3. r.at = After(t, task[t].at) /\ r.waits = FALSE /\ r.ptr1 = a /\ r.ptr = b
  BY <1>1 DEF Further
<1>4. QED
  BY <1>2, <1>3 DEF Moves, Rest

\* Two tasks go on, s and t.
LEMMA TwoMove ==
  ASSUME task = [u \in Task |-> task[u]], NEW s \in Task, NEW t \in Task, s # t,
         NEW a, NEW b, NEW c, NEW d, NEW S, S = With(task, s, Further(task, s, a, b)),
         task' = With(S, t, Further(S, t, c, d))
  PROVE  Moves(s, a, b) /\ Moves(t, c, d) /\ Rest({s, t})
<1>1. PICK r, v : r = Further(task, s, a, b) /\ v = Further(S, t, c, d)
  OBVIOUS
<1>2. S = [u \in Task |-> S[u]] /\ \A u \in Task : S[u] = IF u = s THEN r ELSE task[u]
  BY <1>1, WithIs
<1>3. \A u \in Task : task'[u] = IF u = t THEN v ELSE S[u]
  BY <1>1, <1>2, WithIs
<1>4. /\ r.at = After(s, task[s].at) /\ r.waits = FALSE /\ r.ptr1 = a /\ r.ptr = b
      /\ v.at = After(t, task[t].at) /\ v.waits = FALSE /\ v.ptr1 = c /\ v.ptr = d
  BY <1>1, <1>2 DEF Further
<1>5. QED
  BY <1>2, <1>3, <1>4 DEF Moves, Rest

LEMMA TaskFunction == BlocksInv => task = [u \in Task |-> task[u]]
BY TheBuffers

LEMMA WaitEffect ==
  ASSUME BlocksInv, NEW t \in Task, Wait(t)
  PROVE  Stays(t)
<1>1. task \in [Task -> TaskRecord]
  BY TheBuffers
<1>2. PICK w : w = TRUE
  OBVIOUS
<1>3. PICK r : r = [task[t] EXCEPT !.waits = w]
  OBVIOUS
<1>4. r.at = task[t].at /\ r.ptr1 = task[t].ptr1 /\ r.ptr = task[t].ptr
  BY <1>1, <1>3 DEF TaskRecord
<1>5. task' = [task EXCEPT ![t] = r] /\ queue' = queue
  BY <1>2, <1>3 DEF Wait
<1>6. QED
  BY <1>1, <1>4, <1>5 DEF Stays

\* The calls with B = Bf(pool, queue, task): what they return.
LEMMA SetBf ==
  ASSUME NEW B, NEW P, NEW Q, NEW T, B = Bf(P, Q, T), SetBuffers(B)
  PROVE  pool' = P /\ queue' = Q /\ task' = T
BY DEF SetBuffers, Bf

LEMMA ReceiveEffect ==
  ASSUME BlocksInv, NEW t \in Task, tn_queue_receive(t), NEW q \in Buffer, q = Source[t]
  PROVE  \/ Stays(t) /\ queue[q] = <<>>
         \/ /\ queue[q] # <<>> /\ Moves(t, Head(queue[q]), task[t].ptr)
            /\ \/ /\ ~SendWaits(task, q, "send")
                  /\ queue' = Headless(queue, q) /\ Rest({t})
               \/ /\ SendWaits(task, q, "send") /\ Sender(q) # t
                  /\ queue' = Appended(Headless(queue, q), q, task[Sender(q)].ptr)
                  /\ Moves(Sender(q), task[Sender(q)].ptr1, task[Sender(q)].ptr)
                  /\ Rest({Sender(q), t})
<1>1. CASE queue[q] = <<>>
  BY <1>1, WaitEffect DEF tn_queue_receive
<1>2. CASE queue[q] # <<>>
  <2>1. PICK h, B : h = Head(queue[q]) /\ B = TakeHead(Buffers, q)
    OBVIOUS
  <2>2. SetBuffers(Received(B, t, h))
    BY <1>2, <2>1 DEF tn_queue_receive
  <2>3. CASE ~SendWaits(task, q, "send")
    <3>1. PICK Q1 : Q1 = Headless(queue, q)
      OBVIOUS
    <3>2. B = Bf(pool, Q1, task)
      BY <2>1, <2>3, <3>1, TheBuffers, TakeHeadIs
    <3>3. Received(B, t, h) = Bf(pool, Q1, Receives(task, t, h))
      BY <3>2, TheBuffers, GoesIs
    <3>4. queue' = Q1 /\ task' = With(task, t, Further(task, t, h, task[t].ptr))
      BY <2>2, <3>3, SetBf DEF Receives
    <3>5. Moves(t, h, task[t].ptr) /\ Rest({t})
      BY <3>4, TaskFunction, OneMoves
    <3>6. QED
      BY <1>2, <2>1, <2>3, <3>1, <3>4, <3>5
  <2>4. CASE SendWaits(task, q, "send")
    <3>1. PICK s \in Task : s = Sender(q) /\ s # t /\ task[s].at = "send"
      BY <2>4, Ends DEF SendWaits
    <3>2. PICK Q1 : Q1 = Appended(Headless(queue, q), q, task[s].ptr)
      OBVIOUS
    <3>3. PICK S : S = Advances(task, s)
      OBVIOUS
    <3>4. B = Bf(pool, Q1, S)
      BY <2>1, <2>4, <3>1, <3>2, <3>3, TheBuffers, TakeHeadIs
    <3>5. S \in [Task -> TaskRecord] /\ S[t] = task[t]
      <4>1. /\ RecordOK(s, task[s]) /\ TasksOK(task)
            /\ task[s].ptr1 \in Nat /\ task[s].ptr \in Nat
        BY TheBuffers
      <4>2. Source[s] # NoBuffer => task[s].ptr1 # NoBlock
        BY <3>1, <4>1 DEF RecordOK
      <4>3. TasksOK(S)
        BY <3>1, <3>3, <4>1, <4>2, Advance DEF Advances
      <4>4. QED
        BY <3>1, <3>3, <4>3, TheBuffers, AdvancesOther DEF TasksOK
    <3>6. Received(B, t, h) = Bf(pool, Q1, Receives(S, t, h))
      BY <3>4, <3>5, GoesIs
    <3>7. queue' = Q1 /\ task' = With(S, t, Further(S, t, h, task[t].ptr))
      BY <2>2, <3>5, <3>6, SetBf DEF Receives
    <3>8. S = With(task, s, Further(task, s, task[s].ptr1, task[s].ptr))
      BY <3>3 DEF Advances
    <3>9. Moves(s, task[s].ptr1, task[s].ptr) /\ Moves(t, h, task[t].ptr) /\ Rest({s, t})
      BY <3>1, <3>7, <3>8, TaskFunction, TwoMove
    <3>10. QED
      BY <1>2, <2>1, <2>4, <3>1, <3>2, <3>7, <3>9
  <2>5. QED
    BY <2>3, <2>4
<1>3. QED
  BY <1>1, <1>2

LEMMA GetEffect ==
  ASSUME BlocksInv, NEW t \in Task, tn_fmem_get(t)
  PROVE  \/ Stays(t)
         \/ \E h : Moves(t, task[t].ptr1, h) /\ Rest({t}) /\ queue' = queue
<1>1. PICK p : p = Target[t]
  OBVIOUS
<1>2. CASE pool[p] = <<>>
  BY <1>1, <1>2, WaitEffect DEF tn_fmem_get
<1>3. CASE pool[p] # <<>>
  <2>1. PICK h, B : h = Head(pool[p]) /\ B = Gotten(Buffers, t, h)
    OBVIOUS
  <2>2. B = Bf(pool, queue, Gets(task, t, h))
    BY <2>1, TheBuffers, GoesIs
  <2>3. PICK v : v = Tail(B.pool[p])
    OBVIOUS
  <2>4. SetBuffers([B EXCEPT !.pool[p] = v])
    BY <1>1, <1>3, <2>1, <2>3 DEF tn_fmem_get
  <2>5. [B EXCEPT !.pool[p] = v] = Bf([pool EXCEPT ![p] = v], queue, Gets(task, t, h))
    BY <2>2 DEF Bf
  <2>6. PICK C, P1 : C = [B EXCEPT !.pool[p] = v] /\ P1 = [pool EXCEPT ![p] = v]
    OBVIOUS
  <2>7. SetBuffers(C) /\ C = Bf(P1, queue, Gets(task, t, h))
    BY <2>4, <2>5, <2>6
  <2>8. queue' = queue /\ task' = Gets(task, t, h)
    BY <2>7, SetBf
  <2>9. task' = With(task, t, Further(task, t, task[t].ptr1, h))
    BY <2>8 DEF Gets
  <2>10. Moves(t, task[t].ptr1, h) /\ Rest({t})
    BY <2>9, TaskFunction, OneMoves
  <2>11. QED
    BY <2>8, <2>10
<1>4. QED
  BY <1>2, <1>3

LEMMA CopyEffect ==
  ASSUME BlocksInv, NEW t \in Task, Copy(t)
  PROVE  Moves(t, task[t].ptr1, task[t].ptr) /\ Rest({t}) /\ queue' = queue
<1>1. PICK B, b : B = Bf(pool, queue, task) /\ b = NoBlock
  OBVIOUS
<1>2. Goes(B, t) = Bf(pool, queue, Advances(task, t))
  <2>1. /\ Goes(Bf(pool, queue, task), t) = Bf(pool, queue, Advances(task, t))
        /\ Received(Bf(pool, queue, task), t, b) = Bf(pool, queue, Receives(task, t, b))
    BY TheBuffers, GoesIs
  <2>2. QED
    BY <1>1, <2>1
<1>3. SetBuffers(Goes(B, t))
  BY <1>1, TheBuffers DEF Copy
<1>4. queue' = queue /\ task' = Advances(task, t)
  BY <1>2, <1>3, SetBf
<1>5. task' = With(task, t, Further(task, t, task[t].ptr1, task[t].ptr))
  BY <1>4 DEF Advances
<1>6. Moves(t, task[t].ptr1, task[t].ptr) /\ Rest({t})
  BY <1>5, TaskFunction, OneMoves
<1>7. QED
  BY <1>4, <1>6

\* The task that goes on, and what the call made of the buffers.
LEMMA SendEffect ==
  ASSUME BlocksInv, NEW t \in Task, tn_queue_send(t), NEW q \in Buffer, q = Target[t]
  PROVE  \/ Stays(t)
         \/ /\ ~RecvWaits(task, q) /\ queue' = Appended(queue, q, task[t].ptr)
            /\ Moves(t, task[t].ptr1, task[t].ptr) /\ Rest({t})
         \/ /\ RecvWaits(task, q) /\ Receiver(q) # t /\ queue' = queue
            /\ Moves(Receiver(q), task[t].ptr, task[Receiver(q)].ptr)
            /\ Moves(t, task[t].ptr1, task[t].ptr) /\ Rest({Receiver(q), t})
<1>1. task[t].at = "send"
  BY DEF tn_queue_send, At
<1>2. CASE ~CanSend(Buffers, q)
  BY <1>2, WaitEffect DEF tn_queue_send
<1>3. CASE CanSend(Buffers, q)
  <2>1. PICK h, B : h = task[t].ptr /\ B = Send(Buffers, q, h)
    OBVIOUS
  <2>2. SetBuffers(Goes(B, t))
    BY <1>3, <2>1 DEF tn_queue_send
  <2>3. CASE ~RecvWaits(task, q)
    <3>1. PICK Q1 : Q1 = Appended(queue, q, h)
      OBVIOUS
    <3>2. B = Bf(pool, Q1, task)
      BY <2>1, <2>3, <3>1, TheBuffers, SendIs
    <3>3. Goes(B, t) = Bf(pool, Q1, Advances(task, t))
      BY <3>2, TheBuffers, GoesIs
    <3>4. queue' = Q1 /\ task' = With(task, t, Further(task, t, task[t].ptr1, task[t].ptr))
      BY <2>2, <3>3, SetBf DEF Advances
    <3>5. Moves(t, task[t].ptr1, task[t].ptr) /\ Rest({t})
      BY <3>4, TaskFunction, OneMoves
    <3>6. QED
      BY <2>1, <2>3, <3>1, <3>4, <3>5
  <2>4. CASE RecvWaits(task, q)
    <3>1. PICK s \in Task : s = Receiver(q) /\ s # t /\ task[s].at = "receive"
      BY <2>4, Ends DEF RecvWaits
    <3>2. PICK S : S = Receives(task, s, h)
      OBVIOUS
    <3>3. B = Bf(pool, queue, S)
      BY <2>1, <2>4, <3>1, <3>2, TheBuffers, SendIs
    <3>4. h \in Nat /\ h # NoBlock
      BY <1>1, <2>1, TheBuffers DEF RecordOK
    <3>5. S \in [Task -> TaskRecord] /\ S[t] = task[t]
      <4>1. TasksOK(task) /\ task[s].ptr \in Nat
        BY TheBuffers
      <4>2. TasksOK(S)
        BY <3>1, <3>2, <3>4, <4>1, Advance DEF Receives
      <4>3. S[t] = task[t]
        BY <3>1, <3>2, TheBuffers, WithTwo DEF Receives
      <4>4. QED
        BY <4>2, <4>3 DEF TasksOK
    <3>6. Goes(B, t) = Bf(pool, queue, Advances(S, t))
      BY <3>3, <3>5, GoesIs
    <3>7. queue' = queue /\ task' = With(S, t, Further(S, t, task[t].ptr1, task[t].ptr))
      BY <2>2, <3>5, <3>6, SetBf DEF Advances
    <3>8. S = With(task, s, Further(task, s, h, task[s].ptr))
      BY <3>2 DEF Receives
    <3>9. Moves(s, h, task[s].ptr) /\ Moves(t, task[t].ptr1, task[t].ptr) /\ Rest({s, t})
      BY <3>1, <3>7, <3>8, TaskFunction, TwoMove
    <3>10. QED
      BY <2>1, <2>4, <3>1, <3>7, <3>9
  <2>5. QED
    BY <2>3, <2>4
<1>4. QED
  BY <1>2, <1>3

LEMMA ReleaseEffect ==
  ASSUME BlocksInv, NEW t \in Task, tn_fmem_release(t), NEW p \in Buffer, p = Source[t]
  PROVE  /\ queue' = queue /\ Moves(t, task[t].ptr1, task[t].ptr)
         /\ \/ ~SendWaits(task, p, "get") /\ Rest({t})
            \/ /\ SendWaits(task, p, "get") /\ Sender(p) # t /\ Rest({Sender(p), t})
               /\ Moves(Sender(p), task[Sender(p)].ptr1, task[t].ptr1)
<1>1. task[t].at = "release"
  BY DEF tn_fmem_release, At
<1>2. PICK h, B : h = task[t].ptr1 /\ B = Free(Buffers, p, h)
  OBVIOUS
<1>3. SetBuffers(Goes(B, t))
  BY <1>2 DEF tn_fmem_release
<1>4. CASE ~SendWaits(task, p, "get")
  <2>1. PICK P1 : P1 = Prepended(pool, p, h)
    OBVIOUS
  <2>2. B = Bf(P1, queue, task)
    BY <1>2, <1>4, <2>1, TheBuffers, FreeIs
  <2>3. Goes(B, t) = Bf(P1, queue, Advances(task, t))
    BY <2>2, TheBuffers, GoesIs
  <2>4. queue' = queue /\ task' = With(task, t, Further(task, t, task[t].ptr1, task[t].ptr))
    BY <1>3, <2>3, SetBf DEF Advances
  <2>5. Moves(t, task[t].ptr1, task[t].ptr) /\ Rest({t})
    BY <2>4, TaskFunction, OneMoves
  <2>6. QED
    BY <1>4, <2>4, <2>5
<1>5. CASE SendWaits(task, p, "get")
  <2>1. PICK s \in Task : s = Sender(p) /\ s # t /\ task[s].at = "get"
    BY <1>5, Ends DEF SendWaits
  <2>2. PICK S : S = Gets(task, s, h)
    OBVIOUS
  <2>3. B = Bf(pool, queue, S)
    BY <1>2, <1>5, <2>1, <2>2, TheBuffers, FreeIs
  <2>4. h \in Nat /\ h # NoBlock
    <3>1. Source[t] # NoBuffer
      BY Ends
    <3>2. QED
      BY <1>1, <1>2, <3>1, TheBuffers DEF RecordOK
  <2>5. S \in [Task -> TaskRecord] /\ S[t] = task[t]
    <3>1. TasksOK(task) /\ RecordOK(s, task[s]) /\ task[s].ptr1 \in Nat
      BY TheBuffers
    <3>2. Source[s] # NoBuffer => task[s].ptr1 # NoBlock
      BY <2>1, <3>1 DEF RecordOK
    <3>3. TasksOK(S)
      BY <2>1, <2>2, <2>4, <3>1, <3>2, Advance DEF Gets
    <3>4. S[t] = task[t]
      BY <2>1, <2>2, TheBuffers, WithTwo DEF Gets
    <3>5. QED
      BY <3>3, <3>4 DEF TasksOK
  <2>6. Goes(B, t) = Bf(pool, queue, Advances(S, t))
    BY <2>3, <2>5, GoesIs
  <2>7. queue' = queue /\ task' = With(S, t, Further(S, t, task[t].ptr1, task[t].ptr))
    BY <1>3, <2>5, <2>6, SetBf DEF Advances
  <2>8. S = With(task, s, Further(task, s, task[s].ptr1, h))
    BY <2>2 DEF Gets
  <2>9. Moves(s, task[s].ptr1, h) /\ Moves(t, task[t].ptr1, task[t].ptr) /\ Rest({s, t})
    BY <2>1, <2>7, <2>8, TaskFunction, TwoMove
  <2>10. QED
    BY <1>2, <1>5, <2>1, <2>7, <2>9
<1>6. QED
  BY <1>4, <1>5

LEMMA RxEffect ==
  ASSUME BlocksInv, NEW e \in RxEndpoint, tn_usb_ep_rx_int(e), NEW h, h = Head(pool[e])
  PROVE  /\ e \in Buffer
         /\ Outside(pool'[e], queue[e], h) /\ h # NoBlock /\ h \in 1 .. Size[e]
         /\ X(task, e) # h /\ Y(task, e) # h
         /\ \/ queue' = queue /\ Rest({}) /\ dropped' = [dropped EXCEPT ![e] = @ + 1]
                 /\ dropped[e] = 0 /\ Len(queue[e]) = Size[e] - 1
            \/ ~RecvWaits(task, e) /\ queue' = Appended(queue, e, h) /\ Rest({})
                 /\ dropped' = dropped
            \/ RecvWaits(task, e) /\ queue' = queue /\ Rest({Receiver(e)})
                 /\ Moves(Receiver(e), h, task[Receiver(e)].ptr) /\ dropped' = dropped
<1>0. e \in Buffer /\ pool[e] # <<>>
  BY DEF RxEndpoint, Buffer, tn_usb_ep_rx_int
<1>2. PICK P1 : P1 = [pool EXCEPT ![e] = Tail(@)]
  OBVIOUS
<1>3. BuffersOK(P1, queue, task, LostIn(dropped), e, h) /\ h # NoBlock
  BY <1>0, <1>2, TheBuffers, PopPoolOK
<1>4. PICK B : B = [Buffers EXCEPT !.pool[e] = Tail(@)]
  OBVIOUS
<1>5. B = Bf(P1, queue, task)
  <2>1. PICK v : v = Tail(pool[e])
    OBVIOUS
  <2>2. /\ Buffers.pool[e] = pool[e]
        /\ [Buffers EXCEPT !.pool[e] = v] = Bf([pool EXCEPT ![e] = v], queue, task)
    BY DEF Buffers, Bf
  <2>3. QED
    BY <1>2, <1>4, <2>1, <2>2
<1>6. /\ Outside(P1[e], queue[e], h) /\ h \in 1 .. Size[e]
      /\ X(task, e) # h /\ Y(task, e) # h
  <2>1. Parts(Size[e], P1[e], queue[e], X(task, e), Y(task, e), h, LostIn(dropped)[e])
    BY <1>0, <1>3, HandParts
  <2>2. /\ Outside(P1[e], queue[e], h) /\ h \in 0 .. Size[e] /\ Size[e] \in Nat
        /\ X(task, e) # NoBlock => X(task, e) # h
        /\ Y(task, e) # NoBlock => Y(task, e) # h
    BY <1>0, <2>1, SizeType DEF Parts, Apart
  <2>3. QED
    BY <1>3, <2>2 DEF NoBlock
<1>7. CASE ~CanSend(B, e)
  <2>1. SetBuffers(B) /\ dropped' = [dropped EXCEPT ![e] = @ + 1]
    BY <1>4, <1>7 DEF tn_usb_ep_rx_int
  <2>2. pool' = P1 /\ queue' = queue /\ task' = task
    BY <1>5, <2>1, SetBf
  <2>3. Len(queue[e]) = Size[e] - 1
    BY <1>0, <1>5, <1>7, TheBuffers, SendIs
  <2>4. LostIn(dropped)[e] = 0
    <3>1. Parts(Size[e], pool[e], queue[e], X(task, e), Y(task, e), NoBlock, LostIn(dropped)[e])
      BY <1>0, TheBuffers, HandParts
    <3>2. QED
      BY <1>0, <2>3, <3>1, SizeType, FullQueue
  <2>5. QED
    BY <1>0, <1>3, <1>6, <2>1, <2>2, <2>3, <2>4 DEF LostIn, Rest
<1>8. CASE CanSend(B, e)
  <2>1. SetBuffers(Send(B, e, h)) /\ dropped' = dropped
    BY <1>4, <1>8 DEF tn_usb_ep_rx_int
  <2>2. CASE ~RecvWaits(task, e)
    <3>1. PICK Q1 : Q1 = Appended(queue, e, h)
      OBVIOUS
    <3>2. Send(B, e, h) = Bf(P1, Q1, task)
      BY <1>0, <1>5, <2>2, <3>1, TheBuffers, SendIs
    <3>3. pool' = P1 /\ queue' = Q1 /\ task' = task
      BY <2>1, <3>2, SetBf
    <3>4. QED
      BY <1>0, <1>3, <1>6, <2>1, <2>2, <3>1, <3>3 DEF Rest
  <2>3. CASE RecvWaits(task, e)
    <3>1. PICK s \in Task : s = Receiver(e)
      BY <2>3, Ends DEF RecvWaits
    <3>2. Send(B, e, h) = Bf(P1, queue, Receives(task, s, h))
      BY <1>0, <1>5, <2>3, <3>1, TheBuffers, SendIs
    <3>3. pool' = P1 /\ queue' = queue /\ task' = Receives(task, s, h)
      BY <2>1, <3>2, SetBf
    <3>4. task' = With(task, s, Further(task, s, h, task[s].ptr))
      BY <3>3 DEF Receives
    <3>5. Moves(s, h, task[s].ptr) /\ Rest({s})
      BY <3>4, TaskFunction, OneMoves
    <3>6. QED
      BY <1>0, <1>3, <1>6, <2>1, <2>3, <3>1, <3>3, <3>5
  <2>4. QED
    BY <2>2, <2>3
<1>9. QED
  BY <1>7, <1>8

LEMMA TxEffect ==
  ASSUME BlocksInv, NEW e \in TxEndpoint, tn_usb_ep_tx_int(e)
  PROVE  /\ e \in Buffer /\ queue[e] # <<>>
         /\ \/ /\ SendWaits(task, e, "send")
               /\ queue' = Appended(Headless(queue, e), e, task[Sender(e)].ptr)
               /\ Moves(Sender(e), task[Sender(e)].ptr1, task[Sender(e)].ptr)
               /\ Rest({Sender(e)})
            \/ /\ ~SendWaits(task, e, "send") /\ queue' = Headless(queue, e)
               /\ \/ Rest({})
                  \/ /\ SendWaits(task, e, "get") /\ Rest({Sender(e)})
                     /\ Moves(Sender(e), task[Sender(e)].ptr1, Head(queue[e]))
<1>0. e \in Buffer /\ queue[e] # <<>>
  BY DEF TxEndpoint, Buffer, tn_usb_ep_tx_int
<1>1. PICK h, B : h = Head(queue[e]) /\ B = TakeHead(Buffers, e)
  OBVIOUS
<1>2. SetBuffers(Free(B, e, h))
  BY <1>1 DEF tn_usb_ep_tx_int
<1>3. CASE SendWaits(task, e, "send")
  <2>1. PICK s \in Task : s = Sender(e) /\ task[s].at = "send"
    BY <1>3, Ends DEF SendWaits
  <2>2. PICK Q1, S : Q1 = Appended(Headless(queue, e), e, task[s].ptr) /\ S = Advances(task, s)
    OBVIOUS
  <2>3. B = Bf(pool, Q1, S)
    BY <1>0, <1>1, <1>3, <2>1, <2>2, TheBuffers, TakeHeadIs
  <2>4. TasksOK(S)
    <3>1. StateOK(B, LostIn(dropped), e, h)
      BY <1>0, <1>1, TheBuffers, TakeHeadOK
    <3>2. BuffersOK(pool, Q1, S, LostIn(dropped), e, h)
      BY <2>3, <3>1 DEF StateOK, Bf
    <3>3. QED
      BY <3>2 DEF BuffersOK
  <2>5. S = With(task, s, Further(task, s, task[s].ptr1, task[s].ptr))
    BY <2>2 DEF Advances
  <2>6. ~SendWaits(S, e, "get")
    <3>1. PICK r : r = Further(task, s, task[s].ptr1, task[s].ptr)
      OBVIOUS
    <3>2. S[s] = r
      BY <2>5, <3>1, TaskFunction, WithIs
    <3>3. r.waits = FALSE
      BY <3>1 DEF Further
    <3>4. QED
      BY <2>1, <3>2, <3>3 DEF SendWaits
  <2>7. PICK P1 : P1 = Prepended(pool, e, h)
    OBVIOUS
  <2>8. Free(B, e, h) = Bf(P1, Q1, S)
    BY <1>0, <2>3, <2>4, <2>6, <2>7, FreeIs
  <2>9. queue' = Q1 /\ task' = S
    BY <1>2, <2>8, SetBf
  <2>10. Moves(s, task[s].ptr1, task[s].ptr) /\ Rest({s})
    BY <2>5, <2>9, TaskFunction, OneMoves
  <2>11. QED
    BY <1>0, <1>3, <2>1, <2>2, <2>9, <2>10
<1>4. CASE ~SendWaits(task, e, "send")
  <2>1. PICK Q1 : Q1 = Headless(queue, e)
    OBVIOUS
  <2>2. B = Bf(pool, Q1, task)
    BY <1>0, <1>1, <1>4, <2>1, TheBuffers, TakeHeadIs
  <2>3. CASE ~SendWaits(task, e, "get")
    <3>1. PICK P1 : P1 = Prepended(pool, e, h)
      OBVIOUS
    <3>2. Free(B, e, h) = Bf(P1, Q1, task)
      BY <1>0, <2>2, <2>3, <3>1, TheBuffers, FreeIs
    <3>3. queue' = Q1 /\ task' = task
      BY <1>2, <3>2, SetBf
    <3>4. QED
      BY <1>0, <1>4, <2>1, <3>3 DEF Rest
  <2>4. CASE SendWaits(task, e, "get")
    <3>1. PICK s \in Task : s = Sender(e)
      BY <2>4, Ends DEF SendWaits
    <3>2. Free(B, e, h) = Bf(pool, Q1, Gets(task, s, h))
      BY <1>0, <2>2, <2>4, <3>1, TheBuffers, FreeIs
    <3>3. queue' = Q1 /\ task' = Gets(task, s, h)
      BY <1>2, <3>2, SetBf
    <3>4. task' = With(task, s, Further(task, s, task[s].ptr1, h))
      BY <3>3 DEF Gets
    <3>5. Moves(s, task[s].ptr1, h) /\ Rest({s})
      BY <3>4, TaskFunction, OneMoves
    <3>6. QED
      BY <1>0, <1>1, <1>4, <2>1, <2>4, <3>1, <3>3, <3>5
  <2>5. QED
    BY <2>3, <2>4
<1>5. QED
  BY <1>3, <1>4

-----------------------------------------------------------------------------
\* The packets in the blocks.

DataInv == /\ content = [p \in Buffer |-> content[p]]
           /\ \A p \in Buffer : content[p] \in [Block(p) -> Int]
           /\ cnt \in Nat /\ sent \in [RxEndpoint -> Nat]

\* What is where, of a buffer and of a task.
LEMMA Places ==
  ASSUME BlocksInv, NEW q \in Buffer
  PROVE  /\ queue[q] \in Seq(Block(q)) /\ queue = [p \in Buffer |-> queue[p]]
         /\ X(task, q) # NoBlock => X(task, q) # Y(task, q)
         /\ \A i \in 1 .. Len(queue[q]) :
              queue[q][i] \in Block(q) /\ queue[q][i] # X(task, q) /\ queue[q][i] # Y(task, q)
<1>1. Parts(Size[q], pool[q], queue[q], X(task, q), Y(task, q), NoBlock, LostIn(dropped)[q])
  BY TheBuffers, HandParts
<1>2. /\ queue[q] \in Seq(1 .. Size[q])
      /\ X(task, q) # NoBlock => X(task, q) # Y(task, q)
      /\ \A i \in 1 .. Len(queue[q]) : queue[q][i] # X(task, q) /\ queue[q][i] # Y(task, q)
  BY <1>1 DEF Parts, Apart, Outside
<1>3. \A i \in 1 .. Len(queue[q]) : queue[q][i] \in 1 .. Size[q]
  BY <1>2, SizeType, SeqIs
<1>4. queue = [p \in Buffer |-> queue[p]]
  BY TheBuffers DEF QueuesOK
<1>5. QED
  BY <1>2, <1>3, <1>4 DEF Block

LEMMA Hold ==
  ASSUME BlocksInv, NEW t \in Task, NEW q \in Buffer
  PROVE  /\ q = Source[t] /\ task[t].at # "receive" =>
              task[t].ptr1 \in Block(q) /\ X(task, q) = task[t].ptr1 /\ task[t].ptr1 # NoBlock
         /\ q = Target[t] /\ task[t].at \in {"copy", "send"} =>
              task[t].ptr \in Block(q) /\ Y(task, q) = task[t].ptr /\ task[t].ptr # NoBlock
<1>1. Parts(Size[q], pool[q], queue[q], X(task, q), Y(task, q), NoBlock, LostIn(dropped)[q])
  BY TheBuffers, HandParts
<1>2. X(task, q) \in 0 .. Size[q] /\ Y(task, q) \in 0 .. Size[q] /\ Size[q] \in Nat
  BY <1>1, SizeType DEF Parts
<1>3. RecordOK(t, task[t]) /\ q # NoBuffer
  BY TheBuffers, Ends
<1>4. ASSUME q = Source[t], task[t].at # "receive"
      PROVE  task[t].ptr1 \in Block(q) /\ X(task, q) = task[t].ptr1 /\ task[t].ptr1 # NoBlock
  <2>1. X(task, q) = task[t].ptr1
    BY <1>4, SourceEnd DEF X, XOf
  <2>2. task[t].ptr1 # NoBlock
    BY <1>3, <1>4 DEF RecordOK
  <2>3. QED
    BY <1>2, <2>1, <2>2 DEF Block, NoBlock
<1>5. ASSUME q = Target[t], task[t].at \in {"copy", "send"}
      PROVE  task[t].ptr \in Block(q) /\ Y(task, q) = task[t].ptr /\ task[t].ptr # NoBlock
  <2>1. Y(task, q) = task[t].ptr
    BY <1>5, TargetEnd DEF Y, YOf
  <2>2. task[t].ptr # NoBlock
    BY <1>3, <1>5 DEF RecordOK
  <2>3. QED
    BY <1>2, <2>1, <2>2 DEF Block, NoBlock
<1>6. QED
  BY <1>4, <1>5

\* One block is written.
Writes(p, b, v) ==
  /\ content' = [q \in Buffer |-> content'[q]]
  /\ \A q \in Buffer \ {p} : content'[q] = content[q]
  /\ content'[p] \in [Block(p) -> Int] /\ content'[p][b] = v
  /\ \A c \in Block(p) \ {b} : content'[p][c] = content[p][c]

LEMMA Written ==
  ASSUME DataInv, NEW p \in Buffer, NEW b \in Block(p), NEW v \in Int,
         content' = [content EXCEPT ![p][b] = v]
  PROVE  Writes(p, b, v)
<1>1. content[p] \in [Block(p) -> Int]
  BY DEF DataInv
<1>2. PICK f : f = [content[p] EXCEPT ![b] = v]
  OBVIOUS
<1>3. f \in [Block(p) -> Int] /\ f[b] = v /\ \A c \in Block(p) \ {b} : f[c] = content[p][c]
  BY <1>1, <1>2
<1>4. content' = [content EXCEPT ![p] = f] /\ content = [q \in Buffer |-> content[q]]
  BY <1>2 DEF DataInv
<1>5. /\ content' = [q \in Buffer |-> content'[q]]
      /\ content'[p] = f /\ \A q \in Buffer \ {p} : content'[q] = content[q]
  BY <1>4
<1>6. QED
  BY <1>3, <1>5 DEF Writes

LEMMA CopyWrites ==
  ASSUME BlocksInv, DataInv, NEW t \in Task, Copy(t)
  PROVE  LET v == IF Source[t] = NoBuffer THEN cnt ELSE content[Source[t]][task[t].ptr1]
         IN /\ v \in Int /\ Target[t] \in Buffer /\ task[t].ptr \in Block(Target[t])
            /\ Writes(Target[t], task[t].ptr, v)
            /\ cnt' = IF Source[t] = NoBuffer THEN cnt + 1 ELSE cnt
<1> DEFINE v == IF Source[t] = NoBuffer THEN cnt ELSE content[Source[t]][task[t].ptr1]
<1>1. task[t].at = "copy" /\ RecordOK(t, task[t])
  BY TheBuffers DEF Copy, At
<1>2. Target[t] \in Buffer /\ (Source[t] # NoBuffer => Source[t] \in Buffer)
  BY <1>1, HasTarget, Ends
<1>3. task[t].ptr \in Block(Target[t])
  BY <1>1, <1>2, Hold
<1>4. v \in Int
  <2>1. CASE Source[t] = NoBuffer
    BY <2>1 DEF DataInv
  <2>2. CASE Source[t] # NoBuffer
    <3>1. task[t].ptr1 \in Block(Source[t])
      BY <1>1, <1>2, <2>2, Hold
    <3>2. QED
      BY <1>2, <2>2, <3>1 DEF DataInv
  <2>3. QED
    BY <2>1, <2>2
<1>5. content' = [content EXCEPT ![Target[t]][task[t].ptr] = v]
  BY DEF Copy
<1> HIDE DEF v
<1>6. Writes(Target[t], task[t].ptr, v)
  BY <1>2, <1>3, <1>4, <1>5, Written
<1>7. cnt' = IF Source[t] = NoBuffer THEN cnt + 1 ELSE cnt
  BY DEF Copy
<1>8. QED
  BY <1>2, <1>3, <1>4, <1>6, <1>7 DEF v

LEMMA RxWrites ==
  ASSUME BlocksInv, DataInv, NEW e \in RxEndpoint, tn_usb_ep_rx_int(e)
  PROVE  Writes(e, Head(pool[e]), sent[e] + 1) /\ sent' = [sent EXCEPT ![e] = @ + 1]
<1>1. PICK h : h = Head(pool[e])
  OBVIOUS
<1>2. e \in Buffer /\ h \in 1 .. Size[e]
  BY <1>1, RxEffect
<1>3. sent[e] + 1 \in Int
  BY DEF DataInv
<1>4. content' = [content EXCEPT ![e][h] = sent[e] + 1] /\ sent' = [sent EXCEPT ![e] = @ + 1]
  BY <1>1 DEF tn_usb_ep_rx_int
<1>5. QED
  BY <1>1, <1>2, <1>3, <1>4, Written DEF Block

LEMMA DataInit == Init => DataInv
<1> SUFFICES ASSUME Init
             PROVE  DataInv
  OBVIOUS
<1>1. /\ content = [p \in Buffer |-> [b \in Block(p) |-> Unwritten]]
      /\ cnt = 0 /\ sent = [e \in RxEndpoint |-> 0]
  BY DEF Init
<1>2. Unwritten \in Int
  BY DEF Unwritten
<1>3. \A p \in Buffer : content[p] \in [Block(p) -> Int]
  BY <1>1, <1>2
<1>4. content = [p \in Buffer |-> content[p]]
  BY <1>1
<1>5. QED
  BY <1>1, <1>3, <1>4 DEF DataInv

LEMMA DataStep == BlocksInv /\ DataInv /\ [Next]_vars => DataInv'
<1> SUFFICES ASSUME BlocksInv, DataInv, [Next]_vars
             PROVE  DataInv'
  OBVIOUS
<1>1. ASSUME NEW p \in Buffer, NEW b, NEW v, Writes(p, b, v)
      PROVE  /\ content' = [q \in Buffer |-> content'[q]]
             /\ \A q \in Buffer : content'[q] \in [Block(q) -> Int]
  BY <1>1 DEF Writes, DataInv
<1>2. ASSUME NEW t \in Task, Copy(t)
      PROVE  DataInv'
  <2>1. PICK v : Target[t] \in Buffer /\ Writes(Target[t], task[t].ptr, v)
    BY <1>2, CopyWrites
  <2>2. cnt' = (IF Source[t] = NoBuffer THEN cnt + 1 ELSE cnt) /\ sent' = sent
    BY <1>2 DEF Copy, others
  <2>3. cnt' \in Nat /\ sent' \in [RxEndpoint -> Nat]
    BY <2>2 DEF DataInv
  <2>4. QED
    BY <1>1, <2>1, <2>3 DEF DataInv
<1>3. ASSUME NEW e \in RxEndpoint, tn_usb_ep_rx_int(e)
      PROVE  DataInv'
  <2>1. PICK h, v : Writes(e, h, v) /\ e \in Buffer
    BY <1>3, RxWrites DEF RxEndpoint, Buffer
  <2>2. sent' = [sent EXCEPT ![e] = @ + 1] /\ cnt' = cnt
    BY <1>3 DEF tn_usb_ep_rx_int
  <2>3. sent' \in [RxEndpoint -> Nat] /\ cnt' \in Nat
    BY <2>2 DEF DataInv
  <2>4. QED
    BY <1>1, <2>1, <2>3 DEF DataInv
<1>4. ASSUME UNCHANGED <<content, cnt, sent>>
      PROVE  DataInv'
  BY <1>4 DEF DataInv
<1>5. CASE Interrupt
  BY <1>3, <1>4, <1>5 DEF Interrupt, tn_usb_ep_tx_int
<1>6. ASSUME NEW t \in Task, TaskStep(t)
      PROVE  DataInv'
  BY <1>2, <1>4, <1>6
     DEF TaskStep, tn_queue_receive, tn_fmem_get, tn_queue_send, tn_fmem_release, others
<1>7. CASE UNCHANGED vars
  BY <1>4, <1>7 DEF vars
<1>8. QED
  BY <1>5, <1>6, <1>7 DEF Next

-----------------------------------------------------------------------------
\* The numbers that task_ep2_tx counts: those in the queue follow the ones the
\* host has read, and the one the task holds follows those.

num == received["EP2TX"]
NumbersInv ==
  LET Q == queue["EP2TX"]
      c == content["EP2TX"]
      r == task["ep2_tx"]
  IN /\ received = [e \in TxEndpoint |-> received[e]] /\ num.qty \in Nat
     /\ \A i \in 1 .. Len(Q) : c[Q[i]] = num.qty + i - 1
     /\ cnt = num.qty + Len(Q) + (IF r.at = "send" THEN 1 ELSE 0)
     /\ r.at = "send" => c[r.ptr] = cnt - 1
     /\ num.qty > 0 => num.last = num.qty - 1

\* A task that waits to receive finds the queue empty.
WaitsEmpty == \A q \in Buffer : RecvWaits(task, q) => queue[q] = <<>>

LEMMA QueueOps ==
  ASSUME BlocksInv, NEW q \in Buffer, NEW b
  PROVE  /\ Appended(queue, q, b)[q] = Append(queue[q], b)
         /\ Headless(queue, q)[q] = Tail(queue[q])
         /\ Appended(Headless(queue, q), q, b)[q] = Append(Tail(queue[q]), b)
         /\ \A p \in Buffer \ {q} : /\ Appended(queue, q, b)[p] = queue[p]
                                    /\ Headless(queue, q)[p] = queue[p]
                                    /\ Appended(Headless(queue, q), q, b)[p] = queue[p]
<1>1. queue = [p \in Buffer |-> queue[p]]
  BY Places
<1>2. PICK v : v = Tail(queue[q])
  OBVIOUS
<1>3. PICK Q : Q = [queue EXCEPT ![q] = v]
  OBVIOUS
<1>4. Q = Headless(queue, q)
  BY <1>2, <1>3 DEF Headless
<1>5. Q = [p \in Buffer |-> Q[p]] /\ Q[q] = v /\ \A p \in Buffer \ {q} : Q[p] = queue[p]
  BY <1>1, <1>3
<1>6. Appended(Q, q, b)[q] = Append(v, b) /\ \A p \in Buffer \ {q} : Appended(Q, q, b)[p] = Q[p]
  BY <1>5 DEF Appended
<1>7. /\ Appended(queue, q, b)[q] = Append(queue[q], b)
      /\ \A p \in Buffer \ {q} : Appended(queue, q, b)[p] = queue[p]
  BY <1>1 DEF Appended
<1>8. QED
  BY <1>2, <1>4, <1>5, <1>6, <1>7

\* A task that has gone on does not wait.
LEMMA RestWaits ==
  ASSUME NEW M, Rest(M), \A u \in M : task'[u].waits = FALSE,
         NEW p \in Buffer, RecvWaits(task', p)
  PROVE  RecvWaits(task, p)
<1>1. Receiver(p) \in Task /\ task'[Receiver(p)].waits
  BY Ends DEF RecvWaits
<1>2. Receiver(p) \notin M
  BY <1>1
<1>3. task'[Receiver(p)] = task[Receiver(p)]
  BY <1>1, <1>2 DEF Rest
<1>4. QED
  BY <1>3 DEF RecvWaits

LEMMA StaysWaits ==
  ASSUME NEW t \in Task, Stays(t), task[t].at # "receive", NEW p \in Buffer, RecvWaits(task', p)
  PROVE  RecvWaits(task, p)
<1>1. Receiver(p) \in Task /\ task'[Receiver(p)].at = "receive"
  BY Ends DEF RecvWaits
<1>2. task'[Receiver(p)] = task[Receiver(p)]
  BY <1>1 DEF Stays
<1>3. QED
  BY <1>2 DEF RecvWaits

LEMMA WaitsInit == Init => WaitsEmpty
BY DEF Init, WaitsEmpty

LEMMA WaitsStep == BlocksInv /\ WaitsEmpty /\ [Next]_vars => WaitsEmpty'
<1> SUFFICES ASSUME BlocksInv, WaitsEmpty, [Next]_vars, NEW p \in Buffer, RecvWaits(task', p)
             PROVE  queue'[p] = <<>>
  BY DEF WaitsEmpty
<1>1. ASSUME NEW t \in Task, tn_queue_receive(t)
      PROVE  queue'[p] = <<>>
  <2>1. task[t].at = "receive"
    BY <1>1 DEF tn_queue_receive, At
  <2>2. PICK q \in Buffer : q = Source[t]
    BY <2>1, TheBuffers, HasSource
  <2>3. CASE Stays(t) /\ queue[q] = <<>>
    <3>1. CASE Receiver(p) = t
      <4>1. p = q
        BY <2>2, <3>1, Ends DEF RecvWaits
      <4>2. QED
        BY <2>3, <4>1 DEF Stays
    <3>2. CASE Receiver(p) # t
      <4>1. task'[Receiver(p)] = task[Receiver(p)]
        BY <2>3, <3>2, Ends DEF Stays, RecvWaits
      <4>2. QED
        BY <2>3, <4>1 DEF Stays, RecvWaits, WaitsEmpty
    <3>3. QED
      BY <3>1, <3>2
  <2>4. CASE queue[q] # <<>> /\ Moves(t, Head(queue[q]), task[t].ptr)
               /\ queue' = Headless(queue, q) /\ Rest({t})
    <3>1. RecvWaits(task, p)
      BY <2>4, RestWaits DEF Moves
    <3>2. QED
      BY <2>4, <3>1, QueueOps DEF WaitsEmpty
  <2>5. CASE /\ queue[q] # <<>> /\ Moves(t, Head(queue[q]), task[t].ptr)
             /\ queue' = Appended(Headless(queue, q), q, task[Sender(q)].ptr)
             /\ Moves(Sender(q), task[Sender(q)].ptr1, task[Sender(q)].ptr)
             /\ Rest({Sender(q), t})
    <3>1. RecvWaits(task, p)
      BY <2>5, RestWaits DEF Moves
    <3>2. QED
      BY <2>5, <3>1, QueueOps DEF WaitsEmpty
  <2>6. QED
    BY <1>1, <2>2, <2>3, <2>4, <2>5, ReceiveEffect
<1>2. ASSUME NEW t \in Task, tn_fmem_get(t)
      PROVE  queue'[p] = <<>>
  <2>1. task[t].at # "receive"
    BY <1>2 DEF tn_fmem_get, At
  <2>2. queue' = queue
    BY <1>2, GetEffect DEF Stays
  <2>3. RecvWaits(task, p)
    BY <1>2, <2>1, GetEffect, StaysWaits, RestWaits DEF Moves
  <2>4. QED
    BY <2>2, <2>3 DEF WaitsEmpty
<1>3. ASSUME NEW t \in Task, Copy(t)
      PROVE  queue'[p] = <<>>
  <2>1. queue' = queue /\ RecvWaits(task, p)
    BY <1>3, CopyEffect, RestWaits DEF Moves
  <2>2. QED
    BY <2>1 DEF WaitsEmpty
<1>4. ASSUME NEW t \in Task, tn_queue_send(t)
      PROVE  queue'[p] = <<>>
  <2>1. task[t].at = "send"
    BY <1>4 DEF tn_queue_send, At
  <2>2. PICK q \in Buffer : q = Target[t]
    BY <2>1, TheBuffers, HasTarget
  <2>3. CASE Stays(t)
    <3>1. RecvWaits(task, p)
      BY <2>1, <2>3, StaysWaits
    <3>2. QED
      BY <2>3, <3>1 DEF Stays, WaitsEmpty
  <2>4. CASE /\ ~RecvWaits(task, q) /\ queue' = Appended(queue, q, task[t].ptr)
             /\ Moves(t, task[t].ptr1, task[t].ptr) /\ Rest({t})
    <3>1. RecvWaits(task, p)
      BY <2>4, RestWaits DEF Moves
    <3>2. QED
      BY <2>4, <3>1, QueueOps DEF WaitsEmpty
  <2>5. CASE /\ queue' = queue
             /\ Moves(Receiver(q), task[t].ptr, task[Receiver(q)].ptr)
             /\ Moves(t, task[t].ptr1, task[t].ptr) /\ Rest({Receiver(q), t})
    <3>1. RecvWaits(task, p)
      BY <2>5, RestWaits DEF Moves
    <3>2. QED
      BY <2>5, <3>1 DEF WaitsEmpty
  <2>6. QED
    BY <1>4, <2>2, <2>3, <2>4, <2>5, SendEffect
<1>5. ASSUME NEW t \in Task, tn_fmem_release(t)
      PROVE  queue'[p] = <<>>
  <2>1. task[t].at = "release"
    BY <1>5 DEF tn_fmem_release, At
  <2>2. PICK q \in Buffer : q = Source[t]
    BY <2>1, TheBuffers, HasSource
  <2>3. queue' = queue
    BY <1>5, <2>2, ReleaseEffect
  <2>4. CASE Rest({t}) /\ Moves(t, task[t].ptr1, task[t].ptr)
    <3>1. RecvWaits(task, p)
      BY <2>4, RestWaits DEF Moves
    <3>2. QED
      BY <2>3, <3>1 DEF WaitsEmpty
  <2>5. CASE /\ Rest({Sender(q), t}) /\ Moves(t, task[t].ptr1, task[t].ptr)
             /\ Moves(Sender(q), task[Sender(q)].ptr1, task[t].ptr1)
    <3>1. RecvWaits(task, p)
      BY <2>5, RestWaits DEF Moves
    <3>2. QED
      BY <2>3, <3>1 DEF WaitsEmpty
  <2>6. QED
    BY <1>5, <2>2, <2>4, <2>5, ReleaseEffect
<1>6. ASSUME NEW e \in RxEndpoint, tn_usb_ep_rx_int(e)
      PROVE  queue'[p] = <<>>
  <2>1. PICK h : h = Head(pool[e])
    OBVIOUS
  <2>2. e \in Buffer
    BY <1>6, <2>1, RxEffect
  <2>3. CASE queue' = queue /\ Rest({})
    <3>1. RecvWaits(task, p)
      BY <2>3, RestWaits
    <3>2. QED
      BY <2>3, <3>1 DEF WaitsEmpty
  <2>4. CASE ~RecvWaits(task, e) /\ queue' = Appended(queue, e, h) /\ Rest({})
    <3>1. RecvWaits(task, p)
      BY <2>4, RestWaits
    <3>2. QED
      BY <2>2, <2>4, <3>1, QueueOps DEF WaitsEmpty
  <2>5. CASE queue' = queue /\ Rest({Receiver(e)})
               /\ Moves(Receiver(e), h, task[Receiver(e)].ptr)
    <3>1. RecvWaits(task, p)
      BY <2>5, RestWaits DEF Moves
    <3>2. QED
      BY <2>5, <3>1 DEF WaitsEmpty
  <2>6. QED
    BY <1>6, <2>1, <2>3, <2>4, <2>5, RxEffect
<1>7. ASSUME NEW e \in TxEndpoint, tn_usb_ep_tx_int(e)
      PROVE  queue'[p] = <<>>
  <2>1. e \in Buffer /\ queue[e] # <<>>
    BY <1>7, TxEffect
  <2>2. RecvWaits(task, p)
    BY <1>7, TxEffect, RestWaits DEF Moves
  <2>3. queue'[p] = queue[p]
    <3>1. p # e
      BY <2>1, <2>2 DEF WaitsEmpty
    <3>2. PICK b : b = task[Sender(e)].ptr
      OBVIOUS
    <3>3. queue' = Headless(queue, e) \/ queue' = Appended(Headless(queue, e), e, b)
      BY <1>7, <3>2, TxEffect
    <3>4. QED
      BY <2>1, <3>1, <3>3, QueueOps
  <2>4. QED
    BY <2>2, <2>3 DEF WaitsEmpty
<1>8. CASE UNCHANGED vars
  BY <1>8 DEF vars, WaitsEmpty, RecvWaits
<1>9. QED
  BY <1>1, <1>2, <1>3, <1>4, <1>5, <1>6, <1>7, <1>8 DEF Next, Interrupt, TaskStep

-----------------------------------------------------------------------------
\* The numbers stay in sequence.

\* A task's record but for its waiting.
SameTask(u) == task'[u].at = task[u].at /\ task'[u].ptr = task[u].ptr
                 /\ task'[u].ptr1 = task[u].ptr1

LEMMA NumbersFrame ==
  ASSUME NumbersInv, queue'["EP2TX"] = queue["EP2TX"], content'["EP2TX"] = content["EP2TX"],
         cnt' = cnt, received' = [e \in TxEndpoint |-> received'[e]],
         received'["EP2TX"] = received["EP2TX"],
         SameTask("ep2_tx") \/ (task["ep2_tx"].at # "send" /\ task'["ep2_tx"].at # "send")
  PROVE  NumbersInv'
BY DEF NumbersInv, SameTask, num

LEMMA NumbersEnd ==
  /\ "EP2TX" \in Buffer /\ "ep2_tx" \in Task
  /\ \A t \in Task : Source[t] # "EP2TX" /\ (Target[t] = "EP2TX" => t = "ep2_tx")
  /\ \A q \in SendBuf : q # "EP2TX" => Sender(q) # "ep2_tx"
  /\ \A q \in RecvBuf : Receiver(q) # "ep2_tx" /\ q # "EP2TX"
  /\ Sender("EP2TX") = "ep2_tx" /\ Target["ep2_tx"] = "EP2TX" /\ Source["ep2_tx"] = NoBuffer
BY TaskNames, Wiring DEF Buffer, SendBuf, RecvBuf, Source, Target, Sender, Receiver

LEMMA RestSame ==
  ASSUME NEW M, Rest(M), NEW u \in Task, u \notin M
  PROVE  SameTask(u)
BY DEF Rest, SameTask

LEMMA StaysSame ==
  ASSUME NEW t \in Task, Stays(t), NEW u \in Task
  PROVE  SameTask(u) /\ queue' = queue
BY DEF Stays, SameTask

LEMMA ReceiveNumbers ==
  ASSUME BlocksInv, NumbersInv, NEW t \in Task, tn_queue_receive(t)
  PROVE  NumbersInv'
<1>1. task[t].at = "receive" /\ content' = content /\ cnt' = cnt /\ received' = received
  BY DEF tn_queue_receive, others, At
<1>2. PICK q \in Buffer : q = Source[t]
  BY <1>1, TheBuffers, HasSource
<1>3. q # "EP2TX" /\ t # "ep2_tx"
  BY <1>2, NumbersEnd, Ends
<1>4. received' = [e \in TxEndpoint |-> received'[e]]
  BY <1>1 DEF NumbersInv
<1>5. SameTask("ep2_tx") /\ queue'["EP2TX"] = queue["EP2TX"]
  <2>1. CASE Stays(t)
    BY <2>1, StaysSame, NumbersEnd
  <2>2. CASE queue' = Headless(queue, q) /\ Rest({t})
    BY <1>3, <2>2, QueueOps, RestSame, NumbersEnd
  <2>3. CASE /\ SendWaits(task, q, "send") /\ Rest({Sender(q), t})
             /\ queue' = Appended(Headless(queue, q), q, task[Sender(q)].ptr)
    <3>1. Sender(q) # "ep2_tx"
      BY <1>3, <2>3, NumbersEnd DEF SendWaits
    <3>2. SameTask("ep2_tx")
      BY <1>3, <2>3, <3>1, RestSame, NumbersEnd
    <3>3. PICK b : b = task[Sender(q)].ptr
      OBVIOUS
    <3>4. queue'["EP2TX"] = queue["EP2TX"]
      BY <1>3, <2>3, <3>3, QueueOps, NumbersEnd
    <3>5. QED
      BY <3>2, <3>4
  <2>4. QED
    BY <1>2, <2>1, <2>2, <2>3, ReceiveEffect
<1>6. QED
  BY <1>1, <1>4, <1>5, NumbersFrame

LEMMA GetNumbers ==
  ASSUME BlocksInv, NumbersInv, NEW t \in Task, tn_fmem_get(t)
  PROVE  NumbersInv'
<1>1. task[t].at = "get" /\ content' = content /\ cnt' = cnt /\ received' = received
  BY DEF tn_fmem_get, others, At
<1>2. received' = [e \in TxEndpoint |-> received'[e]]
  BY <1>1 DEF NumbersInv
<1>3. queue' = queue
  BY GetEffect DEF Stays
<1>4. SameTask("ep2_tx") \/ (task["ep2_tx"].at # "send" /\ task'["ep2_tx"].at # "send")
  <2>1. CASE Stays(t)
    BY <2>1, StaysSame, NumbersEnd
  <2>2. CASE \E h : Moves(t, task[t].ptr1, h) /\ Rest({t})
    <3>1. CASE t = "ep2_tx"
      BY <1>1, <2>2, <3>1 DEF Moves, After
    <3>2. CASE t # "ep2_tx"
      BY <2>2, <3>2, RestSame, NumbersEnd
    <3>3. QED
      BY <3>1, <3>2
  <2>3. QED
    BY <2>1, <2>2, GetEffect
<1>5. QED
  BY <1>1, <1>2, <1>3, <1>4, NumbersFrame

LEMMA CopyNumbers ==
  ASSUME BlocksInv, DataInv, NumbersInv, NEW t \in Task, Copy(t)
  PROVE  NumbersInv'
<1>1. task[t].at = "copy" /\ received' = received
  BY DEF Copy, others, At
<1>2. received' = [e \in TxEndpoint |-> received'[e]]
  BY <1>1 DEF NumbersInv
<1>3. queue' = queue /\ Moves(t, task[t].ptr1, task[t].ptr) /\ Rest({t})
  BY CopyEffect
<1>4. CASE t # "ep2_tx"
  <2>1. Source[t] # NoBuffer
    <3>1. Target[t] \in Buffer
      BY <1>1, TheBuffers, HasTarget
    <3>2. t # "ep5_rx"
      BY <3>1, Wiring
    <3>3. QED
      BY <1>4, <3>2, TaskNames, Wiring DEF NoBuffer
  <2>2. cnt' = cnt
    BY <2>1 DEF Copy
  <2>3. Target[t] # "EP2TX"
    BY <1>4, NumbersEnd
  <2>4. content'["EP2TX"] = content["EP2TX"]
    <3>1. PICK v : Writes(Target[t], task[t].ptr, v)
      BY CopyWrites
    <3>2. QED
      BY <2>3, <3>1, NumbersEnd DEF Writes
  <2>5. SameTask("ep2_tx")
    BY <1>3, <1>4, RestSame, NumbersEnd
  <2>6. QED
    BY <1>1, <1>2, <1>3, <2>2, <2>4, <2>5, NumbersFrame
<1>5. CASE t = "ep2_tx"
  <2>1. PICK b : b = task["ep2_tx"].ptr
    OBVIOUS
  <2>2. /\ Writes("EP2TX", b, cnt) /\ b \in Block("EP2TX") /\ cnt' = cnt + 1
    BY <1>5, <2>1, CopyWrites, NumbersEnd
  <2>3. task'["ep2_tx"].at = "send" /\ task'["ep2_tx"].ptr = b
    BY <1>1, <1>3, <1>5, <2>1 DEF Moves, After
  <2>4. PICK Q : Q = queue["EP2TX"]
    OBVIOUS
  <2>5. \A i \in 1 .. Len(Q) : Q[i] \in Block("EP2TX") /\ Q[i] # b
    <3>1. Y(task, "EP2TX") = b
      BY <1>1, <1>5, <2>1, Hold, NumbersEnd
    <3>2. QED
      BY <2>4, <3>1, Places, NumbersEnd
  <2>6. PICK c, d : c = content["EP2TX"] /\ d = content'["EP2TX"]
    OBVIOUS
  <2>7. d[b] = cnt /\ \A i \in 1 .. Len(Q) : d[Q[i]] = c[Q[i]]
    BY <2>2, <2>5, <2>6 DEF Writes
  <2>8. /\ num.qty \in Nat /\ cnt = num.qty + Len(Q) /\ cnt \in Nat
        /\ \A i \in 1 .. Len(Q) : c[Q[i]] = num.qty + i - 1
        /\ num.qty > 0 => num.last = num.qty - 1
    <3>1. /\ num.qty \in Nat /\ (num.qty > 0 => num.last = num.qty - 1)
          /\ \A i \in 1 .. Len(Q) : c[Q[i]] = num.qty + i - 1
      BY <2>4, <2>6 DEF NumbersInv
    <3>2. cnt = num.qty + Len(Q) + 0
      BY <1>1, <1>5, <2>4 DEF NumbersInv
    <3>3. cnt \in Nat /\ Len(Q) \in Nat
      BY <2>4, Places, NumbersEnd DEF DataInv
    <3>4. QED
      BY <3>1, <3>2, <3>3
  <2>9. Len(Q) \in Nat
    BY <2>4, Places, NumbersEnd
  <2>10. cnt' = num.qty + Len(Q) + 1 /\ d[b] = cnt' - 1
    BY <2>2, <2>7, <2>8, <2>9
  <2>11. num' = num
    BY <1>1 DEF num
  <2>12. /\ num'.qty \in Nat /\ cnt' = num'.qty + Len(queue'["EP2TX"]) + 1
         /\ \A i \in 1 .. Len(queue'["EP2TX"]) :
              content'["EP2TX"][queue'["EP2TX"][i]] = num'.qty + i - 1
         /\ content'["EP2TX"][task'["ep2_tx"].ptr] = cnt' - 1
         /\ num'.qty > 0 => num'.last = num'.qty - 1
    BY <1>3, <2>3, <2>4, <2>6, <2>7, <2>8, <2>10, <2>11
  <2>13. QED
    BY <1>2, <2>3, <2>12 DEF NumbersInv
<1>6. QED
  BY <1>4, <1>5

LEMMA SendNumbers ==
  ASSUME BlocksInv, NumbersInv, NEW t \in Task, tn_queue_send(t)
  PROVE  NumbersInv'
<1>1. task[t].at = "send" /\ content' = content /\ cnt' = cnt /\ received' = received
  BY DEF tn_queue_send, others, At
<1>2. PICK q \in Buffer : q = Target[t]
  BY <1>1, TheBuffers, HasTarget
<1>3. received' = [e \in TxEndpoint |-> received'[e]]
  BY <1>1 DEF NumbersInv
<1>4. CASE Stays(t)
  BY <1>1, <1>3, <1>4, StaysSame, NumbersEnd, NumbersFrame
<1>5. CASE ~Stays(t) /\ t # "ep2_tx"
  <2>1. q # "EP2TX"
    BY <1>2, <1>5, NumbersEnd
  <2>2. CASE queue' = Appended(queue, q, task[t].ptr) /\ Rest({t})
    <3>1. PICK b : b = task[t].ptr
      OBVIOUS
    <3>2. queue'["EP2TX"] = queue["EP2TX"]
      BY <2>1, <2>2, <3>1, QueueOps, NumbersEnd
    <3>3. SameTask("ep2_tx")
      BY <1>5, <2>2, RestSame, NumbersEnd
    <3>4. QED
      BY <1>1, <1>3, <3>2, <3>3, NumbersFrame
  <2>3. CASE RecvWaits(task, q) /\ queue' = queue /\ Rest({Receiver(q), t})
    <3>1. Receiver(q) # "ep2_tx"
      BY <2>3, NumbersEnd DEF RecvWaits
    <3>2. SameTask("ep2_tx")
      BY <1>5, <2>3, <3>1, RestSame, NumbersEnd
    <3>3. QED
      BY <1>1, <1>3, <2>3, <3>2, NumbersFrame
  <2>4. QED
    BY <1>2, <1>5, <2>2, <2>3, SendEffect
<1>6. CASE ~Stays(t) /\ t = "ep2_tx"
  <2>1. q = "EP2TX" /\ ~RecvWaits(task, q)
    BY <1>2, <1>6, NumbersEnd DEF RecvWaits
  <2>2. PICK b, Q : b = task[t].ptr /\ Q = queue["EP2TX"]
    OBVIOUS
  <2>3. queue' = Appended(queue, q, b) /\ Moves(t, task[t].ptr1, task[t].ptr)
    BY <1>2, <1>6, <2>1, <2>2, SendEffect
  <2>4. task'["ep2_tx"].at = "get"
    BY <1>1, <1>6, <2>3, NumbersEnd DEF Moves, After
  <2>5. Q \in Seq(Block("EP2TX")) /\ b \in Block("EP2TX")
    BY <1>1, <1>6, <2>2, Places, Hold, NumbersEnd
  <2>6. queue'["EP2TX"] = Append(Q, b)
    BY <2>1, <2>2, <2>3, QueueOps
  <2>7. PICK c : c = content["EP2TX"]
    OBVIOUS
  <2>8. /\ num.qty \in Nat /\ cnt = num.qty + Len(Q) + 1
        /\ \A i \in 1 .. Len(Q) : c[Q[i]] = num.qty + i - 1
        /\ c[b] = cnt - 1
        /\ num.qty > 0 => num.last = num.qty - 1
    BY <1>1, <1>6, <2>2, <2>7 DEF NumbersInv
  <2>9. PICK R : R = Append(Q, b)
    OBVIOUS
  <2>10. /\ Len(R) = Len(Q) + 1 /\ Len(Q) \in Nat
         /\ \A i \in 1 .. Len(R) : c[R[i]] = num.qty + i - 1
    <3>1. /\ Len(R) = Len(Q) + 1 /\ Len(Q) \in Nat
          /\ \A i \in 1 .. Len(R) : R[i] = IF i = Len(Q) + 1 THEN b ELSE Q[i]
      BY <2>5, <2>9
    <3>2. c[b] = num.qty + (Len(Q) + 1) - 1
      BY <2>8, <3>1
    <3>3. \A i \in 1 .. Len(R) : i = Len(Q) + 1 \/ i \in 1 .. Len(Q)
      BY <3>1
    <3>4. QED
      BY <2>8, <3>1, <3>2, <3>3
  <2>11. num' = num /\ queue'["EP2TX"] = R /\ content'["EP2TX"] = c
    BY <1>1, <2>6, <2>7, <2>9 DEF num
  <2>12. cnt' = num.qty + Len(R) + 0
    <3>1. PICK n, k : n = num.qty /\ k = Len(Q)
      OBVIOUS
    <3>2. n \in Nat /\ k \in Nat /\ cnt' = n + k + 1 /\ Len(R) = k + 1
      BY <1>1, <2>8, <2>10, <3>1
    <3>3. QED
      BY <3>1, <3>2
  <2>13. QED
    BY <1>3, <2>4, <2>8, <2>10, <2>11, <2>12 DEF NumbersInv
<1>7. QED
  BY <1>4, <1>5, <1>6

LEMMA ReleaseNumbers ==
  ASSUME BlocksInv, NumbersInv, NEW t \in Task, tn_fmem_release(t)
  PROVE  NumbersInv'
<1>1. task[t].at = "release" /\ content' = content /\ cnt' = cnt /\ received' = received
  BY DEF tn_fmem_release, others, At
<1>2. PICK q \in Buffer : q = Source[t]
  BY <1>1, TheBuffers, HasSource
<1>3. q # "EP2TX" /\ t # "ep2_tx"
  BY <1>2, NumbersEnd, Ends
<1>4. received' = [e \in TxEndpoint |-> received'[e]]
  BY <1>1 DEF NumbersInv
<1>5. queue' = queue
  BY <1>2, ReleaseEffect
<1>6. SameTask("ep2_tx")
  <2>1. CASE Rest({t})
    BY <1>3, <2>1, RestSame, NumbersEnd
  <2>2. CASE SendWaits(task, q, "get") /\ Rest({Sender(q), t})
    <3>1. Sender(q) # "ep2_tx"
      BY <1>3, <2>2, NumbersEnd DEF SendWaits
    <3>2. QED
      BY <1>3, <2>2, <3>1, RestSame, NumbersEnd
  <2>3. QED
    BY <1>2, <2>1, <2>2, ReleaseEffect
<1>7. QED
  BY <1>1, <1>4, <1>5, <1>6, NumbersFrame

LEMMA RxNumbers ==
  ASSUME BlocksInv, DataInv, NumbersInv, NEW e \in RxEndpoint, tn_usb_ep_rx_int(e)
  PROVE  NumbersInv'
<1>1. cnt' = cnt /\ received' = received
  BY DEF tn_usb_ep_rx_int
<1>2. received' = [d \in TxEndpoint |-> received'[d]]
  BY <1>1 DEF NumbersInv
<1>3. e \in Buffer /\ e # "EP2TX"
  BY DEF RxEndpoint, Buffer
<1>4. content'["EP2TX"] = content["EP2TX"]
  BY <1>3, RxWrites, NumbersEnd DEF Writes
<1>5. PICK h : h = Head(pool[e])
  OBVIOUS
<1>6. SameTask("ep2_tx") /\ queue'["EP2TX"] = queue["EP2TX"]
  <2>1. CASE queue' = queue /\ Rest({})
    BY <2>1, RestSame, NumbersEnd
  <2>2. CASE queue' = Appended(queue, e, h) /\ Rest({})
    BY <1>3, <2>2, QueueOps, RestSame, NumbersEnd
  <2>3. CASE RecvWaits(task, e) /\ queue' = queue /\ Rest({Receiver(e)})
    <3>1. Receiver(e) # "ep2_tx"
      BY <2>3, NumbersEnd DEF RecvWaits
    <3>2. QED
      BY <2>3, <3>1, RestSame, NumbersEnd
  <2>4. QED
    BY <1>5, <2>1, <2>2, <2>3, RxEffect
<1>7. QED
  BY <1>1, <1>2, <1>4, <1>6, NumbersFrame

LEMMA TxNumbers ==
  ASSUME BlocksInv, DataInv, NumbersInv, NEW e \in TxEndpoint, tn_usb_ep_tx_int(e)
  PROVE  NumbersInv'
<1>1. e \in Buffer /\ queue[e] # <<>>
  BY TxEffect
<1>2. content' = content /\ cnt' = cnt
  BY DEF tn_usb_ep_tx_int
<1>3. PICK v : v = [qty |-> received[e].qty + 1, last |-> content[e][Head(queue[e])]]
  OBVIOUS
<1>4. /\ received' = [d \in TxEndpoint |-> received'[d]]
      /\ received'[e] = v /\ \A d \in TxEndpoint \ {e} : received'[d] = received[d]
  <2>1. received' = [received EXCEPT ![e] = v]
    BY <1>3 DEF tn_usb_ep_tx_int
  <2>2. received = [d \in TxEndpoint |-> received[d]]
    BY DEF NumbersInv
  <2>3. QED
    BY <2>1, <2>2
<1>5. PICK s : s = Sender(e)
  OBVIOUS
<1>6. CASE e # "EP2TX"
  <2>1. received'["EP2TX"] = received["EP2TX"]
    BY <1>4, <1>6 DEF TxEndpoint
  <2>2. s # "ep2_tx"
    <3>1. e \in SendBuf
      BY DEF TxEndpoint, SendBuf
    <3>2. QED
      BY <1>5, <1>6, <3>1, NumbersEnd
  <2>3. SameTask("ep2_tx")
    <3>1. Rest({}) \/ Rest({s})
      BY <1>5, TxEffect
    <3>2. QED
      BY <2>2, <3>1, RestSame, NumbersEnd
  <2>4. queue'["EP2TX"] = queue["EP2TX"]
    <3>1. PICK b : b = task[Sender(e)].ptr
      OBVIOUS
    <3>2. queue' = Headless(queue, e) \/ queue' = Appended(Headless(queue, e), e, b)
      BY <3>1, TxEffect
    <3>3. QED
      BY <1>1, <1>6, <3>2, QueueOps, NumbersEnd
  <2>5. QED
    BY <1>2, <1>4, <2>1, <2>3, <2>4, NumbersFrame
<1>7. CASE e = "EP2TX"
  <2>1. PICK Q, c, r : Q = queue["EP2TX"] /\ c = content["EP2TX"] /\ r = task["ep2_tx"]
    OBVIOUS
  <2>2. /\ num.qty \in Nat /\ cnt = num.qty + Len(Q) + (IF r.at = "send" THEN 1 ELSE 0)
        /\ \A i \in 1 .. Len(Q) : c[Q[i]] = num.qty + i - 1
        /\ r.at = "send" => c[r.ptr] = cnt - 1
    BY <2>1 DEF NumbersInv
  <2>3. Q \in Seq(Block("EP2TX")) /\ Q # <<>>
    BY <1>1, <1>7, <2>1, Places
  <2>4. /\ Len(Q) \in Nat \ {0} /\ Head(Q) = Q[1] /\ Len(Tail(Q)) = Len(Q) - 1
        /\ Tail(Q) \in Seq(Block("EP2TX"))
        /\ \A i \in 1 .. Len(Q) - 1 : Tail(Q)[i] = Q[i + 1] /\ i + 1 \in 1 .. Len(Q)
    BY <2>3
  <2>5. num' = v /\ v.qty = num.qty + 1 /\ v.last = num.qty
    <3>1. num' = v /\ v.qty = num.qty + 1 /\ v.last = c[Head(Q)]
      BY <1>3, <1>4, <1>7, <2>1 DEF num
    <3>2. c[Q[1]] = num.qty + 1 - 1
      BY <2>2, <2>4
    <3>3. QED
      BY <2>2, <2>4, <3>1, <3>2
  <2>6. \A i \in 1 .. Len(Q) - 1 : c[Tail(Q)[i]] = v.qty + i - 1
    <3>1. ASSUME NEW i \in 1 .. Len(Q) - 1
          PROVE  c[Tail(Q)[i]] = v.qty + i - 1
      <4>1. c[Q[i + 1]] = num.qty + (i + 1) - 1
        BY <2>2, <2>4
      <4>2. QED
        BY <2>2, <2>4, <2>5, <4>1
    <3>2. QED
      BY <3>1
  <2>7. CASE SendWaits(task, e, "send")
    <3>1. r.at = "send" /\ s = "ep2_tx"
      BY <1>5, <1>7, <2>1, <2>7, NumbersEnd DEF SendWaits
    <3>2. PICK b, R : b = r.ptr /\ R = Append(Tail(Q), b)
      OBVIOUS
    <3>3. queue'["EP2TX"] = R /\ task'["ep2_tx"].at = "get"
      <4>1. /\ queue' = Appended(Headless(queue, e), e, b)
            /\ Moves("ep2_tx", r.ptr1, r.ptr)
        BY <1>5, <2>1, <2>7, <3>1, <3>2, TxEffect
      <4>2. queue'["EP2TX"] = R
        BY <1>1, <1>7, <2>1, <3>2, <4>1, QueueOps
      <4>3. task'["ep2_tx"].at = "get"
        BY <2>1, <3>1, <4>1, NumbersEnd DEF Moves, After
      <4>4. QED
        BY <4>2, <4>3
    <3>4. c[b] = num.qty + Len(Q) /\ cnt = num.qty + Len(Q) + 1
      BY <2>2, <2>4, <3>1, <3>2
    <3>5. b \in Block("EP2TX")
      BY <2>1, <3>1, <3>2, Hold, NumbersEnd
    <3>6. /\ Len(R) = Len(Q)
          /\ \A i \in 1 .. Len(R) : /\ i \in 1 .. Len(Q) - 1 \/ i = Len(Q)
                                    /\ R[i] = IF i = Len(Q) THEN b ELSE Tail(Q)[i]
      <4>1. PICK Z, k : Z = Tail(Q) /\ k = Len(Q)
        OBVIOUS
      <4>2. Z \in Seq(Block("EP2TX")) /\ Len(Z) = k - 1 /\ k \in Nat \ {0} /\ R = Append(Z, b)
        BY <2>4, <3>2, <4>1
      <4>3. Len(R) = k /\ \A i \in 1 .. Len(R) : R[i] = IF i = k THEN b ELSE Z[i]
        BY <3>5, <4>2
      <4>4. \A i \in 1 .. k : i \in 1 .. k - 1 \/ i = k
        BY <4>2
      <4>5. QED
        BY <4>1, <4>3, <4>4
    <3>7. \A i \in 1 .. Len(R) : c[R[i]] = v.qty + i - 1
      <4>1. PICK n, k, m : n = num.qty /\ k = Len(Q) /\ m = v.qty
        OBVIOUS
      <4>2. c[b] = m + k - 1
        BY <2>2, <2>4, <2>5, <3>4, <4>1
      <4>3. QED
        BY <2>6, <3>6, <4>1, <4>2
    <3>8. cnt' = v.qty + Len(R) + 0 /\ v.qty \in Nat /\ v.last = v.qty - 1
      <4>1. PICK n, k, m : n = num.qty /\ k = Len(Q) /\ m = v.qty
        OBVIOUS
      <4>2. n \in Nat /\ k \in Nat /\ m = n + 1 /\ cnt' = n + k + 1 /\ Len(R) = k /\ v.last = n
        BY <1>2, <2>2, <2>4, <2>5, <3>4, <3>6, <4>1
      <4>3. cnt' = m + k + 0 /\ m \in Nat /\ v.last = m - 1
        BY <4>2
      <4>4. QED
        BY <4>1, <4>2, <4>3
    <3>9. QED
      BY <1>2, <1>4, <2>1, <2>5, <3>3, <3>7, <3>8 DEF NumbersInv
  <2>8. CASE ~SendWaits(task, e, "send")
    <3>1. queue'["EP2TX"] = Tail(Q)
      BY <1>1, <1>7, <2>1, <2>8, TxEffect, QueueOps
    <3>2. SameTask("ep2_tx") \/ (r.at # "send" /\ task'["ep2_tx"].at # "send")
      <4>1. CASE Rest({})
        BY <4>1, RestSame, NumbersEnd
      <4>2. CASE /\ SendWaits(task, e, "get")
                 /\ Moves(Sender(e), task[Sender(e)].ptr1, Head(queue[e]))
        BY <1>7, <2>1, <4>2, NumbersEnd DEF SendWaits, Moves, After
      <4>3. QED
        BY <2>8, <4>1, <4>2, TxEffect
    <3>3. PICK R : R = Tail(Q)
      OBVIOUS
    <3>4. \A i \in 1 .. Len(R) : c[R[i]] = v.qty + i - 1
      BY <2>4, <2>6, <3>3
    <3>5. /\ cnt' = v.qty + Len(R) + (IF r.at = "send" THEN 1 ELSE 0)
          /\ v.qty \in Nat /\ v.last = v.qty - 1
      <4>1. PICK n, k, m, j : /\ n = num.qty /\ k = Len(Q) /\ m = v.qty
                              /\ j = IF r.at = "send" THEN 1 ELSE 0
        OBVIOUS
      <4>2. /\ n \in Nat /\ k \in Nat /\ j \in Nat /\ m = n + 1 /\ v.last = n
            /\ cnt' = n + k + j /\ Len(R) = k - 1
        BY <1>2, <2>2, <2>4, <2>5, <3>3, <4>1
      <4>3. cnt' = m + (k - 1) + j /\ m \in Nat /\ v.last = m - 1
        BY <4>2
      <4>4. QED
        BY <4>1, <4>2, <4>3
    <3>6. QED
      BY <1>2, <1>4, <2>1, <2>2, <2>5, <3>1, <3>2, <3>3, <3>4, <3>5 DEF NumbersInv, SameTask
  <2>9. QED
    BY <2>7, <2>8
<1>8. QED
  BY <1>6, <1>7

LEMMA NumbersInit == Init => NumbersInv
<1> SUFFICES ASSUME Init
             PROVE  NumbersInv
  OBVIOUS
<1>1. /\ received = [e \in TxEndpoint |-> [qty |-> 0, last |-> 0]]
      /\ received = [e \in TxEndpoint |-> received[e]] /\ cnt = 0
  BY DEF Init
<1>2. num.qty = 0
  BY <1>1 DEF num, TxEndpoint
<1>3. queue["EP2TX"] = <<>>
  BY NumbersEnd DEF Init
<1>4. task["ep2_tx"].at = "get"
  BY NumbersEnd DEF Init
<1>5. QED
  BY <1>1, <1>2, <1>3, <1>4 DEF NumbersInv

LEMMA NumbersStep == BlocksInv /\ DataInv /\ NumbersInv /\ [Next]_vars => NumbersInv'
<1> SUFFICES ASSUME BlocksInv, DataInv, NumbersInv, [Next]_vars
             PROVE  NumbersInv'
  OBVIOUS
<1>1. ASSUME NEW t \in Task, TaskStep(t)
      PROVE  NumbersInv'
  BY <1>1, ReceiveNumbers, GetNumbers, CopyNumbers, SendNumbers, ReleaseNumbers DEF TaskStep
<1>2. CASE Interrupt
  BY <1>2, RxNumbers, TxNumbers DEF Interrupt
<1>3. CASE UNCHANGED vars
  BY <1>3 DEF vars, NumbersInv, num
<1>4. QED
  BY <1>1, <1>2, <1>3 DEF Next

\* Everything the loop of packets and the numbers rest on.
LoopInv == BlocksInv /\ DataInv /\ WaitsEmpty /\ NumbersInv

THEOREM LoopInvariant == Spec => []LoopInv
<1>1. Init => LoopInv
  BY BlocksInit, DataInit, WaitsInit, NumbersInit DEF LoopInv
<1>2. LoopInv /\ [Next]_vars => LoopInv'
  BY BlocksStep, DataStep, WaitsStep, NumbersStep DEF LoopInv
<1>3. QED
  BY <1>1, <1>2, PTL DEF Spec

(***************************************************************************)
(* The host reads from Endpoint 2 the numbers that task_ep2_tx counts, one *)
(* by one, "without dropping" (README.md:273), whatever the sizes of the   *)
(* queue and the pool and however the interrupts fall.                     *)
(***************************************************************************)
THEOREM NumbersCorrect == Spec => []NumbersInSequence
<1>1. NumbersInv => NumbersInSequence
  <2>1. SUFFICES ASSUME NumbersInv, num.qty > 0
                 PROVE  num.last + 1 = num.qty
    BY DEF NumbersInSequence, num
  <2>2. num.qty \in Nat /\ num.last = num.qty - 1
    BY <2>1 DEF NumbersInv
  <2>3. QED
    BY <2>2
<1>2. LoopInv => NumbersInSequence
  BY <1>1 DEF LoopInv
<1>3. QED
  BY <1>2, LoopInvariant, PTL

-----------------------------------------------------------------------------
\* The loop as one line.  Its parts, from the end that is given back: the
\* packets in the queue of Endpoint 5 IN, with task_ep5_tx, in the exchange
\* queue, with task_ep2_rx, and in the queue of Endpoint 2 OUT.

Line(s) == s \in Seq(Int)
Cat(s, t) == s \o t
Single(x) == <<x>>
None == <<>>
InLine(a, b, c, d, f) == Cat(Cat(Cat(Cat(a, b), c), d), f)

LEMMA CatRules ==
  /\ \A s, t, u : Line(s) /\ Line(t) /\ Line(u) => Cat(Cat(s, t), u) = Cat(s, Cat(t, u))
  /\ \A s, t : Line(s) /\ Line(t) => Line(Cat(s, t))
  /\ \A s : Line(s) => Cat(s, None) = s /\ Cat(None, s) = s
  /\ \A x \in Int : Line(Single(x))
  /\ Line(None)
<1>1. ASSUME NEW s \in Seq(Int), NEW t \in Seq(Int), NEW u \in Seq(Int)
      PROVE  (s \o t) \o u = s \o (t \o u)
  OBVIOUS
<1>2. \A s, t \in Seq(Int) : s \o t \in Seq(Int)
  OBVIOUS
<1>3. \A s \in Seq(Int) : s \o <<>> = s /\ <<>> \o s = s
  OBVIOUS
<1>4. (\A x \in Int : <<x>> \in Seq(Int)) /\ <<>> \in Seq(Int)
  OBVIOUS
<1>5. QED
  <2>1. \A s, t, u \in Seq(Int) : (s \o t) \o u = s \o (t \o u)
    BY <1>1
  <2>2. \A s, t, u : Line(s) /\ Line(t) /\ Line(u) => Cat(Cat(s, t), u) = Cat(s, Cat(t, u))
    BY <2>1, Zenon DEF Line, Cat
  <2>3. \A s, t : Line(s) /\ Line(t) => Line(Cat(s, t))
    BY <1>2, Zenon DEF Line, Cat
  <2>4. \A s : Line(s) => Cat(s, None) = s /\ Cat(None, s) = s
    BY <1>3, Zenon DEF Line, Cat, None
  <2>5. (\A x \in Int : Line(Single(x))) /\ Line(None)
    BY <1>4, Zenon DEF Line, Single, None
  <2>6. QED
    BY <2>2, <2>3, <2>4, <2>5

\* A packet goes from one part to the next one.
LEMMA LineMoves ==
  ASSUME NEW a, NEW b, NEW c, NEW d, NEW f, NEW s, NEW t,
         Line(a), Line(b), Line(c), Line(d), Line(f), Line(s), Line(t)
  PROVE  /\ InLine(a, b, c, None, Cat(s, f)) = InLine(a, b, c, s, f)
         /\ InLine(a, None, Cat(s, c), d, f) = InLine(a, s, c, d, f)
         /\ InLine(a, None, Cat(s, c), t, f) = InLine(a, s, Cat(c, t), None, f)
         /\ InLine(a, b, c, t, f) = InLine(a, b, Cat(c, t), None, f)
         /\ InLine(a, None, None, t, f) = InLine(a, t, None, None, f)
         /\ InLine(a, t, c, d, f) = InLine(Cat(a, t), None, c, d, f)
<1>1. InLine(a, b, c, None, Cat(s, f)) = InLine(a, b, c, s, f)
  BY CatRules DEF InLine
<1>2. InLine(a, None, Cat(s, c), d, f) = InLine(a, s, c, d, f)
  BY CatRules DEF InLine
<1>3. InLine(a, s, c, t, f) = InLine(a, s, Cat(c, t), None, f)
  BY CatRules DEF InLine
<1>4. InLine(a, b, c, t, f) = InLine(a, b, Cat(c, t), None, f)
  BY CatRules DEF InLine
<1>5. InLine(a, None, None, t, f) = InLine(a, t, None, None, f)
  BY CatRules DEF InLine
<1>6. InLine(a, t, c, d, f) = InLine(Cat(a, t), None, c, d, f)
  BY CatRules DEF InLine
<1>7. InLine(a, None, Cat(s, c), t, f) = InLine(a, s, c, t, f)
  BY CatRules DEF InLine
<1>8. QED
  BY <1>1, <1>2, <1>3, <1>4, <1>5, <1>6, <1>7

\* A packet comes at one end or goes at the other.
LEMMA LineGrows ==
  ASSUME NEW a, NEW b, NEW c, NEW d, NEW f, NEW s,
         Line(a), Line(b), Line(c), Line(d), Line(f), Line(s)
  PROVE  /\ InLine(a, b, c, d, Cat(f, s)) = Cat(InLine(a, b, c, d, f), s)
         /\ Line(InLine(a, b, c, d, f))
BY CatRules DEF InLine

LEMMA LineStarts ==
  ASSUME NEW a, NEW b, NEW c, NEW s, Line(a), Line(b), Line(c), Line(s)
  PROVE  /\ InLine(a, b, c, s, None) = Cat(InLine(a, b, c, None, None), s)
         /\ Line(InLine(a, b, c, None, None))
BY CatRules DEF InLine

LEMMA LineGives ==
  ASSUME NEW a, NEW b, NEW c, NEW d, NEW f, NEW s,
         Line(a), Line(b), Line(c), Line(d), Line(f), Line(s)
  PROVE  /\ InLine(Cat(s, a), b, c, d, f) = Cat(s, InLine(a, b, c, d, f))
         /\ Line(InLine(a, b, c, d, f))
<1>1. Cat(Cat(s, a), b) = Cat(s, Cat(a, b)) /\ Line(Cat(a, b))
  BY CatRules
<1>2. /\ Cat(Cat(s, Cat(a, b)), c) = Cat(s, Cat(Cat(a, b), c))
      /\ Line(Cat(Cat(a, b), c))
  BY <1>1, CatRules
<1>3. /\ Cat(Cat(s, Cat(Cat(a, b), c)), d) = Cat(s, Cat(Cat(Cat(a, b), c), d))
      /\ Line(Cat(Cat(Cat(a, b), c), d))
  BY <1>2, CatRules
<1>4. QED
  BY <1>1, <1>2, <1>3, CatRules DEF InLine

-----------------------------------------------------------------------------
\* The packets of a queue and the one a task carries, before and after a step.

Through(Q, C) == [i \in DOMAIN Q |-> C[Q[i]]]
Longer(Q, b) == Append(Q, b)
Shorter(Q) == Tail(Q)

LEMMA Parcel ==
  ASSUME NEW D, NEW Q \in Seq(D), NEW C \in [D -> Int],
         NEW s, s = Through(Q, C)
  PROVE  /\ Line(s) /\ Len(s) = Len(Q)
         /\ Q = <<>> => s = None
<1>1. DOMAIN Q = 1 .. Len(Q) /\ \A i \in 1 .. Len(Q) : Q[i] \in D
  OBVIOUS
<1>2. s \in [1 .. Len(Q) -> Int] /\ Len(Q) \in Nat
  BY <1>1 DEF Through
<1>3. s \in Seq(Int) /\ Len(s) = Len(Q)
  BY <1>2
<1>4. Q = <<>> => s = <<>>
  BY <1>3
<1>5. QED
  BY <1>3, <1>4 DEF Line, None

LEMMA ParcelGrows ==
  ASSUME NEW D, NEW Q \in Seq(D), NEW C \in [D -> Int], NEW b \in D, NEW R, R = Longer(Q, b),
         NEW s, s = Through(Q, C), NEW t, t = Through(R, C)
  PROVE  t = Cat(s, Single(C[b]))
<1>0. R = Append(Q, b)
  BY DEF Longer
<1>1. R \in Seq(D)
  BY <1>0
<1>2. s \in Seq(Int) /\ Len(s) = Len(Q) /\ t \in Seq(Int) /\ Len(t) = Len(R)
  BY <1>1, Parcel DEF Line
<1>3. Len(R) = Len(Q) + 1 /\ Len(Q) \in Nat
  BY <1>0
<1>4. \A i \in 1 .. Len(R) : R[i] = IF i = Len(Q) + 1 THEN b ELSE Q[i]
  BY <1>0
<1>5. PICK x : x = C[b] /\ x \in Int
  OBVIOUS
<1>6. PICK v : v = s \o <<x>>
  OBVIOUS
<1>7. /\ v \in Seq(Int) /\ Len(v) = Len(Q) + 1
      /\ \A i \in 1 .. Len(v) : v[i] = IF i = Len(Q) + 1 THEN x ELSE s[i]
  BY <1>2, <1>3, <1>5, <1>6
<1>8. \A i \in 1 .. Len(R) : t[i] = v[i]
  <2>1. DOMAIN R = 1 .. Len(R) /\ DOMAIN Q = 1 .. Len(Q)
    BY <1>1
  <2>2. ASSUME NEW i \in 1 .. Len(R)
        PROVE  t[i] = v[i]
    <3>1. t[i] = C[R[i]]
      BY <2>1 DEF Through
    <3>2. CASE i = Len(Q) + 1
      BY <1>3, <1>4, <1>5, <1>7, <3>1, <3>2
    <3>3. CASE i # Len(Q) + 1
      <4>1. i \in 1 .. Len(Q)
        BY <1>3, <3>3
      <4>2. s[i] = C[Q[i]]
        BY <2>1, <4>1 DEF Through
      <4>3. QED
        BY <1>3, <1>4, <1>7, <3>1, <3>3, <4>2
    <3>4. QED
      BY <3>2, <3>3
  <2>3. QED
    BY <2>2
<1>9. t = v
  BY <1>2, <1>3, <1>7, <1>8
<1>10. QED
  BY <1>5, <1>6, <1>9 DEF Cat, Single

LEMMA ParcelShrinks ==
  ASSUME NEW D, NEW Q \in Seq(D), NEW C \in [D -> Int], Q # <<>>, NEW R, R = Shorter(Q),
         NEW s, s = Through(Q, C), NEW t, t = Through(R, C)
  PROVE  s = Cat(Single(C[Head(Q)]), t)
<1>0. R = Tail(Q)
  BY DEF Shorter
<1>1. R \in Seq(D) /\ Head(Q) \in D /\ Head(Q) = Q[1]
  BY <1>0
<1>2. s \in Seq(Int) /\ Len(s) = Len(Q) /\ t \in Seq(Int) /\ Len(t) = Len(R)
  BY <1>1, Parcel DEF Line
<1>3. Len(Q) = Len(R) + 1 /\ Len(R) \in Nat
  BY <1>0
<1>4. \A i \in 1 .. Len(R) : R[i] = Q[i + 1]
  BY <1>0
<1>5. PICK x : x = C[Head(Q)] /\ x \in Int
  BY <1>1
<1>6. PICK v : v = <<x>> \o t
  OBVIOUS
<1>7. /\ v \in Seq(Int) /\ Len(v) = Len(R) + 1
      /\ \A i \in 1 .. Len(v) : v[i] = IF i = 1 THEN x ELSE t[i - 1]
  BY <1>2, <1>3, <1>5, <1>6
<1>8. \A i \in 1 .. Len(Q) : s[i] = v[i]
  <2>1. DOMAIN R = 1 .. Len(R) /\ DOMAIN Q = 1 .. Len(Q)
    BY <1>1
  <2>2. ASSUME NEW i \in 1 .. Len(Q)
        PROVE  s[i] = v[i]
    <3>1. s[i] = C[Q[i]]
      BY <2>1 DEF Through
    <3>2. CASE i = 1
      BY <1>1, <1>3, <1>5, <1>7, <3>1, <3>2
    <3>3. CASE i # 1
      <4>1. i - 1 \in 1 .. Len(R) /\ (i - 1) + 1 = i
        BY <1>3, <3>3
      <4>2. t[i - 1] = C[R[i - 1]] /\ R[i - 1] = Q[i]
        BY <1>4, <2>1, <4>1 DEF Through
      <4>3. v[i] = t[i - 1]
        BY <1>3, <1>7, <3>3
      <4>4. QED
        BY <3>1, <4>2, <4>3
    <3>4. QED
      BY <3>2, <3>3
  <2>3. QED
    BY <2>2
<1>9. s = v
  BY <1>2, <1>3, <1>7, <1>8
<1>10. QED
  BY <1>5, <1>6, <1>9 DEF Cat, Single

\* The contents of the blocks in the queue stay.
Legible(q) == \A i \in 1 .. Len(queue[q]) : content'[q][queue[q][i]] = content[q][queue[q][i]]

LEMMA PacketsLine ==
  ASSUME BlocksInv, DataInv, NEW q \in Buffer
  PROVE  /\ Line(Packets(q)) /\ (queue[q] = <<>> => Packets(q) = None)
         /\ queue[q] \in Seq(Block(q)) /\ content[q] \in [Block(q) -> Int]
<1>1. PICK Q, C : Q = queue[q] /\ C = content[q]
  OBVIOUS
<1>2. Q \in Seq(Block(q)) /\ C \in [Block(q) -> Int]
  BY <1>1, Places DEF DataInv
<1>3. PICK s : s = Through(Q, C)
  OBVIOUS
<1>4. Line(s) /\ (Q = <<>> => s = None)
  BY <1>2, <1>3, Parcel
<1>5. Packets(q) = s
  BY <1>1, <1>3 DEF Packets, Through
<1>6. QED
  BY <1>1, <1>2, <1>4, <1>5

LEMMA PacketsSame ==
  ASSUME BlocksInv, NEW q \in Buffer, queue'[q] = queue[q], Legible(q)
  PROVE  Packets(q)' = Packets(q)
<1>1. PICK Q : Q = queue[q] /\ Q \in Seq(Block(q))
  BY Places
<1>2. DOMAIN Q = 1 .. Len(Q)
  BY <1>1
<1>3. PICK C, D : C = content[q] /\ D = content'[q]
  OBVIOUS
<1>4. \A i \in DOMAIN Q : D[Q[i]] = C[Q[i]]
  BY <1>1, <1>2, <1>3 DEF Legible
<1>5. Through(Q, D) = Through(Q, C)
  BY <1>4 DEF Through
<1>6. /\ Packets(q) = Through(Q, C)
      /\ Packets(q)' = Through(Q, D)
  BY <1>1, <1>3 DEF Packets, Through
<1>7. QED
  BY <1>5, <1>6

LEMMA SameContent == ASSUME content' = content, NEW q
                    PROVE  Legible(q) /\ content'[q] = content[q]
BY DEF Legible

\* A block comes into the queue.
LEMMA PacketsGrow ==
  ASSUME BlocksInv, DataInv, NEW q \in Buffer, NEW b \in Block(q), Legible(q),
         queue' = Appended(queue, q, b), content'[q] \in [Block(q) -> Int]
  PROVE  Packets(q)' = Cat(Packets(q), Single(content'[q][b]))
<1>1. PICK Q, C, D : Q = queue[q] /\ C = content[q] /\ D = content'[q]
  OBVIOUS
<1>2. Q \in Seq(Block(q)) /\ C \in [Block(q) -> Int] /\ D \in [Block(q) -> Int]
  BY <1>1, Places DEF DataInv
<1>3. PICK R : R = Longer(Q, b)
  OBVIOUS
<1>4. queue'[q] = R
  BY <1>1, <1>3, QueueOps DEF Longer
<1>5. PICK s, t : s = Through(Q, D) /\ t = Through(R, D)
  OBVIOUS
<1>6. t = Cat(s, Single(D[b]))
  <2>1. PICK B : B = Block(q)
    OBVIOUS
  <2>2. /\ Q \in Seq(B) /\ D \in [B -> Int] /\ b \in B
        /\ R = Longer(Q, b) /\ s = Through(Q, D) /\ t = Through(R, D)
    BY <1>2, <1>3, <1>5, <2>1
  <2>3. QED
    BY ONLY <2>2, ParcelGrows
<1>7. Packets(q)' = t
  BY <1>1, <1>4, <1>5 DEF Packets, Through
<1>8. Packets(q) = s
  <2>1. DOMAIN Q = 1 .. Len(Q)
    BY <1>2
  <2>2. \A i \in DOMAIN Q : D[Q[i]] = C[Q[i]]
    BY <1>1, <2>1 DEF Legible
  <2>3. Through(Q, C) = s
    BY <1>5, <2>2 DEF Through
  <2>4. QED
    BY <1>1, <2>3 DEF Packets, Through
<1>9. QED
  BY <1>1, <1>6, <1>7, <1>8

\* The head leaves the queue.
LEMMA PacketsShrink ==
  ASSUME BlocksInv, DataInv, NEW q \in Buffer, queue[q] # <<>>, content' = content,
         queue' = Headless(queue, q)
  PROVE  /\ Packets(q) = Cat(Single(content[q][Head(queue[q])]), Packets(q)')
         /\ Line(Packets(q)')
<1>1. PICK Q, C, R : Q = queue[q] /\ C = content[q] /\ R = Shorter(Q)
  OBVIOUS
<1>2. Q \in Seq(Block(q)) /\ C \in [Block(q) -> Int]
  BY <1>1, Places DEF DataInv
<1>3. queue'[q] = R
  BY <1>1, QueueOps DEF Shorter
<1>4. PICK s, t : s = Through(Q, C) /\ t = Through(R, C)
  OBVIOUS
<1>5. s = Cat(Single(C[Head(Q)]), t)
  BY <1>1, <1>2, <1>4, ParcelShrinks
<1>6. Line(t)
  <2>1. R \in Seq(Block(q))
    BY <1>1, <1>2 DEF Shorter
  <2>2. QED
    BY <1>2, <1>4, <2>1, Parcel
<1>7. Packets(q) = s /\ Packets(q)' = t
  BY <1>1, <1>3, <1>4 DEF Packets, Through
<1>8. QED
  BY <1>1, <1>5, <1>6, <1>7

\* The head leaves the queue and another block comes into it.
LEMMA PacketsTurn ==
  ASSUME BlocksInv, DataInv, NEW q \in Buffer, queue[q] # <<>>, content' = content,
         NEW b \in Block(q), queue' = Appended(Headless(queue, q), q, b)
  PROVE  \E T : /\ Line(T) /\ Packets(q) = Cat(Single(content[q][Head(queue[q])]), T)
                /\ Packets(q)' = Cat(T, Single(content[q][b]))
<1>1. PICK Q, C, R, S : Q = queue[q] /\ C = content[q] /\ R = Shorter(Q) /\ S = Longer(R, b)
  OBVIOUS
<1>2. Q \in Seq(Block(q)) /\ C \in [Block(q) -> Int]
  BY <1>1, Places DEF DataInv
<1>3. queue'[q] = S
  BY <1>1, QueueOps DEF Longer, Shorter
<1>4. R \in Seq(Block(q))
  BY <1>1, <1>2 DEF Shorter
<1>5. PICK s, t, u : /\ s = Through(Q, C) /\ t = Through(R, C)
                     /\ u = Through(S, C)
  OBVIOUS
<1>6. s = Cat(Single(C[Head(Q)]), t)
  BY <1>1, <1>2, <1>5, ParcelShrinks
<1>7. Line(t)
  BY <1>2, <1>4, <1>5, Parcel
<1>8. u = Cat(t, Single(C[b]))
  BY <1>1, <1>2, <1>4, <1>5, ParcelGrows
<1>9. Packets(q) = s /\ Packets(q)' = u
  BY <1>1, <1>3, <1>5 DEF Packets, Through
<1>10. QED
  BY <1>1, <1>6, <1>7, <1>8, <1>9

\* The loop: which task is at which end of which buffer.
LEMMA Loop ==
  /\ {"EP2RX", "EPExch", "EP5TX", "EP5RX", "EP2TX"} \subseteq Buffer
  /\ {"ep5_tx", "ep2_rx", "ep5_rx", "ep2_tx"} \subseteq Task
  /\ Source["ep5_tx"] = "EPExch" /\ Target["ep5_tx"] = "EP5TX"
  /\ Source["ep2_rx"] = "EP2RX" /\ Target["ep2_rx"] = "EPExch"
  /\ Source["ep5_rx"] = "EP5RX" /\ Target["ep5_rx"] = NoBuffer
  /\ Source["ep2_tx"] = NoBuffer /\ Target["ep2_tx"] = "EP2TX"
  /\ Receiver("EPExch") = "ep5_tx" /\ Sender("EPExch") = "ep2_rx"
  /\ Receiver("EP2RX") = "ep2_rx" /\ Sender("EP5TX") = "ep5_tx"
  /\ Receiver("EP5RX") = "ep5_rx" /\ Sender("EP2TX") = "ep2_tx"
  /\ "EP2RX" \notin SendBuf /\ "EP5RX" \notin SendBuf
  /\ "EP5TX" \notin RecvBuf /\ "EP2TX" \notin RecvBuf
BY TaskNames DEF Buffer, SendBuf, RecvBuf, Source, Target, Sender, Receiver

LEMMA CarriedIs ==
  ASSUME NEW t
  PROVE  /\ task[t].at \in {"get", "copy"} => Carried(t) = Single(content[Source[t]][task[t].ptr1])
         /\ task[t].at = "send" => Carried(t) = Single(content[Target[t]][task[t].ptr])
         /\ task[t].at \in {"receive", "release"} => Carried(t) = None
BY DEF Carried, Single, None

LEMMA CarriedWill ==
  ASSUME NEW t
  PROVE  /\ task'[t].at \in {"get", "copy"} =>
              Carried(t)' = Single(content'[Source[t]][task'[t].ptr1])
         /\ task'[t].at = "send" => Carried(t)' = Single(content'[Target[t]][task'[t].ptr])
         /\ task'[t].at \in {"receive", "release"} => Carried(t)' = None
BY DEF Carried, Single, None

\* A task that waits on, or gets the block to copy to, or has no packet left.
Keeps(t) == \/ SameTask(t)
            \/ task[t].at = "get" /\ task'[t].at = "copy" /\ task'[t].ptr1 = task[t].ptr1
            \/ task[t].at = "release" /\ task'[t].at = "receive"

LEMMA CarriedSame ==
  ASSUME BlocksInv, content' = content, NEW t \in Task, Keeps(t)
  PROVE  Carried(t)' = Carried(t)
<1>1. task[t].at \in Place
  BY TheBuffers DEF TaskRecord
<1>2. CASE SameTask(t)
  BY <1>1, <1>2, CarriedIs, CarriedWill DEF SameTask, Place
<1>3. CASE task[t].at = "get" /\ task'[t].at = "copy" /\ task'[t].ptr1 = task[t].ptr1
  BY <1>3, CarriedIs, CarriedWill
<1>4. CASE task[t].at = "release" /\ task'[t].at = "receive"
  BY <1>4, CarriedIs, CarriedWill
<1>5. QED
  BY <1>2, <1>3, <1>4 DEF Keeps

LEMMA CarriedLine ==
  ASSUME BlocksInv, DataInv, NEW t \in {"ep5_tx", "ep2_rx"}
  PROVE  Line(Carried(t))
<1>1. PICK p, q : p = Source[t] /\ q = Target[t] /\ p \in Buffer /\ q \in Buffer
  BY Loop
<1>2. t \in Task /\ task[t].at \in Place
  BY Loop, TheBuffers DEF TaskRecord
<1>3. content[p] \in [Block(p) -> Int] /\ content[q] \in [Block(q) -> Int]
  BY <1>1 DEF DataInv
<1>4. /\ task[t].at # "receive" => task[t].ptr1 \in Block(p)
      /\ task[t].at \in {"copy", "send"} => task[t].ptr \in Block(q)
  BY <1>1, <1>2, Hold
<1>5. CASE task[t].at \in {"get", "copy"}
  <2>1. content[p][task[t].ptr1] \in Int
    BY <1>3, <1>4, <1>5
  <2>2. QED
    BY <1>1, <1>5, <2>1, CarriedIs, CatRules
<1>6. CASE task[t].at = "send"
  <2>1. content[q][task[t].ptr] \in Int
    BY <1>3, <1>4, <1>6
  <2>2. QED
    BY <1>1, <1>6, <2>1, CarriedIs, CatRules
<1>7. CASE task[t].at \in {"receive", "release"}
  BY <1>7, CarriedIs, CatRules
<1>8. QED
  BY <1>2, <1>5, <1>6, <1>7 DEF Place

-----------------------------------------------------------------------------
\* The refinement of EchoLine, action by action.

LEMMA Whole ==
  /\ OnTheWay = InLine(Packets("EP5TX"), Carried("ep5_tx"), Packets("EPExch"),
                       Carried("ep2_rx"), Packets("EP2RX"))
  /\ OnTheWay' = InLine(Packets("EP5TX")', Carried("ep5_tx")', Packets("EPExch")',
                        Carried("ep2_rx")', Packets("EP2RX")')
BY DEF OnTheWay, InLine, Cat

LEMMA PartLines ==
  ASSUME BlocksInv, DataInv
  PROVE  /\ Line(Packets("EP5TX")) /\ Line(Carried("ep5_tx")) /\ Line(Packets("EPExch"))
         /\ Line(Carried("ep2_rx")) /\ Line(Packets("EP2RX"))
BY PacketsLine, CarriedLine, Loop

LEMMA SamePackets ==
  ASSUME BlocksInv, NEW q \in Buffer, queue'[q] = queue[q], content' = content
  PROVE  Packets(q)' = Packets(q)
BY SameContent, PacketsSame

\* The parts but those of S stay as they are.
KeepsQueues(S) == \A q \in {"EP5TX", "EPExch", "EP2RX"} \ S : Packets(q)' = Packets(q)
KeepsTasks(S) == \A t \in {"ep5_tx", "ep2_rx"} \ S : Carried(t)' = Carried(t)

LEMMA AllKept ==
  ASSUME KeepsQueues({}), KeepsTasks({})
  PROVE  OnTheWay' = OnTheWay
BY Whole DEF KeepsQueues, KeepsTasks

\* The other queues and the tasks that neither wait nor run.
LEMMA OthersKept ==
  ASSUME BlocksInv, content' = content, NEW M, Rest(M), NEW q \in Buffer, NEW b,
         queue' \in {queue, Headless(queue, q), Appended(queue, q, b),
                     Appended(Headless(queue, q), q, b)}
  PROVE  KeepsQueues({q}) /\ KeepsTasks(M) /\ (queue' = queue => KeepsQueues({}))
<1>1. ASSUME NEW p \in {"EP5TX", "EPExch", "EP2RX"}, p # q \/ queue' = queue
      PROVE  Packets(p)' = Packets(p)
  <2>1. p \in Buffer
    BY Loop
  <2>2. queue'[p] = queue[p]
    BY <1>1, <2>1, QueueOps
  <2>3. QED
    BY <2>1, <2>2, SamePackets
<1>2. ASSUME NEW t \in {"ep5_tx", "ep2_rx"}, t \notin M
      PROVE  Carried(t)' = Carried(t)
  <2>1. t \in Task
    BY Loop
  <2>2. Keeps(t)
    BY <1>2, <2>1, RestSame DEF Keeps
  <2>3. QED
    BY <2>1, <2>2, CarriedSame
<1>3. QED
  BY <1>1, <1>2 DEF KeepsQueues, KeepsTasks

LEMMA StaysEcho ==
  ASSUME BlocksInv, content' = content, NEW t \in Task, Stays(t)
  PROVE  OnTheWay' = OnTheWay
<1>1. KeepsQueues({})
  BY StaysSame, SamePackets, Loop DEF KeepsQueues
<1>2. KeepsTasks({})
  <2>1. ASSUME NEW u \in {"ep5_tx", "ep2_rx"}
        PROVE  Carried(u)' = Carried(u)
    <3>1. u \in Task
      BY Loop
    <3>2. Keeps(u)
      BY <3>1, StaysSame DEF Keeps
    <3>3. QED
      BY <3>1, <3>2, CarriedSame
  <2>2. QED
    BY <2>1 DEF KeepsTasks
<1>3. QED
  BY <1>1, <1>2, AllKept

LEMMA ReceiveEcho ==
  ASSUME BlocksInv, DataInv, NEW t \in Task, tn_queue_receive(t)
  PROVE  OnTheWay' = OnTheWay
<1>1. task[t].at = "receive" /\ content' = content
  BY DEF tn_queue_receive, At
<1>2. PICK q \in Buffer : q = Source[t]
  BY <1>1, TheBuffers, HasSource
<1>3. CASE Stays(t)
  BY <1>1, <1>3, StaysEcho
<1>4. CASE ~Stays(t)
  <2>1. PICK x, s : x = content[q][Head(queue[q])] /\ s = Sender(q)
    OBVIOUS
  <2>2. queue[q] # <<>> /\ Moves(t, Head(queue[q]), task[t].ptr)
    BY <1>2, <1>4, ReceiveEffect
  <2>3. Carried(t) = None /\ (t # "ep5_rx" => Carried(t)' = Single(x))
    <3>1. Carried(t) = None
      BY <1>1, CarriedIs
    <3>2. ASSUME t # "ep5_rx"
          PROVE  Carried(t)' = Single(x)
      <4>1. Target[t] # NoBuffer
        BY <3>2, TaskNames, Wiring DEF NoBuffer
      <4>2. task'[t].at = "get" /\ task'[t].ptr1 = Head(queue[q])
        BY <1>1, <2>2, <4>1 DEF Moves, After
      <4>3. QED
        BY <1>1, <1>2, <2>1, <4>2, CarriedWill
    <3>3. QED
      BY <3>1, <3>2
  <2>4. CASE ~SendWaits(task, q, "send")
    <3>1. queue' = Headless(queue, q) /\ Rest({t})
      BY <1>2, <1>4, <2>4, ReceiveEffect
    <3>2. KeepsQueues({q}) /\ KeepsTasks({t})
      BY <1>1, <3>1, OthersKept
    <3>3. Packets(q) = Cat(Single(x), Packets(q)') /\ Line(Packets(q)')
      BY <1>1, <2>1, <2>2, <3>1, PacketsShrink
    <3>4. Line(Single(x))
      BY <1>1, <1>2, <2>1, <2>2, PacketsLine, CatRules
    <3>5. CASE t = "ep5_rx"
      BY <1>2, <3>2, <3>5, Loop, AllKept DEF KeepsQueues, KeepsTasks
    <3>6. CASE t = "ep2_rx"
      <4>1. q = "EP2RX"
        BY <1>2, <3>6, Loop
      <4>2. /\ Packets("EP5TX")' = Packets("EP5TX") /\ Packets("EPExch")' = Packets("EPExch")
            /\ Carried("ep5_tx")' = Carried("ep5_tx")
        BY <3>2, <3>6, <4>1 DEF KeepsQueues, KeepsTasks
      <4>3. PICK a, b, c, f : /\ a = Packets("EP5TX") /\ b = Carried("ep5_tx")
                              /\ c = Packets("EPExch") /\ f = Packets(q)'
        OBVIOUS
      <4>4. /\ OnTheWay = InLine(a, b, c, None, Cat(Single(x), f))
            /\ OnTheWay' = InLine(a, b, c, Single(x), f)
        BY <2>3, <3>3, <3>6, <4>1, <4>2, <4>3, Whole
      <4>5. InLine(a, b, c, None, Cat(Single(x), f)) = InLine(a, b, c, Single(x), f)
        BY <3>3, <3>4, <4>3, PartLines, LineMoves
      <4>6. QED
        BY <4>4, <4>5
    <3>7. CASE t = "ep5_tx"
      <4>1. q = "EPExch"
        BY <1>2, <3>7, Loop
      <4>2. /\ Packets("EP5TX")' = Packets("EP5TX") /\ Packets("EP2RX")' = Packets("EP2RX")
            /\ Carried("ep2_rx")' = Carried("ep2_rx")
        BY <3>2, <3>7, <4>1 DEF KeepsQueues, KeepsTasks
      <4>3. PICK a, c, d, f : /\ a = Packets("EP5TX") /\ d = Carried("ep2_rx")
                              /\ c = Packets(q)' /\ f = Packets("EP2RX")
        OBVIOUS
      <4>4. /\ OnTheWay = InLine(a, None, Cat(Single(x), c), d, f)
            /\ OnTheWay' = InLine(a, Single(x), c, d, f)
        BY <2>3, <3>3, <3>7, <4>1, <4>2, <4>3, Whole
      <4>5. InLine(a, None, Cat(Single(x), c), d, f) = InLine(a, Single(x), c, d, f)
        BY <3>3, <3>4, <4>3, PartLines, LineMoves
      <4>6. QED
        BY <4>4, <4>5
    <3>8. t # "ep2_tx"
      BY <1>2, Loop, Ends
    <3>9. QED
      BY <3>5, <3>6, <3>7, <3>8, TaskNames
  <2>5. CASE SendWaits(task, q, "send")
    <3>1. /\ queue' = Appended(Headless(queue, q), q, task[s].ptr) /\ s # t
          /\ Moves(s, task[s].ptr1, task[s].ptr) /\ Rest({s, t})
      BY <1>2, <1>4, <2>1, <2>5, ReceiveEffect
    <3>2. t = "ep5_tx" /\ q = "EPExch" /\ s = "ep2_rx"
      <4>1. q \in SendBuf /\ t # "ep2_tx"
        BY <1>2, <2>5, Loop, Ends DEF SendWaits
      <4>2. t # "ep5_rx" /\ t # "ep2_rx"
        BY <1>2, <4>1, Loop
      <4>3. QED
        BY <1>2, <2>1, <4>1, <4>2, Loop, TaskNames
    <3>3. task[s].at = "send" /\ task[s].ptr \in Block(q)
      <4>1. task[s].at = "send"
        BY <2>1, <2>5 DEF SendWaits
      <4>2. QED
        BY <3>2, <4>1, Loop, Hold
    <3>4. PICK h, y : h = task[s].ptr /\ y = content[q][h]
      OBVIOUS
    <3>5. Line(Single(x)) /\ Line(Single(y))
      BY <1>1, <1>2, <2>1, <2>2, <3>3, <3>4, PacketsLine, CatRules
    <3>6. PICK T : /\ Line(T) /\ Packets(q) = Cat(Single(x), T)
                   /\ Packets(q)' = Cat(T, Single(y))
      BY <1>1, <2>1, <2>2, <3>1, <3>3, <3>4, PacketsTurn
    <3>7. Carried(s) = Single(y) /\ Carried(s)' = None
      <4>1. task'[s].at = "release"
        BY <3>1, <3>2, <3>3, Loop DEF Moves, After, NoBuffer
      <4>2. QED
        BY <3>2, <3>3, <3>4, <4>1, Loop, CarriedIs, CarriedWill
    <3>8. KeepsQueues({q}) /\ KeepsTasks({s, t})
      BY <1>1, <3>1, <3>4, OthersKept
    <3>9. Packets("EP5TX")' = Packets("EP5TX") /\ Packets("EP2RX")' = Packets("EP2RX")
      BY <3>2, <3>8 DEF KeepsQueues
    <3>10. PICK a, f : a = Packets("EP5TX") /\ f = Packets("EP2RX")
      OBVIOUS
    <3>11. /\ OnTheWay = InLine(a, None, Cat(Single(x), T), Single(y), f)
           /\ OnTheWay' = InLine(a, Single(x), Cat(T, Single(y)), None, f)
      BY <2>3, <3>2, <3>6, <3>7, <3>9, <3>10, Whole
    <3>12. InLine(a, None, Cat(Single(x), T), Single(y), f)
             = InLine(a, Single(x), Cat(T, Single(y)), None, f)
      BY <3>5, <3>6, <3>10, PartLines, LineMoves
    <3>13. QED
      BY <3>11, <3>12
  <2>6. QED
    BY <2>4, <2>5
<1>5. QED
  BY <1>3, <1>4

LEMMA GetEcho ==
  ASSUME BlocksInv, NEW t \in Task, tn_fmem_get(t)
  PROVE  OnTheWay' = OnTheWay
<1>1. task[t].at = "get" /\ content' = content
  BY DEF tn_fmem_get, At
<1>2. CASE Stays(t)
  BY <1>1, <1>2, StaysEcho
<1>3. CASE ~Stays(t)
  <2>1. /\ queue' = queue /\ Rest({t}) /\ task'[t].at = "copy"
        /\ task'[t].ptr1 = task[t].ptr1
    BY <1>1, <1>3, GetEffect DEF Moves, After
  <2>2. KeepsQueues({}) /\ KeepsTasks({t})
    <3>1. PICK b : b = NoBlock
      OBVIOUS
    <3>2. QED
      BY <1>1, <2>1, <3>1, Loop, OthersKept
  <2>3. Carried(t)' = Carried(t)
    BY <1>1, <2>1, CarriedSame DEF Keeps
  <2>4. QED
    BY <2>2, <2>3, AllKept DEF KeepsTasks
<1>4. QED
  BY <1>2, <1>3

LEMMA ReleaseEcho ==
  ASSUME BlocksInv, NEW t \in Task, tn_fmem_release(t)
  PROVE  OnTheWay' = OnTheWay
<1>1. task[t].at = "release" /\ content' = content
  BY DEF tn_fmem_release, At
<1>2. PICK q \in Buffer : q = Source[t]
  BY <1>1, TheBuffers, HasSource
<1>3. PICK s : s = Sender(q)
  OBVIOUS
<1>4. queue' = queue /\ task'[t].at = "receive"
  BY <1>1, <1>2, ReleaseEffect DEF Moves, After
<1>5. Carried(t)' = Carried(t)
  BY <1>1, <1>4, CarriedSame DEF Keeps
<1>6. PICK b : b = NoBlock
  OBVIOUS
<1>7. CASE Rest({t})
  <2>1. KeepsQueues({}) /\ KeepsTasks({t})
    BY <1>1, <1>4, <1>6, <1>7, Loop, OthersKept
  <2>2. QED
    BY <1>5, <2>1, AllKept DEF KeepsTasks
<1>8. CASE /\ SendWaits(task, q, "get") /\ Rest({s, t}) /\ s # t
           /\ Moves(s, task[s].ptr1, task[t].ptr1)
  <2>1. s \in Task /\ task[s].at = "get"
    BY <1>3, <1>8, Ends DEF SendWaits
  <2>2. task'[s].at = "copy" /\ task'[s].ptr1 = task[s].ptr1
    BY <1>8, <2>1 DEF Moves, After
  <2>3. Carried(s)' = Carried(s)
    BY <1>1, <2>1, <2>2, CarriedSame DEF Keeps
  <2>4. KeepsQueues({}) /\ KeepsTasks({s, t})
    BY <1>1, <1>4, <1>6, <1>8, Loop, OthersKept
  <2>5. QED
    BY <1>5, <2>3, <2>4, AllKept DEF KeepsTasks
<1>9. QED
  BY <1>2, <1>3, <1>7, <1>8, ReleaseEffect

\* s_memcpy writes the packet the task carries to a block that is in no queue.
LEMMA CopyEcho ==
  ASSUME BlocksInv, DataInv, NEW t \in Task, Copy(t)
  PROVE  OnTheWay' = OnTheWay
<1>1. task[t].at = "copy"
  BY DEF Copy, At
<1>2. queue' = queue /\ Moves(t, task[t].ptr1, task[t].ptr) /\ Rest({t})
  BY CopyEffect
<1>3. PICK p \in Buffer : p = Target[t]
  BY <1>1, TheBuffers, HasTarget
<1>4. PICK b : b = task[t].ptr /\ b \in Block(p) /\ Y(task, p) = b /\ b # NoBlock
  BY <1>1, <1>3, Hold
<1>5. PICK v : Writes(p, b, v) /\ (Source[t] # NoBuffer => v = content[Source[t]][task[t].ptr1])
  BY <1>3, <1>4, CopyWrites DEF Copy
<1>6. KeepsQueues({})
  <2>1. ASSUME NEW q \in Buffer
        PROVE  Packets(q)' = Packets(q)
    <3>1. \A i \in 1 .. Len(queue[q]) : queue[q][i] \in Block(q) /\ queue[q][i] # Y(task, q)
      BY Places
    <3>2. Legible(q)
      BY <1>4, <1>5, <3>1 DEF Legible, Writes
    <3>3. QED
      BY <1>2, <3>2, PacketsSame
  <2>2. QED
    BY <2>1, Loop DEF KeepsQueues
<1>7. ASSUME NEW u \in {"ep5_tx", "ep2_rx"}, u # t
      PROVE  Carried(u)' = Carried(u)
  <2>1. u \in Task /\ task'[u] = task[u] /\ task[u].at \in Place
    BY <1>2, <1>7, Loop, TheBuffers DEF Rest, TaskRecord
  <2>2. PICK q \in Buffer : q = Source[u]
    BY <1>7, Loop
  <2>3. task[u].at # "receive" => content'[q][task[u].ptr1] = content[q][task[u].ptr1]
    <3>1. SUFFICES ASSUME task[u].at # "receive"
                   PROVE  content'[q][task[u].ptr1] = content[q][task[u].ptr1]
      OBVIOUS
    <3>2. /\ task[u].ptr1 \in Block(q) /\ X(task, q) = task[u].ptr1
          /\ X(task, q) # NoBlock
      BY <2>1, <2>2, <3>1, Hold
    <3>3. q = p => task[u].ptr1 # b
      BY <1>4, <3>2, Places
    <3>4. QED
      BY <1>5, <3>2, <3>3 DEF Writes
  <2>4. PICK r \in Buffer : r = Target[u]
    BY <1>7, Loop
  <2>5. r # p
    BY <1>3, <1>7, <2>1, <2>4, Ends
  <2>6. content'[r] = content[r]
    BY <1>5, <2>5 DEF Writes
  <2>7. CASE task[u].at \in {"get", "copy"}
    BY <2>1, <2>2, <2>3, <2>7, CarriedIs, CarriedWill
  <2>8. CASE task[u].at = "send"
    BY <2>1, <2>4, <2>6, <2>8, CarriedIs, CarriedWill
  <2>9. CASE task[u].at \in {"receive", "release"}
    BY <2>1, <2>9, CarriedIs, CarriedWill
  <2>10. QED
    BY <2>1, <2>7, <2>8, <2>9 DEF Place
<1>8. ASSUME t \in {"ep5_tx", "ep2_rx"}
      PROVE  Carried(t)' = Carried(t)
  <2>1. Source[t] # NoBuffer
    BY <1>8, Loop, Wiring
  <2>2. Carried(t) = Single(v)
    BY <1>1, <1>5, <2>1, CarriedIs
  <2>3. task'[t].at = "send" /\ task'[t].ptr = b
    BY <1>1, <1>2, <1>4 DEF Moves, After
  <2>4. content'[p][b] = v
    BY <1>5 DEF Writes
  <2>5. Carried(t)' = Single(v)
    BY <1>3, <2>3, <2>4, CarriedWill
  <2>6. QED
    BY <2>2, <2>5
<1>9. KeepsTasks({})
  BY <1>7, <1>8 DEF KeepsTasks
<1>10. QED
  BY <1>6, <1>9, AllKept

LEMMA SendEcho ==
  ASSUME BlocksInv, DataInv, WaitsEmpty, NEW t \in Task, tn_queue_send(t)
  PROVE  OnTheWay' = OnTheWay
<1>1. task[t].at = "send" /\ content' = content
  BY DEF tn_queue_send, At
<1>2. PICK q \in Buffer : q = Target[t]
  BY <1>1, TheBuffers, HasTarget
<1>3. CASE Stays(t)
  BY <1>1, <1>3, StaysEcho
<1>4. CASE ~Stays(t)
  <2>1. PICK h, y : h = task[t].ptr /\ y = content[q][h] /\ h \in Block(q)
    BY <1>1, <1>2, Hold
  <2>2. Line(Single(y))
    BY <1>2, <2>1, PacketsLine, CatRules
  <2>3. task'[t].at \in {"get", "release"} /\ (t # "ep2_tx" => task'[t].at = "release")
    <3>1. task'[t].at = After(t, "send")
      BY <1>1, <1>2, <1>4, SendEffect DEF Moves
    <3>2. t # "ep2_tx" => Source[t] # NoBuffer
      BY TaskNames, Wiring DEF NoBuffer
    <3>3. QED
      BY <3>1, <3>2 DEF After
  <2>4. t # "ep2_tx" => Carried(t) = Single(y) /\ Carried(t)' = None
    BY <1>1, <1>2, <2>1, <2>3, CarriedIs, CarriedWill
  <2>5. t # "ep5_rx"
    BY <1>2, Loop, Ends
  <2>6. CASE ~RecvWaits(task, q)
    <3>1. queue' = Appended(queue, q, h) /\ Rest({t})
      BY <1>2, <1>4, <2>1, <2>6, SendEffect
    <3>2. KeepsQueues({q}) /\ KeepsTasks({t})
      BY <1>1, <3>1, OthersKept
    <3>3. Packets(q)' = Cat(Packets(q), Single(y))
      <4>1. Legible(q) /\ content'[q] = content[q] /\ content[q] \in [Block(q) -> Int]
        BY <1>1, SameContent, PacketsLine
      <4>2. QED
        BY <2>1, <3>1, <4>1, PacketsGrow
    <3>4. CASE t = "ep2_tx"
      <4>1. q = "EP2TX"
        BY <1>2, <3>4, Loop
      <4>2. QED
        BY <3>2, <3>4, <4>1, AllKept DEF KeepsQueues, KeepsTasks
    <3>5. CASE t = "ep2_rx"
      <4>1. q = "EPExch"
        BY <1>2, <3>5, Loop
      <4>2. /\ Packets("EP5TX")' = Packets("EP5TX") /\ Packets("EP2RX")' = Packets("EP2RX")
            /\ Carried("ep5_tx")' = Carried("ep5_tx")
        BY <3>2, <3>5, <4>1 DEF KeepsQueues, KeepsTasks
      <4>3. PICK a, b, c, f : /\ a = Packets("EP5TX") /\ b = Carried("ep5_tx")
                              /\ c = Packets("EPExch") /\ f = Packets("EP2RX")
        OBVIOUS
      <4>4. /\ OnTheWay = InLine(a, b, c, Single(y), f)
            /\ OnTheWay' = InLine(a, b, Cat(c, Single(y)), None, f)
        BY <2>4, <3>3, <3>5, <4>1, <4>2, <4>3, Whole
      <4>5. InLine(a, b, c, Single(y), f) = InLine(a, b, Cat(c, Single(y)), None, f)
        <5>1. PICK s : s = Single(y)
          OBVIOUS
        <5>2. Line(a) /\ Line(b) /\ Line(c) /\ Line(s) /\ Line(f)
          BY <2>2, <4>3, <5>1, PartLines
        <5>3. InLine(a, b, c, s, f) = InLine(a, b, Cat(c, s), None, f)
          BY ONLY <5>2, LineMoves
        <5>4. QED
          BY <5>1, <5>3
      <4>6. QED
        BY <4>4, <4>5
    <3>6. CASE t = "ep5_tx"
      <4>1. q = "EP5TX"
        BY <1>2, <3>6, Loop
      <4>2. /\ Packets("EPExch")' = Packets("EPExch") /\ Packets("EP2RX")' = Packets("EP2RX")
            /\ Carried("ep2_rx")' = Carried("ep2_rx")
        BY <3>2, <3>6, <4>1 DEF KeepsQueues, KeepsTasks
      <4>3. PICK a, c, d, f : /\ a = Packets("EP5TX") /\ d = Carried("ep2_rx")
                              /\ c = Packets("EPExch") /\ f = Packets("EP2RX")
        OBVIOUS
      <4>4. /\ OnTheWay = InLine(a, Single(y), c, d, f)
            /\ OnTheWay' = InLine(Cat(a, Single(y)), None, c, d, f)
        BY <2>4, <3>3, <3>6, <4>1, <4>2, <4>3, Whole
      <4>5. InLine(a, Single(y), c, d, f) = InLine(Cat(a, Single(y)), None, c, d, f)
        <5>1. PICK s : s = Single(y)
          OBVIOUS
        <5>2. Line(a) /\ Line(s) /\ Line(c) /\ Line(d) /\ Line(f)
          BY <2>2, <4>3, <5>1, PartLines
        <5>3. InLine(a, s, c, d, f) = InLine(Cat(a, s), None, c, d, f)
          BY ONLY <5>2, LineMoves
        <5>4. QED
          BY <5>1, <5>3
      <4>6. QED
        BY <4>4, <4>5
    <3>7. QED
      BY <2>5, <3>4, <3>5, <3>6, TaskNames
  <2>7. CASE RecvWaits(task, q)
    <3>1. PICK s : s = Receiver(q)
      OBVIOUS
    <3>2. t = "ep2_rx" /\ q = "EPExch" /\ s = "ep5_tx"
      <4>1. q \in RecvBuf
        BY <2>7 DEF RecvWaits
      <4>2. t # "ep2_tx" /\ t # "ep5_tx"
        BY <1>2, <4>1, Loop
      <4>3. QED
        BY <1>2, <2>5, <3>1, <4>2, Loop, TaskNames
    <3>3. /\ queue' = queue /\ Rest({s, t}) /\ Moves(s, h, task[s].ptr)
          /\ task[s].at = "receive"
      BY <1>2, <1>4, <2>1, <2>7, <3>1, SendEffect DEF RecvWaits
    <3>4. Packets(q) = None
      BY <2>7, PacketsLine DEF WaitsEmpty
    <3>5. Carried(s) = None /\ Carried(s)' = Single(y)
      <4>1. task'[s].at = "get" /\ task'[s].ptr1 = h
        BY <3>2, <3>3, Loop, Wiring DEF Moves, After
      <4>2. Carried(s)' = Single(y)
        BY <1>1, <2>1, <3>2, <4>1, Loop, CarriedWill
      <4>3. QED
        BY <3>3, <4>2, CarriedIs
    <3>6. KeepsQueues({})
      BY <1>1, <3>3, OthersKept
    <3>7. PICK a, f : a = Packets("EP5TX") /\ f = Packets("EP2RX")
      OBVIOUS
    <3>8. /\ OnTheWay = InLine(a, None, None, Single(y), f)
          /\ OnTheWay' = InLine(a, Single(y), None, None, f)
      BY <2>4, <3>2, <3>4, <3>5, <3>6, <3>7, Whole DEF KeepsQueues
    <3>9. InLine(a, None, None, Single(y), f) = InLine(a, Single(y), None, None, f)
      BY <2>2, <3>7, PartLines, LineMoves
    <3>10. QED
      BY <3>8, <3>9
  <2>8. QED
    BY <2>6, <2>7
<1>5. QED
  BY <1>3, <1>4

\* What the host sees of the loop stays: no packet is taken or given back.
HostSame == /\ sent'["EP2RX"] = sent["EP2RX"] /\ dropped'["EP2RX"] = dropped["EP2RX"]
            /\ received'["EP5TX"].last = received["EP5TX"].last

LEMMA HostSees ==
  ASSUME OnTheWay' = OnTheWay, HostSame
  PROVE  [Echo!Next]_(Echo!vars)
BY DEF HostSame, Echo!vars

LEMMA LineAppend ==
  ASSUME NEW s, Line(s), NEW x \in Int
  PROVE  Cat(s, Single(x)) = Append(s, x)
BY DEF Line, Cat, Single

LEMMA LineHead ==
  ASSUME NEW s, Line(s), NEW x \in Int, NEW r, r = Cat(Single(x), s)
  PROVE  r # <<>> /\ Head(r) = x /\ Tail(r) = s
<1>1. s \in Seq(Int) /\ r = <<x>> \o s
  BY DEF Line, Cat, Single
<1>2. r \in Seq(Int) /\ Len(r) = 1 + Len(s) /\ Len(s) \in Nat /\ r[1] = x
      /\ \A i \in 1 .. Len(s) : r[i + 1] = s[i]
  BY <1>1
<1>3. r # <<>> /\ Head(r) = x
  BY <1>2
<1>4. PICK u : u = Tail(r)
  OBVIOUS
<1>5. u \in Seq(Int) /\ Len(u) = Len(s) /\ \A i \in 1 .. Len(s) : u[i] = s[i]
  <2>1. u \in Seq(Int) /\ Len(u) = Len(r) - 1 /\ \A i \in 1 .. Len(u) : u[i] = r[i + 1]
    BY <1>2, <1>3, <1>4
  <2>2. QED
    BY <1>2, <2>1
<1>6. u = s
  <2>1. PICK v : v = s /\ v \in Seq(Int)
    BY <1>1
  <2>2. u \in Seq(Int) /\ Len(u) = Len(v) /\ \A i \in 1 .. Len(u) : u[i] = v[i]
    BY <1>5, <2>1
  <2>3. u = v
    BY <2>1, <2>2
  <2>4. QED
    BY <2>1, <2>3
<1>7. QED
  BY <1>3, <1>4, <1>6

\* A queue in the line does not make it shorter.
LEMMA LineCovers ==
  ASSUME NEW a, NEW b, NEW c, NEW d, NEW f,
         Line(a), Line(b), Line(c), Line(d), Line(f)
  PROVE  Len(InLine(a, b, c, d, f)) >= Len(f)
<1>1. PICK g : g = Cat(Cat(Cat(a, b), c), d) /\ Line(g)
  BY CatRules
<1>2. Len(g \o f) = Len(g) + Len(f) /\ Len(g) \in Nat /\ Len(f) \in Nat
  BY <1>1 DEF Line
<1>3. QED
  BY <1>1, <1>2 DEF InLine, Cat

LEMMA PacketsLength ==
  ASSUME BlocksInv, DataInv, NEW q \in Buffer
  PROVE  Len(Packets(q)) = Len(queue[q])
<1>1. PICK Q : Q = queue[q] /\ Q \in Seq(Block(q))
  BY PacketsLine
<1>2. PICK n \in Nat : n = Len(Q) /\ DOMAIN Q = 1 .. n
  BY <1>1
<1>3. PICK s : s = Packets(q)
  OBVIOUS
<1>4. s \in Seq(Int) /\ DOMAIN s = 1 .. n
  BY <1>1, <1>2, <1>3, PacketsLine DEF Line, Packets
<1>5. Len(s) = n
  BY <1>2, <1>4
<1>6. QED
  BY <1>1, <1>2, <1>3, <1>5

LEMMA RxEcho ==
  ASSUME BlocksInv, DataInv, WaitsEmpty, NEW e \in RxEndpoint, tn_usb_ep_rx_int(e)
  PROVE  [Echo!Next]_(Echo!vars)
<1>1. PICK h : h = Head(pool[e])
  OBVIOUS
<1>2. PICK n : n = sent[e] + 1 /\ n \in Int /\ Writes(e, h, n)
  BY <1>1, RxWrites DEF DataInv
<1>3. /\ e \in Buffer /\ Outside(pool'[e], queue[e], h) /\ h \in Block(e)
      /\ X(task, e) # h /\ Y(task, e) # h /\ h # NoBlock
  BY <1>1, RxEffect DEF Block
<1>4. \A q \in Buffer : Legible(q)
  <2>1. \A i \in 1 .. Len(queue[e]) : queue[e][i] # h
    BY <1>3 DEF Outside
  <2>2. \A q \in Buffer : \A i \in 1 .. Len(queue[q]) : queue[q][i] \in Block(q)
    BY Places
  <2>3. QED
    BY <1>2, <2>1, <2>2 DEF Legible, Writes
<1>5. received' = received /\ sent' = [sent EXCEPT ![e] = @ + 1]
  BY DEF tn_usb_ep_rx_int
<1>6. ASSUME NEW u \in {"ep5_tx", "ep2_rx"}, SameTask(u)
      PROVE  Carried(u)' = Carried(u)
  <2>1. u \in Task /\ task[u].at \in Place
    BY Loop, TheBuffers DEF TaskRecord
  <2>2. PICK q \in Buffer, r \in Buffer : q = Source[u] /\ r = Target[u]
    BY Loop
  <2>3. task[u].at # "receive" => content'[q][task[u].ptr1] = content[q][task[u].ptr1]
    <3>1. SUFFICES ASSUME task[u].at # "receive"
                   PROVE  content'[q][task[u].ptr1] = content[q][task[u].ptr1]
      OBVIOUS
    <3>2. task[u].ptr1 \in Block(q) /\ X(task, q) = task[u].ptr1
      BY <2>1, <2>2, <3>1, Hold
    <3>3. QED
      BY <1>2, <1>3, <3>2 DEF Writes
  <2>4. task[u].at = "send" => content'[r][task[u].ptr] = content[r][task[u].ptr]
    <3>1. SUFFICES ASSUME task[u].at = "send"
                   PROVE  content'[r][task[u].ptr] = content[r][task[u].ptr]
      OBVIOUS
    <3>2. task[u].ptr \in Block(r) /\ Y(task, r) = task[u].ptr
      BY <2>1, <2>2, <3>1, Hold
    <3>3. QED
      BY <1>2, <1>3, <3>2 DEF Writes
  <2>5. task'[u].at = task[u].at /\ task'[u].ptr = task[u].ptr /\ task'[u].ptr1 = task[u].ptr1
    BY <1>6 DEF SameTask
  <2>6. CASE task[u].at \in {"get", "copy"}
    BY <2>2, <2>3, <2>5, <2>6, CarriedIs, CarriedWill
  <2>7. CASE task[u].at = "send"
    BY <2>2, <2>4, <2>5, <2>7, CarriedIs, CarriedWill
  <2>8. CASE task[u].at \in {"receive", "release"}
    BY <2>5, <2>8, CarriedIs, CarriedWill
  <2>9. QED
    BY <2>1, <2>6, <2>7, <2>8 DEF Place
<1>7. ASSUME NEW q \in Buffer, queue'[q] = queue[q]
      PROVE  Packets(q)' = Packets(q)
  BY <1>4, <1>7, PacketsSame
<1>8. CASE e = "EP5RX"
  <2>1. queue' = queue \/ queue' = Appended(queue, e, h)
    BY <1>1, RxEffect
  <2>2. \A q \in Buffer \ {e} : queue'[q] = queue[q]
    BY <1>3, <2>1, QueueOps
  <2>3. KeepsQueues({})
    BY <1>7, <1>8, <2>2, Loop DEF KeepsQueues
  <2>4. Rest({"ep5_rx"})
    BY <1>1, <1>8, RxEffect, Loop DEF Rest
  <2>5. KeepsTasks({})
    BY <1>6, <2>4, Loop, RestSame DEF KeepsTasks
  <2>6. HostSame
    <3>1. sent'["EP2RX"] = sent["EP2RX"]
      BY <1>5, <1>8 DEF DataInv, RxEndpoint
    <3>2. dropped'["EP2RX"] = dropped["EP2RX"]
      <4>1. dropped' = dropped \/ dropped' = [dropped EXCEPT ![e] = @ + 1]
        BY RxEffect
      <4>2. QED
        BY <1>8, <4>1 DEF BlocksInv, RxEndpoint
    <3>3. QED
      BY <1>5, <3>1, <3>2 DEF HostSame
  <2>7. QED
    BY <2>3, <2>5, <2>6, AllKept, HostSees
<1>9. CASE e = "EP2RX"
  <2>1. sent'["EP2RX"] = n /\ sent["EP2RX"] + 1 = n /\ Line(Single(n))
    BY <1>2, <1>5, <1>9, CatRules DEF DataInv
  <2>2. CASE /\ queue' = queue /\ Rest({}) /\ dropped' = [dropped EXCEPT ![e] = @ + 1]
             /\ dropped[e] = 0 /\ Len(queue[e]) = Size[e] - 1
    <3>1. KeepsQueues({})
      BY <1>7, <2>2, Loop DEF KeepsQueues
    <3>2. KeepsTasks({})
      BY <1>6, <2>2, Loop, RestSame DEF KeepsTasks
    <3>3. dropped["EP2RX"] = 0 /\ dropped'["EP2RX"] = 1
      BY <1>9, <2>2 DEF BlocksInv
    <3>4. OnTheWay' = OnTheWay
      BY <3>1, <3>2, AllKept
    <3>5. Len(OnTheWay) >= Size["EP2RX"] - 1
      <4>1. PICK a, b, c, d, f : /\ a = Packets("EP5TX") /\ b = Carried("ep5_tx")
                                 /\ c = Packets("EPExch") /\ d = Carried("ep2_rx")
                                 /\ f = Packets("EP2RX")
        OBVIOUS
      <4>2. OnTheWay = InLine(a, b, c, d, f)
        BY <4>1, Whole
      <4>3. Len(InLine(a, b, c, d, f)) >= Len(f)
        BY <4>1, PartLines, LineCovers
      <4>4. Len(f) = Size["EP2RX"] - 1
        BY <1>3, <1>9, <2>2, <4>1, PacketsLength
      <4>5. QED
        BY <4>2, <4>3, <4>4
    <3>6. Echo!Lose
      BY <1>5, <2>1, <3>3, <3>4, <3>5 DEF Echo!Lose
    <3>7. QED
      BY <3>6 DEF Echo!Next
  <2>3. CASE queue' = Appended(queue, e, h) /\ Rest({}) /\ dropped' = dropped
    <3>1. Packets(e)' = Cat(Packets(e), Single(n))
      <4>1. content'[e] \in [Block(e) -> Int] /\ content'[e][h] = n
        BY <1>2 DEF Writes
      <4>2. QED
        BY <1>3, <1>4, <2>3, <4>1, PacketsGrow
    <3>2. \A q \in Buffer \ {e} : queue'[q] = queue[q]
      BY <1>3, <2>3, QueueOps
    <3>3. KeepsQueues({e})
      BY <1>7, <3>2, Loop DEF KeepsQueues
    <3>4. KeepsTasks({})
      BY <1>6, <2>3, Loop, RestSame DEF KeepsTasks
    <3>5. PICK a, b, c, d, f : /\ a = Packets("EP5TX") /\ b = Carried("ep5_tx")
                               /\ c = Packets("EPExch") /\ d = Carried("ep2_rx") /\ f = Packets(e)
      OBVIOUS
    <3>6. OnTheWay = InLine(a, b, c, d, f) /\ OnTheWay' = InLine(a, b, c, d, Cat(f, Single(n)))
      BY <1>9, <3>1, <3>3, <3>4, <3>5, Whole DEF KeepsQueues, KeepsTasks
    <3>7. /\ InLine(a, b, c, d, Cat(f, Single(n))) = Cat(InLine(a, b, c, d, f), Single(n))
          /\ Line(InLine(a, b, c, d, f))
      BY <1>9, <2>1, <3>5, PartLines, LineGrows
    <3>8. OnTheWay' = Append(OnTheWay, n)
      BY <1>2, <3>6, <3>7, LineAppend
    <3>9. Echo!Accept
      BY <1>5, <2>1, <2>3, <3>8 DEF Echo!Accept
    <3>10. QED
      BY <3>9 DEF Echo!Next
  <2>4. CASE /\ RecvWaits(task, e) /\ queue' = queue /\ Rest({Receiver(e)})
             /\ Moves(Receiver(e), h, task[Receiver(e)].ptr) /\ dropped' = dropped
    <3>1. Receiver(e) = "ep2_rx" /\ task["ep2_rx"].at = "receive"
      BY <1>9, <2>4, Loop DEF RecvWaits
    <3>2. Packets(e) = None
      BY <1>3, <2>4, PacketsLine DEF WaitsEmpty
    <3>3. Carried("ep2_rx") = None /\ Carried("ep2_rx")' = Single(n)
      <4>1. task'["ep2_rx"].at = "get" /\ task'["ep2_rx"].ptr1 = h
        BY <2>4, <3>1, Loop, Wiring DEF Moves, After
      <4>2. content'[e][h] = n
        BY <1>2 DEF Writes
      <4>3. Carried("ep2_rx")' = Single(n)
        BY <1>9, <4>1, <4>2, Loop, CarriedWill
      <4>4. QED
        BY <3>1, <4>3, CarriedIs
    <3>4. KeepsQueues({})
      BY <1>7, <2>4, Loop DEF KeepsQueues
    <3>5. KeepsTasks({"ep2_rx"})
      BY <1>6, <2>4, <3>1, Loop, RestSame DEF KeepsTasks
    <3>6. PICK a, b, c : /\ a = Packets("EP5TX") /\ b = Carried("ep5_tx")
                         /\ c = Packets("EPExch")
      OBVIOUS
    <3>7. OnTheWay = InLine(a, b, c, None, None) /\ OnTheWay' = InLine(a, b, c, Single(n), None)
      BY <1>9, <3>2, <3>3, <3>4, <3>5, <3>6, Whole DEF KeepsQueues, KeepsTasks
    <3>8. /\ InLine(a, b, c, Single(n), None) = Cat(InLine(a, b, c, None, None), Single(n))
          /\ Line(InLine(a, b, c, None, None))
      BY <2>1, <3>6, PartLines, LineStarts
    <3>9. OnTheWay' = Append(OnTheWay, n)
      BY <1>2, <3>7, <3>8, LineAppend
    <3>10. Echo!Accept
      BY <1>5, <2>1, <2>4, <3>9 DEF Echo!Accept
    <3>11. QED
      BY <3>10 DEF Echo!Next
  <2>5. QED
    BY <1>1, <2>2, <2>3, <2>4, RxEffect
<1>10. QED
  BY <1>8, <1>9 DEF RxEndpoint

LEMMA TxEcho ==
  ASSUME BlocksInv, DataInv, NumbersInv, NEW e \in TxEndpoint, tn_usb_ep_tx_int(e)
  PROVE  [Echo!Next]_(Echo!vars)
<1>1. PICK h, s : h = Head(queue[e]) /\ s = Sender(e)
  OBVIOUS
<1>2. PICK x : x = content[e][h]
  OBVIOUS
<1>3. /\ content' = content /\ sent' = sent /\ dropped' = dropped
      /\ received' = [received EXCEPT ![e] = [qty |-> @.qty + 1, last |-> x]]
  BY <1>1, <1>2 DEF tn_usb_ep_tx_int
<1>4. e \in Buffer /\ queue[e] # <<>>
  BY TxEffect
<1>5. queue[e] \in Seq(Block(e)) /\ content[e] \in [Block(e) -> Int]
  BY <1>4, PacketsLine
<1>6. x \in Int /\ Line(Single(x))
  BY <1>1, <1>2, <1>4, <1>5, CatRules
<1>7. /\ s = "ep5_tx" \/ s = "ep2_tx"
      /\ e = "EP5TX" <=> s = "ep5_tx"
      /\ s \in Task
  BY <1>1, Loop DEF TxEndpoint
<1>8. CASE /\ SendWaits(task, e, "send") /\ Rest({s})
           /\ queue' = Appended(Headless(queue, e), e, task[s].ptr)
           /\ Moves(s, task[s].ptr1, task[s].ptr)
  <2>1. PICK b, y : b = task[s].ptr /\ y = content[e][b]
    OBVIOUS
  <2>2. task[s].at = "send" /\ b \in Block(e)
    <3>1. task[s].at = "send" /\ Target[s] = e
      BY <1>1, <1>8, Ends DEF SendWaits
    <3>2. QED
      BY <1>4, <1>7, <2>1, <3>1, Hold
  <2>3. KeepsQueues({e}) /\ KeepsTasks({s})
    <3>1. PICK M : M = {s}
      OBVIOUS
    <3>2. Rest(M) /\ queue' = Appended(Headless(queue, e), e, b)
      BY <1>8, <2>1, <3>1
    <3>3. KeepsQueues({e}) /\ KeepsTasks(M)
      BY <1>3, <1>4, <3>2, OthersKept
    <3>4. QED
      BY <3>1, <3>3
  <2>4. CASE e = "EP2TX"
    <3>1. OnTheWay' = OnTheWay
      BY <1>7, <2>3, <2>4, AllKept DEF KeepsQueues, KeepsTasks
    <3>2. received'["EP5TX"] = received["EP5TX"]
      BY <1>3, <2>4 DEF NumbersInv, TxEndpoint
    <3>3. QED
      BY <1>3, <3>1, <3>2, HostSees DEF HostSame
  <2>5. CASE e = "EP5TX"
    <3>1. PICK T : /\ Line(T) /\ Packets(e) = Cat(Single(x), T)
                   /\ Packets(e)' = Cat(T, Single(y))
      BY <1>1, <1>2, <1>3, <1>4, <1>8, <2>1, <2>2, PacketsTurn
    <3>2. Carried("ep5_tx") = Single(y) /\ Carried("ep5_tx")' = None
      <4>1. task'[s].at = "release"
        BY <1>7, <1>8, <2>2, <2>5, Loop, Wiring DEF Moves, After
      <4>2. QED
        BY <1>7, <2>1, <2>2, <2>5, <4>1, Loop, CarriedIs, CarriedWill
    <3>3. Line(Single(y))
      BY <1>5, <2>1, <2>2, CatRules
    <3>4. PICK c, d, f : /\ c = Packets("EPExch") /\ d = Carried("ep2_rx")
                         /\ f = Packets("EP2RX")
      OBVIOUS
    <3>5. /\ OnTheWay = InLine(Cat(Single(x), T), Single(y), c, d, f)
          /\ OnTheWay' = InLine(Cat(T, Single(y)), None, c, d, f)
      BY <1>7, <2>3, <2>5, <3>1, <3>2, <3>4, Whole DEF KeepsQueues, KeepsTasks
    <3>6. Line(c) /\ Line(d) /\ Line(f)
      BY <3>4, PartLines
    <3>7. InLine(T, Single(y), c, d, f) = InLine(Cat(T, Single(y)), None, c, d, f)
      BY <3>1, <3>3, <3>6, CatRules DEF InLine
    <3>8. /\ InLine(Cat(Single(x), T), Single(y), c, d, f)
               = Cat(Single(x), InLine(T, Single(y), c, d, f))
          /\ Line(InLine(T, Single(y), c, d, f))
      BY <1>6, <3>1, <3>3, <3>6, LineGives
    <3>9. OnTheWay = Cat(Single(x), OnTheWay') /\ Line(OnTheWay')
      BY <3>5, <3>7, <3>8
    <3>10. OnTheWay # <<>> /\ Head(OnTheWay) = x /\ Tail(OnTheWay) = OnTheWay'
      BY <1>6, <3>9, LineHead
    <3>11. received'["EP5TX"].last = x
      BY <1>3, <2>5 DEF NumbersInv, TxEndpoint
    <3>12. Echo!Return
      BY <1>3, <3>10, <3>11 DEF Echo!Return
    <3>13. QED
      BY <3>12 DEF Echo!Next
  <2>6. QED
    BY <2>4, <2>5 DEF TxEndpoint
<1>9. CASE /\ queue' = Headless(queue, e)
           /\ \/ Rest({})
              \/ /\ SendWaits(task, e, "get") /\ Rest({s})
                 /\ Moves(s, task[s].ptr1, h)
  <2>1. KeepsQueues({e}) /\ KeepsTasks({})
    <3>1. PICK b : b = NoBlock
      OBVIOUS
    <3>2. CASE Rest({})
      BY <1>3, <1>4, <1>9, <3>1, <3>2, OthersKept
    <3>3. CASE /\ SendWaits(task, e, "get") /\ Rest({s})
               /\ Moves(s, task[s].ptr1, h)
      <4>1. task[s].at = "get"
        BY <1>1, <3>3 DEF SendWaits
      <4>2. task'[s].at = "copy" /\ task'[s].ptr1 = task[s].ptr1
        BY <3>3, <4>1 DEF Moves, After
      <4>3. Carried(s)' = Carried(s)
        BY <1>3, <1>7, <4>1, <4>2, CarriedSame DEF Keeps
      <4>4. KeepsQueues({e}) /\ KeepsTasks({s})
        BY <1>3, <1>4, <1>9, <3>1, <3>3, OthersKept
      <4>5. QED
        BY <4>3, <4>4 DEF KeepsTasks
    <3>4. QED
      BY <1>9, <3>2, <3>3
  <2>2. CASE e = "EP2TX"
    <3>1. OnTheWay' = OnTheWay
      BY <2>1, <2>2, AllKept DEF KeepsQueues
    <3>2. received'["EP5TX"] = received["EP5TX"]
      BY <1>3, <2>2 DEF NumbersInv, TxEndpoint
    <3>3. QED
      BY <1>3, <3>1, <3>2, HostSees DEF HostSame
  <2>3. CASE e = "EP5TX"
    <3>1. PICK T : Line(T) /\ Packets(e) = Cat(Single(x), T) /\ Packets(e)' = T
      BY <1>1, <1>2, <1>3, <1>4, <1>9, PacketsShrink
    <3>2. PICK b, c, d, f : /\ b = Carried("ep5_tx") /\ c = Packets("EPExch")
                            /\ d = Carried("ep2_rx") /\ f = Packets("EP2RX")
      OBVIOUS
    <3>3. OnTheWay = InLine(Cat(Single(x), T), b, c, d, f) /\ OnTheWay' = InLine(T, b, c, d, f)
      BY <2>1, <2>3, <3>1, <3>2, Whole DEF KeepsQueues, KeepsTasks
    <3>4. /\ InLine(Cat(Single(x), T), b, c, d, f) = Cat(Single(x), InLine(T, b, c, d, f))
          /\ Line(InLine(T, b, c, d, f))
      BY <1>6, <3>1, <3>2, PartLines, LineGives
    <3>5. OnTheWay # <<>> /\ Head(OnTheWay) = x /\ Tail(OnTheWay) = OnTheWay'
      BY <1>6, <3>3, <3>4, LineHead
    <3>6. received'["EP5TX"].last = x
      BY <1>3, <2>3 DEF NumbersInv, TxEndpoint
    <3>7. Echo!Return
      BY <1>3, <3>5, <3>6 DEF Echo!Return
    <3>8. QED
      BY <3>7 DEF Echo!Next
  <2>4. QED
    BY <2>2, <2>3 DEF TxEndpoint
<1>10. QED
  BY <1>1, <1>8, <1>9, TxEffect

LEMMA EchoStep == LoopInv /\ [Next]_vars => [Echo!Next]_(Echo!vars)
<1> SUFFICES ASSUME BlocksInv, DataInv, WaitsEmpty, NumbersInv, [Next]_vars
             PROVE  [Echo!Next]_(Echo!vars)
  BY DEF LoopInv
<1>1. ASSUME NEW t \in Task, TaskStep(t)
      PROVE  [Echo!Next]_(Echo!vars)
  <2>1. OnTheWay' = OnTheWay
    BY <1>1, ReceiveEcho, GetEcho, CopyEcho, SendEcho, ReleaseEcho DEF TaskStep
  <2>2. sent' = sent /\ dropped' = dropped /\ received' = received
    BY <1>1 DEF TaskStep, tn_queue_receive, tn_fmem_get, Copy, tn_queue_send,
                tn_fmem_release, others
  <2>3. QED
    BY <2>1, <2>2, HostSees DEF HostSame
<1>2. CASE UNCHANGED vars
  <2>1. OnTheWay' = OnTheWay
    BY <1>2 DEF vars, OnTheWay, Packets, Carried
  <2>2. QED
    BY <1>2, <2>1, HostSees DEF HostSame, vars
<1>3. QED
  BY <1>1, <1>2, RxEcho, TxEcho DEF Next, Interrupt

LEMMA EchoInit == Init => Echo!Init
<1> SUFFICES ASSUME Init
             PROVE  Echo!Init
  OBVIOUS
<1>1. BlocksInv /\ DataInv
  BY BlocksInit, DataInit
<1>2. \A q \in Buffer : Packets(q) = None
  BY <1>1, PacketsLine DEF Init
<1>3. \A t \in {"ep5_tx", "ep2_rx"} : task[t].at = "receive"
  BY Loop, Wiring DEF Init
<1>4. \A t \in {"ep5_tx", "ep2_rx"} : Carried(t) = None
  BY <1>3, CarriedIs
<1>5. OnTheWay = None
  <2>1. OnTheWay = InLine(None, None, None, None, None)
    BY <1>2, <1>4, Loop, Whole
  <2>2. QED
    BY <2>1, CatRules DEF InLine
<1>6. sent["EP2RX"] = 0 /\ dropped["EP2RX"] = 0 /\ received["EP5TX"].last = 0
  BY DEF Init, RxEndpoint, TxEndpoint
<1>7. QED
  BY <1>5, <1>6 DEF Echo!Init, None

(***************************************************************************)
(* The tasks, queues, pools and interrupts of the loop together do what    *)
(* EchoLine says, for every size of the queues and every number of         *)
(* packets: the host gets its packets back in order, none twice and none   *)
(* missing, but for at most one that was taken while the queue of Endpoint *)
(* 2 OUT was full.                                                         *)
(***************************************************************************)
THEOREM EchoCorrect == Spec => ImplementsEcho
<1>1. Spec => Echo!Init /\ [][Echo!Next]_(Echo!vars)
  BY EchoInit, EchoStep, LoopInvariant, PTL DEF Spec
<1>2. QED
  BY <1>1, PTL DEF ImplementsEcho, Echo!Spec
=============================================================================
