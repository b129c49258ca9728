----------------------------- MODULE USBDmaProofs -----------------------------
(***************************************************************************)
(* The loop with DMA, whatever the sizes of the buffers, the number of DDs *)
(* and the number of packets: the engine has a block for what it takes,    *)
(* never sends a DD that was written over, and the host gets its packets   *)
(* back, none lost, until a request is served before the end of transfer   *)
(* that came before it.                                                    *)
(***************************************************************************)
EXTENDS USBDma, USBLoopbackProofs, WellFoundedInduction

-----------------------------------------------------------------------------
\* The inductive invariant: of the engine's data M, of the DDs of an endpoint,
\* and of the buffers with the engine.

DDRecord == [retired : BOOLEAN, holds : Int, whole : BOOLEAN]
EngineType == [dd : [Endpoint -> [DD -> DDRecord]], udca : [Endpoint -> DD],
               enabled : SUBSET Endpoint, EoT : SUBSET RxEndpoint, NDDR : SUBSET Endpoint]

\* The first DD and the empty one take turns.  The engine asks for another DD
\* when it is done with the one it has.
TxOK(M, e) ==
  /\ M.udca[e] \in {1, NumBuf}
  /\ M.udca[e] = NumBuf => M.dd[e][1].retired
  /\ M.dd[e][1].whole /\ M.dd[e][NumBuf].whole
  /\ e \in M.NDDR => Current(M, e).retired

\* There is room for one more packet: the task waits for it, or the FIFO has a
\* place.
Room(Q, T, e) == RecvWaits(T, e) \/ Len(Q[e]) < Size[e] - 1
\* From the moment a DD is ready to the end of transfer there is room.
RxOK(M, Q, T, e) ==
  /\ Len(Q[e]) <= Size[e] - 1
  /\ e \in M.NDDR => Current(M, e).retired
  /\ e \in M.EoT => Current(M, e).retired
  /\ e \in M.EoT \/ ~Current(M, e).retired => Room(Q, T, e)

\* The buffers, the packets in their blocks and the tasks that wait.  No block
\* is lost.
NoneLost == [p \in Buffer |-> 0]
Sound(P, Q, T, C) ==
  /\ BuffersOK(P, Q, T, NoneLost, "EP2RX", NoBlock)
  /\ C = [p \in Buffer |-> C[p]] /\ \A p \in Buffer : C[p] \in [Block(p) -> Int]
  /\ \A q \in Buffer : RecvWaits(T, q) => Q[q] = <<>>
EngineOK(M, Q, T) ==
  /\ M \in EngineType
  /\ \A e \in TxEndpoint : TxOK(M, e)
  /\ \A e \in RxEndpoint : RxOK(M, Q, T, e)

ControlType == [handler : {"out", "between"},
                enables : SUBSET {t \in Task : Source[t] \in RxEndpoint},
                configured : BOOLEAN, overtaken : BOOLEAN]
DmaInv ==
  /\ Sound(pool, queue, task, content)
  /\ EngineOK(dma, queue, task)
  /\ dropped = [e \in RxEndpoint |-> 0]
  /\ cnt \in Nat /\ sent \in [RxEndpoint -> Nat]
  /\ received = [e \in TxEndpoint |-> received[e]]
  /\ ctl \in ControlType

-----------------------------------------------------------------------------
\* The calls on the record of the handler.

Full(P, Q, T, K, L, M) ==
  [pool |-> P, queue |-> Q, task |-> T, content |-> K, dropped |-> L, dma |-> M]

LEMMA FullIs ==
  ASSUME NEW P, NEW Q, NEW T, NEW K, NEW L, NEW M, NEW F, F = Full(P, Q, T, K, L, M), NEW v
  PROVE  /\ F.pool = P /\ F.queue = Q /\ F.task = T /\ F.content = K /\ F.dropped = L /\ F.dma = M
         /\ [F EXCEPT !.pool = v] = Full(v, Q, T, K, L, M)
         /\ [F EXCEPT !.queue = v] = Full(P, v, T, K, L, M)
         /\ [F EXCEPT !.task = v] = Full(P, Q, v, K, L, M)
         /\ [F EXCEPT !.content = v] = Full(P, Q, T, v, L, M)
         /\ [F EXCEPT !.dropped = v] = Full(P, Q, T, K, v, M)
         /\ [F EXCEPT !.dma = v] = Full(P, Q, T, K, L, v)
BY DEF Full

LEMMA GoesFull ==
  ASSUME NEW P, NEW Q, NEW T, NEW K, NEW L, NEW M, T \in [Task -> TaskRecord], NEW t \in Task, NEW b
  PROVE  /\ Goes(Full(P, Q, T, K, L, M), t) = Full(P, Q, Advances(T, t), K, L, M)
         /\ Received(Full(P, Q, T, K, L, M), t, b) = Full(P, Q, Receives(T, t, b), K, L, M)
         /\ Gotten(Full(P, Q, T, K, L, M), t, b) = Full(P, Q, Gets(T, t, b), K, L, M)
<1> DEFINE B  == Full(P, Q, T, K, L, M)
           on == After(t, T[t].at)
           r1 == [at |-> on, waits |-> T[t].waits, ptr1 |-> T[t].ptr1, ptr |-> T[t].ptr]
           r2 == Further(T, t, T[t].ptr1, T[t].ptr)
           S  == [T EXCEPT ![t] = r2]
<1>1. T[t] = [at |-> T[t].at, waits |-> T[t].waits, ptr1 |-> T[t].ptr1, ptr |-> T[t].ptr]
  BY DEF TaskRecord
<1>2. [T[t] EXCEPT !.at = on] = r1
  BY <1>1
<1>3. PICK a, w, c, d, f : /\ a = on /\ w = T[t].waits /\ c = T[t].ptr1 /\ d = T[t].ptr
                           /\ f = FALSE
  OBVIOUS
<1>4. S[t] = r2
  OBVIOUS
<1>5. [r1 EXCEPT !.waits = FALSE] = r2
  <2>1. /\ r1 = [at |-> a, waits |-> w, ptr1 |-> c, ptr |-> d]
        /\ r2 = [at |-> a, waits |-> f, ptr1 |-> c, ptr |-> d]
    BY <1>3 DEF Further
  <2> HIDE DEF r1, r2
  <2>2. [r1 EXCEPT !.waits = f] = [at |-> a, waits |-> f, ptr1 |-> c, ptr |-> d]
    BY <2>1
  <2>3. QED
    BY <1>3, <2>1, <2>2
<1>6. /\ [r2 EXCEPT !.ptr1 = b] = Further(T, t, b, T[t].ptr)
      /\ [r2 EXCEPT !.ptr = b] = Further(T, t, T[t].ptr1, b)
  <2>1. /\ r2 = [at |-> a, waits |-> f, ptr1 |-> c, ptr |-> d]
        /\ Further(T, t, b, T[t].ptr) = [at |-> a, waits |-> f, ptr1 |-> b, ptr |-> d]
        /\ Further(T, t, T[t].ptr1, b) = [at |-> a, waits |-> f, ptr1 |-> c, ptr |-> b]
    BY <1>3 DEF Further
  <2> HIDE DEF r2
  <2>2. [r2 EXCEPT !.ptr1 = b] = [at |-> a, waits |-> f, ptr1 |-> b, ptr |-> d]
    BY <2>1
  <2>3. [r2 EXCEPT !.ptr = b] = [at |-> a, waits |-> f, ptr1 |-> c, ptr |-> b]
    BY <2>1
  <2>4. QED
    BY <2>1, <2>2, <2>3
<1> HIDE DEF r1, r2
<1>7. /\ B = [pool |-> P, queue |-> Q, task |-> T, content |-> K, dropped |-> L, dma |-> M]
      /\ B.task = T
  BY DEF Full
<1>8. Goes(B, t) = Full(P, Q, S, K, L, M)
  <2>1. Goes(B, t) = [B EXCEPT !.task = [[T EXCEPT ![t].at = on] EXCEPT ![t].waits = FALSE]]
    BY <1>7 DEF Goes
  <2>2. [[T EXCEPT ![t].at = on] EXCEPT ![t].waits = FALSE] =
          [T EXCEPT ![t] = [[T[t] EXCEPT !.at = on] EXCEPT !.waits = FALSE]]
    OBVIOUS
  <2>3. [B EXCEPT !.task = S] = Full(P, Q, S, K, L, M)
    BY <1>7 DEF Full
  <2>4. QED
    BY <1>2, <1>5, <2>1, <2>2, <2>3
<1>9. ASSUME NEW G, G = Full(P, Q, S, K, L, M)
      PROVE  /\ [G EXCEPT !.task[t].ptr1 = b] =
                  Full(P, Q, [T EXCEPT ![t] = [r2 EXCEPT !.ptr1 = b]], K, L, M)
             /\ [G EXCEPT !.task[t].ptr = b] =
                  Full(P, Q, [T EXCEPT ![t] = [r2 EXCEPT !.ptr = b]], K, L, M)
  <2>1. G.task = S
    BY <1>9, FullIs
  <2>2. /\ [G EXCEPT !.task[t].ptr1 = b] = [G EXCEPT !.task = [S EXCEPT ![t].ptr1 = b]]
        /\ [G EXCEPT !.task[t].ptr = b] = [G EXCEPT !.task = [S EXCEPT ![t].ptr = b]]
    BY <2>1
  <2>3. /\ [S EXCEPT ![t].ptr1 = b] = [T EXCEPT ![t] = [r2 EXCEPT !.ptr1 = b]]
        /\ [S EXCEPT ![t].ptr = b] = [T EXCEPT ![t] = [r2 EXCEPT !.ptr = b]]
    BY <1>4
  <2> HIDE DEF S
  <2>4. \A R : [G EXCEPT !.task = R] = Full(P, Q, R, K, L, M)
    BY <1>9, FullIs
  <2>5. QED
    BY <2>2, <2>3, <2>4
<1>10. QED
  BY <1>6, <1>8, <1>9 DEF Received, Gotten, Receives, Gets, Advances, With, r2

LEMMA WaitsAtFull ==
  ASSUME NEW P, NEW Q, NEW T, NEW K, NEW L, NEW M, T \in [Task -> TaskRecord], NEW q \in Buffer
  PROVE  LET W(place) == WaitsAt(Full(P, Q, T, K, L, M), place, q)
         IN /\ W("receive") # {} <=>
                 q \in RecvBuf /\ T[Receiver(q)].waits /\ T[Receiver(q)].at = "receive"
            /\ W("receive") # {} => Only(W("receive")) = Receiver(q)
            /\ \A place \in {"get", "send"} :
                 /\ W(place) # {} <=>
                      q \in SendBuf /\ T[Sender(q)].waits /\ T[Sender(q)].at = place
                 /\ W(place) # {} => Only(W(place)) = Sender(q)
<1>1. \A place : WaitsAt(Full(P, Q, T, K, L, M), place, q) = WaitsAt(Bf(P, Q, T), place, q)
  BY DEF WaitsAt, Full, Bf
<1>2. QED
  BY ONLY <1>1, T \in [Task -> TaskRecord], q \in Buffer, WaitsAtIs

LEMMA SendFull ==
  ASSUME NEW P, NEW Q, NEW T, NEW K, NEW L, NEW M, TasksOK(T), NEW q \in Buffer, NEW b
  PROVE  /\ RecvWaits(T, q) =>
              Send(Full(P, Q, T, K, L, M), q, b) = Full(P, Q, Receives(T, Receiver(q), b), K, L, M)
         /\ ~RecvWaits(T, q) =>
              Send(Full(P, Q, T, K, L, M), q, b) = Full(P, Appended(Q, q, b), T, K, L, M)
         /\ CanSend(Full(P, Q, T, K, L, M), q) <=> RecvWaits(T, q) \/ Len(Q[q]) # Size[q] - 1
<1>01. T \in [Task -> TaskRecord]
  BY DEF TasksOK
<1>0. PICK B : B = Full(P, Q, T, K, L, M)
  OBVIOUS
<1> DEFINE W == WaitsAt(B, "receive", q)
<1>1. (W # {} <=> RecvWaits(T, q)) /\ (W # {} => Only(W) = Receiver(q))
  BY <1>0, <1>01, WaitsAtFull DEF RecvWaits
<1>2. B.queue = Q /\ [B EXCEPT !.queue[q] = Append(@, b)] = Full(P, Appended(Q, q, b), T, K, L, M)
  <2>1. PICK v : v = Append(Q[q], b)
    OBVIOUS
  <2>2. PICK Q1 : Q1 = [Q EXCEPT ![q] = v]
    OBVIOUS
  <2>3. B.queue = Q /\ [B EXCEPT !.queue = Q1] = Full(P, Q1, T, K, L, M)
    BY <1>0, FullIs
  <2>4. QED
    BY <2>1, <2>2, <2>3 DEF Appended
<1>3. ASSUME RecvWaits(T, q)
      PROVE  Received(B, Receiver(q), b) = Full(P, Q, Receives(T, Receiver(q), b), K, L, M)
  <2>1. Receiver(q) \in Task
    BY <1>3, Ends DEF RecvWaits
  <2>2. QED
    BY <1>0, <2>1, <1>01, GoesFull
<1>4. Send(B, q, b) = IF W # {} THEN Received(B, Only(W), b)
                      ELSE [B EXCEPT !.queue[q] = Append(@, b)]
  BY DEF Send
<1>5. CanSend(B, q) <=> W # {} \/ Len(Q[q]) # Size[q] - 1
  BY <1>2 DEF CanSend, IsFull
<1> HIDE DEF W
<1>6. QED
  BY <1>0, <1>1, <1>2, <1>3, <1>4, <1>5

LEMMA TakeHeadFull ==
  ASSUME NEW P, NEW Q, NEW T, NEW K, NEW L, NEW M, TasksOK(T), NEW q \in Buffer,
         QueuesOK(Q)
  PROVE  /\ SendWaits(T, q, "send") =>
              TakeHead(Full(P, Q, T, K, L, M), q) =
                Full(P, Appended(Headless(Q, q), q, T[Sender(q)].ptr), Advances(T, Sender(q)), K, L, M)
         /\ ~SendWaits(T, q, "send") =>
              TakeHead(Full(P, Q, T, K, L, M), q) = Full(P, Headless(Q, q), T, K, L, M)
<1>01. T \in [Task -> TaskRecord] /\ Q \in [Buffer -> Seq(Nat)]
  BY DEF TasksOK, QueuesOK
<1>0. PICK B : B = Full(P, Q, T, K, L, M)
  OBVIOUS
<1> DEFINE W == WaitsAt(B, "send", q)
           A == Full(P, Headless(Q, q), T, K, L, M)
           s == Sender(q)
           C == [A EXCEPT !.queue[q] = Append(@, T[s].ptr)]
<1>1. (W # {} <=> SendWaits(T, q, "send")) /\ (W # {} => Only(W) = s)
  BY <1>0, <1>01, WaitsAtFull DEF SendWaits
<1>2. B.task = T /\ [B EXCEPT !.queue[q] = Tail(@)] = A
  <2>1. PICK v : v = Tail(Q[q])
    OBVIOUS
  <2>2. B.task = T /\ B.queue = Q /\ [B EXCEPT !.queue[q] = v] = Full(P, [Q EXCEPT ![q] = v], T, K, L, M)
    BY <1>0 DEF Full
  <2>3. QED
    BY <2>1, <2>2 DEF Headless
<1>3. C = Full(P, Appended(Headless(Q, q), q, T[s].ptr), T, K, L, M)
  <2>1. PICK Q1 : Q1 = Headless(Q, q)
    OBVIOUS
  <2>2. ASSUME NEW D, D = Full(P, Q1, T, K, L, M)
        PROVE  [D EXCEPT !.queue[q] = Append(@, T[s].ptr)] =
                 Full(P, [Q1 EXCEPT ![q] = Append(@, T[s].ptr)], T, K, L, M)
    <3>1. PICK v : v = Append(Q1[q], T[s].ptr)
      OBVIOUS
    <3>2. PICK Q2 : Q2 = [Q1 EXCEPT ![q] = v]
      OBVIOUS
    <3>3. D.queue = Q1 /\ [D EXCEPT !.queue = Q2] = Full(P, Q2, T, K, L, M)
      BY <2>2, FullIs
    <3>4. QED
      BY <3>1, <3>2, <3>3
  <2>3. QED
    BY <2>1, <2>2 DEF Appended
<1>4. ASSUME SendWaits(T, q, "send")
      PROVE  Goes(C, s) = Full(P, Appended(Headless(Q, q), q, T[s].ptr), Advances(T, s), K, L, M)
  <2>1. s \in Task
    BY <1>4, Ends DEF SendWaits
  <2>2. PICK Q2 : Q2 = Appended(Headless(Q, q), q, T[s].ptr)
    OBVIOUS
  <2>3. Goes(Full(P, Q2, T, K, L, M), s) = Full(P, Q2, Advances(T, s), K, L, M)
    <3>1. T \in [Task -> TaskRecord]
      BY <1>01
    <3>2. QED
      BY ONLY <2>1, <3>1, GoesFull
  <2>4. QED
    BY <1>3, <2>2, <2>3
<1>5. TakeHead(B, q) = IF W = {} THEN [B EXCEPT !.queue[q] = Tail(@)]
                       ELSE Goes([[B EXCEPT !.queue[q] = Tail(@)]
                                    EXCEPT !.queue[q] = Append(@, B.task[Only(W)].ptr)], Only(W))
  BY DEF TakeHead
<1> HIDE DEF W, A
<1>6. CASE W = {}
  BY <1>0, <1>1, <1>2, <1>5, <1>6 DEF A
<1>7. CASE W # {}
  <2>1. TakeHead(B, q) = Goes(C, s)
    BY <1>1, <1>2, <1>5, <1>7
  <2>2. QED
    BY <1>0, <1>1, <1>4, <1>7, <2>1
<1>8. QED
  BY <1>6, <1>7

LEMMA FreeFull ==
  ASSUME NEW P, NEW Q, NEW T, NEW K, NEW L, NEW M, TasksOK(T), NEW p \in Buffer, NEW b
  PROVE  /\ SendWaits(T, p, "get") =>
              Free(Full(P, Q, T, K, L, M), p, b) = Full(P, Q, Gets(T, Sender(p), b), K, L, M)
         /\ ~SendWaits(T, p, "get") =>
              Free(Full(P, Q, T, K, L, M), p, b) = Full(Prepended(P, p, b), Q, T, K, L, M)
<1>01. T \in [Task -> TaskRecord]
  BY DEF TasksOK
<1>0. PICK B : B = Full(P, Q, T, K, L, M)
  OBVIOUS
<1> DEFINE W == WaitsAt(B, "get", p)
<1>1. (W # {} <=> SendWaits(T, p, "get")) /\ (W # {} => Only(W) = Sender(p))
  BY <1>0, <1>01, WaitsAtFull DEF SendWaits
<1>2. [B EXCEPT !.pool[p] = <<b>> \o @] = Full(Prepended(P, p, b), Q, T, K, L, M)
  <2>1. PICK v : v = <<b>> \o P[p]
    OBVIOUS
  <2>2. B.pool = P /\ [B EXCEPT !.pool[p] = v] = Full([P EXCEPT ![p] = v], Q, T, K, L, M)
    BY <1>0 DEF Full
  <2>3. QED
    BY <2>1, <2>2 DEF Prepended
<1>3. ASSUME SendWaits(T, p, "get")
      PROVE  Gotten(B, Sender(p), b) = Full(P, Q, Gets(T, Sender(p), b), K, L, M)
  <2>1. Sender(p) \in Task
    BY <1>3, Ends DEF SendWaits
  <2>2. QED
    BY <1>0, <2>1, <1>01, GoesFull
<1>4. Free(B, p, b) = IF W # {} THEN Gotten(B, Only(W), b)
                      ELSE [B EXCEPT !.pool[p] = <<b>> \o @]
  BY DEF Free
<1> HIDE DEF W
<1>5. QED
  BY <1>0, <1>1, <1>2, <1>3, <1>4

-----------------------------------------------------------------------------
\* A packet comes from the engine, or is given to it: the buffers stay sound.

LEMMA SoundParts ==
  ASSUME NEW P, NEW Q, NEW T, NEW C, Sound(P, Q, T, C), NEW q \in Buffer
  PROVE  /\ BuffersOK(P, Q, T, NoneLost, q, NoBlock)
         /\ Parts(Size[q], P[q], Q[q], X(T, q), Y(T, q), NoBlock, 0)
         /\ TasksOK(T) /\ T \in [Task -> TaskRecord] /\ \A t \in Task : RecordOK(t, T[t])
         /\ P \in [Buffer -> Seq(Nat)] /\ Q \in [Buffer -> Seq(Nat)]
         /\ Q[q] \in Seq(Block(q)) /\ C[q] \in [Block(q) -> Int]
<1>1. "EP2RX" \in Buffer
  BY Loop
<1>2. BuffersOK(P, Q, T, NoneLost, q, NoBlock)
  BY <1>1, AnyHand DEF Sound
<1>3. /\ Parts(Size[q], P[q], Q[q], X(T, q), Y(T, q), NoBlock, NoneLost[q])
      /\ TasksOK(T) /\ T \in [Task -> TaskRecord] /\ \A t \in Task : RecordOK(t, T[t])
  BY <1>2, HandParts
<1>4. NoneLost[q] = 0
  BY DEF NoneLost
<1>5. P \in [Buffer -> Seq(Nat)] /\ Q \in [Buffer -> Seq(Nat)]
  BY <1>2 DEF BuffersOK, QueuesOK
<1>6. Q[q] \in Seq(Block(q))
  BY <1>3 DEF Parts, Block
<1>7. C[q] \in [Block(q) -> Int]
  BY DEF Sound
<1>8. QED
  BY <1>2, <1>3, <1>4, <1>5, <1>6, <1>7

\* What the record of a task that goes on says.
LEMMA WithRecord ==
  ASSUME NEW T, T \in [Task -> TaskRecord], NEW s \in Task, NEW a, NEW b, NEW S,
         S = With(T, s, Further(T, s, a, b))
  PROVE  /\ S[s].at = After(s, T[s].at) /\ S[s].waits = FALSE /\ S[s].ptr1 = a /\ S[s].ptr = b
         /\ \A u \in Task \ {s} : S[u] = T[u]
BY DEF With, Further

\* A task that has gone on does not wait to receive, the others as before.
LEMMA WithWaits ==
  ASSUME NEW T, T \in [Task -> TaskRecord], NEW s \in Task, NEW a, NEW b, NEW S,
         S = With(T, s, Further(T, s, a, b)), NEW q \in Buffer
  PROVE  /\ RecvWaits(S, q) => RecvWaits(T, q) /\ Receiver(q) # s
         /\ RecvWaits(T, q) /\ Receiver(q) # s => RecvWaits(S, q)
<1>1. q \in RecvBuf => Receiver(q) \in Task
  BY Ends
<1>2. S[s].waits = FALSE /\ \A u \in Task \ {s} : S[u] = T[u]
  BY DEF With, Further
<1>3. QED
  BY <1>1, <1>2 DEF RecvWaits

LEMMA QueueIs ==
  ASSUME NEW Q, Q \in [Buffer -> Seq(Nat)], NEW q \in Buffer, NEW b
  PROVE  /\ Appended(Q, q, b)[q] = Append(Q[q], b)
         /\ Headless(Q, q)[q] = Tail(Q[q])
         /\ Appended(Headless(Q, q), q, b)[q] = Append(Tail(Q[q]), b)
         /\ \A p \in Buffer \ {q} : /\ Appended(Q, q, b)[p] = Q[p]
                                    /\ Headless(Q, q)[p] = Q[p]
                                    /\ Appended(Headless(Q, q), q, b)[p] = Q[p]
<1>1. PICK v, w : v = Tail(Q[q]) /\ w = Append(v, b)
  OBVIOUS
<1>2. PICK R : R = [Q EXCEPT ![q] = v]
  OBVIOUS
<1>3. R = Headless(Q, q) /\ R = [p \in Buffer |-> R[p]]
  BY <1>1, <1>2 DEF Headless
<1>4. R[q] = v /\ \A p \in Buffer \ {q} : R[p] = Q[p]
  BY <1>2
<1>5. Appended(R, q, b)[q] = w /\ \A p \in Buffer \ {q} : Appended(R, q, b)[p] = R[p]
  BY <1>1, <1>3, <1>4 DEF Appended
<1>6. Appended(Q, q, b)[q] = Append(Q[q], b) /\ \A p \in Buffer \ {q} : Appended(Q, q, b)[p] = Q[p]
  BY DEF Appended
<1>7. QED
  BY <1>1, <1>3, <1>4, <1>5, <1>6

\* One value of a function is another one.
Put(f, e, v) == [f EXCEPT ![e] = v]

\* The packet v is copied to the block h, which is sent.
Filled(P, Q, T, C, e, v, P2, Q2, T2, C2) ==
  \E h : /\ h = Head(P[e]) /\ h \in Block(e) /\ P2 = [P EXCEPT ![e] = Tail(@)]
         /\ C2 = [C EXCEPT ![e][h] = v]
         /\ Outside(P2[e], Q[e], h) /\ X(T, e) # h /\ Y(T, e) # h
         /\ \/ RecvWaits(T, e) /\ Q2 = Q /\ T2 = Receives(T, Receiver(e), h)
            \/ ~RecvWaits(T, e) /\ Q2 = Appended(Q, e, h) /\ T2 = T

LEMMA FillSound ==
  ASSUME NEW P, NEW Q, NEW T, NEW C, Sound(P, Q, T, C), NEW e \in RxEndpoint, NEW v \in Int,
         P[e] # <<>>, NEW h, h = Head(P[e]), NEW P2, P2 = Put(P, e, Tail(P[e])),
         NEW C2, C2 = Put(C, e, Put(C[e], h, v))
  PROVE  \E Q2, T2 :
           /\ Filled(P, Q, T, C, e, v, P2, Q2, T2, C2) /\ Sound(P2, Q2, T2, C2)
           /\ \A L, M : Send(Full(P2, Q, T, C2, L, M), e, h) = Full(P2, Q2, T2, C2, L, M)
<1>1. e \in Buffer /\ "EP2RX" \in Buffer
  BY Loop DEF RxEndpoint
<1>2. P2 = [P EXCEPT ![e] = Tail(@)] /\ C2 = [C EXCEPT ![e][h] = v]
  BY DEF Put
<1>3. /\ BuffersOK(P, Q, T, NoneLost, e, NoBlock)
      /\ TasksOK(T) /\ T \in [Task -> TaskRecord]
      /\ P \in [Buffer -> Seq(Nat)] /\ Q \in [Buffer -> Seq(Nat)] /\ C[e] \in [Block(e) -> Int]
  BY <1>1, SoundParts
<1>4. BuffersOK(P2, Q, T, NoneLost, e, h) /\ h # NoBlock
  <2>1. BuffersOK([P EXCEPT ![e] = Tail(@)], Q, T, NoneLost, e, Head(P[e])) /\ Head(P[e]) # NoBlock
    BY <1>1, <1>3, PopPoolOK
  <2>2. QED
    BY <1>2, <2>1
<1>5. h \in Block(e) /\ Outside(P2[e], Q[e], h) /\ X(T, e) # h /\ Y(T, e) # h
  <2>1. Parts(Size[e], P2[e], Q[e], X(T, e), Y(T, e), h, NoneLost[e])
    BY <1>1, <1>4, HandParts
  <2>2. /\ Outside(P2[e], Q[e], h) /\ h \in 0 .. Size[e] /\ Size[e] \in Nat
        /\ X(T, e) # NoBlock => X(T, e) # h
        /\ Y(T, e) # NoBlock => Y(T, e) # h
    BY <1>1, <2>1, SizeType DEF Parts, Apart
  <2>3. QED
    BY <1>4, <2>2 DEF NoBlock, Block
<1>6. C2 = [p \in Buffer |-> C2[p]] /\ \A p \in Buffer : C2[p] \in [Block(p) -> Int]
  <2>1. PICK f : f = [C[e] EXCEPT ![h] = v]
    OBVIOUS
  <2>2. f \in [Block(e) -> Int]
    BY <1>3, <1>5, <2>1
  <2>3. C2 = [C EXCEPT ![e] = f] /\ C = [p \in Buffer |-> C[p]]
    BY <1>2, <2>1 DEF Sound
  <2>4. \A p \in Buffer : C2[p] = IF p = e THEN f ELSE C[p]
    BY <2>3
  <2>5. QED
    BY <2>2, <2>3, <2>4 DEF Sound
<1>7. PICK S : S = Send(Bf(P2, Q, T), e, h)
  OBVIOUS
<1>8. BuffersOK(S.pool, S.queue, S.task, NoneLost, "EP2RX", NoBlock)
  <2>1. StateOK(S, NoneLost, e, NoBlock)
    BY <1>1, <1>4, <1>7, SendOK
  <2>2. QED
    BY <1>1, <2>1, AnyHand DEF StateOK
<1>9. CASE RecvWaits(T, e)
  <2>1. PICK s \in Task : s = Receiver(e)
    BY <1>9, Ends DEF RecvWaits
  <2>2. PICK T2 : T2 = Receives(T, s, h)
    OBVIOUS
  <2>3. S = Bf(P2, Q, T2)
    BY <1>1, <1>3, <1>7, <1>9, <2>1, <2>2, SendIs
  <2>4. \A L, M : Send(Full(P2, Q, T, C2, L, M), e, h) = Full(P2, Q, T2, C2, L, M)
    BY <1>1, <1>3, <1>9, <2>1, <2>2, SendFull
  <2>5. ASSUME NEW q \in Buffer
        PROVE  RecvWaits(T2, q) => RecvWaits(T, q)
    <3>1. PICK a, b : T2 = With(T, s, Further(T, s, a, b))
      BY <2>2 DEF Receives
    <3>2. T \in [Task -> TaskRecord]
      BY <1>3
    <3>3. QED
      BY ONLY <3>1, <3>2, s \in Task, q \in Buffer, WithWaits
  <2>6. Sound(P2, Q, T2, C2)
    BY <1>6, <1>8, <2>3, <2>5 DEF Sound, Bf
  <2>7. Filled(P, Q, T, C, e, v, P2, Q, T2, C2)
    BY <1>2, <1>5, <1>9, <2>1, <2>2 DEF Filled
  <2>8. QED
    BY ONLY <2>4, <2>6, <2>7
<1>10. CASE ~RecvWaits(T, e)
  <2>1. PICK Q2 : Q2 = Appended(Q, e, h)
    OBVIOUS
  <2>2. S = Bf(P2, Q2, T)
    BY <1>1, <1>3, <1>7, <1>10, <2>1, SendIs
  <2>3. \A L, M : Send(Full(P2, Q, T, C2, L, M), e, h) = Full(P2, Q2, T, C2, L, M)
    BY <1>1, <1>3, <1>10, <2>1, SendFull
  <2>4. \A q \in Buffer : RecvWaits(T, q) => Q2[q] = <<>>
    <3>1. \A q \in Buffer : RecvWaits(T, q) => Q[q] = <<>> /\ q # e
      BY <1>10 DEF Sound
    <3>2. \A q \in Buffer \ {e} : Q2[q] = Q[q]
      <4>1. Q \in [Buffer -> Seq(Nat)] /\ e \in Buffer
        BY <1>1, <1>3
      <4>2. QED
        BY ONLY <2>1, <4>1, QueueIs
    <3>3. QED
      BY <3>1, <3>2
  <2>5. Sound(P2, Q2, T, C2)
    BY <1>6, <1>8, <2>2, <2>4 DEF Sound, Bf
  <2>6. Filled(P, Q, T, C, e, v, P2, Q2, T, C2)
    BY <1>2, <1>5, <1>10, <2>1 DEF Filled
  <2>7. QED
    BY ONLY <2>3, <2>5, <2>6
<1>11. QED
  BY <1>9, <1>10

\* The head b of the queue is taken and its block goes back.
Drained(Q, T, e, b, Q2, T2) ==
  \/ /\ SendWaits(T, e, "send") /\ Q2 = Appended(Headless(Q, e), e, T[Sender(e)].ptr)
     /\ T2 = Advances(T, Sender(e))
  \/ /\ ~SendWaits(T, e, "send") /\ Q2 = Headless(Q, e)
     /\ T2 = T \/ (SendWaits(T, e, "get") /\ T2 = Gets(T, Sender(e), b))

\* The block of a head goes back, to the task that waits for it or the pool.
LEMMA FreeSound ==
  ASSUME NEW P, NEW Q, NEW T, NEW e \in Buffer, NEW b, NEW C, b # NoBlock,
         BuffersOK(P, Q, T, NoneLost, e, b), "EP2RX" \in Buffer
  PROVE  \E P2, T2 :
           /\ T2 = T \/ (SendWaits(T, e, "get") /\ T2 = Gets(T, Sender(e), b))
           /\ BuffersOK(P2, Q, T2, NoneLost, "EP2RX", NoBlock)
           /\ \A L, M : Free(Full(P, Q, T, C, L, M), e, b) = Full(P2, Q, T2, C, L, M)
<1>1. TasksOK(T)
  BY DEF BuffersOK
<1>2. PICK S : S = Free(Bf(P, Q, T), e, b)
  OBVIOUS
<1>3. BuffersOK(S.pool, S.queue, S.task, NoneLost, "EP2RX", NoBlock)
  BY <1>2, FreeOK, AnyHand DEF StateOK
<1>4. CASE SendWaits(T, e, "get")
  <2>1. PICK T2 : T2 = Gets(T, Sender(e), b)
    OBVIOUS
  <2>2. S = Bf(P, Q, T2)
    BY <1>1, <1>2, <1>4, <2>1, FreeIs
  <2>3. \A L, M : Free(Full(P, Q, T, C, L, M), e, b) = Full(P, Q, T2, C, L, M)
    BY <1>1, <1>4, <2>1, FreeFull
  <2>4. BuffersOK(P, Q, T2, NoneLost, "EP2RX", NoBlock)
    BY <1>3, <2>2 DEF Bf
  <2>5. QED
    BY ONLY <1>4, <2>1, <2>3, <2>4
<1>5. CASE ~SendWaits(T, e, "get")
  <2>1. PICK P2 : P2 = Prepended(P, e, b)
    OBVIOUS
  <2>2. S = Bf(P2, Q, T)
    BY <1>1, <1>2, <1>5, <2>1, FreeIs
  <2>3. \A L, M : Free(Full(P, Q, T, C, L, M), e, b) = Full(P2, Q, T, C, L, M)
    BY <1>1, <1>5, <2>1, FreeFull
  <2>4. BuffersOK(P2, Q, T, NoneLost, "EP2RX", NoBlock)
    BY <1>3, <2>2 DEF Bf
  <2>5. QED
    BY ONLY <2>3, <2>4
<1>6. QED
  BY <1>4, <1>5

\* A task that has gone on does not wait to receive from any queue.
LEMMA GoneOn ==
  ASSUME NEW T, T \in [Task -> TaskRecord], NEW s \in Task, NEW b, NEW S,
         S = Advances(T, s) \/ S = Gets(T, s, b) \/ S = Receives(T, s, b)
  PROVE  /\ \A q \in Buffer : RecvWaits(S, q) => RecvWaits(T, q)
         /\ \A q \in Buffer \ {Source[s]} : RecvWaits(T, q) => RecvWaits(S, q)
         /\ S[s].waits = FALSE
<1>1. PICK c, d : S = With(T, s, Further(T, s, c, d))
  BY DEF Advances, Gets, Receives
<1>2. S[s].waits = FALSE
  BY <1>1 DEF With, Further
<1>3. ASSUME NEW q \in Buffer
      PROVE  /\ RecvWaits(S, q) => RecvWaits(T, q)
             /\ q # Source[s] /\ RecvWaits(T, q) => RecvWaits(S, q)
  <2>1. /\ RecvWaits(S, q) => RecvWaits(T, q) /\ Receiver(q) # s
        /\ RecvWaits(T, q) /\ Receiver(q) # s => RecvWaits(S, q)
    BY ONLY <1>1, T \in [Task -> TaskRecord], s \in Task, q \in Buffer, WithWaits
  <2>2. RecvWaits(T, q) /\ Receiver(q) = s => q = Source[s]
    BY Ends DEF RecvWaits
  <2>3. QED
    BY <2>1, <2>2
<1>4. QED
  BY <1>2, <1>3

LEMMA DrainSound ==
  ASSUME NEW P, NEW Q, NEW T, NEW C, Sound(P, Q, T, C), NEW e \in TxEndpoint,
         Q[e] # <<>>, NEW b, b = Head(Q[e])
  PROVE  \E P2, Q2, T2 :
           /\ Drained(Q, T, e, b, Q2, T2) /\ Sound(P2, Q2, T2, C)
           /\ \A L, M : Free(TakeHead(Full(P, Q, T, C, L, M), e), e, b) = Full(P2, Q2, T2, C, L, M)
<1>1. e \in Buffer /\ "EP2RX" \in Buffer /\ e \notin RecvBuf
  BY Loop DEF TxEndpoint, Buffer, RecvBuf
<1>2. /\ BuffersOK(P, Q, T, NoneLost, e, NoBlock)
      /\ TasksOK(T) /\ T \in [Task -> TaskRecord]
      /\ Q \in [Buffer -> Seq(Nat)] /\ QueuesOK(Q)
  BY <1>1, SoundParts DEF QueuesOK
<1>3. PICK R : R = TakeHead(Bf(P, Q, T), e)
  OBVIOUS
<1>4. BuffersOK(R.pool, R.queue, R.task, NoneLost, e, b) /\ b # NoBlock
  BY <1>1, <1>2, <1>3, TakeHeadOK DEF StateOK
<1>5. ASSUME NEW Q2, NEW T2, NEW P2,
             \A q \in Buffer \ {e} : Q2[q] = Q[q],
             \A q \in Buffer : RecvWaits(T2, q) => RecvWaits(T, q),
             BuffersOK(P2, Q2, T2, NoneLost, "EP2RX", NoBlock)
      PROVE  Sound(P2, Q2, T2, C)
  <2>1. \A q \in Buffer : RecvWaits(T2, q) => Q2[q] = <<>> 
    BY <1>1, <1>5 DEF Sound, RecvWaits
  <2>2. QED
    BY <1>5, <2>1 DEF Sound
<1>6. CASE SendWaits(T, e, "send")
  <2>1. PICK s \in Task : s = Sender(e)
    BY <1>6, Ends DEF SendWaits
  <2>2. PICK a : a = T[s].ptr
    OBVIOUS
  <2>3. PICK Q2, T1 : Q2 = Appended(Headless(Q, e), e, a) /\ T1 = Advances(T, s)
    OBVIOUS
  <2>4. R = Bf(P, Q2, T1)
    BY <1>1, <1>2, <1>3, <1>6, <2>1, <2>2, <2>3, TakeHeadIs
  <2>5. \A L, M : TakeHead(Full(P, Q, T, C, L, M), e) = Full(P, Q2, T1, C, L, M)
    BY <1>1, <1>2, <1>6, <2>1, <2>2, <2>3, TakeHeadFull
  <2>6. BuffersOK(P, Q2, T1, NoneLost, e, b)
    BY <1>4, <2>4 DEF Bf
  <2>7. /\ \A q \in Buffer : RecvWaits(T1, q) => RecvWaits(T, q)
        /\ T1[s].waits = FALSE
    <3>1. T \in [Task -> TaskRecord]
      BY <1>2
    <3>2. QED
      BY ONLY <2>3, <3>1, s \in Task, GoneOn
  <2>8. ~SendWaits(T1, e, "get")
    BY <2>1, <2>7 DEF SendWaits
  <2>9. PICK P2 : /\ BuffersOK(P2, Q2, T1, NoneLost, "EP2RX", NoBlock)
                  /\ \A L, M : Free(Full(P, Q2, T1, C, L, M), e, b) = Full(P2, Q2, T1, C, L, M)
    BY <1>1, <1>4, <2>6, <2>8, FreeSound
  <2>10. \A q \in Buffer \ {e} : Q2[q] = Q[q]
    <3>1. Q \in [Buffer -> Seq(Nat)] /\ e \in Buffer
      BY <1>1, <1>2
    <3>2. QED
      BY ONLY <2>3, <3>1, QueueIs
  <2>11. Sound(P2, Q2, T1, C)
    BY <1>5, <2>7, <2>9, <2>10
  <2>12. Drained(Q, T, e, b, Q2, T1)
    BY <1>6, <2>1, <2>2, <2>3 DEF Drained
  <2>13. QED
    BY ONLY <2>5, <2>9, <2>11, <2>12
<1>7. CASE ~SendWaits(T, e, "send")
  <2>1. PICK Q2 : Q2 = Headless(Q, e)
    OBVIOUS
  <2>2. R = Bf(P, Q2, T)
    BY <1>1, <1>2, <1>3, <1>7, <2>1, TakeHeadIs
  <2>3. \A L, M : TakeHead(Full(P, Q, T, C, L, M), e) = Full(P, Q2, T, C, L, M)
    BY <1>1, <1>2, <1>7, <2>1, TakeHeadFull
  <2>4. BuffersOK(P, Q2, T, NoneLost, e, b)
    BY <1>4, <2>2 DEF Bf
  <2>5. PICK P2, T2 :
          /\ T2 = T \/ (SendWaits(T, e, "get") /\ T2 = Gets(T, Sender(e), b))
          /\ BuffersOK(P2, Q2, T2, NoneLost, "EP2RX", NoBlock)
          /\ \A L, M : Free(Full(P, Q2, T, C, L, M), e, b) = Full(P2, Q2, T2, C, L, M)
    <3>1. e \in Buffer /\ "EP2RX" \in Buffer /\ b # NoBlock
      BY <1>1, <1>4
    <3>2. QED
      BY ONLY <2>4, <3>1, FreeSound
  <2>6. \A q \in Buffer : RecvWaits(T2, q) => RecvWaits(T, q)
    <3>1. CASE T2 = T
      BY <3>1
    <3>2. CASE SendWaits(T, e, "get") /\ T2 = Gets(T, Sender(e), b)
      <4>1. PICK s \in Task : s = Sender(e)
        BY <3>2, Ends DEF SendWaits
      <4>2. T2 = Gets(T, s, b) /\ T \in [Task -> TaskRecord]
        BY <1>2, <3>2, <4>1
      <4>3. QED
        BY ONLY <4>2, s \in Task, GoneOn
    <3>3. QED
      BY <2>5, <3>1, <3>2
  <2>7. \A q \in Buffer \ {e} : Q2[q] = Q[q]
    <3>1. Q \in [Buffer -> Seq(Nat)] /\ e \in Buffer
      BY <1>1, <1>2
    <3>2. QED
      BY ONLY <2>1, <3>1, QueueIs
  <2>8. Sound(P2, Q2, T2, C)
    BY <1>5, <2>5, <2>6, <2>7
  <2>9. Drained(Q, T, e, b, Q2, T2)
    BY <1>7, <2>1, <2>5 DEF Drained
  <2>10. QED
    BY ONLY <2>3, <2>5, <2>8, <2>9
<1>8. QED
  BY <1>6, <1>7

-----------------------------------------------------------------------------
\* The packets on their way, of any queues Q, tasks T and contents C.

Strip(Q, C, q) == Through(Q[q], C[q])
Carry(T, C, t) ==
  CASE T[t].at \in {"get", "copy"} -> Single(C[Source[t]][T[t].ptr1])
    [] T[t].at = "send" -> Single(C[Target[t]][T[t].ptr])
    [] OTHER -> None
Way(Q, T, C) == InLine(Strip(Q, C, "EP5TX"), Carry(T, C, "ep5_tx"), Strip(Q, C, "EPExch"),
                       Carry(T, C, "ep2_rx"), Strip(Q, C, "EP2RX"))

LEMMA WayIs ==
  /\ OnTheWay = Way(queue, task, content)
  /\ OnTheWay' = Way(queue', task', content')
<1>1. /\ \A q : Packets(q) = Strip(queue, content, q)
      /\ \A t : Carried(t) = Carry(task, content, t)
  BY DEF Packets, Strip, Through, Carried, Carry, Single, None
<1>2. /\ \A q : Packets(q)' = Strip(queue', content', q)
      /\ \A t : Carried(t)' = Carry(task', content', t)
  BY DEF Packets, Strip, Through, Carried, Carry, Single, None
<1>3. QED
  BY <1>1, <1>2, Whole DEF Way

\* The blocks of a queue and those of its tasks.
LEMMA SoundHolds ==
  ASSUME NEW P, NEW Q, NEW T, NEW C, Sound(P, Q, T, C), NEW t \in Task, NEW q \in Buffer
  PROVE  /\ q = Source[t] /\ T[t].at # "receive" =>
              T[t].ptr1 \in Block(q) /\ X(T, q) = T[t].ptr1
         /\ q = Target[t] /\ T[t].at \in {"copy", "send"} =>
              T[t].ptr \in Block(q) /\ Y(T, q) = T[t].ptr
<1>1. Parts(Size[q], P[q], Q[q], X(T, q), Y(T, q), NoBlock, 0) /\ RecordOK(t, T[t])
  BY SoundParts
<1>2. X(T, q) \in 0 .. Size[q] /\ Y(T, q) \in 0 .. Size[q] /\ Size[q] \in Nat
  BY <1>1, SizeType DEF Parts
<1>3. q # NoBuffer
  BY Ends
<1>4. ASSUME q = Source[t], T[t].at # "receive"
      PROVE  T[t].ptr1 \in Block(q) /\ X(T, q) = T[t].ptr1
  <2>1. X(T, q) = T[t].ptr1
    BY <1>4, SourceEnd DEF X, XOf
  <2>2. T[t].ptr1 # NoBlock
    BY <1>1, <1>3, <1>4 DEF RecordOK
  <2>3. QED
    BY <1>2, <2>1, <2>2 DEF Block, NoBlock
<1>5. ASSUME q = Target[t], T[t].at \in {"copy", "send"}
      PROVE  T[t].ptr \in Block(q) /\ Y(T, q) = T[t].ptr
  <2>1. Y(T, q) = T[t].ptr
    BY <1>5, TargetEnd DEF Y, YOf
  <2>2. T[t].ptr # NoBlock
    BY <1>1, <1>5 DEF RecordOK
  <2>3. QED
    BY <1>2, <2>1, <2>2 DEF Block, NoBlock
<1>6. QED
  BY <1>4, <1>5

LEMMA StripLine ==
  ASSUME NEW P, NEW Q, NEW T, NEW C, Sound(P, Q, T, C), NEW q \in Buffer
  PROVE  Line(Strip(Q, C, q)) /\ (Q[q] = <<>> => Strip(Q, C, q) = None)
<1>1. PICK B : B = Block(q)
  OBVIOUS
<1>2. Q[q] \in Seq(B) /\ C[q] \in [B -> Int]
  BY <1>1, SoundParts
<1>3. PICK s, R, D : s = Through(R, D) /\ R = Q[q] /\ D = C[q]
  OBVIOUS
<1>4. Line(s) /\ (R = <<>> => s = None)
  <2>1. R \in Seq(B) /\ D \in [B -> Int] /\ s = Through(R, D)
    BY <1>2, <1>3
  <2>2. QED
    BY ONLY <2>1, Parcel
<1>5. QED
  BY <1>3, <1>4 DEF Strip

LEMMA CarryIs ==
  ASSUME NEW T, NEW C, NEW t
  PROVE  /\ T[t].at \in {"get", "copy"} => Carry(T, C, t) = Single(C[Source[t]][T[t].ptr1])
         /\ T[t].at = "send" => Carry(T, C, t) = Single(C[Target[t]][T[t].ptr])
         /\ T[t].at \in {"receive", "release"} => Carry(T, C, t) = None
BY DEF Carry

LEMMA CarryLine ==
  ASSUME NEW P, NEW Q, NEW T, NEW C, Sound(P, Q, T, C), NEW t \in {"ep5_tx", "ep2_rx"}
  PROVE  Line(Carry(T, C, t))
<1>1. PICK p, q : p = Source[t] /\ q = Target[t] /\ p \in Buffer /\ q \in Buffer
  BY Loop
<1>2. t \in Task /\ T \in [Task -> TaskRecord]
  BY <1>1, Loop, SoundParts
<1>3. T[t].at \in Place
  BY <1>2 DEF TaskRecord
<1>4. C[p] \in [Block(p) -> Int] /\ C[q] \in [Block(q) -> Int]
  BY <1>1, SoundParts
<1>5. /\ T[t].at # "receive" => T[t].ptr1 \in Block(p)
      /\ T[t].at \in {"copy", "send"} => T[t].ptr \in Block(q)
  BY <1>1, <1>2, SoundHolds
<1>6. CASE T[t].at \in {"get", "copy"}
  <2>1. C[p][T[t].ptr1] \in Int
    BY <1>4, <1>5, <1>6
  <2>2. QED
    BY <1>1, <1>6, <2>1, CarryIs, CatRules
<1>7. CASE T[t].at = "send"
  <2>1. C[q][T[t].ptr] \in Int
    BY <1>4, <1>5, <1>7
  <2>2. QED
    BY <1>1, <1>7, <2>1, CarryIs, CatRules
<1>8. CASE T[t].at \in {"receive", "release"}
  BY <1>8, CarryIs, CatRules
<1>9. QED
  BY <1>3, <1>6, <1>7, <1>8 DEF Place

LEMMA WayLines ==
  ASSUME NEW P, NEW Q, NEW T, NEW C, Sound(P, Q, T, C)
  PROVE  /\ Line(Strip(Q, C, "EP5TX")) /\ Line(Carry(T, C, "ep5_tx"))
         /\ Line(Strip(Q, C, "EPExch")) /\ Line(Carry(T, C, "ep2_rx"))
         /\ Line(Strip(Q, C, "EP2RX")) /\ Line(Way(Q, T, C))
<1>1. /\ Line(Strip(Q, C, "EP5TX")) /\ Line(Carry(T, C, "ep5_tx"))
      /\ Line(Strip(Q, C, "EPExch")) /\ Line(Carry(T, C, "ep2_rx"))
      /\ Line(Strip(Q, C, "EP2RX"))
  BY StripLine, CarryLine, Loop
<1>2. QED
  BY <1>1, CatRules DEF Way, InLine

\* What reads the same before and after.
LEMMA StripSame ==
  ASSUME NEW Q, NEW C, NEW R, NEW D, NEW q, Q[q] \in Seq(Nat), R[q] = Q[q],
         \A i \in 1 .. Len(Q[q]) : D[q][Q[q][i]] = C[q][Q[q][i]]
  PROVE  Strip(R, D, q) = Strip(Q, C, q)
<1>1. DOMAIN Q[q] = 1 .. Len(Q[q])
  OBVIOUS
<1>2. QED
  BY <1>1 DEF Strip, Through

LEMMA CarrySame ==
  ASSUME NEW T, NEW C, NEW S, NEW D, NEW t, S[t].at = T[t].at,
         S[t].ptr1 = T[t].ptr1, S[t].ptr = T[t].ptr,
         T[t].at \in {"get", "copy"} => D[Source[t]][T[t].ptr1] = C[Source[t]][T[t].ptr1],
         T[t].at = "send" => D[Target[t]][T[t].ptr] = C[Target[t]][T[t].ptr]
  PROVE  Carry(S, D, t) = Carry(T, C, t)
BY DEF Carry

LEMMA StripGrows ==
  ASSUME NEW Q, NEW C, NEW R, NEW q, Q[q] \in Seq(Block(q)), C[q] \in [Block(q) -> Int],
         NEW b \in Block(q), R[q] = Append(Q[q], b)
  PROVE  Strip(R, C, q) = Cat(Strip(Q, C, q), Single(C[q][b]))
<1>1. PICK B, G, H, D, s, t : /\ B = Block(q) /\ G = Q[q] /\ H = R[q] /\ D = C[q]
                              /\ s = Through(G, D) /\ t = Through(H, D)
  OBVIOUS
<1>2. /\ G \in Seq(B) /\ D \in [B -> Int] /\ b \in B /\ H = Longer(G, b)
      /\ s = Through(G, D) /\ t = Through(H, D)
  BY <1>1 DEF Longer
<1>3. t = Cat(s, Single(D[b]))
  BY ONLY <1>2, ParcelGrows
<1>4. QED
  BY <1>1, <1>3 DEF Strip

LEMMA StripShrinks ==
  ASSUME NEW Q, NEW C, NEW R, NEW q, Q[q] \in Seq(Block(q)), C[q] \in [Block(q) -> Int],
         Q[q] # <<>>, R[q] = Tail(Q[q])
  PROVE  /\ Strip(Q, C, q) = Cat(Single(C[q][Head(Q[q])]), Strip(R, C, q))
         /\ Line(Strip(R, C, q)) /\ R[q] \in Seq(Block(q))
<1>1. PICK B, G, H, D, s, t : /\ B = Block(q) /\ G = Q[q] /\ H = R[q] /\ D = C[q]
                              /\ s = Through(G, D) /\ t = Through(H, D)
  OBVIOUS
<1>2. /\ G \in Seq(B) /\ D \in [B -> Int] /\ G # <<>> /\ H = Shorter(G)
      /\ s = Through(G, D) /\ t = Through(H, D)
  BY <1>1 DEF Shorter
<1>3. s = Cat(Single(D[Head(G)]), t)
  BY ONLY <1>2, ParcelShrinks
<1>4. H \in Seq(B)
  BY <1>2 DEF Shorter
<1>5. Line(t)
  BY <1>2, <1>4, Parcel
<1>6. QED
  BY <1>1, <1>3, <1>4, <1>5 DEF Strip

\* The places in the loops after the calls.
LEMMA Nexts ==
  /\ After("ep2_rx", "receive") = "get" /\ After("ep5_tx", "send") = "release"
  /\ After("ep5_tx", "get") = "copy"
BY Loop, Wiring DEF After

\* The packet that comes from the engine is the last one on its way.
LEMMA FillWay ==
  ASSUME NEW P, NEW Q, NEW T, NEW C, Sound(P, Q, T, C), NEW e \in RxEndpoint, NEW v \in Int,
         NEW P2, NEW Q2, NEW T2, NEW C2, Sound(P2, Q2, T2, C2),
         Filled(P, Q, T, C, e, v, P2, Q2, T2, C2)
  PROVE  /\ e = "EP2RX" => Way(Q2, T2, C2) = Cat(Way(Q, T, C), Single(v))
         /\ e # "EP2RX" => Way(Q2, T2, C2) = Way(Q, T, C)
<1>1. PICK h : /\ h = Head(P[e]) /\ h \in Block(e)
               /\ C2 = [C EXCEPT ![e][h] = v]
               /\ Outside(P2[e], Q[e], h) /\ X(T, e) # h /\ Y(T, e) # h
               /\ \/ RecvWaits(T, e) /\ Q2 = Q /\ T2 = Receives(T, Receiver(e), h)
                  \/ ~RecvWaits(T, e) /\ Q2 = Appended(Q, e, h) /\ T2 = T
  BY DEF Filled
<1>2. e \in Buffer /\ T \in [Task -> TaskRecord] /\ Q \in [Buffer -> Seq(Nat)]
  BY Loop, SoundParts DEF RxEndpoint
<1>3. C2[e][h] = v /\ \A q \in Buffer : \A c : ~(q = e /\ c = h) => C2[q][c] = C[q][c]
  <2>1. C = [p \in Buffer |-> C[p]] /\ C[e] \in [Block(e) -> Int]
    BY <1>2 DEF Sound
  <2>2. PICK f : f = [C[e] EXCEPT ![h] = v]
    OBVIOUS
  <2>3. f[h] = v /\ \A c : c # h => f[c] = C[e][c]
    BY <1>1, <2>1, <2>2
  <2>4. C2 = [C EXCEPT ![e] = f]
    BY <1>1, <2>2
  <2>5. C2[e] = f /\ \A q \in Buffer \ {e} : C2[q] = C[q]
    BY <1>2, <2>1, <2>4
  <2>6. QED
    BY <2>3, <2>5
<1>4. ASSUME NEW q \in Buffer, NEW R, R[q] = Q[q]
      PROVE  Strip(R, C2, q) = Strip(Q, C, q)
  <2>1. \A i \in 1 .. Len(Q[q]) : C2[q][Q[q][i]] = C[q][Q[q][i]]
    BY <1>1, <1>3 DEF Outside
  <2>2. Q[q] \in Seq(Nat) /\ R[q] = Q[q]
    BY <1>2, <1>4
  <2>3. QED
    BY ONLY <2>1, <2>2, StripSame
<1>5. ASSUME NEW t \in {"ep5_tx", "ep2_rx"}, T2[t] = T[t]
      PROVE  Carry(T2, C2, t) = Carry(T, C, t)
  <2>1. PICK p \in Buffer, q \in Buffer : p = Source[t] /\ q = Target[t]
    BY Loop
  <2>2. t \in Task
    BY Loop
  <2>3. T[t].at \in {"get", "copy"} => C2[p][T[t].ptr1] = C[p][T[t].ptr1]
    <3>1. SUFFICES ASSUME T[t].at \in {"get", "copy"}
                   PROVE  C2[p][T[t].ptr1] = C[p][T[t].ptr1]
      OBVIOUS
    <3>2. X(T, p) = T[t].ptr1
      BY <2>1, <2>2, <3>1, SoundHolds
    <3>3. QED
      BY <1>1, <1>3, <3>2
  <2>4. T[t].at = "send" => C2[q][T[t].ptr] = C[q][T[t].ptr]
    <3>1. SUFFICES ASSUME T[t].at = "send"
                   PROVE  C2[q][T[t].ptr] = C[q][T[t].ptr]
      OBVIOUS
    <3>2. Y(T, q) = T[t].ptr
      BY <2>1, <2>2, <3>1, SoundHolds
    <3>3. QED
      BY <1>1, <1>3, <3>2
  <2>5. QED
    BY <1>5, <2>1, <2>3, <2>4, CarrySame
<1>6. PICK a, b, c, d, f :
        /\ a = Strip(Q, C, "EP5TX") /\ b = Carry(T, C, "ep5_tx") /\ c = Strip(Q, C, "EPExch")
        /\ d = Carry(T, C, "ep2_rx") /\ f = Strip(Q, C, "EP2RX")
  OBVIOUS
<1>7. /\ Line(a) /\ Line(b) /\ Line(c) /\ Line(d) /\ Line(f) /\ Line(Single(v))
      /\ Way(Q, T, C) = InLine(a, b, c, d, f)
  BY <1>6, WayLines, CatRules DEF Way
<1>8. CASE RecvWaits(T, e) /\ Q2 = Q /\ T2 = Receives(T, Receiver(e), h)
  <2>1. PICK s \in Task : s = Receiver(e)
    BY <1>8, Ends DEF RecvWaits
  <2>2. PICK n : n = T[s].ptr
    OBVIOUS
  <2>3. T2 = With(T, s, Further(T, s, h, n))
    BY <1>8, <2>1, <2>2 DEF Receives
  <2>4. T2[s].at = After(s, T[s].at) /\ T2[s].ptr1 = h /\ \A u \in Task \ {s} : T2[u] = T[u]
    <3>1. T \in [Task -> TaskRecord]
      BY <1>2
    <3>2. QED
      BY <2>3, <3>1 DEF With, Further
  <2>5. /\ Strip(Q2, C2, "EP5TX") = a /\ Strip(Q2, C2, "EPExch") = c /\ Strip(Q2, C2, "EP2RX") = f
    BY <1>4, <1>6, <1>8, Loop
  <2>6. T2["ep5_tx"] = T["ep5_tx"]
    BY <2>1, <2>4, Loop DEF RxEndpoint
  <2>7. Carry(T2, C2, "ep5_tx") = b
    BY <1>5, <1>6, <2>6
  <2>8. CASE e = "EP2RX"
    <3>1. s = "ep2_rx" /\ T[s].at = "receive" /\ f = None /\ d = None
      <4>1. s = "ep2_rx" /\ T[s].at = "receive" /\ Q[e] = <<>>
        BY <1>2, <1>8, <2>1, <2>8, Loop DEF RecvWaits, Sound
      <4>2. f = None
        BY <1>2, <1>6, <2>8, <4>1, StripLine
      <4>3. QED
        BY <1>6, <4>1, <4>2, CarryIs
    <3>2. T2[s].at = "get" /\ Source[s] = e
      BY <2>4, <2>8, <3>1, Nexts, Loop
    <3>3. Carry(T2, C2, "ep2_rx") = Single(v)
      BY <1>3, <2>4, <3>1, <3>2, CarryIs
    <3>4. Way(Q2, T2, C2) = InLine(a, b, c, Single(v), None)
      BY <2>5, <2>7, <3>1, <3>3 DEF Way
    <3>5. InLine(a, b, c, Single(v), None) = Cat(InLine(a, b, c, None, None), Single(v))
      BY <1>7, LineStarts
    <3>6. QED
      BY <1>7, <2>8, <3>1, <3>4, <3>5
  <2>9. CASE e # "EP2RX"
    <3>1. T2["ep2_rx"] = T["ep2_rx"]
      BY <2>1, <2>4, <2>9, Loop DEF RxEndpoint
    <3>2. Carry(T2, C2, "ep2_rx") = d
      BY <1>5, <1>6, <3>1
    <3>3. QED
      BY <1>7, <2>5, <2>7, <2>9, <3>2 DEF Way
  <2>10. QED
    BY <2>8, <2>9
<1>9. CASE ~RecvWaits(T, e) /\ Q2 = Appended(Q, e, h) /\ T2 = T
  <2>1. Q2[e] = Append(Q[e], h) /\ \A p \in Buffer \ {e} : Q2[p] = Q[p]
    BY <1>2, <1>9, QueueIs
  <2>2. Strip(Q2, C2, "EP5TX") = a /\ Strip(Q2, C2, "EPExch") = c
    <3>1. e # "EP5TX" /\ e # "EPExch"
      BY DEF RxEndpoint
    <3>2. QED
      BY <1>4, <1>6, <2>1, <3>1, Loop
  <2>3. Carry(T2, C2, "ep5_tx") = b /\ Carry(T2, C2, "ep2_rx") = d
    BY <1>5, <1>6, <1>9
  <2>4. CASE e = "EP2RX"
    <3>1. Q[e] \in Seq(Block(e)) /\ C2[e] \in [Block(e) -> Int]
      BY <1>2, SoundParts
    <3>2. Strip(Q2, C2, e) = Cat(Strip(Q, C2, e), Single(v))
      <4>1. h \in Block(e) /\ Q2[e] = Append(Q[e], h)
        BY <1>1, <2>1
      <4>2. Strip(Q2, C2, e) = Cat(Strip(Q, C2, e), Single(C2[e][h]))
        BY ONLY <3>1, <4>1, StripGrows
      <4>3. QED
        BY <1>3, <4>2
    <3>3. Strip(Q, C2, e) = f
      BY <1>2, <1>4, <1>6, <2>4
    <3>4. Way(Q2, T2, C2) = InLine(a, b, c, d, Cat(f, Single(v)))
      BY <2>2, <2>3, <2>4, <3>2, <3>3 DEF Way
    <3>5. QED
      BY <1>7, <2>4, <3>4, LineGrows
  <2>5. CASE e # "EP2RX"
    <3>1. Strip(Q2, C2, "EP2RX") = f
      BY <1>4, <1>6, <2>1, <2>5, Loop
    <3>2. QED
      BY <1>7, <2>2, <2>3, <2>5, <3>1 DEF Way
  <2>6. QED
    BY <2>4, <2>5
<1>10. QED
  BY <1>1, <1>8, <1>9

\* The packet that is given to the engine is the first one on its way.
LEMMA DrainWay ==
  ASSUME NEW P, NEW Q, NEW T, NEW C, Sound(P, Q, T, C), NEW e \in TxEndpoint,
         Q[e] # <<>>, NEW b, b = Head(Q[e]), NEW Q2, NEW T2, Drained(Q, T, e, b, Q2, T2)
  PROVE  /\ C[e][b] \in Int
         /\ e = "EP5TX" => Way(Q, T, C) = Cat(Single(C[e][b]), Way(Q2, T2, C))
         /\ e # "EP5TX" => Way(Q2, T2, C) = Way(Q, T, C)
<1>1. /\ e \in Buffer /\ T \in [Task -> TaskRecord] /\ Q \in [Buffer -> Seq(Nat)]
      /\ Q[e] \in Seq(Block(e)) /\ C[e] \in [Block(e) -> Int]
  BY Loop, SoundParts DEF TxEndpoint
<1>2. PICK x : x = C[e][b] /\ x \in Int
  BY <1>1
<1>3. PICK s \in Task : s = Sender(e) /\ Target[s] = e
  BY Loop DEF TxEndpoint
<1>4. /\ s = "ep5_tx" \/ s = "ep2_tx"
      /\ e = "EP5TX" <=> s = "ep5_tx"
  BY <1>3, Loop DEF TxEndpoint
<1>5. PICK a, c0, d, f, g :
        /\ a = Strip(Q, C, "EP5TX") /\ c0 = Carry(T, C, "ep5_tx") /\ d = Strip(Q, C, "EPExch")
        /\ f = Carry(T, C, "ep2_rx") /\ g = Strip(Q, C, "EP2RX")
  OBVIOUS
<1>6. /\ Line(a) /\ Line(c0) /\ Line(d) /\ Line(f) /\ Line(g) /\ Line(Single(x))
      /\ Way(Q, T, C) = InLine(a, c0, d, f, g)
  BY <1>2, <1>5, WayLines, CatRules DEF Way
<1>7. ASSUME \A q \in Buffer \ {e} : Q2[q] = Q[q]
      PROVE  /\ e # "EP5TX" => Strip(Q2, C, "EP5TX") = a
             /\ Strip(Q2, C, "EPExch") = d /\ Strip(Q2, C, "EP2RX") = g
  BY <1>5, <1>7, Loop DEF Strip, TxEndpoint
<1>8. ASSUME NEW t, T2[t] = T[t]
      PROVE  Carry(T2, C, t) = Carry(T, C, t)
  BY <1>8 DEF Carry
<1>9. PICK D, R : R = Headless(Q, e) /\ D = Tail(Q[e])
  OBVIOUS
<1>10. R[e] = D /\ \A q \in Buffer \ {e} : R[q] = Q[q]
  BY <1>1, <1>9, QueueIs
<1>11. PICK t0 : t0 = Strip(R, C, e)
  OBVIOUS
<1>12. Strip(Q, C, e) = Cat(Single(x), t0) /\ Line(t0) /\ R[e] \in Seq(Block(e))
  <2>1. /\ Q[e] \in Seq(Block(e)) /\ C[e] \in [Block(e) -> Int] /\ Q[e] # <<>>
        /\ R[e] = Tail(Q[e])
    BY <1>1, <1>9, <1>10
  <2>2. /\ Strip(Q, C, e) = Cat(Single(C[e][Head(Q[e])]), Strip(R, C, e))
        /\ Line(Strip(R, C, e)) /\ R[e] \in Seq(Block(e))
    BY ONLY <2>1, StripShrinks
  <2>3. QED
    BY <1>2, <1>11, <2>2
<1>13. CASE /\ SendWaits(T, e, "send") /\ Q2 = Appended(Headless(Q, e), e, T[s].ptr)
            /\ T2 = Advances(T, s)
  <2>1. PICK n, m : n = T[s].ptr /\ m = T[s].ptr1
    OBVIOUS
  <2>2. T2[s].at = After(s, T[s].at) /\ \A u \in Task \ {s} : T2[u] = T[u]
    <3>1. T \in [Task -> TaskRecord] /\ T2 = With(T, s, Further(T, s, m, n))
      BY <1>1, <1>13, <2>1 DEF Advances
    <3>2. QED
      BY <3>1 DEF With, Further
  <2>3. T[s].at = "send" /\ n \in Block(e)
    <3>1. T[s].at = "send"
      BY <1>3, <1>13 DEF SendWaits
    <3>2. QED
      BY <1>1, <1>3, <2>1, <3>1, SoundHolds
  <2>4. PICK y : y = C[e][n] /\ y \in Int
    BY <1>1, <2>3
  <2>5. Q2[e] = Append(R[e], n) /\ \A q \in Buffer \ {e} : Q2[q] = Q[q]
    <3>1. Q2 = Appended(Headless(Q, e), e, n) /\ R[e] = Tail(Q[e])
      BY <1>9, <1>10, <1>13, <2>1
    <3>2. Q \in [Buffer -> Seq(Nat)] /\ e \in Buffer
      BY <1>1
    <3>3. /\ Appended(Headless(Q, e), e, n)[e] = Append(Tail(Q[e]), n)
          /\ \A q \in Buffer \ {e} : Appended(Headless(Q, e), e, n)[q] = Q[q]
      BY ONLY <3>2, QueueIs
    <3>4. QED
      BY <3>1, <3>3
  <2>6. Carry(T2, C, "ep2_rx") = f
    BY <1>4, <1>5, <1>8, <2>2, Loop
  <2>7. CASE e = "EP5TX"
    <3>1. Strip(Q2, C, e) = Cat(t0, Single(y))
      <4>1. /\ R[e] \in Seq(Block(e)) /\ C[e] \in [Block(e) -> Int] /\ n \in Block(e)
            /\ Q2[e] = Append(R[e], n)
        BY <1>1, <1>12, <2>3, <2>5
      <4>2. Strip(Q2, C, e) = Cat(Strip(R, C, e), Single(C[e][n]))
        BY ONLY <4>1, StripGrows
      <4>3. QED
        BY <1>11, <2>4, <4>2
    <3>2. c0 = Single(y)
      BY <1>3, <1>4, <1>5, <2>1, <2>3, <2>4, <2>7, CarryIs
    <3>3. Carry(T2, C, "ep5_tx") = None
      <4>1. T2["ep5_tx"].at = "release"
        BY <1>4, <2>2, <2>3, <2>7, Nexts
      <4>2. QED
        BY <4>1, CarryIs
    <3>4. Line(Single(y))
      BY <2>4, CatRules
    <3>5. Way(Q2, T2, C) = InLine(Cat(t0, Single(y)), None, d, f, g)
      BY <1>7, <2>5, <2>6, <2>7, <3>1, <3>3 DEF Way
    <3>6. Way(Q, T, C) = InLine(Cat(Single(x), t0), Single(y), d, f, g)
      BY <1>5, <1>6, <1>12, <2>7, <3>2
    <3>7. InLine(t0, Single(y), d, f, g) = InLine(Cat(t0, Single(y)), None, d, f, g)
      BY <1>6, <1>12, <3>4, CatRules DEF InLine
    <3>8. InLine(Cat(Single(x), t0), Single(y), d, f, g)
            = Cat(Single(x), InLine(t0, Single(y), d, f, g))
      BY <1>6, <1>12, <3>4, LineGives
    <3>9. QED
      BY <1>2, <2>7, <3>5, <3>6, <3>7, <3>8
  <2>8. CASE e # "EP5TX"
    <3>1. T2["ep5_tx"] = T["ep5_tx"]
      BY <1>4, <2>2, <2>8, Loop
    <3>2. Carry(T2, C, "ep5_tx") = c0
      BY <1>5, <1>8, <3>1
    <3>3. QED
      BY <1>2, <1>6, <1>7, <2>5, <2>6, <2>8, <3>2 DEF Way
  <2>9. QED
    BY <2>7, <2>8
<1>14. CASE /\ Q2 = Headless(Q, e)
            /\ T2 = T \/ (SendWaits(T, e, "get") /\ T2 = Gets(T, s, b))
  <2>1. Carry(T2, C, "ep2_rx") = f /\ Carry(T2, C, "ep5_tx") = c0
    <3>1. CASE T2 = T
      BY <1>5, <3>1
    <3>2. CASE SendWaits(T, e, "get") /\ T2 = Gets(T, s, b)
      <4>1. PICK m : m = T[s].ptr1
        OBVIOUS
      <4>2. T2[s].at = After(s, T[s].at) /\ T2[s].ptr1 = m /\ \A u \in Task \ {s} : T2[u] = T[u]
        <5>1. T \in [Task -> TaskRecord] /\ T2 = With(T, s, Further(T, s, m, b))
          BY <1>1, <3>2, <4>1 DEF Gets
        <5>2. QED
          BY <5>1 DEF With, Further
      <4>3. Carry(T2, C, "ep2_rx") = f
        BY <1>4, <1>5, <1>8, <4>2, Loop
      <4>4. CASE s = "ep5_tx"
        <5>1. T[s].at = "get"
          BY <1>3, <3>2 DEF SendWaits
        <5>2. T2[s].at = "copy"
          BY <4>2, <4>4, <5>1, Nexts
        <5>3. Carry(T2, C, s) = Carry(T, C, s)
          BY <4>1, <4>2, <5>1, <5>2, CarryIs
        <5>4. QED
          BY <1>5, <4>3, <4>4, <5>3
      <4>5. CASE s # "ep5_tx"
        <5>1. T2["ep5_tx"] = T["ep5_tx"]
          BY <4>2, <4>5, Loop
        <5>2. QED
          BY <1>5, <1>8, <4>3, <5>1
      <4>6. QED
        BY <4>4, <4>5
    <3>3. QED
      BY <1>14, <3>1, <3>2
  <2>2. Q2 = R
    BY <1>9, <1>14
  <2>3. CASE e = "EP5TX"
    <3>1. Way(Q2, T2, C) = InLine(t0, c0, d, f, g)
      BY <1>7, <1>10, <1>11, <2>1, <2>2, <2>3 DEF Way
    <3>2. Way(Q, T, C) = InLine(Cat(Single(x), t0), c0, d, f, g)
      BY <1>5, <1>6, <1>12, <2>3
    <3>3. InLine(Cat(Single(x), t0), c0, d, f, g) = Cat(Single(x), InLine(t0, c0, d, f, g))
      BY <1>6, <1>12, LineGives
    <3>4. QED
      BY <1>2, <2>3, <3>1, <3>2, <3>3
  <2>4. CASE e # "EP5TX"
    BY <1>2, <1>6, <1>7, <1>10, <2>1, <2>2, <2>4 DEF Way
  <2>5. QED
    BY <2>3, <2>4
<1>15. QED
  BY <1>3, <1>13, <1>14 DEF Drained

-----------------------------------------------------------------------------
\* What the three operations of the handler do to the engine's data.

Eng(d, u, n, o, r) == [dd |-> d, udca |-> u, enabled |-> n, EoT |-> o, NDDR |-> r]
Armed(M, e, i, dds) ==
  Eng(Put(M.dd, e, dds), Put(M.udca, e, i), M.enabled \cup {e}, M.EoT, M.NDDR \ {e})
Cleared(M, e) == Eng(M.dd, M.udca, M.enabled, M.EoT \ {e}, M.NDDR)
Answered(M, e) == Eng(M.dd, M.udca, M.enabled, M.EoT, M.NDDR \ {e})

LEMMA EngIs ==
  ASSUME NEW M, M \in EngineType
  PROVE  M = Eng(M.dd, M.udca, M.enabled, M.EoT, M.NDDR)
BY DEF EngineType, Eng

\* One field of the handler's record is written.
SetEoT(S, v)     == [S EXCEPT !.dma.EoT = v]
SetNDDR(S, v)    == [S EXCEPT !.dma.NDDR = v]
SetEnabled(S, v) == [S EXCEPT !.dma.enabled = v]
SetUdca(S, e, v) == [S EXCEPT !.dma.udca[e] = v]
SetDds(S, e, v)  == [S EXCEPT !.dma.dd[e] = v]

LEMMA FullEng ==
  ASSUME NEW P, NEW Q, NEW T, NEW K, NEW L, NEW d, NEW u, NEW n, NEW o, NEW r,
         NEW S, S = Full(P, Q, T, K, L, Eng(d, u, n, o, r))
  PROVE  /\ \A v : /\ SetEoT(S, v) = Full(P, Q, T, K, L, Eng(d, u, n, v, r))
                   /\ SetNDDR(S, v) = Full(P, Q, T, K, L, Eng(d, u, n, o, v))
                   /\ SetEnabled(S, v) = Full(P, Q, T, K, L, Eng(d, u, v, o, r))
         /\ \A e, v : SetUdca(S, e, v) = Full(P, Q, T, K, L, Eng(d, Put(u, e, v), n, o, r))
         /\ \A e, v : SetDds(S, e, v) = Full(P, Q, T, K, L, Eng(Put(d, e, v), u, n, o, r))
<1>1. PICK M : M = Eng(d, u, n, o, r)
  OBVIOUS
<1>2. S.dma = M /\ \A N : [S EXCEPT !.dma = N] = Full(P, Q, T, K, L, N)
  BY <1>1, FullIs
<1>3. /\ M.dd = d /\ M.udca = u /\ M.enabled = n /\ M.EoT = o /\ M.NDDR = r
      /\ \A w : /\ [M EXCEPT !.EoT = w] = Eng(d, u, n, w, r)
                /\ [M EXCEPT !.NDDR = w] = Eng(d, u, n, o, w)
                /\ [M EXCEPT !.enabled = w] = Eng(d, u, w, o, r)
                /\ [M EXCEPT !.udca = w] = Eng(d, w, n, o, r)
                /\ [M EXCEPT !.dd = w] = Eng(w, u, n, o, r)
  BY <1>1 DEF Eng
<1>4. ASSUME NEW v
      PROVE  /\ SetEoT(S, v) = [S EXCEPT !.dma = [M EXCEPT !.EoT = v]]
             /\ SetNDDR(S, v) = [S EXCEPT !.dma = [M EXCEPT !.NDDR = v]]
             /\ SetEnabled(S, v) = [S EXCEPT !.dma = [M EXCEPT !.enabled = v]]
  BY <1>2 DEF SetEoT, SetNDDR, SetEnabled
<1>5. ASSUME NEW e, NEW v
      PROVE  /\ SetUdca(S, e, v) = [S EXCEPT !.dma = [M EXCEPT !.udca = Put(u, e, v)]]
             /\ SetDds(S, e, v) = [S EXCEPT !.dma = [M EXCEPT !.dd = Put(d, e, v)]]
  BY <1>2, <1>3 DEF SetUdca, SetDds, Put
<1>6. \A v : /\ SetEoT(S, v) = Full(P, Q, T, K, L, Eng(d, u, n, v, r))
            /\ SetNDDR(S, v) = Full(P, Q, T, K, L, Eng(d, u, n, o, v))
            /\ SetEnabled(S, v) = Full(P, Q, T, K, L, Eng(d, u, v, o, r))
  BY <1>2, <1>3, <1>4
<1>7. /\ \A e, v : SetUdca(S, e, v) = Full(P, Q, T, K, L, Eng(d, Put(u, e, v), n, o, r))
      /\ \A e, v : SetDds(S, e, v) = Full(P, Q, T, K, L, Eng(Put(d, e, v), u, n, o, r))
  BY <1>2, <1>3, <1>5
<1>8. QED
  BY <1>6, <1>7

LEMMA FieldsAre ==
  ASSUME NEW P, NEW Q, NEW T, NEW K, NEW L, NEW d, NEW u, NEW n, NEW o, NEW r,
         NEW S, S = Full(P, Q, T, K, L, Eng(d, u, n, o, r))
  PROVE  /\ S.pool = P /\ S.queue = Q /\ S.task = T /\ S.content = K /\ S.dropped = L
         /\ S.dma = Eng(d, u, n, o, r)
         /\ S.dma.dd = d /\ S.dma.udca = u /\ S.dma.enabled = n /\ S.dma.EoT = o /\ S.dma.NDDR = r
BY DEF Full, Eng

\* The four writes of a request that is answered with a DD.
Arms(S, e, r, n, i, dds) == SetDds(SetUdca(SetEnabled(SetNDDR(S, r), n), e, i), e, dds)

LEMMA ArmsFull ==
  ASSUME NEW P, NEW Q, NEW T, NEW K, NEW L, NEW M, M \in EngineType, NEW e, NEW i, NEW dds,
         NEW S, S = Full(P, Q, T, K, L, M)
  PROVE  Arms(S, e, M.NDDR \ {e}, M.enabled \cup {e}, i, dds)
           = Full(P, Q, T, K, L, Armed(M, e, i, dds))
<1>1. PICK d, u, n, o, r : d = M.dd /\ u = M.udca /\ n = M.enabled /\ o = M.EoT /\ r = M.NDDR
  OBVIOUS
<1>2. S = Full(P, Q, T, K, L, Eng(d, u, n, o, r))
  BY <1>1, EngIs
<1>3. PICK r2, n2, u2, d2 : /\ r2 = r \ {e} /\ n2 = n \cup {e}
                            /\ u2 = Put(u, e, i) /\ d2 = Put(d, e, dds)
  OBVIOUS
<1>4. PICK S1 : S1 = SetNDDR(S, r2)
  OBVIOUS
<1>5. S1 = Full(P, Q, T, K, L, Eng(d, u, n, o, r2))
  BY ONLY <1>2, <1>4, FullEng
<1>6. PICK S2 : S2 = SetEnabled(S1, n2)
  OBVIOUS
<1>7. S2 = Full(P, Q, T, K, L, Eng(d, u, n2, o, r2))
  BY ONLY <1>5, <1>6, FullEng
<1>8. PICK S3 : S3 = SetUdca(S2, e, i)
  OBVIOUS
<1>9. S3 = Full(P, Q, T, K, L, Eng(d, u2, n2, o, r2))
  <2>1. S3 = Full(P, Q, T, K, L, Eng(d, Put(u, e, i), n2, o, r2))
    BY ONLY <1>7, <1>8, FullEng
  <2>2. QED
    BY <1>3, <2>1
<1>10. SetDds(S3, e, dds) = Full(P, Q, T, K, L, Eng(d2, u2, n2, o, r2))
  <2>1. SetDds(S3, e, dds) = Full(P, Q, T, K, L, Eng(Put(d, e, dds), u2, n2, o, r2))
    BY ONLY <1>9, FullEng
  <2>2. QED
    BY <1>3, <2>1
<1>11. Armed(M, e, i, dds) = Eng(d2, u2, n2, o, r2)
  BY <1>1, <1>3 DEF Armed
<1>12. QED
  BY <1>1, <1>3, <1>4, <1>6, <1>8, <1>10, <1>11 DEF Arms

LEMMA EndOfTransferFull ==
  ASSUME NEW P, NEW Q, NEW T, NEW C, NEW L, NEW M, M \in EngineType, TasksOK(T),
         NEW e \in RxEndpoint, P[e] # <<>>, NEW h, h = Head(P[e]), 
         RecvWaits(T, e) \/ Len(Q[e]) # Size[e] - 1,
         NEW P2, P2 = Put(P, e, Tail(P[e])),
         NEW C2, C2 = Put(C, e, Put(C[e], h, Current(M, e).holds))
  PROVE  ep_rx_end_of_transfer(Full(P, Q, T, C, L, M), e)
           = Send(Full(P2, Q, T, C2, L, Cleared(M, e)), e, h)
<1>0. P2 = [P EXCEPT ![e] = Tail(@)] /\ C2 = [C EXCEPT ![e][h] = Current(M, e).holds]
  BY DEF Put
<1>1. PICK S : S = Full(P, Q, T, C, L, M)
  OBVIOUS
<1>2. PICK M2, v : M2 = Cleared(M, e) /\ v = Current(M, e).holds
  OBVIOUS
<1>3. PICK w, cleared : w = M.EoT \ {e} /\ cleared = SetEoT(S, w)
  OBVIOUS
<1>4. cleared = Full(P, Q, T, C, L, M2) /\ S.dma = M /\ S.dma.EoT = M.EoT /\ S.pool = P
  <2>1. PICK d, u, n, o, r : d = M.dd /\ u = M.udca /\ n = M.enabled /\ o = M.EoT /\ r = M.NDDR
    OBVIOUS
  <2>2. S = Full(P, Q, T, C, L, Eng(d, u, n, o, r)) /\ M = Eng(d, u, n, o, r)
    BY <1>1, <2>1, EngIs
  <2>3. cleared = Full(P, Q, T, C, L, Eng(d, u, n, w, r))
    BY ONLY <1>3, <2>2, FullEng
  <2>4. M2 = Eng(d, u, n, w, r)
    BY <1>2, <1>3, <2>1 DEF Cleared
  <2>5. S.dma = M /\ S.pool = P
    BY <2>2, FieldsAre
  <2>6. QED
    BY <2>3, <2>4, <2>5
<1>5. PICK k, filled : /\ k = [cleared EXCEPT !.pool = P2]
                       /\ filled = [k EXCEPT !.content = C2]
  OBVIOUS
<1>6. k = Full(P2, Q, T, C, L, M2) /\ filled = Full(P2, Q, T, C2, L, M2) /\ k.content = C
  <2>1. k = Full(P2, Q, T, C, L, M2)
    BY ONLY <1>4, <1>5, FullIs
  <2>2. filled = Full(P2, Q, T, C2, L, M2)
    <3>1. filled = [k EXCEPT !.content = C2]
      BY <1>5
    <3>2. QED
      BY ONLY <2>1, <3>1 DEF Full
  <2>3. k.content = C
    BY <2>1 DEF Full
  <2>4. QED
    BY <2>1, <2>2, <2>3
<1>7. CanSend(filled, e)
  <2>1. e \in Buffer
    BY Loop DEF RxEndpoint
  <2>2. QED
    BY <1>6, <2>1, SendFull
<1>8. [cleared EXCEPT !.pool[e] = Tail(@), !.content[e][h] = v] = filled
  <2>1. cleared.pool = P
    BY ONLY <1>4, FullIs
  <2>2. [cleared EXCEPT !.pool[e] = Tail(@)] = k
    BY <1>0, <1>5, <2>1
  <2>3. [k EXCEPT !.content[e][h] = v] = filled
    BY <1>0, <1>2, <1>5, <1>6
  <2>4. QED
    BY <2>2, <2>3
<1>9. [S EXCEPT !.dma.EoT = @ \ {e}] = cleared
  BY <1>3, <1>4 DEF SetEoT
<1>10. ep_rx_end_of_transfer(S, e) =
         IF S.pool[e] = <<>> THEN Dropped(cleared, e)
         ELSE IF CanSend(filled, e) THEN Send(filled, e, h) ELSE Dropped(filled, e)
  <2>1. Head(S.pool[e]) = h /\ Current(S.dma, e).holds = v
    BY <1>2, <1>4
  <2>2. QED
    <3>1. [[S EXCEPT !.dma.EoT = @ \ {e}] EXCEPT !.pool[e] = Tail(@),
             !.content[e][Head(S.pool[e])] = Current(S.dma, e).holds] = filled
      BY ONLY <1>8, <1>9, <2>1
    <3>2. PICK E, F, G : /\ E = [S EXCEPT !.dma.EoT = @ \ {e}]
                        /\ F = [E EXCEPT !.pool[e] = Tail(@),
                                  !.content[e][Head(S.pool[e])] = Current(S.dma, e).holds]
                        /\ G = Head(S.pool[e])
      OBVIOUS
    <3>3. ep_rx_end_of_transfer(S, e) =
            IF S.pool[e] = <<>> THEN Dropped(E, e)
            ELSE IF CanSend(F, e) THEN Send(F, e, G) ELSE Dropped(F, e)
      BY ONLY <3>2 DEF ep_rx_end_of_transfer
    <3>4. QED
      BY ONLY <1>9, <2>1, <3>1, <3>2, <3>3
<1>11. QED
  <2>1. S.pool[e] # <<>>
    BY <1>4
  <2>2. QED
    BY <1>1, <1>2, <1>6, <1>7, <1>10, <2>1

LEMMA MinIs ==
  ASSUME NEW S, S \subseteq Nat, S # {}
  PROVE  Min(S) \in S /\ \A y \in S : Min(S) <= y
<1>1. PICK x \in S : \A y \in S : ~(<<y, x>> \in OpToRel(<, Nat))
  BY WFMin, NatLessThanWellFounded
<1>2. ASSUME NEW y \in S
      PROVE  x <= y
  <2>1. x \in Nat /\ y \in Nat
    OBVIOUS
  <2>2. y < x => <<y, x>> \in OpToRel(<, Nat)
    BY <2>1 DEF OpToRel
  <2>3. ~(y < x)
    BY <1>1, <2>2, Zenon
  <2>4. QED
    BY <2>1, <2>3
<1>3. QED
  BY <1>2 DEF Min

LEMMA DDType == DD \subseteq Nat /\ NumBuf \in DD /\ 1 \in DD /\ NumBuf # 1
               /\ \A i \in DD : i # NumBuf => i \in 1 .. NumBuf - 1
BY DmaAssumption DEF DD

LEMMA GiveFull ==
  ASSUME NEW P, NEW Q, NEW T, NEW C, NEW L, NEW M, M \in EngineType, NEW e, NEW i, NEW dds,
         NEW S, S = Full(P, Q, T, C, L, M)
  PROVE  GiveDD(S, e, i, dds) = Full(P, Q, T, C, L, Armed(M, e, i, dds))
<1>1. PICK d, u, n, o, r : d = M.dd /\ u = M.udca /\ n = M.enabled /\ o = M.EoT /\ r = M.NDDR
  OBVIOUS
<1>2. S = Full(P, Q, T, C, L, Eng(d, u, n, o, r))
  BY <1>1, EngIs
<1>3. PICK S1 : S1 = SetNDDR(S, r \ {e})
  OBVIOUS
<1>4. S1 = Full(P, Q, T, C, L, Eng(d, u, n, o, r \ {e}))
  <2>1. PICK r2 : r2 = r \ {e}
    OBVIOUS
  <2>2. SetNDDR(S, r2) = Full(P, Q, T, C, L, Eng(d, u, n, o, r2))
    BY ONLY <1>2, FullEng
  <2>3. QED
    BY <1>3, <2>1, <2>2
<1>5. S.dma.NDDR = r /\ S1.dma.enabled = n
  <2>1. S.dma.NDDR = r
    BY ONLY <1>2, FieldsAre
  <2>2. S1.dma.enabled = n
    BY ONLY <1>4, FieldsAre
  <2>3. QED
    BY <2>1, <2>2
<1>6. [S EXCEPT !.dma.NDDR = @ \ {e}] = S1
  BY <1>3, <1>5 DEF SetNDDR
<1>7. PICK n2, S2 : n2 = n \cup {e} /\ S2 = SetEnabled(S1, n2)
  OBVIOUS
<1>8. [S1 EXCEPT !.dma.enabled = @ \cup {e}] = S2
  BY <1>5, <1>7 DEF SetEnabled
<1>9. GiveDD(S, e, i, dds) = SetDds(SetUdca(S2, e, i), e, dds)
  <2>1. [S EXCEPT !.dma.NDDR = @ \ {e}, !.dma.enabled = @ \cup {e}] = S2
    BY ONLY <1>6, <1>8
  <2>2. QED
    BY ONLY <2>1 DEF GiveDD, SetDds, SetUdca
<1>10. GiveDD(S, e, i, dds) = Arms(S, e, M.NDDR \ {e}, M.enabled \cup {e}, i, dds)
  BY <1>1, <1>3, <1>7, <1>9 DEF Arms
<1>11. QED
  BY <1>10, ArmsFull

\* An OUT endpoint that asks for a DD gets one if the FIFO has room, and which
\* one does not matter here.
LEMMA RxRequestFull ==
  ASSUME NEW P, NEW Q, NEW T, NEW C, NEW L, NEW M, M \in EngineType, NEW e \in RxEndpoint,
         NEW S, S = Full(P, Q, T, C, L, M)
  PROVE  /\ Len(Q[e]) = Size[e] - 1 =>
              ep_rx_DD_request(S, e) = Full(P, Q, T, C, L, Answered(M, e))
         /\ Len(Q[e]) # Size[e] - 1 =>
              \E i \in DD, dds \in [DD -> DDRecord] :
                 ep_rx_DD_request(S, e) = Full(P, Q, T, C, L, Armed(M, e, i, dds))
<1>0. e \in Endpoint
  BY DEF Endpoint
<1>1. PICK d, u, n, o, r : d = M.dd /\ u = M.udca /\ n = M.enabled /\ o = M.EoT /\ r = M.NDDR
  OBVIOUS
<1>2. S = Full(P, Q, T, C, L, Eng(d, u, n, o, r)) /\ M = Eng(d, u, n, o, r)
  BY <1>1, EngIs
<1>3. S.queue = Q /\ S.dma.dd = d /\ S.dma.udca = u /\ S.dma.NDDR = r
  BY ONLY <1>2, FieldsAre
<1>4. d \in [Endpoint -> [DD -> DDRecord]] /\ u \in [Endpoint -> DD]
  BY <1>1 DEF EngineType
<1>5. PICK A : A = {j \in DD \ {u[e]} : d[e][j].retired}
  OBVIOUS
<1>6. PICK i : i = IF A = {} THEN u[e] ELSE Min(A)
  OBVIOUS
<1>7. i \in DD
  BY <1>0, <1>4, <1>5, <1>6, DDType, MinIs
<1>8. PICK x \in BOOLEAN : x = (d[e][i].retired /\ A = {})
  OBVIOUS
<1>9. PICK dds : dds = [d[e] EXCEPT ![i].retired = x]
  OBVIOUS
<1>10. dds \in [DD -> DDRecord]
  <2>1. d[e] \in [DD -> DDRecord] /\ d[e][i] \in DDRecord
    BY <1>0, <1>4, <1>7
  <2>2. [d[e][i] EXCEPT !.retired = x] \in DDRecord
    BY <1>8, <2>1 DEF DDRecord
  <2>3. dds = [d[e] EXCEPT ![i] = [d[e][i] EXCEPT !.retired = x]]
    BY <1>9
  <2>4. QED
    BY <1>7, <2>1, <2>2, <2>3
<1>11. PICK S1, r2 : r2 = r \ {e} /\ S1 = SetNDDR(S, r2)
  OBVIOUS
<1>12. S1 = Full(P, Q, T, C, L, Answered(M, e)) /\ S1 = [S EXCEPT !.dma.NDDR = @ \ {e}]
  <2>1. S1 = Full(P, Q, T, C, L, Eng(d, u, n, o, r2))
    BY ONLY <1>2, <1>11, FullEng
  <2>2. Answered(M, e) = Eng(d, u, n, o, r2)
    BY <1>1, <1>11 DEF Answered
  <2>3. S1 = [S EXCEPT !.dma.NDDR = @ \ {e}]
    BY <1>3, <1>11 DEF SetNDDR
  <2>4. QED
    BY <2>1, <2>2, <2>3
<1>13. IsFull(S, e) <=> Len(Q[e]) = Size[e] - 1
  BY <1>3 DEF IsFull
<1>14. {j \in DD \ {S.dma.udca[e]} : S.dma.dd[e][j].retired} = A
  BY <1>3, <1>5
<1>15. i = IF A = {} THEN S.dma.udca[e] ELSE Min(A)
  BY <1>3, <1>6
<1>16. [S.dma.dd[e] EXCEPT ![i].retired = @ /\ A = {}] = dds
  BY <1>3, <1>8, <1>9
<1>17. ep_rx_DD_request(S, e) = IF IsFull(S, e) THEN S1 ELSE GiveDD(S, e, i, dds)
  <2>1. ep_rx_DD_request(S, e) =
          IF IsFull(S, e) THEN S1
          ELSE GiveDD(S, e, i, [S.dma.dd[e] EXCEPT ![i].retired = @ /\ A = {}])
    BY ONLY <1>12, <1>14, <1>15 DEF ep_rx_DD_request
  <2>2. QED
    BY ONLY <1>16, <2>1
<1>18. QED
  BY <1>7, <1>10, <1>12, <1>13, <1>17, GiveFull


\* An IN endpoint that asks for a DD gets the last one when its queue is empty,
\* and otherwise the first one, with the packet at the head of the queue.
LEMMA TxRequestFull ==
  ASSUME NEW P, NEW Q, NEW T, NEW C, NEW L, NEW M, M \in EngineType, Sound(P, Q, T, C),
         NEW e \in TxEndpoint, NEW S, S = Full(P, Q, T, C, L, M), NEW b, b = Head(Q[e])
  PROVE  /\ Q[e] = <<>> =>
              ep_tx_int_DD_request(S, e)
                = Full(P, Q, T, C, L, Armed(M, e, NumBuf, EmptyDD(M.dd[e])))
         /\ Q[e] # <<>> /\ M.dd[e][1].retired =>
              \E P2, Q2, T2 :
                /\ Drained(Q, T, e, b, Q2, T2) /\ Sound(P2, Q2, T2, C)
                /\ ep_tx_int_DD_request(S, e)
                     = Full(P2, Q2, T2, C, L, Armed(M, e, 1, OverDDs(M.dd[e], 1, C[e][b])))
<1>1. PICK d, u, n, o, r : d = M.dd /\ u = M.udca /\ n = M.enabled /\ o = M.EoT /\ r = M.NDDR
  OBVIOUS
<1>2. S = Full(P, Q, T, C, L, Eng(d, u, n, o, r)) /\ M = Eng(d, u, n, o, r)
  BY <1>1, EngIs
<1>3. S.queue = Q /\ S.content = C /\ S.dma.dd = d
  BY ONLY <1>2, FieldsAre
<1>4. PICK R : R = {i \in 1 .. NumBuf - 1 : d[e][i].retired}
  OBVIOUS
<1>5. PICK F, x : F = Free(TakeHead(S, e), e, b) /\ x = C[e][b]
  OBVIOUS
<1>6. ep_tx_int_DD_request(S, e) =
        IF Q[e] = <<>> THEN GiveDD(S, e, NumBuf, EmptyDD(d[e]))
        ELSE IF R = {} THEN GiveDD(F, e, NumBuf, EmptyDD(d[e]))
        ELSE GiveDD(F, e, Min(R), OverDDs(d[e], Min(R), x))
  <2>1. /\ Head(S.queue[e]) = b /\ {i \in 1 .. NumBuf - 1 : S.dma.dd[e][i].retired} = R
        /\ S.dma.dd[e] = d[e] /\ S.content[e][b] = x /\ S.queue[e] = Q[e]
        /\ Free(TakeHead(S, e), e, b) = F
    BY <1>3, <1>4, <1>5
  <2>2. QED
    BY ONLY <2>1 DEF ep_tx_int_DD_request
<1>7. CASE Q[e] = <<>>
  <2>1. GiveDD(S, e, NumBuf, EmptyDD(d[e])) = Full(P, Q, T, C, L, Armed(M, e, NumBuf, EmptyDD(d[e])))
    BY GiveFull
  <2>2. QED
    BY <1>1, <1>6, <1>7, <2>1
<1>8. CASE Q[e] # <<>> /\ M.dd[e][1].retired
  <2>1. Min(R) = 1 /\ R # {}
    <3>1. R \subseteq Nat /\ 1 \in R /\ \A i \in R : i >= 1
      BY <1>1, <1>4, <1>8, DmaAssumption
    <3>2. Min(R) \in R /\ \A y \in R : Min(R) <= y
      BY <3>1, MinIs
    <3>3. PICK m : m = Min(R)
      OBVIOUS
    <3>4. m \in Nat /\ m >= 1 /\ m <= 1
      BY <3>1, <3>2, <3>3
    <3>5. QED
      BY <3>1, <3>3, <3>4
  <2>2. PICK P2, Q2, T2 :
          /\ Drained(Q, T, e, b, Q2, T2) /\ Sound(P2, Q2, T2, C)
          /\ \A N : Free(TakeHead(Full(P, Q, T, C, L, N), e), e, b) = Full(P2, Q2, T2, C, L, N)
    BY <1>8, DrainSound
  <2>3. F = Full(P2, Q2, T2, C, L, M)
    BY <1>5, <2>2
  <2>4. PICK w : w = OverDDs(d[e], 1, x)
    OBVIOUS
  <2>5. GiveDD(F, e, 1, w) = Full(P2, Q2, T2, C, L, Armed(M, e, 1, w))
    BY <2>3, GiveFull
  <2>6. ep_tx_int_DD_request(S, e)
          = Full(P2, Q2, T2, C, L, Armed(M, e, 1, OverDDs(M.dd[e], 1, C[e][b])))
    BY <1>1, <1>5, <1>6, <1>8, <2>1, <2>4, <2>5
  <2>7. QED
    BY <1>8, <2>2, <2>6
<1>9. QED
  BY <1>7, <1>8

-----------------------------------------------------------------------------
\* What the operations leave of the engine's data.

LEMMA EmptyIs ==
  ASSUME NEW dds \in [DD -> DDRecord]
  PROVE  /\ EmptyDD(dds) \in [DD -> DDRecord] /\ EmptyDD(dds)[1] = dds[1]
         /\ EmptyDD(dds)[NumBuf].retired = FALSE
         /\ EmptyDD(dds)[NumBuf].whole = dds[NumBuf].whole
<1>1. PICK r, x, w : dds[NumBuf] = [retired |-> r, holds |-> x, whole |-> w] /\ w \in BOOLEAN
  BY DDType DEF DDRecord
<1>2. PICK s : s = [retired |-> FALSE, holds |-> NoPacket, whole |-> w]
  OBVIOUS
<1>3. s \in DDRecord /\ s.retired = FALSE /\ s.whole = w
  BY <1>1, <1>2 DEF DDRecord, NoPacket, Unwritten
<1>4. EmptyDD(dds) = [dds EXCEPT ![NumBuf] = s]
  <2>1. PICK c : c = [[dds[NumBuf] EXCEPT !.retired = FALSE] EXCEPT !.holds = NoPacket]
    OBVIOUS
  <2>2. c = s
    <3>1. PICK k : k = dds[NumBuf]
      OBVIOUS
    <3>2. k = [retired |-> r, holds |-> x, whole |-> w]
      BY <1>1, <3>1
    <3>3. c = [[k EXCEPT !.retired = FALSE] EXCEPT !.holds = NoPacket]
      BY <2>1, <3>1
    <3>4. [[k EXCEPT !.retired = FALSE] EXCEPT !.holds = NoPacket] = s
      <4>1. PICK f, p : f = FALSE /\ p = NoPacket
        OBVIOUS
      <4>2. PICK g : g = [k EXCEPT !.retired = f]
        OBVIOUS
      <4>3. g = [retired |-> f, holds |-> x, whole |-> w]
        BY ONLY <3>2, <4>2
      <4>4. [g EXCEPT !.holds = p] = [retired |-> f, holds |-> p, whole |-> w]
        BY ONLY <4>3
      <4>5. QED
        BY ONLY <1>2, <4>1, <4>2, <4>4
    <3>5. QED
      BY <3>3, <3>4
  <2>3. EmptyDD(dds) = [dds EXCEPT ![NumBuf] = c]
    BY DDType, <2>1 DEF EmptyDD
  <2>4. QED
    BY <2>2, <2>3
<1>5. QED
  BY <1>1, <1>3, <1>4, DDType

LEMMA OverIs ==
  ASSUME NEW dds \in [DD -> DDRecord], NEW v \in Int
  PROVE  /\ OverDDs(dds, 1, v) \in [DD -> DDRecord]
         /\ OverDDs(dds, 1, v)[1] = [retired |-> FALSE, holds |-> v, whole |-> dds[1].whole]
         /\ OverDDs(dds, 1, v)[NumBuf] = dds[NumBuf]
<1>1. /\ NumBuf \in DD /\ 1 \in DD /\ NumBuf # 1 /\ NumBuf \notin 2 .. 4
  BY DmaAssumption DEF DD
<1>2. PICK f : f = OverDDs(dds, 1, v)
  OBVIOUS
<1>3. f = [j \in DD |-> CASE j = 1 -> [retired |-> FALSE, holds |-> v, whole |-> dds[j].whole]
                          [] j \in 1 + 1 .. 1 + 3 -> [dds[j] EXCEPT !.whole = FALSE]
                          [] OTHER -> dds[j]]
  BY ONLY <1>2 DEF OverDDs
<1>4. ASSUME NEW j \in DD
      PROVE  f[j] \in DDRecord
  <2>1. dds[j] \in DDRecord
    OBVIOUS
  <2>2. /\ [retired |-> FALSE, holds |-> v, whole |-> dds[j].whole] \in DDRecord
        /\ [dds[j] EXCEPT !.whole = FALSE] \in DDRecord
    BY <2>1 DEF DDRecord
  <2>3. CASE j = 1
    BY <1>3, <2>2, <2>3
  <2>4. CASE j # 1 /\ j \in 1 + 1 .. 1 + 3
    BY <1>3, <2>2, <2>4
  <2>5. CASE j # 1 /\ j \notin 1 + 1 .. 1 + 3
    BY <1>3, <2>1, <2>5
  <2>6. QED
    BY <2>3, <2>4, <2>5
<1>5. f \in [DD -> DDRecord]
  BY <1>3, <1>4
<1>6. f[1] = [retired |-> FALSE, holds |-> v, whole |-> dds[1].whole]
  BY <1>1, <1>3
<1>7. f[NumBuf] = dds[NumBuf]
  <2>1. NumBuf # 1 /\ NumBuf \notin 1 + 1 .. 1 + 3
    BY <1>1
  <2>2. QED
    BY <1>1, <1>3, <2>1
<1>8. QED
  BY <1>2, <1>5, <1>6, <1>7

LEMMA ArmedIs ==
  ASSUME NEW M, M \in EngineType, NEW e \in Endpoint, NEW i \in DD, NEW dds \in [DD -> DDRecord],
         NEW N, N = Armed(M, e, i, dds)
  PROVE  /\ N \in EngineType /\ N.dd[e] = dds /\ N.udca[e] = i /\ Current(N, e) = dds[i]
         /\ N.EoT = M.EoT /\ N.NDDR = M.NDDR \ {e}
         /\ \A r \in Endpoint \ {e} : /\ N.dd[r] = M.dd[r] /\ N.udca[r] = M.udca[r]
                                      /\ Current(N, r) = Current(M, r)
<1>1. /\ M.dd \in [Endpoint -> [DD -> DDRecord]] /\ M.udca \in [Endpoint -> DD]
      /\ M.enabled \subseteq Endpoint /\ M.EoT \subseteq RxEndpoint /\ M.NDDR \subseteq Endpoint
  BY DEF EngineType
<1>2. PICK d, u : d = Put(M.dd, e, dds) /\ u = Put(M.udca, e, i)
  OBVIOUS
<1>3. /\ d \in [Endpoint -> [DD -> DDRecord]] /\ u \in [Endpoint -> DD] /\ d[e] = dds /\ u[e] = i
      /\ \A r \in Endpoint \ {e} : d[r] = M.dd[r] /\ u[r] = M.udca[r]
  BY <1>1, <1>2 DEF Put
<1>4. N = Eng(d, u, M.enabled \cup {e}, M.EoT, M.NDDR \ {e})
  BY <1>2 DEF Armed
<1>5. /\ N.dd = d /\ N.udca = u /\ N.enabled = M.enabled \cup {e} /\ N.EoT = M.EoT
      /\ N.NDDR = M.NDDR \ {e}
  BY <1>4 DEF Eng
<1>6. N \in EngineType
  BY <1>1, <1>3, <1>4 DEF Eng, EngineType
<1>7. QED
  BY <1>3, <1>5, <1>6 DEF Current

LEMMA ClearedIs ==
  ASSUME NEW M, M \in EngineType, NEW e, NEW N, N = Cleared(M, e)
  PROVE  /\ N \in EngineType /\ N.dd = M.dd /\ N.udca = M.udca
         /\ N.EoT = M.EoT \ {e} /\ N.NDDR = M.NDDR
         /\ \A r : Current(N, r) = Current(M, r)
<1>1. /\ M.dd \in [Endpoint -> [DD -> DDRecord]] /\ M.udca \in [Endpoint -> DD]
      /\ M.enabled \subseteq Endpoint /\ M.EoT \subseteq RxEndpoint /\ M.NDDR \subseteq Endpoint
  BY DEF EngineType
<1>2. N.dd = M.dd /\ N.udca = M.udca /\ N.EoT = M.EoT \ {e} /\ N.NDDR = M.NDDR
  BY DEF Cleared, Eng
<1>3. N \in EngineType
  BY <1>1 DEF Cleared, Eng, EngineType
<1>4. QED
  BY <1>2, <1>3 DEF Current

LEMMA AnsweredIs ==
  ASSUME NEW M, M \in EngineType, NEW e, NEW N, N = Answered(M, e)
  PROVE  /\ N \in EngineType /\ N.dd = M.dd /\ N.udca = M.udca
         /\ N.EoT = M.EoT /\ N.NDDR = M.NDDR \ {e}
         /\ \A r : Current(N, r) = Current(M, r)
<1>1. /\ M.dd \in [Endpoint -> [DD -> DDRecord]] /\ M.udca \in [Endpoint -> DD]
      /\ M.enabled \subseteq Endpoint /\ M.EoT \subseteq RxEndpoint /\ M.NDDR \subseteq Endpoint
  BY DEF EngineType
<1>2. N.dd = M.dd /\ N.udca = M.udca /\ N.EoT = M.EoT /\ N.NDDR = M.NDDR \ {e}
  BY DEF Answered, Eng
<1>3. N \in EngineType
  BY <1>1 DEF Answered, Eng, EngineType
<1>4. QED
  BY <1>2, <1>3 DEF Current

-----------------------------------------------------------------------------
\* The end of a transfer.

HandlerOK(P, Q, T, C, M) == Sound(P, Q, T, C) /\ EngineOK(M, Q, T)

\* The packet of the DD that EP5TX sends and the one that EP2RX has taken, and
\* all packets between them.
InOf(M) == IF Current(M, "EP5TX").retired \/ M.udca["EP5TX"] = NumBuf THEN None
           ELSE Single(Current(M, "EP5TX").holds)
OutOf(M) == IF "EP2RX" \in M.EoT THEN Single(Current(M, "EP2RX").holds) ELSE None
AllOf(Q, T, C, M) == Cat(Cat(InOf(M), Way(Q, T, C)), OutOf(M))

\* The handler is in a sound state, no packet is dropped, those on their way are
\* A, and the requests are O and N.
Good(S, L, A, O, N) ==
  \E P, Q, T, C, M : /\ S = Full(P, Q, T, C, L, M) /\ HandlerOK(P, Q, T, C, M)
                     /\ M.EoT = O /\ M.NDDR = N /\ AllOf(Q, T, C, M) = A

LEMMA EngineLines ==
  ASSUME NEW M, M \in EngineType
  PROVE  /\ \A e \in Endpoint : Current(M, e) \in DDRecord
         /\ Line(InOf(M)) /\ Line(OutOf(M))
<1>1. \A e \in Endpoint : Current(M, e) \in DDRecord
  <2>1. M.dd \in [Endpoint -> [DD -> DDRecord]] /\ M.udca \in [Endpoint -> DD]
    BY DEF EngineType
  <2>2. QED
    BY <2>1 DEF Current
<1>2. "EP5TX" \in Endpoint /\ "EP2RX" \in Endpoint
  BY DEF Endpoint, RxEndpoint, TxEndpoint
<1>3. Current(M, "EP5TX").holds \in Int /\ Current(M, "EP2RX").holds \in Int
  BY <1>1, <1>2 DEF DDRecord
<1>4. QED
  BY <1>1, <1>3, CatRules DEF InOf, OutOf

\* Where there is room for a packet there is a free block for it.
LEMMA RoomHasBlock ==
  ASSUME NEW P, NEW Q, NEW T, NEW C, Sound(P, Q, T, C), NEW e \in RxEndpoint, Room(Q, T, e)
  PROVE  P[e] # <<>> /\ e \in Buffer /\ Len(Q[e]) \in Nat
         /\ (RecvWaits(T, e) => Q[e] = <<>>) /\ Size[e] \in Nat /\ Size[e] >= 2
<1>1. e \in Buffer /\ e \notin SendBuf
  BY Loop DEF RxEndpoint, SendBuf
<1>2. /\ Parts(Size[e], P[e], Q[e], X(T, e), Y(T, e), NoBlock, 0)
      /\ (RecvWaits(T, e) => Q[e] = <<>>)
  BY <1>1, SoundParts DEF Sound
<1>3. Size[e] \in Nat /\ Size[e] >= 2
  BY <1>1, LoopbackAssumption
<1>4. One(Y(T, e)) = 0 /\ One(NoBlock) = 0
  BY <1>1 DEF Y, One
<1>5. One(X(T, e)) \in {0, 1} /\ (RecvWaits(T, e) => One(X(T, e)) = 0)
  BY DEF One, X, XOf, RecvWaits
<1>6. /\ Len(P[e]) \in Nat /\ Len(Q[e]) \in Nat
      /\ Len(P[e]) + Len(Q[e]) + One(X(T, e)) + 0 + 0 + 0 = Size[e]
  <2>1. /\ P[e] \in Seq(1 .. Size[e]) /\ Q[e] \in Seq(1 .. Size[e])
        /\ Len(P[e]) + Len(Q[e]) + One(X(T, e)) + One(Y(T, e)) + One(NoBlock) + 0 = Size[e]
    BY <1>2 DEF Parts
  <2>2. Len(P[e]) \in Nat /\ Len(Q[e]) \in Nat
    BY <2>1
  <2>3. QED
    BY <1>4, <2>1, <2>2
<1>7. RecvWaits(T, e) \/ Len(Q[e]) < Size[e] - 1
  BY DEF Room
<1>8. Len(P[e]) # 0
  <2>1. PICK p, q, x, n : p = Len(P[e]) /\ q = Len(Q[e]) /\ x = One(X(T, e)) /\ n = Size[e]
    OBVIOUS
  <2>2. /\ p \in Nat /\ q \in Nat /\ x \in {0, 1} /\ n \in Nat /\ n >= 2
        /\ p + q + x + 0 + 0 + 0 = n
    BY <1>3, <1>5, <1>6, <2>1
  <2>3. RecvWaits(T, e) => q = 0 /\ x = 0
    BY <1>2, <1>5, <2>1
  <2>4. RecvWaits(T, e) \/ q < n - 1
    BY <1>7, <2>1
  <2>5. p # 0
    BY ONLY <2>2, <2>3, <2>4
  <2>6. QED
    BY <2>1, <2>5
<1>9. QED
  BY <1>1, <1>2, <1>3, <1>6, <1>8

LEMMA RxKeeps ==
  ASSUME NEW M, NEW Q, NEW T, NEW r, RxOK(M, Q, T, r), NEW M2, NEW Q2, NEW T2,
         Current(M2, r) = Current(M, r), r \in M2.NDDR => r \in M.NDDR, r \in M2.EoT => r \in M.EoT,
         Q2[r] = Q[r], RecvWaits(T, r) => RecvWaits(T2, r)
  PROVE  RxOK(M2, Q2, T2, r)
BY DEF RxOK, Room

LEMMA TxKeeps ==
  ASSUME NEW M, NEW r, TxOK(M, r), NEW M2, M2.dd[r] = M.dd[r], M2.udca[r] = M.udca[r],
         r \in M2.NDDR => r \in M.NDDR
  PROVE  TxOK(M2, r)
BY DEF TxOK, Current

\* What becomes of the queues when a packet comes.
LEMMA FillQueues ==
  ASSUME NEW P, NEW Q, NEW T, NEW C, Sound(P, Q, T, C), NEW e \in RxEndpoint, NEW v,
         NEW P2, NEW Q2, NEW T2, NEW C2, Filled(P, Q, T, C, e, v, P2, Q2, T2, C2)
  PROVE  /\ \A r \in RxEndpoint \ {e} : /\ Q2[r] = Q[r]
                                        /\ RecvWaits(T, r) => RecvWaits(T2, r)
         /\ Len(Q[e]) <= Size[e] - 1 /\ Room(Q, T, e) => Len(Q2[e]) <= Size[e] - 1
<1>1. /\ e \in Buffer /\ RxEndpoint \subseteq Buffer /\ Size[e] \in Nat
      /\ T \in [Task -> TaskRecord] /\ Q \in [Buffer -> Seq(Nat)]
  BY Loop, SoundParts, SizeType DEF RxEndpoint
<1>2. PICK h : \/ RecvWaits(T, e) /\ Q2 = Q /\ T2 = Receives(T, Receiver(e), h)
               \/ ~RecvWaits(T, e) /\ Q2 = Appended(Q, e, h) /\ T2 = T
  BY DEF Filled
<1>3. CASE RecvWaits(T, e) /\ Q2 = Q /\ T2 = Receives(T, Receiver(e), h)
  <2>1. PICK s \in Task : s = Receiver(e) /\ Source[s] = e
    BY <1>3, Ends DEF RecvWaits
  <2>2. T2 = Receives(T, s, h) /\ T \in [Task -> TaskRecord]
    BY <1>1, <1>3, <2>1
  <2>3. \A q \in Buffer \ {Source[s]} : RecvWaits(T, q) => RecvWaits(T2, q)
    BY ONLY <2>2, s \in Task, GoneOn
  <2>4. QED
    BY <1>1, <1>3, <2>1, <2>3
<1>4. CASE ~RecvWaits(T, e) /\ Q2 = Appended(Q, e, h) /\ T2 = T
  <2>1. Q2[e] = Append(Q[e], h) /\ \A p \in Buffer \ {e} : Q2[p] = Q[p]
    <3>1. Q2 = Appended(Q, e, h) /\ Q \in [Buffer -> Seq(Nat)] /\ e \in Buffer
      BY <1>1, <1>4
    <3>2. QED
      BY ONLY <3>1, QueueIs
  <2>2. Len(Append(Q[e], h)) = Len(Q[e]) + 1 /\ Len(Q[e]) \in Nat
    <3>1. PICK g : g = Q[e] /\ g \in Seq(Nat)
      BY <1>1
    <3>2. Len(Append(g, h)) = Len(g) + 1 /\ Len(g) \in Nat
      BY <3>1
    <3>3. QED
      BY <3>1, <3>2
  <2>3. Room(Q, T, e) => Len(Q2[e]) <= Size[e] - 1
    <3>1. PICK m, k, z : m = Len(Q[e]) /\ k = Len(Q2[e]) /\ z = Size[e]
      OBVIOUS
    <3>2. k = m + 1 /\ m \in Nat /\ z \in Nat
      BY <1>1, <2>1, <2>2, <3>1
    <3>3. Room(Q, T, e) => m < z - 1
      BY <1>4, <3>1 DEF Room
    <3>4. m < z - 1 => k <= z - 1
      BY ONLY <3>2
    <3>5. QED
      BY <3>1, <3>3, <3>4
  <2>4. QED
    BY <1>1, <1>4, <2>1, <2>3
<1>5. QED
  BY <1>2, <1>3, <1>4

\* The block of a packet that has come takes it over from the DD.
LEMMA EndOfTransferStep ==
  ASSUME NEW S, NEW L, NEW A, NEW O, NEW N, Good(S, L, A, O, N), NEW e \in RxEndpoint, e \in O
  PROVE  Good(ep_rx_end_of_transfer(S, e), L, A, O \ {e}, N)
<1>1. PICK P, Q, T, C, M : /\ S = Full(P, Q, T, C, L, M) /\ HandlerOK(P, Q, T, C, M)
                           /\ M.EoT = O /\ M.NDDR = N /\ AllOf(Q, T, C, M) = A
  BY DEF Good
<1>2. Sound(P, Q, T, C) /\ M \in EngineType /\ TasksOK(T) /\ e \in Endpoint /\ e \in Buffer
  <2>1. e \in Buffer /\ e \in Endpoint
    BY Loop DEF RxEndpoint, Endpoint
  <2>2. Sound(P, Q, T, C) /\ M \in EngineType
    BY <1>1 DEF HandlerOK, EngineOK
  <2>3. QED
    BY <2>1, <2>2, SoundParts
<1>3. /\ \A r \in RxEndpoint : RxOK(M, Q, T, r)
      /\ \A r \in TxEndpoint : TxOK(M, r)
      /\ Len(Q[e]) <= Size[e] - 1 /\ Current(M, e).retired /\ Room(Q, T, e)
  <2>1. (\A r \in RxEndpoint : RxOK(M, Q, T, r)) /\ (\A r \in TxEndpoint : TxOK(M, r))
    BY <1>1 DEF HandlerOK, EngineOK
  <2>2. RxOK(M, Q, T, e) /\ e \in M.EoT
    BY <1>1, <2>1
  <2>3. QED
    BY <2>1, <2>2 DEF RxOK
<1>4. P[e] # <<>> /\ (RecvWaits(T, e) \/ Len(Q[e]) # Size[e] - 1)
  <2>1. P[e] # <<>> /\ Len(Q[e]) \in Nat /\ Size[e] \in Nat
    BY <1>2, <1>3, RoomHasBlock
  <2>2. RecvWaits(T, e) \/ Len(Q[e]) < Size[e] - 1
    BY <1>3 DEF Room
  <2>3. Len(Q[e]) < Size[e] - 1 => Len(Q[e]) # Size[e] - 1
    BY <2>1
  <2>4. QED
    BY <2>1, <2>2, <2>3
<1>5. PICK v \in Int : v = Current(M, e).holds
  <2>1. Current(M, e) \in DDRecord
    BY <1>2, EngineLines
  <2>2. QED
    BY <2>1 DEF DDRecord
<1>6. PICK h, M2 : h = Head(P[e]) /\ M2 = Cleared(M, e)
  OBVIOUS
<1>7. PICK P2, C2 : P2 = Put(P, e, Tail(P[e])) /\ C2 = Put(C, e, Put(C[e], h, v))
  OBVIOUS
<1>8. PICK Q2, T2 :
        /\ Filled(P, Q, T, C, e, v, P2, Q2, T2, C2) /\ Sound(P2, Q2, T2, C2)
        /\ \A K, G : Send(Full(P2, Q, T, C2, K, G), e, h) = Full(P2, Q2, T2, C2, K, G)
  <2>1. Sound(P, Q, T, C) /\ P[e] # <<>>
    BY <1>2, <1>4
  <2>2. QED
    BY <1>6, <1>7, <2>1, FillSound
<1>9. ep_rx_end_of_transfer(S, e) = Full(P2, Q2, T2, C2, L, M2)
  <2>1. ep_rx_end_of_transfer(S, e) = Send(Full(P2, Q, T, C2, L, M2), e, h)
    <3>1. C2 = Put(C, e, Put(C[e], h, Current(M, e).holds))
      BY <1>5, <1>7
    <3>2. ep_rx_end_of_transfer(Full(P, Q, T, C, L, M), e)
            = Send(Full(P2, Q, T, C2, L, Cleared(M, e)), e, h)
      BY <1>2, <1>4, <1>6, <1>7, <3>1, EndOfTransferFull
    <3>3. QED
      BY <1>1, <1>6, <3>2
  <2>2. QED
    BY <1>8, <2>1
<1>10. /\ M2 \in EngineType /\ M2.dd = M.dd /\ M2.udca = M.udca
       /\ M2.EoT = O \ {e} /\ M2.NDDR = N /\ \A r : Current(M2, r) = Current(M, r)
  BY <1>1, <1>2, <1>6, ClearedIs
<1>11. ASSUME NEW r \in RxEndpoint
       PROVE  RxOK(M2, Q2, T2, r)
  <2>1. /\ \A p \in RxEndpoint \ {e} : Q2[p] = Q[p] /\ (RecvWaits(T, p) => RecvWaits(T2, p))
        /\ Len(Q2[e]) <= Size[e] - 1
    BY <1>2, <1>3, <1>8, FillQueues
  <2>2. CASE r = e
    BY <1>3, <1>10, <2>1, <2>2 DEF RxOK
  <2>3. CASE r # e
    <3>1. RxOK(M, Q, T, r) /\ Q2[r] = Q[r] /\ (RecvWaits(T, r) => RecvWaits(T2, r))
      BY <1>3, <2>1, <2>3
    <3>2. /\ Current(M2, r) = Current(M, r)
          /\ (r \in M2.NDDR => r \in M.NDDR) /\ (r \in M2.EoT => r \in M.EoT)
      BY <1>1, <1>10
    <3>3. QED
      BY ONLY <3>1, <3>2, RxKeeps
  <2>4. QED
    BY <2>2, <2>3
<1>12. ASSUME NEW r \in TxEndpoint
       PROVE  TxOK(M2, r)
  <2>1. /\ TxOK(M, r) /\ M2.dd[r] = M.dd[r]
        /\ M2.udca[r] = M.udca[r] /\ (r \in M2.NDDR => r \in M.NDDR)
    BY <1>1, <1>3, <1>10
  <2>2. QED
    BY ONLY <2>1, TxKeeps
<1>13. AllOf(Q2, T2, C2, M2) = A
  <2>1. /\ e = "EP2RX" => Way(Q2, T2, C2) = Cat(Way(Q, T, C), Single(v))
        /\ e # "EP2RX" => Way(Q2, T2, C2) = Way(Q, T, C)
    BY <1>2, <1>8, FillWay
  <2>2. InOf(M2) = InOf(M)
    BY <1>10 DEF InOf
  <2>3. Line(InOf(M)) /\ Line(Way(Q, T, C)) /\ Line(Single(v))
    BY <1>2, EngineLines, WayLines, CatRules
  <2>4. CASE e = "EP2RX"
    <3>1. OutOf(M) = Single(v) /\ OutOf(M2) = None
      BY <1>1, <1>5, <1>10, <2>4 DEF OutOf
    <3>2. /\ Cat(Cat(InOf(M), Way(Q, T, C)), Single(v)) = Cat(InOf(M), Cat(Way(Q, T, C), Single(v)))
          /\ Line(Cat(InOf(M), Cat(Way(Q, T, C), Single(v))))
      BY <2>3, CatRules
    <3>3. Cat(Cat(InOf(M), Cat(Way(Q, T, C), Single(v))), None)
            = Cat(InOf(M), Cat(Way(Q, T, C), Single(v)))
      BY <3>2, CatRules
    <3>4. QED
      BY <1>1, <2>1, <2>2, <2>4, <3>1, <3>2, <3>3 DEF AllOf
  <2>5. CASE e # "EP2RX"
    <3>1. OutOf(M2) = OutOf(M)
      BY <1>1, <1>10, <2>5 DEF OutOf
    <3>2. QED
      BY <1>1, <2>1, <2>2, <2>5, <3>1 DEF AllOf
  <2>6. QED
    BY <2>4, <2>5
<1>14. HandlerOK(P2, Q2, T2, C2, M2)
  BY <1>8, <1>10, <1>11, <1>12 DEF HandlerOK, EngineOK
<1>15. QED
  BY <1>9, <1>10, <1>13, <1>14 DEF Good

-----------------------------------------------------------------------------
\* The requests for a DD.

LEMMA RxRequestStep ==
  ASSUME NEW S, NEW L, NEW A, NEW O, NEW N, Good(S, L, A, O, N), NEW e \in RxEndpoint, e \notin O
  PROVE  Good(ep_rx_DD_request(S, e), L, A, O, N \ {e})
<1>1. PICK P, Q, T, C, M : /\ S = Full(P, Q, T, C, L, M) /\ HandlerOK(P, Q, T, C, M)
                           /\ M.EoT = O /\ M.NDDR = N /\ AllOf(Q, T, C, M) = A
  BY DEF Good
<1>2. /\ Sound(P, Q, T, C) /\ M \in EngineType /\ e \in Endpoint /\ RxEndpoint \subseteq Endpoint
      /\ TxEndpoint \subseteq Endpoint /\ e \notin TxEndpoint /\ "EP5TX" \in TxEndpoint
  BY <1>1 DEF HandlerOK, EngineOK, Endpoint, RxEndpoint, TxEndpoint
<1>3. /\ \A r \in RxEndpoint : RxOK(M, Q, T, r)
      /\ \A r \in TxEndpoint : TxOK(M, r)
  BY <1>1 DEF HandlerOK, EngineOK
<1>4. CASE Len(Q[e]) = Size[e] - 1
  <2>1. PICK M2 : M2 = Answered(M, e)
    OBVIOUS
  <2>2. ep_rx_DD_request(S, e) = Full(P, Q, T, C, L, M2)
    BY <1>1, <1>2, <1>4, <2>1, RxRequestFull
  <2>3. /\ M2 \in EngineType /\ M2.dd = M.dd /\ M2.udca = M.udca
        /\ M2.EoT = O /\ M2.NDDR = N \ {e} /\ \A r : Current(M2, r) = Current(M, r)
    <3>1. /\ M2 \in EngineType /\ M2.dd = M.dd /\ M2.udca = M.udca
          /\ M2.EoT = M.EoT /\ M2.NDDR = M.NDDR \ {e} /\ \A r : Current(M2, r) = Current(M, r)
      BY <1>2, <2>1, AnsweredIs
    <3>2. QED
      BY <1>1, <3>1
  <2>4. ASSUME NEW r \in RxEndpoint
        PROVE  RxOK(M2, Q, T, r)
    <3>1. /\ RxOK(M, Q, T, r) /\ Current(M2, r) = Current(M, r)
          /\ (r \in M2.NDDR => r \in M.NDDR) /\ (r \in M2.EoT => r \in M.EoT)
      BY <1>1, <1>3, <2>3
    <3>2. QED
      BY ONLY <3>1, RxKeeps
  <2>5. ASSUME NEW r \in TxEndpoint
        PROVE  TxOK(M2, r)
    <3>1. /\ TxOK(M, r) /\ M2.dd[r] = M.dd[r]
          /\ M2.udca[r] = M.udca[r] /\ (r \in M2.NDDR => r \in M.NDDR)
      BY <1>1, <1>3, <2>3
    <3>2. QED
      BY ONLY <3>1, TxKeeps
  <2>6. AllOf(Q, T, C, M2) = A
    BY <1>1, <2>3 DEF AllOf, InOf, OutOf
  <2>7. HandlerOK(P, Q, T, C, M2)
    BY <1>2, <2>3, <2>4, <2>5 DEF HandlerOK, EngineOK
  <2>8. QED
    BY <2>2, <2>3, <2>6, <2>7 DEF Good
<1>5. CASE Len(Q[e]) # Size[e] - 1
  <2>1. PICK i \in DD, dds \in [DD -> DDRecord] :
           ep_rx_DD_request(S, e) = Full(P, Q, T, C, L, Armed(M, e, i, dds))
    BY <1>1, <1>2, <1>5, RxRequestFull
  <2>2. PICK M2 : M2 = Armed(M, e, i, dds)
    OBVIOUS
  <2>3. /\ M2 \in EngineType /\ M2.EoT = O /\ M2.NDDR = N \ {e}
        /\ \A r \in Endpoint \ {e} : /\ M2.dd[r] = M.dd[r] /\ M2.udca[r] = M.udca[r]
                                     /\ Current(M2, r) = Current(M, r)
    BY <1>1, <1>2, <2>2, ArmedIs
  <2>4. ASSUME NEW r \in RxEndpoint
        PROVE  RxOK(M2, Q, T, r)
    <3>1. RxOK(M, Q, T, r)
      BY <1>3
    <3>2. CASE r = e
      <4>1. Len(Q[e]) <= Size[e] - 1
        BY <3>1, <3>2 DEF RxOK
      <4>2. Len(Q[e]) \in Nat /\ Size[e] \in Nat
        <5>1. e \in Buffer
          BY Loop DEF RxEndpoint
        <5>2. Q[e] \in Seq(Block(e))
          BY <1>2, <5>1, SoundParts
        <5>3. QED
          BY <5>1, <5>2, SizeType
      <4>3. Room(Q, T, e)
        BY <1>5, <4>1, <4>2 DEF Room
      <4>4. QED
        BY <2>3, <3>2, <4>1, <4>3 DEF RxOK
    <3>3. CASE r # e
      <4>1. /\ Current(M2, r) = Current(M, r)
            /\ (r \in M2.NDDR => r \in M.NDDR) /\ (r \in M2.EoT => r \in M.EoT)
        BY <1>1, <1>2, <2>3, <3>3
      <4>2. QED
        BY ONLY <3>1, <4>1, RxKeeps
    <3>4. QED
      BY <3>2, <3>3
  <2>5. ASSUME NEW r \in TxEndpoint
        PROVE  TxOK(M2, r)
    <3>1. /\ TxOK(M, r) /\ M2.dd[r] = M.dd[r]
          /\ M2.udca[r] = M.udca[r] /\ (r \in M2.NDDR => r \in M.NDDR)
      BY <1>1, <1>2, <1>3, <2>3
    <3>2. QED
      BY ONLY <3>1, TxKeeps
  <2>6. AllOf(Q, T, C, M2) = A
    <3>1. InOf(M2) = InOf(M)
      BY <1>2, <2>3 DEF InOf
    <3>2. OutOf(M2) = OutOf(M)
      <4>1. CASE e = "EP2RX"
        BY <1>1, <2>3, <4>1 DEF OutOf
      <4>2. CASE e # "EP2RX"
        <5>1. "EP2RX" \in Endpoint \ {e}
          BY <4>2 DEF Endpoint, RxEndpoint
        <5>2. QED
          BY <1>1, <2>3, <5>1 DEF OutOf
      <4>3. QED
        BY <4>1, <4>2
    <3>3. QED
      BY <1>1, <3>1, <3>2 DEF AllOf
  <2>7. HandlerOK(P, Q, T, C, M2)
    BY <1>2, <2>3, <2>4, <2>5 DEF HandlerOK, EngineOK
  <2>8. QED
    BY <2>1, <2>2, <2>3, <2>6, <2>7 DEF Good
<1>6. QED
  BY <1>4, <1>5

\* What becomes of the other queues when a packet goes.
LEMMA DrainQueues ==
  ASSUME NEW P, NEW Q, NEW T, NEW C, Sound(P, Q, T, C), NEW e \in TxEndpoint, NEW b,
         NEW Q2, NEW T2, Drained(Q, T, e, b, Q2, T2), NEW r \in RxEndpoint
  PROVE  Q2[r] = Q[r] /\ (RecvWaits(T, r) => RecvWaits(T2, r))
<1>1. /\ e \in Buffer /\ r \in Buffer /\ r # e /\ Sender(e) \in Task /\ Source[Sender(e)] # r
      /\ T \in [Task -> TaskRecord] /\ Q \in [Buffer -> Seq(Nat)]
  BY Loop, SoundParts DEF RxEndpoint, TxEndpoint, NoBuffer
<1>2. PICK s \in Task : s = Sender(e)
  BY <1>1
<1>3. Q2[r] = Q[r]
  <2>1. Q2 = Headless(Q, e) \/ Q2 = Appended(Headless(Q, e), e, T[s].ptr)
    BY <1>2 DEF Drained
  <2>2. PICK a : a = T[s].ptr
    OBVIOUS
  <2>3. /\ \A p \in Buffer \ {e} : Headless(Q, e)[p] = Q[p]
        /\ \A p \in Buffer \ {e} : Appended(Headless(Q, e), e, a)[p] = Q[p]
    <3>1. Q \in [Buffer -> Seq(Nat)] /\ e \in Buffer
      BY <1>1
    <3>2. \A p \in Buffer \ {e} : /\ Appended(Q, e, a)[p] = Q[p]
                                  /\ Headless(Q, e)[p] = Q[p]
                                  /\ Appended(Headless(Q, e), e, a)[p] = Q[p]
      BY ONLY <3>1, QueueIs
    <3>3. QED
      BY ONLY <3>2
  <2>4. QED
    BY <1>1, <2>1, <2>2, <2>3
<1>4. RecvWaits(T, r) => RecvWaits(T2, r)
  <2>1. T2 = T \/ T2 = Advances(T, s) \/ T2 = Gets(T, s, b)
    BY <1>2 DEF Drained
  <2>2. CASE T2 = Advances(T, s) \/ T2 = Gets(T, s, b)
    <3>1. T \in [Task -> TaskRecord]
      BY <1>1
    <3>2. T2 = Advances(T, s) \/ T2 = Gets(T, s, b) \/ T2 = Receives(T, s, b)
      BY <2>2
    <3>3. \A q \in Buffer \ {Source[s]} : RecvWaits(T, q) => RecvWaits(T2, q)
      BY ONLY <3>1, <3>2, s \in Task, GoneOn
    <3>4. QED
      BY <1>1, <1>2, <3>3
  <2>3. QED
    BY <2>1, <2>2
<1>5. QED
  BY <1>3, <1>4

LEMMA TxRequestStep ==
  ASSUME NEW S, NEW L, NEW A, NEW O, NEW N, Good(S, L, A, O, N), NEW e \in TxEndpoint, e \in N
  PROVE  Good(ep_tx_int_DD_request(S, e), L, A, O, N \ {e})
<1>1. PICK P, Q, T, C, M : /\ S = Full(P, Q, T, C, L, M) /\ HandlerOK(P, Q, T, C, M)
                           /\ M.EoT = O /\ M.NDDR = N /\ AllOf(Q, T, C, M) = A
  BY DEF Good
<1>2. /\ Sound(P, Q, T, C) /\ M \in EngineType /\ e \in Endpoint /\ RxEndpoint \subseteq Endpoint
      /\ TxEndpoint \subseteq Endpoint /\ e \notin RxEndpoint /\ "EP5TX" \in TxEndpoint
      /\ M.dd[e] \in [DD -> DDRecord]
  BY <1>1 DEF HandlerOK, EngineOK, Endpoint, RxEndpoint, TxEndpoint, EngineType
<1>3. /\ \A r \in RxEndpoint : RxOK(M, Q, T, r)
      /\ \A r \in TxEndpoint : TxOK(M, r)
  BY <1>1 DEF HandlerOK, EngineOK
<1>4. /\ M.dd[e][1].retired /\ M.dd[e][1].whole /\ M.dd[e][NumBuf].whole
      /\ Current(M, e).retired
  BY <1>1, <1>3 DEF TxOK, Current
\* What holds of the other endpoints, whatever the DDs of e are now.
<1>5. ASSUME NEW P2, NEW Q2, NEW T2, NEW M2, Sound(P2, Q2, T2, C), M2 \in EngineType, TxOK(M2, e),
             M2.EoT = M.EoT, M2.NDDR = M.NDDR \ {e},
             \A r \in Endpoint \ {e} : /\ M2.dd[r] = M.dd[r] /\ M2.udca[r] = M.udca[r]
                                       /\ Current(M2, r) = Current(M, r),
             \A r \in RxEndpoint : Q2[r] = Q[r] /\ (RecvWaits(T, r) => RecvWaits(T2, r))
      PROVE  HandlerOK(P2, Q2, T2, C, M2)
  <2>1. ASSUME NEW r \in RxEndpoint
        PROVE  RxOK(M2, Q2, T2, r)
    <3>1. /\ RxOK(M, Q, T, r) /\ Current(M2, r) = Current(M, r)
          /\ (r \in M2.NDDR => r \in M.NDDR) /\ (r \in M2.EoT => r \in M.EoT)
          /\ Q2[r] = Q[r] /\ (RecvWaits(T, r) => RecvWaits(T2, r))
      BY <1>2, <1>3, <1>5
    <3>2. QED
      BY ONLY <3>1, RxKeeps
  <2>2. ASSUME NEW r \in TxEndpoint, r # e
        PROVE  TxOK(M2, r)
    <3>1. /\ TxOK(M, r) /\ M2.dd[r] = M.dd[r]
          /\ M2.udca[r] = M.udca[r] /\ (r \in M2.NDDR => r \in M.NDDR)
      BY <1>2, <1>3, <1>5, <2>2
    <3>2. QED
      BY ONLY <3>1, TxKeeps
  <2>3. \A r \in TxEndpoint : TxOK(M2, r)
    BY <1>5, <2>2
  <2>4. QED
    BY <1>5, <2>1, <2>3 DEF HandlerOK, EngineOK
<1>6. "EP2RX" \in Endpoint \ {e}
  BY DEF Endpoint, RxEndpoint, TxEndpoint
<1>7. CASE Q[e] = <<>>
  <2>1. PICK dds \in [DD -> DDRecord] : dds = EmptyDD(M.dd[e])
    BY <1>2, EmptyIs
  <2>2. dds[1] = M.dd[e][1] /\ dds[NumBuf].whole = M.dd[e][NumBuf].whole
    BY <1>2, <2>1, EmptyIs
  <2>3. PICK M2 : M2 = Armed(M, e, NumBuf, dds)
    OBVIOUS
  <2>4. ep_tx_int_DD_request(S, e) = Full(P, Q, T, C, L, M2)
    <3>1. PICK b : b = Head(Q[e])
      OBVIOUS
    <3>2. QED
      BY <1>1, <1>2, <1>7, <2>1, <2>3, <3>1, TxRequestFull
  <2>5. /\ M2 \in EngineType /\ M2.dd[e] = dds /\ M2.udca[e] = NumBuf
        /\ M2.EoT = M.EoT /\ M2.NDDR = M.NDDR \ {e}
        /\ \A r \in Endpoint \ {e} : /\ M2.dd[r] = M.dd[r] /\ M2.udca[r] = M.udca[r]
                                     /\ Current(M2, r) = Current(M, r)
    BY <1>2, <2>3, DDType, ArmedIs
  <2>6. TxOK(M2, e)
    BY <1>4, <2>2, <2>5 DEF TxOK
  <2>7. HandlerOK(P, Q, T, C, M2)
    BY <1>2, <1>5, <2>5, <2>6
  <2>8. InOf(M2) = InOf(M)
    <3>1. CASE e = "EP5TX"
      BY <1>4, <2>5, <3>1 DEF InOf
    <3>2. CASE e # "EP5TX"
      BY <1>2, <2>5, <3>2 DEF InOf
    <3>3. QED
      BY <3>1, <3>2
  <2>9. AllOf(Q, T, C, M2) = A
    BY <1>1, <1>6, <2>5, <2>8 DEF AllOf, OutOf
  <2>10. QED
    BY <1>1, <2>4, <2>5, <2>7, <2>9 DEF Good
<1>8. CASE Q[e] # <<>>
  <2>1. PICK b : b = Head(Q[e])
    OBVIOUS
  <2>2. PICK P2, Q2, T2 :
          /\ Drained(Q, T, e, b, Q2, T2) /\ Sound(P2, Q2, T2, C)
          /\ ep_tx_int_DD_request(S, e)
               = Full(P2, Q2, T2, C, L, Armed(M, e, 1, OverDDs(M.dd[e], 1, C[e][b])))
    BY <1>1, <1>2, <1>4, <1>8, <2>1, TxRequestFull
  <2>3. /\ C[e][b] \in Int
        /\ e = "EP5TX" => Way(Q, T, C) = Cat(Single(C[e][b]), Way(Q2, T2, C))
        /\ e # "EP5TX" => Way(Q2, T2, C) = Way(Q, T, C)
    BY <1>2, <1>8, <2>1, <2>2, DrainWay
  <2>4. PICK v \in Int : v = C[e][b]
    BY <2>3
  <2>5. PICK dds \in [DD -> DDRecord] : dds = OverDDs(M.dd[e], 1, v)
    BY <1>2, OverIs
  <2>6. /\ dds[1] = [retired |-> FALSE, holds |-> v, whole |-> M.dd[e][1].whole]
        /\ dds[NumBuf] = M.dd[e][NumBuf]
    BY <1>2, <2>5, OverIs
  <2>7. PICK M2 : M2 = Armed(M, e, 1, dds)
    OBVIOUS
  <2>8. /\ M2 \in EngineType /\ M2.dd[e] = dds /\ M2.udca[e] = 1 /\ Current(M2, e) = dds[1]
        /\ M2.EoT = M.EoT /\ M2.NDDR = M.NDDR \ {e}
        /\ \A r \in Endpoint \ {e} : /\ M2.dd[r] = M.dd[r] /\ M2.udca[r] = M.udca[r]
                                     /\ Current(M2, r) = Current(M, r)
    BY <1>2, <2>7, DDType, ArmedIs
  <2>9. TxOK(M2, e)
    BY <1>4, <2>6, <2>8, DDType DEF TxOK
  <2>10. HandlerOK(P2, Q2, T2, C, M2)
    <3>1. \A r \in RxEndpoint : Q2[r] = Q[r] /\ (RecvWaits(T, r) => RecvWaits(T2, r))
      BY <1>2, <2>2, DrainQueues
    <3>2. QED
      BY <1>5, <2>2, <2>8, <2>9, <3>1
  <2>11. AllOf(Q2, T2, C, M2) = A
    <3>1. OutOf(M2) = OutOf(M)
      BY <1>1, <1>6, <2>8 DEF OutOf
    <3>2. Line(Way(Q, T, C)) /\ Line(Way(Q2, T2, C)) /\ Line(Single(v))
      BY <1>2, <2>2, WayLines, CatRules
    <3>3. CASE e = "EP5TX"
      <4>1. InOf(M) = None
        BY <1>4, <3>3 DEF InOf
      <4>2. InOf(M2) = Single(v)
        BY <2>6, <2>8, <3>3, DDType DEF InOf
      <4>3. Cat(None, Way(Q, T, C)) = Cat(Single(v), Way(Q2, T2, C))
        BY <2>3, <2>4, <3>2, <3>3, CatRules
      <4>4. QED
        BY <1>1, <3>1, <4>1, <4>2, <4>3 DEF AllOf
    <3>4. CASE e # "EP5TX"
      <4>1. InOf(M2) = InOf(M)
        BY <1>2, <2>8, <3>4 DEF InOf
      <4>2. QED
        BY <1>1, <2>3, <3>1, <3>4, <4>1 DEF AllOf
    <3>5. QED
      BY <3>3, <3>4
  <2>12. QED
    BY <1>1, <2>2, <2>4, <2>5, <2>7, <2>8, <2>10, <2>11 DEF Good
<1>9. QED
  BY <1>7, <1>8

-----------------------------------------------------------------------------
\* The whole handler.

LEMMA GoodRequests ==
  ASSUME NEW S, NEW L, NEW A, NEW O, NEW N, Good(S, L, A, O, N)
  PROVE  S.dma.EoT = O /\ S.dma.NDDR = N /\ O \subseteq RxEndpoint /\ N \subseteq Endpoint
<1>1. PICK P, Q, T, C, M : /\ S = Full(P, Q, T, C, L, M) /\ HandlerOK(P, Q, T, C, M)
                           /\ M.EoT = O /\ M.NDDR = N /\ AllOf(Q, T, C, M) = A
  BY DEF Good
<1>2. S.dma = M
  BY <1>1 DEF Full
<1>3. M \in EngineType
  BY <1>1 DEF HandlerOK, EngineOK
<1>4. QED
  BY <1>1, <1>2, <1>3 DEF EngineType

LEMMA EndsGood ==
  ASSUME NEW S, NEW L, NEW A, NEW O, NEW N, Good(S, L, A, O, N)
  PROVE  Good(EndsOfTransfer(S), L, A, {}, N)
<1> DEFINE done(V, e) == IF e \in S.dma.EoT THEN ep_rx_end_of_transfer(V, e) ELSE V
<1>1. S.dma.EoT = O /\ O \subseteq RxEndpoint
  BY GoodRequests
<1>2. ASSUME NEW V, NEW U, Good(V, L, A, U, N), NEW e \in RxEndpoint, e \in O <=> e \in U
      PROVE  Good(done(V, e), L, A, U \ {e}, N)
  <2>1. CASE e \in O
    <3>1. Good(ep_rx_end_of_transfer(V, e), L, A, U \ {e}, N)
      BY <1>2, <2>1, EndOfTransferStep
    <3>2. QED
      BY <1>1, <2>1, <3>1
  <2>2. CASE e \notin O
    <3>1. U \ {e} = U
      BY <1>2, <2>2
    <3>2. QED
      BY <1>1, <1>2, <2>2, <3>1
  <2>3. QED
    BY <2>1, <2>2
<1>3. EndsOfTransfer(S) = done(done(S, "EP2RX"), "EP5RX")
  BY DEF EndsOfTransfer
<1> HIDE DEF done
<1>4. "EP2RX" \in RxEndpoint /\ "EP5RX" \in RxEndpoint /\ "EP5RX" # "EP2RX"
  BY DEF RxEndpoint
<1>5. PICK V, U : V = done(S, "EP2RX") /\ U = O \ {"EP2RX"}
  OBVIOUS
<1>6. Good(V, L, A, U, N)
  BY <1>2, <1>4, <1>5
<1>7. Good(done(V, "EP5RX"), L, A, U \ {"EP5RX"}, N)
  BY <1>2, <1>4, <1>5, <1>6
<1>8. U \ {"EP5RX"} = {}
  BY <1>1, <1>5 DEF RxEndpoint
<1>9. QED
  BY <1>3, <1>5, <1>7, <1>8

LEMMA RequestsGood ==
  ASSUME NEW S, NEW L, NEW A, NEW O, NEW N, Good(S, L, A, O, N), N \cap O = {}
  PROVE  Good(DDRequests(S), L, A, O, {})
<1> DEFINE rx(V, e) == IF e \in S.dma.NDDR THEN ep_rx_DD_request(V, e) ELSE V
           tx(V, e) == IF e \in S.dma.NDDR THEN ep_tx_int_DD_request(V, e) ELSE V
<1>1. S.dma.NDDR = N /\ N \subseteq Endpoint
  BY GoodRequests
<1>2. ASSUME NEW V, NEW U, Good(V, L, A, O, U), NEW e, e \in N <=> e \in U
      PROVE  /\ e \in RxEndpoint => Good(rx(V, e), L, A, O, U \ {e})
             /\ e \in TxEndpoint => Good(tx(V, e), L, A, O, U \ {e})
  <2>1. CASE e \in N
    <3>1. /\ e \in RxEndpoint => Good(ep_rx_DD_request(V, e), L, A, O, U \ {e})
          /\ e \in TxEndpoint => Good(ep_tx_int_DD_request(V, e), L, A, O, U \ {e})
      <4>1. e \notin O /\ e \in U
        BY <1>2, <2>1
      <4>2. QED
        BY <1>2, <4>1, RxRequestStep, TxRequestStep
    <3>2. QED
      BY <1>1, <2>1, <3>1
  <2>2. CASE e \notin N
    <3>1. U \ {e} = U
      BY <1>2, <2>2
    <3>2. QED
      BY <1>1, <1>2, <2>2, <3>1
  <2>3. QED
    BY <2>1, <2>2
<1>3. DDRequests(S) = tx(rx(tx(rx(S, "EP2RX"), "EP2TX"), "EP5RX"), "EP5TX")
  BY DEF DDRequests
<1> HIDE DEF rx, tx
<1>4. /\ "EP2RX" \in RxEndpoint /\ "EP5RX" \in RxEndpoint
      /\ "EP2TX" \in TxEndpoint /\ "EP5TX" \in TxEndpoint
  BY DEF RxEndpoint, TxEndpoint
<1>5. PICK V1, V2, V3 : /\ V1 = rx(S, "EP2RX") /\ V2 = tx(V1, "EP2TX") /\ V3 = rx(V2, "EP5RX")
  OBVIOUS
<1>6. PICK U1, U2, U3 : /\ U1 = N \ {"EP2RX"} /\ U2 = U1 \ {"EP2TX"} /\ U3 = U2 \ {"EP5RX"}
  OBVIOUS
<1>7. Good(V1, L, A, O, U1)
  BY <1>2, <1>4, <1>5, <1>6
<1>8. Good(V2, L, A, O, U2)
  <2>1. "EP2TX" \in N <=> "EP2TX" \in U1
    BY <1>6
  <2>2. QED
    BY <1>2, <1>4, <1>5, <1>6, <1>7, <2>1
<1>9. Good(V3, L, A, O, U3)
  <2>1. "EP5RX" \in N <=> "EP5RX" \in U2
    BY <1>6
  <2>2. QED
    BY <1>2, <1>4, <1>5, <1>6, <1>8, <2>1
<1>10. Good(tx(V3, "EP5TX"), L, A, O, U3 \ {"EP5TX"})
  <2>1. "EP5TX" \in N <=> "EP5TX" \in U3
    BY <1>6
  <2>2. QED
    BY <1>2, <1>4, <1>9, <2>1
<1>11. U3 \ {"EP5TX"} = {}
  BY <1>1, <1>6 DEF Endpoint, RxEndpoint, TxEndpoint
<1>12. QED
  BY <1>3, <1>5, <1>10, <1>11

\* The invariant says that the handler finds a sound state, and its result is
\* the invariant again.
LEMMA InvGood ==
  ASSUME DmaInv
  PROVE  Good(State, dropped, AllOf(queue, task, content, dma), dma.EoT, dma.NDDR)
<1>1. PICK L, A, O, N : /\ L = dropped /\ A = AllOf(queue, task, content, dma)
                        /\ O = dma.EoT /\ N = dma.NDDR
  OBVIOUS
<1>2. State = Full(pool, queue, task, content, L, dma)
  BY <1>1 DEF State, Full
<1>3. HandlerOK(pool, queue, task, content, dma)
  BY DEF DmaInv, HandlerOK
<1>4. Good(State, L, A, O, N)
  BY <1>1, <1>2, <1>3 DEF Good
<1>5. QED
  BY <1>1, <1>4

\* A test of the handler is done when its state S is the next one.
LEMMA HandlerKeeps ==
  ASSUME DmaInv, NEW S, SetState(S), UNCHANGED <<cnt, sent, received>>, ctl' \in ControlType,
         NEW O, NEW N, Good(S, dropped, AllOf(queue, task, content, dma), O, N)
  PROVE  /\ DmaInv'
         /\ AllOf(queue', task', content', dma') = AllOf(queue, task, content, dma)
         /\ HostSame
<1>1. PICK L, A : L = dropped /\ A = AllOf(queue, task, content, dma)
  OBVIOUS
<1>2. PICK P, Q, T, C, M : /\ S = Full(P, Q, T, C, L, M) /\ HandlerOK(P, Q, T, C, M)
                           /\ AllOf(Q, T, C, M) = A
  BY <1>1 DEF Good
<1>3. /\ pool' = P /\ queue' = Q /\ task' = T /\ content' = C /\ dropped' = L /\ dma' = M
  BY <1>2 DEF SetState, SetBuffers, Full
<1>4. cnt' = cnt /\ sent' = sent /\ received' = received
  OBVIOUS
<1>5. Sound(pool, queue, task, content)' /\ EngineOK(dma, queue, task)'
  BY <1>2, <1>3 DEF HandlerOK
<1>6. DmaInv'
  BY <1>1, <1>3, <1>4, <1>5 DEF DmaInv
<1>7. QED
  BY <1>1, <1>2, <1>3, <1>4, <1>6 DEF HostSame

LEMMA HandlerStep ==
  ASSUME DmaInv, tn_usb_int_func, ctl' \in ControlType, ~ctl'.overtaken
  PROVE  /\ DmaInv'
         /\ AllOf(queue', task', content', dma') = AllOf(queue, task, content, dma)
         /\ HostSame
<1>1. PICK L, A, O, N : /\ L = dropped /\ A = AllOf(queue, task, content, dma)
                        /\ O = dma.EoT /\ N = dma.NDDR
  OBVIOUS
<1>2. Good(State, L, A, O, N)
  BY <1>1, InvGood
<1>3. CASE FirstTest
  <2>1. PICK S : S = EndsOfTransfer(State) /\ SetState(S)
    BY <1>3 DEF FirstTest
  <2>2. Good(S, L, A, {}, N)
    BY <1>2, <2>1, EndsGood
  <2>3. UNCHANGED <<cnt, sent, received>>
    BY <1>3 DEF FirstTest
  <2>4. QED
    BY <1>1, <2>1, <2>2, <2>3, HandlerKeeps
<1>4. CASE SecondTest
  <2>1. PICK S : S = DDRequests(State) /\ SetState(S)
    BY <1>4 DEF SecondTest
  <2>2. N \cap O = {}
    <3>1. ctl \in ControlType
      BY DEF DmaInv
    <3>2. ctl'.overtaken = (ctl.overtaken \/ dma.NDDR \cap dma.EoT # {})
      BY <1>4, <3>1 DEF SecondTest, ControlType
    <3>3. QED
      BY <1>1, <3>2
  <2>3. Good(S, L, A, O, {})
    BY <1>2, <2>1, <2>2, RequestsGood
  <2>4. UNCHANGED <<cnt, sent, received>>
    BY <1>4 DEF SecondTest
  <2>5. QED
    BY <1>1, <2>1, <2>3, <2>4, HandlerKeeps
<1>5. QED
  BY <1>3, <1>4 DEF tn_usb_int_func

\* The line of the abstract specification is all packets on their way.
LEMMA DmaLineIs ==
  /\ InDD("EP5TX") \o OnTheWay \o OutDD("EP2RX") = AllOf(queue, task, content, dma)
  /\ (InDD("EP5TX") \o OnTheWay \o OutDD("EP2RX"))' = AllOf(queue', task', content', dma')
<1>1. /\ InDD("EP5TX") = InOf(dma) /\ InDD("EP5TX")' = InOf(dma')
      /\ OutDD("EP2RX") = OutOf(dma) /\ OutDD("EP2RX")' = OutOf(dma')
  BY DEF InDD, OutDD, InOf, OutOf, Single, None, Current
<1>2. QED
  BY <1>1, WayIs DEF AllOf, Cat

\* What EchoLine does, but that it loses no packet.
DmaEchoStep == [DmaEcho!Accept \/ DmaEcho!Return]_(DmaEcho!vars)

LEMMA DmaSees ==
  ASSUME AllOf(queue', task', content', dma') = AllOf(queue, task, content, dma), HostSame
  PROVE  DmaEchoStep
BY DmaLineIs DEF HostSame, DmaEcho!vars, DmaEchoStep

-----------------------------------------------------------------------------
\* The steps of the engine.

LEMMA InvParts ==
  ASSUME DmaInv
  PROVE  /\ Sound(pool, queue, task, content) /\ dma \in EngineType
         /\ dma = Eng(dma.dd, dma.udca, dma.enabled, dma.EoT, dma.NDDR)
         /\ dma.dd \in [Endpoint -> [DD -> DDRecord]] /\ dma.udca \in [Endpoint -> DD]
         /\ dma.enabled \subseteq Endpoint /\ dma.EoT \subseteq RxEndpoint
         /\ dma.NDDR \subseteq Endpoint
         /\ \A r \in TxEndpoint : TxOK(dma, r)
         /\ \A r \in RxEndpoint : RxOK(dma, queue, task, r)
         /\ sent \in [RxEndpoint -> Nat] /\ cnt \in Nat /\ ctl \in ControlType
<1>1. /\ Sound(pool, queue, task, content) /\ dma \in EngineType
      /\ \A r \in TxEndpoint : TxOK(dma, r)
      /\ \A r \in RxEndpoint : RxOK(dma, queue, task, r)
      /\ sent \in [RxEndpoint -> Nat] /\ cnt \in Nat /\ ctl \in ControlType
  BY DEF DmaInv, EngineOK
<1>2. dma = Eng(dma.dd, dma.udca, dma.enabled, dma.EoT, dma.NDDR)
  BY <1>1, EngIs
<1>3. QED
  BY <1>1, <1>2 DEF EngineType

\* The engine's data are M now, the buffers as before.
LEMMA EngineStep ==
  ASSUME DmaInv, NEW M, dma' = M, M \in EngineType,
         UNCHANGED <<pool, queue, content, task, dropped>>,
         \A r \in TxEndpoint : TxOK(M, r), \A r \in RxEndpoint : RxOK(M, queue, task, r),
         cnt' \in Nat, sent' \in [RxEndpoint -> Nat],
         received' = [e \in TxEndpoint |-> received'[e]], ctl' \in ControlType
  PROVE  DmaInv'
<1>1. /\ pool' = pool /\ queue' = queue /\ content' = content /\ task' = task
      /\ dropped' = dropped
  OBVIOUS
<1>2. Sound(pool, queue, task, content)' /\ EngineOK(dma, queue, task)'
  BY <1>1 DEF DmaInv, EngineOK
<1>3. QED
  BY <1>1, <1>2 DEF DmaInv

\* The packet of the host is in the DD of the UDCA.
Taken(M, e, v) ==
  [i \in DD |-> IF i = M.udca[e] THEN [M.dd[e][i] EXCEPT !.retired = TRUE, !.holds = v]
                ELSE IF Overlap(i, M.udca[e]) THEN [M.dd[e][i] EXCEPT !.holds = Unwritten]
                ELSE M.dd[e][i]]

LEMMA TakenIs ==
  ASSUME NEW M, M \in EngineType, NEW e \in Endpoint, NEW v \in Int
  PROVE  /\ Taken(M, e, v) \in [DD -> DDRecord]
         /\ Taken(M, e, v)[M.udca[e]].retired = TRUE /\ Taken(M, e, v)[M.udca[e]].holds = v
<1>1. M.dd[e] \in [DD -> DDRecord] /\ M.udca[e] \in DD
  BY DEF EngineType
<1>2. PICK f, u, g : f = M.dd[e] /\ u = M.udca[e] /\ g = Taken(M, e, v)
  OBVIOUS
<1>3. g = [i \in DD |-> IF i = u THEN [f[i] EXCEPT !.retired = TRUE, !.holds = v]
                        ELSE IF Overlap(i, u) THEN [f[i] EXCEPT !.holds = Unwritten]
                        ELSE f[i]]
  BY ONLY <1>2 DEF Taken
<1>4. ASSUME NEW i \in DD
      PROVE  /\ f[i] \in DDRecord /\ [f[i] EXCEPT !.holds = Unwritten] \in DDRecord
             /\ [f[i] EXCEPT !.retired = TRUE, !.holds = v] \in DDRecord
             /\ [f[i] EXCEPT !.retired = TRUE, !.holds = v].retired = TRUE
             /\ [f[i] EXCEPT !.retired = TRUE, !.holds = v].holds = v
  <2>1. PICK x : x = f[i] /\ x \in DDRecord
    BY <1>1, <1>2
  <2>2. PICK y : y = [x EXCEPT !.retired = TRUE]
    OBVIOUS
  <2>3. y \in DDRecord /\ y.retired = TRUE
    BY <2>1, <2>2 DEF DDRecord
  <2>4. PICK z : z = [y EXCEPT !.holds = v]
    OBVIOUS
  <2>5. z \in DDRecord /\ z.retired = TRUE /\ z.holds = v
    BY <2>3, <2>4 DEF DDRecord
  <2>6. [x EXCEPT !.holds = Unwritten] \in DDRecord
    BY <2>1 DEF DDRecord, Unwritten
  <2>7. [f[i] EXCEPT !.retired = TRUE, !.holds = v] = z
    BY <2>1, <2>2, <2>4
  <2>8. QED
    BY <2>1, <2>5, <2>6, <2>7
<1>5. g \in [DD -> DDRecord]
  <2>1. ASSUME NEW i \in DD
        PROVE  g[i] \in DDRecord
    <3>1. CASE i = u
      BY <1>3, <1>4, <3>1
    <3>2. CASE i # u /\ Overlap(i, u)
      BY <1>3, <1>4, <3>2
    <3>3. CASE i # u /\ ~Overlap(i, u)
      BY <1>3, <1>4, <3>3
    <3>4. QED
      BY <3>1, <3>2, <3>3
  <2>2. QED
    BY <1>3, <2>1
<1>6. g[u].retired = TRUE /\ g[u].holds = v
  <2>1. u \in DD
    BY <1>1, <1>2
  <2>2. g[u] = [f[u] EXCEPT !.retired = TRUE, !.holds = v]
    BY <1>3, <2>1
  <2>3. QED
    BY <1>4, <2>1, <2>2
<1>7. QED
  BY <1>2, <1>5, <1>6

\* The DDs of e are dds now, and these are the requests.
Flags(n, o, r) == n \subseteq Endpoint /\ o \subseteq RxEndpoint /\ r \subseteq Endpoint

LEMMA NewDDs ==
  ASSUME NEW M, M \in EngineType, NEW e \in Endpoint, NEW dds \in [DD -> DDRecord],
         NEW n, NEW o, NEW r, Flags(n, o, r),
         NEW N, N = Eng(Put(M.dd, e, dds), M.udca, n, o, r)
  PROVE  /\ N \in EngineType /\ N.dd[e] = dds /\ N.udca = M.udca
         /\ N.enabled = n /\ N.EoT = o /\ N.NDDR = r /\ Current(N, e) = dds[M.udca[e]]
         /\ \A f \in Endpoint \ {e} : N.dd[f] = M.dd[f] /\ Current(N, f) = Current(M, f)
<1>1. /\ M.dd \in [Endpoint -> [DD -> DDRecord]] /\ M.udca \in [Endpoint -> DD]
  BY DEF EngineType
<1>2. PICK d : d = Put(M.dd, e, dds)
  OBVIOUS
<1>3. /\ d \in [Endpoint -> [DD -> DDRecord]] /\ d[e] = dds
      /\ \A f \in Endpoint \ {e} : d[f] = M.dd[f]
  BY <1>1, <1>2 DEF Put
<1>4. N = [dd |-> d, udca |-> M.udca, enabled |-> n, EoT |-> o, NDDR |-> r]
  BY <1>2 DEF Eng
<1>5. N.dd = d /\ N.udca = M.udca /\ N.enabled = n /\ N.EoT = o /\ N.NDDR = r
  BY <1>4
<1>6. N \in EngineType
  BY <1>1, <1>3, <1>4 DEF EngineType, Flags
<1>7. QED
  BY <1>3, <1>5, <1>6 DEF Current

LEMMA DmaOutStep ==
  ASSUME DmaInv, NEW e \in RxEndpoint, DmaOut(e)
  PROVE  DmaInv' /\ DmaEchoStep
<1>1. /\ dma \in EngineType /\ e \in Endpoint /\ sent \in [RxEndpoint -> Nat]
      /\ dma.EoT \subseteq RxEndpoint /\ dma.NDDR \subseteq Endpoint
      /\ dma.enabled \subseteq Endpoint
      /\ \A r \in TxEndpoint : TxOK(dma, r)
      /\ \A r \in RxEndpoint : RxOK(dma, queue, task, r)
      /\ dma = Eng(dma.dd, dma.udca, dma.enabled, dma.EoT, dma.NDDR)
      /\ Sound(pool, queue, task, content) /\ ctl \in ControlType /\ cnt \in Nat
  BY InvParts DEF Endpoint
<1>2. /\ ~Current(dma, e).retired /\ sent' = [sent EXCEPT ![e] = @ + 1]
      /\ UNCHANGED <<pool, queue, content, task, cnt, received, dropped, ctl>>
  BY DEF DmaOut
<1>3. PICK v \in Int : v = sent[e] + 1
  BY <1>1
<1>4. PICK dds \in [DD -> DDRecord] : dds = Taken(dma, e, v)
  BY <1>1, <1>3, TakenIs
<1>5. dds[dma.udca[e]].retired = TRUE /\ dds[dma.udca[e]].holds = v
  <2>1. dma \in EngineType /\ e \in Endpoint
    BY <1>1
  <2>2. QED
    BY ONLY <1>3, <1>4, <2>1, TakenIs
<1>6. PICK M : M = Eng(Put(dma.dd, e, dds), dma.udca, dma.enabled, dma.EoT \cup {e}, dma.NDDR)
  OBVIOUS
<1>7. dma' = M
  <2>1. PICK d, u, n, o, r : /\ d = dma.dd /\ u = dma.udca /\ n = dma.enabled /\ o = dma.EoT
                             /\ r = dma.NDDR
    OBVIOUS
  <2>2. dma = [dd |-> d, udca |-> u, enabled |-> n, EoT |-> o, NDDR |-> r]
    BY <1>1, <2>1 DEF Eng
  <2>3. dma' = [dma EXCEPT !.EoT = @ \cup {e}, !.dd[e] =
                  [i \in DD |->
                     IF i = dma.udca[e] THEN [@[i] EXCEPT !.retired = TRUE, !.holds = sent[e] + 1]
                     ELSE IF Overlap(i, dma.udca[e]) THEN [@[i] EXCEPT !.holds = Unwritten]
                     ELSE @[i]]]
    BY DEF DmaOut
  <2>4. PICK W : W = [dma EXCEPT !.EoT = @ \cup {e}]
    OBVIOUS
  <2>5. W = [dd |-> d, udca |-> u, enabled |-> n, EoT |-> o \cup {e}, NDDR |-> r] /\ W.dd = d
    BY <2>2, <2>4
  <2>6. dma' = [W EXCEPT !.dd[e] = dds]
    <3>1. dds = [i \in DD |->
                  IF i = dma.udca[e] THEN [W.dd[e][i] EXCEPT !.retired = TRUE, !.holds = sent[e] + 1]
                  ELSE IF Overlap(i, dma.udca[e]) THEN [W.dd[e][i] EXCEPT !.holds = Unwritten]
                  ELSE W.dd[e][i]]
      BY <1>3, <1>4, <2>1, <2>5 DEF Taken
    <3>2. QED
      BY ONLY <2>3, <2>4, <3>1
  <2>7. PICK d2 : d2 = [d EXCEPT ![e] = dds]
    OBVIOUS
  <2>8. [W EXCEPT !.dd = d2] = [dd |-> d2, udca |-> u, enabled |-> n, EoT |-> o \cup {e}, NDDR |-> r]
    BY ONLY <2>5
  <2>9. QED
    BY <1>6, <2>1, <2>5, <2>6, <2>7, <2>8 DEF Eng, Put
<1>8. /\ M \in EngineType /\ M.dd[e] = dds /\ M.udca = dma.udca
      /\ M.EoT = dma.EoT \cup {e} /\ M.NDDR = dma.NDDR /\ Current(M, e) = dds[dma.udca[e]]
      /\ \A f \in Endpoint \ {e} : M.dd[f] = dma.dd[f] /\ Current(M, f) = Current(dma, f)
  <2>1. PICK n, o, r : n = dma.enabled /\ o = dma.EoT \cup {e} /\ r = dma.NDDR
    OBVIOUS
  <2>2. Flags(n, o, r)
    BY <1>1, <2>1 DEF Flags
  <2>3. M = Eng(Put(dma.dd, e, dds), dma.udca, n, o, r)
    BY <1>6, <2>1
  <2>4. /\ M \in EngineType /\ M.dd[e] = dds /\ M.udca = dma.udca
        /\ M.enabled = n /\ M.EoT = o /\ M.NDDR = r /\ Current(M, e) = dds[dma.udca[e]]
        /\ \A f \in Endpoint \ {e} : M.dd[f] = dma.dd[f] /\ Current(M, f) = Current(dma, f)
    BY <1>1, <2>2, <2>3, NewDDs
  <2>5. QED
    BY <2>1, <2>4
<1>9. ASSUME NEW r \in RxEndpoint
      PROVE  RxOK(M, queue, task, r)
  <2>1. RxOK(dma, queue, task, r)
    BY <1>1
  <2>2. CASE r = e
    BY <1>2, <1>5, <1>8, <2>1, <2>2 DEF RxOK
  <2>3. CASE r # e
    <3>1. /\ Current(M, r) = Current(dma, r)
          /\ (r \in M.NDDR => r \in dma.NDDR) /\ (r \in M.EoT => r \in dma.EoT)
      BY <1>8, <2>3 DEF Endpoint
    <3>2. QED
      BY ONLY <2>1, <3>1, RxKeeps
  <2>4. QED
    BY <2>2, <2>3
<1>10. ASSUME NEW r \in TxEndpoint
       PROVE  TxOK(M, r)
  <2>1. r \in Endpoint \ {e}
    BY DEF Endpoint, RxEndpoint, TxEndpoint
  <2>2. /\ TxOK(dma, r) /\ M.dd[r] = dma.dd[r]
        /\ M.udca[r] = dma.udca[r] /\ (r \in M.NDDR => r \in dma.NDDR)
    BY <1>1, <1>8, <2>1
  <2>3. QED
    BY ONLY <2>2, TxKeeps
<1>11. DmaInv'
  <2>1. sent' \in [RxEndpoint -> Nat] /\ cnt' \in Nat /\ ctl' \in ControlType
        /\ received' = [f \in TxEndpoint |-> received'[f]]
    BY <1>1, <1>2 DEF DmaInv
  <2>2. QED
    BY <1>2, <1>7, <1>8, <1>9, <1>10, <2>1, EngineStep
<1>12. InOf(M) = InOf(dma)
  <2>1. "EP5TX" \in Endpoint \ {e}
    BY DEF Endpoint, RxEndpoint, TxEndpoint
  <2>2. QED
    BY <1>8, <2>1 DEF InOf
<1>13. /\ queue' = queue /\ task' = task /\ content' = content
       /\ received' = received /\ dropped' = dropped
  BY <1>2
<1>14. CASE e = "EP2RX"
  <2>1. OutOf(dma) = None /\ OutOf(M) = Single(v)
    <3>1. RxOK(dma, queue, task, e)
      BY <1>1
    <3>2. e \notin dma.EoT
      BY <1>2, <3>1 DEF RxOK
    <3>3. QED
      BY <1>5, <1>8, <1>14, <3>2 DEF OutOf
  <2>2. PICK s : s = Cat(InOf(dma), Way(queue, task, content)) /\ Line(s)
    BY <1>1, EngineLines, WayLines, CatRules
  <2>3. AllOf(queue, task, content, dma) = s
    BY <2>1, <2>2, CatRules DEF AllOf
  <2>4. AllOf(queue', task', content', dma') = Append(s, v)
    <3>1. AllOf(queue', task', content', dma') = Cat(s, Single(v))
      BY <1>7, <1>12, <1>13, <2>1, <2>2 DEF AllOf
    <3>2. QED
      BY <2>2, <3>1, LineAppend
  <2>5. sent'["EP2RX"] = v /\ sent["EP2RX"] + 1 = v
    BY <1>1, <1>2, <1>3, <1>14
  <2>6. DmaEcho!Accept
    BY <1>13, <2>3, <2>4, <2>5, DmaLineIs DEF DmaEcho!Accept
  <2>7. QED
    BY <1>11, <2>6 DEF DmaEchoStep
<1>15. CASE e # "EP2RX"
  <2>1. OutOf(M) = OutOf(dma)
    <3>1. "EP2RX" \in Endpoint \ {e}
      BY <1>15 DEF Endpoint, RxEndpoint
    <3>2. QED
      BY <1>8, <1>15, <3>1 DEF OutOf
  <2>2. AllOf(queue', task', content', dma') = AllOf(queue, task, content, dma)
    BY <1>7, <1>12, <1>13, <2>1 DEF AllOf
  <2>3. HostSame
    BY <1>1, <1>2, <1>15 DEF HostSame, RxEndpoint
  <2>4. QED
    BY <1>11, <2>2, <2>3, DmaSees
<1>16. QED
  BY <1>14, <1>15

\* The DD in the UDCA has been sent.
Given(dds, u) == [dds EXCEPT ![u].retired = TRUE]

LEMMA GivenIs ==
  ASSUME NEW dds \in [DD -> DDRecord], NEW u \in DD, NEW g, g = Given(dds, u)
  PROVE  /\ g \in [DD -> DDRecord] /\ g[u].retired = TRUE
         /\ \A i \in DD : dds[i].whole => g[i].whole
         /\ \A i \in DD : dds[i].retired => g[i].retired
<1>1. PICK x : x = [dds[u] EXCEPT !.retired = TRUE]
  OBVIOUS
<1>2. x \in DDRecord /\ x.retired = TRUE /\ x.whole = dds[u].whole
  <2>1. PICK k : k = dds[u] /\ k \in DDRecord
    OBVIOUS
  <2>2. x = [k EXCEPT !.retired = TRUE]
    BY <1>1, <2>1
  <2>3. x \in DDRecord /\ x.retired = TRUE /\ x.whole = k.whole
    BY <2>1, <2>2 DEF DDRecord
  <2>4. QED
    BY <2>1, <2>3
<1>3. g = [dds EXCEPT ![u] = x]
  BY <1>1 DEF Given
<1>4. g \in [DD -> DDRecord] /\ g[u] = x /\ \A i \in DD \ {u} : g[i] = dds[i]
  BY <1>2, <1>3
<1>5. QED
  BY <1>2, <1>4

LEMMA DmaInStep ==
  ASSUME DmaInv, NEW e \in TxEndpoint, DmaIn(e)
  PROVE  DmaInv' /\ DmaEchoStep
<1>1. /\ dma \in EngineType /\ e \in Endpoint /\ e \notin RxEndpoint /\ sent \in [RxEndpoint -> Nat]
      /\ dma.EoT \subseteq RxEndpoint /\ dma.NDDR \subseteq Endpoint
      /\ dma.enabled \subseteq Endpoint
      /\ \A r \in TxEndpoint : TxOK(dma, r)
      /\ \A r \in RxEndpoint : RxOK(dma, queue, task, r)
      /\ dma = Eng(dma.dd, dma.udca, dma.enabled, dma.EoT, dma.NDDR)
      /\ Sound(pool, queue, task, content) /\ ctl \in ControlType /\ cnt \in Nat
  BY InvParts DEF Endpoint, TxEndpoint, RxEndpoint
<1>2. /\ ~Current(dma, e).retired
      /\ UNCHANGED <<pool, queue, content, task, cnt, sent, dropped, ctl>>
      /\ received' = IF dma.udca[e] = NumBuf THEN received
                     ELSE [received EXCEPT ![e] =
                            [qty |-> @.qty + 1, last |-> Current(dma, e).holds]]
  BY DEF DmaIn
<1>3. dma.dd[e] \in [DD -> DDRecord] /\ dma.udca[e] \in DD
  BY <1>1, InvParts
<1>4. PICK u \in DD : u = dma.udca[e]
  BY <1>3
<1>5. PICK dds : dds = Given(dma.dd[e], u)
  OBVIOUS
<1>6. /\ dds \in [DD -> DDRecord] /\ dds[u].retired = TRUE
      /\ \A i \in DD : dma.dd[e][i].whole => dds[i].whole
      /\ \A i \in DD : dma.dd[e][i].retired => dds[i].retired
  <2>1. PICK G : G = dma.dd[e]
    OBVIOUS
  <2>2. G \in [DD -> DDRecord] /\ u \in DD /\ dds = Given(G, u)
    BY <1>3, <1>5, <2>1
  <2>3. /\ dds \in [DD -> DDRecord] /\ dds[u].retired = TRUE
        /\ \A i \in DD : G[i].whole => dds[i].whole
        /\ \A i \in DD : G[i].retired => dds[i].retired
    BY ONLY <2>2, GivenIs
  <2>4. QED
    BY <2>1, <2>3
<1>7. PICK M : M = Eng(Put(dma.dd, e, dds), dma.udca, dma.enabled, dma.EoT, dma.NDDR)
  OBVIOUS
<1>8. dma' = M
  <2>1. PICK d, w, n, o, r : /\ d = dma.dd /\ w = dma.udca /\ n = dma.enabled /\ o = dma.EoT
                             /\ r = dma.NDDR
    OBVIOUS
  <2>2. dma = [dd |-> d, udca |-> w, enabled |-> n, EoT |-> o, NDDR |-> r]
    BY <1>1, <2>1 DEF Eng
  <2>3. dma' = [dma EXCEPT !.dd[e][u].retired = TRUE]
    BY <1>4 DEF DmaIn
  <2>4. PICK d2 : d2 = [d EXCEPT ![e] = dds]
    OBVIOUS
  <2>5. dma' = [dma EXCEPT !.dd = d2]
    BY <1>5, <2>1, <2>3, <2>4 DEF Given
  <2>6. [dma EXCEPT !.dd = d2] = [dd |-> d2, udca |-> w, enabled |-> n, EoT |-> o, NDDR |-> r]
    BY ONLY <2>2
  <2>7. QED
    BY <1>7, <2>1, <2>4, <2>5, <2>6 DEF Eng, Put
<1>9. /\ M \in EngineType /\ M.dd[e] = dds /\ M.udca = dma.udca
      /\ M.EoT = dma.EoT /\ M.NDDR = dma.NDDR /\ Current(M, e) = dds[u]
      /\ \A f \in Endpoint \ {e} : M.dd[f] = dma.dd[f] /\ Current(M, f) = Current(dma, f)
  <2>1. PICK n, o, r : n = dma.enabled /\ o = dma.EoT /\ r = dma.NDDR
    OBVIOUS
  <2>2. Flags(n, o, r)
    BY <1>1, <2>1 DEF Flags
  <2>3. M = Eng(Put(dma.dd, e, dds), dma.udca, n, o, r)
    BY <1>7, <2>1
  <2>4. /\ M \in EngineType /\ M.dd[e] = dds /\ M.udca = dma.udca
        /\ M.enabled = n /\ M.EoT = o /\ M.NDDR = r /\ Current(M, e) = dds[dma.udca[e]]
        /\ \A f \in Endpoint \ {e} : M.dd[f] = dma.dd[f] /\ Current(M, f) = Current(dma, f)
    BY <1>1, <1>6, <2>2, <2>3, NewDDs
  <2>5. QED
    BY <1>4, <2>1, <2>4
<1>10. ASSUME NEW r \in RxEndpoint
       PROVE  RxOK(M, queue, task, r)
  <2>1. r \in Endpoint \ {e}
    BY <1>1 DEF Endpoint
  <2>2. /\ RxOK(dma, queue, task, r) /\ Current(M, r) = Current(dma, r)
        /\ (r \in M.NDDR => r \in dma.NDDR) /\ (r \in M.EoT => r \in dma.EoT)
    BY <1>1, <1>9, <2>1
  <2>3. QED
    BY ONLY <2>2, RxKeeps
<1>11. ASSUME NEW r \in TxEndpoint
       PROVE  TxOK(M, r)
  <2>1. TxOK(dma, r)
    BY <1>1
  <2>2. CASE r = e
    BY <1>4, <1>6, <1>9, <2>1, <2>2, DDType DEF TxOK
  <2>3. CASE r # e
    <3>1. /\ TxOK(dma, r) /\ M.dd[r] = dma.dd[r]
          /\ M.udca[r] = dma.udca[r] /\ (r \in M.NDDR => r \in dma.NDDR)
      BY <1>1, <1>9, <2>3 DEF Endpoint
    <3>2. QED
      BY ONLY <3>1, TxKeeps
  <2>4. QED
    BY <2>2, <2>3
<1>12. DmaInv'
  <2>1. received' = [f \in TxEndpoint |-> received'[f]]
    BY <1>2 DEF DmaInv
  <2>2. sent' \in [RxEndpoint -> Nat] /\ cnt' \in Nat /\ ctl' \in ControlType
    BY <1>1, <1>2
  <2>3. QED
    BY <1>2, <1>8, <1>9, <1>10, <1>11, <2>1, <2>2, EngineStep
<1>13. OutOf(M) = OutOf(dma)
  <2>1. "EP2RX" \in Endpoint \ {e}
    BY <1>1 DEF Endpoint, RxEndpoint
  <2>2. QED
    BY <1>9, <2>1 DEF OutOf
<1>14. /\ queue' = queue /\ task' = task /\ content' = content
       /\ sent' = sent /\ dropped' = dropped
  BY <1>2
<1>15. CASE e = "EP5TX" /\ u # NumBuf
  <2>1. PICK x \in Int : x = Current(dma, e).holds
    <3>1. Current(dma, e) \in DDRecord
      BY <1>1, EngineLines
    <3>2. QED
      BY <3>1 DEF DDRecord
  <2>2. InOf(dma) = Single(x) /\ InOf(M) = None
    BY <1>2, <1>4, <1>6, <1>9, <1>15, <2>1 DEF InOf
  <2>3. Line(Way(queue, task, content)) /\ Line(OutOf(dma)) /\ Line(Single(x))
    BY <1>1, EngineLines, WayLines, CatRules
  <2>4. PICK s : s = Cat(Way(queue, task, content), OutOf(dma)) /\ Line(s)
    BY <2>3, CatRules
  <2>5. AllOf(queue, task, content, dma) = Cat(Single(x), s)
    <3>1. Cat(Cat(Single(x), Way(queue, task, content)), OutOf(dma)) = Cat(Single(x), s)
      BY <2>3, <2>4, CatRules
    <3>2. QED
      BY <2>2, <3>1 DEF AllOf
  <2>6. AllOf(queue', task', content', dma') = s
    <3>1. Cat(None, Way(queue, task, content)) = Way(queue, task, content)
      BY <2>3, CatRules
    <3>2. QED
      BY <1>8, <1>13, <1>14, <2>2, <2>4, <3>1 DEF AllOf
  <2>7. PICK r : r = Cat(Single(x), s)
    OBVIOUS
  <2>8. r # <<>> /\ Head(r) = x /\ Tail(r) = s
    BY <2>4, <2>7, LineHead
  <2>9. received'["EP5TX"].last = x
    <3>1. received' = [received EXCEPT !["EP5TX"] = [qty |-> @.qty + 1, last |-> x]]
      BY <1>2, <1>4, <1>15, <2>1
    <3>2. "EP5TX" \in TxEndpoint /\ received = [f \in TxEndpoint |-> received[f]]
      BY DEF DmaInv, TxEndpoint
    <3>3. QED
      BY <3>1, <3>2
  <2>10. DmaEcho!Return
    BY <1>14, <2>5, <2>6, <2>7, <2>8, <2>9, DmaLineIs DEF DmaEcho!Return
  <2>11. QED
    BY <1>12, <2>10 DEF DmaEchoStep
<1>16. CASE ~(e = "EP5TX" /\ u # NumBuf)
  <2>1. InOf(M) = InOf(dma)
    <3>1. CASE e = "EP5TX"
      BY <1>4, <1>9, <1>16, <3>1 DEF InOf
    <3>2. CASE e # "EP5TX"
      <4>1. "EP5TX" \in Endpoint \ {e}
        BY <3>2 DEF Endpoint, TxEndpoint
      <4>2. QED
        BY <1>9, <4>1 DEF InOf
    <3>3. QED
      BY <3>1, <3>2
  <2>2. AllOf(queue', task', content', dma') = AllOf(queue, task, content, dma)
    BY <1>8, <1>13, <1>14, <2>1 DEF AllOf
  <2>3. received'["EP5TX"].last = received["EP5TX"].last
    <3>1. CASE u = NumBuf
      BY <1>2, <1>4, <3>1
    <3>2. CASE e # "EP5TX"
      <4>1. received["EP5TX"] = received'["EP5TX"]
        BY <1>2, <3>2 DEF DmaInv, TxEndpoint
      <4>2. QED
        BY <4>1
    <3>3. QED
      BY <1>16, <3>1, <3>2
  <2>4. HostSame
    BY <1>14, <2>3 DEF HostSame
  <2>5. QED
    BY <1>12, <2>2, <2>4, DmaSees
<1>17. QED
  BY <1>15, <1>16

\* Only the flags of the engine have changed.
LEMMA FlagsStep ==
  ASSUME DmaInv, UNCHANGED vars, ctl' \in ControlType, NEW n, NEW r, Flags(n, dma.EoT, r),
         dma' = Eng(dma.dd, dma.udca, n, dma.EoT, r),
         \A e \in r : e \in dma.NDDR \/ Current(dma, e).retired
  PROVE  DmaInv' /\ DmaEchoStep
<1>1. /\ dma \in EngineType /\ sent \in [RxEndpoint -> Nat] /\ cnt \in Nat
      /\ dma.dd \in [Endpoint -> [DD -> DDRecord]] /\ dma.udca \in [Endpoint -> DD]
      /\ \A e \in TxEndpoint : TxOK(dma, e)
      /\ \A e \in RxEndpoint : RxOK(dma, queue, task, e)
  BY InvParts
<1>2. PICK M : M = Eng(dma.dd, dma.udca, n, dma.EoT, r)
  OBVIOUS
<1>3. /\ M.dd = dma.dd /\ M.udca = dma.udca /\ M.EoT = dma.EoT /\ M.NDDR = r
      /\ \A e : Current(M, e) = Current(dma, e)
  BY <1>2 DEF Eng, Current
<1>4. M \in EngineType
  BY <1>1, <1>2 DEF Eng, EngineType, Flags
<1>5. ASSUME NEW e \in RxEndpoint
      PROVE  RxOK(M, queue, task, e)
  BY <1>1, <1>3 DEF RxOK
<1>6. ASSUME NEW e \in TxEndpoint
      PROVE  TxOK(M, e)
  BY <1>1, <1>3 DEF TxOK
<1>7. /\ UNCHANGED <<pool, queue, content, task, dropped>> /\ cnt' = cnt /\ sent' = sent
      /\ received' = received /\ dma' = M
  BY <1>2 DEF vars
<1>8. DmaInv'
  <2>1. received' = [e \in TxEndpoint |-> received'[e]]
    BY <1>7 DEF DmaInv
  <2>2. QED
    BY <1>1, <1>4, <1>5, <1>6, <1>7, <2>1, EngineStep
<1>9. AllOf(queue', task', content', dma') = AllOf(queue, task, content, dma) /\ HostSame
  BY <1>3, <1>7 DEF AllOf, InOf, OutOf, HostSame
<1>10. QED
  BY <1>8, <1>9, DmaSees

LEMMA RequestStep ==
  ASSUME DmaInv, NEW e \in Endpoint, RequestDD(e)
  PROVE  DmaInv' /\ DmaEchoStep
<1>1. /\ dma = Eng(dma.dd, dma.udca, dma.enabled, dma.EoT, dma.NDDR)
      /\ dma.enabled \subseteq Endpoint /\ dma.EoT \subseteq RxEndpoint /\ dma.NDDR \subseteq Endpoint
      /\ ctl \in ControlType
  BY InvParts
<1>2. /\ UNCHANGED vars /\ ctl' = ctl /\ Current(dma, e).retired
      /\ dma' = [dma EXCEPT !.enabled = @ \ {e}, !.NDDR = @ \cup {e}]
  BY DEF RequestDD
<1>3. PICK n, r : n = dma.enabled \ {e} /\ r = dma.NDDR \cup {e}
  OBVIOUS
<1>4. dma' = Eng(dma.dd, dma.udca, n, dma.EoT, r)
  <2>1. PICK d, w, k, o, q : /\ d = dma.dd /\ w = dma.udca /\ k = dma.enabled /\ o = dma.EoT
                             /\ q = dma.NDDR
    OBVIOUS
  <2>2. dma = [dd |-> d, udca |-> w, enabled |-> k, EoT |-> o, NDDR |-> q]
    BY <1>1, <2>1 DEF Eng
  <2>3. PICK W : W = [dma EXCEPT !.enabled = n]
    OBVIOUS
  <2>4. W = [dd |-> d, udca |-> w, enabled |-> n, EoT |-> o, NDDR |-> q] /\ W.NDDR = q
    BY <2>2, <2>3
  <2>5. dma' = [W EXCEPT !.NDDR = r]
    BY <1>2, <1>3, <2>1, <2>3, <2>4
  <2>6. [W EXCEPT !.NDDR = r] = [dd |-> d, udca |-> w, enabled |-> n, EoT |-> o, NDDR |-> r]
    BY ONLY <2>4
  <2>7. QED
    BY <2>1, <2>5, <2>6 DEF Eng
<1>5. Flags(n, dma.EoT, r)
  BY <1>1, <1>3 DEF Flags
<1>6. \A f \in r : f \in dma.NDDR \/ Current(dma, f).retired
  BY <1>2, <1>3
<1>7. QED
  BY <1>1, <1>2, <1>4, <1>5, <1>6, FlagsStep

\* DMA_ENABLE of these endpoints is set.
LEMMA EnableStep ==
  ASSUME DmaInv, NEW n, n \subseteq Endpoint, dma' = [dma EXCEPT !.enabled = n], UNCHANGED vars,
         ctl' \in ControlType
  PROVE  DmaInv' /\ DmaEchoStep
<1>1. /\ dma = Eng(dma.dd, dma.udca, dma.enabled, dma.EoT, dma.NDDR)
      /\ dma.EoT \subseteq RxEndpoint /\ dma.NDDR \subseteq Endpoint
  BY InvParts
<1>2. dma' = Eng(dma.dd, dma.udca, n, dma.EoT, dma.NDDR)
  <2>1. PICK d, w, k, o, q : /\ d = dma.dd /\ w = dma.udca /\ k = dma.enabled /\ o = dma.EoT
                             /\ q = dma.NDDR
    OBVIOUS
  <2>2. dma = [dd |-> d, udca |-> w, enabled |-> k, EoT |-> o, NDDR |-> q]
    BY <1>1, <2>1 DEF Eng
  <2>3. [dma EXCEPT !.enabled = n] = [dd |-> d, udca |-> w, enabled |-> n, EoT |-> o, NDDR |-> q]
    BY ONLY <2>2
  <2>4. QED
    BY <2>1, <2>3 DEF Eng
<1>3. PICK r : r = dma.NDDR
  OBVIOUS
<1>4. Flags(n, dma.EoT, r)
  BY <1>1, <1>3 DEF Flags
<1>5. QED
  BY <1>2, <1>3, <1>4, FlagsStep

LEMMA ConfigStep ==
  ASSUME DmaInv, tn_usb_config_ep
  PROVE  DmaInv' /\ DmaEchoStep
<1>1. /\ UNCHANGED vars /\ dma' = [dma EXCEPT !.enabled = Endpoint]
      /\ ctl' = [ctl EXCEPT !.configured = TRUE]
  BY DEF tn_usb_config_ep
<1>2. ctl \in ControlType
  BY InvParts
<1>3. ctl' \in ControlType
  BY <1>1, <1>2 DEF ControlType
<1>4. PICK n : n = Endpoint
  OBVIOUS
<1>5. dma' = [dma EXCEPT !.enabled = n] /\ n \subseteq Endpoint
  BY <1>1, <1>4
<1>6. QED
  BY <1>1, <1>3, <1>5, EnableStep

LEMMA SetEnableStep ==
  ASSUME DmaInv, NEW t \in Task, SetEnable(t)
  PROVE  DmaInv' /\ DmaEchoStep
<1>1. /\ UNCHANGED vars /\ dma' = [dma EXCEPT !.enabled = @ \cup {Source[t]}]
      /\ ctl' = [ctl EXCEPT !.enables = @ \ {t}] /\ t \in ctl.enables
  BY DEF SetEnable
<1>2. ctl \in ControlType /\ dma.enabled \subseteq Endpoint
  BY InvParts
<1>3. ctl.enables \subseteq {u \in Task : Source[u] \in RxEndpoint}
  BY <1>2 DEF ControlType
<1>4. Source[t] \in Endpoint
  BY <1>1, <1>3 DEF Endpoint
<1>5. ctl' \in ControlType
  <2>1. PICK s : s = ctl.enables \ {t}
    OBVIOUS
  <2>2. s \subseteq {u \in Task : Source[u] \in RxEndpoint} /\ ctl' = [ctl EXCEPT !.enables = s]
    BY <1>1, <1>3, <2>1
  <2>3. QED
    BY <1>2, <2>2 DEF ControlType
<1>6. PICK n : n = dma.enabled \cup {Source[t]}
  OBVIOUS
<1>7. dma' = [dma EXCEPT !.enabled = n] /\ n \subseteq Endpoint
  BY <1>1, <1>2, <1>4, <1>6
<1>8. QED
  BY <1>1, <1>5, <1>7, EnableStep

-----------------------------------------------------------------------------
\* The steps of the tasks.

\* The buffers are as those of the loop without DMA.
LEMMA InvLoop ==
  ASSUME DmaInv
  PROVE  BlocksInv /\ DataInv /\ WaitsEmpty /\ LostIn(dropped) = NoneLost
<1>1. /\ Sound(pool, queue, task, content) /\ dropped = [e \in RxEndpoint |-> 0]
      /\ cnt \in Nat /\ sent \in [RxEndpoint -> Nat]
  BY DEF DmaInv
<1>2. LostIn(dropped) = NoneLost
  BY <1>1 DEF LostIn, NoneLost
<1>3. "EP2RX" \in Buffer /\ BuffersOK(pool, queue, task, LostIn(dropped), "EP2RX", NoBlock)
  BY <1>1, <1>2 DEF Sound, Buffer
<1>4. \A q \in Buffer : BuffersOK(pool, queue, task, LostIn(dropped), q, NoBlock)
  BY <1>3, AnyHand
<1>5. dropped \in [RxEndpoint -> {0, 1}]
  BY <1>1
<1>6. DataInv /\ WaitsEmpty
  BY <1>1 DEF Sound, DataInv, WaitsEmpty
<1>7. QED
  BY <1>2, <1>4, <1>5, <1>6 DEF BlocksInv

LEMMA LoopSound ==
  ASSUME BlocksInv', DataInv', WaitsEmpty', dropped' = [e \in RxEndpoint |-> 0]
  PROVE  Sound(pool', queue', task', content')
<1>1. LostIn(dropped') = NoneLost
  BY DEF LostIn, NoneLost
<1>2. "EP2RX" \in Buffer
  BY DEF Buffer
<1>3. BuffersOK(pool', queue', task', LostIn(dropped'), "EP2RX", NoBlock)
  BY <1>2 DEF BlocksInv
<1>4. QED
  BY <1>1, <1>3 DEF Sound, DataInv, WaitsEmpty

\* A task takes from the queue of an OUT endpoint and sends nothing to it.
LEMMA OnlyTaken ==
  ASSUME BlocksInv, NEW t \in Task, TaskStep(t), NEW e \in RxEndpoint
  PROVE  queue'[e] = queue[e] \/ (queue[e] # <<>> /\ queue'[e] = Tail(queue[e]))
<1>1. e \in Buffer /\ e \notin SendBuf
  BY Loop DEF RxEndpoint, SendBuf
<1>2. CASE tn_queue_receive(t)
  <2>1. task[t].at = "receive"
    BY <1>2 DEF tn_queue_receive, At
  <2>2. PICK q \in Buffer : q = Source[t]
    BY <2>1, TheBuffers, HasSource
  <2>3. CASE queue' = queue
    BY <2>3
  <2>4. CASE queue[q] # <<>> /\ queue' = Headless(queue, q)
    <3>1. CASE e = q
      BY <2>4, <3>1, QueueOps
    <3>2. CASE e # q
      BY <1>1, <2>4, <3>2, QueueOps
    <3>3. QED
      BY <3>1, <3>2
  <2>5. CASE /\ SendWaits(task, q, "send")
             /\ queue' = Appended(Headless(queue, q), q, task[Sender(q)].ptr)
    <3>1. e \in Buffer \ {q}
      BY <1>1, <2>5 DEF SendWaits
    <3>2. QED
      BY <2>5, <3>1, QueueOps
  <2>6. QED
    BY <1>2, <2>2, <2>3, <2>4, <2>5, ReceiveEffect DEF Stays
<1>3. CASE tn_fmem_get(t)
  BY <1>3, GetEffect DEF Stays
<1>4. CASE Copy(t)
  BY <1>4, CopyEffect
<1>5. CASE tn_queue_send(t)
  <2>1. task[t].at = "send"
    BY <1>5 DEF tn_queue_send, At
  <2>2. PICK q \in Buffer : q = Target[t]
    BY <2>1, TheBuffers, HasTarget
  <2>3. CASE queue' = queue
    BY <2>3
  <2>4. CASE queue' = Appended(queue, q, task[t].ptr)
    <3>1. e \in Buffer \ {q}
      BY <1>1, <2>2, TargetEnd
    <3>2. QED
      BY <2>4, <3>1, QueueOps
  <2>5. QED
    BY <1>5, <2>2, <2>3, <2>4, SendEffect DEF Stays
<1>6. CASE tn_fmem_release(t)
  <2>1. task[t].at = "release"
    BY <1>6 DEF tn_fmem_release, At
  <2>2. PICK q \in Buffer : q = Source[t]
    BY <2>1, TheBuffers, HasSource
  <2>3. QED
    BY <1>6, <2>2, ReleaseEffect
<1>7. QED
  BY <1>2, <1>3, <1>4, <1>5, <1>6 DEF TaskStep

\* So there is as much room as before.
LEMMA RoomStays ==
  ASSUME DmaInv, NEW t \in Task, TaskStep(t), NEW e \in RxEndpoint, dma' = dma
  PROVE  RxOK(dma', queue', task', e)
<1>1. RxOK(dma, queue, task, e) /\ Sound(pool, queue, task, content)
  BY InvParts
<1>2. BlocksInv /\ e \in Buffer
  BY InvLoop, Loop DEF RxEndpoint
<1>3. PICK s, r, n : s = queue[e] /\ r = queue'[e] /\ n = Size[e]
  OBVIOUS
<1>4. s \in Seq(Block(e)) /\ n \in Nat /\ n >= 2
  BY <1>2, <1>3, Places, LoopbackAssumption
<1>5. r = s \/ (s # <<>> /\ r = Tail(s))
  BY <1>2, <1>3, OnlyTaken
<1>6. Len(s) \in Nat /\ Len(r) \in Nat /\ Len(r) <= Len(s) /\ (s = <<>> => Len(r) = 0)
  BY ONLY <1>4, <1>5
<1>7. Len(s) <= n - 1
  BY <1>1, <1>3 DEF RxOK
<1>8. Len(r) <= n - 1
  BY ONLY <1>4, <1>6, <1>7
<1>9. ASSUME Room(queue, task, e)
      PROVE  Room(queue', task', e)
  <2>1. Len(r) < n - 1
    <3>1. CASE RecvWaits(task, e)
      <4>1. s = <<>>
        BY <1>1, <1>2, <1>3, <3>1 DEF Sound
      <4>2. QED
        BY ONLY <1>4, <1>6, <4>1
    <3>2. CASE ~RecvWaits(task, e)
      <4>1. Len(s) < n - 1
        BY <1>3, <1>9, <3>2 DEF Room
      <4>2. QED
        BY ONLY <1>4, <1>6, <4>1
    <3>3. QED
      BY <3>1, <3>2
  <2>2. QED
    BY <1>3, <2>1 DEF Room
<1>10. QED
  BY <1>1, <1>3, <1>8, <1>9 DEF RxOK

LEMMA TaskEcho ==
  ASSUME BlocksInv, DataInv, WaitsEmpty, NEW t \in Task, TaskStep(t)
  PROVE  /\ OnTheWay' = OnTheWay
         /\ sent' = sent /\ received' = received /\ dropped' = dropped
<1>1. OnTheWay' = OnTheWay
  BY ReceiveEcho, GetEcho, CopyEcho, SendEcho, ReleaseEcho DEF TaskStep
<1>2. UNCHANGED others
  BY DEF TaskStep, tn_queue_receive, tn_fmem_get, Copy, tn_queue_send, tn_fmem_release
<1>3. QED
  BY <1>1, <1>2 DEF others

LEMMA DmaTaskStep ==
  ASSUME DmaInv, NEW t \in Task, DmaTask(t)
  PROVE  DmaInv' /\ DmaEchoStep
<1>1. CASE SetEnable(t)
  BY <1>1, SetEnableStep
<1>2. CASE /\ TaskStep(t) /\ UNCHANGED dma
           /\ ctl' = IF At(t, "release") /\ Source[t] \in RxEndpoint
                     THEN [ctl EXCEPT !.enables = @ \cup {t}] ELSE ctl
  <2>1. BlocksInv /\ DataInv /\ WaitsEmpty
    BY InvLoop
  <2>2. [Next]_vars
    BY <1>2 DEF Next
  <2>3. BlocksInv' /\ DataInv' /\ WaitsEmpty'
    BY <2>1, <2>2, BlocksStep, DataStep, WaitsStep
  <2>4. /\ OnTheWay' = OnTheWay
        /\ sent' = sent /\ received' = received /\ dropped' = dropped
    BY <1>2, <2>1, TaskEcho
  <2>5. dropped' = [e \in RxEndpoint |-> 0] /\ received' = [e \in TxEndpoint |-> received'[e]]
        /\ cnt' \in Nat /\ sent' \in [RxEndpoint -> Nat]
    BY <2>3, <2>4 DEF DmaInv, DataInv
  <2>6. Sound(pool', queue', task', content')
    BY <2>3, <2>5, LoopSound
  <2>7. EngineOK(dma', queue', task')
    <3>1. \A e \in RxEndpoint : RxOK(dma', queue', task', e)
      BY <1>2, RoomStays
    <3>2. dma' = dma /\ dma \in EngineType /\ \A e \in TxEndpoint : TxOK(dma, e)
      BY <1>2, InvParts
    <3>3. dma' \in EngineType /\ \A e \in TxEndpoint : TxOK(dma', e)
      BY <3>2
    <3>4. QED
      BY <3>1, <3>3 DEF EngineOK
  <2>8. ctl' \in ControlType
    <3>1. ctl \in ControlType
      BY InvParts
    <3>2. CASE ctl' = ctl
      BY <3>1, <3>2
    <3>3. CASE Source[t] \in RxEndpoint /\ ctl' = [ctl EXCEPT !.enables = @ \cup {t}]
      <4>1. PICK s : s = ctl.enables \cup {t}
        OBVIOUS
      <4>2. s \subseteq {u \in Task : Source[u] \in RxEndpoint}
        BY <3>1, <3>3, <4>1 DEF ControlType
      <4>3. ctl' = [ctl EXCEPT !.enables = s]
        BY <3>3, <4>1
      <4>4. QED
        BY <3>1, <4>2, <4>3 DEF ControlType
    <3>4. QED
      BY <1>2, <3>2, <3>3
  <2>9. DmaInv'
    BY <2>5, <2>6, <2>7, <2>8 DEF DmaInv
  <2>10. AllOf(queue', task', content', dma') = AllOf(queue, task, content, dma)
    <3>1. Way(queue', task', content') = Way(queue, task, content)
      BY <2>4, WayIs
    <3>2. InOf(dma') = InOf(dma) /\ OutOf(dma') = OutOf(dma)
      BY <1>2
    <3>3. QED
      BY <3>1, <3>2 DEF AllOf
  <2>11. HostSame
    BY <2>4 DEF HostSame
  <2>12. QED
    BY <2>9, <2>10, <2>11, DmaSees
<1>3. QED
  BY <1>1, <1>2 DEF DmaTask

-----------------------------------------------------------------------------
\* The initial state.

\* All DDs but this one are retired.
Starts(dds, k) ==
  dds \in [DD -> DDRecord] /\ \A i \in DD : dds[i].whole /\ (i # k => dds[i].retired)
LeftIn(dds) == [i \in DD |-> dds[i].holds]

LEMMA DDsStart ==
  ASSUME NEW k, NEW h \in [DD -> Int]
  PROVE  Starts(DDs(k, h), k)
<1>1. PICK dds : dds = DDs(k, h)
  OBVIOUS
<1>2. dds = [i \in DD |-> [retired |-> i # k, holds |-> h[i], whole |-> TRUE]]
  BY <1>1 DEF DDs
<1>3. ASSUME NEW i \in DD
      PROVE  dds[i] \in DDRecord /\ dds[i].whole /\ (i # k => dds[i].retired)
  <2>1. PICK b : b = (i # k)
    OBVIOUS
  <2>2. b \in BOOLEAN /\ (i # k => b)
    BY <2>1, Zenon
  <2>3. dds[i] = [retired |-> b, holds |-> h[i], whole |-> TRUE]
    BY <1>2, <2>1
  <2>4. dds[i] \in DDRecord
    BY <2>2, <2>3 DEF DDRecord
  <2>5. dds[i].whole /\ dds[i].retired = b
    BY <2>3
  <2>6. QED
    BY <2>2, <2>4, <2>5, Zenon
<1>4. dds \in [DD -> DDRecord]
  BY <1>2, <1>3
<1>5. QED
  BY <1>1, <1>3, <1>4 DEF Starts

\* The initialisation of an endpoint: all DDs but k are retired, k is in the
\* UDCA.
Ready(M, e, k) ==
  Eng(Put(M.dd, e, DDs(k, LeftIn(M.dd[e]))), Put(M.udca, e, k), M.enabled, M.EoT, M.NDDR)

LEMMA ReadyIs ==
  ASSUME NEW M, M \in EngineType, NEW e \in Endpoint
  PROVE  /\ tn_usb_dma_rx_init(M, e) = Ready(M, e, 1)
         /\ tn_usb_dma_tx_init(M, e) = Ready(M, e, NumBuf)
<1>1. PICK d, u, n, o, r : /\ d = M.dd /\ u = M.udca /\ n = M.enabled /\ o = M.EoT
                           /\ r = M.NDDR
  OBVIOUS
<1>2. M = [dd |-> d, udca |-> u, enabled |-> n, EoT |-> o, NDDR |-> r]
  BY <1>1, EngIs DEF Eng
<1>3. ASSUME NEW k, NEW N, N = [M EXCEPT !.dd[e] = DDs(k, [i \in DD |-> @[i].holds]), !.udca[e] = k]
      PROVE  N = Ready(M, e, k)
  <2>1. PICK f : f = DDs(k, [i \in DD |-> M.dd[e][i].holds])
    OBVIOUS
  <2>2. f = DDs(k, LeftIn(d[e]))
    BY <1>1, <2>1 DEF LeftIn
  <2>3. PICK W : W = [M EXCEPT !.dd[e] = f]
    OBVIOUS
  <2>4. PICK d2, u2 : d2 = [d EXCEPT ![e] = f] /\ u2 = [u EXCEPT ![e] = k]
    OBVIOUS
  <2>5. W = [M EXCEPT !.dd = d2]
    BY ONLY <1>1, <2>3, <2>4
  <2>6. W = [dd |-> d2, udca |-> u, enabled |-> n, EoT |-> o, NDDR |-> r] /\ W.udca = u
    BY ONLY <1>2, <2>5
  <2>7. N = [W EXCEPT !.udca[e] = k]
    BY ONLY <1>3, <2>1, <2>3
  <2>8. N = [W EXCEPT !.udca = u2]
    BY ONLY <2>4, <2>6, <2>7
  <2>9. N = [dd |-> d2, udca |-> u2, enabled |-> n, EoT |-> o, NDDR |-> r]
    BY ONLY <2>6, <2>8
  <2>10. QED
    BY <1>1, <2>2, <2>4, <2>9 DEF Ready, Eng, Put
<1>4. QED
  BY <1>3 DEF tn_usb_dma_rx_init, tn_usb_dma_tx_init

LEMMA ReadyStarts ==
  ASSUME NEW M, M \in EngineType, NEW e \in Endpoint, NEW k \in DD, NEW N, N = Ready(M, e, k)
  PROVE  /\ N \in EngineType /\ N.enabled = M.enabled /\ N.EoT = M.EoT /\ N.NDDR = M.NDDR
         /\ Starts(N.dd[e], k) /\ N.udca[e] = k
         /\ \A f \in Endpoint \ {e} : N.dd[f] = M.dd[f] /\ N.udca[f] = M.udca[f]
<1>1. /\ M.dd \in [Endpoint -> [DD -> DDRecord]] /\ M.udca \in [Endpoint -> DD]
      /\ M.enabled \subseteq Endpoint /\ M.EoT \subseteq RxEndpoint /\ M.NDDR \subseteq Endpoint
  BY DEF EngineType
<1>2. PICK h : h = LeftIn(M.dd[e])
  OBVIOUS
<1>3. h \in [DD -> Int]
  BY <1>1, <1>2 DEF LeftIn, DDRecord
<1>4. PICK dds : dds = DDs(k, h)
  OBVIOUS
<1>5. Starts(dds, k) /\ dds \in [DD -> DDRecord]
  BY <1>3, <1>4, DDsStart DEF Starts
<1>6. PICK d, u : d = Put(M.dd, e, dds) /\ u = Put(M.udca, e, k)
  OBVIOUS
<1>7. /\ d \in [Endpoint -> [DD -> DDRecord]] /\ d[e] = dds
      /\ \A f \in Endpoint \ {e} : d[f] = M.dd[f]
  BY <1>1, <1>5, <1>6 DEF Put
<1>8. /\ u \in [Endpoint -> DD] /\ u[e] = k /\ \A f \in Endpoint \ {e} : u[f] = M.udca[f]
  BY <1>1, <1>6 DEF Put
<1>9. N = [dd |-> d, udca |-> u, enabled |-> M.enabled, EoT |-> M.EoT, NDDR |-> M.NDDR]
  BY <1>2, <1>4, <1>6 DEF Ready, Eng
<1>10. N \in EngineType
  BY <1>1, <1>7, <1>8, <1>9 DEF EngineType
<1>11. QED
  BY <1>5, <1>7, <1>8, <1>9, <1>10

LEMMA EngineInit ==
  ASSUME DmaInit
  PROVE  /\ dma \in EngineType /\ dma.EoT = {} /\ dma.NDDR = {}
         /\ \A e \in TxEndpoint : dma.udca[e] = NumBuf /\ Starts(dma.dd[e], NumBuf)
<1>1. /\ NumBuf \in DD /\ 1 \in DD
      /\ Endpoint = {"EP2RX", "EP2TX", "EP5RX", "EP5TX"} /\ TxEndpoint = {"EP2TX", "EP5TX"}
  BY DDType DEF Endpoint, RxEndpoint, TxEndpoint
<1>2. PICK M0 : M0 = [dd |-> [e \in Endpoint |-> DDs(1, [i \in DD |-> NoPacket])],
                      udca |-> [e \in Endpoint |-> 1], enabled |-> {}, EoT |-> {}, NDDR |-> {}]
  OBVIOUS
<1>3. M0 \in EngineType /\ M0.EoT = {} /\ M0.NDDR = {}
  <2>1. PICK h : h = [i \in DD |-> NoPacket]
    OBVIOUS
  <2>2. h \in [DD -> Int]
    BY <2>1 DEF NoPacket, Unwritten
  <2>3. PICK dds : dds = DDs(1, h)
    OBVIOUS
  <2>4. dds \in [DD -> DDRecord]
    BY <2>2, <2>3, DDsStart DEF Starts
  <2>5. M0 = [dd |-> [e \in Endpoint |-> dds], udca |-> [e \in Endpoint |-> 1],
              enabled |-> {}, EoT |-> {}, NDDR |-> {}]
    BY <1>2, <2>1, <2>3
  <2>6. QED
    BY <1>1, <2>4, <2>5 DEF EngineType
<1>4. PICK M1 : M1 = tn_usb_dma_rx_init(M0, "EP2RX")
  OBVIOUS
<1>5. M1 \in EngineType /\ M1.EoT = {} /\ M1.NDDR = {}
  <2>1. M1 = Ready(M0, "EP2RX", 1)
    BY <1>1, <1>3, <1>4, ReadyIs
  <2>2. "EP2RX" \in Endpoint /\ 1 \in DD
    BY <1>1
  <2>3. QED
    BY ONLY <1>3, <2>1, <2>2, ReadyStarts
<1>6. PICK M2 : M2 = tn_usb_dma_tx_init(M1, "EP2TX")
  OBVIOUS
<1>7. /\ M2 \in EngineType /\ M2.EoT = {} /\ M2.NDDR = {}
      /\ M2.udca["EP2TX"] = NumBuf /\ Starts(M2.dd["EP2TX"], NumBuf)
  <2>1. M2 = Ready(M1, "EP2TX", NumBuf)
    BY <1>1, <1>5, <1>6, ReadyIs
  <2>2. "EP2TX" \in Endpoint /\ NumBuf \in DD
    BY <1>1
  <2>3. QED
    BY ONLY <1>5, <2>1, <2>2, ReadyStarts
<1>8. PICK M3 : M3 = tn_usb_dma_rx_init(M2, "EP5RX")
  OBVIOUS
<1>9. /\ M3 \in EngineType /\ M3.EoT = {} /\ M3.NDDR = {}
      /\ M3.udca["EP2TX"] = NumBuf /\ Starts(M3.dd["EP2TX"], NumBuf)
  <2>1. M3 = Ready(M2, "EP5RX", 1)
    BY <1>1, <1>7, <1>8, ReadyIs
  <2>2. "EP5RX" \in Endpoint /\ 1 \in DD
    BY <1>1
  <2>3. /\ M3 \in EngineType /\ M3.EoT = M2.EoT /\ M3.NDDR = M2.NDDR
        /\ \A f \in Endpoint \ {"EP5RX"} : M3.dd[f] = M2.dd[f] /\ M3.udca[f] = M2.udca[f]
    BY ONLY <1>7, <2>1, <2>2, ReadyStarts
  <2>4. QED
    BY <1>1, <1>7, <2>3
<1>10. PICK M4 : M4 = tn_usb_dma_tx_init(M3, "EP5TX")
  OBVIOUS
<1>11. /\ M4 \in EngineType /\ M4.EoT = {} /\ M4.NDDR = {}
       /\ M4.udca["EP2TX"] = NumBuf /\ Starts(M4.dd["EP2TX"], NumBuf)
       /\ M4.udca["EP5TX"] = NumBuf /\ Starts(M4.dd["EP5TX"], NumBuf)
  <2>1. M4 = Ready(M3, "EP5TX", NumBuf)
    BY <1>1, <1>9, <1>10, ReadyIs
  <2>2. "EP5TX" \in Endpoint /\ NumBuf \in DD
    BY <1>1
  <2>3. /\ M4 \in EngineType /\ M4.EoT = M3.EoT /\ M4.NDDR = M3.NDDR
        /\ M4.udca["EP5TX"] = NumBuf /\ Starts(M4.dd["EP5TX"], NumBuf)
        /\ \A f \in Endpoint \ {"EP5TX"} : M4.dd[f] = M3.dd[f] /\ M4.udca[f] = M3.udca[f]
    BY ONLY <1>9, <2>1, <2>2, ReadyStarts
  <2>4. QED
    BY <1>1, <1>9, <2>3
<1>12. dma = M4
  BY <1>2, <1>4, <1>6, <1>8, <1>10 DEF DmaInit, InitDDs
<1>13. QED
  BY <1>1, <1>11, <1>12

LEMMA DmaInitInv == DmaInit => DmaInv
<1> SUFFICES ASSUME DmaInit
             PROVE  DmaInv
  OBVIOUS
<1>1. Init /\ ctl = [handler |-> "out", enables |-> {}, configured |-> FALSE,
                     overtaken |-> FALSE]
  BY DEF DmaInit
<1>2. BlocksInv /\ DataInv /\ WaitsEmpty
  BY <1>1, BlocksInit, DataInit, WaitsInit
<1>3. /\ dropped = [e \in RxEndpoint |-> 0] /\ received = [e \in TxEndpoint |-> received[e]]
      /\ cnt \in Nat /\ sent \in [RxEndpoint -> Nat]
  BY <1>1, <1>2 DEF Init, DataInv
<1>4. Sound(pool, queue, task, content)
  <2>1. LostIn(dropped) = NoneLost
    BY <1>3 DEF LostIn, NoneLost
  <2>2. "EP2RX" \in Buffer
    BY DEF Buffer
  <2>3. BuffersOK(pool, queue, task, LostIn(dropped), "EP2RX", NoBlock)
    BY <1>2, <2>2 DEF BlocksInv
  <2>4. QED
    BY <1>2, <2>1, <2>3 DEF Sound, DataInv, WaitsEmpty
<1>5. ctl \in ControlType
  BY <1>1 DEF ControlType
<1>6. /\ dma \in EngineType /\ dma.EoT = {} /\ dma.NDDR = {}
      /\ \A e \in TxEndpoint : dma.udca[e] = NumBuf /\ Starts(dma.dd[e], NumBuf)
  BY EngineInit
<1>7. ASSUME NEW e \in TxEndpoint
      PROVE  TxOK(dma, e)
  BY <1>6, DDType DEF TxOK, Starts
<1>8. ASSUME NEW e \in RxEndpoint
      PROVE  RxOK(dma, queue, task, e)
  <2>1. queue[e] = <<>> /\ Size[e] \in Nat /\ Size[e] >= 2
    BY <1>1, LoopbackAssumption, Loop DEF Init, RxEndpoint
  <2>2. Len(queue[e]) < Size[e] - 1
    BY <2>1
  <2>3. Len(queue[e]) <= Size[e] - 1
    BY <2>1
  <2>4. QED
    BY <1>6, <2>2, <2>3 DEF RxOK, Room
<1>9. QED
  BY <1>3, <1>4, <1>5, <1>6, <1>7, <1>8 DEF DmaInv, EngineOK

LEMMA DmaEchoInit == DmaInit => DmaEcho!Init
<1> SUFFICES ASSUME DmaInit
             PROVE  DmaEcho!Init
  OBVIOUS
<1>1. Echo!Init
  BY EchoInit DEF DmaInit
<1>2. InDD("EP5TX") = <<>> /\ OutDD("EP2RX") = <<>>
  BY EngineInit DEF InDD, OutDD, TxEndpoint
<1>3. InDD("EP5TX") \o OnTheWay \o OutDD("EP2RX") = <<>>
  BY <1>1, <1>2 DEF Echo!Init
<1>4. QED
  BY <1>1, <1>3 DEF Echo!Init, DmaEcho!Init

-----------------------------------------------------------------------------
\* All steps.

\* Whatever the steps do, ctl keeps its type, and a request that has overtaken an
\* end of transfer is not forgotten.
LEMMA ControlStep ==
  ASSUME ctl \in ControlType, [DmaNext]_dvars
  PROVE  ctl' \in ControlType /\ (ctl.overtaken => ctl'.overtaken)
<1>1. CASE FirstTest
  <2>1. ctl' = [ctl EXCEPT !.handler = "between"]
    BY <1>1 DEF FirstTest
  <2>2. QED
    BY <2>1 DEF ControlType
<1>2. CASE SecondTest
  <2>1. PICK o \in BOOLEAN : o = (ctl.overtaken \/ dma.NDDR \cap dma.EoT # {})
    OBVIOUS
  <2>2. ctl' = [ctl EXCEPT !.handler = "out", !.overtaken = o]
    BY <1>2, <2>1 DEF SecondTest
  <2>3. ctl' \in ControlType /\ ctl'.overtaken = o
    BY <2>2 DEF ControlType
  <2>4. QED
    BY <2>1, <2>3
<1>3. CASE tn_usb_config_ep
  <2>1. ctl' = [ctl EXCEPT !.configured = TRUE]
    BY <1>3 DEF tn_usb_config_ep
  <2>2. QED
    BY <2>1 DEF ControlType
<1>4. ASSUME NEW t \in Task, DmaTask(t)
      PROVE  ctl' \in ControlType /\ (ctl.overtaken => ctl'.overtaken)
  <2>1. CASE ctl' = ctl
    BY <2>1
  <2>2. CASE \/ ctl' = [ctl EXCEPT !.enables = @ \ {t}]
             \/ Source[t] \in RxEndpoint /\ ctl' = [ctl EXCEPT !.enables = @ \cup {t}]
    <3>1. PICK n : /\ n \subseteq {u \in Task : Source[u] \in RxEndpoint}
                   /\ ctl' = [ctl EXCEPT !.enables = n]
      BY <2>2 DEF ControlType
    <3>2. QED
      BY <3>1 DEF ControlType
  <2>3. QED
    BY <1>4, <2>1, <2>2 DEF DmaTask, SetEnable
<1>5. CASE Engine \/ UNCHANGED dvars
  <2>1. ctl' = ctl
    BY <1>5 DEF Engine, Move, DmaOut, DmaIn, RequestDD, dvars
  <2>2. QED
    BY <2>1
<1>6. QED
  BY <1>1, <1>2, <1>3, <1>4, <1>5 DEF DmaNext, tn_usb_int_func

LEMMA DmaInvStep ==
  ASSUME DmaInv, [DmaNext]_dvars, ctl' \in ControlType, ~ctl'.overtaken
  PROVE  DmaInv' /\ DmaEchoStep
<1>1. CASE tn_usb_int_func
  BY <1>1, HandlerStep, DmaSees
<1>2. CASE tn_usb_config_ep
  BY <1>2, ConfigStep
<1>3. ASSUME NEW t \in Task, DmaTask(t)
      PROVE  DmaInv' /\ DmaEchoStep
  BY <1>3, DmaTaskStep
<1>4. ASSUME NEW e \in Endpoint, RequestDD(e)
      PROVE  DmaInv' /\ DmaEchoStep
  BY <1>4, RequestStep
<1>5. ASSUME NEW e \in Endpoint, Move(e)
      PROVE  DmaInv' /\ DmaEchoStep
  <2>1. CASE e \in RxEndpoint
    BY <1>5, <2>1, DmaOutStep DEF Move
  <2>2. CASE e \notin RxEndpoint
    BY <1>5, <2>2, DmaInStep DEF Move, Endpoint
  <2>3. QED
    BY <2>1, <2>2
<1>6. CASE UNCHANGED dvars
  <2>1. UNCHANGED vars /\ dma' = dma /\ ctl' = ctl
    BY <1>6 DEF dvars
  <2>2. /\ dma = Eng(dma.dd, dma.udca, dma.enabled, dma.EoT, dma.NDDR)
        /\ dma.enabled \subseteq Endpoint /\ dma.EoT \subseteq RxEndpoint
        /\ dma.NDDR \subseteq Endpoint /\ ctl \in ControlType
    BY InvParts
  <2>3. PICK n, r : n = dma.enabled /\ r = dma.NDDR
    OBVIOUS
  <2>4. Flags(n, dma.EoT, r) /\ dma' = Eng(dma.dd, dma.udca, n, dma.EoT, r)
        /\ ctl' \in ControlType /\ \A e \in r : e \in dma.NDDR \/ Current(dma, e).retired
    BY <2>1, <2>2, <2>3 DEF Flags
  <2>5. QED
    BY <2>1, <2>4, FlagsStep
<1>7. QED
  BY <1>1, <1>2, <1>3, <1>4, <1>5, <1>6 DEF DmaNext, Engine

LEMMA InvArmed == DmaInv => ArmedHasBlock
<1> SUFFICES ASSUME DmaInv, NEW e \in RxEndpoint,
                    ~Current(dma, e).retired \/ e \in dma.EoT
             PROVE  pool[e] # <<>> /\ CanSend(Buffers, e)
  BY DEF ArmedHasBlock
<1>1. Sound(pool, queue, task, content) /\ RxOK(dma, queue, task, e)
  BY InvParts
<1>2. Room(queue, task, e)
  BY <1>1 DEF RxOK
<1>3. /\ pool[e] # <<>> /\ e \in Buffer /\ Len(queue[e]) \in Nat /\ Size[e] \in Nat
  BY <1>1, <1>2, RoomHasBlock
<1>4. BlocksInv
  BY InvLoop
<1>5. TasksOK(task) /\ Buffers = Bf(pool, queue, task)
  BY <1>4, TheBuffers
<1>6. RecvWaits(task, e) \/ Len(queue[e]) # Size[e] - 1
  BY <1>2, <1>3 DEF Room
<1>7. CanSend(Bf(pool, queue, task), e)
  BY <1>3, <1>5, <1>6, SendIs
<1>8. QED
  BY <1>3, <1>5, <1>7

LEMMA InvOver == DmaInv => OverwrittenUnused
<1> SUFFICES ASSUME DmaInv, NEW e \in TxEndpoint
             PROVE  /\ e \in dma.NDDR => dma.dd[e][1].retired
                    /\ Current(dma, e).whole
  BY DEF OverwrittenUnused
<1>1. TxOK(dma, e)
  BY InvParts
<1>2. QED
  BY <1>1 DEF TxOK, Current

-----------------------------------------------------------------------------

\* The invariant holds until a request overtakes an end of transfer.
DmaUnless == ctl \in ControlType /\ (ctl.overtaken \/ DmaInv)

LEMMA UnlessStep ==
  DmaUnless /\ [DmaNext]_dvars => DmaUnless' /\ [~ctl'.overtaken => DmaEchoStep]_dvars
<1> SUFFICES ASSUME DmaUnless, [DmaNext]_dvars
             PROVE  DmaUnless' /\ (~ctl'.overtaken => DmaEchoStep)
  OBVIOUS
<1>1. ctl' \in ControlType /\ (ctl.overtaken => ctl'.overtaken)
  BY ControlStep DEF DmaUnless
<1>2. ASSUME ~ctl'.overtaken
      PROVE  DmaInv' /\ DmaEchoStep
  BY <1>1, <1>2, DmaInvStep DEF DmaUnless
<1>3. QED
  BY <1>1, <1>2 DEF DmaUnless

THEOREM DmaInvariant == DmaSpec => []DmaUnless
<1>1. DmaInit => DmaUnless
  BY DmaInitInv DEF DmaUnless, DmaInv
<1>2. QED
  BY <1>1, UnlessStep, PTL DEF DmaSpec

(***************************************************************************)
(* Until a request overtakes an end of transfer, a packet that the engine  *)
(* takes from the host finds a block and a place when its end of transfer  *)
(* is handled (ep_rx_DD_request looks at the FIFO before it arms the       *)
(* engine): from then on the tasks only make room.                         *)
(***************************************************************************)
THEOREM ArmedCorrect == DmaSpec => []ArmedHasBlock
<1>1. DmaUnless => ArmedHasBlock
  BY InvArmed DEF DmaUnless, ArmedHasBlock
<1>2. QED
  BY <1>1, DmaInvariant, PTL

(***************************************************************************)
(* The DDs that ep_tx_int_DD_request writes over are never given to the    *)
(* engine: it and the empty DD take turns, whatever the number of DDs.     *)
(* (Here, too, until a request overtakes an end of transfer.)              *)
(***************************************************************************)
THEOREM OverwrittenCorrect == DmaSpec => [](~ctl.overtaken => OverwrittenUnused)
<1>1. DmaUnless => (~ctl.overtaken => OverwrittenUnused)
  BY InvOver DEF DmaUnless
<1>2. QED
  BY <1>1, DmaInvariant, PTL

(***************************************************************************)
(* No packet of the host is dropped until a request overtakes an end of    *)
(* transfer: without DMA one may be, and its block with it.                *)
(***************************************************************************)
THEOREM NothingDropped ==
  DmaSpec => [](~ctl.overtaken => dropped = [e \in RxEndpoint |-> 0])
<1>1. DmaUnless => (~ctl.overtaken => dropped = [e \in RxEndpoint |-> 0])
  BY DEF DmaUnless, DmaInv
<1>2. QED
  BY <1>1, DmaInvariant, PTL

(***************************************************************************)
(* The engine at both ends, also between the tests of the handler, the     *)
(* handler, the tasks and the queues give the host back what it has sent,  *)
(* each packet once and in order, for every size of the queues, every      *)
(* number of DDs and of packets, until a request is served before an end   *)
(* of transfer that came between the tests (tn_user.c:103 and :121).       *)
(***************************************************************************)
THEOREM DmaEchoCorrect == DmaSpec => EchoUnlessOvertaken
<1>1. DmaSpec => DmaEcho!Init /\ [][~ctl'.overtaken => DmaEchoStep]_dvars
  BY UnlessStep, DmaEchoInit, DmaInvariant, PTL DEF DmaSpec
<1>2. QED
  BY <1>1 DEF EchoUnlessOvertaken, DmaEchoStep
=============================================================================
