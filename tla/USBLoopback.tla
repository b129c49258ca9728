----------------------------- MODULE USBLoopback -----------------------------
(***************************************************************************)
(* The test firmware without DMA (usb_tst1.c with the bulk endpoint        *)
(* handlers of tn_usb_ep.c): four endpoints, each with a data queue, a     *)
(* memory pool and a task, and one more queue and pool over which the      *)
(* packets of EP2_RX reach EP5_TX.                                         *)
(*                                                                         *)
(* A queue and the pool its blocks come from have one name.  The calls of  *)
(* tn_dqueue.c and tn_mem.c are taken at the level of Channel and Pool     *)
(* (refined by TNDqueue and TNMem): a call hands over at once to the one   *)
(* task that may wait at the other side.  The task of the highest priority *)
(* that does not wait runs; an interrupt may come before each of its steps *)
(* and runs to its end.                                                    *)
(***************************************************************************)
EXTENDS Integers, SequencesExt

CONSTANTS
  Size,        \* the QUEUE_..._SIZE of each queue and pool
  MaxPackets   \* bound on the packets of each endpoint but Endpoint 5 IN, which
               \* gives back those of Endpoint 2 OUT

Buffer == {"EP2RX", "EP2TX", "EP5RX", "EP5TX", "EPExch"}
RxEndpoint == {"EP2RX", "EP5RX"}
TxEndpoint == {"EP2TX", "EP5TX"}

ASSUME LoopbackAssumption ==
  /\ Size \in [Buffer -> Nat \ {0, 1}]
  /\ MaxPackets \in [Buffer -> Nat]

\* The tasks, the highest priority first.  Before the host has configured the
\* device the receivers have come to wait.
Tasks == <<"ep5_tx", "ep5_rx", "ep2_tx", "ep2_rx">>
Task == Range(Tasks)
Block(p) == 1 .. Size[p]
NoBlock == 0
NoBuffer == "none"
Unwritten == -1
\* The queue a task receives from and the pool it gets from and sends to.
Source == [ep5_tx |-> "EPExch", ep5_rx |-> "EP5RX", ep2_tx |-> NoBuffer, ep2_rx |-> "EP2RX"]
Target == [ep5_tx |-> "EP5TX", ep5_rx |-> NoBuffer, ep2_tx |-> "EP2TX", ep2_rx |-> "EPExch"]

VARIABLES
  pool,      \* per pool its free blocks, the last one released first
  queue,     \* per queue the blocks in it
  content,   \* what each block holds: the number of a packet
  task,      \* per task its place, whether it waits there, its ptr1 and ptr
  cnt,       \* the counter of task_ep2_tx
  sent,      \* packets the host sent to an OUT endpoint
  received,  \* packets the host got from an IN endpoint; the last one
  dropped    \* packets that were read but not queued

vars == <<pool, queue, content, task, cnt, sent, received, dropped>>

Init ==
  /\ pool = [p \in Buffer |-> [i \in 1 .. Size[p] |-> i]]
  /\ queue = [q \in Buffer |-> <<>>]
  /\ content = [p \in Buffer |-> [b \in Block(p) |-> Unwritten]]
  /\ task = [t \in Task |->
               [at |-> IF Source[t] = NoBuffer THEN "get" ELSE "receive",
                waits |-> Source[t] # NoBuffer, ptr1 |-> NoBlock, ptr |-> NoBlock]]
  /\ cnt = 0
  /\ sent = [e \in RxEndpoint |-> 0]
  /\ received = [e \in TxEndpoint |-> [qty |-> 0, last |-> 0]]
  /\ dropped = [e \in RxEndpoint |-> 0]

-----------------------------------------------------------------------------
\* The calls, on B = [pool, queue, task]

Buffers == [pool |-> pool, queue |-> queue, task |-> task]
SetBuffers(B) == pool' = B.pool /\ queue' = B.queue /\ task' = B.task

\* The task that waits at this place of its loop for p, if there is one.
WaitsAt(B, place, p) ==
  {t \in Task : /\ B.task[t].at = place /\ B.task[t].waits
                /\ p = IF place = "receive" THEN Source[t] ELSE Target[t]}
Only(S) == CHOOSE t \in S : TRUE

\* Sends a block before it is filled.
Bug_After(t, place) ==
  CASE place = "receive" -> IF Target[t] = NoBuffer THEN "release" ELSE "get"
    [] place = "get"     -> "send"
    [] place = "send"    -> "copy"
    [] place = "copy"    -> IF Source[t] = NoBuffer THEN "get" ELSE "release"
    [] place = "release" -> "receive"
\* The places in the order of the loops.
After(t, place) ==
  CASE place = "receive" -> IF Target[t] = NoBuffer THEN "release" ELSE "get"
    [] place = "get"     -> "copy"
    [] place = "copy"    -> "send"
    [] place = "send"    -> IF Source[t] = NoBuffer THEN "get" ELSE "release"
    [] place = "release" -> "receive"
Goes(B, t) == [B EXCEPT !.task[t].at = After(t, @), !.task[t].waits = FALSE]
Received(B, t, b) == [Goes(B, t) EXCEPT !.task[t].ptr1 = b]
Gotten(B, t, b)   == [Goes(B, t) EXCEPT !.task[t].ptr = b]

\* Keeps two places of the array free.
Bug_IsFull(B, q) == Len(B.queue[q]) = Size[q] - 2
\* The FIFO of a queue created with n entries holds n - 1 (DataFifo).
IsFull(B, q) == Len(B.queue[q]) = Size[q] - 1

\* Forgets the task that waits to receive.
Bug_Send(B, q, b) == [B EXCEPT !.queue[q] = Append(@, b)]
\* To a waiting receiver, or into the FIFO if there is room.
CanSend(B, q) == WaitsAt(B, "receive", q) # {} \/ ~IsFull(B, q)
Send(B, q, b) ==
  LET receivers == WaitsAt(B, "receive", q)
  IN IF receivers # {} THEN Received(B, Only(receivers), b)
     ELSE [B EXCEPT !.queue[q] = Append(@, b)]

\* Takes over the block of a task that waits to send and lets it wait on.
Bug_TakeHead(B, q) ==
  LET taken == [B EXCEPT !.queue[q] = Tail(@)]
      senders == WaitsAt(B, "send", q)
  IN IF senders = {} THEN taken
     ELSE [taken EXCEPT !.queue[q] = Append(@, B.task[Only(senders)].ptr)]
\* Takes the head of the FIFO; a task that waits to send fills the place.
TakeHead(B, q) ==
  LET taken == [B EXCEPT !.queue[q] = Tail(@)]
      senders == WaitsAt(B, "send", q)
  IN IF senders = {} THEN taken
     ELSE LET t == Only(senders)
          IN Goes([taken EXCEPT !.queue[q] = Append(@, B.task[t].ptr)], t)

\* Gives a block back: to a task that waits for it, or to the pool.
Free(B, p, b) ==
  LET getters == WaitsAt(B, "get", p)
  IN IF getters # {} THEN Gotten(B, Only(getters), b)
     ELSE [B EXCEPT !.pool[p] = <<b>> \o @]

-----------------------------------------------------------------------------
\* The tasks

Runs(t) ==
  /\ ~task[t].waits
  /\ \A i, j \in DOMAIN Tasks : Tasks[i] = t /\ j < i => task[Tasks[j]].waits

\* t runs and is at this place of its loop.
At(t, place) == Runs(t) /\ task[t].at = place
Wait(t) == task' = [task EXCEPT ![t].waits = TRUE] /\ UNCHANGED <<pool, queue>>
others == <<sent, received, dropped>>

tn_queue_receive(t) ==
  /\ At(t, "receive")
  /\ IF queue[Source[t]] = <<>> THEN Wait(t)
     ELSE SetBuffers(Received(TakeHead(Buffers, Source[t]), t, Head(queue[Source[t]])))
  /\ UNCHANGED <<content, cnt, others>>

tn_fmem_get(t) ==
  /\ At(t, "get")
  /\ LET p == Target[t]
     IN IF pool[p] = <<>> THEN Wait(t)
        ELSE SetBuffers([Gotten(Buffers, t, Head(pool[p])) EXCEPT !.pool[p] = Tail(@)])
  /\ UNCHANGED <<content, cnt, others>>

\* s_memcpy from ptr1 to ptr; task_ep2_tx writes its counter.
Copy(t) ==
  /\ At(t, "copy")
  /\ LET counter == Source[t] = NoBuffer
         packet == IF counter THEN cnt ELSE content[Source[t]][task[t].ptr1]
     IN /\ content' = [content EXCEPT ![Target[t]][task[t].ptr] = packet]
        /\ cnt' = IF counter THEN cnt + 1 ELSE cnt
  /\ SetBuffers(Goes(Buffers, t))
  /\ UNCHANGED others

tn_queue_send(t) ==
  /\ At(t, "send")
  /\ LET q == Target[t]
     IN IF CanSend(Buffers, q) THEN SetBuffers(Goes(Send(Buffers, q, task[t].ptr), t))
                               ELSE Wait(t)
  /\ UNCHANGED <<content, cnt, others>>

tn_fmem_release(t) ==
  /\ At(t, "release")
  /\ SetBuffers(Goes(Free(Buffers, Source[t], task[t].ptr1), t))
  /\ UNCHANGED <<content, cnt, others>>

TaskStep(t) == \/ tn_queue_receive(t) \/ tn_fmem_get(t) \/ Copy(t)
               \/ tn_queue_send(t) \/ tn_fmem_release(t)

-----------------------------------------------------------------------------
\* The endpoint interrupts

\* The host sends its next packet; while the pool is empty it is not read and
\* the host has to send it again.
tn_usb_ep_rx_int(e) ==
  /\ sent[e] < MaxPackets[e]
  /\ pool[e] # <<>>
  /\ LET b == Head(pool[e])
         B == [Buffers EXCEPT !.pool[e] = Tail(@)]
         fits == CanSend(B, e)
     IN /\ content' = [content EXCEPT ![e][b] = sent[e] + 1]
        /\ SetBuffers(IF fits THEN Send(B, e, b) ELSE B)
        /\ dropped' = IF fits THEN dropped ELSE [dropped EXCEPT ![e] = @ + 1]
  /\ sent' = [sent EXCEPT ![e] = @ + 1]
  /\ UNCHANGED <<cnt, received>>

\* The host reads a packet; while the queue is empty there is none.
tn_usb_ep_tx_int(e) ==
  /\ queue[e] # <<>>
  /\ e = "EP2TX" => received[e].qty < MaxPackets[e]
  /\ LET b == Head(queue[e])
     IN /\ received' = [received EXCEPT ![e] =
             [qty |-> @.qty + 1, last |-> content[e][b]]]
        /\ SetBuffers(Free(TakeHead(Buffers, e), e, b))
  /\ UNCHANGED <<content, cnt, sent, dropped>>

Interrupt == \/ \E e \in RxEndpoint : tn_usb_ep_rx_int(e)
             \/ \E e \in TxEndpoint : tn_usb_ep_tx_int(e)
Next == Interrupt \/ \E t \in Task : TaskStep(t)
Spec == Init /\ [][Next]_vars

\* A task runs when nothing of a higher priority does, and the host goes on
\* reading.  MaxPackets ends the load of the tasks of higher priority.
Fairness == /\ \A t \in Task : WF_vars(TaskStep(t))
            /\ \A e \in TxEndpoint : WF_vars(tn_usb_ep_tx_int(e))
LiveSpec == Spec /\ Fairness

-----------------------------------------------------------------------------
\* Properties

\* The blocks of p that task t holds.
Held(t, p) ==
  (IF Source[t] = p /\ task[t].at # "receive" THEN <<task[t].ptr1>> ELSE <<>>)
  \o (IF Target[t] = p /\ task[t].at \in {"copy", "send"} THEN <<task[t].ptr>> ELSE <<>>)
\* All places where blocks of p are, in a row.
Blocks(p) == pool[p] \o queue[p] \o Held("ep5_tx", p) \o Held("ep5_rx", p)
               \o Held("ep2_tx", p) \o Held("ep2_rx", p)
Lost(p) == IF p \in RxEndpoint THEN dropped[p] ELSE 0

(***************************************************************************)
(* A block is in the pool, in the queue or with one task, never in two of  *)
(* these, and no block is lost but the one of a packet that                *)
(* tn_usb_ep_rx_int took and could not queue (tn_usb_ep.c:135).  As that   *)
(* block never comes back, the pool then has as many blocks as the queue   *)
(* has entries, and no second one is lost.                                 *)
(***************************************************************************)
BlocksAccounted ==
  \A p \in Buffer :
    /\ IsInjective(Blocks(p)) /\ Range(Blocks(p)) \subseteq Block(p)
    /\ Len(Blocks(p)) + Lost(p) = Size[p]
    /\ Lost(p) <= 1

\* The packets a task carries: at "send" the copy, before the original.
Carried(t) ==
  CASE task[t].at \in {"get", "copy"} -> <<content[Source[t]][task[t].ptr1]>>
    [] task[t].at = "send" -> <<content[Target[t]][task[t].ptr]>>
    [] OTHER -> <<>>
Packets(q) == [i \in DOMAIN queue[q] |-> content[q][queue[q][i]]]
OnTheWay == Packets("EP5TX") \o Carried("ep5_tx") \o Packets("EPExch")
              \o Carried("ep2_rx") \o Packets("EP2RX")
Echo == INSTANCE EchoLine WITH
          Room <- Size["EP2RX"] - 1, accepted <- sent["EP2RX"], line <- OnTheWay,
          returned <- received["EP5TX"].last, lost <- dropped["EP2RX"]

(***************************************************************************)
(* The loop over two tasks, three queues and three pools, and the          *)
(* interrupts at both ends, together give the packets back as EchoLine     *)
(* says: in order, none twice, and none missing but at most one, taken     *)
(* from the host while the queue of Endpoint 2 OUT was full.  The README   *)
(* does not allow that one: SameContents.                                  *)
(***************************************************************************)
ImplementsEcho == Echo!Spec

(***************************************************************************)
(* "You can compare both files (the source and the destination) - they     *)
(* must have the same length and contents" (README.md:288): what the host  *)
(* has back is as many packets as it sent up to the last of them.          *)
(***************************************************************************)
SameContents == received["EP5TX"].qty = received["EP5TX"].last

(***************************************************************************)
(* "The ASCII numbers must be in the '+1' sequence from line to line       *)
(* without dropping" (README.md:273): what the host reads from Endpoint 2  *)
(* is what task_ep2_tx counted, one by one.                                *)
(***************************************************************************)
NumbersInSequence ==
  received["EP2TX"].qty > 0 => received["EP2TX"].last + 1 = received["EP2TX"].qty

(***************************************************************************)
(* Every packet on its way is given back to a host that goes on reading,   *)
(* although EP2_RX is the task of the lowest priority (usb_tst1.c:50).  A  *)
(* packet that is given back stays so.                                     *)
(***************************************************************************)
EchoReturns ==
  \A n \in 1 .. MaxPackets["EP2RX"] :
    []<>(n \in Range(OnTheWay) => received["EP5TX"].last >= n)

(***************************************************************************)
(* An OUT endpoint accepts packets again and again: its pool does not stay *)
(* empty, the lost block notwithstanding.                                  *)
(***************************************************************************)
AcceptsAgain == \A e \in RxEndpoint : []<>(pool[e] # <<>>)
=============================================================================
