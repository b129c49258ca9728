------------------------------- MODULE USBDma --------------------------------
(***************************************************************************)
(* The test firmware with DMA (usb_tst2.c, tn_usb_ep_dma.c).  Queues,      *)
(* pools and tasks are those of USBLoopback; the packets of the bulk       *)
(* endpoints are moved by the DMA engine of the controller, one for each   *)
(* DMA descriptor (DD) that the firmware gives it in the UDCA.             *)
(*                                                                         *)
(* The engine works on while the interrupt handler runs.  The handler is   *)
(* two steps, each of which reads its status once: what the engine does    *)
(* between the reads, it may do between the steps.                         *)
(***************************************************************************)
EXTENDS USBLoopback

CONSTANT NumBuf   \* EP..._NUM_BUF: the DDs of an endpoint

Endpoint == RxEndpoint \cup TxEndpoint
ASSUME DmaAssumption == NumBuf \in Nat \ (0 .. 4)

VARIABLES
  dma,   \* the DDs, the UDCA, and the registers of the DMA engine
  ctl    \* where the handler is, who has to set DMA_ENABLE, the configuration;
         \* overtaken: a request was served before the end of the last transfer

dvars == <<vars, dma, ctl>>

DD == 1 .. NumBuf
NoPacket == Unwritten

\* Each DD is DataBuffer bytes after the one before it, which is a fourth of
\* EP_MAX_PACKET_SIZE: buf_size is in words, buf_ptr in bytes.
EP_MAX_PACKET_SIZE == 64
DataBuffer(i) == (i - 1) * (EP_MAX_PACKET_SIZE \div 4)
Overlap(i, j) == DataBuffer(i) < DataBuffer(j) + EP_MAX_PACKET_SIZE
                 /\ DataBuffer(j) < DataBuffer(i) + EP_MAX_PACKET_SIZE

\* The DDs as the initialisation leaves them: one is ready for the engine, the
\* others are retired.  What their data buffers hold is left.
DDs(ready, holds) ==
  [i \in DD |-> [retired |-> i # ready, holds |-> holds[i], whole |-> TRUE]]
tn_usb_dma_rx_init(M, e) ==
  [M EXCEPT !.dd[e] = DDs(1, [i \in DD |-> @[i].holds]), !.udca[e] = 1]
tn_usb_dma_tx_init(M, e) ==
  [M EXCEPT !.dd[e] = DDs(NumBuf, [i \in DD |-> @[i].holds]), !.udca[e] = NumBuf]
InitDDs(M) ==
  LET ep2 == tn_usb_dma_tx_init(tn_usb_dma_rx_init(M, "EP2RX"), "EP2TX")
  IN tn_usb_dma_tx_init(tn_usb_dma_rx_init(ep2, "EP5RX"), "EP5TX")

DmaInit ==
  /\ Init
  /\ dma = InitDDs([dd |-> [e \in Endpoint |-> DDs(1, [i \in DD |-> NoPacket])],
                    udca |-> [e \in Endpoint |-> 1], enabled |-> {},
                    EoT |-> {}, NDDR |-> {}])
  /\ ctl = [handler |-> "out", enables |-> {}, configured |-> FALSE, overtaken |-> FALSE]

Current(M, e) == M.dd[e][M.udca[e]]

-----------------------------------------------------------------------------
\* The interrupt handler, on S = [pool, queue, task, content, dropped, dma]

State == [pool |-> pool, queue |-> queue, task |-> task, content |-> content,
          dropped |-> dropped, dma |-> dma]
SetState(S) == /\ SetBuffers(S) /\ content' = S.content /\ dropped' = S.dropped /\ dma' = S.dma

Dropped(S, e) == [S EXCEPT !.dropped[e] = @ + 1]

\* Takes the packet for that of the first DD.
Bug_ep_rx_end_of_transfer(S, e) ==
  LET cleared == [S EXCEPT !.dma.EoT = @ \ {e}]
      b == Head(S.pool[e])
      filled == [cleared EXCEPT !.pool[e] = Tail(@), !.content[e][b] = S.dma.dd[e][1].holds]
  IN IF S.pool[e] = <<>> THEN Dropped(cleared, e)
     ELSE IF CanSend(filled, e) THEN Send(filled, e, b) ELSE Dropped(filled, e)
\* Copies the packet of the DD in the UDCA to a block.
ep_rx_end_of_transfer(S, e) ==
  LET cleared == [S EXCEPT !.dma.EoT = @ \ {e}]
      b == Head(S.pool[e])
      filled == [cleared EXCEPT !.pool[e] = Tail(@), !.content[e][b] = Current(S.dma, e).holds]
  IN IF S.pool[e] = <<>> THEN Dropped(cleared, e)
     ELSE IF CanSend(filled, e) THEN Send(filled, e, b) ELSE Dropped(filled, e)

\* The DDs of e are now dds, and the engine has the one at i.
GiveDD(S, e, i, dds) ==
  [S EXCEPT !.dma.NDDR = @ \ {e}, !.dma.enabled = @ \cup {e}, !.dma.udca[e] = i,
            !.dma.dd[e] = dds]

\* Gives the engine a DD that is retired, if the FIFO has room.
\* Does not look at the FIFO.
Bug_ep_rx_DD_request(S, e) ==
  LET others_retired == {i \in DD \ {S.dma.udca[e]} : S.dma.dd[e][i].retired}
      next == IF others_retired = {} THEN S.dma.udca[e] ELSE Min(others_retired)
  IN GiveDD(S, e, next, [S.dma.dd[e] EXCEPT ![next].retired = @ /\ others_retired = {}])
ep_rx_DD_request(S, e) ==
  LET others_retired == {i \in DD \ {S.dma.udca[e]} : S.dma.dd[e][i].retired}
      next == IF others_retired = {} THEN S.dma.udca[e] ELSE Min(others_retired)
  IN IF IsFull(S, e) THEN [S EXCEPT !.dma.NDDR = @ \ {e}]
     ELSE GiveDD(S, e, next, [S.dma.dd[e] EXCEPT ![next].retired = @ /\ others_retired = {}])

\* A packet that is copied to word 5 of DD i instead of its data buffer lies
\* over the three DDs that follow.
OverDDs(dds, i, packet) ==
  [j \in DD |-> CASE j = i -> [retired |-> FALSE, holds |-> packet, whole |-> dds[j].whole]
                  [] j \in i + 1 .. i + 3 -> [dds[j] EXCEPT !.whole = FALSE]
                  [] OTHER -> dds[j]]
\* The last DD, which has no packet.
EmptyDD(dds) == [dds EXCEPT ![NumBuf].retired = FALSE, ![NumBuf].holds = NoPacket]
\* Takes the last DD that is retired.
Bug_ep_tx_int_DD_request(S, e) ==
  LET b == Head(S.queue[e])
      retired == {i \in 1 .. NumBuf - 1 : S.dma.dd[e][i].retired}
      freed == Free(TakeHead(S, e), e, b)
      dds == S.dma.dd[e]
  IN IF S.queue[e] = <<>> THEN GiveDD(S, e, NumBuf, EmptyDD(dds))
     ELSE IF retired = {} THEN GiveDD(freed, e, NumBuf, EmptyDD(dds))
     ELSE GiveDD(freed, e, Max(retired), OverDDs(dds, Max(retired), S.content[e][b]))
\* Takes a packet from the queue and gives the engine a DD for it, or the last
\* DD.
ep_tx_int_DD_request(S, e) ==
  LET b == Head(S.queue[e])
      retired == {i \in 1 .. NumBuf - 1 : S.dma.dd[e][i].retired}
      freed == Free(TakeHead(S, e), e, b)
      dds == S.dma.dd[e]
  IN IF S.queue[e] = <<>> THEN GiveDD(S, e, NumBuf, EmptyDD(dds))
     ELSE IF retired = {} THEN GiveDD(freed, e, NumBuf, EmptyDD(dds))
     ELSE GiveDD(freed, e, Min(retired), OverDDs(dds, Min(retired), S.content[e][b]))

\* The two tests of the handler, each over the endpoints in their order.
EndsOfTransfer(S) ==
  LET done(T, e) == IF e \in S.dma.EoT THEN ep_rx_end_of_transfer(T, e) ELSE T
  IN done(done(S, "EP2RX"), "EP5RX")
DDRequests(S) ==
  LET rx(T, e) == IF e \in S.dma.NDDR THEN ep_rx_DD_request(T, e) ELSE T
      tx(T, e) == IF e \in S.dma.NDDR THEN ep_tx_int_DD_request(T, e) ELSE T
  IN tx(rx(tx(rx(S, "EP2RX"), "EP2TX"), "EP5RX"), "EP5TX")

\* The handler: its first test, while the engine or the host has set a bit, and
\* its second, which looks at the requests of that moment.  An endpoint whose
\* end of transfer came in between gets its new DD first.
Requested == dma.EoT # {} \/ dma.NDDR # {}
FirstTest ==
  /\ ctl.handler = "out" /\ Requested /\ SetState(EndsOfTransfer(State))
  /\ ctl' = [ctl EXCEPT !.handler = "between"]
  /\ UNCHANGED <<cnt, sent, received>>
SecondTest ==
  /\ ctl.handler = "between" /\ SetState(DDRequests(State))
  /\ ctl' = [ctl EXCEPT !.handler = "out",
                        !.overtaken = @ \/ dma.NDDR \cap dma.EoT # {}]
  /\ UNCHANGED <<cnt, sent, received>>
tn_usb_int_func == FirstTest \/ SecondTest

-----------------------------------------------------------------------------
\* The tasks: those that receive from an endpoint set its DMA_ENABLE bit after
\* they have released a block.

SetEnable(t) ==
  /\ t \in ctl.enables /\ Runs(t)
  /\ dma' = [dma EXCEPT !.enabled = @ \cup {Source[t]}]
  /\ ctl' = [ctl EXCEPT !.enables = @ \ {t}]
  /\ UNCHANGED vars
\* Leaves the bit to the handler.
Bug_DmaTask(t) == TaskStep(t) /\ UNCHANGED <<dma, ctl>>
DmaTask(t) ==
  \/ SetEnable(t)
  \/ /\ t \notin ctl.enables /\ TaskStep(t)
     /\ ctl' = IF At(t, "release") /\ Source[t] \in RxEndpoint
               THEN [ctl EXCEPT !.enables = @ \cup {t}] ELSE ctl
     /\ UNCHANGED dma

-----------------------------------------------------------------------------
\* The controller and the host

Enabled(e) == ctl.configured /\ e \in dma.enabled
HostSends(e) == sent[e] < MaxPackets[e]
HostReads(e) == e = "EP2TX" => received[e].qty < MaxPackets[e]

\* A packet of the host comes to the data buffer of the DD in the UDCA, over
\* what the buffers hold that overlap it.
DmaOut(e) ==
  /\ Enabled(e) /\ HostSends(e) /\ ~Current(dma, e).retired
  /\ sent' = [sent EXCEPT ![e] = @ + 1]
  /\ dma' = [dma EXCEPT !.EoT = @ \cup {e},
       !.dd[e] = [i \in DD |->
         IF i = dma.udca[e] THEN [@[i] EXCEPT !.retired = TRUE, !.holds = sent[e] + 1]
         ELSE IF Overlap(i, dma.udca[e]) THEN [@[i] EXCEPT !.holds = Unwritten] ELSE @[i]]]
  /\ UNCHANGED <<pool, queue, content, task, cnt, received, dropped, ctl>>

\* The packet of the DD in the UDCA goes to the host, if it has one.
DmaIn(e) ==
  /\ Enabled(e) /\ HostReads(e) /\ ~Current(dma, e).retired
  /\ dma' = [dma EXCEPT !.dd[e][dma.udca[e]].retired = TRUE]
  /\ received' = IF dma.udca[e] = NumBuf THEN received
                 ELSE [received EXCEPT ![e] =
                        [qty |-> @.qty + 1, last |-> Current(dma, e).holds]]
  /\ UNCHANGED <<pool, queue, content, task, cnt, sent, dropped, ctl>>

\* The engine wants another DD, and stops.
RequestDD(e) ==
  /\ Enabled(e) /\ Current(dma, e).retired
  /\ IF e \in RxEndpoint THEN HostSends(e) ELSE HostReads(e)
  /\ dma' = [dma EXCEPT !.enabled = @ \ {e}, !.NDDR = @ \cup {e}]
  /\ UNCHANGED <<vars, ctl>>

Move(e) == IF e \in RxEndpoint THEN DmaOut(e) ELSE DmaIn(e)
Engine == \E e \in Endpoint : Move(e) \/ RequestDD(e)

\* SET_CONFIGURATION enables the endpoints.
tn_usb_config_ep ==
  /\ ~ctl.configured
  /\ ctl' = [ctl EXCEPT !.configured = TRUE]
  /\ dma' = [dma EXCEPT !.enabled = Endpoint]
  /\ UNCHANGED vars

\* No task runs while the handler does.
DmaNext == \/ tn_usb_int_func \/ Engine \/ tn_usb_config_ep
           \/ ctl.handler = "out" /\ \E t \in Task : DmaTask(t)
DmaSpec == DmaInit /\ [][DmaNext]_dvars

\* Weak fairness of the handler and of a host that configures the device, sends
\* and reads; the tasks get on, too, between the interrupts, each of which comes
\* with a transfer on the bus.  The conditions under which the steps of the
\* handler and of a task are enabled are written out: TLC takes very long to
\* find them.
DmaFairness ==
  /\ []<>(ctl.handler = "out" /\ ~Requested) \/ []<><<tn_usb_int_func>>_dvars
  /\ \A t \in Task : []<>~Runs(t) \/ []<><<DmaTask(t)>>_dvars
  /\ \A e \in Endpoint : WF_dvars(Move(e)) /\ WF_dvars(RequestDD(e))
  /\ WF_dvars(tn_usb_config_ep)
DmaLiveSpec == DmaSpec /\ DmaFairness

-----------------------------------------------------------------------------
\* Properties

\* The packet the engine has for the host, and the one it took from it.
InDD(e) == IF Current(dma, e).retired \/ dma.udca[e] = NumBuf THEN <<>>
           ELSE <<Current(dma, e).holds>>
OutDD(e) == IF e \in dma.EoT THEN <<Current(dma, e).holds>> ELSE <<>>
DmaEcho == INSTANCE EchoLine WITH
  Room <- Size["EP2RX"] - 1, accepted <- sent["EP2RX"],
  line <- InDD("EP5TX") \o OnTheWay \o OutDD("EP2RX"),
  returned <- received["EP5TX"].last, lost <- dropped["EP2RX"]

(***************************************************************************)
(* The loop with a DMA engine at both ends gives all packets back in their *)
(* order, each from the moment the engine has taken it, until a request    *)
(* overtakes an end of transfer between the tests of the handler           *)
(* (ep_rx_end_of_transfer, ep_tx_int_DD_request; tn_user.c:103 and :121).  *)
(***************************************************************************)
EchoUnlessOvertaken ==
  /\ DmaEcho!Init
  /\ [][~ctl'.overtaken => [DmaEcho!Accept \/ DmaEcho!Return]_(DmaEcho!vars)]_dvars

(***************************************************************************)
(* The packets that ep_tx_int_DD_request copies over the DDs 2 to 4 do no  *)
(* harm: when it looks for a retired DD the first one is, and the engine   *)
(* never has one that was written over.                                    *)
(***************************************************************************)
OverwrittenUnused ==
  \A e \in TxEndpoint : /\ e \in dma.NDDR => dma.dd[e][1].retired
                        /\ Current(dma, e).whole

(***************************************************************************)
(* When the engine may take a packet, there is a free block and room in    *)
(* the FIFO for it when its end of transfer is handled: the handler looks  *)
(* at the FIFO only, and the pool has one block more than the FIFO places. *)
(* A request that overtook an end of transfer has taken the room of the    *)
(* packet before.                                                          *)
(***************************************************************************)
ArmedHasBlock ==
  ~ctl.overtaken => \A e \in RxEndpoint : e \in dma.enabled /\ (~Current(dma, e).retired \/ e \in dma.EoT) =>
     pool[e] # <<>> /\ CanSend(Buffers, e)

(***************************************************************************)
(* All packets that the host has come back, although the handler leaves    *)
(* DMA_ENABLE off while the FIFO is full (tn_usb_ep_dma.c:221) and the     *)
(* engine stops after each packet until the handler has found a DD for the *)
(* next one, or given it the empty one (tn_user.c:121); or a request has   *)
(* overtaken an end of transfer, after which some may be missing.          *)
(***************************************************************************)
AllReturned == <>(ctl.overtaken \/ received["EP5TX"].last = MaxPackets["EP2RX"])

(***************************************************************************)
(* "the source and the destination - they must have the same length and    *)
(* contents" (README.md:288): the host gets the packet that follows the    *)
(* last one it got.                                                        *)
(***************************************************************************)
NextReturned ==
  [][received'["EP5TX"].qty > received["EP5TX"].qty =>
       received'["EP5TX"].last = received["EP5TX"].last + 1]_dvars
=============================================================================
