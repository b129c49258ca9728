----------------------------- MODULE USBControl ------------------------------
(***************************************************************************)
(* Endpoint 0: the control transfers of a USB host, the hardware of the    *)
(* LPC214x as tn_usb_hw.c uses it, and the firmware of tn_usb_req.c and of *)
(* the first half of tn_usb_ep.c, which runs in the USB interrupt.         *)
(*                                                                         *)
(* The interrupt handler is one step from the status it reads to the       *)
(* interrupts it clears.  A packet is where its bytes come from and how    *)
(* many they are; a descriptor is its type, its length and what the        *)
(* firmware reads of it.                                                   *)
(***************************************************************************)
EXTENDS Integers, SequencesExt

CONSTANTS
  USB_MAX_PACKET0,
  Descriptors,   \* abDescriptors: [type, length, total, value] in a row
  Requests,      \* the SETUP packets of the host
  NULL

\* Types of descriptors.
USB_DESCR_TYPE_CONFIGURATION == 2
USB_DESCR_TYPE_INTERFACE     == 4
USB_DESCR_TYPE_ENDPOINT      == 5

\* What the firmware reads of a descriptor and of a SETUP packet, and what is in
\* the buffers of Endpoint 0.
TableEntries == [type : 0 .. 255, length : 1 .. 255, total : Nat, value : 0 .. 255]
SetupPackets == [type : {"out", "in", "class_in", "class_out", "other"}, recip : STRING,
                 bRequest : STRING, wValue : Nat, wLength : Nat]
OutPackets == [setup : BOOLEAN, len : Nat, req : Requests \cup {NULL}]
Contents == [what : {"descriptors", "host", "configuration", "status", "LUN"}, n : 0 .. 255]
InPackets == [from : Contents, off : Int, len : Nat]

ASSUME ControlAssumption ==
  /\ USB_MAX_PACKET0 \in {8, 16, 32, 64}
  /\ Descriptors \in Seq(TableEntries) /\ Requests \subseteq SetupPackets
  /\ NULL \notin Requests \cup OutPackets \cup InPackets

\* The class request 0xFE asks for data, 0xFF does not.
ASSUME RequestsAssumption ==
  \A r \in Requests : /\ r.type = "class_out" => r.bRequest # "0xFE"
                      /\ r.type = "class_in" => r.bRequest # "0xFF"

VARIABLES
  udi,   \* gUSBInfo, with what its EP0 buffer holds
  hw,    \* the registers and buffers of the controller
  host   \* what the host is about

ep0vars == <<udi, hw, host>>

\* The addresses udi.pdata takes.
InBuffer == [mem |-> "buf", off |-> 0]
InDescriptors(off) == [mem |-> "descr", off |-> off]
\* What a packet or the EP0 buffer may hold, one of Contents.
Content(what, n) == [what |-> what, n |-> n]
FromDescriptors == Content("descriptors", 0)
FromHost == Content("host", 0)

Ep0Init ==
  /\ udi = [Configuration |-> 0, nbytes |-> 0, pdata |-> InBuffer, buf |-> FromHost,
            usp |-> NULL]
  /\ hw = [out |-> NULL, in |-> NULL, rx |-> FALSE, tx |-> FALSE, reset |-> FALSE,
           stalled |-> FALSE, addr |-> 0, configured |-> FALSE, enabled |-> {},
           waits |-> FALSE, connected |-> FALSE]
  /\ host = [phase |-> "idle", req |-> NULL, got |-> 0, exact |-> TRUE, done |-> TRUE,
             confs |-> {0}]

-----------------------------------------------------------------------------
\* The functions of the firmware, on D = [udi, hw]

\* pdata points to words: adding a number of bytes to it adds that many words.
Advance(D, n) == [D EXCEPT !.udi.nbytes = @ - n, !.udi.pdata.off = @ + 4 * n]

\* Copies n bytes to the buffer for the host and validates it.
tn_usb_ep0_write(D, n) ==
  [D EXCEPT !.hw.in = [from |-> IF D.udi.pdata.mem = "buf" THEN D.udi.buf ELSE FromDescriptors,
                       off |-> D.udi.pdata.off, len |-> n]]

tn_usb_st_DATAIN(D) ==
  LET bytes == IF D.udi.nbytes > USB_MAX_PACKET0 THEN USB_MAX_PACKET0 ELSE D.udi.nbytes
  IN Advance(tn_usb_ep0_write(D, bytes), bytes)

tn_usb_stall_ep(D) == [D EXCEPT !.hw.stalled = TRUE]
\* Keeps the configuration.
Bug_tn_usb_reset_data(D) == [D EXCEPT !.udi.nbytes = 0]
tn_usb_reset_data(D) == [D EXCEPT !.udi.Configuration = 0, !.udi.nbytes = 0]

\* The answer to a request and whether there is one; Refused is the result
\* FALSE of the functions below.
Refused(D) == [ok |-> FALSE, D |-> D]
Agreed(D) == [ok |-> TRUE, D |-> D]
Reply(D, what, n) == Agreed([D EXCEPT !.udi.buf = what, !.udi.nbytes = n])

tn_usb_set_addr(D, addr) == [D EXCEPT !.hw.addr = addr % 128]
usb_SET_ADDRESS(D, r) ==
  IF r.recip = "device" THEN Agreed(tn_usb_set_addr(D, r.wValue)) ELSE Refused(D)

\* Whatever they are asked.
usb_SET_FEATURE(D)   == Refused(D)
usb_SET_INTERFACE(D) == Refused(D)
usb_GET_INTERFACE(D) == Refused(D)

\* The halt it clears is never set: SET_FEATURE is refused.
usb_CLEAR_FEATURE(D, r) ==
  IF r.recip = "endpoint" /\ r.wValue = 0 THEN Agreed(D) ELSE Refused(D)

\* Looks at the endpoints of each alternate setting but the one with number 0.
Bug_Visit(value, S, d) ==
  IF S.skip > 0 THEN [S EXCEPT !.skip = @ - d.length]
  ELSE CASE d.type = USB_DESCR_TYPE_CONFIGURATION ->
              IF d.value = value THEN [S EXCEPT !.found = TRUE]
                                 ELSE [S EXCEPT !.skip = d.total - d.length]
         [] d.type = USB_DESCR_TYPE_INTERFACE -> [S EXCEPT !.aset = d.value]
         [] d.type = USB_DESCR_TYPE_ENDPOINT /\ S.aset # 0 -> [S EXCEPT !.eps = @ \cup {d.value}]
         [] OTHER -> S
\* One descriptor of the walk of usb_SET_CONFIGURATION.  S.skip is what is left
\* of a configuration that is passed over.
Visit(value, S, d) ==
  IF S.skip > 0 THEN [S EXCEPT !.skip = @ - d.length]
  ELSE CASE d.type = USB_DESCR_TYPE_CONFIGURATION ->
              IF d.value = value THEN [S EXCEPT !.found = TRUE]
                                 ELSE [S EXCEPT !.skip = d.total - d.length]
         [] d.type = USB_DESCR_TYPE_INTERFACE -> [S EXCEPT !.aset = d.value]
         [] d.type = USB_DESCR_TYPE_ENDPOINT /\ S.aset = 0 -> [S EXCEPT !.eps = @ \cup {d.value}]
         [] OTHER -> S
Walk(value) ==
  LET walk[i \in 0 .. Len(Descriptors)] ==
        IF i = 0 THEN [found |-> FALSE, skip |-> 0, aset |-> 0, eps |-> {}]
                 ELSE Visit(value, walk[i - 1], Descriptors[i])
  IN walk[Len(Descriptors)]

tn_usb_configure_device(D, mode) == [D EXCEPT !.hw.configured = mode]
usb_SET_CONFIGURATION(D, r) ==
  LET value == r.wValue % 256
      walk == Walk(value)
      enabled == [D EXCEPT !.hw.enabled = @ \cup walk.eps]
      new == IF value = 0
             THEN tn_usb_configure_device([D EXCEPT !.udi.Configuration = 0], FALSE)
             ELSE IF walk.found
             THEN tn_usb_configure_device([enabled EXCEPT !.udi.Configuration = value], TRUE)
             ELSE enabled
  IN [ok |-> new.udi.Configuration = value, D |-> new]

Is(i, type) == Descriptors[i].type = type
\* The descriptor of a type that has n descriptors of this type before it.
Nth(type, n) ==
  {i \in DOMAIN Descriptors : /\ Is(i, type)
                              /\ n = Cardinality({j \in 1 .. i - 1 : Is(j, type)})}
Offset[i \in 1 .. Len(Descriptors)] ==
  IF i = 1 THEN 0 ELSE Offset[i - 1] + Descriptors[i - 1].length
Whole(d) == IF d.type = USB_DESCR_TYPE_CONFIGURATION THEN d.total ELSE d.length
Asked(r) == Nth(r.wValue \div 256, r.wValue % 256)

\* A table as the firmware has it: each descriptor fits into a packet, 0 is the
\* value of no configuration, no configuration reaches into the next one, and an
\* endpoint belongs to an interface of a configuration.
ASSUME DescriptorsAssumption ==
  /\ \A i \in DOMAIN Descriptors : Whole(Descriptors[i]) <= USB_MAX_PACKET0
  /\ \A i \in DOMAIN Descriptors :
       Is(i, USB_DESCR_TYPE_CONFIGURATION) => Descriptors[i].value # 0
  /\ \A i, j \in DOMAIN Descriptors :
       /\ i < j
       /\ Is(i, USB_DESCR_TYPE_CONFIGURATION) /\ Is(j, USB_DESCR_TYPE_CONFIGURATION)
       => Offset[i] + Descriptors[i].total <= Offset[j]
  /\ \A j \in DOMAIN Descriptors : Is(j, USB_DESCR_TYPE_ENDPOINT) =>
       \E c, i \in 1 .. j :
         /\ Is(c, USB_DESCR_TYPE_CONFIGURATION) /\ Is(i, USB_DESCR_TYPE_INTERFACE) /\ c < i
         /\ \A k \in c + 1 .. j : ~Is(k, USB_DESCR_TYPE_CONFIGURATION)

usb_GET_DESCRIPTOR(D, r) ==
  LET found == Asked(r)
      d == CHOOSE d \in found : TRUE
  IN IF r.recip = "device" /\ found # {}
     THEN Agreed([D EXCEPT !.udi.pdata = InDescriptors(Offset[d]),
                           !.udi.nbytes = Whole(Descriptors[d])])
     ELSE Refused(D)

usb_GET_CONFIGURATION(D, r) ==
  IF r.recip = "device" THEN Reply(D, Content("configuration", D.udi.Configuration), 1) ELSE Refused(D)

usb_GET_STATUS(D, r) ==
  IF r.recip \in {"device", "interface", "endpoint"} THEN Reply(D, Content("status", 0), 2) ELSE Refused(D)

tn_usb_class_request(D, r) ==
  CASE r.bRequest = "0xFE" -> Reply(D, Content("LUN", 0), 1)
    [] r.bRequest = "0xFF" -> Agreed(D)
    [] OTHER -> Refused(D)

usb_exch_stage_STALLOUT(D) == [tn_usb_stall_ep(D) EXCEPT !.udi.nbytes = 0]

tn_usb_EP0_SETUP(D) ==
  LET r == D.udi.usp
  IN CASE r.type \in {"class_in", "class_out"} -> tn_usb_class_request(D, r)
       [] r.type = "out" /\ r.bRequest = "SET_ADDRESS" -> usb_SET_ADDRESS(D, r)
       [] r.type = "out" /\ r.bRequest = "SET_FEATURE" -> usb_SET_FEATURE(D)
       [] r.type = "out" /\ r.bRequest = "SET_INTERFACE" -> usb_SET_INTERFACE(D)
       [] r.type = "out" /\ r.bRequest = "CLEAR_FEATURE" -> usb_CLEAR_FEATURE(D, r)
       [] r.type = "out" /\ r.bRequest = "SET_CONFIGURATION" -> usb_SET_CONFIGURATION(D, r)
       [] r.type = "out" /\ r.bRequest = "SET_DESCRIPTOR" -> Refused(usb_exch_stage_STALLOUT(D))
       [] r.type = "in" /\ r.bRequest = "GET_INTERFACE" -> usb_GET_INTERFACE(D)
       [] r.type = "in" /\ r.bRequest = "GET_STATUS" -> usb_GET_STATUS(D, r)
       [] r.type = "in" /\ r.bRequest = "GET_DESCRIPTOR" -> usb_GET_DESCRIPTOR(D, r)
       [] r.type = "in" /\ r.bRequest = "GET_CONFIGURATION" -> usb_GET_CONFIGURATION(D, r)
       [] OTHER -> Refused(D)

-----------------------------------------------------------------------------
\* The interrupt handlers

Device == [udi |-> udi, hw |-> hw]
SetDevice(D) == udi' = D.udi /\ hw' = D.hw

\* Leaves a request that is refused without an answer.
Bug_Answer(A) == IF A.ok THEN tn_usb_st_DATAIN(A.D) ELSE A.D
\* Stalls, or sends the first packet, an empty one if there is nothing to send.
Answer(A) == IF A.ok THEN tn_usb_st_DATAIN(A.D) ELSE tn_usb_stall_ep(A.D)

\* No more than the host asked for.
Bug_Capped(A) == A
Capped(A) ==
  IF A.D.udi.nbytes > A.D.udi.usp.wLength
  THEN [A EXCEPT !.D.udi.nbytes = A.D.udi.usp.wLength] ELSE A

DirectionIn(r) == r.type \in {"in", "class_in"}

\* Reading a packet leaves the buffer of the controller empty.
tn_usb_ep_read(D) == [D EXCEPT !.hw.out = NULL]

SetupArrived(D) ==
  LET r == D.hw.out.req
      read == [tn_usb_ep_read(D) EXCEPT !.udi.usp = r, !.udi.pdata = InBuffer,
                                        !.udi.nbytes = r.wLength]
  IN IF r.wLength = 0 \/ DirectionIn(r) THEN Answer(Capped(tn_usb_EP0_SETUP(read))) ELSE read

\* What the buffer holds is from the host now.  After a part of the data the
\* handler reads once more, and that read waits for a packet.
DataArrived(D) ==
  LET bytes == D.hw.out.len
      read == Advance([tn_usb_ep_read(D) EXCEPT !.udi.buf = FromHost], bytes)
  IN IF D.udi.nbytes = 0 THEN D
     ELSE IF read.udi.nbytes = 0
     THEN Answer(tn_usb_EP0_SETUP([read EXCEPT !.udi.pdata = InBuffer]))
     ELSE [read EXCEPT !.hw.waits = TRUE]

tn_usb_EP0_rx_int_func ==
  /\ hw.rx
  /\ LET D == IF hw.out # NULL /\ hw.out.setup THEN SetupArrived(Device)
              ELSE IF hw.out # NULL THEN DataArrived(Device) ELSE Device
     IN SetDevice([D EXCEPT !.hw.rx = FALSE])

tn_usb_EP0_tx_int_func ==
  /\ ~hw.rx /\ hw.tx
  /\ SetDevice([tn_usb_st_DATAIN(Device) EXCEPT !.hw.tx = FALSE])

tn_usb_int_reset ==
  SetDevice([tn_usb_reset_data(Device) EXCEPT !.hw.reset = FALSE, !.hw.rx = FALSE,
                                              !.hw.tx = FALSE])

\* Of the two interrupts of Endpoint 0 one call handles one.
tn_usb_int_func ==
  /\ ~hw.waits
  /\ \/ hw.reset /\ tn_usb_int_reset
     \/ ~hw.reset /\ (tn_usb_EP0_rx_int_func \/ tn_usb_EP0_tx_int_func)
  /\ UNCHANGED host

\* The read of the handler ends with the next packet, which it discards.
DummyRead ==
  /\ hw.waits /\ hw.out # NULL
  /\ hw' = [hw EXCEPT !.out = NULL, !.rx = FALSE, !.waits = FALSE]
  /\ UNCHANGED <<udi, host>>

-----------------------------------------------------------------------------
\* The host and the controller


SetsConfiguration(r) == r # NULL /\ r.type = "out" /\ r.bRequest = "SET_CONFIGURATION"
Value(r) == r.wValue % 256

\* tn_usb_connect of task_processing.
tn_usb_connect ==
  /\ ~hw.connected /\ hw' = [hw EXCEPT !.connected = TRUE]
  /\ UNCHANGED <<udi, host>>

\* A SETUP packet is always taken.  It replaces what is in the OUT buffer,
\* invalidates what is in the IN buffer and ends a stall.  If it interrupts a
\* SET_CONFIGURATION the host does not know which configuration it left.
Setup(r) ==
  /\ hw.connected
  /\ hw' = [hw EXCEPT !.out = [setup |-> TRUE, len |-> 8, req |-> r], !.in = NULL,
                      !.stalled = FALSE, !.rx = TRUE]
  /\ host' = [host EXCEPT
       !.phase = IF r.wLength = 0 THEN "status in"
                 ELSE IF DirectionIn(r) THEN "data in" ELSE "data out",
       !.req = r, !.got = 0,
       !.confs = IF host.phase # "idle" /\ SetsConfiguration(host.req)
                 THEN @ \cup {Value(host.req)} ELSE @]
  /\ UNCHANGED udi

\* The endpoints the descriptors give a configuration, in the alternate setting 0
\* of its interfaces.
LastBefore(i, type) ==
  Descriptors[Max({j \in 1 .. i : Is(j, type)})].value
EndpointsOf(value) ==
  {Descriptors[i].value : i \in {j \in DOMAIN Descriptors :
     /\ Is(j, USB_DESCR_TYPE_ENDPOINT)
     /\ LastBefore(j, USB_DESCR_TYPE_CONFIGURATION) = value
     /\ LastBefore(j, USB_DESCR_TYPE_INTERFACE) = 0}}

\* What the answer to a request is: where it comes from, and its length.
Answers(r) ==
  CASE r.bRequest = "GET_DESCRIPTOR" ->
         LET d == CHOOSE d \in Asked(r) : TRUE
         IN [from |-> {FromDescriptors}, off |-> Offset[d], len |-> Whole(Descriptors[d])]
    [] r.bRequest = "GET_CONFIGURATION" ->
         [from |-> {Content("configuration", c) : c \in host.confs}, off |-> 0, len |-> 1]
    [] r.bRequest = "GET_STATUS" -> [from |-> {Content("status", 0)}, off |-> 0, len |-> 2]
    [] r.bRequest = "0xFE" -> [from |-> {Content("LUN", 0)}, off |-> 0, len |-> 1]
\* What the device has to have done when it acknowledges a request.
Effect(r) ==
  /\ r.bRequest = "SET_ADDRESS" => hw.addr = r.wValue % 128
  /\ SetsConfiguration(r) =>
       /\ udi.Configuration = Value(r) /\ hw.configured = (Value(r) # 0)
       /\ EndpointsOf(Value(r)) \subseteq hw.enabled

\* The host gets what is in the IN buffer: data, up to a packet that is not
\* full or all it asked for, or the acknowledgement.
GetData(p) ==
  LET a == Answers(host.req)
      got == host.got + p.len
      last == p.len < USB_MAX_PACKET0 \/ got >= host.req.wLength
  IN [host EXCEPT !.got = got, !.phase = IF last THEN "status out" ELSE "data in",
        !.exact = /\ p.len = 0 \/ (p.from \in a.from /\ p.off = a.off + host.got)
                  /\ last => got = Min({a.len, host.req.wLength})]
GetStatus(p) ==
  [host EXCEPT !.phase = "idle", !.exact = p.len = 0, !.done = Effect(host.req),
               !.confs = IF SetsConfiguration(host.req) THEN {Value(host.req)} ELSE @]
In ==
  /\ host.phase \in {"data in", "status in"} /\ hw.in # NULL /\ ~hw.stalled
  /\ host' = IF host.phase = "data in" THEN GetData(hw.in) ELSE GetStatus(hw.in)
  /\ hw' = [hw EXCEPT !.in = NULL, !.tx = TRUE]
  /\ UNCHANGED udi

OutPacket(n) == hw' = [hw EXCEPT !.out = [setup |-> FALSE, len |-> n, req |-> NULL], !.rx = TRUE]
DataOut ==
  /\ host.phase = "data out" /\ hw.out = NULL /\ ~hw.stalled
  /\ LET n == Min({USB_MAX_PACKET0, host.req.wLength - host.got})
     IN /\ OutPacket(n)
        /\ host' = [host EXCEPT !.got = @ + n,
             !.phase = IF host.got + n = host.req.wLength THEN "status in" ELSE @]
  /\ UNCHANGED udi

StatusOut ==
  /\ host.phase = "status out" /\ hw.out = NULL /\ ~hw.stalled
  /\ OutPacket(0) /\ host' = [host EXCEPT !.phase = "idle"]
  /\ UNCHANGED udi

Stalled ==
  /\ hw.stalled /\ host.phase # "idle"
  /\ host' = [host EXCEPT !.phase = "idle"]
  /\ UNCHANGED <<udi, hw>>

\* A bus reset, or a change of the connection, which the firmware handles alike.
BusReset ==
  /\ hw.connected
  /\ hw' = [hw EXCEPT !.out = NULL, !.in = NULL, !.stalled = FALSE, !.addr = 0,
                      !.configured = FALSE, !.reset = TRUE]
  /\ host' = [host EXCEPT !.phase = "idle", !.req = NULL, !.got = 0,
                          !.confs = {0}]
  /\ UNCHANGED udi

Transfer == In \/ DataOut \/ StatusOut \/ Stalled
Firmware == tn_usb_connect \/ tn_usb_int_func \/ DummyRead

\* A host that starts a transfer, or gives one up to start another, when the
\* interrupts of what it did before have been served: the handler takes
\* microseconds, the pause before a transfer milliseconds.
Served == ~hw.rx /\ ~hw.tx /\ ~hw.reset /\ ~hw.waits
Ep0Next == Firmware \/ Transfer \/ BusReset \/ (Served /\ \E r \in Requests : Setup(r))
Ep0Spec == Ep0Init /\ [][Ep0Next]_ep0vars

\* WF_ep0vars(tn_usb_int_func), with the condition under which the handler is
\* enabled written out: TLC takes very long to find it.
HandlerFairness == \/ []<>(hw.waits \/ ~(hw.reset \/ hw.rx \/ hw.tx))
                   \/ []<><<tn_usb_int_func>>_ep0vars
\* A host that goes on with its transfers, and from some time on gives none up.
GivesUp == host.phase # "idle" /\ Served /\ \E r \in Requests : Setup(r)
HostFairness == WF_ep0vars(Transfer) /\ <>[][~GivesUp]_ep0vars
Ep0LiveSpec == Ep0Spec /\ HandlerFairness /\ HostFairness

-----------------------------------------------------------------------------
\* Properties

(***************************************************************************)
(* What the host got in answer to a request is the answer to this request, *)
(* from its first byte on, as much of it as it asked for and no more, and  *)
(* an acknowledgement is empty; also after a transfer that was given up    *)
(* and after a bus reset (tn_usb_st_DATAIN, tn_usb_EP0_rx_int_func).       *)
(***************************************************************************)
AnswersExact == host.exact

(***************************************************************************)
(* A request that was acknowledged has been carried out: the address, and  *)
(* the configuration with the endpoints of its descriptors.                *)
(***************************************************************************)
AcknowledgedDone == host.done

(***************************************************************************)
(* What the firmware takes for the configuration is what the controller    *)
(* works with, and the endpoints of the configuration are enabled, except  *)
(* between a bus reset and its interrupt.                                  *)
(***************************************************************************)
ConfiguredTogether ==
  ~hw.reset => /\ (udi.Configuration # 0) = hw.configured
               /\ hw.configured => EndpointsOf(udi.Configuration) \subseteq hw.enabled

\* Every transfer ends, with an answer, an acknowledgement or a stall, if the
\* data the host sends in it is one packet: after a part of the data the
\* handler reads a second time, from the empty endpoint
\* (tn_usb_EP0_rx_int_func).
ManyPackets == host.req # NULL /\ host.req.type = "class_out"
                 /\ host.req.wLength > USB_MAX_PACKET0
TransfersEnd == []<>(host.phase = "idle" \/ ManyPackets)
=============================================================================
