------------------------------- MODULE MCUSB ---------------------------------
(***************************************************************************)
(* Instances of USBLoopback and USBControl for TLC: the firmware without   *)
(* DMA.  The two share no state, so what is true of the steps of each is   *)
(* true of any interleaving; a behaviour of the instance is one of either  *)
(* part while the other one rests.                                         *)
(***************************************************************************)
EXTENDS USBLoopback, USBControl, TLC

VARIABLE part   \* the part that moves

UsbInit == Init /\ Ep0Init /\ part \in {"bulk", "control"}
Bulk == /\ part = "bulk" /\ Next
        /\ UNCHANGED <<ep0vars, part>>
Control == /\ part = "control" /\ Ep0Next
           /\ UNCHANGED <<vars, part>>
UsbSpec == UsbInit /\ [][Bulk \/ Control]_<<vars, ep0vars, part>>
\* Fairness of USBLoopback when its part moves.  Where Endpoint 0 rests, nothing
\* that its fairness speaks of is enabled.
BulkFairness ==
  /\ \A t \in Task : WF_vars(part = "bulk" /\ TaskStep(t))
  /\ \A e \in TxEndpoint : WF_vars(part = "bulk" /\ tn_usb_ep_tx_int(e))
UsbLiveSpec == UsbSpec /\ BulkFairness /\ HandlerFairness /\ HostFairness
BulkSpec == UsbSpec /\ part = "bulk"

-----------------------------------------------------------------------------
\* The bulk endpoints

\* The smallest buffers, and packets most of which pass the loop.
Two == [q \in Buffer |-> 2]
MostlyLoop == [q \in Buffer |-> CASE q = "EP2RX" -> 3 [] q = "EP2TX" -> 2 [] OTHER -> 1]
\* One packet more, which comes back although the one before it was lost.
LoopOnly == [q \in Buffer |-> IF q = "EP2RX" THEN 4 ELSE 0]

-----------------------------------------------------------------------------
\* Endpoint 0

D(type, length, total, value) == [type |-> type, length |-> length, total |-> total, value |-> value]
\* As the format allows it: two configurations, an alternate setting, and a
\* string as long as a packet.
TwoConfigurations == <<D(1, 18, 0, 0), D(2, 9, 25, 1), D(4, 9, 0, 0), D(5, 7, 0, 2),
         D(2, 9, 41, 2), D(4, 9, 0, 0), D(5, 7, 0, 5), D(4, 9, 0, 1), D(5, 7, 0, 133),
         D(3, 64, 0, 0)>>

Request(type, recip, bRequest, wValue, wLength) ==
  [type |-> type, recip |-> recip, bRequest |-> bRequest, wValue |-> wValue, wLength |-> wLength]
Descriptor(type, n, wLength) ==
  Request("in", "device", "GET_DESCRIPTOR", 256 * type + n, wLength)
Common == {
  Request("out", "device", "SET_ADDRESS", 5, 0),
  Request("out", "device", "SET_CONFIGURATION", 0, 0),
  Request("out", "device", "SET_CONFIGURATION", 1, 0),
  Request("out", "device", "SET_CONFIGURATION", 3, 0),
  Request("in", "device", "GET_CONFIGURATION", 0, 1),
  Request("in", "endpoint", "GET_STATUS", 0, 2)}
\* The requests of an enumeration, and those the firmware knows.
All == Common \cup {
  Descriptor(1, 0, 8), Descriptor(2, 0, 9), Descriptor(2, 0, 255), Descriptor(3, 0, 255),
  Descriptor(3, 4, 255),
  Request("out", "device", "SET_CONFIGURATION", 2, 0),
  Request("out", "endpoint", "CLEAR_FEATURE", 0, 0),
  Request("out", "device", "CLEAR_FEATURE", 1, 0),
  Request("out", "device", "SET_DESCRIPTOR", 256, 18),
  Request("out", "interface", "SET_INTERFACE", 0, 0),
  Request("class_in", "interface", "0xFE", 0, 1),
  Request("class_out", "interface", "0xFF", 0, 0),
  Request("class_out", "interface", "0xFF", 0, 18),
  Request("in", "device", "SYNCH_FRAME", 0, 2)}
\* Data of two packets for the class request 0xFF.
AllAndLong == All \cup {Request("class_out", "interface", "0xFF", 0, 100)}
=============================================================================
