------------------------------ MODULE EchoLine -------------------------------
(***************************************************************************)
(* What the loop from Endpoint 2 OUT to Endpoint 5 IN does: the host gets  *)
(* its packets back in order, each once.  The README promises all of them  *)
(* (README.md:288); the firmware without DMA may lose one, which it read   *)
(* while Room packets were on their way (tn_usb_ep.c:135).                 *)
(***************************************************************************)
EXTENDS Naturals, Sequences

CONSTANT Room   \* with fewer packets on their way none is lost

VARIABLES
  accepted,  \* the number of the last packet taken from the host
  line,      \* the packets on their way, in order
  returned,  \* the number of the last packet given back
  lost       \* packets that were taken and will not be given back

vars == <<accepted, line, returned, lost>>

Init == accepted = 0 /\ line = <<>> /\ returned = 0 /\ lost = 0

Accept ==
  /\ accepted' = accepted + 1 /\ line' = Append(line, accepted')
  /\ UNCHANGED <<returned, lost>>
Lose ==
  /\ Len(line) >= Room /\ lost = 0 /\ lost' = 1
  /\ accepted' = accepted + 1 /\ UNCHANGED <<line, returned>>
Return ==
  /\ line # <<>> /\ line' = Tail(line) /\ returned' = Head(line)
  /\ UNCHANGED <<accepted, lost>>

Next == Accept \/ Lose \/ Return
Spec == Init /\ [][Next]_vars
=============================================================================
