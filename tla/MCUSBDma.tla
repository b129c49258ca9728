------------------------------ MODULE MCUSBDma -------------------------------
(***************************************************************************)
(* Instances of USBDma for TLC.                                            *)
(***************************************************************************)
EXTENDS USBDma, TLC

\* The least number of blocks, and enough packets for each of them to be used
\* twice.
Two == [q \in Buffer |-> 2]
MostlyLoop == [q \in Buffer |-> CASE q = "EP2RX" -> 3 [] q = "EP2TX" -> 1 [] OTHER -> 0]
LoopOnly == [q \in Buffer |-> IF q = "EP2RX" THEN 5 ELSE 0]
=============================================================================
