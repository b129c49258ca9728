------------------------------ MODULE MCDqueue -------------------------------
(***************************************************************************)
(* Instances of TNDqueue for TLC.                                          *)
(***************************************************************************)
EXTENDS TNDqueue, TLC

CONSTANTS a, b, c, timer, idle, sendQueue, receiveQueue, d1, d2

\* a has the highest priority; b and c share one.
Priorities == (timer :> 0) @@ (a :> 1) @@ (b :> 2) @@ (c :> 2) @@ (idle :> 3)
TwoLists == <<sendQueue, receiveQueue>>
\* No operation looks at an element.
SameData == Permutations({d1, d2})

\* Three tasks that use the queue without ending or deleting it.
QueueNext ==
  \/ \E d \in Data : tn_queue_send(d, TN_WAIT_INFINITE)
  \/ tn_queue_receive(TN_WAIT_INFINITE)
  \/ DqInterrupt
  \/ (ReceiveEnd \/ ((Start \/ Enter \/ Leave \/ Switch) /\ taken' = None /\ UNCHANGED dqueue))

\* On a queue of one entry, which stores nothing like one of none, two tasks
\* make the calls of QueueNext.  On the others two make every call and all
\* three those of QueueNext.
CallsNext ==
  \/ /\ c \notin k.created /\ fifo.num_entries # 1
     /\ DqNext
     /\ fifo'.num_entries # 1
  \/ QueueNext /\ (fifo.num_entries # 1 \/ c \notin k'.created)
CallsSpec == DqInit /\ [][CallsNext]_all
=============================================================================
