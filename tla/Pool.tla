-------------------------------- MODULE Pool ---------------------------------
(***************************************************************************)
(* What a memory pool promises: a block is free, or in the hands of the    *)
(* application, or on its way to one task that waited for it; tasks wait   *)
(* only when no block is free and are served in order.                     *)
(***************************************************************************)
EXTENDS Naturals, FiniteSets, SequencesExt

CONSTANTS Client, Pools, None  \* Pools: the sets of blocks a pool can have

VARIABLES
  exists,
  blocks,   \* all blocks of the pool
  free,
  out,      \* the blocks the application has
  waiting,  \* the tasks that wait for a block
  handed    \* the block given to a task that has yet to fetch it

vars == <<exists, blocks, free, out, waiting, handed>>

Nobody == [t \in Client |-> None]
Init == /\ exists = TRUE /\ blocks \in Pools /\ free = blocks
        /\ out = {} /\ waiting = <<>> /\ handed = Nobody

\* A new pool; the application has given back the blocks of the old one.
Create ==
  /\ ~exists /\ out = {} /\ handed = Nobody /\ exists' = TRUE
  /\ blocks' \in Pools /\ free' = blocks'
  /\ UNCHANGED <<out, waiting, handed>>
\* A creation that finds too little memory leaves no pool.
Refuse == ~exists /\ out = {} /\ handed = Nobody /\ blocks' = {} /\ free' = {}
          /\ UNCHANGED <<exists, out, waiting, handed>>
Delete == exists /\ waiting = <<>> /\ exists' = FALSE
          /\ UNCHANGED <<blocks, free, out, waiting, handed>>

Get ==
  /\ exists
  /\ \E b \in free : free' = free \ {b} /\ out' = out \cup {b}
  /\ UNCHANGED <<exists, blocks, waiting, handed>>

Await(t) ==
  /\ exists /\ free = {}
  /\ waiting' = Append(waiting, t)
  /\ UNCHANGED <<exists, blocks, free, out, handed>>

Release(b) ==
  /\ exists /\ b \in out /\ out' = out \ {b}
  /\ \/ /\ waiting # <<>> /\ waiting' = Tail(waiting)
        /\ handed' = [handed EXCEPT ![Head(waiting)] = b] /\ UNCHANGED free
     \/ waiting = <<>> /\ free' = free \cup {b} /\ UNCHANGED <<waiting, handed>>
  /\ UNCHANGED <<exists, blocks>>

Fetch(t) ==
  /\ handed[t] # None /\ out' = out \cup {handed[t]}
  /\ handed' = [handed EXCEPT ![t] = None]
  /\ UNCHANGED <<exists, blocks, free, waiting>>

\* A task that is terminated, or told that the pool is deleted; a block that
\* was on its way to it is lost.
GiveUp(t) ==
  /\ waiting' = RemoveFirst(waiting, t)
  /\ handed' = [handed EXCEPT ![t] = None]
  /\ UNCHANGED <<exists, blocks, free, out>>

Next ==
  \/ Create \/ Refuse \/ Delete \/ Get
  \/ \E b \in blocks : Release(b)
  \/ \E t \in Client : Await(t) \/ Fetch(t) \/ GiveUp(t)
Spec == Init /\ [][Next]_vars
=============================================================================
