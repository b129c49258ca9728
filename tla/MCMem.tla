-------------------------------- MODULE MCMem --------------------------------
(***************************************************************************)
(* Instances of TNMem for TLC.                                             *)
(***************************************************************************)
EXTENDS TNMem, TLC

CONSTANTS a, b, c, timer, idle, memQueue

\* a has the highest priority; b and c share one.
Priorities == (timer :> 0) @@ (a :> 1) @@ (b :> 2) @@ (c :> 2) @@ (idle :> 3)
OneList == <<memQueue>>
Cells == 0 .. 40

\* Memory for two blocks that begins between two aligned addresses, and
\* memory that aligning leaves too small.
Areas == {[start_addr |-> 1, block_size |-> 8, num_blocks |-> 3],
          [start_addr |-> 1, block_size |-> 5, num_blocks |-> 3]}
\* Every start, size and number of blocks of a small range.
AllAreas == [start_addr : 0 .. 4, block_size : 3 .. 9, num_blocks : 1 .. 4]

\* Three tasks that use the pool without ending or deleting it.
PoolNext ==
  \/ tn_fmem_get(TN_WAIT_INFINITE) \/ (\E x \in out : tn_fmem_release(x))
  \/ MemInterrupt \/ GetEnd
  \/ (Start \/ Enter \/ Leave \/ Switch) /\ UNCHANGED pool

\* On a pool in one of the Areas two of the tasks make every call and all
\* three the calls of PoolNext; two make these on a pool of any shape.
CallsNext ==
  \/ c \notin k.created /\ memory \in Areas /\ MemNext /\ memory' \in Areas
  \/ PoolNext /\ (memory \in Areas \/ c \notin k'.created)
CallsSpec == MemInit /\ [][CallsNext]_all
=============================================================================
