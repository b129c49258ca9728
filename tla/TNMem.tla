-------------------------------- MODULE TNMem --------------------------------
(***************************************************************************)
(* Fixed-size memory pools (tn_mem.c): one pool, the tasks and interrupt   *)
(* handlers that get and release its blocks.  The first cell of a free     *)
(* block is the link to the next free one; the block's user writes what it *)
(* likes there.                                                            *)
(***************************************************************************)
EXTENDS TNObjects

CONSTANTS
  Memory,   \* the arguments of tn_fmem_create: [start_addr, block_size, num_blocks]
  Addr      \* the addresses of memory cells

TN_ALIG == 4
Align(n) == ((n + (TN_ALIG - 1)) \div TN_ALIG) * TN_ALIG

ASSUME MemAssumption ==
  /\ Memory \subseteq [start_addr : Addr, block_size : Nat, num_blocks : Int]
  /\ Addr \subseteq Nat /\ NULL \notin Addr /\ Len(WaitLists) = 1
  /\ \A m \in Memory : m.start_addr .. m.start_addr + m.block_size * m.num_blocks \subseteq Addr

VARIABLES
  fmp,        \* start_addr, block_size, num_blocks, free_list, fblkcnt
  cell,       \* the first cell of every block, by address
  memory,     \* the arguments of the last successful creation
  data_elem,
  getting,    \* the task will return from tn_fmem_get when it runs
  out         \* the blocks the application has

pool == <<fmp, cell, memory, data_elem, getting, out>>

\* What a user of a block has written over the link.
Written == "written"
wait_queue == WaitLists[1]
noWaiter == is_queue_empty(k.q, wait_queue)

-----------------------------------------------------------------------------
\* Creation

\* Forgets that aligning the start has used up memory.
Bug_ActualBlocks(m) ==
  (m.block_size * m.num_blocks) \div Align(m.block_size)
\* The loop that takes one block off until the aligned blocks fit.
ActualBlocks(m) ==
  LET size == Align(m.block_size)
      end  == m.start_addr + m.block_size * m.num_blocks
  IN Max({n \in 0 .. m.num_blocks : Align(m.start_addr) + size * n <= end})

NoBlocks == [start_addr |-> 0, block_size |-> 0, num_blocks |-> 0,
             free_list |-> NULL, fblkcnt |-> 0]
NewPool(m) ==
  [start_addr |-> Align(m.start_addr), block_size |-> Align(m.block_size),
   num_blocks |-> ActualBlocks(m), free_list |-> Align(m.start_addr),
   fblkcnt |-> ActualBlocks(m)]
BlockAt(f, i) == f.start_addr + i * f.block_size
\* Every block links to the next, the last one to none.
Linked(f) ==
  [x \in Addr |->
     IF \E i \in 0 .. f.num_blocks - 2 : x = BlockAt(f, i) THEN x + f.block_size
     ELSE IF x = BlockAt(f, f.num_blocks - 1) THEN NULL ELSE Written]

Refused(m) == \/ m.num_blocks < 2 \/ m.block_size < TN_ALIG
              \/ ActualBlocks(m) < 2

MemInit ==
  /\ Init /\ ObjectInit
  /\ memory \in {m \in Memory : ~Refused(m)}
  /\ fmp = NewPool(memory) /\ cell = Linked(fmp)
  /\ data_elem = [t \in Task |-> NULL]
  /\ getting = [t \in Task |-> FALSE]
  /\ out = {}

\* The running task is outside the functions of this module.
Idle == Caller /\ Free /\ ~getting[tn_curr_run_task]

\* The block that a task which was woken with success has yet to fetch.
Handed == [t \in AppTask |->
             IF getting[t] /\ ~Waiting(k, t) /\ k.task_wait_rc[t] = "TERR_NO_ERR"
             THEN data_elem[t] ELSE NULL]

\* On memory of which the application has no block any more.
tn_fmem_create(m) ==
  /\ Idle /\ ~id /\ out = {} /\ \A t \in AppTask : Handed[t] = NULL
  /\ \/ Refused(m) /\ fmp' = NoBlocks /\ UNCHANGED <<k, id, cell, memory>>
     \/ /\ ~Refused(m) /\ id' = TRUE
        /\ fmp' = NewPool(m) /\ cell' = Linked(fmp') /\ memory' = m
        /\ k' = [k EXCEPT !.q = queue_reset(@, wait_queue)]
  /\ Returns /\ UNCHANGED <<task_stk, deleting, data_elem, getting, out>>

-----------------------------------------------------------------------------
\* Getting a block

\* Forgets to count.
Bug_fm_get == /\ fmp.free_list # NULL
              /\ fmp' = [fmp EXCEPT !.free_list = cell[@]]
              /\ cell' = [cell EXCEPT ![fmp.free_list] = Written]
              /\ out' = out \cup {fmp.free_list}
\* The first free block goes to the application, which writes to it.
fm_get == /\ fmp.fblkcnt > 0
          /\ fmp' = [fmp EXCEPT !.free_list = cell[@], !.fblkcnt = @ - 1]
          /\ cell' = [cell EXCEPT ![fmp.free_list] = Written]
          /\ out' = out \cup {fmp.free_list}

tn_fmem_get(timeout) ==
  /\ Idle /\ id
  /\ \/ fm_get /\ Returns /\ UNCHANGED <<k, getting>>
     \/ /\ fmp.fblkcnt = 0
        /\ WaitFor(k, wait_queue, "WFIXMEM", timeout)
        /\ getting' = [getting EXCEPT ![tn_curr_run_task] = TRUE]
        /\ UNCHANGED <<fmp, cell, out>>
  /\ UNCHANGED <<task_stk, object, data_elem, memory>>

\* The second half of tn_fmem_get, in the task that waited.
GetEnd ==
  LET t == tn_curr_run_task
  IN /\ tn_int_counter = 0 /\ pc = "user" /\ getting[t]
     /\ getting' = [getting EXCEPT ![t] = FALSE]
     /\ out' = IF k.task_wait_rc[t] = "TERR_NO_ERR" THEN out \cup {data_elem[t]} ELSE out
     /\ UNCHANGED <<vars, object, fmp, cell, memory, data_elem>>

tn_fmem_get_polling ==
  /\ Idle /\ id /\ fm_get /\ Returns
  /\ UNCHANGED <<k, task_stk, object, data_elem, memory, getting>>

tn_fmem_get_ipolling ==
  /\ InHandler /\ id /\ fm_get /\ HandlerCall(FALSE)
  /\ UNCHANGED <<k, tick_walk, object, data_elem, memory, getting>>

-----------------------------------------------------------------------------
\* Releasing a block

\* The result TERR_OVERFLOW is not looked at: the block is dropped.
fm_put(mem) ==
  IF fmp.fblkcnt < fmp.num_blocks
  THEN /\ cell' = [cell EXCEPT ![mem] = fmp.free_list]
       /\ fmp' = [fmp EXCEPT !.free_list = mem, !.fblkcnt = @ + 1]
  ELSE UNCHANGED <<cell, fmp>>

\* Puts the block on the free list as well.
Bug_GiveToWaiter(b) ==
  /\ data_elem' = [data_elem EXCEPT ![FirstWaiter(k, wait_queue)] = b]
  /\ fm_put(b)
\* The block goes to the first waiter without passing the free list.
GiveToWaiter(b) ==
  /\ data_elem' = [data_elem EXCEPT ![FirstWaiter(k, wait_queue)] = b]
  /\ UNCHANGED <<fmp, cell>>

\* The caller gives back a block it has.
tn_fmem_release(b) ==
  /\ Idle /\ id /\ b \in out
  /\ \/ ~noWaiter /\ GiveToWaiter(b) /\ WakeFirst(k, wait_queue)
     \/ noWaiter /\ fm_put(b) /\ Returns /\ UNCHANGED <<k, data_elem>>
  /\ out' = out \ {b}
  /\ UNCHANGED <<task_stk, object, memory, getting>>

tn_fmem_irelease(b) ==
  /\ InHandler /\ id /\ b \in out
  /\ \/ ~noWaiter /\ GiveToWaiter(b) /\ iWakeFirst(k, wait_queue)
     \/ noWaiter /\ fm_put(b) /\ HandlerCall(FALSE) /\ UNCHANGED <<k, tick_walk, data_elem>>
  /\ out' = out \ {b}
  /\ UNCHANGED <<object, memory, getting>>

-----------------------------------------------------------------------------
MemCall ==
  \/ \E m \in Memory : tn_fmem_create(m)
  \/ tn_fmem_get(TN_WAIT_INFINITE) \/ tn_fmem_get_polling
  \/ \E b \in out : tn_fmem_release(b)
MemInterrupt == tn_fmem_get_ipolling \/ \E b \in out : tn_fmem_irelease(b)

Forget(t) == /\ data_elem' = [data_elem EXCEPT ![t] = NULL]
             /\ getting' = [getting EXCEPT ![t] = FALSE]
\* A task that ends leaves its blocks to the other tasks.
Others ==
  \/ GetEnd
  \/ /\ \/ DeleteSteps \/ Start \/ Enter \/ Leave \/ Switch
        \/ \E t \in AppTask : /\ Idle /\ UNCHANGED object
                              /\ \/ tn_task_suspend(t) \/ tn_task_resume(t)
                                 \/ tn_task_activate(t)
     /\ UNCHANGED pool
  \/ /\ \/ \E t \in AppTask : Idle /\ ~Sleeping(t) /\ Terminate(t) /\ Forget(t)
        \/ Idle /\ tn_task_exit(FALSE) /\ UNCHANGED object /\ Forget(tn_curr_run_task)
     /\ UNCHANGED <<fmp, cell, memory, out>>

all == <<vars, object, pool>>

\* An application that waits without a timeout, releases each block once and
\* deletes the pool only when it is undisturbed.
Delete == Idle /\ DeleteBegin /\ UNCHANGED pool
MemNext ==
  \/ MemCall \/ Others
  \/ NobodyDeletes /\ MemInterrupt
  \/ Undisturbed /\ Delete
MemSpec == MemInit /\ [][MemNext]_all

-----------------------------------------------------------------------------
\* Properties

Blocks(f) == {BlockAt(f, i) : i \in 0 .. f.num_blocks - 1}
\* Where the first cell of a block leads when the cells are c.
NextFree(c) == [x \in Addr \cup {NULL} |-> IF x = NULL THEN NULL ELSE c[x]]
\* The first n entries of the free list of f.
Chain(f, c, n) ==
  LET visit[i \in Nat] == IF i = 0 THEN f.free_list ELSE NextFree(c)[visit[i - 1]]
  IN [i \in 1 .. n |-> visit[i - 1]]
FreeList == Chain(fmp, cell, fmp.fblkcnt)
FreeBlocks == Range(FreeList)

\* The free list is a chain of as many blocks as fblkcnt says, all different,
\* whatever users have written to their blocks; tasks wait only for an
\* existing pool with no free block, and the wait queue holds exactly those.
MemSound ==
  /\ ObjectTypeOK
  /\ fmp.fblkcnt \in 0 .. fmp.num_blocks
  /\ data_elem \in [Task -> Addr \cup {NULL}]
  /\ Len(FreeList) = Cardinality(FreeBlocks)
  /\ FreeBlocks \subseteq Blocks(fmp)
  /\ id => Chain(fmp, cell, fmp.fblkcnt + 1)[fmp.fblkcnt + 1] = NULL
  /\ WaitListSound(wait_queue, "WFIXMEM")
  /\ Waiters("WFIXMEM") # {} => id /\ fmp.fblkcnt = 0

\* Every block lies in the memory the application gave, is aligned, and is
\* large enough not to overlap the next.
BlocksFit ==
  id => \A b \in Blocks(fmp) :
          /\ b % TN_ALIG = 0
          /\ b >= memory.start_addr
          /\ b + memory.block_size <= memory.start_addr + memory.block_size * memory.num_blocks
          /\ \A c \in Blocks(fmp) \ {b} : b < c => b + memory.block_size <= c

\* The code keeps what a pool promises.
Promise == INSTANCE Pool WITH
  Client <- AppTask, None <- NULL,
  Pools <- {Blocks(NewPool(m)) : m \in {n \in Memory : ~Refused(n)}},
  exists <- id, blocks <- Blocks(fmp), free <- FreeBlocks,
  waiting <- Order(wait_queue, "WFIXMEM"), handed <- Handed
ImplementsPool == Promise!Spec
=============================================================================
