------------------------------- MODULE TNMutex -------------------------------
(***************************************************************************)
(* Mutexes with priority inheritance and with priority ceilings            *)
(* (tn_mutex.c, and what tn_tasks.c does for them in set_current_priority, *)
(* task_wait_complete, tn_task_exit and tn_task_terminate).                *)
(*                                                                         *)
(* The record mx holds the mutexes and the lists the tasks have for them;  *)
(* the internal functions are operators on P = [s, m, need]: kernel data,  *)
(* mutex data, and whether one of them asked for a context switch.  The    *)
(* head of a mutex's wait queue in k.q is the mutex.                       *)
(***************************************************************************)
EXTENDS TNTasks

CONSTANTS
  Mutex,
  Protocols,              \* the [attr, ceil] mutexes are created with
  tn_locked_mutexes_list, \* list heads
  tn_blocked_tasks_list

ASSUME MutexAssumption ==
  /\ Mutex = WaitQueue
  /\ Protocols \subseteq [attr : {"INHERIT", "CEILING"}, ceil : 1 .. TN_NUM_PRIORITY - 2]
  /\ tn_locked_mutexes_list \notin Mutex /\ tn_blocked_tasks_list \notin Task

VARIABLES
  mx,       \* mutex data, and whether the head of tn_blocked_tasks_list has
            \* been taken for a task (stray)
  deleting  \* where each task is in tn_mutex_delete

all == <<vars, mx, deleting>>

Outside == [at |-> "out", mutex |-> NULL, locked |-> FALSE]

MxInit ==
  /\ Init
  /\ \E proto \in [Mutex -> Protocols] :
       mx = [id |-> [m \in Mutex |-> TRUE], proto |-> proto,
             holder |-> [m \in Mutex |-> NULL],
             mutex_queue |-> AllReset(Task \cup Mutex),
             lock_mutex_queue |-> AllReset(Mutex \cup {tn_locked_mutexes_list}),
             block_queue |-> AllReset(Task \cup {tn_blocked_tasks_list}),
             pwait_queue |-> [t \in Task |-> NULL],
             blk_task |-> [t \in Task |-> NULL], stray |-> FALSE]
  /\ deleting = [t \in Task |-> Outside]

State == [s |-> k, m |-> mx, need |-> FALSE]
Ceiling(P, m) == P.m.proto[m].attr = "CEILING"
ForMutex(reason) == reason \in {"MUTEX_I", "MUTEX_C", "MUTEX_C_BLK"}
Locks(P, t) == Entries(P.m.mutex_queue, t)
LockedMutexes(P) == Range(Entries(P.m.lock_mutex_queue, tn_locked_mutexes_list))
Blocked(P) == Entries(P.m.block_queue, tn_blocked_tasks_list)

-----------------------------------------------------------------------------
\* Priorities

find_max_blocked_priority(P, m, ref) ==
  Min({ref} \cup {P.s.priority[t] : t \in Range(Entries(P.s.q, m))})

\* The task set_current_priority goes on to from a task that waits.
BlockerOf(P, t) ==
  IF P.s.task_wait_reason[t] = "MUTEX_C_BLK" THEN P.m.blk_task[t]
  ELSE P.m.holder[P.m.pwait_queue[t]]

\* Follows a chain of tasks that wait for mutexes to the first task that does
\* not; if that one is not runnable, the priority of the task the chain
\* began with is set.
set_current_priority(P, task, priority) ==
  LET walk[i \in Nat] ==
        IF i = 0 THEN [task |-> task, new |-> priority]
        ELSE LET w == walk[i - 1]
                 next == BlockerOf(P, w.task)
             IN [task |-> next,
                 new |-> IF P.s.priority[w.task] >= w.new THEN w.new
                         ELSE find_max_blocked_priority(P, P.m.pwait_queue[w.task],
                                                        BasePriority[next])]
      passes(w) == /\ P.s.priority[w.task] # w.new
                   /\ Waiting(P.s, w.task) /\ ForMutex(P.s.task_wait_reason[w.task])
      turns == CHOOSE n \in 0 .. Cardinality(Task) :
                 ~passes(walk[n]) /\ \A i \in 0 .. n - 1 : passes(walk[i])
      last == walk[turns]
      s1 == IF P.s.priority[last.task] = last.new THEN P.s
            ELSE IF P.s.task_state[last.task] = "RUNNABLE"
            THEN change_running_task_priority(P.s, last.task, last.new)
            ELSE [P.s EXCEPT !.priority[task] = last.new]
  IN [P EXCEPT !.s = s1,
               !.need = @ \/ s1.tn_next_task_to_run # P.s.tn_next_task_to_run]

\* The task stops waiting for its mutex.
Released(P, t) ==
  [P EXCEPT !.s = task_wait_complete(@, t), !.m.pwait_queue[t] = NULL,
            !.need = @ \/ ~Suspended(P.s, t)]
\* task_wait_complete for a task that waits for a mutex: the holder gets a new
\* priority if it may have its present one from the task.  (The reason to
\* wait is reset before it is compared with MUTEX_C_BLK.)
mutex_wait_complete(P, t) ==
  LET m  == P.m.pwait_queue[t]
      h  == P.m.holder[m]
      P1 == Released(P, t)
  IN IF h # NULL /\ P1.s.priority[h] \in {P1.s.priority[t]} \ {BasePriority[h]}
     THEN set_current_priority(P1, h, find_max_blocked_priority(P1, m, BasePriority[h]))
     ELSE P1

-----------------------------------------------------------------------------
\* Locking

\* The locked mutexes whose ceiling forbids t to lock another one.
Forbidding(P, t) ==
  {m \in LockedMutexes(P) : /\ Ceiling(P, m) /\ P.m.holder[m] # t
                            /\ P.m.proto[m].ceil < P.s.priority[t]}
enable_lock_mutex(P, t) == Forbidding(P, t) = {}
\* *blk_task: the holder of the first of them with the lowest ceiling.
blk_task(P, t) ==
  LET forbidding == SelectSeq(Entries(P.m.lock_mutex_queue, tn_locked_mutexes_list),
                              LAMBDA m : m \in Forbidding(P, t))
      lowest == Max({P.m.proto[m].ceil : m \in Range(forbidding)})
  IN P.m.holder[SelectSeq(forbidding, LAMBDA m : P.m.proto[m].ceil = lowest)[1]]

\* t becomes the holder of m.
TakeMutex(P, t, m) ==
  LET mx1 == [P.m EXCEPT !.holder[m] = t,
                         !.mutex_queue = queue_add_tail(@, t, m)]
  IN [P EXCEPT !.m = IF ~Ceiling(P, m) THEN mx1
                     ELSE [mx1 EXCEPT !.blk_task[t] = NULL,
                             !.lock_mutex_queue =
                                queue_add_tail(@, tn_locked_mutexes_list, m)]]

\* Leaves the task on the list.
Bug_Unblock(P, t) == P
\* remove_task_from_blocked_list
Unblock(P, t) ==
  IF t \in Range(Blocked(P))
  THEN [P EXCEPT !.m.block_queue = queue_remove_entry(@, t)] ELSE P
\* A task that waits is blocked by b as well.
Block(P, t, b) ==
  [P EXCEPT !.m.block_queue = queue_add_tail(@, tn_blocked_tasks_list, t),
            !.m.blk_task[t] = b]

\* A waiter gets the mutex.
GiveMutex(P, t, m) ==
  LET P1 == [Unblock(P, t) EXCEPT !.s.q = queue_remove_entry(@, t)]
  IN TakeMutex(mutex_wait_complete(P1, t), t, m)

\* For a task on the blocked list.
Bug_try_lock_mutex(P, t) == P
try_lock_mutex(P, t) ==
  LET m == P.m.pwait_queue[t]
  IN IF P.m.holder[m] = NULL /\ enable_lock_mutex(P, t) THEN GiveMutex(P, t, m) ELSE P

\* The first of the waiters with the highest priority gets the mutex, or is
\* blocked by another mutex.
OfferCeiling(P, m) ==
  LET waiters == Entries(P.s.q, m)
      highest == Min({P.s.priority[t] : t \in Range(waiters)})
      t == SelectSeq(waiters, LAMBDA w : P.s.priority[w] = highest)[1]
  IN IF enable_lock_mutex(P, t) THEN GiveMutex(P, t, m)
     ELSE IF t \in Range(Blocked(P)) THEN P
     ELSE [Block(P, t, blk_task(P, t)) EXCEPT !.s.task_wait_reason[t] = "MUTEX_C_BLK"]

\* Drops the result of try_lock_mutex.
Bug_RetryAll(P) == [FoldLeft(try_lock_mutex, P, Blocked(P)) EXCEPT !.need = P.need]
RetryAll(P) ==
  FoldLeft(LAMBDA R, t : IF t = tn_curr_run_task THEN R ELSE try_lock_mutex(R, t),
           P, Blocked(P))
\* Another mutex may now be locked for a task on the blocked list.  When that
\* list is empty its head is passed to try_lock_mutex as if it lay in a task:
\* what is then read and written depends on what lies around it in memory, and
\* the model follows no behaviour beyond this point (MxNext).
RetryBlocked(P) ==
  IF Blocked(P) = <<>> THEN [P EXCEPT !.m.stray = TRUE] ELSE RetryAll(P)

\* Takes the task that has waited least.
Bug_NextHolder(P, m) == P.s.q.prev[m]
NextHolder(P, m) == P.s.q.next[m]

\* Keeps the priority that was inherited.
Bug_DropPriority(P) == P
\* The running task is left with what it inherits through its other mutexes.
DropPriority(P) ==
  LET u == tn_curr_run_task
  IN set_current_priority(P, u,
       FoldLeft(LAMBDA pr, m : find_max_blocked_priority(P, m, pr),
                BasePriority[u], Locks(P, u)))

\* Also called for the mutexes of a task that another one terminates.
do_unlock_mutex(P, m) ==
  LET P1 == DropPriority([P EXCEPT !.m.mutex_queue = queue_remove_entry(@, m),
                                   !.m.lock_mutex_queue = queue_remove_entry(@, m)])
  IN IF is_queue_empty(P1.s.q, m)
     THEN LET P2 == [P1 EXCEPT !.m.holder[m] = NULL]
          IN IF Ceiling(P, m) THEN RetryBlocked(P2) ELSE P2
     ELSE IF Ceiling(P, m) THEN OfferCeiling(P1, m)
     ELSE GiveMutex(P1, NextHolder(P1, m), m)

\* The loop of tn_task_exit and tn_task_terminate; each mutex is also taken
\* off the list before it is unlocked, which changes nothing.
UnlockAll(P, t) == FoldLeft(do_unlock_mutex, P, Locks(P, t))

-----------------------------------------------------------------------------
\* The calls

Idle == Caller /\ deleting[tn_curr_run_task] = Outside

tn_mutex_create(m, proto) ==
  /\ Idle /\ ~mx.id[m]
  /\ k' = [k EXCEPT !.q = queue_reset(@, m)]
  /\ mx' = [mx EXCEPT !.id[m] = TRUE, !.proto[m] = proto, !.holder[m] = NULL,
                      !.mutex_queue = queue_reset(@, m),
                      !.lock_mutex_queue = queue_reset(@, m)]
  /\ Returns /\ UNCHANGED <<task_stk, deleting>>

\* The calls refuse the holder, and a task above the ceiling.
MayLock(m) ==
  /\ Idle /\ mx.id[m] /\ mx.holder[m] # tn_curr_run_task
  /\ Ceiling(State, m) => BasePriority[tn_curr_run_task] >= mx.proto[m].ceil
LockFree(m) ==
  /\ mx.holder[m] = NULL
  /\ Ceiling(State, m) => enable_lock_mutex(State, tn_curr_run_task)
  /\ mx' = TakeMutex(State, tn_curr_run_task, m).m
  /\ Returns /\ UNCHANGED k

\* Leaves the priority of the blocker alone.
Bug_Raise(P, b) == P
\* The task that blocks the running task inherits its priority.
Raise(P, b) ==
  LET pri == P.s.priority[tn_curr_run_task]
  IN IF pri < P.s.priority[b] THEN set_current_priority(P, b, pri) ELSE P

WaitForMutex(P, m, reason, timeout) ==
  /\ k' = task_curr_to_wait_action(P.s, tn_curr_run_task, m, reason, timeout)
  /\ mx' = [P.m EXCEPT !.pwait_queue[tn_curr_run_task] = m]
  /\ Switches

tn_mutex_lock(m, timeout) ==
  /\ MayLock(m)
  /\ \/ LockFree(m)
     \/ /\ mx.holder[m] # NULL
        /\ WaitForMutex(Raise(State, mx.holder[m]), m,
                        IF Ceiling(State, m) THEN "MUTEX_C" ELSE "MUTEX_I", timeout)
     \/ /\ mx.holder[m] = NULL /\ Ceiling(State, m)
        /\ ~enable_lock_mutex(State, tn_curr_run_task)
        /\ LET blocker == blk_task(State, tn_curr_run_task)
           IN WaitForMutex(Block(Raise(State, blocker), tn_curr_run_task, blocker), m,
                           "MUTEX_C_BLK", timeout)
  /\ UNCHANGED <<task_stk, deleting>>

tn_mutex_lock_polling(m) ==
  MayLock(m) /\ LockFree(m) /\ UNCHANGED <<task_stk, deleting>>

tn_mutex_unlock(m) ==
  /\ Idle /\ mx.id[m] /\ mx.holder[m] = tn_curr_run_task
  /\ LET P == do_unlock_mutex(State, m)
     IN k' = P.s /\ mx' = P.m /\ IF P.need THEN Switches ELSE Returns
  /\ UNCHANGED <<task_stk, deleting>>

\* The lists a task has for its mutexes, when it becomes dormant.
ForgetMutexes(m, t) ==
  [m EXCEPT !.mutex_queue = queue_reset(@, t), !.block_queue = queue_reset(@, t),
            !.pwait_queue[t] = NULL, !.blk_task[t] = NULL]
\* From task_set_dormant_state to the end of tn_task_exit and tn_task_terminate.
EndTask(P, t) ==
  /\ k' = Reactivate(task_set_dormant_state(P.s, t), t)
  /\ mx' = ForgetMutexes(P.m, t)
  /\ task_stk' = [task_stk EXCEPT ![t] = "entry"]

\* tn_task_exit, without the deletion of the task.
Exit ==
  /\ Idle
  /\ LET P == UnlockAll(State, tn_curr_run_task)
     IN EndTask([P EXCEPT !.s = task_to_non_runnable(@, tn_curr_run_task)],
                tn_curr_run_task)
  /\ pc' = "exit"
  /\ UNCHANGED <<tn_curr_run_task, interrupts, deleting>>

\* tn_task_terminate for a task that does not sleep.
Terminate(t) ==
  /\ Idle /\ t \in k.created
  /\ k.task_state[t] # "DORMANT" /\ t # tn_curr_run_task
  /\ LET P == IF Waiting(k, t) THEN Unblock(State, t) ELSE State
     IN EndTask(UnlockAll([P EXCEPT !.s = Detach(@, t)], t), t)
  /\ IF k.activate_count[t] > 0 THEN Switches ELSE Returns
  /\ deleting' = [deleting EXCEPT ![t] = Outside]

-----------------------------------------------------------------------------
\* tn_mutex_delete, interrupted like the other delete functions (TNObjects)

Locked == deleting[tn_curr_run_task].locked
DeletingAt(point) ==
  /\ tn_int_counter = 0 /\ pc = "user"
  /\ deleting[tn_curr_run_task].at = point
ThisMutex == deleting[tn_curr_run_task].mutex

DeleteBegin(m) ==
  /\ Idle /\ mx.id[m]
  /\ deleting' = [deleting EXCEPT ![tn_curr_run_task] =
                    [at |-> "test", mutex |-> m, locked |-> FALSE]]
  /\ Returns /\ UNCHANGED <<k, task_stk, mx>>

DeleteTest ==
  /\ DeletingAt("test")
  /\ deleting' = [deleting EXCEPT ![tn_curr_run_task].at =
                    IF is_queue_empty(k.q, ThisMutex) THEN "end" ELSE "remove"]
  /\ UNCHANGED <<vars, mx>>

\* The body of the loop; it does nothing if the queue has become empty.
DeleteRemove ==
  /\ DeletingAt("remove")
  /\ LET t == k.q.next[ThisMutex]
         P == IF is_queue_empty(k.q, ThisMutex) THEN State
              ELSE mutex_wait_complete(
                     [Unblock(State, t) EXCEPT !.s.q = queue_remove_head(@, ThisMutex)], t)
     IN /\ deleting' = [deleting EXCEPT ![tn_curr_run_task].at = "test",
                                        ![tn_curr_run_task].locked = ~P.need]
        /\ IF P.need THEN k' = [P.s EXCEPT !.task_wait_rc[t] = "TERR_DLT"] /\ Switches
                     ELSE k' = P.s /\ Returns
        /\ mx' = P.m
  /\ UNCHANGED task_stk

DeleteEnd ==
  /\ DeletingAt("end")
  /\ mx' = LET mx1 == [mx EXCEPT !.id[ThisMutex] = FALSE]
           IN IF mx.holder[ThisMutex] = NULL THEN mx1
              ELSE [mx1 EXCEPT !.mutex_queue = queue_remove_entry(@, ThisMutex),
                               !.lock_mutex_queue = queue_remove_entry(@, ThisMutex)]
  /\ deleting' = [deleting EXCEPT ![tn_curr_run_task] = Outside]
  /\ Returns /\ UNCHANGED <<k, task_stk>>

-----------------------------------------------------------------------------
\* The steps of TNTasks that do not concern mutexes

TaskCall ==
  Idle /\ \E t \in AppTask : tn_task_suspend(t) \/ tn_task_resume(t)
Handler == \E t \in AppTask : tn_task_iactivate(t)
Start == \/ \E t \in AppTask : pc = "init" /\ tn_task_create(t, FALSE)
         \/ tn_cpu_int_enable
         \/ tn_curr_run_task = tn_timer_task /\ tn_task_sleep(TN_WAIT_INFINITE)
Elsewhere == \/ Start \/ IrqExit \/ ContextSwitch \/ Handler
             \/ ~Locked /\ IrqEnter

\* No task or handler comes between the steps of tn_mutex_delete.
Undisturbed == \A t \in AppTask \ {tn_curr_run_task} :
                 k.priority[tn_curr_run_task] < k.priority[t] /\ ~Suspended(k, t)
NobodyDeletes == \A t \in AppTask : deleting[t] = Outside

WaitersOf(m) == {t \in Task : Waiting(k, t) /\ mx.pwait_queue[t] = m}
Held(t) == {m \in Mutex : mx.id[m] /\ mx.holder[m] = t}
Lock(m)   == tn_mutex_lock(m, TN_WAIT_INFINITE) \/ tn_mutex_lock_polling(m)
Unlock(m) == tn_mutex_unlock(m)
Create(m) == \E proto \in Protocols : tn_mutex_create(m, proto)
Delete(m) == /\ Undisturbed /\ (Ceiling(State, m) => mx.holder[m] = NULL)
             /\ DeleteBegin(m)
Others == \/ Exit \/ DeleteTest \/ DeleteRemove \/ DeleteEnd
          \/ Elsewhere /\ UNCHANGED <<mx, deleting>>
\* No other task waits for t, nor t for a mutex, nor is one of its mutexes one
\* that keeps others from locking.
Uncontended(t) == /\ mx.pwait_queue[t] = NULL
                  /\ \A m \in Held(t) : WaitersOf(m) = {} /\ ~Ceiling(State, m)
\* An application that waits without a timeout, deletes a mutex only when it
\* is undisturbed, one with a ceiling only when it is free, terminates a task
\* only when no wait for a mutex is involved, and unlocks a mutex with a
\* ceiling only while a task waits for it or a task is blocked.  MayWait says
\* which tasks may lock which mutex; unless Every holds, there are no other
\* calls but deletions of mutexes that are waited for.
MxNext(MayWait(_), Every) ==
  /\ \/ \E m \in Mutex : \/ (MayWait(m) /\ Lock(m))
                        \/ Unlock(m)
                        \/ (Every /\ Create(m))
                        \/ ((Every \/ WaitersOf(m) # {}) /\ Delete(m))
     \/ (Every /\ \E t \in AppTask : Uncontended(t) /\ Terminate(t))
     \/ (Every /\ TaskCall /\ UNCHANGED <<mx, deleting>>)
     \/ Others
  /\ ~mx'.stray

-----------------------------------------------------------------------------
\* Properties

\* The wait queue of each mutex holds exactly the tasks that wait for it, the
\* list of each task exactly the mutexes it holds, the list of locked mutexes
\* those with a ceiling, and the list of blocked tasks the tasks with that
\* reason to wait.
MxSound ==
  /\ TypeOK
  /\ mx.pwait_queue \in [Task -> Mutex \cup {NULL}]
  /\ \A m \in Mutex :
       /\ \E s \in SetToSeqs(WaitersOf(m)) : IsRing(k.q, m, s)
       /\ WaitersOf(m) # {} => mx.id[m]
  /\ \A t \in Task : /\ Waiting(k, t) /\ ForMutex(k.task_wait_reason[t]) <=> mx.pwait_queue[t] # NULL
                     /\ \E s \in SetToSeqs(Held(t)) : IsRing(mx.mutex_queue, t, s)
  /\ LockedMutexes(State) = {m \in Mutex : mx.id[m] /\ mx.holder[m] # NULL /\ Ceiling(State, m)}
  /\ Range(Blocked(State)) = {t \in Task : k.task_wait_reason[t] = "MUTEX_C_BLK"}

\* Nobody waits for a mutex that could be locked: when a mutex is on the list
\* of no task, those that wait for it are blocked by a ceiling.  An unlock, an
\* exit or a deletion leaves no waiter behind ("try to lock another mutexes for
\* tasks,that are now in block_queue", tn_mutex.c:467).
Unlocked(m) == \A t \in Task : m \notin Range(Locks(State, t))
NoMissedLock ==
  \A m \in Mutex, t \in Task : t \in WaitersOf(m) /\ Unlocked(m) =>
     Ceiling(State, m) /\ ~enable_lock_mutex(State, t)

\* A priority that was inherited is given back: a task that neither holds a
\* mutex nor waits for one has its own.
BoostEnds ==
  \A t \in AppTask : Held(t) = {} /\ mx.pwait_queue[t] = NULL =>
     k.priority[t] = BasePriority[t]

\* A task that begins to wait for a mutex with inheritance raises the task
\* that has to unlock first: the holder, or the one the holder waits for.
\* What a task inherits lasts: its priority falls only when it gives up a
\* mutex or a task that waited for one of its mutexes waits no longer.
MustUnlock(t) == IF mx.pwait_queue[t] = NULL THEN t ELSE mx.holder[mx.pwait_queue[t]]
InheritanceLasts ==
  [][/\ \A m \in Mutex, w \in Task :
          ~Ceiling(State, m) /\ mx.pwait_queue[w] # m /\ mx'.pwait_queue[w] = m =>
             k'.priority[MustUnlock(mx.holder[m])] <= k.priority[w]
     /\ \A t \in AppTask : k'.priority[t] > k.priority[t] =>
          \E m \in Held(t) : \/ mx'.holder[m] # t
                             \/ \E w \in WaitersOf(m) : mx'.pwait_queue[w] # m]_all

\* The mutexes with inheritance keep what a mutex promises.
Inherits(m) == mx.id[m] /\ ~Ceiling(State, m)
Promise == INSTANCE Lock WITH
  Client <- AppTask, None <- NULL,
  exists <- {m \in Mutex : Inherits(m)},
  closing <- {deleting[t].mutex : t \in Task} \cap {m \in Mutex : Inherits(m)},
  owner <- [m \in Mutex |-> IF Inherits(m) THEN mx.holder[m] ELSE NULL],
  waiting <- [m \in Mutex |-> IF Ceiling(State, m) THEN <<>>
                ELSE CHOOSE s \in SetToSeqs(WaitersOf(m)) : IsRing(k.q, m, s)]
ImplementsLock == Promise!Spec
=============================================================================
