------------------------------- MODULE TNTasks -------------------------------
(***************************************************************************)
(* The task scheduler of TNKernel (tn_tasks.c, tn.c, the context switches  *)
(* of tn_port_asm) on one CPU with interrupts.                             *)
(*                                                                         *)
(* The record k holds what the kernel functions read and write with        *)
(* interrupts disabled; its fields carry the names of the C variables, and *)
(* k.q is the heap of the task_queue links and of the list heads.  The     *)
(* internal functions are operators from a k to the next k, so an API call *)
(* is one step from tn_disable_interrupt to tn_enable_interrupt.  What is  *)
(* not protected by that pair is a step of its own: the context switch at  *)
(* the end of a call, which an interrupt can precede, and every call an    *)
(* interrupt handler makes before it returns.                              *)
(***************************************************************************)
EXTENDS Integers, CDLL

CONSTANTS
  AppTask,          \* the tasks the application creates
  tn_timer_task,    \* the system task of priority 0
  tn_idle_task,     \* the system task of the lowest priority
  TN_NUM_PRIORITY,  \* number of priorities, 0 is the highest
  BasePriority,     \* the priority each task is created with
  WaitQueue,        \* heads of the wait queues of kernel objects
  Timeouts,         \* the finite timeouts, in ticks, of tn_task_sleep
  TSliceArgs,       \* the values given to tn_sys_tslice_ticks
  NULL

Task == AppTask \cup {tn_timer_task, tn_idle_task}
Priority == 0 .. TN_NUM_PRIORITY - 1
\* tn_ready_list[p] is the node p of the heap of links.
Node == Task \cup Priority \cup WaitQueue

ASSUME TaskAssumption ==
  /\ tn_timer_task # tn_idle_task
  /\ AppTask \cap {tn_timer_task, tn_idle_task} = {}
  /\ Task \cap (Priority \cup WaitQueue) = {}
  /\ Priority \cap WaitQueue = {}
  /\ NULL \notin Node
ASSUME FiniteAssumption == IsFiniteSet(AppTask)
ASSUME PriorityAssumption ==
  /\ TN_NUM_PRIORITY \in Nat \ {0, 1}
  /\ BasePriority \in [Task -> Priority]
  /\ BasePriority[tn_timer_task] = 0
  /\ BasePriority[tn_idle_task] = TN_NUM_PRIORITY - 1
  /\ \A t \in AppTask : BasePriority[t] \in 1 .. TN_NUM_PRIORITY - 2
ASSUME ArgumentAssumption ==
  /\ Timeouts \subseteq Nat \ {0}
  /\ TSliceArgs \subseteq Nat

\* 0xFFFFFFFF in the signed field tick_count
TN_WAIT_INFINITE == -1
NO_TIME_SLICE == 0

VARIABLES
  k,                         \* kernel data
  tn_curr_run_task,          \* the task whose context the CPU has
  pc,                        \* where that task is (see Place)
  task_stk,                  \* where every other task resumes
  tn_int_counter,            \* 1 while an interrupt handler runs
  tn_context_switch_request, \* asks the interrupt's exit for a switch
  tick_walk                  \* timeout entries the tick has still to visit

vars == <<k, tn_curr_run_task, pc, task_stk, tn_int_counter,
          tn_context_switch_request, tick_walk>>

\* "init"   the timer task in tn_app_init, interrupts not enabled yet
\* "entry"  at the first instruction of the task function
\* "user"   in the task function, outside the kernel
\* "switch" after tn_enable_interrupt, before tn_switch_context
\* "exit"   after tn_enable_interrupt, before tn_switch_context_exit
Place == {"init", "entry", "user", "switch", "exit"}

-----------------------------------------------------------------------------
\* Internal functions

\* The lowest set bit: the highest priority in the bitmap.
Bug_ffs_asm(bmp) == Max(bmp)
ffs_asm(bmp) == Min(bmp)

\* The task of a task_queue entry; a list head taken for an entry yields
\* the head itself, which is no task.
find_next_task_to_run(s) ==
  [s EXCEPT !.tn_next_task_to_run =
              s.q.next[ffs_asm(s.tn_ready_to_run_bmp)]]

task_to_non_runnable(s, t) ==
  LET pri == s.priority[t]
      q1  == queue_remove_entry(s.q, t)
      s1  == [s EXCEPT !.q = q1]
      s2  == [s1 EXCEPT !.tn_ready_to_run_bmp = @ \ {pri}]
  IN IF is_queue_empty(q1, pri)
     THEN IF s2.tn_ready_to_run_bmp = {}
          THEN [s2 EXCEPT !.tn_next_task_to_run = NULL]
          ELSE find_next_task_to_run(s2)
     ELSE IF s1.tn_next_task_to_run = t
          THEN [s1 EXCEPT !.tn_next_task_to_run = q1.next[pri]]
          ELSE s1

task_to_runnable(s, t) ==
  LET pri == s.priority[t]
      nxt == s.tn_next_task_to_run
  IN [s EXCEPT !.task_state[t] = "RUNNABLE",
               !.q = queue_add_tail(s.q, pri, t),
               !.tn_ready_to_run_bmp = @ \cup {pri},
               !.tn_next_task_to_run =
                  IF nxt = NULL THEN t
                  ELSE IF pri < s.priority[nxt] THEN t ELSE nxt]

Suspended(s, t) == s.task_state[t] \in {"SUSPEND", "WAITSUSP"}
Waiting(s, t)   == s.task_state[t] \in {"WAIT", "WAITSUSP"}

\* Forgets to mark the timer as stopped.
Bug_StopTimer(s, t) ==
  IF s.tick_count[t] = TN_WAIT_INFINITE THEN s
  ELSE [s EXCEPT !.tn_wait_timeout_list = RemoveFirst(@, t)]
\* The timer_queue entry is unlinked only when it was linked.
StopTimer(s, t) ==
  IF s.tick_count[t] = TN_WAIT_INFINITE THEN s
  ELSE [s EXCEPT !.tn_wait_timeout_list = RemoveFirst(@, t),
                 !.tick_count[t] = TN_WAIT_INFINITE]

\* Forgets that the task may be suspended as well.
Bug_task_wait_complete(s, t) ==
  task_to_runnable([StopTimer(s, t) EXCEPT !.task_wait_reason[t] = "none",
                                           !.task_wait_rc[t] = "TERR_NO_ERR"], t)
\* The C function returns TRUE exactly when the task was not suspended.
task_wait_complete(s, t) ==
  LET s1 == [StopTimer(s, t) EXCEPT !.task_wait_reason[t] = "none",
                                    !.task_wait_rc[t] = "TERR_NO_ERR"]
  IN IF Suspended(s, t) THEN [s1 EXCEPT !.task_state[t] = "SUSPEND"]
                        ELSE task_to_runnable(s1, t)

\* t is tn_curr_run_task; que is a wait queue, or NULL for a sleep.
task_curr_to_wait_action(s, t, que, reason, timeout) ==
  LET s1 == task_to_non_runnable(s, t)
      s2 == [s1 EXCEPT !.task_state[t] = "WAIT",
                       !.task_wait_reason[t] = reason,
                       !.tick_count[t] = timeout]
      s3 == IF que = NULL THEN s2
            ELSE [s2 EXCEPT !.q = queue_add_tail(@, que, t)]
  IN IF timeout = TN_WAIT_INFINITE THEN s3
     ELSE [s3 EXCEPT !.tn_wait_timeout_list = Append(@, t)]

change_running_task_priority(s, t, new) ==
  LET old == s.priority[t]
      q1  == queue_remove_entry(s.q, t)
      bmp == IF is_queue_empty(q1, old) THEN s.tn_ready_to_run_bmp \ {old}
                                        ELSE s.tn_ready_to_run_bmp
      s1  == [s EXCEPT !.q = queue_add_tail(q1, new, t),
                       !.priority[t] = new,
                       !.tn_ready_to_run_bmp = bmp \cup {new}]
      nxt == s.tn_next_task_to_run
  IN IF nxt = t THEN IF new >= old THEN find_next_task_to_run(s1) ELSE s1
     ELSE IF new < s1.priority[nxt]
          THEN [s1 EXCEPT !.tn_next_task_to_run = t] ELSE s1

task_set_dormant_state(s, t) ==
  [s EXCEPT !.q = queue_reset(@, t),
            !.priority[t] = BasePriority[t],
            !.task_state[t] = "DORMANT",
            !.task_wait_reason[t] = "none",
            !.task_wait_rc[t] = "TERR_NO_ERR",
            !.tick_count[t] = TN_WAIT_INFINITE,
            !.wakeup_count[t] = 0,
            !.tslice_count[t] = 0]

-----------------------------------------------------------------------------
\* API calls of the running task

\* An application task outside the kernel, free to make its next call.
Caller ==
  /\ tn_int_counter = 0 /\ pc \in {"entry", "user"}
  /\ tn_curr_run_task \in AppTask

interrupts == <<tn_int_counter, tn_context_switch_request, tick_walk>>

\* The call returns to the task without reaching tn_switch_context.
Returns == /\ pc' = IF pc = "init" THEN "init" ELSE "user"
           /\ UNCHANGED <<tn_curr_run_task, interrupts>>
\* The call goes on to tn_switch_context.  Where the code first tests
\* tn_next_task_to_run != tn_curr_run_task and the test fails, a switch from
\* the caller to itself stands for the skipped one.
Switches == pc' = "switch" /\ UNCHANGED <<tn_curr_run_task, interrupts>>

\* Also called by the timer task, in tn_app_init.
tn_task_create(t, start) ==
  /\ Caller \/ pc = "init"
  /\ t \notin k.created
  /\ LET s == task_set_dormant_state([k EXCEPT !.created = @ \cup {t},
                                               !.activate_count[t] = 0], t)
     IN k' = IF start THEN task_to_runnable(s, t) ELSE s
  /\ task_stk' = [task_stk EXCEPT ![t] = "entry"]
  /\ Returns

tn_task_suspend(t) ==
  /\ Caller /\ t \in k.created
  /\ \/ /\ k.task_state[t] = "RUNNABLE"
        /\ k' = task_to_non_runnable([k EXCEPT !.task_state[t] = "SUSPEND"], t)
        /\ Switches
     \/ /\ k.task_state[t] = "WAIT"
        /\ k' = [k EXCEPT !.task_state[t] = "WAITSUSP"]
        /\ Returns
  /\ UNCHANGED task_stk

tn_task_resume(t) ==
  /\ Caller /\ t \in k.created
  /\ \/ k.task_state[t] = "SUSPEND" /\ k' = task_to_runnable(k, t) /\ Switches
     \/ /\ k.task_state[t] = "WAITSUSP"
        /\ k' = [k EXCEPT !.task_state[t] = "WAIT"]
        /\ Returns
  /\ UNCHANGED task_stk

\* The timer task's only call.
tn_task_sleep(timeout) ==
  /\ \/ Caller
     \/ /\ tn_int_counter = 0 /\ pc = "user"
        /\ tn_curr_run_task = tn_timer_task /\ timeout = TN_WAIT_INFINITE
  /\ IF k.wakeup_count[tn_curr_run_task] > 0
     THEN k' = [k EXCEPT !.wakeup_count[tn_curr_run_task] = @ - 1] /\ Returns
     ELSE /\ k' = task_curr_to_wait_action(k, tn_curr_run_task, NULL, "SLEEP",
                                           timeout)
          /\ Switches
  /\ UNCHANGED task_stk

Sleeping(t) == Waiting(k, t) /\ k.task_wait_reason[t] = "SLEEP"

\* A request for a task that is not asleep is counted for the running task.
CountWakeup ==
  /\ k.wakeup_count[tn_curr_run_task] = 0
  /\ k' = [k EXCEPT !.wakeup_count[tn_curr_run_task] = 1]

tn_task_wakeup(t) ==
  /\ Caller /\ t \in k.created
  /\ k.task_state[t] # "DORMANT"
  /\ \/ /\ Sleeping(t)
        /\ k' = task_wait_complete(k, t)
        /\ IF Suspended(k, t) THEN Returns ELSE Switches
     \/ ~Sleeping(t) /\ CountWakeup /\ Returns
  /\ UNCHANGED task_stk

\* Counts without a limit.
Bug_CountActivation(t) == k' = [k EXCEPT !.activate_count[t] = @ + 1]
CountActivation(t) ==
  /\ k.activate_count[t] = 0
  /\ k' = [k EXCEPT !.activate_count[t] = 1]

tn_task_activate(t) ==
  /\ Caller /\ t \in k.created
  /\ IF k.task_state[t] = "DORMANT" THEN k' = task_to_runnable(k, t) /\ Switches
                                    ELSE CountActivation(t) /\ Returns
  /\ UNCHANGED task_stk

tn_task_release_wait(t) ==
  /\ Caller /\ t \in k.created
  /\ Waiting(k, t)
  /\ k' = task_wait_complete(k, t)
  /\ IF Suspended(k, t) THEN Returns ELSE Switches
  /\ UNCHANGED task_stk

\* A pending activation makes the dormant task runnable again.
Reactivate(s, t) ==
  IF s.activate_count[t] > 0
  THEN task_to_runnable([s EXCEPT !.activate_count[t] = @ - 1], t)
  ELSE s

tn_task_exit(delete) ==
  /\ Caller
  /\ LET t == tn_curr_run_task
         s == Reactivate(task_set_dormant_state(task_to_non_runnable(k, t), t), t)
     IN /\ k' = IF delete THEN [s EXCEPT !.created = @ \ {t}] ELSE s
        /\ task_stk' = [task_stk EXCEPT ![t] = "entry"]
  /\ pc' = "exit"
  /\ UNCHANGED <<tn_curr_run_task, interrupts>>

\* Leaves a waiting task in its wait queue.
Bug_Detach(s, t) ==
  IF s.task_state[t] = "RUNNABLE" THEN task_to_non_runnable(s, t)
  ELSE IF Waiting(s, t) THEN StopTimer(s, t) ELSE s
\* Takes a task that is not running out of whatever list it is in: a runnable
\* one out of the ready list, a waiting one out of its wait queue (a sleeping
\* one out of the place its links still name) and of the timeout list.
Detach(s, t) ==
  IF s.task_state[t] = "RUNNABLE" THEN task_to_non_runnable(s, t)
  ELSE IF Waiting(s, t)
  THEN StopTimer([s EXCEPT !.q = queue_remove_entry(@, t)], t)
  ELSE s

tn_task_terminate(t) ==
  /\ Caller /\ t \in k.created
  /\ k.task_state[t] # "DORMANT" /\ t # tn_curr_run_task
  /\ k' = Reactivate(task_set_dormant_state(Detach(k, t), t), t)
  /\ task_stk' = [task_stk EXCEPT ![t] = "entry"]
  /\ IF k.activate_count[t] > 0 THEN Switches ELSE Returns

tn_task_delete(t) ==
  /\ Caller /\ t \in k.created
  /\ k.task_state[t] = "DORMANT"
  /\ k' = [k EXCEPT !.created = @ \ {t}]
  /\ Returns /\ UNCHANGED task_stk

\* tn_enable_switch_context is always 1, so the result of
\* change_running_task_priority says that tn_next_task_to_run changed; when
\* it did not, the switch taken here is from the caller to itself.
tn_task_change_priority(t, new_priority) ==
  /\ Caller /\ t \in k.created
  /\ new_priority \in 0 .. TN_NUM_PRIORITY - 2
  /\ LET new == IF new_priority = 0 THEN BasePriority[t] ELSE new_priority
     IN \/ /\ k.task_state[t] = "RUNNABLE"
           /\ k' = change_running_task_priority(k, t, new)
           /\ IF k'.tn_next_task_to_run # k.tn_next_task_to_run
              THEN Switches ELSE Returns
        \/ /\ k.task_state[t] \notin {"RUNNABLE", "DORMANT"}
           /\ k' = [k EXCEPT !.priority[t] = new]
           /\ Returns
  /\ UNCHANGED task_stk

\* Arguments in range only: a refused one leaves interrupts disabled for good.
tn_sys_tslice_ticks(pri, value) ==
  /\ Caller \/ pc = "init"
  /\ pri \in 1 .. TN_NUM_PRIORITY - 2 /\ value \in TSliceArgs
  /\ k' = [k EXCEPT !.tn_tslice_ticks[pri] = value]
  /\ Returns /\ UNCHANGED task_stk

-----------------------------------------------------------------------------
\* Interrupts

\* tn_cpu_irq_isr up to the handler.  Interrupts do not nest.
IrqEnter ==
  /\ tn_int_counter = 0 /\ pc # "init"
  /\ tn_int_counter' = 1
  /\ UNCHANGED <<k, tn_curr_run_task, pc, task_stk,
                 tn_context_switch_request, tick_walk>>

InHandler == tn_int_counter = 1 /\ tick_walk = <<>>

\* Lets a later call of the same handler withdraw the request.
Bug_HandlerCall(request) ==
  /\ tn_context_switch_request' = request
  /\ UNCHANGED <<tn_curr_run_task, pc, task_stk, tn_int_counter>>
\* A handler's call touches kernel data and may request a switch.
HandlerCall(request) ==
  /\ tn_context_switch_request' = (tn_context_switch_request \/ request)
  /\ UNCHANGED <<tn_curr_run_task, pc, task_stk, tn_int_counter>>

\* The handler's return: switches if a call asked for it.
IrqExit ==
  /\ InHandler
  /\ tn_int_counter' = 0
  /\ tn_context_switch_request' = FALSE
  /\ IF tn_context_switch_request
     THEN /\ task_stk' = [task_stk EXCEPT ![tn_curr_run_task] = pc]
          /\ tn_curr_run_task' = k.tn_next_task_to_run
          /\ pc' = task_stk'[k.tn_next_task_to_run]
     ELSE UNCHANGED <<tn_curr_run_task, pc, task_stk>>
  /\ UNCHANGED <<k, tick_walk>>

\* Round robin: moves the tail of the running task's ready list to its head.
RotateReadyList(s, pri) ==
  LET last == s.q.prev[pri]
  IN IF is_queue_empty(s.q, pri) \/ s.q.next[s.q.next[pri]] = pri THEN s
     ELSE [s EXCEPT !.q = queue_add_head(queue_remove_tail(@, pri), pri, last)]

TimeSlice(s, t) ==
  LET pri == s.priority[t]
  IN IF s.tn_tslice_ticks[pri] = NO_TIME_SLICE THEN s
     ELSE IF s.tslice_count[t] + 1 > s.tn_tslice_ticks[pri]
     THEN RotateReadyList([s EXCEPT !.tslice_count[t] = 0], pri)
     ELSE [s EXCEPT !.tslice_count[t] = @ + 1]

\* tn_tick_int_processing up to its loop over the timeout list.
tn_tick_int_processing ==
  /\ InHandler
  /\ k' = TimeSlice(k, tn_curr_run_task)
  /\ tick_walk' = k.tn_wait_timeout_list
  /\ HandlerCall(FALSE)

\* Stops counting one tick too early.
Bug_TickEntry ==
  /\ tick_walk # <<>>
  /\ tick_walk' = Tail(tick_walk)
  /\ IF k.tick_count[Head(tick_walk)] <= 1 THEN UNCHANGED k
     ELSE k' = [k EXCEPT !.tick_count[Head(tick_walk)] = @ - 1]
  /\ HandlerCall(FALSE)
\* One turn of that loop.  task_wait_complete unlinks no entry but the one
\* visited, so the loop visits the entries it found when it began.
TickEntry ==
  /\ tick_walk # <<>>
  /\ tick_walk' = Tail(tick_walk)
  /\ LET t  == Head(tick_walk)
         s1 == [k EXCEPT !.tick_count[t] = @ - 1]
         s2 == task_wait_complete(s1, t)
     IN IF k.tick_count[t] <= 0
        THEN UNCHANGED k /\ HandlerCall(FALSE)
        ELSE IF k.tick_count[t] > 1 THEN k' = s1 /\ HandlerCall(FALSE)
        ELSE IF Suspended(k, t) THEN k' = s2 /\ HandlerCall(FALSE)
        ELSE /\ k' = [s2 EXCEPT !.task_wait_rc[t] = "TERR_TIMEOUT"]
             /\ HandlerCall(TRUE)

tn_task_iwakeup(t) ==
  /\ InHandler /\ t \in k.created
  /\ k.task_state[t] # "DORMANT"
  /\ \/ /\ Sleeping(t)
        /\ k' = task_wait_complete(k, t)
        /\ HandlerCall(~Suspended(k, t))
     \/ ~Sleeping(t) /\ CountWakeup /\ HandlerCall(FALSE)
  /\ UNCHANGED tick_walk

tn_task_iactivate(t) ==
  /\ InHandler /\ t \in k.created
  /\ IF k.task_state[t] = "DORMANT"
     THEN /\ k' = task_to_runnable(k, t)
          /\ HandlerCall(k'.tn_next_task_to_run # tn_curr_run_task)
     ELSE CountActivation(t) /\ HandlerCall(FALSE)
  /\ UNCHANGED tick_walk

tn_task_irelease_wait(t) ==
  /\ InHandler /\ t \in k.created
  /\ Waiting(k, t)
  /\ k' = task_wait_complete(k, t)
  /\ HandlerCall(~Suspended(k, t))
  /\ UNCHANGED tick_walk

-----------------------------------------------------------------------------
\* Context switches outside interrupts

\* tn_switch_context: the task continues in its caller when it runs again.
tn_switch_context ==
  /\ tn_int_counter = 0 /\ pc = "switch"
  /\ task_stk' = [task_stk EXCEPT ![tn_curr_run_task] = "user"]
  /\ tn_curr_run_task' = k.tn_next_task_to_run
  /\ pc' = task_stk'[k.tn_next_task_to_run]
  /\ UNCHANGED <<k, interrupts>>

\* tn_switch_context_exit: the context left is not saved.
tn_switch_context_exit ==
  /\ tn_int_counter = 0 /\ pc = "exit"
  /\ tn_curr_run_task' = k.tn_next_task_to_run
  /\ pc' = task_stk[k.tn_next_task_to_run]
  /\ UNCHANGED <<k, task_stk, interrupts>>

\* tn_app_init has returned: the timer task enables interrupts.
tn_cpu_int_enable ==
  /\ pc = "init"
  /\ pc' = "user"
  /\ UNCHANGED <<k, tn_curr_run_task, task_stk, interrupts>>

-----------------------------------------------------------------------------
\* tn_start_system: both system tasks are runnable, the timer task runs.
Init ==
  /\ k = LET q0 == queue_add_tail(AllReset(Node), TN_NUM_PRIORITY - 1,
                                  tn_idle_task)
             running == {tn_timer_task, tn_idle_task}
         IN [q |-> queue_add_tail(q0, 0, tn_timer_task),
             tn_ready_to_run_bmp |-> {0, TN_NUM_PRIORITY - 1},
             tn_next_task_to_run |-> tn_timer_task,
             tn_wait_timeout_list |-> <<>>,
             tn_tslice_ticks |-> [p \in Priority |-> NO_TIME_SLICE],
             created |-> running,
             task_state |-> [t \in Task |-> IF t \in running
                                            THEN "RUNNABLE" ELSE "DORMANT"],
             priority |-> BasePriority,
             task_wait_reason |-> [t \in Task |-> "none"],
             task_wait_rc |-> [t \in Task |-> "TERR_NO_ERR"],
             tick_count |-> [t \in Task |-> TN_WAIT_INFINITE],
             tslice_count |-> [t \in Task |-> 0],
             wakeup_count |-> [t \in Task |-> 0],
             activate_count |-> [t \in Task |-> 0]]
  /\ tn_curr_run_task = tn_timer_task
  /\ pc = "init"
  /\ task_stk = [t \in Task |-> "entry"]
  /\ tn_int_counter = 0
  /\ tn_context_switch_request = FALSE
  /\ tick_walk = <<>>

Startup ==
  \/ \E t \in AppTask, start \in BOOLEAN : pc = "init" /\ tn_task_create(t, start)
  \/ \E pri \in Priority, v \in TSliceArgs :
        pc = "init" /\ tn_sys_tslice_ticks(pri, v)
  \/ tn_cpu_int_enable

SleepCall == \E timeout \in Timeouts \cup {TN_WAIT_INFINITE} :
                tn_task_sleep(timeout)

Interrupt ==
  \/ IrqEnter \/ IrqExit
  \/ tn_tick_int_processing \/ TickEntry
  \/ \E t \in AppTask : \/ tn_task_iwakeup(t) \/ tn_task_iactivate(t)
                        \/ tn_task_irelease_wait(t)

ContextSwitch == tn_switch_context \/ tn_switch_context_exit

\* Every call an application can make.
Call ==
  \/ \E t \in AppTask : \/ \E start \in BOOLEAN : Caller /\ tn_task_create(t, start)
                        \/ tn_task_suspend(t) \/ tn_task_resume(t)
                        \/ tn_task_wakeup(t) \/ tn_task_activate(t)
                        \/ tn_task_release_wait(t)
                        \/ tn_task_terminate(t) \/ tn_task_delete(t)
                        \/ \E p \in Priority : tn_task_change_priority(t, p)
  \/ \E delete \in BOOLEAN : tn_task_exit(delete)
  \/ \E pri \in Priority, v \in TSliceArgs : Caller /\ tn_sys_tslice_ticks(pri, v)
  \/ SleepCall

Next == Startup \/ Call \/ Interrupt \/ ContextSwitch
Spec == Init /\ [][Next]_vars

\* The calls of an application that keeps four rules: it terminates no task
\* that is asleep, it deletes no task that exits with an activation pending,
\* a task created after the start-up is activated by a call of its own, and
\* where time slices are in use no priority changes.
DisciplinedCall ==
  \/ \E t \in AppTask : \/ Caller /\ tn_task_create(t, FALSE)
                        \/ tn_task_suspend(t) \/ tn_task_resume(t)
                        \/ tn_task_wakeup(t) \/ tn_task_activate(t)
                        \/ tn_task_release_wait(t)
                        \/ ~Sleeping(t) /\ tn_task_terminate(t)
                        \/ tn_task_delete(t)
                        \/ \E p \in Priority : /\ TSliceArgs \subseteq {NO_TIME_SLICE}
                                                /\ tn_task_change_priority(t, p)
  \/ \E delete \in BOOLEAN :
        /\ delete => k.activate_count[tn_curr_run_task] = 0
        /\ tn_task_exit(delete)
  \/ \E pri \in Priority, v \in TSliceArgs : Caller /\ tn_sys_tslice_ticks(pri, v)
  \/ SleepCall

DisciplinedNext == Startup \/ DisciplinedCall \/ Interrupt \/ ContextSwitch
DisciplinedSpec == Init /\ [][DisciplinedNext]_vars

-----------------------------------------------------------------------------
\* Properties

\* What a task waits for: time, or an object of one of these kinds.
WaitReason == {"SLEEP", "SEM", "EVENT", "DQUE_WSEND", "DQUE_WRECEIVE", "WFIXMEM",
               "MUTEX_I", "MUTEX_C", "MUTEX_C_BLK"}
KernelState ==
  [q : [next : [Node -> Node], prev : [Node -> Node]],
   tn_ready_to_run_bmp : SUBSET Priority,
   tn_next_task_to_run : Node \cup {NULL},
   tn_wait_timeout_list : Seq(Task),
   tn_tslice_ticks : [Priority -> Nat],
   created : SUBSET Task,
   task_state : [Task -> {"RUNNABLE", "WAIT", "SUSPEND", "WAITSUSP", "DORMANT"}],
   priority : [Task -> Priority],
   task_wait_reason : [Task -> {"none"} \cup WaitReason],
   task_wait_rc : [Task -> {"TERR_NO_ERR", "TERR_TIMEOUT", "TERR_DLT"}],
   tick_count : [Task -> Nat \cup {TN_WAIT_INFINITE}],
   tslice_count : [Task -> Nat],
   wakeup_count : [Task -> 0..1],
   activate_count : [Task -> 0..1]]

TypeOK ==
  /\ k \in KernelState
  /\ k.tn_next_task_to_run \in Task
  /\ tn_curr_run_task \in Task
  /\ pc \in Place
  /\ task_stk \in [Task -> Place]
  /\ tn_int_counter \in 0..1
  /\ tn_context_switch_request \in BOOLEAN
  /\ tick_walk \in Seq(Task)

Runnable == {t \in Task : k.task_state[t] = "RUNNABLE"}
RunnableAt(p) == {t \in Runnable : k.priority[t] = p}

\* Each ready list is an intact ring in both directions, with exactly the
\* runnable tasks of its priority on it, each once; the bitmap names exactly
\* the lists that are not empty.  (Every queue_add_tail and
\* queue_remove_entry of tn_tasks.c moves a task it assumes to be elsewhere.)
ReadyListsSound ==
  \A p \in Priority :
    /\ \E s \in SetToSeqs(RunnableAt(p)) : IsRing(k.q, p, s)
    /\ p \in k.tn_ready_to_run_bmp <=> RunnableAt(p) # {}

\* tn_next_task_to_run is maintained incrementally by five functions: it is
\* always a runnable task and none has a higher priority.
NextIsHighest ==
  /\ k.tn_next_task_to_run \in Runnable
  /\ \A t \in Runnable : k.priority[k.tn_next_task_to_run] <= k.priority[t]

\* No preemption is lost: outside the kernel and outside interrupts, the task
\* that has the CPU is runnable and no runnable task has a higher priority.
NoLostPreemption ==
  tn_int_counter = 0 /\ pc \in {"init", "entry", "user"} =>
    /\ tn_curr_run_task \in Runnable
    /\ \A t \in Runnable : k.priority[tn_curr_run_task] <= k.priority[t]

\* The calls of the objects and of the mutexes keep what those of the tasks
\* keep: the ready lists are sound and the switch that a released task or a
\* changed priority asks for comes (task_wait_complete, set_current_priority).
SchedulerSound == ReadyListsSound /\ NoLostPreemption

\* The timeout list holds the tasks that wait with a finite timeout, each
\* once and with ticks left to count, while calls and handlers end waits that
\* the tick is about to end; no other timer runs (StopTimer, TickEntry).
TimeoutListExact ==
  LET list == k.tn_wait_timeout_list
  IN /\ Range(list) = {t \in Task : Waiting(k, t) /\ k.tick_count[t] # TN_WAIT_INFINITE}
     /\ IsInjective(list)
     /\ \A t \in Range(list) : k.tick_count[t] > 0
     /\ \A t \in Task \ Range(list) : k.tick_count[t] = TN_WAIT_INFINITE

\* A suspension ends only by tn_task_resume or by starting the task anew: no
\* timeout, wakeup or release of its wait makes a suspended task runnable.
SuspensionLasts ==
  [][\A t \in AppTask : Suspended(k, t) /\ ~Suspended(k', t) =>
        tn_task_resume(t) \/ tn_task_terminate(t) \/ tn_task_create(t, TRUE)
                          \/ tn_task_create(t, FALSE)]_vars

-----------------------------------------------------------------------------
\* Liveness

\* Interrupt handlers return, the timer goes on interrupting, and interrupts
\* leave the processor time for the tasks.
Fairness ==
  /\ SF_vars(IrqExit) /\ WF_vars(TickEntry)
  /\ WF_vars(IrqEnter) /\ SF_vars(tn_tick_int_processing)
  /\ SF_vars(ContextSwitch)

\* Every wait with a finite timeout ends, whatever suspends, wakes or changes
\* the priority of the task in the meantime.
TimedWaitEnds ==
  \A t \in AppTask :
     Waiting(k, t) /\ k.tick_count[t] # TN_WAIT_INFINITE ~> ~Waiting(k, t)

\* A runnable task of which no other has the priority or a higher one gets
\* the CPU, or stops being that task.
Topmost(t) == /\ t \in Runnable
              /\ \A u \in Runnable \ {t} : k.priority[t] < k.priority[u]
TopmostRuns == \A t \in AppTask : Topmost(t) ~> tn_curr_run_task = t \/ ~Topmost(t)
=============================================================================
