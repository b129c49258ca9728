------------------------------ MODULE TNObjects ------------------------------
(***************************************************************************)
(* What the synchronisation objects of TNKernel have in common: waking the *)
(* first task of a wait queue, and the delete function, which tn_sem.c,    *)
(* tn_dqueue.c, tn_mem.c and tn_event.c write out four times.              *)
(*                                                                         *)
(* One object is modelled, with the wait queues WaitLists.  Its delete     *)
(* function is the one kernel function that is not a single critical       *)
(* section: it tests its loop condition with interrupts enabled, switches  *)
(* to each task it releases, and keeps interrupts disabled when it         *)
(* releases a suspended one.                                               *)
(***************************************************************************)
EXTENDS TNTasks

CONSTANT WaitLists  \* the wait queues in the order the delete function has

ASSUME WaitListsAssumption ==
  WaitLists \in Seq(WaitQueue) /\ Range(WaitLists) = WaitQueue

VARIABLES
  id,       \* the object exists: its id field has the magic number
  deleting  \* where each task is in the delete function

object == <<id, deleting>>

Outside == [at |-> "out", list |-> 0, locked |-> FALSE]

ObjectInit ==
  /\ id = TRUE
  /\ deleting = [t \in Task |-> Outside]

\* The running task is not in the middle of the delete function.
Free == deleting[tn_curr_run_task] = Outside
\* It is, and has interrupts disabled.
Locked == deleting[tn_curr_run_task].locked

FirstWaiter(s, que) == s.q.next[que]

\* queue_remove_head and task_wait_complete, as every call has them.
ReleaseFirst(s, que) ==
  task_wait_complete([s EXCEPT !.q = queue_remove_head(@, que)],
                     FirstWaiter(s, que))

\* Wakes the first waiter of s and goes on to the switch if it can run.
WakeFirst(s, que) ==
  /\ k' = ReleaseFirst(s, que)
  /\ IF Suspended(s, FirstWaiter(s, que)) THEN Returns ELSE Switches
\* Forgets to ask for the switch.
Bug_iWakeFirst(s, que) ==
  k' = ReleaseFirst(s, que) /\ HandlerCall(FALSE) /\ UNCHANGED tick_walk
iWakeFirst(s, que) ==
  /\ k' = ReleaseFirst(s, que)
  /\ HandlerCall(~Suspended(s, FirstWaiter(s, que)))
  /\ UNCHANGED tick_walk

\* The running task waits for the object.
WaitFor(s, que, reason, timeout) ==
  /\ k' = task_curr_to_wait_action(s, tn_curr_run_task, que, reason, timeout)
  /\ Switches

-----------------------------------------------------------------------------
\* The delete function

\* The running task is at this point of the function.
DeletingAt(point) ==
  /\ tn_int_counter = 0 /\ pc = "user"
  /\ deleting[tn_curr_run_task].at = point

ThisList == WaitLists[deleting[tn_curr_run_task].list]

DeleteBegin ==
  /\ Caller /\ Free /\ id
  /\ deleting' = [deleting EXCEPT ![tn_curr_run_task] =
                    [at |-> "test", list |-> 1, locked |-> FALSE]]
  /\ Returns
  /\ UNCHANGED <<k, task_stk, id>>

\* while(!is_queue_empty(...))
DeleteTest ==
  /\ DeletingAt("test")
  /\ LET d == deleting[tn_curr_run_task]
     IN deleting' = [deleting EXCEPT ![tn_curr_run_task] =
          IF ~is_queue_empty(k.q, ThisList) THEN [d EXCEPT !.at = "remove"]
          ELSE IF d.list < Len(WaitLists) THEN [d EXCEPT !.list = @ + 1]
          ELSE [d EXCEPT !.at = "end"]]
  /\ UNCHANGED <<vars, id>>

\* Releases the first waiter; one that is not suspended gets TERR_DLT.
ReleaseDeleted(s, que) ==
  LET t == FirstWaiter(s, que)
      released == ReleaseFirst(s, que)
  IN IF Suspended(s, t) THEN released
     ELSE [released EXCEPT !.task_wait_rc[t] = "TERR_DLT"]

\* The body of the loop.  If the queue has become empty since the test, the
\* entry and the task are null and task_wait_complete does nothing.
DeleteRemove ==
  /\ DeletingAt("remove")
  /\ LET switches == /\ ~is_queue_empty(k.q, ThisList)
                     /\ ~Suspended(k, FirstWaiter(k, ThisList))
     IN /\ deleting' = [deleting EXCEPT ![tn_curr_run_task].at = "test",
                                        ![tn_curr_run_task].locked = ~switches]
        /\ IF switches THEN Switches ELSE Returns
  /\ k' = IF is_queue_empty(k.q, ThisList) THEN k ELSE ReleaseDeleted(k, ThisList)
  /\ UNCHANGED <<task_stk, id>>

DeleteEnd ==
  /\ DeletingAt("end")
  /\ id' = FALSE
  /\ deleting' = [deleting EXCEPT ![tn_curr_run_task] = Outside]
  /\ Returns
  /\ UNCHANGED <<k, task_stk>>

DeleteSteps == DeleteTest \/ DeleteRemove \/ DeleteEnd

-----------------------------------------------------------------------------
\* The steps of TNTasks that do not concern the object.

\* A task that is terminated leaves the delete function with its context.
Terminate(t) ==
  /\ Free /\ tn_task_terminate(t)
  /\ deleting' = [deleting EXCEPT ![t] = Outside]
  /\ UNCHANGED id

Switch == ContextSwitch /\ UNCHANGED object
Enter  == ~Locked /\ IrqEnter /\ UNCHANGED object
Leave  == IrqExit /\ UNCHANGED object
Start  == /\ \/ \E t \in AppTask : pc = "init" /\ tn_task_create(t, TRUE)
             \/ tn_cpu_int_enable
             \/ tn_curr_run_task = tn_timer_task /\ tn_task_sleep(TN_WAIT_INFINITE)
          /\ UNCHANGED object

-----------------------------------------------------------------------------
\* The applications the runs and theorems are about

\* Calls that leave the object alone, on tasks that may wait for it.
TaskCall ==
  /\ Free
  /\ \/ \E t \in AppTask : tn_task_suspend(t) \/ tn_task_resume(t) \/ tn_task_activate(t)
     \/ tn_task_exit(FALSE)
  /\ UNCHANGED object
TaskInterrupt == (\E t \in AppTask : tn_task_iactivate(t)) /\ UNCHANGED object

\* No other task and no handler comes between the steps of a delete function
\* that the one task of the highest priority runs, while nobody is suspended.
Undisturbed == \A t \in AppTask \ {tn_curr_run_task} :
                 k.priority[tn_curr_run_task] < k.priority[t] /\ ~Suspended(k, t)
NobodyDeletes == \A t \in AppTask : deleting[t] = Outside

-----------------------------------------------------------------------------
\* Properties

ObjectTypeOK ==
  /\ TypeOK
  /\ id \in BOOLEAN
  /\ deleting \in [Task -> [at : {"out", "test", "remove", "end"},
                            list : 0 .. Len(WaitLists), locked : BOOLEAN]]

\* The tasks that wait for the object for this reason.
Waiters(reason) ==
  {t \in Task : Waiting(k, t) /\ k.task_wait_reason[t] = reason}

\* Those tasks in the order of their wait queue.
Order(que, reason) == CHOOSE s \in SetToSeqs(Waiters(reason)) : IsRing(k.q, que, s)

\* task_queue is one link for the ready lists and for the wait queues of all
\* objects: a wait queue is an intact ring of exactly the tasks that wait
\* there, so that no waiter is lost to a wakeup and none is woken that left.
WaitListSound(que, reason) ==
  \E s \in SetToSeqs(Waiters(reason)) : IsRing(k.q, que, s)
=============================================================================
