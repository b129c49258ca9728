-------------------------------- MODULE TNSem --------------------------------
(***************************************************************************)
(* Semaphores (tn_sem.c): one semaphore, the tasks that use it and the     *)
(* interrupt handlers that signal it.  A task that waited learns what came *)
(* of it when it runs again, in the second half of tn_sem_acquire.         *)
(***************************************************************************)
EXTENDS TNObjects

CONSTANTS StartCount, MaxCount
ASSUME SemAssumption == /\ MaxCount \in Nat \ {0} /\ StartCount \in 0 .. MaxCount
                        /\ Len(WaitLists) = 1

VARIABLES
  count, max_count,
  acquiring,  \* the tasks that will return from tn_sem_acquire when they run
  report      \* what a caller of the last step is told with TERR_NO_ERR:
              \* "given" by a signal, "taken" by the others; else None

semaphore == <<count, max_count, acquiring>>
None == "none"

sem == WaitLists[1]
noWaiter == is_queue_empty(k.q, sem)

SemInit == /\ Init /\ ObjectInit /\ count = StartCount /\ max_count = MaxCount
           /\ acquiring = {} /\ report = None

\* The running task is outside the functions of this module.
Idle == Caller /\ Free /\ tn_curr_run_task \notin acquiring

\* A refused creation disables the semaphore that exists.
tn_sem_create ==
  /\ Idle
  /\ \/ /\ ~id /\ id' = TRUE
        /\ k' = [k EXCEPT !.q = queue_reset(@, sem)]
        /\ count' = StartCount /\ max_count' = MaxCount
     \/ id /\ max_count' = 0 /\ UNCHANGED <<k, id, count>>
  /\ Returns /\ report' = None /\ UNCHANGED <<task_stk, deleting, acquiring>>

\* What every other call but tn_sem_delete tests first.
Usable == id /\ max_count # 0

\* Serves the task that came last.
Bug_tn_sem_signal ==
  LET t == k.q.prev[sem]
  IN /\ Idle /\ Usable
     /\ \/ /\ ~noWaiter /\ UNCHANGED count
           /\ k' = task_wait_complete([k EXCEPT !.q = queue_remove_entry(@, t)], t)
           /\ IF Suspended(k, t) THEN Returns ELSE Switches
        \/ /\ noWaiter /\ count < max_count
           /\ count' = count + 1 /\ UNCHANGED k /\ Returns
     /\ report' = "given" /\ UNCHANGED <<task_stk, object, max_count, acquiring>>
\* A waiting task gets the unit, which is not counted then.
tn_sem_signal ==
  /\ Idle /\ Usable
  /\ \/ ~noWaiter /\ WakeFirst(k, sem) /\ UNCHANGED count
     \/ /\ noWaiter /\ count < max_count
        /\ count' = count + 1 /\ UNCHANGED k /\ Returns
  /\ report' = "given" /\ UNCHANGED <<task_stk, object, max_count, acquiring>>

tn_sem_isignal ==
  /\ InHandler /\ Usable
  /\ \/ ~noWaiter /\ iWakeFirst(k, sem) /\ UNCHANGED count
     \/ /\ noWaiter /\ count < max_count
        /\ count' = count + 1 /\ HandlerCall(FALSE) /\ UNCHANGED <<k, tick_walk>>
  /\ report' = "given" /\ UNCHANGED <<object, max_count, acquiring>>

tn_sem_acquire(timeout) ==
  /\ Idle /\ Usable
  /\ \/ /\ count >= 1 /\ count' = count - 1
        /\ report' = "taken" /\ Returns /\ UNCHANGED <<k, acquiring>>
     \/ /\ count < 1 /\ WaitFor(k, sem, "SEM", timeout)
        /\ acquiring' = acquiring \cup {tn_curr_run_task}
        /\ report' = None /\ UNCHANGED count
  /\ UNCHANGED <<task_stk, object, max_count>>

\* The second half of tn_sem_acquire, in the task that waited.
AcquireEnd ==
  /\ tn_int_counter = 0 /\ pc = "user" /\ tn_curr_run_task \in acquiring
  /\ acquiring' = acquiring \ {tn_curr_run_task}
  /\ report' = IF k.task_wait_rc[tn_curr_run_task] = "TERR_NO_ERR" THEN "taken" ELSE None
  /\ UNCHANGED <<vars, object, count, max_count>>

tn_sem_polling ==
  /\ Idle /\ Usable
  /\ count >= 1 /\ count' = count - 1 /\ report' = "taken" /\ Returns
  /\ UNCHANGED <<k, task_stk, object, max_count, acquiring>>

tn_sem_ipolling ==
  /\ InHandler /\ Usable
  /\ count >= 1 /\ count' = count - 1 /\ report' = "taken" /\ HandlerCall(FALSE)
  /\ UNCHANGED <<k, tick_walk, object, max_count, acquiring>>

SemCall(timeouts) ==
  \/ tn_sem_create \/ tn_sem_signal \/ tn_sem_polling
  \/ \E timeout \in timeouts : tn_sem_acquire(timeout)
SemInterrupt == tn_sem_isignal \/ tn_sem_ipolling

\* Steps that neither give nor take a unit; a task that ends leaves the call.
Others ==
  \/ AcquireEnd
  \/ /\ \/ DeleteSteps \/ Start \/ Enter \/ Leave \/ Switch
        \/ \E t \in AppTask : /\ Idle /\ UNCHANGED object
                              /\ \/ tn_task_suspend(t) \/ tn_task_resume(t)
                                 \/ tn_task_activate(t)
     /\ report' = None /\ UNCHANGED semaphore
  \/ /\ \/ \E t \in AppTask : /\ Idle /\ ~Sleeping(t) /\ Terminate(t)
                              /\ acquiring' = acquiring \ {t}
        \/ Idle /\ tn_task_exit(FALSE) /\ UNCHANGED <<object, acquiring>>
     /\ report' = None /\ UNCHANGED <<count, max_count>>

all == <<vars, object, semaphore, report>>

\* An application that waits without a timeout and deletes the semaphore
\* only when it is undisturbed.
Delete == Idle /\ DeleteBegin /\ report' = None /\ UNCHANGED semaphore
SemNext ==
  \/ SemCall({TN_WAIT_INFINITE}) \/ Others
  \/ NobodyDeletes /\ (SemInterrupt
                       \/ (TaskInterrupt /\ report' = None /\ UNCHANGED semaphore))
  \/ Undisturbed /\ Delete
SemSpec == SemInit /\ [][SemNext]_all

-----------------------------------------------------------------------------
\* Properties

\* A task waits for the semaphore only while it exists and has no unit, and
\* its wait queue holds exactly those tasks.
SemSound ==
  /\ ObjectTypeOK /\ count \in 0 .. MaxCount /\ max_count \in {0, MaxCount}
  /\ WaitListSound(sem, "SEM")
  /\ Waiters("SEM") # {} => id /\ count = 0

\* The code keeps what a semaphore promises: a call that reports a unit given
\* or taken has given or taken one, and a task is woken with success by a
\* signal only, the one that waited longest.  A unit is with a task from the
\* moment it is woken with success until it has returned.
Handed == {t \in acquiring : ~Waiting(k, t) /\ k.task_wait_rc[t] = "TERR_NO_ERR"}
Promise == INSTANCE Semaphore WITH
  Client <- AppTask, exists <- id, waiting <- Order(sem, "SEM"), handed <- Handed
ImplementsSemaphore == Promise!Spec
=============================================================================
