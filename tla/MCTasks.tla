------------------------------- MODULE MCTasks -------------------------------
(***************************************************************************)
(* Instances of TNTasks for TLC.                                           *)
(***************************************************************************)
EXTENDS TNTasks, TLC

CONSTANTS a, b, c, timer, idle

\* a and b share a priority above that of c (c is in AppTask or not).
SharedPriority == (timer :> 0) @@ (a :> 1) @@ (b :> 1) @@ (c :> 2) @@ (idle :> 3)
TwoTasks == [t \in {timer, a, b, idle} |-> SharedPriority[t]]

\* a and b differ only in name: for the runs that check safety.
Interchangeable == Permutations({a, b})

\* Tasks that are created once and wait, suspend and wake each other.
WaitingCall ==
  \/ \E t \in AppTask : \/ tn_task_suspend(t) \/ tn_task_resume(t)
                        \/ tn_task_wakeup(t) \/ tn_task_release_wait(t)
  \/ SleepCall
WaitingInterrupt ==
  IrqEnter \/ IrqExit \/ tn_tick_int_processing \/ TickEntry
WaitingNext == \/ \E t \in AppTask : pc = "init" /\ tn_task_create(t, TRUE)
               \/ \E v \in TSliceArgs : pc = "init" /\ tn_sys_tslice_ticks(1, v)
               \/ tn_cpu_int_enable \/ WaitingCall
               \/ WaitingInterrupt \/ tn_switch_context
WaitingSpec == Init /\ [][WaitingNext]_vars
WaitingLive == WaitingSpec /\ Fairness
=============================================================================
