-------------------------------- MODULE MCSem --------------------------------
(***************************************************************************)
(* Instances of TNSem for TLC.                                             *)
(***************************************************************************)
EXTENDS TNSem, TLC

CONSTANTS a, b, c, timer, idle, semQueue

\* a has the highest priority; b and c share one.
Priorities == (timer :> 0) @@ (a :> 1) @@ (b :> 2) @@ (c :> 2) @@ (idle :> 3)
TwoTasks == [t \in {timer, a, b, idle} |-> Priorities[t]]
Interchangeable == Permutations({b, c})
OneList == <<semQueue>>

\* Two tasks make every call; three use the semaphore that exists.
CallsNext ==
  /\ SemNext
  /\ AppTask \subseteq k'.created => id' /\ max_count' = MaxCount /\ NobodyDeletes'
CallsSpec == SemInit /\ [][CallsNext]_all

\* A task waits with a timeout and the tick ends its wait.
TimedNext ==
  \/ SemCall(Timeouts) \/ SemInterrupt
  \/ Others
  \/ /\ tn_tick_int_processing \/ TickEntry
     /\ report' = None /\ UNCHANGED <<object, semaphore>>
TimedSpec == SemInit /\ [][TimedNext]_all
=============================================================================
