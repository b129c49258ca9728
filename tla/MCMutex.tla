------------------------------- MODULE MCMutex -------------------------------
(***************************************************************************)
(* Instances of TNMutex for TLC.                                           *)
(***************************************************************************)
EXTENDS TNMutex, TLC

CONSTANTS a, b, c, timer, idle, m1, m2

\* a has the highest priority.
Priorities == (timer :> 0) @@ (a :> 2) @@ (b :> 3) @@ (c :> 4) @@ (idle :> 5)
SameMutexes == Permutations({m1, m2})

\* Inheritance, and a ceiling above all tasks.
BothProtocols == {[attr |-> "INHERIT", ceil |-> 1], [attr |-> "CEILING", ceil |-> 1]}

\* No circle of waiting tasks arises: the holder does not wait for a mutex of
\* the running task.
NoCircle(m) ==
  mx.holder[m] # NULL => mx.pwait_queue[mx.holder[m]] \notin Held(tn_curr_run_task)

\* An application has mutexes of one protocol.  Two tasks make every call,
\* three lock and unlock: two mutexes with inheritance, three tasks without a
\* circle, and mutexes with ceilings one at a time.
Ceilings == \E m \in Mutex : Ceiling(State, m)
TwoTasks == c \notin k.created
MayWait(m) == IF Ceilings THEN Held(tn_curr_run_task) = {} ELSE TwoTasks \/ NoCircle(m)
CallsNext == /\ MxNext(MayWait, TwoTasks)
             /\ \A m, n \in Mutex : mx'.proto[m] = mx'.proto[n]
CallsInit == MxInit /\ \A m, n \in Mutex : mx.proto[m] = mx.proto[n]
CallsSpec == CallsInit /\ [][CallsNext]_all
=============================================================================
