------------------------------ MODULE Semaphore ------------------------------
(***************************************************************************)
(* What a semaphore promises: every unit that is given is free, or on its  *)
(* way to one task that waited, until it is taken once; a task waits only  *)
(* when there is none, and the waiting tasks are served in order.          *)
(***************************************************************************)
EXTENDS Naturals, SequencesExt

CONSTANTS Client, StartCount, MaxCount, None

VARIABLES
  exists,
  count,    \* free units
  waiting,  \* the tasks that wait, in order of arrival
  handed,   \* the tasks given a unit that they have yet to take
  report    \* "given" or "taken" if the last step reported that of a unit

vars == <<exists, count, waiting, handed, report>>

Init == /\ exists = TRUE /\ count = StartCount
        /\ waiting = <<>> /\ handed = {} /\ report = None

Create == /\ ~exists /\ exists' = TRUE /\ count' = StartCount
          /\ report' = None /\ UNCHANGED <<waiting, handed>>
\* A semaphore on which tasks wait is not deleted under them.
Delete == /\ exists /\ waiting = <<>> /\ exists' = FALSE
          /\ report' = None /\ UNCHANGED <<count, waiting, handed>>

\* A task, or an interrupt handler, takes a unit.
Take == /\ exists /\ count > 0 /\ count' = count - 1
        /\ report' = "taken" /\ UNCHANGED <<exists, waiting, handed>>

\* A task that finds none waits.
Wait(t) ==
  /\ exists /\ count = 0 /\ ~Contains(waiting, t)
  /\ waiting' = Append(waiting, t)
  /\ report' = None /\ UNCHANGED <<exists, count, handed>>

\* Only a signal hands a unit to a task, to the one that waited longest.
Signal ==
  /\ exists /\ report' = "given"
  /\ \/ /\ waiting # <<>> /\ waiting' = Tail(waiting)
        /\ handed' = handed \cup {Head(waiting)} /\ UNCHANGED count
     \/ /\ waiting = <<>> /\ count < MaxCount
        /\ count' = count + 1 /\ UNCHANGED <<waiting, handed>>
  /\ UNCHANGED exists

\* The task that waited goes on with its unit.
Return(t) ==
  /\ t \in handed /\ handed' = handed \ {t}
  /\ report' = "taken" /\ UNCHANGED <<exists, count, waiting>>

\* A task that is terminated, or told that the semaphore is deleted, gets no
\* unit any more, and never uses the one it was given.
GiveUp(t) ==
  /\ \/ /\ Contains(waiting, t) /\ waiting' = RemoveFirst(waiting, t)
        /\ UNCHANGED handed
     \/ t \in handed /\ handed' = handed \ {t} /\ UNCHANGED waiting
  /\ report' = None /\ UNCHANGED <<exists, count>>

\* A step that neither gives nor takes.
Idle == report' = None /\ UNCHANGED <<exists, count, waiting, handed>>

Next == \/ Create \/ Delete \/ Take \/ Signal \/ Idle
        \/ \E t \in Client : Wait(t) \/ Return(t) \/ GiveUp(t)
Spec == Init /\ [][Next]_vars
=============================================================================
