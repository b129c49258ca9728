-------------------------------- MODULE Lock ---------------------------------
(***************************************************************************)
(* What mutexes promise: each has one owner at most, only the owner gives  *)
(* it up, and it goes at once to the task that has waited longest.         *)
(***************************************************************************)
EXTENDS Naturals, SequencesExt

CONSTANTS Client, Mutex, None

VARIABLES
  exists,   \* the mutexes that exist
  closing,  \* those that are being deleted
  owner,
  waiting   \* per mutex, the tasks that wait, in order of arrival

vars == <<exists, closing, owner, waiting>>

Init == /\ exists \in SUBSET Mutex /\ closing = {}
        /\ owner = [m \in Mutex |-> None] /\ waiting = [m \in Mutex |-> <<>>]

Create(m) == /\ m \notin exists /\ exists' = exists \cup {m}
             /\ UNCHANGED <<closing, owner, waiting>>

Owned(t) == {m \in exists : owner[m] = t}
Waits(t) == \E m \in Mutex : Contains(waiting[m], t)

Acquire(t, m) ==
  /\ m \in exists /\ owner[m] # t /\ ~Waits(t)
  /\ IF owner[m] = None
     THEN owner' = [owner EXCEPT ![m] = t] /\ UNCHANGED waiting
     ELSE waiting' = [waiting EXCEPT ![m] = Append(@, t)] /\ UNCHANGED owner
  /\ UNCHANGED <<exists, closing>>

\* The mutexes in S change hands; queue is who waits for each.
PassOn(S, queue) ==
  /\ owner' = [m \in Mutex |-> IF m \notin S THEN owner[m]
                               ELSE IF queue[m] = <<>> THEN None ELSE Head(queue[m])]
  /\ waiting' = [m \in Mutex |-> IF m \in S /\ queue[m] # <<>> THEN Tail(queue[m])
                                 ELSE queue[m]]
  /\ UNCHANGED <<exists, closing>>
Release(t) == \E m \in Owned(t) : PassOn({m}, waiting)
\* A task that ends gives up all it has and waits for.
End(t) == PassOn(Owned(t), [m \in Mutex |-> RemoveFirst(waiting[m], t)])

\* A deletion dismisses those that wait, one after the other.
Close(m)   == /\ m \in exists /\ closing' = closing \cup {m}
              /\ UNCHANGED <<exists, owner, waiting>>
Dismiss(m) == /\ m \in closing /\ waiting[m] # <<>>
              /\ waiting' = [waiting EXCEPT ![m] = Tail(@)]
              /\ UNCHANGED <<exists, closing, owner>>
Delete(m)  == /\ m \in closing /\ waiting[m] = <<>>
              /\ exists' = exists \ {m} /\ closing' = closing \ {m}
              /\ owner' = [owner EXCEPT ![m] = None] /\ UNCHANGED waiting

Next == \/ \E t \in Client : Release(t) \/ End(t) \/ \E m \in Mutex : Acquire(t, m)
        \/ \E m \in Mutex : Create(m) \/ Close(m) \/ Dismiss(m) \/ Delete(m)
Spec == Init /\ [][Next]_vars
=============================================================================
