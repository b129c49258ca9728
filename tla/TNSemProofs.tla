----------------------------- MODULE TNSemProofs -----------------------------
(***************************************************************************)
(* The semaphore of TNSem keeps its promise, whatever the tasks, their     *)
(* priorities and the two counts.                                          *)
(***************************************************************************)
EXTENDS TNSem, TNKernelProofs

kinds == <<"SEM">>
Getters == On(k, "SEM")

\* The task was woken with success and has yet to return.
Got(t) == t \in acquiring /\ ~Waiting(k, t) /\ k.task_wait_rc[t] = "TERR_NO_ERR"

\* A task waits only while there is a semaphore without a unit, and whoever
\* waits will return from tn_sem_acquire.
SemInv == /\ ObjectInv(kinds)
          /\ count \in 0 .. MaxCount /\ max_count \in {0, MaxCount}
          /\ acquiring \subseteq AppTask /\ acquiring \subseteq k.created
          /\ Getters \subseteq acquiring
          /\ Getters # {} => id /\ count = 0

LEMMA OneKind ==
  /\ Kinds(kinds) /\ WaitLists # <<>> /\ DOMAIN WaitLists = {1}
  /\ kinds[1] = "SEM" /\ sem = WaitLists[1] /\ sem \in WaitQueue
  /\ MaxCount \in Nat \ {0} /\ StartCount \in 0 .. MaxCount
<1>1. Len(WaitLists) = 1 /\ WaitLists \in Seq(WaitQueue) /\ MaxCount \in Nat \ {0}
      /\ StartCount \in 0 .. MaxCount
  BY SemAssumption, WaitListsAssumption
<1>2. DOMAIN WaitLists = {1} /\ WaitLists # <<>> /\ sem \in WaitQueue
  BY <1>1 DEF sem
<1>3. kinds \in [1 .. 1 -> WaitReason \ {"SLEEP"}] /\ kinds[1] = "SEM"
  BY DEF kinds, WaitReason
<1>4. IsInjective(kinds) /\ IsInjective(WaitLists)
  BY <1>2, <1>3 DEF IsInjective
<1>5. QED
  BY <1>1, <1>2, <1>3, <1>4 DEF Kinds, sem

-----------------------------------------------------------------------------
\* The tasks that wait, before a step

Sees(w) == Line(k, sem, "SEM", w)

LEMMA SomeView == SemInv => \E w : Sees(w)
BY OneKind DEF SemInv, ObjectInv, WaitersOK, Sees

LEMMA View ==
  ASSUME SemInv, NEW w, Sees(w)
  PROVE  /\ Order(sem, "SEM") = w /\ Range(w) = Getters
         /\ w \in Seq(Node) /\ Range(w) \subseteq AppTask
         /\ (w = <<>> <=> noWaiter) /\ (w = <<>> <=> Getters = {})
<1>1. KernelOK(k) /\ WaitersOK(k, kinds) /\ Line(k, sem, "SEM", w)
  BY DEF SemInv, ObjectInv, IInv, Sees
<1>2. Order(sem, "SEM") = w /\ Range(w) = Getters
  BY <1>1, LineOrder DEF Line, Getters
<1>3. w \in Seq(Node)
  <2>1. w \in Seq(Node \ {sem})
    BY <1>1 DEF Line, Holds
  <2>2. QED
    BY <2>1
<1>4. Range(w) \subseteq AppTask
  BY <1>1, LineTasks, OneKind
<1>5. (w = <<>> <=> noWaiter) /\ (w = <<>> <=> Getters = {})
  BY <1>1, EmptyLine DEF noWaiter, Getters
<1>6. QED
  BY <1>2, <1>3, <1>4, <1>5

\* and after it.
LEMMA ViewAfter ==
  ASSUME NEW v, Line(k', sem, "SEM", v)
  PROVE  Order(sem, "SEM")' = v
<1>1. (CHOOSE u \in SetToSeqs(On(k', "SEM")) : IsRing(k'.q, sem, u)) = v
  BY LineChoice
<1>2. \A x : Waiters(x)' = On(k', x)
  BY DEF Waiters, On, Waits
<1>3. QED
  BY <1>1, <1>2, Zenon DEF Order, sem

LEMMA HandedIs == \A t : t \in Handed <=> Got(t)
BY DEF Handed, Got

LEMMA HandedAfter ==
  ASSUME acquiring' \subseteq AppTask, NEW S, S \subseteq AppTask,
         \A t \in AppTask : Got(t)' <=> t \in S
  PROVE  Handed' = S
BY DEF Handed, Got

\* The abstract specification has its own copies of two library operators.
LEMMA SameRemoval ==
  ASSUME NEW w, NEW t
  PROVE  /\ Promise!RemoveFirst(w, t) = RemoveFirst(w, t)
         /\ w \in Seq(Node) => (t \in Range(w) <=> Promise!Contains(w, t))
<1>1. Promise!RemoveFirst(w, t) = RemoveFirst(w, t)
  BY DEF Promise!RemoveFirst, Promise!RemoveAt, Promise!SelectInSeq, Promise!Min,
         RemoveFirst, RemoveAt, SelectInSeq, Min
<1>2. w \in Seq(Node) => (t \in Range(w) <=> Promise!Contains(w, t))
  BY DEF Promise!Contains, Range
<1>3. QED
  BY <1>1, <1>2

-----------------------------------------------------------------------------
\* The calls, as steps of the abstract semaphore.

\* A step that wakes nobody and lets nobody wait.
LEMMA NobodyMoves ==
  ASSUME SemInv, ObjectInv(kinds)', SameLines(k, k', kinds), k' = k, acquiring' = acquiring,
         count' \in 0 .. MaxCount, max_count' \in {0, MaxCount},
         Getters # {} => id' /\ count' = 0
  PROVE  SemInv' /\ Order(sem, "SEM")' = Order(sem, "SEM") /\ Handed' = Handed
<1>1. PICK w : Sees(w)
  BY SomeView
<1>2. Line(k', sem, "SEM", w)
  BY <1>1, OneKind DEF SameLines, Sees
<1>3. Order(sem, "SEM")' = Order(sem, "SEM")
  BY <1>1, <1>2, View, ViewAfter
<1>4. Handed' = Handed /\ Getters' = Getters
  BY DEF Handed, Getters
<1>5. QED
  BY <1>3, <1>4 DEF SemInv

LEMMA CreateSemOK ==
  ASSUME SemInv, tn_sem_create
  PROVE  SemInv' /\ Promise!Next
<1>1. ObjectInv(kinds) /\ KernelOK(k) /\ id \in BOOLEAN
  BY DEF SemInv, ObjectInv, IInv, ObjectOK
<1>2. PICK w : Sees(w)
  BY SomeView
<1>3. k' = k
  <2>1. CASE id
    BY <2>1 DEF tn_sem_create
  <2>2. CASE ~id
    <3>1. is_queue_empty(k.q, sem)
      BY <1>2, <2>2, View DEF SemInv, noWaiter
    <3>2. queue_reset(k.q, sem) = k.q /\ [k EXCEPT !.q = k.q] = k
      BY <1>1, <3>1, ResetEmpty
    <3>3. QED
      BY <2>2, <3>2 DEF tn_sem_create
  <2>3. QED
    BY <1>1, <2>1, <2>2
<1>4. /\ Caller /\ Free /\ Returns /\ task_stk' = task_stk /\ deleting' = deleting
      /\ id' \in BOOLEAN /\ acquiring' = acquiring /\ report' = None
  BY <1>1 DEF tn_sem_create, Idle
<1>5. ObjectInv(kinds)' /\ SameLines(k, k', kinds)
  BY <1>1, <1>3, <1>4, CallReturns, OneKind
<1>6. /\ count' \in 0 .. MaxCount /\ max_count' \in {0, MaxCount}
      /\ Getters # {} => id' /\ count' = 0
  BY OneKind DEF SemInv, tn_sem_create
<1>7. SemInv' /\ Order(sem, "SEM")' = Order(sem, "SEM") /\ Handed' = Handed
  BY <1>3, <1>4, <1>5, <1>6, NobodyMoves
<1>8. Promise!Create \/ Promise!Idle
  BY <1>4, <1>7 DEF tn_sem_create, Promise!Create, Promise!Idle
<1>9. QED
  BY <1>7, <1>8 DEF Promise!Next

\* A call that takes a unit or gives one back.
LEMMA CountsOK ==
  ASSUME SemInv, id, UNCHANGED <<k, object, max_count, acquiring>>,
         \/ count >= 1 /\ count' = count - 1 /\ report' = "taken"
         \/ noWaiter /\ count < max_count /\ count' = count + 1 /\ report' = "given",
         \/ Caller /\ Free /\ Returns /\ task_stk' = task_stk
         \/ InHandler /\ NobodyDeletes /\ HandlerCall(FALSE) /\ tick_walk' = tick_walk
  PROVE  SemInv' /\ Promise!Next
<1>1. ObjectInv(kinds) /\ id' \in BOOLEAN /\ id' = id /\ deleting' = deleting
      /\ max_count' = max_count /\ k' = k /\ acquiring' = acquiring
  BY DEF SemInv, ObjectInv, ObjectOK, object
<1>2. ObjectInv(kinds)' /\ SameLines(k, k', kinds)
  BY <1>1, CallReturns, HandlerReturns, OneKind
<1>3. PICK w : Sees(w)
  BY SomeView
<1>4. Getters = {} /\ count \in Nat /\ MaxCount \in Nat
  BY <1>3, View, OneKind DEF SemInv
<1>5. /\ count' \in 0 .. MaxCount /\ max_count' \in {0, MaxCount}
      /\ Getters # {} => id' /\ count' = 0
  BY <1>1, <1>4, OneKind DEF SemInv
<1>6. SemInv' /\ Order(sem, "SEM")' = Order(sem, "SEM") /\ Handed' = Handed
  BY <1>1, <1>2, <1>5, NobodyMoves
<1>7. CASE count >= 1 /\ count' = count - 1 /\ report' = "taken"
  <2>1. Promise!Take
    BY <1>1, <1>4, <1>6, <1>7 DEF Promise!Take
  <2>2. QED
    BY <1>6, <2>1 DEF Promise!Next
<1>8. CASE noWaiter /\ count < max_count /\ count' = count + 1 /\ report' = "given"
  <2>1. Order(sem, "SEM") = <<>> /\ count < MaxCount
    BY <1>3, <1>8, View, OneKind DEF SemInv
  <2>2. Promise!Signal
    BY <1>1, <1>6, <1>8, <2>1 DEF Promise!Signal
  <2>3. QED
    BY <1>6, <2>2 DEF Promise!Next
<1>9. QED
  BY <1>7, <1>8

\* A unit that comes while tasks wait goes to the first of them.
LEMMA SemWakes ==
  ASSUME SemInv, id, ~noWaiter, UNCHANGED <<object, count, max_count, acquiring>>,
         report' = "given",
         \/ Caller /\ Free /\ task_stk' = task_stk /\ WakeFirst(k, sem)
         \/ InHandler /\ NobodyDeletes /\ iWakeFirst(k, sem)
  PROVE  SemInv' /\ Promise!Next
<1>1. PICK w : Sees(w)
  BY SomeView
<1>2. /\ Order(sem, "SEM") = w /\ w # <<>> /\ Range(w) = Getters /\ w \in Seq(Node)
      /\ Line(k, sem, "SEM", w)
  BY <1>1, View DEF Sees
<1>3. PICK u : u = w[1]
  OBVIOUS
<1>4. /\ ObjectInv(kinds)' /\ u \in AppTask /\ u \in Waits(k)
      /\ Line(k', sem, "SEM", Tail(w))
      /\ Waits(k') = Waits(k) \ {u} /\ Getters' = Getters \ {u}
      /\ k'.created = k.created /\ k'.task_wait_rc[u] = "TERR_NO_ERR"
      /\ \A t \in Task \ {u} : k'.task_wait_rc[t] = k.task_wait_rc[t]
  <2>1. /\ 1 \in DOMAIN WaitLists /\ Line(k, WaitLists[1], kinds[1], w) /\ ObjectInv(kinds)
        /\ sem = WaitLists[1] /\ Kinds(kinds) /\ w # <<>> /\ UNCHANGED object
        /\ \/ Caller /\ Free /\ task_stk' = task_stk /\ WakeFirst(k, WaitLists[1])
           \/ InHandler /\ NobodyDeletes /\ iWakeFirst(k, WaitLists[1])
    BY <1>2, OneKind DEF SemInv
  <2>2. ObjectInv(kinds)' /\ WokenFirst(kinds, 1, w, u)
    BY ONLY <1>3, <2>1, WakesOne
  <2>3. QED
    BY <2>1, <2>2, OneKind DEF WokenFirst, Getters
<1>5. u \in Range(w) /\ u = Head(w) /\ u \in Getters /\ u \in acquiring
  BY <1>2, <1>3 DEF Range, SemInv
<1>6. SemInv'
  BY <1>4, <1>5 DEF SemInv, object
<1>7. /\ \A t \in AppTask \ {u} : Got(t)' <=> Got(t)
      /\ Got(u)'
  BY <1>4, <1>5, Nodes DEF Got, Waits
<1>8. Handed' = Handed \cup {u}
  <2>1. Handed \subseteq AppTask /\ acquiring' \subseteq AppTask
    BY DEF Handed, SemInv
  <2>2. \A t \in AppTask : Got(t)' <=> t \in Handed \cup {u}
    BY <1>7, HandedIs
  <2>3. QED
    BY <1>4, <2>1, <2>2, HandedAfter
<1>9. Order(sem, "SEM")' = Tail(w)
  BY <1>4, ViewAfter
<1>10. Promise!Signal
  BY <1>2, <1>5, <1>8, <1>9 DEF Promise!Signal, object
<1>11. QED
  BY <1>6, <1>10 DEF Promise!Next

LEMMA SignalOK ==
  ASSUME SemInv, tn_sem_signal \/ (NobodyDeletes /\ tn_sem_isignal)
  PROVE  SemInv' /\ Promise!Next
<1>1. CASE noWaiter
  <2>1. /\ id /\ UNCHANGED <<k, object, max_count, acquiring>>
        /\ count < max_count /\ count' = count + 1 /\ report' = "given"
        /\ \/ Caller /\ Free /\ Returns /\ task_stk' = task_stk
           \/ InHandler /\ NobodyDeletes /\ HandlerCall(FALSE) /\ tick_walk' = tick_walk
    BY <1>1 DEF tn_sem_signal, tn_sem_isignal, Usable, Idle
  <2>2. QED
    BY <1>1, <2>1, CountsOK
<1>2. CASE ~noWaiter
  <2>1. /\ id /\ UNCHANGED <<object, count, max_count, acquiring>> /\ report' = "given"
        /\ \/ Caller /\ Free /\ task_stk' = task_stk /\ WakeFirst(k, sem)
           \/ InHandler /\ NobodyDeletes /\ iWakeFirst(k, sem)
    BY <1>2 DEF tn_sem_signal, tn_sem_isignal, Usable, Idle
  <2>2. QED
    BY <1>2, <2>1, SemWakes
<1>3. QED
  BY <1>1, <1>2

\* A task waits when there is no unit.
LEMMA SemWait ==
  ASSUME SemInv, id, Idle, count = 0, UNCHANGED <<task_stk, object, count, max_count>>,
         acquiring' = acquiring \cup {tn_curr_run_task}, report' = None,
         WaitFor(k, sem, "SEM", TN_WAIT_INFINITE)
  PROVE  SemInv' /\ Promise!Next
<1>1. PICK w : Sees(w)
  BY SomeView
<1>2. /\ Order(sem, "SEM") = w /\ Range(w) = Getters /\ w \in Seq(Node)
      /\ Line(k, sem, "SEM", w) /\ Caller /\ Free /\ tn_curr_run_task \notin acquiring
  BY <1>1, View DEF Sees, Idle
<1>3. PICK t : t = tn_curr_run_task
  OBVIOUS
<1>4. /\ ObjectInv(kinds)' /\ t \in AppTask \ Range(w) /\ t \in k.created
      /\ Line(k', sem, "SEM", Append(w, t))
      /\ Waits(k') = Waits(k) \cup {t} /\ Getters' = Getters \cup {t}
      /\ k'.created = k.created /\ k'.task_wait_rc = k.task_wait_rc
  <2>1. /\ 1 \in DOMAIN WaitLists /\ ObjectInv(kinds) /\ Kinds(kinds)
        /\ Line(k, WaitLists[1], kinds[1], w)
        /\ WaitFor(k, WaitLists[1], kinds[1], TN_WAIT_INFINITE)
    BY <1>2, OneKind DEF SemInv
  <2>2. /\ ObjectInv(kinds)' /\ t \in AppTask \ Range(w) /\ t \in k.created
        /\ Line(k', WaitLists[1], kinds[1], Append(w, t))
        /\ Waits(k') = Waits(k) \cup {t} /\ On(k', kinds[1]) = On(k, kinds[1]) \cup {t}
        /\ k'.created = k.created /\ k'.task_wait_rc = k.task_wait_rc
    BY <1>2, <1>3, <2>1, WaitsOne
  <2>3. QED
    BY <2>2, OneKind DEF Getters
<1>5. SemInv'
  BY <1>3, <1>4 DEF SemInv, object
<1>6. \A u \in AppTask : Got(u)' <=> Got(u)
  BY <1>2, <1>3, <1>4, Nodes DEF Got, Waits
<1>7. Handed' = Handed
  <2>1. Handed \subseteq AppTask /\ acquiring' \subseteq AppTask
    BY <1>3, <1>4 DEF Handed, SemInv
  <2>2. \A u \in AppTask : Got(u)' <=> u \in Handed
    BY <1>6, HandedIs
  <2>3. QED
    BY <2>1, <2>2, HandedAfter
<1>8. Order(sem, "SEM")' = Append(w, t)
  BY <1>4, ViewAfter
<1>9. Promise!Wait(t)
  <2>1. ~Promise!Contains(w, t)
    BY <1>2, <1>4, SameRemoval
  <2>2. QED
    BY <1>2, <1>7, <1>8, <2>1 DEF Promise!Wait, object
<1>10. QED
  BY <1>4, <1>5, <1>9 DEF Promise!Next

LEMMA AcquireOK ==
  ASSUME SemInv,
         \/ tn_sem_acquire(TN_WAIT_INFINITE) \/ tn_sem_polling
         \/ NobodyDeletes /\ tn_sem_ipolling
  PROVE  SemInv' /\ Promise!Next
<1>1. CASE tn_sem_polling \/ (NobodyDeletes /\ tn_sem_ipolling)
  BY <1>1, CountsOK DEF tn_sem_polling, tn_sem_ipolling, Usable, Idle
<1>2. CASE tn_sem_acquire(TN_WAIT_INFINITE) /\ count >= 1
  <2>1. /\ Caller /\ Free /\ Returns /\ task_stk' = task_stk
        /\ UNCHANGED <<k, object, max_count, acquiring>>
        /\ id /\ count >= 1 /\ count' = count - 1 /\ report' = "taken"
    BY <1>2, OneKind DEF tn_sem_acquire, Usable, SemInv, Idle
  <2>2. QED
    BY <2>1, CountsOK
<1>3. CASE tn_sem_acquire(TN_WAIT_INFINITE) /\ ~(count >= 1)
  <2>1. /\ Idle /\ WaitFor(k, sem, "SEM", TN_WAIT_INFINITE) /\ id /\ count = 0
        /\ UNCHANGED <<task_stk, object, count, max_count>>
        /\ acquiring' = acquiring \cup {tn_curr_run_task} /\ report' = None
    BY <1>3, OneKind DEF tn_sem_acquire, Usable, SemInv
  <2>2. QED
    BY <2>1, SemWait
<1>4. QED
  BY <1>1, <1>2, <1>3

\* A task that waited runs again: with its unit, or without when none came.
LEMMA SemReturns ==
  ASSUME SemInv, AcquireEnd
  PROVE  SemInv' /\ Promise!Next
<1>1. PICK t : t = tn_curr_run_task
  OBVIOUS
<1>2. /\ t \in acquiring /\ acquiring' = acquiring \ {t} /\ k' = k /\ UNCHANGED object
      /\ report' = IF k.task_wait_rc[t] = "TERR_NO_ERR" THEN "taken" ELSE None
      /\ count' = count /\ max_count' = max_count /\ id' = id
  BY <1>1 DEF AcquireEnd, vars, object
<1>3. t \in AppTask /\ ~Waiting(k, t) /\ t \notin Getters
  <2>1. t \in Task /\ k.task_state[t] = "RUNNABLE"
    BY <1>1, CallerFacts DEF AcquireEnd, SemInv, ObjectInv
  <2>2. QED
    BY <1>2, <2>1 DEF Waiting, Waits, Getters, On, SemInv
<1>4. ObjectInv(kinds)' /\ Getters' = Getters
  <2>1. Getters' = Getters
    BY <1>2 DEF Getters
  <2>2. ObjectInv(kinds)'
    BY DEF AcquireEnd, SemInv, ObjectInv, IInv, Control, Settled, Right, WaitersOK,
           ObjectOK, DeletersOK, Deletes, NoWaiters, vars, object
  <2>3. QED
    BY <2>1, <2>2
<1>5. SemInv'
  BY <1>2, <1>3, <1>4 DEF SemInv
<1>6. Order(sem, "SEM")' = Order(sem, "SEM") /\ Handed' = Handed \ {t}
  BY <1>2 DEF Order, Waiters, Waiting, Handed
<1>7. CASE k.task_wait_rc[t] = "TERR_NO_ERR"
  <2>1. t \in Handed
    BY <1>2, <1>3, <1>7, HandedIs DEF Got
  <2>2. Promise!Return(t)
    BY <1>2, <1>6, <1>7, <2>1 DEF Promise!Return
  <2>3. QED
    BY <1>3, <1>5, <2>2 DEF Promise!Next
<1>8. CASE k.task_wait_rc[t] # "TERR_NO_ERR"
  <2>1. t \notin Handed
    BY <1>8, HandedIs DEF Got
  <2>2. Promise!Idle
    BY <1>2, <1>6, <1>8, <2>1 DEF Promise!Idle
  <2>3. QED
    BY <1>5, <2>2 DEF Promise!Next
<1>9. QED
  BY <1>7, <1>8

-----------------------------------------------------------------------------
\* The calls and interrupts of the tasks, and the delete function.

\* The line after a step that takes u off it, or leaves it alone.
LEMMA LineLeft ==
  ASSUME SemInv, NEW w, Sees(w)
  PROVE  /\ SameLines(k, k', kinds) => Line(k', sem, "SEM", w) /\ Getters' = Getters
         /\ \A i \in DOMAIN WaitLists : \A x, u : LeavesList(kinds, i, x, u) =>
              /\ u \in Waits(k) /\ u \in AppTask /\ Waits(k') = Waits(k) \ {u}
              /\ Line(k', sem, "SEM", RemoveFirst(w, u)) /\ Getters' = Getters \ {u}
              /\ u \in Range(w) /\ ~NoWaiters(i)
<1>1. /\ Line(k, sem, "SEM", w) /\ WaitersOK(k, kinds) /\ KernelOK(k)
  BY DEF Sees, SemInv, ObjectInv, IInv
<1>2. ASSUME SameLines(k, k', kinds)
      PROVE  Line(k', sem, "SEM", w) /\ Getters' = Getters
  <2>1. Line(k', sem, "SEM", w)
    BY <1>1, <1>2, OneKind DEF SameLines
  <2>2. QED
    BY <1>1, <2>1 DEF Line, Getters
<1>3. ASSUME NEW i \in DOMAIN WaitLists, NEW x, NEW u, LeavesList(kinds, i, x, u)
      PROVE  /\ u \in Waits(k) /\ u \in AppTask /\ Waits(k') = Waits(k) \ {u}
             /\ Line(k', sem, "SEM", RemoveFirst(w, u)) /\ Getters' = Getters \ {u}
             /\ u \in Range(w) /\ ~NoWaiters(i)
  <2>1. /\ i = 1 /\ Line(k, sem, "SEM", x) /\ u \in Range(x)
        /\ Line(k', sem, "SEM", RemoveFirst(x, u)) /\ Waits(k') = Waits(k) \ {u}
    BY <1>3, OneKind DEF LeavesList
  <2>2. x = w
    BY <1>1, <2>1, LineOrder
  <2>3. u \in Waits(k) /\ u \in AppTask
    BY <1>1, <2>1, OneKind, LineTasks DEF Line, On
  <2>4. Getters' = Getters \ {u}
    <3>1. \A j \in DOMAIN WaitLists : On(k', kinds[j]) = On(k, kinds[j]) \ {u}
      BY <1>1, <1>3, OneKind, Members
    <3>2. QED
      BY <3>1, OneKind DEF Getters
  <2>5. ~NoWaiters(i)
    <3>1. x # <<>>
      BY <2>1 DEF Range
    <3>2. QED
      BY <1>1, <2>1, <3>1, EmptyLine, OneKind DEF NoWaiters
  <2>6. QED
    BY <2>1, <2>2, <2>3, <2>4, <2>5
<1>4. QED
  BY <1>2, <1>3

LEMMA SemPlain ==
  ASSUME SemInv, PlainStep, UNCHANGED semaphore, report' = None
  PROVE  SemInv' /\ Promise!Next
<1>1. count' = count /\ max_count' = max_count /\ acquiring' = acquiring
  BY DEF semaphore
<1>2. /\ ObjectInv(kinds)' /\ Waits(k') \subseteq Waits(k) \cup {tn_timer_task}
      /\ \/ SameLines(k, k', kinds)
         \/ \E i \in DOMAIN WaitLists : \E x, u : LeavesList(kinds, i, x, u)
      /\ \/ id' = id
         \/ id /\ ~id' /\ k' = k /\ \A j \in DOMAIN WaitLists : NoWaiters(j)
      /\ k.created \subseteq k'.created /\ \A t \in k.created : Undone(t)
  BY PlainStepOK, OneKind DEF SemInv
<1>3. \A t \in AppTask : Got(t)' <=> Got(t)
  <2> TAKE t \in AppTask
  <2>1. CASE t \notin acquiring
    BY <1>1, <2>1 DEF Got
  <2>2. CASE t \in acquiring
    <3>1. t \in Task /\ t # tn_timer_task /\ Undone(t)
      BY <1>2, <2>2, Nodes DEF SemInv
    <3>2. CASE k'.task_wait_rc[t] = k.task_wait_rc[t] /\ (t \in Waits(k) => t \in Waits(k'))
      <4>1. t \in Waits(k) <=> t \in Waits(k')
        BY <1>2, <3>1, <3>2
      <4>2. QED
        BY <1>1, <3>1, <3>2, <4>1 DEF Got, Waits
    <3>3. CASE t \in Waits(k) /\ k'.task_wait_rc[t] = "TERR_DLT"
      BY <3>3 DEF Got, Waits
    <3>4. QED
      BY <3>1, <3>2, <3>3 DEF Undone
  <2>3. QED
    BY <2>1, <2>2
<1>4. Handed' = Handed
  <2>1. Handed \subseteq AppTask /\ acquiring' \subseteq AppTask
    BY <1>1 DEF Handed, SemInv
  <2>2. \A t \in AppTask : Got(t)' <=> t \in Handed
    BY <1>3, HandedIs
  <2>3. QED
    BY <2>1, <2>2, HandedAfter
<1>5. PICK w : Sees(w)
  BY SomeView
<1>6. /\ Order(sem, "SEM") = w /\ w \in Seq(Node) /\ (w = <<>> <=> noWaiter)
      /\ (w = <<>> <=> Getters = {})
  BY <1>5, View
<1>7. ASSUME Getters' \subseteq Getters, id' = id \/ Getters = {}
      PROVE  SemInv'
  BY <1>1, <1>2, <1>7 DEF SemInv
<1>8. CASE SameLines(k, k', kinds)
  <2>1. Line(k', sem, "SEM", w) /\ Getters' = Getters
    BY <1>5, <1>8, LineLeft
  <2>2. Order(sem, "SEM")' = Order(sem, "SEM")
    BY <1>6, <2>1, ViewAfter
  <2>3. CASE id' = id
    <3>1. Promise!Idle
      BY <1>1, <1>4, <2>2, <2>3 DEF Promise!Idle
    <3>2. QED
      BY <1>7, <2>1, <2>3, <3>1 DEF Promise!Next
  <2>4. CASE id /\ ~id' /\ \A j \in DOMAIN WaitLists : NoWaiters(j)
    <3>1. w = <<>> /\ Getters = {}
      BY <1>6, <2>4, OneKind DEF NoWaiters, noWaiter
    <3>2. id' = FALSE
      BY <1>2, <2>4 DEF ObjectInv, ObjectOK
    <3>3. Promise!Delete
      BY <1>1, <1>4, <1>6, <2>2, <2>4, <3>1, <3>2 DEF Promise!Delete
    <3>4. QED
      BY <1>7, <2>1, <3>1, <3>3 DEF Promise!Next
  <2>5. QED
    BY <1>2, <2>3, <2>4
<1>9. ASSUME NEW i \in DOMAIN WaitLists, NEW x, NEW u, LeavesList(kinds, i, x, u)
      PROVE  SemInv' /\ Promise!Next
  <2>1. /\ u \in AppTask /\ u \in Range(w) /\ Getters' = Getters \ {u}
        /\ Line(k', sem, "SEM", RemoveFirst(w, u)) /\ ~NoWaiters(i)
    BY <1>5, <1>9, LineLeft
  <2>2. id' = id
    BY <1>2, <2>1
  <2>3. Order(sem, "SEM")' = Promise!RemoveFirst(w, u) /\ Promise!Contains(w, u)
    BY <1>6, <2>1, ViewAfter, SameRemoval
  <2>4. Promise!GiveUp(u)
    BY <1>1, <1>4, <1>6, <2>2, <2>3 DEF Promise!GiveUp
  <2>5. QED
    BY <1>7, <2>1, <2>2, <2>4 DEF Promise!Next
<1>10. QED
  BY <1>2, <1>8, <1>9

\* A task that ends leaves the wait queue, or the unit on its way to it is lost.
LEMMA SemEnds ==
  ASSUME SemInv, NEW t \in AppTask, acquiring' = acquiring \ {t},
         UNCHANGED <<count, max_count>>, report' = None,
         \/ ~Sleeping(t) /\ Terminate(t)
         \/ /\ Free /\ tn_task_exit(FALSE) /\ UNCHANGED object /\ t = tn_curr_run_task
            /\ t \notin acquiring
  PROVE  SemInv' /\ Promise!Next
<1>1. PICK w : Sees(w)
  BY SomeView
<1>2. t \in Task /\ ObjectInv(kinds)
  BY Nodes DEF SemInv
<1>3. /\ Order(sem, "SEM") = w /\ w \in Seq(Node) /\ Range(w) = Getters
      /\ Getters \subseteq Waits(k)
  BY <1>1, View DEF Getters, On
<1>4. /\ k'.created = k.created
      /\ \A u \in Task \ {t} : k'.task_wait_rc[u] = k.task_wait_rc[u]
  <2>1. Cleared(k, k', t)
    BY <1>2, EndCodes, OneKind DEF Terminate
  <2>2. k.task_wait_rc \in [Task -> {"TERR_NO_ERR", "TERR_TIMEOUT", "TERR_DLT"}]
    BY <1>2 DEF ObjectInv, IInv, KernelOK, KernelState
  <2>3. QED
    BY <2>1, <2>2 DEF Cleared
<1>5. /\ id' = id /\ ObjectInv(kinds)'
      /\ \/ /\ SameLines(k, k', kinds) /\ t \notin Waits(k)
            /\ Waits(k) \subseteq Waits(k') /\ Waits(k') \subseteq Waits(k) \cup {tn_timer_task}
         \/ \E i \in DOMAIN WaitLists : \E x : LeavesList(kinds, i, x, t)
  <2>1. CASE ~Sleeping(t) /\ Terminate(t)
    BY <1>2, <2>1, TerminateStepOK, OneKind
  <2>2. CASE Free /\ tn_task_exit(FALSE) /\ UNCHANGED object /\ t = tn_curr_run_task
    <3>1. TaskCall
      BY <2>2 DEF TaskCall
    <3>2. /\ SameLines(k, k', kinds) /\ id' = id /\ ObjectInv(kinds)'
          /\ Waits(k) \subseteq Waits(k') /\ Waits(k') \subseteq Waits(k) \cup {tn_timer_task}
      BY <1>2, <3>1, TaskStepOK, OneKind
    <3>3. k.task_state[t] = "RUNNABLE"
      BY <1>2, <2>2, CallerFacts DEF tn_task_exit, Caller, ObjectInv
    <3>4. QED
      BY <3>2, <3>3 DEF Waits, Waiting
  <2>3. QED
    BY <2>1, <2>2
<1>6. CASE /\ SameLines(k, k', kinds) /\ t \notin Waits(k)
           /\ Waits(k) \subseteq Waits(k') /\ Waits(k') \subseteq Waits(k) \cup {tn_timer_task}
  <2>1. Line(k', sem, "SEM", w) /\ Getters' = Getters
    BY <1>1, <1>6, LineLeft
  <2>2. Order(sem, "SEM")' = Order(sem, "SEM")
    BY <1>3, <2>1, ViewAfter
  <2>3. SemInv'
    BY <1>3, <1>4, <1>5, <1>6, <2>1 DEF SemInv
  <2>4. \A u \in AppTask \ {t} : Got(u)' <=> Got(u)
    <3> TAKE u \in AppTask \ {t}
    <3>1. u \in Task /\ u # t /\ u # tn_timer_task
      BY Nodes
    <3>2. u \in Waits(k) <=> u \in Waits(k')
      BY <1>6, <3>1
    <3>3. QED
      BY <1>4, <3>1, <3>2 DEF Got, Waits
  <2>5. Handed' = Handed \ {t}
    <3>1. Handed \ {t} \subseteq AppTask /\ acquiring' \subseteq AppTask /\ ~Got(t)'
      BY DEF Handed, SemInv, Got
    <3>2. \A u \in AppTask : Got(u)' <=> u \in Handed \ {t}
      BY <2>4, <3>1, HandedIs
    <3>3. QED
      BY <3>1, <3>2, HandedAfter
  <2>6. Promise!GiveUp(t) \/ Promise!Idle
    BY <1>5, <2>2, <2>5 DEF Promise!GiveUp, Promise!Idle
  <2>7. QED
    BY <2>3, <2>6 DEF Promise!Next
<1>7. ASSUME NEW i \in DOMAIN WaitLists, NEW x, LeavesList(kinds, i, x, t)
      PROVE  SemInv' /\ Promise!Next
  <2>1. /\ t \in Waits(k) /\ Waits(k') = Waits(k) \ {t} /\ Getters' = Getters \ {t}
        /\ t \in Range(w) /\ Line(k', sem, "SEM", RemoveFirst(w, t))
    BY <1>1, <1>7, LineLeft
  <2>2. SemInv'
    BY <1>4, <1>5, <2>1 DEF SemInv
  <2>3. \A u \in AppTask \ {t} : Got(u)' <=> Got(u)
    BY <1>4, <2>1, Nodes DEF Got, Waits
  <2>4. ~Got(t)
    BY <1>2, <2>1 DEF Got, Waits
  <2>5. Handed' = Handed
    <3>1. Handed \subseteq AppTask /\ acquiring' \subseteq AppTask /\ ~Got(t)'
      BY DEF Handed, SemInv, Got
    <3>2. \A u \in AppTask : Got(u)' <=> u \in Handed
      BY <2>3, <2>4, <3>1, HandedIs
    <3>3. QED
      BY <3>1, <3>2, HandedAfter
  <2>6. Order(sem, "SEM")' = Promise!RemoveFirst(w, t) /\ Promise!Contains(w, t)
    BY <1>3, <2>1, ViewAfter, SameRemoval
  <2>7. Promise!GiveUp(t)
    BY <1>3, <1>5, <2>5, <2>6 DEF Promise!GiveUp
  <2>8. QED
    BY <2>2, <2>7 DEF Promise!Next
<1>8. QED
  BY <1>5, <1>6, <1>7

-----------------------------------------------------------------------------
\* Every step.

LEMMA SemInitOK == SemInit => SemInv /\ Promise!Init
<1> SUFFICES ASSUME SemInit
             PROVE  SemInv /\ Promise!Init
  OBVIOUS
<1>1. /\ ObjectInv(kinds) /\ Waits(k) = {}
      /\ \A j \in DOMAIN WaitLists : Line(k, WaitLists[j], kinds[j], <<>>)
  BY ObjectInitOK, OneKind DEF SemInit
<1>2. SemInv
  BY <1>1, OneKind DEF SemInit, SemInv, Getters, On
<1>3. Order(sem, "SEM") = <<>>
  BY <1>1, OneKind, LineOrder
<1>4. QED
  BY <1>2, <1>3 DEF SemInit, ObjectInit, Promise!Init, Handed

LEMMA SemStays ==
  ASSUME SemInv, UNCHANGED all
  PROVE  SemInv' /\ UNCHANGED Promise!vars
<1>1. SemInv'
  BY DEF SemInv, ObjectInv, IInv, Control, Settled, Right, WaitersOK, ObjectOK, DeletersOK,
         Deletes, NoWaiters, all, vars, object, semaphore, Getters
<1>2. UNCHANGED Promise!vars
  BY DEF Promise!vars, Order, Waiters, Waiting, Handed, all, vars, object, semaphore
<1>3. QED
  BY <1>1, <1>2

LEMMA SemStepOK ==
  ASSUME SemInv, SemNext
  PROVE  SemInv' /\ Promise!Next
<1>1. CASE SemCall({TN_WAIT_INFINITE})
  <2>1. \/ tn_sem_create \/ tn_sem_signal \/ tn_sem_polling
        \/ tn_sem_acquire(TN_WAIT_INFINITE)
    BY <1>1 DEF SemCall
  <2>2. QED
    BY <2>1, CreateSemOK, SignalOK, AcquireOK
<1>2. CASE NobodyDeletes /\ SemInterrupt
  BY <1>2, SignalOK, AcquireOK DEF SemInterrupt
<1>3. ASSUME PlainStep, UNCHANGED semaphore, report' = None
      PROVE  SemInv' /\ Promise!Next
  BY <1>3, SemPlain
<1>4. CASE Others
  <2>1. CASE AcquireEnd
    BY <2>1, SemReturns
  <2>2. CASE /\ \/ DeleteSteps \/ Start \/ Enter \/ Leave \/ Switch
                \/ \E t \in AppTask : /\ Idle /\ UNCHANGED object
                                      /\ \/ tn_task_suspend(t) \/ tn_task_resume(t)
                                         \/ tn_task_activate(t)
             /\ report' = None /\ UNCHANGED semaphore
    <3>1. PlainStep
      BY <2>2 DEF PlainStep, Idle
    <3>2. QED
      BY <1>3, <2>2, <3>1
  <2>3. ASSUME NEW t \in AppTask, Idle, ~Sleeping(t), Terminate(t),
               acquiring' = acquiring \ {t}, report' = None, UNCHANGED <<count, max_count>>
        PROVE  SemInv' /\ Promise!Next
    BY <2>3, SemEnds
  <2>4. CASE /\ Idle /\ tn_task_exit(FALSE) /\ UNCHANGED <<object, acquiring>>
             /\ report' = None /\ UNCHANGED <<count, max_count>>
    <3>1. PICK t : t = tn_curr_run_task
      OBVIOUS
    <3>2. /\ t \in AppTask /\ Free /\ t \notin acquiring /\ acquiring' = acquiring \ {t}
          /\ UNCHANGED object
      BY <2>4, <3>1 DEF Idle, Caller
    <3>3. QED
      BY <2>4, <3>1, <3>2, SemEnds
  <2>5. QED
    BY <1>4, <2>1, <2>2, <2>3, <2>4, Zenon DEF Others
<1>5. CASE NobodyDeletes /\ TaskInterrupt /\ report' = None /\ UNCHANGED semaphore
  BY <1>3, <1>5 DEF PlainStep
<1>6. CASE Undisturbed /\ Delete
  BY <1>3, <1>6 DEF PlainStep, Delete
<1>7. QED
  BY <1>1, <1>2, <1>4, <1>5, <1>6, Zenon DEF SemNext

\* What the invariant says of the properties.
LEMMA SemSoundFrom ==
  ASSUME SemInv
  PROVE  SemSound
<1>1. PICK w : Line(k, sem, "SEM", w)
  BY SomeView DEF Sees
<1>2. Waiters("SEM") = Range(w) /\ WaitListSound(sem, "SEM")
  BY <1>1, LineOrder
<1>3. TypeOK
  BY TypesFrom DEF SemInv, ObjectInv
<1>4. ObjectTypeOK
  BY <1>3 DEF SemInv, ObjectInv, ObjectOK, ObjectTypeOK
<1>5. QED
  BY <1>1, <1>2, <1>4 DEF SemSound, SemInv, Line, Getters

-----------------------------------------------------------------------------
\* The theorems: each for every number of tasks, all their priorities and every
\* start count and maximum.

THEOREM SemInvariant == SemSpec => []SemInv
<1>1. SemInit => SemInv
  BY SemInitOK
<1>2. SemInv /\ [SemNext]_all => SemInv'
  BY SemStepOK, SemStays
<1>3. QED
  BY <1>1, <1>2, PTL DEF SemSpec

\* Whatever tasks and handlers do with the semaphore and with each other, tasks
\* wait for it only while it exists and has no unit, and its wait queue in
\* tn_sem.c is an intact ring of exactly these tasks.
THEOREM SemCorrect == SemSpec => []SemSound
BY SemSoundFrom, SemInvariant, PTL

\* The scheduler stays right with tasks that wait on a queue of an object: the
\* ready lists, the bitmap and the choice of the running task.
THEOREM SemScheduler == SemSpec => []SchedulerSound
<1>1. SemInv => SchedulerSound
  BY SchedulerFrom DEF SemInv, ObjectInv
<1>2. QED
  BY <1>1, SemInvariant, PTL

\* tn_sem.c implements the semaphore of the abstract specification: what its
\* calls report as given or taken is a unit given or taken, a task wakes with
\* success by a signal only, and signals serve the tasks in the order they came.
THEOREM SemImplements == SemSpec => ImplementsSemaphore
<1>1. SemInit => SemInv /\ Promise!Init
  BY SemInitOK
<1>2. SemInv /\ [SemNext]_all => SemInv' /\ [Promise!Next]_(Promise!vars)
  BY SemStepOK, SemStays
<1>3. QED
  BY <1>1, <1>2, PTL DEF SemSpec, ImplementsSemaphore, Promise!Spec
=============================================================================
