---------------------------- MODULE TNEventProofs ----------------------------
(***************************************************************************)
(* The event flags of TNEvent keep their promise, whatever the tasks,      *)
(* their priorities and the flags.                                         *)
(***************************************************************************)
EXTENDS TNEvent, TNKernelProofs

kinds == <<"EVENT">>
Expecting == On(k, "EVENT")

\* A task waits only while the object exists and the flags that are set do not
\* meet its condition.
EvInv == /\ ObjectInv(kinds)
         /\ pattern \in Pattern /\ attr \in Attrs \cup {{}}
         /\ ewait_pattern \in [Task -> Pattern] /\ ewait_mode \in [Task -> Mode]
         /\ Expecting # {} => id
         /\ \A t \in Expecting : /\ ewait_pattern[t] # {}
                                /\ ~Satisfied(pattern, ewait_pattern[t], ewait_mode[t])

LEMMA OneKind ==
  /\ Kinds(kinds) /\ WaitLists # <<>> /\ DOMAIN WaitLists = {1}
  /\ kinds[1] = "EVENT" /\ wait_queue = WaitLists[1] /\ wait_queue \in WaitQueue
  /\ IsFiniteSet(Node)
<1>1. Len(WaitLists) = 1 /\ WaitLists \in Seq(WaitQueue) /\ Range(WaitLists) = WaitQueue
  BY EventAssumption, WaitListsAssumption
<1>2. DOMAIN WaitLists = {1} /\ WaitLists # <<>> /\ wait_queue \in WaitQueue
  BY <1>1 DEF wait_queue
<1>3. kinds \in [1 .. 1 -> WaitReason \ {"SLEEP"}] /\ kinds[1] = "EVENT"
  BY DEF kinds, WaitReason
<1>4. IsInjective(kinds) /\ IsInjective(WaitLists)
  BY <1>2, <1>3 DEF IsInjective
<1>5. IsFiniteSet(Node)
  <2>1. WaitQueue = {wait_queue}
    BY <1>1, <1>2 DEF Range, wait_queue
  <2>2. IsFiniteSet(WaitQueue) /\ IsFiniteSet({tn_timer_task}) /\ IsFiniteSet({tn_idle_task})
    BY <2>1, FS_Singleton
  <2>3. IsFiniteSet(Priority)
    BY PriorityAssumption, FS_Interval DEF Priority
  <2>4. Node = ((AppTask \cup {tn_timer_task}) \cup {tn_idle_task}) \cup Priority \cup WaitQueue
    BY DEF Node, Task
  <2>5. QED
    BY <2>2, <2>3, <2>4, FiniteAssumption, FS_Union
<1>6. QED
  BY <1>1, <1>2, <1>3, <1>4, <1>5 DEF Kinds, wait_queue

-----------------------------------------------------------------------------
\* The walk over the wait queue, entry by entry.

Step(a, t, flags) == ScanEntry(a, t, flags)
\* h has what the fold is on each set of positions.
ScanOn(h, b, q, flags, S) ==
  h = [s \in SUBSET S |-> IF s = {} THEN b
                          ELSE Step(h[s \ {Max(s)}], q[Max(s)], flags)]

LEMMA UpTo ==
  ASSUME NEW m \in Nat
  PROVE  /\ Max(1 .. m + 1) = m + 1 /\ (1 .. m + 1) \ {m + 1} = 1 .. m
         /\ \A s \in SUBSET (1 .. m + 1) : m + 1 \in s =>
              Max(s) = m + 1 /\ s \ {m + 1} \in SUBSET (1 .. m)
<1>1. ASSUME NEW s \in SUBSET (1 .. m + 1), m + 1 \in s
      PROVE  Max(s) = m + 1
  <2>1. \A y \in s : m + 1 >= y
    OBVIOUS
  <2>2. \A x \in s : (\A y \in s : x >= y) => x = m + 1
    BY <1>1
  <2>3. QED
    BY <1>1, <2>1, <2>2 DEF Max
<1>2. QED
  BY <1>1

LEMMA ScanExists ==
  ASSUME NEW b, NEW q, NEW flags, NEW n \in Nat
  PROVE  \E h : ScanOn(h, b, q, flags, 1 .. n)
<1> DEFINE N == {m \in Nat : \E h : ScanOn(h, b, q, flags, 1 .. m)}
<1>1. 0 \in N
  <2> DEFINE h == [s \in SUBSET (1 .. 0) |-> b]
  <2>1. \A s \in SUBSET (1 .. 0) : s = {}
    OBVIOUS
  <2>2. ScanOn(h, b, q, flags, 1 .. 0)
    BY <2>1 DEF ScanOn
  <2>3. QED
    BY <2>2
<1>2. ASSUME NEW m \in Nat, m \in N
      PROVE  m + 1 \in N
  <2>1. PICK g : ScanOn(g, b, q, flags, 1 .. m)
    BY <1>2
  <2> DEFINE h == [s \in SUBSET (1 .. m + 1) |->
                     IF m + 1 \in s THEN Step(g[s \ {m + 1}], q[m + 1], flags) ELSE g[s]]
  <2>2. ASSUME NEW s \in SUBSET (1 .. m + 1)
        PROVE  h[s] = IF s = {} THEN b ELSE Step(h[s \ {Max(s)}], q[Max(s)], flags)
    <3>1. CASE m + 1 \in s
      <4>1. Max(s) = m + 1 /\ s \ {m + 1} \in SUBSET (1 .. m) /\ s # {}
        BY <3>1, UpTo
      <4>2. h[s \ {m + 1}] = g[s \ {m + 1}]
        BY <4>1
      <4>3. QED
        BY <3>1, <4>1, <4>2
    <3>2. CASE m + 1 \notin s
      <4>0. s \subseteq 1 .. m
        <5>1. \A i \in s : i \in 1 .. m + 1 /\ i # m + 1
          BY <3>2
        <5>2. QED
          BY <5>1
      <4>1. s \in SUBSET (1 .. m) /\ \A x : s \ {x} \in SUBSET (1 .. m)
        BY <4>0
      <4>2. h[s] = g[s] /\ \A x : h[s \ {x}] = g[s \ {x}]
        BY <4>1
      <4> HIDE DEF h
      <4>3. QED
        BY <2>1, <4>1, <4>2 DEF ScanOn
    <3>3. QED
      BY <3>1, <3>2
  <2>3. h = [s \in SUBSET (1 .. m + 1) |-> h[s]]
    OBVIOUS
  <2> HIDE DEF h
  <2>4. ScanOn(h, b, q, flags, 1 .. m + 1)
    BY <2>2, <2>3 DEF ScanOn
  <2>5. QED
    BY <2>4
<1> HIDE DEF N
<1>3. Nat \subseteq N
  BY <1>1, <1>2, SetInduction
<1>4. QED
  BY <1>3 DEF N

\* c[i] is what the scan has after the first i entries of w.
Walk(c, w, flags) ==
  /\ c[0] = Scan
  /\ \A i \in 1 .. Len(w) : c[i] = Step(c[i - 1], w[i], flags)

LEMMA ScanWalk ==
  ASSUME NEW flags, NEW w, w \in Seq(Task), Entries(k.q, wait_queue) = w
  PROVE  \E c : Walk(c, w, flags) /\ scan_event_waitqueue(flags) = c[Len(w)]
<1> DEFINE n == Len(w)
           H == CHOOSE h : h = [s \in SUBSET DOMAIN w |->
                  IF s = {} THEN Scan ELSE Step(h[s \ {Max(s)}], w[Max(s)], flags)]
<1>1. scan_event_waitqueue(flags) = H[DOMAIN w]
  BY DEF scan_event_waitqueue, FoldLeft, MapThenFoldSet, Step
<1>2. n \in Nat /\ DOMAIN w = 1 .. n
  OBVIOUS
<1>3. ScanOn(H, Scan, w, flags, 1 .. n)
  <2>1. \E h : ScanOn(h, Scan, w, flags, 1 .. n)
    BY <1>2, ScanExists
  <2>2. QED
    BY <1>2, <2>1, Zenon DEF ScanOn
<1> HIDE DEF H
<1> DEFINE c == [i \in 0 .. n |-> H[1 .. i]]
<1>4. c[0] = Scan
  <2>1. 1 .. 0 = {} /\ {} \in SUBSET (1 .. n)
    OBVIOUS
  <2>2. H[{}] = Scan
    BY <1>3, <2>1 DEF ScanOn
  <2>3. QED
    BY <1>2, <2>1, <2>2
<1>5. ASSUME NEW i \in 1 .. n
      PROVE  c[i] = Step(c[i - 1], w[i], flags)
  <2>1. PICK m \in Nat : i = m + 1
    BY <1>2
  <2>2. Max(1 .. i) = i /\ (1 .. i) \ {i} = 1 .. m /\ 1 .. i # {} /\ 1 .. i \in SUBSET (1 .. n)
    <3>1. Max(1 .. i) = i /\ (1 .. i) \ {i} = 1 .. m
      BY <2>1, UpTo
    <3>2. i \in 1 .. i /\ \A j \in 1 .. i : j \in 1 .. n
      BY <1>2
    <3>3. QED
      BY <3>1, <3>2
  <2>3. H[1 .. i] = Step(H[1 .. m], w[i], flags)
    BY <1>3, <2>2 DEF ScanOn
  <2>4. c[i] = H[1 .. i] /\ c[i - 1] = H[1 .. m]
    BY <1>2, <2>1
  <2>5. QED
    BY <2>3, <2>4
<1>6. c[n] = H[DOMAIN w]
  BY <1>2
<1>7. QED
  BY <1>1, <1>4, <1>5, <1>6 DEF Walk

Met(t, flags) == Satisfied(flags, ewait_pattern[t], ewait_mode[t])

\* What the scan has when it has released the tasks of T.
Wakes(a, T, flags) ==
  /\ KernelOK(a.s) /\ a.s.priority = k.priority
  /\ Apart(k, a.s, wait_queue, "EVENT") /\ \E v : Line(a.s, wait_queue, "EVENT", v)
  /\ Waits(a.s) = Waits(k) \ T /\ On(a.s, "EVENT") = Expecting \ T
  /\ Rdy(a.s) = Rdy(k) \cup {t \in T : ~Suspended(k, t)}
  /\ a.wcflag \in BOOLEAN /\ (a.wcflag <=> \E t \in T : ~Suspended(k, t))
  /\ ~a.wcflag => a.s.tn_next_task_to_run = k.tn_next_task_to_run
  /\ a.got = [t \in Task |-> IF t \in T THEN flags ELSE ewait_pattern[t]]
  /\ \A u \in Task \ T : a.s.task_state[u] = k.task_state[u]
Coded(s, T) ==
  /\ DOMAIN s = DOMAIN k /\ s.created = k.created
  /\ s.task_wait_rc = [t \in Task |-> IF t \in T THEN "TERR_NO_ERR" ELSE k.task_wait_rc[t]]

LEMMA ScanStarts ==
  ASSUME EvInv, NEW flags
  PROVE  Wakes(Scan, {}, flags) /\ Coded(Scan.s, {})
<1>1. KernelOK(k) /\ k \in KernelState /\ \E v : Line(k, wait_queue, "EVENT", v)
  BY OneKind DEF EvInv, ObjectInv, IInv, WaitersOK, KernelOK
<1>2. Scan.s = k /\ Scan.got = ewait_pattern /\ Scan.wcflag = FALSE
  BY DEF Scan
<1>3. k.task_wait_rc = [t \in Task |-> k.task_wait_rc[t]]
  BY <1>1 DEF KernelState
<1>4. ewait_pattern = [t \in Task |-> ewait_pattern[t]]
  BY DEF EvInv
<1>5. Apart(k, k, wait_queue, "EVENT")
  BY DEF Apart
<1>6. QED
  BY <1>1, <1>2, <1>3, <1>4, <1>5 DEF Wakes, Coded, Expecting

LEMMA ScanSkips ==
  ASSUME NEW a, NEW T, NEW flags, Wakes(a, T, flags), NEW t \in Task \ T, ~Met(t, flags)
  PROVE  Step(a, t, flags) = a
BY DEF Wakes, Met, Step, ScanEntry

LEMMA ScanReleases ==
  ASSUME EvInv, NEW a, NEW T, T \subseteq Expecting, NEW flags, Wakes(a, T, flags),
         Coded(a.s, T), NEW t \in Expecting \ T, Met(t, flags)
  PROVE  Wakes(Step(a, t, flags), T \cup {t}, flags) /\ Coded(Step(a, t, flags).s, T \cup {t})
<1>1. PICK b : b = Step(a, t, flags)
  OBVIOUS
<1>2. PICK s : s = a.s
  OBVIOUS
<1>3. PICK r : r = Released(s, t)
  OBVIOUS
<1>4. t \in Task /\ a.got[t] = ewait_pattern[t] /\ k.task_state[t] = s.task_state[t]
  BY <1>2 DEF Wakes, Expecting, On, Waits
<1>5. /\ b.s = r /\ b.got = [a.got EXCEPT ![t] = flags]
      /\ b.wcflag = (a.wcflag \/ ~Suspended(s, t))
  BY <1>1, <1>2, <1>3, <1>4 DEF Step, ScanEntry, Met, Released, Unlinked
<1>6. PICK v : Line(s, wait_queue, "EVENT", v)
  BY <1>2 DEF Wakes
<1>7. KernelOK(s) /\ wait_queue \in WaitQueue /\ t \in Range(v) /\ On(s, "EVENT") = Range(v)
      /\ (Suspended(s, t) <=> Suspended(k, t)) /\ s.priority = k.priority
      /\ Apart(k, s, wait_queue, "EVENT")
  BY <1>2, <1>4, <1>6, OneKind DEF Wakes, Line, Suspended
<1>8. /\ KernelOK(r) /\ r.priority = s.priority
      /\ Suspended(s, t) =>
           Rdy(r) = Rdy(s) /\ r.tn_next_task_to_run = s.tn_next_task_to_run
      /\ ~Suspended(s, t) => Rdy(r) = Rdy(s) \cup {t}
      /\ Line(r, wait_queue, "EVENT", RemoveFirst(v, t)) /\ Apart(s, r, wait_queue, "EVENT")
      /\ Waits(r) = Waits(s) \ {t}
      /\ Range(RemoveFirst(v, t)) = Range(v) \ {t}
      /\ \A u \in Task \ {t} : r.task_state[u] = s.task_state[u]
  BY ONLY <1>3, <1>6, <1>7, ReleaseOK
<1>9. /\ Waits(s) = Waits(k) \ T /\ On(s, "EVENT") = Expecting \ T
      /\ Rdy(s) = Rdy(k) \cup {u \in T : ~Suspended(k, u)}
      /\ a.wcflag \in BOOLEAN /\ (a.wcflag <=> \E u \in T : ~Suspended(k, u))
      /\ ~a.wcflag => s.tn_next_task_to_run = k.tn_next_task_to_run
      /\ a.got = [u \in Task |-> IF u \in T THEN flags ELSE ewait_pattern[u]]
      /\ \A u \in Task \ T : s.task_state[u] = k.task_state[u]
  BY <1>2 DEF Wakes
<1>10. Apart(k, r, wait_queue, "EVENT")
  BY <1>7, <1>8, ApartTrans
<1>11. Waits(r) = Waits(k) \ (T \cup {t}) /\ On(r, "EVENT") = Expecting \ (T \cup {t})
  BY <1>7, <1>8, <1>9 DEF Line
<1>12. Rdy(r) = Rdy(k) \cup {u \in T \cup {t} : ~Suspended(k, u)}
  BY <1>7, <1>8, <1>9
<1>13. b.wcflag \in BOOLEAN /\ (b.wcflag <=> \E u \in T \cup {t} : ~Suspended(k, u))
  <2>1. b.wcflag <=> (a.wcflag \/ ~Suspended(k, t))
    BY <1>5, <1>7, Zenon
  <2>2. b.wcflag \in BOOLEAN
    BY <1>5, Zenon
  <2>3. QED
    BY <1>9, <2>1, <2>2, Zenon
<1>14. ~b.wcflag => r.tn_next_task_to_run = k.tn_next_task_to_run
  <2>1. ~b.wcflag => ~a.wcflag /\ Suspended(s, t)
    BY <1>5, Zenon
  <2>2. QED
    BY <1>8, <1>9, <2>1
<1>15. b.got = [u \in Task |-> IF u \in T \cup {t} THEN flags ELSE ewait_pattern[u]]
  BY <1>4, <1>5, <1>9
<1>16. \A u \in Task \ (T \cup {t}) : r.task_state[u] = k.task_state[u]
  BY <1>8, <1>9
<1>17. Wakes(b, T \cup {t}, flags)
  BY <1>5, <1>7, <1>8, <1>10, <1>11, <1>12, <1>13, <1>14, <1>15, <1>16 DEF Wakes
<1>18. Coded(r, T \cup {t})
  <2>1. HasCodes(s) /\ HasCodes(Unlinked(s, t)) /\ Codes(Unlinked(s, t)) = Codes(s)
        /\ k \in KernelState /\ s \in KernelState
    <3>1. s \in KernelState /\ k \in KernelState
      BY <1>7 DEF EvInv, ObjectInv, IInv, KernelOK
    <3>2. QED
      BY <3>1 DEF HasCodes, Codes, Unlinked, KernelState
  <2>2. Cleared(Unlinked(s, t), r, t)
    BY <1>3, <2>1, CodesSet DEF Released
  <2>3. /\ DOMAIN r = DOMAIN s /\ r.created = s.created
        /\ r.task_wait_rc = [s.task_wait_rc EXCEPT ![t] = "TERR_NO_ERR"]
    BY <2>1, <2>2 DEF Cleared, Codes
  <2>4. QED
    BY <1>2, <1>4, <2>3 DEF Coded
<1>19. QED
  BY <1>1, <1>5, <1>17, <1>18

\* Those among the first i entries whose condition is met.
Woken(w, i, flags) == {t \in Task : \E j \in 1 .. i : t = w[j] /\ Met(t, flags)}

LEMMA ScanSteps ==
  ASSUME EvInv, NEW w, w \in Seq(Task), IsInjective(w), Range(w) = Expecting, NEW flags,
         NEW c, Walk(c, w, flags)
  PROVE  \A i \in 0 .. Len(w) : /\ Wakes(c[i], Woken(w, i, flags), flags)
                                /\ Coded(c[i].s, Woken(w, i, flags))
<1> DEFINE W(i) == Woken(w, i, flags)
           OK(i) == Wakes(c[i], W(i), flags) /\ Coded(c[i].s, W(i))
           N == {i \in Nat : i <= Len(w) => OK(i)}
<1>1. 0 \in N
  <2>1. W(0) = {}
    BY DEF Woken
  <2>2. c[0] = Scan
    BY DEF Walk
  <2>3. QED
    BY <2>1, <2>2, ScanStarts
<1>2. ASSUME NEW i \in Nat, i \in N
      PROVE  i + 1 \in N
  <2> SUFFICES ASSUME i + 1 <= Len(w)
               PROVE  OK(i + 1)
    OBVIOUS
  <2>1. OK(i)
    BY <1>2
  <2>2. PICK t : t = w[i + 1]
    OBVIOUS
  <2>3. t \in Expecting /\ t \in Task /\ \A j \in 1 .. i : w[j] # t
    BY <2>2 DEF IsInjective, Range
  <2>4. c[i + 1] = Step(c[i], t, flags)
    <3>1. i + 1 \in 1 .. Len(w) /\ (i + 1) - 1 = i
      OBVIOUS
    <3>2. QED
      BY <2>2, <3>1 DEF Walk
  <2>5. W(i) \subseteq Expecting /\ t \notin W(i)
    BY <2>3 DEF Woken, Range
  <2> HIDE DEF N
  <2>6. CASE Met(t, flags)
    <3>1. W(i + 1) = W(i) \cup {t}
      <4>1. \A j : j \in 1 .. i + 1 <=> j \in 1 .. i \/ j = i + 1
        OBVIOUS
      <4>2. QED
        BY <2>2, <2>3, <2>6, <4>1 DEF Woken
    <3>2. QED
      BY <2>1, <2>3, <2>4, <2>5, <2>6, <3>1, ScanReleases
  <2>7. CASE ~Met(t, flags)
    <3>1. W(i + 1) = W(i)
      <4>1. \A j : j \in 1 .. i + 1 <=> j \in 1 .. i \/ j = i + 1
        OBVIOUS
      <4>2. QED
        BY <2>2, <2>7, <4>1 DEF Woken
    <3>2. QED
      BY <2>1, <2>3, <2>4, <2>5, <2>7, <3>1, ScanSkips
  <2>8. QED
    BY <2>6, <2>7
<1> HIDE DEF N
<1>3. Nat \subseteq N
  BY <1>1, <1>2, SetInduction
<1>4. QED
  BY <1>3 DEF N

\* A scan releases exactly the tasks whose condition the flags meet.
Freed(flags) == {t \in Expecting : Met(t, flags)}

LEMMA ScanResult ==
  ASSUME EvInv, NEW flags
  PROVE  /\ Wakes(scan_event_waitqueue(flags), Freed(flags), flags)
         /\ Coded(scan_event_waitqueue(flags).s, Freed(flags))
<1>1. KernelOK(k) /\ k.q \in Links(Node) /\ WaitersOK(k, kinds)
  BY DEF EvInv, ObjectInv, IInv, KernelOK, KernelState, Links
<1>2. PICK w : Line(k, wait_queue, "EVENT", w)
  BY <1>1, OneKind DEF WaitersOK
<1>3. Entries(k.q, wait_queue) = w
  BY <1>1, <1>2, OneKind, RingVisits DEF Line
<1>4. w \in Seq(Node \ {wait_queue}) /\ IsInjective(w) /\ Range(w) = Expecting
  BY <1>2 DEF Line, Holds, Expecting
<1>5. w \in Seq(Task)
  <2>1. \A i \in 1 .. Len(w) : w[i] \in Task
    BY <1>4 DEF Range, Expecting, On, Waits
  <2>2. QED
    BY <1>4, <2>1
<1>6. PICK c : Walk(c, w, flags) /\ scan_event_waitqueue(flags) = c[Len(w)]
  BY <1>3, <1>5, ScanWalk
<1>7. Wakes(c[Len(w)], Woken(w, Len(w), flags), flags) /\ Coded(c[Len(w)].s, Woken(w, Len(w), flags))
  BY <1>4, <1>5, <1>6, ScanSteps
<1>8. Woken(w, Len(w), flags) = Freed(flags)
  BY <1>4, <1>5 DEF Woken, Freed, Range, Expecting, On, Waits
<1>9. QED
  BY <1>6, <1>7, <1>8

-----------------------------------------------------------------------------
\* The calls.

LEMMA FewerFlags ==
  ASSUME NEW flags, NEW fewer, fewer \subseteq flags, NEW want, NEW mode,
         ~Satisfied(flags, want, mode)
  PROVE  ~Satisfied(fewer, want, mode)
BY DEF Satisfied

\* Nobody begins to wait, and no flag is set or nobody is left.
LEMMA EvShrinks ==
  ASSUME EvInv, ObjectInv(kinds)', pattern' \in Pattern, attr' \in Attrs \cup {{}},
         ewait_pattern' \in [Task -> Pattern], ewait_mode' \in [Task -> Mode],
         Expecting' \subseteq Expecting, id' = id \/ Expecting' = {},
         pattern' \subseteq pattern \/ Expecting' = {},
         \A t \in Expecting' : /\ ewait_pattern'[t] = ewait_pattern[t]
                              /\ ewait_mode'[t] = ewait_mode[t]
  PROVE  EvInv'
<1>1. ASSUME NEW t \in Expecting'
      PROVE  /\ ewait_pattern'[t] # {}
             /\ ~Satisfied(pattern', ewait_pattern'[t], ewait_mode'[t])
  <2>1. ewait_pattern[t] # {} /\ ~Satisfied(pattern, ewait_pattern[t], ewait_mode[t])
        /\ pattern' \subseteq pattern
    BY <1>1 DEF EvInv
  <2>2. QED
    BY <1>1, <2>1, FewerFlags
<1>2. Expecting' # {} => id'
  BY DEF EvInv
<1>3. QED
  BY <1>1, <1>2 DEF EvInv

\* A call or a handler that moves nobody.
LEMMA EvReturns ==
  ASSUME EvInv, k' = k, id' \in BOOLEAN, deleting' = deleting,
         \/ Caller /\ Free /\ Returns /\ task_stk' = task_stk
         \/ /\ InHandler /\ NobodyDeletes /\ HandlerCall(FALSE)
            /\ tick_walk' = tick_walk /\ UNCHANGED object
  PROVE  ObjectInv(kinds)' /\ Expecting' = Expecting
<1>1. ObjectInv(kinds)'
  BY CallReturns, HandlerReturns, OneKind DEF EvInv
<1>2. QED
  BY <1>1 DEF Expecting, On, Waits, Waiting

LEMMA NoneAsleep ==
  ASSUME EvInv
  PROVE  noWaiter <=> Expecting = {}
<1>1. PICK w : Line(k, wait_queue, "EVENT", w)
  BY OneKind DEF EvInv, ObjectInv, WaitersOK
<1>2. QED
  BY <1>1, EmptyLine DEF EvInv, ObjectInv, IInv, noWaiter, Expecting

LEMMA EvCreateOK ==
  ASSUME EvInv, NEW at \in Attrs, NEW p \in Pattern, tn_event_create(at, p)
  PROVE  EvInv' /\ k' = k /\ ~id /\ Expecting = {}
<1>1. ~id /\ Expecting = {} /\ KernelOK(k) /\ is_queue_empty(k.q, wait_queue)
  BY NoneAsleep DEF tn_event_create, EvInv, ObjectInv, IInv, noWaiter
<1>2. k' = k
  BY <1>1, ResetEmpty DEF tn_event_create
<1>3. Caller /\ Free /\ Returns /\ task_stk' = task_stk /\ deleting' = deleting
      /\ id' \in BOOLEAN /\ pattern' = p /\ attr' \in Attrs \cup {{}}
      /\ ewait_pattern' = ewait_pattern /\ ewait_mode' = ewait_mode
  BY DEF tn_event_create, Idle, GoodAttr
<1>4. ObjectInv(kinds)' /\ Expecting' = Expecting
  BY <1>2, <1>3, EvReturns
<1>5. EvInv'
  BY <1>1, <1>3, <1>4, EvShrinks DEF EvInv
<1>6. QED
  BY <1>1, <1>2, <1>5

\* Flags that are there, and clearing flags.
LEMMA EvPassOK ==
  ASSUME EvInv, k' = k, UNCHANGED <<object, attr, ewait_pattern, ewait_mode>>,
         pattern' \in {{}, pattern} \/ (\E p \in Pattern : pattern' = pattern \cap p),
         \/ Caller /\ Free /\ Returns /\ task_stk' = task_stk
         \/ InHandler /\ NobodyDeletes /\ HandlerCall(FALSE) /\ tick_walk' = tick_walk
  PROVE  EvInv'
<1>1. id' = id /\ deleting' = deleting /\ id \in BOOLEAN
  BY DEF object, EvInv, ObjectInv, ObjectOK
<1>2. ObjectInv(kinds)' /\ Expecting' = Expecting
  BY <1>1, EvReturns
<1>3. pattern' \in Pattern /\ pattern' \subseteq pattern
  BY DEF EvInv, Pattern
<1>4. QED
  BY <1>1, <1>2, <1>3, EvShrinks DEF EvInv

LEMMA EvWaitOK ==
  ASSUME EvInv, NEW want \in Want, NEW mode \in Mode,
         tn_event_wait(want, mode, TN_WAIT_INFINITE), ~Pass(want, mode)
  PROVE  /\ EvInv' /\ \E w : JoinsList(kinds, 1, w, tn_curr_run_task)
         /\ Expecting' = Expecting \cup {tn_curr_run_task} /\ tn_curr_run_task \notin Expecting
<1>1. /\ Idle /\ id /\ MayWait /\ ~Satisfied(pattern, want, mode)
      /\ ewait_pattern' = [ewait_pattern EXCEPT ![tn_curr_run_task] = want]
      /\ ewait_mode' = [ewait_mode EXCEPT ![tn_curr_run_task] = mode]
      /\ WaitFor(k, wait_queue, "EVENT", TN_WAIT_INFINITE)
      /\ pattern' = pattern /\ task_stk' = task_stk /\ UNCHANGED object /\ attr' = attr
  BY DEF tn_event_wait
<1>2. PICK t : t = tn_curr_run_task
  OBVIOUS
<1>3. PICK w : Line(k, wait_queue, "EVENT", w)
  BY OneKind DEF EvInv, ObjectInv, WaitersOK
<1>4. ObjectInv(kinds)' /\ JoinsList(kinds, 1, w, t)
  <2>1. /\ Kinds(kinds) /\ ObjectInv(kinds) /\ 1 \in DOMAIN WaitLists
        /\ Line(k, WaitLists[1], kinds[1], w) /\ UNCHANGED object /\ Caller /\ Free
        /\ task_stk' = task_stk /\ TN_WAIT_INFINITE \in Nat \cup {TN_WAIT_INFINITE}
        /\ WaitFor(k, WaitLists[1], kinds[1], TN_WAIT_INFINITE)
    BY <1>1, <1>3, OneKind DEF EvInv, Idle
  <2>2. ObjectInv(kinds)' /\ JoinsList(kinds, 1, w, tn_curr_run_task)
    BY ONLY <2>1, CallWaits
  <2>3. QED
    BY <1>2, <2>2
<1>5. /\ t \in Task /\ t \notin Expecting /\ Expecting' = Expecting \cup {t}
  <2>1. Line(k', wait_queue, "EVENT", Append(w, t)) /\ t \notin Range(w) /\ t \in AppTask
    BY <1>4, OneKind DEF JoinsList
  <2>2. w \in Seq(Node \ {wait_queue}) /\ IsInjective(w) /\ Range(w) = Expecting
    BY <1>3 DEF Line, Holds, Expecting
  <2>3. t \in Node \ {wait_queue}
    BY <2>1, OneKind, Nodes, WaitNodesApart DEF Task
  <2>4. Range(Append(w, t)) = Range(w) \cup {t}
    BY <2>1, <2>2, <2>3, AppendEntries
  <2>5. QED
    BY <2>1, <2>2, <2>4 DEF Line, Expecting, Task
<1>6. want \in Pattern /\ want # {}
  BY DEF Want
<1>7. /\ ewait_pattern' \in [Task -> Pattern] /\ ewait_mode' \in [Task -> Mode]
      /\ ewait_pattern'[t] = want /\ ewait_mode'[t] = mode
      /\ \A u \in Task \ {t} : ewait_pattern'[u] = ewait_pattern[u] /\ ewait_mode'[u] = ewait_mode[u]
  BY <1>1, <1>2, <1>5, <1>6 DEF EvInv
<1>8. \A u \in Expecting' : /\ ewait_pattern'[u] # {}
                           /\ ~Satisfied(pattern', ewait_pattern'[u], ewait_mode'[u])
  BY <1>1, <1>5, <1>6, <1>7 DEF EvInv, Expecting, On, Waits
<1>9. EvInv'
  BY <1>1, <1>4, <1>7, <1>8 DEF EvInv, object
<1>10. QED
  BY <1>2, <1>4, <1>5, <1>9

\* What setting flags does: the scan, and then the switch it asks for.
SetsFlags(p) ==
  /\ id /\ p # {} /\ SetFlags(p)
  /\ \/ /\ Caller /\ Free /\ task_stk' = task_stk
        /\ IF WakesTask(p) THEN Switches ELSE Returns
     \/ /\ InHandler /\ NobodyDeletes
        /\ HandlerCall(WakesTask(p)) /\ tick_walk' = tick_walk

LEMMA EvSetOK ==
  ASSUME EvInv, NEW p \in Pattern, SetsFlags(p)
  PROVE  LET flags == pattern \cup p
             T == Freed(flags)
         IN /\ EvInv' /\ Expecting' = Expecting \ T /\ Waits(k') = Waits(k) \ T
            /\ Coded(k', T) /\ T \subseteq Expecting
            /\ \A t \in Task \ T : k'.task_state[t] = k.task_state[t]
            /\ ewait_pattern' = [t \in Task |-> IF t \in T THEN flags ELSE ewait_pattern[t]]
            /\ pattern' = IF (\E t \in T : ~Suspended(k, t)) /\ "CLR" \in attr
                          THEN {} ELSE flags
<1>1. PICK flags : flags = pattern \cup p
  OBVIOUS
<1>2. PICK T : T = Freed(flags)
  OBVIOUS
<1>3. PICK a : a = scan_event_waitqueue(flags)
  OBVIOUS
<1>4. Wakes(a, T, flags) /\ Coded(a.s, T) /\ T \subseteq Expecting
  BY <1>2, <1>3, ScanResult DEF Freed
<1>5. /\ k' = a.s /\ ewait_pattern' = a.got
      /\ pattern' = IF a.wcflag /\ "CLR" \in attr THEN {} ELSE flags
      /\ attr' = attr /\ ewait_mode' = ewait_mode /\ UNCHANGED object
      /\ WakesTask(p) = a.wcflag
  BY <1>1, <1>3 DEF SetsFlags, SetFlags, WakesTask
<1>6. /\ IInv /\ WaitersOK(k, kinds) /\ ObjectOK /\ KernelOK(k) /\ wait_queue \in WaitQueue
  BY OneKind DEF EvInv, ObjectInv, IInv
<1>7. /\ KernelOK(k') /\ k'.priority = k.priority
      /\ Apart(k, k', wait_queue, "EVENT") /\ \E v : Line(k', wait_queue, "EVENT", v)
      /\ Waits(k') = Waits(k) \ T /\ On(k', "EVENT") = Expecting \ T
      /\ Rdy(k') = Rdy(k) \cup {t \in T : ~Suspended(k, t)}
      /\ a.wcflag \in BOOLEAN /\ (a.wcflag <=> \E t \in T : ~Suspended(k, t))
      /\ ~a.wcflag => k'.tn_next_task_to_run = k.tn_next_task_to_run
      /\ ewait_pattern' = [t \in Task |-> IF t \in T THEN flags ELSE ewait_pattern[t]]
      /\ Coded(k', T) /\ \A t \in Task \ T : k'.task_state[t] = k.task_state[t]
  BY <1>4, <1>5 DEF Wakes
<1>8. ~a.wcflag /\ Right(k) => Right(k')
  <2>1. ~a.wcflag => Rdy(k') = Rdy(k)
    BY <1>7
  <2>2. QED
    BY <1>7, <2>1, RightFrame
<1>9. IInv'
  <2>1. CASE Caller /\ task_stk' = task_stk /\ IF a.wcflag THEN Switches ELSE Returns
    <3>1. tn_int_counter = 0 /\ task_stk' \in [Task -> Place \ {"init"}] /\ Right(k)
      BY <1>6, <2>1, CallerFacts DEF Caller, IInv, Control
    <3>2. QED
      BY <1>6, <1>7, <1>8, <2>1, <3>1, AfterReturn, AfterSwitches
  <2>2. CASE InHandler /\ HandlerCall(a.wcflag) /\ tick_walk' = tick_walk
    <3>1. tick_walk' \in Seq(Task) /\ tn_int_counter = 1
      BY <1>6, <2>2 DEF InHandler, IInv, Control
    <3>2. a.wcflag \/ (Right(k) => Right(k'))
      BY <1>8, Zenon
    <3>3. QED
      BY <1>6, <1>7, <2>2, <3>1, <3>2, AfterHandlerCall
  <2>3. QED
    BY <1>5, <2>1, <2>2 DEF SetsFlags
<1>10. ObjectOK'
  BY <1>5, <1>6, NobodyElse, StillObject DEF ObjectOK, object, SetsFlags
<1>11. WaitersOK(k', kinds)
  <2>1. PICK v : Line(k', wait_queue, "EVENT", v)
    BY <1>7
  <2>2. PICK w : Line(k, wait_queue, "EVENT", w)
    BY <1>6, OneKind DEF WaitersOK
  <2>3. Range(w) \subseteq AppTask
    BY <1>6, <2>2, OneKind, LineTasks
  <2>4. Range(v) \subseteq AppTask
    BY <1>7, <2>1, <2>2, <2>3 DEF Line, Expecting
  <2>5. QED
    BY <1>6, <1>7, <2>1, <2>4, OneKind, OneLine
<1>12. ObjectInv(kinds)' /\ Expecting' = Expecting \ T
  BY <1>7, <1>9, <1>10, <1>11 DEF ObjectInv, Expecting
<1>13. EvInv'
  <2>1. flags \in Pattern /\ pattern' \subseteq flags /\ pattern' \in Pattern
    BY <1>1, <1>5 DEF EvInv, Pattern
  <2>2. ewait_pattern' \in [Task -> Pattern]
    BY <1>7, <2>1 DEF EvInv
  <2>3. ASSUME NEW t \in Expecting'
        PROVE  /\ ewait_pattern'[t] # {}
               /\ ~Satisfied(pattern', ewait_pattern'[t], ewait_mode'[t])
    <3>1. t \in Expecting /\ t \notin T /\ t \in Task
      BY <1>12 DEF Expecting, On, Waits
    <3>2. ewait_pattern'[t] = ewait_pattern[t] /\ ewait_mode'[t] = ewait_mode[t]
          /\ ~Satisfied(flags, ewait_pattern[t], ewait_mode[t])
      BY <1>2, <1>5, <1>7, <3>1 DEF Freed, Met
    <3>3. QED
      BY <2>1, <3>1, <3>2, FewerFlags DEF EvInv
  <2>4. QED
    BY <1>5, <1>12, <2>1, <2>2, <2>3 DEF EvInv, object, SetsFlags
<1>14. pattern' = IF (\E t \in T : ~Suspended(k, t)) /\ "CLR" \in attr THEN {} ELSE flags
  BY <1>5, <1>7
<1>15. QED
  BY <1>1, <1>2, <1>4, <1>7, <1>12, <1>13, <1>14

-----------------------------------------------------------------------------
\* The steps that touch no flag, and every step.

LEMMA EvOthersOK ==
  ASSUME EvInv, ObjectStep, UNCHANGED <<attr, pattern>>,
         \/ UNCHANGED <<ewait_pattern, ewait_mode>>
         \/ \E t \in AppTask : Forget(t) /\ t \notin Expecting'
  PROVE  EvInv'
<1>1. /\ ObjectInv(kinds) /\ WaitersOK(k, kinds) /\ Kinds(kinds)
      /\ attr' = attr /\ pattern' = pattern
  BY OneKind DEF EvInv, ObjectInv
<1>2. /\ ObjectInv(kinds)'
      /\ \/ SameLines(k, k', kinds)
         \/ \E i \in DOMAIN WaitLists : \E w, t : LeavesList(kinds, i, w, t)
      /\ id' = id \/ \A j \in DOMAIN WaitLists : NoWaiters(j)
  BY <1>1, ObjectStepOK, OneKind
<1>3. Expecting' \subseteq Expecting
  <2>1. ASSUME NEW i \in DOMAIN WaitLists, NEW w, NEW t,
               SameLines(k, k', kinds) \/ LeavesList(kinds, i, w, t)
        PROVE  On(k', kinds[1]) \subseteq On(k, kinds[1])
    <3>1. \/ \A j \in DOMAIN WaitLists : On(k', kinds[j]) = On(k, kinds[j])
          \/ \A j \in DOMAIN WaitLists : On(k', kinds[j]) = On(k, kinds[j]) \ {t}
      BY <1>1, <2>1, Members
    <3>2. QED
      BY <3>1, OneKind
  <2>2. On(k', kinds[1]) \subseteq On(k, kinds[1])
    BY <1>2, <2>1, OneKind
  <2>3. QED
    BY <2>2, OneKind DEF Expecting
<1>4. id' = id \/ Expecting' = {}
  BY <1>2, <1>3, OneKind, NoneAsleep DEF NoWaiters, noWaiter
<1>5. /\ ewait_pattern' \in [Task -> Pattern] /\ ewait_mode' \in [Task -> Mode]
      /\ \A t \in Expecting' : /\ ewait_pattern'[t] = ewait_pattern[t]
                               /\ ewait_mode'[t] = ewait_mode[t]
  <2>1. CASE UNCHANGED <<ewait_pattern, ewait_mode>>
    BY <2>1 DEF EvInv
  <2>2. ASSUME NEW t \in AppTask, Forget(t), t \notin Expecting'
        PROVE  /\ ewait_pattern' \in [Task -> Pattern] /\ ewait_mode' \in [Task -> Mode]
               /\ \A u \in Expecting' : /\ ewait_pattern'[u] = ewait_pattern[u]
                                        /\ ewait_mode'[u] = ewait_mode[u]
    <3>1. Expecting' \subseteq Task
      BY DEF Expecting, On, Waits
    <3>2. {} \in Pattern /\ "AND" \in Mode
      BY DEF Pattern, Mode
    <3>3. QED
      BY <2>2, <3>1, <3>2 DEF Forget, EvInv
  <2>3. QED
    BY <2>1, <2>2
<1>6. QED
  BY <1>1, <1>2, <1>3, <1>4, <1>5, EvShrinks DEF EvInv

\* A task that ends does not wait.
LEMMA EndedAwake ==
  ASSUME EvInv, NEW t \in AppTask,
         \/ ~Sleeping(t) /\ Terminate(t)
         \/ Free /\ tn_task_exit(FALSE) /\ UNCHANGED object /\ t = tn_curr_run_task
  PROVE  ObjectStep /\ t \notin Expecting'
<1>1. ObjectInv(kinds) /\ WaitersOK(k, kinds) /\ Kinds(kinds) /\ DOMAIN WaitLists = {1}
  BY OneKind DEF EvInv, ObjectInv
<1>2. CASE ~Sleeping(t) /\ Terminate(t)
  <2>1. \/ SameLines(k, k', kinds) /\ Waits(k') = Waits(k) /\ t \notin Waits(k)
        \/ \E i \in DOMAIN WaitLists : \E w : LeavesList(kinds, i, w, t)
    BY <1>1, <1>2, TerminateStepOK
  <2>2. ASSUME NEW i \in DOMAIN WaitLists, NEW w, LeavesList(kinds, i, w, t)
        PROVE  t \notin Expecting'
    BY <1>1, <2>2, Members, OneKind DEF Expecting
  <2>3. QED
    BY <1>2, <2>1, <2>2 DEF ObjectStep, Expecting, On
<1>3. CASE Free /\ tn_task_exit(FALSE) /\ UNCHANGED object /\ t = tn_curr_run_task
  <2>1. TaskCall
    BY <1>3 DEF TaskCall
  <2>2. Waits(k') \subseteq Waits(k) \cup {tn_timer_task}
    BY <1>1, <2>1, TaskStepOK, OneKind
  <2>3. k.task_state[t] = "RUNNABLE"
    BY <1>1, <1>3, CallerFacts DEF tn_task_exit, Caller, ObjectInv
  <2>4. QED
    BY <2>1, <2>2, <2>3, Nodes DEF ObjectStep, Expecting, On, Waits, Waiting
<1>4. QED
  BY <1>2, <1>3

LEMMA EvInitOK ==
  ASSUME EvInit
  PROVE  EvInv /\ Expecting = {}
<1>1. ObjectInv(kinds) /\ Expecting = {}
  BY ObjectInitOK, OneKind DEF EvInit, Expecting, On
<1>2. attr \in Attrs /\ pattern \in Pattern /\ {} \in Pattern /\ "AND" \in Mode
  BY DEF EvInit, Pattern, Mode
<1>3. ewait_pattern \in [Task -> Pattern] /\ ewait_mode \in [Task -> Mode]
  BY <1>2 DEF EvInit
<1>4. QED
  BY <1>1, <1>2, <1>3 DEF EvInv

LEMMA EvCallOK ==
  ASSUME EvInv, EvCall \/ (NobodyDeletes /\ EvInterrupt)
  PROVE  EvInv'
<1>1. ASSUME NEW at \in Attrs, NEW p \in Pattern, tn_event_create(at, p)
      PROVE  EvInv'
  BY <1>1, EvCreateOK
<1>2. ASSUME NEW want \in Want, NEW mode \in Mode,
             \/ tn_event_wait(want, mode, TN_WAIT_INFINITE) /\ Pass(want, mode)
             \/ tn_event_wait_polling(want, mode)
             \/ NobodyDeletes /\ tn_event_iwait(want, mode)
      PROVE  EvInv'
  BY <1>2, EvPassOK DEF tn_event_wait, tn_event_wait_polling, tn_event_iwait, Pass, Idle
<1>3. ASSUME NEW want \in Want, NEW mode \in Mode,
             tn_event_wait(want, mode, TN_WAIT_INFINITE), ~Pass(want, mode)
      PROVE  EvInv'
  BY <1>3, EvWaitOK
<1>4. ASSUME NEW p \in Pattern, tn_event_set(p) \/ (NobodyDeletes /\ tn_event_iset(p))
      PROVE  EvInv'
  <2>1. SetsFlags(p)
    BY <1>4 DEF SetsFlags, tn_event_set, tn_event_iset, Idle
  <2>2. QED
    BY <2>1, EvSetOK
<1>5. ASSUME NEW p \in Pattern, tn_event_clear(p) \/ (NobodyDeletes /\ tn_event_iclear(p))
      PROVE  EvInv'
  BY <1>5, EvPassOK DEF tn_event_clear, tn_event_iclear, Idle
<1>6. QED
  BY <1>1, <1>2, <1>3, <1>4, <1>5 DEF EvCall, EvInterrupt

LEMMA EvStepOK ==
  ASSUME EvInv, EvNext
  PROVE  EvInv'
<1>1. CASE EvCall \/ (NobodyDeletes /\ EvInterrupt)
  BY <1>1, EvCallOK
<1>2. CASE Undisturbed /\ Delete
  BY <1>2, EvOthersOK DEF Delete, ObjectStep, event
<1>3. CASE Suspend
  BY <1>3, EvOthersOK DEF Suspend, ObjectStep, TaskCall, Idle, event
<1>4. CASE Others
  <2>1. CASE WaitEnd
    BY <2>1 DEF WaitEnd, EvInv, Expecting, ObjectInv, IInv, Control, Settled, Right,
                WaitersOK, ObjectOK, DeletersOK, Deletes, NoWaiters, vars, object
  <2>2. CASE /\ \/ DeleteSteps \/ Start \/ Enter \/ Leave \/ Switch
                \/ \E t \in AppTask : Idle /\ UNCHANGED object
                                      /\ (tn_task_resume(t) \/ tn_task_activate(t))
             /\ UNCHANGED event
    <3>1. ObjectStep /\ UNCHANGED <<attr, pattern, ewait_pattern, ewait_mode>>
      BY <2>2 DEF ObjectStep, TaskCall, Idle, event
    <3>2. QED
      BY <3>1, EvOthersOK
  <2>3. ASSUME NEW t \in AppTask, Forget(t),
               \/ ~Sleeping(t) /\ Terminate(t)
               \/ Free /\ tn_task_exit(FALSE) /\ UNCHANGED object /\ t = tn_curr_run_task
        PROVE  EvInv'
    BY <2>3, EndedAwake, EvOthersOK DEF Forget
  <2>4. Idle /\ tn_task_exit(FALSE) => tn_curr_run_task \in AppTask
    BY DEF Idle, Caller
  <2>5. QED
    BY <1>4, <2>1, <2>2, <2>3, <2>4 DEF Others, Idle
<1>5. QED
  BY <1>1, <1>2, <1>3, <1>4 DEF EvNext

LEMMA EvStays ==
  ASSUME EvInv, UNCHANGED all
  PROVE  EvInv'
BY DEF all, event, EvInv, Expecting, ObjectInv, IInv, Control, Settled, Right,
       WaitersOK, ObjectOK, DeletersOK, Deletes, NoWaiters, vars, object

THEOREM EvInvariant == EvSpec => []EvInv
<1>1. EvInv /\ [EvNext]_all => EvInv'
  BY EvStepOK, EvStays
<1>2. QED
  BY <1>1, EvInitOK, PTL DEF EvSpec

\* What the invariant says of the properties.
LEMMA EvSoundFrom ==
  ASSUME EvInv
  PROVE  EvSound
<1>1. PICK w : Line(k, wait_queue, "EVENT", w)
  BY OneKind DEF EvInv, ObjectInv, WaitersOK
<1>2. Waiters("EVENT") = Expecting /\ WaitListSound(wait_queue, "EVENT")
  BY <1>1, LineOrder DEF Line, Expecting
<1>3. TypeOK
  BY TypesFrom DEF EvInv, ObjectInv
<1>4. ObjectTypeOK
  BY <1>3 DEF EvInv, ObjectInv, ObjectOK, ObjectTypeOK
<1>5. QED
  BY <1>2, <1>4 DEF EvSound, EvInv

-----------------------------------------------------------------------------
\* The promise: the conditions of the tasks that wait, and what woken tasks have
\* been given.

Wish(t) == [task |-> t, flags |-> ewait_pattern[t], any |-> ewait_mode[t] = "OR"]
\* t was woken with success and has not returned from tn_event_wait.
Served(t) == waking[t] /\ t \notin Waits(k) /\ k.task_wait_rc[t] = "TERR_NO_ERR"

\* A task that waits for flags will return; with automatic clearing it is not
\* suspended, so that its release is seen when the flags are cleared.
FlagsInv ==
  /\ EvInv
  /\ attr = {} \/ GoodAttr(attr)
  /\ "CLR" \in attr => \A t \in AppTask : t \notin Suspends(k)
  /\ waking \in [Task -> BOOLEAN]
  /\ \A t \in Task : waking[t] => t \in AppTask /\ t \in k.created
  /\ \A t \in Expecting : waking[t]
  /\ Waits(k) \subseteq Expecting \cup {tn_timer_task}

LEMMA ConditionsAre ==
  /\ Conditions = {Wish(t) : t \in Expecting}
  /\ Given = [t \in AppTask |-> IF Served(t) THEN ewait_pattern[t] ELSE {}]
  /\ Conditions' = {Wish(t)' : t \in Expecting'}
  /\ Given' = [t \in AppTask |-> IF Served(t)' THEN ewait_pattern'[t] ELSE {}]
<1>1. Waiters("EVENT") = Expecting /\ Waiters("EVENT")' = Expecting'
  BY DEF Waiters, Expecting, On, Waits
<1>2. \A t \in AppTask : Served(t) <=> /\ waking[t] /\ ~Waiting(k, t)
                                       /\ k.task_wait_rc[t] = "TERR_NO_ERR"
  BY Nodes DEF Served, Waits
<1>3. \A t \in AppTask : Served(t)' <=> /\ waking'[t] /\ ~Waiting(k', t)
                                        /\ k'.task_wait_rc[t] = "TERR_NO_ERR"
  BY Nodes DEF Served, Waits
<1>4. Conditions = {Wish(t) : t \in Expecting} /\ Conditions' = {Wish(t)' : t \in Expecting'}
  BY <1>1 DEF Conditions, Wish
<1>5. Given = [t \in AppTask |-> IF Served(t) THEN ewait_pattern[t] ELSE {}]
  BY <1>2 DEF Given
<1>6. Given' = [t \in AppTask |-> IF Served(t)' THEN ewait_pattern'[t] ELSE {}]
  BY <1>3 DEF Given
<1>7. QED
  BY <1>4, <1>5, <1>6

LEMMA MetIs ==
  ASSUME NEW flags, NEW want, NEW mode \in Mode
  PROVE  \A c : c.flags = want /\ c.any = (mode = "OR") =>
            (Promise!Met(c, flags) <=> Satisfied(flags, want, mode))
BY DEF Promise!Met, Satisfied, Mode

LEMMA GivenSame ==
  ASSUME \A t \in AppTask : /\ Served(t)' <=> Served(t)
                            /\ Served(t) => ewait_pattern'[t] = ewait_pattern[t]
  PROVE  Given' = Given
BY ConditionsAre

LEMMA GivenSet ==
  ASSUME NEW u \in AppTask, ~Served(u)',
         \A t \in AppTask \ {u} : /\ Served(t)' <=> Served(t)
                                  /\ Served(t) => ewait_pattern'[t] = ewait_pattern[t]
  PROVE  Given' = [Given EXCEPT ![u] = {}]
BY ConditionsAre

LEMMA WishesSame ==
  ASSUME ewait_pattern' = ewait_pattern, ewait_mode' = ewait_mode
  PROVE  Conditions' = {Wish(t) : t \in Expecting'}
BY ConditionsAre DEF Wish

\* Only the tasks of U, if any, leave.
LEMMA FlagsFrame ==
  ASSUME FlagsInv, EvInv', waking' = waking, attr' = attr, k.created \subseteq k'.created,
         "CLR" \in attr => Suspends(k') \cap AppTask \subseteq Suspends(k),
         NEW U, Expecting' = Expecting \ U,
         Waits(k') \subseteq (Waits(k) \ U) \cup {tn_timer_task}
  PROVE  FlagsInv'
<1>1. \A t \in Task : waking'[t] => t \in AppTask /\ t \in k'.created
  BY DEF FlagsInv
<1>2. \A t \in Expecting' : waking'[t]
  BY DEF FlagsInv
<1>3. "CLR" \in attr' => \A t \in AppTask : t \notin Suspends(k')
  BY DEF FlagsInv
<1>4. QED
  BY <1>1, <1>2, <1>3 DEF FlagsInv

\* A call that moves nobody.
LEMMA StillGiven ==
  ASSUME FlagsInv, k' = k, UNCHANGED <<ewait_pattern, ewait_mode, waking>>
  PROVE  Conditions' = Conditions /\ Given' = Given
BY DEF Conditions, Given, Waiters, Waiting

LEMMA PromiseCreate ==
  ASSUME FlagsInv, NEW at \in Attrs, NEW p \in Pattern, tn_event_create(at, p)
  PROVE  FlagsInv' /\ (Promise!Create \/ Promise!Refuse)
<1>1. EvInv' /\ k' = k /\ ~id /\ Expecting = {} /\ id \in BOOLEAN
  BY EvCreateOK DEF FlagsInv, EvInv, ObjectInv, ObjectOK
<1>2. /\ pattern' = p /\ id' = GoodAttr(at) /\ attr' = IF GoodAttr(at) THEN at ELSE {}
      /\ UNCHANGED <<ewait_pattern, ewait_mode, waking>>
  BY DEF tn_event_create
<1>3. Conditions' = Conditions /\ Given' = Given
  BY <1>1, <1>2, StillGiven
<1>4. FlagsInv'
  <2>1. Expecting' = Expecting
    BY <1>1 DEF Expecting
  <2>2. \A t \in AppTask : t \notin Suspends(k)
    <3>1. Waits(k) \subseteq {tn_timer_task}
      BY <1>1 DEF FlagsInv
    <3>2. QED
      BY <3>1, Nodes DEF Suspends, Waits, Waiting
  <2>3. attr' = {} \/ GoodAttr(attr')
    BY <1>2
  <2>4. QED
    BY <1>1, <1>2, <2>1, <2>2, <2>3 DEF FlagsInv
<1>5. CASE GoodAttr(at)
  <2>1. attr' = at /\ ("CLR" \in at => "SINGLE" \in at)
    BY <1>2, <1>5 DEF GoodAttr
  <2>2. id' = TRUE
    BY <1>2, <1>5, Zenon
  <2>3. ("SINGLE" \in attr)' \in BOOLEAN /\ ("CLR" \in attr)' \in {FALSE, ("SINGLE" \in attr)'}
    <3>1. ASSUME NEW b, NEW c, b \in BOOLEAN, c \in BOOLEAN, c => b
          PROVE  b \in BOOLEAN /\ c \in {FALSE, b}
      BY <3>1
    <3>2. ("SINGLE" \in attr)' \in BOOLEAN /\ ("CLR" \in attr)' \in BOOLEAN
      OBVIOUS
    <3>3. QED
      BY <2>1, <3>1, <3>2, Zenon
  <2>4. Promise!Create
    BY <1>1, <1>2, <1>3, <2>2, <2>3 DEF Promise!Create, Promise!Reset, Promise!Pattern, Pattern
  <2>5. QED
    BY <1>4, <2>4
<1>6. CASE ~GoodAttr(at)
  <2>1. attr' = {} /\ id' = FALSE /\ id = FALSE
    BY <1>1, <1>2, <1>6
  <2>2. ("SINGLE" \in attr)' = FALSE /\ ("CLR" \in attr)' = FALSE
    BY <2>1
  <2>3. Promise!Refuse
    BY <1>1, <1>2, <1>3, <2>1, <2>2 DEF Promise!Refuse, Promise!Pattern, Pattern
  <2>4. QED
    BY <1>4, <2>3
<1>7. QED
  BY <1>5, <1>6

\* A condition that is met, and flags that are cleared.
LEMMA PromisePass ==
  ASSUME FlagsInv, EvInv', id, k' = k,
         UNCHANGED <<object, attr, ewait_pattern, ewait_mode, waking>>
  PROVE  /\ FlagsInv'
         /\ \A want \in Want, mode \in Mode : Pass(want, mode) => Promise!Pass
         /\ \A p \in Pattern : pattern' = pattern \cap p => Promise!Clear(p)
<1>1. Conditions' = Conditions /\ Given' = Given /\ id' = id /\ id = TRUE
  BY StillGiven DEF object, FlagsInv, EvInv, ObjectInv, ObjectOK
<1>2. FlagsInv'
  <2>1. Expecting' = Expecting \ {} /\ Waits(k') \subseteq (Waits(k) \ {}) \cup {tn_timer_task}
    BY DEF Expecting
  <2>2. QED
    BY <2>1, FlagsFrame
<1>3. ASSUME NEW want \in Want, NEW mode \in Mode, Pass(want, mode)
      PROVE  Promise!Pass
  <2>1. PICK c : c = [flags |-> want, any |-> mode = "OR"]
    OBVIOUS
  <2>2. c \in Promise!Wish /\ c.flags = want /\ c.any = (mode = "OR")
    BY <2>1 DEF Promise!Wish, Promise!Pattern, Want, Pattern
  <2>3. Promise!Met(c, pattern)
    BY <1>3, <2>2, MetIs DEF Pass
  <2>4. "SINGLE" \in attr => Conditions = {}
    BY <1>3, NoneAsleep, ConditionsAre DEF Pass, MayWait, FlagsInv
  <2>5. pattern' = IF "CLR" \in attr THEN {} ELSE pattern
    BY <1>3 DEF Pass
  <2>6. QED
    BY <1>1, <2>2, <2>3, <2>4, <2>5 DEF Promise!Pass, Promise!May
<1>4. ASSUME NEW p \in Pattern, pattern' = pattern \cap p
      PROVE  Promise!Clear(p)
  BY <1>1, <1>4 DEF Promise!Clear
<1>5. QED
  BY <1>2, <1>3, <1>4

\* The caller joins the tasks that wait.
LEMMA PromiseWait ==
  ASSUME FlagsInv, NEW want \in Want, NEW mode \in Mode,
         tn_event_wait(want, mode, TN_WAIT_INFINITE), ~Pass(want, mode)
  PROVE  FlagsInv' /\ \E c \in Promise!Condition : Promise!Wait(c)
<1>1. PICK t : t = tn_curr_run_task
  OBVIOUS
<1>2. /\ EvInv' /\ Expecting' = Expecting \cup {t} /\ t \notin Expecting
      /\ \E w : JoinsList(kinds, 1, w, t)
  BY <1>1, EvWaitOK DEF FlagsInv
<1>3. t \in AppTask /\ t \in Task /\ Waits(k') = Waits(k) \cup {t}
  BY <1>2, Nodes DEF JoinsList
<1>4. /\ Idle /\ id /\ MayWait /\ ~Satisfied(pattern, want, mode) /\ UNCHANGED object
      /\ ewait_pattern' = [ewait_pattern EXCEPT ![t] = want]
      /\ ewait_mode' = [ewait_mode EXCEPT ![t] = mode]
      /\ waking' = [waking EXCEPT ![t] = TRUE]
      /\ WaitFor(k, wait_queue, "EVENT", TN_WAIT_INFINITE)
      /\ pattern' = pattern /\ attr' = attr
  BY <1>1 DEF tn_event_wait
<1>5. t \in k.created /\ k \in KernelState
  BY <1>1, <1>4, CallerFacts DEF Idle, Caller, FlagsInv, EvInv, ObjectInv
<1>6. /\ k'.created = k.created /\ k'.task_wait_rc = k.task_wait_rc
      /\ Suspends(k') \subseteq Suspends(k)
  <2>1. HasCodes(k) /\ HasStates(k)
    BY <1>5 DEF HasCodes, HasStates, KernelState
  <2>2. k' = task_curr_to_wait_action(k, t, wait_queue, "EVENT", TN_WAIT_INFINITE)
    BY <1>1, <1>4 DEF WaitFor
  <2>3. Codes(k') = Codes(k) /\ Fewer(k, k')
    BY <2>1, <2>2, CodesSet, FewerSet
  <2>4. QED
    BY <2>3 DEF Codes, Fewer
<1>7. /\ \A u \in Task \ {t} : /\ ewait_pattern'[u] = ewait_pattern[u]
                               /\ ewait_mode'[u] = ewait_mode[u] /\ waking'[u] = waking[u]
      /\ ewait_pattern'[t] = want /\ ewait_mode'[t] = mode /\ waking'[t]
      /\ waking' \in [Task -> BOOLEAN]
  BY <1>3, <1>4 DEF FlagsInv, EvInv
<1>8. FlagsInv'
  <2>1. \A u \in Task : waking'[u] => u \in AppTask /\ u \in k'.created
    BY <1>3, <1>5, <1>6, <1>7 DEF FlagsInv
  <2>2. \A u \in Expecting' : waking'[u]
    <3>1. Expecting \subseteq Task
      BY DEF Expecting, On, Waits
    <3>2. QED
      BY <1>2, <1>7, <3>1 DEF FlagsInv
  <2>3. QED
    BY <1>2, <1>3, <1>4, <1>6, <1>7, <2>1, <2>2 DEF FlagsInv
<1>9. PICK c : c = Wish(t)'
  OBVIOUS
<1>10. c = [task |-> t, flags |-> want, any |-> mode = "OR"]
  BY <1>7, <1>9 DEF Wish
<1>11. Conditions' = Conditions \cup {c}
  <2>1. \A u \in Expecting : Wish(u)' = Wish(u)
    BY <1>2, <1>7 DEF Wish, Expecting, On, Waits
  <2>2. QED
    BY <1>2, <1>9, <2>1, ConditionsAre
<1>12. Given' = Given
  <2>1. \A u \in AppTask \ {t} : (Served(u)' <=> Served(u)) /\ ewait_pattern'[u] = ewait_pattern[u]
    BY <1>3, <1>6, <1>7, Nodes DEF Served
  <2>2. ~Served(t) /\ ~Served(t)'
    BY <1>1, <1>3, <1>4 DEF Served, Idle
  <2>3. QED
    BY <2>1, <2>2, GivenSame
<1>13. c \in Promise!Condition
  BY <1>3, <1>10 DEF Promise!Condition, Promise!Pattern, Want, Pattern
<1>14. ~Promise!Met(c, pattern)
  <2>1. c.flags = want /\ c.any = (mode = "OR")
    BY <1>10
  <2>2. QED
    BY <1>4, <2>1, MetIs
<1>15. "SINGLE" \in attr => Conditions = {}
  BY <1>4, NoneAsleep, ConditionsAre DEF MayWait, FlagsInv
<1>16. Promise!Wait(c)
  BY <1>4, <1>11, <1>12, <1>14, <1>15 DEF Promise!Wait, Promise!May, object
<1>17. QED
  BY <1>8, <1>13, <1>16

\* Everyone whose condition is met gets the flags.
LEMMA PromiseSet ==
  ASSUME FlagsInv, NEW p \in Pattern, SetsFlags(p)
  PROVE  FlagsInv' /\ Promise!Set(p)
<1>1. PICK flags : flags = pattern \cup p
  OBVIOUS
<1>2. PICK T : T = Freed(flags)
  OBVIOUS
<1>3. /\ EvInv' /\ Expecting' = Expecting \ T /\ Waits(k') = Waits(k) \ T
      /\ Coded(k', T) /\ T \subseteq Expecting
      /\ \A t \in Task \ T : k'.task_state[t] = k.task_state[t]
      /\ ewait_pattern' = [t \in Task |-> IF t \in T THEN flags ELSE ewait_pattern[t]]
      /\ pattern' = IF (\E t \in T : ~Suspended(k, t)) /\ "CLR" \in attr THEN {} ELSE flags
  BY <1>1, <1>2, EvSetOK DEF FlagsInv
<1>4. id /\ attr' = attr /\ ewait_mode' = ewait_mode /\ waking' = waking /\ UNCHANGED object
  BY DEF SetsFlags, SetFlags
<1>5. T \subseteq AppTask /\ T \subseteq Task /\ \A t \in T : waking[t] /\ t \in Waits(k)
  BY <1>3 DEF FlagsInv, Expecting, On, Waits
<1>6. FlagsInv'
  <2>1. Suspends(k') \subseteq Suspends(k)
    <3>1. \A t \in T : t \notin Suspends(k')
      BY <1>3 DEF Suspends, Waits, Waiting
    <3>2. QED
      BY <1>3, <3>1 DEF Suspends
  <2>2. k.created \subseteq k'.created
    BY <1>3 DEF Coded
  <2>3. Waits(k') \subseteq (Waits(k) \ T) \cup {tn_timer_task}
    BY <1>3
  <2>4. QED
    BY <1>3, <1>4, <2>1, <2>2, <2>3, FlagsFrame
<1>7. DEFINE ended == {c \in Conditions : Promise!Met(c, flags)}
<1>8. \A t \in Expecting : Promise!Met(Wish(t), flags) <=> t \in T
  <2>1. ASSUME NEW t \in Expecting
        PROVE  Promise!Met(Wish(t), flags) <=> t \in T
    <3>1. ewait_mode[t] \in Mode
      BY <2>1 DEF FlagsInv, EvInv, Expecting, On, Waits
    <3>2. PICK c : c = Wish(t)
      OBVIOUS
    <3>3. c.flags = ewait_pattern[t] /\ c.any = (ewait_mode[t] = "OR")
      BY <3>2 DEF Wish
    <3>4. Promise!Met(c, flags) <=> Satisfied(flags, ewait_pattern[t], ewait_mode[t])
      BY <3>1, <3>3, MetIs
    <3>5. QED
      BY <1>2, <3>2, <3>4 DEF Freed, Met
  <2>2. QED
    BY <2>1
<1>9. ended = {Wish(t) : t \in T}
  BY <1>3, <1>8, ConditionsAre
<1>10. \A t, u : Wish(t) = Wish(u) => t = u
  <2>1. \A t : Wish(t).task = t
    BY DEF Wish
  <2>2. QED
    BY <2>1
<1>11. Conditions' = Conditions \ ended
  <2>1. \A t \in Expecting' : Wish(t)' = Wish(t)
    BY <1>3, <1>4 DEF Wish, Expecting, On, Waits
  <2>2. Conditions' = {Wish(t) : t \in Expecting \ T}
    BY <1>3, <2>1, ConditionsAre
  <2>3. QED
    BY <1>3, <1>9, <1>10, <2>2, ConditionsAre
<1>12. \A t : (\E c \in ended : c.task = t) <=> t \in T
  <2>1. \A t : Wish(t).task = t
    BY DEF Wish
  <2>2. QED
    BY <1>9, <2>1
<1> HIDE DEF ended
<1>13. Given' = [t \in AppTask |-> IF \E c \in ended : c.task = t THEN flags ELSE Given[t]]
  <2>1. ASSUME NEW t \in AppTask
        PROVE  Given'[t] = IF \E c \in ended : c.task = t THEN flags ELSE Given[t]
    <3>1. t \in Task
      BY Nodes
    <3>2. CASE t \in T
      <4>1. Served(t)' /\ ewait_pattern'[t] = flags
        BY <1>3, <1>4, <1>5, <3>1, <3>2 DEF Served, Coded
      <4>2. Given'[t] = flags
        BY <4>1, ConditionsAre
      <4>3. QED
        BY <1>12, <3>2, <4>2
    <3>3. CASE t \notin T
      <4>1. Served(t)' <=> Served(t)
        BY <1>3, <1>4, <3>1, <3>3 DEF Served, Coded
      <4>2. ewait_pattern'[t] = ewait_pattern[t]
        BY <1>3, <3>1, <3>3
      <4>3. Given'[t] = Given[t]
        BY <4>1, <4>2, ConditionsAre
      <4>4. QED
        BY <1>12, <3>3, <4>3
    <3>4. QED
      BY <3>2, <3>3
  <2>2. Given' = [t \in AppTask |-> Given'[t]]
    BY DEF Given
  <2>3. QED
    BY <2>1, <2>2
<1>14. pattern' = IF "CLR" \in attr /\ ended # {} THEN {} ELSE flags
  <2>1. ended # {} <=> T # {}
    BY <1>9
  <2>2. "CLR" \in attr => \A t \in T : ~Suspended(k, t)
    BY <1>5 DEF FlagsInv, Suspends, Suspended, Waits, Waiting
  <2>3. QED
    BY <1>3, <2>1, <2>2
<1>15. Promise!Set(p)
  BY <1>1, <1>4, <1>11, <1>13, <1>14 DEF Promise!Set, ended, object
<1>16. QED
  BY <1>6, <1>15

\* A task that was given flags returns from tn_event_wait.
LEMMA PromiseReturn ==
  ASSUME FlagsInv, WaitEnd
  PROVE  /\ FlagsInv'
         /\ UNCHANGED Promise!vars \/ \E t \in AppTask : Promise!Return(t)
<1>0. PICK t : t = tn_curr_run_task
  OBVIOUS
<1>1. /\ waking[t] /\ waking' = [waking EXCEPT ![t] = FALSE] /\ k' = k /\ UNCHANGED object
      /\ UNCHANGED <<attr, pattern, ewait_pattern, ewait_mode>> /\ EvNext
  BY <1>0 DEF WaitEnd, vars, EvNext, Others
<1>2. t \in Task /\ t \notin Waits(k)
  <2>1. t \in Task /\ k.task_state[t] = "RUNNABLE"
    BY <1>0, CallerFacts DEF WaitEnd, FlagsInv, EvInv, ObjectInv
  <2>2. QED
    BY <2>1 DEF Waiting, Waits
<1>3. t \in AppTask /\ \A u \in Task \ {t} : waking'[u] = waking[u]
  BY <1>1, <1>2 DEF FlagsInv
<1>4. EvInv' /\ Expecting' = Expecting /\ t \notin Expecting
  BY <1>1, <1>2, EvStepOK DEF FlagsInv, Expecting, On
<1>5. FlagsInv'
  <2>1. waking' \in [Task -> BOOLEAN] /\ ~waking'[t]
    BY <1>1, <1>2 DEF FlagsInv
  <2>2. \A u \in Task : waking'[u] => u \in AppTask /\ u \in k'.created
    BY <1>1, <1>3, <2>1 DEF FlagsInv
  <2>3. \A u \in Expecting' : waking'[u]
    BY <1>3, <1>4 DEF FlagsInv, Expecting, On, Waits
  <2>4. QED
    BY <1>1, <1>4, <2>1, <2>2, <2>3 DEF FlagsInv
<1>6. Conditions' = Conditions
  BY <1>1 DEF Conditions, Waiters, Waiting
<1>7. Given' = [Given EXCEPT ![t] = {}]
  <2>1. \A u \in AppTask \ {t} : (Served(u)' <=> Served(u)) /\ ewait_pattern'[u] = ewait_pattern[u]
    BY <1>1, <1>3, Nodes DEF Served
  <2>2. ~Served(t)'
    BY <1>1, <1>2 DEF Served, FlagsInv
  <2>3. QED
    BY <1>3, <2>1, <2>2, GivenSet
<1>8. CASE Given[t] = {}
  <2>1. Given' = Given
    BY <1>7, <1>8 DEF Given
  <2>2. UNCHANGED Promise!vars
    BY <1>1, <1>6, <2>1 DEF Promise!vars, object
  <2>3. QED
    BY <1>5, <2>2
<1>9. CASE Given[t] # {}
  <2>1. Promise!Return(t)
    BY <1>1, <1>6, <1>7, <1>9 DEF Promise!Return, object
  <2>2. QED
    BY <1>3, <1>5, <2>1
<1>10. QED
  BY <1>8, <1>9

\* The tasks that wait when t has left, and when nobody has.
LEMMA WhoWaits ==
  ASSUME FlagsInv, NEW i \in DOMAIN WaitLists, NEW w, NEW t
  PROVE  /\ SameLines(k, k', kinds) => Expecting' = Expecting
         /\ LeavesList(kinds, i, w, t) => /\ Expecting' = Expecting \ {t} /\ t \in Expecting
                                          /\ Waits(k') = Waits(k) \ {t}
<1>1. WaitersOK(k, kinds) /\ Kinds(kinds) /\ 1 \in DOMAIN WaitLists /\ i = 1
  BY OneKind DEF FlagsInv, EvInv, ObjectInv
<1>2. SameLines(k, k', kinds) => \A j \in DOMAIN WaitLists : On(k', kinds[j]) = On(k, kinds[j])
  BY <1>1, Members
<1>3. LeavesList(kinds, i, w, t) =>
        \A j \in DOMAIN WaitLists : On(k', kinds[j]) = On(k, kinds[j]) \ {t}
  BY <1>1, Members
<1>4. QED
  BY <1>1, <1>2, <1>3, OneKind DEF Expecting, LeavesList, Line

\* Steps that touch no flag, and the deletion of the object.
LEMMA PromisePlain ==
  ASSUME FlagsInv, PlainStep, EvNext, UNCHANGED event,
         "CLR" \in attr => Suspends(k') \cap AppTask \subseteq Suspends(k)
  PROVE  /\ FlagsInv'
         /\ \/ UNCHANGED Promise!vars \/ Promise!Delete
            \/ \E t \in AppTask : Promise!GiveUp(t)
<1>1. /\ UNCHANGED <<attr, pattern, ewait_pattern, ewait_mode, waking>> /\ EvInv'
  BY EvStepOK DEF event, FlagsInv
<1>2. /\ ObjectInv(kinds)' /\ Waits(k') \subseteq Waits(k) \cup {tn_timer_task}
      /\ \/ SameLines(k, k', kinds)
         \/ \E i \in DOMAIN WaitLists : \E w, t : LeavesList(kinds, i, w, t)
      /\ \/ id' = id
         \/ id /\ ~id' /\ k' = k /\ \A j \in DOMAIN WaitLists : NoWaiters(j)
      /\ k.created \subseteq k'.created /\ \A t \in k.created : Undone(t)
  BY PlainStepOK, OneKind DEF FlagsInv, EvInv
<1>3. Given' = Given
  <2>1. ASSUME NEW t \in AppTask
        PROVE  Served(t)' <=> Served(t)
    <3>1. CASE ~waking[t]
      BY <1>1, <3>1 DEF Served
    <3>2. CASE waking[t]
      <4>1. t \in Task /\ t # tn_timer_task /\ Undone(t)
        BY <1>2, <3>2, Nodes DEF FlagsInv
      <4>2. CASE k'.task_wait_rc[t] = k.task_wait_rc[t] /\ (t \in Waits(k) => t \in Waits(k'))
        <5>1. t \in Waits(k) <=> t \in Waits(k')
          BY <1>2, <4>1, <4>2
        <5>2. QED
          BY <1>1, <4>1, <4>2, <5>1 DEF Served
      <4>3. CASE t \in Waits(k) /\ k'.task_wait_rc[t] = "TERR_DLT"
        BY <4>3 DEF Served
      <4>4. QED
        BY <4>1, <4>2, <4>3 DEF Undone
    <3>3. QED
      BY <3>1, <3>2, Nodes DEF FlagsInv
  <2>2. QED
    BY <1>1, <2>1, GivenSame
<1>4. \A t : Wish(t)' = Wish(t)
  BY <1>1 DEF Wish
<1>5. CASE SameLines(k, k', kinds)
  <2>1. Expecting' = Expecting
    BY <1>5, OneKind, WhoWaits
  <2>2. Conditions' = Conditions
    BY <1>4, <2>1, ConditionsAre
  <2>3. FlagsInv'
    <3>1. Expecting' = Expecting \ {} /\ Waits(k') \subseteq (Waits(k) \ {}) \cup {tn_timer_task}
      BY <1>2, <2>1
    <3>2. QED
      BY <1>1, <1>2, <3>1, FlagsFrame
  <2>4. CASE id' = id
    <3>1. UNCHANGED Promise!vars
      BY <1>1, <1>3, <2>2, <2>4 DEF Promise!vars
    <3>2. QED
      BY <2>3, <3>1
  <2>5. CASE id /\ ~id' /\ \A j \in DOMAIN WaitLists : NoWaiters(j)
    <3>1. Expecting = {}
      BY <2>5, OneKind, NoneAsleep DEF NoWaiters, noWaiter, FlagsInv
    <3>2. Conditions = {} /\ id' = FALSE
      BY <1>2, <2>5, <3>1, ConditionsAre DEF ObjectInv, ObjectOK
    <3>3. Promise!Delete
      BY <1>1, <1>3, <2>2, <2>5, <3>2 DEF Promise!Delete
    <3>4. QED
      BY <2>3, <3>3
  <2>6. QED
    BY <1>2, <2>4, <2>5
<1>6. ASSUME NEW i \in DOMAIN WaitLists, NEW w, NEW t, LeavesList(kinds, i, w, t)
      PROVE  FlagsInv' /\ \E u \in AppTask : Promise!GiveUp(u)
  <2>1. Expecting' = Expecting \ {t} /\ t \in Expecting /\ Waits(k') = Waits(k) \ {t}
    BY <1>6, WhoWaits
  <2>2. id' = id
    <3>1. CASE k' = k
      BY <2>1, <3>1 DEF Expecting, On
    <3>2. QED
      BY <1>2, <3>1
  <2>3. t \in AppTask /\ t \in Waits(k)
    BY <2>1 DEF FlagsInv, Expecting, On, Waits
  <2>4. FlagsInv'
    BY <1>1, <1>2, <2>1, FlagsFrame
  <2>5. Conditions' = {c \in Conditions : c.task # t}
    <3>1. \A u : Wish(u).task = u
      BY DEF Wish
    <3>2. QED
      BY <1>4, <2>1, <3>1, ConditionsAre
  <2>6. Given[t] = {}
    BY <2>3, ConditionsAre DEF Served
  <2>7. Given' = [Given EXCEPT ![t] = {}]
    BY <1>3, <2>6 DEF Given
  <2>8. Promise!GiveUp(t)
    BY <1>1, <2>2, <2>5, <2>7 DEF Promise!GiveUp
  <2>9. QED
    BY <2>3, <2>4, <2>8
<1>7. QED
  BY <1>2, <1>5, <1>6

\* A task that ends gives up what it waits for or has been given.
LEMMA PromiseEnds ==
  ASSUME FlagsInv, EvNext, NEW t \in AppTask, Forget(t),
         \/ ~Sleeping(t) /\ Terminate(t)
         \/ Free /\ tn_task_exit(FALSE) /\ UNCHANGED object /\ t = tn_curr_run_task
  PROVE  FlagsInv' /\ Promise!GiveUp(t)
<1>1. /\ t \in Task /\ ObjectInv(kinds) /\ EvInv'
      /\ ewait_pattern' = [ewait_pattern EXCEPT ![t] = {}]
      /\ ewait_mode' = [ewait_mode EXCEPT ![t] = "AND"]
      /\ waking' = [waking EXCEPT ![t] = FALSE] /\ attr' = attr /\ pattern' = pattern
  BY EvStepOK, Nodes DEF FlagsInv, EvInv, Forget
<1>2. /\ \A u \in Task \ {t} : /\ ewait_pattern'[u] = ewait_pattern[u]
                               /\ ewait_mode'[u] = ewait_mode[u] /\ waking'[u] = waking[u]
      /\ ~waking'[t] /\ waking' \in [Task -> BOOLEAN]
  BY <1>1 DEF FlagsInv, EvInv
<1>3. /\ k'.created = k.created
      /\ \A u \in Task \ {t} : k'.task_wait_rc[u] = k.task_wait_rc[u]
      /\ Suspends(k') \subseteq Suspends(k)
  <2>1. Cleared(k, k', t)
    BY <1>1, EndCodes, OneKind DEF Terminate
  <2>2. k.task_wait_rc \in [Task -> {"TERR_NO_ERR", "TERR_TIMEOUT", "TERR_DLT"}]
    BY <1>1 DEF ObjectInv, IInv, KernelOK, KernelState
  <2>3. Suspends(k') \subseteq Suspends(k)
    BY <1>1, NoMoreSuspends DEF Terminate
  <2>4. QED
    BY <2>1, <2>2, <2>3 DEF Cleared
<1>4. /\ id' = id
      /\ \/ /\ SameLines(k, k', kinds) /\ t \notin Waits(k)
            /\ Waits(k) \subseteq Waits(k') /\ Waits(k') \subseteq Waits(k) \cup {tn_timer_task}
         \/ \E i \in DOMAIN WaitLists : \E w : LeavesList(kinds, i, w, t)
  <2>1. CASE ~Sleeping(t) /\ Terminate(t)
    BY <1>1, <2>1, TerminateStepOK, OneKind
  <2>2. CASE Free /\ tn_task_exit(FALSE) /\ UNCHANGED object /\ t = tn_curr_run_task
    <3>1. TaskCall
      BY <2>2 DEF TaskCall
    <3>2. /\ SameLines(k, k', kinds) /\ id' = id
          /\ Waits(k) \subseteq Waits(k') /\ Waits(k') \subseteq Waits(k) \cup {tn_timer_task}
      BY <1>1, <3>1, TaskStepOK, OneKind
    <3>3. k.task_state[t] = "RUNNABLE"
      BY <1>1, <2>2, CallerFacts DEF tn_task_exit, Caller, ObjectInv
    <3>4. QED
      BY <3>2, <3>3 DEF Waits, Waiting
  <2>3. QED
    BY <2>1, <2>2
<1>5. /\ Expecting' = Expecting \ {t} /\ t # tn_timer_task
      /\ Waits(k) \ {t} \subseteq Waits(k') /\ Waits(k') \subseteq (Waits(k) \ {t}) \cup {tn_timer_task}
  <2>1. ASSUME NEW i \in DOMAIN WaitLists, NEW w, LeavesList(kinds, i, w, t)
        PROVE  Expecting' = Expecting \ {t} /\ Waits(k') = Waits(k) \ {t}
    BY <2>1, WhoWaits
  <2>2. CASE SameLines(k, k', kinds) /\ t \notin Waits(k)
    <3>1. Expecting' = Expecting
      BY <2>2, OneKind, WhoWaits
    <3>2. t \notin Expecting
      BY <2>2 DEF Expecting, On
    <3>3. QED
      BY <1>4, <2>1, <2>2, <3>1, <3>2, Nodes
  <2>3. QED
    BY <1>4, <2>1, <2>2, Nodes
<1>6. FlagsInv'
  <2>1. \A u \in Task : waking'[u] => u \in AppTask /\ u \in k'.created
    BY <1>2, <1>3 DEF FlagsInv
  <2>2. \A u \in Expecting' : waking'[u]
    BY <1>2, <1>5 DEF FlagsInv, Expecting, On, Waits
  <2>3. Waits(k') \subseteq Expecting' \cup {tn_timer_task}
    BY <1>5 DEF FlagsInv
  <2>4. QED
    BY <1>1, <1>2, <1>3, <2>1, <2>2, <2>3 DEF FlagsInv
<1>7. Conditions' = {c \in Conditions : c.task # t}
  <2>1. \A u \in Expecting' : Wish(u)' = Wish(u)
    BY <1>2, <1>5 DEF Wish, Expecting, On, Waits
  <2>2. \A u : Wish(u).task = u
    BY DEF Wish
  <2>3. QED
    BY <1>5, <2>1, <2>2, ConditionsAre
<1>8. Given' = [Given EXCEPT ![t] = {}]
  <2>1. \A u \in AppTask \ {t} : (Served(u)' <=> Served(u)) /\ ewait_pattern'[u] = ewait_pattern[u]
    <3> TAKE u \in AppTask \ {t}
    <3>1. u \in Task /\ u # t /\ u # tn_timer_task
      BY Nodes
    <3>2. u \in Waits(k) <=> u \in Waits(k')
      BY <1>5, <3>1
    <3>3. QED
      BY <1>2, <1>3, <3>1, <3>2 DEF Served
  <2>2. ~Served(t)'
    BY <1>2 DEF Served
  <2>3. QED
    BY <2>1, <2>2, GivenSet
<1>9. Promise!GiveUp(t)
  BY <1>1, <1>4, <1>7, <1>8 DEF Promise!GiveUp
<1>10. QED
  BY <1>6, <1>9

LEMMA PromiseStutters ==
  ASSUME FlagsInv, UNCHANGED all
  PROVE  FlagsInv' /\ UNCHANGED Promise!vars
<1>1. /\ k' = k /\ id' = id
      /\ UNCHANGED <<attr, pattern, ewait_pattern, ewait_mode, waking>>
  BY DEF all, vars, object, event
<1>2. EvInv'
  BY EvStays DEF FlagsInv
<1>3. Expecting' = Expecting
  BY <1>1 DEF Expecting
<1>4. FlagsInv'
  BY <1>1, <1>2, <1>3 DEF FlagsInv
<1>5. Conditions' = Conditions /\ Given' = Given
  BY <1>1, StillGiven
<1>6. QED
  BY <1>1, <1>4, <1>5 DEF Promise!vars

LEMMA PromiseCall ==
  ASSUME FlagsInv, EvCall \/ (NobodyDeletes /\ EvInterrupt)
  PROVE  FlagsInv' /\ Promise!Next
<1>0. EvInv'
  BY EvCallOK DEF FlagsInv
<1>1. ASSUME NEW at \in Attrs, NEW p \in Pattern, tn_event_create(at, p)
      PROVE  FlagsInv' /\ Promise!Next
  BY <1>1, PromiseCreate DEF Promise!Next
<1>2. ASSUME NEW want \in Want, NEW mode \in Mode,
             \/ tn_event_wait(want, mode, TN_WAIT_INFINITE) /\ Pass(want, mode)
             \/ tn_event_wait_polling(want, mode)
             \/ NobodyDeletes /\ tn_event_iwait(want, mode)
      PROVE  FlagsInv' /\ Promise!Next
  <2>1. /\ Pass(want, mode) /\ id /\ k' = k
        /\ UNCHANGED <<object, attr, ewait_pattern, ewait_mode, waking>>
    <3>1. CASE tn_event_wait(want, mode, TN_WAIT_INFINITE) /\ Pass(want, mode)
      BY <3>1 DEF tn_event_wait, Pass
    <3>2. QED
      BY <1>2, <3>1 DEF tn_event_wait_polling, tn_event_iwait
  <2>2. FlagsInv' /\ Promise!Pass
    BY <1>0, <2>1, PromisePass
  <2>3. QED
    BY <2>2 DEF Promise!Next
<1>3. ASSUME NEW want \in Want, NEW mode \in Mode,
             tn_event_wait(want, mode, TN_WAIT_INFINITE), ~Pass(want, mode)
      PROVE  FlagsInv' /\ Promise!Next
  BY <1>3, PromiseWait DEF Promise!Next
<1>4. ASSUME NEW p \in Pattern, tn_event_set(p) \/ (NobodyDeletes /\ tn_event_iset(p))
      PROVE  FlagsInv' /\ Promise!Next
  <2>1. SetsFlags(p)
    BY <1>4 DEF SetsFlags, tn_event_set, tn_event_iset, Idle
  <2>2. p \in Promise!Pattern
    BY DEF Promise!Pattern, Pattern
  <2>3. QED
    BY <2>1, <2>2, PromiseSet DEF Promise!Next
<1>5. ASSUME NEW p \in Pattern, tn_event_clear(p) \/ (NobodyDeletes /\ tn_event_iclear(p))
      PROVE  FlagsInv' /\ Promise!Next
  <2>1. /\ pattern' = pattern \cap p /\ id /\ k' = k
        /\ UNCHANGED <<object, attr, ewait_pattern, ewait_mode, waking>>
    BY <1>5 DEF tn_event_clear, tn_event_iclear
  <2>2. FlagsInv' /\ Promise!Clear(p)
    BY <1>0, <2>1, PromisePass
  <2>3. p \in Promise!Pattern
    BY DEF Promise!Pattern, Pattern
  <2>4. QED
    BY <2>2, <2>3 DEF Promise!Next
<1>6. QED
  BY <1>1, <1>2, <1>3, <1>4, <1>5 DEF EvCall, EvInterrupt

LEMMA PromiseStep ==
  ASSUME FlagsInv, EvNext
  PROVE  FlagsInv' /\ [Promise!Next]_(Promise!vars)
<1>0. ObjectInv(kinds)
  BY DEF FlagsInv, EvInv
<1>1. CASE EvCall \/ (NobodyDeletes /\ EvInterrupt)
  BY <1>1, PromiseCall
<1>2. ASSUME PlainStep, UNCHANGED event,
             "CLR" \in attr => Suspends(k') \cap AppTask \subseteq Suspends(k)
      PROVE  FlagsInv' /\ [Promise!Next]_(Promise!vars)
  BY <1>2, PromisePlain DEF Promise!Next
<1>3. CASE Undisturbed /\ Delete
  <2>1. PlainStep /\ UNCHANGED event /\ DeleteBegin
    BY <1>3 DEF Delete, PlainStep
  <2>2. Suspends(k') \subseteq Suspends(k)
    BY <1>0, <2>1, NoMoreSuspends
  <2>3. QED
    BY <1>2, <2>1, <2>2
<1>4. CASE Suspend /\ ("CLR" \in attr => \A t \in AppTask : k'.task_state[t] # "WAITSUSP")
  <2>1. PlainStep /\ UNCHANGED event
    BY <1>4 DEF Suspend, PlainStep, Idle
  <2>2. "CLR" \in attr => Suspends(k') \cap AppTask \subseteq Suspends(k)
    BY <1>4 DEF Suspends
  <2>3. QED
    BY <1>2, <2>1, <2>2
<1>5. CASE Others
  <2>1. CASE WaitEnd
    BY <2>1, PromiseReturn DEF Promise!Next
  <2>2. CASE /\ \/ DeleteSteps \/ Start \/ Enter \/ Leave \/ Switch
                \/ \E t \in AppTask : Idle /\ UNCHANGED object
                                      /\ (tn_task_resume(t) \/ tn_task_activate(t))
             /\ UNCHANGED event
    <3>1. PlainStep
      BY <2>2 DEF PlainStep, Idle
    <3>2. Suspends(k') \subseteq Suspends(k)
      BY <1>0, <2>2, NoMoreSuspends
    <3>3. QED
      BY <1>2, <2>2, <3>1, <3>2
  <2>3. ASSUME NEW t \in AppTask, Forget(t),
               \/ ~Sleeping(t) /\ Terminate(t)
               \/ Free /\ tn_task_exit(FALSE) /\ UNCHANGED object /\ t = tn_curr_run_task
        PROVE  FlagsInv' /\ [Promise!Next]_(Promise!vars)
    BY <2>3, PromiseEnds DEF Promise!Next
  <2>4. Idle /\ tn_task_exit(FALSE) => tn_curr_run_task \in AppTask
    BY DEF Idle, Caller
  <2>5. QED
    BY <1>5, <2>1, <2>2, <2>3, <2>4 DEF Others, Idle
<1>6. QED
  BY <1>1, <1>3, <1>4, <1>5 DEF EvNext

LEMMA PromiseInit ==
  ASSUME EvInit
  PROVE  FlagsInv /\ Promise!Init
<1>1. EvInv /\ Waits(k) = {} /\ Expecting = {}
  BY EvInitOK, ObjectInitOK, OneKind DEF EvInit
<1>2. /\ id = TRUE /\ waking = [t \in Task |-> FALSE] /\ GoodAttr(attr) /\ pattern \in Pattern
  BY DEF EvInit, ObjectInit
<1>3. FlagsInv
  <2>1. \A t \in AppTask : t \notin Suspends(k)
    BY <1>1 DEF Suspends, Waits, Waiting
  <2>2. QED
    BY <1>1, <1>2, <2>1 DEF FlagsInv
<1>4. Conditions = {} /\ Given = [t \in AppTask |-> {}]
  <2>1. \A t \in AppTask : ~Served(t)
    BY <1>2, Nodes DEF Served
  <2>2. QED
    BY <1>1, <2>1, ConditionsAre
<1>5. ("SINGLE" \in attr) \in BOOLEAN /\ ("CLR" \in attr) \in {FALSE, "SINGLE" \in attr}
  <2>1. ASSUME NEW b, NEW c, b \in BOOLEAN, c \in BOOLEAN, c => b
        PROVE  b \in BOOLEAN /\ c \in {FALSE, b}
    BY <2>1
  <2>2. ("SINGLE" \in attr) \in BOOLEAN /\ ("CLR" \in attr) \in BOOLEAN
    OBVIOUS
  <2>3. "CLR" \in attr => "SINGLE" \in attr
    BY <1>2 DEF GoodAttr
  <2>4. QED
    BY <2>1, <2>2, <2>3, Zenon
<1>6. Promise!Init
  BY <1>2, <1>4, <1>5 DEF Promise!Init, Promise!Pattern, Pattern
<1>7. QED
  BY <1>3, <1>6

-----------------------------------------------------------------------------
\* The theorems: each for every number of tasks, all their priorities and every
\* set of flags.

\* Whatever is set, cleared and waited for, no task waits whose condition is
\* met: scan_event_waitqueue of tn_event.c misses no task, and the wait queue
\* stays an intact ring of exactly the tasks that wait.
THEOREM EvCorrect == EvSpec => []EvSound
BY EvSoundFrom, EvInvariant, PTL

\* The scheduler stays right when one call makes any number of tasks runnable.
THEOREM EvScheduler == EvSpec => []SchedulerSound
<1>1. EvInv => SchedulerSound
  BY SchedulerFrom DEF EvInv, ObjectInv
<1>2. QED
  BY <1>1, EvInvariant, PTL

\* tn_event.c implements the flags of the abstract specification: a task waits
\* exactly as long as its condition is not met, the flags that meet it are given
\* to it, and with automatic clearing to nobody else.
THEOREM EvImplements == EvSpec => ImplementsFlags
<1>1. FlagsInv /\ [EvNext]_all => FlagsInv' /\ [Promise!Next]_(Promise!vars)
  BY PromiseStep, PromiseStutters
<1>2. QED
  BY <1>1, PromiseInit, PTL DEF EvSpec, ImplementsFlags, Promise!Spec
=============================================================================
