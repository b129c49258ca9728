------------------------------- MODULE TNEvent -------------------------------
(***************************************************************************)
(* Event flags (tn_event.c): one object, the tasks and interrupt handlers  *)
(* that set, clear and wait for its flags.  A bit pattern is the set of    *)
(* its bits.                                                               *)
(***************************************************************************)
EXTENDS TNObjects

CONSTANTS Flags, Attrs
ASSUME EventAssumption ==
  /\ Len(WaitLists) = 1
  /\ Attrs \subseteq SUBSET {"SINGLE", "MULTI", "CLR"}

VARIABLES
  attr, pattern,
  ewait_pattern, ewait_mode,  \* what each task waits for; then what it got
  waking                      \* the task will return from tn_event_wait

event == <<attr, pattern, ewait_pattern, ewait_mode, waking>>

Pattern == SUBSET Flags
Mode == {"OR", "AND"}
wait_queue == WaitLists[1]
noWaiter == is_queue_empty(k.q, wait_queue)

\* tn_event_create refuses every other combination.
GoodAttr(at) == ("SINGLE" \in at \/ "MULTI" \in at) /\ ("CLR" \in at => "SINGLE" \in at)

EvInit ==
  /\ Init /\ ObjectInit
  /\ attr \in {at \in Attrs : GoodAttr(at)} /\ pattern \in Pattern
  /\ ewait_pattern = [t \in Task |-> {}] /\ ewait_mode = [t \in Task |-> "AND"]
  /\ waking = [t \in Task |-> FALSE]

\* The running task is outside the functions of this module.
Idle == Caller /\ Free /\ ~waking[tn_curr_run_task]

tn_event_create(at, initial) ==
  /\ Idle /\ ~id
  /\ "SINGLE" \in at \/ "MULTI" \in at
  /\ k' = [k EXCEPT !.q = queue_reset(@, wait_queue)]
  /\ pattern' = initial
  /\ id' = GoodAttr(at) /\ attr' = IF GoodAttr(at) THEN at ELSE {}
  /\ Returns /\ UNCHANGED <<task_stk, deleting, ewait_pattern, ewait_mode, waking>>

-----------------------------------------------------------------------------
\* Waiting

\* Takes any flag for enough.
Bug_Satisfied(flags, want, mode) == flags \cap want # {}
Satisfied(flags, want, mode) ==
  IF mode = "OR" THEN flags \cap want # {} ELSE want \subseteq flags

\* With TN_EVENT_ATTR_SINGLE a second task is refused without a look at the
\* flags.
MayWait == "SINGLE" \in attr => noWaiter

\* The condition is met: the flags are cleared if the attribute says so.
Pass(want, mode) ==
  /\ MayWait /\ Satisfied(pattern, want, mode)
  /\ pattern' = IF "CLR" \in attr THEN {} ELSE pattern

tn_event_wait(want, mode, timeout) ==
  /\ Idle /\ id
  /\ \/ Pass(want, mode) /\ Returns
        /\ UNCHANGED <<k, ewait_pattern, ewait_mode, waking>>
     \/ /\ MayWait /\ ~Satisfied(pattern, want, mode)
        /\ ewait_pattern' = [ewait_pattern EXCEPT ![tn_curr_run_task] = want]
        /\ ewait_mode' = [ewait_mode EXCEPT ![tn_curr_run_task] = mode]
        /\ waking' = [waking EXCEPT ![tn_curr_run_task] = TRUE]
        /\ WaitFor(k, wait_queue, "EVENT", timeout)
        /\ UNCHANGED pattern
  /\ UNCHANGED <<task_stk, object, attr>>

\* The second half of tn_event_wait: on success the caller gets the flags
\* from ewait_pattern.
WaitEnd ==
  /\ tn_int_counter = 0 /\ pc = "user" /\ waking[tn_curr_run_task]
  /\ waking' = [waking EXCEPT ![tn_curr_run_task] = FALSE]
  /\ UNCHANGED <<vars, object, attr, pattern, ewait_pattern, ewait_mode>>

tn_event_wait_polling(want, mode) ==
  /\ Idle /\ id /\ Pass(want, mode) /\ Returns
  /\ UNCHANGED <<k, task_stk, object, attr, ewait_pattern, ewait_mode, waking>>

tn_event_iwait(want, mode) ==
  /\ InHandler /\ id /\ Pass(want, mode) /\ HandlerCall(FALSE)
  /\ UNCHANGED <<k, tick_walk, object, attr, ewait_pattern, ewait_mode, waking>>

-----------------------------------------------------------------------------
\* Setting and clearing

\* What scan_event_waitqueue works on: kernel data, the waiting patterns and
\* whether a task was made runnable.
Scan == [s |-> k, got |-> ewait_pattern, wcflag |-> FALSE]
ScanEntry(scan, t, flags) ==
  IF ~Satisfied(flags, scan.got[t], ewait_mode[t]) THEN scan
  ELSE [s |-> task_wait_complete([scan.s EXCEPT !.q = queue_remove_entry(@, t)], t),
        got |-> [scan.got EXCEPT ![t] = flags],
        wcflag |-> scan.wcflag \/ ~Suspended(scan.s, t)]
\* Stops at the first task whose condition is met.
Bug_scan_event_waitqueue(flags) ==
  LET met(t) == Satisfied(flags, ewait_pattern[t], ewait_mode[t])
      q == SelectSeq(Entries(k.q, wait_queue), met)
  IN IF q = <<>> THEN Scan ELSE ScanEntry(Scan, q[1], flags)
\* Releases every task whose condition the flags meet.
scan_event_waitqueue(flags) ==
  FoldLeft(LAMBDA scan, t : ScanEntry(scan, t, flags), Scan, Entries(k.q, wait_queue))

SetFlags(p) ==
  LET flags == pattern \cup p
      scan  == scan_event_waitqueue(flags)
  IN /\ k' = scan.s /\ ewait_pattern' = scan.got
     /\ pattern' = IF scan.wcflag /\ "CLR" \in attr THEN {} ELSE flags
     /\ UNCHANGED <<attr, ewait_mode, waking, object>>
WakesTask(p) == scan_event_waitqueue(pattern \cup p).wcflag

tn_event_set(p) ==
  /\ Idle /\ id /\ p # {} /\ SetFlags(p)
  /\ IF WakesTask(p) THEN Switches ELSE Returns
  /\ UNCHANGED task_stk

tn_event_iset(p) ==
  /\ InHandler /\ id /\ p # {} /\ SetFlags(p)
  /\ HandlerCall(WakesTask(p)) /\ UNCHANGED tick_walk

\* The caller passes the flags to keep.
tn_event_clear(p) ==
  /\ Idle /\ id /\ p # Flags
  /\ pattern' = pattern \cap p /\ Returns
  /\ UNCHANGED <<k, task_stk, object, attr, ewait_pattern, ewait_mode, waking>>

tn_event_iclear(p) ==
  /\ InHandler /\ id /\ p # Flags
  /\ pattern' = pattern \cap p /\ HandlerCall(FALSE)
  /\ UNCHANGED <<k, tick_walk, object, attr, ewait_pattern, ewait_mode, waking>>

-----------------------------------------------------------------------------
\* A wait for flags of which none is empty.
Want == Pattern \ {{}}

EvCall ==
  \/ \E at \in Attrs, p \in Pattern : tn_event_create(at, p)
  \/ \E want \in Want, mode \in Mode : \/ tn_event_wait(want, mode, TN_WAIT_INFINITE)
                                       \/ tn_event_wait_polling(want, mode)
  \/ \E p \in Pattern : tn_event_set(p) \/ tn_event_clear(p)
EvInterrupt ==
  \/ \E want \in Want, mode \in Mode : tn_event_iwait(want, mode)
  \/ \E p \in Pattern : tn_event_iset(p) \/ tn_event_iclear(p)

Forget(t) == /\ ewait_pattern' = [ewait_pattern EXCEPT ![t] = {}]
             /\ ewait_mode' = [ewait_mode EXCEPT ![t] = "AND"]
             /\ waking' = [waking EXCEPT ![t] = FALSE]
             /\ UNCHANGED <<attr, pattern>>
Others ==
  \/ WaitEnd
  \/ /\ \/ DeleteSteps \/ Start \/ Enter \/ Leave \/ Switch
        \/ \E t \in AppTask : Idle /\ UNCHANGED object /\ (tn_task_resume(t) \/ tn_task_activate(t))
     /\ UNCHANGED event
  \/ \E t \in AppTask : Idle /\ ~Sleeping(t) /\ Terminate(t) /\ Forget(t)
  \/ Idle /\ tn_task_exit(FALSE) /\ UNCHANGED object /\ Forget(tn_curr_run_task)

all == <<vars, object, event>>

Suspend == /\ \E t \in AppTask : Idle /\ tn_task_suspend(t)
           /\ UNCHANGED <<object, event>>
Delete == Idle /\ DeleteBegin /\ UNCHANGED event
\* An application that waits without a timeout, deletes the flags only when
\* it is undisturbed, and suspends no task that waits for flags that are
\* cleared automatically.
EvNext ==
  \/ EvCall \/ Others
  \/ NobodyDeletes /\ EvInterrupt
  \/ Undisturbed /\ Delete
  \/ Suspend /\ ("CLR" \in attr => \A t \in AppTask : k'.task_state[t] # "WAITSUSP")
EvSpec == EvInit /\ [][EvNext]_all

-----------------------------------------------------------------------------
\* Properties

\* The wait queue holds exactly the tasks that wait; the flags that are set
\* meet the condition of none of them, whatever is set, cleared and scanned.
EvSound ==
  /\ ObjectTypeOK
  /\ pattern \in Pattern /\ attr \in Attrs \cup {{}}
  /\ ewait_pattern \in [Task -> Pattern] /\ ewait_mode \in [Task -> Mode]
  /\ WaitListSound(wait_queue, "EVENT")
  /\ Waiters("EVENT") # {} => id
  /\ \A t \in Waiters("EVENT") : ~Satisfied(pattern, ewait_pattern[t], ewait_mode[t])

\* The code keeps what event flags promise.
Conditions == {[task |-> t, flags |-> ewait_pattern[t], any |-> ewait_mode[t] = "OR"] :
            t \in Waiters("EVENT")}
Given == [t \in AppTask |->
            IF waking[t] /\ ~Waiting(k, t) /\ k.task_wait_rc[t] = "TERR_NO_ERR"
            THEN ewait_pattern[t] ELSE {}]
Promise == INSTANCE EventFlags WITH
  Client <- AppTask, None <- {}, exists <- id, waits <- Conditions, given <- Given,
  single <- "SINGLE" \in attr, clearing <- "CLR" \in attr
ImplementsFlags == Promise!Spec
=============================================================================
