------------------------------- MODULE MCEvent -------------------------------
(***************************************************************************)
(* Instances of TNEvent for TLC.                                           *)
(***************************************************************************)
EXTENDS TNEvent, TLC

CONSTANTS a, b, c, timer, idle, eventQueue, f1, f2

\* a has the highest priority; b and c share one.
Priorities == (timer :> 0) @@ (a :> 1) @@ (b :> 2) @@ (c :> 2) @@ (idle :> 3)
SameFlags == Permutations({f1, f2})
OneList == <<eventQueue>>

\* Three tasks that use the flags without ending or deleting them.
FlagsNext ==
  \/ \E want \in Want, mode \in Mode : tn_event_wait(want, mode, TN_WAIT_INFINITE)
  \/ \E p \in Pattern : tn_event_set(p) \/ tn_event_clear(p) \/ tn_event_iset(p)
  \/ WaitEnd
  \/ (Start \/ Enter \/ Leave \/ Switch) /\ UNCHANGED event

\* Two of the tasks make every call; all three use the flags only.
CallsNext == (c \notin k.created /\ EvNext) \/ FlagsNext
CallsSpec == EvInit /\ [][CallsNext]_all
=============================================================================
