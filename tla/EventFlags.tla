----------------------------- MODULE EventFlags ------------------------------
(***************************************************************************)
(* What event flags promise: a task waits exactly as long as its condition *)
(* is not met, and the flags that meet it are given to it; with automatic  *)
(* clearing they are given to nobody else.                                 *)
(***************************************************************************)
CONSTANTS Client, Flags, None

VARIABLES
  exists, single, clearing,  \* one waiter at most; clear when a wait ends
  pattern,
  waits,  \* the conditions of the tasks that wait
  given   \* the flags that ended a wait, until the task has them

vars == <<exists, single, clearing, pattern, waits, given>>

Pattern == SUBSET Flags
Wish == [flags : Pattern \ {{}}, any : BOOLEAN]
Condition == [task : Client, flags : Pattern \ {{}}, any : BOOLEAN]
Met(c, p) == IF c.any THEN c.flags \cap p # {} ELSE c.flags \subseteq p

Reset == /\ exists' = TRUE /\ single' \in BOOLEAN
         /\ clearing' \in {FALSE, single'} /\ pattern' \in Pattern
Init == /\ exists = TRUE /\ single \in BOOLEAN
        /\ clearing \in {FALSE, single} /\ pattern \in Pattern
        /\ waits = {} /\ given = [t \in Client |-> None]

Create == ~exists /\ Reset /\ UNCHANGED <<waits, given>>
\* A creation with attributes that exclude each other.
Refuse == /\ ~exists /\ single' = FALSE /\ clearing' = FALSE /\ pattern' \in Pattern
          /\ UNCHANGED <<exists, waits, given>>
Delete == /\ exists /\ waits = {} /\ exists' = FALSE
          /\ UNCHANGED <<single, clearing, pattern, waits, given>>

May == exists /\ (single => waits = {})

\* A wait for a condition that is met ends at once.
Pass == /\ May /\ \E c \in Wish : Met(c, pattern)
        /\ pattern' = IF clearing THEN {} ELSE pattern
        /\ UNCHANGED <<exists, single, clearing, waits, given>>

Wait(c) == /\ May /\ ~Met(c, pattern) /\ waits' = waits \cup {c}
           /\ UNCHANGED <<exists, single, clearing, pattern, given>>

Set(p) ==
  LET flags == pattern \cup p
      ended == {c \in waits : Met(c, flags)}
  IN /\ exists /\ waits' = waits \ ended
     /\ given' = [t \in Client |-> IF \E c \in ended : c.task = t THEN flags ELSE given[t]]
     /\ pattern' = IF clearing /\ ended # {} THEN {} ELSE flags
     /\ UNCHANGED <<exists, single, clearing>>

Clear(p) == /\ exists /\ pattern' = pattern \cap p
            /\ UNCHANGED <<exists, single, clearing, waits, given>>

Return(t) == /\ given[t] # None /\ given' = [given EXCEPT ![t] = None]
             /\ UNCHANGED <<exists, single, clearing, pattern, waits>>
\* A task that is terminated, or told that the flags are deleted.
GiveUp(t) == /\ waits' = {c \in waits : c.task # t}
             /\ given' = [given EXCEPT ![t] = None]
             /\ UNCHANGED <<exists, single, clearing, pattern>>

Next == \/ Create \/ Refuse \/ Delete \/ Pass
        \/ \E p \in Pattern : Set(p) \/ Clear(p)
        \/ \E c \in Condition : Wait(c)
        \/ \E t \in Client : Return(t) \/ GiveUp(t)
Spec == Init /\ [][Next]_vars
=============================================================================
