------------------------------- MODULE Channel -------------------------------
(***************************************************************************)
(* What a data queue promises: every element is delivered once, to one     *)
(* receiver, in the order in which it was accepted; senders wait only when *)
(* there is no room, receivers only when there is no element, and both are *)
(* served in order.                                                        *)
(***************************************************************************)
EXTENDS Naturals, SequencesExt

CONSTANTS Client, Data, Capacities, None

VARIABLES
  exists,
  capacity,  \* elements the channel can store
  content,   \* the elements it stores
  blocked,   \* the senders that wait, each with its element
  waiting,   \* the receivers that wait
  handed,    \* the element given to a receiver that has yet to fetch it
  taken      \* the element the last step took out, if it took one

vars == <<exists, capacity, content, blocked, waiting, handed, taken>>

Init ==
  /\ exists = TRUE /\ capacity \in Capacities
  /\ content = <<>> /\ blocked = <<>> /\ waiting = <<>>
  /\ handed = [t \in Client |-> None] /\ taken = None

Create ==
  /\ ~exists /\ exists' = TRUE
  /\ capacity' \in Capacities /\ content' = <<>> /\ taken' = None
  /\ UNCHANGED <<blocked, waiting, handed>>
\* Tasks do not wait for a channel that is deleted.
Delete ==
  /\ exists /\ blocked = <<>> /\ waiting = <<>>
  /\ exists' = FALSE /\ taken' = None
  /\ UNCHANGED <<capacity, content, blocked, waiting, handed>>

Send(d) ==
  /\ exists
  /\ \/ /\ waiting # <<>> /\ waiting' = Tail(waiting)
        /\ handed' = [handed EXCEPT ![Head(waiting)] = d] /\ UNCHANGED content
     \/ /\ waiting = <<>> /\ Len(content) < capacity
        /\ content' = Append(content, d) /\ UNCHANGED <<waiting, handed>>
  /\ taken' = None /\ UNCHANGED <<exists, capacity, blocked>>

Block(t, d) ==
  /\ exists /\ waiting = <<>> /\ Len(content) >= capacity
  /\ blocked' = Append(blocked, [from |-> t, elem |-> d])
  /\ taken' = None /\ UNCHANGED <<exists, capacity, content, waiting, handed>>

\* All elements accepted and not taken: those of the senders that wait follow
\* the stored ones.
Line == content \o [i \in DOMAIN blocked |-> blocked[i].elem]

Receive ==
  /\ exists /\ Line # <<>>
  /\ taken' = Head(Line)
  /\ blocked' = IF blocked = <<>> THEN <<>> ELSE Tail(blocked)
  /\ content' = SubSeq(Line, 2, Len(Line) - Len(blocked'))
  /\ UNCHANGED <<exists, capacity, waiting, handed>>

Await(t) ==
  /\ exists /\ Line = <<>>
  /\ waiting' = Append(waiting, t)
  /\ taken' = None /\ UNCHANGED <<exists, capacity, content, blocked, handed>>

Fetch(t) ==
  /\ handed[t] # None /\ taken' = handed[t]
  /\ handed' = [handed EXCEPT ![t] = None]
  /\ UNCHANGED <<exists, capacity, content, blocked, waiting>>

\* A task that is terminated, or told that the channel is deleted, neither
\* sends nor receives any more, and never fetches what it was given.
GiveUp ==
  /\ \/ /\ \E i \in DOMAIN blocked : blocked' = RemoveAt(blocked, i)
        /\ UNCHANGED <<waiting, handed>>
     \/ /\ \E i \in DOMAIN waiting : waiting' = RemoveAt(waiting, i)
        /\ UNCHANGED <<blocked, handed>>
     \/ /\ \E t \in Client : handed' = [handed EXCEPT ![t] = None]
        /\ UNCHANGED <<blocked, waiting>>
  /\ taken' = None /\ UNCHANGED <<exists, capacity, content>>

\* A step that takes nothing.
Idle == taken' = None /\ UNCHANGED <<exists, capacity, content, blocked, waiting, handed>>

Next ==
  \/ Create \/ Delete \/ Receive \/ GiveUp \/ Idle
  \/ \E d \in Data : Send(d) \/ \E t \in Client : Block(t, d)
  \/ \E t \in Client : Await(t) \/ Fetch(t)
Spec == Init /\ [][Next]_vars
=============================================================================
