-------------------------------- MODULE CDLL --------------------------------
(***************************************************************************)
(* The circular doubly linked queues of tn_utils.c, link by link.          *)
(*                                                                         *)
(* A heap of links is a record q: q.next[x] and q.prev[x] are the two      *)
(* pointers of node x.  A node is a list head or the entry embedded in a   *)
(* task.  Nothing here knows which nodes are linked where: like the C      *)
(* code, every function trusts the pointers it finds.                      *)
(***************************************************************************)
EXTENDS Naturals, FiniteSets, SequencesExt

\* The heap in which every node is a queue of its own.
AllReset(Node) == [next |-> [x \in Node |-> x], prev |-> [x \in Node |-> x]]

queue_reset(q, que) == [next |-> [q.next EXCEPT ![que] = que],
                        prev |-> [q.prev EXCEPT ![que] = que]]

is_queue_empty(q, que) == q.next[que] = que /\ q.prev[que] = que

queue_add_head(q, que, entry) ==
  LET first == q.next[que] IN
  [next |-> [q.next EXCEPT ![entry] = first, ![que] = entry],
   prev |-> [q.prev EXCEPT ![entry] = que, ![first] = entry]]

queue_add_tail(q, que, entry) ==
  LET last == q.prev[que] IN
  [next |-> [q.next EXCEPT ![entry] = que, ![last] = entry],
   prev |-> [q.prev EXCEPT ![entry] = last, ![que] = entry]]

\* Unlinks the first entry (q.next[que] before the call, which it returns).
queue_remove_head(q, que) ==
  LET second == q.next[q.next[que]] IN
  [next |-> [q.next EXCEPT ![que] = second],
   prev |-> [q.prev EXCEPT ![second] = que]]

\* Unlinks the last entry (q.prev[que] before the call, which it returns).
queue_remove_tail(q, que) ==
  LET before == q.prev[q.prev[que]] IN
  [next |-> [q.next EXCEPT ![before] = que],
   prev |-> [q.prev EXCEPT ![que] = before]]

\* Unlinks in one direction only.
Bug_queue_remove_entry(q, entry) ==
  [q EXCEPT !.next[q.prev[entry]] = q.next[entry]]
\* The links of the entry itself are left as they are.
queue_remove_entry(q, entry) ==
  [next |-> [q.next EXCEPT ![q.prev[entry]] = q.next[entry]],
   prev |-> [q.prev EXCEPT ![q.next[entry]] = q.prev[entry]]]

\* The entries a loop from the head of a queue to its end visits.
Entries(q, que) ==
  LET visit[i \in Nat] == IF i = 0 THEN que ELSE q.next[visit[i - 1]]
      end == CHOOSE n \in 1 .. Cardinality(DOMAIN q.next) :
               visit[n] = que /\ \A i \in 1 .. n - 1 : visit[i] # que
  IN [i \in 1 .. end - 1 |-> visit[i]]

-----------------------------------------------------------------------------
\* What a queue is meant to be: the ring that starts and ends at head h and
\* visits the entries of the sequence s in order, in both directions.
RingNode(h, s, i) == IF i \in DOMAIN s THEN s[i] ELSE h

IsRing(q, h, s) ==
  \A i \in 0..Len(s) : /\ q.next[RingNode(h, s, i)] = RingNode(h, s, i + 1)
                       /\ q.prev[RingNode(h, s, i + 1)] = RingNode(h, s, i)

=============================================================================
