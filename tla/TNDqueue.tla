------------------------------ MODULE TNDqueue -------------------------------
(***************************************************************************)
(* Data queues (tn_dqueue.c): one queue of pointers, the tasks and the     *)
(* interrupt handlers that send and receive.  A task that waits has its    *)
(* element in data_elem: a sender puts it there, and a receiver finds it   *)
(* there when it runs again, in the second half of tn_queue_receive.       *)
(***************************************************************************)
EXTENDS TNObjects

CONSTANTS Data, MaxEntries
ASSUME DqueueAssumption == /\ NULL \notin Data /\ MaxEntries \in Nat
                           /\ Len(WaitLists) = 2 /\ WaitLists[1] # WaitLists[2]

VARIABLES
  fifo,       \* data_fifo, num_entries, tail_cnt, header_cnt
  data_elem,
  receiving,  \* the task will return from tn_queue_receive when it runs
  taken       \* what the last step stored through data_ptr, or None

dqueue == <<fifo, data_elem, receiving>>
None == "none"

Ring == INSTANCE DataFifo WITH Elem <- Data \cup {NULL}

wait_send_list    == WaitLists[1]
wait_receive_list == WaitLists[2]
noSender   == is_queue_empty(k.q, wait_send_list)
noReceiver == is_queue_empty(k.q, wait_receive_list)

NewQueue(f, num_entries) ==
  [f EXCEPT !.num_entries = num_entries, !.tail_cnt = 0, !.header_cnt = 0]

DqInit ==
  /\ Init /\ ObjectInit
  /\ \E n \in 0 .. MaxEntries :
       fifo = [data_fifo |-> [i \in 0 .. MaxEntries - 1 |-> NULL],
               num_entries |-> n, tail_cnt |-> 0, header_cnt |-> 0]
  /\ data_elem = [t \in Task |-> NULL]
  /\ receiving = [t \in Task |-> FALSE]
  /\ taken = None

\* The running task is outside the functions of this module.
Idle == Caller /\ Free /\ ~receiving[tn_curr_run_task]

tn_queue_create(num_entries) ==
  /\ Idle /\ ~id /\ id' = TRUE
  /\ k' = [k EXCEPT !.q = queue_reset(queue_reset(@, wait_send_list),
                                      wait_receive_list)]
  /\ fifo' = NewQueue(fifo, num_entries)
  /\ taken' = None /\ Returns
  /\ UNCHANGED <<task_stk, deleting, data_elem, receiving>>

-----------------------------------------------------------------------------
\* Sending

\* Wakes the receiver and forgets to give it the element.
Bug_HandOver(d) == UNCHANGED <<fifo, data_elem>>
\* The first receiver that waits gets the element.
HandOver(d) ==
  /\ data_elem' = [data_elem EXCEPT ![FirstWaiter(k, wait_receive_list)] = d]
  /\ UNCHANGED fifo

Store(d) ==
  /\ noReceiver /\ ~Ring!Full(fifo)
  /\ fifo' = Ring!dque_fifo_write(fifo, d)
  /\ UNCHANGED <<k, data_elem>>

\* What tn_queue_send and tn_queue_send_polling do when they need not wait.
SendNow(d) ==
  \/ ~noReceiver /\ HandOver(d) /\ WakeFirst(k, wait_receive_list)
  \/ Store(d) /\ Returns

tn_queue_send(d, timeout) ==
  /\ Idle /\ id
  /\ \/ SendNow(d)
     \/ /\ noReceiver /\ Ring!Full(fifo)
        /\ data_elem' = [data_elem EXCEPT ![tn_curr_run_task] = d]
        /\ WaitFor(k, wait_send_list, "DQUE_WSEND", timeout)
        /\ UNCHANGED fifo
  /\ taken' = None /\ UNCHANGED <<task_stk, object, receiving>>

tn_queue_send_polling(d) ==
  /\ Idle /\ id /\ SendNow(d)
  /\ taken' = None /\ UNCHANGED <<task_stk, object, receiving>>

tn_queue_isend_polling(d) ==
  /\ InHandler /\ id
  /\ \/ ~noReceiver /\ HandOver(d) /\ iWakeFirst(k, wait_receive_list)
     \/ Store(d) /\ HandlerCall(FALSE) /\ UNCHANGED tick_walk
  /\ taken' = None /\ UNCHANGED <<object, receiving>>

-----------------------------------------------------------------------------
\* Receiving

FirstSender == FirstWaiter(k, wait_send_list)

\* Takes the oldest element and moves that of the first sender that waits
\* into the place it left; from an empty storage, the sender's own.
Take ==
  \/ /\ ~Ring!Empty(fifo) /\ taken' = Ring!Oldest(fifo)
     /\ fifo' = LET f == Ring!dque_fifo_read(fifo)
                IN IF noSender THEN f
                   ELSE Ring!dque_fifo_write(f, data_elem[FirstSender])
  \/ /\ Ring!Empty(fifo) /\ ~noSender
     /\ taken' = data_elem[FirstSender] /\ UNCHANGED fifo

\* The same, and the sender, if there is one, can go on.
ReceiveNow ==
  /\ Take
  /\ \/ noSender /\ Returns /\ UNCHANGED k
     \/ ~noSender /\ WakeFirst(k, wait_send_list)

tn_queue_receive(timeout) ==
  /\ Idle /\ id
  /\ \/ ReceiveNow /\ UNCHANGED receiving
     \/ /\ Ring!Empty(fifo) /\ noSender
        /\ WaitFor(k, wait_receive_list, "DQUE_WRECEIVE", timeout)
        /\ receiving' = [receiving EXCEPT ![tn_curr_run_task] = TRUE]
        /\ taken' = None /\ UNCHANGED fifo
  /\ UNCHANGED <<task_stk, object, data_elem>>

\* The second half of tn_queue_receive, in the task that waited.
ReceiveEnd ==
  /\ tn_int_counter = 0 /\ pc = "user" /\ receiving[tn_curr_run_task]
  /\ receiving' = [receiving EXCEPT ![tn_curr_run_task] = FALSE]
  /\ taken' = IF k.task_wait_rc[tn_curr_run_task] = "TERR_NO_ERR"
              THEN data_elem[tn_curr_run_task] ELSE None
  /\ UNCHANGED <<vars, object, fifo, data_elem>>

tn_queue_receive_polling ==
  /\ Idle /\ id /\ ReceiveNow
  /\ UNCHANGED <<task_stk, object, data_elem, receiving>>

tn_queue_ireceive ==
  /\ InHandler /\ id /\ Take
  /\ \/ noSender /\ HandlerCall(FALSE) /\ UNCHANGED <<k, tick_walk>>
     \/ ~noSender /\ iWakeFirst(k, wait_send_list)
  /\ UNCHANGED <<object, data_elem, receiving>>

-----------------------------------------------------------------------------
DqCall ==
  \/ \E n \in 0 .. MaxEntries : tn_queue_create(n)
  \/ \E d \in Data : tn_queue_send(d, TN_WAIT_INFINITE) \/ tn_queue_send_polling(d)
  \/ tn_queue_receive(TN_WAIT_INFINITE) \/ tn_queue_receive_polling
DqInterrupt == tn_queue_ireceive \/ \E d \in Data : tn_queue_isend_polling(d)

Forget(t) == /\ data_elem' = [data_elem EXCEPT ![t] = NULL]
             /\ receiving' = [receiving EXCEPT ![t] = FALSE]
\* Steps that move no element; a task that ends loses the one it has.
Others ==
  /\ \/ /\ ReceiveEnd
     \/ /\ \/ DeleteSteps \/ Start \/ Enter \/ Leave \/ Switch
           \/ \E t \in AppTask : /\ Idle /\ UNCHANGED object
                                 /\ \/ tn_task_suspend(t) \/ tn_task_resume(t)
                                    \/ tn_task_activate(t)
        /\ taken' = None /\ UNCHANGED dqueue
     \/ /\ \/ \E t \in AppTask : Idle /\ ~Sleeping(t) /\ Terminate(t) /\ Forget(t)
           \/ Idle /\ tn_task_exit(FALSE) /\ UNCHANGED object /\ Forget(tn_curr_run_task)
        /\ taken' = None /\ UNCHANGED fifo

all == <<vars, object, dqueue, taken>>

\* An application that waits without a timeout and deletes the queue only
\* when it is undisturbed.
Delete == Idle /\ DeleteBegin /\ taken' = None /\ UNCHANGED dqueue
DqNext ==
  \/ DqCall \/ Others
  \/ NobodyDeletes /\ DqInterrupt
  \/ Undisturbed /\ Delete
DqSpec == DqInit /\ [][DqNext]_all

-----------------------------------------------------------------------------
\* Properties

\* Both wait queues hold exactly the tasks that wait there; senders wait only
\* when the storage is full and receivers only when it is empty, and nobody
\* waits for a queue that does not exist.
DqSound ==
  /\ ObjectTypeOK
  /\ fifo \in Ring!FifoState
  /\ data_elem \in [Task -> Data \cup {NULL}]
  /\ WaitListSound(wait_send_list, "DQUE_WSEND")
  /\ WaitListSound(wait_receive_list, "DQUE_WRECEIVE")
  /\ Waiters("DQUE_WSEND") # {} => id /\ Ring!Full(fifo)
  /\ Waiters("DQUE_WRECEIVE") # {} => id /\ Ring!Empty(fifo)

\* The code keeps what a channel promises: with the wait queues read from
\* their links and the storage from its indices, every step of a task or a
\* handler is one of the channel's.  An element is with a receiver from the
\* moment it is woken with success until it has returned.
Receivers == Order(wait_receive_list, "DQUE_WRECEIVE")
Blocked == LET s == Order(wait_send_list, "DQUE_WSEND")
           IN [i \in DOMAIN s |-> [from |-> s[i], elem |-> data_elem[s[i]]]]
Served(t) == receiving[t] /\ ~Waiting(k, t) /\ k.task_wait_rc[t] = "TERR_NO_ERR"
Handed == [t \in AppTask |-> IF Served(t) THEN data_elem[t] ELSE None]
Promise == INSTANCE Channel WITH
  Client <- AppTask, Capacities <- {Ring!Room([num_entries |-> n]) : n \in 0 .. MaxEntries},
  exists <- id, capacity <- Ring!Room(fifo), content <- Ring!Contents(fifo),
  blocked <- Blocked, waiting <- Receivers, handed <- Handed
ImplementsChannel == Promise!Spec
=============================================================================
