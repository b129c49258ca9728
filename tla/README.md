# TNKernel and its USB bulk device, specified in TLA+

The repository holds TNKernel, a small preemptive real-time kernel for ARM
(`src/TNKernel`), and two versions of a USB bulk device built on it for the
LPC214x: `src/LPC2146_USB` moves packets in interrupt handlers, and
`src/LPC2146_USB_DMA` lets the USB controller's DMA engine move them. The
specifications in this directory model the kernel with all its objects, the
control transfers of the device and both versions of its bulk loopback.

## 1. Inventory

| Component | State it keeps | Operations | Interacts by |
|---|---|---|---|
| Circular queues (`tn_utils.c`) | the `next`/`prev` links of list heads and of the entries embedded in tasks and mutexes | reset, add at tail, remove head/entry, contains | called with interrupts disabled by every kernel function |
| Task scheduler (`tn_tasks.c`, `tn.c`) | ready lists, bitmap, `tn_next_task_to_run`, timeout list, task control blocks | create, suspend, resume, sleep, wakeup, activate, release_wait, exit, terminate, delete, change_priority, the handler forms iwakeup/iactivate/irelease_wait, tslice_ticks, the tick | calls of tasks and of interrupt handlers; `tn_context_switch_request` |
| Context switch, interrupt entry and exit (`tn_port_asm.s79`) | `tn_curr_run_task`, saved stacks, `tn_int_counter` | `tn_switch_context`, `tn_switch_context_exit`, `tn_cpu_irq_isr`, `ffs_asm` | reads `tn_next_task_to_run` |
| Semaphore (`tn_sem.c`) | count, wait queue | create, delete, signal, acquire, polling and handler forms | `task_wait_complete`, `task_curr_to_wait_action` |
| Data FIFO (`tn_utils.c`) and data queue (`tn_dqueue.c`) | ring of pointers with two counters, queues of waiting senders and receivers, `data_elem` of a waiting task | create, send, receive, polling and handler forms, delete | as above |
| Memory pool (`tn_mem.c`) | free list inside the blocks, free count, wait queue | create, get, release, polling and handler forms, delete | as above |
| Event flags (`tn_event.c`) | pattern, attributes, wait queue, what each waiting task wants | create, set, clear, wait, polling and handler forms, delete | as above |
| Mutex (`tn_mutex.c`) | holder, wait queue, list of mutexes per task, list of locked mutexes, list of blocked tasks | create, delete, lock, polling, unlock; priority inheritance and ceiling | `set_current_priority`; exit and terminate unlock |
| USB control requests (`tn_usb_req.c`, `tn_usb_ep.c`) | configuration, transfer state of Endpoint 0 | one function per standard request, class requests, data and status stages, reset | called by the USB interrupt handler |
| USB endpoints without DMA and loopback tasks (`tn_usb_ep.c`, `tn_user.c`, `usb_tst1.c`) | five queues and five pools, four tasks | receive and transmit interrupts; receive, get, copy, send, release | handler forms and blocking forms of queue and pool calls |
| USB endpoints with DMA (`tn_usb_ep_dma.c`, `tn_user.c`, `usb_tst2.c`) | DMA descriptors, UDCA, enable bits | end of transfer, request of a new descriptor | as above, and the DMA engine |
| Hardware access, board set-up, start-up code, descriptor tables, other assemblers' ports, loader | registers, constants | | |

Hard behaviour, by component (each at its line under `hazards` in
`PROJECT.json`):

* **Interrupts between a call and its context switch.** Every call enables
  interrupts before it switches. A handler in the gap can wake, start or switch
  tasks; the caller finishes its own switch later, on changed data.
* **Data maintained step by step.** The bitmap, `tn_next_task_to_run` and the
  rings are never recomputed; five functions update them. The entry of a task
  keeps its links after it is unlinked.
* **Timeouts that race** with wakeups, releases, suspensions and terminations of
  the same task; the tick unlinks entries of the list it walks.
* **Requests counted ahead**: a wakeup before the sleep, an activation before
  the exit.
* **Objects**: direct handover of an element or a block to a waiting task, which
  finds it when it runs again; deletion that switches to each released task;
  links that live in memory the user overwrites; a set of flags that satisfies
  several waiters at once.
* **Mutexes**: inheritance along chains of holders, ceilings that block tasks for
  which the mutex is free, unlocks inside exit and termination.
* **USB**: pools and queues of limited size between handlers and tasks, a new
  SETUP packet inside a transfer, a bus reset at any time, descriptors that could
  not be handed out and must be retried, an engine that works while its handler
  runs.

What makes each component correct: the scheduler keeps its lists exact, runs a
task of the highest priority whenever a task runs at all, and ends every timed
wait; a semaphore neither loses nor invents a unit; a queue delivers each
element once and in order; a pool never has a block in two hands; event flags
end exactly the waits they meet; a mutex has one holder and a priority that
follows its waiters; Endpoint 0 answers every request exactly or stalls; the
loopback neither loses nor repeats a packet or a block, but for the one loss the
code has.

## 2. What is here

| Module | Models | Uses |
|---|---|---|
| `CDLL` | the circular queues, link by link | |
| `TNTasks` | scheduler, tick, start-up, interrupts, context switches | `CDLL` |
| `TNObjects` | what semaphores, data queues, memory pools and event flags share: waking the first task of a wait queue, and the delete function, step by step | `TNTasks` |
| `TNSem` | every call of `tn_sem.c` | `TNObjects`, `Semaphore` |
| `DataFifo` | the ring of a data queue with its two indices | |
| `TNDqueue` | every call of `tn_dqueue.c` | `TNObjects`, `DataFifo`, `Channel` |
| `TNMem` | every call of `tn_mem.c`, down to the links inside the blocks | `TNObjects`, `Pool` |
| `TNEvent` | every call of `tn_event.c` | `TNObjects`, `EventFlags` |
| `TNMutex` | every call of `tn_mutex.c`, and what exit, termination and the end of a wait do for mutexes | `TNTasks`, `Lock` |
| `USBControl` | Endpoint 0: controller, firmware and host | |
| `USBLoopback` | endpoint interrupts, tasks, queues and pools of `usb_tst1.c` | `EchoLine` |
| `USBDma` | the same with descriptors and the DMA engine | `USBLoopback` |
| `Semaphore`, `Channel`, `Pool`, `EventFlags`, `Lock`, `EchoLine` | abstract specifications: what each promises | |
| `MCTasks`, `MCSem`, `MCDqueue`, `MCMem`, `MCEvent`, `MCMutex`, `MCUSBDma` | instances for TLC | the module of that name |
| `MCUSB` | an instance of the firmware without DMA; its two parts share no state, so a behaviour is one of either part while the other rests | `USBLoopback`, `USBControl` |
| `TNKernelProofs` | lemmas about each queue function of `CDLL`, for queues of any length; the inductive invariant of the scheduler, and its theorems about lists, preemption, timeouts and suspensions; lemmas about the wait queues of any object | `TNObjects` |
| `TNSemProofs` | the invariant of the semaphore, and that it implements `Semaphore` | `TNSem`, `TNKernelProofs` |
| `TNDqueueProofs` | the invariant of the data queue, and that it implements `Channel` | `TNDqueue`, `TNKernelProofs` |
| `TNEventProofs` | the invariant of the event flags, and that they implement `EventFlags` | `TNEvent`, `TNKernelProofs` |
| `TNMemProofs` | that the blocks of a pool lie in its memory, its invariant, and that it implements `Pool` | `TNMem`, `TNKernelProofs` |
| `USBLoopbackProofs` | the invariant of the loopback, and that it implements `EchoLine` | `USBLoopback` |
| `USBDmaProofs` | the invariant of the loopback with DMA, and that it implements `EchoLine` without a loss until a request overtakes an end of transfer | `USBDma`, `USBLoopbackProofs` |
| `USBControlProofs` | the walk over the descriptors, and the invariant of a control transfer | `USBControl` |

### The kernel

The record `k` holds what kernel functions touch with interrupts disabled, under
the names of the C variables and fields: `k.q` is the heap of `task_queue` links
(node `p` in `0..TN_NUM_PRIORITY-1` is the list head `tn_ready_list[p]`),
`k.tn_ready_to_run_bmp` the set of bits, `k.task_state[t]` and the others the
fields of the control block of `t`. The internal C functions are operators from
one `k` to the next, so a call is one step from `tn_disable_interrupt` to
`tn_enable_interrupt`. The processor is modelled by `tn_curr_run_task`, by `pc`
(where the running task is) and by `task_stk` (where every other task resumes);
`pc = "switch"` is the gap between `tn_enable_interrupt` and the switch, and
`"exit"` the gap in `tn_task_exit`. An interrupt is a sequence of steps:
`IrqEnter`, any number of calls of the handler forms and of the tick, `IrqExit`,
which switches if one of them asked for it. The tick's walk over the timeout
list is one step per entry (`tick_walk`).

`TNObjects` adds one object: `id` says that its `id` field holds the magic
number, the heads of its wait queues are nodes of `k.q` (`WaitLists`), and
`deleting[t]` is where task `t` is in the delete function. That function is the
only one of the kernel that is not one critical section: it tests its loop
condition with interrupts enabled (`DeleteTest`), removes and releases one task
in a critical section (`DeleteRemove`) that ends with a switch to that task, or,
if the task is suspended, does not end (`locked`) before the next release or
the end of the function, and clears `id` in a last one (`DeleteEnd`).

A call that waits is two actions: the one that begins to wait, and the second
half (`AcquireEnd`, `ReceiveEnd`, `GetEnd`, `WaitEnd`) that fetches the wait result, the
element, the block or the flags from the control block when the task runs again. What happens to the
object in between is where direct handover could go wrong, and what the
refinements check.

* `TNSem`: `count` and `max_count`, and `acquiring`, the tasks that will return from
  `tn_sem_acquire` when they run. `report` is what the caller of the last step is told
  with `TERR_NO_ERR`, that a unit was given or taken. The mapping to `Semaphore` takes
  `id` for `exists`, the ring at the head of the wait queue, read from the links, for
  `waiting`, and for `handed` the tasks that were woken with `TERR_NO_ERR` and have not
  returned. In `Semaphore` only a signal puts a task there, the one that waited longest,
  and a step that reports a unit given or taken is one that gives or takes it; a task
  that leaves in another way (`GiveUp`) reports nothing and has no unit. So a signal
  that is lost, or serves another task, is no step of it. (An interrupt may come between
  any two calls and reports nothing, so a false report cannot always pass for a stutter
  after a true one.)
* `TNDqueue`: the storage `fifo` with its two indices, `data_elem`, and who is in
  the second half of a receive. To `Channel`: `Contents(fifo)` for the stored
  elements, the two rings for senders (each with its `data_elem`) and receivers,
  and for `handed` the `data_elem` of a task that was woken with success and has
  not returned.
* `TNMem`: `fmp` (the control block), `cell`, the word at each address, and
  `out`, the blocks the application has, into which it writes. To `Pool`: the
  blocks met when the free list is followed through the memory.
* `TNEvent`: pattern and attributes, pattern and mode of each task. To
  `EventFlags`: the conditions of the waiting tasks and the flags given to them.
* `TNMutex`: the record `mx` with the mutexes and with the three kinds of lists
  they use, again link by link. The internal functions are operators on
  `[s, m, need]`: kernel data, mutex data, and whether one of them asked for a
  switch. To `Lock`: `holder` and the rings of the mutexes with inheritance. `mx.stray`
  records that an unlock took the head of the empty list of blocked tasks for a task
  (`RetryBlocked`, `tn_mutex.c:469`), which reads and writes memory that is no task.

Abstractions, and why they lose nothing here:

* The timeout list is a sequence: entries are added at its tail and unlinked
  from anywhere, always while linked (`StopTimer` unlinks exactly when
  `tick_count` says the entry is linked). The list of created tasks is a set.
* A refused call (a wrong state or context) changes nothing and is left out,
  as are `NULL` and identifier checks.
* A call after which the code tests `tn_next_task_to_run != tn_curr_run_task`
  and skips the switch takes a switch from the task to itself.
* `tn_enable_switch_context` is set to 1 at the start and no function clears it.
* Handlers do not nest: the port's vectored interrupt entry runs one at a time.
* Registers and stack contents are the place to resume at.
* Interrupt handlers may make any handler call, in any order and number.
* Event flags are a set of flags, elements of a queue are opaque: no operation
  looks at an element (`SYMMETRY` on `Data` and `Flags` is sound for that reason).

### The calls an application may make

`Spec` of `TNTasks` has every call in every state. The specifications that are
checked and proved leave out the calls below, which the code does not survive
or which it answers in a way a caller must not rely on. Section 5 names the line
of each.

* Tasks (`DisciplinedSpec`): no `tn_task_terminate` of a sleeping task, no
  `tn_task_exit(TN_EXIT_AND_DELETE_TASK)` with an activation pending, no
  `TN_TASK_START_ON_CREATION` after the start-up, no `tn_task_change_priority`
  where time slices are in use.
* Objects: a task waits for an object without a timeout and is not released by
  `tn_task_release_wait` (run `sem_timeout` shows why); an object is deleted only
  when nothing can come between the steps of the deletion (`Undisturbed`, and no
  handler uses it meanwhile) and nobody is suspended; a block is released once;
  a task that waits for flags with `CLR` is not suspended.
* Mutexes: waits without a timeout; the mutexes of an application are of one
  protocol, and with ceilings a task holds one at a time and terminates nobody
  who holds one; a ceiling mutex is unlocked, by a call or by the end of its holder,
  only while a task waits for it or a task is blocked (`~mx'.stray` in `MxNext`);
  with three tasks no circle of waiting tasks (`NoCircle`); no
  termination of a task that waits for a mutex or holds one with waiters
  (`Uncontended`); deletion only undisturbed, of a ceiling mutex only when it is
  free.

All other interleavings of tasks, handlers and switches are in.

### The device

`USBControl` has three variables: `udi` (the control block `gUSBInfo`), `hw` (the
buffers, pending interrupts, stall, address and enabled endpoints of the
controller) and `host`. A packet is where its bytes come from, from which offset,
and how many there are. The interrupt handler is one step; the host is an
external part that sends any request, goes on with it packet by packet, may give
it up at any stage for another, and may reset the bus. It sends SETUP when the
interrupts of what it did before have been served (`Served`). A SETUP packet is
always accepted, replaces what is in the buffers and ends a stall, as the
controller's manual has it.

`USBLoopback` takes queue and pool calls at the level of `Channel` and `Pool`. At
most one task waits at a side of a queue or pool here, so a call hands over at
once to that task (`WaitsAt`). The task of the highest priority that does not
wait runs; each of its calls is a step, and an endpoint interrupt, which runs
to its end, may come before each step. `USBDma` adds the descriptors of each
endpoint, which of them the UDCA points to, which endpoints the engine may
serve, its two kinds of requests, and the packet that was copied over the
descriptors after its own (`whole`). A descriptor without a packet makes the
engine answer NAK; raising the request for a new descriptor clears the enable
bit. The engine works on while the handler runs. The handler is two steps,
`FirstTest` (ends of transfer, `tn_user.c:103`) and `SecondTest` (requests,
`tn_user.c:121`), each of which reads its status word once, and any number of engine
steps may come between them; `ctl.overtaken` records that a request was served before
the end of transfer that came between the tests. Inside a test the engine can only
move a packet of an endpoint whose descriptor is ready and raise bits that this
test has read already, which it may as well do before or after the step.

## 3. Runs

| Run | Result | Shows |
|---|---|---|
| `tasks_calls` | holds | all task calls from two tasks of one priority and from handlers: `TypeOK`, `ReadyListsSound` (the ready lists are intact rings of exactly the runnable tasks), `NextIsHighest`, `NoLostPreemption` (outside the kernel and interrupts a task of the highest priority runs), `TimeoutListExact`, `SuspensionLasts` (no timeout, wakeup or release ends a suspension) |
| `tasks_waiting` | holds | time slices and timeouts while ready lists rotate: `TimedWaitEnds`, `TopmostRuns` under `Fairness` |
| `sem_calls` | holds | tasks and handlers on a semaphore: `SemSound` (the wait queue is an intact ring of exactly the waiting tasks, who wait only when there is no unit), `ImplementsSemaphore` (a signal serves the task that waited longest, and no success is reported without a unit) |
| `dqueue_calls` | holds | `DqSound` (both wait queues, senders wait only when the storage is full, receivers only when it is empty), `ImplementsChannel` |
| `mem_calls` | holds | `MemSound` (the free list is a chain of exactly the free blocks, whatever users wrote into theirs), `BlocksFit` (creation: blocks aligned, apart, inside the memory given), `ImplementsPool` |
| `event_calls` | holds | `EvSound` (nobody waits for flags that are set), `ImplementsFlags` |
| `mutex_calls` | holds | `MxSound` (all lists), `NoMissedLock` (nobody waits for a mutex that nobody has locked and that could be locked), `BoostEnds` (an inherited priority is given back), `InheritanceLasts` (a waiter raises the task that must unlock, and the raise ends only for a reason), `ImplementsLock` |
| `usb_firmware` | holds | bulk endpoints: `BlocksAccounted`, `NumbersInSequence`, `ImplementsEcho` (packets come back in order and once, but for one that is lost to a full queue), `EchoReturns`, `AcceptsAgain`; Endpoint 0: `AnswersExact`, `AcknowledgedDone`, `ConfiguredTogether` through abandoned transfers and bus resets, `TransfersEnd` |
| `dma_loop` | holds | until a request overtakes an end of transfer: `ArmedHasBlock`, `EchoUnlessOvertaken` (packets come back in order, each once, none lost), `AllReturned`; in any case: `OverwrittenUnused` |
| `sem_timeout` | violated | a task whose wait for a semaphore timed out is still in the wait queue; the next signal takes it out of the ready list's ring |
| `dma_race` | violated | the same specification: when the engine finishes a packet and asks for a descriptor between the two tests of the handler, the packet is copied from the wrong descriptor, and the host does not get the packets back as it sent them |
| `loopback_lost` | violated | a packet that comes while the queue of Endpoint 2 OUT is full is lost: the host gets the one after it back, and never this one |

The five object runs also check `SchedulerSound`, that is `ReadyListsSound` and
`NoLostPreemption` with tasks that wait for objects: the calls of an object
move tasks between the ready lists and its wait queues through the same links.

**Bounds.** In `tasks_calls` and `tasks_waiting` two application tasks and the two
system tasks give every relation between caller, target and interrupted task,
and lists from which one task leaves while the other stays. A timeout of one tick
expires at the first tick, one of two is counted down first. Four priorities are
the timer's, the idle task's and two between; the mutexes have six, with a ceiling
above all tasks and three priorities to inherit.

In the object runs two of the tasks make every call (create, delete, suspend,
resume, terminate, exit, the polling forms) and three make the calls by which
tasks meet on the object (`CallsNext` in each MC module); all calls by all three
are too many states. One task of a priority above two
of equal priority gives waiting in and against the order of priority, and queues
from whose middle a task is terminated. Two units let the count be neither zero
nor full. Data queues have 0 to 2 entries, that is room for none or one element,
and an array that wraps round (on a queue of one entry two tasks send and receive;
it stores nothing, like one of none, which has all calls). Pools that tasks use have two blocks at most;
`BlocksFit` is also checked for every start from 0 to 4, block size from 3 to 9
and number from 1 to 4, so that both alignments round and both bounds are met.
Two flags give waits that want one, the other, either or both. Two mutexes give
chains of three tasks and nested locks.

Queues and pools of the loopback have two entries and blocks, the least for which
a queue stores anything; three packets of the loop use each block again, and one
or two of each other endpoint compete for the processor (`MaxPackets`, which is
also why the system may stop: `CHECK_DEADLOCK FALSE`). The bound ends the load of the
tasks of higher priority, so `EchoReturns` is about packets that get stuck and says
little about starvation of the task of the lowest; and Endpoint 5 OUT gets one packet for
two blocks, so `AcceptsAgain` is about Endpoint 2, whose pool runs empty. `NumBuf` is 8, as in the
code: the packet copied over descriptors 2 to 4 reaches others that are used.
Endpoint 0 has packets of 64 bytes and answers shorter than and as long as a packet,
shorter and longer than what the host asked for; its host may stop, hence
`CHECK_DEADLOCK FALSE`. No state constraint is used. `SYMMETRY` is used only in
runs without liveness properties.

**Fairness.**

* `TNTasks`: handlers return (`IrqExit`, `TickEntry`), the timer interrupts again
  and again (`IrqEnter`, `tn_tick_int_processing`), and interrupts leave the
  processor time to finish a context switch that was begun (`ContextSwitch`,
  strong, because each interrupt disables it for a moment). Nothing is assumed
  of tasks: a task may run for ever without a call.
* `USBLoopback` (`BulkFairness` in `MCUSB`, for the behaviours in which this part moves): a
  task that may run goes on, and the host reads what the IN endpoints have. The host
  need not send.
* `USBControl` (`HandlerFairness`, `HostFairness`): the handler runs when an interrupt is pending; the host goes on
  with its transfers and from some time on gives none up (a host that always does
  gets no answer).
* `USBDma` (`DmaFairness`): the handler returns and runs again while a bit is set; the tasks,
  the engine and a host that configures, sends and reads. The conditions under which
  handler and tasks are enabled are written out, since TLC takes very long to find
  them.

## 4. Proofs

| Module | Theorem | Property |
|---|---|---|
| `TNKernelProofs` | `TypeCorrect` | `TypeOK` |
| | `ReadyListsCorrect` | `ReadyListsSound` |
| | `NextCorrect` | `NextIsHighest` |
| | `NoPreemptionLost` | `NoLostPreemption` |
| | `TimeoutsCorrect` | `TimeoutListExact` |
| | `SuspensionsLast` | `SuspensionLasts` |
| `TNSemProofs` | `SemCorrect` | `SemSound` |
| | `SemScheduler` | `SchedulerSound` |
| | `SemImplements` | `ImplementsSemaphore` |
| `TNDqueueProofs` | `DqCorrect` | `DqSound` |
| | `DqScheduler` | `SchedulerSound` |
| | `DqImplements` | `ImplementsChannel` |
| `TNEventProofs` | `EvCorrect` | `EvSound` |
| | `EvScheduler` | `SchedulerSound` |
| | `EvImplements` | `ImplementsFlags` |
| `TNMemProofs` | `MemFits` | `BlocksFit` |
| | `MemCorrect` | `MemSound` |
| | `MemScheduler` | `SchedulerSound` |
| | `MemImplements` | `ImplementsPool` |
| `USBLoopbackProofs` | `BlocksCorrect` | `BlocksAccounted` |
| | `NumbersCorrect` | `NumbersInSequence` |
| | `EchoCorrect` | `ImplementsEcho` |
| `USBDmaProofs` | `ArmedCorrect` | `ArmedHasBlock` |
| | `OverwrittenCorrect` | `OverwrittenUnused`, until a request overtakes an end of transfer |
| | `NothingDropped` | (until then no packet is dropped; no run states it) |
| | `DmaEchoCorrect` | `EchoUnlessOvertaken` |
| `USBControlProofs` | `AnswersCorrect` | `AnswersExact` |
| | `AcknowledgementsCorrect` | `AcknowledgedDone` |
| | `ConfiguredCorrect` | `ConfiguredTogether` |

Each is a theorem about the specification the run of that property checks
(`DisciplinedSpec`, `SemSpec`, `DqSpec`, `EvSpec`, `MemSpec`, `Spec` of `USBLoopback`,
`Ep0Spec` of `USBControl`, `DmaSpec`), for every value of its constants; the object runs check
a part of it, in which only two tasks make every call, and `usb_firmware` the two parts of the
firmware side by side. A run with fairness checks the same specification with the fairness
as a further conjunct. The semaphore, the queue, the pool and the flags are proved under
the rules of section 2, so for waits without a timeout.

**Assumptions.** Those the modules declare, which TLC evaluates in every run.

* `TaskAssumption`, `PriorityAssumption`, `ArgumentAssumption` (`TNTasks`): names of
  tasks, list heads and `NULL` are distinct, the system tasks have the first and
  the last priority and no application task does, timeouts are positive.
  `FiniteAssumption`: there are finitely many application tasks, as memory is finite;
  a loop over a wait queue ends because of it.
* `WaitListsAssumption` (`TNObjects`): the wait queues of the object are the list
  heads that are no ready lists. `SemAssumption`: one of them, and a count between
  zero and the maximum. `DqueueAssumption`: two different ones, as `tn_dqueue.c`
  has two fields, and a storage for any number of entries, zero included.
  `EventAssumption`: one, and attributes among the three of `tn.h`.
  `MemAssumption`: one, and the memory given to a pool consists of addresses, which
  `NULL` is not.
* `LoopbackAssumption` (`USBLoopback`): every queue has two entries or more, as
  an array of one holds nothing.
* `DmaAssumption` (`USBDma`): an endpoint has five descriptors or more, so that the
  empty one, which is the last, is not among the three a packet is copied over.
* `ControlAssumption` (`USBControl`): a packet of Endpoint 0 has one of the four sizes
  USB allows, and the table is any sequence of descriptors of at least one byte.
  `DescriptorsAssumption`: every answer from the table fits into a packet (section 5
  says why it must), 0 is the value of no configuration, no configuration reaches into
  the next one, and every endpoint comes after an interface of a configuration.
  `RequestsAssumption`: the class request 0xFE is made in the direction of its data and
  0xFF is not; the firmware does not look at the direction of a class request. The
  requests are otherwise any, known to the firmware or not, with any value and length.

**Scheduler.** None of the properties is inductive. That each list is a ring of
the right tasks says nothing of the next task; that the next task is the highest
does not say who runs. The invariant `IInv` is

* `KernelOK(k)`: `ListsOK` (every ready list is a `Queue` of exactly its tasks,
  and the bitmap agrees), `Top` (the next task is runnable and highest),
  `FirstInList` (without time slices it is the *first* of its list, which is
  why recomputing it after a removal finds the same task again), and `TaskOK`
  (the idle task is always runnable, so no list operation ever leaves the
  system without a task; tasks that are not created are dormant; a task whose
  timer counts is waiting);
* `Control`: at a place outside the kernel with no switch requested, the running
  task is `Right`: runnable, highest and, without time slices, the next task.

The first part of `TNKernelProofs` carries the argument about links. `IsRing(q, h, s)` says the ring at
head `h` visits `s` in both directions; `Queue(q, h, E, N)` says some sequence of
exactly the elements of `E` does. Each queue function gets a lemma on sequences
(`RingAddTail`, `RingRemoveEntry`, ...) and one on sets (`QueueAddTail`, ...), and
`QueueFrame` says a queue is untouched when its own nodes are. The second part
lifts them to the internal functions (`RemoveFromList`, `AddToList`,
`ToNonRunnable`, `ToRunnable`, `ChangeRunning`, `Rotate`), then has one lemma per
action, `StepOK` over all of them, and the theorems.

The rule on `tn_task_change_priority` came out of these proofs: without it
`FirstInList` fails under time slices and the step of that call cannot be proved.

**Timeouts.** `TimersOK(k)` is added to `IInv`: the timeout list has
no repetitions, its entries are exactly the tasks whose `tick_count` is not
`TN_WAIT_INFINITE`, and those have ticks left. `RemoveFirstEntries` and
`AppendEntries` say what unlinking and adding do to such a list; `StopTimerListed`
and `WaitCompleteTimers` lift that to the two kernel functions that end waits, and
`TimerStep` goes through the actions. `IInv` is needed for the converse
half: a timer runs only for a task that waits. The invariant also gives the
suspensions: an action that makes a suspended task anything else either ends a
wait, and then leaves `SUSPEND`, or is one of the four calls the property allows.

**Objects.** The scheduler's lemmas say of a step not only that it keeps `IInv`
but who stops waiting (`Stops`) or begins to (`Begins`), and that the links of all
other waiting tasks and of the wait queues stay as they are. The third part of
`TNKernelProofs` builds on that, for any object: `Line(s, que, reason, w)` says the wait queue is
the ring of the sequence `w`, and that `w` has exactly the tasks that wait for
that reason; `ObjectInv` has it for every wait queue of the object, together
with `IInv` and the place of each task in the delete function. `LeavesList` (a task
is woken, released by the deletion or terminated) and `JoinsList` (a task begins to
wait) say what becomes of the sequence, so that order is kept and not only
membership.

* `SemInv` adds that a task waits only while the semaphore exists and has no
  unit, and that every task that waits is in `tn_sem_acquire` and will return from it. Each
  call is one action of `Semaphore`: `CountsOK` has those that count, `SemWakes` the
  signal that finds a waiting task (the head of the sequence leaves it, and is from then
  on in `handed`), `SemWait`, `SemReturns`, and `SemPlain` and `SemEnds` the rest, which
  report nothing. A task may take a unit or come to wait, never both: `Take` and `Wait`
  are two actions for that reason.
* `DqInv` adds that senders wait only for a full storage and receivers only for an
  empty one, and `FifoOK`: the two indices stay inside the array. The lemmas
  `FifoWrite` and `FifoRead` are about the indices modulo the number of entries; a
  storage without entries is both full and empty, and the step lemmas have it as
  a case.
* For `ImplementsChannel`, `FifoContents`, `WriteContents` and `ReadContents` show that the
  ring with its two indices is a bounded sequence. `View` has the stored elements and
  the lines of both wait queues, and each way a call can go is one action of `Channel`
  on it (`ChHandOver`, `ChStore`, `ChBlock`, `ChReceive`, `ChAwait`, ...). `ChInv` adds
  `ReceivingOK`: a task that waits to receive is in `tn_queue_receive` and will return
  from it, and a task there waits for nothing else. That, and that no step changes the
  wait result of a task it does not wake (`Cleared`, `Undone`), is what keeps an
  element with the receiver it was handed to until that task has fetched it.
* `EvInv` adds that the flags that are set meet the condition of no task that waits,
  whatever order they are set and waited for in. `scan_event_waitqueue` is a loop over
  the wait queue that takes entries out as it goes. `RingVisits` says a loop over the
  links of a ring visits its sequence, `ScanWalk` that the fold is a walk over that
  sequence, entry by entry, and `ScanSteps`, by induction on the entries visited, that
  after each of them exactly the tasks met so far are released, with the flags and
  `TERR_NO_ERR`. `ScanResult` has the end: exactly those whose condition is met. The
  induction is `SetInduction`, over the *set* of the numbers for which the statement
  holds, since the prover cannot instantiate a theorem that has an operator parameter.
* For `ImplementsFlags`, `FlagsInv` adds who is in `tn_event_wait` and will return from
  it, and that with automatic clearing none of these is suspended: the rule of
  section 2 on suspension, which is what makes the release and the clearing go
  together. `NoMoreSuspends` says that `tn_task_suspend` is the only call that matters
  for it.
* `HeaderInv` says what the header of a pool has to do with the memory it was
  given; the arithmetic of the alignment is in `AlignUp`, `ActualFit` and `NewPoolFits`.
* `MemInv` adds who has each block. `FreeChain(f, c, w)` says that the cells `c` of the
  memory link the blocks of the sequence `w`, that these differ, and that the header `f`
  has their first and their number; `ChainIs` (`SetInduction` again) says that following
  the links then visits `w`. `FirstGoes` and `FirstComes` are `fm_get` and `fm_put` on it;
  what the user of a block writes into it touches no link because of `Parts`: no block is
  in two of the places free list, application, and on its way to a task. `RoomForAll`
  counts: a block the application has finds room on the list, so the result of
  `fm_put` that `tn_fmem_release` does not look at is never `TERR_OVERFLOW`. `GettingOK` is
  for the pool what `ReceivingOK` is for the queue, and each way a call can go is one
  action of `Pool` (`PoolGet`, `PoolPut`, `PoolGive`, `PoolWait`, `PoolFetch`, `PoolPlain`,
  `PoolEnds`, `PoolCreate`).

**Loopback.** All blocks of a pool are in at most five places: the pool, the queue,
with the task that receives, with the task that sends, and, inside an interrupt, in
the hand of the handler. `Parts` says these are apart and together are all blocks
but the lost one; `PopPool`, `PopQueue`, `PushPool` and `PushQueue` move a block from
one place to another. `BuffersOK` has `Parts` for every buffer, and `SendOK`, `TakeHeadOK`
and `FreeOK` say of the three internal calls that a block given to one of them ends
in one place, whichever task waits. `BlocksInv` is `BuffersOK` with an empty hand,
and that an endpoint has lost at most one block. That it loses no second one is the
count of `FullQueue`: a pool that lost one has as many blocks as the queue has
places, so with a full queue none is left to receive into.

The data need more: `DataInv` (blocks hold numbers), `WaitsEmpty` (a task that waits
to receive finds its queue empty) and `NumbersInv` (the numbers in the queue of
Endpoint 2 IN follow the last one read, and the one `task_ep2_tx` holds follows
those). `LoopInv` is all four. The effect lemmas (`ReceiveEffect`, `SendEffect`, ...)
say once what an action does to the queues and to each task's record.

For `ImplementsEcho` the packets on their way are a line of five parts (`InLine`): queue,
task, queue, task, queue. Each action moves a packet from one part to the next,
which leaves the line as it is (`LineMoves`), adds one at its end (`LineGrows`,
`LineStarts`) or takes one from its front (`LineGives`). `WaitsEmpty` is what makes
the direct handover keep the order: a packet that is handed to a waiting task passes
no other. `BlocksInv` is what makes the contents stay: the block a task or the
endpoint writes to is in no queue and with no other task. A packet is missing only when
the queue of Endpoint 2 was full as it came, and then the line has at least as many packets
as that queue holds (`Room` of `EchoLine`; `LineCovers`, `PacketsLength`).

**Loopback with DMA.** The invariant is `DmaUnless`: `ctl` has its type, and a request has
overtaken an end of transfer or `DmaInv` holds. `DmaInv` has the buffers and their contents as above, with no
block lost (`Sound`), and what they have to do with the engine:

* `RxOK`, of an OUT endpoint: from the moment a descriptor is ready until the end of
  its transfer is handled there is room for one more packet (`Room`: the receiving task
  waits, or the FIFO has a place). The handler makes it so when it arms the engine, and
  between two handlers the tasks only take (`OnlyTaken`, `RoomStays`). As a pool has one
  block more than the FIFO has places, room means a free block: `RoomHasBlock`, which is a
  count over `Parts`. This is `ArmedHasBlock`, and why nothing is dropped.
* `TxOK`, of an IN endpoint: the engine has the first descriptor or the empty one, and
  asks for another only when it is done. So the first one is retired whenever a packet is
  waiting for a descriptor, and those that are written over come never into use.

Each test of the handler goes over the endpoints. `Good` says of the record a test works
on that it is sound, which ends of transfer and requests are left, and what `AllOf` gives:
the packets with the engine, with the tasks and in the queues, in one line.
`FillSound` and `DrainSound` are the two ways a packet passes between engine and queue;
`EndOfTransferStep`, `RxRequestStep` and `TxRequestStep` lift them to the functions of
`tn_usb_ep_dma.c`, and `EndsGood` and `RequestsGood` to the two tests. A packet has to be
copied (`EoT`) before its descriptor is given away (`NDDR`): `RequestsGood` needs that no
endpoint has both, which is what `~overtaken` says of the second test, whatever the engine
has done since the first. For `EchoUnlessOvertaken` the handler and the tasks leave the line
`AllOf` as it is, `DmaOut` adds to its end and `DmaIn` takes from its front. The steps of the
tasks are those of
`USBLoopback`, with its lemmas. TLC has checked `DmaInv` on the instance of `dma_loop`.

**Control transfers.** None of the three properties says where a transfer is. `ControlInv` does,
of the device and the host together:

* While the host waits for a packet or has data to send, `Stage` is one of five: the SETUP
  packet is there to be read (`Pending`); data is on its way to the host, and what it got with
  what lies in the buffer is the answer (`Sending`); data is on its way to the device, which
  counts down at least what the host still has to send (`Receiving`); the request is carried
  out and the empty acknowledgement lies in the buffer (`Carried`); the endpoint is stalled
  (`Declined`). Otherwise nothing is left of a transfer that could be taken for a part of the
  next: no SETUP packet, and no bytes to be sent.
* `Together` is `ConfiguredTogether` for a device. `ResetInv` is what holds from a bus reset to its
  interrupt, when the firmware still has the old configuration and the controller has none.
* `ConfsInv`: the configuration is among those the host takes for possible, or is the one
  whose acknowledgement the host has not got. This is why the answer to `GET_CONFIGURATION`
  is right after a `SET_CONFIGURATION` that was given up.

`Serves` says what one request does to the device, whichever it is, and `SetupServes` collects
the functions of `tn_usb_req.c`; `Ready` and `Outcome` follow the result through `Capped` and
`Answer`. Then one lemma per action keeps the invariant. For `SET_CONFIGURATION`,
`WalkCovers` says that the walk over the table enables at least the endpoints that belong to the
configuration in the alternate setting 0. It goes along the table (`WalkOK`, `WalkStep`): what is passed
over ends with the configuration that is passed over (`Skips`), so that nothing is passed over
from the configuration that is looked for to the next one, and the last interface seen is the last one there is
(`Seen`). TLC has checked `ControlInv` on the instance of `usb_firmware`.

**Model-checked only.**

* Liveness (`TimedWaitEnds`, `TopmostRuns`, `TransfersEnd`, `EchoReturns`, `AcceptsAgain`,
  `AllReturned`): the prover has no rule for fairness and `ENABLED`.
* The properties of the mutex: its functions walk four kinds of lists with folds, each
  of which needs what `ScanWalk` to `ScanResult` do for the event flags. Its rules of
  section 2 are also made for the tasks and mutexes of `MCMutex`: `NoCircle` is about three
  tasks.

## 5. Where the code departs from what a user would expect

`sem_timeout`, `dma_race` and `loopback_lost` check a sentence of the documentation or of a
comment and show it violated; `findings` in `PROJECT.json` has all three. The list below
is what the models showed or contain besides; where a rule of section 2 excludes it, the
runs do not reach it.

Kernel:

* `tn_tasks.c:546`: the termination of a sleeping task unlinks an entry that is in
  no list; a runnable task can drop out of its ready list.
* `tn.c:222`: the tick rotates the ready list and asks for no switch, so a slice
  that ends never gives the processor to another task.
* `tn_tasks.c:268`: a wakeup ahead of the sleep is credited to the caller and not
  to the task it names.
* `tn_tasks.c:512`: an interrupt just before `tn_switch_context_exit` saves the
  context of the exited task over the fresh one.
* `tn_tasks.c:847`: after a rotation and a termination, a task that lowers its
  priority goes on running below others.
* `tn_sem.c:68` and `:84` (and the same lines of the other objects): a task that
  begins to wait between the last test of a deletion and its end waits for ever.
* `tn_sem.c:76`, `tn_dqueue.c:94`, `tn_mem.c:125`: a suspended waiter of a deleted
  object is not told `TERR_DLT`.
* `tn_utils.c:134`: a queue created with n entries stores n - 1.
* `tn_event.c:266`: flags with `CLR` are not cleared for a waiter that is suspended
  when they are set.
* `tn_mutex.c:458`: the new holder of a mutex does not inherit from those that wait
  on. `tn_tasks.c:923`: at the end of a chain of holders the wrong task may get the
  priority. `tn_tasks.c:794`: with two mutexes a priority may be taken back that is
  still due to the other. `tn_tasks.c:560`: the mutexes of a terminated task are
  unlocked as if the caller held them. This is why `InheritanceLasts` asks only that
  a task raises the one that has to unlock first, and why `NoCircle` and
  `Uncontended` exist.
* `tn_mutex.c:470`: when a ceiling mutex is unlocked, nobody waits for it and no task
  is blocked, the head of the empty list of blocked tasks is taken for a task and given to
  `try_lock_mutex`. What this reads and writes depends on the memory around the head; the
  rule of section 2 excludes every such unlock, so what the runs show of ceiling mutexes
  holds only where each unlock finds a task that waits or is blocked.
* `tn_mutex.c:433`: the holder of a ceiling mutex is not reset when the first waiter may
  not have it, as when the caller still holds another. In the runs a task holds one at a
  time with ceilings, and no property claims anything of that line. `tn_mutex.c:546`: two tasks of the
  ceiling's priority may wait for each other.

Device:

* `tn_usb_ep.c:135` (`loopback_lost`): a packet that was read is lost, with its block, when
  the queue is full. `BlocksAccounted` shows that this happens once for an endpoint at
  most, and `ImplementsEcho` that nothing else is missing or out of order.
* `tn_usb_req.c:71`: `SET_FEATURE`, `SET_INTERFACE` and `GET_INTERFACE` are always
  stalled. `tn_usb_req.c:53`: the address of the next packet advances in words, so
  an answer in memory of more than one packet would be wrong from its second packet
  on. The descriptors of the firmware are shorter; `DescriptorsAssumption` has this, and
  those of `MCUSB` have answers of one full packet at most.
* `tn_user.c:84`: the receive interrupt of Endpoint 0 is served before the transmit
  interrupt whatever came first; hence `Served`.
* `tn_usb_ep.c:95`: after a part of the data of a control transfer the handler reads
  again and waits, in the interrupt, for the next packet, which it discards:
  `TransfersEnd` makes an exception for transfers with several packets of data.
* `tn_user.c:98`: the interrupt of the bulk endpoints is cleared at the end of the
  handler; the model takes it to be raised again while an endpoint asks for it.
* `tn_usb_hw.c:89`: the interrupt of a bus reset configures Endpoint 0 only. `USBControl` lets
  endpoints that were enabled stay so over a reset (`hw.enabled` only grows), so
  `ConfiguredTogether` says nothing of a firmware that would have to enable them again.
* `tn_user.c:121` (DMA, `dma_race`): after a request has overtaken an end of transfer, packets
  may be lost, come twice or contain what was left in a buffer; `dma_loop` and the
  theorems are about the time before it.
* `tn_usb_hw.c:114` (DMA): a bus reset makes the descriptors anew without looking at
  the FIFO; a reset under way is not in `USBDma`.
* `src/README.md:203` says the handler looks at the pool before it gives
  the engine a descriptor; it looks at the FIFO. `ArmedHasBlock` shows that this is
  enough.
* `tn_usb_ep_dma.c:280`: a packet to the host is copied over the descriptors that
  follow its own. `OverwrittenUnused` shows that these are never used.

## 6. Plan

Done: the scheduler, the semaphore, the data queue, the event flags, the memory pool,
Endpoint 0 and the loopback without and with DMA, checked and proved, all but the scheduler
and Endpoint 0 with the abstract specification they implement; the mutex, checked, with a
refinement. What could follow, in this order:

1. Proofs: the walks of the mutex over its lists.
2. `USBLoopback` over `TNDqueue` and `TNMem` instead of their abstract
   specifications (`Channel` and `Pool` stand in for them here).
3. A bus reset while descriptors are in use.

## 7. Not modelled

Device registers other than those `USBControl` and `USBDma` name, start-up code, the
loader, descriptor tables (constants; `MCUSB` has one of the same format, with a second
configuration and an alternate setting), the initial register frame of a task, and the ports for other
assemblers (the same routines in other syntax): no state the kernel or the device
protocol shares, or pure input and output. `int_ep0_qty` and the debug counters of
the firmware are left out. Calls that refuse their parameters change nothing
and are left out, with two exceptions: a second creation of an object, which is
modelled, and `tn_sys_tslice_ticks` with refused arguments (`tn.c:182`), which
returns with interrupts disabled. The latter, and timeouts of 0x80000000 ticks or
more, negative in the signed `tick_count`, are listed as hazards and left out. In
`USBDma` suspension and the DMA error interrupt are left out as well.
