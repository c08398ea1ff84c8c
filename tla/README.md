# A verification model of the Darwin 1.0 kernel's core

This directory holds TLA+ models of the parts of Darwin 1.0 that everything
else in the system rests on: how a thread of the Mach kernel waits, is woken,
is switched and is stopped, the locks and semaphores built on that, and the
ports of Mach: their message queues, their sets and their rights. TLC checks the models
on small instances; TLAPS proves the theorems for every value of the constants.
The source paths below are relative to `src/xnu-1-1/osfmk/kern/`, those that
begin with `ipc/` to `src/xnu-1-1/osfmk/`.

## 1. Inventory

Darwin 1.0 is an operating system distribution: one kernel (`xnu-1-1`), its
system libraries, and some seventy user-level packages, most of them imported.
The logic that is Darwin's own, concurrent and hard to test is in the kernel,
and within the kernel in the Mach half (`osfmk`) and the glue of the BSD half.

| Part | State it keeps | Operations | What makes it hard | What makes it correct |
|---|---|---|---|---|
| Event waits and blocking (`sched_prim.c`, `wait_queue.c`) | `state`, `wait_event`, `wait_queue`, `wait_result` of each thread; a hash table of wait queues; run queues | `assert_wait`, `thread_wakeup`, `clear_wait`, `thread_block`, `thread_invoke`, `thread_dispatch` | a thread is off its processor in several steps; wakeups, aborts and timers come in between, from other processors and from interrupts; two lock orders | a thread is in one place; no wakeup is lost or given to another event's waiter; waits end once |
| Stopping threads (`thread_stop`, `thread_wait`, `thread_unstop`) | `TH_SUSP`, `wake_active`, `wake_lock` | stop, wait until stopped, unstop | several stoppers; the target blocks and is woken meanwhile | one stopper at a time; no stopper sleeps through what it waits for |
| Wait timers and thread calls (`thread_call.c`) | `wait_timer`, `wait_timer_is_set`, thread references; delayed and pending queues | arm, cancel, expire | the expiry runs on another thread, after the cancellation or the next arming | each reference is dropped once; a timed wait ends |
| Scheduling policy (`mk_sp.c`) | `th_state`, priority, quantum | attach, begin, done, dispatch, unblock | told about switches in steps, by different processors | what is selected is runnable |
| Complex locks (`lock.c`) | `read_count`, `want_write`, `want_upgrade`, `waiting` | read, write, done, upgrade, downgrade | claims are visible to others before they are granted; wakeups are conditional | exclusion, no lost wakeup, no deadlock of upgrades |
| Mutexes (`lock.c`, `ppc/hw_lock.s`, `i386/i386_lock.s`) | `interlock`, `locked`, `waiters` | lock, try, unlock | the count of waiters is kept apart from the waiters; one is woken per unlock | exclusion, no lost wakeup |
| Semaphores, lock sets (`sync_sema.c`, `sync_lock.c`) | count, ownership, wait queue | wait, signal, handoff, destroy | timeouts and destruction race signals | signals are neither lost nor doubled |
| Message queues and port sets (`ipc/ipc_mqueue.c`) | messages, `msgcount`, full waiters, members | send, receive, change limit, destroy | slots are handed to waiting senders; receivers wait on sets | no message lost or received twice; limits hold |
| Receive rights in messages (`ipc/ipc_port.c`) | `ip_destination`, the state of each receive right | check for circles, link, unlink | the chain is locked port by port, in whatever order the messages made | no circle, no deadlock, no freed port touched |
| Port rights (`ipc/ipc_right.c`, `ipc/ipc_port.c`) | names, user references, send and send-once counts, dead-name requests | copyin, copyout, destroy, notify | destruction and death race every operation | counts agree with rights |
| Zone allocator (`zalloc.c`) | free list, `cur_size`, `doing_alloc` | `zalloc`, `zfree`, expansion, collection | one thread expands for all, waiters retry | no element handed out twice |
| VM objects (`vm/vm_object.c`, `vm/vm_fault.c`) | reference counts, busy pages, `paging_in_progress` | fault, copy, collapse, terminate | every step drops the object lock | no page used after free |
| BSD sleep/wakeup, lock manager, processes (`bsd/kern`) | `p_stat`, wait channels, the funnel; lock counts; parent and child lists | `tsleep`, `wakeup`, `lockmgr`, fork, exit, wait | built on Mach waits with the funnel dropped at each block | as for Mach; no zombie lost |
| POSIX threads, `mach_init` | user-level state over Mach primitives | condition variables, cancellation; name service | races with cancellation and server death | as documented |

The parts interact as follows. A sleeper (a lock, a semaphore, a message queue,
`tsleep`) calls `assert_wait` on an event, releases its own lock, and calls
`thread_block`. A waker changes its own state under its own lock and calls
`thread_wakeup`. `thread_abort`, the wait timer and signals end waits through
`clear_wait`. All of them meet in the per-thread lock (`thread_lock`), the
lock of the wait queue, and, for stopping, `wake_lock`. The policy is called
back at every switch. Locks in their turn protect most of the rest of the
kernel.

`PROJECT.json` lists every component, including those left out, and under
`hazards` each place where the code is hard to test, with the properties that
watch it.

## 2. Plan

In order of importance, with what is done:

1. **Done.** `SchedPrim` (waits, blocking, switching, stopping, timers), with
   the abstract `EventWait` it implements.
2. **Done.** `RWLock` (complex locks), with the abstract `ReadersWriterLock`.
3. **Done.** `Mutex`.
4. **Done.** `Semaphore`, with the abstract `CountingSemaphore`.
5. `LockSet` (`sync_lock.c`): ownership and handoff, and with it the lists of
   semaphores and lock sets that the end of a task destroys.
6. `ThreadCall`: the callout service as a whole (pending, delayed, thread pool).
7. **Done.** `PortMessage` (`ipc_mqueue.c`, `ipc_pset.c`), with the abstract
   `PortQueue`: handed-over slots and direct delivery to a receiver.
8. **Done.** `PortTransit` (`ipc_port_check_circularity`) and `PortRights`
   (`ipc_right.c`, `ipc_notify.c`).
9. `Zone` (`zalloc.c`).
10. VM objects: paging and termination.
11. BSD: `tsleep`/`wakeup`, `lockmgr`, process life cycle.
12. POSIX threads; `mach_init`.

Each later module that sleeps takes the waits as `EventWait` promises them
(including the early ends that `SchedPrim`'s findings show), so that its own
state stays small; it is checked with three or four threads, and proved where
its invariant does not need induction over a queue.

## 3. Modules

| Module | Models | Proofs in |
|---|---|---|
| `EventWait` | what the event mechanism promises | |
| `SchedPrim` | `sched_prim.c`, `wait_queue.c`, and what they call of `mk_sp.c`, `thread_call.c`, `thread_act.c`, `thread_swap.c` | `SchedPrimProofs`, `SchedPlaceProofs` |
| `ReadersWriterLock` | what the complex locks promise | |
| `RWLock` | the complex locks of `lock.c` | `RWLockProofs` |
| `Mutex` | the mutexes | `MutexProofs` |
| `CountingSemaphore` | what the semaphores promise | |
| `Semaphore` | the semaphores of `sync_sema.c`, with `convert_port_to_semaphore` | `SemaphoreProofs` |
| `WaitLinks` | the links of a wait queue: what stays, what comes first (`kern/wait_queue.c`) | (in `SchedPlaceProofs`, `PortMessageProofs`) |
| `PortQueue` | what the message queues of ports promise | |
| `PortMessage` | message queues and port sets (`ipc/ipc_mqueue.c`, `ipc/ipc_pset.c`) | `PortMessageProofs` |
| `PortTransit` | receive rights in transit (`ipc/ipc_port.c`) | `PortTransitProofs` |
| `PortRights` | the rights to a port (`ipc/ipc_right.c`, parts of `ipc_object.c`, `ipc_port.c`, `ipc_space.c`) | `PortRightsProofs` |

The `MC` modules bind the constants that a configuration file cannot write (the
wake events, the hash function) and define the symmetry sets. Definitions that
are called a *faulty variant* in a comment are plausible mistakes in the
definition that follows them; they are not part of any specification, and each
one shows that some property would notice the mistake.

### SchedPrim

A step is what one actor does under one hold of a thread's lock. Where the code
drops the lock, the step ends, and the local variables that survive are kept in
a program counter: `phase`, `old`, `new` and `cont` for a processor inside
`thread_block`, `pc` and `target` for a thread, `caller` for a callout thread or
a signal poster inside `clear_wait`.

| State | Code |
|---|---|
| `state`, `stack` | `thread->state`: `TH_WAIT`, `TH_SUSP`, `TH_RUN`, `TH_UNINT`, `TH_ABORT`; the two `TH_STACK_*` bits |
| `waitEvent`, `waitQueue`, `waitResult`, `wq` | the wait fields of a thread and the links of the hash buckets |
| `ready` | how often the thread is on a run queue or the `next_thread` of a processor being dispatched (a count, so that "twice" can be said) |
| `thState` | `MK_SP_RUNNABLE` / `MK_SP_BLOCKED` of `sp_info->th_state` |
| `wakeActive`, `wakeLock` | the field and the holder of the lock, where the holder is between two steps |
| `timerSet`, `timerCall`, `refCount` | `wait_timer_is_set`, the status of the call, the references taken by `thread_set_timer` |

A block is: `ThreadBlock` (the abort check and `thread_select`), then one of
`InvokeSame`, `InvokeMiss` (no stack: the new thread goes to the swapin thread
and the loop of `thread_block_reason` goes on with `Reselect`), `InvokeSwitch`
(`sp_thread_done`, `switch_context`) followed by `ThreadDispatch` and perhaps
`DispatchWake`, or `InvokeHandoff` followed by `HandoffDispatch`, perhaps
`HandoffWake`, and `HandoffDone`, in the order of the code, which differs
between the two paths and matters. `clear_wait` is two steps when the thread is
on a wait queue, because `wait_queue_remove` drops the thread lock to respect
the lock order; a timer's expiry is three.

Abstractions. Any ready thread may be selected: priorities, quanta, processor
sets and binding only restrict this choice. Threads are active and do not
terminate; `at_safe_point`, nested wait queues, the funnel, pending policy
changes, `stack_privilege` and the swapping of whole activations are left out.
Wakeups come from outside (any thread or interrupt); the callers of
`clear_wait` are threads on processors of their own. A wakeup of all waiters of
a bucket is one step, because the bucket's lock is held throughout and nobody
else can see the waiters in between except through their own locks.

### RWLock and Mutex

One lock and any number of threads, each making one use of it at a time. A step
is one hold of the interlock, and the `thread_wakeup` that a complex lock does
after it is a step of its own (`wakers` holds the threads that are about to).
Spinning before sleeping only reads the lock, so it is not a step. Since an
aborted thread's sleep ends at once whatever its mode (`ThreadBlock` of
`SchedPrim`, from `sched_prim.c:1455`), both models let sleepers come back early: any of them in `RWLock`, those of
`Aborted` in `Mutex`. The bit fields keep their width as a modulus
(`ReadModulus`, `WaitersModulus`); the configurations use 8 for 2^16, which is
enough to keep the count of three to five threads apart and small enough for
it to run over where the code lets it.

`RWLock` implements `ReadersWriterLock` under the mapping `Held`: a writer that
has `want_write` and still waits for readers has nothing yet; an upgrade in
progress keeps writers out. `lock_try_read` and `lock_try_write` are compiled
out in the source and not modelled.

### Semaphore

One semaphore, from `semaphore_create` to the `kfree`. A step is one hold of the
lock of its wait queue. `pc` is where a thread is in its call: before its one
lock hold (the name of the call), `blocked`, between the parts of
`semaphore_destroy`, or about to drop the call's reference (`leave`). `count`
is the code's: -1 stands for any number of waiters, and none, since a wait that
ends early leaves it alone. `waitQueue` is kept in order, privileged threads
first, as `wait_queue_assert_wait_locked` has it whatever the policy asked for
at creation. `WaitEndsEarly` is the timer and the abort; it may end any wait, because
of the stale timeout described in section 4. `call` of `CountingSemaphore` is each
thread's call until its effect, then what its wait returns.

Not in the module: the owning task's list (see the plan), calls that fail on
their arguments or on the task, and clients within the kernel, which keep a
reference of their own.

### PortMessage

The queues of some ports and sets, with senders, receivers and an owner of the
receive rights. A step is one hold of a queue's lock, or of an object's lock
with the queue locks inside it. Where the code looks for a receiver it keeps the
port's queue locked while the locks of the sets come and go: one round of the
search of `ipc_mqueue_post` or `ipc_mqueue_add` is a step (`TurnAway` sends a
receiver away to find out that the message is too large for it, `Post` and
`Match` hand it over or end the search), the enqueue that follows is another
(`Enqueue`), and `lock` is the port's queue lock between them.

| State | Code |
|---|---|
| `port[p].queue`, `count`, `full`, `limit` | `imq_messages`, `imq_msgcount` (modulo `Wrap`), `imq_fullwaiters`, `imq_qlimit` |
| `waitq` | `wq_queue`: the blocked threads and the links to sets, in order |
| `links` | `wqs_sublinks` of a set |
| `live` | `IO_BITS_ACTIVE` of ports and sets |
| `th` | where a thread is: `send`, `full` (blocked), `post`, `enqueue`; `receive`, `receiving` (blocked); `match`, `destroy`, `drain` of an owner |

Wakeups end waits as `EventWait` promises: a woken thread is off the queue and
cannot time out any more. A message is its sender and a number; a message of
`Big` is too large for a receiver of `Small`, which uses `MACH_RCV_LARGE`.
The wait queues are sequences of links, searched and cut with the operators of
`WaitLinks`, which `SchedPrim` uses too: they count positions and do not
recurse, so that theorems can speak of them. `PortQueue` is the abstract queue: accepted once, taken at
most once and in order, dropped only with the port. A port in a set promises no
order (a receiver on the set may get a message while older ones are queued,
see the finding on sets below), and the mapping says so with `shared`.

### PortTransit

The ports of which the receive rights travel, with the threads inside
`ipc_port_check_circularity`. A step takes or releases one lock, so that every
interleaving of two walks is there. `place` is the state of a receive right
(`ipc_port.h:83-93`), `dest` is `ip_destination`. `th` holds a thread's program
counter, `port`, `dest`, and the cursor `at`, which is `base` on the way up and
`next` on the way down. A message that would close a circle is destroyed
(`DestroyInLimbo`). References are not counted one by one: a dead port may go
(`Deallocate`) when neither a port in transit nor a message on its way points
to it.

### PortRights

One port, and the entries for it in the spaces of tasks. A call of
`ipc_right.c` works with its space write-locked and does its work on the port in
one hold of the port's lock, so it is one step; the deaths of the port and of a
space are several. `port` is the port's fields by their names (`srights` for
`ip_srights`, and so on); `requests` is the table of dead-name requests and
`saved` what `ipc_port_destroy` took of it; `sends`, `sonces` and `limbo` are
the rights in messages or in the kernel's hands. `entry` is type, user
references and `ie_request`. `told`, `left` and `forced` are history, for the
properties only.

`RequestsMatch` and the count in `RightsCounted` make room for `left`: send
rights that `ipc_right_delta` leaves counted when the receive right beside them
goes, which is harmless when the port dies and is the finding
`PortRights_backup` when it does not.

## 4. Runs

| Run | Instance | Shows |
|---|---|---|
| `SchedPrim_core` | 3 threads (2 sleepers, all preempted, 1 of them stops another), 2 processors, 1 caller that aborts and clears, 2 events in 1 bucket, continuations, stack misses | `ThreadInOnePlace`, `WaitStateConsistent`, `WaitQueuesConsistent`, `SelectedIsRunnable`, `AbortNotLost`; refinement of `EventWait` |
| `SchedPrim_stop` | 1 sleeper, 2 stoppers, 3 processors, no continuations, fair | `StopIsExclusive`, `WakeActiveCovered`; `StopWaitReturns` |
| `SchedPrim_timer` | 2 sleepers, 1 with a timer, 2 processors, 2 callout threads, fair | `TimerRefsCovered`, `TimerNotSetTwice`; `WokenRuns`, `TimedWaitEnds` |
| `RWLock` | 4 threads, fair, holders release | `MutualExclusion`, `FieldsTellHolders`, `NoLostWakeup`; refinement of `ReadersWriterLock`, `WaitersServed` |
| `Mutex` | 4 threads, 1 aborted, `waiters` in range, fair | `MutualExclusion`, `NoLostWakeup`; `FreeMutexIsTaken` |
| `Semaphore` | 3 threads, 1 privileged, initial count 0 or 1, at most 2 signals kept, fair | `WaitersCounted`, `RefsBalanced`; refinement of `CountingSemaphore`, `DestroyedIsFreed`, `WaitersServed` |
| `PortMessage` | 3 senders (1 timed, 1 that may exceed the limit with large messages), 2 receivers (1 on the set, small and timed), 1 owner with 2 operations, 1 port, 1 set, limit 2 lowered to 1, fair | `SlotsAccounted`, `NobodyMissed`; refinement of `PortQueue`, `BlockedSenderServed` |
| `PortTransit` | 3 threads that send one receive right each, 3 ports, fair | `NoCircle`, `TouchesLive`; `ChecksEnd` |
| `PortRights` | 2 spaces of 2 names, 2 request slots, user references up to 3, make-send counts up to 2, 1 right of each kind in messages | `RightsCounted`, `RefsCounted`, `OneReceiver`, `RequestsMatch`, `UrefsInRange`, `NoSendersTrue`, `NoSendersNotLost` |

The bounds. Two sleepers, one other thread and two processors are what the
interleavings of one thread's block, its wakeup and its selection by another
processor need; the second sleeper makes the bucket's queue and the collisions
of events real. Two stoppers are the least that contend. `MaxRefs` bounds the
references of one thread's timers to 4 (the leak found below would otherwise
grow without end); two callout threads let the expiry of an old timer run
beside that of the new one. `MaxWaiters` bounds the count of a mutex's waiters,
to the last value of the field. Three
threads give a semaphore two waiters and a third party that signals or destroys
it, or one waiter and two that do; `MaxCount` lets two signals be kept, so that a
count can be taken down without reaching 0. In `PortMessage` a queue limit of 2
that can become 1 makes queues full with a slot handed over, and lets the owner
lower the limit below the count; it is never raised in that run, because raising
it is the finding of `PortMessage_limit`. Three senders are one that holds a
slot, one that waits for it and one that overtakes (it may exceed the limit);
two receivers are one on the port and one on its set; two operations of the
owner can add and move, move and destroy. `Wrap` is the width of `imq_msgcount`:
8 stands for 2^16, far above what the senders can reach. Three ports and three
threads in `PortTransit` make a chain of two links that a third would close, with
two threads that walk it. `PortRights` has two spaces, so that rights move and
die elsewhere, of two names, so that a send-once right or a dead name lies beside
the name of the other rights. `UrefsMax` is 3 for 2^16 - 1: two below the
maximum, where pegging begins, is then the first reference.
Processors are symmetric in the safety runs of `SchedPrim`, spaces, names and
slots in `PortRights`; no symmetry is used in a run with liveness properties.

Fairness. `SchedPrim`'s is weak fairness of each processor's steps in
`thread_block`, of a processor that is idle while something is ready, of a
thread's block once it has announced one, of what a running thread began (the
rest of `thread_stop` and so on), of the clock interrupt, of the callout
threads, of the swapin thread. Nobody need start a wait, post an event, abort
or yield. A blocked thread of `Semaphore` owes nothing; every other step of its
call is fair. `WaitersServed` there assumes that signals keep coming while no
privileged thread waits. `StopWaitReturns` is checked with as many processors
as threads: with fewer, it is the scheduler's priorities that decide whether a
stopper ever runs. The locks' is weak fairness of a thread that executes in the
lock code; `WaitersServed` adds that holders release, and asks for service once
new calls have stopped, because the code lets new readers pass a waiting writer
for ever. In `PortMessage` the steps of a call that is not blocked are fair, and
receivers keep coming to the queue (`BlockedSenderServed` is about a live port
that is served). `Post` and `Match` have strong fairness:
each round of a search sends one receiver away, and only a receiver that came
back in time for every round, for ever, would keep the search from its end. In
`PortTransit` the steps of a thread inside the check are fair, which spins in
`ip_lock` and so takes part in the schedule.

### Where the code and its own description differ

Each is a run that TLC finds violated; `PROJECT.json` quotes the lines.

| Run | Finding |
|---|---|
| `SchedPrim_handoff_wake` | the dispatch inlined in the stack handoff does not take `wake_lock`, so that `thread_wait` can sleep through the stop it waits for |
| `PortMessage_limit` | a larger limit wakes senders that inherit no slot: their messages are not counted |
| `PortRights_backup` | with a backup port, deallocating a receive right leaves a dead name of a live port, and a send right that is counted for ever |

Two comments of `sync_sema.c` differ from its code and need no run: a zero
`wait_time` of `semaphore_timedwait` is said to mean for ever (line 438) and
returns at once (373); a wait is said to decrement the count (421), which is set
to -1 (379).

More follow from the steps of the models, which contain the behaviour, and have
no run of their own:

- `sched_prim.c:405`: a stopped thread is made runnable by an ordinary wakeup;
  nothing on that path looks at `TH_SUSP`.
- `sched_prim.c:1025`: the handoff path tells the policy that the old thread is
  done after that thread may have blocked on another processor.
- The stale timeout, `wait_queue.c:1077`: `wait_queue_remove` drops the thread
  lock and then recognises the wait by its queue only. A later wait in the same
  bucket is ended instead, with a timeout it did not ask for, or although it is
  uninterruptible. `EventWait` therefore lets any wait end early.
- `sched_prim.c:313`: a late expiry that takes the next timer for its own leaves
  a thread reference that is never dropped.
- `sched_prim.c:1455`: `thread_block` ends the wait of an aborted thread even if
  it is uninterruptible. An aborted contender so leaves the `waiters` of a mutex
  too high; after 2^16 retries (`lock.c:1721`) the count is 0 with a thread
  asleep, which no unlock wakes.
- `ipc/ipc_mqueue.c:571-578` says that a receiver on a set cannot miss a message,
  since it holds the set's lock from its search to its wait. `ipc_mqueue_post`
  holds that lock while it looks for receivers and drops it before it enqueues
  (`:453`): the receiver may search and wait in between, and sleeps on a set
  with a message. `NobodyMissed` and the order in `PortQueue` leave out ports in
  sets for this reason.
- `ipc/ipc_mqueue.c:805-808`: receivers are woken when the receive right changes
  hands, before the queue is destroyed. One that has left `ipc_mqueue_copyin`
  but not yet come to the queue waits on a dead port; a sender likewise.
- `ipc/mach_port.c:1765`: `mach_port_insert_member` locks the set and then the
  port, `mach_port_move_member` the port and then the set. Object locks are not
  in the model, so this is read and not checked.

## 5. Theorems

All proofs are checked by TLAPS; the constants are arbitrary within the named
assumptions of the modules.

**`SchedPrimProofs`** (`SchedPrimAssumption`: the hash function maps events to
buckets, the nulls are not values, finitely many callers of `clear_wait`;
`WakeEventAssumption`: `&thread->wake_active` is an address of its own). The
invariant is the part of the type invariant that concerns the wait and the stop
(`WaitTypeOK`, theorem `WaitTypeCorrect`) with `WaitStateConsistent` and
`StopIsExclusive`. `WaitStateConsistent` is inductive because each path that ends
a wait clears `TH_WAIT` and the two fields together, under one hold of the lock,
and each caller that dropped the lock checks the queue again: the proof has one
step per action, and the lemmas on `Dequeue`, `GoLocked` and `MarkWait` carry it.
`StopIsExclusive` holds because `thread_stop` tests and sets `TH_SUSP` under one
hold of `wake_lock` and no other path touches the bit: each stopper's program
counter owns it until its unstop. The timer needs more (`TimerInv`): only a
callout begins as "expire", and a thread with `wait_timer_is_set` stands between
its `thread_set_timer` and its `thread_cancel_timer`. Then `TimerRefsCovered` is
inductive by counting (`CoveredNext`: a callout that takes a call from the queue
is one holder for another; one that ends takes its reference with it), and
`TimerNotSetTwice` follows from the places where the mark is cleared. Theorems:
`WaitStateCorrect`, `StopCorrect`, `TimerRefsCorrect`, `TimerMarkCorrect`.

**`SchedPlaceProofs`** (the same assumptions, and the invariant above).
`ThreadInOnePlace` counts, and says nothing of what a processor is about to do,
so it is not inductive. `PlaceInv` names the three ways in which a processor
handles a thread (`Row`: it runs it, has selected it, has yet to dispatch it)
and says: one row at most; none for a thread that is ready or waits for its
stack; `TH_RUN` exactly where there is a place; and, for a thread that waits
(`WaitPlace`), which places are left to it between `assert_wait` and its
dispatch. The last part is what makes a wakeup between the two stages safe: it
finds `TH_RUN` and leaves the thread where it is, or does not and makes it ready.
Actions either leave the rows alone (`SameRows`, `Awakes`) or move one or two
threads along the row of one processor. From `PlaceInv` follow `PlacesCorrect`,
`SelectionCorrect` and that a thread that executes outside `BlockPCs` does not
wait, which the next three rest on:
`AbortCorrect` (an aborted thread that has passed the check of `thread_block` is
pursued by a caller that will not give up: `AbortInv`); `QueuesCorrect` (what
enters a queue was on none, what leaves it clears its fields: `QueueInv`, with
the lemmas on `Kept`, the links that stay); and `EventWaitRefinement`, that every
step begins a wait, ends waits of one event, or stutters (`EventStep`).
`WakeCorrect` assumes `Continuations = {FALSE}`, so that nobody takes the stack
handoff: there the invariant adds that a stopper between its two checks holds
the target's `wake_lock` and has marked it (`LockHeld`). With continuations the
property is false, as the run `handoff_wake` shows; the assumption is the
difference, not a convenience.

**`RWLockProofs`** (`RWLockAssumption`: finitely many threads, fewer than
`ReadModulus`). `MutualExclusion` is not inductive: the invariant adds
`FieldsTellHolders` (each field counts or names its holders) and
`ClaimsAreExclusive` (one claimant per bit; who writes has seen the readers and,
for `want_write`, the upgrade off). The lemmas on cardinalities carry
`read_count = Cardinality(Readers)` through each operation. From the invariant
follow `TypeCorrect` (so that `read_count` never runs over), `FieldsCorrect`,
`ExclusionCorrect`,
`WakeupsCorrect`, and `Refinement`, step by step, of `ReadersWriterLock`.

**`MutexProofs`** (`MutexAssumption`). `ExclusionCorrect` holds for any set of
aborted threads and any width of `waiters`. `WakeupsCorrect` assumes that
`waiters` stays within its width (`MaxWaiters < WaitersModulus`), as it must:
the run-over described in section 4 is the counterexample without it. Its
invariant adds that
`waiters` counts every sleeper (`WaitersCoverAsleep`); that it counts nobody
else is not true and not needed.

**`SemaphoreProofs`** (`SemaphoreAssumption`: finitely many threads, at least one
signal can be kept). The invariant adds to `WaitersCounted` and `RefsBalanced`
that a thread is queued once and is then blocked (`QueueOK`), that one thread at
most is past `semaphore_destroy`'s test and the port lives until it gets there
(`DestroyOK`, which makes the creation's reference outlive every conversion), and
what `wait_result` can be at each point of a call (`ResultOK`: a wait restarts
only after the destruction). The lemmas `RemoveAtQueue` and `JoinQueue` say what
the two operations on the queue do to it. From the invariant follow
`TypeCorrect`, `WaitersCorrect`, `ReferencesCorrect`, and `Refinement` of
`CountingSemaphore`, with one lemma per action: the steps of the destruction that
follow its lock hold, the return from `thread_block` and the restarted wait are
stutters.

**`PortMessageProofs`** (`PortMessageAssumption`: senders, receivers, owners,
ports and sets are different things; limits and the number of messages are below
the width of `imq_msgcount`, as 16 bits are above what the kernel's zones hold).
`Inv` is inductive. Its parts say that wait queues hold exactly the threads that
wait (`WaitersOK`), that a queue's lock is held by the thread in its loop
(`LockOK`), that a message is in its sender's hands, in one queue or taken once
(`FreshOK`), and that a sender about to enqueue leaves no receiver behind on the
port (`ListenOK`: without it, `ReceiversCorrect` would not survive the enqueue).
What the twenty actions do is said once, in one form: `Step`, with the thread that moves,
whom it wakes, the lock it takes or leaves, and what becomes of the messages.
Each action is shown to be a `Step`, each part of `Inv` to survive any
(`StepInv`), and `PortQueueRefinement` follows from the part on messages
(`ContentStep`): no action is looked at twice.
`SlotsAccounted` needs that nobody waits without being marked (`FullOK`), and
again a form for all actions, `SlotStep`: a step keeps the slots of a port,
takes one, fills one, or frees one and gives it to the first that waits
(`HandsOverSlots`). The sums are those of cardinalities; that they do not run
over the width of the count is `Bounded`: messages queued and about to be posted
are all different, and there are fewer than `Wrap`. `SlotsCorrect` and
`MissedCorrect` assume `LimitsGrowIdle` of the steps: `ipc_mqueue_set_qlimit`
raises no limit while senders wait. That is what the finding
`PortMessage_limit` violates, and nothing else is assumed of limits: they may
be lowered at any time, and raised when nobody waits.

**`PortTransitProofs`** (`PortTransitAssumption`: the null is no thread and no
port). `NoCircle` is not inductive: what makes `Link` safe is what the thread has
locked by then. `HeldBy(t)` says it for each place in the check: the ports that
`t` has locked are a chain from the destination, every link in transit, that
ends at the cursor. `Chained` says this without a path, by the images of the held
ports under `dest` (inside the held set, different, and none the destination),
so that no induction over a path is needed. Other threads cannot disturb it, since
they change ports that are free or their own (`CheckLocal`,
`OthersKeepChains`). The walk never comes back to a port it has locked, because
`NoCircle` holds (`WalkHeld`); a circle through the new link would lie on the
locked chain and be a circle already (`LinkNoCircle`); and when the chain is
unlocked nothing is left locked at its end (`Unlocking`), for the same reason.
From the invariant follow `NoCircleEver` and `ChainHeldEver`, which are the
assertions in the code; `TouchesLiveEver` adds `Pinned`, which says who has the
reference that keeps each port a thread is about to lock.

**`PortRightsProofs`** (`PortRightsAssumption`: finitely many spaces and names, a
limit of user references above 2, a null that is no name, slot or number). The
bounds of the model (`MaxMake`, `MaxNaked`) are arbitrary too: no proof uses
them. The properties are inductive together (`Inv`); none is alone: that
a count of send rights is not 0 while an entry has one is what keeps a no-senders
request from being answered early, and that only a live port has entries with a
receive right is what lets the rights of a dead one be turned into dead names
uncounted. All but a few steps put one entry in place of another and change
the port, so what keeps `Inv` is said once, of the two entries and the two ports
alone: `Good(x, f, e, p)`, with one conjunct per part of `Inv`. `PutsInv` shows
that it suffices; that a cardinality changes by what the entry adds or removes
(`HoldingPut`) is proved there and nowhere else. Each action then owes only
arithmetic on records. `Rename` moves an entry and has a proof of its own
(`HoldingMove`, `RenameInv`); steps of messages and of the dying port change no
entry (`BecomesInv`). `RequestsMatch` and the bound of the names of a space are
stated with cardinalities and proved without them (`MatchOK`, `OneName`).

**Only model-checked.** Liveness under fairness (every property with `~>`). Of
`SchedPrim`'s `TypeOK`, the types of `timed` and `cont`, which no invariant
needs. The type invariants (`TypeOK` of `RWLock` and `Semaphore`, and what the
other proof modules need of theirs) are parts of the inductive invariants; no run
repeats them.

## 6. Not modelled

Besides the parts that the plan still has: user-level packages, which are
imported or sequential; the network stack and the file systems, which are large
and conventional; device drivers and I/O Kit; machine-dependent code other than
the mutexes; the C library, dyld and the tool chain. In the parts that are
modelled: priorities and time (only their order matters here), statistics and
tracing (`ETAP_*`, counters), debugger support, and the termination of threads.

Of Mach IPC: the copyin and copyout of whole messages (`ipc_kmsg.c`) and
`ipc_right_copyin_undo`; the hot path of `mach_msg_trap`, which repeats send and
receive in one function; sequence numbers; the thread pools of RPC; kernel
objects; messages marked circular, which a sender destroys before they reach a
queue; the hash and splay tables of names, which hold the entries that
`PortRights` has as a function; object locks in `PortMessage` (each step holds
what it needs at once) and the deadlocks they may have.
