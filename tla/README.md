# p2linux in TLA+

p2linux lets programs written for the pSOS+ kernel run on Linux. Each pSOS+ task is a POSIX thread
with a control block; each kernel object (queue, semaphore, partition, the event flags of a task) is a
C structure with a mutex and a condition variable; the pSOS+ rule that a task in a kernel call is not
preempted is imitated by a *scheduler lock*. Nearly everything that can go wrong in such a library is a
matter of the order in which threads do things. These modules model that order, TLC checks it on small
instances, and TLAPS proves the results that matter most for any number of tasks.

All line numbers are those of the files in the repository's root. `arm/` holds copies of them.

## The system

| Part | Source | State it keeps | Operations | Module |
|---|---|---|---|---|
| scheduler lock | task.c | owner, nesting level, sleepers; the priority of the owner | `sched_lock`, `sched_unlock`, `cleanup_scheduler_lock`, used by `t_mode`, `t_delete`, `task_wrapper` | SchedLock |
| tasks | task.c | per task its flags, registers, priority, reason for being suspended; its thread | `t_create`, `t_start`, `t_suspend`, `t_resume`, `t_delete`, `t_setpri`, `t_mode`, `t_getreg`, `t_setreg` | Tasks |
| suspend lists | task.c | per object the list of waiting tasks | `link_susp_tcb`, `unlink_susp_tcb`, `signal_for_my_task` | SuspendList, in Sema4, Queue and Tasks |
| partitions | memblk.c | a free list inside the free blocks, two counters, a mutex | `pt_getbuf`, `pt_retbuf`, `pt_delete` | Partition |
| semaphores | sema4.c | a count, a suspend list, `send_type`, two mutexes | `sm_p`, `sm_v`, `sm_delete` | Sema4 |
| message queues | queue.c | a ring of messages over a list of extents; a suspend list, `send_type`, two mutexes | `q_send`, `q_urgent`, `q_broadcast`, `q_receive`, `q_delete` | QueueRing, Queue |
| variable-length queues | vqueue.c | the same with one array of buffers | the same with a `v` | QueueRing, Queue |
| event flags | event.c | pending and captured events, the mask waited for | `ev_send`, `ev_receive` | Event |
| object lists | the five files | a list of each kind of object, with identifiers and names | `new_*id`, `link_*`, `unlink_*`, `*_for`, `*_ident`, `*_create`, the unlinking by `*_delete` | ObjectLists |
| timer | timer.c and the four calls with a timeout | a deadline in seconds and microseconds | `tm_wkafter`, the deadlines of `q_receive`, `q_vreceive`, `sm_p`, `ev_receive` | Timer |
| memory | task.c | two mutexes | `ts_malloc`, `ts_free` | not modelled |

How they interact. Every call that may make another task ready (`sm_v`, `q_send`, `q_urgent`,
`q_broadcast`, `ev_send`, the deletions) first locks the scheduler and then the object's own mutex.
The calls that wait (`sm_p`, `q_receive`, `ev_receive`) lock the object's mutex only, link the
caller into the object's suspend list and sleep on the object's condition variable. A signal wakes
everybody; who may go on is decided by each sleeper, who asks `signal_for_my_task` whether it is its
turn. A task that finds a token or a message that is another task's puts it back, unlocks the mutex,
sleeps for a tick (`tm_wkafter(1)`) and looks again. Deletion and broadcast hand over to the last
waiting task, which reports back through a second mutex and condition variable (`smdel_lock`,
`qbcst_lock`). `t_delete` cancels a thread wherever it is; handlers pushed with
`pthread_cleanup_push` unlock what it had locked. `t_suspend` stops a thread with a signal. Every
call begins with a walk through a list of control blocks that takes no lock.

What is hard. Between a test and the sleep, or the nap, that follows it everything may change;
control blocks are looked up without any lock and freed by deletions; the deadline of a call may pass
at any point; a thread may be killed or stopped in the middle of a call; the handover to the last
waiting task counts on nobody joining or leaving; rings, lists and counters have their edges; times are
kept in two words that carry into each other. `PROJECT.json` lists these hazards with their lines.

What makes each part correct:

* scheduler lock: one holder, the level counts its nesting, it alone runs at the top priority, no
  sleeper is left without a waker, a task that ends gives the lock up, every call returns;
* tasks: what a call has found stays allocated, what is freed is on no list, what is stopped can be
  resumed and does not have the scheduler locked, a priority that was set takes effect;
* partition: a block has one owner, none is lost, data of callers is not touched, a partition in use
  is not deleted, blocks are handed out in the order in which they came back;
* semaphore: a queue for tokens; a token does not stay while somebody waits; timed calls return;
  `sm_delete` reaches everybody;
* queue: first in, first out, urgent ones in front, each message to the one task whose turn it is;
  a broadcast reaches every waiting task, ends and returns;
* event flags: no event is lost before it is received, no task sleeps over what it waits for;
* object lists: an identifier means one object for as long as it lives, and a lookup finds it;
* timer: no wait ends early, and every sleep is for what is left.

## Modules

Each component has a module of its own and, where it promises more than a few formulas can say, an
abstract specification of that promise. An MC module gives the constants of its runs, and the detailed
module is checked to implement the abstract one through a refinement mapping (`INSTANCE ... WITH`).

| Component | Promise | Instances | Proofs |
|---|---|---|---|
| SchedLock | RecursiveLock | MCSchedLock | SchedLockProofs |
| Tasks | | MCTasks | TasksProofs |
| Partition | BlockPool | MCPartition | PartitionProofs |
| Sema4 | TokenQueue | MCSema4 | Sema4Proofs |
| SuspendList | | in those of Tasks, Sema4, Queue | SuspendListProofs |
| QueueRing | MsgQueue | MCStructures, MCQueueRing | StructuresProofs |
| Queue | Mailbox | MCQueue | QueueProofs |
| Event | EventBox | MCEvent | EventProofs |
| ObjectLists | Registry | MCStructures | StructuresProofs |
| Timer | | MCStructures | StructuresProofs |

**SchedLock** has one thread per task. `pc[t]` is the task's place between two accesses to shared
state; the actions carry the names of what happens there (`LockMutex`, `TestFlag`, `CondWait`,
`RaisePriority`, `UnlockMutex`, ...). `mutex` is `p2pt_sched_lock`, `waiting` the sleepers on
`sched_lock_change`, `raised` the threads whose priority `sched_lock` has raised, `nopreempt` the
tasks with `T_NOPREEMPT`. Unlocking the mutex does not look at its owner: NPTL's normal mutexes do
not either.

**Tasks** has the control blocks of all tasks and their threads. A task, its block and its thread have
one name. Its scheduler lock is a flag that is taken and given back in one step, with the priority
changes and the wakeups that go with it. A call is `Begin`, `sched_lock`, `Find` (`tcb_for`), the
handler that bears its name, `sched_unlock`; `t_suspend` looks its task up first, and a task that
suspends itself goes through `TestOwnLock`, `SetReason`, `StopSelf`, each without the lock. A thread
ends through `Exit` or, when canceled, `Die`, and `cleanup_scheduler_lock`. `priority[k]` is what the
thread runs at, `prv_priority[k]` what its control block says, `attr[k]` what its attributes say:
`t_start` resets the attributes and the new thread inherits what its starter runs at, which is
`RootPriority` for a thread that is no task; `t_mode` with `T_TSLICE` gives the thread the priority in the
attributes. The history variable `settled` has the tasks that have come through an outermost
`sched_unlock` since they were started.

**Partition** keeps the first word of each block, `word[b]`: a link or a caller's data. A call looks
the control block up (`Lookup`) and then works in one step under `prtn_lock`; `pt_delete` has two
steps, for the scheduler lock comes in between. `FreeBlocks` is the set of blocks that the scan of the
free list meets, defined as a least set so that cycles are no problem.

**Sema4** and **Queue** have the same shape: `Lookup` without lock, then under the object's mutex
`LinkSelf`, `Check` (`waiting_on_sema4`, `waiting_on_queue`), `CheckAgain` (its inner loop after a
nap), `UnlinkSelf`, and for queues `Fetch`. A task sleeps at "wait", naps at "nap" and must lock the
mutex again (`Relock`) afterwards. Posting and sending are one step under both locks; deletion and
broadcast are taken apart at every lock and at every place that reads the suspend list without one.
Sema4 also has `t_delete` of a task that is in `sm_p`, with the handler that unlocks `sema4_lock`
(`Die`), and for a task that is there no more (`NotFound`).
Queue is both queue.c and vqueue.c, `use.kind` says which: they differ in when there is room (a queue
of size 0 takes a message for a waiting task), and in that a broadcast of vqueue.c resets its count
together with its message, and not at all when it puts none. The messages are a sequence of numbers; the
history variable `bcast` remembers whom the last broadcast was for and which call put it.

**QueueRing** is the ring by itself, of either file: slots numbered along the list of extents, head,
tail, count. A ring of queue.c may grow by extents; one of vqueue.c has one extent and starts at its
first slot.

**Event** is one task's event flags. `Look` is `events_match_mask`, `Sleep` and `Return` are its two
outcomes in the loop of `ev_receive`; `ev_send` is `Find` (no lock), `SchedLock`, `Post`.

**ObjectLists** is one list of control blocks of any of the five kinds, `use.kind`, as pointers in
memory that is used again: `new_*id` reads the identifiers, `link_*` inserts in the order of
identifiers (tasks at the tail), `*_for` and `*_ident` walk the list block by block without its lock
(`cur` is where a thread's walk is), `unlink_*` and the deletion free a block.

**Timer** is one call that waits for a time: how `caller` computes its deadline or its delay from the
clock (`Deadline`, `Compute`), how it sleeps (`Usleep`, `pthread_cond_timedwait`) and what it computes
after it is awakened early (`Awake`, `Left`). `Second`, `Tick` and `Word` are the length of a second,
of a tick and the range of a long.

**MCStructures** runs ObjectLists, QueueRing and Timer in one instance. They share nothing: the
variable `part` says which one moves, the other two stay in one initial state.

In most modules the constant `Uses` is a set of scenarios: how the object is created and which
operations which task calls how often. The variable `use` picks one and never changes, so that one
run covers several.

### Abstractions

* The scheduler lock is one variable, `sched`, in Sema4, Queue and Event, and a flag in Tasks;
  SchedLock shows what it stands for. Every interleaving is allowed, as on a machine with several
  processors, where the raised priority keeps nobody from running.
* `task_list_lock` is only ever locked last and held inside one step; it is left out.
* Spurious wakeups are left out; a wakeup by a signal for somebody else has the same effect and
  is there.
* In Sema4, Queue and Event a deadline is an event that comes at any time after the call has computed
  it; the clock is in Timer, where `Q_NOWAIT` is a wait of 0.
* `SIGSTOP` is taken to stop the one thread that `pthread_kill` names, which is what the code counts on
  (with NPTL it stops the process). A task that another one stops is in its own code or waits at an
  object, and has no mutex of the library; where it is not, see the end of this file.
* Freed memory keeps its contents until it is allocated again. What the code does after a `free` is
  what it would do before.
* `malloc` does not fail, except that the number of extents is bounded in QueueRing and that
  `pthread_create` may fail in Tasks.
* A semaphore's count is a natural number; `sem_trywait` and `sem_post` are atomic on it.
* A message is one value. The length of a message of vqueue.c and the copying are left out.
* In Tasks, registers are set or not, and there are two priorities, the maximum and the 0 of a thread
  outside of real-time scheduling. Threads are created with the default `PTHREAD_INHERIT_SCHED` of NPTL,
  and setting the default priority 0 of the attributes is an error for both real-time policies.

## Runs

| Run | Question | Instance |
|---|---|---|
| sched_locking | Is the scheduler lock a recursive lock, do calls complete, is what `t_delete` frees out of use? | three tasks, three calls each, one with `T_NOPREEMPT`, two that delete a fourth; and three that delete themselves and each other, two calls each |
| sched_leak | *disagreement:* a returning task function keeps the scheduler locked | two tasks |
| sched_asleep | *disagreement:* a task that deletes itself leaves a sleeper asleep | two tasks |
| tasks | Are tasks created, stopped, resumed and deleted without a trace, do their priorities take effect, and do calls return? | two tasks and the initialization thread, two objects to wait at, seven uses, calls unbounded |
| part_pool | Is the partition a pool? | 4 blocks, two tasks; never empty with returns of free blocks; emptied and deleted with and without `PT_DEL` |
| part_double | *disagreement:* a return to an empty partition | 2 blocks, one task |
| sem_tokens | Is the semaphore a queue for tokens, do calls return, does the deletion? | four tasks; by arrival, by priority, with a waiting task deleted, with the semaphore deleted |
| structures | Are the lists a registry, the rings queues with room for an urgent message, the times right? | three threads, three blocks, up to four objects of each kind; rings of both files, sizes 0 to 3, 3 extents, 9 messages; all deadlines around a second of 6 and a word of 64 |
| ring_growing | *disagreement:* a ring that grows when it has wrapped | size 2, 2 extents |
| queue_calls | Does each message go to the one task whose turn it is, does a broadcast reach everybody, do calls return? | four tasks, room for 0, 1 or 2 messages, eight uses of queue.c and vqueue.c |
| queue_late | *disagreement:* a timeout during a broadcast | one receiver, one broadcast or deletion |
| event_flags | Are events kept until received, and is no wakeup missed? | two events, two senders, unbounded calls |

Why these bounds are enough to be of interest. Three tasks at one lock are a holder, one that sleeps
and one that arrives in between; three calls are a nested pair and a further one. Two tasks and a
thread that is none are a controlled task and two controllers. Four blocks allow free lists of three
with a first, a middle and a last one to return. Two waiting tasks of one priority and one of another
distinguish order of arrival from priority; two calls per task are one that is interrupted and the one
that meets what it left behind. Three blocks are a first, a middle and a last one of a list; the fourth
object gets memory that was freed. Nine messages go around rings of up to four slots twice, and fill
three extents of three. The second is three ticks long, clocks and waits reach both sides of its
end, and the longest wait does not fit into a long. Two events distinguish "all" from "any" and a subset from the
rest; sending is not bounded. `Uses[..].calls`, `creations`, `MaxMsgs`, `MaxExtents` and `End` are the
bounds; in SchedLock the bound keeps a call back for a task that is not preemptible, so that it never
is what keeps the scheduler locked.

Type invariants are not in the runs. Each module has one; those of SchedLock, Event and
Timer are proved, and the others were used while the modules were written.

Deadlock is not checked where the bounded calls end or tasks may wait for good; there the liveness
properties say which calls must return. Event has no bound and is checked for deadlock.

Restrictions that the passing runs need, each of which a run or the list below shows to be needed:

* the tasks that others delete do not lock the scheduler (`Disciplined`, in the invariants of
  SchedLock that need it), and a task function does not return without `t_delete` (`NoReturns`);
* other tasks suspend and delete only tasks that run, resume only stopped ones, and do not delete
  suspended ones (`Careful` in Tasks);
* a partition whose blocks come back never runs empty (`keep`);
* a ring grows only while its messages end at its last slot (`GrowsAtEnd`);
* semaphores and queues are deleted, and in two of the uses broadcast to, when no other call is
  under way (`quiet`; tasks that sleep in the object do not count);
* a task that is deleted in `sm_p` never naps there, and does nothing but wait (`victims` in Sema4), and a
  semaphore is deleted while no task naps at it;
* `PriorityInEffect` is about tasks that have unlocked the scheduler since their start, and whose
  priority no other task sets; `CallsReturn` is about uses in which no task deletes itself;
* a call of `q_vbroadcast` counts right when it puts its message itself;
* two creations of one kind do not overlap (`serial`), and objects that are created while others are
  deleted are deleted when nobody looks them up (`apart`).

### Fairness

The properties that say that something happens assume that a thread inside the library goes on and
that time passes (weak fairness of `Expire`). For SchedLock weak fairness of a thread's steps is
enough. A mutex that others lock and unlock again and again is locked at last (strong fairness of a
thread's steps in Sema4, Queue and Partition, and of `SchedLock` in Event): whoever looks for its turn
naps for ten milliseconds between two looks and leaves the mutex free, so that a thread that waits for
the mutex gets it. In Tasks a thread that is stopped and continued again and again goes on at last, and
whoever is awakened for the scheduler again and again locks it at last (strong fairness of `Step` and of
`sched_lock`): each time it competes for a flag that its holder gives up soon. Nothing is assumed of the
tasks' own code, except in SchedLock and Tasks that a task that has switched preemption off switches it
on again, or ends.

## Where the code and its documentation disagree

Shown by a run:

* **task.c:866** A task function that returns runs `cleanup_scheduler_lock` before `t_delete` locks
  the scheduler; the thread exits with no handler left and the scheduler stays locked (sched_leak).
* **task.c:821** `cleanup_scheduler_lock` frees the lock without a signal; a task that sleeps for it,
  and "will 'spin' and briefly suspend until the scheduler is unlocked" (task.c:241), sleeps until the
  next `sched_unlock` of some other task, and for good if there is none (sched_asleep).
* **memblk.c:845** `pt_retbuf` links the block through `last_free`, which may have been handed out
  since the list became empty: it writes into a caller's block, or makes the block its own successor,
  and `pt_getbuf` then hands it out twice (part_double).
* **queue.c:1228** When a ring grows, the tail moves to the new extent wherever the head is. If the
  messages do not end at the last slot, receivers get messages of zeros and others out of order
  (ring_growing).
* **queue.c:1407** `q_broadcast` and `q_delete` lock `qbcst_lock`, then `queue_lock`; the last
  receiver locks them in the other order (775). A receiver that a timeout wakes after the message is put
  can block with them for good (queue_late).

Found with TLC, too, and not among the runs: the property named is violated when the cfg of the run named
checks it, `Uses` replaced by the uses named.

* **task.c:1057** `t_start` resets the attributes that hold the priority "set by the arg 'pri' of
  t_create()" (p2linux.h:69-72). The thread inherits its starter's priority: that of a thread that is no
  task, or the maximum of a task that has the scheduler locked. It keeps that until its own first
  `sched_unlock` (tasks, `StartUses`: `StartsAtItsPriority`).
* **task.c:1557** `t_mode` with `T_TSLICE` gives the thread the priority in its attributes, if `t_setpri` of
  another task has put one there, also while the task has the scheduler locked and should run "above
  that of any other thread" (task.c:220-223) (tasks, `SliceUses`: `RaisedWhileLocked`).
* **sema4.c:713** A task killed in its nap unlocks a `sema4_lock` that another task holds (sem_tokens,
  `NapUses`: `LockHeldOnce`); by their code the same holds of queue.c and vqueue.c.
* **sema4.c:686** The loop after a nap does not look for KILLD: a task that naps when `sm_delete` wakes
  the others finds no token and sleeps again, and `sm_delete` waits for it with the scheduler locked, for
  good (sem_tokens, `UntoldUses`: `DeleteReturns`). With tokens left it takes one and is told of the
  deletion all the same.
* **vqueue.c:1168** `q_vbroadcast` resets the "count of tasks awakened by q_broadcast call" (141) when it
  puts a message: a call that finds nobody waiting, or no room, stores the count of the one before
  (queue_calls, `RepeatedUses`: `NoneCounted`).

Seen while modelling; the restrictions above keep the passing runs clear of them.

Scheduler lock and tasks:

* task.c:303 A thread killed in `pthread_testcancel` unlocks `p2pt_sched_lock`, which it does not
  hold; two tasks can then lock the scheduler.
* task.c:866 A task that returns while it has `T_NOPREEMPT` keeps the maximum priority after the
  handler has freed the lock (`OnlyHolderIsRaised` holds under `NoReturns`).
* task.c:782 `t_delete` of a suspended task joins a thread that cannot see its cancellation, with the
  scheduler locked.
* task.c:1056 `t_start` with `T_NOPREEMPT` sets the flag and does not lock the scheduler; the first
  `t_mode` back to preemptible unlocks what was never locked, which `sched_unlock` ignores.
* task.c:1474 `t_setpri` of another task changes the attributes its thread was created with, which no
  longer matter except to `t_mode`; the priority takes effect at that task's next `sched_unlock`.
  `t_setpri(0, ...)` is answered with ERR_OBJDEL.
* task.c:672 `tcb_delete` unlinks a task through `suspend_list`, which a task keeps after its wait: it may
  point into the control block of an object that has been deleted and freed meanwhile. In Tasks objects
  are never deleted.
* task.c:1239 A `t_resume` between the mark and the stop of a task that suspends itself continues a thread
  that has yet to stop, and is lost.
* task.c:1190 `t_suspend`, and event.c:57 `ev_send`, look the control block up before they lock the
  scheduler; the task may be deleted in between.
* task.c:566 and its four likes: the next identifier is read from the list and the object linked later,
  so that two creations at once get the same one.

Objects:

* memblk.c:515 `pt_create` divides by the block size, and lets a length below one block through.
* memblk.c:610 `delete_prtn` frees the control block with its mutex locked: a task that has looked it
  up already waits for good.
* sema4.c:885 The last waiting task sets `send_type` back to SEND: a task that has looked the
  semaphore up before the deletion may then join the list, and `sm_delete` waits for it with the
  scheduler locked.
* sema4.c:635, queue.c:1577 The control block is freed once the list is empty, while the last task on
  its way out still uses it.
* queue.c:1214 A queue of size 0 without `Q_LIMIT` asks for an extent of ULONG -1 messages.
* queue.c:1374 Between the message of a broadcast and its wakeup an urgent message may come: it goes
  to all, and the broadcast message to one.
* queue.c:1380 The count of awakened tasks is reset after `queue_lock` is released, and a receiver has
  left the list (1819) before it counts itself: the count may be short. vqueue.c resets it with the
  message, when there is one (1105): `CountBounded` is about a call that has put its own.
* queue.c:1389 The list is read a second time: if the waiting tasks have gone and a new one has joined,
  `q_broadcast` waits for a task that was told nothing.
* queue.c:1683 A napping receiver whose deadline passes leaves a broadcast without taking it; if it is
  the last one, `send_type` stays BCAST and no task can receive any more.
* vqueue.c:1168 `q_vbroadcast` stores the number of tasks through `tasks` without a test for NULL.
* vqueue.c:1235 `q_vdelete` puts a message of 16 bytes whatever a slot holds, and whether or not there
  is room.
* event.c:319 A timeout and a match at once are reported as a timeout "without an event match"; the
  events stay captured and are part of the next receive, whatever its mask.

Times:

* sema4.c:833, queue.c:1791, vqueue.c:1519, event.c:284 The carry is taken above 1000000 microseconds
  only: a deadline on a whole second has `tv_nsec` 10^9, `pthread_cond_timedwait` refuses it with
  EINVAL, and the loops, the one of event.c:300-306 too, spin for good with their mutex locked. `DeadlineIsDue` makes an
  exception of that case.
* timer.c:43 Ticks are turned into microseconds in a ULONG: with 32 bits, a wait of more than 42949
  seconds returns early. `NotEarly` and the theorems speak of waits that fit.

## Proofs

All theorems are about the specification for every value of the constants, under the assumptions the
modules name (`NoTaskAssumption`, ...), which TLC evaluates in the runs.

**SchedLockProofs**, for any set of tasks, any uses and any bound on calls: `TypeCorrect`
and `FreedTasksGone` whatever is called; the others for `Disciplined` uses, as their statements or the
properties themselves say: `MutualExclusion` and `LockRefinement` with no further condition,
`LevelCorrect`, `OwnerLives` and `HolderIsRaised` when no task function returns (`NoReturns`),
`SleepersAreWoken` when no task ends itself (`NoEnds`). The inductive invariant adds to the properties what makes them
inductive: who is at a place that holds the mutex is the mutex's owner; who has passed `SetFlag` is the
flag's owner and the level is exactly its depth; a thread about to sleep saw a flag that is still set;
what is raised is what has the lock. Mutual exclusion by itself is not inductive: it needs the flag,
and the flag needs the mutex. `LockRefinement` shows that every step changes the depth of one task
only, by an `Acquire`, `Release` or `Abandon` of RecursiveLock. `SleepersAreWoken` rests
on the flag being set whenever somebody sleeps or is about to (`SleepInv`).

**SuspendListProofs** says what linking a task to a list and unlinking it do to who is on the list and to
whose turn it is; the three modules that have such lists cite it.

**TasksProofs**, for any tasks and uses. `StoppedTasksAreFree`, `PriorityTakesEffect` and
`FreedTasksAreOnNoList` hold whatever is called. None of them is
inductive: a task stops itself two steps after it has looked at the flag, so the invariant says that
it takes no lock in between (`StillUnlocked`); who is between `sched_lock` and `sched_unlock` owns the flag
(`InsideHolds`), and who owns it runs at the maximum, who has given it back at what it has set, and has
nothing in its attributes that `t_mode` could put in their place (`InEffect`); and for the lists it
says in which order a task's control block, its thread and its call come to their ends (`LifeInv`) and that a task is
on no other list than the one its block names (`OnOwnList`), where it stays after its wait.
`FoundTasksAreThere` has the condition `SuspendsAlone`: a task that others suspend does not end itself, and is
deleted by none but its suspender. It is needed because `t_suspend` looks its task up before it locks the scheduler. `StoppedTasksCanBeResumed` has also
`OneWay`: a task that suspends itself is suspended by no other, and resumed by one. It marks itself and
stops in two steps; with two tasks that resume it, the second can find it marked again and take it for stopped.

**PartitionProofs**, for any number of blocks and tasks in uses that are `Careful`: `BlocksAreExclusive`,
`DeletionIsSafe`, `DataIsKept`, `PartitionImplementsPool`. The free list is the least set that contains `first_free` and is closed
under the links; the invariant says that each free block is linked from one other or is the first, that
the last one links to none, that held and free blocks are apart, and that the two counters are the sizes of
the two sets (with the library's facts on cardinalities). That an appended block extends the closed
set by itself alone follows from the leastness, and that a nonempty list has a last block from
the well-foundedness of the naturals. For the refinement the free list is also a sequence (`ListIs`): there is one
such sequence, the recursion along the links that BlockPool is given (`Chain`) computes it (`FollowsList`),
`pt_getbuf` takes its head and `pt_retbuf` appends to it.

**Sema4Proofs**, for any tasks. `LockIsExclusive`, where none is deleted in `sm_p`: `sema4_lock` is
locked again after every sleep and nap, and the invariant says who must have it where.
`FreedSemaphoreIsUnwaited`, where the semaphore is deleted when no other call has just looked it up
(`DeletesQuietly`), with tasks deleted while they wait: once the deletion has begun nobody joins the list, and
who frees the semaphore has seen the list empty. `Sema4ImplementsQueue`, the refinement of TokenQueue,
where none is deleted in `sm_p` and a semaphore with tokens is not deleted (`Plain`): a task that looks for a
token again after its nap does not look whether the semaphore was deleted (sema4.c:686), and would take one and
be told of the deletion. A task between its token and its leave is still
first in its turn for the abstract queue; the invariant says that there is one at most, under the lock.

**QueueProofs**, for any tasks, messages, sizes and both files. Its base (`QInv`) is who
has `queue_lock`, who is on the list and that who is to fetch a message finds one. `BroadcastCountIsBounded`
holds whatever is called: the tasks a message is for are those on the list and those that
fetch (`Pending`), and the count and those who have yet to be counted are no more than the broadcast was for
(`CountInv`); a receiver that comes later is not among them, for it waits until `send_type` is back at SEND.
It speaks of the call that has put its message, as long as no other one puts another (`bcast.by`).
`SizeZeroStoresNothing` and `BroadcastReachesAll` are about receives that wait for good (`Patient`), and say themselves what else
must not come in between (`Kept`): an urgent message goes in front of the broadcast one, and so does the message of the
deletion, unless the calls are alone (`quiet`), which is an invariant of its own
(`AloneInv`). The invariant of the broadcast (`LeftInv`) is that, as long as somebody has not got the
message, it is in front, `send_type` is BCAST and the last task has not been told to report.
`QueueImplementsMailbox`, the refinement of Mailbox by sends and receives, needs from
the invariant that `send_type` is SEND and that whoever is between its message and its leave is one task
under the lock. Both its history variables are read from the places of the tasks.

**StructuresProofs** holds the proofs of the parts that are run by MCStructures.

The object lists, for any threads, blocks and kinds: `LookupsFind`, and `ListsImplementRegistry`, the refinement of
Registry. The list is a sequence of blocks (`IsChain`), which the walk along the pointers finds (`ChainIs`); linking
behind its end appends to it and unlinking takes one block out (`ChainLinked`, `ChainUnlinked`). The
invariant (`Sound`) is that identifiers grow along the sequence, that what is about to be linked has the
highest, so that the sorted insertion is always at the end, that what is about to be deleted is still in the list and its
identifier names nothing else, and that nothing a walk looks for is behind it (`Looking`). It is inductive
where threads take turns (`Tidy`): creations do not overlap, and deletions keep away from other calls or, for
objects that are not tasks, one thread does them all. Without the first, two objects have one identifier.

The ring, for any size, any number of extents and messages: `RingIsQueue`, the refinement of
MsgQueue by the rings of both files. Messages laid out around a ring of `n` slots are first studied by
themselves (`Laid`): a slot written behind them appends, one written before them prepends, one cleared
at the head removes, and more slots behind messages that end at the last slot change nothing. The
invariant `Shape` gives the tail from the head and the count and bounds the count by the slots; the
slots of messages are then distinct, which is what wrapping could spoil. `GrowsAtEnd` is the
assumption that ring_growing shows to be needed.

The timer, for every length of a second, a tick and a word: `DeadlinesAreDue`, `NeverEarly`,
`SleepsAreDue`. The invariant (`Kept`) is that the deadline, in microseconds, is the time of the
call plus the wait, and the lemmas say what the carry and the borrow do to the two parts.

**EventProofs**, for any set of events (masks of any width) and any number of senders: `TypeCorrect`;
`NoneMissed`, inductive because looking twice finds what looking once has found (`LookSettles`);
`BoxRefinement`, which needs that a look loses no event (`LookKeeps`) and that a task outside
`ev_send` has nothing to send (`IdleSenders`).

Only model-checked: every property that says that something happens, for liveness under fairness is
beyond the prover.

## Not modelled

* `ts_malloc` and `ts_free` wrap the C library under a mutex each, and a model of them would be one of
  `malloc`.
* `validate.c`, `demo.c`, `test.c` call the library and were read for what callers do and expect;
  headers and make files have no behaviour.
* `arm/` has byte-identical copies of the files modelled, except task.c, which stores the raised priority
  in the attributes of a thread and starts threads with default ones. No module is about them.
* Writes outside a block (memblk.c:515, vqueue.c:1235) and the extent of a queue of size 0 without
  `Q_LIMIT` (queue.c:1214); allocations that fail in `pt_create` and `q_create`; the lengths of
  variable-length messages.
* A ring that grows while tasks wait, and a task deleted while somebody sends it events (event.c:57):
  the two halves are in different modules.
* A task stopped inside the library, which stops with a mutex locked (task.c:1217): every call of every
  other task may then wait for good, and no property would be left.

## Plan

1. *Done:* SchedLock, Partition, Sema4, QueueRing, Queue, Event, Tasks, ObjectLists, Timer, with their
   runs and the proofs above.
2. The deletion of tasks that wait at queues, as in Sema4, and of tasks that are sent events.
