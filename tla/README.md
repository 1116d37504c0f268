# A verification of disastrOS

disastrOS is a teaching kernel that runs inside one Linux process: "processes"
are `ucontext` contexts, the timer interrupt is `SIGALRM`, and a system call is a
jump to a context on the system stack. This project models the entry into the
kernel, its scheduler, its message queues, the life of its processes with the
resources they open, processes and queues together, the test program that the repository builds, and the two
data structures that everything is built on, and checks the models with TLC.
For all but the test program it proves the main results with TLAPS, for every
number of processes, queues, messages, resources, blocks and items.

Paths below are relative to the repository; `src/` holds the C files, `include/`
the headers.

## 1. Inventory

| Component | State | Operations | What makes it correct |
|---|---|---|---|
| kernel entry (`disastrOS.c`) | `running`, the saved contexts, the signal mask in each, the clock `disastrOS_time` | `disastrOS_syscall`, `disastrOS_trap`, `timerHandler`, `timerInterrupt` | system calls and ticks do not interleave; a process continues where it stopped |
| scheduler (`disastrOS_schedule.c`, `_preempt.c`, `_sleep.c`) | `ready_list`, `waiting_list`, `PCB.status` | `internal_schedule`, `internal_preempt`, `internal_sleep` | every process is in the list its status names; whoever is ready runs; sleepers wake at their tick |
| timers (`disastrOS_timer.c`) | `timer_list`, `PCB.timer` | `TimerList_add`, `_current`, `_removeCurrent` | the list is in order, one timer per sleeper |
| message queues (`disastrOS_message_queue.c`, `disastrOS_msgqueue_*.c`) | `resources_list`, per queue: capacity, counter, messages, waiting senders and receivers | `mq_create`, `mq_destroy`, `mq_send`, `mq_receive` | messages arrive once and in order; whoever blocks is completed, in order, with the right result |
| messages (`disastrOS_message.c`) | the pool of message blocks | `Message_alloc`, `Message_free` | no block is lost; the pool suffices |
| linked list (`linked_list.c`) | links in each item, head, size | `List_insert`, `List_detach` (the others are these at one end) | pointers describe a sequence, an item is in one list |
| pool allocator (`pool_allocator.c`) | free list inside the buffer | `PoolAllocator_init`, `_getBlock`, `_releaseBlock` | no block handed out twice, none lost |
| processes (`disastrOS_pcb.c`, `_spawn.c`, `_fork.c`, `_exit.c`, `_wait.c`) | PCBs, parent and children, zombies, signals | `spawn`, `fork`, `exit`, `wait` | a parent collects every child once; orphans go to init; nothing is freed early or never |
| resources and descriptors (`disastrOS_resource.c`, `_descriptor.c`, `_open_`, `_close_`, `_destroy_resource.c`) | `resources_list`, reference counts, descriptors per process | `openResource`, `closeResource`, `destroyResource` | the counter counts descriptors; a resource in use is not destroyed |
| tests (`disastrOS_test.c`, `disastrOS_msgqueue_test.c`) and shutdown | what each process has done, `test_failures`, `shutdown_now` | one function per process | the program ends, with the same verdict on the unit tests and nothing left over, wherever the ticks come |
| constants and printing | | | |

How they interact. A system call stores its arguments in the PCB of `running`,
switches to the system stack and runs one `internal_*` function there with
`SIGALRM` blocked; on return the context of `running`, possibly another process
by now, is restored. The timer interrupt does the same with
`internal_schedule`. Components share state and call each other directly: a
queue's operations move PCBs between the queue's lists and `ready_list`, write
`syscall_retvalue` and the buffers of *other* processes, and call
`internal_schedule`. The links that put a PCB into a list are in the PCB and are
the same two for all lists.

What is hard here:

* a call that blocks is executed in two halves by different processes: the
  blocked one, and the peer that completes it and must write its result;
* a message gets into a queue by two ways (`mq_send`, and `mq_receive` for a
  blocked sender) and out by two ways, and counter, list, pool and waiting lists
  must stay in step on all of them, also on the exits in the middle;
* there is no idle process: when nobody is ready, `internal_schedule` keeps the
  caller on the processor although its status says `Waiting`;
* the scheduler looks only at the first timer, so the order of the list matters;
* sleepers are put in *front* of the ready list, which must not starve the rest;
* pointers to a PCB outlive it: `exit` moves children to init without changing
  their `parent`, and the block of a dead parent is soon another process;
* a parent may wait before, while or after its child ends, and what has to be
  given back (PCB, list item, timers, descriptors) is spread over `exit` and
  `wait`, differently on each order;
* signals that arrive while contexts are being switched, or wait until they have
  been: every switch overwrites `cpu_state`;
* processes that use everything at once: the tests rely on `preempt` to bring a
  child into a blocking call, and a tick before or after it changes the order.

`PROJECT.json` lists the hazards one by one, each with its line.

## 2. Modules

| Module | What it is |
|---|---|
| `Scheduler` | scheduler, timers and the timer interrupt |
| `MessageQueue` | EXTENDS `Scheduler`: the four queue calls and the message pool |
| `FifoChannel` | what the queues promise their users |
| `ChannelRefinement` | the mapping from `MessageQueue` to `FifoChannel` |
| `KernelEntry` | EXTENDS `Scheduler`: the way of a call and of a tick into the kernel and out, with the saved contexts and the signal |
| `AtomicKernel` | what the entry promises a process: each call is executed once |
| `Process` | EXTENDS `Scheduler`: spawn, fork, wait and exit, the tree of processes, the pools of PCBs and of list items for children |
| `ProcessTree` | what these calls promise the programs, who know pids only |
| `Resources` | EXTENDS `Process`: open, close and destroy of resources, and what fork and the end of a process do to descriptors |
| `System` | EXTENDS `Process` and `MessageQueue`: all calls of processes and of queues together, made in any order |
| `IntegrationTest` | EXTENDS `System`: the program `disastrOS_test`, which makes these calls in one order |
| `PoolAllocator` | the free list inside the buffer of a pool |
| `BlockPool` | what a pool promises; `PoolAllocator` implements it |
| `LinkedList` | the pointers of lists that share their items |
| `MC...` | instances for TLC (symmetry, pointer sets, where a signal hits) |
| `..._proofs` | theorems about the module they are named after; `MessageQueue_proofs` is about `ChannelRefinement` too |

### Scheduler

`running`, `status`, `ready_list`, `waiting_list`, `timer_list` and
`syscall_retvalue` are the variables of the same name. Every kernel entry is one
action: `timerInterrupt`, `internal_preempt`, `internal_sleep`. That a whole entry
may be taken for atomic is the subject of `KernelEntry`. `internal_schedule` is
an operator over the lists as its caller left them: it wakes the sleepers whose
timers have elapsed, then switches to the first ready process, or to nobody.

Conventions:

* a list is the sequence of its elements; `waiting_list` is a set, as no code
  looks at its order. `LinkedList_proofs` justifies the first;
* a timer holds the ticks that are *left*, not the time of day, so that the
  clock needs no bound. A tick (`Ticked`) takes one from each. What this leaves
  out is the width of the `int` clock;
* `syscall_retvalue` is `NoResult` once the process has read its result. A
  process reads it as soon as it is back in user mode, so every action of the
  running process may assume that;
* `Callers` make system calls, the rest of `Proc` only compute, like
  `sleeperFunction` of the tests. Processes exist from the start, in any order
  in the ready list.

### KernelEntry and AtomicKernel

`place` is what the processor executes: the program, `disastrOS_syscall` before
or after its `swapcontext`, the trap, the handler of the signal, the tick. Each
`swapcontext` and `setcontext` is two steps, as in the C library: the registers
are saved and the mask is set, then the registers are loaded. `cpu_state[p].at` is
where a process goes on, `.handler` that it first returns from `timerHandler`,
with `SIGALRM` blocked until then. `pending` is the one signal that Linux
remembers while it is blocked; a signal that is pending and not blocked is
delivered before anything else happens, wherever the processor is (`Delivers`).
`executed` counts how often the call that a process makes has been executed.

The trap and the interrupt share one stack. A frame there that a context was
saved in is overwritten before the context is restored: `Overwritten`, where the
model goes no further.

`AlarmPlaces` says at which places a signal may be raised. In the run
`kernel_entry` and in the theorems these are `UserPlaces`, the code of the
processes. It may also be raised where `HandlerResumes`: a trap or a tick goes back
to a process that a tick has stopped, with `SIGALRM` blocked until its handler
returns, and the signal waits until then. Left out of these are signals raised

* in `Windows`, inside the two switches and inside the tick, where `SIGALRM` is not
  blocked;
* in a trap that goes back to a process behind its own call, or to a new one: the
  `setcontext` at its end unblocks the signal, which is delivered there, on the
  system stack. The run `kernel_window` has these, and nothing is claimed for them.
  (One that is raised in a trap that goes back to a handler is in: nothing
  distinguishes it from one that is raised by its `setcontext`.)

`AtomicKernel` knows only whose turn it is and, per process, whether it has made a
call and whether it has been executed. `KernelEntry` also implements
`SchedulerSpec`, with its fairness: ticks that are merged while the signal is
blocked still keep coming.

### MessageQueue

A queue is its id; `max_messages`, `current_messages`, `messages`,
`waiting_receivers` and `waiting_senders` are its fields. The fields of a queue
that does not exist have the values `MessageQueue_alloc` gives a new one.
`resources_list` is the set of ids that exist (no resource of another type is in
the list here). `free_messages` counts the free blocks of the message pool. What
a blocked process has in `syscall_args` is in its entry of the waiting list. A
message's data is its author's name, which is what the properties about delivery
tell apart; `user_buffer` is what the last receive delivered.

Each system call is the disjunction of its outcomes: for `internal_mq_send`
rejected (`SendRejected`), blocked (`SendBlocks`, with the two ways in which
that fails), no block (`SendWithoutBlock`), queued (`SendEnqueues`), handed to a
receiver that waits (`SendHandsOver`); for `internal_mq_receive` rejected,
blocked, too short a buffer (`ReceiveDiscards`), taken (`ReceiveTakes`), taken
and the queue refilled for a blocked sender (`ReceiveRefills`).

`list_broken`: a process that sleeps but kept the processor is on `waiting_list`;
if it blocks in a queue call its PCB is inserted into a second list. What the
pointers are then depends on the neighbours; the model stops at that point
(`LinkTwice`) and says so in `list_broken`, and the runs where this can happen
do not check for deadlock.

### FifoChannel and ChannelRefinement

A channel holds the messages sent and not received, in the order of the calls,
whether the sender is blocked or not; readers wait in the order of their calls.
The mapping puts the blocked senders' messages behind the queue's:
`content = Authors(messages) \o Pcbs(waiting_senders)`.

### Process

`Proc` are here the blocks of the PCB pool. A block that is freed keeps its
fields, and a pointer to it may be left: `free_pcbs` are the free blocks, and
`SpawnStarts` takes any of them. Pids are never used again. The PCBPtr of a child
is its PCB in the sequence `children`; `free_ptrs` counts the free blocks of
their pool. `last_wait` is the pid in the `syscall_args` of a process if the number of
its last call is that of wait, and `NotInWait` otherwise. Like the fields of the
code it stays when the call has returned, and `internal_exit` looks at nothing but
this and the status to see that the parent waits (`ParentWaits`). The two agree with
"is blocked in wait" except for a process that sleeps on the processor: it is
`Waiting` while it makes calls. An exit that finds a wait there ends the sleep and
leaves the timer, which `timer_list` shows. A process may then have a timer while it
runs, is blocked, ends or is collected; its next sleep is refused, its exit to a
parent that waits releases the timer (`TimerReleased`), and otherwise the kernel
comes to `NotListed` or `DanglingTimer`.

A call is stored in the PCB and executed in one step. A tick between the two is
seen by others in the same case only, and is part of the model: `CallStored` lets
the tick that interrupts a process that sleeps on the processor find any call
stored. The value passed to exit is the caller's pid, so that `wait_result` (what
wait writes through its pointer) shows whose value a parent gets. Signals are
recorded as the code does; no code of disastrOS reads them. `fork` differs from
`spawn` in that it gives the child no context: `forked` are the PCBs whose
`cpu_state` is not the process's own.

`internal_wait` is `WaitRejected` (no children), `WaitReaps` (the child at which
the loop stops, `Awaited`, is a zombie), `WaitReapsSleeper` (which has a timer),
`WaitBlocks`, `WaitAborts`; `internal_exit` is `ExitWakesParent`, `ExitLeavesZombie`, `ExitAborts`, and for
init `InitExits`. Where the kernel would read through a null pointer, fail an
assertion, link a PCB into a second list or detach it from one that it is not in,
free one that is pointed at, load a wrong context or loop for ever, the model
stops and `failure` says why:

| `failure` | how it happens |
|---|---|
| `NoPtr` | `exit` to a waiting parent never frees the PCBPtr of the child; after enough of them spawn fails its assertion |
| `NoNextProcess` | `wait` and `exit` take the first of `ready_list` unchecked; nobody is ready |
| `NotAChild` | an orphan's `parent` is a PCB that another process has got, which waits; the orphan is not among its children |
| `LinkedTwice` | a process that kept the processor while it sleeps calls `wait` or `exit` |
| `NotListed` | a timer elapses for a process that is not on `waiting_list`: an exit has ended its sleep and left the timer |
| `DanglingTimer` | such a process has ended, and `wait` frees its PCB while the timer points to it |
| `NoContext` | a forked process gets the processor |
| `EndlessLoop` | init exits with children: it moves them from its list to the end of its list |
| `NullParent` | init exits without children and signals its parent, which it has not |
| `NoDescriptor` | `fork` fails its assertion when the descriptors of the parent do not fit into a pool (`Resources`) |

The run `processes` reaches all but the last, which the run `resources` reaches.
`NoNextProcess`, `LinkedTwice`, `NotListed` and `DanglingTimer` cannot happen while one
process only computes (`SomebodyTakesOver`).

### ProcessTree

Pids are unborn, living, ended or collected; each living or ended one but init's
has a guardian, who may collect it: the process that has started it, and init
when that one has ended. It may do so by `wait`, or by the exit itself, which is not
asked to find the guardian in a wait: in the code it may sleep. The mapping reads
state and guardian from the PCBs in use and their lists of children, and what a process has collected from its
result and `wait_result`.

### Resources

A descriptor is `[fd, resource]` in its process's `descriptors` and
`[owner, fd]` in the resource's `descriptors_ptrs`, the owner being a pid: the
entries that a process leaves behind must not be taken for those of the next
process in its PCB. `open_mode` is a number and its bits are tested as in the
code, where `DSOS_WRITE` contains the bit of `DSOS_CREATE`.
`internal_openResource` has an outcome per exit of the function; on one of them
(`OpenWithoutDescriptor`) the call fails and the resource it created stays.
`DescriptorsReleased` joins `ExitWakesParent`; the other branch of exit releases
nothing. `DescriptorsCopied` joins `ForkStarts`.

### System

The variables are those of `Process` and `MessageQueue` on one scheduler.
`ProcessStep` is a tick, `preempt`, `sleep` or one of the calls of `Process`, with the
queues as they are (`SchedulerFrame`); `QueueStep` is a call of a queue, with the tree
of processes as it is and the call stored as the caller's last (`CallFrame`). Which
variables a call leaves alone is read off the code: `internal_mq_*` touch no list of children, no pid and no pool of PCBs;
spawn, fork, wait and exit touch no queue. Both use the scheduler's lists,
`status` and `syscall_retvalue`, and this is where they could disturb each other:
who is blocked in wait, in a queue or asleep has the same status.

`internal_exit` takes its value from `ExitValues`, where the next-state relation of
`Process` has the pid of the caller.

`System` has no run of its own. What any program may do with it is the subject of
`System_proofs`; that the test program is such a program is `ImplementsSystem`, which
the run `integration_test` checks.

### IntegrationTest

`Program` is the test program as data: per function a sequence of parts, each a
sequence of statements with one system call and the result expected. A part is
what an unexpected result leaves, as the early returns and the `goto fail` do.
`task` says which program, queue and message number a process was spawned with;
`at` and `in_call` where it is; `value` what it made of its last result.
`ProgramStep` is the next call of the running process, with every system call of
`System` that the tests use, `TestTick` the interrupt.

A PCB is its pid here. The pool would give the block freed last, but no program
keeps a pointer to a process that has ended, and `Process` covers reuse. The text
of a message is its author. `sleeperFunction` makes no calls: it reads from
standard input and prints.

### PoolAllocator and BlockPool

`free_list`, `first_idx` and `size` are the fields of the struct. A pointer is its
distance from the buffer. `answer` is what the last call returned. The set of
used blocks of `BlockPool` is the set of blocks marked `DetachedIdx`. Every pool
of the kernel is initialised once, with the memory it needs (`assert(!result)` in
every `*_init`), so `PoolInit` is the state after `PoolAllocator_init`.

### LinkedList

`next` and `prev` are the links of each item, `first`, `last` and `size` the
heads. `contents` is a history variable with the sequence each list should hold.
Callers keep the contract that the assertions under `_LIST_DEBUG_` state: the
item that is inserted behind, or detached, is in that list. An insertion may
name an item that is in a list already and has neighbours there, which
`List_insert` refuses. The one it does not notice, the only item of a list, is
left out here; in `MessageQueue` it is covered by `LinkTwice`.

### Faulty variants

A definition named like another with a suffix (`Requeued_AtFront`,
`Message_free_Leaks`) is a plausible bug. `PROJECT.json` pairs each property with
one of them; with the variant in place of the original TLC finds the property
violated.

## 3. Runs

| Run | Instance | Shows |
|---|---|---|
| `kernel_entry` | 3 processes that call and sleep 0, 1 or 2 ticks; signals in their code and on the way back to a handler | `ContinuesInStep`, `ImplementsAtomicKernel`, `ImplementsScheduler`; of the scheduler `ListsMatchStatus`, `NoOverdueTimer`, `WakesOnTime`, `WakesInTimerOrder`; `ReadyRuns`, `CallsReturn` |
| `queues` | 3 processes, 2 queues of up to 2, a pool of 2, all arguments legal or not, short buffers, sleep | `OneListEach`, `CountsMatch`, `NoBlockLost`, `ReceiversWaitOnEmpty`, `PoolSuffices`, `WokenWithResult` |
| `service` | 3 callers that sleep, 1 process that computes, 1 queue of 2, buffers that hold every message | `BlocksInsteadOfFailing`, `SendersWaitOnFull`, `ImplementsChannels`; `SendersServed`, `ReceiversServed` |
| `processes` | 4 PCBs and 3 PCBPtrs, 4 spawns or forks, wait for any child or for pid 2, sleep of 2 ticks, init exits too | `LivesInOneList`, `EveryChildOnce`, `ParentOrInit`, `NoMissedExit`, `ImplementsProcessTree` |
| `resources` | 3 PCBs of which one only computes, 2 resources of 2 types, 3 descriptors | `RefCountsMatch`, `NothingDangles`, `BlocksAccounted`, `SomebodyTakesOver` |
| `integration_test` | the test program as it is: 17 processes, 6 queues, the code's limits | `WaitsForOneThing`, `CleanEnd`, `ImplementsSystem`, `TestEnds` |
| `pool` | 4 blocks of 2 bytes, all pointers from a block below to a block above the buffer | `FreeListIsChain`, `ImplementsBlockPool` |
| `lists` | 2 lists, 5 items | `PointersMatch` |

Bounds. Three processes are enough for a running process, one that waits and
one to overtake it; in `service` the fourth keeps the processor busy, so that all
three may wait. Capacity 0, message size 3 and buffer size 0 are illegal; a
capacity above the maximum is left to `integration_test`, which tries the upper
limit of the code. A pool
smaller than the queues makes allocation fail on a queue that has space, and one
queue of 1 next to another of 1 makes `PoolSuffices` apply to two.
In `kernel_entry` all three processes may sleep at once, in which case the last
one keeps the processor. `integration_test` has no bound of its own but the
program, whose runs all end; the sets of sizes and exit values in its cfg are those
that the program uses, and only `ImplementsSystem` looks at them.
Sleeps of 0, 1 and 2 ticks give timers that elapse at once, together and one
after the other. Four blocks make every order of up to four allocations and
releases; five items insert and remove at both ends, in the middle and alone.
Four PCBs are the fewest with which a dead parent's block is used again, by a
process that waits for a child of its own, while the orphan and init live on
(`NotAChild`); pid 2 is a child, a grandchild or nobody. A sleep of 2 ticks leaves
one tick in which the sleeper has lost the processor and has not been woken, so
that a child may exit while its parent sleeps and a wait is the parent's last call
(a sleep of 1 tick would end with the tick that takes the processor). Three descriptors run
out before two processes have both resources open.

Two bounds cut behaviours off: `MaxPid`, the number of spawns, and `MaxFd`, the
number of times that a process opens a resource (the counters of the code have
none). The other state spaces are finite as they are: timers count down, queues
are bounded by their capacities.

`SYMMETRY` permutes processes (or list heads) and is used for runs without
liveness properties only. `processes` has a `VIEW`, `LiveState`, which leaves out the
values that nothing looks at any more: the fields of free PCBs, the last call of a
process that is not `Waiting`, results that have been read.

### Runs that find a violation

| Run | Statement of the repository | What happens |
|---|---|---|
| `short_buffer` | "receive also wakes up a waiting sender" (`disastrOS_msgqueue_receive.c:33`) | a receive into a buffer that is too small frees the message and returns before it looks at the senders: one stays blocked at a queue with space |
| `orphans` | "if the process has children they need to be reparented to the init process", "parent should receive SIGCHLD and be awakened if it was waiting" (`disastrOS_exit.c:10`, `:13`) | an adopted child keeps its dead parent in `parent`; when it exits, init is blocked in `wait(0)` and is not woken |
| `kernel_window` | "this disables alarm during system trap" (`disastrOS.c:225`) | `setcontext` at the end of the trap (`disastrOS.c:139`) sets the mask of the process before it loads its registers: a signal that became pending in the trap is delivered there, on the system stack, and saves that frame over the context of the process |
| `unreleased` | "we release all resources of a process upon termination" (`disastrOS_exit.c:74`) | only if the parent waits already; a zombie keeps its descriptors, and `wait` frees its PCB with them |

The first matters most: the remaining sender may never be served, and when the
queue has run empty receivers block on it while a sender is still blocked
behind them. `ImplementsChannels` and `SendersWaitOnFull` therefore hold for
buffers that hold every message, which is the bound of the run `service`. In the
same way `NoMissedExit` is about a parent's own children, and `BlocksAccounted`
counts the descriptors that are in some resource's list, those of the dead
included.

`kernel_window` rests on what the C library does (glibc on x86-64 calls
`rt_sigprocmask` before it loads the registers). The same happens at the other
places in `Windows`: in the `swapcontext` of `disastrOS_syscall` the handler's
context is saved over the one just saved, and the process repeats its call; a
second tick in `timerInterrupt`, whose mask is empty (`disastrOS.c:233`), enters
`internal_schedule` again on the same stack. With the period of the timer these
are rare, which is why the repository's tests pass.

Other disagreements that the models contain, without a run of their own:

* a message's `pcb_sender`, "process that sent the message"
  (`disastrOS_message.h:13`), is the receiver when `mq_receive` allocates the
  message of a blocked sender;
* with nobody ready, though others sleep, `mq_send` and `mq_receive` fail with
  `DSOS_EMQFULL` or `DSOS_EMQEMPTY` where the README (`README.md:24`) says they
  block, and `sleep` returns at once (`disastrOS_sleep.c:27`): `SendBlocks`,
  `ReceiveBlocks`, `internal_schedule`;
* `wait` for a pid that no child has is no error (`disastrOS_wait.c:33`): the loop
  ends at the last child, which is reaped if it is a zombie, and otherwise the
  call blocks: `Awaited`;
* exit wakes the parent "if the parent was waiting for this process to die ...
  since he called wait or waitpid" (`disastrOS_exit.c:39`), but tests the parent's
  status and its last call (`:40`-`:44`), which may be a wait that has returned. init
  spawns C1 and preempts, C1 exits; init sleeps with nobody ready and keeps the
  processor, spawns C2, and `wait(0)` collects C1; a tick takes the processor, C2
  exits. init is woken from its sleep, C2 collected by nobody's wait, its value
  written through the pointer of the wait before; the timer stays and elapses
  later for a process that does not sleep: `ParentWaits`, `NotListed`;
* the ways in which the kernel stops, above;
* the scenario of `disastrOS_test.c` has no fixed verdict: when a tick falls
  between the two producers of its second phase such that the later one sends
  first, the consumer of the third phase gets the other message and reports a
  mismatch ("MQ scenario FAILED", `disastrOS_test.c:218`). The unit tests have one
  (`UnitTestsPass`, a part of `CleanEnd`), and the program ends cleanly in both cases.

### Fairness

`WF(timerInterrupt)` in `Scheduler`, `WF(Tick)` in `MessageQueue`, nothing else:
`setupSignals` starts an interval timer, user code runs with the signal
unblocked, and kernel entries are finite, so ticks keep coming. No process is
assumed to make any call: that a process makes progress beyond its own code is
never assumed. `SendersServed` and `ReceiversServed` are therefore conditional:
*if* messages are taken from (sent to) the queue again and again, every process
blocked on it runs again.

`KernelEntry` says where the ticks come from. `WF(ProcessorStep)`: the processor
does not stop in the middle of a switch, the kernel or a handler.
`SF(AlarmRaised)`: the timer is periodic; strong, because `AlarmPlaces` leaves the
kernel out and a timer does not hit the kernel every time. `SF` of `CallStep` per
process: the period is longer than the few instructions of a switch, so a
process that has the processor again and again gets on with its call. Whether a
program makes a call (`SyscallStored`) is not assumed. `CallsReturn` has the
condition `GetsTime`: a signal that is raised on the way back to a handler hits the
process before its first instruction behind the handler, and if that happened
every time the process would not get on; the code has nothing against it.

`IntegrationTest` has `WF(TestTick)` and `SF(ProgramStep)`: the period is, at least
every now and then, longer than the way from one call to the next.

## 4. Proofs

All theorems hold for every value of the constants that satisfies the named
assumptions: `SchedulerAssumption` (finitely many processes),
`MessageQueueAssumption`, `ProcessAssumption`, `SystemAssumption`,
`ResourceAssumption`, `KernelAssumption`, `PoolAssumption`, `ListAssumption` (types, that the ids of
resources are finitely many, and that the PCBPtrs suffice for the processes that
exist at boot). A theorem that needs more says so in its ASSUME; the premises are

| Premise | Where | Why |
|---|---|---|
| `Callers # Proc`, `Proc \ Callers # {}` | whoever has to be switched to exists; in `System` also `OneWaitEach` and `WokenByPeersOnly` | somebody only computes, as `sleeperFunction` does; there is no idle process, and without one a process may sleep on the processor (runs `queues`, `processes`) |
| `BuffersSuffice` | channels, `SendersWaitOnFull`, in `MessageQueue` and in `System` | buffers hold every message; the run `short_buffer` shows that it is needed |
| the pool holds all queues at their largest | `AllocationSucceeds` | the definition of `DSOS_MAX_MESSAGES` (`disastrOS_message.c:13`) |
| `AlarmPlaces \subseteq UserPlaces` | atomic calls | the run `kernel_window` shows that it is needed |
| `Cardinality(Proc \ Callers) <= MaxPid` | `ImplementsProcessTree` | the bound of the model has room for the processes at boot |

**Scheduler_proofs.** `SchedulerInv` is `SchedulerTypeOK`, `ListsMatchStatus`, "the
timer list is in order" and `NoOverdueTimer`. The order is what makes it
inductive: `internal_schedule` stops at the first timer that has not elapsed,
and only an ordered list has nothing elapsed behind it. From it:
`SchedulerTypes`, `ListsAlwaysMatch`, `NobodyOverdue`, and the action property
`EverybodyOnTime`. `WokenInTimerOrder` (`WakesInTimerOrder`) adds that everybody who
waits is on `waiting_list`; its proof follows the elements of the ready list
through `internal_schedule`, which puts the sleepers in front, the last timer
first. `NobodyRunsAsleep` (no process runs while it is on `waiting_list`) needs
`Callers # Proc`: a process that only computes is always running or ready, so
there is somebody to switch to.

**KernelEntry_proofs.** Under `AlarmPlaces \subseteq UserPlaces`: `KernelTypes`,
`EverybodyContinues` (`ContinuesInStep`) and `CallsAreAtomic`, that the entry
implements `AtomicKernel`. The invariant is `SchedulerInv` with `ContinuesInStep` and
`SignalOutside`, that a pending signal hits a process or waits for a handler to
return, so that nothing is pending when the kernel goes to a process behind its
call. The context of a process that is not on the processor was saved at a place that
fits what is done of its call, and the trap and the tick change `running` only at
places where the context of the old and of the new process are both saved.
`KernelStepsAreScheduled` needs no premise: wherever a signal is raised, each step is
one of the scheduler or none, which is `ImplementsScheduler` without the fairness.
`KernelKeepsSchedule` draws the conclusion: the scheduler's properties hold of the
kernel with its switches and handlers.

**Process_proofs.** `ProcessInv` is inductive, for any number of PCBs, PCBPtrs and
pids: the lists of the scheduler with zombies and blocked parents, pids that are
unique among PCBs in use, children as a forest in which each PCB in use but
init's is once (`Forest`, with a lemma per way a list of children changes: a child
is added, removed, or all of them move to init), parents that are right or dead,
and the count of PCBPtrs in use, which is at least that of children. `TreeInv` is
why the code may follow stale parent pointers without losing a child: what an
orphan that exits does to its old parent's PCB is confined to `signals`, unless
that PCB waits for it, where the model stops with `NotAChild`. A timer may belong to
a process that does not sleep, as an exit may have ended its sleep (`ParentWaits`);
what the invariant says of timers is that they are in order, that a process has at
most one, and that whoever waits on the processor has one. From it:
`ProcessTypes`, `EverybodyInOneList`, `NoChildLost`, `ListedAtParent`,
`ExitNeverMissed`, all of them up to the point where the kernel stops.

With a process that only computes, `ComputingIsEnough` (`SomebodyTakesOver`). Nobody
then sleeps on the processor, so the last call of a process that has a timer is
sleep and not a wait (`TimersAsleep`), no exit ends a sleep, and `NotListed` and
`DanglingTimer` do not happen.

`CallsImplementTree` is the refinement of `ProcessTree`. `Mapped` says what the
mapping makes of a state: the state of a pid is read off the one PCB that has it,
its guardian is the one whose list of children holds that PCB; both rest on
`ProcessInv` (`MappedNow`, and by priming it `MappedThen`). `MappingInv` adds what
`ProcessInv` does not need: pid 0 is init's, the value in a zombie is its own, and
only the running process can have an unread result of `wait`. Then there is a
lemma per kind of step: `StepSpawns`, `StepCollects`, `StepEnds`,
`StepEndsCollected`, `StepSwitches` for what leaves the tree alone, and
`StoppedStep` for the ways in which the kernel stops. Both branches of exit share
`OthersAdopted`, for the pids that the exit passes on to init.

**Resources_proofs.** `ResourceInv` is inductive together with `ProcessInv`. It is
`RefCountsMatch`, `NothingDangles` and `BlocksAccounted`, types and finiteness, and
two statements that none of the three would survive without: no resource lists a
descriptor of the pid that is born next (`OwnersKnown`), and none lists an fd that
a process will be given next (`FdsBelow`). The second is false of forked
processes, which get copies of descriptors and count from 0 again, but a forked
process has no context and never comes to open anything. The blocks of all lists
together are one set of pairs (`OpenEntries`) with a lemma for an entry more, an
entry less, and all entries of one process at once. From it: `ResourceTypes`,
`CountersAreRight`, `DescriptorsAreGood`, `BlocksComeBack`.
`ResourceStep` says that a step is one of `Process`, an answer that leaves the
processes alone, or the assertion in fork; with it `ComputingIsEnoughWithResources`
and `ResourcesLeaveTree` (`SomebodyTakesOver`, `ImplementsProcessTree`) carry over.

**MessageQueue_proofs.** `Inv` is `SchedulerInv` with `CallInv`: the types of the
queues, `CountsMatch`, `ReceiversWaitOnEmpty`, what the calls need of the scheduler
(`ListsHold`) and a statement about all lists of processes at once (`ListInv`): each list has no repetition, any two are apart,
and every process is where its status says. The proof has a lemma per way a
process moves: it joins a list, leaves one at the front, or all leave. From it:
`QueueTypesHold`, `OneListAlways`, `CountsAlwaysMatch`, `NoMissedMessage`, and the
action property `EverybodyWokenWithResult` (`WokenWithResult`), where the cases are
the calls that complete somebody else's.

The pool is `PoolInv`: free blocks and messages together are the pool. A message
is a place in its queue (`Places`), so that all of them are one set, whose
cardinality changes by one or, in `mq_destroy`, by those of one queue. With `Inv`
it gives `BlocksAreKept` (`NoBlockLost`) and `PoolAlwaysSuffices` (`PoolSuffices`): where
the queues have more places than messages, and no more than the pool has blocks,
one is free. With a pool of the code's size the branch of `mq_send` for an
exhausted pool is dead (`AllocationSucceeds`).

With `Callers # Proc`: `NobodyLinkedTwice` (no PCB is inserted into a second list, so
the model never stops) and `AlwaysBlocks` (no call fails where the README says it
blocks). The invariant (`BlockingInv`) adds that those who make no calls are
never blocked and that sleepers do not run; that a call keeps it (`CallBlocking`)
needs of the scheduler only that somebody is ready.

With `BuffersSuffice`: `SendersAlwaysWaitOnFull` (`SendersWaitOnFull`), inductive with
`Inv` because every receive that makes space also refills the queue, and
`QueuesImplementChannels`, the refinement of `FifoChannel`. It needs that senders
wait at full queues only, that receivers wait at empty ones only, and that the
buffers of those who wait are large (`LargeBuffers`): only then is the
concatenation of messages and senders the content of a channel whose first
message goes to the first reader. There is a lemma per outcome of each call; the
calls that fail or only block a receiver are stutters or the arrival of a reader.

**System_proofs.** The promises of processes and of queues hold together, for any
program that mixes their calls in any order, with any exit values. `SystemInv` is
`ProcessInv` with `CallInv` and `PoolInv`. The two are inductive next to each other
because each says of those who wait only what its own calls rely on: `ProcessInv`
knows that somebody may wait in lists it does not know (`WaitsElsewhere`), and
`CallInv` that somebody on `waiting_list` may have no timer, and that a process may
have ended. `ElsewhereIsQueues` is the joint: whoever waits elsewhere waits at a
queue. A step of the processes leaves `WaitsElsewhere` as it is (`ProcessStepInv`); a
call of a queue neither starts nor ends a process and takes nobody who has no
timer off `waiting_list` (`Kept`, `QueueStepInv`). From it, up to the point where the
kernel stops: `SystemTypes`, `TreeHolds`, `NoExitMissed`, `TimersAreTaken`, `QueuesHold`,
`NoMessageMissed`. With `BuffersSuffice`: `NoSpaceMissed` and
`SystemImplementsChannels`, so that the queues stay channels while their users are
born and end.

With a process that only computes: `SystemKeepsRunning` (`SomebodyTakesOver` and
`NeverLinkedTwice`) and `SystemAlwaysBlocks`. This is the argument that needs both
parts at every step (`SystemAwake`): each call may block its caller only because
somebody is ready, which is the promise of all calls before it, of either kind. With
it come `OneWaitEach` (`WaitsForOneThing`) and the action property `WokenByPeersOnly`
(`WokenWithResult`). They have this premise because of the timer that an exit may
leave: a process that then blocks in a queue waits for two things, and the tick of
that timer, where the model stops (`NotListed`), would take it out of the queue
without a result.

**PoolAllocator_proofs.** `PoolTypeOK` with `FreeListIsChain` is inductive: the chain
after a step is the old one without its first block, or with one in front; that
it never grows longer than the pool is the pigeonhole principle.
`PoolImplementsBlockPool` is the refinement: each step of the allocator is a step
of `BlockPool` for the blocks marked as detached, for any pointers released.

**LinkedList_proofs.** `ListTypeOK`, `ItemsApart` and `PointersMatch` are inductive
together: an operation writes the links of two neighbours, and because no item
is in two lists these writes leave every other list alone.
`PointersAlwaysMatch` is what lets the other modules take lists for sequences.

Model-checked only:

* the liveness properties `ReadyRuns`, `CallsReturn`, `SendersServed`,
  `ReceiversServed` and `TestEnds`, and the fairness in `ImplementsScheduler`, whose
  safety half is `KernelStepsAreScheduled`: the provers have no rule for ENABLED;
* `CleanEnd` and `ImplementsSystem` of `IntegrationTest`. They are about one finite
  program, whose 17 processes and their orders are all there is, and TLC goes
  through them. By `ImplementsSystem` the theorems of `System_proofs` hold of the
  program, `NoExitMissed` and `NoMessageMissed` for example; not those whose premise is a
  process that computes from boot, as `sleeperFunction` is spawned.
  `WaitsForOneThing` is therefore a property of the run.

Three definitions are written such that they can be reasoned about: `NoBlockLost`,
`PoolSuffices` and `BlocksAccounted` count one set of pairs where a sum over all
queues or resources would be a fold, about which nothing can be proved here
without induction over data.

## 5. Not modelled, and the plan

* a process function that returns instead of calling exit, which leaves the
  system by `main_context` and boots it again;
* queues and other resources in one `resources_list`: they compete for ids, and a
  queue can be opened and destroyed as a resource (`disastrOS_destroy_resource.c:21`,
  `disastrOS_msgqueue_create.c:20`). `MessageQueue` and `Resources` each have a list
  of their own; no program of the repository uses both;
* the width of the clock (`disastrOS_sleep.c:18`): timers hold the ticks that are
  left;
* what happens after a signal was delivered at the end of a trap or inside a switch
  or a tick (`kernel_window`): what a process does in a frame of the system stack that
  was overwritten, and the other undefined behaviours at which the models stop;
* the numbers of calls outside `syscall_vector`, which no wrapper passes; printing
  and debug output.

Theorems left: that `System` implements `ProcessTree`. The mapping takes the value
that wait delivers for the pid of the child, which holds in `Process`
(`CallsImplementTree`), where a process exits with its pid; in `System` it exits with
any value. A history variable for the child that was collected would do. And
`SystemSpec` with the calls of `Resources`, once the two kinds of resources are in one
list.
