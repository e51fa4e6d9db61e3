# A TLA+ development for the MacMach (November 1991) kernel

The repository is Carnegie Mellon's MacMach: the Mach 3.0 kernel for the Macintosh II, the servers
that run above it, and a BSD userland. This directory holds TLA+ models of the parts of the kernel
whose correctness depends on the order in which threads take locks, sleep, wake each other and hand
rights and messages over, the TLC configurations that check them, and TLAPS proofs.

Paths below are relative to `src/mach_kernel.mach3/kernel`.

- [Inventory](#inventory)
- [Plan](#plan)
- [The modules](#the-modules)
- [The runs](#the-runs)
- [What is proved](#what-is-proved)
- [Where code and comments disagree](#where-code-and-comments-disagree)
- [What is not modelled](#what-is-not-modelled)

## Inventory

How the parts meet: a user thread enters the kernel in `mach_msg_trap` (`ipc/mach_msg.c`), which
copies a message and its rights in (`ipc_kmsg.c`, `ipc_right.c`), queues it on a port
(`ipc_mqueue.c`), blocks in the scheduler (`kern/ipc_sched.c`, `kern/sched_prim.c`) and copies the
answer out. A port may be a kernel object (`kern/ipc_kobject.c`), so the same path is how tasks,
threads, memory objects and devices are operated on. Page faults (`vm/vm_fault.c`) become messages
to memory managers. Everything sleeps and wakes through `assert_wait`, `thread_block` and
`thread_wakeup`; long-lived structures (maps, zones, objects) use the sleep locks of `kern/lock.c`,
short ones simple locks.

The Macintosh build has one processor and a kernel that is not preempted, so threads interleave at
`thread_block` and with interrupts only. The code is written for `NCPUS > 1` as well, where they
interleave wherever a lock is free. Models in which this matters have the constant `Multiprocessor`.

| Component | State | Operations | Hard behaviour | What makes it correct |
|---|---|---|---|---|
| Sleep locks, `kern/lock.c` | `read_count`, `want_write`, `want_upgrade`, `waiting`, recursive holder and depth | read, write, done, upgrade, downgrade, the try forms, recursion | two upgrades at once, a release that must wake sleepers with different conditions, starvation, nested holds released without saying which | exclusion, no lost wakeup, nothing leaked, writers get in |
| Message queues and port sets, `ipc/ipc_mqueue.c`, `ipc_pset.c` | per port: count, limit, sequence number, blocked senders; per queue: messages, waiting receivers; per thread: `ith_state` | send, receive, time out, interrupt, set limit, join and leave a set, destroy | a message handed to a receiver that is leaving; messages moved between queues under traffic; limits changing; receivers with small buffers | count exact, order kept, nobody waits for nothing, senders are released |
| Receive rights in transit, `ipc/ipc_port.c` | where each receive right is, its destination, backup, port locks | copyin, copyout, `ipc_port_check_circularity`, destroy | several port locks at once without an order between them; a circle of ports closed by two threads | no circle, no deadlock, no lock leaked, no wrong refusal |
| Thread waiting, halting and suspending, `kern/sched_prim.c`, `thread.c`, `ast.c`, `mach_clock.c`, `ipc_sched.c` | state bits, wait event and result, timer, suspend counts, `wake_active`, `AST_HALT`, run queue | wait, wake up, time out, switch, suspend, resume, read state, abort, terminate | wakeup between `assert_wait` and `thread_block`; halting a thread that halts; timers that fire while cancelled | no thread lost or queued twice, no panic, stopped means stopped, everyone who sleeps is woken |
| Capability spaces and rights, `ipc/ipc_right.c`, `ipc_entry.c`, `ipc_space.c`, `ipc_object.c`, `mach_port.c` | entries, user references, dead-name requests; per port: references, send and send-once counts, make-send count | allocate, copy, move, make, deallocate, destroy a right; request a notification | ports die under the names of others; counts kept far from the rights they count; two copyins that must look like one | counts and references exact, a task can account for its references, each notification once and true |
| Name tables, `ipc/ipc_table.c`, `ipc_hash.c`, `ipc_splay.c` | table, overflow tree, reverse hash | grow, look up, join, split | the table grows while the space is unlocked | every name finds its entry |
| Message conversion, `ipc/ipc_kmsg.c`, `mach_msg.c` | none of its own | copyin, copyout, the hand-optimised paths of `mach_msg_trap` | an error half way undoes what was copied in | rights neither lost nor duplicated |
| Msg-accepted requests and notifications, `ipc/ipc_marequest.c`, `ipc_notify.c` | hash of pending requests | create, cancel, destroy | a notification against the death of either side | sent at most once |
| Kernel objects and IPC glue, `kern/ipc_kobject.c`, `ipc_tt.c`, `ipc_host.c`, `ipc_mig.c` | ports of tasks and threads | convert, enable, disable | conversion against termination | no reference to a dead object |
| Tasks, exceptions, bootstrap, `kern/task.c`, `exception.c`, `bootstrap.c` | thread lists, suspend counts | create, terminate, suspend, raise | termination against thread creation, tasks that terminate each other | every thread is terminated, no deadlock |
| Processors and policy, `kern/processor.c`, `machine.c`, `priority.c`, `mach_factor.c`, `host.c` | run queues, processor sets | assign, start, shut down, age | a processor set destroyed under its threads | a thread is in one set |
| Zones, `kern/zalloc.c`, `kalloc.c` | free list, counts, limit | allocate, free, collect | expansion while unlocked; sleepers at the limit | the limit holds, sleepers are woken |
| Clocks and timers, `kern/timer.c`, `time_stamp.c` | split counters | tick, read, normalise | lock-free reads | a read is a value the timer had |
| VM objects, `vm/vm_object.c`, `memory_object.c`, `vm_external.c` | references, shadow and copy pointers, paging in progress, pager, cache | allocate, copy, terminate, collapse, bypass | termination and collapse against paging; pushing pages to a copy under faults | copies keep their contents, counts exact, no page lost |
| Address maps, `vm/vm_map.c`, `vm_kern.c`, `vm_user.c` | entry list, map lock, wiring | enter, clip, copy, wire | wiring drops the lock and faults | entries sorted and disjoint |
| Faults and pageout, `vm/vm_fault.c`, `vm_pageout.c`, `vm_resident.c` | page queues, busy and wanted bits, reserve | fault, grab, free, launder | busy pages, a fault that gives up in the middle, waits for memory | every busy page has an owner, every waiter is woken, the right page is mapped, the reserve is kept |
| NORMA, `norma/` | per remote node: window, queued messages, control slot, timer; incomplete messages; proxies | send, acknowledge, ask again, stop and restart for want of pages, reassemble | lost frames, acknowledgements that cross, a receiver out of pages | window agrees, delivered whole, once and in order |
| Devices, `device/` | open counts, completion queue | open, read, write, complete | completion against close | one completion |
| Machine-dependent code, SCSI, chips, debugger, boot loader, default pager, UX server, name and network servers, userland | | | | outside the kernel's portable logic |

`PROJECT.json` lists the same components with their files, and for each hazard the line where it
bites and the properties that look for it.

## Plan

Order of work, the parts others rest on first. The first seven are done.

1. `RWLock`, with `AbstractRWLock` as what it promises.
2. `MessageQueue`: ports, sets, blocked senders and receivers.
3. `PortTransit`: receive rights in messages, lock by lock.
4. `ThreadState`: the wait, stop and halt protocol.
5. `NetIPC`: the node-to-node protocol, with lost frames and a receiver without pages.
6. `VmObject`: copy-on-write objects under faults, collapse, pageout and removal.
7. `Rights`: user references, send and send-once counts, dead-name and no-senders notifications.
8. `Zone`, `Timer`, `TaskTerminate`: small modules for `zalloc.c`, `timer.c` and `task.c`.
9. A composition of `MessageQueue` with the wait protocol of `ThreadState` (`thread_go` and
   `thread_will_wait` are the interface), and self-termination with the reaper.

Theorems to come: the counts of `Rights`, and `NoRepeat` of `NetIPC`. Liveness to come: that halts of threads by each other end (the hazard at `thread.c:1260`).

## The modules

In every module an action is what one thread does under one hold of a lock, named after the routine
when the routine has only one. Definitions keep the source's names; `PROJECT.json` maps each to its
lines. A definition `X_Something` just before `X` is a wrong version of it, used to
confirm that a property can fail; nothing else refers to it.

**RWLock** (`kern/lock.c`). The variables are the fields of `struct lock`, plus `pc` (the waiting
loop a thread is in), `asleep`, and two that the code does not have: `held` and `nest`, what callers
believe they hold. Every routine works under the interlock. `Wait(t)` is one turn of a waiting loop
with the interlock, `Call(t)` a call by a thread that is in none. Spinning changes nothing and is not
a step. `read_count` is `CountMod` values wide (2^16). `UpdateNested` and `UpgradedRecurses` say
whether callers make two uses that the kernel never makes and on which the code breaks (see below).
**AbstractRWLock** is the promise: modes none, read and write, with upgrade and downgrade in place.

**MessageQueue** (`ipc/ipc_mqueue.c`, `ipc/ipc_pset.c`, parts of `ipc/ipc_port.c`). A port has its own
queue and while in a set uses the set's. `ipc_mqueue_send` and `ipc_mqueue_receive` are split where
the locks are dropped: `SendWoken` and `RcvWoken` are the code after `thread_block`, `SendGo` the
`thread_go` made after the unlock, `RcvFinish` the part of a receive that wakes a sender.
`SendOwnRight` is a message that carries its destination's own receive right, the one case in which a
send changes the port. The wait of a thread is `wait[t]`: none, waiting, or the result that ended it;
the clock or an abort may end it whenever it is waiting. A message is its port, its size and the
sequence number it is due to be received with.

**PortTransit** (`ipc/ipc_port.c`). `ipc_port_check_circularity` lock by lock: the quick check of two
ports, `ipc_port_multiple_lock`, the walk down the chain, the linking, and the two unlocking loops.
Other routines hold one port lock and are one action each: `Copyin`, `Copyout`, `ipc_port_destroy`,
and the setting of a backup. The union in the port is modelled as one field, as in the code:
`dest` holds a destination, or `Other` when the field means something else.

**ThreadState** (`kern/sched_prim.c`, `thread.c`, `ast.c`, `mach_clock.c`, `thread_swap.c`,
`ipc_sched.c`). `state[t]` is the set of the thread's `TH_` bits. `place[t]` is where the thread is:
on a processor, on a run queue, taken from it and not yet switched to, nowhere, or, if something goes
wrong, in two places. `EndWait` is the switch shared by `clear_wait`, `thread_wakeup_prim` and
`thread_go`. `thread_dispatch` has the three groups of cases of the code and its panic. `thread_dowait`
and `thread_halt` are split where they sleep. `swap_func` is abstracted to the three kinds of
continuation that `thread_halt` tells apart. An event is a member of `Events` or a thread `x`, which
stands for `&x->wake_active`. On a uniprocessor only the thread on the processor takes steps, until
it blocks; wakeups and timers, which are interrupts, come at any time.

**NetIPC** (`norma/ipc_net.c`, `ipc_input.c`, `ipc_ether.c`). Every entry point of `ipc_net.c` runs with
interrupts blocked, so each is an action: a send, the interrupt that a frame has gone out, a frame that
has come in, the clock, a page that has become free. `node[n]` is the record of the C variables of one
node; the routines are operators from one record to the next and put at most one frame in its field
`out`. The loops over lists of nodes are recursive functions (`SendCtls`, and `Sublist` of **Lists**). `wire` holds the frames between two nodes in order, and `Lose` drops one. A message has a shape:
for each of its out-of-line pages, whether it is the last of its copy object. `norma_kmsg_incomplete`
and the list of complete messages are `incomplete` and `complete`; `complete` is never emptied, so it is
also the history of what was delivered. A message for a node in `Gone` may find that its port has died or moved
away: `norma_deliver_kmsg` throws it away then, after `_netipc_recv_intr` has acknowledged it. `refused` counts
the data frames thrown away, for that reason or for want of a page. The acknowledgement delay is 0, as in the
source.

**VmObject** (`vm/vm_object.c`, `vm_fault.c`, `vm_pageout.c`, parts of `vm_map.c` and `memory_object.c`).
Each map has one entry over all of `Page`, and one thread that takes faults; its `pc` says where in
`vm_fault_page` or `vm_fault` it has dropped its locks, and `"search"` that it holds the lock of the
object it has come to. A step goes from taking a lock to dropping it or moving it down the chain of
shadows. `Collapse` is the loop of `vm_object_collapse`, its two ways of getting rid of a backing object
in one turn. `File` is a memory object with the copy-delayed strategy, whose copies get a copy object
that changed pages are pushed to; the rest are temporary and copied by sharing. A page's `pmap` says
which maps have it mapped and how. `memory` and `file` are histories: what each map should contain. The
pager of an object keeps what was paged out to it and answers a request at any time. Where the code
leaves a window in which a copy goes wrong, a step that would fall into it has the guard
`w \in Windows`: with `Windows = {}` the windows are closed, and what remains is checked; each window
alone violates `ContentsKept` (see below).

**Rights** (`ipc/ipc_right.c`, parts of `ipc_object.c`, `ipc_port.c`, `ipc_notify.c`, `mach_port.c`,
`ipc_kmsg.c` and `ipc_space.c`). `entry[s][n]` is a name's entry: its type, its user references, its port
and the index of its dead-name request. `port[p]` has the counts the code keeps (`refs`, `srights`,
`sorights`, `mscount`), the registered requests, and as history how many rights the kernel itself holds
(`nsend`, `nonce`, `nrecv`) and how many notifications are queued. An operation runs under the lock of
its space and is one step: an operator such as `MoveSends` takes the ports and the entry to what they
are afterwards, and `Commit` installs them and frees ports without references. A dead port stays in the
entries until somebody looks (`ipc_right_check` is `Checked`). `ipc_kmsg_copyin_header` takes two steps,
`HeaderDest` and then `HeaderKeep` or `HeaderUndo`: its space stays locked, and ports die in between at
the hands of others. What becomes of the reply right is decided when it is copied in, because a
destination that dies afterwards did not die first. A sender with the receive right that its port-deleted
notification would go to gets no notification (`MACH_SEND_CANCEL`). `known` counts the references a task has been given
or told of; `seen` which ports of the header have been alive together. As in `VmObject`, `Windows` holds
the cases in which the code goes wrong.

## The runs

`MC*.tla` add the symmetry of interchangeable threads, ports and sets, which is not used with liveness.
A run fits in a few minutes.

| Run | Instance | Shows |
|---|---|---|
| RWLock | 3 threads, 3 nested holds; fair | `Exclusion`; `SleepersHaveCause`, no sleeper waits for a condition that already holds; `CountsAgree`, the bits and counts are the holds of the callers; the refinement `ImplementsAbstractLock`; `WriterGetsIn`, `UpgradeGranted` |
| MessageQueue | `NCPUS > 1`, 1 port, 3 threads in both roles, limits 0, 1 and 2, every kind of wait | `MsgcountExact`, `NoSenderStranded` |
| PortSets | `NCPUS > 1`, 2 ports, 2 sets, a sender and a receiver | `FifoOrder`, `QueuesConsistent`: order and queues survive messages moving between queues, and sets dying with members |
| MessageQueueLive | one processor, 2 senders, 2 receivers, 2 sizes; fair | `NoStrangeWakeup`, the assertion after `thread_block`; `NoOrphanWaiter`, when a message passes over receivers whose buffers are too small; `SenderReleased` |
| PortTransit | 3 threads, 3 ports | `NoCircle`, `NoDeadlock`, `NoLockLeaked`, `AssertionsHold`, `RefusedForCause` |
| ThreadUP | one processor, 2 threads, every call | `NoThreadLost`, `WaitersWait`, `NoPanic`, `NoStaleTimeout` |
| ThreadHalted | one processor, 3 threads that wait, abort and terminate | `HaltHolds`, when threads halt each other in a circle, or two halt one |
| ThreadMP | several processors, 3 threads that wait, suspend and read state | `StoppedWhileRead`, `StopNoticed` |
| NetIPC | 2 nodes, 3 messages, one with a page; a frame lost, a frame discarded, for want of a page or because its port is gone | `WindowAgrees`, `NothingLost`, `NoRepeat`, `NoPanic` |
| NetIPCLost | the same, but every port is there | violation of `RefusedNotLost` |
| VmObject | 2 maps, 2 pages, a file and 3 other objects; 6 calls, a write, an eviction, a fault given up | `ContentsKept`; `WriterAlone`, who may write a page shares it with nobody, and a copy of the file has what the page was; `CountsExact`, `NoPanic`, `BusyOwned` |
| Rights | 2 names, for 2 ports in one task or for one port in 2 tasks; a make-send, a send right and a send-once right in the kernel at a time | `RightsExact`, `ReferencesExact`, `SlotsMatch`, `UrefsHonest`, `NoSendersTold`, `HeaderAtomic` |

**Bounds.** Three threads are enough for a thread acted on by two others at once, and for a holder, a
waiter and one that overtakes. Two nested holds already separate the orders of release; three let a
read lie between writes. A queue limit of 2 with three threads has a full queue, a half full one and
blocked senders; 0 is the limit that blocks every send. Sequence numbers wrap at 3, beyond the longest
queue. Two ports in one set are needed for messages that overtake each other's, and a second set for
moving between sets. Three ports allow a circle that no two of the threads involved can see. One
event is enough in `ThreadState`: what a wakeup does to sleepers on other events is nothing. Counters
that users can drive without limit are bounded by `MaxNest`, `MaxCount` and `MaxStops`.

The window of `NetIPC` is one packet, so two messages in one direction, one of them queued behind the
other, and one with a page in the other direction have every relation a packet can have to its
neighbours; the clock is slower than a frame (`MaxWire`). A second lost frame repeats what the first
does to the same packet. In `VmObject` two pages are needed because an object is collapsed, copied or
given a pager for one page while a fault is at the other. Six calls make a copy of a copy, or two copies
of a file with a write between them, and their removal; objects are reused.

`ContentsKept` with `Windows = {}` is about everything but the five windows, each of which is named at
its guard in the module. Opening one at a time shows that it is needed: with two maps TLC finds a counterexample
for each. With the windows closed, instances larger than the run's show none to any of its properties: three maps
and one page with 8 calls, with 7 calls and an eviction or a fault given up, or with 6 calls and two evictions;
three maps and two pages with 6 calls, an eviction and a fault given up; two maps and two pages with 5 calls, two
evictions and a fault given up; two maps and one page with 7 calls and two evictions. The run keeps to two maps
because it fits in a few minutes.

In `Rights` one send-once right can be registered with either port, for any of the four requests, while
the other names come and go; two names are what a header needs, and two tasks with a name each what it
takes for a right to be known to one and used by the other. Reference counts stop at 2 user references
of a live right and 3 of a dead name (`UrefsMax = 3`), so the pegged case of copyout happens.

**Fairness.** `RWLock!FairSpec`: a thread in a waiting loop looks again once it is awake (the loop
does nothing else), and critical sections end, nested holds and recursion included; without that no
lock is live. `MessageQueue!FairSpec`: threads inside the kernel go on (weak), receivers keep
receiving (strong, since other steps may disable a receive again and again), and a receive
right in a message arrives or is destroyed (strong); without a receiver, a full queue stays full.
The runs of `ThreadState`, `NetIPC`,
`VmObject` and `Rights` are about safety only.

**Deadlock** is checked except in `ThreadState`, where all threads may be suspended with nobody left to
resume them, which the kernel allows; in `PortTransit`, which comes to rest when every port is destroyed, and
where `NoDeadlock` says that no circle of threads waits for each other's locks; and in `NetIPC`, `VmObject` and
`Rights`, which come to rest when what their bounds allow is used up (in `Rights`, a header whose reply right has
no room within the bounds).

## What is proved

`RWLockSafety`: `TypeCorrect`, for any finite set of threads, any depth of recursion and any width of
`read_count` that can count them. The type invariant is inductive as it stands; it includes that
`recursion_depth` never falls below zero. Then, on top of it, every safety property of `RWLock` and its refinement, for any
`MaxNest`, and any `CountMod` above the number of threads plus `MaxNest`. The theorems are
`MutualExclusion`, `NothingLeaks`, `NoLostWakeup`, `LockRefines` and `RecursionNeverPanics`. All of
them assume of the callers that no recursive read is improved to a write (`UpdateNested = FALSE`);
without that `CountsAgree` is false. `RecursionNeverPanics` also assumes that `lock_set_recursive`
follows no upgrade. The invariant is

    LockInv == TypeOK /\ LoopsOK /\ ClaimsOK /\ RecursionOK /\ CountOK /\ Exclusion

- `LoopsOK`: a thread in a waiting loop holds nothing, or, in the upgrade loops, its read hold;
- `ClaimsOK`: `want_write` and `want_upgrade` each stand for the claim of exactly one thread. This is
  why a release that clears a bit clears the bit of its own caller;
- `RecursionOK`: the recursive holder has the lock and is in no loop, and `recursion_depth` is at least
  the number of its nested writes. It may be more: `lock_done` takes a read back first, so giving back
  a write can lower `read_count` instead. It is never less, which keeps `lock_write_to_read` of a nested
  write from clearing the outer hold's bit;
- `CountOK`: the two counts together are the read holds and the nested holds, and `read_count` alone
  covers the read holds, so an upgrader or writer that sees zero really is alone.

`SleepersHaveCause` is inductive on top of `LockInv`: the one step that changes what a sleeper waits for
without waking anybody is an upgrade, and it sets the bit the sleeping writers wait for. In the
refinement `Exclusion` after the step is the guard of the abstract action.

`PortTransitProofs`: every safety property of `PortTransit` for any sets of threads and ports, from
the assumption only that the special values differ from ports and threads. The theorems are
`TypeCorrect`, `Acyclic`, `DeadlockFree`, `LocksReturned`, `AssertionsTrue` and `RefusalsJustified`.
None of these properties is inductive. The invariant is

    IInv == TypeOK /\ OwnerOK /\ MultipleOK /\ ChainsOK /\ NoCircle

- `OwnerOK`: a port is the subject of at most one check, and while it is, its right is in no queue;
- `MultipleOK`: whoever is past the quick check holds `ipc_port_multiple_lock`, and nobody else does;
- `ChainsOK`: at each label, exactly which port locks a thread holds: the ports from the cursor it
  started at to the one it has got to, each linked to the next, with nothing between. This is what
  makes the unlocking loops, which follow links, release exactly what was taken;
- `NoCircle` itself: a set of ports each in transit to another of the set does not exist.

`NoCircle` is stated over sets (every non-empty set of ports has a member whose destination is not in
it), so no induction over paths is needed. The step that matters is `Link`, which sets a destination:
a circle would have to pass through the new link, follow the chain whose locks the thread holds up to
its end, and that end is known not to be the port. `DeadlockFree` follows from `MultipleOK` and
`ChainsOK`: only the holder of the multiple lock waits for a port lock with others in hand, and a
quick checker never waits with one in hand.

`ThreadStateProofs`: every safety property of `ThreadState` that the runs check, for any finite set of
threads, any events and any `MaxStops`. The theorems are `Invariance`, `Typing`, `NoneLost`,
`WaitersDoWait`, `PanicFree`, `ReadWhileStopped`, `HaltedStaysHalted`, `TimeoutsNotStale` and
`StopsNoticed`. None of the properties is inductive. The invariant is

    Inv == Sound(Now) /\ OtherTypes /\ OneCpu /\ panicked = FALSE
           /\ for every thread: CallAt, CpuAt, CountAt, HaltAt, StopAt

- `Sound`: the state bits of a thread say where it is, what it is queued on and whether its timer is
  set. This is what `NoThreadLost` and `WaitersWait` are read off. Each routine of `sched_prim.c` keeps
  it under conditions of its own (the lemmas about `EndWait`, `thread_dispatch`, `Unsuspend` and so on),
  which the other parts have to supply;
- `CallAt` and `CpuAt`: a thread that is not on a processor is where `thread_block` left it, and one that
  is on a processor waits only where it has asserted a wait. So a call never finds its own caller stopped
  half way, and `assert_wait` never finds a wait already asserted;
- `CountAt`: `suspend_count` is at least the number of threads that hold the target by a call in
  progress, plus one if the user has stopped it. It may be more, because a terminated thread stays held.
  Hence a release that lets the target run again was the last: nobody is left who relies on it;
- `HaltAt`: while `AST_HALT` is set somebody is in `thread_halt` with a hold on the thread, so that
  `thread_halt_self` sets `TH_HALTED` only together with `TH_SUSP`, which is what `thread_dispatch`
  panics without;
- `StopAt`: what `thread_dowait` and `thread_halt` have achieved lasts until their caller's release.

`FiredOK`, inductive on top of `Inv` on a uniprocessor, says that a timer which `softclock` has taken off
its queue is that of the present wait: no thread runs between the interrupt and its `thread_timeout`.
`SleepOK`, for `StopsNoticed`, says that whoever sleeps until a thread stops will be told: the target is
marked `wake_active`, is suspended, and still runs or sleeps uninterruptibly.

The hypotheses are these, and each is one of the disagreements below: the code really fails without it.
`CallsOK`, for all but the last two theorems, says that with `NCPUS > 1` nobody is aborted or terminated;
one processor is unrestricted. `TimeoutsNotStale` is about one processor. `NoReleases`, for
`StopsNoticed`, says that nobody is resumed, aborted or terminated. The configurations of the three runs
satisfy them.

`NetIPCProofs`: `WindowCorrect` (`WindowAgrees`) and `TypeCorrect`, for any number of nodes and
messages, any shapes, losses and refusals, from `BoundsAssumption` only. `WindowAgrees` compares numbers
of two nodes, and what a node does to its own depends on what the frames under way and the control slots
say, so the invariant is about these:

    Inv == TypeOK /\ Fits(node, wire)

- `SendOK`: the window of one packet, the place of its packet in the message at the head of the queue, and
  that the queue is the end of the history `log`;
- `FrameOK`, of every frame on a wire: a data frame was sent, and if its number belongs to the message at
  the head it has that message's name, shape and part; an acknowledgement is about what its sender has
  received, a request to send again about what its receiver has sent;
- `CtlOK`, the same for a frame that waits in the slot `ctl`, where one overwrites another;
- `WindowAgrees` between each two nodes.

Each routine is shown to keep its own node's part (`Good`) and to be a `Step`: it never goes back, leaves
the message under way as it is, and lets go of the message at the head only when the other side has
seen its last packet. `StepFits` puts the nodes together: whatever one routine did, the frames of all
still fit.

In the same module, `NothingIsLost` (`NothingLost`). Its hypothesis `OneObject` is that a message has one
copy object at most; with two the code hands it up early (below). The condition `refused = 0` is the
property's own. On top of `Inv` the invariant is `AllArrives`: what was let go of was handed up, and what the
receiver has seen of the message at the head it has: `Assembling`, exactly the pages up to that packet
in the latest incomplete message from that node, or, after the last, `Delivered`. A packet that comes again
puts its page where it is already. Assemblies from different nodes share one list, and `LatestPushed`,
`LatestChanged` and `LatestRemoved` are why they do not disturb each other.

There too, `NeverPanics` (`NoPanic`), under the same hypothesis; the condition
`lost = 0 /\ refused = 0` is the property's own. A request to send again is fatal when the packet is not of the
message at the head (`netipc_retry`), and a page when nothing is being put together (`norma_deliver_page`), so
the theorem says that nobody asks again and nothing comes twice. `AllCalm` is the invariant for it, on
top of the other two. `Flows`, of the wire between two nodes, compares what the one has sent with what the other has seen: if they
differ, the one packet between them is on its way, once; a question about a packet comes before that packet
if it is the last one seen, and behind it if it is the next, so every question finds its packet arrived. `Calm`, of one
node, is that nobody waits for its pages, and that what waits in a control slot is no request, waits for the
frame that is being sent, and asks about the packet sent last. The second part
matters when the next packet goes out: no slot is in use then, so no older question is left.

`MessageQueueProofs`: `QueuesCorrect` (`QueuesConsistent`), `NoOrphan` (`NoOrphanWaiter`) and `NoStrange`
(`NoStrangeWakeup`), for any sets of threads, ports and port sets, whether a thread has one role or both, any
sizes, limits and width of the sequence numbers. `NoStrange` is about a uniprocessor, as the configuration of
its run is; on a multiprocessor it is false (below). The properties relate a thread's fields to queues that
other threads change, so the invariant, `Inv`, is about both:

- `Receiving` and `Sending`: `imq_threads` of a queue, and `ip_blocked` of a port, hold exactly the threads
  that wait there with `ith_state` still in progress, each once;
- `Consistent`: receivers wait in an empty queue only, and only in a live set or at a port whose right is
  in a space. The property says no more than that the queue is alive, which is not inductive: the destruction
  of a right in transit tells no receivers;
- `Apart` and `Own`: a port's own queue holds messages for it alone, and is unused while it is in a set.
  This is why `ipc_mqueue_move` into a set, which takes the port's messages, leaves the old queue empty;
- `Rights`: a port in a set has its right in a space, a dead port blocks nobody, and a message with its own
  destination's right has it to itself;
- `Started`, and `Alone` on a uniprocessor: a thread that waits though it has been told is about to be
  started, by a sender that nobody can overtake there.

The first four are stated of a record of the fields (`Good`), so that what lies between two routines of one
lock hold is a state too: `OfferGood`, `MoveGood`, `ChangedGood`, `AddGood`, `RemoveGood`, `RenumberGood` and
`ClearGood` show that the routines keep it and what they tell receivers (`Told`). `ThreadsStep` shows what a
step may do to threads that do not take it. `ipc_pset_add` passes through a state in which `Apart` does
not hold of the port; its last argument says so.

`MessageQueueAccounts`: `TypesCorrect`, `CountsCorrect` (`MsgcountExact`) and `OrderCorrect` (`FifoOrder`), for
the same instances on one processor or several, from the assumptions on the constants only; `Accounted` is
the invariant they follow from, `Inv /\ Counts`. The two properties are not inductive one by one: the order
of what is queued is kept through a renumbering and a move only because all of a port's messages are in one
queue, which is part of `MsgcountExact`. `Account` therefore states both of one port:

    Account(s, PC, CL, c, p, rest) ==   \* l is what is queued for p where it belongs, Hand who takes
        c = Len(l) + Len(rest) + Cardinality(Hand)
        nothing for p is in any other queue
        l is due seqno, seqno + 1, ...   and   rest is due what comes after l

`rest` is what `ipc_mqueue_move` has taken off the old queue and not yet offered to the new one: it is empty
between steps, and inside one each message goes from the front of `rest` to the end of `l` or to a receiver
(`MoveAccounts`, by induction over the list of them). The steps come down to a few kinds: a message is accepted
(`AcceptAccounts`), taken (`Takes`), counted down, renumbered (`RenumberAccounts`), moved, or dropped with its
port; any other leaves queues and takers alone (`Unmoved`). A receiver counts down the message it has taken in a
later step, when the port may have died; `Hand` holds it until then. `Account` is about live ports only, and
`NotNegative`, that no count is negative, about all.

`AllSeen`, in the same module, says of every port without a backup what `NoSenderStranded` says of all, and
`NoneStranded` is the property itself where no port has one, as in the run; with a backup it is false (below).
The invariant is `Full`, on top of the other two: while senders wait on a port, its messages and the senders that
look for room there (`Looking`) are together no fewer than its limit, or a circular message is about to rouse
everybody (`Crowded`). A step that counts a message down rouses a sender for it, unless the queue is
over its limit still, and a sender that looks either leaves a message in its place, finds no room because the queue is full, or takes all with it
(`SenderFull`). `RousesFull` is about the steps that rouse: a receive one sender, a raised limit as many as
the limit grew. `Counted` is needed, because room is what `ip_msgcount` says there is.

`ListTheorems` has no results of its own about the kernel, only lemmas for the other modules: `Induction` over
the natural numbers and `Recursion`, that a recursive function over the
elements of a list exists. Both are stated for sets and functions, and follow from the well-foundedness of
finite sets, since the library's induction theorems have an operator as a parameter. With them
`SublistMembers` and `SublistOnce`, about taking members out of a list, `ListInduction`, `SublistAppend`,
`SublistTwice`, `SublistTail` and `SublistMapped`, about what is left and in which order, and, in the modules that need
them, `SendCtlsOK`, about the two loops of `netipc_timeout` and `netipc_self_unstop`, and `OfferAllEnds`, about the loop of `ipc_mqueue_move`.

`VmObjectProofs`: `CountsHold` (`CountsExact`), `PagesOwned` (`BusyOwned`), `AssertionsHold` (`NoPanic`)
and `TypesHold`, for any finite sets of maps and objects, any pages and values, any bounds on the
operations, and with every window open: what the windows damage is the contents of pages, not the
accounts. The assumptions on the constants are that `Map` and `Object` are finite, which the counts
need, and that `None` is not a page, an entry or an object. No property is inductive, for each step that
gives something back relies on how it was taken. The invariant is

    Inv == TypePart /\ LinkPart /\ PagingPart /\ RankPart /\ PagesPart /\ AbsentPart

- `TypePart`: types with the counts merely integers, and what a fault holds at each point of its course;
- `LinkPart`: `ref_count` is the number of entries, shadow links, faults and drops; what is dying or
  free has no reference; only the file has a copy object, which is alive and shadows it, and no other
  living object does. The last is what `vm_object_copy_delayed` and `vm_object_terminate` assert;
- `PagingPart`: `paging_in_progress` is the number of uses by faults and the daemon;
- `RankPart`: the chains of shadows end, and a fault below its first object is further down the chain.
  It says that there is a function to the numbers which falls along every link, so that no step has to
  follow a chain: a new shadow gets a higher number, a new copy of the file one in between
  (`BetweenRanks`);
- `PagesPart`: a page that is busy and not absent has exactly one owner, a fault or the daemon, and who
  waits for a page waits for a busy one;
- `AbsentPart`: only an object with a pager has an absent page. That is the reason the comment before
  `panic("vm_object_collapse: bad case")` (`vm_object.c:2685`) gives for the panic. It stands: only
  `AskPager` makes such a page, in an object with a pager, and `Collapse`, which moves pages between
  objects, moves the pager with them.

Besides, `EntryPart` says that an entry of the file never needs a copy, so no fault shadows it. `Tally`
counts the places where a function has a value, and `TallyMove` what one change of the function does to
it; with them a count is a sum of tallies, and a step has to balance them object by object (`TurnStep`
for a fault, `EnvStep` and `MapStep` for the others, `DaemonStep`). `Collapse` is a loop: `Sound` is
what one turn needs and keeps of the chain from its object (`UnlinkedSound`), `Shrunk` what it does to
the other objects, and `CollapseIn` carries both through the turns. That a backing object with one
reference and nothing paging in it has no busy page follows from `PagesPart`, since the owner of a busy
page uses its object.

`WriterAlone` and `ContentsKept`, about the contents of pages, are only model-checked. `MappedRight`, that a
user never reads a stale page, is in the module too, but no run lists it: what endangers it is the window
`overtake` with three maps or more, which two maps and a closed window do not reach. It holds in the larger
instances named under Bounds.

Only model-checked: `ContentsKept` and `WriterAlone` of `VmObject`, the properties of `Rights`;
`NoRepeat` of `NetIPC`, which needs to know, when frames are refused, that of a packet seen and the
requests for it there is one at a time; and liveness, which is outside what the installed provers do.
`TypeOK` of a module holds in the same instances; the runs leave it out where a theorem states it.
`HaltNoticed` fails with three threads (below), so no run lists it.

## Where code and comments disagree

One run ends in a counterexample on purpose.

- **NetIPCLost.** `ipc_net.c:786` says of a request for a packet that comes while something else is being
  sent: "XXX unfortunate but not fatal". The request is ignored. The receiver has discarded the packet
  for want of a page, has asked once, and has moved its sequence number past the packet; when the
  sender's clock asks, it acknowledges. The message is freed without having been delivered.

Others were met while modelling. Each is a change of constants away from a run above.

In `lock.c`, `ipc_mqueue.c` and the scheduler:

- `ipc_mqueue.c:320-324`: "Don't block if: 1) We're under the queue limit." A sender that is woken because
  there is room, and finds its message circular, destroys it without using the room or passing the
  wakeup on. As a rule the destination dies with the message, which rouses everybody; a port with a
  port-destroyed request survives, and the senders behind stay blocked: `MessageQueue` with
  `Backups = {p1}` violates `NoSenderStranded`.
- `thread.c:1515-1517`: "indicate that we are waiting for it to stop so that it can wake us up when it
  does stop." A suspender sleeps because its target cannot stop at once. A third thread resumes the
  target, which goes to sleep interruptibly, and suspends it again: it is now stopped as it stands,
  without passing through `thread_dispatch`, and the first suspender sleeps on. `ThreadState` with
  `Ops = {"wait", "suspend", "resume"}`, 3 threads and one processor violates `StopNoticed`.
- `thread.c:1294`: "If someone else is halting it, wait for that to complete." A halter that finds its
  target at a clean continuation marks it halted itself (`thread.c:1373-1380`) and wakes nobody. A
  second halter sleeps on with a suspend count on the target. `Ops = {"wait", "abort"}` with 3 threads
  violates `HaltNoticed`.
- `lock.c:620-623` allows a recursive holder to take the lock "for read, write, or update". After a
  nested read and write, `lock_done` takes back the read first; upgrading the read then decrements
  `read_count` below zero. `RWLock` with `UpdateNested = TRUE` violates `CountsAgree`.
- `lock_set_recursive` tests `want_write` only, and panics for a holder whose write access came from
  an upgrade. `RWLock` with `UpgradedRecurses = TRUE` violates `NoPanic`. No caller in the kernel does
  either.
- With `NCPUS > 1` the `thread_go` that `ipc_mqueue_send` makes after unlocking can reach a receiver
  that has left and waits again; the switch after `thread_block` then meets `THREAD_AWAKENED` with the
  operation in progress and runs into its assertion (`ipc_mqueue.c:754`). `MessageQueue` with
  `NoStrangeWakeup` shows it.
- `mach_clock.c:330-332` says that timeout functions "check timer_set/depress_priority to see if the
  timer has been cancelled and if so do nothing". `thread_timeout` checks nothing. With `NCPUS > 1` and
  `Ops = {"wait", "timeout"}`, `ThreadState` violates `NoStaleTimeout`; the comment itself goes on
  "This still isn't correct", for another reason.
- With `NCPUS > 1`, `ast_taken` reads `thread_should_halt` without the lock. If the halt is given up
  then, `thread_halt_self` sets `TH_HALTED` with no release to follow, and `thread_dispatch` panics
  (`Ops = {"wait", "abort", "terminate"}`, `NoPanic`). A thread in that state is also what
  `NoThreadLost` would trip over.
- With `NCPUS > 1`, `thread_halt` makes a held thread run (`thread.c:1383-1411`, "Override the suspend
  count") while somebody else who holds it reads its registers (`Ops = {"wait", "abort",
  "get_state"}`, 3 threads, `StoppedWhileRead`).

The last two are why `ThreadMP` has no halts, and the disagreement at `thread.c:1515` why it has no resume.

In `norma/`:

- `ipc_net.c:1196-1200` says that `netipc_send_intr` sends what there is, "otherwise, set netipc_sending
  FALSE". When a message has been waiting, it calls `netipc_send_any`, which finds `netipc_sending`
  still set, queues the node again and returns. Nothing is being sent then, and nothing will be: every
  sender finds `netipc_sending` set. `SendingMeansBusy` shows it.
- The test that refuses a packet received already depends on `MACH_ETHER` (`ipc_net.c:1348`), which
  nothing defines. After a lost acknowledgement a message is delivered twice, and the second copy of a
  last page meets the assertion of `norma_deliver_page`. `NoRepeat` and `NoPanic` say `lost = 0`.
- Messages can be handed up in another order than they were sent. When two frames are refused, the header
  of a message can be acknowledged though it was discarded (as in NetIPCLost), and so can a page: what is
  left in `norma_kmsg_incomplete` then takes a page of a later message (`norma_deliver_page` looks at the
  node only, `ipc_input.c:411-498`). So the order in `NoRepeat` is for `refused = 0`; with
  `MaxRefused = 2` and three messages, two of them with a page, TLC finds the second handed up first.
- `netipc_self_unstop` takes nodes off its list while their number is `> 0` (`ipc_net.c:1304`), and so
  never serves node 0 or the nodes behind it.
- `norma_deliver_kmsg` prints "null remote port" or "proxy remote port" and drops the message
  (`ipc_input.c:333-346`), which has been acknowledged by then: the sender frees it and is never told. The pages
  that follow find no message and meet `assert(kmsg)` (`ipc_input.c:431`), with no frame lost. So `NothingLost`
  and `NoPanic` say `refused = 0`.
- A message with two out-of-line objects is handed up when the last page of the first has come
  (`ipc_input.c:466`). `NothingLost` fails with `<<TRUE, TRUE>>` among `Shapes`.

In `ipc_right.c`:

- `ipc_right.c:1112-1118`: releasing the receive right of a name that also holds send rights makes these
  a dead name and leaves `ip_srights` alone "because the port is destroyed 'first'". A port with a
  port-destroyed request is not destroyed but sent to its backup, with `ip_srights` too high for ever:
  its next receiver never hears that there are no senders. `Rights` with `Windows = {"backup"}` violates
  `RightsExact`.
- `ipc_kmsg.c:1242-1249` says of copyins that found the destination alive and the reply port dead, in the
  wrong order, "which shouldn't have happened", and that they are undone; two lines down, that both names
  "might still be the same" port. Then the two timestamps are equal, `IP_TIMESTAMP_ORDER`
  (`ipc_port.h:253`) is strict, and nothing is undone: the message goes out as if one port had been alive
  and dead at once, with a port-deleted notification for one name and a dead-name notification for the
  other. `Rights` with `Windows = {"same"}` and one port violates `HeaderAtomic`.

In `vm/`, the windows of `VmObject`:

- `overtake`, a push: `vm_fault.c:1149-1151`: "Because we're pushing a page upward in the object tree, we must
  restart any faults that are waiting here." A fault that came down from the copy, waited for the page,
  and has been woken but does not have the lock yet, is not restarted. It maps the page of the original
  for the copy, and then sees what is written to the original. `Windows = {"overtake"}`, one page and
  `MaxAbort = 0` show it.
- `overtake`, a zero-fill in the copy object: a memory manager that has no data for a page of the file leaves
  it to be zero-filled in the copy object that a reader has come down from (`vm_fault.c:548-602`), while another
  fault that came down from there has been woken at the file and has yet to look. The writer then finds a page
  in the copy object, neither pushes nor restarts anybody, and the other fault finds the page it changes. With three
  maps, and the window closed for pushes alone, `ContentsKept` and `MappedRight` fail.
- `overtake`, a zero-fill further up: a reader has passed an object that lacked the page and waits below for a
  fault that gives up (`vm_fault.c:724-730`); another fault passes it while it is woken, reaches the end of the
  chain and zero-fills the page in the object above, and a third one does in an object below. The reader finds
  the lower page and maps it, though its own chain has a higher one. When `vm_object_collapse` then brings the
  two together, `vm_page_free` throws away the lower page ("Parent object has a real page",
  `vm_object.c:2662`) without a `pmap_page_protect`: a freed page stays mapped. The behaviour has 92 steps from
  `Init`, with four maps and five objects besides the file, and ends with a flag `dangling` (`MappedRight`).
  The two pages are both zero, so nothing is misread until then.
- `reuse`: `vm_fault.c:1511-1517` takes write permission away "If the copy object changed while the
  top-level object was unlocked". The copy object can be freed and a new one be allocated at its address.
- `enter`: a copy made after that test and before `PMAP_ENTER`, when only the map is locked, does
  not see the writable mapping that is about to be made. Two maps are enough, for `vm_map_copyin` too unlocks
  its map (`vm_map.c:3577-3578`) before it copies the object, and locks it again only afterwards (3630).
- `pager`: `vm_object_pager_create` sets `pager_created` before there is a pager (`vm_object.c:2417`),
  and a page pushed to the copy object in between is not written anywhere.
- `clean`: a page that `vm_fault_page` copies up (`vm_fault.c:947`) is not marked dirty until it is
  written to, so the daemon may free it (`vm_pageout.c:934`) although the original has changed since. With the
  window closed the daemon frees clean pages of internal objects all the same, but only those that the object's
  pager has.

## What is not modelled

Within the modelled parts: simple locks are atomic sections; NORMA branches; allocation failures;
priorities, quanta, processor sets and processor binding; self-termination (`AST_TERMINATE`) and the
reaper; thread creation; the hand-off paths `thread_run` and `thread_handoff`, which are a
`thread_select` of a given thread; `thread_wakeup_one`. The wakeup that `thread_dispatch` and
`thread_dowait` make after their unlock is part of their step.

`NetIPC` leaves out the length and alignment of pages, how proxies come about and ports migrate (`Gone` stands
for the outcome), and what
`mach_msg_trap` does to take a message straight from the interrupt. `ipc_wait.c` says there that a
"Nonzero norma_ipc_handoff_msg keeps other senders away", which `norma_handoff_kmsg` does not test.

`VmObject` leaves out wiring, page locks and lock requests, manager errors, share maps, page lists,
persistent objects and their cache, offsets into shadows, `absent_count`, the failure of
`vm_object_cache_lock_try`, `vm_object_copy_call` and `copy_slowly`, and `memory_object_destroy`.

`Rights` leaves out port sets, msg-accepted requests, compat entries, renaming and the allocation of dead
names, the choice and the generation of names, allocation failures and the growth of tables, and headers
whose two names are the same, except for two moved send rights.

Whole components: see `PROJECT.json`. Zones, timers and task termination are planned. Device
drivers, `pmap` and trap handling are hardware-level; the debugger only reads; the UX server, network
servers, X11 and the userland are other programs.
