# Kyty: verification of the guest synchronisation objects and of the GPU's hand-over

Kyty runs PlayStation 4 and 5 programs on a PC. Guest threads are host threads, and
every call a guest makes to its operating system lands in C++ code that re-implements
the call ("HLE"). The core of that code, and the part where a mistake shows as a game
that hangs once a week, is the set of objects by which guest threads wait for each
other and for the emulated hardware, and the hand-over of work between guest threads,
the emulated GPU's workers and the presenter. This directory holds TLA+ models
of these parts, the TLC configurations that check them, and proofs of every safety
property they check.

Paths below are relative to `src/source/emulator/src/` unless they start with `src/`.

## 1. Inventory

| Component | Code | State | Operations | Hard behaviour |
|---|---|---|---|---|
| Event flags | Kernel/EventFlag.cpp | status, bit pattern, two hand-kept counters, a registry of handles | wait, poll, set, clear, cancel, delete | cancel and delete drain the waits inside; time-outs |
| Semaphores | Kernel/Semaphore.cpp | status, count, list of waiters, a counter | wait, poll, signal, cancel, delete | the same, but a delete may overtake a cancel |
| Address waits | Kernel/SyncOnAddress.cpp | per address: generation, waiter count | wait, wake, umtx operations | entry erased by the last waiter; signals sent after the lock is released |
| Mutexes | Kernel/PthreadMutex.cpp | host mutex, owner, depth, type | lock, trylock, timed lock, unlock | ownership written beside the host mutex and read without it |
| Conditions | Kernel/PthreadCond.cpp | shared state: lock, generation, waiter count | wait, timed wait, signal, broadcast, destroy | signal skips the lock; destroy under woken waiters |
| PthreadOnce | Kernel/PthreadCond.cpp | the guest's control word | once | first look without the mutex, polling |
| Context requests | Kernel/PthreadContext.cpp | open, pending and running bits, a retry timer | raise, deliver, close | a signal handler against the raiser and the end of the thread |
| Event queues | Kernel/EventQueue.cpp | list of events; pins, generation, closing per queue | add, trigger, delete, wait, close | lifetime against waits inside and against callbacks |
| Command processor, submissions | Graphics/GraphicsRun.cpp, Graphics/GpuSubmission*.cpp | batches, `m_idle`; slots, sequences, publication entries | submit, flush, pump, wait, drain | fences complete in any order, publication is in order; drain against submission |
| Deferred deletion | Graphics/GpuDeferredDeletionQueue.cpp | entries, completed sequences, one drainer | enqueue, complete, drain | a drainer that stops while another thread makes an object ready |
| Video-out gates | Graphics/VideoOut*Gate.cpp | counts of pins and flips, draining and quiescing flags | acquire, drain, quiesce, accept, complete | progress accesses during a drain |
| Video out | Graphics/VideoOut.cpp | opened, closing, session, buffers, flip queue, flip status | open, register, flip, present, close, unmap | flips from two sides; close and unmap against everything |
| Thread pool | Kernel/Pthread.cpp, Kernel/PthreadObjects.cpp | free, detached, almost done per thread | create, exit, join, detach, reap | who joins and who reuses a thread; the reaper joins under the pool's mutex |
| Thread keys | Kernel/PthreadKeys.cpp | used, destructor and values per key | create, delete, set, destructor passes | destructors are guest code: they set values again, delete keys, end the thread |
| Fibers | Kernel/Fiber.cpp, Kernel/FiberOwnership.h | state word, context and arguments per fiber; thread-locals | run, switch, return, finalize | a fiber moves between threads; its stack is released by the code that runs next |
| Host condition variable | src/source/lib/Core/src/Threads.cpp | a futex word, a count of waiters | wait, timed wait, signal, signal all | a signal that skips the system call when nobody waits |
| POSIX semaphores | Libs/PosixSemaphore.cpp | count, waiters, destroyed; table by guest address | init, wait, post, destroy | a block re-initialised under its waiters |
| Labels | Graphics/Objects/Label.cpp | status per label | create, set, delete, run callbacks | label thread against the deletion of a label |
| Everything else | loader, memory, files, shaders, rendering, audio, network, tools | see PROJECT.json | | mostly sequential, or host I/O |

How they interact. All objects use `Core::Mutex` and `Core::CondVar`
(`src/source/lib/Core/src/Threads.cpp`): a wait gives up the mutex and sleeps in one
step, may end without a signal, and a signal wakes one sleeper, any one. Every wait of a
guest goes through `PthreadInterruptibleWait`, at which a guest's collector may stop the
thread (PthreadContext); a stopped thread holds no host lock, and that is why a signaller
must never wait for a waiter. Event flags, semaphores, event queues and conditions do not
call each other: a guest combines them. A condition is used with a mutex, and takes its
parts (owner, depth, host mutex) without going through the mutex's API.

A guest's batch goes through the admission gate into a ring; the ring's worker decodes
it and the command processor submits command buffers to the host's queue. When their
fences have signalled, whoever comes by publishes them in order: labels fire, which may
queue a flip with VideoOut, and objects of the deletion queue die. VideoOut's presenter
takes the flips and triggers the flip events of event queues. Closing a port or
unmapping memory closes the admission gate, drains the GPU, drains and quiesces
VideoOut, and runs its action when nothing is under way any more.

What makes each component correct is what its section below says; for the
ones that are not modelled it is the hazard listed under its name in PROJECT.json.

## 2. Modules

| Module | Models | Instance for TLC |
|---|---|---|
| AtomicCondVar | a condition variable as the other modules take it | (refined) |
| CondVar, proofs in WaitProofs | `Core::CondVar` on Linux, Threads.cpp | MCWaits |
| AtomicEventFlag | what an event flag promises, every operation at one instant | (refined) |
| EventFlag, EventFlagProofs | EventFlag.cpp | MCEventFlag |
| Semaphore, SemaphoreProofs | Semaphore.cpp | MCSemaphore |
| SyncOnAddress, proofs in WaitProofs | SyncOnAddress.cpp | MCSyncOnAddress |
| PthreadMutex | PthreadMutex.cpp | (within the next) |
| PthreadCond, PthreadCondProofs; extends PthreadMutex | PthreadCond.cpp, with its mutex | MCPthreadCond |
| PthreadOnce | `PthreadOnce` in PthreadCond.cpp | (within PosixGuest) |
| PosixSemaphore | Libs/PosixSemaphore.cpp | (within the next) |
| PosixGuest, proofs in PthreadProofs; extends PosixSemaphore, uses PthreadOnce | guests that make their semaphore in a once routine | the module itself |
| PthreadContext | PthreadContext.cpp, one thread and its collectors | (within PthreadLife) |
| PthreadPool | PthreadObjects.cpp and the calls of Pthread.cpp on its slots | (within the next) |
| PthreadKeys | PthreadKeys.cpp, the values of one thread | (within the next) |
| PthreadLife, proofs in PthreadProofs; extends PthreadContext, uses PthreadPool and PthreadKeys | the order of a guest thread's life | the module itself |
| EventQueue, proofs in WaitProofs | EventQueue.cpp with the flip events of VideoOut.cpp | MCWaits |
| Fiber, FiberProofs | Fiber.cpp, FiberOwnership.h | the module itself |
| GpuSubmission, GraphicsProofs | one ring, its worker and command processor, the publication gate, the deletion queue and the admission gate | the module itself |
| VideoOut, VideoOutProofs | VideoOut.cpp with its four gates, the presenter's loop, and the GPU as a stream of flips | the module itself |

In all of them a thread has a program counter `pc`, and a step is what a thread does
between two points at which another thread can come in: a critical section, from the lock
of the mutex to the unlock or to the next sleep on the condition variable. A `pc` names
the place in the code where the thread will go on. A thread in `asleep` sleeps on the
condition variable; one that is woken leaves `asleep` and has to take the mutex again,
which is its next step. `SpuriousWake` and `Expire` end a sleep without a signal.
Operators whose comment says "Mutant" stand beside the variant a slip in that code would
give; PROJECT.json pairs each property with one that breaks it.

### Host condition variable (CondVar, AtomicCondVar)

A waiter counts itself in `waiters`, loads `sequence`, gives up the mutex and sleeps by
futex if the word has not moved; a signal moves the word and looks at the count before it
makes the system call. CondVar takes each of these accesses as a step (`WaitAdds` to
`WaitSubtracts`, `SignalAdvances`, `SignalLooks`, `FutexWake`). AtomicCondVar is what all
the other modules assume: a wait gives up the mutex and sleeps in one step, a signal wakes
one sleeper, any one, and a sleep may end by itself. `ImplementsAtomic` is that
refinement; `TokenIsTaken` is the liveness of a monitor built from it (nobody sleeps on for
ever beside a token). `LookIsSafe` (while
the count reads 0 nobody sleeps) is the argument, and proved. The word wraps modulo 2^32
(`Modulus`); that it does not come round a whole turn between a waiter's load and its
sleep is the restriction `NoWrap` of the module. Nothing says in which order sleepers are
woken.

### Event flag (EventFlag, AtomicEventFlag)

`status`, `waitingThreads`, `activeWaitCalls`, `bits` and `single` are the members of
`KernelEventFlagPrivate`; `registered` is the handle's entry in `g_live_event_flags`.
`Acquire` is the API function up to the call of the method: a handle that has been
removed returns ESRCH, and one that was found keeps the object alive. `WaitEnter`,
`WaitSettled` and `WaitCounted` are the method `Wait` cut at its two waits: the one
for a cancellation to end, with the time of the wait running, and the one for the
condition. `Settle` holds up Set, Clear, Cancel and Delete behind a cancellation.
`CancelDrain` and `DeleteDrain` are the loops that wait for the waiters to leave.
`reported` and `told` are history variables: what Cancel has told its callers, and how
many waits have returned ECANCELED.

Properties: no thread sleeps past the change it waits for (`SleepersHaveReason`: a
missing SignalAll anywhere leaves a sleeper without a reason); one cancellation drains
at a time and reports exactly the waits that fail (`CancelReportsExactly`); every drain
ends (`DrainsEnd`). `ImplementsAtomic` is refinement: AtomicEventFlag has no mutex, no
counter and no drain; its `doomed` waits are the counted waits while the status is
Canceled. That the counters are exact (`CountsAreExact`), a single-waiter flag has one waiter
(`SingleWaiter`) and a canceled wait cannot be satisfied by anything that comes after the
cancellation (`CanceledWaitsFail`) is proved for every instance and not run.

### Semaphore

As the event flag, with the differences of the code: the waiters are a list and the
count is taken by the waiter; only the last counted waiter that leaves during a
cancellation wakes the others ("waiters of an empty semaphore do not wake each other");
Delete does not wait for a cancellation to end, so the Cancel may find the semaphore
deleted under it, and must neither revive it nor report success
(`CancelReportsExactly`). `SafetyInv` joins the type invariant, the exact counters, the
count's range against `max_count`, the reasons of the sleepers and the emptiness of a
deleted object; `WaitersSettle` says that the threads inside come to rest when nothing
comes from outside.

Counts are ints of the width that `IntMax` gives, and sums and differences of them wrap
(`Wrap`). `Signal` tests `m_count + signal_count > m_max_count` (Kernel/Semaphore.cpp:257),
and `KernelSignalSema` does not look at its argument first: a signal near `INT_MAX` that
meets a count above zero wraps the sum, passes the test and leaves a negative count, and so
does a signal of a negative number. The range is therefore not claimed without a condition. `CountInRange`
says that the count is between 0 and `max_count` as long as no signal outside
`0 .. INT_MAX - max_count` (`Signable`) was accepted since the last Cancel, which sets the
count right; the history variable `overdrawn` remembers such a signal. Everything else in
`SafetyInv` and `CancelReportsExactly` holds with wrapped counts as well, but for one
conjunct: a wait may wrap a negative count to a large one, which meets the needs of others
without anybody waking them, so that a sleeper's reason speaks of the count only while
nothing is overdrawn. The waits test `m_count - need_count >= 0`; where that difference
overflows, `CountedLoop` takes both outcomes that a build may produce.

### Address waits (SyncOnAddress)

One address. `slot` is the registry's entry for it: states have identities because the
last waiter erases the entry and the next one makes a new state, while wakes may still
hold the old one. `WakeLookup` is the part of a wake under the mutexes (it moves the
generation), `WakeSignal` is one signal after they are released. `Store` is the guest
writing the word. `WaitersShareState` is the registry's invariant, the exact count
included; `WakeAfterStore` is what a lock built on the primitive needs (a store and then
a wake of all is never missed); `CoveredWaitersReturn` says that a wake of all reaches
everyone who had registered.

A comment in the code says more: "a wake releases at least one waiter". That rests on
the order in which the host wakes sleepers, which the models leave open. The signals are
sent after the state's mutex is released; with two waiters asleep, a third may register
with the new generation and fall asleep before the one signal of a wake with count 1, and
if the condition variable wakes that one, it finds nothing changed and sleeps on. A Linux
futex wakes in order of arrival among threads of equal priority. The claim is therefore
not checked. (A wake may also release more than its count: a waiter that has registered
and is not asleep yet leaves when the generation moves. Callers of futex-like primitives
have to look at their word again anyway.)

### Mutex and condition (PthreadMutex, PthreadCond)

`host` is the holder of the host mutex, `owner` and `recursionCount` are kept beside it.
Taking the host mutex and taking ownership are two steps, and so are dropping ownership
and unlocking, as in the code. `locked` is history: what the guest believes, from the
results of its calls. `OwnershipIsExact` says that the two agree for every thread
between its calls, also after a wait on a condition (so no two have the mutex, and the
depth comes back whole). Its conjunct `OneUnlockReleases` is the rule for adaptive and
error-checking mutexes that the comment in `PthreadMutexLock` gives.

PthreadCond adds the condition. Its `PthreadCondState` has an identity for the same
reason as an address's state: waiters keep it when the condition is destroyed, and the
next use makes a new one. `CondWait`, `CondEnter`, `CondUnlock`, `CondCheck`,
`CondRelock` and `CondRestore` are `wait_for_signal` cut at its locks; `Signal` is the
unlocked look at `waiters`, `SignalLocked` the rest of `signal_cond_state`.
`ReleasedIsCounted` is the argument for that unlocked look; `SignalReachesAWaiter` says
that a signal arrives at one of those who waited before it, and a broadcast at all. (The
move of the generation and the wake-up are one step of the model: the code does both under
the state's lock. What the property follows is which of the waiters, asleep, woken or timed
out, goes on.) In `CondDestroy` the guest follows the rule for destroying a condition: all its waiters
have been signalled and nobody is signalling.

### Once and POSIX semaphores (PthreadOnce, PosixSemaphore, PosixGuest)

In PthreadOnce a step is a read of the control word or a critical section. In
PosixSemaphore `table` is the entry of `g_posix_sems` for one guest block, an object of
`Objects` is a `PosixSemPrivate`, and `block` what the object mirrors into guest memory.
`SemInit` on a block in use marks the old object destroyed while its waiters still hold it;
they leave with an error, each by itself. PosixGuest composes the two: threads call
`PthreadOnce`, whose routine makes the semaphore, and use it afterwards, destruction and
re-initialisation included.

`BlockIsOfTheTable` is what sem_init's comment asks: "The old object must stop touching
the guest block before the new one initialises it." `NobodyDestroys` names its
precondition: a sem_init does not overlap a sem_destroy of the same block, which would
clear the new block (Libs/PosixSemaphore.cpp:240-243). `OldWaitsEnd` says that the waits of a
replaced object end, `RunsOnceFirst` that the routine runs once and before any caller
returns.

### Context requests (PthreadContext)

`state`, `hostTid` and `hasTimer` are the members of `PthreadPrivate`; signals on their
way are counted in `queued`, a running retry timer is `armed`. The thread moves between
guest code, host code that holds locks, and waits inside a `PthreadInterruptibleScope`;
`Interrupt` is the signal handler at any of these places, and `phase` follows a delivery
on top of the interrupted code: `TakeRequest`, `HandlerReturns`, `Resend`. Raising is cut
between the bit and the `tgkill`. A collector works while it is acknowledged and needs
every host lock once, so that a handler that stopped the thread inside host code would
show as a request that is never finished. `OneSignalPerRequest` is the heart: a pending
request has exactly one signal or timer under way to it, or somebody about to send it.
`ClosedIsQuiet` and `RequestAnswered` are about the end of the thread. The
history variable `lost` marks the one case that the code leaves open, a `tgkill` at the
end of the handler that fails: its result is not looked at. The request then stays, and
the thread, when it ends, stays in `PthreadCloseContext`.

### The life of a thread (PthreadPool, PthreadKeys, PthreadLife)

PthreadPool has the flags of a slot (`free`, `detached`, `almostDone`), its stack and the
host thread behind it. `TakeSlot` to `Undo` are `PthreadCreate` with its two ways to fail,
`HostJoined`, `Release` and `GiveSlot` are `pthread_join_internal`, which a joining guest
thread and the reaper share. The reaper reads the flags of a slot one at a time, with the
pool's mutex held over its sweep, joins included. `handle` is the guest's side: one join
or one detach uses a handle up; a join of a detached thread may be tried.

PthreadKeys follows the values of one thread. `Collect` is a destructor pass up to its
calls, made without the mutex: a destructor may set values again, keys may be deleted
meanwhile, and it may end the thread anew (`NestedExit`).

PthreadLife puts the two and PthreadContext together as `PthreadCreate`, `run_thread` and
`cleanup_thread` order them: the context is opened before the host thread is made and
closed after the destructors, and the slot is marked as almost done at the very end.
Requests arrive all the while. Host code may need the pool's mutex (`Leaves`), and so may
a collector (`Restarts`). `EndsClean` says that what ends leaves nothing to its successor;
`SlotsAreSound` that a slot has one owner, a thread is joined once and keeps its stack
until then; `ThreadsAreReclaimed` that the reaper and the end of a thread do not wait for
each other. Every step of PthreadLife is a step of PthreadContext or leaves it alone
(`ContextImplemented`), so that what is proved of the context holds of the composition.

### Event queues (EventQueue)

All queues of the model share one address: `lifetime` is the registry's entry for it,
with generation, pins and the closing mark, `closingGens` the generations that are being
deleted, `object` the generation of the queue that is really there. Every call pins the
queue, waits included. `event` is the queue's one flip event and `binding` the
`VideoOutEventBinding` it refers to, which the session lists too. Adding an event is cut
where the code gives up its locks (`AddBegins`, `AddEvent`, `AddPublishes`): a deletion
may come between the last two, and then the adding thread is the one to free the binding.
`CloseCollects`, `CloseDeletes`, `CloseUnpins` and `CloseWaits` are the end of
`VideoOutContext::Close`. `PinKeepsQueue` and `BindingsAreSound` are about lifetimes,
`NoWaiterMissed` about one signal per trigger; `DrainsEnd` says that
whoever deletes a queue or closes the session comes to rest again.

### Fibers (Fiber)

A fiber's `state` word is the lease of its stack, taken by a compare-and-exchange. The
thread that leaves a fiber cannot give it back before it is off its stack: it notes the
fiber in a thread-local (`pendingIdle`), and the code that runs next on that thread
commits the release. `Run` and `Switch` end in a jump to `landing`, `ReturnToThread` and the end
of an entry in `jumpBack`. `OneThreadPerStack` is the point of the protocol,
`LeftFiberIsFreed` that no landing forgets the release. `ArgumentArrives`: arguments lie in
the shared object, and the fiber that starts or goes on finds its own; the one given back is
in place until FiberRun releases the fiber. It cannot say more: FiberRun
releases the fiber (Kernel/Fiber.cpp:370) before it reads `arg_on_return` (line 377), and
in between another thread's FiberRun of the same fiber may set it to zero (line 358). A
guest in which two threads share a fiber can so lose the argument.

### GPU submissions (GpuSubmission)

One queue. `tracker`, `fifo` and the arithmetic of `Slots` are the submission tracker and
the slots, `entries`, `published` and `publisher` the publication gate, `objects`,
`completed` and `draining` the deletion queue, `queue`, `idle` and `pending` the ring,
and `gate` the holder of the admission gate. Calls of the command processor are run step
by step by whoever makes them: the worker, a guest that quiesces, or another queue's
worker (`PeerCall`, which waits for a label of this queue on the host or on the device).
`Lock` to `Unlock` is what happens inside `m_mutex`; `Acquire` to `Retire` the loop that
publishes, outside it. `Signal` is the host GPU: fences of one queue may be seen signalled
in any order, which is more than Vulkan allows and harmless here. `SubmissionRequirements`
gathers the conditions on which the code ends the process. `FiredInOrder`,
`NoObjectStranded`, `QuiescedMeansDrained` and `SubmissionsEnd` (what is submitted is
published, and a quiesce gets through) are what the rest of the emulator relies on.

The run `gpu_compute` shows that `QuiescedMeansDrained` fails for a compute ring:
`ComputeRing::DingDong` (Graphics/GraphicsRun.cpp:2095) adds work and signals the worker
but leaves `m_idle` true until the worker has woken up, and `ComputeRing::WaitForIdle`
looks at `m_idle` only. A guest that rings a doorbell and then unmaps memory may have its
work decoded after the unmap. `GraphicsRing::Submit` clears the flag for this very
reason ("A drain must see queued work before the worker wakes to dequeue it", line 1488).

### Video out (VideoOut)

One port. `accesses`, `progress`, `quiescing` and `draining` are the host-access gate,
`accepted` the flip life-cycle gate, `admitted` the admission gate of the flip queue,
`registering` the registration gate; the pin of the materialization gate is the
presenter's place "draw". Guest calls are one step each, with their access pin, except
`RegisterBuffers`, which gives up the mutex twice. `Fire` to `Enqueue` is the label's
callback on the GPU's worker (`SubmitFlipInternal`), the presenter's steps are those of
`FlipQueue::Flip` between two vblanks. `Transact` starts a close (no address) or an unmap
(an address); both go through the places of `Follows`, in the order of the code. The GPU
is abstracted to the stream of flips it has been given; that the transaction waits until
it is empty is what GpuSubmission shows of a graphics ring.

The flipper is a guest that behaves as the header expects of it: it waits until no flip
is pending before it unregisters a buffer. A submission to the GPU waits until its batch has
been decoded (`Gpu::Submit` for a batch with a decode completion) or returns at once
(`Gpu::SubmitAndFlip`), and one that waits may be let go before (`ReleaseDecode`, which is
`SetDecodeReleased`). In the last two cases the guest may read 0 pending flips before its
flip is counted; the history variable `misled` says that it has. When it then removes a
buffer, the flip in its command stream finds none, although VideoOutFlipPending.h says that
such a guest "never races a flip still in its command stream": the run `videoout_submit`
shows it as a violation of `DecodedFlipsKeepBuffers`, and the code ends the process there
(Graphics/VideoOut.cpp:2614).

`VideoOutUnregisterBuffers` writes the buffers under the port's own mutex
(Graphics/VideoOut.cpp:3126), while flips, registrations and the presenter look at them under
`m_mutex`. The model takes it in two halves, with either field of the buffer cleared first
(`Unregister`, `Unregistered`). A registration that commits to the slot in between has its new
buffer half cleared. `raced` is set by it, and by the removal of a buffer by a misled guest.
As long as it is not set, every flip on its way keeps its buffer until it is drawn
(`FlipsKeepBuffers`, in `RequirementsHold`); the other properties hold in any case. The model
goes on after failures at which the code ends the process, and so allows more than the code.
`TransactionsEnd` assumes that the guest pauses its own flips: they take the
places the presenter gives back, so a guest that never pauses can keep the worker's
`AcquireBlocking`, and with it the drain, waiting.

## 3. Runs

| Run | Instance | Shows |
|---|---|---|
| event_flag | 3 threads, 2 bits, 10 kinds of call | wake-ups, cancellation, refinement, drains end; 207 thousand states |
| semaphore | 3 threads, maximum count 2, ints of 3 bits, 8 kinds | safety, also with a count that wraps; waiters settle; 565 thousand states |
| sync_on_address | 2 waiters, 1 waker, 2 states, timed or not | the registry; wakes arrive; 184 thousand states |
| cond | 3 threads (2 wait), recursive and adaptive mutexes, every call, depth 2, 2 states, 2 signals per state | ownership, signals, destruction; 3.3 million states |
| posix_guest | 3 threads, 2 objects, maximum value 1 | once, re-initialisation and destruction; 164 thousand states |
| life | 2 collectors, 1 slot, 2 users, reaper, 1 key, 2 passes | requests, destructors, join, reap and reuse; 36 thousand states |
| waits | event queues: 2 waiters, 2 users, deleter, presenter, closer; 2 bindings, 2 generations, 2 pending flips | lifetimes, wake-ups, both drains; 192 thousand states |
| | condition variable: 3 threads, sequence modulo 3, 2 tokens | the atomic condition variable; no waiter sleeps on beside a token; 86 thousand states |
| fiber | 2 threads, 3 fibers, 3 arguments | leases, stacks, arguments; 319 thousand states |
| gpu | graphics ring, 3 slots, 3 flushes, 1 peer call, 1 label, 1 object | publication, deletion, quiesce; 256 thousand states |
| gpu_compute | compute ring, 2 slots | work is queued while a quiesced action runs |
| videoout | 2 guests, worker, presenter; 2 buffers, 1 address, 2 sessions, 2 registrations, 1 flip in the GPU | close, unmap, flips, registration; 478 thousand states |
| videoout_submit | the same | a flip still in the command stream loses its buffer |

The type invariant of a module is a conjunct of one of its invariants (`SafetyInv`,
`RequirementsHold`, `PinKeepsQueue` and so on); those of EventFlag and CondVar are not
run by themselves but proved. All safety properties of the runs are proved for every
value of the constants, the bounds included: the instances serve to find a mistake in a
property or in a model before the proof, and to check liveness.

The run `waits` holds two instances that share nothing. MCWaits lets the one move only while the
other is in its initial state, in which none of its fair steps can be taken: the states are
those of both, one after the other, and what is shown of each is what it would be by itself.

Bounds. Three threads are a waiter, another waiter to compete with it, and the
thread that changes the object; every hazard listed for these objects needs at most
that many. The calls of threads are not bounded in number: a thread calls again
and again. Two bits tell And from Or and one clear mode from another; a maximum count of
2 lets a waiter need more than there is. The sets of states in SyncOnAddress and PthreadCond
bound the live objects, and are as large as the number of threads that can hold on to an
old one in the instance, plus the current one. `MaxWakes`, `MaxSignals` and `MaxDepth`
bound generations, wakes and depth in the guards: two moves of a generation are a wake
and one that comes between a registration and its first look. In the
semaphore `IntMax` is 3: with a maximum of 2 a signal of 3 is refused by an empty semaphore,
wraps the count of another to -4 or -3, and meets negative counts too; a larger int adds
only values in between. A signal of a negative number does to the count what one that
wraps does and is not offered in the instance; the theorems are for all calls and any
`IntMax`.

In EventQueue `MaxGeneration` 2 gives an address a successor, and two bindings an event
that is registered while the old one is still listed; two waiters and two pending flips
are enough for one waiter to take what another was woken for. In GpuSubmission a slot
comes round after three submissions, and `MaxFlushes` of three fills the slots; one peer
call, one label and one object let every kind of caller meet every other. With two slots,
the compute run is the smallest in which a worker has work behind it. In VideoOut the
flip queue has its true capacity of 2; two sessions and two registrations are what a flip
of an old session or buffer needs; two threads that register the same address need two
slots. `FollowRaces` is FALSE in both runs: once `raced` is set nothing new begins and the calls
under way go on; the theorems hold for TRUE as well. In the life of a thread two collectors are a request in delivery and one raised
meanwhile; two users let one create in the slot that the other gives back; with one slot
every creation reuses it, and the proofs of the three safety properties are for any number
of slots, keys and collectors. Two passes are one in which a destructor sets its
value again and one that meets the limit (4 in the code). Fibers need a third to switch to
while another thread runs the first. In CondVar the modulus of 3 is the smallest under
which the assumption about whole turns does not hold by itself.

Fairness. `WF` of a thread's own steps: the host schedules every thread that can run.
`WF` of `Expire` in the event flag, the semaphore and the address waits: time passes;
event queues are checked without it,
and no liveness is claimed of conditions. In posix_guest `WF` of a slice's end is the same.
`SF` of taking the mutex again in CondVar: the host's mutex does not starve a thread for
ever. In PthreadLife, `WF` of the thread's own next step and `SF` where it needs a
mutex: the reaper sleeps 10 ms between its sweeps. A destructor returns, although
requests interrupt it. `SF` of an interrupt at a safe point:
the retry timer's period is spread (`ArmRetry`), so that a
thread that comes to safe points again and again is not always interrupted between them.
`WF` of the host's fences in GpuSubmission: the host GPU finishes what it has been given.
`GuestFlipsPause` in VideoOut is an assumption about the guest and part of the property.
Nothing forces a guest to make a call, to unlock a mutex or to change a word, and
`SpuriousWake` is never fair.

Deadlock checking is on in every run but those of GpuSubmission, whose bounds on the
number of submissions stop the guest: there `SubmissionsEnd` carries its weight. In the
event flag and semaphore a sleeping waiter can always be woken spuriously, so that
`SleepersHaveReason` and the liveness properties do so.

## 4. Proofs

EventFlagProofs proves for every finite set of threads, every set of bits and every set
of calls on offer:

- `TypeCorrect`, `CountsCorrect`: from `CountInv`, which adds to the types and counters
  what a program counter says of the call (a counted thread is in a Wait, and so on).
  The cardinality facts come down to one lemma: one thread moves at a time, and a set of
  threads grows or shrinks by at most that thread.
- `CancelCorrect`, `SingleCorrect`: from `ProtocolInv`, relative to `CountInv`: the
  status is Canceled exactly while one thread drains, and `reported`, `told` and the
  counter add up.
- `NoMissedWakeup`: from `SleepInv`. The point is that every step that makes a
  condition true either leaves the sleepers alone for a reason (the condition of each
  still fails: clearing bits is monotone, `SatisfiedIsMonotone`) or empties `asleep`.
- `CanceledCorrect`: an action property, by cases over the steps of a counted thread.
- `Implementation`: `ImplementsAtomic`. Its invariant `TimeInv` adds that only timed
  waits expire. Every step of the flag maps to one action of AtomicEventFlag or to a
  stutter; the lemmas are one per way out of a wait and one for the other calls.

Assumptions: `ThreadsAssumption` (finitely many threads) and `OfferedAssumption`
(well-formed calls) in EventFlag. They are evaluated by TLC in the runs.

The other proofs follow one pattern: an inductive invariant made of named parts, one step
of the proof per action, and, where a counter is the size of a set, a lemma about the set
of one thread more or less (`SizeMoves`).

- CondVar (in WaitProofs): `CondInv` joins `LookIsSafe` and, per signal under way, whom it
  has still to wake. It gives `LookCorrect` and `Implementation` (the refinement), by the
  steps of CondVar that are a step of AtomicCondVar (unlock-and-sleep, the advance of the
  word) and those that stutter.
- SemaphoreProofs: `SemaInv`, the two properties with what the place of a thread says
  of its call. Every step of a wait is reduced to leaving or falling asleep (`WaitMoves`).
- SyncOnAddress (in WaitProofs): `RegistryInv` (registered waiters use the state of the
  slot, which is counted exactly) and `GenerationInv`.
- EventQueue (in WaitProofs): `EqueueInv`, in three layers. `QueueInv` says at which places
  a thread holds a pin and when the object exists; the pins of the registry are then the
  size of a set of threads (`PinTaken`, `PinReleased`), so the deleter, which waits for
  it to be empty, is alone when it destroys. `BindingInv` gives
  every binding that is listed and not published one user (`MineInv`), and says of which
  generations the closing session still has bindings to wait for (`CloseInv`). `SleepInv`
  is `NoWaiterMissed` with "nobody sleeps on a queue that is closing".
- PthreadCondProofs: `MutexInv` ties `host`, `owner` and `recursionCount` to the program
  counters; `CountInv` counts the waiters of a state; `SeenInv` bounds the generations
  that waiters have seen. All three properties of the run are proved, for every type of mutex.
- PosixGuest (in PthreadProofs): `ObjectInv` (an object still in use is the table's, or the
  one being destroyed) and `OnceInv` (the control word tells how far the one run of the
  routine is).
- PthreadLife (in PthreadProofs): `ContextInv` (which bits, signals and timers each place
  and phase allow), `PoolInv` (owner, handle and host thread of a slot; what the reaper has
  seen of a slot stays so while it holds the mutex), `KeyInv` and `LastInv` (the followed
  context is closed unless its thread is being made or runs). `ContextImplemented` reduces
  the context's part to PthreadContext.
- FiberProofs: `FiberInv` gives every fiber one holder; `ArgumentInv` follows the two
  arguments.
- GraphicsProofs: `SubmissionInv` and, on top of it, `GraphicsInv`. The code keeps one order
  in four places: the tracker, the slots' list, the publication entries and the labels that
  have fired. `OrderInv`, `TrackerInv` and `FiredInv` express all of them by two numbers,
  `Submitted` and `Finished`, so that a submission, a completion or a publication moves a
  boundary and nothing else. `LockInv`, `RoleInv` and `PublisherInv` say who can be where:
  one thread in `m_mutex`, one publisher, and of what it publishes the front entry. The
  bounds of the model enter in `BoundInv` (a call that owes a submission was allowed
  for). `SubmissionsCorrect`, `LabelsCorrect` and `DrainCorrect` follow for both kinds of
  ring. `QuiesceCorrect` assumes `Kind = "graphics"`, and must: for a compute ring
  `gpu_compute` shows a counterexample. Its argument is `GraphicsInv`: `idle` implies an
  empty ring and a worker at rest, the gate keeps other guests out, so that only the
  guest itself and the peer still move the processor, and the peer submits nothing, since
  what carries a label is being decoded or is submitted (`IdleInv`, `LabelInv`); and the
  guest's own flush and drain leave the last submission published (`LastInv`).
- VideoOutProofs: `PortInv`. Who is where and what the gates count of it (`PlaceInv`), who
  holds the GPU's admission gate (`HolderInv`), and for each step of a transaction what it has
  waited for and what therefore cannot start again before its end (`StageInv`) give
  `QuietCorrect`. `CountInv` expresses the four counts of flips by two queues and the places
  of worker and presenter; with `ShownInv` (the count published is that of the flips left,
  or one more while any are left) it gives `PendingCorrect`. `SlotsInv` gives
  `BuffersCorrect`: reserved slots are distinct, and the registration that is to commit has
  looked again while it alone may commit. For
  `RequirementsCorrect`, `KnownInv` says what a guest that has read 0 pending flips and is not
  misled knows, namely that only blank flips, or one that is being removed, are left, and
  `FoundInv` that therefore, until something has raced, every flip on its way finds its buffer.
  All of it holds whether a submission waits for its decoding or not.

Assumptions are those named in the modules: finite sets of threads, distinct names,
well-formed calls on offer. TLC evaluates them in the runs. They are no assumptions
about the code. The one restriction on behaviours is `NoWrap`, a guard of a signal's
advance of the word: fewer than 2^32 signals come between a waiter's load of the word and
its sleep. One theorem has a hypothesis, `Kind = "graphics"`, which chooses the ring; the run
`gpu` is an instance of it.

`TypeCorrect`, `CountsCorrect`, `SingleCorrect` and `CanceledCorrect` of the event flag,
`LookCorrect` of CondVar and `LeaseCorrect` of Fiber state facts that are not part
of a run; all other theorems state a property that a run checks, except
`ContextImplemented`.

Model-checked only: liveness, which is outside the reach of the prover. These are
`DrainsEnd` (event flags and event queues), `WaitersSettle`, `CoveredWaitersReturn`,
`WakeAfterStore`, `RequestAnswered`, `ThreadsAreReclaimed`, `SubmissionsEnd`,
`TransactionsEnd`, `LeftFiberIsFreed`, `TokenIsTaken` and `OldWaitsEnd`. The runs
`gpu_compute` and `videoout_submit` refute their properties and have nothing to prove.

## 5. Not modelled

Argument checks that return an error and change nothing; names, logging and the
traces behind environment variables; the numbers the semaphore and the event flag give
to waits for tracing; conversions of time (a time-out is an event that may come at any
moment); attributes of mutexes and conditions other than the type; destruction of a
mutex, which the code leaves to the host's `pthread_mutex_destroy`;
`PthreadCondSignalto`, which stops with "not implemented"; creation, which is the initial
state. Memory order: the models are sequentially consistent. The two atomics read with
relaxed order (owner, and `waiters` in a signal) are compared with a value only the
reading thread writes, or ordered by the guest mutex.

Event queues: user, timer, file, socket and level-triggered events. GPU: the packets
and register state of the command processor, suspended WAIT_REG_MEM packets and
`SetDecodeReleased`, `Done` and `Reset`, the timeline waiter that shortens the idle pump's
sleep, the exception for a callback that waits on its own processor (no callback does),
objects used by several queues. Video out: images used by GPU draws, `WaitFlipDone`, vblank events,
labels, output modes and host extents, blank flips from the GPU; the presenter's own
submissions, which die with the frame. The life cycle of labels (Graphics/Objects/Label.cpp)
is one step of the publication.

Hazards listed without a property, beside those of components without a module: a resend
whose `tgkill` fails (PthreadContext.cpp:236), a submitter that holds the admission gate
while decoding waits for another guest thread (GraphicsRun.cpp:147; its remedy,
`SetDecodeReleased`, is in VideoOut only as the early return, its cause needs the packet
interpreter), and the argument that FiberRun reads after the release (Fiber.cpp:377). Two
more places were met while reading and have no module: `KernelAddSocketEvent`
(EventQueue.cpp:577) arms its watch from its own copy of the event after the queue has the
event, and the list of buffer sets of a port is changed by `VideoOutUnregisterBuffers`
(VideoOut.cpp:3157) and by registrations under different mutexes.

The components that have no module are listed in PROJECT.json with the reason.

## 6. Plan

1. The safety half of the liveness properties as theorems: whoever waits in a drain waits
   for a thread that can go on (the lock orders of PthreadLife, and the waits of VideoOut).
2. The composition of PthreadContext with PthreadCond, in which a collector stops
   waiters inside `PthreadInterruptibleWait`, and a monitor that a guest builds from
   a mutex and a condition, checked against an abstract monitor.
3. The life cycle of labels (Graphics/Objects/Label.cpp) with the label thread.
4. WAIT_REG_MEM suspension with `SetDecodeReleased`, which would cover the hazard of the
   admission gate (GraphicsRun.cpp:147).
