# The Open Dylan threads system in TLA+

The repository is the complete Dylan tree: the Functional Developer compiler
(`fundev/sources/dfmc`), its run-time systems, the Dylan library, I/O, networking,
CORBA, the environment and DUIM, the Gwydion `d2c` compiler, and a user-level network
stack. This project models the part whose correctness depends on the order in which
concurrent steps happen: the **threads system**, which everything else stands on. It has
two implementations that share no code, `fundev/sources/dfmc/c-run-time/posix-threads.c`
on pthreads and
`fundev/sources/lib/run-time/pentium-win32/win32-threads-primitives.c` on kernel objects
and interlocked instructions; the classes on top of them are in `fundev/sources/dylan/`
(`locks.dylan`, `notification.dylan`, `thread.dylan`, `finalization.dylan`).

Source paths below are relative to `src/`; `posix-threads.c` and `win32-threads-primitives.c`
(`win32` for short) always mean the files just named, and a number after one is a line.

## 1. Inventory

### 1.1 The threads system

| Part | State | Operations | What makes it hard | What makes it correct |
|---|---|---|---|---|
| Simple lock (`posix-threads.c` 471-507, 612-659, 807-833, 1353-1376) | owner word, mutex, condition variable | wait-for, timed wait-for, release, unlock (by force), owned? | the owner word is tested and cleared outside the mutex | exclusion; no wakeup lost; release returns |
| Recursive lock (509-535, 662-707, 836-867, 1379-1404) | the same and a claim count | the same | the count is written outside the mutex too | the count is the nesting depth; exclusion |
| Semaphore (537-565, 710-755, 870-898) | count, maximum, mutex, condition variable | wait-for, timed wait-for, release | the signal is sent after the mutex is unlocked; an early return inside the critical section | the count stays in range; every free unit finds its sleeper |
| Notification (567-609, 758-804, 901-964) | mutex, condition variable, and the simple lock of its clients | wait-for, timed wait-for, release, release-all | two mutexes, taken in both orders | releasing the lock and waiting look atomic; wait-for returns with the lock |
| Threads (246-320, 322-468; `thread.dylan`) | flags COMPLETED, MARKED, JOINED; one lock and one exit event for the process | make, function returns, join one, join several | all joins sleep on one event; the flags are shared by competing joins | a thread is joined once, with its values; threads end; joins return |
| Thread variables (60-243, 1211-1341) | one vector per thread, a list of them, a default vector, an offset | allocate (with growth), read, write, start of a thread, end of a thread | the same vector is reached by key and by list; the list is changed without its lock on exit | a thread reads its own value or the initial one; the list is complete |
| Read-write lock (`locks.dylan` 320-451) | owner or reader count, inner lock, notification | wait-for in two modes with timeout, release | one notification for both modes; release-all only at zero, with the inner lock owned | readers and writers exclude; nobody sleeps on a lock free for it |
| Finalization (`finalization.dylan`) | switch, flag, lock, queue | set the switch, drain, the draining thread | the switch races with a thread that stops by itself | at most one draining thread; the queue is drained; the thread ends |
| Win32 locks (`win32` 182-296, 524-590, 655-711, 809-871, 966-1073, 1494-1550) | owner word, count of claims, kernel semaphore of maximum 1, recursion count | the same as for POSIX | nothing protects the words together; a timeout leaves its claim in the count; `lock_count--` is not interlocked | the lock is in one place: never granted twice, never lost; exclusion |
| Win32 notification (592-652, 732-806, 885-964, 1134-1157) | two manual-reset events, a target word, a count of waiters | the same as for POSIX | a handshake of two events that the waiter has to complete, with the lock given up | the count is the waiters; the handshake is completed; wait-for returns with the lock |
| Win32 thread variables (300-311, 1208-1431, 1565-1642) | one vector per thread, in its TEB and in a list; a default vector; a writer counter | allocate (with growth), read, write, start and end of a thread | reads and writes take no lock; growth excludes writers by a counter that it swaps for a negative number | a thread reads its own value; no write is lost to a growth; nobody waits for ever |

How they interact: a `<notification>` calls the primitives of its `<simple-lock>` from
inside its own critical section; `<read-write-lock>` is written on a notification and its
lock; making a thread drains the finalization queue (`thread.dylan`, `initialize`), and the
switch of automatic finalization makes a thread while it owns its lock; a thread that ends
leaves the list of vectors first and then raises the exit event that joins sleep on. The
Win32 notification also calls the lock's primitives, but outside any lock of its own; while
a release of it is being handed out every other wait-for and release waits *owning the
lock*.

### 1.2 Everything else

Listed in `PROJECT.json`, with the reason: the native Linux thread primitives (their thread
variables are the Win32 code on a pthread mutex, the rest is close to `posix-threads.c`);
Win32 threads and semaphores (single kernel calls); asynchronous stream writes, the HTTP server, the CORBA POA
and the user-level TCP (candidates: they have state machines of their own); the compilers,
DUIM, Deuce and the environment (what they compute is not a question of interleaving and
is out of TLC's reach); the Memory Pool System (third party; only its finalization queue
is used here, as an external operation).

### 1.3 Hazards

`PROJECT.json` lists them line by line. The main ones:

* state read or written outside the lock that protects it (owner word, claim count, list
  of vectors);
* a signal used up by a thread that has timed out, woken spuriously, or been overtaken;
* an early return from a critical section (`posix-threads.c` 399 and 885);
* two locks taken in both orders (597 against 591, 923 and 956), also by the read-write lock;
* flags flipped by exclusive-or and shared by competing calls (436);
* two references to one vector of which only one is replaced when it grows (151);
* claims that time out and stay counted (`win32` 667), a decrement that is a load and a store
  (186), a forced unlock that acts on an owner word it read earlier (1511);
* a release that announces itself in three words one after the other while a waiter of an
  earlier one is about to read them (`win32` 914), or a timed-out one is leaving (781);
* a writer counter that late writers go on incrementing while the vectors grow (1252).

## 2. Modules

| Module | Models | Uses |
|---|---|---|
| `PthreadSync` | mutexes and condition variables as `posix-threads.c` uses them (external) | |
| `ExclusiveLock` | abstract specification: what an exclusive lock promises | |
| `PosixSimpleLock` | simple lock primitives | `PthreadSync`; refines `ExclusiveLock` |
| `PosixRecursiveLock` | recursive lock primitives | `PthreadSync`; refines `ExclusiveLock` |
| `PosixRecursiveLock_proofs` | theorems about it | `PosixRecursiveLock` |
| `CountingSemaphore` | abstract specification: what a semaphore promises | |
| `PosixSemaphore` | semaphore primitives | `PthreadSync`; refines `CountingSemaphore` |
| `PosixSemaphore_proofs` | theorems about it | `PosixSemaphore` |
| `Monitor` | abstract specification: what a notification and its lock promise together | |
| `PosixNotification` | notification primitives composed with the simple lock, step for step | `PosixSimpleLock`; refines `Monitor` |
| `PosixNotification_proofs` | theorems about the simple lock and about the composition | `PosixNotification` |
| `PosixThreadJoin` (`MCPosixThreadJoin`) | making, ending and joining threads | `PthreadSync` |
| `PosixThreadJoin_proofs` | theorems about it | `PosixThreadJoin` |
| `PosixThreadVariables` | thread variables and the list of vectors | `PthreadSync` |
| `PosixThreadVariables_proofs` | theorems about it | `PosixThreadVariables` |
| `ReadWriteLock` | `<read-write-lock>` over the steps of the POSIX notification and the contract of its lock | `PthreadSync` |
| `Finalization` | the finalization switch, the draining thread, the queue | |
| `DylanClients_proofs` | theorems about these two | `ReadWriteLock`, `Finalization` |
| `Win32Sync` | semaphores, events and critical sections as `win32` uses them (external), and its interlocked operations | |
| `Win32Lock` | simple and recursive locks of the Win32 run-time | `Win32Sync`; refines `ExclusiveLock` |
| `Win32Notification` (`MCWin32Notification`) | notification primitives composed with the lock, step for step | `Win32Lock` |
| `Win32Notification_proofs` | theorems about the lock and about the composition | `Win32Notification` |
| `Win32ThreadVariables` | thread variables, growth against writers | `Win32Sync` |
| `Win32ThreadVariables_proofs` | theorems about it | `Win32ThreadVariables` |

### 2.1 Conventions

Every thread has a program counter `pc[t]`. Labels starting with `w_` are in a wait-for,
`r_` in a release, `u_` in a forced unlock, `j_` in a join, `x_` in the end of a thread,
`i_` in its start, `a_` and `g_` in the allocation of a variable and the growth of the
vectors; `n_`, `s_` and `a_` in `npc` are the
notification's wait-for, release and release-all. `Goto(t, from, to)` is the move. Each
module names the set `Inside` of the labels at which the mutex is locked.

*Granularity.* In the lock, recursive lock, semaphore and notification modules an access to
a shared word is a step, and so is every pthread or kernel call; in the Win32 modules an
interlocked operation is one step, and an ordinary `lock_count--` is two. Exceptions, where one
step stands for several accesses:

* `count++` and `--count` of a POSIX recursive lock (`WaitAgain`, `ReleaseCount`): only the
  owner writes the count, until a forced unlock, and from there on nothing is claimed of it;
* the owner test and the access to `recursion_count` in `Win32Lock.WaitAgain`: the same;
* the test for an empty list, of its first element and of that one's successor at the start of
  a removal (`PosixThreadVariables.RemoveTest`, `posix-threads.c` 214-218): a removal that
  overlaps another is outside the properties that hold, and the one that is violated needs no
  finer step;
* the making of the thread and the store of the flag in `Finalization.SetterMakeThread`, both
  under the lock.

Where a datum is only touched under a mutex (join flags, read-write lock state) what is done
between locking and unlocking, blocking or calling another primitive is one step. In
`PosixThreadVariables` the walk over the list takes one step per element. Local computation is
folded into the step before it. Assertions (such as the one at 1391) are not steps.

*Clients.* A client thread may call any operation whenever it is not inside one: it may
release what it does not own, claim what it has, join what another thread is joining, or join
itself.
Forced unlocks are restricted to the threads in `Unlockers`, a parameter. The timed and
the untimed form of a wait are the same actions with a flag: they differ in whether
`WaitTimeout` may fire and in the code returned.

*Time.* A time limit may pass at any moment while the thread is blocked. On POSIX a thread
may be woken spuriously at any moment. On Win32 there are no spurious wakeups, and a wait
times out only while its object is not signalled.

*History variables* (`held`, `forced`, `depth`, `reads`, `writers`, `joins`, `assigned`,
`abandoned`, `lost`, `crossed`, `overlapped`) record what clients were told or did; no guard
of a primitive reads them, except the bounds on clients (`depth < MaxDepth`,
`Cardinality(ReadsOf(t)) < MaxReads`, `abandoned < MaxAbandoned`, and, on Win32, no new calls
once `crossed` or `overlapped`). The `overlapped` of `PosixThreadVariables` restricts nobody: it
only records that a thread has ended beside another that ends or has the lock of the list.

*After a forced unlock.* `primitive_unlock_simple_lock` takes the lock away from its
owner, so exclusion is stated for behaviours until the first one (`~forced`), here and in
the modules above. That no wakeup is lost is stated for all. On Win32 more can be said: a
forced unlock that meets the owner between its calls is a release on the owner's behalf, and
everything is stated through it. Only when it *crosses* a call of the owner, or another forced
unlock (`Crossing`, `NCrossing`), do the properties end (`~crossed`).

### 2.2 Correspondence to the code

`map` in `PROJECT.json` gives the lines of each definition. In summary:

* **Simple lock.** `WaitForSimpleLock` is the entry and the unprotected ALREADY_LOCKED
  test; `WaitLockMutex`, `WaitTest`, `WaitBlock`, `WaitWake`, `WaitClaim`, `WaitUnlock` are
  the lock, the `while` test, the two halves of the cond wait, the store and the unlock.
  `ReleaseClear` is the store to the owner word that precedes `ReleaseLockMutex`.
* **Recursive lock.** As above, with `WaitAgain` (`count++` without the mutex),
  `WaitCount` (`count = 1` under it), `ReleaseCount` (`--count` without it) and
  `UnlockClear`/`UnlockCount`.
* **Semaphore.** `ReleaseTest` returns to `idle` without unlocking at the maximum, as the
  code does; `ReleaseSignal` comes after `ReleaseUnlock`.
* **Notification.** `NWaitRelease` and `NWaitClaim` *call* the simple lock's actions and
  `NWaitReleased`/`NWaitClaimed` continue when those have returned. The untimed wait returns
  GENERAL_ERROR if the inner call failed, without unlocking; the timed one ignores it.
* **Join.** One module for the single and the multiple join (a single join is a vector
  of length one). They differ in the error path: on a duplicate join the single one unlocks
  `thread_join_lock` and the multiple one does not.
* **Thread variables.** `key` is the vector that the thread uses, `listed` the one in its
  list element. A read outside a vector gives `Junk`; a write outside one is lost. (In C
  both are undefined; these are the mildest outcomes, so the violations do not depend on a
  harsher one.) Freed memory is not used again. Removing the first element of a list that
  another thread has emptied in the meantime is a null dereference: the thread goes no
  further.
* **Read-write lock.** `state` is `rw-lock-state`: the owner in write mode, or the number of
  claims in read mode (zero: free). The bodies of the two `with-lock`s are steps over the inner
  lock, which is claimed and released in one step, as the abstract exclusive lock that the simple
  lock implements allows; nobody outside the class can force it. The calls of the notification are the steps of
  `posix-threads.c` with `notification->mutex`: `NWaitLockMutex`, `NWaitRelease`, `NWaitBlock`,
  `NWaitWake`, `NWaitClaim`, `NWaitUnlock` for wait-for (591-598) and `NReleaseLockMutex`,
  `NReleaseBroadcast`, `NReleaseUnlock` for release-all (956-958), which blocks on that mutex
  *with the inner lock owned*.
* **Win32 locks.** `kind` is chosen in the initial state; the two kinds share the actions and
  differ where the code does: the recursive lock looks at the owner word first (`w_again`), the
  simple one after it has counted the claim (`WaitSelf`), and takes that back with
  `WaitUncountLoad` and `WaitUncountStore`. `WaitIncrement`, `WaitSemaphore`, `WaitOwn` are the
  interlocked increment, the wait for the semaphore and the store of the owner;
  `ReleaseClear`, `ReleaseDecrement`, `ReleasePost` the three steps of a release, and
  `UnlockClear` leads into the last two. `WaitTimeout` leaves `lock_count` alone, as the code
  does.
* **Win32 notifications.** One action per statement of the wait (`NWait...`) and the release
  (`NRelease...`); release-all is the release with the target -1. `NWaitRelease` and
  `NWaitClaim` *call* the lock's actions. The waiter with a time limit takes the two extra
  steps `NWaitLate` (off the count) and `NWaitProbe` (is a release mine to complete?).
* **Win32 thread variables.** `teb` and `listed` are the two references to a thread's vector;
  `GrowCopy` and `GrowInstall` are one element of the growth. The writer's four steps
  (`WriteIncrement`, `WriteVector`, `WriteStore`, `WriteDone`) interleave with it;
  `WriteDecrement` and `WriteEnter` are the way round a growth.
* **Finalization.** `SetterDrain` is the `drain-finalization-queue` that `make(<thread>)`
  performs while the setter owns the lock. The collector (`Unreachable`) is external. Where a
  thread is is `place`, the lock `automaticLock`, and the specification `FinalizationSpec`, names
  that are not those of `ReadWriteLock`, since one proof module extends both.

## 3. Runs

Deadlock is checked in every run that does not say otherwise. State counts are distinct states.

| Run | Bounds | Shows |
|---|---|---|
| `recursive_lock` | 3 threads, one may force, depth 2; 366 986 | `CountIsDepth`, `NoLostWakeup`, `ImplementsExclusiveLock`, `FreeLockIsClaimed` |
| `semaphore` | 3 threads, count from 0, maximum 2; 10 105 | `ImplementsCountingSemaphore`, `EnoughWakeups`, `ReleaseReturns`, `FreeUnitIsTaken` |
| `notification` | 3 threads, one may force; about 1.9 million | of the simple lock, called by clients and by the notification, `MutualExclusion`, `NoLostWakeup`, `ImplementsExclusiveLock`; of the two together `ImplementsMonitor`, `OwnedOnReturn`, `MutexIsNotLeaked` |
| `notification_release` | 2 threads | violated: `NotificationReleaseReturns` |
| `thread_join` | main and 2 threads; joins of a, b, ab, ba; 18 320 | `JoinedOnce`, `NoLostExit`, `MarkedWhileJoining`, `ThreadsTerminate`, `JoinsReturn` |
| `read_write_lock` | 3 threads, one read claim each; 235 734 | `ReadersAndWritersExclude`, `NoSleeperOnFreeLock`, `FreeLockIsClaimed` |
| `finalization` | 2 setters, 2 draining threads, 2 objects; 3 591 | `OneDrainingThread`, `QueueIsDrained`, `DrainingThreadExits` |
| `thread_variables` | 3 threads, vectors of 1, 3 variables; about 4.2 million | `SeesItsValue`, `ListIsComplete` |
| `thread_variables_removal` | the same | violated: `NoFreedElement` |
| `win32_notification` | 3 threads, both kinds of lock; one thread may wait with a time limit and force; 1 wait for the lock that times out, depth 2; 344 986 up to symmetry | of the lock `LockInOnePlace`, `NobodyLeftBehind`, `ImplementsExclusiveLock`; of the notification `NotificationTypeOK`, `CountIsWaiters`, `HandshakeIsCompleted`, `OwnedOnReturn` |
| `win32_handshake` | 3 threads, no time limits, nothing forced | violated: `AntiNotifierIsSetAgain` |
| `win32_thread_variables` | 3 threads, vectors of 1, 2 variables, 2 writes; 349 786 | `SeesItsValue`, `CounterIsWriters`, `CallsReturn` |

*Why these bounds.* Three threads are an owner, a sleeper and a newcomer, which is what it
takes for a signal to be overtaken, used up by a timeout, or sent to the wrong thread; the
theorems of section 5 remove the bounds for safety. A maximum of 2 is the
smallest semaphore in which several units can be free with several sleepers. Depth 2
separates a nested release from an outermost one. With vectors of size 1 the vectors grow
twice (1, 2, 4), so a growth of grown vectors is included; on POSIX that takes three
variables, on Win32, where the first slot is taken by the TEB, two. Two writes let one
thread write twice across a growth, or two threads at once, against the thread that grows.
Two draining threads are one more than the property allows. One abandoned claim is enough
for a release to post the semaphore with nobody waiting; the theorems allow any number.

*Symmetry.* In `win32_notification` the two threads that may neither set a time limit nor
force are interchangeable; the run has no liveness property. The others use none.

*The simple lock* has no run of its own. Its clients, the notification's calls of it and a
forced unlock are all in `notification`, and the theorems about it alone are in
`PosixNotification_proofs`. Its liveness is not checked on that state space: the recursive lock
has the same mutex, condition variable and unprotected release, and `FreeLockIsClaimed` is
checked there.

*Deadlock is not checked* in the runs of the semaphore, the notifications, the join and the
read-write lock (`CHECK_DEADLOCK FALSE`). The code can really stop there, as section 6 says, and
on a notification all threads may wait for a release that nobody is left to send. The liveness
properties of the semaphore and the join say "or `Leaked`", that is, until the early return
has left the mutex locked, and are about every behaviour before that. So they cannot object to the
early returns themselves.

*`FreeLockIsClaimed` of the read-write lock* has two ways out. One is `Embraced`: a release-all
waits for `notification->mutex` with the inner lock owned, and a woken thread waits for the inner
lock with that mutex locked. The state is 0 by then and nobody will ever claim it. The
other is `[]<>Misused`: threads that call release on the free lock for ever, an error each time,
may overtake the woken thread at the inner lock each time, since nothing says which of them gets
it. Without either of them TLC finds the behaviour.

*Overlapping removals.* A thread that ends takes its vector off the list without the lock.
`SeesItsValue` and `ListIsComplete` are about every behaviour of the code until the first time a thread ends
beside another that ends or has the lock (`overlapped`); after that they
are violated. The behaviours include threads that end while others read, write, or wait for the
lock. What goes wrong beside a walk is `thread_variables_removal`.

*The abstract semaphore.* `ImplementsCountingSemaphore` hides the mutex and the condition
variable: a thread is waiting from its call until it takes a unit or is told that its time is
up, and releasing until it adds one or is refused. It says that a unit is never taken that is
not there, that only a wait with a time limit returns without one, and that a release is
refused only by a full semaphore; the count therefore stays in range (`CountInRange`).

*The abstract monitor.* In `Monitor` giving up the lock and beginning to wait are one step. In the
code they are six, from clearing the owner word to the blocking half of the cond wait, with the
lock free from the first of them on. `ImplementsMonitor` maps the abstract step to the first and counts the
thread as sleeping from there; a release that has been called is visible (`notifying`), so that it
cannot signal past a thread that is not blocked yet: it has to wake one of those that sleep.

*Crossings and overlaps.* `win32_notification` makes no new calls after a crossing or an
overlap, since its properties claim nothing from there on; calls under way are completed.
`win32_handshake` has no such end: nothing in it can cross, and an overlap is what it finds.

## 4. Fairness

* `WF(Advance(t))`: a thread that is inside a primitive and can take a step takes one in
  the end. The operating system's scheduler does that.
* `SF` of the steps of thread `t` that lock a pthread mutex: a thread that contends for a mutex
  that is unlocked again and again gets it in the end. POSIX does not promise this in so many
  words; the critical sections are a few instructions long, and without it every program with a
  mutex may starve.
* Of the inner lock of a read-write lock, a simple lock, only `WF` is assumed: if it stays free
  somebody claims it. One exception is disclosed here: `Finalization` assumes `SF` of the
  draining thread's claim of `*automatic-finalization-lock*`, that is, that threads which flick
  the switch do not overtake it for ever.
* In the Win32 modules `WF` is all there is: of `NAdvance(t)` in `win32_handshake`, over the
  state without the history variables, and of `Advance(t)` in `win32_thread_variables`. No
  critical section there is contended for ever, since the calls that enter it are bounded. The
  thread that grows the vectors spins until it finds no writer: threads that never stop
  writing could starve it, and `MaxWrites` bounds them.
* Nothing is assumed of clients (no call is ever due, except that functions and finalize
  methods that are being run return), of timeouts, of spurious wakeups, or of which thread
  a signal wakes.

So the liveness properties speak of the lock, not of one thread: a free lock is claimed *by
somebody*. That one particular waiter gets it is not true of this code, since a newcomer
may overtake it every time.

## 5. Proofs

Every safety invariant that a passing run checks is proved for every value of the constants,
and so are the refinements: those of the monitor and of the counting semaphore, and those of
the exclusive lock.
A composed module shares its proof module with the lock it is built on, because its proof uses
the lemmas about the lock's steps.

The assumptions are the named `ASSUME`s of the modules. No thread is `NoThread`; `Unlockers` and
`Hasty` are sets of threads; bounds are natural numbers. Where threads are *counted* (the
wakeups of a semaphore, the claims on a Win32 lock, the waiters of its notification, the
writers of thread variables, the elements of the list of vectors) the set of threads is finite. One assumption is about a constant of the
code: there are fewer than 2 000 000 threads, since `TLV_GROW` is -2 000 000 and a writer that
finds the counter negative takes it for a growth.

| Module | Theorem | States |
|---|---|---|
| `PosixNotification_proofs`, the lock | `TypeCorrect` | `Spec => []TypeOK` |
| | `NoWakeupIsLost` | `Spec => []NoLostWakeup` |
| | `LockExcludes` | `Spec => []MutualExclusion` |
| | `RefinesExclusiveLock` | `Spec => ImplementsExclusiveLock` |
| the composition | `NotificationIsNotMissed` | `NotificationSpec => []NoMissedNotification` |
| | `WaitReturnsWithLock` | `NotificationSpec => []OwnedOnReturn` |
| | `RefinesMonitor` | `NotificationSpec => ImplementsMonitor` |
| | `NotifiedLockLosesNoWakeup` | `NotificationSpec => []NoLostWakeup` |
| | `NotifiedLockExcludes` | `NotificationSpec => []MutualExclusion` |
| | `NotifiedLockRefinesExclusiveLock` | `NotificationSpec => ImplementsExclusiveLock` |
| | `MutexIsGivenBack` | `NotificationSpec => []MutexIsNotLeaked` |
| `PosixRecursiveLock_proofs` | `NoWakeupIsLost` | `Spec => []NoLostWakeup` |
| | `CountIsNestingDepth` | `Spec => []CountIsDepth` |
| | `RefinesExclusiveLock` | `Spec => ImplementsExclusiveLock` |
| `PosixSemaphore_proofs` | `CountStaysInRange` | `Spec => []CountInRange` |
| | `UnitsAndSleepersMeet` | `Spec => []EnoughWakeups` |
| | `RefinesCountingSemaphore` | `Spec => ImplementsCountingSemaphore` |
| `PosixThreadJoin_proofs` | `ThreadIsJoinedOnce` | `Spec => []JoinedOnce` |
| | `ExitIsNotLost` | `Spec => []NoLostExit` |
| | `MarksAreNotLeft` | `Distinct` implies `Spec => []MarkedWhileJoining` |
| `PosixThreadVariables_proofs` | `TypeCorrect` | `Spec => []TypeOK` |
| | `ThreadsSeeTheirValues` | `Spec => []SeesItsValue` |
| | `ListHoldsEveryThread` | `Spec => []ListIsComplete` |
| `DylanClients_proofs` | `ReadersAndWritersAreApart` | `Spec => []ReadersAndWritersExclude` |
| | `NobodySleepsOnFreeLock` | `Spec => []NoSleeperOnFreeLock` |
| | `AtMostOneDrainingThread` | `FinalizationSpec => []OneDrainingThread` |
| `Win32Notification_proofs`, the lock | `LockStaysInOnePlace` | `LockSpec => []LockInOnePlace` |
| | `RefinesExclusiveLock` | `LockSpec => ImplementsExclusiveLock` |
| | `NobodyIsLeftBehind` | `LockSpec => []NobodyLeftBehind` |
| the composition | `WaitReturnsWithLock` | `Spec => []OwnedOnReturn` |
| | `NotifiedLockStaysInOnePlace` | `Spec => []LockInOnePlace` |
| | `NotifiedLockRefinesExclusiveLock` | `Spec => ImplementsExclusiveLock` |
| | `NobodyNotifiedIsLeftBehind` | `Spec => []NobodyLeftBehind` |
| | `NotificationTypeCorrect` | `Spec => []NotificationTypeOK` |
| | `CountCountsWaiters` | `Spec => []CountIsWaiters` |
| | `HandshakeIsNeverHalfDone` | `Spec => []HandshakeIsCompleted` |
| `Win32ThreadVariables_proofs` | `CounterCountsWriters` | `Spec => []CounterIsWriters` |
| | `ThreadsSeeTheirValues` | `Spec => []SeesItsValue` |

*The simple lock.* `NoLostWakeup` says that with the lock free and somebody asleep a signal is
still to come or a thread is awake. It is not inductive: a thread that goes to sleep
(`WaitBlock`) may do so on a lock that was freed since it looked. What saves it is
`WindowInv`: a lock freed between a waiter's test and its sleep was freed by a thread that
has yet to lock the mutex, because the waiter has it. That needs `MutexInv` (the mutex is
held exactly by the thread at a label in `Inside`), so that the releaser at `r_mutex`
cannot move on while the waiter is at `w_block`; and `BlockedInv` (a blocked thread is in
its cond wait and has not timed out), so that a signal wakes a thread that counts as awake.
`WakeInv` is the conjunction of these and `WakeStep` shows it to be preserved, action by
action.

`MutualExclusion` is strengthened to `OwnerInv`, which says of each label who may be the
owner there: nobody while a thread is about to claim (it has the mutex and tested, and
only a forced unlock or a claim could have changed the word), the thread itself between
its claim and its return and while it is about to clear the word. The refinement maps the
holder to the owner word and the waiting set to the threads at the labels of `Waiting`;
`WaitClaim`, `ReleaseClear` and the giving up in `WaitTest` are the steps that can be seen.

*Its notification.* A step of the composition is a step of the lock or leaves the lock alone
(`LockOrSilent`), so the lemmas about the lock's steps are used as they are and
`NoLostWakeup`, with forced unlocks included, `MutualExclusion` and the refinement of the
exclusive lock are carried over. The others need `WhereInv`: at each label of
the notification's primitives, where the thread is in the lock's primitives and whether it
owns the lock. With it the inner release and the inner claim succeed, so that the early
returns which leave `notification->mutex` locked are not taken and `NMutexInv` holds (that
mutex is locked exactly by the thread at a step inside it), which is `MutexIsNotLeaked`. `NoMissedNotification` then follows:
the thread about to signal has the mutex, so nobody is at the labels between. The refinement
of the monitor uses just that, and that a thread in the condition variable's set is at its
cond wait (`NBlockedInv`): when a release signals, the threads that sleep are the blocked ones.
All of this is until the first forced unlock, and `PlacesInv` says so.

*The recursive lock* has the same argument for wakeups. `ClaimInv` adds to the owner at
each label how the count is related to the claims that were granted (`depth`): equal
between calls, one more inside a release, 1 after the first claim, and nobody but the owner
writes it. That is why the count needs no mutex. `DepthInv` is the type invariant with
the room that a pending claim needs under the bound `MaxDepth`.

*The semaphore.* `InsideInv` is only one half of `MutexInv`: a release of a full semaphore
leaves the mutex locked by a thread that is outside. What a thread tested under the mutex
stays so until it acts (`TestedInv`), so the count stays in range even after that.
`EnoughWakeups` is strengthened to `MeetInv`: while anybody sleeps there is a wakeup under way
for *every* free unit. Each step keeps it for a different reason: a release adds a unit and becomes a signal; a signal wakes a sleeper, which is then awake, or finds none; a
thread that takes a unit was awake. The step that could break it is going to sleep, which
adds a sleeper: `WindowInv` says that there is no unit then, since the thread has the mutex and units are only added under it.
For the refinement the steps that can be seen are the call, `WaitTake`, the giving up in
`WaitTest`, `ReleaseTest` at the maximum and `ReleaseAdd`; `TestedInv` gives each its guard in
the abstract semaphore, and `LimitInv` (who has timed out has a time limit) that of giving up.
The early return with the mutex locked is a refusal like any other: it breaks liveness, not this.

*Joins.* The hard part is that a join returns with *one* of its threads and lets go of the others.
`ClaimInv` says that the threads of a join under way are marked and not joined and
that no two joins have a thread in common; `OnceInv` ties the history of joins to the JOINED
flag, and `ResultsInv` the values to COMPLETED. Which completed thread the scan returns, the first
one in the list, is a least element (`LeastOfNaturals`, from the library's well-founded
orders), so the lemma `FirstIsCompleted` needs no induction. The marks are flipped by exclusive
or, one flip per occurrence: with a thread twice in an argument list they would be left
behind. `MarksAreNotLeft` therefore has the hypothesis `Distinct`, which the run's lists satisfy;
the other two theorems hold without it.

*The read-write lock.* `ReadsInv` (the claims in read mode are finitely many, as they have to
be for their cardinality to change by one) is what the exclusion needs beside the type invariant.
`NoSleeperOnFreeLock` needs `PlaceInv`: who has the inner lock and who has
`notification->mutex` at each label, and that the mode which a sleeping thread wants does not
change. The step that matters is the broadcast: a thread on its way to sleep has one of the two
locks, and the broadcasting thread has both, so it misses nobody.

*Finalization.* `OneDrainingThread` speaks of the flag and the switch when nobody is inside
the setter. `ActiveInv` says it at every moment: the flag is set in the step that makes the
thread and cleared in the step in which the thread decides to stop, both under the lock
(`SetterLockInv`), and `SetterInv` carries what the setter has tested to where it uses it.

*The POSIX thread variables.* `TypeCorrect` holds for all behaviours. A thread that ends
beside a walk leaves stale links behind; `LinksInv` says that they still lead to threads that
have a vector, and `RoomInv` counts the allocations on their way in, so that an offset never goes
past the bound. The other two theorems speak of the behaviours of the same specification until
`overlapped`, and so do their invariants. `OrderInv` is what `~overlapped` gives: a thread that is
ending is alone in the list, although it has no lock; a step that would end that sets
`overlapped`. `ListInv` says that there is a sequence of threads, the running ones,
each once, that the links spell out from `head`; and where in that sequence the walks are: growth has
grown the vectors before its place, an allocation has given the new variable to those
before its place, and a removal has not yet passed the element it looks for. Adding an element
or cutting one out needs a new sequence, which the lemmas `ListAddHead` and
`ListCut` give. `DataInv` has the vectors: the key keeps pointing to the *first* vector of a thread, the list
may have a grown copy, and the point of `VectorOf` is that this happens only when the variable
that is being allocated lies outside the first one, so that what fits the first vector is read
and updated there. That is also the limit of `SeesItsValue`: of a variable that does not fit it says nothing,
and section 6 says why. While the vectors grow (`Growing`) and while a variable is allotted the invariants
differ, and `OffsetInv` carries the offset through that. `ListIsComplete` speaks of `Link`, a recursive
function; `LinkIsListing` identifies it with the sequence by a least counterexample, which
needs no induction.

*The Win32 locks.* `LockInOnePlace` says that the lock is with one thread, being handed on by
one, or in the semaphore. It is not inductive: a claim is granted to whoever takes the count
from -1 to 0, so what is needed is that the count is *not* -1 while the lock is anywhere
(`PlaceInv`), and nothing stronger is true. The count is not the number of claims, because
timeouts leave theirs in it and `lock_count--` may overwrite some. That it does not fall
too low either is what `OwnerInv` carries: the owner that takes its second claim back has
counted it (`lock_count >= 1` at the load, and a loaded value of at least 1 at the store),
so the store leaves at least zero whatever it overwrites. `DepthInv` adds the recursion count
and the claims granted at each label. All three hold until `crossed`, and `PartsStep` uses
`~Crossing` in the state after the step, since that is where a forced unlock begins to
act on a word that may change. `NobodyLeftBehind` needs the other direction, `CoverInv`: the
count is *no less* than the claims that somebody will still act on (`Claiming`, and one more
while a claim is granted), so that a release which finds nobody to wake is right. An
overwritten claim breaks exactly this, hence `~lost`.

*Their notification.* As on POSIX a step is a step of the lock or changes no more than a
return code (`LockOrSilent`), and `WhereInv` says where each thread is in the lock's
primitives; it depends on `~NCrossing`. `CountInv` says that the count is the number of threads
in `InCount`, and bounds it together with the threads on their way in (`Coming`); after a crossing,
when a wait may give up without taking itself off, the bound still holds. `HandshakeIsCompleted`
is strengthened to `HandInv`, which says what is behind a reset anti-notifier at each of
the three stages: a release that has still to set the notifier, one that is handed
out with its target not yet taken and a waiter to take it, and a waiter that completes it.
An overlap is a state in which two of these stages meet, and nothing is claimed from there on.

*The Win32 thread variables.* `CounterInv` adds to the counter only `SectionInv` (a thread at
a label inside the critical section is the one in it), so that there is one thread that
grows. With fewer writers than `TLV_GROW` has room for, the counter is negative exactly
during a growth, which decides every test of it. `DataInv` is what the values need, beside
the counter: `ListInv` (the list has each thread that is initialized and has not ended, once), `OffsetInv`
(which slots fit, and that the last slot is not a variable yet while it is being set up),
`InitialInv` (the default vector has the initial values that a thread which starts
now needs), `VectorInv` (a listed thread's vector in the TEB is the listed one; it is its last, as long as the
default, and has what the thread assigned, unless its turn in the walk is still to come),
`WalkInv` (the copy being installed is a copy of the vector in use, which holds because no
writer is let through meanwhile) and `AccessInv` (a reader may stand on an *old* vector, a writer
only on the one in use). The last distinction is the point of the code's asymmetry: reads
take no part in the counter.

*Only model-checked.* All liveness, since the prover has no fairness, and the disagreements
that the violation runs show.

## 6. What the checks show

The locks are right. The store that frees the lock outside the mutex, the feature of
this code that looks most like a mistake, loses no wakeup and breaks no exclusion; the
same holds of the unprotected claim count. The semaphore sends enough signals although it
sends them outside the mutex, and implements the abstract semaphore. The notification and its
lock implement the abstract monitor: a wait is atomic and returns with the lock. Joins, the
read-write lock and the finalization switch keep their invariants. The thread variables are
right for what fits the vector a thread starts with, until a thread ends beside another that
ends or uses the list.

On Win32 the locks are right as long as no forced unlock crosses another call: neither the
abandoned claims nor the unprotected decrement ever grant the lock twice. The notification
counts its waiters correctly and returns with the lock; its handshake is completed unless a
release overlaps a waiter that is still leaving. The thread variables, which are where
`posix-threads.c` goes wrong, are right: no growth loses a write or leaves a thread with a
short vector, and neither side waits for ever.

Three disagreements with the documentation, each a run that finds a violation:

1. `notification_release`: a woken waiter keeps `notification->mutex` while it waits for
   the simple lock (`posix-threads.c` 597); the owner of the lock blocks on that mutex in
   `release` (923). Two threads and one notification are enough to stop both. The
   `<read-write-lock>` meets it too: its release calls release-all with the inner lock owned (956),
   after it has set the state to 0, while a reader or writer whose wait has timed out has the mutex
   and waits for the inner lock (`Embraced` in `ReadWriteLock`). The lock is then free for ever, and every
   later wait-for and release of it blocks. A thread that finds the lock taken and goes to sleep
   (591) can meet the same thread in the same way.
2. `win32_handshake`: a release stores its target before it resets the anti-notifier (`win32`
   914). A waiter that saw the notifier of an earlier release and comes to its
   compare-exchange only now takes the new target, resets the notifier and sets the
   anti-notifier; the release then resets the anti-notifier and sets the notifier with
   its target already taken. Nobody sets the anti-notifier any more: waiters spin, and every
   wait-for and release blocks with the lock owned. It takes three threads and no time limit.
3. `thread_variables_removal`: a thread that ends takes its element off the list of vectors and
   frees it without `tlv_vector_list_lock` (`posix-threads.c` 262), under the feet of a thread
   that walks the list with the lock. The design document has the removal under the lock.

Other disagreements, with the definitions that state them; no run checks these:

* `primitive_release_semaphore` at the maximum returns with the mutex locked
  (`posix-threads.c` 885), and every later call on the semaphore blocks.
  `ReleaseDoesNotBlock` in `PosixSemaphore` is violated under `FairSpec` with the constants of
  the run `semaphore`.
* Growing the vectors replaces them in the list but not in the threads' keys
  (`posix-threads.c` 151), so a thread that exists does not get the initial value of a
  variable that did not fit: `GivenToAllThreads` in `PosixThreadVariables` is violated with
  vectors of 1 and two variables.

Seen on the way, in the models where the state is said to be:

* A duplicate join of several threads returns with `thread_join_lock` locked
  (`posix-threads.c` 399); after that no thread of the process ends and no join returns.
  `Leaked` in `PosixThreadJoin` is that state.
* A join of several threads returns the first completed one *in the order of the vector*
  (423), not the first to terminate.
* After a forced unlock that races with the owner's release, the claim count of a free
  recursive lock can be other than zero; the assertion at 1391 then fails on the next one.
* A release in read mode by a thread that has no claim ends the claim of another (`locks.dylan` 364);
  the model includes it.
* On Win32, `lock_count--` (186) of a second claim by the owner may overwrite the claim of a
  thread that has just gone to sleep. The lock is then released with nobody told, and the
  sleeper stays until another claim and release pass; `lost` in `Win32Lock`, without which
  `NobodyLeftBehind` is violated.
* Claims that timed out stay in `lock_count`, so that a free lock has its semaphore posted
  and a count of zero or more; the assertion `lock_count == -1` of a forced unlock of a free
  lock (`win32` 1508, 1536) then fails.
* A forced unlock that crosses the owner's release decrements the count twice, to -2; the
  next claim then waits for a semaphore that nobody posts. `crossed` is the state from there
  on.
* A timed-out waiter between `NWaitLate` and `NWaitProbe` (`win32` 777) may find the notifier
  of a release that did not count it and complete it in place of the waiter it was meant for;
  `overlapped` covers this too.
* `primitive_destroy_notification` uses a local variable before it is set (`posix-threads.c`
  1190), the time limits of the semaphore store milliseconds times ten as nanoseconds
  (729), and the time left of a Win32 notification goes negative (`win32` 773), which
  the kernel takes for a very long one; none of these is in the model.

## 7. Not modelled

Destroying locks, semaphores and notifications (finalization calls it on unreachable
objects); thread priorities, yield and sleep; pthread and kernel calls, allocations and creations
of threads that fail; the values of time limits. The Win32 semaphores and joins are single kernel calls and
would be checked against the model of the kernel alone; its synchronous threads shake hands
with the debugger. Sequential consistency is assumed for the unprotected words: on the x86
machines of these run-times aligned word accesses are atomic, every unprotected store of
`posix-threads.c` is followed by a mutex operation of the same thread, and in the
Win32 primitives every store that other threads wait on is, or is followed by, an interlocked
or a kernel operation (a claimer's store to the owner word is not, but it only matters to
that thread and to a forced unlock).

The rest of the tree is listed in 1.2. Most of it is compilers, user interface and the memory
pool system: sequential computations over large data, whose correctness is not a matter of
which step comes first and whose inputs no bounded instance represents.

## 8. Plan

Done: the POSIX threads system, its Dylan clients `<read-write-lock>` and finalization; the
Win32 locks, notifications and thread variables; the abstract exclusive lock that all
four kinds of lock refine, the abstract semaphore and the abstract monitor; the theorems of section 5.

Next, in this order:

1. `Monitor` as what `Win32Notification` implements too, until an overlap (there a release
   returns before the waiter it is for has been decided), and `ReadWriteLock` over
   its steps, where release-all does not block on a mutex but waits for the anti-notifier.
2. The asynchronous writer of the streams library, the timer thread (`libraries/timer`),
   HTTP server start and shutdown, the POA manager.
