# TLA+ models of the Cxy runtime and package tools

Cxy is a compiled language; this repository holds its compiler (C), a package
manager, command line utilities and the standard library, which is written in
Cxy itself on top of a little C. The hard behaviour of the repository is in two
places. Programs get cooperative coroutines, one scheduler per OS thread, an
event loop per scheduler, and synchronisation primitives that work between
coroutines of different threads (`stdlib/coro.cxy`, `stdlib/native/evloop/ae.c`).
And the command line tools are processes that share files: the package manager's
manifest, lock file and package directories, the tracker of background processes,
named locks, and the mtimes the script cache goes by. This project models both,
checks them with TLC on small instances and proves most of its safety properties with TLAPS.

All source paths below are relative to `src/cxy/` unless they begin with
`docs/`. `PROJECT.json` gives, for every definition that models code, the lines
it stands for.

## 1. Inventory

### The coroutine runtime

| Part | State | Operations | Talks to |
|---|---|---|---|
| `CoroutineScheduler` (coro.cxy 360-640) | `running`, `ready`, `pending` + `pendingMtx`, `counter`, `stacks`, event loop | `suspend`, `resume`, `resumeAndWake`, `yld`, `prologue`/`epilogue` (async), `sleep`, `timeout`, `fdWaitRead`, `fdWaitWrite`, `allocStack`, `freeStack` | its event loop by callbacks; other schedulers through `pending` and the eventfd |
| ae event loop (ae.c) | table of file events, linked list of timers, wakeup fd | `aeCreateFileEvent`, `aeDeleteFileEvent`, `aeCreateTimeEvent`, `aeDeleteTimeEvent`, `aeProcessEvents`, `aeWakeup` | the kernel; resumes coroutines |
| `Mutex` (coro.cxy 771-828) | `_locked`, `_holder`, `_waiters`, `_osMutex` | `lock`, `tryLock`, `unlock` | any scheduler |
| `ConditionVariable` (844-915) | `_waiters`, `_osMutex` | `wait`, `waitTimeout`, `notify`, `notifyAll` | `Mutex`, timers, any scheduler |
| `Semaphore` (917-966) | `_count`, `_waiters`, `_osMutex` | `acquire`, `tryAcquire`, `release` | any scheduler |
| `WaitGroup` (968-1020) | `_count`, `_waiters`, `_osMutex` | `add`, `done`, `wait` | any scheduler |
| `Channel` (684-735) | `_buffer`, `_in`, `_out` | `send`, `receive` | coroutines of its own thread, timers |
| `CoWaitGroup` (736-767) | `_count`, `_waiters` | `add`, `done`, `wait` | coroutines of its own thread |
| `List`, `Atomic`, `CircularBuffer` | head, tail, count; a word; ring of slots | `push`, `pop`; `load`, `store`, `compareAndSwap`, `fetchAdd`, `fetchSub` | used by all of the above |

What makes this code hard:

* **One link field for all lists.** A `Coroutine` is a node of `ready`,
  `pending` and of the waiter lists through the same field `link`. Being in two
  lists at once corrupts both. `List.push` asserts that `link` is null, which
  does not notice an item that is the last one of another list.
* **Visible before asleep.** A waiter puts itself on a shared list and only
  later suspends. Another thread can pop it, push it on `pending` and signal its
  event loop while it still runs.
* **Check, then act.** `lock`, `acquire` and `wait` look at an atomic and then
  queue under an OS mutex; the state may change in between.
* **Stale events.** A file event stays registered, and a time event armed, until
  the coroutine it resumes has run; a coroutine's identity is its stack, and
  stacks are reused.
* **Timeouts.** A timer may race the notify, send, receive or event it guards.
* **Liveness.** A busy scheduler polls only after 103 switches; a sleeping one
  depends on the eventfd.

### The command line tools

| Part | State | Operations | Talks to |
|---|---|---|---|
| async command tracker (`utils/async_tracker.c`, copied in `package/`; `utils/commands/async_cmd.c`, `package/commands/run.c`) | one tracker file per session, the processes it lists | `async-cmd-start`, `async-cmd-stop`, cleanup at the end and on signals, sweep of stale trackers | scripts, other sessions in the same directory |
| `cxy utils lock` (`utils/commands/lock.c`) | a `flock`, the pid in the lock file, the child | acquire with a polling deadline, run, release | other `cxy utils lock` |
| package commands and resolver (`package/commands/{add,remove,install,update}.c`, `resolver.c`, `cxyfile.c`) | `Cxyfile.yaml`, `Cxyfile.lock`, `.cxy/packages` | `add`, `remove`, `install`, `update` | git repositories |
| versions and constraints (`package/types.c`) | none | `compareSemanticVersions`, `versionSatisfiesConstraint` | the resolver, `update` |
| package scripts (`package/commands/run.c`, `cache.c`, `types.c`) | mtimes of inputs and outputs | validation, execution order, cache check, run | the file system, the tracker |

What makes this code hard:

* **Killed anywhere.** Each tool works in several steps on several files, each of
  which it rewrites in place (`fopen "w"`, `ftruncate`); the next invocation has
  to live with whatever was left.
* **Locks on some paths only.** `asyncTrackerAdd` takes the file lock,
  `asyncTrackerRemove`, the cleanup and the sweep do not.
* **Descriptors and children.** A `flock` belongs to an open file description;
  a fork shares it and a killed parent leaves its child behind.
* **The world moves on.** Tags are released between two resolutions of one
  command; sources are edited while scripts run, within one tick of the clock.

### Other components

| Part | Why it is not here |
|---|---|
| `CoWaitGroup`, smart pointers (`runtime/builtins.cxy`), `RedisDb` connection cache | small; see the plan |
| git, registry, install scripts, manifest parsing, other package commands, `wait-for` | external programs, text and printing |
| compiler: front end, middle end, back ends, driver, plugins | sequential transformations of large terms; no small state space |
| core containers, JSON, YAML, HTTP, ... | sequential code, or clients of `fdWait*` whose contract is checked here |
| vendored code | not the program's own; tinythread's mutex is taken as mutual exclusion |

By lines the compiler and the vendored code are nearly all of the repository, so
the lines the models stand for are a small share of it.

`PROJECT.json` lists all components, and under `hazards` every place found
where something may go wrong that a test would hardly reach.

## 2. Modules

```
CoroThreads        schedulers as other threads see them
  +- CoroMutex     coro.Mutex                 --implements--> AbstractMutex
  |    +- CoroCondVar             coro.ConditionVariable, on the mutex
  |         +- CoroMutexProofs    theorems about both
  +- CoroSemaphore coro.Semaphore
  |    +- CoroSemaphoreHistory    properties around its race
  |         +- CoroSemaphoreProofs   theorems
  +- CoroWaitGroup coro.WaitGroup
  |    +- CoroWaitGroupHistory    properties around its races
  |         +- CoroWaitGroupProofs   theorems
  +- CoroChannel   coro.Channel
       +- CoroChannelProofs       theorems
CoroScheduler      one scheduler with its event loop in detail
  +- CoroSchedulerProofs          theorems

AsyncTracker       tracker files of background processes  \
UtilsLock          cxy utils lock                         /  UtilsProofs
PackageManager     add, remove, install, update  \
SemVer             versions and constraints      /  PackageVersions
PackageScripts     execution order and cache of package scripts
                   PackageManagerProofs has the theorems about all of these

Lists              the loop that copies some entries of a list
QueueLemmas        facts about sequences as lists, cited by the proofs
MC*                instances for TLC
```

**CoroThreads.** Every thread `t` has `ready[t]`, `pending[t]`, `running[t]`,
`wakefd[t]` (its eventfd is readable) and `tpc[t]`: in user code, in `suspend`'s
loop, or asleep in epoll. `Dispatch` is one turn of that loop, `processPending`
included; `PollWakeup` ends epoll; `Yield`, `Async` and `Epilogue` are the
scheduler's own calls; `Resume`, `PushPending`, `AeWakeup`, `Suspend`,
`ResumeHere`, `ResumeThere` and `WakeThere` are the pieces the primitives
combine. A step touches shared state at most once. Critical sections under an OS
mutex that touch only what the mutex protects are one step; `unlock` is not,
since it stores to `_locked` and `_holder`, which `lock` uses without the mutex.
The fast path of `processPending` reads `pending` without the lock; a stale
answer is the interleaving in which the read came first. `WakeupMask` is the
mask `aeCreateEventLoop` leaves in the wakeup slot (none), hence `PollWakeup`
does not drain the eventfd: an event loop that was signalled once never sleeps
again, although `ae.c` 721 says that the callback drains the fd.

**CoroMutex.** `mpc[c]` is the program counter of `c` in `lock`, `tryLock` or
`unlock`; one action per atomic access, per critical section and per resume.
`AbstractMutex` says what callers are promised: one owner and a FIFO queue.

**CoroCondVar** reuses the mutex's actions for the calls of `unlock` and `lock`
inside `wait`; `cpc[c]` is the return address. `TimerFires` may happen at any
time while the timer is armed. Beside `CvSpec` there are two restrictions of its
steps, `ExactSpec` and `QuietSpec`, explained in section 3.

**CoroSemaphore**, **CoroWaitGroup.** The atomics' operations are separate
steps. `sawZero[c]` in the wait group is a history variable: the count was zero
at some moment of `c`'s present call of `wait`. **CoroSemaphoreHistory** and
**CoroWaitGroupHistory** add further histories that record the known races
between threads (`raced`; `missed` and `reused`), and state the properties those
races break under the condition that the race has not happened.

**CoroScheduler** is one thread in detail. Nothing here is shared with other
threads, so a step is what happens between two points at which the kernel or the
clock can act. `EnterPolls` is the poll a busy scheduler makes when its counter
has reached `SwitchLimit`, `PollBlocks` the one of an idle scheduler, both with
the whole of `aeProcessEvents`: file events in any order, then the timers that
are due in list order. `Dispatch` includes the rest of the blocking call
(`aeDeleteFileEvent`, `aeDeleteTimeEvent`). `Arrive` and `Expire` are the
environment. Stacks are named after the coroutine that lives at their top.

`QuietSpec` leaves out that a timer expires for a coroutine that is already in
`ready`.

**CoroChannel.** The buffer is its size. `dropped` and `missed` record that a
`push` or `pop` took the error branch the code's comments call impossible.
`PollTimers` is both the poll of an idle scheduler and the one `suspend` makes
every 103 switches, with coroutines ready; the switches are not counted, so it may
happen on any way into `suspend`. `TimeoutFirst` and `OneEach` name the timings
and the programs the properties are about (section 3): a call whose timeout
expired is the next to run, and there is one sender, one receiver and a capacity
of one.

**AsyncTracker.** Sessions (`spc`) and threads of their scripts (`cpc`) take one
step per access to a file and per kill. A file is a header and its lines;
`linked[c]` says whether the file a command has open still has its name, since
cleanup and sweep unlink. `Overwrite` is what a buffered write from offset 0
does to a file somebody appended to meanwhile; the header and all lines have one
length (ten bytes, which is that of a line with a pid of seven digits). Two history variables:
`strays` collects, where it happens, every process that a race or a crash puts
out of reach (section 3), and `due[s]` is what session `s` found recorded by
dead sessions when it began.

**UtilsLock.** One process per `cxy utils lock`, with the child it forks.
`flock` names the open file description that has the lock: a killed parent
keeps it locked until its child has closed the descriptor. `orphan` is the set
of commands whose parent was killed.

**SemVer** translates the comparison and the nine cases of
`versionSatisfiesConstraint`. A prerelease is its rank in the order of `strcmp`.

**PackageManager** has the test of a constraint as a parameter, and its versions
are numbers in the order of their tags; `Recorded` is a version as the lock
file's version field has it, without its prerelease, which is what `update`
compares. **PackageVersions** ties both to `SemVer`:
`Releases[v]` is the semantic version of tag `v`, and the test is
`versionSatisfiesConstraint`. One command runs at a time, as a
user would run them, and may be killed at any step; uses of the network may
fail, and repositories release versions at any time. A directory is what is
checked out in it, `Broken` without a `Cxyfile.yaml`. History variables:
`promised` (what the last install said was installed), `verified` (it went
through `--verify`), and `top[n]` (the highest version ever locked).

**PackageScripts.** `Visit` is the depth-first walk of
`resolveScriptDepsRecursive`; `rec` stands for its recursive calls. `Walk` ties the
knot: it is a recursive function of how deep the calls may nest, and not a
RECURSIVE operator, so that the proofs can reason about it. Since a script that is
being visited is not entered again, the calls nest at most once per script and
`Depth` is no restriction of the code. `Needs` says what the order should hold
without any walk: the least set with the dependencies that is closed under
dependencies. History variables: `stale` (outputs that are not what their inputs
give), `raced` and `late` (see `SuccessIsFresh`).

**Lists** has one operator, `Only`: the loop with which the event loop and
`asyncTrackerRemove` copy the entries of a list that they keep. It is a recursive
function and not a RECURSIVE operator, so that the proofs can reason about it.

Operators named `MOp...` just before an operator `Op` are faulty forms of it (a
dropped guard, a forgotten reset, a wrong order). No specification uses them;
they serve to show that each property can fail (`mutants` in `PROJECT.json`).

## 3. Runs

### What holds

| Run | Instance | Distinct states | Shows |
|---|---|---|---|
| Mutex | 2 threads, 2+1 coroutines | 4 056 | `MutexInv`, the proofs' invariant (exclusion and list integrity are parts of it); no thread sleeps on work; a popped waiter returns from `lock`; without the race below (`RacelessSpec`) it implements `AbstractMutex` and every `lock` returns |
| CondVar | 2 threads, 2+1 | 263 384 | `wait`, `waitTimeout`, `notify`, `notifyAll`: exclusion, list integrity, `true` only after a notify, no sleep on work; if a timer expires only for the sole waiter and the condition variable is given up after a timeout (`QuietSpec`) |
| Semaphore | 2 threads, 2+1, 1 permit | 13 456 | permits are conserved, the overdraft is bounded; without the lost-wakeup race nobody is stranded and free permits are used |
| WaitGroup | 2 threads, 2+1, count up to 2 | 53 696 | drained waiters return; without the two races `wait` means zero, nobody is stranded and zero releases everybody |
| Scheduler | 3 coroutines, 1 fd, limit 3, cache of 1, all operations | 99 266 | nobody queued twice, no dangling event, results match events, stacks safe with the cache at its limit; coroutines that keep yielding do not starve fds and timers |
| Channel | 1 sender, 1 receiver, 1 bystander, timeouts and sleeps | 1 246 | no message lost or missed, no double resume, both ends progress, if a call whose timeout expired is the next to run (`QuietSpec`) |
| Tracker | 2 sessions, 2 threads, 3 jobs, limit of 1 process | 1 032 315 | every background process stays findable, sweeps never take a live session's tracker, and what dead sessions had recorded is gone before a script starts; all up to `strays` |
| UtilsLock | 3 processes, no timeout or 2 polls | 44 112 | commands exclude each other unless a parent was killed; the file names the holder; wherever its holder is killed the lock is freed |
| Package | 2 packages (one dev), 2 versions, 2 constraints | 3 598 915 | an install that succeeds repairs what was left behind; `--verify` accepts only the locked version; a caret constraint is never locked at an incompatible version; the lock file never goes back |
| Scripts | 3 scripts, all 4096 dependency graphs, clock up to 3 | 1 311 914 | cycles are found, the order is complete, nothing runs before what it needs, a successful run has fresh outputs |

On two threads, 2+1 coroutines give a remote waker, a remote waiter and a local
competitor, and both kinds of resume: within a thread and across. One permit and
a count of two are the smallest values with contention and with a `done` that is
not the last. The theorems of section 4 remove the bounds from what the runs say
about the safety of these primitives, and of the channel for one sender and one
receiver among any number of coroutines.

`SwitchLimit` stands for 103 and `MaxStacks` for 32; only their relation to the
number of coroutines matters. A scheduler runs each ready coroutine once before
it runs any twice, so as long as there are no more coroutines than `SwitchLimit`
whatever a poll made ready has run before the next poll of a busy scheduler. The
Scheduler run sits exactly on that boundary (3 and 3), and the theorems about the
scheduler have it as their hypothesis `FewCoroutines`. With a cache of one stack
every second exit meets the limit, where `freeStack` forgets the stack it was
given; `StackSafe` shows that to be a leak only, not a use after free.

Two sessions are one that dies and one that sweeps, or two that live side by
side; two threads are the smallest number with a start during a stop, and with a
limit of one (64 in the code) both checks of the limit meet it. Jobs and
threads are interchangeable, hence the symmetry. For the lock three processes
are a holder, an orphan and a waiter. Two
packages are one a command is about and one it leaves alone; versions
0.1.0 and 0.2.0 with `^0.1.0` and "any" give a constraint that lets an update
through and one that does not, by the rule for major number 0. Three
scripts have all shapes up to cycles of three, diamonds excepted; two of them
are cacheable and have sources, the third is neither. Three ticks are an edit
before, during and after an output is written. For the tracker, the lock, the
package commands and the scripts (diamonds included) the theorems remove the
bounds.

### Where code and documentation disagree

Each of these runs ends in a counterexample; the finding in `PROJECT.json`
quotes the line of the repository that says otherwise.

| Run | Counterexample |
|---|---|
| MutexNoLostWakeup | `lock` fails its swap, the holder unlocks and sees no waiter, `lock` queues itself and sleeps on a free lock |
| CondVarTimeout | a notify pops the entry of a timed-out waiter and resumes it inside `mutex.lock`: two coroutines in the critical section |

Past a state in which a coroutine is in two lists a sequence no longer describes
an intrusive list. CondVarTimeout therefore uses `ExactSpec`, whose steps stay
where sequences are exact, so its counterexample is a real execution.

### Known races the passing runs are careful about

These were met while modelling. The passing runs state the properties around
them, so that everything else is still checked; dropping the restriction named
here reproduces each one.

* *Mutex.* `unlock` finds `_waiters` empty while a `lock` on another thread is
  between its failed swap and its push: the run MutexNoLostWakeup. `RacelessSpec`
  leaves out exactly that. Also, `unlock`'s `_holder = null` can land after the
  next owner's entry, so `_holder` does not always name the owner; nothing in the
  modelled code depends on it.
* *Condition variable.* `waitTimeout` leaves its entry in `_waiters` when it times
  out, and the entry's `link` has one place only. `QuietSpec` has two conditions.
  `SoleExpiry`: a timer expires only for the one waiter in the list. Otherwise
  the waiter is linked to others, `resume` pushes it on `ready` with the rest of
  `_waiters` in tow (`List.push` asserts), and a waiter nobody notified may run;
  or a notify on another thread has popped it already, and it is resumed twice.
  So two waiters with timeouts suffice, without any notify. `UnusedAfterTimeout`:
  once a wait has timed out nobody uses the condition variable any more.
  Otherwise a notify pops the entry left behind (the run CondVarTimeout), or a
  wait links itself behind a coroutine that is in another list by then. Programs
  that use a condition variable after a timeout, or time out with other waiters
  in line, are therefore outside what holds. `CvSingleQueueMembership` speaks of
  entries whose coroutine still waits.
* *Semaphore.* `acquire` tests the count and takes the permit in two steps, so
  each further thread can overdraw by one (`OverdraftBounded`). A release
  between the test and the push wakes nobody (`raced`).
* *Wait group.* The last `done` may drain between `wait`'s load and its push
  (`missed`); an `add` between its `fetchSub` and its drain lets the drain
  release waiters of the next round (`reused`).
* *Scheduler.* A coroutine in `timeout(ms)` that another one resumes may be
  resumed by its timer as well before it runs (`QuietSpec` leaves it out). With
  more ready coroutines than `SwitchLimit` an fd is reported again before its
  coroutine ran, which is pushed twice: with `SwitchLimit = 2` `ReadyOnce` fails.
* *Channel.* A sender whose timer fired can be resumed again by a receiver that
  runs before it, and an end the other one has just resumed can be resumed again
  by its timer, in the poll a busy scheduler makes (coro.cxy 481). `TimeoutFirst`
  leaves both out: nobody runs between the expiry of a call's timeout and the
  return of that call. Without it `ReadyOnce` fails. With two senders the room is gone when the
  resumed one runs and its message is dropped, with two receivers the buffer may
  be empty: with a second coroutine in `Senders` `RoomAfterWait` fails.
* *Tracker.* A process gets into `strays` when its line is appended to a file
  that is unlinked, that a stop is rewriting from an older copy, that a cleanup
  or sweep has already read, or that has no header for the moment; when two starts
  both take the last place; when the start is killed between fork and append;
  and when a stop is killed, or the tracker read or removed, between truncation
  and rewrite. Each disjunct of `strays'` is one
  of these; leave out any one and `Accounted` fails.
* *Named locks.* The `flock` is not inherited by the command, so the command of
  a killed `cxy utils lock` runs on beside the next holder's.
* *Scripts.* A script that fails after it wrote its output, or whose source is
  edited while it runs, leaves an output newer than its inputs: the next run
  skips it.

The races between threads need two of them: on one thread nothing yields between
the test and the push.

### Where the package commands differ from their documentation

Met while translating; none is a run of its own, since the model simply does
what the code does.

* `install --verify` verifies only when the lock file was written by the same
  command; with a lock file that was loaded it does nothing (docs/package.md 686).
* `install --frozen-lockfile` resolves an outdated lock file anew instead of
  failing (docs/package.md 687, 713).
* `remove` resolves all that is left anew; docs/package.md 653 says "Preserves
  exact versions".
* `add --constraint` and `--tag` are ignored in favour of the latest tag.
* `update --latest` installs the latest version and then locks the one the
  constraint gives.
* A dependency with a local path loses the path in `install` and fails.
* A clone that was killed after `Cxyfile.yaml` was checked out passes for
  complete.
* `1.0.x` accepts every `1.y.z`, since a minor number of zero counts as absent.
* `update.c` 184 keeps a pointer to a variable of an inner block and uses it at
  213, after the block has ended.

### Fairness

* A thread keeps executing: weak fairness of its scheduler step and of the steps
  of the coroutine it runs. Between suspension points nothing preempts a
  coroutine but the OS.
* Taking an OS mutex is strongly fair: tinythread's mutexes are the platform's,
  and critical sections are a few instructions.
* A holder eventually unlocks or releases, and a running coroutine eventually
  suspends. Both are obligations of the program under cooperative scheduling;
  without them no primitive can promise anything.
* Time passes: an armed timer eventually expires. Nothing is assumed of fds. In
  the Channel run every sleep outside the channel ends (`SleepEnds`, strongly
  fair): the counter poll reaches its timer even if others yield for ever, as the
  Scheduler run shows (`SleeperWakes`). The return from it (`Awake`) is weakly
  fair. Nothing is assumed about the timeouts of channel calls, so
  `BothEndsProgress` does not rest on them.
* No fairness is assumed for calling `lock`, `acquire`, `add`, ...: programs may
  stop using a primitive. Channel ends are an exception, `BothEndsProgress` is
  about a sender and a receiver that keep using theirs.

* In UtilsLock every process keeps running and every command ends; nothing is
  assumed about who gets the lock, or about starts and kills.
* The other runs of the tools check safety only and assume no fairness.

Deadlock is checked in Package and Scripts, where a new command can always be
given. Elsewhere the system may legitimately stop: everybody asleep in epoll
without events, everybody waiting for a notify, a permit or tasks never done, or
all sessions ended.

## 4. Proofs

TLAPS checks the theorems below for every value of the constants that satisfies
the named assumptions; TLC evaluates the assumptions in the runs. Each result is
an invariant that follows from an inductive one, and the proofs have one lemma
per action or group of like actions, with a step per conjunct it can disturb.

| Module | Theorem | States |
|---|---|---|
| CoroMutexProofs | `InvHolds`, `TypeCorrect`, `LinkIsExclusive` | `MutexInv` and its parts |
| | `MutexExcludes` | `MutualExclusion` |
| | `NoSleepOnWork` | `SleeperIsSignalled` |
| | `MutexRefines` | `RacelessSpec` implements `AbstractMutex` |
| | `CvInvHolds` | `CvInv`, of the condition variable |
| | `CvExcludes`, `CvLinkIsExclusive`, `CvReturnsNotified`, `CvNoSleepOnWork` | `MutualExclusion`, `CvSingleQueueMembership`, `TrueMeansNotified`, `CvSleeperIsSignalled` |
| | `UntimedWaitIsCorrect` | the four of them for every execution, if no wait has a timeout |
| CoroSemaphoreProofs | `SemaphoreQueues`, `CountInvariance` | `QueueInv`, `CountInv` |
| | `PermitsAlwaysConserved`, `OverdraftAlwaysBounded` | `PermitsConserved`, `OverdraftBounded` |
| | `NoWaiterIsStranded` | `NoStrandedWaiter` |
| CoroWaitGroupProofs | `WaitGroupQueues` | `QueueInv` |
| | `WaitAlwaysMeansZero`, `NoWaiterStaysStranded` | `WaitMeansZero`, `NoStrandedWaiter` |
| CoroSchedulerProofs | `SchedulerInvariance` | `SchedInv` |
| | `ReadyAlwaysOnce`, `EventsNeverDangle`, `VerdictAlwaysMatches`, `StackAlwaysSafe` | `ReadyOnce`, `NoDanglingEvent`, `VerdictMatches`, `StackSafe` |
| CoroChannelProofs | `ChInvHolds` | `ChInv` |
| | `ChReadyOnce`, `ChNothingDropped`, `ChNothingMissed` | `ReadyOnce`, `RoomAfterWait`, `DataAfterWait` |
| | `UntimedChannelIsCorrect` | the three of them without `TimeoutFirst`, if no call has a timeout |
| UtilsProofs | `TrackerInvariance` | `TrackerInv` |
| | `AlwaysAccounted`, `LiveTrackersAlwaysStay`, `StaleAlwaysSwept` | `Accounted`, `LiveTrackersStay`, `StaleSwept` |
| | `LockInvHolds` | `LockInv` |
| | `LockExcludes`, `LockNamesHolder` | `CommandsExclusive`, `HolderIsNamed` |
| PackageManagerProofs | `PackageInvariance` | `PackageInv` |
| | `InstallAlwaysRecovers`, `VerifiedIsAlwaysExact`, `LockNeverGoesBackTheorem` | `InstallRecovers`, `VerifiedIsExact`, `LockNeverGoesBack` |
| | `LockedAlwaysSatisfies`, `LockedAlwaysCompatible` | `LockedSatisfies`, `LockedIsCompatible` |
| | `ComparingIsATotalOrder`, `ConstraintsAreIntervals` | the order of versions, `RangesAreIntervals` |
| | `ScriptsInvHolds` | `ScriptsInv` |
| | `OrderAlwaysComplete`, `DependenciesAlwaysFirst`, `SuccessAlwaysFresh` | `OrderComplete`, `DependenciesFirst`, `SuccessIsFresh` |

**Threads and lists.** Mutex, semaphore and wait group share the assumptions of
`CoroThreads`: `HomeAssumption` (each coroutine has a thread), `MainAssumption`
(each thread has a main coroutine of its own) and `NullAssumption`. Sets of
threads and coroutines may be infinite, except that the semaphore needs finitely
many threads (`ThreadsAssumption`), since its bound counts them. What is promised
about a lock, a permit or a count depends on who can have resumed a coroutine
that comes out of `suspend`, and so on every list of every scheduler. Each module
therefore starts with the same group of conjuncts, in `MutexInv` or `QueueInv`:
no coroutine is in two lists; `WaitersWait` (who is queued or popped is in
the slow path), `ExecutingIsUnlinked` (who executes is in no scheduler list,
except one popped on its way to `suspend`; who executes after `suspend` is no
longer a waiter), one popping call per waiter, and `DeadAreUnlinked` (a coroutine
without a stack is nowhere). `QueueLemmas` states what `Append`, `Tail` and
concatenation do to the elements and to the injectivity of a sequence.

*Mutex.* `NoSleepOnWork` is a second induction on top of `MutexInv`. For
`MutexRefines` the owner of the abstract mutex is the coroutine that `Owns`, and
its queue is `waiters`; that each step is an abstract one or a stutter needs
`OwnedInv`: a set flag has an owner, and who queues, or is about to, does so for a
lock that is taken. The second part is what the lost wakeup breaks, so the
theorem is about `RacelessSpec`.

*Condition variable.* `wait` calls `unlock` and `lock`, so its proof is the mutex's
with one difference: a coroutine in the `unlock` of a `wait` is in the condition
variable's list already, and a notify on another thread may have pushed it on
`pending` while it executes, which `ExecutingIsUnlinked` rules out for the mutex. The lemmas about the mutex's actions are therefore stated for
`InvBut(E)`, `MutexInv` with the coroutines of `E` excepted from that one
conjunct: `E` is empty for the mutex alone and `Unlocking` here. `CvInv` adds that
`cpc` and `mpc` agree (`CallsMatch`), that a notify has in hand only who has left
the list and still sleeps (`HandsOff`, `SleepersSleep`), and who may have an armed
timer (`TimersArmed`). The theorems about programs with timeouts are about
`QuietSpec` and say nothing beyond its two conditions (section 3): expiry for a
sole waiter only, and no use of the condition variable after a timeout. What they
do cover is the waiter that times out, runs on and competes for the mutex beside
everybody else while its entry stays in `_waiters` and earlier notifies are still
under way, and every use before the first timeout. Without timeouts the
conditions hold of themselves: `UntimedWaitIsCorrect` derives that from `CvInv`
and has no such restriction.

*Semaphore* (`PermitsAssumption`). `CountInv` is about the two steps of `acquire`:
nothing interrupts a coroutine that has seen a permit, so those between test and
`fetchSub` are on different threads (`SeenRuns`), and the count is at least
`1 - Cardinality(Threads)` even when all of them have taken theirs
(`RoomForTakers`). `StrandInv` follows a waiter from its failed test on.

*Wait group* (`MaxCountAssumption`). The local list of a `done` counts as a list.
`ZeroInv`: unless `reused`, a drain under way means that the count is zero and all
who are in `wait` have seen it so; whoever is off the list was taken off by such a
drain. `StrandInv`: unless `missed`, who is on the list or on the way to it has a
positive count or a drain to wait for.

*Channel* (`ChannelAssumption`). What a resumed sender finds depends on nobody
having used the buffer since. `ChInv` says so: `_in` and `_out` are exactly who is
parked (`SlotsMatch`); a sender that no timer resumed is up exactly when the
buffer is empty, a receiver exactly when it is full (`ResumedForACause`); and a
call that has timed out runs or is the next to run, so that the other end cannot
resume it again (`TimedOutRunsNext`). The last part is what `TimeoutFirst` is for;
sleeps need no such condition and may end in any poll. With no timeouts it is
void, and `UntimedChannelIsCorrect` does without. Hypothesis `OneEach`: with two users of one end the slots are
overwritten and the properties fail (section 3), and a capacity of one is what
`CircularBuffer.init` gives.

**Scheduler** (`SchedulerAssumption`). The four properties need each other: a
coroutine that is ready twice would run on after its stack went back to the
cache, and it is ready once because whatever could resume it again is gone when
it is resumed. `SchedInv` adds `TimersOnce`, `OneWaiterPerFd`, `CacheIsMapped`
and, for the busy scheduler, `RunsBeforePoll`: a coroutine resumed for an fd at
place `i` of the ready list runs before the counter reaches the limit. The
theorems have the hypothesis `FewCoroutines`, no more coroutines than
`SwitchLimit` (103), which the code does not enforce: beyond it `ReadyOnce` fails
(section 3). They are about `QuietSpec`. What the loops of `aeProcessEvents` do to
the lists is in `ServedProperties`, `DueProperties` and `TimedOutProperties`.

**Tracker** (`TrackerAssumption`). `TrackerInv` gives the shape of sessions and
threads at each place, and for every process that is alive and not in `strays`
the five facts of `JobInv`: some tracker lists it or will; a removal will write it
back exactly if its tracker has it; no reader of a whole tracker misses it;
whoever will unlink a tracker that lists it kills it before; and a sweep comes to
every stale tracker that lists it. `Accounted` alone is not inductive, since it
does not know what a removal has in its buffer, or a sweep in its list.

**Lock** (`LockAssumption`). Exclusion of the commands is not inductive: a state
with one command running and the `flock` free would satisfy it. `LockInv` adds
that an owner, and a child that has not executed yet, has the `flock`; that
whoever has it is one of these; that a child that is not an orphan has its parent
in `waitpid`, and an orphan no parent; and that the file names the process from
the write of its pid to the release.

**Package commands** (`PackageAssumption`). `PackageInv` relates the files to
the command at each of its steps: what an install has resolved fits manifest and
tags (`ResolvedFits`), what it is done with is on disk (`InstallGoesOn`), the
highest version ever locked is one that resolving again may choose
(`TopIsReachable`), and an add pins no less than it (`AddPins`). With
`ReleasesAssumption` (tags are numbered in the order of
`compareSemanticVersions`, and constraints are tested by
`versionSatisfiesConstraint`), `LockedAlwaysCompatible` combines
`LockedSatisfies` with the upper end of a caret interval.

**Versions**, for all natural numbers (`NumbersAssumption`). The order is proved
first for prereleases and then lexicographically. Caret and tilde accept the
intervals the comments in `types.c` give, and so do wildcards except those with a
minor number of zero: `1.0.x` accepts what `1.x` does, where the comment at
`types.c` 465 would have it end at 1.1.0.

**Scripts** (`ScriptsAssumption`: finitely many). First the walk, for every graph
and by induction on the depth its calls may nest. `Sound`: a call that finds no
cycle adds its script to the order, and else only what the script needs, keeps
each script after its dependencies, and leaves `visiting` as it was. `Complete`:
if all scripts being visited need the one visited now, and the depth has room for
the others, a call fails only if some script needs itself. Together they give
`OrdersComplete`. Then the runs. That a successful run leaves fresh outputs is not
inductive; `ScriptsInv` adds that no file is from the future (`FilesArePast`); that
a stale output is missing or not newer than some input (`StaleShows`), which is
what `checkScriptCacheWithEnv` sees; and that what is left of the order is
injective, disjoint from what is done, and each script in it follows its
dependencies (`Ahead`). The last part is needed since a script that writes its
output makes its users stale: none of them may be done already.

*Induction over data.* The library's induction theorems take an operator and
cannot be used. `QueueLemmas` proves induction in set form from well-foundedness
(`Induction`: a set of numbers with 0 that is closed under successor is `Nat`),
and with it that `Only` is defined for every list and keeps exactly the entries
it should (`OnlyIsDefined`, `OnlyProperties`), and that a loop over the entries of
a list is defined (`LoopIsDefined`), which the walk over the scripts needs.

**Only model-checked**: liveness under fairness, which the prover cannot treat
(`HandoffArrives`, `NoLostWakeup`, `FreePermitIsUsed`, `ZeroReleases`,
`WokenReturns`, `FdServed`, `SleeperWakes`, `BothEndsProgress`, `LockIsFreed`).
Every invariant of a passing run is stated by a theorem.

## 5. Not modelled

Inside the modelled files of the runtime: `deinit` and destruction of primitives
in use; failing system calls (`mmap`, `epoll_ctl`, the assertion after
`aeCreateTimeEvent`); an fd table that is too small; two coroutines on one fd;
`AE_BARRIER`, hooks and the other polling back ends; the clock running
backwards; `CoWaitGroup`; channel buffers larger than one
(`CircularBuffer.init` reads its own field instead of the parameter, so one is
what zeroed memory gives); memory reordering weaker than sequential consistency,
since `Atomic` uses the strongest order and lists are read under locks, except
the fast path mentioned above.

Of the tools: reused pids (the sweep kills whatever has the recorded number);
log files of captured output; failures of the local disk; a lock file larger
than a stream buffer, which would reach the disk in pieces; dependencies given by
a path and what they bring in; `--branch`; install scripts; two package
commands at a time in one project; the registry as a source of tags (there `add`
chooses by constraint instead of taking the latest, so `LockNeverGoesBack` is
about packages added by their repository); annotated tags, whose object
`git ls-remote --refs` gives and `--verify` never finds checked out; a
`git rev-parse` that fails on a local clone, after which `--verify` only warns;
the moment in which `add` or `remove` has truncated `Cxyfile.yaml` and not
written it yet (killed there, they leave an empty manifest); the deletion of an
input file of a script, which goes unnoticed while another input is left; parsing of
manifests, versions and constraints; glob expansion and environment variables of
scripts.

The compiler is not modelled at all: its state is the program it compiles, its
passes are sequential, and what could be said about them (that types are
preserved, that code computes what the source says) needs a semantics of the
language rather than a state machine. The other components are listed in
section 1.

## 6. Plan

1. `CoroScheduler`: two coroutines on one fd, with the shared `clientData` and
   timer node; `CoWaitGroup` on `CoroThreads`; channels with several waiters.
2. `SmartPtr` (reference counts on two threads) and `RedisCache`.
3. Where a property has been proved, its run gives way to the question of a new
   module, so that the set of runs stays small.
