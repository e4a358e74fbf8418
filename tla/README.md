# Verification project for uprobes_tests

TLA+ models of the uprobes test suite: the programs that are probed, the kernel
modules that probe them, and the scripts between them. TLC checks the models on
small instances; TLAPS proves the theorems of the `*Proofs` modules for every
instance: all invariants that the passing runs check, and the refinement.

The suite is small, but it is concurrent nearly everywhere: a probe handler runs
in the context of each probed thread, so that the user program, its threads, the
handlers, a second consumer of the same probe point, `cleanup_module()` and the
readers of the log all interleave. What is verified here is the tests themselves:
that a test which says PASSED has seen what it claims, that it says so when it
should, and that a module goes without leaving anything behind.

## Inventory

| part | files | state | operations | what is hard |
|---|---|---|---|---|
| slots | `include/u_test_common.h`, `include/u_mod_common.h` | `struct uinfo`: tids and two counts; `num_probes` | `probe_N`, `_probe_N`, `probe_handler`, `BUILD_PROBE_TABLE` | two sides count in the same memory; widths of ulong, int, pid_t; unprotected global |
| counting tests | `uprobes.w/uthread.c`, `suicide.c`, `tdie.c`, `texec.c` with `kthread.c`, `ksuicide.c`, `ksuicide2.c`, `kdie.c`, `kexec.c` | threads, loops, results | create, call, join, report | interleaving; threads that die in a handler, by a signal, by exec |
| unregistration test | `uprobes.w/unreg.c`, `kunreg.c` | `probes[]`, `num_reg_probes` | `register_all`, `unregister_all`, `thread_1`, `thread_2` | registration that stops half way; an unregistration that is not hooked |
| the log | `include/udbgfs.c` | `print_buf`, the debugfs files, `entry` | `test_printk`, `read_data`, `write_cleanup`, `u_dbfs_init`, `u_dbfs_cleanup` | a full buffer, readers without the lock, check-then-increment |
| ping-pong | `uprobes.existing/pong.c`, `pong_wa7.c` | flags, `pending_regs`, `cleaning_up` | two handlers, `reg_callback`, `cleanup_module` | deferred registrations that race with rmmod |
| blinking probes | `uprobes.existing/blink.c`, `blink2.c`, `probe5lim.c` | `ncalls`, registered flags | handlers that [un]register by the count | the same race, no wait |
| registration loops | `kthread.c` and its kin, `probe5ag.c`, `probe6.c`, `rprobe6.c`, `suicide.c` | arrays of probes | register in a loop, roll back or not | failure half way, nothing unregistered at rmmod |
| fork and thread tests | `uprobes.w/fork_thread.c`, `fork_and_defunc.c`, `uprobes.existing/probe8-fork.c`, `probe7-thread.c`, `probeme6.c` with `kfork_thread.c`, `kfork_and_defunc.c`, `probe5.c`, `probe6.c`, `suicide.c` | parent, child, exit status; the module's counter and log | fork, count, wait, say PASSED | `wait()` reaps any child; a status that hides a signal; calls after PASSED |
| scripts | `runtest.sh`, `lib/uprobes.exp`, `*.exp` | the stopped process, the module, the verdict | start, insmod, continue, kill, compare, rmmod | a sleep against a SIGSTOP; a comparison that skips lines; a script that goes on before the program has ended |
| lookups | `uprobes.w/symbols.h`, `sym2loc.c`, `mksym`, `find_vaddr`, `include/uprobes-inode.c` | a generated table | search by name, by prefix | a name that is not there |

How they interact: `runtest.sh` starts a program, which stops itself with SIGSTOP;
insmod registers probe points in it; SIGCONT lets it go. Every call of a probed
function traps, the consumers of the probe point run in the caller's context, and
the function goes on. Program and handler share a slot whose address is the
function's first argument. Handlers of all threads share `num_probes` and the log.
When the program has said PASSED or FAILED the script writes to `cleanup`, which
puts a summary into the log, reads `data`, compares it and calls rmmod.

What makes each part correct is stated as the properties below; the list of what
is hard to test, line by line, is under `hazards` in `PROJECT.json`.

## Modules

| module | models | extends |
|---|---|---|
| `ProbeSlot` | one slot: what each side does to it, with the widths | |
| `ProbeSlotProofs` | lemmas about the operators on a slot | `ProbeSlot` |
| `ProbeCount` | the four counting tests with their handlers | `ProbeSlot` |
| `ProbeCountProofs` | theorems about `ProbeCount` | `ProbeCount` |
| `UnregTest` | `unreg`, `kunreg`, and the script's part in it | `ProbeSlot` |
| `UnregTestProofs` | theorems about `UnregTest` | `UnregTest` |
| `Udbgfs` | the log | |
| `UdbgfsProofs` | theorems about `Udbgfs` | `Udbgfs` |
| `Deferral` | uprobes core's deferral of requests (external): its variables and operations | |
| `Pong` | `pong`, `pong_wa7` | `Deferral` |
| `PongProofs` | theorems about `Pong` | `Pong` |
| `Blink` | `blink`, `blink2`, `probe5lim` | `Deferral` |
| `BlinkProofs` | theorems about `Blink` | `Blink` |
| `ModuleLife` | insmod, the registration loop, roll-back and rmmod of twelve modules | |
| `ModuleDuty` | abstract specification: what a module owes the kernel when it goes | |
| `ModuleLifeProofs` | theorems about `ModuleLife`, the refinement of `ModuleDuty` among them | `ModuleLife` |
| `ForkTests` | the programs that fork or run two threads, with the handlers that count them | `ProbeSlot` |
| `Harness` | `runtest.sh` and `lib/uprobes.exp` around those programs | `ForkTests` |
| `HarnessProofs` | theorems about `Harness` and about `uprobes_diff` alone | `Harness` |
| `MC*` | bounds for TLC | |

A name that ends in `_Something` (`Join_LastDecides`, `SetFlag_OnlyClears`) is a
mutant: the definition as a plausible bug would have it. No specification uses
one; each shows that a property would notice that bug.

### ProbeSlot and ProbeCount

A slot is the record of the four fields that the code uses. `HandlerCounts` is
`probe_handler()` from `get_first_arg()` to the last `put_user()`, `UserCounts` and
`ProbeResult` are the two halves of `_probe_N()`. A slot belongs to one thread and
the handler runs in that thread while it is trapped, so that each side's work on
a slot is one step. `num_probes++` is not: `Handler` loads it, `Store` stores it.

A thread goes `call -> trap -> store -> body` for each call and skips `trap` and
`store` when the module is not loaded. The last thread of `suicide`, `tdie` and
`texec` does its own thing: `Suicide` (either order of the two consumers of probe
point 9), `Crash`, `Exec` or `ExecFails`. Main is `Create`, `CreateFails` and `Join`;
`proc` is how the process has ended.

Widths are constants. `ULongMod` is the number of values of a ulong and `IntHalf`
is INT_MAX + 1; an int fills a ulong (`ULongMod = 2 * IntHalf`, i386) or a part of
it (`WideLong`, x86_64). In the second case the store of a tid through a
`(ulong *)` reaches the next field: `AfterKtidStore`.

### UnregTest

`Register` and `Loaded` are the loop of `register_all()` and all its early ends;
`LoadFails` is an `init_module()` that fails before it, with the script's SIGCONT
and SIGKILL after it (`Kill`). Main runs its two sets of threads in rounds. A call
with its trap and handler is one step here, because slots are private and the
step's parts are in `ProbeCount`. UPROBES_REG_CALLBACK is taken as undefined: with
it, `kunreg.c` uses fields that `struct uprobe_consumer` does not have.

### Udbgfs

A message is its number, repeated over its length. `Format` takes the lock and
runs `vsnprintf()`, `Advance` does the arithmetic and releases it. `bytes_left` is a
size_t (`% SizeMod`). `vsnprintf()` is the kernel's: it returns the length that the
whole message would have, writes what fits and a NUL, and refuses a size that is
negative as an int. A reader is `cat`: `ReadCheck` is the test of `bytes_in_buf`,
`ReadCopy` the copy, which loads it again. A writer goes through the test of
`entry`, its increment, and `child_exit()`.

Assumed of the scripts: files are opened after insmod has returned, be it with an
error, and rmmod comes when nobody uses them. Where insmod has failed and `u_dbfs_init()`
has left "data" behind, `ReadRefused` is the reader that opens it: the module's operations have
been freed with it, and what such a call does is undefined.

### Deferral, Pong and Blink

Uprobes core is not part of the repository. `Deferral` models what three programs
exercise of it, from how the code uses it and from the comments and the README of
`uprobes.existing`: the probes that are registered (`core`) and the list of requests that
handlers have made (`queue`). A request of a handler is put on the list (`Defer`, the
`-EINPROGRESS` of the code), the task carries them out in order after the handlers of the
hit (`CarryOut`, `CarryOutFails`), and a call from anywhere else works at once but waits for
the handlers (`UnregisterNow`). The variables are declared there, and the two
specifications conjoin its operations to their own steps.

In `Pong` one task calls the probed function. Each handler makes two requests, and each
request is the steps check, count, ask, set the flag (`CheckCleaningUp`,
`CountRequest`, `Request` or `RequestFails`, `SetFlag`). Each request that is carried out is
reported to `reg_callback()` (`RunDeferred`). `cleanup_module()` is `BeginCleanup`,
`WaitEvent`, `UnregisterEntry` and `UnregisterReturn`. `Unloaded` ends a
behaviour when the module has gone: what could go wrong then is what is left in
that state.

In `Blink` a build is one of the modules, with or without UPROBES_REG_CALLBACK, and the
order in which uprobes core runs two handlers of one probe point, which `blink` has. A hit
puts its handlers on `todo`; each makes its test (`Steady`, `Blinks`, `AddInst`), its request
(`Request`, `RequestFails`) and the store of its flag (`SetFlag`) in three steps, between
which `init_module()` may finish (`FinishInit`) and `cleanup_module()` may run: `BeginCleanup`,
`UnregisterMain`, `TestFlag`, `UnregisterBlink`.

### ForkTests and Harness

A program is its threads and the processes they fork; a child inherits a copy of its
parent's slot. What the kernel does to the breakpoints in a child's copy of the text is
external and has three values: it removes them, forgets them (SIGTRAP), or lets them be
inherited, which is what the tests are there to notice. `Hit` is a handler up to the
load of the module's counter, `Store` the rest. `Fork`, `ForkFails`, `Wait` and `StatusOf` follow
the two programs with all that they do not look at: the -1 of `fork()` that counts as a
parent, the status that no child has set, the signal that `WEXITSTATUS()` turns into 0.
`Registration` is the registration line as the module prints it. `kfork_thread` prints the address
of the inode with `%d` and an 8-byte offset with `%#lx`: the address is a field of the test
(`inode`, any value of a ulong) of which the line has the value as an int, and where a ulong has
the width of an int the name that follows is read from the offset's high half. The numbers of
`probe5` and `probe6` are always replaced, their line is `Reg`. A log has one registration line for all.

`Harness` adds the two scripts as two more processes. `script` is where `runtest.sh` is,
`expect` where the `.exp` file is. A log is a sequence of records. `Normalised` is the `regsub` on a
line: it wants a digit that is not 0 after a space, so that of the numbers that it may meet it replaces
the positive ones of `kfork_thread`'s registration and the summary of that module, but neither a
negative number nor `ncalls=20`. Then `DiffStep` the body of the loop over the expected file, which `Matched` goes through as a
recursive function and `Diff` judges. A Tcl error (`$results($i)` where there is none) is an outcome of its own: it
ends the test before the rmmod, so that a run may begin with a module that another has
left in (`stale`).

### ModuleLife and ModuleDuty

One state machine for twelve modules: `kthread`, `kdie`, `kexec`, `kfork_thread`,
`kfork_and_defunc`, `ksuicide` and `ksuicide2` of `uprobes.w`, `probe5`, `probe5ag`,
`probe6`, `rprobe6` and `suicide` of `uprobes.existing`. Each is a record that says how
many objects its loop registers, where it may fail before it asks the kernel
(`kmalloc()`, `find_vaddr()`), and what its `unregister_all()` or `shut_down()` will
find: nothing (the modules of `uprobes.w`, whose `cleanup_module()` calls
`u_dbfs_cleanup()` only), the objects flagged after their registration, both objects
of a pair (`rprobe6`), or all that were asked for (`probe5ag`, whose `vaddr` is set
before `register_uprobe()`).

The phases are those of the loader: `init` is the loop (`Register`, `Refuse`, `Lack`,
`LoopEnds`), `unpair` the cleanup inside `register_probes()` of `rprobe6`, `undo` the
roll-back of `init_module()`, `exit` is `cleanup_module()`. The unregister loops go through
`todo` in order; `CleanUp` is `u_dbfs_cleanup()`, `Leave` the return and the end of the
module's text. An insmod that fails before the loop leaves all as it was: no step.

Uprobes core is external, modelled from how the code uses it: registration may be
refused; `unregister_uprobe()` detaches the probe and waits for the handlers that run
(`Unregister`, `Unregistered`); a call for an object that is not registered does
nothing (`UnregisterStray`); the probes of a process go with its last task (`Purged`).
Tasks hit what is registered at any time (`Hit`), end in a handler that kills them
(`HandlerEnds` of the `deadly` object), exit and start. A hit that finds no code, since
the module has gone or never set a handler, may lose the task (`HitNothing`).
`left`, `lost` and `strays` are history: what has stayed in the kernel, which tasks
were lost, what was unregistered without being registered.

`ModuleDuty` has none of the loops: a module comes, is granted probes, gives them
back, is live with all it needs, and goes out only with nothing granted and no
task inside, if it owes that. `DutyMet` is the refinement, with `Granted` as what
the kernel holds and `DutyState` as the four states of the phases.

## Runs

| run | instance | shows |
|---|---|---|
| `ProbeCount` | 3 threads, 2 probe points, 2 rounds, all programs, module loaded or not; ULongMod 16 = 2 * IntHalf | all properties of `ProbeCount`, with liveness |
| `UnregTest` | 3 threads, 2 rounds, 3 probe points; ULongMod 64, IntHalf 4 | the verdict, the hits of a pass, the unload |
| `Udbgfs` | 2 handlers with 3 messages, 2 writers, 1 reader, messages of 1 or 3 bytes, a buffer of 4 | the log below, at and beyond its capacity |
| `Pong` | three builds, 6 calls | the handshake of handlers, callback and rmmod |
| `Blink` | three modules, with and without the callback, in both orders of the handlers; 31 calls, limit 4 | when rmmod leaves something, the pattern of the calls, the limit |
| `Harness` | six programs, 2 threads, 1 iteration, three kernels, an inode at a positive and one at a negative address; ULongMod 16, IntHalf 4 (x86_64); logs of up to 4 lines for the comparison | what a reported pass means; what may fail a healthy test; that the test ends |
| `ModuleLife` | 3 functions, 2 tasks, eight modules that stand for the twelve | nothing is left behind by those that unregister; the refinement; insmod and rmmod end |
| `ProbeCountWide` | 2 threads, 3 rounds, ULongMod 64, IntHalf 4 | violated: the counts do not agree on x86_64 |
| `NumProbesRace` | `suicide` with 3 threads | violated: the logged number is not the number of hits |
| `UnregFalsePass` | 2 threads, 1 round | violated: a pass with hits in `thread_2` |
| `PongLate` | 4 calls | violated: a request is deferred after the wait |
| `KdieOops` | `kdie`, 2 functions, 2 tasks | violated: a task jumps to a handler of a module that has gone |

Why the bounds are enough to be of use: three threads are two counting threads
that interleave and a third that does something nasty; two rounds give the first
hit of a probe point and a later one, which the code treats differently, and the
third round of `ProbeCountWide` is the first call that a clobbered `ucount` spoils.
Three probe points let `register_all()` stop before, between and after them. A
buffer of four bytes is below, exactly and beyond full with messages of one and
three, and there are messages left to print after the overrun. In `Pong` two calls are one
exchange of the probes; three exchanges start from every state a former one can leave.
In `Blink` the pattern of the calls has a period of 15, the least common multiple of 3 and
5, and 31 calls are two periods and the first call of a third. In `Harness` two threads are
enough for each to take the other's child; an iteration is two calls of a probe point, the first
and one that finds the slot used (on x86_64 a third one fails in any case: `ProbeCountWide`); and logs
of four lines hold a gap before, between and after the lines that match; the two last functions
stand for the five of `probeme6`. `Ten` = 4 is reached by the count of `fork_thread`, so that its
summary is one that is replaced; the counts of the others are compared as they are, whatever they are.
In `ModuleLife` three functions let a loop fail at its first, a middle and its last
object (for `rprobe6`, in each half of a pair after complete ones), and two tasks are
one that sits in a handler while the other hits, exits or is the last to go.

Bounds in the guards: `MaxMsgs` (messages of handlers) in `Udbgfs`, `MaxCalls` in
`Pong` and in `Blink` (calls that `steady()` and `add_inst()` count). All other counters are bounded by the programs themselves.

### What the properties say

`ProbeCount`: `CountsAgree` (both sides count every call), `PassMeansCounted` (PASSED
is sound), `NoFalseAlarm` (FAILED has a cause),
`NumProbesBound` (overlapping handlers are the only way to lose a hit),
`NastyEnds`, `Ends`, `HealthyPasses`.

`UnregTest`: `VerdictTellsTheModule` (the verdict depends on one thing, whether
all probe points are registered), `HitsOfAPass`,
`UnloadLeavesNone` (in spite of the loop that goes one entry too far), `TestEnds`.

`Udbgfs`: `ReaderGetsLog` (a reader without the lock gets exactly what was printed),
`WritesStayInside` (what saves the memory behind the buffer is `vsnprintf()`, not
`test_printk()`, and reads go beyond the buffer by a message at most), `SummaryOnce` (a second summary
needs two writers between the test of `entry` and its increment, and a write returns without a
summary only if a `copy_from_user()` has failed: `entry` is set by then, and no later writer makes
up for it), `CallsReturn`. What the summary says while handlers still print is not in it: the log is
read as it stands.

`Pong`: `PendingExact` (on the failure paths too), `CleanUnload` (one late request at most, and
nothing left behind without it or after the process has ended), `Alternate`, `CleanupEnds`.

`Blink`: `LeakNeedsRace` (these modules do not wait: they leave a probe, a request or a task
in a handler behind if, and in the model only if, requests were under way during
`cleanup_module()`), `BlinkPhase` (the number of calls alone says whether blink is registered,
by a formula without any history, and so does its flag), `LimitHolds` (one call beyond the limit
at most, and only if it came before `registered` was set).

`Harness`: `PassMeansParentOnly` (a reported pass has counted each call of a parent, none of a
child, and has seen each child end, whichever thread waited for it), `HealthyTestPasses` (the list
of what may fail a test of a kernel that is right: `LogAsExpected`, except where `kfork_thread` misprints
its registration, `Misprinted`: without this exception TLC finds a `fork_thread` that fails on such a
kernel because of its inode's address), `DiffIsSubsequence` (which pairs of files
`uprobes_diff` takes for equal, for different, and which end it), `ModuleGoesLast`,
`ScriptEnds`. `PassMeansParentOnly` takes a child of `fork_thread` that a signal has killed for one that
has ended, as the program does: it is how that test can pass though a child died.

`ModuleLife`: `NothingLeft` (wherever the loop failed, whatever the tasks did),
`HandlersHaveLog` (the log outlives the last handler), `StrayCalls` (each object is
unregistered once; the exception is the object at which `probe5ag` fails), `CallsEnd`,
and `DutyMet`, which adds that a module is live only with every probe it needs. They are about
the modules that unregister at all. Those of `uprobes.w` owe nothing; what they leave, after a full
load or a failure half way, is the subject of `NoOopsOnceGone`, which `KdieOops` refutes.

### Disagreements found

* `ProbeCountWide`: `put_user(ktid, (ulong *)EA)` clears the low half of `ucount`
  on x86_64. The first call is saved by the reset of `ucount`, the second by its
  value 0; the third call of a probe point returns -2 though every hit was
  counted. With two rounds or fewer, or on i386, nothing shows.
* `NumProbesRace`: `num_probes++` loses hits, while the expected file of the
  suicide test has an exact number.
* `UnregFalsePass`: with no hook on `unreg_all()`, `thread_2` hits a registered
  probe point, gets 0, and returns it, which is "pass". The expected file even has
  the extra hit (`num_probes=11`); the comments say that there is none.
* `PongLate`: between a handler's test of `cleaning_up` and its increment of
  `pending_regs`, `cleanup_module()` can go by. `CleanUnload` says how much of the
  workaround holds.
* `KdieOops`: the README of `uprobes.w` takes "no hangs/oops/panic can unload the
  module" as the sign that uprobes has cleaned up. `kdie` and its kin unregister
  nothing in `cleanup_module()`; after a full load and an rmmod the consumers are still
  in the kernel, and the next hit calls a handler in freed text.
  No rmmod is needed for that, and the shortest trace has none: where a registration after the
  first is refused, or there is no memory for it, `init_module()` returns an error and leaves the
  consumers it has.

Three more the model has as what the code does, with no run of their own:

* `kfork_thread` prints a `struct inode *` with `%d` and a `loff_t` with `%#lx` (`kfork_thread.c:70-71`).
  An address that is negative as an int is not replaced (`lib/uprobes.exp:46`), and the log of a test in
  which nothing went wrong is not the expected one; where a ulong has four bytes the name that
  follows is spoilt as well (`Misprinted`).
* `fork_thread` takes `WEXITSTATUS()` of a status without a look at `WIFEXITED()` (`fork_thread.c:61-66`). Of
  a child that a signal has killed it is 0, which is "everyone is happy".
* Where `set_up_print_buffer()` gets no memory, `u_dbfs_init()` leaves "data" and its directory, which it
  removes after the error before (`udbgfs.c:151-157`). `uprobes_diff` reads "data" after a failed insmod
  too, and so calls what has been freed (`ReadRefused`).

### Limits of the scripts

What the properties of `Harness` have to leave out is as telling as what they say.

* `uprobes_diff` moves on in the log only where a line matches. A log with lines missing is equal
  to the expected file as long as the last line is there, and a log that lacks just the last
  lines ends in a Tcl error before the rmmod. The module stays in; `runtest.sh:19` means to
  remove it and calls `sbin/rmmod`, a path that does not exist after its `cd`; no later test
  with that module passes until someone removes it by hand (`ModuleGoesLast`).
* `uprobes_run_test_neg` takes the first line of any kind for what it waits for, sleeps two
  seconds and compares. The test `suicide_probeme6` passes with a module that was loaded before,
  though its program is not run at all, and on a slow machine before the program has hit its probe
  (the exceptions in `PassMeansParentOnly`).
* `probeme6` says PASSED before it calls `bye()` and the functions below it. The script goes on at
  PASSED, and the log may be read, and the module removed, before these probes have been hit:
  the test then fails on a kernel that is right (`early` in `HealthyTestPasses`).
* On i386 no test of `fork_thread` can pass, and on x86_64 one with an inode at a positive address
  (as an int) and one iteration only: more are the finding of `ProbeCountWide`. Of more, or of
  an i386 machine, `HealthyTestPasses` speaks for the other programs.
* The expected files of the counting tests of `kthread` have registrations `on pid 1234 vaddr ...`, but
  `kthread.c:69` prints `inode ..., offset ...`: no log of that module can match them.
* `ncalls++` of `probe5` under `probe7-thread` loses calls as `num_probes++` does (`overlap`).
* A program that comes to its SIGSTOP later than a second after its start is stopped for good, and
  the script waits for it (`lateStop` in `ScriptEnds`).
* The expected file of `rprobe6` has lines `calls=0 returns` next to lines `add returns`, which only a
  handler that counts returns can have printed: no run can match both.
* No `.exp` file gives `probe5lim` a limit: with the default of 100 and five calls the handler never
  unregisters itself under the scripts. `Blink` explores what they do not.

## Fairness

* `ProbeCount`, `UnregTest`: weak fairness of main and of each thread, that is, the
  kernel schedules what can run; and of insmod and rmmod, which the script calls.
  A `pthread_create()` or an `execl()` that fails, or a kill, is never required.
* `Udbgfs`: weak fairness of a print, a write or a read that has begun. Nobody has to
  begin one. A writer that waits for the spin lock gets it because the programs,
  and so the messages (`MaxMsgs`), end; no fairness of the lock is assumed.
* `Pong`: weak fairness of the task while it is in the kernel and of rmmod once it
  has begun. The task need not call the function, return from it or exit, and
  nobody need call rmmod.
* `Harness`: weak fairness of the next-state relation as a whole, without its stuttering steps. Each
  process, thread and script has but a bounded number of steps to make, so that this is all
  it takes for the test to end, and no step in particular (a failing one, say) is required.
* `Blink`: none; its properties are safety properties.
* `ModuleLife`: weak fairness of insmod and rmmod once called and of each handler once
  entered. Nobody has to call insmod or rmmod, and no task has to hit a probe or end.

Deadlock is checked in every run; the end of a program or of a module is an
explicit stuttering step.

## Proofs

`ProbeCountProofs` proves for every number of threads, probe points and rounds:

* `TypeCorrect`, `PassSound`, `MissingModule`, `NastyEndsWell`, `NumProbesInvariant`
  without further assumption, that is, for wide and narrow ulongs;
* `CountsAlwaysAgree` and `NoFalseAlarms` under `KtidStoreHarmless`, that a ulong is no
  wider than an int or that there are at most two rounds. The run
  `ProbeCountWide` shows that the assumption is needed.

Assumptions: `WidthAssumption` (an int is an exact part of a ulong) and
`ParameterAssumption` (at least one thread, two probe points, a number of rounds
that is a positive int).

The argument. None of the properties is inductive: that a thread's counts agree
when it has returned depends on where it is in a call and on how many calls it has
made. `BaseInv` adds, per thread, where it can be and what it may have returned
(`ThreadInv`), what each count is at each point of a call (`SlotInv`, which ties a
count to the number of calls by `CountAfter`), and why main has given its verdict
(`MainInv`). During a call `SlotInv` says nothing of `ucount`, which a wide store may
have clobbered: a counting thread that has not failed has been checked by
`ProbeResult`, and that is enough for `PassSound` on every build. `ExactInv` adds
that `ucount` is intact during a call, and that no thread has failed; it is
inductive where the store is harmless. `Iters` being an int keeps counts away from
-1, from wrapping and from negative ints (`ToIntSmall`): the "FIXME handle counter
wrap" of `u_test_common.h` cannot bite these programs. `NumProbesBound` has an
invariant of its own about the loaded and not yet stored values.

`ModuleLifeProofs` proves for every number of functions, every set of tasks and any
of the twelve modules: `LifeTypes`, `LeavesNothing`, `LogOutlivesHandlers`, `NoStrayCalls`,
and `DutyImplemented`, that `ModuleLife` implements `ModuleDuty`.

Assumptions: `LifeAssumption` (at least one function) and `ModulesAssumption` (the
modules are some of the twelve records). `ModuleFacts` is all that the proofs use of
the records: that an object can lack memory or an address only at its place in the
loop, that pairs are complete at the end, that careful modules set handlers.

The argument. `NothingLeft` is about the moment of `Leave`, but holds because of what
the module remembered all along. `LifeInv` has the conjuncts `PhaseInv` (what the phases
mean for the log and the lists), `LoopInv` (how far the loop has come: objects beyond `at`
are idle, those before it registered), `FlagInv` (in the loop all that was granted is
flagged, but for the entry probe of an incomplete pair, which `unpair` takes back),
`TodoInv` (in the unregister loops all that is granted is on the list, so that an empty
list means nothing granted), `TaskInv` (a task is in a handler only while the object is
held) and `LeftInv`. For the refinement every action maps to one action of `ModuleDuty`
or to a stutter: `DutyStep` has one step per action.

`PongProofs` proves for every choice of the builds and any number of calls: `TypeCorrect`,
`PendingCounted` (`PendingExact`), `UnloadsClean` (`CleanUnload`), `HandlersAlternate`
(`Alternate`). No assumption but that the builds are some of the three. `CleanUnload` is about the
end of `cleanup_module()`, and its invariant about everything that leads there: what is on the
list at each point of a handler (`QueueInv`), what the flags that `cleanup_module()` believes are
worth (`FlagInv`: with the callback a flag may say that a probe is registered that is not, but
never the reverse, unless its unregistration is on the list), and who can still make a request
after the wait (`LateInv`: the one handler that was past its look at `cleaning_up`). `RoundInv`
says how far the exchange has come while nothing has failed and nobody unloads the module.

`BlinkProofs` proves for all builds, any limit and any number of calls: `TypeCorrect`,
`LeaksNeedRace`, `BlinkFollowsCount` (`BlinkPhase`) and `LimitKept` (`LimitHolds`). `HitInv`,
`SiteInv`, `ProbeInv` and `ListInv` say what a hit has before it and what it has put on the list.
`SteadyFlagInv` and `LimitFlagInv` relate each flag to what will be registered once the list has been
carried out, and `CleanInv` follows `cleanup_module()`: without a race the flags are right when it
reads them. `PhaseInv` is the hard one: whether blink is registered is a function of
`ncalls % 15`, at the beginning of a hit, between its handlers and in either order of them, and each
step is arithmetic modulo 3 and 5.

`UdbgfsProofs` proves for any number of handlers, writers and readers, any lengths and any buffer:
`TypeCorrect`, `WritesInside`, `ReadersGetLog`, `SummaryPrintedOnce`. Assumptions
(`UdbgfsAssumption`): some message is the longest, and it and the buffer are shorter than an int can
count; a size_t has at least twice as many values as there are ints that are not negative; nobody is
both a reader and a printer or writer. `CountInv` is what the readers without the lock rest on: it
relates `bytes_left`, which wraps, to `bytes_in_buf` and to `Pending`, the length that the holder
of the lock has formatted and not yet added; once `bytes_left` has wrapped, `vsnprintf()` refuses
and nothing is added any more. `DataInv` ties the bytes of the buffer to the messages, `ReaderInv`
what a reader has to both, and `MarkInv` counts the writers between the test of `entry` and its
increment. `SummaryInv` says where the summary is while `entry` is set: printed, about to be, or lost.

`UnregTestProofs` proves for any number of threads, probe points and rounds and all widths:
`TypeCorrect`, `NoneIsLeft`, `VerdictIsSound`, `HitsAreExpected`. Assumption: `probes[]` has room for one
entry more than there are probe points, as the loop of `unregister_all()` needs. `PartInv` says what
the threads of the present part have found, and `HitsOfAPass` is a sum over all threads of both
parts: the hits of this part are the elements of a set (`Hit`), so that the sum is its
cardinality and a step adds one element (`HitInv`).

`HarnessProofs` proves for any tests, any number of threads and iterations and any logs:

* `DiffDecides`, about `uprobes_diff` and any two files: the greedy match of its loop finds out
  whether one is a part of the other. What `Matched` computes is shown line by line
  (`TableIsGreedy`); the induction is on a set of numbers (`SetInduction`, from the library's theorem
  that the order of Nat is well-founded), as the provers cannot instantiate the library's induction
  theorem. `DiffAlwaysDecides` is `DiffIsSubsequence` for the logs that the modules can print;
* `ModuleAlwaysGoesLast` (`ModuleGoesLast`): `HarnessInv` says why each of the two scripts has gone on
  (`ScriptInv`, `ExpectInv`), and that a program which has passed has no child left, although `wait()`
  takes whichever child has ended: no more children are to be waited for than there are threads
  that have yet to wait (`ForkInv`, cardinalities of `Unreaped` and `YetToWait`);
* `PassIsSound` (`PassMeansParentOnly`). `PassInv` adds that the hits are those of the children and
  of the calls of which a thread has got past the breakpoint, as a cardinality (`ParentHits`);
  that a child which has been counted is known by its slot or, when it has ended, by its exit
  status (`ChildHitInv`, `ChildSlotInv`); that each hit of `probe8-fork` has a line of its own, and
  `adios` is in the summary of `probe6` only after the last call (`PrintInv`). When `uprobes_diff` finds
  no difference these leave no room: the log has no more lines of calls than the expected file
  (an injection), its last line is there, and each child has been waited for by a thread that saw
  it exit with 0. `VerdictInv` keeps that until the module is removed;
* `TypeCorrect` under `CountsFit`, that the counts of a slot are ints (`2 * Iters` at most INT_MAX + 1):
  otherwise `probe_N()` may return any int. No other theorem needs it;
* `HealthyAlwaysPasses` (`HealthyTestPasses`), the converse of `PassIsSound`: nothing but what that
  property lists fails a test of a kernel that is right. `HealthyInv` is what holds while none of it
  has happened. `CalmInv`: no script has a complaint. `ChildForEach`: there are as many children
  to be waited for as threads to wait, so that no `wait()` comes back empty. `WellInv`: no child is
  counted, and of every slot the two counts agree but during a call (`CountsAfter`). `CounterInv`:
  the counter is the number of hits, but for the store under way. `LogInv`: the log holds the calls
  in their order (`CallLog`), the summary completes it to the expected file (`ResultsFit`), and
  `uprobes_diff` finds a file equal to itself (`DiffSelf`, from `DiffDecides`).

The hypotheses of `HealthyAlwaysPasses`: the counter of the module does not wrap (`CounterFits`); and, where `fork_thread` is among the tests, the
store of `ktid` is no wider than its field, or there is one iteration, so that it clears nothing but a
count of 0 (`KtidHarmless`), and the count of `fork_thread` is a number of two digits or more, as
`uprobes_diff` has the expected file's 1234 for those only (`ManyHits`). What the inode's address is stays
open; the property itself excepts `fork_thread` where it is misprinted. For the other programs the
theorem holds on either build with any number of iterations that fits. For `fork_thread` it says something
on x86_64 alone, of an address that is positive as an int, and with one iteration: the programs as
they are built do not meet `KtidHarmless` with more. (`CountsFit` follows for it: `HealthyWidths`.) The
hypotheses are needed: in an instance where the others hold TLC finds `HealthyTestPasses` violated (two
iterations with a wide ulong; `Ten` above the count of `fork_thread`; a narrow ulong of 4 values and two
iterations, in `probeme6`).

Assumptions: `WidthAssumption`, `ForkAssumption` (a thread and an iteration at least, two threads
with `probe7-thread`, which starts two; tests that are some of the programs with some of their kernels) and `HarnessAssumption` (`Ten` is positive, and
`SmallLogs` are sequences).

Every invariant and every action property that a run checks has a theorem. Only model-checked is
liveness (`CallsEnd`, `ScriptEnds` and the like: temporal reasoning with fairness is out of the prover's
reach).

## Not modelled

* The lookups: linear searches in a generated table, awk scripts and kallsyms calls that keep no
  state beyond a cursor.
* The hit counters of `probe5ag` and `rprobe6` (`nret`, `nhits`) and the summaries with them: each is
  the count of one function, as that of `probe6`, which `Harness` has.
* `mount_debugfs`, and the timeouts of expect, each of which starts the same wait again.
* The `exit(0)` of the parents of `fork_and_defunc`: its module sets no handler, the first call
  returns -1, and the line is not reached.
* The registration that `init_module()` of `blink`, `blink2` or `probe5lim` is refused: the module ends
  there, with nothing registered.
* The reference that `find_inode()` takes on the probed file and nobody drops: a leak
  without any effect on the probes.
* `get_first_arg()` outside x86, where it is a place holder that returns NULL.
* The 8-byte store of `pthread_join(thread, (void **)&results)` into an int and
  `kmalloc(sizeof(print_buf))`: undefined behaviour whose outcomes depend on what the
  compiler and the allocator put next to the object.
* What a task does in the text of a module that has been unloaded.

## Plan

Done, in this order: `ProbeSlot`, `ProbeCount` and its proofs, `Pong`, `UnregTest`,
`Udbgfs`, `ModuleDuty` with `ModuleLife` and its proofs, `Deferral` with `Blink`, `ForkTests` with
`Harness`.

The proofs about `Pong`, `Blink`, `Udbgfs`, `UnregTest` and `Harness` came after them.

1. An abstract specification of a counting test (calls and counted calls of each
   probe point, a verdict) that `ProbeCount` implements.
2. The hit counters of `probe5ag` and `rprobe6`.
