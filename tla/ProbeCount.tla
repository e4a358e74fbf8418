----------------------------- MODULE ProbeCount -----------------------------
(***************************************************************************)
(* The counting tests uthread, suicide, tdie and texec: a main thread      *)
(* starts the test's threads, each thread calls its probed functions in a  *)
(* loop and checks, call by call, that the kernel counted the call, and    *)
(* main joins the threads in order and reports the verdict.  A thread that *)
(* hits a registered probe runs probe_handler() in its own context.  All   *)
(* handlers bump the global num_probes, which nothing protects, so that    *)
(* the load and the store of num_probes++ are two steps.                   *)
(*                                                                         *)
(* The last thread of suicide, tdie and texec does "something nasty": it   *)
(* exits inside a second handler of its probe, takes a SIGSEGV, or execs.  *)
(***************************************************************************)
EXTENDS ProbeSlot, FiniteSets

CONSTANTS NumThreads,  \* argv[1]
          NumProbes,   \* NUM_PROBES
          Iters,       \* argv[2], an int
          Programs     \* the test programs to run

ASSUME ParameterAssumption ==
  /\ NumThreads \in Nat \ {0}
  /\ NumProbes \in Nat /\ NumProbes >= 2
  /\ Iters \in 1 .. (IntHalf - 1)
  /\ Programs \subseteq {"uthread", "suicide", "tdie", "texec"}

VARIABLES
  program,     \* the test program that runs
  loaded,      \* its kernel module is loaded: all of its probes are registered
  created,     \* how many threads main has created
  joined,      \* how many threads main has joined
  proc,        \* "running", or how the process ended
  pc,          \* where each thread is
  iter,        \* i of a thread's loop
  probe,       \* the probe point a thread calls next or is in
  slot,        \* probe_table[] of each thread
  tmp,         \* the num_probes a handler has loaded and not yet stored, or 0
  result,      \* what a thread has returned
  num_probes,  \* the handlers' count of all hits
  hits,        \* history: how often probe_handler() has run
  overlap      \* history: one probe_handler() has started during another

vars == <<program, loaded, created, joined, proc, pc, iter, probe, slot, tmp,
          result, num_probes, hits, overlap>>

Threads == 1 .. NumThreads        \* a thread is its tid
Probes  == 0 .. (NumProbes - 1)

\* The thread that does not just count; uthread has none.
Nasty(t)    == program # "uthread" /\ t = NumThreads
Counting(t) == ~Nasty(t)

\* Mutant of LastProbe: the loop runs one probe too far.
LastProbe_OneTooMany == NumProbes

\* thread_1 of suicide leaves the last probe to the suicide thread.
LastProbe == IF program = "suicide" THEN NumProbes - 2 ELSE NumProbes - 1
Called    == 0 .. LastProbe

\* Where a created thread starts.
FirstProbe(t) == IF Nasty(t) /\ program = "suicide" THEN NumProbes - 1 ELSE 0
FirstPc(t)    == IF Nasty(t) /\ program = "tdie" THEN "crash" ELSE "call"

-----------------------------------------------------------------------------
Init ==
  /\ program \in Programs
  /\ loaded \in BOOLEAN
  /\ created = 0 /\ joined = 0
  /\ proc = "running"
  /\ pc = [t \in Threads |-> "none"]
  /\ iter = [t \in Threads |-> 0]
  /\ probe = [t \in Threads |-> 0]
  /\ slot = [t \in Threads |-> [p \in Probes |-> NewSlot]]
  /\ tmp = [t \in Threads |-> 0]
  /\ result = [t \in Threads |-> 0]
  /\ num_probes = 0
  /\ hits = 0
  /\ overlap = FALSE

-----------------------------------------------------------------------------
(* main() *)

Create ==
  /\ created < NumThreads
  /\ LET t == created + 1
     IN  /\ pc' = [pc EXCEPT ![t] = FirstPc(t)]
         /\ probe' = [probe EXCEPT ![t] = FirstProbe(t)]
         /\ created' = t
  /\ UNCHANGED <<program, loaded, joined, proc, iter, slot, tmp, result,
                 num_probes, hits, overlap>>

\* pthread_create() fails: report_test_fail() exits with every thread.
CreateFails ==
  /\ created < NumThreads
  /\ proc' = "internal"
  /\ UNCHANGED <<program, loaded, created, joined, pc, iter, probe, slot, tmp,
                 result, num_probes, hits, overlap>>

\* Mutant of Join: main does not stop at a failure, the last result decides.
Join_LastDecides ==
  /\ created = NumThreads /\ joined < NumThreads
  /\ LET t == joined + 1
     IN  /\ pc[t] = "done"
         /\ joined' = t
         /\ proc' = IF t < NumThreads THEN proc
                    ELSE IF result[t] = 0 THEN "passed" ELSE "failed"
  /\ UNCHANGED <<program, loaded, created, pc, iter, probe, slot, tmp, result,
                 num_probes, hits, overlap>>

\* Main waits for the threads in the order it created them, and stops waiting
\* at the first one that reports an error.
Join ==
  /\ created = NumThreads /\ joined < NumThreads
  /\ LET t == joined + 1
     IN  /\ pc[t] = "done"
         /\ joined' = t
         /\ proc' = IF result[t] # 0 THEN "failed"
                    ELSE IF t = NumThreads THEN "passed" ELSE proc
  /\ UNCHANGED <<program, loaded, created, pc, iter, probe, slot, tmp, result,
                 num_probes, hits, overlap>>

-----------------------------------------------------------------------------
(* A thread: probe_N(), the handlers, _probe_N(), and what follows. *)

\* probe_N() checks or claims the slot and enters _probe_N(), which traps if
\* its entry is probed.
Call(t) ==
  /\ pc[t] = "call"
  /\ LET s == slot[t][probe[t]]
     IN  /\ slot' = [slot EXCEPT ![t][probe[t]].utid = t]
         /\ proc' = IF WrongTid(s, t) THEN "internal" ELSE proc
         /\ pc' = [pc EXCEPT ![t] = IF loaded THEN "trap" ELSE "body"]
  /\ UNCHANGED <<program, loaded, created, joined, iter, probe, tmp, result,
                 num_probes, hits, overlap>>

\* probe_handler(), up to the load of num_probes.
Handler(t) ==
  /\ pc[t] = "trap"
  /\ slot' = [slot EXCEPT ![t][probe[t]] = HandlerCounts(@, t)]
  /\ tmp' = [tmp EXCEPT ![t] = num_probes]
  /\ hits' = hits + 1
  /\ overlap' = (overlap \/ \E u \in Threads : pc[u] = "store")
  /\ pc' = [pc EXCEPT ![t] = "store"]
  /\ UNCHANGED <<program, loaded, created, joined, proc, iter, probe, result,
                 num_probes>>

\* probe_handler() stores num_probes and returns, to the next handler of the
\* probe if there is one.
Store(t) ==
  /\ pc[t] = "store"
  /\ num_probes' = Incr(tmp[t])
  /\ tmp' = [tmp EXCEPT ![t] = 0]
  /\ pc' = [pc EXCEPT ![t] = IF Nasty(t) /\ program = "suicide" THEN "suicide"
                             ELSE "body"]
  /\ UNCHANGED <<program, loaded, created, joined, proc, iter, probe, slot,
                 result, hits, overlap>>

\* Mutants of Suicide: the handler counts the hit too; its exit code is what
\* the thread returns; nobody learns that the thread has gone.
Suicide_CountsToo(t) ==
  /\ Nasty(t) /\ program = "suicide"
  /\ pc[t] \in {"trap", "suicide"}
  /\ pc' = [pc EXCEPT ![t] = "done"]
  /\ num_probes' = Incr(num_probes)
  /\ UNCHANGED <<program, loaded, created, joined, proc, iter, probe, slot, tmp,
                 result, hits, overlap>>

Suicide_ExitCode(t) ==
  /\ Nasty(t) /\ program = "suicide"
  /\ pc[t] \in {"trap", "suicide"}
  /\ pc' = [pc EXCEPT ![t] = "done"]
  /\ result' = [result EXCEPT ![t] = 1]
  /\ UNCHANGED <<program, loaded, created, joined, proc, iter, probe, slot, tmp,
                 num_probes, hits, overlap>>

Suicide_NotJoinable(t) ==
  /\ Nasty(t) /\ program = "suicide"
  /\ pc[t] \in {"trap", "suicide"}
  /\ pc' = [pc EXCEPT ![t] = "none"]
  /\ UNCHANGED <<program, loaded, created, joined, proc, iter, probe, slot, tmp,
                 result, num_probes, hits, overlap>>

\* suicide_handler(): do_exit(), or the oops of ksuicide2, ends the thread in
\* the kernel.  It runs after probe_handler(), or before it and then instead
\* of it.  A thread that ends this way is joined with the result 0.
Suicide(t) ==
  /\ Nasty(t) /\ program = "suicide"
  /\ pc[t] \in {"trap", "suicide"}
  /\ pc' = [pc EXCEPT ![t] = "done"]
  /\ UNCHANGED <<program, loaded, created, joined, proc, iter, probe, slot, tmp,
                 result, num_probes, hits, overlap>>

\* _probe_N() counts and compares, and the counting thread goes on to the next
\* probe point, to the next round, or returns.
CountBody(t) ==
  /\ pc[t] = "body" /\ Counting(t)
  /\ LET s    == UserCounts(slot[t][probe[t]])
         r    == ProbeResult(s)
         last == probe[t] = LastProbe
     IN  /\ slot' = [slot EXCEPT ![t][probe[t]] = s]
         /\ \/ /\ r < 0
               /\ result' = [result EXCEPT ![t] = r]
               /\ pc' = [pc EXCEPT ![t] = "done"]
               /\ UNCHANGED <<iter, probe, overlap>>
            \/ /\ r >= 0 /\ ~last
               /\ probe' = [probe EXCEPT ![t] = @ + 1]
               /\ pc' = [pc EXCEPT ![t] = "call"]
               /\ UNCHANGED <<iter, result, overlap>>
            \/ /\ r >= 0 /\ last
               /\ probe' = [probe EXCEPT ![t] = 0]
               /\ iter' = [iter EXCEPT ![t] = @ + 1]
               /\ pc' = [pc EXCEPT ![t] =
                           IF iter[t] + 1 < Iters THEN "call" ELSE "done"]
               /\ UNCHANGED result
  /\ UNCHANGED <<program, loaded, created, joined, proc, tmp, num_probes, hits,
                 overlap>>

\* The nasty thread calls one probe point: suicide_thread() returns 0 whatever
\* the call returned, exec_thread() goes on to execl() unless it failed.
NastyBody(t) ==
  /\ pc[t] = "body" /\ Nasty(t)
  /\ LET s     == UserCounts(slot[t][probe[t]])
         fails == program = "texec" /\ ProbeResult(s) < 0
     IN  /\ slot' = [slot EXCEPT ![t][probe[t]] = s]
         /\ result' = [result EXCEPT ![t] = IF fails THEN ProbeResult(s) ELSE 0]
         /\ pc' = [pc EXCEPT ![t] = IF program = "texec" /\ ~fails
                                    THEN "exec" ELSE "done"]
  /\ UNCHANGED <<program, loaded, created, joined, proc, iter, probe, tmp,
                 num_probes, hits, overlap>>

\* execl() replaces the process: its threads, and with them main, are gone.
Exec(t) ==
  /\ pc[t] = "exec"
  /\ proc' = "execed"
  /\ UNCHANGED <<program, loaded, created, joined, pc, iter, probe, slot, tmp,
                 result, num_probes, hits, overlap>>

\* execl() fails: exec_thread() ends without a return statement, so that what
\* it returns is undefined.
ExecFails(t) ==
  /\ pc[t] = "exec"
  /\ \E r \in {0, 1} : result' = [result EXCEPT ![t] = r]
  /\ pc' = [pc EXCEPT ![t] = "done"]
  /\ UNCHANGED <<program, loaded, created, joined, proc, iter, probe, slot, tmp,
                 num_probes, hits, overlap>>

\* Mutant of Crash: the signal ends the thread only.
Crash_ThreadOnly(t) ==
  /\ pc[t] = "crash"
  /\ pc' = [pc EXCEPT ![t] = "done"]
  /\ UNCHANGED <<program, loaded, created, joined, proc, iter, probe, slot, tmp,
                 result, num_probes, hits, overlap>>

\* thread_die() writes through a null pointer: SIGSEGV kills the process.
Crash(t) ==
  /\ pc[t] = "crash"
  /\ proc' = "killed"
  /\ UNCHANGED <<program, loaded, created, joined, pc, iter, probe, slot, tmp,
                 result, num_probes, hits, overlap>>

-----------------------------------------------------------------------------
Main == proc = "running" /\ (Create \/ CreateFails \/ Join)

Thread(t) ==
  /\ proc = "running"
  /\ \/ Call(t) \/ Handler(t) \/ Store(t) \/ Suicide(t) \/ CountBody(t)
     \/ NastyBody(t) \/ Exec(t) \/ ExecFails(t) \/ Crash(t)

\* The process has ended.
Terminated == proc # "running" /\ UNCHANGED vars

Next == Main \/ (\E t \in Threads : Thread(t)) \/ Terminated

\* The kernel schedules every thread that can run.
Fairness == WF_vars(Main) /\ \A t \in Threads : WF_vars(Thread(t))

Spec     == Init /\ [][Next]_vars
FairSpec == Spec /\ Fairness

-----------------------------------------------------------------------------
(* Properties *)

TypeOK ==
  /\ program \in Programs
  /\ loaded \in BOOLEAN
  /\ created \in 0 .. NumThreads
  /\ joined \in 0 .. NumThreads
  /\ proc \in {"running", "passed", "failed", "internal", "killed", "execed"}
  /\ pc \in [Threads -> {"none", "call", "trap", "store", "suicide", "body",
                         "exec", "crash", "done"}]
  /\ iter \in [Threads -> 0 .. Iters]
  /\ probe \in [Threads -> Probes]
  /\ slot \in [Threads -> [Probes -> Slots(Threads)]]
  /\ tmp \in [Threads -> ULong]
  /\ result \in [Threads -> Int]
  /\ num_probes \in ULong
  /\ hits \in Nat
  /\ overlap \in BOOLEAN

\* How often a counting thread has entered the body of its probe point p.
CallsMade(t, p) ==
  iter[t] + (IF pc[t] # "done" /\ p < probe[t] THEN 1 ELSE 0)

\* The handler has counted a call that its caller has not counted yet.
InFlight(t, p) == probe[t] = p /\ pc[t] \in {"store", "suicide", "body"}

\* Both sides count every call: when no handler is at work on a slot, its two
\* counts are equal and are the calls made (u_mod_common.h:104-107 and the
\* last two paragraphs of uprobes.w/README).
CountsAgree ==
  loaded => \A t \in Threads, p \in Called :
    (Counting(t) /\ ~InFlight(t, p)) =>
      /\ slot[t][p].kcount = slot[t][p].ucount
      /\ CallsMade(t, p) > 0 => slot[t][p].kcount = CallsMade(t, p) - 1

\* The test is sound: it reports ***PASSED*** only if the kernel has counted
\* every call of every counting thread, no matter how the threads interleave,
\* in which order they end and how the nasty thread ended (report_pass() after
\* the join loop of main).
PassMeansCounted ==
  proc = "passed" =>
    \A t \in Threads : Counting(t) =>
      \A p \in Called : /\ slot[t][p].kcount = Iters - 1
                        /\ slot[t][p].ucount = Iters - 1

\* The test is exact: while the module is loaded no probe function ever
\* returns -1 or -2 to a counting thread, so that only an execl() that failed
\* can make main report !!!FAILED!!!, and no thread finds its slot taken.
NoFalseAlarm ==
  loaded => /\ \A t \in Threads : Counting(t) => result[t] = 0
            /\ proc = "failed" => program = "texec"
            /\ proc = "internal" => created < NumThreads

\* A missing module is noticed (the mismatch test of uprobes.w/README): the
\* first call returns -1, so that no run without the module gets past one call
\* per thread, and none that has a counting thread passes.
MissingModuleFails ==
  ~loaded => /\ \A t \in Threads : iter[t] = 0 /\ num_probes = 0
             /\ proc = "passed" => \A t \in Threads : Nasty(t)

\* num_probes++ by handlers that overlap loses hits and never invents one, and
\* overlapping handlers are the only way to lose one: cleanup_module() logs the
\* exact number of hits unless two handlers ever ran at the same time.
NumProbesBound ==
  /\ num_probes <= hits
  /\ (~overlap /\ hits < ULongMod) =>
       num_probes = IF \E t \in Threads : pc[t] = "store" THEN hits - 1 ELSE hits

\* A thread that dies alone does not take the test down and is not mistaken
\* for a failure; one that takes its process along is never reported as PASSED
\* (tdie's SIGSEGV, texec's execl()).
NastyEnds ==
  /\ proc = "passed" => program # "tdie"
  /\ proc = "killed" => program = "tdie"
  /\ proc = "execed" => program = "texec" /\ (loaded => hits > 0)

\* uprobes.w/ksuicide:12 and the other expected files compare the num_probes
\* that cleanup_module() logs with the exact number of hits.
NumProbesExact == proc = "passed" => num_probes = hits

\* The process always ends and so, in runtest.sh, the test has a verdict.
Ends == <>(proc # "running")

\* With the module loaded a test whose threads only count, or whose nasty
\* thread dies in a handler, passes, unless a thread cannot be created.
HealthyPasses ==
  (loaded /\ program \in {"uthread", "suicide"}) ~>
     proc \in {"passed", "internal"}

-----------------------------------------------------------------------------
(* The inductive invariants behind these properties. *)

\* The value of a count that starts at -1, after n calls.
CountAfter(n) == IF n = 0 THEN NotCounting ELSE n - 1

\* Main creates, then joins, in the order of the threads, and each verdict has
\* its cause.
MainInv ==
  /\ joined > 0 => created = NumThreads
  /\ \A t \in Threads : pc[t] = "none" <=> t > created
  /\ \A t \in Threads :
       t <= joined => pc[t] = "done" /\ (proc # "failed" => result[t] = 0)
  /\ proc = "passed"   => joined = NumThreads
  /\ proc = "failed"   => \E t \in Threads : result[t] # 0
  /\ proc = "internal" => created < NumThreads
  /\ proc = "killed"   => program = "tdie"
  /\ proc = "execed"   => program = "texec" /\ (loaded => hits > 0)

\* Where a counting thread can be, and what it has returned when it is done.
CountingInv(t) ==
  /\ pc[t] \in {"none", "call", "trap", "store", "body", "done"}
  /\ probe[t] \in Called
  /\ pc[t] \notin {"none", "done"} => iter[t] < Iters
  /\ pc[t] = "done" =>
       \/ result[t] < 0
       \/ result[t] = 0 /\ loaded /\ iter[t] = Iters /\ probe[t] = 0

NastyInv(t) ==
  /\ program = "tdie" => pc[t] \in {"none", "crash"}
  /\ program # "texec" => result[t] = 0 /\ pc[t] # "exec"
  /\ (loaded /\ program = "texec" /\ pc[t] \in {"store", "body", "exec"}) =>
       hits > 0

ThreadInv(t) ==
  /\ Counting(t) => CountingInv(t)
  /\ Nasty(t) => NastyInv(t)
  /\ pc[t] = "crash" => program = "tdie"
  /\ pc[t] = "none" => iter[t] = 0 /\ probe[t] = 0
  /\ pc[t] # "done" => result[t] = 0
  /\ ~loaded => iter[t] = 0 /\ pc[t] \notin {"trap", "store", "suicide"}

\* What the two sides have counted, call by call, until a call fails.  During
\* a call ucount is left out: a wide ulong clobbers it.
SlotInv(t) ==
  /\ \A p \in Probes : slot[t][p].utid \in {NoTid, t}
  /\ ~loaded => \A p \in Probes : slot[t][p].kcount = NotCounting
  /\ (loaded /\ Counting(t) /\ result[t] = 0) => \A p \in Called :
       /\ slot[t][p].kcount =
            CountAfter(CallsMade(t, p) + (IF InFlight(t, p) THEN 1 ELSE 0))
       /\ ~InFlight(t, p) => slot[t][p].ucount = CountAfter(CallsMade(t, p))

BaseInv ==
  /\ TypeOK
  /\ MainInv
  /\ \A t \in Threads : ThreadInv(t) /\ SlotInv(t)

\* What is true besides where the store of ktid leaves ucount alone.
ExactInv ==
  loaded => \A t \in Threads : Counting(t) =>
    /\ result[t] = 0
    /\ \A p \in Called :
         InFlight(t, p) => slot[t][p].ucount = CountAfter(CallsMade(t, p))

IndInv == BaseInv /\ ExactInv
=============================================================================
