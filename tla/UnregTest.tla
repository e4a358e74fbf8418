------------------------------ MODULE UnregTest ------------------------------
(***************************************************************************)
(* The test unreg and its module kunreg.  The module registers the test's  *)
(* probe points one by one and keeps, in probes[], what it registered; it  *)
(* stops at the first failure, and loads all the same.  The program runs,  *)
(* round by round, a set of thread_1's that must find every probe point    *)
(* counting and then a set of thread_2's that must find none.  Between     *)
(* them it calls unreg_all(), where kunreg once hooked unregister_all():   *)
(* the hook depends on UPROBES_REG_CALLBACK, which no longer compiles with *)
(* struct uprobe_consumer, so that reg_all() and unreg_all() do nothing.   *)
(*                                                                         *)
(* The slots of a thread are its own: a call of a probe function, with its *)
(* trap and handler, is one step.  Module ProbeCount has the finer steps,  *)
(* and the global num_probes, which here is the history variable hits.     *)
(***************************************************************************)
EXTENDS ProbeSlot, FiniteSets

CONSTANTS NumThreads,  \* argv[1]
          NumProbes,   \* NUM_PROBES, the symbols that match *_probe*
          Iters,       \* argv[2]
          MaxProbes    \* MAX_PROBES

ASSUME UnregAssumption ==
  /\ NumThreads \in Nat \ {0} /\ NumProbes \in Nat \ {0}
  /\ Iters \in Nat \ {0}      /\ MaxProbes \in Nat
  /\ NumProbes < MaxProbes

Threads == 1 .. NumThreads
Probes  == 0 .. (NumProbes - 1)
NoEntry == NumProbes            \* a zeroed entry of probes[]

VARIABLES
  module,          \* "loading", "loaded", "refused", "unloaded"
  probes,          \* probes[]: which probe point an entry registered
  num_reg_probes,
  registered,      \* the probe points with a consumer
  round,           \* j of main's loop
  part,            \* 1: main runs the thread_1's, 2: the thread_2's
  created, joined, \* how many threads of this part
  pc, probe, slot, result,    \* of each thread
  proc,            \* "stopped", "running", or how the process ended
  hits,            \* history: how often probe_handler() has run
  hits2            \* history: ... in a thread_2

modVars    == <<module, probes, num_reg_probes, registered>>
mainVars   == <<round, part, created, joined>>
threadVars == <<pc, probe, slot, result>>
vars == <<modVars, mainVars, threadVars, proc, hits, hits2>>

Init ==
  /\ module = "loading"
  /\ probes = [i \in 0 .. (MaxProbes - 1) |-> NoEntry]
  /\ num_reg_probes = 0
  /\ registered = {}
  /\ round = 0 /\ part = 1 /\ created = 0 /\ joined = 0
  /\ pc = [t \in Threads |-> "none"]
  /\ probe = [t \in Threads |-> 0]
  /\ slot = [t \in Threads |-> [p \in Probes |-> NewSlot]]
  /\ result = [t \in Threads |-> 0]
  /\ proc = "stopped"
  /\ hits = 0 /\ hits2 = 0

-----------------------------------------------------------------------------
(* kunreg, and the script that loads and unloads it *)

\* One turn of the loop in register_all().
Register ==
  /\ module = "loading" /\ num_reg_probes < NumProbes
  /\ registered' = registered \cup {num_reg_probes}
  /\ probes' = [probes EXCEPT ![num_reg_probes] = num_reg_probes]
  /\ num_reg_probes' = num_reg_probes + 1
  /\ UNCHANGED <<module, mainVars, threadVars, proc, hits, hits2>>

\* The loop ends, or ends early because kzalloc() or uprobe_register() failed;
\* register_all() returns 0 in any case, and so does init_module().  insmod
\* returns, and runtest.sh continues the stopped program.
Loaded ==
  /\ module = "loading"
  /\ module' = "loaded"
  /\ proc' = "running"
  /\ UNCHANGED <<probes, num_reg_probes, registered, mainVars, threadVars, hits,
                 hits2>>

\* init_module() fails before it registers anything: runtest.sh continues the
\* program, and then kills it.
LoadFails ==
  /\ module = "loading" /\ num_reg_probes = 0
  /\ module' = "refused"
  /\ proc' = "running"
  /\ UNCHANGED <<probes, num_reg_probes, registered, mainVars, threadVars, hits,
                 hits2>>

Kill ==
  /\ module = "refused" /\ proc = "running"
  /\ proc' = "killed"
  /\ UNCHANGED <<modVars, mainVars, threadVars, hits, hits2>>

\* Mutants of Unload: the loop stops one entry early; a test that failed keeps
\* its module.
Unload_OneShort ==
  /\ module = "loaded" /\ proc \notin {"stopped", "running"}
  /\ registered' = registered \ {probes[i] : i \in 0 .. (num_reg_probes - 2)}
  /\ module' = "unloaded"
  /\ UNCHANGED <<probes, num_reg_probes, mainVars, threadVars, proc, hits, hits2>>

Unload_IfPassed ==
  /\ module = "loaded" /\ proc = "passed"
  /\ registered' = registered \ {probes[i] : i \in 0 .. num_reg_probes}
  /\ module' = "unloaded"
  /\ UNCHANGED <<probes, num_reg_probes, mainVars, threadVars, proc, hits, hits2>>

\* rmmod, when the program has ended: unregister_all() goes through probes[] up
\* to and including the entry after the last, which is zero and unregisters
\* nothing.
Unload ==
  /\ module = "loaded" /\ proc \notin {"stopped", "running"}
  /\ registered' = registered \ {probes[i] : i \in 0 .. num_reg_probes}
  /\ module' = "unloaded"
  /\ UNCHANGED <<probes, num_reg_probes, mainVars, threadVars, proc, hits, hits2>>

-----------------------------------------------------------------------------
(* The threads *)

\* Mutant of LastProbe: the table is one entry longer.
LastProbe_OneTooFar == NumProbes

LastProbe == NumProbes - 1

\* Mutant of GoesOn: thread_1() is content with a probe that is not counting.
GoesOn_Lenient(r) == IF part = 1 THEN r >= -1 ELSE r = -1

\* thread_1() goes on as long as the kernel counts, thread_2() as long as it
\* does not; the first result that differs is what the thread returns.
GoesOn(r) == IF part = 1 THEN r >= 0 ELSE r = -1

\* A thread calls probe_N(&probe_table[N]).
CallProbe(t) ==
  /\ proc = "running" /\ pc[t] = "call"
  /\ LET p == probe[t]
         s == IF p \in registered THEN HandlerCounts(slot[t][p], t)
                                  ELSE slot[t][p]
         u == UserCounts([s EXCEPT !.utid = t])
         r == ProbeResult(u)
     IN  /\ slot' = [slot EXCEPT ![t][p] = u]
         /\ IF GoesOn(r)
            THEN /\ result' = result
                 /\ IF p < LastProbe
                    THEN probe' = [probe EXCEPT ![t] = p + 1] /\ pc' = pc
                    ELSE pc' = [pc EXCEPT ![t] = "done"] /\ probe' = probe
            ELSE /\ result' = [result EXCEPT ![t] = r]
                 /\ pc' = [pc EXCEPT ![t] = "done"]
                 /\ probe' = probe
         /\ hits'  = IF p \in registered THEN hits + 1 ELSE hits
         /\ hits2' = IF p \in registered /\ part = 2 THEN hits2 + 1 ELSE hits2
  /\ UNCHANGED <<modVars, mainVars, proc>>

-----------------------------------------------------------------------------
(* main() *)

\* pthread_create(), and the BUILD_PROBE_TABLE of the new thread.
Create ==
  /\ proc = "running" /\ created < NumThreads
  /\ LET t == created + 1
     IN  /\ pc' = [pc EXCEPT ![t] = "call"]
         /\ probe' = [probe EXCEPT ![t] = 0]
         /\ slot' = [slot EXCEPT ![t] = [p \in Probes |-> NewSlot]]
         /\ result' = [result EXCEPT ![t] = 0]
         /\ created' = t
  /\ UNCHANGED <<modVars, round, part, joined, proc, hits, hits2>>

CreateFails ==
  /\ proc = "running" /\ created < NumThreads
  /\ proc' = "internal"
  /\ UNCHANGED <<modVars, mainVars, threadVars, hits, hits2>>

\* Mutant of Join: the second part is not joined to its end.
Join_FirstOfPartTwo ==
  /\ proc = "running" /\ created = NumThreads
  /\ LET t    == joined + 1
         last == t = NumThreads \/ part = 2
         over == last /\ part = 2 /\ round + 1 = Iters
     IN  /\ pc[t] = "done"
         /\ proc' = IF result[t] # 0 THEN "failed"
                    ELSE IF over THEN "passed" ELSE proc
         /\ joined'  = IF last THEN 0 ELSE t
         /\ created' = IF last THEN 0 ELSE created
         /\ part'    = IF last THEN 3 - part ELSE part
         /\ round'   = IF last /\ part = 2 THEN round + 1 ELSE round
  /\ UNCHANGED <<modVars, threadVars, hits, hits2>>

\* Main waits for the threads in order.  At the first result that is not 0 it
\* reports the failure.  After the last thread of the first part comes
\* unreg_all() and the second, after that reg_all() and the next round.
Join ==
  /\ proc = "running" /\ created = NumThreads
  /\ LET t    == joined + 1
         last == t = NumThreads
         over == last /\ part = 2 /\ round + 1 = Iters
     IN  /\ pc[t] = "done"
         /\ proc' = IF result[t] # 0 THEN "failed"
                    ELSE IF over THEN "passed" ELSE proc
         /\ joined'  = IF last THEN 0 ELSE t
         /\ created' = IF last THEN 0 ELSE created
         /\ part'    = IF last THEN 3 - part ELSE part
         /\ round'   = IF last /\ part = 2 THEN round + 1 ELSE round
  /\ UNCHANGED <<modVars, threadVars, hits, hits2>>

-----------------------------------------------------------------------------
Module == Register \/ Loaded \/ LoadFails \/ Unload
Main   == Create \/ CreateFails \/ Join

\* The program has ended and the module is gone.
Terminated ==
  /\ module \in {"refused", "unloaded"} /\ proc \notin {"stopped", "running"}
  /\ UNCHANGED vars

Next == Module \/ Kill \/ Main \/ (\E t \in Threads : CallProbe(t)) \/ Terminated

\* insmod and rmmod, main and every thread run if they can.  Nothing is assumed
\* of the kill of runtest.sh.
Fairness ==
  /\ WF_vars(Module) /\ WF_vars(Main)
  /\ \A t \in Threads : WF_vars(CallProbe(t))

Spec     == Init /\ [][Next]_vars
FairSpec == Spec /\ Fairness

-----------------------------------------------------------------------------
Ended == {"passed", "failed", "internal", "killed"}

\* Types, and the bounds of the counters.
TypeOK ==
  /\ module \in {"loading", "loaded", "refused", "unloaded"}
  /\ probes \in [0 .. (MaxProbes - 1) -> Probes \cup {NoEntry}]
  /\ num_reg_probes \in 0 .. NumProbes
  /\ registered \subseteq Probes
  /\ round \in 0 .. Iters /\ part \in {1, 2}
  /\ created \in 0 .. NumThreads /\ joined \in 0 .. NumThreads
  /\ pc \in [Threads -> {"none", "call", "done"}]
  /\ probe \in [Threads -> Probes]
  /\ slot \in [Threads -> [Probes -> Slots(Threads)]]
  /\ result \in [Threads -> {-2, -1, 0}]
  /\ proc \in {"stopped", "running"} \cup Ended
  /\ hits \in 0 .. (2 * Iters * NumThreads * NumProbes) /\ hits2 \in 0 .. hits

\* rmmod leaves no consumer behind, however far register_all() had come: its
\* handler is no longer there (kunreg.c:170-175).
UnloadLeavesNone == module = "unloaded" => registered = {}

\* The verdict depends on one thing only, whether all the probe points were
\* registered: a module that stopped half way, and said so only in its log
\* (kunreg.c:71-75), or that was refused, is always found out by a thread_1;
\* and the test of a module that registered all of them never fails.
VerdictTellsTheModule ==
  /\ proc = "passed" => num_reg_probes = NumProbes
  /\ proc = "failed" => num_reg_probes < NumProbes

\* A test that has passed leaves this many hits for "num_probes=" in the log:
\* every thread_1 hits each probe point once and every thread_2 just the first
\* one, at which it stops (the expected output, uprobes.w/kunreg, has 11).
HitsOfAPass == proc = "passed" => hits = Iters * NumThreads * (NumProbes + 1)

\* Whatever the module does, the program ends, and the module goes.
TestEnds == <>(proc \in Ended /\ module \in {"refused", "unloaded"})

\* "check if all threads ran without seeing any probe points hit"
\* (unreg.c:134), "this thread is run with no probe points registered"
\* (unreg.c:43): a test that passes has had no hit in a thread_2.
PassMeansNoneHit == proc = "passed" => hits2 = 0
=============================================================================
