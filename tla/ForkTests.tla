------------------------------ MODULE ForkTests ------------------------------
(***************************************************************************)
(* The programs that fork, or run two threads, under a counting module:    *)
(*   fork_thread      each thread forks a child, hits probe 0, waits for a *)
(*                    child, and hits probe 0 again;                       *)
(*   fork_and_defunc  each thread forks and does not wait; the module sets *)
(*                    no handler;                                          *)
(*   probe8-fork      main forks, both call add(), main waits;             *)
(*   probe7-thread    two threads call add(), no fork;                     *)
(*   probeme6         calls add(), and five more functions once each after *)
(*                    it has said PASSED;                                  *)
(*   suicide          probeme6 again, under a module whose handler ends    *)
(*                    the task that calls add().                           *)
(* Probes are not inherited: the child must find its probe points silent.  *)
(*                                                                         *)
(* What the kernel makes of the breakpoints in the child's copy of the     *)
(* program is not under src/: it removes them, or keeps them and counts,   *)
(* or forgets them and lets the child die of SIGTRAP.  So is what it makes *)
(* of a consumer without a handler: nothing, or an oops that ends the task.*)
(*                                                                         *)
(* A slot is private to a task, so that all that a handler does before it  *)
(* stores the module's counter (num_probes, or ncalls of probe5) is one    *)
(* step.  Module Harness starts, stops and judges the programs.            *)
(***************************************************************************)
EXTENDS ProbeSlot, Sequences

CONSTANTS Tests,       \* the programs to run, each with what the kernel does, and
                       \* where its memory has the inode of the program
          NumThreads,  \* argv[1] of fork_thread and fork_and_defunc
          Iters        \* the number of iterations

ForkPrograms == {"fork_thread", "probe8-fork"}

ASSUME ForkAssumption ==
  /\ Tests \subseteq
       [program : ForkPrograms, kernel : {"removes", "inherits", "traps"},
        inode : ULong] \cup
       [program : {"fork_and_defunc"}, kernel : {"skips", "oopses"},
        inode : ULong] \cup
       [program : {"probe7-thread", "probeme6", "suicide"}, kernel : {"removes"},
        inode : ULong]
  /\ NumThreads \in Nat \ {0}
  /\ (\E t \in Tests : t.program = "probe7-thread") => NumThreads > 1
  /\ Iters \in Nat \ {0}

Threads  == 1 .. NumThreads
Child(t) == t + NumThreads          \* the process that thread t has forked
Children == {Child(t) : t \in Threads}
Tasks    == Threads \cup Children

VARIABLES
  test,
  attached,         \* the module's probes are in the program
  proc,             \* the program: where it is, or how it ended
  created, joined,  \* how many threads
  pc, calls, slot, result,  \* of each task; a call is one of a probed function
  tmp,              \* the counter as a handler has loaded it
  status,           \* how a child has ended
  waited,           \* the status that wait() gave a thread
  counter,          \* num_probes, or ncalls; one for all functions of probeme6
  log,              \* what the module has printed for the test to compare
  hits, childHits,  \* history: handlers run, and run in a child
  overlap,          \* history: one handler has started during another
  fault             \* history: something has failed that the tests rely on

mainVars  == <<proc, created, joined>>
taskVars  == <<pc, calls, slot, result, tmp, status, waited>>
countVars == <<counter, log, hits, childHits, overlap>>
forkVars  == <<test, attached, mainVars, taskVars, countVars, fault>>

Program == test.program

Probeme6  == Program \in {"probeme6", "suicide"}

\* main() of these starts no threads, and is the first of them here.
Single    == Probeme6 \/ Program = "probe8-fork"
Workers   == CASE Single                    -> 1
               [] Program = "probe7-thread" -> 2
               [] OTHER                     -> NumThreads
Forks     == Program \in {"fork_thread", "fork_and_defunc", "probe8-fork"}
HasSlots  == Program \in {"fork_thread", "fork_and_defunc"}

\* The functions that probeme6 calls last: two of the five, bye() to
\* arrivederci(), stand for them.
LastCalls == <<"bye", "adios">>

\* The calls of a thread in all.
AllCalls == IF Probeme6 THEN Iters + Len(LastCalls) ELSE 2 * Iters

\* The module's lines: a registration with its numbers replaced, and a call of
\* function f, which is 0 for add() and else one of LastCalls.
Reg       == [text |-> "Registering", num |-> 0]
Called(f) == [text |-> "called", num |-> f]

\* A registration as it is printed.  The pid and the vaddr of probe5 and probe6
\* are always replaced; kfork_thread prints the inode's address as an int, and the
\* offset, a loff_t, as a ulong: where that is narrower the name that follows is
\* read from the offset's high half, and is "(null)".
Registration ==
  IF HasSlots
  THEN [text |-> IF WideLong THEN "inode" ELSE "null", num |-> ToInt(test.inode)]
  ELSE Reg

\* The function of the n-th call.
Function(n) == IF Probeme6 /\ n > Iters THEN n - Iters ELSE 0

\* probe5 and probe6 print a line for each call, unless verbose=0; probe5 does
\* so before it counts and probe6 after.
PrintsFirst == Program = "probe8-fork"
PrintsLast  == Program = "probeme6"

Ended == proc \in {"passed", "failed", "internal", "crashed", "killed"}

\* A task runs: a child whatever has become of the program.
Runs(p) == p \in Threads => proc \in {"running", "leaving"}

\* A child has not ended, or a handler has not.
Alive == \/ \E c \in Children : pc[c] \in {"call", "store", "return"}
         \/ \E t \in Threads  : pc[t] = "store"

ForkInit ==
  /\ test \in Tests
  /\ attached = FALSE
  /\ proc = "none"
  /\ created = 0 /\ joined = 0
  /\ pc = [p \in Tasks |-> "none"]
  /\ calls = [p \in Tasks |-> 0]
  /\ slot = [p \in Tasks |-> NewSlot]
  /\ result = [t \in Threads |-> 0]
  /\ tmp = [p \in Tasks |-> 0]
  /\ status = [c \in Children |-> "none"]
  /\ waited = [t \in Threads |-> "none"]
  /\ hits = 0 /\ childHits = 0
  /\ overlap = FALSE /\ fault = FALSE

-----------------------------------------------------------------------------
(* main() *)

\* kill(getpid(), SIGSTOP).
Stop ==
  /\ proc = "starting"
  /\ proc' = "stopped"
  /\ UNCHANGED <<test, attached, created, joined, taskVars, countVars, fault>>

\* Mutant of Create: one thread too many.
Create_OneMore ==
  /\ proc = "running" /\ created <= Workers
  /\ created' = created + 1
  /\ pc' = [pc EXCEPT ![created'] = IF Forks THEN "fork" ELSE "call"]
  /\ UNCHANGED <<test, attached, proc, joined, calls, slot, result, tmp, status,
                 waited, countVars, fault>>

Create ==
  /\ proc = "running" /\ created < Workers
  /\ created' = created + 1
  /\ pc' = [pc EXCEPT ![created'] = IF Forks THEN "fork" ELSE "call"]
  /\ UNCHANGED <<test, attached, proc, joined, calls, slot, result, tmp, status,
                 waited, countVars, fault>>

\* pthread_create() fails.  probe7-thread does not look.
CreateFails ==
  /\ proc = "running" /\ created < Workers
  /\ ~Single
  /\ IF HasSlots THEN proc' = "internal" /\ UNCHANGED <<created, pc>>
     ELSE /\ created' = created + 1
          /\ pc' = [pc EXCEPT ![created'] = "garbage"]
          /\ UNCHANGED proc
  /\ fault' = TRUE
  /\ UNCHANGED <<test, attached, joined, calls, slot, result, tmp, status, waited,
                 countVars>>

\* Main joins the threads in turn and stops at the first that has failed;
\* main() of probe8-fork goes by its own status, and the others by nothing.
Join ==
  /\ proc \in {"running", "leaving"} /\ created = Workers
  /\ pc[joined + 1] \in {"done", "garbage"}
  /\ IF result[joined + 1] # 0
     THEN proc' = (IF HasSlots THEN "failed" ELSE "internal") /\ UNCHANGED joined
     ELSE /\ joined' = joined + 1
          /\ proc' = IF joined' = Workers THEN "passed" ELSE "running"
  /\ UNCHANGED <<test, attached, created, taskVars, countVars, fault>>

\* probeme6 says PASSED, and goes on.
SayPassed ==
  /\ proc = "running" /\ pc[1] = "say"
  /\ proc' = "leaving"
  /\ pc' = [pc EXCEPT ![1] = "call"]
  /\ UNCHANGED <<test, attached, created, joined, calls, slot, result, tmp, status,
                 waited, countVars, fault>>

\* pthread_join() of a thread that has no id (undefined): a crash.
JoinCrashes ==
  /\ proc = "running" /\ created = Workers
  /\ pc[joined + 1] = "garbage"
  /\ proc' = "crashed"
  /\ UNCHANGED <<test, attached, created, joined, taskVars, countVars, fault>>

-----------------------------------------------------------------------------
(* fork() and wait() *)

\* The child is a copy of the thread, with a copy of its slot.
Fork(t) ==
  /\ proc = "running" /\ pc[t] = "fork"
  /\ pc' = [pc EXCEPT ![t] = "call", ![Child(t)] = "call"]
  /\ slot' = [slot EXCEPT ![Child(t)] = slot[t]]
  /\ UNCHANGED <<test, attached, mainVars, calls, result, tmp, status, waited,
                 countVars, fault>>

\* fork() fails.  Its -1 is not 0, and makes a parent of the thread; only
\* probe8-fork looks.
ForkFails(t) ==
  /\ proc = "running" /\ pc[t] = "fork"
  /\ IF HasSlots THEN pc' = [pc EXCEPT ![t] = "call"] /\ UNCHANGED proc
                 ELSE proc' = "internal" /\ UNCHANGED pc
  /\ fault' = TRUE
  /\ UNCHANGED <<test, attached, created, joined, calls, slot, result, tmp, status,
                 waited, countVars>>

\* Mutant of StatusOf: WIFEXITED() alone is looked at.
StatusOf_Ignored(s) == 0

\* What a parent makes of a status: fork_thread takes WEXITSTATUS(), which is 0
\* after a signal, and probe8-fork the whole status.
StatusOf(s) == IF s = "exit1" \/ (s = "signal" /\ ~HasSlots) THEN 1 ELSE 0

\* wait() takes any child of the process that has ended, or is left with an
\* uninitialised status if there is none to wait for.
Wait(t) ==
  /\ proc = "running" /\ pc[t] = "wait"
  /\ \/ \E c \in Children :
           /\ pc[c] = "zombie"
           /\ pc' = [pc EXCEPT ![c] = "reaped",
                               ![t] = IF HasSlots THEN "call" ELSE "done"]
           /\ waited' = [waited EXCEPT ![t] = status[c]]
     \/ /\ \A c \in Children : pc[c] \in {"none", "reaped"}
        /\ pc' = [pc EXCEPT ![t] = "call"]
        /\ \E s \in {"exit0", "exit1"} : waited' = [waited EXCEPT ![t] = s]
  /\ result' = [result EXCEPT ![t] = IF HasSlots THEN 0 ELSE StatusOf(waited'[t])]
  /\ UNCHANGED <<test, attached, mainVars, calls, slot, tmp, status, countVars,
                 fault>>

-----------------------------------------------------------------------------
(* A call of a probed function. *)

\* What its breakpoint does to a task: nothing if it has none.
Effect(p) ==
  IF ~attached THEN "nothing"
  ELSE IF Program = "suicide"
       THEN IF Function(calls[p] + 1) = 0 THEN "exits" ELSE "nothing"
  ELSE IF Program = "fork_and_defunc"
       THEN IF p \in Threads /\ test.kernel = "oopses" THEN "oops" ELSE "nothing"
  ELSE IF p \in Threads \/ test.kernel = "inherits" THEN "counts"
  ELSE IF test.kernel = "traps" THEN "SIGTRAP" ELSE "nothing"

\* probe_0() claims the slot; a task's thread id is its number.
Claimed(p) == IF HasSlots THEN [slot[p] EXCEPT !.utid = p] ELSE slot[p]

\* The handler, up to the load of the counter.
Hit(p) ==
  /\ Runs(p) /\ pc[p] = "call" /\ Effect(p) = "counts"
  /\ pc' = [pc EXCEPT ![p] = "store"]
  /\ slot' = [slot EXCEPT ![p] = IF HasSlots THEN HandlerCounts(Claimed(p), p) ELSE @]
  /\ tmp' = [tmp EXCEPT ![p] = counter]
  /\ log' = IF PrintsFirst THEN Append(log, Called(0)) ELSE log
  /\ hits' = hits + 1
  /\ childHits' = IF p \in Children THEN childHits + 1 ELSE childHits
  /\ overlap' = (overlap \/ \E u \in Tasks : pc[u] = "store")
  /\ UNCHANGED <<test, attached, mainVars, calls, result, status, waited, counter,
                 fault>>

\* The store of the counter and the rest of the handler.  A handler runs to its end though the program may
\* have ended by now.
Store(p) ==
  /\ pc[p] = "store"
  /\ counter' = Incr(tmp[p])
  /\ pc' = [pc EXCEPT ![p] = "return"]
  /\ log' = IF PrintsLast THEN Append(log, Called(Function(calls[p] + 1))) ELSE log
  /\ UNCHANGED <<test, attached, mainVars, calls, slot, result, tmp, status, waited,
                 hits, childHits, overlap, fault>>

\* No breakpoint, or one that does nothing.
Miss(p) ==
  /\ Runs(p) /\ pc[p] = "call" /\ Effect(p) = "nothing"
  /\ pc' = [pc EXCEPT ![p] = "return"]
  /\ slot' = [slot EXCEPT ![p] = Claimed(p)]
  /\ UNCHANGED <<test, attached, mainVars, calls, result, tmp, status, waited,
                 countVars, fault>>

\* The breakpoint has been forgotten: it kills the child.
Trapped(c) ==
  /\ pc[c] = "call" /\ Effect(c) = "SIGTRAP"
  /\ pc' = [pc EXCEPT ![c] = "zombie"]
  /\ status' = [status EXCEPT ![c] = "signal"]
  /\ UNCHANGED <<test, attached, mainVars, calls, slot, result, tmp, waited,
                 countVars, fault>>

\* A consumer without a handler: the thread ends in the kernel, and what is
\* joined is 0.
Oops(t) ==
  /\ Runs(t) /\ pc[t] = "call" /\ Effect(t) = "oops"
  /\ pc' = [pc EXCEPT ![t] = "done"]
  /\ fault' = TRUE
  /\ UNCHANGED <<test, attached, mainVars, calls, slot, result, tmp, status, waited,
                 countVars>>

\* The handler of suicide: do_exit(), of the only thread of the program.
Exits(t) ==
  /\ Runs(t) /\ pc[t] = "call" /\ Effect(t) = "exits"
  /\ pc' = [pc EXCEPT ![t] = "done"]
  /\ proc' = "killed"
  /\ hits' = hits + 1
  /\ UNCHANGED <<test, attached, created, joined, calls, slot, result, tmp, status,
                 waited, counter, log, childHits, overlap, fault>>

\* The user's side of the call.
Returns(p) ==
  /\ Runs(p) /\ pc[p] = "return"
  /\ slot' = [slot EXCEPT ![p] = IF HasSlots THEN UserCounts(@) ELSE @]
  /\ calls' = [calls EXCEPT ![p] = @ + 1]
  /\ UNCHANGED <<test, attached, mainVars, tmp, waited, countVars, fault>>

\* What a thread does after its first round.
AfterRound == IF Forks THEN "wait" ELSE IF Probeme6 THEN "say" ELSE "done"

\* A thread: a result below 0 ends it; after the second round fork_thread has the
\* child's status left.
\* (The exit(0) of fork_and_defunc is never reached: without a handler the first
\* call returns -1.)
ParentReturns(t) ==
  /\ Returns(t)
  /\ LET r == IF HasSlots THEN ProbeResult(slot'[t]) ELSE 0
     IN  /\ pc' = [pc EXCEPT ![t] =
                     IF r < 0 THEN "done"
                     ELSE IF calls'[t] = Iters THEN AfterRound
                     ELSE IF calls'[t] = AllCalls THEN "done" ELSE "call"]
         /\ result' = [result EXCEPT ![t] =
                         IF r < 0 THEN r
                         ELSE IF calls'[t] = AllCalls THEN StatusOf(waited[t]) ELSE 0]
  /\ UNCHANGED status

\* A child of fork_thread, or fork_and_defunc, that is counted is a failure.
ChildSeesProbe(c) == HasSlots /\ ProbeResult(slot'[c]) # -1

ChildReturns(c) ==
  /\ Returns(c)
  /\ LET ends == ChildSeesProbe(c) \/ calls'[c] = Iters
     IN  /\ pc' = [pc EXCEPT ![c] = IF ends THEN "zombie" ELSE "call"]
         /\ status' = [status EXCEPT ![c] = IF ~ends THEN "none"
                                            ELSE IF ChildSeesProbe(c) THEN "exit1"
                                            ELSE "exit0"]
  /\ UNCHANGED result

Main == Stop \/ Create \/ CreateFails \/ SayPassed \/ Join \/ JoinCrashes

Thread(t) == \/ Fork(t) \/ ForkFails(t) \/ Wait(t)
             \/ Hit(t) \/ Store(t) \/ Miss(t) \/ Oops(t) \/ Exits(t)
             \/ ParentReturns(t)

ChildStep(c) == \/ Hit(c) \/ Store(c) \/ Miss(c) \/ Trapped(c) \/ ChildReturns(c)

Programs == \/ Main
            \/ \E t \in Threads : Thread(t)
            \/ \E c \in Children : ChildStep(c)
=============================================================================
