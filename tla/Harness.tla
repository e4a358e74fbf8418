------------------------------- MODULE Harness -------------------------------
(***************************************************************************)
(* One test from end to end: the .exp file with lib/uprobes.exp, runtest.sh*)
(* and a program of ForkTests under its module.                            *)
(*                                                                         *)
(* runtest.sh starts the program, which stops itself, inserts the module,  *)
(* continues the program and waits for it.  uprobes_run_test looks for     *)
(* PASSED in the output, or for its end, which comes when no process holds *)
(* it open any more; it has the summary printed to the module's log (by a  *)
(* write to "cleanup"), compares the log with the expected file, and       *)
(* removes the module.  uprobes_run_test_neg, for tests that must not say  *)
(* PASSED (suicide), takes the first line of output for what it looks for, *)
(* sleeps, and compares.  fork_and_defunc has no .exp file: runtest.sh is  *)
(* run by hand.                                                            *)
(*                                                                         *)
(* PASSED need not be the last thing that a program does: probeme6 goes on *)
(* to hit its last probe points while the script is at end_mod already.    *)
(*                                                                         *)
(* Lines of the log and of the expected file are records.  The module's    *)
(* lines on its registrations stand for one; those of its summary are      *)
(* printed in one step.                                                    *)
(***************************************************************************)
EXTENDS ForkTests, SequencesExt

CONSTANTS Ten,       \* the least number of two digits
          SmallLogs  \* logs and expected files to compare

ASSUME HarnessAssumption ==
  /\ Ten \in Nat \ {0}
  /\ \A lines \in SmallLogs : lines \in Seq(Range(lines))

VARIABLES
  script,      \* where runtest.sh is
  expect,      \* where the .exp file is
  said,        \* runtest.sh has written **Error**
  loc_return,  \* loc_return of uprobes_run_test
  same,        \* uprobes_diff has found no difference
  loaded,      \* the module is in the kernel
  entry,       \* the module's count of writes to "cleanup" (0, or more)
  early,       \* history: the script went on before the program had ended
  outcome,
  stale,       \* history: the module was loaded before the test
  lateStop     \* history: SIGCONT was sent before the program had stopped

expectVars == <<expect, loc_return, same, outcome>>
scriptVars == <<script, said, lateStop>>
moduleVars == <<loaded, entry, early>>
vars == <<forkVars, expectVars, scriptVars, moduleVars, stale>>

-----------------------------------------------------------------------------
\* uprobes_run_test_neg runs the test; neither of the two does.
Negative == Program = "suicide"
ByHand   == Program = "fork_and_defunc"

(* The log and the expected file. *)

\* " 1234", which uprobes_diff puts for a number of two or more digits.
Many == -1

Summary(n) == [text |-> "summary", num |-> n]

\* How many of the first n calls are of function f.
CallsOf(f, n) == Cardinality({i \in 1 .. n : Function(i) = f})

\* What child_exit() prints: num_probes or ncalls, and in probe6 that of each
\* function.
Summaries(n) ==
  <<Summary(CallsOf(0, n))>> \o
  (IF Program = "probeme6"
   THEN [f \in DOMAIN LastCalls |-> [text |-> LastCalls[f], num |-> CallsOf(f, n)]]
   ELSE <<>>)

\* How often the parents, or the two threads, call a probed function.
ParentCalls == CASE Program = "fork_thread" -> 2 * Iters * NumThreads
                 [] Program = "probe8-fork" -> Iters
                 [] Negative                -> 1
                 [] OTHER                   -> AllCalls

\* Mutant of Normalised: the numbers are compared as they are.
Normalised_Not(line) == line

\* The number is only replaced where a space is before it: in "num_probes = 20"
\* of kfork_thread, not in "ncalls=20" of probe5.  In a registration a comma
\* follows it, which counts as a digit; a sign does not.
Normalised(line) ==
  IF line.text = "summary" /\ Program = "fork_thread" /\ line.num >= Ten
  THEN [line EXCEPT !.num = Many]
  ELSE IF line.text = "inode" /\ line.num > 0 THEN Reg
  ELSE line

\* kfork_thread_simple, probe5_probe7-thread, probe5_probe8-fork, probe6_probeme6
\* and suicide_probeme6: the calls, if they are logged, and the summary.
ExpectedCalls ==
  IF PrintsFirst \/ PrintsLast
  THEN <<Reg>> \o [i \in 1 .. ParentCalls |-> Called(Function(i))]
  ELSE <<Reg>>

Expected ==
  CASE Program = "fork_thread" -> <<Reg, Summary(Many)>>
    [] Negative                -> <<Reg>>
    [] OTHER                   -> ExpectedCalls \o Summaries(ParentCalls)

\* What cat gives: the log, or its own complaint once the module has gone.
Results == IF loaded THEN [i \in DOMAIN log |-> Normalised(log[i])]
                     ELSE <<[text |-> "NoSuchFile", num |-> 0]>>

\* Mutant of DiffStep: a line that differs is passed over in the results too.
DiffStep_Both(results, i, line) == i + 1

\* One line of the expected file: i counts the results it has matched, and is
\* compared even where they are all matched, which ends in a Tcl error, here the
\* value Len(results) + 1.
DiffStep(results, i, line) ==
  IF i >= Len(results) THEN Len(results) + 1
  ELSE IF results[i + 1] = line THEN i + 1 ELSE i

\* How many of the results the lines of the expected file have matched.
Matched(results, expected) ==
  LET i[n \in 0 .. Len(expected)] ==
        IF n = 0 THEN 0 ELSE DiffStep(results, i[n - 1], expected[n])
  IN  i[Len(expected)]

Diff(results, expected) ==
  LET i == Matched(results, expected)
  IN  IF i > Len(results) THEN "error"
      ELSE IF i = Len(results) THEN "same" ELSE "differs"

-----------------------------------------------------------------------------
\* The module is not loaded; or it is, by hand, or left by a test that has ended
\* in a Tcl error because the summary was missing.
Init ==
  /\ ForkInit
  /\ script = "check" /\ expect = "watch"
  /\ said = FALSE
  /\ loc_return = -1
  /\ same = FALSE
  /\ outcome = "none"
  /\ stale \in BOOLEAN /\ loaded = stale
  /\ lateStop = FALSE
  /\ counter = 0
  /\ early = FALSE
  /\ \/ /\ log = IF stale THEN <<Registration>> ELSE <<>>
        /\ entry = 0
     \/ /\ stale /\ ~Negative /\ ~ByHand /\ Normalised(Registration) = Reg
        /\ log = <<Registration>> \o Tail(ExpectedCalls)
        /\ entry = 1

-----------------------------------------------------------------------------
(* runtest.sh *)

\* A module that is loaded is not removed, as sbin/rmmod does not exist.
Check ==
  /\ script = "check"
  /\ IF loaded THEN script' = "ended" /\ said' = TRUE /\ UNCHANGED proc
               ELSE script' = "insmod" /\ proc' = "starting" /\ UNCHANGED said
  /\ UNCHANGED <<test, attached, created, joined, taskVars, countVars, fault,
                 expectVars, moduleVars, stale, lateStop>>

\* After "sleep 1", whatever the program has done by then.
Insmod ==
  /\ script = "insmod"
  /\ \/ /\ script' = "cont"
        /\ attached' = TRUE /\ loaded' = TRUE
        /\ log' = <<Registration>>
        /\ UNCHANGED <<said, fault>>
     \/ /\ script' = "refused"
        /\ said' = TRUE /\ fault' = TRUE
        /\ UNCHANGED <<attached, loaded, log>>
  /\ UNCHANGED <<test, mainVars, taskVars, counter, hits, childHits, overlap,
                 expectVars, entry, early, stale, lateStop>>

\* SIGCONT does nothing to a program that has not stopped yet.
Continue ==
  /\ script \in {"cont", "refused"}
  /\ proc' = IF proc = "stopped" THEN "running" ELSE proc
  /\ lateStop' = (proc = "starting")
  /\ script' = IF script = "cont" THEN "wait" ELSE "kill"
  /\ UNCHANGED <<test, attached, created, joined, taskVars, countVars, fault,
                 expectVars, moduleVars, stale, said>>

\* Mutant of Kill: the SIGKILL is left out.
Kill_Not ==
  /\ script = "kill"
  /\ script' = "ended"
  /\ UNCHANGED <<forkVars, expectVars, moduleVars, stale, said, lateStop>>

\* A program that was about to leave has said PASSED.
Kill ==
  /\ script = "kill"
  /\ proc' = IF Ended THEN proc ELSE IF proc = "leaving" THEN "passed" ELSE "killed"
  /\ script' = "ended"
  /\ UNCHANGED <<test, attached, created, joined, taskVars, countVars, fault,
                 expectVars, moduleVars, stale, said, lateStop>>

\* wait: for the program, not for its children.
WaitForJob ==
  /\ script = "wait" /\ Ended
  /\ script' = "ended"
  /\ UNCHANGED <<forkVars, expectVars, moduleVars, stale, said, lateStop>>

-----------------------------------------------------------------------------
(* uprobes_run_test *)

\* The output has ended: no process is left that could write to it.
EndOfFile == script = "ended" /\ (Ended \/ proc = "none") /\ ~Alive

\* Mutant of SeePassed: FAILED ends the watch too.
SeePassed_OrFailed ==
  /\ expect = "watch" /\ proc \in {"passed", "leaving", "failed"}
  /\ ~Negative /\ ~ByHand
  /\ loc_return' = IF proc = "failed" THEN -1 ELSE 0
  /\ expect' = "end_mod"
  /\ UNCHANGED <<forkVars, scriptVars, moduleVars, stale, same, outcome>>

\* PASSED ends the watch, even after an **Error**.
SeePassed ==
  /\ expect = "watch" /\ proc \in {"passed", "leaving"}
  /\ ~Negative /\ ~ByHand
  /\ loc_return' = 0
  /\ expect' = "end_mod"
  /\ UNCHANGED <<forkVars, scriptVars, moduleVars, stale, same, outcome>>

\* So does the end of the output; FAILED is passed over, as is a timeout.
SeeEnd ==
  /\ expect = "watch" /\ EndOfFile /\ proc # "passed"
  /\ ~Negative /\ ~ByHand
  /\ loc_return' = IF said THEN 1 ELSE loc_return
  /\ expect' = "end_mod"
  /\ UNCHANGED <<forkVars, scriptVars, moduleVars, stale, same, outcome>>

\* runtest.sh has been run by hand, and the module is left in.
RunByHand ==
  /\ expect = "watch" /\ EndOfFile
  /\ ByHand
  /\ expect' = "done"
  /\ UNCHANGED <<forkVars, scriptVars, moduleVars, stale, loc_return, same, outcome>>

\* uprobes_run_test_neg: any line ends the watch with 0, be it the rest of one
\* that says FAILED, Error or PASSED.  The first is the pid that runtest.sh says,
\* or its **Error**.  "sleep 2" follows, and no write to "cleanup".
SeeLine ==
  /\ expect = "watch" /\ Negative
  /\ script # "check"
  /\ loc_return' = 0
  /\ early' = ~EndOfFile
  /\ expect' = "diff"
  /\ UNCHANGED <<forkVars, scriptVars, loaded, entry, stale, same, outcome>>

\* Mutant of EndMod: entry is tested the wrong way round.
EndMod_Inverted ==
  /\ expect = "end_mod"
  /\ expect' = "diff"
  /\ early' = (proc = "leaving")
  /\ IF loaded /\ entry # 0
     THEN /\ entry' = 1
          /\ \/ log' = log \o Summaries(counter) /\ UNCHANGED fault
             \/ fault' = TRUE /\ UNCHANGED log
     ELSE UNCHANGED <<entry, log, fault>>
  /\ UNCHANGED <<test, attached, mainVars, taskVars, counter, hits, childHits,
                 overlap, scriptVars, loaded, stale, loc_return, same, outcome>>

\* The first write to "cleanup" has the summary printed, unless its text cannot
\* be copied from the user.
EndMod ==
  /\ expect = "end_mod"
  /\ expect' = "diff"
  /\ early' = (proc = "leaving")
  /\ IF loaded /\ entry = 0
     THEN /\ entry' = 1
          /\ \/ log' = log \o Summaries(counter) /\ UNCHANGED fault
             \/ fault' = TRUE /\ UNCHANGED log
     ELSE UNCHANGED <<entry, log, fault>>
  /\ UNCHANGED <<test, attached, mainVars, taskVars, counter, hits, childHits,
                 overlap, scriptVars, loaded, stale, loc_return, same, outcome>>

\* uprobes_diff up to uprobes_rmmod.  A Tcl error ends the .exp file here.
Compare ==
  /\ expect = "diff"
  /\ LET verdict == Diff(Results, Expected)
     IN  /\ same' = (verdict = "same")
         /\ IF verdict = "error" THEN expect' = "done" /\ outcome' = "error"
                                 ELSE expect' = "rmmod" /\ UNCHANGED outcome
  /\ UNCHANGED <<forkVars, scriptVars, moduleVars, stale, loc_return>>

\* The module goes, if it is there, and the test is judged.  kfork_thread
\* unregisters nothing; the others do, and wait for the handlers.
Rmmod ==
  /\ expect = "rmmod"
  /\ IF HasSlots THEN UNCHANGED attached
                 ELSE attached' = FALSE /\ \A p \in Tasks : pc[p] # "store"
  /\ loaded' = FALSE
  /\ expect' = "done"
  /\ outcome' = IF same /\ loc_return = 0 THEN "pass" ELSE "fail"
  /\ UNCHANGED <<test, mainVars, taskVars, countVars, fault, scriptVars, entry, early,
                 stale, loc_return, same>>

-----------------------------------------------------------------------------
Script == Check \/ Insmod \/ Continue \/ Kill \/ WaitForJob

Expect == SeePassed \/ SeeEnd \/ RunByHand \/ SeeLine \/ EndMod \/ Compare \/ Rmmod

Progress ==
  \/ Script
  \/ Expect
  \/ Programs /\ UNCHANGED <<expectVars, scriptVars, moduleVars, stale>>

Done == expect = "done" /\ UNCHANGED vars

\* The program stops itself after its SIGCONT, and everybody waits.
Hangs == lateStop /\ proc = "stopped" /\ script = "wait" /\ UNCHANGED vars

Next == Progress \/ Done \/ Hangs

Spec == Init /\ [][Next]_vars

\* The kernel runs what can run; every task and script has but a bounded number
\* of steps to make.
FairSpec == Spec /\ WF_vars(Progress)

-----------------------------------------------------------------------------
(* Properties *)

TypeOK ==
  /\ test \in Tests
  /\ attached \in BOOLEAN /\ loaded \in BOOLEAN /\ stale \in BOOLEAN
  /\ proc \in {"none", "starting", "stopped", "running", "leaving", "passed",
               "failed", "internal", "crashed", "killed"}
  /\ created \in 0 .. Workers /\ joined \in 0 .. created
  /\ pc \in [Tasks -> {"none", "garbage", "fork", "call", "store", "return", "say",
                       "wait", "done", "zombie", "reaped"}]
  /\ calls \in [Tasks -> 0 .. AllCalls]
  /\ slot \in [Tasks -> Slots(Tasks)]
  /\ result \in [Threads -> {-2, -1, 0, 1}]
  /\ tmp \in [Tasks -> ULong]
  /\ status \in [Children -> {"none", "exit0", "exit1", "signal"}]
  /\ waited \in [Threads -> {"none", "exit0", "exit1", "signal"}]
  /\ counter \in 0 .. hits /\ childHits \in 0 .. hits
  /\ \A i \in DOMAIN log :
       \/ log[i] \in {Registration, Called(0)} \cup {Summary(n) : n \in 0 .. hits}
       \/ PrintsLast /\ log[i] \in [text : {"called"} \cup Range(LastCalls), num : 0 .. 2]
  /\ overlap \in BOOLEAN /\ fault \in BOOLEAN /\ early \in BOOLEAN /\ lateStop \in BOOLEAN
  /\ script \in {"check", "insmod", "cont", "refused", "kill", "wait", "ended"}
  /\ expect \in {"watch", "end_mod", "diff", "rmmod", "done"}
  /\ said \in BOOLEAN /\ same \in BOOLEAN
  /\ loc_return \in {-1, 0, 1} /\ entry \in {0, 1}
  /\ outcome \in {"none", "pass", "fail", "error"}

\* "verify the parent's probes are working and the child's are not" (README of
\* uprobes.w, lines 27 and 28), "(no) probe inheritance across a fork()"
\* (probe8-fork.c:14): a test that is reported as passed has counted each call of
\* a parent and none of a child, and has seen the end of each child, whichever
\* thread's wait() took it.  Of the children of fork_thread some may have been
\* killed (fork_thread.c:61-64), where the kernel forgets the breakpoints.  A
\* negative test passes unseen where "sleep 2" is too short, or where its module
\* was loaded before and the program has not been run (uprobes.exp:131-147).
PassMeansParentOnly ==
  (outcome = "pass" /\ ~(Negative /\ (early \/ stale))) =>
    /\ childHits = 0 /\ hits = ParentCalls
    /\ \A c \in Children :
         \/ pc[c] = "none"
         \/ pc[c] = "reaped" /\ status[c] = "exit0"
         \/ pc[c] = "reaped" /\ status[c] = "signal" /\ Program = "fork_thread"
                             /\ test.kernel = "traps"

\* A test of a kernel that does not let probes be inherited passes in every
\* interleaving, unless something it relies on fails, two handlers overlap (they
\* may lose a count), the script had found the module loaded, or it was too early:
\* "sleep 2" of a negative test, or the summary while probeme6, which had said
\* PASSED, had yet to hit its last probe points (probeme6.c:53-54,
\* uprobes.exp:103-109).
LogAsExpected ==
  (expect = "done" /\ test.kernel = "removes" /\ ~fault /\ ~overlap /\ ~stale
     /\ ~early) => outcome = "pass"

\* kfork_thread prints a registration that is not that of kfork_thread_simple: its
\* name is "(null)", or the number of its inode is not positive
\* (kfork_thread.c:70-71, uprobes.exp:46).
Misprinted == Program = "fork_thread" /\ (~WideLong \/ ToInt(test.inode) <= 0)

\* So it is but for fork_thread where its registration is misprinted: on i386
\* always, and on x86_64 for about every second address of the inode.
HealthyTestPasses == ~Misprinted => LogAsExpected

\* s is t with any of its lines left out.
IsSubsequence(s, t) ==
  \E f \in [DOMAIN s -> DOMAIN t] :
    /\ \A i \in DOMAIN s : s[i] = t[f[i]]
    /\ \A i, j \in DOMAIN s : i < j => f[i] < f[j]

\* uprobes_diff does not compare two files: it accepts any log that is a part of
\* the expected file, in order, and needs its last line; and where the log is
\* such a part without needing the last line it ends in a Tcl error, since it
\* tests for $i > $ind where the results end at $ind - 1 (uprobes.exp:58).
DiffIsSubsequence ==
  LET agrees(results, expected) ==
        Diff(results, expected) =
          IF IsSubsequence(results, Front(expected)) THEN "error"
          ELSE IF IsSubsequence(results, expected) THEN "same" ELSE "differs"
  IN  /\ expect = "diff" => agrees(Results, Expected)
      /\ script = "check" =>
           \A results \in SmallLogs, expected \in SmallLogs \ {<<>>} :
             agrees(results, expected)

\* The module is removed once no task could run its handler any more, which
\* matters as kfork_thread does not unregister it, and always, unless a Tcl error
\* ends the test first: a negative test that was too early can do neither.  From
\* a module that is left in on, no test with it passes but a negative one
\* (runtest.sh:19, uprobes.exp:58).
ModuleGoesLast ==
  /\ ~(Negative /\ early) =>
       /\ outcome \in {"pass", "fail"} => ~Alive /\ proc # "running"
       /\ (expect = "done" /\ ~ByHand) => (loaded = (outcome = "error"))
  /\ (stale /\ outcome = "pass") => Negative /\ hits = 0

\* The test ends, with an orphan or a task in a handler too, unless the program
\* came to its SIGSTOP after the SIGCONT; and even then if the module had been
\* refused (runtest.sh:37-45).
ScriptEnds == <>(expect = "done" \/ (lateStop /\ ~said))
=============================================================================
