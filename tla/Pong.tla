-------------------------------- MODULE Pong --------------------------------
(***************************************************************************)
(* pong and pong_wa7: an entry probe and a return probe on one function    *)
(* whose handlers unregister themselves and register each other, and the   *)
(* cleanup_module() that races with them.                                  *)
(*                                                                         *)
(* uprobes core (Deferral) defers what a handler asks for, carries it out  *)
(* after the handler and then runs registration_callback; a call by        *)
(* cleanup_module() is carried out at once, after any handler that runs.   *)
(*                                                                         *)
(* pong_wa7 counts the requests that are pending and cleanup_module()      *)
(* waits for them; pong does not wait.  A build of pong_wa7 without        *)
(* UPROBES_REG_CALLBACK registers nothing in its handlers.                 *)
(***************************************************************************)
EXTENDS Naturals, Deferral

CONSTANTS Variants,  \* which modules to load
          MaxCalls   \* bounds the calls of the probed function

ASSUME VariantAssumption ==
  /\ Variants \subseteq {"pong", "wa7", "wa7 no callback"}
  /\ MaxCalls \in Nat

VARIABLES
  variant,
  calls,         \* calls of the probed function
  pc,            \* the probed task: where, and in which handler
  returning,     \* the current call will run the return handler
  flag,          \* entry_probe_registered and return_probe_registered
  pending_regs,
  cleaning_up,
  counts,        \* ncalls and nreturns
  rmmod,         \* where cleanup_module() is
  late,          \* history: requests deferred after cleanup_module()'s wait
  failed,        \* history: a registration has failed
  exitFirst      \* history: the task had exited when cleanup_module() began

vars == <<variant, calls, pc, returning, core, queue, flag, pending_regs,
          cleaning_up, counts, rmmod, late, failed, exitFirst>>

\* The handlers have the names of their probes.
Handlers == {"entry", "return"}

\* Mutant of Target: the two probes are mixed up.
Target_Swapped(n) == IF n = 1 THEN "entry" ELSE "return"

\* A handler makes two requests, and the n-th is about the return probe if
\* n = 1, about the entry probe if n = 2.
Target(n)       == IF n = 1 THEN "return" ELSE "entry"
Registers(h, n) == (h = "entry") = (n = 1)

\* Where the task can be: h and n are the handler and its request that it is
\* at, or comes from.  "call", "body" and "exited" are outside the kernel and
\* "defer" is in uprobes core; the others are in code of the module.
At(where, h, n) == [at |-> where, h |-> h, n |-> n]
Outside(where)  == At(where, "entry", 1)
InHandler == pc.at \in {"enter", "check", "inc", "ask", "flag", "failWake"}

Workaround == variant # "pong"
Callback   == variant # "wa7 no callback"

\* Past the n-th request of handler h.
Past(h, n) == IF n = 1 THEN At("check", h, 2) ELSE At("defer", h, 2)

-----------------------------------------------------------------------------
\* init_module() has registered the entry probe.
Init ==
  /\ variant \in Variants
  /\ calls = 0
  /\ pc = Outside("call")
  /\ returning = FALSE
  /\ core = {"entry"}
  /\ queue = <<>>
  /\ flag = [p \in Handlers |-> p = "entry"]
  /\ pending_regs = 0
  /\ cleaning_up = FALSE
  /\ counts = [h \in Handlers |-> 0]
  /\ rmmod = "loaded"
  /\ late = 0
  /\ failed = FALSE
  /\ exitFirst = FALSE

-----------------------------------------------------------------------------
(* The probed task and uprobes core. *)

\* The task calls the function.  If the return probe is registered now, it
\* will fire when this call returns.
CallFunction ==
  /\ pc = Outside("call") /\ calls < MaxCalls
  /\ calls' = calls + 1
  /\ returning' = ("return" \in core)
  /\ pc' = IF "entry" \in core THEN At("enter", "entry", 1) ELSE Outside("body")
  /\ UNCHANGED <<variant, core, queue, flag, pending_regs, cleaning_up, counts,
                 rmmod, late, failed, exitFirst>>

\* The function returns.
ReturnFromFunction ==
  /\ pc = Outside("body")
  /\ returning' = FALSE
  /\ pc' = IF returning /\ "return" \in core THEN At("enter", "return", 1)
                                             ELSE Outside("call")
  /\ UNCHANGED <<variant, calls, core, queue, flag, pending_regs, cleaning_up,
                 counts, rmmod, late, failed, exitFirst>>

\* Mutant of ExitProcess: the probes outlive the process.
ExitProcess_KeepsProbes ==
  /\ pc = Outside("call")
  /\ pc' = Outside("exited")
  /\ UNCHANGED <<variant, calls, returning, core, queue, flag, pending_regs,
                 cleaning_up, counts, rmmod, late, failed, exitFirst>>

\* The process ends, and its probes with it.
ExitProcess ==
  /\ pc = Outside("call")
  /\ pc' = Outside("exited")
  /\ ProcessEnds
  /\ UNCHANGED <<variant, calls, returning, flag, pending_regs, cleaning_up,
                 counts, rmmod, late, failed, exitFirst>>

\* After the handler the task works off the requests; then it goes on behind
\* the entry, or behind the return, of the function.
DeferredDone ==
  /\ pc.at = "defer" /\ queue = <<>>
  /\ pc' = Outside(IF pc.h = "entry" THEN "body" ELSE "call")
  /\ UNCHANGED <<variant, calls, returning, core, queue, flag, pending_regs,
                 cleaning_up, counts, rmmod, late, failed, exitFirst>>

\* One request is carried out, if it can be, and reported to reg_callback(),
\* which counts it off.
RunDeferred ==
  /\ pc.at = "defer"
  /\ \/ CarryOut /\ UNCHANGED failed
     \/ CarryOutFails /\ failed' = TRUE
  /\ pending_regs' = IF Workaround THEN pending_regs - 1 ELSE pending_regs
  /\ pc' = IF Workaround /\ pending_regs = 1 THEN [pc EXCEPT !.at = "wake"] ELSE pc
  /\ UNCHANGED <<variant, calls, returning, flag, cleaning_up, counts, rmmod, late,
                 exitFirst>>

\* Mutant of WakeUp: nobody is woken.
WakeUp_Missing ==
  /\ pc.at \in {"wake", "failWake"}
  /\ pc' = IF pc.at = "wake" THEN [pc EXCEPT !.at = "defer"]
                             ELSE Past(pc.h, pc.n)
  /\ UNCHANGED <<variant, calls, returning, core, queue, flag, pending_regs,
                 cleaning_up, counts, rmmod, late, failed, exitFirst>>

\* The last part of pending_reg_done(): with nothing pending any more, wake
\* cleanup_module() if it is there.
WakeUp ==
  /\ pc.at \in {"wake", "failWake"}
  /\ rmmod' = IF cleaning_up /\ rmmod = "sleep" THEN "wait" ELSE rmmod
  /\ pc' = IF pc.at = "wake" THEN [pc EXCEPT !.at = "defer"]
                              ELSE Past(pc.h, pc.n)
  /\ UNCHANGED <<variant, calls, returning, core, queue, flag, pending_regs,
                 cleaning_up, counts, late, failed, exitFirst>>

-----------------------------------------------------------------------------
(* entry_handler() and return_handler(). *)

\* A handler counts the hit.  Without the callback the entry handler then only
\* forgets that its probe is registered.
EnterHandler ==
  /\ pc.at = "enter"
  /\ counts' = [counts EXCEPT ![pc.h] = @ + 1]
  /\ pc' = [pc EXCEPT !.at = IF Callback THEN "check" ELSE "defer"]
  /\ flag' = IF ~Callback /\ pc.h = "entry" THEN [flag EXCEPT !["entry"] = FALSE]
                                            ELSE flag
  /\ UNCHANGED <<variant, calls, returning, core, queue, pending_regs,
                 cleaning_up, rmmod, late, failed, exitFirst>>

\* Mutant of CheckCleaningUp: the second request is made unchecked.
CheckCleaningUp_FirstOnly ==
  /\ pc.at = "check"
  /\ pc' = IF ~Workaround THEN [pc EXCEPT !.at = "ask"]
           ELSE IF cleaning_up /\ pc.n = 1 THEN [pc EXCEPT !.at = "defer"]
           ELSE [pc EXCEPT !.at = "inc"]
  /\ UNCHANGED <<variant, calls, returning, core, queue, flag, pending_regs,
                 cleaning_up, counts, rmmod, late, failed, exitFirst>>

\* Before each request: atomic_read(&cleaning_up), and return if it is set.
CheckCleaningUp ==
  /\ pc.at = "check"
  /\ pc' = IF ~Workaround THEN [pc EXCEPT !.at = "ask"]
           ELSE IF cleaning_up THEN [pc EXCEPT !.at = "defer"]
           ELSE [pc EXCEPT !.at = "inc"]
  /\ UNCHANGED <<variant, calls, returning, core, queue, flag, pending_regs,
                 cleaning_up, counts, rmmod, late, failed, exitFirst>>

\* Mutant of CountRequest: the increment is missing.
CountRequest_Missing ==
  /\ pc.at = "inc"
  /\ pc' = [pc EXCEPT !.at = "ask"]
  /\ UNCHANGED <<variant, calls, returning, core, queue, flag, pending_regs,
                 cleaning_up, counts, rmmod, late, failed, exitFirst>>

\* atomic_inc(&pending_regs).
CountRequest ==
  /\ pc.at = "inc"
  /\ pending_regs' = pending_regs + 1
  /\ pc' = [pc EXCEPT !.at = "ask"]
  /\ UNCHANGED <<variant, calls, returning, core, queue, flag, cleaning_up,
                 counts, rmmod, late, failed, exitFirst>>

\* [un]register_u[ret]probe(): uprobes core defers it and returns -EINPROGRESS.
Request ==
  /\ pc.at = "ask"
  /\ Defer(Registers(pc.h, pc.n), Target(pc.n))
  /\ late' = IF rmmod \in {"unregEntry", "unregReturn"} THEN late + 1 ELSE late
  /\ pc' = [pc EXCEPT !.at = "flag"]
  /\ UNCHANGED <<variant, calls, returning, flag, pending_regs, cleaning_up,
                 counts, rmmod, failed, exitFirst>>

\* Mutant of RequestFails: pending_reg_done() is not called.
RequestFails_NotCountedOff ==
  /\ pc.at = "ask" /\ Registers(pc.h, pc.n)
  /\ failed' = TRUE
  /\ pc' = Past(pc.h, pc.n)
  /\ UNCHANGED <<variant, calls, returning, core, queue, flag, pending_regs,
                 cleaning_up, counts, rmmod, late, exitFirst>>

\* register_u[ret]probe() fails at once: the request is not pending after all.
RequestFails ==
  /\ pc.at = "ask" /\ Registers(pc.h, pc.n)
  /\ failed' = TRUE
  /\ pending_regs' = IF Workaround THEN pending_regs - 1 ELSE pending_regs
  /\ pc' = IF Workaround /\ pending_regs = 1 THEN [pc EXCEPT !.at = "failWake"]
                                             ELSE Past(pc.h, pc.n)
  /\ UNCHANGED <<variant, calls, returning, core, queue, flag, cleaning_up, counts,
                 rmmod, late, exitFirst>>

\* The flag of the probe is set to what the request will make it.
SetFlag ==
  /\ pc.at = "flag"
  /\ flag' = [flag EXCEPT ![Target(pc.n)] = Registers(pc.h, pc.n)]
  /\ pc' = Past(pc.h, pc.n)
  /\ UNCHANGED <<variant, calls, returning, core, queue, pending_regs,
                 cleaning_up, counts, rmmod, late, failed, exitFirst>>

-----------------------------------------------------------------------------
(* cleanup_module() *)

BeginCleanup ==
  /\ rmmod = "loaded"
  /\ exitFirst' = (pc.at = "exited")
  /\ IF Workaround /\ Callback
     THEN cleaning_up' = TRUE /\ rmmod' = "wait"
     ELSE rmmod' = "unregEntry" /\ UNCHANGED cleaning_up
  /\ UNCHANGED <<variant, calls, pc, returning, core, queue, flag, pending_regs,
                 counts, late, failed>>

\* Mutant of WaitEvent: cleanup_module() does not wait.
WaitEvent_Missing ==
  /\ rmmod = "wait"
  /\ rmmod' = "unregEntry"
  /\ UNCHANGED <<variant, calls, pc, returning, core, queue, flag, pending_regs,
                 cleaning_up, counts, late, failed, exitFirst>>

\* wait_event(): sleep until woken while anything is pending.
WaitEvent ==
  /\ rmmod = "wait"
  /\ rmmod' = IF pending_regs = 0 THEN "unregEntry" ELSE "sleep"
  /\ UNCHANGED <<variant, calls, pc, returning, core, queue, flag, pending_regs,
                 cleaning_up, counts, late, failed, exitFirst>>

\* Unregister a probe that is registered as far as its flag says.
Unregister(here, p, next) ==
  /\ rmmod = here
  /\ IF flag[p] THEN UnregisterNow(p, InHandler) ELSE UNCHANGED <<core, queue>>
  /\ rmmod' = next
  /\ UNCHANGED <<variant, calls, pc, returning, flag, pending_regs, cleaning_up,
                 counts, late, failed, exitFirst>>

UnregisterEntry  == Unregister("unregEntry", "entry", "unregReturn")
UnregisterReturn == Unregister("unregReturn", "return", "gone")

-----------------------------------------------------------------------------
\* What the task does, and what it must go on with once it is in the kernel.
InKernel ==
  /\ rmmod # "gone"
  /\ \/ EnterHandler \/ CheckCleaningUp \/ CountRequest \/ Request \/ RequestFails
     \/ SetFlag \/ RunDeferred \/ WakeUp \/ DeferredDone

Task ==
  \/ InKernel
  \/ rmmod # "gone" /\ (CallFunction \/ ReturnFromFunction \/ ExitProcess)

Cleanup == WaitEvent \/ UnregisterEntry \/ UnregisterReturn

\* The module is gone.  What the task does then is not modelled: what it could
\* still reach is what it finds in this state.
Unloaded == rmmod = "gone" /\ UNCHANGED vars

Next == Task \/ BeginCleanup \/ Cleanup \/ Unloaded

\* The kernel schedules the task while it is in the kernel, and rmmod.
Fairness == WF_vars(InKernel) /\ WF_vars(Cleanup)

Spec     == Init /\ [][Next]_vars
FairSpec == Spec /\ Fairness

-----------------------------------------------------------------------------
(* Properties *)

TypeOK ==
  /\ variant \in Variants
  /\ calls \in 0 .. MaxCalls
  /\ pc \in [at : {"call", "body", "exited", "defer", "enter", "check", "inc",
                   "ask", "flag", "wake", "failWake"},
             h : Handlers, n : {1, 2}]
  /\ returning \in BOOLEAN
  /\ core \subseteq Handlers
  /\ queue \in Seq(Requests(Handlers)) /\ Len(queue) <= 2
  /\ flag \in [Handlers -> BOOLEAN]
  /\ pending_regs \in Nat
  /\ cleaning_up \in BOOLEAN
  /\ counts \in [Handlers -> Nat]
  /\ rmmod \in {"loaded", "wait", "sleep", "unregEntry", "unregReturn", "gone"}
  /\ late \in Nat
  /\ failed \in BOOLEAN /\ exitFirst \in BOOLEAN

\* pending_regs counts what it is meant to count, at every step and on the
\* failure paths too: the deferred requests and the one a handler is making.
\* A request that were counted off twice, or never, would let cleanup_module()
\* go on too early, or sleep for ever.
PendingExact ==
  pending_regs = IF Workaround
                 THEN Len(queue) + (IF pc.at = "ask" THEN 1 ELSE 0)
                 ELSE 0

\* Past its wait, cleanup_module() of pong_wa7 meets one request at most, that
\* of a handler that had read cleaning_up before it was set.  Without such a
\* request, or if the probed process had run to completion before the rmmod
\* (README of uprobes.existing, lines 33 to 35), it leaves nothing behind: no
\* probe registered, nothing deferred, and the task out of the handlers,
\* whichever registrations have failed before.  (The task may still be in the
\* last part of pending_reg_done(), called from reg_callback().)
CleanUnload ==
  /\ variant = "wa7" => late <= 1
  /\ (rmmod = "gone" /\ (exitFirst \/ (variant = "wa7" /\ late = 0))) =>
        core = {} /\ queue = <<>> /\ ~InHandler

\* Between two calls, the handlers have fired on alternate calls, the entry
\* handler first (pong_wa7.c:15-16), until a registration fails or the module
\* goes; without the callback the entry handler has fired on each call, as the
\* expected file pong_wa7_probeme4 has it.
Alternate ==
  (pc = Outside("call") /\ ~failed /\ rmmod = "loaded") =>
    IF Callback
    THEN /\ counts["entry"]  = (calls + 1) \div 2
         /\ counts["return"] = calls \div 2
    ELSE counts["entry"] = calls /\ counts["return"] = 0

\* cleanup_module() is never left asleep: it ends, however the wake-up of the
\* last request and the wait interleave.
CleanupEnds == (rmmod # "loaded") ~> (rmmod = "gone")

\* "pong_wa7.c works around this by keeping track of the number of pending
\* [un]registrations" (README of uprobes.existing:60-61): no request is on the
\* deferred list when the module goes.
DeferredListEmpty == (rmmod = "gone" /\ variant = "wa7") => queue = <<>>
=============================================================================
