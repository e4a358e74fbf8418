-------------------------------- MODULE Blink --------------------------------
(***************************************************************************)
(* blink, blink2 and probe5lim: handlers that register a second probe, or  *)
(* unregister their own, while init_module() and cleanup_module() run on   *)
(* other CPUs.                                                             *)
(*                                                                         *)
(* blink and blink2: steady() counts the calls of add() and registers the  *)
(* probe of blink() every third call; blink() unregisters itself when the  *)
(* count is a multiple of 5.  The two probes are on one probe point in     *)
(* blink, on add() and subtract() in blink2.  probe5lim: add_inst()        *)
(* unregisters itself once the count has reached its limit.                *)
(*                                                                         *)
(* A handler's test and its request are separate steps.  None of the       *)
(* modules waits for the requests that are deferred.  In a build without   *)
(* UPROBES_REG_CALLBACK steady() announces a registration and does not ask *)
(* for it.                                                                 *)
(***************************************************************************)
EXTENDS Naturals, Deferral

CONSTANTS Builds,    \* which modules to load, how built
          Limit,     \* probe5lim's limit
          MaxCalls   \* bounds the calls that steady() and add_inst() count

\* blinkFirst: the order in which the handlers of one probe point run is that
\* of uprobes core.
ASSUME BuildAssumption ==
  /\ Builds \subseteq [module : {"blink", "blink2", "probe5lim"},
                       callback : BOOLEAN, blinkFirst : BOOLEAN]
  /\ Limit \in Nat \ {0} /\ MaxCalls \in Nat

VARIABLES
  build,
  site,       \* the function that the probed process calls next
  at,         \* where the process is
  todo,       \* the handlers of this hit that have not returned, in order
  ncalls,
  announced,  \* the calls of steady() that announce a registration
  flag,       \* blink_registered, or probe5lim's registered
  module,     \* where init_module() and cleanup_module() are
  early,      \* history: ncalls when init_module() finished
  failed,     \* history: where registrations have failed
  raced       \* history: cleanup_module() looked while requests were under way

vars == <<core, queue, build, site, at, todo, ncalls, announced, flag, module,
          early, failed, raced>>
taskVars   == <<build, site, at, todo, ncalls, announced>>
moduleVars == <<build, module, early, raced>>

HasLimit == build.module = "probe5lim"
Main     == IF HasLimit THEN "add_inst" ELSE "steady"
Site(p)  == IF build.module = "blink2" /\ p = "blink" THEN "subtract" ELSE "add"

Order == IF build.blinkFirst THEN <<"blink", Main>> ELSE <<Main, "blink">>

\* The handlers that a call of function f runs.
Hits(f, p) == p \in core /\ Site(p) = f
HandlersOf(f) ==
  IF Hits(f, Main) /\ Hits(f, "blink") THEN Order
  ELSE IF Hits(f, Main) THEN <<Main>>
  ELSE IF Hits(f, "blink") THEN <<"blink">> ELSE <<>>

\* In a handler of the module.
InHandler == todo # <<>>

\* A handler runs, or has asked for something that is not carried out yet.
UnderWay == InHandler \/ queue # <<>>

\* After init_module(), and before cleanup_module().
Quiet == module = "loaded" /\ at = "out" /\ site = "add"

-----------------------------------------------------------------------------
\* init_module() has registered the main probe.  It has set usp_blink in
\* blink2, but not yet in blink, nor registered in probe5lim.
Init ==
  /\ build \in Builds
  /\ site = "add"
  /\ at = "out"
  /\ todo = <<>>
  /\ core = {Main} /\ queue = <<>>
  /\ ncalls = 0 /\ announced = 0
  /\ flag = FALSE
  /\ module = IF build.module = "blink2" THEN "loaded" ELSE "registered"
  /\ early = 0
  /\ failed = {} /\ raced = FALSE

\* The rest of init_module().
FinishInit ==
  /\ module = "registered"
  /\ module' = "loaded"
  /\ flag' = (flag \/ HasLimit)
  /\ early' = ncalls
  /\ UNCHANGED <<core, queue, taskVars, failed, raced>>

-----------------------------------------------------------------------------
(* The probed process. *)

\* probeme4 calls add() only, probeme4s add() and subtract() in turn.
NextSite == IF site = "add" /\ build.module = "blink2" THEN "subtract" ELSE "add"

CallFunction ==
  /\ at = "out"
  /\ site = "add" => ncalls < MaxCalls
  /\ site' = NextSite
  /\ todo' = HandlersOf(site)
  /\ at' = IF todo' = <<>> THEN "out" ELSE "begin"
  /\ UNCHANGED <<core, queue, build, ncalls, announced, flag, module, early,
                 failed, raced>>

ExitProcess ==
  /\ at = "out"
  /\ at' = "exited"
  /\ ProcessEnds
  /\ UNCHANGED <<build, site, todo, ncalls, announced, flag, moduleVars, failed>>

\* The handler returns: the next one of the probe point, or the requests.
HandlerReturns ==
  /\ todo' = Tail(todo)
  /\ at' = IF todo' = <<>> THEN "defer" ELSE "begin"

\* The handler goes on: it asks if b, and returns if not.
Asks(b) == IF b THEN at' = "ask" /\ UNCHANGED todo ELSE HandlerReturns

\* steady(): counts, and tests whether to register blink().
Steady ==
  /\ at = "begin" /\ Head(todo) = "steady"
  /\ ncalls' = ncalls + 1
  /\ LET announces == ~flag /\ ncalls' % 3 = 0
     IN  /\ announced' = IF announces THEN announced + 1 ELSE announced
         /\ Asks(announces /\ build.callback)
  /\ UNCHANGED <<core, queue, build, site, flag, module, early, failed, raced>>

\* blink(): tests whether to unregister itself.
Blinks ==
  /\ at = "begin" /\ Head(todo) = "blink"
  /\ Asks(ncalls % 5 = 0)
  /\ UNCHANGED <<core, queue, build, site, ncalls, announced, flag, module, early,
                 failed, raced>>

\* Mutant of AddInst: the limit is exceeded by one.
AddInst_Exceeds ==
  /\ at = "begin" /\ Head(todo) = "add_inst"
  /\ ncalls' = ncalls + 1
  /\ Asks(flag /\ ncalls' > Limit)
  /\ UNCHANGED <<core, queue, build, site, announced, flag, module, early, failed,
                 raced>>

\* add_inst(): counts, and tests whether its limit is reached.
AddInst ==
  /\ at = "begin" /\ Head(todo) = "add_inst"
  /\ ncalls' = ncalls + 1
  /\ Asks(flag /\ ncalls' >= Limit)
  /\ UNCHANGED <<core, queue, build, site, announced, flag, module, early, failed,
                 raced>>

\* The handler's [un]register_uprobe() is deferred.
Request ==
  /\ at = "ask"
  /\ Defer(Head(todo) = "steady", IF Head(todo) = "steady" THEN "blink"
                                                            ELSE Head(todo))
  /\ at' = "set"
  /\ UNCHANGED <<build, site, todo, ncalls, announced, flag, moduleVars, failed>>

\* Mutant of RequestFails: blink_registered is set all the same.
RequestFails_SetsFlag ==
  /\ at = "ask" /\ Head(todo) = "steady"
  /\ HandlerReturns
  /\ flag' = TRUE
  /\ failed' = failed \cup {"atOnce"}
  /\ UNCHANGED <<core, queue, build, site, ncalls, announced, moduleVars>>

\* register_uprobe() fails at once: the flag stays, and the next call whose
\* number is a multiple of 3 tries again.
RequestFails ==
  /\ at = "ask" /\ Head(todo) = "steady"
  /\ HandlerReturns
  /\ failed' = failed \cup {"atOnce"}
  /\ UNCHANGED <<core, queue, build, site, ncalls, announced, flag, moduleVars>>

\* Mutant of SetFlag: steady() forgets to set it.
SetFlag_OnlyClears ==
  /\ at = "set"
  /\ flag' = (flag /\ Head(todo) = "steady")
  /\ HandlerReturns
  /\ UNCHANGED <<core, queue, build, site, ncalls, announced, moduleVars, failed>>

\* The flag is set to what the request will make of the probe.
SetFlag ==
  /\ at = "set"
  /\ flag' = (Head(todo) = "steady")
  /\ HandlerReturns
  /\ UNCHANGED <<core, queue, build, site, ncalls, announced, moduleVars, failed>>

\* A request is carried out after the handlers.  blink cannot be registered
\* before init_module() has said where.
RunDeferred ==
  /\ at = "defer"
  /\ \/ /\ CarryOut
        /\ ~(Head(queue).register /\ module = "registered")
        /\ UNCHANGED failed
     \/ CarryOutFails /\ failed' = failed \cup {"deferred"}
  /\ UNCHANGED <<taskVars, flag, moduleVars>>

\* Mutant of DeferredDone: a request may stay on the list till the next hit.
DeferredDone_Early ==
  /\ at = "defer"
  /\ at' = "out"
  /\ UNCHANGED <<core, queue, build, site, todo, ncalls, announced, flag,
                 moduleVars, failed>>

\* The list is empty: the process goes on.
DeferredDone ==
  /\ at = "defer" /\ queue = <<>>
  /\ at' = "out"
  /\ UNCHANGED <<core, queue, build, site, todo, ncalls, announced, flag,
                 moduleVars, failed>>

-----------------------------------------------------------------------------
(* cleanup_module(): probe5lim tests its flag and then unregisters its probe; *)
(* the others unregister steady() and then do the same with blink().       *)

\* A step of cleanup_module(), from one place to the next.
Step(here, next) ==
  /\ module = here
  /\ module' = next
  /\ raced' = (raced \/ UnderWay)
  /\ UNCHANGED <<taskVars, flag, early, failed>>

BeginCleanup ==
  /\ Step("loaded", IF HasLimit => flag THEN "main" ELSE "gone")
  /\ UNCHANGED <<core, queue>>

UnregisterMain ==
  /\ Step("main", IF HasLimit THEN "gone" ELSE "test")
  /\ UnregisterNow(Main, InHandler)

TestFlag ==
  /\ Step("test", IF flag THEN "blink" ELSE "gone")
  /\ UNCHANGED <<core, queue>>

UnregisterBlink ==
  /\ Step("blink", "gone")
  /\ UnregisterNow("blink", InHandler)

-----------------------------------------------------------------------------
Handler == Steady \/ Blinks \/ AddInst \/ Request \/ RequestFails \/ SetFlag

\* With the module gone, what the process could still reach is what it finds in
\* this state.
Task ==
  /\ module # "gone"
  /\ \/ CallFunction \/ ExitProcess
     \/ Handler
     \/ RunDeferred \/ DeferredDone

Cleanup == BeginCleanup \/ UnregisterMain \/ TestFlag \/ UnregisterBlink

Unloaded == module = "gone" /\ UNCHANGED vars

Next == FinishInit \/ Task \/ Cleanup \/ Unloaded

Spec == Init /\ [][Next]_vars

-----------------------------------------------------------------------------
(* Properties *)

TypeOK ==
  /\ build \in Builds
  /\ site \in {"add", "subtract"}
  /\ at \in {"out", "begin", "ask", "set", "defer", "exited"}
  /\ todo \in {<<>>, <<Main>>, <<"blink">>, Order}
  /\ (todo = <<>>) = (at \in {"out", "defer", "exited"})
  /\ core \subseteq {Main, "blink"}
  /\ queue \in Seq(Requests({Main, "blink"})) /\ Len(queue) <= 2
  /\ ncalls \in 0 .. MaxCalls
  /\ announced \in 0 .. ncalls
  /\ flag \in BOOLEAN
  /\ module \in {"registered", "loaded", "main", "test", "blink", "gone"}
  /\ early \in 0 .. ncalls
  /\ failed \subseteq {"atOnce", "deferred"}
  /\ raced \in BOOLEAN

\* cleanup_module() does not wait for deferred requests as that of pong_wa7
\* does, and goes by a flag that is set before the request is carried out.  It
\* leaves a probe or a request behind, or a task in a handler, only if requests
\* were under way at one of its steps, whichever registrations have failed
\* before (blink.c:152-154, probe5lim.c:119-122).
LeakNeedsRace ==
  (module = "gone" /\ ~raced) => core = {} /\ queue = <<>> /\ ~InHandler

\* The last multiple of k up to n.
LastMultiple(k, n) == n - (n % k)

\* Between two rounds of the probed process it is the number of calls alone that
\* says whether blink() is registered, however many rounds there were, unless a
\* registration has failed: the last multiple of 3 is later than that of 5 (the
\* comments blink.c:9-12 and blink2.c:10-13).  Where blink() runs before steady()
\* it meets a multiple of 5 one call later, and steady() then has the last word.
\* blink_registered says it too, even after register_uprobe() has failed at once
\* (blink.c:99-102).  Without the callback every third call is announced, as in
\* the expected files.
BlinkPhase ==
  (Quiet /\ ~HasLimit) =>
    LET blinks    == "blink" \in core
        registers == LastMultiple(3, ncalls)
    IN  /\ "deferred" \notin failed => flag = blinks
        /\ ~build.callback => ~blinks /\ announced = ncalls \div 3
        /\ (build.callback /\ failed = {}) =>
             blinks = IF build.module = "blink" /\ build.blinkFirst
                      THEN ncalls > 0 /\ registers > LastMultiple(5, ncalls - 1)
                      ELSE registers > LastMultiple(5, ncalls)

\* add_inst() "unregisters itself after <limit> probe hits" (probe5lim.c:9): no
\* hit is counted beyond the limit, but for one if the process got there before
\* init_module() had set registered.
LimitHolds ==
  (HasLimit /\ module # "registered" /\ ncalls > Limit) => ncalls <= early + 1
=============================================================================
