------------------------------ MODULE ModuleLife ------------------------------
(***************************************************************************)
(* The life of a module that sets probes: insmod, a loop that registers    *)
(* them one by one and may fail at any, the roll-back, the life in between *)
(* and rmmod, while tasks hit the probes that are there.                   *)
(*                                                                         *)
(* The modules differ in what they set and in what they remember of it.    *)
(* Those of uprobes.existing remember and unregister; they probe one       *)
(* process, and uprobes core drops their probes with it.  Those of         *)
(* uprobes.w (but for kunreg, see UnregTest) remember nothing and          *)
(* unregister nothing, and they probe a file: whichever process runs it.   *)
(*                                                                         *)
(* A probe object is a struct uprobe, uretprobe or uprobe_consumer; the    *)
(* objects of a module are numbered in the order of registration.  In      *)
(* rprobe6, 2i - 1 is the entry probe and 2i the return probe of function  *)
(* i.  An insmod that fails before the loop (_init_uprobe, u_dbfs_init)    *)
(* leaves everything as it was and is no step here; module Udbgfs has what *)
(* u_dbfs_init may leave in debugfs.                                       *)
(***************************************************************************)
EXTENDS Integers

CONSTANTS NumSymbols,  \* how many functions the loops go through
          Tasks,       \* the tasks that may hit a probe
          Modules      \* the modules considered, of those below

ASSUME LifeAssumption == NumSymbols \in Nat \ {0}

Objects == 1 .. (2 * NumSymbols)

(***************************************************************************)
(* A module:                                                               *)
(*   last       the number of its probe objects                            *)
(*   lacks      where the loop may fail before it asks: no memory, or a    *)
(*              function that find_vaddr() does not know                   *)
(*   remembers  what unregister_all(), or shut_down(), will find: nothing, *)
(*              an object that was "registered", a "pair" of them, or each *)
(*              object that was "asked" for, granted or not                *)
(*   process    it probes one process, and not a file                      *)
(*   handler    the objects have a handler                                 *)
(*   deadly     the object whose handler ends the task, or 0               *)
(***************************************************************************)
kthread ==
  [last |-> NumSymbols, lacks |-> 1 .. NumSymbols, remembers |-> "nothing",
   process |-> FALSE, handler |-> TRUE, deadly |-> 0]

kdie == kthread

kexec == kthread

kfork_thread == kthread

\* usp->handler is never set.
kfork_and_defunc == [kthread EXCEPT !.handler = FALSE]

\* After the loop, a second consumer for the last probe point.
ksuicide == [kthread EXCEPT !.last = NumSymbols + 1,
                            !.lacks = 1 .. (NumSymbols + 1),
                            !.deadly = NumSymbols + 1]

\* The second handler faults instead, and the task dies of that.
ksuicide2 == ksuicide

probe6 ==
  [last |-> NumSymbols, lacks |-> 1 .. NumSymbols, remembers |-> "registered",
   process |-> TRUE, handler |-> TRUE, deadly |-> 0]

suicide == [probe6 EXCEPT !.last = 1, !.lacks = {1}, !.deadly = 1]

\* One static probe, unregistered whenever it was registered.
probe5 == [probe6 EXCEPT !.last = 1, !.lacks = {}]

\* nprobes probes on one function, in an array allocated at the start; an
\* entry counts as registered once its vaddr is set.
probe5ag == [probe6 EXCEPT !.lacks = {1}, !.remembers = "asked"]

rprobe6 == [probe6 EXCEPT !.last = 2 * NumSymbols,
                          !.lacks = {2 * i - 1 : i \in 1 .. NumSymbols},
                          !.remembers = "pair"]

\* The modules are some of these.
ASSUME ModulesAssumption ==
  Modules \subseteq {kthread, kdie, kexec, kfork_thread, kfork_and_defunc,
                     ksuicide, ksuicide2, probe5, probe5ag, probe6, rprobe6,
                     suicide}

VARIABLES
  module,   \* which module this is
  phase,    \* "out", "init", "unpair", "undo", "in", "exit"
  at,       \* the loop's next object; after a failure, the one that failed
  flagged,  \* the objects that the module remembers as its own
  todo,     \* the objects the running unregister loop still has before it
  probe,    \* of each object, its state in the kernel
  log,      \* the debugfs files and print_buf exist
  inside,   \* of each task: the object whose handler it runs, or 0
  alive,    \* the tasks that have not ended
  lost,     \* history: the tasks that jumped to code that is not there
  left,     \* the objects that modules have left in the kernel and gone
  strays    \* history: what this load unregistered while not registered

modVars  == <<phase, at, flagged, todo>>
taskVars == <<inside, alive, lost>>
vars == <<module, modVars, probe, log, taskVars, left, strays>>

Idle == [t \in Tasks |-> 0]
Unused == [o \in Objects |-> "idle"]

Init ==
  /\ module \in Modules
  /\ phase = "out" /\ at = 1 /\ flagged = {} /\ todo = {}
  /\ probe = Unused
  /\ log = FALSE
  /\ inside = Idle /\ alive = Tasks /\ lost = {}
  /\ left = {} /\ strays = {}

Attached == {o \in Objects : probe[o] = "registered"}
Careful  == module.remembers # "nothing"

-----------------------------------------------------------------------------
(* insmod *)

\* u_dbfs_init() has succeeded and the loop begins.
Insmod ==
  /\ phase = "out"
  /\ phase' = "init" /\ log' = TRUE
  /\ UNCHANGED <<module, at, flagged, todo, probe, taskVars, left, strays>>

\* Mutants of Remembered: the flag goes to the next entry; the entry probe of
\* rprobe6 is flagged before the return probe is registered.
Remembered_NextEntry(o) ==
  CASE module.remembers = "nothing" -> {}
    [] module.remembers = "pair"    -> IF o % 2 = 0 THEN {o - 1, o} ELSE {}
    [] OTHER                        -> {o + 1}

Remembered_Early(o) == IF Careful THEN {o} ELSE {}

\* The objects flagged when object o has been registered.
Remembered(o) ==
  CASE module.remembers = "nothing" -> {}
    [] module.remembers = "pair"    -> IF o % 2 = 0 THEN {o - 1, o} ELSE {}
    [] OTHER                        -> {o}

InLoop == phase = "init" /\ at <= module.last

\* A process that has ended cannot be probed.
Register ==
  /\ InLoop
  /\ module.process => alive # {}
  /\ probe' = [probe EXCEPT ![at] = "registered"]
  /\ flagged' = flagged \cup Remembered(at)
  /\ at' = at + 1
  /\ UNCHANGED <<module, phase, todo, log, taskVars, left, strays>>

\* Mutants of Refuse: the loop goes on with the next object; init_module()
\* returns without a roll-back.
Refuse_GoesOn ==
  /\ InLoop
  /\ probe' = [probe EXCEPT ![at] = "refused"]
  /\ at' = at + 1
  /\ UNCHANGED <<module, phase, flagged, todo, log, taskVars, left, strays>>

Refuse_NoRollBack ==
  /\ InLoop
  /\ probe' = [probe EXCEPT ![at] = "refused"]
  /\ phase' = "undo"
  /\ UNCHANGED <<module, at, flagged, todo, log, taskVars, left, strays>>

\* The kernel refuses an object.  register_probes() of rprobe6 takes the entry
\* probe back when it is the return probe that was refused.
Refuse ==
  /\ InLoop
  /\ probe' = [probe EXCEPT ![at] = "refused"]
  /\ flagged' = IF module.remembers = "asked" THEN flagged \cup {at} ELSE flagged
  /\ IF module.remembers = "pair" /\ at % 2 = 0
       THEN phase' = "unpair" /\ todo' = {at - 1}
       ELSE phase' = "undo" /\ todo' = flagged'
  /\ UNCHANGED <<module, at, log, taskVars, left, strays>>

\* The loop fails before it has asked for the object.
Lack ==
  /\ InLoop /\ at \in module.lacks
  /\ phase' = "undo" /\ todo' = flagged
  /\ UNCHANGED <<module, at, flagged, probe, log, taskVars, left, strays>>

LoopEnds ==
  /\ phase = "init" /\ at > module.last
  /\ phase' = "in"
  /\ UNCHANGED <<module, at, flagged, todo, probe, log, taskVars, left, strays>>

-----------------------------------------------------------------------------
(* The loop of unregister_all() or shut_down(), in the order of the objects; *)
(* where there is none, todo is empty from the start.                        *)

First(o) == \A p \in todo : o <= p

\* unregister_uprobe() detaches the probe, so that no task enters its handler
\* any more, and then waits for those that are inside.
Unregister(o) ==
  /\ First(o) /\ probe[o] = "registered"
  /\ probe' = [probe EXCEPT ![o] = "leaving"]
  /\ UNCHANGED <<module, modVars, log, taskVars, left, strays>>

Unregistered(o) ==
  /\ First(o) /\ probe[o] = "leaving"
  /\ \A t \in Tasks : inside[t] # o
  /\ probe' = [probe EXCEPT ![o] = "free"]
  /\ todo' = todo \ {o}
  /\ UNCHANGED <<module, phase, at, flagged, log, taskVars, left, strays>>

\* The process has ended and the probe with it.
UnregisterPurged(o) ==
  /\ First(o) /\ probe[o] = "purged"
  /\ probe' = [probe EXCEPT ![o] = "free"]
  /\ todo' = todo \ {o}
  /\ UNCHANGED <<module, phase, at, flagged, log, taskVars, left, strays>>

\* A call for an object that is not registered does nothing.
UnregisterStray(o) ==
  /\ First(o) /\ probe[o] \in {"idle", "refused", "free"}
  /\ strays' = strays \cup {o}
  /\ todo' = todo \ {o}
  /\ UNCHANGED <<module, phase, at, flagged, probe, log, taskVars, left>>

\* register_probes() of rprobe6 has failed, too, and unregister_all() is next.
Unpaired ==
  /\ phase = "unpair" /\ todo = {}
  /\ phase' = "undo" /\ todo' = flagged
  /\ UNCHANGED <<module, at, flagged, probe, log, taskVars, left, strays>>

-----------------------------------------------------------------------------
(* rmmod, and the end of a failed insmod *)

\* Mutant of Rmmod: nothing is unregistered.
Rmmod_OnlyLog ==
  /\ phase = "in" /\ phase' = "exit"
  /\ UNCHANGED <<module, at, flagged, todo, probe, log, taskVars, left, strays>>

\* cleanup_module() begins.
Rmmod ==
  /\ phase = "in"
  /\ phase' = "exit" /\ todo' = flagged
  /\ UNCHANGED <<module, at, flagged, probe, log, taskVars, left, strays>>

\* Mutant of CleanUp: the log goes before the probes.
CleanUp_First ==
  /\ phase \in {"undo", "exit"} /\ log
  /\ log' = FALSE
  /\ UNCHANGED <<module, modVars, probe, taskVars, left, strays>>

\* u_dbfs_cleanup()
CleanUp ==
  /\ phase \in {"undo", "exit"} /\ todo = {} /\ log
  /\ log' = FALSE
  /\ UNCHANGED <<module, modVars, probe, taskVars, left, strays>>

\* The function returns and the kernel frees the module.  What is registered
\* stays so; a task inside a handler has no code to go on with.
Leave ==
  /\ phase \in {"undo", "exit"} /\ todo = {} /\ ~log
  /\ phase' = "out" /\ at' = 1 /\ flagged' = {}
  /\ left' = left \cup Attached
  /\ probe' = Unused
  /\ lost' = lost \cup {t \in Tasks : inside[t] # 0}
  /\ inside' = Idle
  /\ strays' = {}
  /\ UNCHANGED <<module, todo, log, alive>>

-----------------------------------------------------------------------------
(* The tasks *)

Free(t) == t \in alive \ lost /\ inside[t] = 0

\* A probe that is hit runs its handler.
Hit(t) ==
  /\ Free(t) /\ module.handler
  /\ \E o \in Attached : inside' = [inside EXCEPT ![t] = o]
  /\ UNCHANGED <<module, modVars, probe, log, alive, lost, left, strays>>

\* A hit that calls no handler, or that of a module that has gone.  (A kernel
\* that tests the pointer first does nothing: no step.)
HitNothing(t) ==
  /\ Free(t)
  /\ left # {} \/ (Attached # {} /\ ~module.handler)
  /\ lost' = lost \cup {t}
  /\ UNCHANGED <<module, modVars, probe, log, inside, alive, left, strays>>

\* What uprobes core does when task t ends: the probes of a process go with
\* its last task.
Purged(t) ==
  IF module.process /\ alive \subseteq {t}
  THEN [o \in Objects |-> IF o \in Attached THEN "purged" ELSE probe[o]]
  ELSE probe

\* Mutant of HandlerEnds: uprobes core goes on holding the probe of a task
\* that ends in the handler (FIXED BUGS, 3, of the README of uprobes.existing).
HandlerEnds_Holds(t) ==
  /\ inside[t] # 0
  /\ IF inside[t] = module.deadly
       THEN alive' = alive \ {t} /\ probe' = Purged(t) /\ UNCHANGED inside
       ELSE inside' = [inside EXCEPT ![t] = 0] /\ UNCHANGED <<alive, probe>>
  /\ UNCHANGED <<module, modVars, log, lost, left, strays>>

\* The handler returns, or the task ends in it.
HandlerEnds(t) ==
  /\ inside[t] # 0
  /\ inside' = [inside EXCEPT ![t] = 0]
  /\ IF inside[t] = module.deadly
       THEN alive' = alive \ {t} /\ probe' = Purged(t)
       ELSE UNCHANGED <<alive, probe>>
  /\ UNCHANGED <<module, modVars, log, lost, left, strays>>

Exit(t) ==
  /\ Free(t)
  /\ alive' = alive \ {t}
  /\ probe' = Purged(t)
  /\ UNCHANGED <<module, modVars, log, inside, lost, left, strays>>

\* Another process of the file starts; of a process that is probed, another
\* is looked for only by the next insmod.
Start(t) ==
  /\ t \notin alive
  /\ module.process => phase = "out"
  /\ alive' = alive \cup {t}
  /\ UNCHANGED <<module, modVars, probe, log, inside, lost, left, strays>>

-----------------------------------------------------------------------------
Loader ==
  \/ Register \/ Refuse \/ Lack \/ LoopEnds
  \/ \E o \in todo : \/ Unregister(o) \/ Unregistered(o)
                     \/ UnregisterPurged(o) \/ UnregisterStray(o)
  \/ Unpaired \/ CleanUp \/ Leave

Task(t) == Hit(t) \/ HitNothing(t) \/ HandlerEnds(t) \/ Exit(t) \/ Start(t)

Next == Insmod \/ Rmmod \/ Loader \/ \E t \in Tasks : Task(t)

Spec == Init /\ [][Next]_vars

\* insmod and rmmod, once called, and handlers, once entered, go on.
FairSpec ==
  /\ Spec
  /\ WF_vars(Loader)
  /\ \A t \in Tasks : WF_vars(HandlerEnds(t))

-----------------------------------------------------------------------------
TypeOK ==
  /\ module \in Modules
  /\ phase \in {"out", "init", "unpair", "undo", "in", "exit"}
  /\ at \in 1 .. (module.last + 1)
  /\ flagged \subseteq 1 .. module.last /\ todo \subseteq 1 .. module.last
  /\ probe \in [Objects -> {"idle", "registered", "refused", "leaving",
                            "purged", "free"}]
  /\ log \in BOOLEAN
  /\ inside \in [Tasks -> Objects \cup {0}]
  /\ alive \subseteq Tasks /\ lost \subseteq Tasks
  /\ left \subseteq Objects /\ strays \subseteq Objects

\* A module that unregisters leaves nothing behind, however far it got before
\* it failed and whatever the tasks were doing: no probe in the kernel, no
\* task in a handler, no files.
NothingLeft ==
  Careful => /\ left = {} /\ lost = {}
             /\ phase = "out" => ~log /\ inside = Idle

\* A handler can print as long as it can run: the buffer goes after the last
\* handler of a module that unregisters.
HandlersHaveLog == Careful /\ ~log => inside = Idle

\* No object is unregistered twice, or without having been registered.  The
\* one exception is the object at which shut_down() of probe5ag is called: its
\* vaddr is set already.
StrayCalls ==
  strays # {} => /\ module.remembers = "asked" /\ strays = {at}
                 /\ phase = "undo" /\ probe[at] = "refused"

\* insmod and rmmod end, although they wait for the handlers, which may end
\* their task (suicide.c:21, "rmmod should work").
CallsEnd ==
  (phase \notin {"out", "in"}) ~> (phase \in {"out", "in"})

\* Every module implements what it owes: it is live only with all its probes,
\* and those that unregister give all of them back.
Granted == {o \in Objects : probe[o] \in {"registered", "leaving", "purged"}}

Own == 1 .. module.last

DutyState == CASE phase = "out"  -> "out"
               [] phase = "in"   -> "live"
               [] phase = "exit" -> "going"
               [] OTHER          -> "coming"

Duty == INSTANCE ModuleDuty WITH need <- Own, owes <- Careful,
                                 state <- DutyState, granted <- Granted

DutyMet == Duty!Spec

\* "No hangs/oops/panic can unload the module?" (README of uprobes.w:47-48, how
\* to tell that uprobes has cleaned up): no task jumps into what is no longer
\* there, be it that the module has been unloaded (kdie.c:85-89) or that its
\* insmod has failed with some probes registered (kdie.c:59-63 and 74-80).
NoOopsOnceGone == lost = {}
=============================================================================
