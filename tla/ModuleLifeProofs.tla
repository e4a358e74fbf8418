-------------------------- MODULE ModuleLifeProofs --------------------------
(***************************************************************************)
(* Theorems about ModuleLife, for every number of functions and of tasks   *)
(* and for all the modules, and the invariant that they rest on.           *)
(*                                                                         *)
(* That a module that unregisters leaves nothing behind depends on what it *)
(* remembers at each point of its loop.  FlagInv says which objects that   *)
(* is; TodoInv, that what has been granted is always on the list of the    *)
(* unregister loop; TaskInv, that no task is in the handler of an object   *)
(* that has been given back.                                               *)
(***************************************************************************)
EXTENDS ModuleLife, TLAPS

Pair  == module.remembers = "pair"
Asked == module.remembers = "asked"

\* The return probe that the loop of rprobe6 is at, or has failed at.
AtReturnProbe == Pair /\ at % 2 = 0

\* What the phases mean.
PhaseInv ==
  /\ phase = "out" => /\ at = 1 /\ flagged = {} /\ probe = Unused
                      /\ inside = Idle /\ strays = {}
  /\ phase \in {"out", "init", "in"} => todo = {}
  /\ phase \in {"init", "unpair", "in"} => log
  /\ phase = "out" => ~log
  /\ ~log => todo = {}

\* How far the loop has come.
LoopInv ==
  /\ phase \in {"unpair", "undo"} => at <= module.last
  /\ phase \in {"in", "exit"} => at = module.last + 1
  /\ phase = "unpair" => AtReturnProbe
  /\ \A o \in Objects :
       /\ o > at => probe[o] = "idle"
       /\ o = at => probe[o] \in {"idle", "refused"}
       /\ o = at /\ phase \notin {"unpair", "undo"} => probe[o] = "idle"
       /\ o < at /\ phase \in {"init", "in"} =>
            probe[o] \in {"registered", "purged"}

\* What a module remembers while it registers: all it has been granted, but
\* for the entry probe of a pair that is not complete.
FlagInv ==
  /\ ~Careful => flagged = {}
  /\ \A o \in flagged : o < at \/ (Asked /\ phase = "undo" /\ o = at)
  /\ AtReturnProbe /\ phase \in {"init", "unpair"} => at - 1 \notin flagged
  /\ Careful /\ phase \in {"init", "in"} =>
       \A o \in Objects : o < at => o \in flagged \/ (AtReturnProbe /\ o = at - 1)

\* What the unregister loop has before it: all that the module has been
\* granted, and nothing else but what probe5ag has asked for in vain.
TodoInv ==
  /\ phase = "unpair" =>
       /\ todo \subseteq {at - 1}
       /\ Granted \subseteq todo \cup flagged
       /\ flagged \subseteq Granted
  /\ Careful /\ phase \in {"undo", "exit"} => Granted \subseteq todo
  /\ \A o \in todo :
       \/ o \in Granted
       \/ Asked /\ phase = "undo" /\ o = at /\ probe[o] = "refused"

\* A task in a handler is alive, and its object has not been given back.
TaskInv ==
  \A t \in Tasks : inside[t] # 0 =>
    t \in alive /\ probe[inside[t]] \in {"registered", "leaving"}

LeftInv == Careful => left = {} /\ lost = {}

LifeInv == /\ TypeOK /\ PhaseInv /\ LoopInv /\ FlagInv /\ TodoInv
           /\ TaskInv /\ LeftInv /\ StrayCalls
-----------------------------------------------------------------------------
\* What the proofs need to know of the modules.
LEMMA ModuleFacts ==
  ASSUME module \in Modules
  PROVE  /\ module.last \in 1 .. (2 * NumSymbols)
         /\ module.lacks \subseteq 1 .. module.last
         /\ Pair => module.last % 2 = 0 /\ \A o \in module.lacks : o % 2 # 0
         /\ Careful => module.handler
  <1>1. \A i \in 1 .. NumSymbols : (2 * i - 1) % 2 # 0 /\ 2 * i - 1 \in 1 .. (2 * NumSymbols)
    BY LifeAssumption
  <1>2. (2 * NumSymbols) % 2 = 0
    BY LifeAssumption
  <1>3. CASE module \in {kthread, kdie, kexec, kfork_thread}
    BY <1>3, LifeAssumption
    DEF Pair, Careful, kthread, kdie, kexec, kfork_thread
  <1>4. CASE module = kfork_and_defunc
    <2>1. /\ module.last = NumSymbols /\ module.lacks = 1 .. NumSymbols
          /\ module.remembers = "nothing"
      BY <1>4 DEF kthread, kfork_and_defunc
    <2> QED  BY <2>1, LifeAssumption DEF Pair, Careful
  <1>7. CASE module \in {ksuicide, ksuicide2}
    <2>1. /\ module.last = NumSymbols + 1
          /\ module.lacks = 1 .. (NumSymbols + 1)
          /\ module.remembers = "nothing"
      BY <1>7 DEF kthread, ksuicide, ksuicide2
    <2> QED  BY <2>1, LifeAssumption DEF Pair, Careful
  <1>5. CASE module = probe6
    <2>1. /\ module.last = NumSymbols /\ module.lacks = 1 .. NumSymbols
          /\ module.remembers = "registered" /\ module.handler = TRUE
      BY <1>5 DEF probe6
    <2> QED  BY <2>1, LifeAssumption DEF Pair, Careful
  <1>6. CASE module = probe5
    <2>1. /\ module.last = 1 /\ module.lacks = {}
          /\ module.remembers = "registered" /\ module.handler = TRUE
      BY <1>6 DEF probe6, probe5
    <2> QED  BY <2>1, LifeAssumption DEF Pair, Careful
  <1>8. CASE module = suicide
    <2>1. /\ module.last = 1 /\ module.lacks = {1}
          /\ module.remembers = "registered" /\ module.handler = TRUE
      BY <1>8 DEF probe6, suicide
    <2> QED  BY <2>1, LifeAssumption DEF Pair, Careful
  <1>9. CASE module = probe5ag
    <2>1. /\ module.last = NumSymbols /\ module.lacks = {1}
          /\ module.remembers = "asked" /\ module.handler = TRUE
      BY <1>9 DEF probe6, probe5ag
    <2> QED  BY <2>1, LifeAssumption DEF Pair, Careful
  <1>10. CASE module = rprobe6
    <2>1. /\ module.last = 2 * NumSymbols
          /\ module.lacks = {2 * i - 1 : i \in 1 .. NumSymbols}
          /\ module.remembers = "pair" /\ module.handler = TRUE
      BY <1>10 DEF probe6, rprobe6
    <2> QED  BY <2>1, LifeAssumption, <1>1, <1>2 DEF Pair, Careful
  <1> QED  BY <1>3, <1>4, <1>5, <1>6, <1>7, <1>8, <1>9, <1>10,
          ModulesAssumption

LEMMA LifeStep ==
  LifeInv /\ [Next]_vars => LifeInv'
  <1> SUFFICES ASSUME LifeInv, [Next]_vars PROVE LifeInv'
    OBVIOUS
  <1>inv. /\ TypeOK /\ PhaseInv /\ LoopInv /\ FlagInv /\ TodoInv
          /\ TaskInv /\ LeftInv /\ StrayCalls
    BY DEF LifeInv
  <1>mod. /\ module.last \in 1 .. (2 * NumSymbols)
          /\ module.lacks \subseteq 1 .. module.last
          /\ Pair => module.last % 2 = 0 /\ \A o \in module.lacks : o % 2 # 0
          /\ Careful => module.handler
          /\ NumSymbols \in Nat \ {0}
    BY <1>inv, ModuleFacts, LifeAssumption DEF TypeOK
  <1>1. CASE Insmod
    <2>1. TypeOK'
      BY <1>1, <1>inv DEF Insmod, TypeOK, taskVars
    <2>2. PhaseInv'
      BY <1>1, <1>inv DEF Insmod, PhaseInv
    <2>3. LoopInv'
      BY <1>1, <1>inv DEF Insmod, PhaseInv, LoopInv, Objects
    <2>4. FlagInv'
      BY <1>1, <1>inv DEF Insmod, PhaseInv, FlagInv, Objects
    <2>5. TodoInv'
      BY <1>1, <1>inv DEF Insmod, TodoInv, Granted
    <2>6. StrayCalls'
      BY <1>1, <1>inv DEF Insmod, StrayCalls
    <2>7. TaskInv' /\ LeftInv'
      BY <1>1, <1>inv DEF Insmod, TaskInv, LeftInv, Careful, taskVars
    <2> QED  BY <2>1, <2>2, <2>3, <2>4, <2>5, <2>6, <2>7 DEF LifeInv
  <1>2. CASE Rmmod
    <2>1. TypeOK'
      BY <1>2, <1>inv DEF Rmmod, TypeOK, taskVars
    <2>2. PhaseInv'
      BY <1>2, <1>inv DEF Rmmod, PhaseInv
    <2>3. LoopInv'
      BY <1>2, <1>inv DEF Rmmod, LoopInv
    <2>4. FlagInv'
      BY <1>2, <1>inv DEF Rmmod, FlagInv, Careful
    <2>5. TodoInv'
      BY <1>2, <1>inv, <1>mod
      DEF Rmmod, TodoInv, FlagInv, LoopInv, Granted, Careful, AtReturnProbe,
          TypeOK, Objects
    <2>6. StrayCalls'
      BY <1>2, <1>inv DEF Rmmod, StrayCalls
    <2>7. TaskInv' /\ LeftInv'
      BY <1>2, <1>inv DEF Rmmod, TaskInv, LeftInv, Careful, taskVars
    <2> QED  BY <2>1, <2>2, <2>3, <2>4, <2>5, <2>6, <2>7 DEF LifeInv
  <1>3. CASE Register
    <2>1. TypeOK'
      BY <1>3, <1>inv, <1>mod
      DEF Register, InLoop, Remembered, TypeOK, Objects, taskVars
    <2>2. PhaseInv'
      BY <1>3, <1>inv DEF Register, InLoop, PhaseInv
    <2>3. LoopInv'
      BY <1>3, <1>inv DEF Register, InLoop, LoopInv, TypeOK, Objects
    <2>4. FlagInv'
      <3> USE DEF AtReturnProbe, Pair, Asked, Careful, TypeOK, Objects
      <3>1. CASE module.remembers = "nothing"
        BY <3>1, <1>3, <1>inv DEF Register, Remembered, FlagInv
      <3>2. CASE Pair
        <4>1. flagged' = flagged \cup (IF at % 2 = 0 THEN {at - 1, at} ELSE {})
          BY <3>2, <1>3 DEF Register, Remembered
        <4>2. at' = at + 1 /\ phase = "init" /\ phase' = "init" /\ module' = module
          BY <1>3 DEF Register, InLoop
        <4>3. CASE at % 2 = 0
          <5>1. (at + 1) % 2 # 0
            BY <4>3, <1>inv, <1>mod
          <5>2. flagged' = flagged \cup {at - 1, at}
            BY <4>1, <4>3
          <5> QED  BY <5>1, <5>2, <4>2, <4>3, <3>2, <1>inv, <1>mod DEF FlagInv
        <4>4. CASE at % 2 # 0
          <5>1. flagged' = flagged
            BY <4>1, <4>4
          <5> QED  BY <5>1, <4>2, <4>4, <3>2, <1>inv, <1>mod DEF FlagInv
        <4> QED  BY <4>3, <4>4
      <3>3. CASE Careful /\ ~Pair
        <4>1. flagged' = flagged \cup {at}
          BY <3>3, <1>3 DEF Register, Remembered
        <4> QED  BY <4>1, <3>3, <1>3, <1>inv, <1>mod
                 DEF Register, InLoop, FlagInv
      <3> QED  BY <3>1, <3>2, <3>3
    <2>5. TodoInv'
      BY <1>3, <1>inv DEF Register, InLoop, TodoInv, Granted
    <2>6. TaskInv'
      BY <1>3, <1>inv DEF Register, TaskInv, taskVars
    <2>7. StrayCalls'
      BY <1>3, <1>inv DEF Register, InLoop, StrayCalls
    <2>8. LeftInv'
      BY <1>3, <1>inv DEF Register, LeftInv, Careful, taskVars
    <2> QED  BY <2>1, <2>2, <2>3, <2>4, <2>5, <2>6, <2>7, <2>8 DEF LifeInv
  <1>4. CASE Refuse
    <2>1. TypeOK'
      <3>1. /\ at \in 1 .. module.last /\ module' = module /\ at' = at
            /\ flagged' \in {flagged, flagged \cup {at}}
            /\ \/ phase' = "unpair" /\ todo' = {at - 1} /\ at % 2 = 0
               \/ phase' = "undo" /\ todo' = flagged'
        BY <1>4, <1>inv DEF Refuse, InLoop, TypeOK
      <3>2. flagged' \subseteq 1 .. module.last /\ todo' \subseteq 1 .. module.last
        <4>1. flagged' \subseteq 1 .. module.last
          BY <3>1, <1>inv DEF TypeOK
        <4>2. at % 2 = 0 => at - 1 \in 1 .. module.last
          BY <3>1, <1>mod
        <4> QED  BY <4>1, <4>2, <3>1
      <3>3. /\ probe' = [probe EXCEPT ![at] = "refused"]
            /\ UNCHANGED <<log, inside, alive, lost, left, strays>>
        BY <1>4 DEF Refuse, taskVars
      <3> QED  BY <3>1, <3>2, <3>3, <1>inv, <1>mod DEF TypeOK
    <2>2. PhaseInv'
      BY <1>4, <1>inv DEF Refuse, InLoop, PhaseInv
    <2>3. LoopInv'
      BY <1>4, <1>inv DEF Refuse, InLoop, LoopInv, AtReturnProbe, Pair
    <2>4. FlagInv'
      BY <1>4, <1>inv
      DEF Refuse, InLoop, FlagInv, Careful, Asked, AtReturnProbe, Pair
    <2>5. TodoInv'
      <3> USE DEF Asked, Pair, Careful, Granted, TypeOK, Objects, AtReturnProbe
      <3>1. /\ at \in 1 .. module.last /\ phase = "init"
            /\ module' = module /\ at' = at
            /\ probe' = [probe EXCEPT ![at] = "refused"]
        BY <1>4, <1>inv, <1>mod DEF Refuse, InLoop
      <3>2. /\ \A o \in Objects : o < at => o \in Granted'
            /\ \A o \in Granted' : o < at
        BY <3>1, <1>inv, <1>mod DEF LoopInv
      <3>3. CASE AtReturnProbe
        <4>1. phase' = "unpair" /\ todo' = {at - 1} /\ flagged' = flagged
          BY <3>3, <1>4 DEF Refuse
        <4>2. at - 1 \in Granted'
          BY <3>1, <3>2, <3>3, <1>mod
        <4>3. flagged \subseteq Granted'
          BY <3>1, <3>2, <1>inv, <1>mod DEF FlagInv
        <4>4. Granted' \subseteq {at - 1} \cup flagged
          BY <3>1, <3>2, <3>3, <1>inv, <1>mod DEF FlagInv
        <4> QED  BY <4>1, <4>2, <4>3, <4>4, <3>1 DEF TodoInv
      <3>4. CASE ~AtReturnProbe
        <4>1. phase' = "undo" /\ todo' = flagged'
          BY <3>4, <1>4 DEF Refuse
        <4>2. flagged' = IF Asked THEN flagged \cup {at} ELSE flagged
          BY <1>4 DEF Refuse
        <4>3. Careful => Granted' \subseteq flagged'
          BY <4>2, <3>1, <3>2, <3>4, <1>inv, <1>mod DEF FlagInv
        <4>4. \A o \in flagged' : o \in Granted' \/ (Asked /\ o = at)
          BY <4>2, <3>1, <3>2, <1>inv, <1>mod DEF FlagInv
        <4>5. probe'[at] = "refused"
          BY <3>1, <1>inv, <1>mod
        <4> QED  BY <4>1, <4>3, <4>4, <4>5, <3>1 DEF TodoInv
      <3> QED  BY <3>3, <3>4
    <2>6. TaskInv'
      BY <1>4, <1>inv DEF Refuse, TaskInv, LoopInv, TypeOK, taskVars
    <2>7. StrayCalls'
      BY <1>4, <1>inv DEF Refuse, StrayCalls
    <2>8. LeftInv'
      BY <1>4, <1>inv DEF Refuse, LeftInv, Careful, taskVars
    <2> QED  BY <2>1, <2>2, <2>3, <2>4, <2>5, <2>6, <2>7, <2>8 DEF LifeInv
  <1>5. CASE Lack
    <2>1. TypeOK'
      BY <1>5, <1>inv DEF Lack, TypeOK, taskVars
    <2>2. PhaseInv'
      BY <1>5, <1>inv DEF Lack, InLoop, PhaseInv
    <2>3. LoopInv'
      BY <1>5, <1>inv, <1>mod DEF Lack, LoopInv
    <2>4. FlagInv'
      BY <1>5, <1>inv DEF Lack, InLoop, FlagInv, Careful
    <2>5. TodoInv'
      BY <1>5, <1>inv, <1>mod
      DEF Lack, InLoop, TodoInv, FlagInv, LoopInv, Granted, Careful,
          AtReturnProbe, TypeOK, Objects
    <2>6. StrayCalls'
      BY <1>5, <1>inv DEF Lack, StrayCalls
    <2>7. TaskInv' /\ LeftInv'
      BY <1>5, <1>inv DEF Lack, TaskInv, LeftInv, Careful, taskVars
    <2> QED  BY <2>1, <2>2, <2>3, <2>4, <2>5, <2>6, <2>7 DEF LifeInv
  <1>6. CASE LoopEnds
    <2>1. TypeOK'
      BY <1>6, <1>inv DEF LoopEnds, TypeOK, taskVars
    <2>2. PhaseInv'
      BY <1>6, <1>inv DEF LoopEnds, PhaseInv
    <2>3. LoopInv'
      BY <1>6, <1>inv, <1>mod DEF LoopEnds, LoopInv, TypeOK
    <2>4. FlagInv'
      BY <1>6, <1>inv DEF LoopEnds, FlagInv, Careful, AtReturnProbe, Pair
    <2>5. TodoInv'
      BY <1>6, <1>inv DEF LoopEnds, TodoInv, Granted
    <2>6. StrayCalls'
      BY <1>6, <1>inv DEF LoopEnds, StrayCalls
    <2>7. TaskInv' /\ LeftInv'
      BY <1>6, <1>inv DEF LoopEnds, TaskInv, LeftInv, Careful, taskVars
    <2> QED  BY <2>1, <2>2, <2>3, <2>4, <2>5, <2>6, <2>7 DEF LifeInv
  <1>7. ASSUME NEW o \in todo, Unregister(o)
      PROVE  LifeInv'
    <2>1. TypeOK'
      BY <1>7, <1>inv, <1>mod
      DEF Unregister, TypeOK, Objects, modVars, taskVars
    <2>2. PhaseInv'
      BY <1>7, <1>inv DEF Unregister, PhaseInv, modVars
    <2>3. LoopInv'
      BY <1>7, <1>inv
      DEF Unregister, LoopInv, PhaseInv, AtReturnProbe, Pair, modVars
    <2>4. TodoInv'
      BY <1>7, <1>inv DEF Unregister, TodoInv, Granted, Careful, Asked, modVars
    <2>5. TaskInv'
      BY <1>7, <1>inv DEF Unregister, TaskInv, taskVars
    <2>6. StrayCalls'
      BY <1>7, <1>inv DEF Unregister, StrayCalls, modVars
    <2>7. FlagInv' /\ LeftInv'
      BY <1>7, <1>inv
      DEF Unregister, FlagInv, Careful, Asked, AtReturnProbe, Pair, LeftInv,
          modVars, taskVars
    <2> QED  BY <2>1, <2>2, <2>3, <2>4, <2>5, <2>6, <2>7 DEF LifeInv
  <1>8. ASSUME NEW o \in todo, Unregistered(o)
      PROVE  LifeInv'
    <2>1. TypeOK'
      BY <1>8, <1>inv, <1>mod DEF Unregistered, TypeOK, Objects, taskVars
    <2>2. PhaseInv'
      BY <1>8, <1>inv DEF Unregistered, PhaseInv
    <2>3. LoopInv'
      BY <1>8, <1>inv DEF Unregistered, LoopInv, AtReturnProbe, Pair
    <2>4. TodoInv'
      BY <1>8, <1>inv
      DEF Unregistered, TodoInv, LoopInv, FlagInv, Granted, Careful, Asked,
          TypeOK
    <2>5. TaskInv'
      BY <1>8, <1>inv DEF Unregistered, TaskInv, taskVars
    <2>6. StrayCalls'
      BY <1>8, <1>inv DEF Unregistered, StrayCalls
    <2>7. FlagInv' /\ LeftInv'
      BY <1>8, <1>inv
      DEF Unregistered, FlagInv, Careful, Asked, AtReturnProbe, Pair, LeftInv,
          taskVars
    <2> QED  BY <2>1, <2>2, <2>3, <2>4, <2>5, <2>6, <2>7 DEF LifeInv
  <1>9. ASSUME NEW o \in todo, UnregisterPurged(o)
      PROVE  LifeInv'
    <2>1. TypeOK'
      BY <1>9, <1>inv, <1>mod DEF UnregisterPurged, TypeOK, Objects, taskVars
    <2>2. PhaseInv'
      BY <1>9, <1>inv DEF UnregisterPurged, PhaseInv
    <2>3. LoopInv'
      BY <1>9, <1>inv
      DEF UnregisterPurged, LoopInv, PhaseInv, AtReturnProbe, Pair
    <2>4. TodoInv'
      BY <1>9, <1>inv
      DEF UnregisterPurged, TodoInv, LoopInv, FlagInv, Granted, Careful,
          Asked, TypeOK
    <2>5. TaskInv'
      BY <1>9, <1>inv DEF UnregisterPurged, TaskInv, taskVars
    <2>6. StrayCalls'
      BY <1>9, <1>inv DEF UnregisterPurged, StrayCalls
    <2>7. FlagInv' /\ LeftInv'
      BY <1>9, <1>inv
      DEF UnregisterPurged, FlagInv, Careful, Asked, AtReturnProbe, Pair,
          LeftInv, taskVars
    <2> QED  BY <2>1, <2>2, <2>3, <2>4, <2>5, <2>6, <2>7 DEF LifeInv
  <1>10. ASSUME NEW o \in todo, UnregisterStray(o)
      PROVE  LifeInv'
    <2>1. TypeOK'
      BY <1>10, <1>inv, <1>mod DEF UnregisterStray, TypeOK, Objects, taskVars
    <2>2. PhaseInv'
      BY <1>10, <1>inv DEF UnregisterStray, PhaseInv
    <2>3. TodoInv'
      BY <1>10, <1>inv DEF UnregisterStray, TodoInv, Granted, Careful
    <2>4. StrayCalls'
      BY <1>10, <1>inv DEF UnregisterStray, StrayCalls, TodoInv, Granted, Asked
    <2>5. LoopInv' /\ FlagInv' /\ TaskInv' /\ LeftInv'
      BY <1>10, <1>inv
      DEF UnregisterStray, LoopInv, AtReturnProbe, Pair, FlagInv, Careful,
          Asked, TaskInv, LeftInv, taskVars
    <2> QED  BY <2>1, <2>2, <2>3, <2>4, <2>5 DEF LifeInv
  <1>11. CASE Unpaired
    <2>1. TypeOK'
      BY <1>11, <1>inv DEF Unpaired, TypeOK, taskVars
    <2>2. PhaseInv'
      BY <1>11, <1>inv DEF Unpaired, PhaseInv
    <2>3. LoopInv'
      BY <1>11, <1>inv DEF Unpaired, LoopInv
    <2>4. FlagInv'
      BY <1>11, <1>inv DEF Unpaired, FlagInv, Careful
    <2>5. TodoInv'
      BY <1>11, <1>inv DEF Unpaired, TodoInv, Granted
    <2>6. StrayCalls'
      BY <1>11, <1>inv DEF Unpaired, StrayCalls
    <2>7. TaskInv' /\ LeftInv'
      BY <1>11, <1>inv DEF Unpaired, TaskInv, LeftInv, Careful, taskVars
    <2> QED  BY <2>1, <2>2, <2>3, <2>4, <2>5, <2>6, <2>7 DEF LifeInv
  <1>12. CASE CleanUp
    <2>1. TypeOK'
      BY <1>12, <1>inv, <1>mod
      DEF CleanUp, TypeOK, Objects, modVars, taskVars, Unused, Idle
    <2>2. PhaseInv'
      BY <1>12, <1>inv DEF CleanUp, PhaseInv, modVars
    <2>3. LoopInv' /\ FlagInv' /\ TodoInv' /\ TaskInv' /\ LeftInv' /\ StrayCalls'
      BY <1>12, <1>inv
      DEF CleanUp, LoopInv, FlagInv, Careful, Asked, TodoInv, Granted,
          TaskInv, LeftInv, StrayCalls, modVars, taskVars
    <2> QED  BY <2>1, <2>2, <2>3 DEF LifeInv
  <1>13. CASE Leave
    <2>1. TypeOK'
      <3>1. probe' \in [Objects -> {"idle", "registered", "refused", "leaving",
                                    "purged", "free"}]
        BY <1>13 DEF Leave, Unused
      <3>2. inside' \in [Tasks -> Objects \cup {0}]
        BY <1>13 DEF Leave, Idle
      <3>3. left' \subseteq Objects /\ lost' \subseteq Tasks
        BY <1>13, <1>inv DEF Leave, Attached, TypeOK
      <3> QED  BY <3>1, <3>2, <3>3, <1>13, <1>inv, <1>mod DEF Leave, TypeOK
    <2>2. PhaseInv'
      BY <1>13, <1>inv DEF Leave, PhaseInv
    <2>3. LoopInv'
      BY <1>13, <1>inv DEF Leave, LoopInv, Unused
    <2>4. FlagInv'
      BY <1>13, <1>inv DEF Leave, FlagInv
    <2>5. TodoInv'
      BY <1>13, <1>inv DEF Leave, TodoInv
    <2>6. TaskInv'
      BY <1>13, <1>inv DEF Leave, TaskInv, Idle
    <2>7. LeftInv'
      <3>1. Careful => Granted = {}
        BY <1>13, <1>inv DEF Leave, TodoInv
      <3>2. Careful => Attached = {} /\ \A t \in Tasks : inside[t] = 0
        BY <3>1, <1>inv DEF Granted, Attached, TaskInv, TypeOK
      <3> QED  BY <3>2, <1>13, <1>inv DEF Leave, LeftInv, Careful
    <2>8. StrayCalls'
      BY <1>13, <1>inv DEF Leave, StrayCalls
    <2> QED  BY <2>1, <2>2, <2>3, <2>4, <2>5, <2>6, <2>7, <2>8 DEF LifeInv
  <1>14. ASSUME NEW t \in Tasks, Hit(t)
      PROVE  LifeInv'
    <2>1. TypeOK'
      BY <1>14, <1>inv DEF Hit, Attached, TypeOK, modVars
    <2>2. PhaseInv'
      BY <1>14, <1>inv DEF Hit, PhaseInv, Attached, Unused, modVars
    <2>3. TaskInv'
      BY <1>14, <1>inv DEF Hit, Free, Attached, TaskInv
    <2>4. LoopInv' /\ FlagInv' /\ TodoInv' /\ LeftInv' /\ StrayCalls'
      BY <1>14, <1>inv
      DEF Hit, LoopInv, AtReturnProbe, Pair, FlagInv, Careful, Asked, TodoInv,
          Granted, LeftInv, StrayCalls, modVars
    <2> QED  BY <2>1, <2>2, <2>3, <2>4 DEF LifeInv
  <1>15. ASSUME NEW t \in Tasks, HitNothing(t)
      PROVE  LifeInv'
    <2>1. TypeOK'
      BY <1>15, <1>inv DEF HitNothing, TypeOK, modVars
    <2>2. LeftInv'
      BY <1>15, <1>inv, <1>mod DEF HitNothing, LeftInv, Careful
    <2>3. PhaseInv' /\ LoopInv' /\ FlagInv' /\ TodoInv' /\ TaskInv' /\ StrayCalls'
      BY <1>15, <1>inv
      DEF HitNothing, PhaseInv, LoopInv, AtReturnProbe, Pair, FlagInv,
          Careful, Asked, TodoInv, Granted, TaskInv, StrayCalls, modVars
    <2> QED  BY <2>1, <2>2, <2>3 DEF LifeInv
  <1>16. ASSUME NEW t \in Tasks, HandlerEnds(t)
      PROVE  LifeInv'
    <2>1. TypeOK'
      BY <1>16, <1>inv DEF HandlerEnds, Purged, TypeOK, modVars
    <2>2. PhaseInv'
      BY <1>16, <1>inv DEF HandlerEnds, PhaseInv, Idle, modVars
    <2>3. LoopInv'
      BY <1>16, <1>inv
      DEF HandlerEnds, Purged, Attached, LoopInv, AtReturnProbe, Pair, modVars
    <2>4. TodoInv'
      BY <1>16, <1>inv, <1>mod
      DEF HandlerEnds, Purged, Attached, TodoInv, Granted, Careful, Asked,
          modVars, TypeOK, Objects
    <2>5. TaskInv'
      BY <1>16, <1>inv DEF HandlerEnds, Purged, TaskInv, TypeOK
    <2>6. StrayCalls'
      BY <1>16, <1>inv
      DEF HandlerEnds, StrayCalls, Purged, Attached, TypeOK, modVars
    <2>7. FlagInv' /\ LeftInv'
      BY <1>16, <1>inv
      DEF HandlerEnds, FlagInv, Careful, Asked, AtReturnProbe, Pair, LeftInv,
          modVars
    <2> QED  BY <2>1, <2>2, <2>3, <2>4, <2>5, <2>6, <2>7 DEF LifeInv
  <1>17. ASSUME NEW t \in Tasks, Exit(t)
      PROVE  LifeInv'
    <2>1. TypeOK'
      BY <1>17, <1>inv DEF Exit, Purged, TypeOK, modVars
    <2>2. PhaseInv'
      <3>1. ASSUME phase = "out"  PROVE  probe' = probe
        <4>1. Attached = {} /\ probe = [o \in Objects |-> probe[o]]
          BY <3>1, <1>inv DEF PhaseInv, Attached, Unused
        <4> QED  BY <4>1, <1>17 DEF Exit, Purged
      <3> QED  BY <3>1, <1>17, <1>inv DEF Exit, PhaseInv, modVars
    <2>3. LoopInv'
      BY <1>17, <1>inv
      DEF Exit, Purged, Attached, LoopInv, AtReturnProbe, Pair, modVars
    <2>4. TodoInv'
      BY <1>17, <1>inv, <1>mod
      DEF Exit, Purged, Attached, TodoInv, Granted, Careful, Asked, modVars,
          TypeOK, Objects
    <2>5. TaskInv'
      BY <1>17, <1>inv DEF Exit, Free, Purged, TaskInv
    <2>6. StrayCalls'
      BY <1>17, <1>inv DEF Exit, StrayCalls, Purged, Attached, TypeOK, modVars
    <2>7. FlagInv' /\ LeftInv'
      BY <1>17, <1>inv
      DEF Exit, FlagInv, Careful, Asked, AtReturnProbe, Pair, LeftInv, modVars
    <2> QED  BY <2>1, <2>2, <2>3, <2>4, <2>5, <2>6, <2>7 DEF LifeInv
  <1>18. ASSUME NEW t \in Tasks, Start(t)
      PROVE  LifeInv'
    <2>1. TypeOK'
      BY <1>18, <1>inv DEF Start, TypeOK, modVars
    <2>2. TaskInv'
      BY <1>18, <1>inv DEF Start, TaskInv
    <2>3. PhaseInv' /\ LoopInv' /\ FlagInv' /\ TodoInv' /\ LeftInv' /\ StrayCalls'
      BY <1>18, <1>inv
      DEF Start, PhaseInv, LoopInv, AtReturnProbe, Pair, FlagInv, Careful,
          Asked, TodoInv, Granted, LeftInv, StrayCalls, modVars
    <2> QED  BY <2>1, <2>2, <2>3 DEF LifeInv
  <1>19. CASE UNCHANGED vars
    <2>. USE DEF vars, modVars, taskVars
    <2>1. TypeOK' /\ PhaseInv' /\ LeftInv' /\ StrayCalls'
      BY <1>19, <1>inv DEF TypeOK, PhaseInv, LeftInv, StrayCalls, Careful
    <2>2. LoopInv' /\ FlagInv'
      BY <1>19, <1>inv
      DEF LoopInv, FlagInv, AtReturnProbe, Pair, Asked, Careful
    <2>3. TodoInv' /\ TaskInv'
      BY <1>19, <1>inv DEF TodoInv, TaskInv, Granted, Asked, Careful
    <2> QED  BY <2>1, <2>2, <2>3 DEF LifeInv
  <1>20. CASE Loader
    <2>1. CASE \E o \in todo : \/ Unregister(o) \/ Unregistered(o)
                               \/ UnregisterPurged(o) \/ UnregisterStray(o)
      BY <2>1, <1>7, <1>8, <1>9, <1>10
    <2> QED  BY <1>20, <2>1, <1>3, <1>4, <1>5, <1>6, <1>11, <1>12, <1>13
             DEF Loader
  <1>21. CASE \E t \in Tasks : Task(t)
    BY <1>21, <1>14, <1>15, <1>16, <1>17, <1>18 DEF Task
  <1> QED  BY <1>1, <1>2, <1>19, <1>20, <1>21 DEF Next

LEMMA LifeInit ==
  Init => LifeInv
  <1> SUFFICES ASSUME Init PROVE LifeInv
    OBVIOUS
  <1>1. module.last \in 1 .. (2 * NumSymbols) /\ NumSymbols \in Nat \ {0}
    BY ModuleFacts, LifeAssumption DEF Init
  <1>2. TypeOK
    <2>1. probe \in [Objects -> {"idle", "registered", "refused", "leaving",
                                 "purged", "free"}]
      BY DEF Init, Unused
    <2>2. inside \in [Tasks -> Objects \cup {0}]
      BY DEF Init, Idle
    <2>3. /\ flagged \subseteq 1 .. module.last /\ todo \subseteq 1 .. module.last
          /\ alive \subseteq Tasks /\ lost \subseteq Tasks
          /\ left \subseteq Objects /\ strays \subseteq Objects
          /\ at \in 1 .. (module.last + 1)
      BY <1>1 DEF Init
    <2>4. module \in Modules /\ log \in BOOLEAN
          /\ phase \in {"out", "init", "unpair", "undo", "in", "exit"}
      BY DEF Init
    <2> QED  BY <2>1, <2>2, <2>3, <2>4 DEF TypeOK
  <1>3. PhaseInv /\ LoopInv /\ FlagInv /\ LeftInv /\ StrayCalls
    BY <1>1 DEF Init, PhaseInv, LoopInv, FlagInv, LeftInv, StrayCalls,
       AtReturnProbe, Unused, Objects
  <1>4. TodoInv /\ TaskInv
    BY DEF Init, TodoInv, TaskInv, Idle
  <1> QED  BY <1>2, <1>3, <1>4 DEF LifeInv

\* In every state the phase, the flags, the lists and the probes in the kernel
\* agree.
THEOREM LifeInvariant == Spec => []LifeInv
  <1> QED  BY LifeInit, LifeStep, PTL DEF Spec
-----------------------------------------------------------------------------
\* The variables of ModuleLife have their types.
THEOREM LifeTypes == Spec => []TypeOK
  <1>1. LifeInv => TypeOK
    BY DEF LifeInv
  <1> QED  BY <1>1, LifeInvariant, PTL

\* What unregister_all(), shut_down() and the roll-back of an insmod that fails
\* are for: of a module that has them nothing is left in the kernel.
THEOREM LeavesNothing == Spec => []NothingLeft
  <1>1. LifeInv => NothingLeft
    BY DEF LifeInv, NothingLeft, LeftInv, PhaseInv
  <1> QED  BY <1>1, LifeInvariant, PTL

\* Because they run before u_dbfs_cleanup(), test_printk() in a handler always
\* has its buffer.
THEOREM LogOutlivesHandlers == Spec => []HandlersHaveLog
  <1>1. ASSUME LifeInv, Careful, ~log  PROVE  inside = Idle
    <2>1. inside \in [Tasks -> Objects \cup {0}]
      BY <1>1 DEF LifeInv, TypeOK
    <2>2. CASE phase = "out"
      BY <1>1, <2>2 DEF LifeInv, PhaseInv
    <2>3. CASE phase # "out"
      <3>1. phase \in {"undo", "exit"} /\ todo = {}
        BY <1>1, <2>3 DEF LifeInv, PhaseInv, TypeOK
      <3>2. Granted = {}
        BY <1>1, <3>1 DEF LifeInv, TodoInv
      <3>3. \A t \in Tasks : inside[t] = 0
        BY <1>1, <2>1, <3>2 DEF LifeInv, TaskInv, Granted
      <3> QED  BY <2>1, <3>3 DEF Idle
    <2> QED  BY <2>2, <2>3
  <1>2. LifeInv => HandlersHaveLog
    BY <1>1 DEF HandlersHaveLog
  <1> QED  BY <1>2, LifeInvariant, PTL

\* unregister_uprobe() is called for what is registered, once; only probe5ag
\* calls it for one object more.
THEOREM NoStrayCalls == Spec => []StrayCalls
  <1>1. LifeInv => StrayCalls
    BY DEF LifeInv
  <1> QED  BY <1>1, LifeInvariant, PTL
-----------------------------------------------------------------------------
LEMMA DutyStep ==
  LifeInv /\ [Next]_vars => [Duty!Next]_(Duty!vars)
  <1> SUFFICES ASSUME LifeInv, [Next]_vars PROVE [Duty!Next]_(Duty!vars)
    OBVIOUS
  <1>inv. /\ TypeOK /\ PhaseInv /\ LoopInv /\ FlagInv /\ TodoInv /\ TaskInv
    BY DEF LifeInv
  <1>mod. module.last \in 1 .. (2 * NumSymbols) /\ NumSymbols \in Nat \ {0}
    BY <1>inv, ModuleFacts, LifeAssumption DEF TypeOK
  <1> USE DEF Duty!vars, Duty!fixed
  <1>same. module' = module
    BY DEF Next, vars, Loader, Task, Insmod, Rmmod, Register, Refuse, Lack,
       LoopEnds, Unregister, Unregistered, UnregisterPurged, UnregisterStray,
       Unpaired, CleanUp, Leave, Hit, HitNothing, HandlerEnds, Exit, Start
  <1>fixed. UNCHANGED Duty!fixed
    BY <1>same DEF Own, Careful
  <1>1. CASE Insmod
    <2>1. DutyState = "out" /\ DutyState' = "coming"
      BY <1>1 DEF Insmod, DutyState
    <2>2. UNCHANGED <<Granted, inside>>
      BY <1>1 DEF Insmod, Granted, taskVars
    <2> QED  BY <2>1, <2>2, <1>fixed DEF Duty!Next, Duty!Come
  <1>2. CASE Rmmod
    <2>1. DutyState = "live" /\ DutyState' = "going"
      BY <1>2 DEF Rmmod, DutyState
    <2>2. UNCHANGED <<Granted, inside>>
      BY <1>2 DEF Rmmod, Granted, taskVars
    <2> QED  BY <2>1, <2>2, <1>fixed DEF Duty!Next, Duty!Go
  <1>3. CASE Register
    <2>1. DutyState = "coming" /\ DutyState' = "coming" /\ inside' = inside
      BY <1>3 DEF Register, InLoop, DutyState, taskVars
    <2>2. at \in Own /\ at \in Objects
      BY <1>3, <1>inv, <1>mod DEF Register, InLoop, Own, Objects, TypeOK
    <2>3. Granted' = Granted \cup {at}
      BY <2>2, <1>3, <1>inv DEF Register, Granted, TypeOK
    <2> QED  BY <2>1, <2>2, <2>3, <1>fixed DEF Duty!Next, Duty!Grant
  <1>4. CASE Refuse
    <2>1. DutyState = "coming" /\ DutyState' = "coming" /\ inside' = inside
      BY <1>4 DEF Refuse, InLoop, DutyState, taskVars
    <2>2. probe[at] = "idle" /\ at \in Objects
      BY <1>4, <1>inv, <1>mod DEF Refuse, InLoop, LoopInv, Objects, TypeOK
    <2>3. Granted' = Granted
      BY <2>2, <1>4, <1>inv DEF Refuse, Granted, TypeOK
    <2> QED  BY <2>1, <2>3, <1>fixed
  <1>5. CASE Lack
    <2>1. DutyState' = DutyState
      BY <1>5 DEF Lack, InLoop, DutyState
    <2>2. UNCHANGED <<Granted, inside>>
      BY <1>5 DEF Lack, Granted, taskVars
    <2> QED  BY <2>1, <2>2, <1>fixed
  <1>6. CASE LoopEnds
    <2>1. DutyState = "coming" /\ DutyState' = "live"
      BY <1>6 DEF LoopEnds, DutyState
    <2>2. UNCHANGED <<Granted, inside>>
      BY <1>6 DEF LoopEnds, Granted, taskVars
    <2>3. phase = "init" /\ at = module.last + 1
      BY <1>6, <1>inv, <1>mod DEF LoopEnds, TypeOK
    <2>4. Granted = Own
      BY <2>3, <1>inv, <1>mod DEF LoopInv, Granted, Own, Objects
    <2> QED  BY <2>1, <2>2, <2>4, <1>fixed DEF Duty!Next, Duty!Live
  <1>7. ASSUME NEW o \in todo,
               Unregister(o) \/ Unregistered(o) \/ UnregisterPurged(o)
                 \/ UnregisterStray(o)
        PROVE  [Duty!Next]_(Duty!vars)
    <2>1. phase \in {"unpair", "undo", "exit"} /\ phase' = phase
      BY <1>7, <1>inv DEF Unregister, Unregistered, UnregisterPurged,
         UnregisterStray, PhaseInv, TypeOK, modVars
    <2>2. DutyState \in {"coming", "going"} /\ DutyState' = DutyState
      BY <2>1 DEF DutyState
    <2>3. inside' = inside
      BY <1>7 DEF Unregister, Unregistered, UnregisterPurged, UnregisterStray,
         taskVars
    <2>4. CASE Unregister(o)
      <3>1. Granted' = Granted
        BY <2>4, <1>inv DEF Unregister, Granted, TypeOK
      <3> QED  BY <3>1, <2>2, <2>3, <1>fixed
    <2>5. CASE UnregisterStray(o)
      <3>1. Granted' = Granted
        BY <2>5 DEF UnregisterStray, Granted
      <3> QED  BY <3>1, <2>2, <2>3, <1>fixed
    <2>6. CASE Unregistered(o) \/ UnregisterPurged(o)
      <3>1. o \in Granted /\ Granted' = Granted \ {o}
        BY <2>6, <1>inv, <1>mod
        DEF Unregistered, UnregisterPurged, Granted, TypeOK, Objects
      <3>2. \A t \in Tasks : inside[t] # o
        BY <2>6, <3>1, <1>inv
        DEF Unregistered, UnregisterPurged, TaskInv, Granted, Objects
      <3> QED  BY <3>1, <3>2, <2>2, <2>3, <1>fixed DEF Duty!Next, Duty!GiveBack
    <2> QED  BY <1>7, <2>4, <2>5, <2>6
  <1>8. CASE Unpaired
    <2>1. DutyState' = DutyState
      BY <1>8 DEF Unpaired, DutyState
    <2>2. UNCHANGED <<Granted, inside>>
      BY <1>8 DEF Unpaired, Granted, taskVars
    <2> QED  BY <2>1, <2>2, <1>fixed
  <1>9. CASE CleanUp
    <2>1. UNCHANGED <<DutyState, Granted, inside>>
      BY <1>9 DEF CleanUp, DutyState, Granted, taskVars, modVars
    <2> QED  BY <2>1, <1>fixed
  <1>10. CASE Leave
    <2>1. DutyState \in {"coming", "going"} /\ DutyState' = "out"
      BY <1>10 DEF Leave, DutyState
    <2>2. Granted' = {} /\ inside' = Idle
      BY <1>10 DEF Leave, Granted, Unused
    <2>3. Careful => Granted = {}
      BY <1>10, <1>inv DEF Leave, TodoInv
    <2>4. Granted = {} => \A t \in Tasks : inside[t] = 0
      BY <1>inv DEF Granted, TaskInv, TypeOK
    <2>5. Careful => inside = Idle
      BY <2>3, <2>4, <1>inv DEF TypeOK, Idle
    <2> QED  BY <2>1, <2>2, <2>3, <2>5, <1>fixed DEF Duty!Next, Duty!Out, Idle
  <1>11. ASSUME NEW t \in Tasks, Task(t)
         PROVE  [Duty!Next]_(Duty!vars)
    <2>1. DutyState' = DutyState
      BY <1>11 DEF Task, Hit, HitNothing, HandlerEnds, Exit, Start, DutyState,
         modVars
    <2>2. Granted' = Granted
      BY <1>11 DEF Task, Hit, HitNothing, HandlerEnds, Exit, Start, Granted,
         Purged, Attached
    <2>3. CASE Hit(t)
      <3>1. inside[t] = 0
            /\ \E o \in Granted : inside' = [inside EXCEPT ![t] = o]
        BY <2>3 DEF Hit, Free, Attached, Granted
      <3> QED  BY <3>1, <2>1, <2>2, <1>fixed DEF Duty!Next, Duty!Enter
    <2>4. CASE HandlerEnds(t)
      <3>1. inside[t] # 0 /\ inside' = [inside EXCEPT ![t] = 0]
        BY <2>4 DEF HandlerEnds
      <3> QED  BY <3>1, <2>1, <2>2, <1>fixed DEF Duty!Next, Duty!Return
    <2>5. CASE HitNothing(t) \/ Exit(t) \/ Start(t)
      <3>1. inside' = inside
        BY <2>5 DEF HitNothing, Exit, Start
      <3> QED  BY <3>1, <2>1, <2>2, <1>fixed
    <2> QED  BY <1>11, <2>3, <2>4, <2>5 DEF Task
  <1>12. CASE UNCHANGED vars
    <2>1. UNCHANGED <<DutyState, Granted, inside>>
      BY <1>12 DEF vars, modVars, taskVars, DutyState, Granted
    <2> QED  BY <2>1, <1>fixed
  <1> QED  BY <1>1, <1>2, <1>3, <1>4, <1>5, <1>6, <1>7, <1>8, <1>9, <1>10,
           <1>11, <1>12 DEF Next, Loader

\* Every module does what it owes the kernel: this is the insmod and the rmmod
\* of each of them against the specification ModuleDuty.
THEOREM DutyImplemented == Spec => DutyMet
  <1>1. Init => Duty!Init
    <2> SUFFICES ASSUME Init PROVE Duty!Init
      OBVIOUS
    <2>1. Own \subseteq Nat \ {0} /\ Careful \in BOOLEAN
      BY ModuleFacts, LifeAssumption DEF Init, Own, Careful
    <2>2. DutyState = "out" /\ Granted = {} /\ inside = [t \in Tasks |-> 0]
      BY DEF Init, DutyState, Granted, Unused, Idle
    <2> QED  BY <2>1, <2>2 DEF Duty!Init
  <1> QED  BY <1>1, DutyStep, LifeInvariant, PTL DEF Spec, DutyMet, Duty!Spec
=============================================================================
