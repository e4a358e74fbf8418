------------------------------ MODULE ModuleDuty ------------------------------
(***************************************************************************)
(* What a module that sets probes owes the kernel, in the kernel's own     *)
(* terms: it is coming, live, going or out.  It is live only with all the  *)
(* probes it needs.  It goes out, after a failed start or an rmmod, only   *)
(* when it has given back every probe it was granted and no task runs its  *)
(* code.  A module with owes = FALSE makes the first promise only.         *)
(***************************************************************************)
EXTENDS Integers

CONSTANT Tasks   \* the tasks that may hit a probe

VARIABLES need,     \* the probes the module sets, each a positive number
          owes,     \* does it promise to leave nothing behind
          state,    \* "out", "coming", "live", "going"
          granted,  \* the probes it has been granted and not given back
          inside    \* of each task: the probe whose handler it runs, or 0

fixed == <<need, owes>>
vars  == <<fixed, state, granted, inside>>

Init ==
  /\ need \subseteq Nat \ {0}
  /\ owes \in BOOLEAN
  /\ state = "out"
  /\ granted = {}
  /\ inside = [t \in Tasks |-> 0]

Come ==
  /\ state = "out" /\ state' = "coming"
  /\ UNCHANGED <<fixed, granted, inside>>

Grant ==
  /\ state = "coming"
  /\ \E o \in need : granted' = granted \cup {o}
  /\ UNCHANGED <<fixed, state, inside>>

\* A probe is given back when its handler runs nowhere.
GiveBack ==
  /\ state \in {"coming", "going"}
  /\ \E o \in granted : /\ \A t \in Tasks : inside[t] # o
                        /\ granted' = granted \ {o}
  /\ UNCHANGED <<fixed, state, inside>>

Live ==
  /\ state = "coming" /\ granted = need
  /\ state' = "live"
  /\ UNCHANGED <<fixed, granted, inside>>

Go ==
  /\ state = "live" /\ state' = "going"
  /\ UNCHANGED <<fixed, granted, inside>>

Out ==
  /\ state \in {"coming", "going"}
  /\ owes => granted = {} /\ inside = [t \in Tasks |-> 0]
  /\ state' = "out"
  /\ granted' = {}
  /\ inside' = [t \in Tasks |-> 0]
  /\ UNCHANGED fixed

Enter(t) ==
  /\ inside[t] = 0
  /\ \E o \in granted : inside' = [inside EXCEPT ![t] = o]
  /\ UNCHANGED <<fixed, state, granted>>

Return(t) ==
  /\ inside[t] # 0
  /\ inside' = [inside EXCEPT ![t] = 0]
  /\ UNCHANGED <<fixed, state, granted>>

Next ==
  \/ Come \/ Grant \/ GiveBack \/ Live \/ Go \/ Out
  \/ \E t \in Tasks : Enter(t) \/ Return(t)

Spec == Init /\ [][Next]_vars
=============================================================================
