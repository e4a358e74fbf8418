------------------------------ MODULE Deferral ------------------------------
(***************************************************************************)
(* Deferred [un]registration, the part of uprobes core (not under src/)    *)
(* that pong, blink, blink2 and probe5lim exercise.                        *)
(*                                                                         *)
(* What a handler asks for is put on a list; the call returns -EINPROGRESS *)
(* and the probed task carries the requests out, in the order they were    *)
(* made, after the handlers of the hit.  A call from anywhere else is      *)
(* carried out at once, and waits for the handlers of the process.         *)
(***************************************************************************)
EXTENDS Sequences

VARIABLES
  core,    \* the probes that uprobes core has registered
  queue    \* the requests that it has deferred, oldest first

Requests(probes) == [register : BOOLEAN, probe : probes]

\* The request to register, or to unregister, a probe is put on the list.
Defer(register, p) ==
  /\ queue' = Append(queue, [register |-> register, probe |-> p])
  /\ UNCHANGED core

\* The oldest request is carried out.
CarryOut ==
  /\ queue # <<>>
  /\ core' = IF Head(queue).register THEN core \cup {Head(queue).probe}
                                     ELSE core \ {Head(queue).probe}
  /\ queue' = Tail(queue)

\* The oldest request is a registration, which fails; the callback, and nobody
\* else, is told.
CarryOutFails ==
  /\ queue # <<>> /\ Head(queue).register
  /\ queue' = Tail(queue)
  /\ UNCHANGED core

\* unregister_u[ret]probe() outside of a handler waits while any handler of the
\* process runs, and does nothing if the probe is not registered.
UnregisterNow(p, handlerRuns) ==
  /\ p \in core => ~handlerRuns
  /\ core' = core \ {p}
  /\ UNCHANGED queue

\* The probes of a process end with it.
ProcessEnds ==
  /\ core' = {}
  /\ UNCHANGED queue
=============================================================================
