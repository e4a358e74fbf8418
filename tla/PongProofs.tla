------------------------------ MODULE PongProofs ------------------------------
(***************************************************************************)
(* Theorems about Pong, for every subset of the three variants and every   *)
(* number of calls, and the invariant that they rest on.                   *)
(*                                                                         *)
(* QueueInv says what is on the deferred list at each point of a handler,  *)
(* FlagInv what the flags that cleanup_module() believes are worth, LateInv*)
(* who can still make a request once cleanup_module() has waited, and      *)
(* RoundInv how far the ping-pong has come while nothing has gone wrong.   *)
(***************************************************************************)
EXTENDS Pong, SequenceTheorems, TLAPS

Places == {"call", "body", "exited", "defer", "enter", "check", "inc", "ask",
           "flag", "wake", "failWake"}

\* The n-th request of the handler that the task is in.
Req(n) == [register |-> Registers(pc.h, n), probe |-> Target(n)]

OnList(register, p) ==
  \E i \in 1 .. Len(queue) : queue[i] = [register |-> register, probe |-> p]

\* A handler has nothing on the list when it begins, and the request that it
\* has just made is the last one on it.  What is on the list is about two
\* probes, in the order of the requests.
QueueInv ==
  /\ pc.at \in {"call", "body", "exited", "wake", "failWake"} => Len(queue) = 0
  /\ pc.at \in {"enter", "check", "inc", "ask"} => Len(queue) <= pc.n - 1
  /\ pc.at = "flag" => Len(queue) \in 1 .. pc.n /\ queue[Len(queue)] = Req(pc.n)
  /\ pc.at \in {"check", "inc", "ask"} /\ Len(queue) > 0 => queue[1] = Req(1)
  /\ pc.at = "flag" /\ Len(queue) > 1 => queue[1] = Req(1)
  /\ pc.at = "enter" => pc.n = 1
  /\ pc.at \in {"inc", "wake", "failWake"} => Workaround
  /\ ~Callback => pc.at \in {"call", "body", "exited", "enter", "defer"}

\* The probes of a process end with it.
ExitInv ==
  /\ pc.at = "exited" => core = {}
  /\ exitFirst => pc.at = "exited" /\ rmmod # "loaded"

\* While a handler runs its probe is registered: an unregistration waits.
HandlerInv == InHandler => pc.h \in core

\* With the callback, a flag may say TRUE of a probe that is not registered,
\* but FALSE of one that is only while its unregistration is on the list; and
\* a registration is on the list only with its flag set, or about to be.
FlagInv ==
  Callback =>
    \A p \in Handlers :
      /\ p \in core => flag[p] \/ OnList(FALSE, p)
      /\ OnList(TRUE, p) => flag[p] \/ (pc.at = "flag" /\ Target(pc.n) = p)

\* cleanup_module() is past its wait.
PastWait == rmmod \in {"unregEntry", "unregReturn", "gone"}

\* Past its wait, cleanup_module() of pong_wa7 can meet one more request only:
\* that of a handler that was past its look at cleaning_up.
LateInv ==
  /\ late > 0 => PastWait
  /\ cleaning_up => rmmod # "loaded"
  /\ variant = "wa7" /\ rmmod # "loaded" => cleaning_up
  /\ variant = "wa7" => late <= 1
  /\ variant = "wa7" /\ PastWait =>
       /\ pc.at \in {"inc", "ask"} => late = 0
       /\ late = 0 => Len(queue) = 0
       /\ late = 0 /\ rmmod # "unregEntry" => "entry" \notin core
       /\ late = 0 /\ rmmod = "gone" => core = {}

\* Without the callback no handler asks for anything.
PlainInv ==
  ~Callback =>
    /\ Len(queue) = 0 /\ "return" \notin core /\ counts["return"] = 0
    /\ ~returning
    /\ pc.at = "enter" => pc.h = "entry"
    /\ rmmod = "loaded" =>
         /\ pc.at # "exited" => core = {"entry"}
         /\ calls = counts["entry"] + (IF pc.at = "enter" THEN 1 ELSE 0)

\* Whose turn it was: the handlers of the hits so far, the entry handler first,
\* have alternated up to h.
Other(h) == IF h = "entry" THEN "return" ELSE "entry"
HitOf(h) == counts["entry"] = counts["return"] + (IF h = "entry" THEN 1 ELSE 0)

\* The last hit was one of h, which has left the other probe registered.
Settled(h) == HitOf(h) /\ core = {Other(h)}

\* The requests of the handler that are still on the list, and the probes that
\* those carried out have left registered.
WorkOff ==
  \/ Len(queue) = 2 /\ queue[1] = Req(1) /\ queue[2] = Req(2) /\ core = {pc.h}
  \/ /\ Len(queue) = 1 /\ queue[1] = Req(2)
     /\ core = IF pc.h = "entry" THEN Handlers ELSE {}
  \/ Len(queue) = 0 /\ core = {Other(pc.h)}

\* Nothing has failed and nobody unloads the module.
Undisturbed == Callback /\ ~failed /\ rmmod = "loaded"

\* While it is undisturbed every call has one hit, on its way in or out.
CallsInv ==
  Undisturbed =>
    /\ calls = counts["entry"] + counts["return"]
                + (IF pc.at = "enter" \/ returning THEN 1 ELSE 0)
    /\ returning => pc.at = "body"

\* While it is undisturbed the two handlers take turns.
RoundInv ==
  Undisturbed =>
    /\ pc.at = "call" => Settled("entry") \/ Settled("return")
    /\ pc.at = "body" => Settled("entry")
    /\ pc.at = "enter" => Settled(Other(pc.h))
    /\ pc.at \in {"check", "inc", "ask", "flag"} => HitOf(pc.h) /\ core = {pc.h}
    /\ pc.at \in {"check", "inc", "ask"} => Len(queue) = pc.n - 1
    /\ pc.at = "flag" => Len(queue) = pc.n
    /\ pc.at \in {"defer", "wake"} => HitOf(pc.h) /\ WorkOff
    /\ pc.at # "failWake"

PongInv ==
  /\ TypeOK
  /\ PendingExact
  /\ QueueInv
  /\ ExitInv
  /\ HandlerInv
  /\ FlagInv
  /\ LateInv
  /\ PlainInv
  /\ CallsInv
  /\ RoundInv

-----------------------------------------------------------------------------
(* The constants and the deferred list. *)

LEMMA MaxCallsType == MaxCalls \in Nat
  BY VariantAssumption


\* A list is empty exactly if it has no element.
LEMMA EmptyList ==
  ASSUME TypeOK
  PROVE  /\ Len(queue) \in Nat
         /\ queue = <<>> <=> Len(queue) = 0
         /\ \A i \in 1 .. Len(queue) : queue[i] \in Requests(Handlers)
  BY EmptySeq, LenProperties, ElementOfSeq DEF TypeOK

\* A request that is deferred is the last one on the list.
LEMMA DeferFacts ==
  ASSUME TypeOK, NEW r \in BOOLEAN, NEW p \in Handlers, Defer(r, p)
  PROVE  /\ queue' \in Seq(Requests(Handlers))
         /\ Len(queue') = Len(queue) + 1
         /\ \A i \in 1 .. Len(queue) : queue'[i] = queue[i]
         /\ queue'[Len(queue')] = [register |-> r, probe |-> p]
         /\ core' = core
  <1>1. [register |-> r, probe |-> p] \in Requests(Handlers)
    BY DEF Requests
  <1>2. queue \in Seq(Requests(Handlers))
    BY DEF TypeOK
  <1>. QED  BY <1>1, <1>2, AppendProperties DEF Defer

\* The oldest request leaves the list, carried out or not, and the others move
\* up.
LEMMA CarryOutFacts ==
  ASSUME TypeOK, CarryOut \/ CarryOutFails
  PROVE  /\ Len(queue) > 0
         /\ queue' \in Seq(Requests(Handlers))
         /\ Len(queue') = Len(queue) - 1
         /\ \A i \in 1 .. Len(queue') : queue'[i] = queue[i + 1]
         /\ CarryOut =>
              core' = IF queue[1].register THEN core \cup {queue[1].probe}
                                           ELSE core \ {queue[1].probe}
         /\ CarryOutFails => core' = core /\ queue[1].register
  <1>1. queue \in Seq(Requests(Handlers)) /\ queue # <<>>
    BY DEF TypeOK, CarryOut, CarryOutFails
  <1>2. queue' = Tail(queue)
    BY DEF CarryOut, CarryOutFails
  <1>3. Head(queue) = queue[1]
    BY <1>1
  <1>4. Len(queue) > 0
    BY <1>1, EmptySeq
  <1>. QED
    BY <1>1, <1>2, <1>3, <1>4, HeadTailProperties DEF CarryOut, CarryOutFails

-----------------------------------------------------------------------------
(* PongInv is inductive. *)

\* A module that is loaded, with its probes not yet hit, satisfies the invariant.
THEOREM PongInit == Init => PongInv
  <1>. SUFFICES ASSUME Init PROVE PongInv
    OBVIOUS
  <1>a. pc.at = "call" /\ pc.h = "entry" /\ pc.n = 1
    BY DEF Init, Outside, At
  <1>1. queue = <<>> /\ Len(queue) = 0
    BY DEF Init
  <1>2. flag \in [Handlers -> BOOLEAN] /\ counts \in [Handlers -> Nat]
    BY DEF Init
  <1>3. pc \in [at : Places, h : Handlers, n : {1, 2}]
    BY DEF Init, Outside, At, Handlers, Places
  <1>4. TypeOK
    <2>1. queue \in Seq(Requests(Handlers)) /\ Len(queue) <= 2
      BY <1>1, EmptySeq
    <2>2. calls \in 0 .. MaxCalls
      BY MaxCallsType DEF Init
    <2>3. core \subseteq Handlers
      BY DEF Init, Handlers
    <2>. QED  BY <1>2, <1>3, <2>1, <2>2, <2>3 DEF Init, TypeOK, Places
  <1>5. PendingExact
    BY <1>1 DEF Init, PendingExact, Outside, At
  <1>6. QueueInv
    BY <1>1, <1>a DEF QueueInv
  <1>7. ExitInv /\ HandlerInv /\ LateInv
    BY <1>a DEF Init, ExitInv, HandlerInv, LateInv, InHandler, PastWait
  <1>8. FlagInv
    <2>1. \A p \in Handlers : ~OnList(TRUE, p)
      BY <1>1 DEF OnList
    <2>2. \A p \in core : p = "entry"
      BY DEF Init
    <2>3. flag["entry"]
      BY DEF Init, Handlers
    <2>. QED  BY <2>1, <2>2, <2>3 DEF FlagInv
  <1>9. PlainInv /\ CallsInv /\ RoundInv
    BY <1>1, <1>a
    DEF Init, PlainInv, CallsInv, RoundInv, Settled, HitOf, Other, Handlers
  <1>. QED  BY <1>4, <1>5, <1>6, <1>7, <1>8, <1>9 DEF PongInv

LEMMA PongStep == PongInv /\ [Next]_vars => PongInv'
  <1>. SUFFICES ASSUME PongInv, [Next]_vars PROVE PongInv'
    OBVIOUS
  <1>a. /\ TypeOK /\ PendingExact /\ QueueInv /\ ExitInv /\ HandlerInv
        /\ FlagInv /\ LateInv /\ PlainInv /\ CallsInv /\ RoundInv
    BY DEF PongInv
  <1>b. /\ Len(queue) \in Nat /\ pending_regs \in Nat
        /\ calls \in Nat /\ late \in Nat
        /\ counts["entry"] \in Nat /\ counts["return"] \in Nat
        /\ returning \in BOOLEAN /\ cleaning_up \in BOOLEAN
        /\ flag["entry"] \in BOOLEAN /\ flag["return"] \in BOOLEAN
        /\ pc.at \in Places /\ pc.h \in {"entry", "return"} /\ pc.n \in {1, 2}
        /\ core \subseteq {"entry", "return"}
    BY <1>a, EmptyList DEF TypeOK, Handlers, Places
  <1>c. variant = "wa7" => Workaround /\ Callback
    BY DEF Workaround, Callback
  <1>1. ASSUME CallFunction, rmmod # "gone" PROVE PongInv'
    <2>a. /\ pc.at = "call" /\ calls < MaxCalls
          /\ pc'.at = IF "entry" \in core THEN "enter" ELSE "body"
          /\ pc'.h = "entry" /\ pc'.n = 1
          /\ calls' = calls + 1
          /\ returning' = ("return" \in core)
          /\ Callback' = Callback /\ Workaround' = Workaround
          /\ Undisturbed' => Undisturbed
          /\ UNCHANGED <<variant, core, queue, flag, pending_regs, cleaning_up,
                        counts, rmmod, late, failed, exitFirst>>
      BY <1>1, <1>a DEF CallFunction, Outside, At, TypeOK, Callback,
         Workaround, Undisturbed
    <2>1. TypeOK'
      <3>1. calls' \in 0 .. MaxCalls
        BY <1>1, <1>a, MaxCallsType DEF CallFunction, TypeOK
      <3>2. returning' \in BOOLEAN
        BY <2>a
      <3>. QED
        BY <1>1, <1>a, <3>1, <3>2 DEF CallFunction, TypeOK, Outside, At, Handlers
    <2>2. PendingExact'
      BY <1>a, <1>b, <2>a DEF PendingExact
    <2>3. QueueInv'
      BY <1>a, <1>b, <2>a DEF QueueInv, Req
    <2>4. ExitInv'
      BY <1>a, <1>b, <2>a DEF ExitInv
    <2>5. HandlerInv'
      BY <1>a, <1>b, <2>a DEF HandlerInv, InHandler
    <2>6. FlagInv'
      BY <1>a, <1>b, <2>a DEF FlagInv, OnList
    <2>7. LateInv'
      BY <1>a, <1>b, <2>a DEF LateInv, PastWait
    <2>8. PlainInv'
      BY <1>a, <1>b, <2>a DEF PlainInv
    <2>9. CallsInv'
      <3>a. Undisturbed => core = {"entry"} \/ core = {"return"}
        BY <1>a, <2>a DEF RoundInv, Settled, Other
      <3>1. CASE "return" \in core
        <4>1. Undisturbed => "entry" \notin core
          BY <3>a, <3>1
        <4>2. returning' = TRUE
          BY <2>a, <3>1
        <4>3. Undisturbed => pc'.at = "body" /\ ~returning
          BY <1>a, <2>a, <4>1 DEF CallsInv
        <4>. QED  BY <1>a, <1>b, <2>a, <4>2, <4>3 DEF CallsInv
      <3>2. CASE "return" \notin core
        <4>1. Undisturbed => "entry" \in core
          BY <3>a, <3>2
        <4>. QED  BY <1>a, <1>b, <2>a, <3>2, <4>1 DEF CallsInv
      <3>. QED  BY <3>1, <3>2
    <2>10. RoundInv'
      BY <1>a, <1>b, <2>a DEF RoundInv, Settled, HitOf, Other, WorkOff,
         Req, CallsInv
    <2>. QED
      BY <2>1, <2>2, <2>3, <2>4, <2>5, <2>6, <2>7, <2>8, <2>9, <2>10 DEF PongInv
  <1>2. ASSUME ReturnFromFunction, rmmod # "gone" PROVE PongInv'
    <2>a. /\ pc.at = "body"
          /\ IF returning /\ "return" \in core
             THEN pc'.at = "enter" /\ pc'.h = "return"
             ELSE pc'.at = "call" /\ pc'.h = "entry"
          /\ pc'.n = 1
          /\ returning' = FALSE
          /\ Callback' = Callback /\ Workaround' = Workaround
          /\ Undisturbed' => Undisturbed
          /\ UNCHANGED <<variant, calls, core, queue, flag, pending_regs,
                        cleaning_up, counts, rmmod, late, failed, exitFirst>>
      BY <1>2, <1>a DEF ReturnFromFunction, Outside, At, TypeOK,
         Callback, Workaround, Undisturbed
    <2>1. TypeOK'
      BY <1>2, <1>a, <1>b, <2>a DEF ReturnFromFunction, TypeOK, Outside, At,
         Handlers
    <2>2. PendingExact'
      BY <1>a, <1>b, <2>a DEF PendingExact
    <2>3. QueueInv'
      BY <1>a, <1>b, <2>a DEF QueueInv, Req
    <2>4. ExitInv'
      BY <1>a, <1>b, <2>a DEF ExitInv
    <2>5. HandlerInv'
      BY <1>a, <1>b, <2>a DEF HandlerInv, InHandler
    <2>6. FlagInv'
      BY <1>a, <1>b, <2>a DEF FlagInv, OnList
    <2>7. LateInv'
      BY <1>a, <1>b, <2>a DEF LateInv, PastWait
    <2>8. PlainInv'
      BY <1>a, <1>b, <2>a DEF PlainInv
    <2>9. CallsInv'
      BY <1>a, <1>b, <2>a DEF CallsInv, RoundInv, Settled, Other
    <2>10. RoundInv'
      BY <1>a, <1>b, <2>a DEF RoundInv, Settled, HitOf, Other, WorkOff,
         Req
    <2>. QED
      BY <2>1, <2>2, <2>3, <2>4, <2>5, <2>6, <2>7, <2>8, <2>9, <2>10 DEF PongInv
  <1>3. ASSUME ExitProcess, rmmod # "gone" PROVE PongInv'
    <2>a. /\ pc.at = "call" /\ pc'.at = "exited"
          /\ pc'.h = "entry" /\ pc'.n = 1
          /\ core' = {}
          /\ Callback' = Callback /\ Workaround' = Workaround
          /\ Undisturbed' => Undisturbed
          /\ UNCHANGED <<variant, calls, returning, queue, flag, pending_regs,
                        cleaning_up, counts, rmmod, late, failed, exitFirst>>
      BY <1>3, <1>a DEF ExitProcess, Outside, At, ProcessEnds,
         TypeOK, Callback, Workaround, Undisturbed
    <2>1. TypeOK'
      BY <1>3, <1>a, <1>b, <2>a DEF ExitProcess, TypeOK, Outside, At,
         ProcessEnds, Handlers
    <2>2. PendingExact'
      BY <1>a, <1>b, <2>a DEF PendingExact
    <2>3. QueueInv'
      BY <1>a, <1>b, <2>a DEF QueueInv, Req
    <2>4. ExitInv'
      BY <1>a, <1>b, <2>a DEF ExitInv
    <2>5. HandlerInv'
      BY <1>a, <1>b, <2>a DEF HandlerInv, InHandler
    <2>6. FlagInv'
      BY <1>a, <1>b, <2>a DEF FlagInv, OnList
    <2>7. LateInv'
      BY <1>a, <1>b, <2>a DEF LateInv, PastWait
    <2>8. PlainInv'
      BY <1>a, <1>b, <2>a DEF PlainInv
    <2>9. CallsInv'
      BY <1>a, <1>b, <2>a DEF CallsInv
    <2>10. RoundInv'
      BY <1>a, <1>b, <2>a DEF RoundInv, Settled, HitOf, Other, WorkOff,
         Req
    <2>. QED
      BY <2>1, <2>2, <2>3, <2>4, <2>5, <2>6, <2>7, <2>8, <2>9, <2>10 DEF PongInv
  <1>4. ASSUME EnterHandler, rmmod # "gone" PROVE PongInv'
    <2>a. /\ pc.at = "enter"
          /\ pc'.at = IF Callback THEN "check" ELSE "defer"
          /\ pc'.h = pc.h /\ pc'.n = pc.n
          /\ counts' = [counts EXCEPT ![pc.h] = @ + 1]
          /\ Callback => flag' = flag
          /\ flag' \in [Handlers -> BOOLEAN]
          /\ Callback' = Callback /\ Workaround' = Workaround
          /\ Undisturbed' => Undisturbed
          /\ UNCHANGED <<variant, calls, returning, core, queue, pending_regs,
                        cleaning_up, rmmod, late, failed, exitFirst>>
      BY <1>4, <1>a DEF EnterHandler, Handlers, TypeOK, Callback,
         Workaround, Undisturbed
    <2>1. TypeOK'
      BY <1>4, <1>a, <1>b, <2>a DEF EnterHandler, TypeOK, Handlers
    <2>2. PendingExact'
      BY <1>a, <1>b, <2>a DEF PendingExact
    <2>3. QueueInv'
      BY <1>a, <1>b, <2>a DEF QueueInv, Req
    <2>4. ExitInv'
      BY <1>a, <1>b, <2>a DEF ExitInv
    <2>5. HandlerInv'
      BY <1>a, <1>b, <2>a DEF HandlerInv, InHandler
    <2>6. FlagInv'
      BY <1>a, <1>b, <2>a DEF FlagInv, OnList
    <2>7. LateInv'
      BY <1>a, <1>b, <2>a DEF LateInv, PastWait
    <2>8. PlainInv'
      BY <1>a, <1>b, <2>a DEF PlainInv, TypeOK
    <2>9. CallsInv'
      BY <1>a, <1>b, <2>a DEF CallsInv, TypeOK, RoundInv
    <2>10. RoundInv'
      <3>1. Undisturbed => HitOf(Other(pc.h)) /\ core = {pc.h} /\ Len(queue) = 0
        BY <1>a, <1>b, <2>a DEF RoundInv, QueueInv, Settled, Other
      <3>2. Undisturbed => HitOf(pc.h)'
        BY <1>a, <1>b, <2>a, <3>1 DEF HitOf, Other, TypeOK, Handlers
      <3>3. Undisturbed => Callback /\ pc.n = 1
        BY <1>a, <2>a DEF Undisturbed, QueueInv
      <3>. QED  BY <1>a, <1>b, <2>a, <3>1, <3>2, <3>3 DEF RoundInv, HitOf
    <2>. QED
      BY <2>1, <2>2, <2>3, <2>4, <2>5, <2>6, <2>7, <2>8, <2>9, <2>10 DEF PongInv
  <1>5. ASSUME CheckCleaningUp, rmmod # "gone" PROVE PongInv'
    <2>a. /\ pc.at = "check"
          /\ pc'.at \in {"ask", "inc"} \/ (pc'.at = "defer" /\ cleaning_up)
          /\ pc'.at = "inc" => Workaround
          /\ pc'.at = "ask" => ~Workaround
          /\ cleaning_up /\ Workaround => pc'.at = "defer"
          /\ pc'.h = pc.h /\ pc'.n = pc.n
          /\ Callback' = Callback /\ Workaround' = Workaround
          /\ Undisturbed' => Undisturbed
          /\ UNCHANGED <<variant, calls, returning, core, queue, flag,
                        pending_regs, cleaning_up, counts, rmmod, late, failed,
                        exitFirst>>
      BY <1>5, <1>a DEF CheckCleaningUp, Workaround, TypeOK,
         Callback, Undisturbed
    <2>1. TypeOK'
      BY <1>5, <1>a, <1>b, <2>a DEF CheckCleaningUp, TypeOK, Workaround
    <2>2. PendingExact'
      BY <1>a, <1>b, <2>a DEF PendingExact
    <2>3. QueueInv'
      BY <1>a, <1>b, <2>a DEF QueueInv, Req
    <2>4. ExitInv'
      BY <1>a, <1>b, <2>a DEF ExitInv
    <2>5. HandlerInv'
      BY <1>a, <1>b, <2>a DEF HandlerInv, InHandler
    <2>6. FlagInv'
      BY <1>a, <1>b, <2>a DEF FlagInv, OnList
    <2>7. LateInv'
      BY <1>a, <1>b, <1>c, <2>a DEF LateInv, PastWait
    <2>8. PlainInv'
      BY <1>a, <1>b, <2>a DEF PlainInv
    <2>9. CallsInv'
      BY <1>a, <1>b, <2>a DEF CallsInv
    <2>10. RoundInv'
      <3>1. Undisturbed => ~cleaning_up
        BY <1>a DEF Undisturbed, LateInv
      <3>. QED  BY <1>a, <1>b, <2>a, <3>1 DEF RoundInv, HitOf
    <2>. QED
      BY <2>1, <2>2, <2>3, <2>4, <2>5, <2>6, <2>7, <2>8, <2>9, <2>10 DEF PongInv
  <1>6. ASSUME CountRequest, rmmod # "gone" PROVE PongInv'
    <2>a. /\ pc.at = "inc" /\ pc'.at = "ask"
          /\ pc'.h = pc.h /\ pc'.n = pc.n
          /\ pending_regs' = pending_regs + 1
          /\ Callback' = Callback /\ Workaround' = Workaround
          /\ Undisturbed' => Undisturbed
          /\ UNCHANGED <<variant, calls, returning, core, queue, flag,
                        cleaning_up, counts, rmmod, late, failed, exitFirst>>
      BY <1>6, <1>a DEF CountRequest, TypeOK, Callback, Workaround,
         Undisturbed
    <2>1. TypeOK'
      <3>1. pc' \in [at : Places, h : Handlers, n : {1, 2}]
        BY <1>6, <1>a DEF CountRequest, TypeOK, Places
      <3>. QED  BY <1>a, <2>a, <3>1 DEF TypeOK, Places
    <2>2. PendingExact'
      BY <1>a, <1>b, <2>a DEF PendingExact, QueueInv
    <2>3. QueueInv'
      BY <1>a, <1>b, <2>a DEF QueueInv, Req
    <2>4. ExitInv'
      BY <1>a, <1>b, <2>a DEF ExitInv
    <2>5. HandlerInv'
      BY <1>a, <1>b, <2>a DEF HandlerInv, InHandler
    <2>6. FlagInv'
      BY <1>a, <1>b, <2>a DEF FlagInv, OnList
    <2>7. LateInv'
      BY <1>a, <1>b, <2>a DEF LateInv, PastWait
    <2>8. PlainInv'
      BY <1>a, <1>b, <2>a DEF PlainInv
    <2>9. CallsInv'
      BY <1>a, <1>b, <2>a DEF CallsInv
    <2>10. RoundInv'
      BY <1>a, <1>b, <2>a DEF RoundInv, Settled, HitOf, Other, WorkOff,
         Req
    <2>. QED
      BY <2>1, <2>2, <2>3, <2>4, <2>5, <2>6, <2>7, <2>8, <2>9, <2>10 DEF PongInv
  <1>7. ASSUME Request, rmmod # "gone" PROVE PongInv'
    <2>a. /\ pc.at = "ask" /\ pc'.at = "flag"
          /\ pc'.h = pc.h /\ pc'.n = pc.n
          /\ late' = IF rmmod \in {"unregEntry", "unregReturn"} THEN late + 1
                                                               ELSE late
          /\ Callback' = Callback /\ Workaround' = Workaround
          /\ Undisturbed' => Undisturbed
          /\ UNCHANGED <<variant, calls, returning, flag, pending_regs,
                        cleaning_up, counts, rmmod, failed, exitFirst>>
      BY <1>7, <1>a DEF Request, TypeOK, Callback, Workaround,
         Undisturbed
    <2>b. /\ queue' \in Seq(Requests(Handlers))
          /\ Len(queue') = Len(queue) + 1
          /\ \A i \in 1 .. Len(queue) : queue'[i] = queue[i]
          /\ queue'[Len(queue')] = Req(pc.n)
          /\ core' = core
      <3>1. Registers(pc.h, pc.n) \in BOOLEAN /\ Target(pc.n) \in Handlers
        BY DEF Registers, Target, Handlers
      <3>. QED  BY <1>7, <1>a, <3>1, DeferFacts DEF Request, Req
    <2>1. TypeOK'
      BY <1>7, <1>a, <1>b, <2>a, <2>b DEF Request, TypeOK, QueueInv
    <2>2. PendingExact'
      BY <1>a, <1>b, <2>a, <2>b DEF PendingExact
    <2>3. QueueInv'
      BY <1>a, <1>b, <2>a, <2>b DEF QueueInv, Req
    <2>4. ExitInv'
      BY <1>a, <1>b, <2>a, <2>b DEF ExitInv
    <2>5. HandlerInv'
      BY <1>a, <1>b, <2>a, <2>b DEF HandlerInv, InHandler
    <2>6. FlagInv'
      <3>. SUFFICES ASSUME Callback, NEW p \in Handlers
                    PROVE  /\ p \in core => flag[p] \/ OnList(FALSE, p)'
                           /\ OnList(TRUE, p)' => flag[p] \/ Target(pc.n) = p
        BY <2>a, <2>b DEF FlagInv
      <3>1. OnList(FALSE, p) => OnList(FALSE, p)'
        BY <1>b, <2>b DEF OnList
      <3>2. OnList(TRUE, p)' => OnList(TRUE, p) \/ Target(pc.n) = p
        <4>. SUFFICES ASSUME NEW i \in 1 .. Len(queue'),
                             queue'[i] = [register |-> TRUE, probe |-> p]
                      PROVE  OnList(TRUE, p) \/ Target(pc.n) = p
          BY DEF OnList
        <4>1. i \in 1 .. Len(queue) \/ i = Len(queue')
          BY <1>b, <2>b
        <4>2. CASE i \in 1 .. Len(queue)
          <5>1. queue[i] = [register |-> TRUE, probe |-> p]
            BY <2>b, <4>2
          <5>. QED  BY <4>2, <5>1 DEF OnList
        <4>3. CASE i = Len(queue')
          <5>1. [register |-> TRUE, probe |-> p] = Req(pc.n)
            BY <2>b, <4>3
          <5>2. [register |-> TRUE, probe |-> p].probe = Req(pc.n).probe
            BY <5>1
          <5>. QED  BY <5>2 DEF Req
        <4>. QED  BY <4>1, <4>2, <4>3
      <3>. QED  BY <1>a, <2>a, <3>1, <3>2 DEF FlagInv
    <2>7. LateInv'
      BY <1>7, <1>a, <1>b, <2>a, <2>b DEF LateInv, PastWait
    <2>8. PlainInv'
      BY <1>a, <1>b, <2>a, <2>b DEF PlainInv, QueueInv
    <2>9. CallsInv'
      BY <1>a, <1>b, <2>a, <2>b DEF CallsInv
    <2>10. RoundInv'
      BY <1>a, <1>b, <2>a, <2>b DEF RoundInv, Settled, HitOf, Other,
         WorkOff, Req
    <2>. QED
      BY <2>1, <2>2, <2>3, <2>4, <2>5, <2>6, <2>7, <2>8, <2>9, <2>10 DEF PongInv
  <1>8. ASSUME RequestFails, rmmod # "gone" PROVE PongInv'
    <2>a. /\ pc.at = "ask"
          /\ IF Workaround /\ pending_regs = 1
             THEN pc'.at = "failWake" /\ pc'.n = pc.n
             ELSE pc'.at = (IF pc.n = 1 THEN "check" ELSE "defer") /\ pc'.n = 2
          /\ pc'.h = pc.h
          /\ pending_regs' = IF Workaround THEN pending_regs - 1
                                           ELSE pending_regs
          /\ failed' = TRUE /\ ~Undisturbed'
          /\ Callback' = Callback /\ Workaround' = Workaround
          /\ Undisturbed' => Undisturbed
          /\ UNCHANGED <<variant, calls, returning, core, queue, flag,
                        cleaning_up, counts, rmmod, late, exitFirst>>
      BY <1>8, <1>a DEF RequestFails, Past, At, TypeOK, Callback,
         Workaround, Undisturbed
    <2>1. TypeOK'
      BY <1>8, <1>a, <1>b, <2>a DEF RequestFails, TypeOK, Past, At,
         PendingExact, Workaround
    <2>2. PendingExact'
      BY <1>a, <1>b, <2>a DEF PendingExact
    <2>3. QueueInv'
      BY <1>a, <1>b, <2>a DEF QueueInv, Req, PendingExact
    <2>4. ExitInv'
      BY <1>a, <1>b, <2>a DEF ExitInv
    <2>5. HandlerInv'
      BY <1>a, <1>b, <2>a DEF HandlerInv, InHandler
    <2>6. FlagInv'
      BY <1>a, <1>b, <2>a DEF FlagInv, OnList
    <2>7. LateInv'
      BY <1>a, <1>b, <2>a DEF LateInv, PastWait
    <2>8. PlainInv'
      BY <1>a, <1>b, <2>a DEF PlainInv
    <2>9. CallsInv'
      BY <1>a, <1>b, <2>a DEF CallsInv
    <2>10. RoundInv'
      BY <1>a, <1>b, <2>a DEF RoundInv, Settled, HitOf, Other, WorkOff,
         Req
    <2>. QED
      BY <2>1, <2>2, <2>3, <2>4, <2>5, <2>6, <2>7, <2>8, <2>9, <2>10 DEF PongInv
  <1>9. ASSUME SetFlag, rmmod # "gone" PROVE PongInv'
    <2>a. /\ pc.at = "flag"
          /\ pc'.at = IF pc.n = 1 THEN "check" ELSE "defer"
          /\ pc'.h = pc.h /\ pc'.n = 2
          /\ flag' = [flag EXCEPT ![Target(pc.n)] = Registers(pc.h, pc.n)]
          /\ Callback' = Callback /\ Workaround' = Workaround
          /\ Undisturbed' => Undisturbed
          /\ UNCHANGED <<variant, calls, returning, core, queue, pending_regs,
                        cleaning_up, counts, rmmod, late, failed, exitFirst>>
      BY <1>9, <1>a DEF SetFlag, Past, At, TypeOK, Callback,
         Workaround, Undisturbed
    <2>1. TypeOK'
      BY <1>9, <1>a, <1>b, <2>a DEF SetFlag, TypeOK, Past, At, Handlers,
         Target, Registers
    <2>2. PendingExact'
      BY <1>a, <1>b, <2>a DEF PendingExact
    <2>3. QueueInv'
      BY <1>a, <1>b, <2>a DEF QueueInv, Req
    <2>4. ExitInv'
      BY <1>a, <1>b, <2>a DEF ExitInv
    <2>5. HandlerInv'
      BY <1>a, <1>b, <2>a DEF HandlerInv, InHandler
    <2>6. FlagInv'
      <3>1. Len(queue) > 0 /\ queue[Len(queue)] = Req(pc.n)
        BY <1>a, <1>b, <2>a DEF QueueInv
      <3>2. OnList(Registers(pc.h, pc.n), Target(pc.n))
        BY <1>b, <3>1 DEF OnList, Req
      <3>3. Target(pc.n) \in Handlers /\ Registers(pc.h, pc.n) \in BOOLEAN
        BY DEF Target, Registers, Handlers
      <3>4. \A p \in Handlers, r \in BOOLEAN : OnList(r, p)' <=> OnList(r, p)
        BY <2>a DEF OnList
      <3>5. \A p \in Handlers :
               flag'[p] = IF p = Target(pc.n) THEN Registers(pc.h, pc.n)
                                              ELSE flag[p]
        BY <1>a, <2>a, <3>3 DEF TypeOK
      <3>. SUFFICES ASSUME Callback, NEW p \in Handlers
                    PROVE  /\ p \in core => flag'[p] \/ OnList(FALSE, p)
                           /\ OnList(TRUE, p) => flag'[p]
        BY <2>a, <3>4 DEF FlagInv
      <3>6. CASE p = Target(pc.n)
        <4>1. CASE Registers(pc.h, pc.n) = TRUE
          BY <3>3, <3>5, <3>6, <4>1
        <4>2. CASE Registers(pc.h, pc.n) = FALSE
          <5>1. OnList(FALSE, p)
            BY <3>2, <3>6, <4>2
          <5>2. ~OnList(TRUE, p)
            BY <1>a, <1>b, <2>a, <3>6, <4>2 DEF OnList, QueueInv, Req, Target
          <5>. QED  BY <5>1, <5>2
        <4>. QED  BY <3>3, <4>1, <4>2
      <3>7. CASE p # Target(pc.n)
        BY <1>a, <2>a, <3>5, <3>7 DEF FlagInv
      <3>. QED  BY <3>6, <3>7
    <2>7. LateInv'
      BY <1>a, <1>b, <2>a DEF LateInv, PastWait
    <2>8. PlainInv'
      BY <1>a, <1>b, <2>a DEF PlainInv
    <2>9. CallsInv'
      BY <1>a, <1>b, <2>a DEF CallsInv
    <2>10. RoundInv'
      <3>1. CASE pc.n = 1
        BY <1>a, <1>b, <2>a, <3>1 DEF RoundInv, HitOf
      <3>2. CASE pc.n = 2
        <4>1. Undisturbed => HitOf(pc.h) /\ core = {pc.h} /\ Len(queue) = 2
          BY <1>a, <2>a, <3>2 DEF RoundInv
        <4>2. Len(queue) = 2 => queue[1] = Req(1) /\ queue[2] = Req(2)
          BY <1>a, <2>a, <3>2 DEF QueueInv
        <4>. QED  BY <2>a, <3>2, <4>1, <4>2 DEF RoundInv, WorkOff, HitOf, Req
      <3>. QED  BY <1>b, <3>1, <3>2
    <2>. QED
      BY <2>1, <2>2, <2>3, <2>4, <2>5, <2>6, <2>7, <2>8, <2>9, <2>10 DEF PongInv
  <1>10. ASSUME RunDeferred, rmmod # "gone" PROVE PongInv'
    <2>a. /\ pc.at = "defer"
          /\ pc'.at = IF Workaround /\ pending_regs = 1 THEN "wake" ELSE "defer"
          /\ pc'.h = pc.h /\ pc'.n = pc.n
          /\ pending_regs' = IF Workaround THEN pending_regs - 1
                                           ELSE pending_regs
          /\ Callback' = Callback /\ Workaround' = Workaround
          /\ Undisturbed' => Undisturbed
          /\ UNCHANGED <<variant, calls, returning, flag, cleaning_up, counts,
                        rmmod, late, exitFirst>>
      BY <1>10, <1>a DEF RunDeferred, TypeOK, Callback, Workaround,
         Undisturbed
    <2>b. /\ Len(queue) > 0 /\ queue[1] \in Requests(Handlers)
          /\ queue' \in Seq(Requests(Handlers))
          /\ Len(queue') = Len(queue) - 1
          /\ \A i \in 1 .. Len(queue') : queue'[i] = queue[i + 1]
          /\ \/ /\ failed' = failed
                /\ core' = IF queue[1].register THEN core \cup {queue[1].probe}
                                                ELSE core \ {queue[1].probe}
             \/ failed' = TRUE /\ core' = core /\ queue[1].register
      BY <1>10, <1>a, CarryOutFacts, EmptyList DEF RunDeferred
    <2>1. TypeOK'
      <3>1. Workaround => pending_regs >= 1
        BY <1>a, <1>b, <2>a, <2>b DEF PendingExact
      <3>2. pending_regs' \in Nat
        BY <1>b, <2>a, <3>1
      <3>3. core' \subseteq Handlers
        BY <1>b, <2>b DEF Requests, Handlers
      <3>4. failed' \in BOOLEAN
        BY <1>a, <2>b DEF TypeOK
      <3>5. pc' \in [at : Places, h : Handlers, n : {1, 2}]
        BY <1>10, <1>a DEF RunDeferred, TypeOK, Places
      <3>6. Len(queue') <= 2
        BY <1>a, <1>b, <2>b DEF TypeOK
      <3>. QED  BY <1>a, <2>a, <2>b, <3>2, <3>3, <3>4, <3>5, <3>6 DEF TypeOK, Places
    <2>2. PendingExact'
      BY <1>a, <1>b, <2>a, <2>b DEF PendingExact
    <2>3. QueueInv'
      <3>1. pc'.at = "wake" => Workaround /\ Len(queue') = 0
        BY <1>a, <1>b, <2>a, <2>b DEF PendingExact
      <3>2. Callback
        BY <1>a, <2>b DEF PlainInv
      <3>. QED  BY <2>a, <3>1, <3>2 DEF QueueInv
    <2>4. ExitInv'
      BY <1>a, <1>b, <2>a, <2>b DEF ExitInv
    <2>5. HandlerInv'
      BY <1>a, <1>b, <2>a, <2>b DEF HandlerInv, InHandler
    <2>6. FlagInv'
      <3>. SUFFICES ASSUME Callback, NEW p \in Handlers
                    PROVE  /\ p \in core' => flag[p] \/ OnList(FALSE, p)'
                           /\ OnList(TRUE, p)' => flag[p]
        BY <2>a DEF FlagInv
      <3>1. /\ p \in core => flag[p] \/ OnList(FALSE, p)
            /\ OnList(TRUE, p) => flag[p]
        BY <1>a, <2>a DEF FlagInv
      <3>2. OnList(TRUE, p)' => OnList(TRUE, p)
        BY <1>b, <2>b DEF OnList
      <3>a. queue[1] = [register |-> queue[1].register,
                        probe    |-> queue[1].probe]
        BY <2>b DEF Requests
      <3>3. queue[1].register /\ queue[1].probe = p => OnList(TRUE, p)
        BY <1>b, <2>b, <3>a DEF OnList, Requests
      <3>4. OnList(FALSE, p) => \/ OnList(FALSE, p)'
                                \/ ~queue[1].register /\ queue[1].probe = p
        <4>. HAVE OnList(FALSE, p)
        <4>a. PICK i \in 1 .. Len(queue) :
                 queue[i] = [register |-> FALSE, probe |-> p]
          BY DEF OnList
        <4>1. CASE i = 1
          <5>1. /\ [register |-> FALSE, probe |-> p].register = FALSE
                /\ [register |-> FALSE, probe |-> p].probe = p
            OBVIOUS
          <5>2. queue[1] = [register |-> FALSE, probe |-> p]
            BY <4>a, <4>1
          <5>. QED  BY <5>1, <5>2
        <4>2. CASE i # 1
          <5>a. Len(queue) \in Nat /\ Len(queue') = Len(queue) - 1
            BY <1>b, <2>b
          <5>1. PICK j \in 1 .. Len(queue') : j + 1 = i
            BY <4>2, <5>a
          <5>2. queue'[j] = [register |-> FALSE, probe |-> p]
            BY <2>b, <4>a, <5>1
          <5>. QED  BY <5>1, <5>2 DEF OnList
        <4>. QED  BY <4>1, <4>2
      <3>. QED  BY <2>b, <3>1, <3>2, <3>3, <3>4
    <2>7. LateInv'
      BY <1>a, <1>b, <2>a, <2>b DEF LateInv, PastWait
    <2>8. PlainInv'
      BY <1>a, <1>b, <2>a, <2>b DEF PlainInv
    <2>9. CallsInv'
      BY <1>a, <1>b, <2>a, <2>b DEF CallsInv
    <2>10. RoundInv'
      <3>. SUFFICES ASSUME Undisturbed'
                    PROVE  HitOf(pc.h)' /\ WorkOff'
        BY <1>b, <2>a DEF RoundInv
      <3>1. Undisturbed /\ HitOf(pc.h) /\ WorkOff
        BY <1>a, <2>a DEF RoundInv
      <3>2. core' = IF queue[1].register THEN core \cup {queue[1].probe}
                                        ELSE core \ {queue[1].probe}
        BY <2>b DEF Undisturbed
      <3>3. HitOf(pc.h)'
        BY <2>a, <3>1 DEF HitOf
      <3>4. CASE Len(queue) = 2
        <4>1. queue[1] = Req(1) /\ queue[2] = Req(2) /\ core = {pc.h}
          BY <3>1, <3>4 DEF WorkOff
        <4>2. Len(queue') = 1 /\ queue'[1] = Req(2)
          BY <2>b, <3>4, <4>1
        <4>3. core' = IF pc.h = "entry" THEN Handlers ELSE {}
          <5>1. /\ queue[1].register = (pc.h = "entry")
                /\ queue[1].probe = "return"
            BY <4>1 DEF Req, Registers, Target
          <5>. QED  BY <1>b, <3>2, <4>1, <5>1 DEF Handlers
        <4>. QED  BY <2>a, <3>3, <4>2, <4>3 DEF WorkOff, Req
      <3>5. CASE Len(queue) = 1
        <4>1. /\ queue[1] = Req(2)
              /\ core = IF pc.h = "entry" THEN Handlers ELSE {}
          BY <3>1, <3>5 DEF WorkOff
        <4>2. Len(queue') = 0
          BY <2>b, <3>5
        <4>3. core' = {Other(pc.h)}
          <5>1. /\ queue[1].register = (pc.h # "entry")
                /\ queue[1].probe = "entry"
            BY <4>1 DEF Req, Registers, Target
          <5>. QED  BY <1>b, <3>2, <4>1, <5>1 DEF Handlers, Other
        <4>. QED  BY <2>a, <3>3, <4>2, <4>3 DEF WorkOff
      <3>. QED  BY <2>b, <3>1, <3>4, <3>5 DEF WorkOff
    <2>. QED
      BY <2>1, <2>2, <2>3, <2>4, <2>5, <2>6, <2>7, <2>8, <2>9, <2>10 DEF PongInv
  <1>11. ASSUME WakeUp, rmmod # "gone" PROVE PongInv'
    <2>a. /\ pc.at \in {"wake", "failWake"}
          /\ IF pc.at = "wake" THEN pc'.at = "defer" /\ pc'.n = pc.n
             ELSE pc'.at = (IF pc.n = 1 THEN "check" ELSE "defer") /\ pc'.n = 2
          /\ pc'.h = pc.h
          /\ rmmod' = rmmod \/ (rmmod = "sleep" /\ rmmod' = "wait")
          /\ Callback' = Callback /\ Workaround' = Workaround
          /\ Undisturbed' => Undisturbed
          /\ UNCHANGED <<variant, calls, returning, core, queue, flag,
                        pending_regs, cleaning_up, counts, late, failed,
                        exitFirst>>
      BY <1>11, <1>a DEF WakeUp, Past, At, TypeOK, Callback,
         Workaround, Undisturbed
    <2>1. TypeOK'
      BY <1>11, <1>a, <1>b, <2>a DEF WakeUp, TypeOK, Past, At
    <2>2. PendingExact'
      BY <1>a, <1>b, <2>a DEF PendingExact
    <2>3. QueueInv'
      BY <1>a, <1>b, <2>a DEF QueueInv, Req
    <2>4. ExitInv'
      BY <1>a, <1>b, <2>a DEF ExitInv
    <2>5. HandlerInv'
      BY <1>a, <1>b, <2>a DEF HandlerInv, InHandler
    <2>6. FlagInv'
      BY <1>a, <1>b, <2>a DEF FlagInv, OnList
    <2>7. LateInv'
      BY <1>a, <1>b, <2>a DEF LateInv, PastWait
    <2>8. PlainInv'
      BY <1>a, <1>b, <2>a DEF PlainInv
    <2>9. CallsInv'
      BY <1>a, <1>b, <2>a DEF CallsInv
    <2>10. RoundInv'
      BY <1>a, <1>b, <2>a DEF RoundInv, Settled, HitOf, Other, WorkOff,
         Req, Handlers
    <2>. QED
      BY <2>1, <2>2, <2>3, <2>4, <2>5, <2>6, <2>7, <2>8, <2>9, <2>10 DEF PongInv
  <1>12. ASSUME DeferredDone, rmmod # "gone" PROVE PongInv'
    <2>a. /\ pc.at = "defer" /\ Len(queue) = 0
          /\ pc'.at = IF pc.h = "entry" THEN "body" ELSE "call"
          /\ pc'.h = "entry" /\ pc'.n = 1
          /\ Callback' = Callback /\ Workaround' = Workaround
          /\ Undisturbed' => Undisturbed
          /\ UNCHANGED <<variant, calls, returning, core, queue, flag,
                        pending_regs, cleaning_up, counts, rmmod, late, failed,
                        exitFirst>>
      BY <1>12, <1>a, EmptyList DEF DeferredDone, Outside, At, TypeOK,
         Callback, Workaround, Undisturbed
    <2>1. TypeOK'
      BY <1>12, <1>a, <1>b, <2>a DEF DeferredDone, TypeOK, Outside, At,
         Handlers
    <2>2. PendingExact'
      BY <1>a, <1>b, <2>a DEF PendingExact
    <2>3. QueueInv'
      BY <1>a, <1>b, <2>a DEF QueueInv, Req
    <2>4. ExitInv'
      BY <1>a, <1>b, <2>a DEF ExitInv
    <2>5. HandlerInv'
      BY <1>a, <1>b, <2>a DEF HandlerInv, InHandler
    <2>6. FlagInv'
      BY <1>a, <1>b, <2>a DEF FlagInv, OnList
    <2>7. LateInv'
      BY <1>a, <1>b, <2>a DEF LateInv, PastWait
    <2>8. PlainInv'
      BY <1>a, <1>b, <2>a DEF PlainInv
    <2>9. CallsInv'
      BY <1>a, <1>b, <2>a DEF CallsInv
    <2>10. RoundInv'
      BY <1>a, <1>b, <2>a DEF RoundInv, Settled, HitOf, Other, WorkOff,
         Req, Handlers
    <2>. QED
      BY <2>1, <2>2, <2>3, <2>4, <2>5, <2>6, <2>7, <2>8, <2>9, <2>10 DEF PongInv
  <1>13. ASSUME BeginCleanup PROVE PongInv'
    <2>a. /\ rmmod = "loaded"
          /\ IF variant = "wa7"
             THEN rmmod' = "wait" /\ cleaning_up' = TRUE
             ELSE rmmod' = "unregEntry" /\ cleaning_up' = cleaning_up
          /\ exitFirst' = (pc.at = "exited")
          /\ Callback' = Callback /\ Workaround' = Workaround
          /\ Undisturbed' => Undisturbed
          /\ UNCHANGED <<variant, calls, pc, returning, core, queue, flag,
                        pending_regs, counts, late, failed>>
      BY <1>13, <1>a, VariantAssumption DEF BeginCleanup,
         Workaround, Callback, TypeOK, Undisturbed
    <2>1. TypeOK'
      BY <1>13, <1>a, <1>b, <2>a DEF BeginCleanup, TypeOK, Workaround, Callback
    <2>2. PendingExact'
      BY <1>a, <1>b, <2>a DEF PendingExact
    <2>3. QueueInv'
      BY <1>a, <1>b, <2>a DEF QueueInv, Req
    <2>4. ExitInv'
      BY <1>a, <1>b, <2>a DEF ExitInv
    <2>5. HandlerInv'
      BY <1>a, <1>b, <2>a DEF HandlerInv, InHandler
    <2>6. FlagInv'
      BY <1>a, <1>b, <2>a DEF FlagInv, OnList
    <2>7. LateInv'
      BY <1>a, <1>b, <2>a DEF LateInv, PastWait
    <2>8. PlainInv'
      BY <1>a, <1>b, <2>a DEF PlainInv
    <2>9. CallsInv'
      BY <1>a, <1>b, <2>a DEF CallsInv
    <2>10. RoundInv'
      BY <1>a, <1>b, <2>a DEF RoundInv, Settled, HitOf, Other, WorkOff, Req
    <2>. QED
      BY <2>1, <2>2, <2>3, <2>4, <2>5, <2>6, <2>7, <2>8, <2>9, <2>10 DEF PongInv
  <1>14. ASSUME WaitEvent PROVE PongInv'
    <2>a. /\ rmmod = "wait"
          /\ \/ rmmod' = "unregEntry" /\ pending_regs = 0
             \/ rmmod' = "sleep"
          /\ Callback' = Callback /\ Workaround' = Workaround
          /\ Undisturbed' => Undisturbed
          /\ UNCHANGED <<variant, calls, pc, returning, core, queue, flag,
                        pending_regs, cleaning_up, counts, late, failed,
                        exitFirst>>
      BY <1>14, <1>a DEF WaitEvent, TypeOK, Callback, Workaround,
         Undisturbed
    <2>1. TypeOK'
      BY <1>14, <1>a, <1>b, <2>a DEF WaitEvent, TypeOK
    <2>2. PendingExact'
      BY <1>a, <1>b, <2>a DEF PendingExact
    <2>3. QueueInv'
      BY <1>a, <1>b, <2>a DEF QueueInv, Req
    <2>4. ExitInv'
      BY <1>a, <1>b, <2>a DEF ExitInv
    <2>5. HandlerInv'
      BY <1>a, <1>b, <2>a DEF HandlerInv, InHandler
    <2>6. FlagInv'
      BY <1>a, <1>b, <2>a DEF FlagInv, OnList
    <2>7. LateInv'
      BY <1>a, <1>b, <2>a DEF LateInv, PastWait, PendingExact, QueueInv,
         Workaround
    <2>8. PlainInv'
      BY <1>a, <1>b, <2>a DEF PlainInv
    <2>9. CallsInv'
      BY <1>a, <1>b, <2>a DEF CallsInv
    <2>10. RoundInv'
      BY <1>a, <1>b, <2>a DEF RoundInv, Settled, HitOf, Other, WorkOff, Req
    <2>. QED
      BY <2>1, <2>2, <2>3, <2>4, <2>5, <2>6, <2>7, <2>8, <2>9, <2>10 DEF PongInv
  <1>15. ASSUME UnregisterEntry PROVE PongInv'
    <2>a. /\ rmmod = "unregEntry" /\ rmmod' = "unregReturn"
          /\ IF flag["entry"] THEN "entry" \in core => ~InHandler
                             ELSE core' = core
          /\ flag["entry"] => core' = core \ {"entry"}
          /\ ~Undisturbed'
          /\ Callback' = Callback /\ Workaround' = Workaround
          /\ Undisturbed' => Undisturbed
          /\ UNCHANGED <<variant, calls, pc, returning, queue, flag,
                        pending_regs, cleaning_up, counts, late, failed,
                        exitFirst>>
      BY <1>15, <1>a DEF UnregisterEntry, Unregister, UnregisterNow,
         TypeOK, Callback, Workaround, Undisturbed
    <2>1. TypeOK'
      BY <1>15, <1>a, <1>b, <2>a DEF UnregisterEntry, TypeOK, Unregister,
         UnregisterNow
    <2>2. PendingExact'
      BY <1>a, <1>b, <2>a DEF PendingExact
    <2>3. QueueInv'
      BY <1>a, <1>b, <2>a DEF QueueInv, Req
    <2>4. ExitInv'
      BY <1>a, <1>b, <2>a DEF ExitInv
    <2>5. HandlerInv'
      BY <1>a, <1>b, <2>a DEF HandlerInv, InHandler
    <2>6. FlagInv'
      BY <1>a, <1>b, <2>a DEF FlagInv, OnList
    <2>7. LateInv'
      <3>1. variant = "wa7" /\ late = 0 => Len(queue) = 0 /\ Callback
        BY <1>a, <1>b, <1>c, <2>a DEF LateInv, PastWait
      <3>2. variant = "wa7" /\ late = 0 => "entry" \notin core'
        BY <1>a, <2>a, <3>1 DEF FlagInv, OnList, Handlers
      <3>3. core' \subseteq core
        BY <2>a
      <3>. QED  BY <1>a, <1>b, <2>a, <3>1, <3>2, <3>3 DEF LateInv, PastWait
    <2>8. PlainInv'
      BY <1>a, <1>b, <2>a DEF PlainInv
    <2>9. CallsInv'
      BY <1>a, <1>b, <2>a DEF CallsInv
    <2>10. RoundInv'
      BY <1>a, <1>b, <2>a DEF RoundInv, Settled, HitOf, Other, WorkOff, Req
    <2>. QED
      BY <2>1, <2>2, <2>3, <2>4, <2>5, <2>6, <2>7, <2>8, <2>9, <2>10 DEF PongInv
  <1>16. ASSUME UnregisterReturn PROVE PongInv'
    <2>a. /\ rmmod = "unregReturn" /\ rmmod' = "gone"
          /\ IF flag["return"] THEN "return" \in core => ~InHandler
                             ELSE core' = core
          /\ flag["return"] => core' = core \ {"return"}
          /\ ~Undisturbed'
          /\ Callback' = Callback /\ Workaround' = Workaround
          /\ Undisturbed' => Undisturbed
          /\ UNCHANGED <<variant, calls, pc, returning, queue, flag,
                        pending_regs, cleaning_up, counts, late, failed,
                        exitFirst>>
      BY <1>16, <1>a DEF UnregisterReturn, Unregister,
         UnregisterNow, TypeOK, Callback, Workaround, Undisturbed
    <2>1. TypeOK'
      BY <1>16, <1>a, <1>b, <2>a DEF UnregisterReturn, TypeOK, Unregister,
         UnregisterNow
    <2>2. PendingExact'
      BY <1>a, <1>b, <2>a DEF PendingExact
    <2>3. QueueInv'
      BY <1>a, <1>b, <2>a DEF QueueInv, Req
    <2>4. ExitInv'
      BY <1>a, <1>b, <2>a DEF ExitInv
    <2>5. HandlerInv'
      BY <1>a, <1>b, <2>a DEF HandlerInv, InHandler
    <2>6. FlagInv'
      BY <1>a, <1>b, <2>a DEF FlagInv, OnList
    <2>7. LateInv'
      <3>1. variant = "wa7" /\ late = 0 => Len(queue) = 0 /\ Callback
        BY <1>a, <1>b, <1>c, <2>a DEF LateInv, PastWait
      <3>2. variant = "wa7" /\ late = 0 => "return" \notin core'
        BY <1>a, <2>a, <3>1 DEF FlagInv, OnList, Handlers
      <3>3. core' \subseteq core
        BY <2>a
      <3>. QED  BY <1>a, <1>b, <2>a, <3>1, <3>2, <3>3 DEF LateInv, PastWait
    <2>8. PlainInv'
      BY <1>a, <1>b, <2>a DEF PlainInv
    <2>9. CallsInv'
      BY <1>a, <1>b, <2>a DEF CallsInv
    <2>10. RoundInv'
      BY <1>a, <1>b, <2>a DEF RoundInv, Settled, HitOf, Other, WorkOff, Req
    <2>. QED
      BY <2>1, <2>2, <2>3, <2>4, <2>5, <2>6, <2>7, <2>8, <2>9, <2>10 DEF PongInv
  <1>17. ASSUME UNCHANGED vars PROVE PongInv'
    <2>a. /\ Callback' = Callback /\ Workaround' = Workaround
          /\ Undisturbed' => Undisturbed
          /\ UNCHANGED <<variant, calls, pc, returning, core, queue, flag,
                        pending_regs, cleaning_up, counts, rmmod, late, failed,
                        exitFirst>>
      BY <1>17, <1>a DEF vars, TypeOK, Callback, Workaround,
         Undisturbed
    <2>1. TypeOK'
      BY <1>17, <1>a, <1>b, <2>a DEF TypeOK, vars
    <2>2. PendingExact'
      BY <1>a, <1>b, <2>a DEF PendingExact
    <2>3. QueueInv'
      BY <1>a, <1>b, <2>a DEF QueueInv, Req
    <2>4. ExitInv'
      BY <1>a, <1>b, <2>a DEF ExitInv
    <2>5. HandlerInv'
      BY <1>a, <1>b, <2>a DEF HandlerInv, InHandler
    <2>6. FlagInv'
      BY <1>a, <1>b, <2>a DEF FlagInv, OnList
    <2>7. LateInv'
      BY <1>a, <1>b, <2>a DEF LateInv, PastWait
    <2>8. PlainInv'
      BY <1>a, <1>b, <2>a DEF PlainInv
    <2>9. CallsInv'
      BY <1>a, <1>b, <2>a DEF CallsInv
    <2>10. RoundInv'
      BY <1>a, <1>b, <2>a DEF RoundInv, Settled, HitOf, Other, WorkOff, Req
    <2>. QED
      BY <2>1, <2>2, <2>3, <2>4, <2>5, <2>6, <2>7, <2>8, <2>9, <2>10 DEF PongInv
  <1>. QED
    BY <1>1, <1>2, <1>3, <1>4, <1>5, <1>6, <1>7, <1>8, <1>9, <1>10, <1>11,
       <1>12, <1>13, <1>14, <1>15, <1>16, <1>17
    DEF Next, Task, InKernel, Cleanup, Unloaded

\* In every state the list, the flags and the place of the task agree.
THEOREM PongInvariant == Spec => []PongInv
  <1>. QED  BY PongInit, PongStep, PTL DEF Spec

-----------------------------------------------------------------------------
(* What follows from it. *)

\* The variables have their types, and uprobes core never has more than the
\* two requests of one handler on its list.
THEOREM TypeCorrect == Spec => []TypeOK
  <1>1. PongInv => TypeOK
    BY DEF PongInv
  <1>. QED  BY <1>1, PongInvariant, PTL

\* pending_regs is the number of requests that are deferred or being made, on
\* every path of the handlers and of reg_callback() and for any number of calls.
THEOREM PendingCounted == Spec => []PendingExact
  <1>1. PongInv => PendingExact
    BY DEF PongInv
  <1>. QED  BY <1>1, PongInvariant, PTL

\* cleanup_module() of pong_wa7 misses one request at most; without one, or
\* after the end of the probed process, it leaves nothing behind.
THEOREM UnloadsClean == Spec => []CleanUnload
  <1>1. PongInv => CleanUnload
    <2>. SUFFICES ASSUME PongInv PROVE CleanUnload
      OBVIOUS
    <2>1. TypeOK /\ QueueInv /\ ExitInv /\ HandlerInv /\ LateInv
      BY DEF PongInv
    <2>2. variant = "wa7" => late <= 1
      BY <2>1 DEF LateInv
    <2>3. ASSUME rmmod = "gone", exitFirst
          PROVE  core = {} /\ queue = <<>> /\ ~InHandler
      <3>1. pc.at = "exited" /\ core = {} /\ Len(queue) = 0
        BY <2>1, <2>3 DEF ExitInv, QueueInv
      <3>. QED  BY <2>1, <3>1, EmptyList DEF InHandler
    <2>4. ASSUME rmmod = "gone", variant = "wa7", late = 0
          PROVE  core = {} /\ queue = <<>> /\ ~InHandler
      <3>1. core = {} /\ Len(queue) = 0
        BY <2>1, <2>4 DEF LateInv, PastWait
      <3>. QED  BY <2>1, <3>1, EmptyList DEF HandlerInv
    <2>. QED  BY <2>2, <2>3, <2>4 DEF CleanUnload
  <1>. QED  BY <1>1, PongInvariant, PTL

\* The two handlers fire on alternate calls until a registration fails or the
\* module goes; without UPROBES_REG_CALLBACK the entry handler fires on each.
THEOREM HandlersAlternate == Spec => []Alternate
  <1>1. PongInv => Alternate
    <2>. SUFFICES ASSUME PongInv, pc.at = "call", ~failed, rmmod = "loaded"
                  PROVE  IF Callback
                         THEN /\ counts["entry"]  = (calls + 1) \div 2
                              /\ counts["return"] = calls \div 2
                         ELSE counts["entry"] = calls /\ counts["return"] = 0
      BY DEF Alternate, Outside, At
    <2>1. TypeOK /\ PlainInv /\ CallsInv /\ RoundInv
      BY DEF PongInv
    <2>2. counts["entry"] \in Nat /\ counts["return"] \in Nat /\ calls \in Nat
      BY <2>1 DEF TypeOK, Handlers
    <2>3. ASSUME Callback
          PROVE  /\ counts["entry"]  = (calls + 1) \div 2
                 /\ counts["return"] = calls \div 2
      <3>1. Undisturbed
        BY <2>3 DEF Undisturbed
      <3>2. calls = counts["entry"] + counts["return"]
        BY <2>1, <2>2, <3>1 DEF CallsInv
      <3>3. \/ counts["entry"] = counts["return"] + 1
            \/ counts["entry"] = counts["return"]
        BY <2>1, <2>2, <3>1 DEF RoundInv, Settled, HitOf
      <3>. QED  BY <2>2, <3>2, <3>3
    <2>4. ASSUME ~Callback
          PROVE  counts["entry"] = calls /\ counts["return"] = 0
      BY <2>1, <2>2, <2>4 DEF PlainInv
    <2>. QED  BY <2>3, <2>4
  <1>. QED  BY <1>1, PongInvariant, PTL
=============================================================================
