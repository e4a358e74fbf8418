----------------------------- MODULE BlinkProofs -----------------------------
(***************************************************************************)
(* Theorems about Blink, for every set of builds, every limit and every    *)
(* number of calls, and the invariant that they rest on.                   *)
(*                                                                         *)
(* HitInv, SiteInv and ProbeInv say what a hit has before it, ListInv what *)
(* it has put on the deferred list.  SteadyFlagInv and LimitFlagInv relate *)
(* the flag that cleanup_module() goes by to what the list will leave      *)
(* registered, CleanInv follows cleanup_module(), and PhaseInv blink()     *)
(* through its pattern of multiples of 3 and 5.                            *)
(***************************************************************************)
EXTENDS Blink, SequenceTheorems, TLAPS

\* What is left to run of this hit.
MainLeft  == todo \in {<<Main>>, <<Main, "blink">>, <<"blink", Main>>}
BlinkLeft == todo \in {<<"blink">>, <<Main, "blink">>, <<"blink", Main>>}

\* blink() runs before steady().
BlinkFirst == build.module = "blink" /\ build.blinkFirst

\* A handler runs for a probe that is registered; the bound on the calls leaves
\* room for the main handler to count; both probes are hit at once in blink only.
HitInv ==
  /\ MainLeft /\ (at = "begin" \/ Head(todo) = "blink") => ncalls < MaxCalls
  /\ MainLeft => Main \in core
  /\ BlinkLeft => "blink" \in core
  /\ MainLeft /\ BlinkLeft => build.module = "blink"
  /\ at = "begin" /\ Head(todo) = "steady" /\ build.module = "blink"
       /\ ~build.blinkFirst => ("blink" \in core => BlinkLeft)
  /\ BlinkFirst /\ module \in {"registered", "loaded"} => (BlinkLeft => MainLeft)

\* Only in blink2 the two probes are on two functions.
SiteInv ==
  /\ build.module # "blink2" => site = "add"
  /\ todo # <<>> /\ build.module = "blink2" =>
       site = (IF Head(todo) = "steady" THEN "subtract" ELSE "add")

\* Which probes there can be.
ProbeInv ==
  /\ HasLimit => "blink" \notin core
  /\ ~build.callback => "blink" \notin core
  /\ ~HasLimit /\ module \in {"registered", "loaded"} /\ at # "exited" => Main \in core

\* The list at each point of a hit, where steady() registers blink() and blink()
\* unregisters itself, or add_inst() does.
ListInv ==
  /\ at \in {"out", "exited"} => Len(queue) = 0
  /\ at \in {"begin", "ask"} => Len(queue) + Len(todo) <= 2
  /\ at \in {"begin", "ask"} /\ (~BlinkFirst \/ Head(todo) = "blink") => Len(queue) = 0
  /\ at = "set" => Len(queue) + Len(todo) <= 3 /\ Len(queue) > 0
  /\ \A i \in 1 .. Len(queue) :
       queue[i].probe = (IF HasLimit THEN Main ELSE "blink")
  /\ HasLimit => Len(queue) <= 1 /\ \A i \in 1 .. Len(queue) : ~queue[i].register
  /\ ~HasLimit /\ ~build.callback => Len(queue) = 0 /\ at \notin {"ask", "set"}

\* Whether blink() is registered once the list is worked off.
WillBlink == IF Len(queue) = 0 THEN "blink" \in core ELSE queue[Len(queue)].register

\* With steady(): the flag is set where blink() is or may become registered, but
\* for the moment between a request and the store of the flag, and it is set
\* nowhere else unless a registration has been refused when it was carried out.
SteadyFlagInv ==
  ~HasLimit =>
    /\ Len(queue) = 1 /\ queue[1].register => "blink" \notin core
    /\ Len(queue) = 2 => ~queue[1].register /\ queue[2].register
    /\ at # "set" => (WillBlink => flag)
    /\ at = "set" => (WillBlink <=> Head(todo) = "steady")
    /\ at = "ask" /\ Head(todo) = "steady" => ~flag
    /\ at \in {"ask", "set"} /\ Head(todo) = "steady" => ~BlinkLeft
    /\ at \notin {"set", "exited"} /\ "deferred" \notin failed
         /\ module \in {"registered", "loaded"} => (flag => WillBlink)
    /\ ~build.callback => ~flag

\* probe5lim: its probe is registered without its flag only before the end of
\* init_module(), or while the unregistration is on the list.
LimitFlagInv ==
  HasLimit =>
    /\ module = "registered" => ~flag /\ Len(queue) = 0 /\ at # "ask"
    /\ module # "registered" /\ Main \in core => flag \/ Len(queue) > 0
    /\ at = "ask" => flag

\* What cleanup_module() has behind it, if it has met nothing under way.
CleanInv ==
  /\ HasLimit => module \notin {"test", "blink"}
  /\ (module \in {"test", "blink"} /\ ~raced) =>
       Main \notin core /\ \A i \in 1 .. Len(queue) : ~queue[i].register
  /\ (module = "gone" /\ ~raced) => core = {} /\ Len(queue) = 0 /\ todo = <<>>

\* probe5lim counts on below its limit, or once after the end of init_module().
LimitInv ==
  (HasLimit /\ module # "registered") =>
    /\ ncalls <= Limit \/ ncalls <= early + 1
    /\ (at \notin {"ask", "set"} /\ Len(queue) = 0 /\ Main \in core) =>
         ncalls < Limit \/ ncalls = early

\* Whether blink() is registered after n rounds: where steady() runs first in a
\* round, between its steady() and its blink(), and where blink() runs first.
Phase(n)           == LastMultiple(3, n) > LastMultiple(5, n)
MidPhase(n)        == n > 0 /\ (Phase(n - 1) \/ n % 3 = 0)
BlinkFirstPhase(n) == n > 0 /\ LastMultiple(3, n) > LastMultiple(5, n - 1)

RoundPhase == IF BlinkFirst THEN BlinkFirstPhase(ncalls) ELSE Phase(ncalls)

Undisturbed == ~HasLimit /\ module \in {"registered", "loaded"}

PhaseInv ==
  (Undisturbed /\ build.callback /\ failed = {}) =>
    /\ at \in {"out", "defer"} =>
         (WillBlink <=> IF site = "add" THEN RoundPhase ELSE MidPhase(ncalls))
    /\ at = "begin" /\ Head(todo) = "steady" =>
         (WillBlink <=> RoundPhase /\ (BlinkFirst => ncalls % 5 # 0))
    /\ at \in {"ask", "set"} /\ Head(todo) = "steady" =>
         ncalls > 0 /\ ncalls % 3 = 0 /\ (BlinkFirst \/ ~Phase(ncalls - 1))
    /\ at \in {"begin", "ask", "set"} /\ Head(todo) = "blink" =>
         IF BlinkFirst THEN BlinkFirstPhase(ncalls) ELSE MidPhase(ncalls)
    /\ at \in {"ask", "set"} /\ Head(todo) = "blink" => ncalls % 5 = 0

\* Without the callback the calls that announce a registration are counted.
PlainInv ==
  (Undisturbed /\ ~build.callback) => announced = ncalls \div 3

BlinkInv ==
  /\ TypeOK
  /\ HitInv
  /\ SiteInv
  /\ ProbeInv
  /\ ListInv
  /\ SteadyFlagInv
  /\ LimitFlagInv
  /\ CleanInv
  /\ LimitInv
  /\ PhaseInv
  /\ PlainInv

-----------------------------------------------------------------------------
(* The constants, the build and the arithmetic of the pattern. *)

LEMMA ConstantTypes == MaxCalls \in Nat /\ Limit \in Nat /\ Limit > 0
  BY BuildAssumption

LEMMA BuildFacts ==
  ASSUME build \in Builds
  PROVE  /\ build.module \in {"blink", "blink2", "probe5lim"}
         /\ build.callback \in BOOLEAN /\ build.blinkFirst \in BOOLEAN
  BY BuildAssumption

LEMMA MainFacts ==
  /\ Main = (IF HasLimit THEN "add_inst" ELSE "steady")
  /\ HasLimit => ~BlinkFirst
  BY DEF Main, HasLimit, BlinkFirst

\* steady() comes first: a round begins with its count.
LEMMA PhaseOfSteadyFirst ==
  ASSUME NEW n \in Nat
  PROVE  /\ Phase(n) <=> MidPhase(n) /\ n % 5 # 0
         /\ n > 0 /\ n % 3 = 0 /\ n % 5 = 0 => Phase(n - 1)
         /\ MidPhase(n + 1) <=> Phase(n) \/ (n + 1) % 3 = 0
  BY DEF Phase, MidPhase, LastMultiple

\* blink() comes first: it sees the count of the round before.
LEMMA PhaseOfBlinkFirst ==
  ASSUME NEW n \in Nat
  PROVE  BlinkFirstPhase(n + 1) <=>
           (BlinkFirstPhase(n) /\ n % 5 # 0) \/ (n + 1) % 3 = 0
  BY DEF BlinkFirstPhase, LastMultiple

\* A registration made in a round is worth more than the round before.
LEMMA PhaseOfThird ==
  ASSUME NEW n \in Nat, n > 0, n % 3 = 0
  PROVE  MidPhase(n) /\ BlinkFirstPhase(n)
  BY DEF BlinkFirstPhase, MidPhase, LastMultiple

LEMMA PhaseOfNone == ~Phase(0) /\ ~BlinkFirstPhase(0) /\ ~MidPhase(0)
  BY DEF Phase, BlinkFirstPhase, MidPhase, LastMultiple

LEMMA ThirdCalls ==
  ASSUME NEW n \in Nat
  PROVE  (n + 1) \div 3 = IF (n + 1) % 3 = 0 THEN n \div 3 + 1 ELSE n \div 3
  OBVIOUS

-----------------------------------------------------------------------------
(* The handlers of a hit. *)

LEMMA TodoFacts ==
  ASSUME todo \in {<<>>, <<Main>>, <<"blink">>, Order}
  PROVE  /\ todo = <<>> <=> ~MainLeft /\ ~BlinkLeft
         /\ Len(todo) = (IF MainLeft THEN 1 ELSE 0) + (IF BlinkLeft THEN 1 ELSE 0)
         /\ MainLeft /\ ~BlinkLeft => Head(todo) = Main
         /\ BlinkLeft /\ ~MainLeft => Head(todo) = "blink"
         /\ MainLeft /\ BlinkLeft =>
              Head(todo) = IF build.blinkFirst THEN "blink" ELSE Main
  <1>1. Main # "blink"
    BY MainFacts
  <1>2. CASE todo = <<>>
    BY <1>2 DEF MainLeft, BlinkLeft
  <1>3. CASE todo = <<Main>>
    BY <1>1, <1>3 DEF MainLeft, BlinkLeft
  <1>4. CASE todo = <<"blink">>
    BY <1>1, <1>4 DEF MainLeft, BlinkLeft
  <1>5. CASE todo = <<Main, "blink">> /\ ~build.blinkFirst
    BY <1>1, <1>5 DEF MainLeft, BlinkLeft
  <1>6. CASE todo = <<"blink", Main>> /\ build.blinkFirst
    BY <1>1, <1>6 DEF MainLeft, BlinkLeft
  <1>. QED  BY <1>2, <1>3, <1>4, <1>5, <1>6 DEF Order

\* The handler that has returned is not left to run, the others are.
LEMMA TailFacts ==
  ASSUME todo \in {<<Main>>, <<"blink">>, Order},
         todo' = Tail(todo), build' = build
  PROVE  /\ todo' \in {<<>>, <<Main>>, <<"blink">>, Order}'
         /\ MainLeft' <=> MainLeft /\ Head(todo) # Main
         /\ BlinkLeft' <=> BlinkLeft /\ Head(todo) # "blink"
         /\ ~(MainLeft' /\ BlinkLeft')
         /\ MainLeft' => Head(todo') = Main
         /\ BlinkLeft' => Head(todo') = "blink"
         /\ todo' = <<>> <=> ~MainLeft' /\ ~BlinkLeft'
         /\ Len(todo') = Len(todo) - 1
  <1>1. Main # "blink" /\ Main' = Main /\ Order' = Order
    BY MainFacts DEF Main, HasLimit, Order
  <1>3. CASE todo = <<Main>>
    BY <1>1, <1>3 DEF MainLeft, BlinkLeft
  <1>4. CASE todo = <<"blink">>
    BY <1>1, <1>4 DEF MainLeft, BlinkLeft
  <1>5. CASE todo = <<Main, "blink">>
    BY <1>1, <1>5 DEF MainLeft, BlinkLeft
  <1>6. CASE todo = <<"blink", Main>>
    BY <1>1, <1>6 DEF MainLeft, BlinkLeft
  <1>. QED  BY <1>3, <1>4, <1>5, <1>6 DEF Order

\* A call runs the handlers of the probes that are on the function.
LEMMA CallFacts ==
  ASSUME todo' = HandlersOf(site), build' = build
  PROVE  /\ todo' \in {<<>>, <<Main>>, <<"blink">>, Order}'
         /\ MainLeft' <=> Hits(site, Main)
         /\ BlinkLeft' <=> Hits(site, "blink")
         /\ todo' = <<>> <=> ~MainLeft' /\ ~BlinkLeft'
         /\ Len(todo') <= 2
         /\ MainLeft' /\ ~BlinkLeft' => Head(todo') = Main
         /\ BlinkLeft' /\ ~MainLeft' => Head(todo') = "blink"
         /\ MainLeft' /\ BlinkLeft' =>
              Head(todo') = IF build.blinkFirst THEN "blink" ELSE Main
  <1>1. Main # "blink" /\ Main' = Main /\ Order' = Order
    BY MainFacts DEF Main, HasLimit, Order
  <1>2. CASE Hits(site, Main) /\ Hits(site, "blink")
    BY <1>1, <1>2 DEF HandlersOf, Order, MainLeft, BlinkLeft
  <1>3. CASE Hits(site, Main) /\ ~Hits(site, "blink")
    BY <1>1, <1>3 DEF HandlersOf, MainLeft, BlinkLeft
  <1>4. CASE ~Hits(site, Main) /\ Hits(site, "blink")
    BY <1>1, <1>4 DEF HandlersOf, MainLeft, BlinkLeft
  <1>5. CASE ~Hits(site, Main) /\ ~Hits(site, "blink")
    BY <1>1, <1>5 DEF HandlersOf, MainLeft, BlinkLeft
  <1>. QED  BY <1>2, <1>3, <1>4, <1>5

\* What is left of the hit after the return of its handler.
Returned ==
  /\ at' = IF MainLeft' \/ BlinkLeft' THEN "begin" ELSE "defer"
  /\ MainLeft' <=> MainLeft /\ Head(todo) # Main
  /\ BlinkLeft' <=> BlinkLeft /\ Head(todo) # "blink"
  /\ MainLeft' => Head(todo') = Main
  /\ BlinkLeft' => Head(todo') = "blink"
  /\ ~(MainLeft' /\ BlinkLeft')
  /\ todo' = <<>> <=> ~MainLeft' /\ ~BlinkLeft'
  /\ Len(todo') = Len(todo) - 1

LEMMA ReturnFacts ==
  ASSUME TypeOK, todo # <<>>, HandlerReturns, build' = build
  PROVE  Returned /\ todo' \in {<<>>, <<Main>>, <<"blink">>, Order}'
  <1>1. todo \in {<<Main>>, <<"blink">>, Order}
    BY DEF TypeOK
  <1>. QED  BY <1>1, TailFacts DEF HandlerReturns, Returned

-----------------------------------------------------------------------------
(* The deferred list. *)

LEMMA EmptyList ==
  ASSUME TypeOK
  PROVE  /\ Len(queue) \in Nat
         /\ queue = <<>> <=> Len(queue) = 0
         /\ \A i \in 1 .. Len(queue) :
              queue[i].register \in BOOLEAN /\ queue[i].probe \in {Main, "blink"}
  <1>1. queue \in Seq(Requests({Main, "blink"}))
    BY DEF TypeOK
  <1>2. ASSUME NEW i \in 1 .. Len(queue)
        PROVE  queue[i].register \in BOOLEAN /\ queue[i].probe \in {Main, "blink"}
    <2>1. queue[i] \in Requests({Main, "blink"})
      BY <1>1, ElementOfSeq
    <2>. QED  BY <2>1 DEF Requests
  <1>. QED  BY <1>1, <1>2, EmptySeq, LenProperties

\* A request that is deferred is the last one on the list.
LEMMA DeferFacts ==
  ASSUME TypeOK, NEW r \in Requests({Main, "blink"}), queue' = Append(queue, r)
  PROVE  /\ queue' \in Seq(Requests({Main, "blink"}))
         /\ Len(queue') = Len(queue) + 1
         /\ \A i \in 1 .. Len(queue) : queue'[i] = queue[i]
         /\ queue'[Len(queue')] = r
  <1>1. queue \in Seq(Requests({Main, "blink"}))
    BY DEF TypeOK
  <1>. QED  BY <1>1, AppendProperties

\* The oldest request leaves the list, carried out or not, and the others move
\* up.
LEMMA CarryOutFacts ==
  ASSUME TypeOK, CarryOut \/ CarryOutFails
  PROVE  /\ Len(queue) > 0
         /\ queue' \in Seq(Requests({Main, "blink"}))
         /\ Len(queue') = Len(queue) - 1
         /\ \A i \in 1 .. Len(queue') : queue'[i] = queue[i + 1]
         /\ CarryOut =>
              core' = IF queue[1].register THEN core \cup {queue[1].probe}
                                           ELSE core \ {queue[1].probe}
         /\ CarryOutFails => core' = core /\ queue[1].register
  <1>1. queue \in Seq(Requests({Main, "blink"})) /\ queue # <<>>
    BY DEF TypeOK, CarryOut, CarryOutFails
  <1>2. queue' = Tail(queue)
    BY DEF CarryOut, CarryOutFails
  <1>3. Head(queue) = queue[1]
    BY <1>1
  <1>4. Len(queue) > 0
    BY <1>1, EmptySeq
  <1>. QED
    BY <1>1, <1>2, <1>3, <1>4, HeadTailProperties DEF CarryOut, CarryOutFails

-----------------------------------------------------------------------------
(* BlinkInv is inductive. *)

\* What TypeOK says of the state, without sets of sequences and records.
BuildTypes ==
  /\ MaxCalls \in Nat /\ Limit \in Nat /\ Limit > 0
  /\ build.module \in {"blink", "blink2", "probe5lim"}
  /\ build.callback \in BOOLEAN /\ build.blinkFirst \in BOOLEAN
  /\ HasLimit <=> build.module = "probe5lim"
  /\ BlinkFirst <=> build.module = "blink" /\ build.blinkFirst
  /\ Main = IF HasLimit THEN "add_inst" ELSE "steady"

ScalarTypes ==
  /\ site \in {"add", "subtract"}
  /\ at \in {"out", "begin", "ask", "set", "defer", "exited"}
  /\ module \in {"registered", "loaded", "main", "test", "blink", "gone"}
  /\ core \subseteq {Main, "blink"}
  /\ Len(queue) \in Nat /\ Len(queue) <= 2
  /\ ncalls \in Nat /\ ncalls <= MaxCalls
  /\ announced \in Nat /\ announced <= ncalls
  /\ early \in Nat /\ early <= ncalls
  /\ flag \in BOOLEAN /\ raced \in BOOLEAN
  /\ failed \subseteq {"atOnce", "deferred"}
  /\ todo = <<>> <=> at \in {"out", "defer", "exited"}

HandlerTypes ==
  /\ todo = <<>> <=> ~MainLeft /\ ~BlinkLeft
  /\ Len(todo) = (IF MainLeft THEN 1 ELSE 0) + (IF BlinkLeft THEN 1 ELSE 0)
  /\ MainLeft /\ ~BlinkLeft => Head(todo) = Main
  /\ BlinkLeft /\ ~MainLeft => Head(todo) = "blink"
  /\ MainLeft /\ BlinkLeft =>
       Head(todo) = IF build.blinkFirst THEN "blink" ELSE Main

LEMMA TypeFacts == TypeOK => BuildTypes /\ ScalarTypes /\ HandlerTypes
  <1>. SUFFICES ASSUME TypeOK PROVE BuildTypes /\ ScalarTypes /\ HandlerTypes
    OBVIOUS
  <1>1. BuildTypes
    <2>1. build \in Builds
      BY DEF TypeOK
    <2>. QED
      BY <2>1, BuildFacts, ConstantTypes DEF BuildTypes, HasLimit, BlinkFirst, Main
  <1>2. ScalarTypes
    <2>1. /\ Len(queue) <= 2
          /\ ncalls \in 0 .. MaxCalls /\ announced \in 0 .. ncalls
          /\ early \in 0 .. ncalls
          /\ (todo = <<>>) = (at \in {"out", "defer", "exited"})
          /\ core \subseteq {Main, "blink"} /\ flag \in BOOLEAN /\ raced \in BOOLEAN
          /\ failed \subseteq {"atOnce", "deferred"}
      BY DEF TypeOK
    <2>2. /\ site \in {"add", "subtract"}
          /\ at \in {"out", "begin", "ask", "set", "defer", "exited"}
          /\ module \in {"registered", "loaded", "main", "test", "blink", "gone"}
      BY DEF TypeOK
    <2>3. /\ ncalls \in Nat /\ ncalls <= MaxCalls
          /\ announced \in Nat /\ announced <= ncalls
          /\ early \in Nat /\ early <= ncalls
      BY <2>1, ConstantTypes
    <2>. QED  BY <2>1, <2>2, <2>3, EmptyList DEF ScalarTypes
  <1>3. HandlerTypes
    BY TodoFacts DEF TypeOK, HandlerTypes
  <1>. QED  BY <1>1, <1>2, <1>3

\* What a step leaves alone.
SameBuild ==
  /\ build' = build /\ Main' = Main
  /\ HasLimit' <=> HasLimit
  /\ BlinkFirst' <=> BlinkFirst

SameTodo ==
  /\ todo' = todo
  /\ MainLeft' <=> MainLeft
  /\ BlinkLeft' <=> BlinkLeft

LEMMA SameFacts ==
  build' = build => SameBuild /\ (todo' = todo => SameTodo)
  BY DEF SameBuild, SameTodo, HasLimit, BlinkFirst, Main, MainLeft, BlinkLeft

LEMMA TypeAgain ==
  ASSUME TypeOK, build' = build, ScalarTypes',
         todo' \in {<<>>, <<Main>>, <<"blink">>, Order}' \/ todo' = todo,
         queue' \in Seq(Requests({Main, "blink"})) \/ queue' = queue
  PROVE  TypeOK'
  <1>1. Main' = Main /\ Order' = Order
    BY DEF Main, HasLimit, Order
  <1>2. todo' \in {<<>>, <<Main>>, <<"blink">>, Order}'
    BY <1>1 DEF TypeOK
  <1>3. queue' \in Seq(Requests({Main', "blink"})) /\ build' \in Builds
    BY <1>1 DEF TypeOK
  <1>4. /\ ncalls' \in 0 .. MaxCalls /\ announced' \in 0 .. ncalls'
        /\ early' \in 0 .. ncalls' /\ Len(queue') <= 2
        /\ (todo' = <<>>) = (at' \in {"out", "defer", "exited"})
    BY ConstantTypes DEF ScalarTypes
  <1>5. /\ site' \in {"add", "subtract"}
        /\ at' \in {"out", "begin", "ask", "set", "defer", "exited"}
        /\ module' \in {"registered", "loaded", "main", "test", "blink", "gone"}
        /\ core' \subseteq {Main', "blink"}
        /\ flag' \in BOOLEAN /\ raced' \in BOOLEAN
        /\ failed' \subseteq {"atOnce", "deferred"}
    BY DEF ScalarTypes
  <1>. QED  BY <1>2, <1>3, <1>4, <1>5 DEF TypeOK

\* A module whose init_module() has registered its main probe satisfies the
\* invariant.
THEOREM BlinkInit == Init => BlinkInv
  <1>. SUFFICES ASSUME Init PROVE BlinkInv
    OBVIOUS
  <1>1. queue = <<>> /\ Len(queue) = 0 /\ todo = <<>> /\ ~MainLeft /\ ~BlinkLeft
    BY DEF Init, MainLeft, BlinkLeft
  <1>2. TypeOK
    <2>1. queue \in Seq(Requests({Main, "blink"}))
      BY <1>1
    <2>2. ncalls = 0 /\ announced = 0 /\ early = 0
      BY DEF Init
    <2>3. /\ announced \in 0 .. ncalls /\ ncalls \in 0 .. MaxCalls
          /\ early \in 0 .. ncalls
      BY <2>2, ConstantTypes
    <2>4. module \in {"registered", "loaded"}
      BY DEF Init
    <2>5. /\ build \in Builds /\ site = "add" /\ at = "out" /\ todo = <<>>
          /\ core = {Main} /\ flag = FALSE /\ raced = FALSE /\ failed = {}
      BY DEF Init
    <2>6. (todo = <<>>) = (at \in {"out", "defer", "exited"})
      BY <2>5
    <2>7. /\ todo \in {<<>>, <<Main>>, <<"blink">>, Order}
          /\ core \subseteq {Main, "blink"}
          /\ failed \subseteq {"atOnce", "deferred"}
          /\ Len(queue) <= 2
      BY <1>1, <2>5
    <2>. QED  BY <2>1, <2>3, <2>4, <2>5, <2>6, <2>7 DEF TypeOK
  <1>3. BuildTypes /\ ScalarTypes /\ HandlerTypes
    BY <1>2, TypeFacts
  <1>4. HitInv /\ SiteInv /\ ProbeInv
    BY <1>1, <1>3 DEF Init, HitInv, SiteInv, ProbeInv, BuildTypes, ScalarTypes,
       HandlerTypes
  <1>5. ListInv /\ SteadyFlagInv
    BY <1>1, <1>3 DEF Init, ListInv, SteadyFlagInv, WillBlink, BuildTypes, ScalarTypes,
       HandlerTypes
  <1>6. LimitFlagInv /\ CleanInv /\ LimitInv
    BY <1>1, <1>3 DEF Init, LimitFlagInv, CleanInv, LimitInv, BuildTypes, ScalarTypes,
       HandlerTypes
  <1>7. PhaseInv /\ PlainInv
    BY <1>1, <1>3, PhaseOfNone
    DEF Init, PhaseInv, RoundPhase, PlainInv, WillBlink, BuildTypes, ScalarTypes,
       HandlerTypes
  <1>. QED  BY <1>2, <1>4, <1>5, <1>6, <1>7 DEF BlinkInv

LEMMA BlinkStep == BlinkInv /\ [Next]_vars => BlinkInv'
  <1>. SUFFICES ASSUME BlinkInv, [Next]_vars PROVE BlinkInv'
    OBVIOUS
  <1>a. /\ TypeOK /\ HitInv /\ SiteInv /\ ProbeInv /\ ListInv
        /\ SteadyFlagInv /\ LimitFlagInv /\ CleanInv /\ LimitInv
        /\ PhaseInv /\ PlainInv
    BY DEF BlinkInv
  <1>b. BuildTypes /\ ScalarTypes /\ HandlerTypes
    BY <1>a, TypeFacts
  <1>. USE DEF BuildTypes, ScalarTypes, HandlerTypes, SameBuild, SameTodo, Returned
  <1>1. ASSUME FinishInit PROVE BlinkInv'
    <2>a. /\ module = "registered" /\ module' = "loaded"
          /\ flag' = (flag \/ HasLimit)
          /\ early' = ncalls
          /\ SameBuild /\ SameTodo
          /\ UNCHANGED <<core, queue, site, at, ncalls, announced, failed,
                        raced>>
      <3>1. SameBuild /\ SameTodo
        BY <1>1, SameFacts DEF FinishInit, taskVars, moduleVars
      <3>. QED
        BY <1>1, <1>a, <1>b, <3>1, EmptyList DEF FinishInit, taskVars,
           moduleVars
    <2>1. TypeOK'
      <3>1. ScalarTypes'
        BY <1>a, <1>b, <2>a
      <3>. QED  BY <1>a, <2>a, <3>1, TypeAgain
    <2>2. HitInv'
      BY <1>a, <1>b, <2>a DEF HitInv
    <2>3. SiteInv'
      BY <1>a, <1>b, <2>a DEF SiteInv
    <2>4. ProbeInv'
      BY <1>a, <1>b, <2>a DEF ProbeInv
    <2>5. ListInv' /\ SteadyFlagInv'
      BY <1>a, <1>b, <2>a DEF ListInv, SteadyFlagInv, WillBlink
    <2>6. LimitFlagInv'
      BY <1>a, <1>b, <2>a DEF LimitFlagInv
    <2>7. CleanInv'
      BY <1>a, <1>b, <2>a DEF CleanInv
    <2>8. LimitInv'
      BY <1>a, <1>b, <2>a DEF LimitInv
    <2>9. PhaseInv' /\ PlainInv'
      BY <1>a, <1>b, <2>a DEF PhaseInv, RoundPhase, WillBlink, Undisturbed,
         PlainInv
    <2>. QED
      BY <2>1, <2>2, <2>3, <2>4, <2>5, <2>6, <2>7, <2>8, <2>9 DEF BlinkInv
  <1>2. ASSUME CallFunction, module # "gone" PROVE BlinkInv'
    <2>a. /\ at = "out"
          /\ site = "add" => ncalls < MaxCalls
          /\ site' = IF site = "add" /\ build.module = "blink2" THEN "subtract" ELSE "add"
          /\ MainLeft' <=> Main \in core /\ site = "add"
          /\ BlinkLeft' <=> "blink" \in core /\ site = IF build.module = "blink2"
                                               THEN "subtract" ELSE "add"
          /\ Len(todo') <= 2
          /\ todo' = <<>> <=> ~MainLeft' /\ ~BlinkLeft'
          /\ MainLeft' /\ ~BlinkLeft' => Head(todo') = Main
          /\ BlinkLeft' /\ ~MainLeft' => Head(todo') = "blink"
          /\ MainLeft' /\ BlinkLeft' =>
               Head(todo') = IF build.blinkFirst THEN "blink" ELSE Main
          /\ at' = IF MainLeft' \/ BlinkLeft' THEN "begin" ELSE "out"
          /\ todo' \in {<<>>, <<Main>>, <<"blink">>, Order}'
          /\ SameBuild
          /\ UNCHANGED <<core, queue, ncalls, announced, flag, module, early,
                        failed, raced>>
      <3>1. SameBuild
        BY <1>2, SameFacts DEF CallFunction, NextSite, Hits, Site, taskVars,
           moduleVars
      <3>. QED
        BY <1>2, <1>a, <1>b, <3>1, CallFacts, MainFacts, EmptyList DEF
           CallFunction, NextSite, Hits, Site, taskVars, moduleVars
    <2>1. TypeOK'
      <3>1. ScalarTypes'
        BY <1>a, <1>b, <2>a, <1>2
      <3>. QED  BY <1>a, <2>a, <3>1, TypeAgain
    <2>2. HitInv'
      BY <1>a, <1>b, <2>a, <1>2 DEF HitInv, ProbeInv, SiteInv
    <2>3. SiteInv' /\ ProbeInv' /\ LimitFlagInv' /\ CleanInv' /\ LimitInv'
      BY <1>a, <1>b, <2>a, <1>2 DEF SiteInv, ProbeInv, LimitFlagInv, CleanInv,
         LimitInv
    <2>4. ListInv' /\ SteadyFlagInv'
      BY <1>a, <1>b, <2>a, <1>2 DEF ListInv, SteadyFlagInv, WillBlink
    <2>5. PhaseInv'
      BY <1>a, <1>b, <2>a, <1>2, PhaseOfSteadyFirst DEF PhaseInv, RoundPhase,
         WillBlink, Undisturbed, ProbeInv, SiteInv, ListInv
    <2>6. PlainInv'
      BY <1>a, <1>b, <2>a, <1>2 DEF PlainInv, Undisturbed
    <2>. QED
      BY <2>1, <2>2, <2>3, <2>4, <2>5, <2>6 DEF BlinkInv
  <1>3. ASSUME ExitProcess, module # "gone" PROVE BlinkInv'
    <2>a. /\ at = "out" /\ at' = "exited"
          /\ core' = {}
          /\ SameBuild /\ SameTodo
          /\ UNCHANGED <<queue, site, ncalls, announced, flag, module, early,
                        failed, raced>>
      <3>1. SameBuild /\ SameTodo
        BY <1>3, SameFacts DEF ExitProcess, ProcessEnds, taskVars, moduleVars
      <3>. QED
        BY <1>3, <1>a, <1>b, <3>1, EmptyList DEF ExitProcess, ProcessEnds,
           taskVars, moduleVars
    <2>1. TypeOK'
      <3>1. ScalarTypes'
        BY <1>a, <1>b, <2>a, <1>3
      <3>. QED  BY <1>a, <2>a, <3>1, TypeAgain
    <2>2. HitInv' /\ SiteInv' /\ ProbeInv' /\ LimitFlagInv' /\ CleanInv' /\ LimitInv'
      BY <1>a, <1>b, <2>a, <1>3 DEF HitInv, SiteInv, ProbeInv, LimitFlagInv,
         CleanInv, LimitInv
    <2>3. ListInv' /\ SteadyFlagInv'
      BY <1>a, <1>b, <2>a, <1>3 DEF ListInv, SteadyFlagInv, WillBlink
    <2>4. PhaseInv' /\ PlainInv'
      BY <1>a, <1>b, <2>a, <1>3 DEF PhaseInv, RoundPhase, WillBlink,
         Undisturbed, PlainInv
    <2>. QED
      BY <2>1, <2>2, <2>3, <2>4 DEF BlinkInv
  <1>4. ASSUME Steady, module # "gone" PROVE BlinkInv'
    <2>a. /\ at = "begin" /\ Head(todo) = "steady" /\ ~HasLimit /\ MainLeft
          /\ ncalls' = ncalls + 1
          /\ announced' = IF ~flag /\ (ncalls + 1) % 3 = 0 THEN announced + 1
                                                       ELSE announced
          /\ IF ~flag /\ (ncalls + 1) % 3 = 0 /\ build.callback
             THEN at' = "ask" /\ SameTodo ELSE Returned
          /\ todo' \in {<<>>, <<Main>>, <<"blink">>, Order}' \/ todo' = todo
          /\ SameBuild
          /\ UNCHANGED <<core, queue, site, flag, module, early, failed,
                        raced>>
      <3>1. SameBuild
        BY <1>4, SameFacts DEF Steady, taskVars, moduleVars
      <3>2. IF ~flag /\ (ncalls + 1) % 3 = 0 /\ build.callback
            THEN at' = "ask" /\ todo' = todo ELSE HandlerReturns
        BY <1>4 DEF Steady, Asks
      <3>3. todo # <<>> /\ at = "begin" /\ Head(todo) = "steady"
        BY <1>4, <1>b DEF Steady
      <3>4. CASE ~flag /\ (ncalls + 1) % 3 = 0 /\ build.callback
        BY <1>4, <1>b, <3>1, <3>2, <3>3, <3>4, SameFacts
        DEF Steady
      <3>5. CASE ~(~flag /\ (ncalls + 1) % 3 = 0 /\ build.callback)
        <4>1. Returned /\ todo' \in {<<>>, <<Main>>, <<"blink">>, Order}'
          BY <1>a, <3>1, <3>2, <3>3, <3>5, ReturnFacts
        <4>. QED
          BY <1>4, <1>b, <3>1, <3>3, <3>5, <4>1
          DEF Steady
      <3>. QED  BY <3>4, <3>5
    <2>1. TypeOK'
      <3>1. ScalarTypes'
        BY <1>a, <1>b, <2>a, <1>4 DEF HitInv
      <3>. QED  BY <1>a, <2>a, <3>1, TypeAgain
    <2>2. HitInv' /\ ProbeInv' /\ CleanInv'
      BY <1>a, <1>b, <2>a, <1>4 DEF HitInv, ProbeInv, CleanInv
    <2>3. SiteInv'
      BY <1>a, <1>b, <2>a, <1>4 DEF SiteInv, HitInv
    <2>4. ListInv'
      <3>1. CASE at' = "ask"
        BY <1>a, <1>b, <2>a, <1>4, <3>1 DEF ListInv
      <3>2. CASE at' # "ask"
        BY <1>a, <1>b, <2>a, <1>4, <3>2 DEF ListInv
      <3>. QED  BY <1>b, <2>a, <3>1, <3>2
    <2>5. SteadyFlagInv'
      <3>1. CASE at' = "ask"
        BY <1>a, <1>b, <2>a, <1>4, <3>1 DEF SteadyFlagInv, WillBlink, HitInv,
           ListInv
      <3>2. CASE at' # "ask"
        BY <1>a, <1>b, <2>a, <1>4, <3>2 DEF SteadyFlagInv, WillBlink, HitInv,
           ListInv
      <3>. QED  BY <1>b, <2>a, <3>1, <3>2
    <2>6. LimitFlagInv'
      <3>1. CASE at' = "ask"
        BY <1>a, <1>b, <2>a, <1>4, <3>1 DEF LimitFlagInv
      <3>2. CASE at' # "ask"
        BY <1>a, <1>b, <2>a, <1>4, <3>2 DEF LimitFlagInv
      <3>. QED  BY <1>b, <2>a, <3>1, <3>2
    <2>7. LimitInv'
      <3>1. CASE at' = "ask"
        BY <1>a, <1>b, <2>a, <1>4, <3>1 DEF LimitInv
      <3>2. CASE at' # "ask"
        BY <1>a, <1>b, <2>a, <1>4, <3>2 DEF LimitInv
      <3>. QED  BY <1>b, <2>a, <3>1, <3>2
    <2>8. PhaseInv'
      <3>1. ncalls' \in Nat /\ ncalls' = ncalls + 1 /\ ncalls' - 1 = ncalls
        BY <1>b, <2>a
      <3>2. /\ MidPhase(ncalls') <=> Phase(ncalls) \/ ncalls' % 3 = 0
            /\ Phase(ncalls') => MidPhase(ncalls')
            /\ BlinkFirstPhase(ncalls') <=>
                 (BlinkFirstPhase(ncalls) /\ ncalls % 5 # 0) \/ ncalls' % 3 = 0
        BY <1>b, <3>1, PhaseOfSteadyFirst, PhaseOfBlinkFirst
      <3>3. CASE at' = "ask"
        BY <1>a, <1>b, <2>a, <3>1, <3>3
        DEF PhaseInv, RoundPhase, WillBlink, Undisturbed, HitInv, ListInv, SteadyFlagInv
      <3>4. CASE at' # "ask"
        <4>. SUFFICES ASSUME Undisturbed, build.callback, failed = {}
                      PROVE  PhaseInv'
          BY <2>a DEF PhaseInv, Undisturbed
        <4>1. /\ at' = IF BlinkLeft THEN "begin" ELSE "defer"
              /\ BlinkLeft => Head(todo') = "blink"
          BY <1>b, <2>a, <3>4
        <4>2. /\ flag \/ ncalls' % 3 # 0
              /\ flag <=> WillBlink
              /\ WillBlink <=> RoundPhase /\ (BlinkFirst => ncalls % 5 # 0)
          BY <1>a, <1>b, <2>a, <3>4
          DEF SteadyFlagInv, PhaseInv, Undisturbed
        <4>3. WillBlink' <=> WillBlink
          BY <2>a DEF WillBlink
        <4>4. CASE BlinkLeft
          <5>1. ~BlinkFirst /\ WillBlink
            BY <1>a, <1>b, <2>a, <4>4
            DEF HitInv, ListInv, WillBlink
          <5>2. MidPhase(ncalls')
            BY <3>2, <4>2, <5>1 DEF RoundPhase
          <5>. QED  BY <4>1, <4>4, <5>1, <5>2, <2>a DEF PhaseInv
        <4>5. CASE ~BlinkLeft
          <5>1. /\ site = "add" <=> build.module # "blink2"
                /\ build.module = "blink" /\ ~BlinkFirst => ~WillBlink
            BY <1>a, <1>b, <2>a, <4>5
            DEF HitInv, SiteInv, ListInv, WillBlink
          <5>2. IF site = "add" THEN WillBlink <=> RoundPhase'
                                ELSE WillBlink <=> MidPhase(ncalls')
            BY <1>b, <2>a, <3>2, <4>2, <5>1
            DEF RoundPhase, Undisturbed
          <5>. QED  BY <4>1, <4>3, <4>5, <5>2, <2>a DEF PhaseInv
        <4>. QED  BY <4>4, <4>5
      <3>. QED  BY <3>3, <3>4
    <2>9. PlainInv'
      <3>1. CASE at' = "ask"
        BY <1>a, <1>b, <2>a, <1>4, <3>1, ThirdCalls DEF PlainInv, Undisturbed,
           SteadyFlagInv
      <3>2. CASE at' # "ask"
        BY <1>a, <1>b, <2>a, <1>4, <3>2, ThirdCalls DEF PlainInv, Undisturbed,
           SteadyFlagInv
      <3>. QED  BY <1>b, <2>a, <3>1, <3>2
    <2>. QED
      BY <2>1, <2>2, <2>3, <2>4, <2>5, <2>6, <2>7, <2>8, <2>9 DEF BlinkInv
  <1>5. ASSUME Blinks, module # "gone" PROVE BlinkInv'
    <2>a. /\ at = "begin" /\ Head(todo) = "blink" /\ BlinkLeft
          /\ IF ncalls % 5 = 0
             THEN at' = "ask" /\ SameTodo ELSE Returned
          /\ todo' \in {<<>>, <<Main>>, <<"blink">>, Order}' \/ todo' = todo
          /\ SameBuild
          /\ UNCHANGED <<core, queue, site, ncalls, announced, flag, module,
                        early, failed, raced>>
      <3>1. SameBuild
        BY <1>5, SameFacts DEF Blinks, taskVars, moduleVars
      <3>2. IF ncalls % 5 = 0
            THEN at' = "ask" /\ todo' = todo ELSE HandlerReturns
        BY <1>5 DEF Blinks, Asks
      <3>3. todo # <<>> /\ at = "begin" /\ Head(todo) = "blink"
        BY <1>5, <1>b DEF Blinks
      <3>4. CASE ncalls % 5 = 0
        BY <1>5, <1>b, <3>1, <3>2, <3>3, <3>4, SameFacts
        DEF Blinks
      <3>5. CASE ~(ncalls % 5 = 0)
        <4>1. Returned /\ todo' \in {<<>>, <<Main>>, <<"blink">>, Order}'
          BY <1>a, <3>1, <3>2, <3>3, <3>5, ReturnFacts
        <4>. QED
          BY <1>5, <1>b, <3>1, <3>3, <3>5, <4>1
          DEF Blinks
      <3>. QED  BY <3>4, <3>5
    <2>1. TypeOK'
      <3>1. ScalarTypes'
        BY <1>a, <1>b, <2>a, <1>5
      <3>. QED  BY <1>a, <2>a, <3>1, TypeAgain
    <2>2. HitInv' /\ ProbeInv' /\ CleanInv'
      BY <1>a, <1>b, <2>a, <1>5 DEF HitInv, ProbeInv, CleanInv
    <2>3. SiteInv'
      BY <1>a, <1>b, <2>a, <1>5 DEF SiteInv, HitInv
    <2>4. ListInv'
      <3>1. CASE at' = "ask"
        BY <1>a, <1>b, <2>a, <1>5, <3>1 DEF ListInv, HitInv, ProbeInv
      <3>2. CASE at' # "ask"
        BY <1>a, <1>b, <2>a, <1>5, <3>2 DEF ListInv, HitInv, ProbeInv
      <3>. QED  BY <1>b, <2>a, <3>1, <3>2
    <2>5. SteadyFlagInv'
      <3>1. CASE at' = "ask"
        BY <1>a, <1>b, <2>a, <1>5, <3>1 DEF SteadyFlagInv, WillBlink
      <3>2. CASE at' # "ask"
        BY <1>a, <1>b, <2>a, <1>5, <3>2 DEF SteadyFlagInv, WillBlink
      <3>. QED  BY <1>b, <2>a, <3>1, <3>2
    <2>6. LimitFlagInv'
      <3>1. CASE at' = "ask"
        BY <1>a, <1>b, <2>a, <1>5, <3>1 DEF LimitFlagInv, HitInv, ProbeInv
      <3>2. CASE at' # "ask"
        BY <1>a, <1>b, <2>a, <1>5, <3>2 DEF LimitFlagInv, HitInv, ProbeInv
      <3>. QED  BY <1>b, <2>a, <3>1, <3>2
    <2>7. LimitInv'
      <3>1. CASE at' = "ask"
        BY <1>a, <1>b, <2>a, <1>5, <3>1 DEF LimitInv
      <3>2. CASE at' # "ask"
        BY <1>a, <1>b, <2>a, <1>5, <3>2 DEF LimitInv
      <3>. QED  BY <1>b, <2>a, <3>1, <3>2
    <2>8. PhaseInv'
      <3>1. CASE at' = "ask"
        BY <1>a, <1>b, <2>a, <1>5, <3>1, PhaseOfSteadyFirst DEF PhaseInv,
           RoundPhase, WillBlink, Undisturbed, HitInv, SiteInv, ListInv
      <3>2. CASE at' # "ask"
        BY <1>a, <1>b, <2>a, <1>5, <3>2, PhaseOfSteadyFirst DEF PhaseInv,
           RoundPhase, WillBlink, Undisturbed, HitInv, SiteInv, ListInv
      <3>. QED  BY <1>b, <2>a, <3>1, <3>2
    <2>9. PlainInv'
      <3>1. CASE at' = "ask"
        BY <1>a, <1>b, <2>a, <1>5, <3>1 DEF PlainInv, Undisturbed
      <3>2. CASE at' # "ask"
        BY <1>a, <1>b, <2>a, <1>5, <3>2 DEF PlainInv, Undisturbed
      <3>. QED  BY <1>b, <2>a, <3>1, <3>2
    <2>. QED
      BY <2>1, <2>2, <2>3, <2>4, <2>5, <2>6, <2>7, <2>8, <2>9 DEF BlinkInv
  <1>6. ASSUME AddInst, module # "gone" PROVE BlinkInv'
    <2>a. /\ at = "begin" /\ Head(todo) = "add_inst" /\ HasLimit /\ MainLeft
          /\ ncalls' = ncalls + 1
          /\ IF flag /\ ncalls + 1 >= Limit
             THEN at' = "ask" /\ SameTodo ELSE Returned
          /\ todo' \in {<<>>, <<Main>>, <<"blink">>, Order}' \/ todo' = todo
          /\ SameBuild
          /\ UNCHANGED <<core, queue, site, announced, flag, module, early,
                        failed, raced>>
      <3>1. SameBuild
        BY <1>6, SameFacts DEF AddInst, taskVars, moduleVars
      <3>2. IF flag /\ ncalls + 1 >= Limit
            THEN at' = "ask" /\ todo' = todo ELSE HandlerReturns
        BY <1>6 DEF AddInst, Asks
      <3>3. todo # <<>> /\ at = "begin" /\ Head(todo) = "add_inst"
        BY <1>6, <1>b DEF AddInst
      <3>4. CASE flag /\ ncalls + 1 >= Limit
        BY <1>6, <1>b, <3>1, <3>2, <3>3, <3>4, SameFacts
        DEF AddInst
      <3>5. CASE ~(flag /\ ncalls + 1 >= Limit)
        <4>1. Returned /\ todo' \in {<<>>, <<Main>>, <<"blink">>, Order}'
          BY <1>a, <3>1, <3>2, <3>3, <3>5, ReturnFacts
        <4>. QED
          BY <1>6, <1>b, <3>1, <3>3, <3>5, <4>1
          DEF AddInst
      <3>. QED  BY <3>4, <3>5
    <2>1. TypeOK'
      <3>1. ScalarTypes'
        BY <1>a, <1>b, <2>a, <1>6 DEF HitInv
      <3>. QED  BY <1>a, <2>a, <3>1, TypeAgain
    <2>2. HitInv' /\ SiteInv' /\ ProbeInv' /\ CleanInv'
      BY <1>a, <1>b, <2>a, <1>6 DEF HitInv, SiteInv, ProbeInv, CleanInv
    <2>3. ListInv'
      <3>1. CASE at' = "ask"
        BY <1>a, <1>b, <2>a, <1>6, <3>1 DEF ListInv
      <3>2. CASE at' # "ask"
        BY <1>a, <1>b, <2>a, <1>6, <3>2 DEF ListInv
      <3>. QED  BY <1>b, <2>a, <3>1, <3>2
    <2>4. SteadyFlagInv'
      <3>1. CASE at' = "ask"
        BY <1>a, <1>b, <2>a, <1>6, <3>1 DEF SteadyFlagInv, WillBlink
      <3>2. CASE at' # "ask"
        BY <1>a, <1>b, <2>a, <1>6, <3>2 DEF SteadyFlagInv, WillBlink
      <3>. QED  BY <1>b, <2>a, <3>1, <3>2
    <2>5. LimitFlagInv'
      <3>1. CASE at' = "ask"
        BY <1>a, <1>b, <2>a, <1>6, <3>1 DEF LimitFlagInv
      <3>2. CASE at' # "ask"
        BY <1>a, <1>b, <2>a, <1>6, <3>2 DEF LimitFlagInv
      <3>. QED  BY <1>b, <2>a, <3>1, <3>2
    <2>6. LimitInv'
      <3>1. CASE at' = "ask"
        BY <1>a, <1>b, <2>a, <1>6, <3>1 DEF LimitInv, HitInv, ListInv,
           LimitFlagInv
      <3>2. CASE at' # "ask"
        BY <1>a, <1>b, <2>a, <1>6, <3>2 DEF LimitInv, HitInv, ListInv,
           LimitFlagInv
      <3>. QED  BY <1>b, <2>a, <3>1, <3>2
    <2>7. PhaseInv'
      <3>1. CASE at' = "ask"
        BY <1>a, <1>b, <2>a, <1>6, <3>1 DEF PhaseInv, RoundPhase, WillBlink,
           Undisturbed
      <3>2. CASE at' # "ask"
        BY <1>a, <1>b, <2>a, <1>6, <3>2 DEF PhaseInv, RoundPhase, WillBlink,
           Undisturbed
      <3>. QED  BY <1>b, <2>a, <3>1, <3>2
    <2>8. PlainInv'
      <3>1. CASE at' = "ask"
        BY <1>a, <1>b, <2>a, <1>6, <3>1 DEF PlainInv, Undisturbed
      <3>2. CASE at' # "ask"
        BY <1>a, <1>b, <2>a, <1>6, <3>2 DEF PlainInv, Undisturbed
      <3>. QED  BY <1>b, <2>a, <3>1, <3>2
    <2>. QED
      BY <2>1, <2>2, <2>3, <2>4, <2>5, <2>6, <2>7, <2>8 DEF BlinkInv
  <1>7. ASSUME Request, module # "gone" PROVE BlinkInv'
    <2>a. /\ at = "ask" /\ at' = "set"
          /\ Len(queue') = Len(queue) + 1
          /\ Len(queue) > 0 => queue'[1] = queue[1]
          /\ queue'[Len(queue')].register <=> Head(todo) = "steady"
          /\ queue'[Len(queue')].probe = IF Head(todo) = "steady" THEN "blink"
                                                            ELSE Head(todo)
          /\ queue' \in Seq(Requests({Main, "blink"}))
          /\ SameBuild /\ SameTodo
          /\ UNCHANGED <<core, site, ncalls, announced, flag, module, early,
                        failed, raced>>
      <3>1. SameBuild /\ SameTodo
        BY <1>7, SameFacts DEF Request, taskVars, moduleVars
      <3> DEFINE r == [register |-> Head(todo) = "steady",
                       probe |-> IF Head(todo) = "steady" THEN "blink"
                                                          ELSE Head(todo)]
      <3>2. at = "ask" /\ queue' = Append(queue, r) /\ core' = core
        BY <1>7 DEF Request, Defer
      <3>3. Head(todo) \in {Main, "blink"}
        BY <1>b, <3>2
      <3>4. r \in Requests({Main, "blink"})
        BY <3>3, <1>b DEF Requests
      <3>5. /\ queue' \in Seq(Requests({Main, "blink"}))
            /\ Len(queue') = Len(queue) + 1
            /\ \A i \in 1 .. Len(queue) : queue'[i] = queue[i]
            /\ queue'[Len(queue')] = r
        BY <1>a, <3>2, <3>4, DeferFacts
      <3>6. /\ r.register <=> Head(todo) = "steady"
            /\ r.probe = IF Head(todo) = "steady" THEN "blink" ELSE Head(todo)
        OBVIOUS
      <3> HIDE DEF r
      <3>7. Len(queue) > 0 => queue'[1] = queue[1]
        BY <1>b, <3>5
      <3>. QED  BY <1>7, <3>1, <3>2, <3>5, <3>6, <3>7 DEF Request, moduleVars
    <2>1. TypeOK'
      <3>1. ScalarTypes'
        BY <1>a, <1>b, <2>a, <1>7 DEF ListInv
      <3>. QED  BY <1>a, <2>a, <3>1, TypeAgain
    <2>2. HitInv' /\ SiteInv' /\ ProbeInv' /\ LimitFlagInv' /\ LimitInv'
      BY <1>a, <1>b, <2>a, <1>7 DEF HitInv, SiteInv, ProbeInv, LimitFlagInv,
         LimitInv
    <2>3. ListInv'
      <3>1. ASSUME NEW i \in 1 .. Len(queue')
            PROVE  /\ queue'[i].probe = (IF HasLimit THEN Main ELSE "blink")
                   /\ HasLimit => ~queue'[i].register
        <4>1. CASE i = Len(queue')
          BY <1>a, <1>b, <2>a, <4>1
          DEF HitInv, ProbeInv
        <4>2. CASE i # Len(queue')
          <5>1. i = 1 /\ Len(queue) > 0 /\ 1 \in 1 .. Len(queue)
            BY <1>a, <1>b, <2>a, <4>2 DEF ListInv
          <5>. QED  BY <1>a, <2>a, <5>1 DEF ListInv
        <4>. QED  BY <4>1, <4>2
      <3>. QED
        BY <1>a, <1>b, <2>a, <3>1
        DEF ListInv
    <2>4. SteadyFlagInv'
      BY <1>a, <1>b, <2>a, <1>7 DEF SteadyFlagInv, WillBlink, ListInv
    <2>5. CleanInv'
      <3>1. ASSUME module \in {"test", "blink"}, ~raced
            PROVE  \A i \in 1 .. Len(queue') : ~queue'[i].register
        <4>1. Head(todo) = "blink" /\ ~HasLimit
          BY <1>a, <1>b, <2>a, <3>1
          DEF CleanInv, HitInv
        <4>2. Len(queue') = 1
          BY <1>a, <2>a, <4>1 DEF ListInv
        <4>3. ~queue'[1].register
          BY <2>a, <4>1, <4>2
        <4>. QED  BY <4>2, <4>3
      <3>. QED  BY <1>a, <1>b, <2>a, <1>7, <3>1 DEF CleanInv
    <2>6. PhaseInv' /\ PlainInv'
      BY <1>a, <1>b, <2>a, <1>7 DEF PhaseInv, RoundPhase, WillBlink,
         Undisturbed, PlainInv
    <2>. QED
      BY <2>1, <2>2, <2>3, <2>4, <2>5, <2>6 DEF BlinkInv
  <1>8. ASSUME RequestFails, module # "gone" PROVE BlinkInv'
    <2>a. /\ at = "ask" /\ Head(todo) = "steady" /\ ~HasLimit
          /\ Returned /\ todo' \in {<<>>, <<Main>>, <<"blink">>, Order}'
          /\ failed' = failed \cup {"atOnce"}
          /\ SameBuild
          /\ UNCHANGED <<core, queue, site, ncalls, announced, flag, module,
                        early, raced>>
      <3>1. SameBuild
        BY <1>8, SameFacts DEF RequestFails, taskVars, moduleVars
      <3>2. todo # <<>> /\ HandlerReturns
        BY <1>8, <1>b DEF RequestFails
      <3>3. Returned /\ todo' \in {<<>>, <<Main>>, <<"blink">>, Order}'
        BY <1>a, <3>1, <3>2, ReturnFacts
      <3>. QED
        BY <1>8, <1>b, <3>1, <3>3 DEF RequestFails, moduleVars
    <2>1. TypeOK'
      <3>1. ScalarTypes'
        BY <1>a, <1>b, <2>a, <1>8
      <3>. QED  BY <1>a, <2>a, <3>1, TypeAgain
    <2>2. HitInv' /\ ProbeInv' /\ LimitFlagInv' /\ CleanInv' /\ LimitInv'
      BY <1>a, <1>b, <2>a, <1>8 DEF HitInv, ProbeInv, LimitFlagInv, CleanInv,
         LimitInv
    <2>3. SiteInv'
      BY <1>a, <1>b, <2>a, <1>8 DEF SiteInv, HitInv
    <2>4. ListInv' /\ SteadyFlagInv'
      BY <1>a, <1>b, <2>a, <1>8 DEF ListInv, SteadyFlagInv, WillBlink
    <2>5. PhaseInv' /\ PlainInv'
      BY <1>a, <1>b, <2>a, <1>8 DEF PhaseInv, RoundPhase, WillBlink,
         Undisturbed, PlainInv
    <2>. QED
      BY <2>1, <2>2, <2>3, <2>4, <2>5 DEF BlinkInv
  <1>9. ASSUME SetFlag, module # "gone" PROVE BlinkInv'
    <2>a. /\ at = "set"
          /\ flag' \in BOOLEAN /\ (flag' <=> Head(todo) = "steady")
          /\ Returned /\ todo' \in {<<>>, <<Main>>, <<"blink">>, Order}'
          /\ SameBuild
          /\ UNCHANGED <<core, queue, site, ncalls, announced, module, early,
                        failed, raced>>
      <3>1. SameBuild
        BY <1>9, SameFacts DEF SetFlag, taskVars, moduleVars
      <3>2. todo # <<>> /\ HandlerReturns
        BY <1>9, <1>b DEF SetFlag
      <3>3. Returned /\ todo' \in {<<>>, <<Main>>, <<"blink">>, Order}'
        BY <1>a, <3>1, <3>2, ReturnFacts
      <3>. QED
        BY <1>9, <1>b, <3>1, <3>3 DEF SetFlag, moduleVars
    <2>1. TypeOK'
      <3>1. ScalarTypes'
        BY <1>a, <1>b, <2>a, <1>9
      <3>. QED  BY <1>a, <2>a, <3>1, TypeAgain
    <2>2. HitInv' /\ ProbeInv' /\ CleanInv'
      BY <1>a, <1>b, <2>a, <1>9 DEF HitInv, ProbeInv, CleanInv
    <2>3. SiteInv'
      BY <1>a, <1>b, <2>a, <1>9 DEF SiteInv, HitInv
    <2>4. ListInv'
      BY <1>a, <1>b, <2>a, <1>9 DEF ListInv, HitInv, ProbeInv, SteadyFlagInv
    <2>5. SteadyFlagInv'
      BY <1>a, <1>b, <2>a, <1>9 DEF SteadyFlagInv, WillBlink, ListInv
    <2>6. LimitFlagInv'
      BY <1>a, <1>b, <2>a, <1>9 DEF LimitFlagInv, ListInv
    <2>7. LimitInv'
      BY <1>a, <1>b, <2>a, <1>9 DEF LimitInv, ListInv
    <2>8. PhaseInv'
      BY <1>a, <1>b, <2>a, <1>9, PhaseOfSteadyFirst, PhaseOfThird DEF PhaseInv,
         RoundPhase, WillBlink, Undisturbed, HitInv, SiteInv, ListInv,
         SteadyFlagInv
    <2>9. PlainInv'
      BY <1>a, <1>b, <2>a, <1>9 DEF PlainInv, Undisturbed
    <2>. QED
      BY <2>1, <2>2, <2>3, <2>4, <2>5, <2>6, <2>7, <2>8, <2>9 DEF BlinkInv
  <1>10. ASSUME RunDeferred, module # "gone" PROVE BlinkInv'
    <2>a. /\ at = "defer"
          /\ Len(queue) > 0 /\ Len(queue') = Len(queue) - 1
          /\ Len(queue) > 1 => queue'[1] = queue[2]
          /\ queue[1].probe = IF HasLimit THEN Main ELSE "blink"
          /\ HasLimit => ~queue[1].register
          /\ \/ /\ core' = IF queue[1].register THEN core \cup {queue[1].probe}
                                              ELSE core \ {queue[1].probe}
                /\ failed' = failed
             \/ /\ core' = core /\ queue[1].register
                /\ failed' = failed \cup {"deferred"}
          /\ queue' \in Seq(Requests({Main, "blink"}))
          /\ SameBuild /\ SameTodo
          /\ UNCHANGED <<site, at, ncalls, announced, flag, module, early,
                        raced>>
      <3>1. SameBuild /\ SameTodo
        BY <1>10, SameFacts DEF RunDeferred, CarryOut, taskVars, moduleVars
      <3>2. at = "defer" /\ (CarryOut \/ CarryOutFails)
        BY <1>10 DEF RunDeferred
      <3>3. /\ Len(queue) > 0
            /\ queue' \in Seq(Requests({Main, "blink"}))
            /\ Len(queue') = Len(queue) - 1
            /\ \A i \in 1 .. Len(queue') : queue'[i] = queue[i + 1]
        BY <1>a, <3>2, CarryOutFacts
      <3>4. Len(queue) > 1 => queue'[1] = queue[2]
        BY <1>b, <3>3
      <3>5. /\ queue[1].probe = IF HasLimit THEN Main ELSE "blink"
            /\ HasLimit => ~queue[1].register
        BY <1>a, <1>b, <3>3 DEF ListInv
      <3>6. CASE CarryOut /\ ~(Head(queue).register /\ module = "registered")
                   /\ UNCHANGED failed
        BY <1>10, <1>a, <3>1, <3>2, <3>3, <3>4, <3>5, <3>6, CarryOutFacts
        DEF RunDeferred, taskVars, moduleVars
      <3>7. CASE CarryOutFails /\ failed' = failed \cup {"deferred"}
        BY <1>10, <1>a, <3>1, <3>2, <3>3, <3>4, <3>5, <3>7, CarryOutFacts
        DEF RunDeferred, taskVars, moduleVars
      <3>. QED  BY <1>10, <3>6, <3>7 DEF RunDeferred
    <2>1. TypeOK'
      <3>1. core' \subseteq {Main, "blink"}
        BY <1>b, <2>a
      <3>2. Len(queue') \in Nat /\ Len(queue') <= 2
        BY <1>b, <2>a
      <3>3. failed' \subseteq {"atOnce", "deferred"}
        BY <1>b, <2>a
      <3>4. ScalarTypes'
        BY <1>b, <2>a, <3>1, <3>2, <3>3
      <3>. QED  BY <1>a, <2>a, <3>4, TypeAgain
    <2>2. HitInv' /\ SiteInv'
      BY <1>a, <1>b, <2>a, <1>10 DEF HitInv, SiteInv
    <2>3. ProbeInv'
      BY <1>a, <1>b, <2>a, <1>10 DEF ProbeInv, ListInv
    <2>4. ListInv'
      BY <1>a, <1>b, <2>a, <1>10 DEF ListInv
    <2>5. SteadyFlagInv'
      BY <1>a, <1>b, <2>a, <1>10 DEF SteadyFlagInv, WillBlink, ListInv
    <2>6. LimitFlagInv'
      BY <1>a, <1>b, <2>a, <1>10 DEF LimitFlagInv, ListInv
    <2>7. CleanInv'
      BY <1>a, <1>b, <2>a, <1>10 DEF CleanInv, ListInv
    <2>8. LimitInv'
      BY <1>a, <1>b, <2>a, <1>10 DEF LimitInv, ListInv
    <2>9. PhaseInv'
      BY <1>a, <1>b, <2>a, <1>10 DEF PhaseInv, RoundPhase, WillBlink,
         Undisturbed, ListInv, SteadyFlagInv
    <2>10. PlainInv'
      BY <1>a, <1>b, <2>a, <1>10 DEF PlainInv, Undisturbed
    <2>. QED
      BY <2>1, <2>2, <2>3, <2>4, <2>5, <2>6, <2>7, <2>8, <2>9, <2>10 DEF
         BlinkInv
  <1>11. ASSUME DeferredDone, module # "gone" PROVE BlinkInv'
    <2>a. /\ at = "defer" /\ at' = "out" /\ Len(queue) = 0
          /\ SameBuild /\ SameTodo
          /\ UNCHANGED <<core, queue, site, ncalls, announced, flag, module,
                        early, failed, raced>>
      <3>1. SameBuild /\ SameTodo
        BY <1>11, SameFacts DEF DeferredDone, taskVars, moduleVars
      <3>. QED
        BY <1>11, <1>a, <1>b, <3>1, EmptyList DEF DeferredDone, taskVars,
           moduleVars
    <2>1. TypeOK'
      <3>1. ScalarTypes'
        BY <1>a, <1>b, <2>a, <1>11
      <3>. QED  BY <1>a, <2>a, <3>1, TypeAgain
    <2>2. HitInv' /\ SiteInv' /\ ProbeInv' /\ LimitFlagInv' /\ CleanInv' /\ LimitInv'
      BY <1>a, <1>b, <2>a, <1>11 DEF HitInv, SiteInv, ProbeInv, LimitFlagInv,
         CleanInv, LimitInv
    <2>3. ListInv' /\ SteadyFlagInv'
      BY <1>a, <1>b, <2>a, <1>11 DEF ListInv, SteadyFlagInv, WillBlink
    <2>4. PhaseInv' /\ PlainInv'
      BY <1>a, <1>b, <2>a, <1>11 DEF PhaseInv, RoundPhase, WillBlink,
         Undisturbed, PlainInv
    <2>. QED
      BY <2>1, <2>2, <2>3, <2>4 DEF BlinkInv
  <1>12. ASSUME BeginCleanup PROVE BlinkInv'
    <2>a. /\ module = "loaded"
          /\ module' = IF HasLimit => flag THEN "main" ELSE "gone"
          /\ raced' \in BOOLEAN /\ (~raced' => ~raced /\ todo = <<>> /\ Len(queue) = 0)
          /\ SameBuild /\ SameTodo
          /\ UNCHANGED <<core, queue, site, at, ncalls, announced, flag, early,
                        failed>>
      <3>1. SameBuild /\ SameTodo
        BY <1>12, SameFacts DEF BeginCleanup, Step, UnderWay, InHandler,
           taskVars, moduleVars
      <3>. QED
        BY <1>12, <1>a, <1>b, <3>1, EmptyList DEF BeginCleanup, Step, UnderWay,
           InHandler, taskVars, moduleVars
    <2>1. TypeOK'
      <3>1. ScalarTypes'
        BY <1>a, <1>b, <2>a
      <3>. QED  BY <1>a, <2>a, <3>1, TypeAgain
    <2>2. HitInv' /\ SiteInv' /\ ProbeInv' /\ LimitFlagInv' /\ LimitInv'
      BY <1>a, <1>b, <2>a DEF HitInv, SiteInv, ProbeInv, LimitFlagInv, LimitInv
    <2>3. ListInv' /\ SteadyFlagInv'
      BY <1>a, <1>b, <2>a DEF ListInv, SteadyFlagInv, WillBlink
    <2>4. CleanInv'
      <3>1. module' = "gone" => HasLimit /\ ~flag
        BY <2>a
      <3>2. module' = "gone" /\ ~raced' => Main \notin core /\ "blink" \notin core
        BY <1>a, <2>a, <3>1 DEF LimitFlagInv, ProbeInv
      <3>3. module' = "gone" /\ ~raced' => core' = {}
        BY <1>b, <2>a, <3>2
      <3>. QED  BY <1>b, <2>a, <3>3 DEF CleanInv
    <2>5. PhaseInv' /\ PlainInv'
      BY <1>a, <1>b, <2>a DEF PhaseInv, RoundPhase, WillBlink, Undisturbed,
         PlainInv
    <2>. QED
      BY <2>1, <2>2, <2>3, <2>4, <2>5 DEF BlinkInv
  <1>13. ASSUME UnregisterMain PROVE BlinkInv'
    <2>a. /\ module = "main"
          /\ module' = IF HasLimit THEN "gone" ELSE "test"
          /\ raced' \in BOOLEAN /\ (~raced' => ~raced /\ todo = <<>> /\ Len(queue) = 0)
          /\ Main \in core => todo = <<>>
          /\ core' = core \ {Main}
          /\ SameBuild /\ SameTodo
          /\ UNCHANGED <<queue, site, at, ncalls, announced, flag, early,
                        failed>>
      <3>1. SameBuild /\ SameTodo
        BY <1>13, SameFacts DEF UnregisterMain, Step, UnderWay, InHandler,
           UnregisterNow, taskVars, moduleVars
      <3>. QED
        BY <1>13, <1>a, <1>b, <3>1, EmptyList DEF UnregisterMain, Step,
           UnderWay, InHandler, UnregisterNow, taskVars, moduleVars
    <2>1. TypeOK'
      <3>1. ScalarTypes'
        BY <1>a, <1>b, <2>a
      <3>. QED  BY <1>a, <2>a, <3>1, TypeAgain
    <2>2. HitInv' /\ SiteInv' /\ ProbeInv' /\ LimitFlagInv' /\ LimitInv'
      BY <1>a, <1>b, <2>a DEF HitInv, SiteInv, ProbeInv, LimitFlagInv, LimitInv
    <2>3. ListInv' /\ SteadyFlagInv'
      BY <1>a, <1>b, <2>a DEF ListInv, SteadyFlagInv, WillBlink
    <2>4. CleanInv'
      <3>1. module' = "gone" => core' = {}
        BY <1>a, <1>b, <2>a DEF ProbeInv
      <3>. QED  BY <1>b, <2>a, <3>1 DEF CleanInv
    <2>5. PhaseInv' /\ PlainInv'
      BY <1>a, <1>b, <2>a DEF PhaseInv, RoundPhase, WillBlink, Undisturbed,
         PlainInv
    <2>. QED
      BY <2>1, <2>2, <2>3, <2>4, <2>5 DEF BlinkInv
  <1>14. ASSUME TestFlag PROVE BlinkInv'
    <2>a. /\ module = "test"
          /\ module' = IF flag THEN "blink" ELSE "gone"
          /\ raced' \in BOOLEAN /\ (~raced' => ~raced /\ todo = <<>> /\ Len(queue) = 0)
          /\ SameBuild /\ SameTodo
          /\ UNCHANGED <<core, queue, site, at, ncalls, announced, flag, early,
                        failed>>
      <3>1. SameBuild /\ SameTodo
        BY <1>14, SameFacts DEF TestFlag, Step, UnderWay, InHandler, taskVars,
           moduleVars
      <3>. QED
        BY <1>14, <1>a, <1>b, <3>1, EmptyList DEF TestFlag, Step, UnderWay,
           InHandler, taskVars, moduleVars
    <2>1. TypeOK'
      <3>1. ScalarTypes'
        BY <1>a, <1>b, <2>a
      <3>. QED  BY <1>a, <2>a, <3>1, TypeAgain
    <2>2. HitInv' /\ SiteInv' /\ ProbeInv' /\ LimitFlagInv' /\ LimitInv'
      BY <1>a, <1>b, <2>a DEF HitInv, SiteInv, ProbeInv, LimitFlagInv, LimitInv
    <2>3. ListInv' /\ SteadyFlagInv'
      BY <1>a, <1>b, <2>a DEF ListInv, SteadyFlagInv, WillBlink
    <2>4. CleanInv'
      <3>1. ~HasLimit
        BY <1>a, <2>a DEF CleanInv
      <3>2. ~raced' => Main \notin core /\ at # "set" /\ Len(queue) = 0
        BY <1>a, <1>b, <2>a DEF CleanInv
      <3>3. module' = "gone" /\ ~raced' => "blink" \notin core
        BY <1>a, <2>a, <3>1, <3>2 DEF SteadyFlagInv, WillBlink
      <3>4. module' = "gone" /\ ~raced' => core' = {}
        BY <1>b, <2>a, <3>2, <3>3
      <3>. QED  BY <1>b, <2>a, <3>1, <3>2, <3>4 DEF CleanInv
    <2>5. PhaseInv' /\ PlainInv'
      BY <1>a, <1>b, <2>a DEF PhaseInv, RoundPhase, WillBlink, Undisturbed,
         PlainInv
    <2>. QED
      BY <2>1, <2>2, <2>3, <2>4, <2>5 DEF BlinkInv
  <1>15. ASSUME UnregisterBlink PROVE BlinkInv'
    <2>a. /\ module = "blink" /\ module' = "gone"
          /\ raced' \in BOOLEAN /\ (~raced' => ~raced /\ todo = <<>> /\ Len(queue) = 0)
          /\ "blink" \in core => todo = <<>>
          /\ core' = core \ {"blink"}
          /\ SameBuild /\ SameTodo
          /\ UNCHANGED <<queue, site, at, ncalls, announced, flag, early,
                        failed>>
      <3>1. SameBuild /\ SameTodo
        BY <1>15, SameFacts DEF UnregisterBlink, Step, UnderWay, InHandler,
           UnregisterNow, taskVars, moduleVars
      <3>. QED
        BY <1>15, <1>a, <1>b, <3>1, EmptyList DEF UnregisterBlink, Step,
           UnderWay, InHandler, UnregisterNow, taskVars, moduleVars
    <2>1. TypeOK'
      <3>1. ScalarTypes'
        BY <1>a, <1>b, <2>a
      <3>. QED  BY <1>a, <2>a, <3>1, TypeAgain
    <2>2. HitInv' /\ SiteInv' /\ ProbeInv' /\ LimitFlagInv' /\ LimitInv'
      BY <1>a, <1>b, <2>a DEF HitInv, SiteInv, ProbeInv, LimitFlagInv, LimitInv
    <2>3. ListInv' /\ SteadyFlagInv'
      BY <1>a, <1>b, <2>a DEF ListInv, SteadyFlagInv, WillBlink
    <2>4. CleanInv'
      <3>1. ~raced' => Main \notin core
        BY <1>a, <2>a DEF CleanInv
      <3>2. ~raced' => core' = {}
        BY <1>b, <2>a, <3>1
      <3>. QED  BY <1>b, <2>a, <3>2 DEF CleanInv
    <2>5. PhaseInv' /\ PlainInv'
      BY <1>a, <1>b, <2>a DEF PhaseInv, RoundPhase, WillBlink, Undisturbed,
         PlainInv
    <2>. QED
      BY <2>1, <2>2, <2>3, <2>4, <2>5 DEF BlinkInv
  <1>16. ASSUME UNCHANGED vars PROVE BlinkInv'
    <2>a. /\ SameBuild /\ SameTodo
          /\ UNCHANGED <<core, queue, site, at, ncalls, announced, flag,
                        module, early, failed, raced>>
      <3>1. SameBuild /\ SameTodo
        BY <1>16, SameFacts DEF vars, taskVars, moduleVars
      <3>. QED
        BY <1>16, <1>a, <1>b, <3>1, EmptyList DEF vars, taskVars, moduleVars
    <2>1. TypeOK'
      <3>1. ScalarTypes'
        BY <1>a, <1>b, <2>a
      <3>. QED  BY <1>a, <2>a, <3>1, TypeAgain
    <2>2. HitInv' /\ SiteInv' /\ ProbeInv' /\ LimitFlagInv' /\ CleanInv' /\ LimitInv'
      BY <1>a, <1>b, <2>a DEF HitInv, SiteInv, ProbeInv, LimitFlagInv,
         CleanInv, LimitInv
    <2>3. ListInv' /\ SteadyFlagInv'
      BY <1>a, <1>b, <2>a DEF ListInv, SteadyFlagInv, WillBlink
    <2>4. PhaseInv' /\ PlainInv'
      BY <1>a, <1>b, <2>a DEF PhaseInv, RoundPhase, WillBlink, Undisturbed,
         PlainInv
    <2>. QED
      BY <2>1, <2>2, <2>3, <2>4 DEF BlinkInv
  <1>. QED
    BY <1>1, <1>2, <1>3, <1>4, <1>5, <1>6, <1>7, <1>8, <1>9, <1>10, <1>11,
       <1>12, <1>13, <1>14, <1>15, <1>16 DEF Next, Task, Handler, Cleanup,
       Unloaded

\* In every state the handlers, the list, the flags and the counts agree.
THEOREM BlinkInvariant == Spec => []BlinkInv
  <1>. QED  BY BlinkInit, BlinkStep, PTL DEF Spec

-----------------------------------------------------------------------------
(* What follows from it. *)

\* The types of the variables: at most two requests are ever on the deferred
\* list, and todo holds handlers of the loaded module only.
THEOREM TypeCorrect == Spec => []TypeOK
  <1>1. BlinkInv => TypeOK
    BY DEF BlinkInv
  <1>. QED  BY <1>1, BlinkInvariant, PTL

\* cleanup_module() of blink, blink2 and probe5lim, which goes by a flag and
\* waits for no deferred request, leaves a probe, a request or a task in a
\* handler behind only if requests were under way at one of its steps.
THEOREM LeaksNeedRace == Spec => []LeakNeedsRace
  <1>1. BlinkInv => LeakNeedsRace
    <2>. SUFFICES ASSUME BlinkInv, module = "gone", ~raced
                  PROVE  core = {} /\ queue = <<>> /\ ~InHandler
      BY DEF LeakNeedsRace
    <2>. QED  BY EmptyList DEF BlinkInv, CleanInv, InHandler
  <1>. QED  BY <1>1, BlinkInvariant, PTL

\* Between two rounds the number of calls alone says whether blink() is
\* registered: the last multiple of 3 is later than that of 5, and one call
\* later than that where blink() runs first.
THEOREM BlinkFollowsCount == Spec => []BlinkPhase
  <1>1. BlinkInv => BlinkPhase
    <2>. SUFFICES ASSUME BlinkInv, Quiet, ~HasLimit PROVE BlinkPhase
      BY DEF BlinkPhase
    <2>1. /\ module = "loaded" /\ at = "out" /\ site = "add" /\ Undisturbed
          /\ Len(queue) = 0 /\ (WillBlink <=> "blink" \in core)
      BY DEF BlinkInv, ListInv, Quiet, Undisturbed, WillBlink
    <2>2. flag \in BOOLEAN /\ build.callback \in BOOLEAN
      BY TypeFacts DEF BlinkInv, ScalarTypes, BuildTypes
    <2>3. "deferred" \notin failed => (flag <=> "blink" \in core)
      BY <2>1 DEF BlinkInv, SteadyFlagInv
    <2>4. ~build.callback => "blink" \notin core /\ announced = ncalls \div 3
      BY <2>1 DEF BlinkInv, ProbeInv, PlainInv
    <2>5. build.callback /\ failed = {} => ("blink" \in core <=> RoundPhase)
      BY <2>1 DEF BlinkInv, PhaseInv
    <2>6. RoundPhase <=>
            IF build.module = "blink" /\ build.blinkFirst
            THEN ncalls > 0 /\ LastMultiple(3, ncalls) > LastMultiple(5, ncalls - 1)
            ELSE LastMultiple(3, ncalls) > LastMultiple(5, ncalls)
      BY DEF RoundPhase, BlinkFirst, BlinkFirstPhase, Phase
    <2>. QED  BY <2>2, <2>3, <2>4, <2>5, <2>6 DEF BlinkPhase
  <1>. QED  BY <1>1, BlinkInvariant, PTL

\* add_inst() of probe5lim counts no hit beyond its limit, but for one that was
\* already past the limit when init_module() set its flag.
THEOREM LimitKept == Spec => []LimitHolds
  <1>1. BlinkInv => LimitHolds
    <2>. SUFFICES ASSUME BlinkInv, HasLimit, module # "registered", ncalls > Limit
                  PROVE  ncalls <= early + 1
      BY DEF LimitHolds
    <2>1. ncalls \in Nat /\ Limit \in Nat
      BY TypeFacts DEF BlinkInv, ScalarTypes, BuildTypes
    <2>. QED  BY <2>1 DEF BlinkInv, LimitInv
  <1>. QED  BY <1>1, BlinkInvariant, PTL
=============================================================================
