-------------------------- MODULE ProbeCountProofs --------------------------
(***************************************************************************)
(* The counting tests, for every number of threads, probe points and       *)
(* rounds and every width of int and ulong.                                *)
(*                                                                         *)
(* BaseInv is inductive on every build.  Where the store of ktid stays     *)
(* within its field, or there are at most two rounds, ExactInv is          *)
(* inductive with it.                                                      *)
(***************************************************************************)
EXTENDS ProbeCount, ProbeSlotProofs, TLAPS

\* The builds and parameters for which the counts never disagree.
KtidStoreHarmless == ~WideLong \/ Iters <= 2

-----------------------------------------------------------------------------
(* The count after n calls. *)

\* A count after n calls is a ulong, and ++ makes it the count after n + 1.
LEMMA CountAfterFacts ==
  ASSUME NEW n \in 0 .. Iters
  PROVE  /\ CountAfter(n) \in ULong
         /\ n < Iters => Incr(CountAfter(n)) = CountAfter(n + 1)
         /\ CountAfter(n) = NotCounting <=> n = 0
         /\ n > 0 => ToInt(CountAfter(n)) = n - 1
  <1>1. n > 0 => ToInt(n - 1) = n - 1
    BY ToIntSmall, WidthFacts, ParameterAssumption
  <1>. QED
    BY <1>1, WidthFacts, ParameterAssumption
    DEF CountAfter, NotCounting, ULong, Incr

\* The store of ktid changes ucount within its range, and not at all where it
\* is harmless.
LEMMA KtidStoreFacts ==
  /\ \A x \in ULong : AfterKtidStore(x) \in ULong
  /\ KtidStoreHarmless =>
       \A n \in 0 .. Iters : (n < Iters /\ n > 0) =>
          AfterKtidStore(CountAfter(n)) = CountAfter(n)
  <1>1. \A x \in ULong : AfterKtidStore(x) \in ULong
    BY KtidStoreType
  <1>2. ASSUME KtidStoreHarmless, NEW n \in 0 .. Iters, n < Iters, n > 0
        PROVE  AfterKtidStore(CountAfter(n)) = CountAfter(n)
    <2>1. CASE ~WideLong
      BY <2>1 DEF AfterKtidStore
    <2>2. CASE Iters <= 2
      <3>1. CountAfter(n) = 0
        BY <1>2, <2>2, ParameterAssumption DEF CountAfter
      <3>2. 0 % (2 * IntHalf) = 0
        BY WidthFacts
      <3>. QED  BY <3>1, <3>2 DEF AfterKtidStore
    <2>. QED  BY <1>2, <2>1, <2>2 DEF KtidStoreHarmless
  <1>. QED  BY <1>1, <1>2

-----------------------------------------------------------------------------
(* BaseInv. *)

LEMMA ParameterFacts ==
  /\ NumThreads \in Nat /\ NumThreads > 0
  /\ NumProbes \in Nat /\ NumProbes >= 2
  /\ Iters \in Nat /\ Iters > 0
  /\ LastProbe \in Probes /\ 0 \in Called /\ Called \subseteq Probes
  BY ParameterAssumption, WidthFacts DEF LastProbe, Probes, Called

\* BaseInv holds before main has created a thread.
THEOREM InitBaseInv == Init => BaseInv
  <1>. SUFFICES ASSUME Init PROVE BaseInv
    OBVIOUS
  <1>1. NewSlot \in Slots(Threads)
    BY NewSlotType
  <1>2. 0 \in Probes /\ 0 \in ULong /\ 0 \in Called
    BY WidthFacts, ParameterFacts DEF Probes, ULong
  <1>3. TypeOK
    <2>1. slot \in [Threads -> [Probes -> Slots(Threads)]]
      BY <1>1 DEF Init
    <2>2. /\ iter \in [Threads -> 0 .. Iters]
          /\ probe \in [Threads -> Probes]
          /\ tmp \in [Threads -> ULong]
          /\ num_probes \in ULong
      BY <1>2, ParameterFacts DEF Init
    <2>3. created \in 0 .. NumThreads /\ joined \in 0 .. NumThreads
      BY ParameterFacts DEF Init
    <2>4. /\ pc \in [Threads -> {"none", "call", "trap", "store", "suicide", "body",
                               "exec", "crash", "done"}]
          /\ result \in [Threads -> Int]
          /\ hits \in Nat
          /\ proc = "running"
      BY DEF Init
    <2>5. program \in Programs /\ loaded \in BOOLEAN /\ overlap \in BOOLEAN
      BY DEF Init
    <2>. QED  BY <2>1, <2>2, <2>3, <2>4, <2>5 DEF TypeOK
  <1>4. MainInv
    BY ParameterFacts DEF Init, MainInv, Threads
  <1>5. ASSUME NEW t \in Threads PROVE ThreadInv(t) /\ SlotInv(t)
    <2>1. ThreadInv(t)
      BY <1>2, <1>5 DEF Init, ThreadInv, CountingInv, NastyInv
    <2>2. ASSUME NEW p \in Called PROVE CallsMade(t, p) = 0 /\ ~InFlight(t, p)
      BY <1>5, <2>2 DEF Init, CallsMade, InFlight, Called
    <2>3. SlotInv(t)
      BY <1>5, <2>2, ParameterFacts
      DEF Init, SlotInv, NewSlot, CountAfter
    <2>. QED  BY <2>1, <2>3
  <1>. QED  BY <1>3, <1>4, <1>5 DEF BaseInv

LEMMA CreateBaseInv ==
  ASSUME BaseInv, proc = "running", Create PROVE BaseInv'
  <1>. DEFINE c == created + 1
  <1>1. c \in Threads /\ pc[c] = "none" /\ created' = c
    BY ParameterFacts DEF BaseInv, TypeOK, MainInv, Create, Threads
  <1>2. TypeOK'
    <2>1. FirstPc(c) \in {"call", "crash"} /\ FirstProbe(c) \in Probes
      BY ParameterFacts DEF FirstPc, FirstProbe, Probes
    <2>. QED  BY <1>1, <2>1 DEF BaseInv, TypeOK, Create, Threads
  <1>3. MainInv'
    BY <1>1, ParameterFacts
    DEF BaseInv, TypeOK, MainInv, Create, Threads, FirstPc
  <1>4. ASSUME NEW t \in Threads PROVE ThreadInv(t)' /\ SlotInv(t)'
    <2>1. CASE t = c
      <3>1. ThreadInv(t)'
        BY <1>1, <2>1, ParameterFacts
        DEF BaseInv, TypeOK, ThreadInv, CountingInv, NastyInv, Create, Nasty,
            Counting, FirstPc, FirstProbe, Called, LastProbe
      <3>2. SlotInv(t)'
        BY <1>1, <2>1, <3>1, ParameterFacts
        DEF BaseInv, TypeOK, SlotInv, Create, Nasty, Counting, ThreadInv,
            CountingInv, FirstPc, FirstProbe, CallsMade, InFlight, Called, LastProbe
      <3>. QED  BY <3>1, <3>2
    <2>2. CASE t # c
      BY <1>1, <1>4, <2>2
      DEF BaseInv, TypeOK, ThreadInv, CountingInv, NastyInv, SlotInv, Create,
          Nasty, Counting, CallsMade, InFlight, Called, LastProbe
    <2>. QED  BY <2>1, <2>2
  <1>. QED  BY <1>2, <1>3, <1>4 DEF BaseInv

\* pthread_create() fails, or main joins the next thread: no thread moves.
LEMMA OtherMainBaseInv ==
  ASSUME BaseInv, proc = "running", CreateFails \/ Join PROVE BaseInv'
  <1>1. TypeOK'
    BY ParameterFacts DEF BaseInv, TypeOK, CreateFails, Join, Threads
  <1>2. MainInv'
    <2>1. CASE CreateFails
      BY <2>1 DEF BaseInv, MainInv, CreateFails
    <2>2. CASE Join
      <3>. DEFINE j == joined + 1
      <3>1. j \in Threads /\ pc[j] = "done" /\ joined' = j /\ created = NumThreads
        BY <2>2, ParameterFacts DEF BaseInv, TypeOK, Join, Threads
      <3>2. proc' = IF result[j] # 0 THEN "failed"
                    ELSE IF j = NumThreads THEN "passed" ELSE "running"
        BY <2>2 DEF Join
      <3>. QED
        BY <2>2, <3>1, <3>2, ParameterFacts
        DEF BaseInv, TypeOK, MainInv, Join, Threads
    <2>. QED  BY <2>1, <2>2
  <1>3. ASSUME NEW t \in Threads PROVE ThreadInv(t)' /\ SlotInv(t)'
    BY <1>3
    DEF BaseInv, ThreadInv, CountingInv, NastyInv, SlotInv, CreateFails, Join,
        Nasty, Counting, CallsMade, InFlight, Called, LastProbe
  <1>. QED  BY <1>1, <1>2, <1>3 DEF BaseInv

\* A step of one thread leaves what the invariant says of the others.
LEMMA OtherThread ==
  ASSUME BaseInv, NEW u \in Threads,
         UNCHANGED <<program, loaded>>,
         hits \in Nat, hits' \in Nat, hits' >= hits,
         pc'[u] = pc[u], iter'[u] = iter[u], probe'[u] = probe[u],
         slot'[u] = slot[u], result'[u] = result[u]
  PROVE  ThreadInv(u)' /\ SlotInv(u)'
  <1>1. ThreadInv(u)'
    BY DEF BaseInv, ThreadInv, CountingInv, NastyInv, Nasty, Counting, Called,
           LastProbe
  <1>2. SlotInv(u)'
    BY DEF BaseInv, SlotInv, Nasty, Counting, CallsMade, InFlight, Called,
           LastProbe
  <1>. QED  BY <1>1, <1>2

\* A thread that takes a step is created and not joined.
LEMMA MainUntouched ==
  ASSUME BaseInv, NEW t \in Threads, pc[t] \notin {"none", "done"},
         proc = "running",
         UNCHANGED <<program, loaded, created, joined, proc>>,
         NEW x, x # "none", pc' = [pc EXCEPT ![t] = x],
         NEW r, result' = [result EXCEPT ![t] = r]
  PROVE  MainInv'
  BY DEF BaseInv, TypeOK, MainInv

LEMMA CallBaseInv ==
  ASSUME BaseInv, proc = "running", NEW t \in Threads, Call(t) PROVE BaseInv'
  <1>. DEFINE q == probe[t]
              x == IF loaded THEN "trap" ELSE "body"
  <1>1. /\ q \in Probes /\ slot[t][q] \in Slots(Threads)
        /\ slot[t][q].utid \in {NoTid, t}
    BY DEF BaseInv, TypeOK, SlotInv
  <1>2. UNCHANGED <<program, loaded, created, joined, proc, iter, probe, tmp,
                    result, num_probes, hits, overlap>>
    BY <1>1 DEF Call, WrongTid
  <1>3. /\ slot' = [slot EXCEPT ![t][q].utid = t]
        /\ pc[t] = "call" /\ pc' = [pc EXCEPT ![t] = x]
    BY DEF Call
  <1>4. [slot[t][q] EXCEPT !.utid = t] \in Slots(Threads)
    BY <1>1 DEF Slots
  <1>5. TypeOK'
    <2>1. slot' \in [Threads -> [Probes -> Slots(Threads)]]
      BY <1>1, <1>3, <1>4 DEF BaseInv, TypeOK
    <2>. QED  BY <1>2, <1>3, <2>1 DEF BaseInv, TypeOK
  <1>6. MainInv'
    <2>1. result' = [result EXCEPT ![t] = result[t]]
      BY <1>2 DEF BaseInv, TypeOK
    <2>. QED  BY <1>2, <1>3, <2>1, MainUntouched
  <1>7. ThreadInv(t)'
    BY <1>2, <1>3
    DEF BaseInv, TypeOK, ThreadInv, CountingInv, NastyInv, Nasty, Counting,
        Called, LastProbe
  <1>8. SlotInv(t)'
    <2>1. ASSUME NEW p \in Probes
          PROVE  /\ slot'[t][p].kcount = slot[t][p].kcount
                 /\ slot'[t][p].ucount = slot[t][p].ucount
                 /\ slot'[t][p].utid \in {NoTid, t}
      BY <1>1, <1>3 DEF BaseInv, TypeOK, SlotInv, Slots
    <2>2. ASSUME NEW p \in Called, loaded
          PROVE  /\ CallsMade(t, p)' = CallsMade(t, p)
                 /\ ~InFlight(t, p) /\ ~InFlight(t, p)'
      BY <1>2, <1>3, <2>2 DEF BaseInv, TypeOK, CallsMade, InFlight
    <2>. QED
      BY <1>2, <2>1, <2>2, ParameterFacts
      DEF BaseInv, SlotInv, Nasty, Counting, Called, LastProbe
  <1>9. ASSUME NEW u \in Threads, u # t PROVE ThreadInv(u)' /\ SlotInv(u)'
    BY <1>2, <1>3, <1>9, OtherThread DEF BaseInv, TypeOK
  <1>. QED  BY <1>5, <1>6, <1>7, <1>8, <1>9 DEF BaseInv

LEMMA HandlerBaseInv ==
  ASSUME BaseInv, proc = "running", NEW t \in Threads, Handler(t) PROVE BaseInv'
  <1>. DEFINE q == probe[t]
              h == HandlerCounts(slot[t][q], t)
  <1>1. q \in Probes /\ slot[t][q] \in Slots(Threads) /\ h \in Slots(Threads)
    <2>1. q \in Probes /\ slot[t][q] \in Slots(Threads)
      BY DEF BaseInv, TypeOK
    <2>. QED  BY <2>1, SlotFacts
  <1>2. UNCHANGED <<program, loaded, created, joined, proc, iter, probe, result,
                    num_probes>>
    BY DEF Handler
  <1>3. /\ slot' = [slot EXCEPT ![t][q] = h]
        /\ pc[t] = "trap" /\ pc' = [pc EXCEPT ![t] = "store"]
        /\ tmp' = [tmp EXCEPT ![t] = num_probes]
        /\ hits' = hits + 1 /\ overlap' \in BOOLEAN
    BY DEF Handler
  <1>4. TypeOK'
    <2>1. slot' \in [Threads -> [Probes -> Slots(Threads)]]
      BY <1>1, <1>3 DEF BaseInv, TypeOK
    <2>. QED  BY <1>2, <1>3, <2>1 DEF BaseInv, TypeOK
  <1>5. MainInv'
    <2>1. result' = [result EXCEPT ![t] = result[t]]
      BY <1>2 DEF BaseInv, TypeOK
    <2>. QED  BY <1>2, <1>3, <2>1, MainUntouched
  <1>6. ThreadInv(t)'
    BY <1>2, <1>3
    DEF BaseInv, TypeOK, ThreadInv, CountingInv, NastyInv, Nasty, Counting,
        Called, LastProbe
  <1>7. SlotInv(t)'
    <2>1. ASSUME NEW p \in Probes
          PROVE  /\ slot'[t][p].utid = slot[t][p].utid
                 /\ p # q => slot'[t][p] = slot[t][p]
      <3>1. h.utid = slot[t][q].utid
        BY <1>1, SlotFacts
      <3>2. slot'[t] = [slot[t] EXCEPT ![q] = h]
        BY <1>1, <1>3 DEF BaseInv, TypeOK
      <3>. QED  BY <1>1, <3>1, <3>2 DEF BaseInv, TypeOK
    <2>2. slot'[t][q].kcount = Incr(slot[t][q].kcount)
      <3>1. slot'[t][q] = h
        BY <1>1, <1>3 DEF BaseInv, TypeOK
      <3>2. h.kcount = Incr(slot[t][q].kcount)
        BY <1>1, SlotFacts
      <3>. QED  BY <3>1, <3>2
    <2>3. ASSUME NEW p \in Called
          PROVE  /\ CallsMade(t, p)' = CallsMade(t, p) /\ ~InFlight(t, p)
                 /\ InFlight(t, p)' <=> p = q
      BY <1>2, <1>3 DEF BaseInv, TypeOK, CallsMade, InFlight
    <2>4. loaded
      BY <1>3 DEF BaseInv, ThreadInv
    <2>5. ASSUME Counting(t) PROVE q \in Called /\ iter[t] \in 0 .. (Iters - 1)
      <3>1. CountingInv(t) /\ iter[t] \in 0 .. Iters
        BY <2>5 DEF BaseInv, TypeOK, ThreadInv
      <3>. QED  BY <1>3, <3>1, ParameterFacts DEF CountingInv
    <2>6. ASSUME Counting(t), NEW p \in Called
          PROVE  CallsMade(t, p) \in 0 .. Iters /\ (p = q => CallsMade(t, p) < Iters)
      BY <2>5, <2>6, ParameterFacts DEF CallsMade, Called, LastProbe
    <2>7. ASSUME Counting(t), result[t] = 0, NEW p \in Called
          PROVE  /\ slot'[t][p].kcount =
                      CountAfter(CallsMade(t, p)' + (IF InFlight(t, p)' THEN 1 ELSE 0))
                 /\ ~InFlight(t, p)' =>
                      slot'[t][p].ucount = CountAfter(CallsMade(t, p)')
      <3>1. /\ slot[t][p].kcount = CountAfter(CallsMade(t, p))
            /\ slot[t][p].ucount = CountAfter(CallsMade(t, p))
        BY <2>3, <2>4, <2>6, <2>7 DEF BaseInv, SlotInv
      <3>2. CASE p = q
        BY <2>2, <2>3, <2>6, <2>7, <3>1, <3>2, CountAfterFacts
      <3>3. CASE p # q
        BY <2>1, <2>3, <2>6, <2>7, <3>1, <3>3, ParameterFacts
      <3>. QED  BY <3>2, <3>3
    <2>8. Counting(t)' <=> Counting(t)
      BY <1>2 DEF Counting, Nasty
    <2>9. Called' = Called
      BY <1>2 DEF Called, LastProbe
    <2>. QED
      BY <1>2, <2>1, <2>4, <2>7, <2>8, <2>9 DEF BaseInv, SlotInv
  <1>8. ASSUME NEW u \in Threads, u # t PROVE ThreadInv(u)' /\ SlotInv(u)'
    BY <1>2, <1>3, <1>8, OtherThread DEF BaseInv, TypeOK
  <1>. QED  BY <1>4, <1>5, <1>6, <1>7, <1>8 DEF BaseInv

\* The steps of a thread that leave its slots alone: the store of num_probes
\* and the ends of the nasty thread.
LEMMA QuietBaseInv ==
  ASSUME BaseInv, proc = "running", NEW t \in Threads,
         Store(t) \/ Suicide(t) \/ ExecFails(t)
  PROVE  BaseInv'
  <1>1. UNCHANGED <<program, loaded, created, joined, proc, iter, probe, slot,
                    hits, overlap>>
    BY DEF Store, Suicide, ExecFails
  <1>2. PICK x \in {"suicide", "body", "done"}, r \in Int :
          /\ pc' = [pc EXCEPT ![t] = x] /\ pc[t] \in {"store", "trap", "suicide", "exec"}
          /\ result' = [result EXCEPT ![t] = r]
          /\ pc[t] # "exec" => r = result[t]
    <2>1. result = [result EXCEPT ![t] = result[t]] /\ result[t] \in Int
      BY DEF BaseInv, TypeOK
    <2>2. CASE Store(t)
      BY <2>1, <2>2 DEF Store
    <2>3. CASE Suicide(t)
      BY <2>1, <2>3 DEF Suicide
    <2>4. CASE ExecFails(t)
      <3>1. PICK r \in {0, 1} : result' = [result EXCEPT ![t] = r]
        BY <2>4 DEF ExecFails
      <3>. QED
        BY <2>4, <3>1, r \in Int, "done" \in {"suicide", "body", "done"} DEF ExecFails
    <2>. QED  BY <2>2, <2>3, <2>4
  <1>3. TypeOK'
    <2>1. tmp' \in [Threads -> ULong] /\ num_probes' \in ULong
      BY IncrType, WidthFacts
      DEF BaseInv, TypeOK, Store, Suicide, ExecFails, ULong
    <2>. QED  BY <1>1, <1>2, <2>1 DEF BaseInv, TypeOK
  <1>4. MainInv'
    BY <1>1, <1>2, MainUntouched
  <1>5. ThreadInv(t)'
    BY <1>1, <1>2
    DEF BaseInv, TypeOK, ThreadInv, CountingInv, NastyInv, Nasty, Counting,
        Called, LastProbe, Store, Suicide, ExecFails
  <1>6. SlotInv(t)'
    <2>1. CASE Nasty(t)
      BY <1>1, <2>1 DEF BaseInv, SlotInv, Nasty, Counting
    <2>2. CASE Counting(t)
      <3>1. pc[t] = "store" /\ pc'[t] = "body" /\ result'[t] = result[t]
        BY <1>1, <1>2, <2>2
        DEF BaseInv, TypeOK, ThreadInv, CountingInv, Counting, Nasty, Store,
            Suicide, ExecFails
      <3>. QED
        BY <1>1, <2>2, <3>1
        DEF BaseInv, TypeOK, SlotInv, Nasty, Counting, CallsMade, InFlight,
            Called, LastProbe
    <2>. QED  BY <2>1, <2>2 DEF Counting
  <1>7. ASSUME NEW u \in Threads, u # t PROVE ThreadInv(u)' /\ SlotInv(u)'
    BY <1>1, <1>2, <1>7, OtherThread DEF BaseInv, TypeOK
  <1>. QED  BY <1>3, <1>4, <1>5, <1>6, <1>7 DEF BaseInv

\* The process ends under its threads.
LEMMA ProcessEndsBaseInv ==
  ASSUME BaseInv, proc = "running", NEW t \in Threads, Exec(t) \/ Crash(t)
  PROVE  BaseInv'
  <1>1. /\ UNCHANGED <<program, loaded, created, joined, pc, iter, probe, slot,
                       tmp, result, num_probes, hits, overlap>>
        /\ \/ pc[t] = "exec" /\ proc' = "execed"
           \/ pc[t] = "crash" /\ proc' = "killed"
    BY DEF Exec, Crash
  <1>2. TypeOK'
    BY <1>1 DEF BaseInv, TypeOK
  <1>3. MainInv'
    BY <1>1
    DEF BaseInv, MainInv, ThreadInv, CountingInv, NastyInv, Counting
  <1>4. ASSUME NEW u \in Threads PROVE ThreadInv(u)' /\ SlotInv(u)'
    BY <1>1, <1>4, OtherThread DEF BaseInv, TypeOK
  <1>. QED  BY <1>2, <1>3, <1>4 DEF BaseInv

\* What a compare can return: with the module loaded an agreed count, without
\* it -1.
LEMMA ResultFacts ==
  ASSUME BaseInv, NEW t \in Threads, pc[t] = "body", Counting(t)
  PROVE  LET q == probe[t]
             s == UserCounts(slot[t][q])
         IN  /\ q \in Called /\ q \in Probes
             /\ iter[t] \in 0 .. (Iters - 1)
             /\ s \in Slots(Threads) /\ s.utid \in {NoTid, t}
             /\ s.kcount = slot[t][q].kcount
             /\ ProbeResult(s) \in Int
             /\ loaded => s.kcount = CountAfter(iter[t] + 1)
             /\ (loaded /\ ProbeResult(s) >= 0) => s.ucount = s.kcount
             /\ ~loaded => ProbeResult(s) < 0
  <1>. DEFINE q == probe[t]
              s == UserCounts(slot[t][q])
  <1>1. CountingInv(t) /\ result[t] = 0 /\ iter[t] \in 0 .. Iters
    BY DEF BaseInv, TypeOK, ThreadInv
  <1>2. q \in Called /\ q \in Probes /\ iter[t] \in 0 .. (Iters - 1)
    BY <1>1, ParameterFacts DEF CountingInv
  <1>3. slot[t][q] \in Slots(Threads) /\ slot[t][q].utid \in {NoTid, t}
    BY <1>2 DEF BaseInv, TypeOK, SlotInv
  <1>4. /\ s \in Slots(Threads) /\ s.utid = slot[t][q].utid
        /\ s.kcount = slot[t][q].kcount /\ ProbeResult(s) \in Int
        /\ s.kcount = NotCounting => ProbeResult(s) < 0
    BY <1>3, SlotFacts
  <1>5. CallsMade(t, q) = iter[t] /\ InFlight(t, q)
    BY <1>2, ParameterFacts DEF CallsMade, InFlight, Probes
  <1>6. loaded => s.kcount = CountAfter(iter[t] + 1)
    BY <1>1, <1>2, <1>4, <1>5 DEF BaseInv, SlotInv
  <1>7. loaded => s.kcount # NotCounting
    BY <1>2, <1>6, CountAfterFacts, ParameterFacts
  <1>8. (loaded /\ ProbeResult(s) >= 0) => s.ucount = s.kcount
    BY <1>7 DEF ProbeResult
  <1>9. ~loaded => ProbeResult(s) < 0
    BY <1>2, <1>4 DEF BaseInv, SlotInv
  <1>. QED  BY <1>2, <1>3, <1>4, <1>6, <1>8, <1>9

LEMMA CountBodyBaseInv ==
  ASSUME BaseInv, proc = "running", NEW t \in Threads, CountBody(t)
  PROVE  BaseInv'
  <1>. DEFINE q == probe[t]
              s == UserCounts(slot[t][q])
              r == ProbeResult(s)
  <1>1. /\ pc[t] = "body" /\ Counting(t)
        /\ UNCHANGED <<program, loaded, created, joined, proc, tmp, num_probes,
                       hits, overlap>>
        /\ slot' = [slot EXCEPT ![t][q] = s]
    BY DEF CountBody
  <1>2. /\ q \in Called /\ q \in Probes
        /\ iter[t] \in 0 .. (Iters - 1)
        /\ s \in Slots(Threads) /\ s.utid \in {NoTid, t}
        /\ s.kcount = slot[t][q].kcount
        /\ r \in Int
        /\ loaded => s.kcount = CountAfter(iter[t] + 1)
        /\ (loaded /\ r >= 0) => s.ucount = s.kcount
        /\ ~loaded => r < 0
    BY <1>1, ResultFacts
  <1>. DEFINE x == IF r < 0 THEN "done"
                   ELSE IF q # LastProbe \/ iter[t] + 1 < Iters THEN "call" ELSE "done"
              v == IF r < 0 THEN r ELSE 0
              n == IF r >= 0 /\ q = LastProbe THEN iter[t] + 1 ELSE iter[t]
              w == IF r < 0 THEN q ELSE IF q = LastProbe THEN 0 ELSE q + 1
  <1>3. /\ pc' = [pc EXCEPT ![t] = x]
        /\ result' = [result EXCEPT ![t] = v]
        /\ iter' = [iter EXCEPT ![t] = n]
        /\ probe' = [probe EXCEPT ![t] = w]
    <2>1. /\ result = [result EXCEPT ![t] = 0] /\ iter = [iter EXCEPT ![t] = iter[t]]
          /\ probe = [probe EXCEPT ![t] = q]
      BY <1>1 DEF BaseInv, TypeOK, ThreadInv
    <2>2. CASE r < 0
      BY <1>2, <2>1, <2>2 DEF CountBody
    <2>3. CASE r >= 0 /\ q # LastProbe
      BY <1>2, <2>1, <2>3 DEF CountBody
    <2>4. CASE r >= 0 /\ q = LastProbe
      BY <1>2, <2>1, <2>4 DEF CountBody
    <2>. QED  BY <1>2, <2>2, <2>3, <2>4
  <1>4. /\ x \in {"call", "done"} /\ v \in Int /\ n \in 0 .. Iters /\ w \in Called
         /\ \/ x = "done" /\ v = r /\ v < 0 /\ n = iter[t] /\ w = q
            \/ x = "call" /\ v = 0 /\ r >= 0 /\ n = iter[t]
               /\ q < LastProbe /\ w = q + 1
            \/ /\ v = 0 /\ r >= 0 /\ n = iter[t] + 1
               /\ q = LastProbe /\ w = 0
               /\ x = IF n < Iters THEN "call" ELSE "done"
    BY <1>2, ParameterFacts DEF Called, Probes
  <1>. HIDE DEF x, v, n, w
  <1>5. TypeOK'
    <2>1. slot' \in [Threads -> [Probes -> Slots(Threads)]]
      BY <1>1, <1>2 DEF BaseInv, TypeOK
    <2>2. w \in Probes
      BY <1>4, ParameterFacts
    <2>. QED  BY <1>1, <1>3, <1>4, <2>1, <2>2 DEF BaseInv, TypeOK
  <1>6. MainInv'
    BY <1>1, <1>3, <1>4, MainUntouched
  <1>7. ThreadInv(t)'
    <2>1. /\ Counting(t)' /\ ~Nasty(t)' /\ pc'[t] = x /\ result'[t] = v
          /\ iter'[t] = n /\ probe'[t] = w /\ loaded' = loaded
          /\ program' = program /\ Called' = Called
      BY <1>1, <1>3, <1>4
      DEF BaseInv, TypeOK, Counting, Nasty, Called, LastProbe
    <2>2. CountingInv(t)'
      <3>1. x # "done" => n < Iters
        BY <1>2, <1>4, ParameterFacts
      <3>2. x = "done" => \/ v < 0
                          \/ v = 0 /\ loaded /\ n = Iters /\ w = 0
        BY <1>2, <1>4, ParameterFacts
      <3>. QED  BY <1>4, <2>1, <3>1, <3>2 DEF CountingInv
    <2>3. (~loaded => iter[t] = 0)
      BY DEF BaseInv, ThreadInv
    <2>. QED  BY <1>2, <1>3, <1>4, <2>1, <2>2, <2>3 DEF ThreadInv
  <1>8. SlotInv(t)'
    <2>1. ASSUME NEW p \in Probes
          PROVE  /\ slot'[t][p].utid \in {NoTid, t}
                 /\ slot'[t][p].kcount = slot[t][p].kcount
                 /\ p # q => slot'[t][p] = slot[t][p]
                 /\ p = q => slot'[t][p] = s
      <3>1. slot'[t] = [slot[t] EXCEPT ![q] = s]
        BY <1>1 DEF BaseInv, TypeOK
      <3>. QED  BY <1>2, <3>1 DEF BaseInv, TypeOK, SlotInv
    <2>2. ASSUME loaded, v = 0, NEW p \in Called
          PROVE  /\ slot'[t][p].kcount =
                      CountAfter(CallsMade(t, p)' + (IF InFlight(t, p)' THEN 1 ELSE 0))
                 /\ ~InFlight(t, p)' =>
                      slot'[t][p].ucount = CountAfter(CallsMade(t, p)')
      <3>1. r >= 0 /\ result[t] = 0
        BY <1>1, <1>3, <1>4, <2>2 DEF BaseInv, ThreadInv
      <3>2. ~InFlight(t, p)' /\ pc'[t] = x /\ iter'[t] = n /\ probe'[t] = w
        BY <1>3, <1>4 DEF BaseInv, TypeOK, InFlight
      <3>3. p \in 0 .. LastProbe /\ q \in 0 .. LastProbe /\ LastProbe \in Nat
        BY <1>2, ParameterFacts DEF Called, Probes
      <3>4. CallsMade(t, p)' = CallsMade(t, p) + (IF p = q THEN 1 ELSE 0)
        BY <1>1, <1>2, <1>3, <1>4, <2>2, <3>1, <3>2, <3>3 DEF CallsMade
      <3>5. CASE p = q
        <4>1. CallsMade(t, p) = iter[t]
          BY <1>2, <3>3, <3>5 DEF CallsMade
        <4>. QED  BY <1>2, <2>1, <2>2, <3>1, <3>2, <3>4, <3>5, <4>1, ParameterFacts
      <3>6. CASE p # q
        <4>1. CallsMade(t, p) \in Int /\ ~InFlight(t, p)
          BY <1>2, <3>6 DEF CallsMade, InFlight
        <4>2. /\ slot[t][p].kcount = CountAfter(CallsMade(t, p))
              /\ slot[t][p].ucount = CountAfter(CallsMade(t, p))
          BY <1>1, <2>2, <3>1, <4>1 DEF BaseInv, SlotInv
        <4>. QED  BY <2>1, <3>2, <3>4, <3>6, <4>1, <4>2, ParameterFacts
      <3>. QED  BY <3>5, <3>6
    <2>3. /\ Counting(t)' <=> Counting(t)
          /\ Called' = Called /\ result'[t] = v /\ loaded' = loaded
      BY <1>1, <1>3, <1>4 DEF BaseInv, TypeOK, Counting, Nasty, Called, LastProbe
    <2>. QED  BY <2>1, <2>2, <2>3 DEF BaseInv, SlotInv
  <1>9. ASSUME NEW u \in Threads, u # t PROVE ThreadInv(u)' /\ SlotInv(u)'
    BY <1>1, <1>3, <1>4, <1>9, OtherThread DEF BaseInv, TypeOK
  <1>. QED  BY <1>5, <1>6, <1>7, <1>8, <1>9 DEF BaseInv

LEMMA NastyBodyBaseInv ==
  ASSUME BaseInv, proc = "running", NEW t \in Threads, NastyBody(t)
  PROVE  BaseInv'
  <1>. DEFINE q == probe[t]
              s == UserCounts(slot[t][q])
              fails == program = "texec" /\ ProbeResult(s) < 0
              x == IF program = "texec" /\ ~fails THEN "exec" ELSE "done"
              r == IF fails THEN ProbeResult(s) ELSE 0
  <1>1. /\ pc[t] = "body" /\ Nasty(t)
        /\ UNCHANGED <<program, loaded, created, joined, proc, iter, probe, tmp,
                       num_probes, hits, overlap>>
        /\ slot' = [slot EXCEPT ![t][q] = s]
        /\ pc' = [pc EXCEPT ![t] = x] /\ result' = [result EXCEPT ![t] = r]
    BY DEF NastyBody
  <1>2. /\ q \in Probes /\ s \in Slots(Threads) /\ s.utid = slot[t][q].utid
        /\ s.kcount = slot[t][q].kcount
        /\ r \in Int
    <2>1. q \in Probes /\ slot[t][q] \in Slots(Threads)
      BY DEF BaseInv, TypeOK
    <2>2. ProbeResult(slot[t][q]) \in Int /\ s \in Slots(Threads)
      BY <2>1, SlotFacts
    <2>. QED  BY <2>1, <2>2, SlotFacts
  <1>3. TypeOK'
    <2>1. slot' \in [Threads -> [Probes -> Slots(Threads)]]
      BY <1>1, <1>2 DEF BaseInv, TypeOK
    <2>. QED  BY <1>1, <1>2, <2>1 DEF BaseInv, TypeOK
  <1>4. MainInv'
    BY <1>1, <1>2, MainUntouched
  <1>5. ThreadInv(t)'
    <2>1. /\ pc'[t] = x /\ result'[t] = r /\ Nasty(t)' /\ ~Counting(t)'
          /\ UNCHANGED <<program, loaded>> /\ iter'[t] = iter[t] /\ hits' = hits
      BY <1>1 DEF BaseInv, TypeOK, Nasty, Counting
    <2>2. ThreadInv(t) /\ NastyInv(t)
      BY <1>1 DEF BaseInv, ThreadInv
    <2>. QED  BY <1>1, <2>1, <2>2 DEF ThreadInv, NastyInv
  <1>6. SlotInv(t)'
    <2>1. ASSUME NEW p \in Probes
          PROVE  /\ slot'[t][p].utid = slot[t][p].utid
                 /\ slot'[t][p].kcount = slot[t][p].kcount
      <3>1. slot'[t] = [slot[t] EXCEPT ![q] = s]
        BY <1>1 DEF BaseInv, TypeOK
      <3>. QED  BY <1>2, <3>1 DEF BaseInv, TypeOK
    <2>. QED  BY <1>1, <2>1 DEF BaseInv, SlotInv, Counting, Nasty
  <1>7. ASSUME NEW u \in Threads, u # t PROVE ThreadInv(u)' /\ SlotInv(u)'
    BY <1>1, <1>7, OtherThread DEF BaseInv, TypeOK
  <1>. QED  BY <1>3, <1>4, <1>5, <1>6, <1>7 DEF BaseInv

\* Every step of the program preserves BaseInv.
THEOREM NextBaseInv == BaseInv /\ [Next]_vars => BaseInv'
  <1>. SUFFICES ASSUME BaseInv, [Next]_vars PROVE BaseInv'
    OBVIOUS
  <1>1. CASE Main
    BY <1>1, CreateBaseInv, OtherMainBaseInv DEF Main
  <1>2. ASSUME NEW t \in Threads, Thread(t) PROVE BaseInv'
    BY <1>2, CallBaseInv, HandlerBaseInv, QuietBaseInv, CountBodyBaseInv,
       NastyBodyBaseInv, ProcessEndsBaseInv
    DEF Thread
  <1>3. CASE UNCHANGED vars
    BY <1>3
    DEF vars, BaseInv, TypeOK, MainInv, ThreadInv, CountingInv, NastyInv, SlotInv,
        Nasty, Counting, CallsMade, InFlight, Called, LastProbe
  <1>. QED  BY <1>1, <1>2, <1>3 DEF Next, Terminated

\* Every reachable state satisfies BaseInv, on every build.
THEOREM BaseInvariant == Spec => []BaseInv
  BY InitBaseInv, NextBaseInv, PTL DEF Spec

-----------------------------------------------------------------------------
(* ExactInv. *)

\* ExactInv, of one thread.
ExactThread(t) ==
  (loaded /\ Counting(t)) =>
    /\ result[t] = 0
    /\ \A p \in Called :
         InFlight(t, p) => slot[t][p].ucount = CountAfter(CallsMade(t, p))

LEMMA ExactThreads == ExactInv <=> \A t \in Threads : ExactThread(t)
  BY DEF ExactInv, ExactThread

\* What the steps do that are not in flight afterwards, or leave a call in
\* flight as it is.
LEMMA ExactFrame ==
  ASSUME NEW t \in Threads, ExactThread(t), UNCHANGED <<program, loaded>>,
         result'[t] = result[t], slot'[t] = slot[t], iter'[t] = iter[t],
         probe'[t] = probe[t],
         \/ pc'[t] = pc[t]
         \/ pc'[t] \notin {"store", "suicide", "body"}
         \/ pc[t] = "store" /\ pc'[t] = "body"
  PROVE  ExactThread(t)'
  BY DEF ExactThread, Counting, Nasty, CallsMade, InFlight, Called, LastProbe

\* The handler finds the user's count as the last call left it, and leaves it
\* so: the reset of a first hit writes what is there already.
LEMMA HandlerExact ==
  ASSUME KtidStoreHarmless, BaseInv, NEW t \in Threads, ExactThread(t), Handler(t)
  PROVE  ExactThread(t)'
  <1>. DEFINE q == probe[t]
              h == HandlerCounts(slot[t][q], t)
  <1>1. /\ UNCHANGED <<program, loaded, iter, probe, result>>
        /\ slot' = [slot EXCEPT ![t][q] = h]
        /\ pc[t] = "trap" /\ pc'[t] = "store"
    BY DEF Handler, BaseInv, TypeOK
  <1>. SUFFICES ASSUME loaded, Counting(t), NEW p \in Called, InFlight(t, p)'
                PROVE  /\ result[t] = 0
                       /\ slot'[t][p].ucount = CountAfter(CallsMade(t, p)')
    BY <1>1 DEF ExactThread, Counting, Nasty, Called, LastProbe
  <1>2. result[t] = 0
    BY DEF ExactThread
  <1>3. p = q /\ q \in Called /\ q \in Probes
    BY <1>1, ParameterFacts DEF InFlight
  <1>4. iter[t] \in 0 .. (Iters - 1)
    <2>1. CountingInv(t) /\ iter[t] \in 0 .. Iters
      BY DEF BaseInv, TypeOK, ThreadInv
    <2>. QED  BY <1>1, <2>1, ParameterFacts DEF CountingInv
  <1>5. CallsMade(t, q) = iter[t] /\ ~InFlight(t, q) /\ CallsMade(t, p)' = iter[t]
    BY <1>1, <1>3, <1>4, ParameterFacts DEF CallsMade, InFlight, Probes
  <1>6. /\ slot[t][q].kcount = CountAfter(iter[t])
        /\ slot[t][q].ucount = CountAfter(iter[t])
    BY <1>2, <1>3, <1>4, <1>5 DEF BaseInv, SlotInv
  <1>7. slot'[t][q].ucount = IF slot[t][q].kcount = NotCounting
                             THEN slot[t][q].kcount
                             ELSE AfterKtidStore(slot[t][q].ucount)
    <2>1. slot[t][q] \in Slots(Threads)
      BY <1>3 DEF BaseInv, TypeOK
    <2>2. slot'[t][q] = h
      BY <1>1, <1>3 DEF BaseInv, TypeOK
    <2>3. h.ucount = IF slot[t][q].kcount = NotCounting
                     THEN slot[t][q].kcount ELSE AfterKtidStore(slot[t][q].ucount)
      BY <2>1, SlotFacts
    <2>. QED  BY <2>2, <2>3
  <1>8. slot'[t][q].ucount = CountAfter(iter[t])
    <2>1. iter[t] \in 0 .. Iters /\ iter[t] < Iters
      BY <1>4, ParameterFacts
    <2>2. CountAfter(iter[t]) = NotCounting <=> iter[t] = 0
      BY <2>1, CountAfterFacts
    <2>3. iter[t] > 0 =>
            AfterKtidStore(CountAfter(iter[t])) = CountAfter(iter[t])
      BY <2>1, KtidStoreFacts
    <2>4. CASE iter[t] = 0
      BY <1>6, <1>7, <2>2, <2>4
    <2>5. CASE iter[t] # 0
      <3>1. slot[t][q].kcount # NotCounting /\ iter[t] > 0
        BY <1>6, <2>1, <2>2, <2>5
      <3>. QED  BY <1>6, <1>7, <2>3, <3>1
    <2>. QED  BY <2>4, <2>5
  <1>. QED  BY <1>2, <1>3, <1>5, <1>8

\* The call returns how often it was made before: the compare succeeds.
LEMMA CountBodyExact ==
  ASSUME KtidStoreHarmless, BaseInv, NEW t \in Threads, ExactThread(t),
         CountBody(t)
  PROVE  ExactThread(t)'
  <1>. DEFINE q == probe[t]
              s == UserCounts(slot[t][q])
  <1>. SUFFICES ASSUME loaded PROVE ExactThread(t)'
    BY DEF ExactThread, CountBody
  <1>1. pc[t] = "body" /\ Counting(t) /\ result[t] = 0
    BY DEF CountBody, ExactThread
  <1>2. /\ q \in Called /\ q \in Probes /\ iter[t] \in 0 .. (Iters - 1)
        /\ s.kcount = CountAfter(iter[t] + 1)
    BY <1>1, ResultFacts
  <1>3. CallsMade(t, q) = iter[t] /\ InFlight(t, q)
    BY <1>1, <1>2, ParameterFacts DEF CallsMade, InFlight, Probes
  <1>4. slot[t][q].ucount = CountAfter(iter[t])
    BY <1>1, <1>2, <1>3 DEF ExactThread
  <1>5. s.ucount = CountAfter(iter[t] + 1)
    <2>1. slot[t][q] \in Slots(Threads)
      BY <1>2 DEF BaseInv, TypeOK
    <2>2. s.ucount = Incr(slot[t][q].ucount)
      BY <2>1, SlotFacts
    <2>. QED  BY <1>2, <1>4, <2>2, CountAfterFacts, ParameterFacts
  <1>6. ProbeResult(s) = iter[t]
    BY <1>2, <1>5, CountAfterFacts, ParameterFacts DEF ProbeResult
  <1>7. ~(ProbeResult(s) < 0)
    BY <1>2, <1>6, ParameterFacts
  <1>8. result' = result /\ pc'[t] \in {"call", "done"}
    BY <1>1, <1>7 DEF CountBody, BaseInv, TypeOK
  <1>. QED  BY <1>1, <1>8 DEF ExactThread, InFlight

\* Where the store of ktid is harmless, every step keeps both invariants.
THEOREM NextExactInv ==
  ASSUME KtidStoreHarmless PROVE BaseInv /\ ExactInv /\ [Next]_vars => ExactInv'
  <1>. SUFFICES ASSUME BaseInv, ExactInv, [Next]_vars, NEW u \in Threads
                PROVE  ExactThread(u)'
    BY ExactThreads DEF ExactInv, ExactThread
  <1>1. ExactThread(u)
    BY ExactThreads
  <1>2. CASE Main
    <2>1. /\ UNCHANGED <<program, loaded, iter, slot, result>>
          /\ \/ pc'[u] = pc[u] /\ probe'[u] = probe[u]
             \/ pc'[u] \in {"call", "crash"}
      BY <1>2
      DEF Main, Create, CreateFails, Join, BaseInv, TypeOK, FirstPc
    <2>. QED
      BY <1>1, <2>1
      DEF ExactThread, Counting, Nasty, CallsMade, InFlight, Called, LastProbe
  <1>3. ASSUME NEW t \in Threads, Thread(t) PROVE ExactThread(u)'
    <2>1. CASE u # t
      <3>1. /\ UNCHANGED <<program, loaded>>
            /\ result'[u] = result[u] /\ slot'[u] = slot[u] /\ iter'[u] = iter[u]
            /\ probe'[u] = probe[u] /\ pc'[u] = pc[u]
        BY <1>3, <2>1
        DEF Thread, Call, Handler, Store, Suicide, CountBody, NastyBody, Exec,
            ExecFails, Crash, BaseInv, TypeOK
      <3>. QED  BY <1>1, <3>1, ExactFrame
    <2>2. CASE u = t /\ Handler(t)
      BY <1>1, <2>2, HandlerExact
    <2>3. CASE u = t /\ CountBody(t)
      BY <1>1, <2>3, CountBodyExact
    <2>4. CASE u = t /\ Call(t)
      <3>1. /\ UNCHANGED <<program, loaded, result, iter, probe>>
            /\ pc[t] = "call" /\ pc'[t] = IF loaded THEN "trap" ELSE "body"
        BY <2>4 DEF Call, BaseInv, TypeOK
      <3>. QED
        BY <1>1, <2>4, <3>1
        DEF ExactThread, Counting, Nasty, InFlight, Called, LastProbe
    <2>5. CASE u = t /\ (Store(t) \/ Suicide(t) \/ Exec(t) \/ Crash(t))
      <3>1. /\ UNCHANGED <<program, loaded, result, iter, probe, slot>>
            /\ \/ pc'[t] = pc[t]
               \/ pc'[t] = "done"
               \/ pc[t] = "store" /\ pc'[t] \in {"suicide", "body"}
        BY <2>5 DEF Store, Suicide, Exec, Crash, BaseInv, TypeOK
      <3>. QED
        BY <1>1, <2>5, <3>1
        DEF ExactThread, Counting, Nasty, CallsMade, InFlight, Called, LastProbe
    <2>6. CASE u = t /\ (NastyBody(t) \/ ExecFails(t))
      <3>1. Nasty(t) /\ program' = program
        <4>1. CASE NastyBody(t)
          BY <4>1 DEF NastyBody
        <4>2. CASE ExecFails(t)
          BY <4>2 DEF ExecFails, BaseInv, ThreadInv, CountingInv, Counting
        <4>. QED  BY <2>6, <4>1, <4>2
      <3>. QED  BY <2>6, <3>1 DEF ExactThread, Counting, Nasty
    <2>. QED  BY <1>3, <2>1, <2>2, <2>3, <2>4, <2>5, <2>6 DEF Thread
  <1>4. CASE UNCHANGED vars
    BY <1>1, <1>4, ExactFrame DEF vars
  <1>. QED  BY <1>2, <1>3, <1>4 DEF Next, Terminated

\* Where the store of ktid is harmless, ucount is intact in every state, during
\* a call too.
THEOREM ExactInvariant == ASSUME KtidStoreHarmless PROVE Spec => []ExactInv
  <1>1. Init => ExactInv
    BY ParameterFacts DEF Init, ExactInv, InFlight, Counting, Nasty
  <1>2. BaseInv /\ ExactInv /\ [Next]_vars => ExactInv'
    BY NextExactInv
  <1>. QED  BY <1>1, <1>2, BaseInvariant, PTL DEF Spec

-----------------------------------------------------------------------------
(* num_probes. *)

\* What has to be known besides NumProbesBound: a handler that has loaded
\* num_probes has itself been counted in hits, and without overlap it is alone
\* and will store the next value.
CounterInv ==
  /\ \A t \in Threads : pc[t] = "store" => tmp[t] < hits
  /\ ~overlap => \A t, u \in Threads :
       pc[t] = "store" => /\ tmp[t] = num_probes
                          /\ pc[u] = "store" => u = t

NumInv == BaseInv /\ CounterInv /\ NumProbesBound

LEMMA HandlerNumInv ==
  ASSUME NumInv, NEW t \in Threads, Handler(t)
  PROVE  CounterInv' /\ NumProbesBound'
  <1>1. /\ pc[t] = "trap" /\ pc' = [pc EXCEPT ![t] = "store"]
        /\ tmp' = [tmp EXCEPT ![t] = num_probes]
        /\ hits' = hits + 1 /\ num_probes' = num_probes
        /\ ~overlap' => ~overlap /\ \A u \in Threads : pc[u] # "store"
    BY DEF Handler, NumInv, BaseInv, TypeOK
  <1>2. hits \in Nat /\ num_probes \in Nat /\ num_probes <= hits
    BY WidthFacts DEF NumInv, BaseInv, TypeOK, NumProbesBound, ULong
  <1>3. CounterInv'
    <2>1. ASSUME NEW u \in Threads, pc'[u] = "store" PROVE tmp'[u] < hits'
      <3>1. CASE u = t
        BY <1>1, <1>2, <3>1 DEF NumInv, BaseInv, TypeOK
      <3>2. CASE u # t
        <4>1. tmp'[u] = tmp[u] /\ tmp[u] \in Nat /\ tmp[u] < hits
          BY <1>1, <2>1, <3>2, WidthFacts DEF NumInv, BaseInv, TypeOK, CounterInv, ULong
        <4>. QED  BY <1>1, <1>2, <4>1
      <3>. QED  BY <3>1, <3>2
    <2>2. ASSUME ~overlap', NEW u \in Threads, NEW v \in Threads, pc'[u] = "store"
          PROVE  tmp'[u] = num_probes' /\ (pc'[v] = "store" => v = u)
      <3>1. \A y \in Threads : pc'[y] = "store" => y = t
        BY <1>1, <2>2 DEF NumInv, BaseInv, TypeOK
      <3>. QED  BY <1>1, <2>2, <3>1 DEF NumInv, BaseInv, TypeOK
    <2>. QED  BY <2>1, <2>2 DEF CounterInv
  <1>4. NumProbesBound'
    <2>1. pc'[t] = "store"
      BY <1>1 DEF NumInv, BaseInv, TypeOK
    <2>. QED
      BY <1>1, <1>2, <2>1, WidthFacts DEF NumInv, NumProbesBound
  <1>. QED  BY <1>3, <1>4

LEMMA StoreNumInv ==
  ASSUME NumInv, NEW t \in Threads, Store(t)
  PROVE  CounterInv' /\ NumProbesBound'
  <1>1. /\ pc[t] = "store" /\ num_probes' = Incr(tmp[t])
        /\ tmp' = [tmp EXCEPT ![t] = 0]
        /\ \E x \in {"suicide", "body"} : pc' = [pc EXCEPT ![t] = x]
        /\ UNCHANGED <<hits, overlap>>
    BY DEF Store
  <1>2. /\ hits \in Nat /\ tmp[t] \in ULong /\ tmp[t] < hits
        /\ num_probes' \in 0 .. (tmp[t] + 1)
        /\ tmp[t] + 1 < ULongMod => num_probes' = tmp[t] + 1
    BY <1>1, WidthFacts DEF NumInv, BaseInv, TypeOK, CounterInv, ULong, Incr
  <1>3. pc'[t] # "store" /\ \A u \in Threads : u # t => pc'[u] = pc[u] /\ tmp'[u] = tmp[u]
    BY <1>1 DEF NumInv, BaseInv, TypeOK
  <1>4. CounterInv'
    BY <1>1, <1>2, <1>3 DEF NumInv, CounterInv
  <1>5. NumProbesBound'
    BY <1>1, <1>2, <1>3, WidthFacts
    DEF NumInv, CounterInv, NumProbesBound, ULong
  <1>. QED  BY <1>4, <1>5

\* No hit is invented, and none is lost unless two handlers overlap.
THEOREM NumProbesInvariant == Spec => []NumProbesBound
  <1>1. Init => CounterInv /\ NumProbesBound
    BY DEF Init, CounterInv, NumProbesBound
  <1>2. NumInv /\ [Next]_vars => CounterInv' /\ NumProbesBound'
    <2>. SUFFICES ASSUME NumInv, [Next]_vars
                  PROVE  CounterInv' /\ NumProbesBound'
      OBVIOUS
    <2>1. CASE \E t \in Threads : Handler(t)
      BY <2>1, HandlerNumInv
    <2>2. CASE \E t \in Threads : Store(t)
      BY <2>2, StoreNumInv
    <2>3. CASE \/ Main \/ UNCHANGED vars
               \/ \E t \in Threads :
                    \/ Call(t) \/ Suicide(t) \/ CountBody(t) \/ NastyBody(t)
                    \/ Exec(t) \/ ExecFails(t) \/ Crash(t)
      <3>1. /\ UNCHANGED <<tmp, num_probes, hits, overlap>>
            /\ \A u \in Threads : pc'[u] = "store" <=> pc[u] = "store"
        <4>1. CASE Main
          <5>1. /\ UNCHANGED <<tmp, num_probes, hits, overlap>>
                /\ \/ pc' = pc
                   \/ created + 1 \in Threads /\ pc[created + 1] = "none"
                      /\ pc' = [pc EXCEPT ![created + 1] = FirstPc(created + 1)]
            BY <4>1, ParameterFacts
            DEF NumInv, BaseInv, MainInv, TypeOK, Main, Create, CreateFails, Join,
                Threads
          <5>2. FirstPc(created + 1) # "store"
            BY DEF FirstPc
          <5>. QED  BY <5>1, <5>2 DEF NumInv, BaseInv, TypeOK
        <4>2. CASE UNCHANGED vars
          BY <4>2 DEF vars
        <4>3. ASSUME NEW t \in Threads,
                     \/ Call(t) \/ Suicide(t) \/ CountBody(t)
                     \/ NastyBody(t) \/ Exec(t) \/ ExecFails(t) \/ Crash(t)
              PROVE  /\ UNCHANGED <<tmp, num_probes, hits, overlap>>
                     /\ pc' = pc \/ \E x \in {"trap", "body", "call", "exec", "done"} :
                                      pc' = [pc EXCEPT ![t] = x]
                     /\ pc[t] # "store"
          BY <4>3, Zenon
          DEF Call, Suicide, CountBody, NastyBody, Exec, ExecFails, Crash
        <4>. QED  BY <2>3, <4>1, <4>2, <4>3 DEF NumInv, BaseInv, TypeOK
      <3>. QED  BY <3>1 DEF NumInv, CounterInv, NumProbesBound
    <2>. QED  BY <2>1, <2>2, <2>3 DEF Next, Thread, Terminated
  <1>. QED  BY <1>1, <1>2, BaseInvariant, PTL DEF Spec, NumInv

-----------------------------------------------------------------------------
(* The properties of the runs, for every value of the constants. *)

\* Every variable keeps its type.
THEOREM TypeCorrect == Spec => []TypeOK
  <1>1. BaseInv => TypeOK
    BY DEF BaseInv
  <1>. QED  BY <1>1, BaseInvariant, PTL

\* ***PASSED*** means that every call of every counting thread was counted by
\* both sides, on every build.
THEOREM PassSound == Spec => []PassMeansCounted
  <1>1. BaseInv => PassMeansCounted
    <2>. SUFFICES ASSUME BaseInv, proc = "passed", NEW t \in Threads, Counting(t),
                         NEW p \in Called
                  PROVE  /\ slot[t][p].kcount = Iters - 1
                         /\ slot[t][p].ucount = Iters - 1
      BY DEF PassMeansCounted
    <2>1. joined = NumThreads /\ t <= joined
      BY DEF BaseInv, MainInv, Threads
    <2>2. pc[t] = "done" /\ result[t] = 0
      BY <2>1 DEF BaseInv, MainInv
    <2>3. CountingInv(t)
      BY DEF BaseInv, ThreadInv
    <2>4. loaded /\ iter[t] = Iters
      BY <2>2, <2>3 DEF CountingInv
    <2>5. CallsMade(t, p) = Iters /\ ~InFlight(t, p)
      BY <2>2, <2>4, ParameterFacts DEF CallsMade, InFlight
    <2>6. /\ slot[t][p].kcount = CountAfter(Iters)
          /\ slot[t][p].ucount = CountAfter(Iters)
      BY <2>2, <2>4, <2>5, ParameterFacts DEF BaseInv, SlotInv
    <2>. QED  BY <2>6, ParameterFacts DEF CountAfter
  <1>. QED  BY <1>1, BaseInvariant, PTL

\* Without the module no call is counted, and no test with a counting thread
\* passes.
THEOREM MissingModule == Spec => []MissingModuleFails
  <1>1. (~loaded => num_probes = 0) /\ BaseInv => MissingModuleFails
    <2>. SUFFICES ASSUME ~loaded, num_probes = 0, BaseInv
                  PROVE  /\ \A t \in Threads : iter[t] = 0
                         /\ proc = "passed" => \A t \in Threads : Nasty(t)
      BY DEF MissingModuleFails
    <2>1. \A t \in Threads : iter[t] = 0
      BY DEF BaseInv, ThreadInv
    <2>2. ASSUME proc = "passed", NEW t \in Threads PROVE Nasty(t)
      <3>1. pc[t] = "done" /\ result[t] = 0
        BY <2>2 DEF BaseInv, MainInv, Threads
      <3>. QED  BY <3>1 DEF BaseInv, ThreadInv, CountingInv, Counting
    <2>. QED  BY <2>1, <2>2
  <1>2. Init => (~loaded => num_probes = 0)
    BY DEF Init
  <1>3. BaseInv /\ (~loaded => num_probes = 0) /\ [Next]_vars
          => (~loaded => num_probes = 0)'
    <2>. SUFFICES ASSUME BaseInv, ~loaded, num_probes = 0, [Next]_vars
                  PROVE  num_probes' = 0
      <3>1. [Next]_vars => loaded' = loaded
        BY DEF vars, Next, Main, Thread, Terminated, Create, CreateFails, Join,
               Call, Handler, Store, Suicide, CountBody, NastyBody, Exec,
               ExecFails, Crash
      <3>. QED  BY <3>1
    <2>1. \A t \in Threads : ~Store(t)
      BY DEF BaseInv, ThreadInv, Store
    <2>. QED
      BY <2>1
      DEF vars, Next, Main, Thread, Terminated, Create, CreateFails, Join, Call,
          Handler, Suicide, CountBody, NastyBody, Exec, ExecFails, Crash
  <1>. QED  BY <1>1, <1>2, <1>3, BaseInvariant, PTL DEF Spec

\* Whichever thread does something nasty, the verdict is the right one.
THEOREM NastyEndsWell == Spec => []NastyEnds
  <1>1. BaseInv => NastyEnds
    <2>. SUFFICES ASSUME BaseInv PROVE NastyEnds
      OBVIOUS
    <2>1. ASSUME proc = "passed" PROVE program # "tdie"
      <3>1. NumThreads \in Threads /\ pc[NumThreads] = "done"
        BY <2>1, ParameterFacts DEF BaseInv, MainInv, Threads
      <3>. QED  BY <3>1 DEF BaseInv, ThreadInv, NastyInv, Nasty
    <2>. QED  BY <2>1 DEF BaseInv, MainInv, NastyEnds
  <1>. QED  BY <1>1, BaseInvariant, PTL

\* The two counts of a slot agree between calls, on the builds on which the
\* handler's store stays within its field.
THEOREM CountsAlwaysAgree == ASSUME KtidStoreHarmless PROVE Spec => []CountsAgree
  <1>1. BaseInv /\ ExactInv => CountsAgree
    <2>. SUFFICES ASSUME BaseInv, ExactInv, loaded, NEW t \in Threads,
                         NEW p \in Called, Counting(t), ~InFlight(t, p)
                  PROVE  /\ slot[t][p].kcount = slot[t][p].ucount
                         /\ CallsMade(t, p) > 0 =>
                              slot[t][p].kcount = CallsMade(t, p) - 1
      BY DEF CountsAgree
    <2>1. iter[t] \in Nat
      BY ParameterFacts DEF BaseInv, TypeOK
    <2>2. CallsMade(t, p) \in Nat
      BY <2>1 DEF CallsMade
    <2>3. /\ slot[t][p].kcount = CountAfter(CallsMade(t, p))
          /\ slot[t][p].ucount = CountAfter(CallsMade(t, p))
      BY <2>2 DEF BaseInv, SlotInv, ExactInv
    <2>. QED  BY <2>2, <2>3 DEF CountAfter
  <1>. QED  BY <1>1, BaseInvariant, ExactInvariant, PTL

\* A loaded module never makes a test fail that should pass, on those builds.
THEOREM NoFalseAlarms == ASSUME KtidStoreHarmless PROVE Spec => []NoFalseAlarm
  <1>1. BaseInv /\ ExactInv => NoFalseAlarm
    <2>. SUFFICES ASSUME BaseInv, ExactInv, loaded PROVE NoFalseAlarm
      BY DEF NoFalseAlarm
    <2>1. \A t \in Threads : Counting(t) => result[t] = 0
      BY DEF ExactInv
    <2>2. ASSUME proc = "failed" PROVE program = "texec"
      <3>1. PICK t \in Threads : result[t] # 0
        BY <2>2 DEF BaseInv, MainInv
      <3>. QED  BY <2>1, <3>1 DEF BaseInv, ThreadInv, NastyInv, Counting
    <2>3. proc = "internal" => created < NumThreads
      BY DEF BaseInv, MainInv
    <2>. QED  BY <2>1, <2>2, <2>3 DEF NoFalseAlarm
  <1>. QED  BY <1>1, BaseInvariant, ExactInvariant, PTL
=============================================================================
