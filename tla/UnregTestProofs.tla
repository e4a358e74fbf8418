--------------------------- MODULE UnregTestProofs ---------------------------
(***************************************************************************)
(* Theorems about UnregTest, for any number of threads, probe points and   *)
(* rounds, and every width of int and ulong.                               *)
(*                                                                         *)
(* ModuleInv says what the module has registered, PartInv what the threads *)
(* of the present part have found.  Every hit is an element of the set Hit *)
(* of this part or belongs to a part that is over, which HitInv counts: so *)
(* a sum over the threads is the cardinality of a set.                     *)
(***************************************************************************)
EXTENDS UnregTest, ProbeSlotProofs, FiniteSetTheorems, TLAPS

\* The module has registered the first num_reg_probes probe points and has them
\* in the entries of probes[] of the same numbers, the others are zero.
ModuleInv ==
  /\ \A i \in 0 .. (MaxProbes - 1) :
       probes[i] = IF i < num_reg_probes THEN i ELSE NoEntry
  /\ registered = IF module = "unloaded" THEN {} ELSE 0 .. (num_reg_probes - 1)
  /\ module = "refused" => num_reg_probes = 0

\* Where the program is while the module comes and goes, and how far.
ProcInv ==
  /\ module = "loading" <=> proc = "stopped"
  /\ module = "unloaded" => proc \in Ended
  /\ proc = "stopped" => created = 0 /\ joined = 0 /\ round = 0 /\ part = 1 /\ hits = 0
  /\ joined < NumThreads
  /\ joined # 0 => created = NumThreads
  /\ proc = "running" => round < Iters

\* Thread t of this part, in the first part, or the second; which is reached if
\* the threads of the first have found every probe point counting.
FirstPart(t) ==
  /\ \A p \in Probes : p < probe[t] => p < num_reg_probes
  /\ pc[t] = "done" =>
       IF num_reg_probes = NumProbes THEN result[t] = 0 /\ probe[t] = LastProbe
                                     ELSE result[t] = -1 /\ probe[t] = num_reg_probes

SecondPart(t) == probe[t] = 0 /\ result[t] = 0

Fresh(t) ==
  /\ result[t] = 0
  /\ \A p \in Probes : p >= probe[t] => slot[t][p] = NewSlot

PartInv ==
  proc \in {"stopped", "running"} =>
    /\ \A t \in Threads : t > created => pc[t] # "call"
    /\ \A t \in 1 .. created :
         /\ pc[t] \in {"call", "done"}
         /\ pc[t] = "call" => Fresh(t)
         /\ IF part = 1 THEN FirstPart(t) ELSE SecondPart(t)
    /\ \A t \in 1 .. joined : pc[t] = "done" /\ result[t] = 0
    /\ part = 2 \/ round > 0 => num_reg_probes = NumProbes

\* What the threads of this part have hit.
Hit == {h \in (1 .. created) \X (0 .. (num_reg_probes - 1)) :
          \/ h[2] < probe[h[1]]
          \/ h[2] = probe[h[1]] /\ pc[h[1]] = "done"}

\* The hits of a first part, and of a round.
FirstHits == NumThreads * NumProbes
RoundHits == FirstHits + NumThreads

HitInv ==
  proc # "failed" =>
    hits = round * RoundHits + (IF part = 2 THEN FirstHits ELSE 0) + Cardinality(Hit)

VerdictInv ==
  /\ proc = "passed" => num_reg_probes = NumProbes /\ round = Iters /\ part = 1
                          /\ created = 0
  /\ proc = "failed" => num_reg_probes < NumProbes

UnregInv ==
  /\ TypeOK
  /\ ModuleInv
  /\ ProcInv
  /\ PartInv
  /\ HitInv
  /\ VerdictInv

-----------------------------------------------------------------------------
(* The parameters, a first call, and the set Hit. *)

LEMMA Parameters ==
  /\ NumThreads \in Nat /\ NumThreads > 0 /\ NumProbes \in Nat /\ NumProbes > 0
  /\ Iters \in Nat /\ Iters > 0 /\ MaxProbes \in Nat /\ NumProbes < MaxProbes
  BY UnregAssumption

\* The first call of a probe function with a new slot returns 0 if the kernel
\* is counting, and else -1.
LEMMA FirstCall ==
  ASSUME NEW t \in Threads
  PROVE  /\ UserCounts([NewSlot EXCEPT !.utid = t]) \in Slots(Threads)
         /\ ProbeResult(UserCounts([NewSlot EXCEPT !.utid = t])) = -1
         /\ UserCounts([HandlerCounts(NewSlot, t) EXCEPT !.utid = t])
              \in Slots(Threads)
         /\ ProbeResult(UserCounts([HandlerCounts(NewSlot, t) EXCEPT !.utid = t])) = 0
  <1>1. /\ NotCounting \in ULong /\ NotCounting # 0 /\ 0 \in ULong
        /\ Incr(NotCounting) = 0
    BY WidthFacts DEF NotCounting, ULong, Incr
  <1>2. /\ ToInt(NotCounting) = -1
        /\ ToInt(0) = 0
    BY ToIntNotCounting, ToIntSmall, WidthFacts
  <1> DEFINE s == [NewSlot EXCEPT !.utid = t]
             h == HandlerCounts(NewSlot, t)
             k == [h EXCEPT !.utid = t]
  <1>3. NewSlot \in Slots(Threads)
    BY NewSlotType
  <1>4. s \in Slots(Threads) /\ s.kcount = NotCounting
    BY <1>3 DEF Slots, NewSlot
  <1>5. UserCounts(s) \in Slots(Threads) /\ UserCounts(s).kcount = NotCounting
    BY <1>4, SlotFacts
  <1>6. h \in Slots(Threads) /\ h.kcount = 0 /\ h.ucount = NotCounting
    <2>1. NewSlot.kcount = NotCounting
      BY DEF NewSlot
    <2>. QED  BY <1>1, <1>3, <2>1, SlotFacts
  <1>7. k \in Slots(Threads) /\ k.kcount = 0 /\ k.ucount = NotCounting
    <2>. HIDE DEF h
    <2>. QED  BY <1>6 DEF Slots
  <1>8. /\ UserCounts(k) \in Slots(Threads)
        /\ UserCounts(k).kcount = 0 /\ UserCounts(k).ucount = 0
    <2>. HIDE DEF k
    <2>. QED  BY <1>1, <1>7, SlotFacts
  <1>. QED  BY <1>1, <1>2, <1>5, <1>8 DEF ProbeResult

\* How often each thread hits a probe point, and how often all of them can.
LEMMA HitBound ==
  ASSUME TypeOK
  PROVE  /\ FirstHits \in Nat /\ RoundHits \in Nat /\ RoundHits <= 2 * FirstHits
         /\ IsFiniteSet(Hit) /\ Cardinality(Hit) \in Nat
         /\ Cardinality(Hit) <= FirstHits
         /\ Cardinality(Threads \X Probes) = FirstHits
         /\ Cardinality(Threads \X {0}) = NumThreads
  <1>1. /\ IsFiniteSet(Threads) /\ Cardinality(Threads) = NumThreads
        /\ IsFiniteSet(Probes) /\ Cardinality(Probes) = NumProbes
        /\ IsFiniteSet({0}) /\ Cardinality({0}) = 1
    <2>1. IsFiniteSet(Threads) /\ Cardinality(Threads) = NumThreads - 1 + 1
      BY Parameters, FS_Interval DEF Threads
    <2>2. IsFiniteSet(Probes) /\ Cardinality(Probes) = NumProbes - 1 - 0 + 1
      BY Parameters, FS_Interval DEF Probes
    <2>3. IsFiniteSet({0}) /\ Cardinality({0}) = 1
      BY FS_Singleton
    <2>. QED  BY <2>1, <2>2, <2>3, Parameters
  <1>2. /\ IsFiniteSet(Threads \X Probes)
        /\ Cardinality(Threads \X Probes) = FirstHits
    BY <1>1, FS_Product DEF FirstHits
  <1>3. Cardinality(Threads \X {0}) = NumThreads
    <2>1. Cardinality(Threads \X {0}) = NumThreads * 1
      BY <1>1, FS_Product
    <2>. QED  BY <2>1, Parameters
  <1>4. Hit \in SUBSET (Threads \X Probes)
    <2>1. 1 .. created \subseteq Threads /\ 0 .. (num_reg_probes - 1) \subseteq Probes
      BY Parameters DEF TypeOK, Threads, Probes
    <2>. QED  BY <2>1 DEF Hit
  <1>5. IsFiniteSet(Hit) /\ Cardinality(Hit) <= FirstHits /\ Cardinality(Hit) \in Nat
    BY <1>2, <1>4, FS_Subset, FS_CardinalityType
  <1>6. FirstHits \in Nat /\ NumThreads <= FirstHits
    <2>1. NumThreads * NumProbes \in Nat /\ NumThreads * NumProbes >= NumThreads
      BY Parameters
    <2>. QED  BY <2>1 DEF FirstHits
  <1>. QED  BY <1>2, <1>3, <1>5, <1>6, Parameters DEF RoundHits

LEMMA NoThreadNoHit == created = 0 => Hit = {} /\ Cardinality(Hit) = 0
  <1>1. created = 0 => Hit = {}
    BY DEF Hit
  <1>. QED  BY <1>1, FS_EmptySet

\* The rounds of an int multiply, as rounds do.
LEMMA RoundsOfHits ==
  ASSUME NEW n \in Nat, NEW r \in Nat, NEW i \in Nat, NEW f \in Nat, NEW c \in Nat,
         r < i, n <= 2 * f, c <= 2 * f
  PROVE  /\ r * n + c \in Nat /\ r * n + c <= 2 * i * f
         /\ (r + 1) * n = r * n + n
  <1>1. r * n \in Nat /\ (r + 1) * n = r * n + n
    OBVIOUS
  <1>2. r * n <= r * (2 * f)
    OBVIOUS
  <1>3. (r + 1) * (2 * f) <= i * (2 * f)
    <2>1. PICK k \in Nat : i = r + 1 + k
      <3>1. i - r - 1 \in Nat
        OBVIOUS
      <3>. QED  BY <3>1
    <2>2. i * (2 * f) = (r + 1) * (2 * f) + k * (2 * f) /\ k * (2 * f) \in Nat
      BY <2>1
    <2>3. (r + 1) * (2 * f) \in Nat
      OBVIOUS
    <2>. QED  BY <2>2, <2>3
  <1>4. (r + 1) * (2 * f) = r * (2 * f) + 2 * f /\ i * (2 * f) = 2 * i * f
    OBVIOUS
  <1>5. r * (2 * f) \in Nat /\ 2 * i * f \in Nat
    OBVIOUS
  <1>. QED  BY <1>1, <1>2, <1>3, <1>4, <1>5

-----------------------------------------------------------------------------
(* UnregInv is inductive. *)

\* Before the module registers anything the invariant holds.
THEOREM UnregInit == Init => UnregInv
  <1>. SUFFICES ASSUME Init PROVE UnregInv
    OBVIOUS
  <1>1. TypeOK
    <2>1. slot \in [Threads -> [Probes -> Slots(Threads)]]
      BY NewSlotType DEF Init
    <2>3. 2 * Iters * NumThreads * NumProbes \in Nat
      BY Parameters
    <2>4. probe \in [Threads -> Probes]
      BY Parameters DEF Init, Probes
    <2>5. hits = 0 /\ hits2 = 0
      BY DEF Init
    <2>6. hits \in 0 .. (2 * Iters * NumThreads * NumProbes) /\ hits2 \in 0 .. hits
      BY <2>3, <2>5
    <2>. QED  BY <2>1, <2>4, <2>6, Parameters DEF Init, TypeOK, Ended
  <1>2. ModuleInv
    BY Parameters DEF Init, ModuleInv
  <1>3. ProcInv
    BY Parameters DEF Init, ProcInv, Ended
  <1>4. PartInv
    BY DEF Init, PartInv
  <1>5. HitInv
    BY HitBound, NoThreadNoHit, <1>1 DEF Init, HitInv
  <1>6. VerdictInv
    BY DEF Init, VerdictInv
  <1>. QED  BY <1>1, <1>2, <1>3, <1>4, <1>5, <1>6 DEF UnregInv

\* A step of the module, or the end of the program that is killed.
LEMMA ModuleStep ==
  ASSUME UnregInv, Module \/ Kill
  PROVE  UnregInv'
  <1>a. TypeOK /\ ModuleInv /\ ProcInv /\ PartInv /\ HitInv /\ VerdictInv
    BY DEF UnregInv
  <1>b. /\ UNCHANGED <<round, part, created, joined, pc, probe, slot, result, hits, hits2>>
        /\ num_reg_probes \in 0 .. NumProbes
    BY <1>a DEF Module, Register, Loaded, LoadFails, Kill, Unload, modVars, mainVars,
                threadVars, TypeOK
  <1>1. ASSUME Register PROVE UnregInv'
    <2>a. /\ module = "loading" /\ num_reg_probes < NumProbes /\ UNCHANGED <<module, proc>>
          /\ registered' = registered \cup {num_reg_probes}
          /\ probes' = [probes EXCEPT ![num_reg_probes] = num_reg_probes]
          /\ num_reg_probes' = num_reg_probes + 1
      BY <1>1 DEF Register
    <2>b. /\ proc = "stopped" /\ created = 0 /\ joined = 0 /\ round = 0 /\ part = 1
          /\ hits = 0
      BY <1>a, <2>a DEF ProcInv
    <2>1. TypeOK'
      BY <1>a, <1>b, <2>a, Parameters DEF TypeOK, Probes
    <2>2. ModuleInv'
      BY <1>a, <1>b, <2>a, Parameters DEF TypeOK, ModuleInv
    <2>3. ProcInv'
      BY <1>a, <1>b, <2>a DEF ProcInv
    <2>4. PartInv'
      BY <1>a, <1>b, <2>a, <2>b DEF PartInv
    <2>5. HitInv'
      <3>1. Hit' = {} /\ Cardinality(Hit') = 0
        BY <1>b, <2>b, FS_EmptySet DEF Hit
      <3>2. RoundHits \in Nat
        BY <1>a, HitBound
      <3>. QED  BY <1>b, <2>b, <3>1, <3>2 DEF HitInv
    <2>6. VerdictInv'
      BY <1>b, <2>a, <2>b DEF VerdictInv
    <2>. QED  BY <2>1, <2>2, <2>3, <2>4, <2>5, <2>6 DEF UnregInv
  <1>2. ASSUME ~Register PROVE UnregInv'
    <2>a. UNCHANGED <<probes, num_reg_probes>>
      BY <1>2 DEF Module, Loaded, LoadFails, Kill, Unload, modVars
    <2>b. Hit' = Hit /\ Cardinality(Hit') = Cardinality(Hit)
      BY <1>b, <2>a DEF Hit
    <2>c. \A t \in Threads : /\ FirstPart(t)' <=> FirstPart(t)
                             /\ SecondPart(t)' <=> SecondPart(t)
                             /\ Fresh(t)' <=> Fresh(t)
      BY <1>b, <2>a DEF FirstPart, SecondPart, Fresh
    <2>d. 1 .. created \subseteq Threads
      BY <1>a, Parameters DEF TypeOK, Threads
    <2>1. CASE Loaded \/ LoadFails
      <3>a. /\ module = "loading" /\ module' \in {"loaded", "refused"} /\ proc' = "running"
            /\ registered' = registered
            /\ module' = "refused" => num_reg_probes = 0
        BY <2>1 DEF Loaded, LoadFails
      <3>b. /\ proc = "stopped" /\ created = 0 /\ joined = 0 /\ round = 0 /\ part = 1
        BY <1>a, <3>a DEF ProcInv
      <3>1. TypeOK'
        BY <1>a, <1>b, <2>a, <3>a DEF TypeOK
      <3>2. ModuleInv' /\ ProcInv' /\ VerdictInv'
        BY <1>a, <1>b, <2>a, <3>a, <3>b, Parameters DEF ModuleInv, ProcInv, VerdictInv
      <3>3. PartInv'
        BY <1>a, <1>b, <2>a, <3>a, <3>b DEF PartInv
      <3>4. HitInv'
        BY <1>a, <1>b, <2>b, <3>a, <3>b DEF HitInv, FirstHits, RoundHits
      <3>. QED  BY <3>1, <3>2, <3>3, <3>4 DEF UnregInv
    <2>2. CASE Kill
      <3>a. /\ module = "refused" /\ proc = "running" /\ proc' = "killed"
            /\ UNCHANGED <<module, registered>>
        BY <2>2 DEF Kill, modVars
      <3>1. TypeOK'
        BY <1>a, <1>b, <2>a, <3>a DEF TypeOK, Ended
      <3>2. ModuleInv' /\ ProcInv' /\ VerdictInv'
        BY <1>a, <1>b, <2>a, <3>a DEF ModuleInv, ProcInv, VerdictInv, Ended
      <3>3. PartInv'
        BY <3>a DEF PartInv
      <3>4. HitInv'
        BY <1>a, <1>b, <2>b, <3>a DEF HitInv, FirstHits, RoundHits
      <3>. QED  BY <3>1, <3>2, <3>3, <3>4 DEF UnregInv
    <2>3. CASE Unload
      <3>a. /\ module = "loaded" /\ module' = "unloaded" /\ proc' = proc
            /\ proc \notin {"stopped", "running"}
            /\ registered' = registered \ {probes[i] : i \in 0 .. num_reg_probes}
        BY <2>3 DEF Unload
      <3>b. registered' = {}
        <4>1. ASSUME NEW p \in registered
              PROVE  p \in 0 .. num_reg_probes /\ probes[p] = p
          <5>1. p \in 0 .. (num_reg_probes - 1)
            BY <1>a, <3>a, <4>1 DEF ModuleInv
          <5>2. p \in 0 .. (MaxProbes - 1) /\ p < num_reg_probes
                /\ p \in 0 .. num_reg_probes
            BY <1>b, <5>1, Parameters
          <5>. QED  BY <1>a, <5>2 DEF ModuleInv
        <4>. QED  BY <3>a, <4>1
      <3>1. TypeOK'
        BY <1>a, <1>b, <2>a, <3>a, <3>b DEF TypeOK
      <3>2. ModuleInv' /\ ProcInv' /\ VerdictInv'
        BY <1>a, <1>b, <2>a, <3>a, <3>b DEF TypeOK, ModuleInv, ProcInv, VerdictInv, Ended
      <3>3. PartInv'
        BY <3>a DEF PartInv
      <3>4. HitInv'
        BY <1>a, <1>b, <2>b, <3>a DEF HitInv, FirstHits, RoundHits
      <3>. QED  BY <3>1, <3>2, <3>3, <3>4 DEF UnregInv
    <2>. QED  BY <1>2, <2>1, <2>2, <2>3 DEF Module
  <1>. QED  BY <1>1, <1>2

\* What a call finds, and what it does.
LEMMA CallFacts ==
  ASSUME UnregInv, NEW t \in Threads, CallProbe(t)
  PROVE  /\ proc = "running" /\ pc[t] = "call" /\ t \in 1 .. created /\ Fresh(t)
         /\ UNCHANGED <<module, probes, num_reg_probes, registered, round, part, created,
                        joined, proc>>
         /\ \E u \in Slots(Threads) : slot' = [slot EXCEPT ![t][probe[t]] = u]
         /\ IF part = 1 <=> probe[t] < num_reg_probes
            THEN /\ result' = result
                 /\ IF probe[t] < LastProbe
                    THEN probe' = [probe EXCEPT ![t] = probe[t] + 1] /\ pc' = pc
                    ELSE probe' = probe /\ pc' = [pc EXCEPT ![t] = "done"]
            ELSE /\ result' = [result EXCEPT
                                 ![t] = IF probe[t] < num_reg_probes THEN 0 ELSE -1]
                 /\ probe' = probe /\ pc' = [pc EXCEPT ![t] = "done"]
         /\ IF probe[t] < num_reg_probes
            THEN hits' = hits + 1 /\ hits2' \in {hits2, hits2 + 1}
            ELSE hits' = hits /\ hits2' = hits2
  <1>a. TypeOK /\ ModuleInv /\ ProcInv /\ PartInv
    BY DEF UnregInv
  <1>1. /\ proc = "running" /\ pc[t] = "call"
        /\ UNCHANGED <<module, probes, num_reg_probes, registered, round, part, created,
                       joined, proc>>
    BY DEF CallProbe, modVars, mainVars
  <1>2. t \in 1 .. created
    BY <1>a, <1>1, Parameters DEF PartInv, TypeOK, Threads
  <1>3. Fresh(t)
    BY <1>a, <1>1, <1>2 DEF PartInv
  <1>4. probe[t] \in Probes /\ num_reg_probes \in 0 .. NumProbes /\ part \in {1, 2}
    BY <1>a DEF TypeOK
  <1>5. probe[t] \in registered <=> probe[t] < num_reg_probes
    <2>1. module # "unloaded"
      BY <1>a, <1>1 DEF ProcInv, Ended
    <2>. QED  BY <1>a, <1>4, <2>1, Parameters DEF ModuleInv, Probes
  <1> DEFINE p == probe[t]
             s == IF p \in registered THEN HandlerCounts(slot[t][p], t)
                                      ELSE slot[t][p]
             u == UserCounts([s EXCEPT !.utid = t])
             r == ProbeResult(u)
  <1>6. slot[t][p] = NewSlot
    BY <1>3, <1>4, Parameters DEF Fresh, Probes
  <1>7. u \in Slots(Threads) /\ r = IF p < num_reg_probes THEN 0 ELSE -1
    <2>1. CASE p \in registered
      BY <1>5, <1>6, <2>1, FirstCall
    <2>2. CASE p \notin registered
      BY <1>5, <1>6, <2>2, FirstCall
    <2>. QED  BY <2>1, <2>2
  <1>8. /\ slot' = [slot EXCEPT ![t][p] = u]
        /\ IF GoesOn(r)
           THEN /\ result' = result
                /\ IF p < LastProbe
                   THEN probe' = [probe EXCEPT ![t] = p + 1] /\ pc' = pc
                   ELSE pc' = [pc EXCEPT ![t] = "done"] /\ probe' = probe
           ELSE /\ result' = [result EXCEPT ![t] = r]
                /\ pc' = [pc EXCEPT ![t] = "done"]
                /\ probe' = probe
        /\ hits'  = IF p \in registered THEN hits + 1 ELSE hits
        /\ hits2' = IF p \in registered /\ part = 2 THEN hits2 + 1 ELSE hits2
    BY DEF CallProbe
  <1> HIDE DEF u, r
  <1>9. GoesOn(r) <=> (part = 1 <=> p < num_reg_probes)
    BY <1>4, <1>7 DEF GoesOn
  <1>10. \E x \in Slots(Threads) : slot' = [slot EXCEPT ![t][p] = x]
    BY <1>7, <1>8
  <1>11. IF p < num_reg_probes
         THEN hits' = hits + 1 /\ hits2' \in {hits2, hits2 + 1}
         ELSE hits' = hits /\ hits2' = hits2
    BY <1>5, <1>8
  <1>. QED  BY <1>1, <1>2, <1>3, <1>7, <1>8, <1>9, <1>10, <1>11

\* A thread calls a probe function.
LEMMA CallStep ==
  ASSUME UnregInv, NEW t \in Threads, CallProbe(t)
  PROVE  UnregInv'
  <1> DEFINE p == probe[t]
             n == num_reg_probes
             goes == part = 1 <=> p < n
  <1>a. TypeOK /\ ModuleInv /\ ProcInv /\ PartInv /\ HitInv /\ VerdictInv
    BY DEF UnregInv
  <1>b. /\ proc = "running" /\ pc[t] = "call" /\ t \in 1 .. created /\ Fresh(t)
        /\ UNCHANGED <<module, probes, num_reg_probes, registered, round, part, created,
                       joined, proc>>
    BY CallFacts
  <1>c. /\ p \in Nat /\ n \in Nat /\ p <= LastProbe /\ n <= NumProbes
        /\ LastProbe = NumProbes - 1 /\ created \in Nat /\ created <= NumThreads
        /\ joined \in Nat /\ round \in Nat /\ part \in {1, 2} /\ p \in Probes
        /\ hits \in Nat /\ hits2 \in 0 .. hits /\ result[t] = 0
    BY <1>a, <1>b, Parameters DEF TypeOK, Probes, LastProbe, Fresh
  <1>d. PICK p2 \in Probes, c2 \in {"call", "done"}, r2 \in {-1, 0}, u \in Slots(Threads) :
          /\ probe' = [probe EXCEPT ![t] = p2]
          /\ pc' = [pc EXCEPT ![t] = c2]
          /\ result' = [result EXCEPT ![t] = r2]
          /\ slot' = [slot EXCEPT ![t][p] = u]
          /\ p2 = IF goes /\ p < LastProbe THEN p + 1 ELSE p
          /\ c2 = IF goes /\ p < LastProbe THEN "call" ELSE "done"
          /\ r2 = IF goes \/ p < n THEN 0 ELSE -1
    <2>1. PICK u \in Slots(Threads) : slot' = [slot EXCEPT ![t][p] = u]
      BY CallFacts
    <2>2. /\ probe = [probe EXCEPT ![t] = p]
          /\ pc = [pc EXCEPT ![t] = "call"]
          /\ result = [result EXCEPT ![t] = 0]
      BY <1>a, <1>b, <1>c DEF TypeOK
    <2>3. CASE goes /\ p < LastProbe
      <3>1. /\ result' = result /\ pc' = pc
            /\ probe' = [probe EXCEPT ![t] = p + 1]
        BY <2>3, CallFacts
      <3>2. p + 1 \in Probes
        BY <1>c, <2>3, Parameters DEF Probes
      <3>. QED  BY <2>1, <2>2, <2>3, <3>1, <3>2
    <2>4. CASE goes /\ ~(p < LastProbe)
      <3>1. /\ result' = result /\ probe' = probe
            /\ pc' = [pc EXCEPT ![t] = "done"]
        BY <2>4, CallFacts
      <3>. QED  BY <1>c, <2>1, <2>2, <2>4, <3>1
    <2>5. CASE ~goes
      <3>1. /\ result' = [result EXCEPT ![t] = IF p < n THEN 0 ELSE -1]
            /\ probe' = probe /\ pc' = [pc EXCEPT ![t] = "done"]
        BY <2>5, CallFacts
      <3>. QED  BY <1>c, <2>1, <2>2, <2>5, <3>1
    <2>. QED  BY <2>3, <2>4, <2>5
  <1>e. \A x \in Threads :
          /\ probe'[x] = IF x = t THEN p2 ELSE probe[x]
          /\ pc'[x] = IF x = t THEN c2 ELSE pc[x]
          /\ result'[x] = IF x = t THEN r2 ELSE result[x]
          /\ \A q \in Probes : q # p \/ x # t => slot'[x][q] = slot[x][q]
    BY <1>a, <1>d DEF TypeOK
  <1>f. /\ 1 .. created \subseteq Threads
        /\ part = 2 => n = NumProbes /\ p = 0
        /\ part = 1 => \A q \in Probes : q < p => q < n
    <2>1. 1 .. created \subseteq Threads
      BY <1>c, Parameters DEF Threads
    <2>. QED  BY <1>a, <1>b, <1>c, <2>1 DEF PartInv, FirstPart, SecondPart
  <1> HIDE DEF p
  <1>1. /\ probe' \in [Threads -> Probes] /\ pc' \in [Threads -> {"none", "call", "done"}]
        /\ result' \in [Threads -> {-2, -1, 0}]
        /\ slot' \in [Threads -> [Probes -> Slots(Threads)]]
    <2>1. /\ probe' \in [Threads -> Probes]
          /\ pc' \in [Threads -> {"none", "call", "done"}]
          /\ result' \in [Threads -> {-2, -1, 0}]
      BY <1>a, <1>d DEF TypeOK
    <2>2. slot' \in [Threads -> [Probes -> Slots(Threads)]]
      BY <1>a, <1>c, <1>d DEF TypeOK
    <2>. QED  BY <2>1, <2>2
  <1>2. ModuleInv' /\ ProcInv' /\ VerdictInv'
    BY <1>a, <1>b DEF ModuleInv, ProcInv, VerdictInv
  <1>3. PartInv'
    <2>1. ASSUME NEW x \in 1 .. created
          PROVE  /\ pc'[x] \in {"call", "done"}
                 /\ pc'[x] = "call" => Fresh(x)'
                 /\ IF part = 1 THEN FirstPart(x)' ELSE SecondPart(x)'
      <3>1. x \in Threads
        BY <1>f
      <3>2. CASE x # t
        <4>1. /\ probe'[x] = probe[x] /\ pc'[x] = pc[x] /\ result'[x] = result[x]
              /\ \A q \in Probes : slot'[x][q] = slot[x][q]
          BY <1>e, <3>1, <3>2
        <4>2. /\ Fresh(x)' <=> Fresh(x)
              /\ FirstPart(x)' <=> FirstPart(x)
              /\ SecondPart(x)' <=> SecondPart(x)
          BY <1>b, <4>1 DEF Fresh, FirstPart, SecondPart
        <4>. QED  BY <1>a, <1>b, <4>1, <4>2 DEF PartInv
      <3>3. CASE x = t
        <4>a. probe'[x] = p2 /\ pc'[x] = c2 /\ result'[x] = r2
          BY <1>e, <3>3
        <4>1. CASE goes /\ p < LastProbe
          <5>1. p2 = p + 1 /\ c2 = "call" /\ r2 = 0 /\ part = 1 /\ p < n
            BY <1>c, <1>d, <1>f, <4>1, Parameters
          <5>2. Fresh(x)'
            <6>1. \A q \in Probes : q >= p + 1 => slot'[t][q] = NewSlot
              <7>1. \A q \in Probes : q >= p + 1 => q # p /\ q >= p
                BY <1>c DEF Probes
              <7>2. \A q \in Probes : q >= p => slot[t][q] = NewSlot
                BY <1>b DEF Fresh, p
              <7>. QED  BY <1>e, <7>1, <7>2
            <6>. QED  BY <3>3, <4>a, <5>1, <6>1 DEF Fresh
          <5>3. FirstPart(x)'
            BY <1>b, <1>c, <1>f, <4>a, <5>1 DEF FirstPart, Probes
          <5>. QED  BY <4>a, <5>1, <5>2, <5>3
        <4>2. CASE ~(goes /\ p < LastProbe) /\ part = 1
          <5>1. c2 = "done" /\ p2 = p
            BY <1>d, <4>2
          <5>2. IF n = NumProbes THEN r2 = 0 /\ p2 = LastProbe ELSE r2 = -1 /\ p2 = n
            <6>1. CASE p < n
              <7>1. r2 = 0 /\ p = LastProbe /\ n = NumProbes
                BY <1>c, <1>d, <4>2, <6>1, Parameters
              <7>. QED  BY <5>1, <7>1
            <6>2. CASE ~(p < n)
              <7>1. r2 = -1
                BY <1>d, <4>2, <6>2
              <7>2. p = n
                <8>1. ~(p > n)
                  <9>1. p > n => n \in Probes /\ n < p
                    BY <1>c, Parameters DEF Probes
                  <9>. QED  BY <1>c, <1>f, <4>2, <9>1
                <8>. QED  BY <1>c, <6>2, <8>1
              <7>. QED  BY <1>c, <5>1, <7>1, <7>2, Parameters
            <6>. QED  BY <6>1, <6>2
          <5>3. FirstPart(x)'
            BY <1>b, <1>f, <4>2, <4>a, <5>1, <5>2 DEF FirstPart
          <5>. QED  BY <4>2, <4>a, <5>1, <5>3
        <4>3. CASE part = 2
          <5>1. p2 = 0 /\ r2 = 0 /\ c2 = "done"
            BY <1>c, <1>d, <1>f, <4>3, Parameters
          <5>. QED  BY <4>3, <4>a, <5>1 DEF SecondPart
        <4>. QED  BY <1>c, <4>1, <4>2, <4>3, <1>f, Parameters
      <3>. QED  BY <3>2, <3>3
    <2>2. \A x \in Threads : x > created => pc'[x] # "call"
      BY <1>a, <1>b, <1>c, <1>e DEF PartInv
    <2>3. \A x \in 1 .. joined : pc'[x] = "done" /\ result'[x] = 0
      <3>1. \A x \in 1 .. joined : x \in Threads /\ x # t
        BY <1>a, <1>b, <1>c, Parameters DEF PartInv, ProcInv, Threads
      <3>. QED  BY <1>a, <1>b, <1>e, <3>1 DEF PartInv
    <2>4. part = 2 \/ round > 0 => n = NumProbes
      BY <1>a, <1>b DEF PartInv
    <2>. QED  BY <1>b, <2>1, <2>2, <2>3, <2>4 DEF PartInv
  <1>4. /\ Hit' = IF p < n THEN Hit \cup {<<t, p>>} ELSE Hit
        /\ <<t, p>> \notin Hit
    <2>1. <<t, p>> \notin Hit
      BY <1>b, <1>c DEF Hit, p
    <2>2. ASSUME NEW x \in 1 .. created, NEW q \in 0 .. (n - 1)
          PROVE  <<x, q>> \in Hit' <=> <<x, q>> \in Hit \/ (p < n /\ <<x, q>> = <<t, p>>)
      <3>1. /\ <<x, q>> \in Hit' <=> q < probe'[x] \/ (q = probe'[x] /\ pc'[x] = "done")
            /\ <<x, q>> \in Hit <=> q < probe[x] \/ (q = probe[x] /\ pc[x] = "done")
        BY <1>b DEF Hit
      <3>2. x \in Threads
        BY <1>f
      <3>3. CASE x # t
        <4>1. probe'[x] = probe[x] /\ pc'[x] = pc[x]
          BY <1>e, <3>2, <3>3
        <4>. QED  BY <3>1, <3>3, <4>1
      <3>4. CASE x = t
        <4>1. <<x, q>> \in Hit <=> q < p
          BY <1>b, <3>1, <3>4 DEF p
        <4>2. probe'[x] = p2 /\ pc'[x] = c2
          BY <1>e, <3>2, <3>4
        <4>3. q \in Int /\ q < n
          BY <1>c
        <4>4. CASE goes /\ p < LastProbe
          <5>1. p2 = p + 1 /\ c2 = "call" /\ p < n
            BY <1>c, <1>d, <1>f, <4>4, Parameters
          <5>2. <<x, q>> \in Hit' <=> q < p + 1
            BY <3>1, <4>2, <5>1
          <5>3. q < p + 1 <=> q < p \/ q = p
            BY <1>c, <4>3
          <5>. QED  BY <3>4, <4>1, <5>1, <5>2, <5>3
        <4>5. CASE ~(goes /\ p < LastProbe)
          <5>1. p2 = p /\ c2 = "done"
            BY <1>d, <4>5
          <5>2. <<x, q>> \in Hit' <=> q < p \/ q = p
            BY <3>1, <4>2, <5>1
          <5>3. q = p => p < n
            BY <4>3
          <5>. QED  BY <3>4, <4>1, <5>2, <5>3
        <4>. QED  BY <4>4, <4>5
      <3>. QED  BY <3>3, <3>4
    <2>3. /\ Hit \subseteq (1 .. created) \X (0 .. (n - 1))
          /\ Hit' \subseteq (1 .. created) \X (0 .. (n - 1))
          /\ p < n => <<t, p>> \in (1 .. created) \X (0 .. (n - 1))
      BY <1>b, <1>c DEF Hit
    <2>4. \A h : h \in Hit' <=> h \in Hit \/ (p < n /\ h = <<t, p>>)
      <3>1. \A h \in (1 .. created) \X (0 .. (n - 1)) :
              \E x \in 1 .. created, q \in 0 .. (n - 1) : h = <<x, q>>
        OBVIOUS
      <3>. QED  BY <2>2, <2>3, <3>1
    <2>. QED  BY <2>1, <2>4
  <1>5. /\ HitInv'
        /\ hits' = round * RoundHits + (IF part = 2 THEN FirstHits ELSE 0)
                     + Cardinality(Hit')
    <2>1. IsFiniteSet(Hit) /\ Cardinality(Hit) \in Nat
      BY <1>a, HitBound
    <2>2. Cardinality(Hit') = IF p < n THEN Cardinality(Hit) + 1 ELSE Cardinality(Hit)
      BY <1>4, <2>1, FS_AddElement
    <2>3. hits' = IF p < n THEN hits + 1 ELSE hits
      BY CallFacts DEF p
    <2>4. hits = round * RoundHits + (IF part = 2 THEN FirstHits ELSE 0)
                   + Cardinality(Hit)
      BY <1>a, <1>b DEF HitInv
    <2>5. round * RoundHits \in Nat /\ FirstHits \in Nat
      <3>1. RoundHits \in Nat /\ FirstHits \in Nat
        BY <1>a, HitBound
      <3>. QED  BY <1>c, <3>1
    <2>6. hits' = round * RoundHits + (IF part = 2 THEN FirstHits ELSE 0)
                    + Cardinality(Hit')
      BY <2>1, <2>2, <2>3, <2>4, <2>5
    <2>. QED  BY <1>b, <2>6 DEF HitInv, RoundHits, FirstHits
  <1>6. TypeOK'
    <2>1. /\ hits' \in Nat /\ hits2' \in 0 .. hits'
      BY <1>c, CallFacts
    <2>2. hits' <= 2 * Iters * NumThreads * NumProbes
      <3> DEFINE c == (IF part = 2 THEN FirstHits ELSE 0) + Cardinality(Hit')
      <3>1. Cardinality(Hit') \in Nat /\ Cardinality(Hit') <= FirstHits
        <4>1. Hit' \in SUBSET (Threads \X Probes)
          <5>1. 0 .. (n - 1) \subseteq Probes
            BY <1>c, Parameters DEF Probes
          <5>. QED  BY <1>b, <1>f, <5>1 DEF Hit
        <4>2. /\ IsFiniteSet(Threads \X Probes)
              /\ Cardinality(Threads \X Probes) = FirstHits
          <5>1. IsFiniteSet(Threads) /\ IsFiniteSet(Probes)
            BY Parameters, FS_Interval DEF Threads, Probes
          <5>. QED  BY <1>a, <5>1, FS_Product, HitBound
        <4>. QED  BY <4>1, <4>2, FS_Subset, FS_CardinalityType
      <3>2. /\ RoundHits \in Nat /\ FirstHits \in Nat /\ RoundHits <= 2 * FirstHits
            /\ round < Iters
        BY <1>a, <1>b, HitBound DEF ProcInv
      <3>3. c \in Nat /\ c <= 2 * FirstHits
        BY <3>1, <3>2
      <3>4. hits' = round * RoundHits + c
        <4>1. round * RoundHits \in Nat
          BY <1>c, <3>2
        <4>. QED  BY <1>5, <3>1, <3>2, <4>1
      <3> HIDE DEF c
      <3>5. round * RoundHits + c <= 2 * Iters * FirstHits
        BY <1>c, <3>2, <3>3, Parameters, RoundsOfHits
      <3>6. 2 * Iters * FirstHits = 2 * Iters * NumThreads * NumProbes
        BY Parameters DEF FirstHits
      <3>. QED  BY <3>4, <3>5, <3>6
    <2>3. 2 * Iters * NumThreads * NumProbes \in Nat
      BY Parameters
    <2>4. hits' \in 0 .. (2 * Iters * NumThreads * NumProbes)
      BY <2>1, <2>2, <2>3
    <2>. QED  BY <1>a, <1>b, <1>1, <2>1, <2>4 DEF TypeOK
  <1>. QED  BY <1>2, <1>3, <1>5, <1>6 DEF UnregInv

\* main() starts a thread.
LEMMA CreateStep ==
  ASSUME UnregInv, Create
  PROVE  UnregInv'
  <1> DEFINE t == created + 1
  <1>a. TypeOK /\ ModuleInv /\ ProcInv /\ PartInv /\ HitInv /\ VerdictInv
    BY DEF UnregInv
  <1>b. /\ proc = "running" /\ created < NumThreads /\ created' = t
        /\ pc' = [pc EXCEPT ![t] = "call"]
        /\ probe' = [probe EXCEPT ![t] = 0]
        /\ slot' = [slot EXCEPT ![t] = [p \in Probes |-> NewSlot]]
        /\ result' = [result EXCEPT ![t] = 0]
        /\ UNCHANGED <<module, probes, num_reg_probes, registered, round, part, joined,
                       proc, hits, hits2>>
    BY DEF Create, modVars
  <1>c. /\ created \in Nat /\ joined = 0 /\ t \in Threads /\ 0 \in Probes
        /\ 1 .. created \subseteq Threads /\ 1 .. t = (1 .. created) \cup {t}
    BY <1>a, <1>b, Parameters DEF TypeOK, ProcInv, Threads, Probes
  <1>d. /\ \A x \in Threads :
             /\ probe'[x] = IF x = t THEN 0 ELSE probe[x]
             /\ pc'[x] = IF x = t THEN "call" ELSE pc[x]
             /\ result'[x] = IF x = t THEN 0 ELSE result[x]
             /\ slot'[x] = IF x = t THEN [p \in Probes |-> NewSlot] ELSE slot[x]
    BY <1>a, <1>b, <1>c DEF TypeOK
  <1> HIDE DEF t
  <1>1. TypeOK'
    <2>1. /\ probe' \in [Threads -> Probes] /\ result' \in [Threads -> {-2, -1, 0}]
          /\ pc' \in [Threads -> {"none", "call", "done"}]
      BY <1>a, <1>b, <1>c DEF TypeOK
    <2>2. slot' \in [Threads -> [Probes -> Slots(Threads)]]
      <3>1. [p \in Probes |-> NewSlot] \in [Probes -> Slots(Threads)]
        BY NewSlotType
      <3>. QED  BY <1>a, <1>b, <3>1 DEF TypeOK
    <2>3. created' \in 0 .. NumThreads
      BY <1>b, <1>c, Parameters DEF Threads
    <2>. QED  BY <1>a, <1>b, <2>1, <2>2, <2>3 DEF TypeOK
  <1>2. ModuleInv' /\ ProcInv' /\ VerdictInv'
    BY <1>a, <1>b, <1>c DEF ModuleInv, ProcInv, VerdictInv
  <1>3. PartInv'
    <2>1. ASSUME NEW x \in 1 .. t
          PROVE  /\ pc'[x] \in {"call", "done"}
                 /\ pc'[x] = "call" => Fresh(x)'
                 /\ IF part = 1 THEN FirstPart(x)' ELSE SecondPart(x)'
      <3>1. CASE x = t
        <4>1. probe'[x] = 0 /\ pc'[x] = "call" /\ result'[x] = 0
              /\ \A p \in Probes : slot'[x][p] = NewSlot
          BY <1>c, <1>d, <3>1
        <4>2. Fresh(x)' /\ SecondPart(x)'
          BY <4>1 DEF Fresh, SecondPart
        <4>3. FirstPart(x)'
          BY <4>1 DEF FirstPart, Probes
        <4>. QED  BY <4>1, <4>2, <4>3
      <3>2. CASE x # t
        <4>1. x \in 1 .. created /\ x \in Threads
          BY <1>c, <3>2
        <4>2. probe'[x] = probe[x] /\ pc'[x] = pc[x] /\ result'[x] = result[x]
              /\ slot'[x] = slot[x]
          BY <1>d, <3>2, <4>1
        <4>3. /\ Fresh(x)' <=> Fresh(x)
              /\ FirstPart(x)' <=> FirstPart(x)
              /\ SecondPart(x)' <=> SecondPart(x)
          BY <1>b, <4>2 DEF Fresh, FirstPart, SecondPart
        <4>. QED  BY <1>a, <1>b, <4>1, <4>2, <4>3 DEF PartInv
      <3>. QED  BY <3>1, <3>2
    <2>2. \A x \in Threads : x > t => pc'[x] # "call"
      <3>1. \A x \in Threads : x > t => x # t /\ x > created
        BY <1>c DEF Threads, t
      <3>. QED  BY <1>a, <1>b, <1>d, <3>1 DEF PartInv
    <2>3. 1 .. joined = {}
      BY <1>c
    <2>4. part = 2 \/ round > 0 => num_reg_probes = NumProbes
      BY <1>a, <1>b DEF PartInv
    <2>. QED  BY <1>b, <2>1, <2>2, <2>3, <2>4 DEF PartInv
  <1>4. Hit' = Hit
    <2>1. ASSUME NEW x \in 1 .. t, NEW q \in 0 .. (num_reg_probes - 1)
          PROVE  <<x, q>> \in Hit' <=> <<x, q>> \in Hit
      <3>1. <<x, q>> \in Hit' <=> q < probe'[x] \/ (q = probe'[x] /\ pc'[x] = "done")
        BY <1>b DEF Hit
      <3>2. CASE x = t
        <4>1. <<x, q>> \notin Hit
          BY <1>c, <3>2 DEF Hit, t
        <4>. QED  BY <1>c, <1>d, <3>1, <3>2, <4>1
      <3>3. CASE x # t
        <4>1. x \in 1 .. created /\ x \in Threads
          BY <1>c, <3>3
        <4>2. <<x, q>> \in Hit <=> q < probe[x] \/ (q = probe[x] /\ pc[x] = "done")
          BY <4>1 DEF Hit
        <4>. QED  BY <1>d, <3>1, <3>3, <4>1, <4>2
      <3>. QED  BY <3>2, <3>3
    <2>2. /\ Hit \subseteq (1 .. t) \X (0 .. (num_reg_probes - 1))
          /\ Hit' \subseteq (1 .. t) \X (0 .. (num_reg_probes - 1))
      BY <1>b, <1>c DEF Hit
    <2>3. \A h \in (1 .. t) \X (0 .. (num_reg_probes - 1)) :
            \E x \in 1 .. t, q \in 0 .. (num_reg_probes - 1) : h = <<x, q>>
      OBVIOUS
    <2>. QED  BY <2>1, <2>2, <2>3
  <1>5. HitInv'
    BY <1>a, <1>b, <1>4 DEF HitInv, FirstHits, RoundHits
  <1>. QED  BY <1>1, <1>2, <1>3, <1>5 DEF UnregInv

\* Where every thread of a part is done, what they have hit.
LEMMA PartOver ==
  ASSUME UnregInv, proc = "running", created = NumThreads,
         \A t \in Threads : pc[t] = "done" /\ result[t] = 0
  PROVE  /\ num_reg_probes = NumProbes
         /\ Cardinality(Hit) = IF part = 1 THEN FirstHits ELSE NumThreads
  <1>a. TypeOK /\ PartInv
    BY DEF UnregInv
  <1>b. 1 .. created = Threads /\ part \in {1, 2} /\ 1 \in Threads
    BY <1>a, Parameters DEF Threads, TypeOK
  <1>1. CASE part = 1
    <2>1. \A t \in Threads : FirstPart(t)
      BY <1>a, <1>b, <1>1 DEF PartInv
    <2>2. num_reg_probes = NumProbes
      BY <1>b, <2>1 DEF FirstPart
    <2>3. \A t \in Threads : probe[t] = LastProbe
      BY <2>1, <2>2 DEF FirstPart
    <2>4. Hit = Threads \X Probes
      <3>1. ASSUME NEW h \in Threads \X Probes
            PROVE  h[2] < probe[h[1]] \/ (h[2] = probe[h[1]] /\ pc[h[1]] = "done")
        <4>1. h[1] \in Threads /\ h[2] \in Probes
          OBVIOUS
        <4>2. probe[h[1]] = NumProbes - 1 /\ pc[h[1]] = "done"
          BY <2>3, <4>1 DEF LastProbe
        <4>. QED  BY <4>1, <4>2, Parameters DEF Probes
      <3>2. 0 .. (num_reg_probes - 1) = Probes
        BY <2>2 DEF Probes
      <3>. QED  BY <1>b, <3>1, <3>2 DEF Hit
    <2>. QED  BY <1>1, <1>a, <2>2, <2>4, HitBound
  <1>2. CASE part = 2
    <2>1. num_reg_probes = NumProbes
      BY <1>a, <1>2 DEF PartInv
    <2>2. \A t \in Threads : probe[t] = 0
      <3>1. ASSUME NEW t \in Threads PROVE SecondPart(t)
        <4>1. t \in 1 .. created /\ part # 1
          BY <1>2 DEF Threads
        <4>. QED  BY <1>a, <4>1 DEF PartInv
      <3>. QED  BY <3>1 DEF SecondPart
    <2>3. Hit = Threads \X {0}
      <3>1. ASSUME NEW h \in Threads \X (0 .. (num_reg_probes - 1))
            PROVE  h[2] < probe[h[1]] \/ (h[2] = probe[h[1]] /\ pc[h[1]] = "done")
                     <=> h[2] = 0
        BY <2>2
      <3>2. 0 \in 0 .. (num_reg_probes - 1)
        BY <2>1, Parameters
      <3>. QED  BY <1>b, <3>1, <3>2 DEF Hit
    <2>. QED  BY <1>2, <1>a, <2>1, <2>3, HitBound
  <1>. QED  BY <1>b, <1>1, <1>2

\* main() waits for the next thread and looks at its result.
LEMMA JoinStep ==
  ASSUME UnregInv, Join
  PROVE  UnregInv'
  <1> DEFINE t == joined + 1
             last == t = NumThreads
             over == last /\ part = 2 /\ round + 1 = Iters
  <1>a. TypeOK /\ ModuleInv /\ ProcInv /\ PartInv /\ HitInv /\ VerdictInv
    BY DEF UnregInv
  <1>b. /\ proc = "running" /\ created = NumThreads /\ pc[t] = "done"
        /\ proc' = IF result[t] # 0 THEN "failed"
                   ELSE IF over THEN "passed" ELSE proc
        /\ joined'  = IF last THEN 0 ELSE t
        /\ created' = IF last THEN 0 ELSE created
        /\ part'    = IF last THEN 3 - part ELSE part
        /\ round'   = IF last /\ part = 2 THEN round + 1 ELSE round
        /\ UNCHANGED <<module, probes, num_reg_probes, registered, pc, probe, slot, result,
                       hits, hits2>>
    BY DEF Join, modVars, threadVars
  <1>c. /\ joined \in Nat /\ joined < NumThreads /\ round \in Nat /\ round < Iters
        /\ part \in {1, 2} /\ t \in Threads /\ 1 .. created = Threads
        /\ result[t] \in {-2, -1, 0} /\ num_reg_probes \in 0 .. NumProbes
    BY <1>a, <1>b, Parameters DEF TypeOK, ProcInv, Threads
  <1>d. \A x \in Threads : /\ FirstPart(x)' <=> FirstPart(x)
                           /\ SecondPart(x)' <=> SecondPart(x)
                           /\ Fresh(x)' <=> Fresh(x)
    BY <1>b DEF FirstPart, SecondPart, Fresh
  <1>e. result[t] # 0 => num_reg_probes < NumProbes
    <2>1. IF part = 1 THEN FirstPart(t) ELSE SecondPart(t)
      BY <1>a, <1>b, <1>c DEF PartInv
    <2>. QED  BY <1>b, <1>c, <2>1, Parameters DEF FirstPart, SecondPart
  <1>f. last /\ result[t] = 0 =>
          /\ num_reg_probes = NumProbes
          /\ Cardinality(Hit) = IF part = 1 THEN FirstHits ELSE NumThreads
    <2>. SUFFICES ASSUME last, result[t] = 0
                  PROVE  /\ num_reg_probes = NumProbes
                         /\ Cardinality(Hit) = IF part = 1 THEN FirstHits ELSE NumThreads
      OBVIOUS
    <2>1. \A x \in 1 .. joined : pc[x] = "done" /\ result[x] = 0
      BY <1>a, <1>b DEF PartInv
    <2>2. \A x \in Threads : x \in 1 .. joined \/ x = t
      BY <1>c, Parameters DEF Threads
    <2>3. \A x \in Threads : pc[x] = "done" /\ result[x] = 0
      BY <1>b, <2>1, <2>2
    <2>. QED  BY <1>b, <2>3, PartOver
  <1>1. TypeOK'
    <2>1. /\ joined' \in 0 .. NumThreads /\ created' \in 0 .. NumThreads
          /\ part' \in {1, 2} /\ round' \in 0 .. Iters
      BY <1>b, <1>c, Parameters DEF Threads
    <2>. QED  BY <1>a, <1>b, <2>1 DEF TypeOK, Ended
  <1>2. ModuleInv'
    BY <1>a, <1>b DEF ModuleInv
  <1>3. ProcInv'
    <2>1. proc' \in {"running", "passed", "failed"}
      BY <1>b
    <2>2. proc' = "running" => round' < Iters
      <3>1. proc' = "running" => ~over
        BY <1>b
      <3>. QED  BY <1>b, <1>c, <3>1, Parameters
    <2>3. joined' < NumThreads /\ (joined' # 0 => created' = NumThreads)
      BY <1>b, <1>c, Parameters DEF Threads
    <2>. QED  BY <1>a, <1>b, <2>1, <2>2, <2>3 DEF ProcInv, Ended
  <1>4. PartInv'
    <2>. SUFFICES ASSUME proc' = "running" PROVE PartInv'
      BY <1>b DEF PartInv
    <2>1. result[t] = 0
      BY <1>b
    <2>2. CASE last
      <3>1. 1 .. created' = {} /\ 1 .. joined' = {}
        BY <1>b, <2>2
      <3>2. \A x \in Threads : pc[x] # "call"
        <4>1. \A x \in Threads : x \in 1 .. joined \/ x = t
          BY <1>c, <2>2, Parameters DEF Threads
        <4>. QED  BY <1>a, <1>b, <4>1 DEF PartInv
      <3>. QED  BY <1>b, <1>f, <2>1, <2>2, <3>1, <3>2 DEF PartInv
    <2>3. CASE ~last
      <3>1. \A x \in 1 .. t : x \in 1 .. joined \/ x = t
        BY <1>c
      <3>2. \A x \in 1 .. t : pc[x] = "done" /\ result[x] = 0
        BY <1>a, <1>b, <2>1, <3>1 DEF PartInv
      <3>. QED  BY <1>a, <1>b, <1>c, <1>d, <2>3, <3>2 DEF PartInv
    <2>. QED  BY <2>2, <2>3
  <1>5. HitInv'
    <2>. SUFFICES ASSUME result[t] = 0 PROVE HitInv'
      BY <1>b DEF HitInv
    <2>0. RoundHits' = RoundHits /\ FirstHits' = FirstHits
      BY DEF RoundHits, FirstHits
    <2>1. hits = round * RoundHits + (IF part = 2 THEN FirstHits ELSE 0)
                   + Cardinality(Hit)
      BY <1>a, <1>b DEF HitInv
    <2>2. CASE ~last
      <3>1. Hit' = Hit
        BY <1>b, <2>2 DEF Hit
      <3>. QED  BY <1>b, <2>0, <2>1, <2>2, <3>1 DEF HitInv
    <2>3. CASE last
      <3>1. Cardinality(Hit') = 0
        <4>1. Hit' = {}
          BY <1>b, <2>3 DEF Hit
        <4>. QED  BY <4>1, FS_EmptySet
      <3>2. Cardinality(Hit) = IF part = 1 THEN FirstHits ELSE NumThreads
        BY <1>f, <2>3
      <3>3. /\ RoundHits \in Nat /\ FirstHits \in Nat /\ NumThreads \in Nat
            /\ RoundHits = FirstHits + NumThreads
        BY <1>a, HitBound, Parameters DEF RoundHits
      <3>4. round * RoundHits \in Nat /\ (round + 1) * RoundHits = round * RoundHits + RoundHits
        BY <1>c, <3>3
      <3>5. CASE part = 1
        <4>1. part' = 2 /\ round' = round
          BY <1>b, <2>3, <3>5
        <4>2. hits = round * RoundHits + FirstHits
          BY <2>1, <3>2, <3>3, <3>4, <3>5
        <4>. QED  BY <1>b, <2>0, <3>1, <3>3, <3>4, <4>1, <4>2 DEF HitInv
      <3>6. CASE part = 2
        <4>1. part' = 1 /\ round' = round + 1
          BY <1>b, <2>3, <3>6
        <4>2. hits = (round + 1) * RoundHits
          BY <2>1, <3>2, <3>3, <3>4, <3>6
        <4>3. round' * RoundHits + 0 + 0 = hits
          BY <3>3, <3>4, <4>1, <4>2
        <4>. QED  BY <1>b, <2>0, <3>1, <4>1, <4>3 DEF HitInv
      <3>. QED  BY <1>c, <3>5, <3>6
    <2>. QED  BY <2>2, <2>3
  <1>6. VerdictInv'
    <2>1. proc' = "passed" => /\ over /\ result[t] = 0
      BY <1>b
    <2>2. proc' = "failed" => result[t] # 0
      BY <1>b
    <2>. QED  BY <1>b, <1>e, <1>f, <2>1, <2>2 DEF VerdictInv
  <1>. QED  BY <1>1, <1>2, <1>3, <1>4, <1>5, <1>6 DEF UnregInv

LEMMA UnregStep == UnregInv /\ [Next]_vars => UnregInv'
  <1>. SUFFICES ASSUME UnregInv, [Next]_vars PROVE UnregInv'
    OBVIOUS
  <1>1. ASSUME UNCHANGED <<module, probes, num_reg_probes, registered, round, part,
                           created, joined, pc, probe, slot, result, hits, hits2>>,
               proc' = proc \/ (proc = "running" /\ proc' = "internal")
        PROVE  UnregInv'
    <2>a. TypeOK /\ ModuleInv /\ ProcInv /\ PartInv /\ HitInv /\ VerdictInv
      BY DEF UnregInv
    <2>1. TypeOK' /\ ModuleInv' /\ VerdictInv'
      BY <1>1, <2>a DEF TypeOK, ModuleInv, VerdictInv, Ended
    <2>2. ProcInv'
      BY <1>1, <2>a DEF ProcInv, Ended
    <2>3. PartInv'
      BY <1>1, <2>a DEF PartInv, FirstPart, SecondPart, Fresh
    <2>4. HitInv'
      <3>1. Hit' = Hit
        BY <1>1 DEF Hit
      <3>. QED  BY <1>1, <2>a, <3>1 DEF HitInv, FirstHits, RoundHits
    <2>. QED  BY <2>1, <2>2, <2>3, <2>4 DEF UnregInv
  <1>2. ASSUME Module \/ Kill PROVE UnregInv'
    BY <1>2, ModuleStep
  <1>3. ASSUME Create \/ Join PROVE UnregInv'
    BY <1>3, CreateStep, JoinStep
  <1>4. ASSUME NEW t \in Threads, CallProbe(t) PROVE UnregInv'
    BY <1>4, CallStep
  <1>5. ASSUME CreateFails PROVE UnregInv'
    BY <1>1, <1>5 DEF CreateFails, modVars, mainVars, threadVars
  <1>6. ASSUME UNCHANGED vars PROVE UnregInv'
    BY <1>1, <1>6 DEF vars, modVars, mainVars, threadVars
  <1>. QED  BY <1>2, <1>3, <1>4, <1>5, <1>6 DEF Next, Main, Terminated

\* In every state the entries of the module, the threads and the hits agree.
THEOREM UnregInvariant == Spec => []UnregInv
  BY UnregInit, UnregStep, PTL DEF Spec

-----------------------------------------------------------------------------
(* What follows. *)

\* Every variable keeps its type, and no test has more than 2 * Iters *
\* NumThreads * NumProbes hits.
THEOREM TypeCorrect == Spec => []TypeOK
  <1>1. UnregInv => TypeOK
    BY DEF UnregInv
  <1>. QED  BY <1>1, UnregInvariant, PTL

\* However far register_all() came, unregister_all(), which goes one entry too
\* far, leaves no consumer behind (kunreg.c:32-39).
THEOREM NoneIsLeft == Spec => []UnloadLeavesNone
  <1>1. UnregInv => UnloadLeavesNone
    BY DEF UnregInv, ModuleInv, UnloadLeavesNone
  <1>. QED  BY <1>1, UnregInvariant, PTL

\* In every interleaving of the threads the verdict tells whether the module
\* registered all probe points, which it does not tell itself (unreg.c:21-60,
\* kunreg.c:42-80).
THEOREM VerdictIsSound == Spec => []VerdictTellsTheModule
  <1>1. UnregInv => VerdictTellsTheModule
    BY DEF UnregInv, VerdictInv, VerdictTellsTheModule
  <1>. QED  BY <1>1, UnregInvariant, PTL

\* The number of hits in the log of a test that has passed is the same in every
\* interleaving: that of the expected output (uprobes.w/kunreg).
THEOREM HitsAreExpected == Spec => []HitsOfAPass
  <1>1. UnregInv => HitsOfAPass
    <2>. SUFFICES ASSUME UnregInv, proc = "passed"
                  PROVE  hits = Iters * NumThreads * (NumProbes + 1)
      BY DEF HitsOfAPass
    <2>1. TypeOK /\ round = Iters /\ part = 1 /\ created = 0
      BY DEF UnregInv, VerdictInv
    <2>2. hits = round * RoundHits + 0 + Cardinality(Hit)
      BY <2>1 DEF UnregInv, HitInv
    <2>3. hits = Iters * RoundHits
      <3>1. Cardinality(Hit) = 0
        BY <2>1, NoThreadNoHit
      <3>2. RoundHits \in Nat
        BY <2>1, HitBound
      <3>3. Iters * RoundHits \in Nat
        BY <3>2, Parameters
      <3>. QED  BY <2>1, <2>2, <3>1, <3>3
    <2>. QED  BY <2>3, Parameters DEF RoundHits, FirstHits
  <1>. QED  BY <1>1, UnregInvariant, PTL
=============================================================================
