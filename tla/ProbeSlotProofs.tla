--------------------------- MODULE ProbeSlotProofs ---------------------------
(***************************************************************************)
(* What the operators on a slot compute, for every width of int and ulong: *)
(* the facts that the proofs about the counting tests and about unreg have *)
(* in common.                                                              *)
(***************************************************************************)
EXTENDS ProbeSlot, TLAPS

-----------------------------------------------------------------------------
(* int and ulong. *)

LEMMA WidthFacts ==
  /\ ULongMod \in Nat /\ IntHalf \in Nat /\ IntHalf >= 1
  /\ ULongMod >= 2 * IntHalf
  <1>1. PICK k \in 1 .. ULongMod : ULongMod = k * (2 * IntHalf)
    BY WidthAssumption
  <1>2. k * (2 * IntHalf) >= 2 * IntHalf
    BY <1>1, WidthAssumption
  <1>. QED  BY <1>1, <1>2, WidthAssumption

\* ++ keeps a ulong in its range.
LEMMA IncrType == ASSUME NEW x \in ULong PROVE Incr(x) \in ULong
  BY WidthAssumption DEF ULong, Incr

\* A probe function returns an int, and a negative one while the kernel is not
\* counting.
LEMMA ToIntType == ASSUME NEW x \in ULong PROVE ToInt(x) \in Int
  BY WidthAssumption DEF ULong, ToInt

LEMMA ToIntNotCounting == ToInt(NotCounting) = -1
  <1>1. PICK k \in 1 .. ULongMod : ULongMod = k * (2 * IntHalf)
    BY WidthAssumption
  <1>2. NotCounting % (2 * IntHalf) = 2 * IntHalf - 1
    BY <1>1, WidthAssumption DEF NotCounting
  <1>. QED  BY <1>2, WidthAssumption DEF ToInt

\* niter is an int: a count of rounds comes back from a probe function as
\* itself, so that no legal argument runs into the wrap the FIXME of
\* u_test_common.h is about.
LEMMA ToIntSmall == ASSUME NEW n \in 0 .. (IntHalf - 1) PROVE ToInt(n) = n
  <1>1. n % (2 * IntHalf) = n
    BY WidthAssumption
  <1>. QED  BY <1>1, WidthAssumption DEF ToInt

-----------------------------------------------------------------------------
(* Slots. *)

\* The store of ktid changes ucount within its range.
LEMMA KtidStoreType == \A x \in ULong : AfterKtidStore(x) \in ULong
  <1>1. ASSUME NEW x \in ULong PROVE AfterKtidStore(x) \in ULong
    <2>1. x % (2 * IntHalf) \in 0 .. x
      BY <1>1, WidthFacts DEF ULong
    <2>. QED  BY <2>1, WidthFacts DEF ULong, AfterKtidStore
  <1>. QED  BY <1>1

\* What the handler and the caller leave in a slot, field by field.
LEMMA SlotFacts ==
  ASSUME NEW tids, NEW s \in Slots(tids), NEW t \in tids
  PROVE  /\ HandlerCounts(s, t) \in Slots(tids)
         /\ UserCounts(s) \in Slots(tids)
         /\ HandlerCounts(s, t).utid = s.utid
         /\ HandlerCounts(s, t).kcount = Incr(s.kcount)
         /\ HandlerCounts(s, t).ucount =
              IF s.kcount = NotCounting THEN s.kcount
                                        ELSE AfterKtidStore(s.ucount)
         /\ UserCounts(s).utid = s.utid
         /\ UserCounts(s).kcount = s.kcount
         /\ UserCounts(s).ucount = Incr(s.ucount)
         /\ ProbeResult(s) \in Int
         /\ s.kcount = NotCounting => ProbeResult(s) < 0
  <1>1. s.kcount \in ULong /\ s.ucount \in ULong
    BY DEF Slots
  <1>2. /\ Incr(s.kcount) \in ULong /\ Incr(s.ucount) \in ULong
        /\ AfterKtidStore(s.ucount) \in ULong
    BY <1>1, IncrType, KtidStoreType
  <1>3. ProbeResult(s) \in Int /\ (s.kcount = NotCounting => ProbeResult(s) < 0)
    BY <1>1, ToIntType, ToIntNotCounting DEF ProbeResult
  <1>. QED  BY <1>1, <1>2, <1>3 DEF Slots, HandlerCounts, UserCounts

\* A slot that nobody has used is one of every set of slots.
LEMMA NewSlotType == ASSUME NEW tids PROVE NewSlot \in Slots(tids)
  BY WidthFacts DEF NewSlot, Slots, NotCounting, ULong
=============================================================================
