------------------------------ MODULE ProbeSlot ------------------------------
(***************************************************************************)
(* The slot of a probe point: struct uinfo, shared by a user thread and    *)
(* the uprobe handler that runs in the thread's own context.  Each side    *)
(* counts the hits of the probe point in the slot and the user side        *)
(* compares the two counts after every call.                               *)
(*                                                                         *)
(* The counts are ulong: -1 is the largest value and ++ wraps.  A probe    *)
(* function returns the ulong count as an int.  The field "results" of     *)
(* the struct is never used, and every slot is private to one thread, so   *)
(* that each side's updates of a slot are one step.                        *)
(***************************************************************************)
EXTENDS Integers

CONSTANTS ULongMod,   \* how many values a ulong has (2^32 or 2^64)
          IntHalf     \* INT_MAX + 1                 (2^31)

\* An int, and so a pid_t, takes up a ulong or an exact part of one.
ASSUME WidthAssumption ==
  /\ IntHalf \in Nat \ {0}
  /\ ULongMod \in Nat
  /\ \E k \in 1 .. ULongMod : ULongMod = k * (2 * IntHalf)

\* A ulong is wider than a pid_t: x86_64, not i386.
WideLong == ULongMod > 2 * IntHalf

ULong == 0 .. (ULongMod - 1)

\* (ulong)-1: the kernel is not counting this probe point.
NotCounting == ULongMod - 1

\* pid_t 0: the slot has not been used by any thread yet.
NoTid == 0

\* x++ on a ulong.
Incr(x) == IF x = ULongMod - 1 THEN 0 ELSE x + 1

\* The conversion of a ulong to the int a probe function returns.
ToInt(x) == LET low == x % (2 * IntHalf)
            IN  IF low < IntHalf THEN low ELSE low - 2 * IntHalf

\* A slot as BUILD_PROBE_TABLE leaves it.
NewSlot == [utid |-> NoTid, ktid |-> NoTid,
            ucount |-> NotCounting, kcount |-> NotCounting]

\* probe_N() refuses a slot that another thread has claimed.
WrongTid(s, tid) == s.utid # NoTid /\ s.utid # tid

\* put_user(ktid, (ulong *)&slot->ktid) stores a ulong into a pid_t.  Where a
\* ulong is wider, the store runs over into the low half of the next field,
\* ucount, and clears it: the high half of a tid is 0 (little-endian order).
AfterKtidStore(x) == IF WideLong THEN x - (x % (2 * IntHalf)) ELSE x

\* Mutants of HandlerCounts: the count starts at 1; every hit resets the user.
HandlerCounts_FromOne(s, tid) ==
  [s EXCEPT !.ktid = tid,
            !.kcount = IF @ = NotCounting THEN 1 ELSE Incr(@)]

HandlerCounts_AlwaysResets(s, tid) ==
  [s EXCEPT !.ktid = tid, !.ucount = NotCounting, !.kcount = Incr(@)]

\* What probe_handler() does to the slot when thread tid hits the probe: the
\* first hit sets the user's count to -1 too, and every hit is counted.
HandlerCounts(s, tid) ==
  [s EXCEPT !.ktid   = tid,
            !.ucount = IF s.kcount = NotCounting THEN s.kcount
                                                 ELSE AfterKtidStore(@),
            !.kcount = Incr(@)]

\* What _probe_N() does to the slot, and then returns.
UserCounts(s) == [s EXCEPT !.ucount = Incr(@)]

ProbeResult(s) ==
  IF s.kcount = NotCounting \/ s.kcount = s.ucount THEN ToInt(s.kcount) ELSE -2

Slots(tids) == [utid : tids \cup {NoTid}, ktid : tids \cup {NoTid},
                ucount : ULong, kcount : ULong]
=============================================================================
