---------------------------- MODULE HarnessProofs ----------------------------
(***************************************************************************)
(* Theorems about Harness, for any set of tests, any number of threads and *)
(* of iterations, and any widths of int and ulong.                         *)
(*                                                                         *)
(* DiffDecides is about uprobes_diff alone, and holds of any two files.    *)
(* The library's induction theorem takes a predicate, which the provers    *)
(* cannot be given; SetInduction takes a set, and follows from the order   *)
(* of Nat being well-founded.                                              *)
(*                                                                         *)
(* HarnessInv is the inductive invariant: MainInv, ThreadInv and ChildInv  *)
(* say where main(), its threads and their children are, ForkInv that no   *)
(* more children are to be waited for than there are threads to wait,      *)
(* ScriptInv and ExpectInv why the scripts have gone on, and CountInv and  *)
(* LinesInv what the module has counted and printed.                       *)
(*                                                                         *)
(* PassInv, which is inductive with it, is what a pass rests on.  The hits *)
(* are those of the children and the calls that threads have got past      *)
(* their breakpoints (ParentHits); a child that is counted has a slot that *)
(* says so, or its exit status (ChildHitInv, ChildSlotInv), or a line in   *)
(* the log (PrintInv); and what the comparison of the log has found from   *)
(* these stays so until the module is removed (VerdictInv).                *)
(*                                                                         *)
(* HealthyInv is the converse: where nothing has failed that a test relies *)
(* on, the two counts of every slot agree (WellInv), the module's counter  *)
(* is the number of hits (CounterInv), no script complains (CalmInv), each *)
(* wait() finds a child (ChildForEach), and the log is the calls that were *)
(* made, so that with the summary it is the expected file (LogInv).        *)
(***************************************************************************)
EXTENDS Harness, ProbeSlotProofs, FiniteSetTheorems, SequenceTheorems, TLAPS
-----------------------------------------------------------------------------
(* Induction over the naturals, of a set of them. *)

\* A set of natural numbers that is not empty has a least element.
LEMMA LeastElement ==
  ASSUME NEW S, S \subseteq Nat, S # {}
  PROVE  \E n \in S : \A m \in S : n <= m
  <1>1. IsWellFoundedOn(OpToRel(<, Nat), Nat)
    BY NatLessThanWellFounded
  <1>2. PICK n \in S : \A m \in S : <<m, n>> \notin OpToRel(<, Nat)
    BY <1>1, WFMin
  <1>3. \A m \in S : ~ (m < n)
    BY <1>2 DEF OpToRel
  <1>. QED  BY <1>3

\* Induction over Nat by the set of the numbers of which something holds.
LEMMA SetInduction ==
  ASSUME NEW S, 0 \in S, \A n \in Nat : n \in S => n + 1 \in S
  PROVE  Nat \subseteq S
  <1>. SUFFICES ASSUME Nat \ S # {} PROVE FALSE
    OBVIOUS
  <1>1. PICK n \in Nat \ S : \A m \in Nat \ S : n <= m
    BY LeastElement
  <1>2. n - 1 \in Nat /\ n - 1 \notin Nat \ S
    BY <1>1
  <1>. QED  BY <1>1, <1>2

-----------------------------------------------------------------------------
(* uprobes_diff: a greedy match decides whether one file is a part of the  *)
(* other.                                                                  *)

\* The first k lines of s are the first n of t with any of them left out.
IsPart(s, k, t, n) ==
  \E f \in [1 .. k -> 1 .. n] :
    /\ \A i \in 1 .. k : s[i] = t[f[i]]
    /\ \A i, j \in 1 .. k : i < j => f[i] < f[j]

\* The empty log is a part of every file.
LEMMA NothingIsPart ==
  ASSUME NEW s, NEW t, NEW n \in Nat PROVE IsPart(s, 0, t, n)
  <1>1. 1 .. 0 = {}
    OBVIOUS
  <1>2. [i \in 1 .. 0 |-> 1] \in [1 .. 0 -> 1 .. n]
    BY <1>1
  <1>. QED  BY <1>1, <1>2 DEF IsPart

\* What is a part of a file is one of the file with a line more.
LEMMA PartOfMore ==
  ASSUME NEW s, NEW t, NEW k \in Nat, NEW n \in Nat, IsPart(s, k, t, n)
  PROVE  IsPart(s, k, t, n + 1)
  <1>1. PICK f \in [1 .. k -> 1 .. n] :
          /\ \A i \in 1 .. k : s[i] = t[f[i]]
          /\ \A i, j \in 1 .. k : i < j => f[i] < f[j]
    BY DEF IsPart
  <1>2. f \in [1 .. k -> 1 .. (n + 1)]
    OBVIOUS
  <1>. QED  BY <1>1, <1>2 DEF IsPart

\* A log that begins a part of a file is a part of it.
LEMMA FewerArePart ==
  ASSUME NEW s, NEW t, NEW k \in Nat, NEW n \in Nat, NEW j \in 0 .. k,
         IsPart(s, k, t, n)
  PROVE  IsPart(s, j, t, n)
  <1>1. PICK f \in [1 .. k -> 1 .. n] :
          /\ \A i \in 1 .. k : s[i] = t[f[i]]
          /\ \A a, b \in 1 .. k : a < b => f[a] < f[b]
    BY DEF IsPart
  <1>. DEFINE g == [i \in 1 .. j |-> f[i]]
  <1>2. g \in [1 .. j -> 1 .. n] /\ \A i \in 1 .. j : i \in 1 .. k /\ g[i] = f[i]
    OBVIOUS
  <1>. HIDE DEF g
  <1>3. \A i \in 1 .. j : s[i] = t[g[i]]
    BY <1>1, <1>2
  <1>4. \A a, b \in 1 .. j : a < b => g[a] < g[b]
    BY <1>1, <1>2
  <1>. QED  BY <1>2, <1>3, <1>4 DEF IsPart

\* The last of k lines is the last of n, or the last of n is not needed.
LEMMA PartStep ==
  ASSUME NEW s, NEW t, NEW k \in Nat, k > 0, NEW n \in Nat
  PROVE  IsPart(s, k, t, n + 1) <=>
           \/ IsPart(s, k, t, n)
           \/ s[k] = t[n + 1] /\ IsPart(s, k - 1, t, n)
  <1>1. ASSUME IsPart(s, k, t, n + 1)
        PROVE  \/ IsPart(s, k, t, n)
               \/ s[k] = t[n + 1] /\ IsPart(s, k - 1, t, n)
    <2>1. PICK f \in [1 .. k -> 1 .. (n + 1)] :
            /\ \A i \in 1 .. k : s[i] = t[f[i]]
            /\ \A i, j \in 1 .. k : i < j => f[i] < f[j]
      BY <1>1 DEF IsPart
    <2>2. CASE f[k] = n + 1
      <3>. DEFINE g == [i \in 1 .. (k - 1) |-> f[i]]
      <3>1. \A i \in 1 .. (k - 1) : i \in 1 .. k /\ f[i] \in 1 .. n
        BY <2>1, <2>2
      <3>2. /\ g \in [1 .. (k - 1) -> 1 .. n]
            /\ \A i \in 1 .. (k - 1) : i \in 1 .. k /\ g[i] = f[i]
        BY <3>1
      <3>. HIDE DEF g
      <3>3. IsPart(s, k - 1, t, n)
        BY <2>1, <3>2 DEF IsPart
      <3>. QED  BY <2>1, <2>2, <3>3
    <2>3. CASE f[k] # n + 1
      <3>1. \A i \in 1 .. k : f[i] \in 1 .. n
        BY <2>1, <2>3
      <3>2. f \in [1 .. k -> 1 .. n]
        BY <3>1
      <3>. QED  BY <2>1, <3>2 DEF IsPart
    <2>. QED  BY <2>2, <2>3
  <1>2. ASSUME s[k] = t[n + 1], IsPart(s, k - 1, t, n)
        PROVE  IsPart(s, k, t, n + 1)
    <2>1. PICK f \in [1 .. (k - 1) -> 1 .. n] :
            /\ \A i \in 1 .. (k - 1) : s[i] = t[f[i]]
            /\ \A i, j \in 1 .. (k - 1) : i < j => f[i] < f[j]
      BY <1>2 DEF IsPart
    <2>. DEFINE g == [i \in 1 .. k |-> IF i = k THEN n + 1 ELSE f[i]]
    <2>2. \A i \in 1 .. k : i # k => i \in 1 .. (k - 1) /\ f[i] \in 1 .. n
      BY <2>1
    <2>3. /\ g \in [1 .. k -> 1 .. (n + 1)]
          /\ \A i \in 1 .. k : g[i] = IF i = k THEN n + 1 ELSE f[i]
      BY <2>2
    <2>. HIDE DEF g
    <2>4. \A i \in 1 .. k : s[i] = t[g[i]]
      BY <1>2, <2>1, <2>2, <2>3
    <2>5. \A i, j \in 1 .. k : i < j => g[i] < g[j]
      BY <2>1, <2>2, <2>3
    <2>. QED  BY <2>3, <2>4, <2>5 DEF IsPart
  <1>. QED  BY <1>1, <1>2, PartOfMore

\* f is what Matched() tabulates, up to the n-th line.
Table(f, results, expected, n) ==
  f = [m \in 0 .. n |->
         IF m = 0 THEN 0 ELSE DiffStep(results, f[m - 1], expected[m])]

\* Such a table exists, so that its recursive definition has a solution.
LEMMA TableExists ==
  ASSUME NEW r, NEW e PROVE \A n \in Nat : \E f : Table(f, r, e, n)
  <1>. DEFINE S == {n \in Nat : \E f : Table(f, r, e, n)}
  <1>1. 0 \in S
    <2>. DEFINE f == [m \in 0 .. 0 |-> 0]
    <2>1. Table(f, r, e, 0)
      BY DEF Table
    <2>. QED  BY <2>1
  <1>2. ASSUME NEW n \in Nat, n \in S PROVE n + 1 \in S
    <2>1. PICK f : Table(f, r, e, n)
      BY <1>2
    <2>. DEFINE g == [m \in 0 .. (n + 1) |->
                        IF m <= n THEN f[m] ELSE DiffStep(r, f[n], e[n + 1])]
    <2>2. \A m \in 0 .. n :
            f[m] = IF m = 0 THEN 0 ELSE DiffStep(r, f[m - 1], e[m])
      BY <2>1 DEF Table
    <2>3. /\ DOMAIN g = 0 .. (n + 1)
          /\ \A m \in 0 .. n : g[m] = f[m]
          /\ g[n + 1] = DiffStep(r, f[n], e[n + 1])
          /\ g = [m \in 0 .. (n + 1) |-> g[m]]
      OBVIOUS
    <2>. HIDE DEF g
    <2>4. ASSUME NEW m \in 0 .. (n + 1)
          PROVE  g[m] = IF m = 0 THEN 0 ELSE DiffStep(r, g[m - 1], e[m])
      <3>1. CASE m = n + 1
        <4>1. m # 0 /\ m - 1 = n /\ n \in 0 .. n
          BY <3>1
        <4>. QED  BY <2>3, <3>1, <4>1
      <3>2. CASE m # n + 1
        <4>1. m \in 0 .. n /\ (m # 0 => m - 1 \in 0 .. n)
          BY <3>2
        <4>. QED  BY <2>2, <2>3, <4>1
      <3>. QED  BY <3>1, <3>2
    <2>5. Table(g, r, e, n + 1)
      BY <2>3, <2>4 DEF Table
    <2>. QED  BY <2>5
  <1>3. Nat \subseteq S
    <2>. HIDE DEF S
    <2>. QED  BY <1>1, <1>2, SetInduction
  <1>. QED  BY <1>3

\* Matched is the last entry of its table.
LEMMA MatchedIsLast ==
  ASSUME NEW r, NEW e, Len(e) \in Nat
  PROVE  \E f : Table(f, r, e, Len(e)) /\ Matched(r, e) = f[Len(e)]
  <1>. DEFINE f == CHOOSE f : f = [m \in 0 .. Len(e) |->
                     IF m = 0 THEN 0 ELSE DiffStep(r, f[m - 1], e[m])]
  <1>1. Matched(r, e) = f[Len(e)]
    BY DEF Matched
  <1>2. PICK g : Table(g, r, e, Len(e))
    BY TableExists
  <1>3. g = [m \in 0 .. Len(e) |->
               IF m = 0 THEN 0 ELSE DiffStep(r, g[m - 1], e[m])]
    BY <1>2 DEF Table
  <1>4. f = [m \in 0 .. Len(e) |->
               IF m = 0 THEN 0 ELSE DiffStep(r, f[m - 1], e[m])]
    BY <1>3
  <1>. HIDE DEF f
  <1>5. Table(f, r, e, Len(e))
    BY <1>4 DEF Table
  <1>. QED  BY <1>1, <1>5

\* What f holds after n lines: how many of the results are a part of them, or
\* one more than there are results once all of them are a part of fewer lines.
Greedy(f, results, expected, n) ==
  /\ f[n] \in 0 .. (Len(results) + 1)
  /\ f[n] <= Len(results) =>
       \A k \in 0 .. Len(results) : IsPart(results, k, expected, n) <=> k <= f[n]
  /\ f[n] > Len(results) => n > 0 /\ IsPart(results, Len(results), expected, n - 1)
  /\ (f[n] = Len(results) /\ n > 0) => ~ IsPart(results, Len(results), expected, n - 1)

\* Each line that is met matches as many of the results as any choice could.
LEMMA TableIsGreedy ==
  ASSUME NEW r, NEW e, Len(r) \in Nat, Len(e) \in Nat,
         NEW f, Table(f, r, e, Len(e))
  PROVE  Greedy(f, r, e, Len(e))
  <1>. DEFINE S == {n \in Nat : n <= Len(e) => Greedy(f, r, e, n)}
  <1>f. \A n \in 0 .. Len(e) :
          f[n] = IF n = 0 THEN 0 ELSE DiffStep(r, f[n - 1], e[n])
    BY DEF Table
  <1>1. 0 \in S
    <2>1. f[0] = 0 /\ 0 <= Len(r)
      BY <1>f
    <2>2. ASSUME NEW k \in 0 .. Len(r) PROVE IsPart(r, k, e, 0) <=> k <= 0
      <3>1. CASE k = 0
        BY <3>1, NothingIsPart
      <3>2. CASE k # 0
        <4>1. 1 .. 0 = {} /\ k \in 1 .. k
          BY <3>2
        <4>2. \A g \in [1 .. k -> 1 .. 0] : g[k] \in 1 .. 0
          BY <4>1
        <4>. QED  BY <3>2, <4>1, <4>2 DEF IsPart
      <3>. QED  BY <3>1, <3>2
    <2>. QED  BY <2>1, <2>2 DEF Greedy
  <1>2. ASSUME NEW n \in Nat, n \in S PROVE n + 1 \in S
    <2>. SUFFICES ASSUME n + 1 <= Len(e) PROVE Greedy(f, r, e, n + 1)
      OBVIOUS
    <2>1. Greedy(f, r, e, n)
      BY <1>2
    <2>2. f[n + 1] = DiffStep(r, f[n], e[n + 1])
      <3>1. n + 1 \in 0 .. Len(e) /\ n + 1 # 0 /\ (n + 1) - 1 = n
        OBVIOUS
      <3>. QED  BY <1>f, <3>1
    <2>3. (n + 1) - 1 = n /\ n + 1 > 0 /\ n + 1 \in Nat
      OBVIOUS
    <2>4. CASE f[n] > Len(r)
      <3>1. f[n + 1] = Len(r) + 1
        BY <2>1, <2>2, <2>4 DEF DiffStep, Greedy
      <3>2. n > 0 /\ IsPart(r, Len(r), e, n - 1)
        BY <2>1, <2>4 DEF Greedy
      <3>. DEFINE m == n - 1
      <3>3. m \in Nat /\ m + 1 = n
        BY <3>2
      <3>. HIDE DEF m
      <3>4. IsPart(r, Len(r), e, m + 1)
        <4>1. IsPart(r, Len(r), e, m)
          BY <3>2 DEF m
        <4>. QED  BY <3>3, <4>1, PartOfMore
      <3>5. IsPart(r, Len(r), e, n)
        BY <3>3, <3>4
      <3>. QED  BY <2>3, <3>1, <3>5 DEF Greedy
    <2>5. CASE f[n] = Len(r)
      <3>1. f[n + 1] = Len(r) + 1
        BY <2>1, <2>2, <2>5 DEF DiffStep, Greedy
      <3>2. IsPart(r, Len(r), e, n)
        BY <2>1, <2>5 DEF Greedy
      <3>. QED  BY <2>3, <3>1, <3>2 DEF Greedy
    <2>6. CASE f[n] < Len(r)
      <3>. DEFINE i == f[n]
      <3>1. /\ i \in 0 .. (Len(r) - 1)
            /\ \A k \in 0 .. Len(r) : IsPart(r, k, e, n) <=> k <= i
        BY <2>1, <2>6 DEF Greedy
      <3>2. f[n + 1] = IF r[i + 1] = e[n + 1] THEN i + 1 ELSE i
        BY <2>2, <3>1 DEF DiffStep
      <3>. HIDE DEF i
      <3>3. ASSUME NEW k \in 0 .. Len(r)
            PROVE  IsPart(r, k, e, n + 1) <=> k <= f[n + 1]
        <4>1. CASE k = 0
          BY <2>3, <3>1, <3>2, <4>1, NothingIsPart
        <4>2. CASE k # 0
          <5>1. k \in Nat /\ k > 0 /\ k - 1 \in 0 .. Len(r)
            BY <4>2
          <5>2. IsPart(r, k, e, n + 1) <=>
                  (IsPart(r, k, e, n) \/ (r[k] = e[n + 1] /\ IsPart(r, k - 1, e, n)))
            BY <5>1, PartStep
          <5>3. /\ IsPart(r, k, e, n) <=> k <= i
                /\ IsPart(r, k - 1, e, n) <=> k - 1 <= i
            BY <3>1, <5>1
          <5>4. CASE k = i + 1
            BY <3>1, <3>2, <5>2, <5>3, <5>4
          <5>5. CASE k # i + 1
            BY <3>1, <3>2, <5>1, <5>2, <5>3, <5>5
          <5>. QED  BY <5>4, <5>5
        <4>. QED  BY <4>1, <4>2
      <3>4. ~ IsPart(r, Len(r), e, n)
        BY <3>1
      <3>5. f[n + 1] \in 0 .. Len(r)
        BY <3>1, <3>2
      <3>. QED  BY <2>3, <3>3, <3>4, <3>5 DEF Greedy
    <2>. QED  BY <2>1, <2>4, <2>5, <2>6 DEF Greedy
  <1>3. Nat \subseteq S
    <2>. HIDE DEF S
    <2>. QED  BY <1>1, <1>2, SetInduction
  <1>. QED  BY <1>3

\* IsSubsequence() of whole files, and of all but the last line of one.
LEMMA SubsequenceIsPart ==
  ASSUME NEW S, NEW T, NEW s \in Seq(S), NEW t \in Seq(T)
  PROVE  /\ IsSubsequence(s, t) <=> IsPart(s, Len(s), t, Len(t))
         /\ t # <<>> =>
              (IsSubsequence(s, Front(t)) <=> IsPart(s, Len(s), t, Len(t) - 1))
  <1>1. DOMAIN s = 1 .. Len(s) /\ DOMAIN t = 1 .. Len(t) /\ Len(t) \in Nat
    BY LenProperties
  <1>2. IsSubsequence(s, t) <=> IsPart(s, Len(s), t, Len(t))
    BY <1>1 DEF IsSubsequence, IsPart
  <1>3. ASSUME t # <<>>
        PROVE  IsSubsequence(s, Front(t)) <=> IsPart(s, Len(s), t, Len(t) - 1)
    <2>1. Len(t) >= 1
      BY <1>1, <1>3, EmptySeq
    <2>2. /\ DOMAIN Front(t) = 1 .. (Len(t) - 1)
          /\ \A i \in 1 .. (Len(t) - 1) : Front(t)[i] = t[i]
      BY <1>1, <2>1 DEF Front
    <2>3. /\ IsSubsequence(s, Front(t)) <=>
               \E f \in [1 .. Len(s) -> 1 .. (Len(t) - 1)] :
                 /\ \A i \in 1 .. Len(s) : s[i] = Front(t)[f[i]]
                 /\ \A i, j \in 1 .. Len(s) : i < j => f[i] < f[j]
      BY <1>1, <2>2 DEF IsSubsequence
    <2>4. ASSUME NEW f \in [1 .. Len(s) -> 1 .. (Len(t) - 1)]
          PROVE  \A i \in 1 .. Len(s) : Front(t)[f[i]] = t[f[i]]
      BY <2>2
    <2>. QED  BY <2>3, <2>4 DEF IsPart
  <1>. QED  BY <1>2, <1>3

\* What uprobes_diff says of any two files of which the second is not empty.
THEOREM DiffDecides ==
  ASSUME NEW S, NEW T, NEW results \in Seq(S), NEW expected \in Seq(T),
         expected # <<>>
  PROVE  Diff(results, expected) =
           IF IsSubsequence(results, Front(expected)) THEN "error"
           ELSE IF IsSubsequence(results, expected) THEN "same" ELSE "differs"
  <1>1. Len(results) \in Nat /\ Len(expected) \in Nat /\ Len(expected) > 0
    BY LenProperties, EmptySeq
  <1>2. PICK f : Table(f, results, expected, Len(expected))
                 /\ Matched(results, expected) = f[Len(expected)]
    BY <1>1, MatchedIsLast
  <1>3. Greedy(f, results, expected, Len(expected))
    BY <1>1, <1>2, TableIsGreedy
  <1>. DEFINE i == Matched(results, expected)
              all == IsPart(results, Len(results), expected, Len(expected))
              front == IsPart(results, Len(results), expected, Len(expected) - 1)
  <1>4. /\ i \in 0 .. (Len(results) + 1)
        /\ i > Len(results) => front
        /\ i = Len(results) => all /\ ~ front
        /\ i < Len(results) => ~ all
    BY <1>1, <1>2, <1>3 DEF Greedy
  <1>5. front => all
    <2>1. front => IsPart(results, Len(results), expected, (Len(expected) - 1) + 1)
      BY <1>1, PartOfMore
    <2>. QED  BY <1>1, <2>1
  <1>6. /\ IsSubsequence(results, expected) <=> all
        /\ IsSubsequence(results, Front(expected)) <=> front
    BY SubsequenceIsPart
  <1>7. Diff(results, expected) = IF i > Len(results) THEN "error"
                                  ELSE IF i = Len(results) THEN "same" ELSE "differs"
    BY DEF Diff
  <1>. HIDE DEF i, all, front
  <1>. QED  BY <1>1, <1>4, <1>5, <1>6, <1>7

-----------------------------------------------------------------------------
(* The inductive invariant. *)

Line == [text : {"Registering", "inode", "null", "called", "summary", "bye",
                 "adios", "NoSuchFile"},
         num : Int]

TestType ==
  /\ test \in Tests
  /\ attached \in BOOLEAN /\ loaded \in BOOLEAN /\ stale \in BOOLEAN
  /\ overlap \in BOOLEAN /\ fault \in BOOLEAN /\ early \in BOOLEAN
  /\ lateStop \in BOOLEAN

MainType ==
  /\ proc \in {"none", "starting", "stopped", "running", "leaving", "passed",
               "failed", "internal", "crashed", "killed"}
  /\ created \in 0 .. Workers /\ joined \in 0 .. created

TaskType ==
  /\ pc \in [Tasks -> {"none", "garbage", "fork", "call", "store", "return", "say",
                       "wait", "done", "zombie", "reaped"}]
  /\ \A t \in Threads : pc[t] \notin {"zombie", "reaped"}
  /\ \A c \in Children : pc[c] \notin {"garbage", "fork", "say", "wait", "done"}
  /\ calls \in [Tasks -> 0 .. AllCalls]
  /\ slot \in [Tasks -> Slots(Tasks)]
  /\ result \in [Threads -> Int]
  /\ tmp \in [Tasks -> ULong]
  /\ status \in [Children -> {"none", "exit0", "exit1", "signal"}]
  /\ waited \in [Threads -> {"none", "exit0", "exit1", "signal"}]

CountType ==
  /\ counter \in ULong /\ hits \in Nat /\ childHits \in 0 .. hits
  /\ log \in Seq(Line)

ScriptType ==
  /\ script \in {"check", "insmod", "cont", "refused", "kill", "wait", "ended"}
  /\ said \in BOOLEAN

ExpectType ==
  /\ expect \in {"watch", "end_mod", "diff", "rmmod", "done"}
  /\ same \in BOOLEAN
  /\ loc_return \in {-1, 0, 1} /\ entry \in {0, 1}
  /\ outcome \in {"none", "pass", "fail", "error"}

TypeInv == TestType /\ MainType /\ TaskType /\ CountType /\ ScriptType /\ ExpectType

\* main() and how far its threads are.
MainInv ==
  /\ proc \in {"none", "starting", "stopped"} => created = 0
  /\ proc \in {"running", "leaving"} => joined < Workers
  /\ proc = "leaving" => Probeme6
  /\ proc = "passed" => joined = Workers \/ Probeme6
  /\ \A t \in Threads :
       /\ pc[t] = "none" <=> t > created
       /\ t <= joined => pc[t] \in {"done", "garbage"} /\ result[t] = 0

ThreadInv(t) ==
  /\ pc[t] \in {"none", "fork", "garbage"} => calls[t] = 0
  /\ pc[t] \in {"none", "fork", "garbage", "wait"} => waited[t] = "none"
  /\ pc[t] # "done" => result[t] = 0
  /\ ~ Forks => waited[t] = "none" /\ result[t] = 0
  /\ pc[t] \in {"fork", "wait"} => Forks
  /\ pc[t] = "garbage" => Program = "probe7-thread"
  /\ pc[t] \in {"wait", "say"} => calls[t] = Iters
  /\ pc[t] = "say" => Probeme6
  /\ pc[t] \in {"call", "store", "return"} =>
       /\ calls[t] < AllCalls
       /\ Forks => (waited[t] = "none" <=> calls[t] < Iters)
       /\ Program \in {"probe7-thread", "probe8-fork"} => calls[t] < Iters
  /\ (pc[t] = "done" /\ result[t] = 0) =>
       /\ Program \in ForkPrograms =>
            waited[t] # "none" /\ StatusOf(waited[t]) = 0
       /\ Program \in {"fork_thread", "probeme6"} => calls[t] = AllCalls
       /\ Program \in {"probe7-thread", "probe8-fork"} => calls[t] = Iters

ChildInv(c) ==
  /\ pc[c] \in {"call", "store", "return"} => calls[c] < Iters
  /\ pc[c] = "none" => calls[c] = 0
  /\ status[c] = "none" <=> pc[c] \in {"none", "call", "store", "return"}

\* The children that wait() has yet to find, and the threads that have yet to wait.
Unreaped  == {c \in Children : pc[c] \notin {"none", "reaped"}}
YetToWait == {t \in Threads : pc[t] \notin {"none", "fork", "garbage"}
                              /\ waited[t] = "none"}

ForkInv ==
  /\ \A t \in Threads :
       /\ pc[Child(t)] # "none" => Forks /\ pc[t] \notin {"none", "fork", "garbage"}
       /\ (Program = "probe8-fork" /\ pc[t] \in {"call", "store", "return", "wait"}) =>
            pc[Child(t)] # "none" /\ pc[Child(t)] # "reaped"
  /\ Cardinality(Unreaped) <= Cardinality(YetToWait)

\* runtest.sh and the program.
ScriptInv ==
  /\ script = "check" => loaded = stale /\ proc = "none" /\ ~attached
  /\ stale => script \in {"check", "ended"} /\ proc = "none" /\ ~attached
  /\ proc = "none" => script = "check" \/ stale
  /\ script = "insmod" => ~loaded /\ ~attached
  /\ script \in {"insmod", "cont", "refused"} => proc \in {"starting", "stopped"}
  /\ proc \in {"starting", "stopped"} => script # "ended"
  /\ script = "ended" => Ended \/ stale
  /\ proc \in {"none", "starting", "stopped"} => hits = 0

\* The .exp file: why it has gone on, and what has become of the module.
ExpectInv ==
  /\ (expect # "watch" /\ ~Negative /\ ~ByHand) =>
       \/ proc \in {"passed", "leaving"} /\ loc_return = 0
       \/ EndOfFile /\ proc # "passed" /\ loc_return # 0
  /\ (expect # "watch" /\ Negative) =>
       script # "check" /\ loc_return = 0 /\ (early \/ EndOfFile)
  /\ expect = "watch" => loc_return = -1
  /\ Negative => expect # "end_mod"
  /\ ByHand => expect \in {"watch", "done"}
  /\ (expect # "done" \/ ByHand) => outcome = "none"
  /\ (expect = "done" /\ ~ByHand) => outcome # "none"
  /\ (outcome \in {"pass", "fail"} /\ ~(Negative /\ early)) =>
       /\ ~loaded
       /\ ~HasSlots => ~attached /\ \A p \in Tasks : pc[p] # "store"
  /\ outcome = "error" => loaded
  /\ outcome = "pass" => loc_return = 0 /\ same

\* The module's counter, and what it prints.
CountInv ==
  /\ counter <= hits
  /\ \A p \in Tasks : pc[p] = "store" => tmp[p] < hits

Legal(line, n) ==
  \/ line \in {Registration, Called(0)} \cup {Summary(k) : k \in 0 .. n}
  \/ PrintsLast /\ line \in [text : {"called"} \cup Range(LastCalls), num : 0 .. 2]

LinesInv == \A i \in DOMAIN log : Legal(log[i], hits)

HarnessInv ==
  /\ TypeInv /\ MainInv /\ ForkInv /\ ScriptInv /\ ExpectInv /\ CountInv /\ LinesInv
  /\ \A t \in Threads : ThreadInv(t)
  /\ \A c \in Children : ChildInv(c)

\* A test whose counts are ints, as niter and what a probe function returns are.
CountsFit == 2 * Iters <= IntHalf

\* No handler has counted more calls than there were.
Made(t) == calls[t] + (IF pc[t] \in {"store", "return"} THEN 1 ELSE 0)

CountsOf(t) ==
  /\ slot[t].kcount = NotCounting \/ slot[t].kcount < Made(t)
  /\ result[t] \in {-2, -1, 0, 1}

ResultInv == \A t \in Threads : CountsOf(t)

-----------------------------------------------------------------------------
(* The parameters and the programs. *)

\* The tasks: NumThreads threads, and one child of each.
LEMMA ParameterFacts ==
  /\ NumThreads \in Nat /\ NumThreads > 0
  /\ Iters \in Nat /\ Iters > 0
  /\ Tasks = Threads \cup Children
  /\ Threads \cap Children = {}
  /\ \A t \in Threads : Child(t) \in Children
  /\ \A t, u \in Threads : Child(t) = Child(u) => t = u
  /\ \A c \in Children : \E t \in Threads : c = Child(t)
  /\ Threads = 1 .. NumThreads
  BY ForkAssumption DEF Tasks, Threads, Children, Child

\* The two functions that probeme6 calls last.
LEMMA LastCallsFacts ==
  /\ Len(LastCalls) = 2 /\ DOMAIN LastCalls = {1, 2}
  /\ LastCalls[1] = "bye" /\ LastCalls[2] = "adios"
  /\ Range(LastCalls) = {"bye", "adios"}
  BY DEF LastCalls, Range

Kinds == {"fork_thread", "fork_and_defunc", "probe8-fork", "probe7-thread",
          "probeme6", "suicide"}

\* What a program is, and how many threads and calls it has.
LEMMA ProgramFacts ==
  ASSUME test \in Tests
  PROVE  /\ Program \in Kinds
         /\ Workers \in Nat /\ Workers > 0 /\ Workers <= NumThreads
         /\ AllCalls \in Nat /\ AllCalls > Iters
         /\ Single \in BOOLEAN /\ Forks \in BOOLEAN /\ HasSlots \in BOOLEAN
  <1>1. Program \in Kinds
    BY ForkAssumption DEF Program, Kinds, ForkPrograms
  <1>2. Workers \in Nat /\ Workers > 0 /\ Workers <= NumThreads
    <2>1. Program = "probe7-thread" => NumThreads > 1
      BY ForkAssumption DEF Program
    <2>. QED  BY <1>1, <2>1, ParameterFacts DEF Workers, Single, Probeme6, Kinds
  <1>3. AllCalls \in Nat /\ AllCalls > Iters
    BY ParameterFacts, LastCallsFacts DEF AllCalls
  <1>. QED  BY <1>1, <1>2, <1>3 DEF Single, Forks, HasSlots, Probeme6

\* No step changes the test.
LEMMA TestStays ==
  ASSUME test' = test
  PROVE  /\ Program' = Program /\ Workers' = Workers /\ AllCalls' = AllCalls
         /\ Single' = Single /\ Forks' = Forks /\ HasSlots' = HasSlots
         /\ Probeme6' = Probeme6 /\ Negative' = Negative /\ ByHand' = ByHand
         /\ PrintsFirst' = PrintsFirst /\ PrintsLast' = PrintsLast
         /\ Registration' = Registration /\ Misprinted' = Misprinted
  <1>1. Program' = Program /\ HasSlots' = HasSlots
    BY DEF Program, HasSlots
  <1>2. Registration' = Registration /\ Misprinted' = Misprinted
    BY <1>1 DEF Registration, Misprinted
  <1>. QED
    BY <1>2 DEF Program, Workers, AllCalls, Single, Forks, HasSlots, Probeme6, Negative,
           ByHand, PrintsFirst, PrintsLast

ProgramStep == Programs /\ UNCHANGED <<expectVars, scriptVars, moduleVars, stale>>

\* A test has one program.
LEMMA NextTest == ASSUME [Next]_vars PROVE test' = test
  <1>1. CASE Script
    BY <1>1 DEF Script, Check, Insmod, Continue, Kill, WaitForJob, forkVars
  <1>2. CASE Expect
    BY <1>2 DEF Expect, SeePassed, SeeEnd, RunByHand, SeeLine, EndMod, Compare,
       Rmmod, forkVars
  <1>3. CASE Main
    BY <1>3 DEF Main, Stop, Create, CreateFails, SayPassed, Join, JoinCrashes
  <1>4. ASSUME NEW t \in Threads, Thread(t) PROVE test' = test
    BY <1>4 DEF Thread, Fork, ForkFails, Wait, Hit, Store, Miss, Oops, Exits,
       ParentReturns, Returns
  <1>5. ASSUME NEW c \in Children, ChildStep(c) PROVE test' = test
    BY <1>5 DEF ChildStep, Hit, Store, Miss, Trapped, ChildReturns, Returns
  <1>6. CASE UNCHANGED vars
    BY <1>6 DEF vars, forkVars
  <1>. QED
    BY <1>1, <1>2, <1>3, <1>4, <1>5, <1>6
    DEF Next, Progress, Programs, Done, Hangs

-----------------------------------------------------------------------------
(* Types. *)

\* What the log can be given.
LEMMA LineFacts ==
  /\ Reg \in Line
  /\ \A n \in Nat : Summary(n) \in Line /\ Called(n) \in Line
  BY DEF Line, Reg, Summary, Called

\* What the registration line is, and what comparing makes of it.
LEMMA RegistrationFacts ==
  ASSUME test \in Tests
  PROVE  /\ Registration \in Line
         /\ Registration.text \in {"Registering", "inode", "null"}
         /\ ~ HasSlots => Registration = Reg
         /\ Normalised(Registration) \in {Reg, Registration}
         /\ (Program = "fork_thread" /\ ~ Misprinted) => Normalised(Registration) = Reg
  <1>. DEFINE n == ToInt(test.inode)
  <1>1. test.inode \in ULong
    BY ForkAssumption
  <1>2. n \in Int
    BY <1>1, ToIntType
  <1>3. \/ HasSlots /\ WideLong /\ Registration = [text |-> "inode", num |-> n]
        \/ HasSlots /\ ~ WideLong /\ Registration = [text |-> "null", num |-> n]
        \/ ~ HasSlots /\ Registration = Reg
    BY DEF Registration
  <1>4. (Program = "fork_thread" /\ ~ Misprinted) => HasSlots /\ WideLong /\ n > 0
    BY <1>2 DEF Misprinted, HasSlots
  <1>. HIDE DEF n
  <1>5. Registration \in Line /\ Registration.text \in {"Registering", "inode", "null"}
    BY <1>2, <1>3 DEF Line, Reg
  <1>6. Normalised(Registration) =
          IF Registration.text = "inode" /\ Registration.num > 0 THEN Reg ELSE Registration
    BY <1>5 DEF Normalised
  <1>7. (HasSlots /\ WideLong /\ n > 0) => Normalised(Registration) = Reg
    BY <1>3, <1>6
  <1>. QED  BY <1>3, <1>4, <1>5, <1>6, <1>7

\* There are three functions to call.
LEMMA FunctionType ==
  ASSUME test \in Tests, NEW n \in Nat, n <= AllCalls
  PROVE  Function(n) \in {0, 1, 2}
  BY ParameterFacts, LastCallsFacts DEF Function, AllCalls

\* No more calls are of one function than there are calls.
LEMMA CallsOfFacts ==
  ASSUME NEW f, NEW n \in Nat
  PROVE  CallsOf(f, n) \in 0 .. n
  <1>. DEFINE S == {i \in 1 .. n : Function(i) = f}
  <1>1. IsFiniteSet(1 .. n) /\ Cardinality(1 .. n) = n
    BY FS_Interval
  <1>2. IsFiniteSet(S) /\ Cardinality(S) <= n
    BY <1>1, FS_Subset
  <1>3. Cardinality(S) \in Nat
    BY <1>2, FS_CardinalityType
  <1>. QED  BY <1>2, <1>3 DEF CallsOf

\* Each of the functions that probeme6 calls last is called once.
LEMMA LastCallsOnce ==
  ASSUME NEW f \in {1, 2}, NEW n \in Nat
  PROVE  CallsOf(f, n) <= 1
  <1>. DEFINE S == {i \in 1 .. n : Function(i) = f}
  <1>1. S \subseteq {f + Iters}
    BY ParameterFacts DEF Function
  <1>2. IsFiniteSet({f + Iters}) /\ Cardinality({f + Iters}) = 1
    BY FS_Singleton
  <1>3. Cardinality(S) <= 1
    BY <1>1, <1>2, FS_Subset
  <1>. QED  BY <1>3 DEF CallsOf

\* The summary, line by line.
LEMMA SummariesFacts ==
  ASSUME test \in Tests, NEW n \in Nat
  PROVE  /\ Summaries(n) \in Seq(Line)
         /\ Len(Summaries(n)) > 0
         /\ Summaries(n)[1] = Summary(CallsOf(0, n))
         /\ Program # "probeme6" => Len(Summaries(n)) = 1
         /\ Program = "probeme6" =>
              /\ Len(Summaries(n)) = 3
              /\ \A f \in {1, 2} :
                   Summaries(n)[1 + f] = [text |-> LastCalls[f], num |-> CallsOf(f, n)]
  <1>1. CallsOf(0, n) \in Nat /\ CallsOf(1, n) \in Nat /\ CallsOf(2, n) \in Nat
    BY CallsOfFacts
  <1>2. <<Summary(CallsOf(0, n))>> \in Seq(Line)
    BY <1>1, LineFacts
  <1>3. CASE Program # "probeme6"
    <2>1. Summaries(n) = <<Summary(CallsOf(0, n))>> \o <<>>
      BY <1>3 DEF Summaries
    <2>2. Summaries(n) = <<Summary(CallsOf(0, n))>>
      BY <2>1, <1>2, ConcatEmptySeq
    <2>. QED  BY <1>2, <1>3, <2>2
  <1>4. CASE Program = "probeme6"
    <2>. DEFINE e == [f \in DOMAIN LastCalls |->
                        [text |-> LastCalls[f], num |-> CallsOf(f, n)]]
    <2>1. /\ e = [f \in 1 .. 2 |-> [text |-> LastCalls[f], num |-> CallsOf(f, n)]]
          /\ \A f \in 1 .. 2 : [text |-> LastCalls[f], num |-> CallsOf(f, n)] \in Line
      BY <1>1, LastCallsFacts DEF Line
    <2>2. e \in Seq(Line) /\ Len(e) = 2
      BY <2>1
    <2>3. Summaries(n) = <<Summary(CallsOf(0, n))>> \o e
      BY <1>4 DEF Summaries
    <2>4. /\ Len(Summaries(n)) = 3 /\ Summaries(n) \in Seq(Line)
          /\ Summaries(n)[1] = Summary(CallsOf(0, n))
          /\ Summaries(n)[2] = e[1] /\ Summaries(n)[3] = e[2]
      BY <1>2, <2>2, <2>3
    <2>. QED  BY <1>4, <2>1, <2>4
  <1>. QED  BY <1>3, <1>4

\* What a program's step does to the types of main() and of the tasks.
LEMMA ClaimedType ==
  ASSUME TypeInv, NEW p \in Tasks
  PROVE  /\ slot[p] \in Slots(Tasks)
         /\ Claimed(p) \in Slots(Tasks)
         /\ Claimed(p).kcount = slot[p].kcount
         /\ Claimed(p).ucount = slot[p].ucount
  <1>1. slot[p] \in Slots(Tasks)
    BY DEF TypeInv, TaskType
  <1>. QED  BY <1>1 DEF Claimed, Slots

\* The programs' steps and the scripts' variables.
LEMMA ProgramTestType ==
  ASSUME TypeInv, ProgramStep PROVE TestType' /\ ScriptType' /\ ExpectType'
  <1>1. test' = test
    BY NextTest DEF ProgramStep, Next, Progress
  <1>2. attached' = attached /\ fault' \in BOOLEAN /\ overlap' \in BOOLEAN
    <2>1. CASE Main
      BY <2>1 DEF Main, Stop, Create, CreateFails, SayPassed, Join, JoinCrashes,
         TypeInv, TestType, countVars
    <2>2. ASSUME NEW t \in Threads, Thread(t)
          PROVE  attached' = attached /\ fault' \in BOOLEAN /\ overlap' \in BOOLEAN
      BY <2>2 DEF Thread, Fork, ForkFails, Wait, Hit, Store, Miss, Oops, Exits,
         ParentReturns, Returns, TypeInv, TestType, countVars
    <2>3. ASSUME NEW c \in Children, ChildStep(c)
          PROVE  attached' = attached /\ fault' \in BOOLEAN /\ overlap' \in BOOLEAN
      BY <2>3 DEF ChildStep, Hit, Store, Miss, Trapped, ChildReturns, Returns,
         TypeInv, TestType, countVars
    <2>. QED  BY <2>1, <2>2, <2>3 DEF ProgramStep, Programs
  <1>. QED
    BY <1>1, <1>2
    DEF ProgramStep, expectVars, scriptVars, moduleVars, TypeInv, TestType,
        ScriptType, ExpectType

\* The programs' steps and main().
LEMMA ProgramMainType ==
  ASSUME TypeInv, MainInv, ProgramStep PROVE MainType'
  <1>1. test' = test
    BY NextTest DEF ProgramStep, Next, Progress
  <1>2. Workers' = Workers /\ Workers \in Nat
    BY <1>1, TestStays, ProgramFacts DEF TypeInv, TestType
  <1>3. CASE Main
    BY <1>2, <1>3
    DEF Main, Stop, Create, CreateFails, SayPassed, Join, JoinCrashes, TypeInv,
        MainType, MainInv
  <1>4. ASSUME NEW t \in Threads, Thread(t) PROVE MainType'
    BY <1>2, <1>4
    DEF Thread, Fork, ForkFails, Wait, Hit, Store, Miss, Oops, Exits,
        ParentReturns, Returns, TypeInv, MainType, mainVars
  <1>5. ASSUME NEW c \in Children, ChildStep(c) PROVE MainType'
    BY <1>2, <1>5
    DEF ChildStep, Hit, Store, Miss, Trapped, ChildReturns, Returns, TypeInv,
        MainType, mainVars
  <1>. QED  BY <1>3, <1>4, <1>5 DEF ProgramStep, Programs

\* pc, and the rest of a task's state apart from its slot.
LEMMA ProgramTaskType ==
  ASSUME TypeInv, MainInv, \A t \in Threads : ThreadInv(t),
         \A c \in Children : ChildInv(c), ProgramStep
  PROVE  TaskType'
  <1>1. test' = test /\ AllCalls' = AllCalls /\ AllCalls \in Nat /\ test \in Tests
        /\ Iters \in Nat /\ Iters < AllCalls
    BY NextTest, TestStays, ProgramFacts, ParameterFacts
    DEF ProgramStep, Next, Progress, TypeInv, TestType
  <1>2. \A t \in Threads : t \in Tasks /\ t \notin Children
                           /\ Child(t) \in Children /\ Child(t) \in Tasks
    BY ParameterFacts
  <1>3. \A c \in Children : c \in Tasks /\ c \notin Threads
    BY ParameterFacts
  <1>4. counter \in ULong /\ \A p \in Tasks : slot[p] \in Slots(Tasks)
    BY DEF TypeInv, CountType, TaskType
  <1>5. ASSUME Main PROVE TaskType'
    <2>1. CASE Stop \/ Join \/ JoinCrashes
      BY <1>1, <2>1 DEF Stop, Join, JoinCrashes, taskVars, TypeInv, TaskType
    <2>2. CASE Create \/ CreateFails \/ SayPassed
      <3>1. created < Workers => created + 1 \in Threads
        BY <1>1, ParameterFacts, ProgramFacts DEF TypeInv, MainType
      <3>2. 1 \in Threads
        BY ParameterFacts
      <3>3. CASE Create
        BY <1>1, <1>2, <3>1, <3>3 DEF Create, TypeInv, TaskType
      <3>4. CASE CreateFails
        <4>1. \/ UNCHANGED pc
              \/ pc' = [pc EXCEPT ![created + 1] = "garbage"]
                 /\ created + 1 \in Threads
          BY <3>1, <3>4 DEF CreateFails
        <4>2. UNCHANGED <<calls, slot, result, tmp, status, waited>>
          BY <3>4 DEF CreateFails
        <4>3. CASE UNCHANGED pc
          BY <1>1, <4>2, <4>3 DEF TypeInv, TaskType
        <4>4. CASE pc' = [pc EXCEPT ![created + 1] = "garbage"]
                   /\ created + 1 \in Threads
          BY <1>1, <1>2, <4>2, <4>4 DEF TypeInv, TaskType
        <4>. QED  BY <4>1, <4>3, <4>4
      <3>5. CASE SayPassed
        BY <1>1, <1>2, <3>2, <3>5 DEF SayPassed, TypeInv, TaskType
      <3>. QED  BY <2>2, <3>3, <3>4, <3>5
    <2>. QED  BY <1>5, <2>1, <2>2 DEF Main
  <1>6. ASSUME NEW t \in Threads, Thread(t) PROVE TaskType'
    <2>1. CASE Fork(t)
      <3>1. pc' \in [Tasks -> {"none", "garbage", "fork", "call", "store",
                 "return", "say", "wait", "done", "zombie", "reaped"}]
        BY <1>2, <2>1 DEF Fork, TypeInv, TaskType
      <3>2. /\ \A u \in Threads : pc'[u] \notin {"zombie", "reaped"}
            /\ \A c \in Children : pc'[c] \notin {"garbage", "fork", "say",
                                                  "wait", "done"}
        BY <1>2, <1>3, <2>1 DEF Fork, TypeInv, TaskType
      <3>3. slot' \in [Tasks -> Slots(Tasks)]
        BY <1>2, <1>4, <2>1 DEF Fork, TypeInv, TaskType
      <3>. QED  BY <1>1, <2>1, <3>1, <3>2, <3>3 DEF Fork, TypeInv, TaskType
    <2>7. CASE ForkFails(t)
      <3>1. UNCHANGED pc \/ pc' = [pc EXCEPT ![t] = "call"]
        BY <2>7 DEF ForkFails
      <3>2. UNCHANGED <<calls, slot, result, tmp, status, waited>>
        BY <2>7 DEF ForkFails
      <3>3. CASE UNCHANGED pc
        BY <1>1, <3>2, <3>3 DEF TypeInv, TaskType
      <3>4. CASE pc' = [pc EXCEPT ![t] = "call"]
        BY <1>1, <1>2, <3>2, <3>4 DEF TypeInv, TaskType
      <3>. QED  BY <3>1, <3>3, <3>4
    <2>2. CASE Wait(t)
      <3>1. result' \in [Threads -> Int]
        BY <2>2 DEF Wait, StatusOf, TypeInv, TaskType
      <3>2. waited' \in [Threads -> {"none", "exit0", "exit1", "signal"}]
        BY <2>2 DEF Wait, TypeInv, TaskType
      <3>. QED  BY <1>1, <1>2, <1>3, <2>2, <3>1, <3>2 DEF Wait, TypeInv, TaskType
    <2>3. CASE Hit(t)
      <3>1. slot' \in [Tasks -> Slots(Tasks)]
        <4>1. HandlerCounts(Claimed(t), t) \in Slots(Tasks)
          BY <1>2, ClaimedType, SlotFacts
        <4>. QED  BY <1>4, <2>3, <4>1 DEF Hit, TypeInv, TaskType
      <3>. QED  BY <1>1, <1>2, <1>4, <2>3, <3>1 DEF Hit, TypeInv, TaskType
    <2>4. CASE Store(t)
      BY <1>1, <1>2, <2>4 DEF Store, TypeInv, TaskType
    <2>8. CASE Oops(t)
      BY <1>1, <1>2, <2>8 DEF Oops, TypeInv, TaskType
    <2>9. CASE Exits(t)
      BY <1>1, <1>2, <2>9 DEF Exits, TypeInv, TaskType
    <2>5. CASE Miss(t)
      BY <1>1, <1>2, <1>4, <2>5, ClaimedType DEF Miss, TypeInv, TaskType
    <2>6. CASE ParentReturns(t)
      <3>1. slot' \in [Tasks -> Slots(Tasks)] /\ ProbeResult(slot'[t]) \in Int
        <4>1. UserCounts(slot[t]) \in Slots(Tasks)
          BY <1>2, <1>4, SlotFacts
        <4>2. slot' \in [Tasks -> Slots(Tasks)]
          BY <1>4, <2>6, <4>1 DEF ParentReturns, Returns, TypeInv, TaskType
        <4>3. slot'[t] \in Slots(Tasks)
          BY <1>2, <4>2
        <4>. QED  BY <1>2, <4>2, <4>3, SlotFacts
      <3>2. calls' \in [Tasks -> 0 .. AllCalls]
        BY <1>1, <1>2, <2>6
        DEF ParentReturns, Returns, TypeInv, TaskType, ThreadInv
      <3>3. result' \in [Threads -> Int]
        BY <2>6, <3>1 DEF ParentReturns, StatusOf, TypeInv, TaskType
      <3>4. /\ pc' \in [Tasks -> {"none", "garbage", "fork", "call", "store",
                 "return", "say", "wait", "done", "zombie", "reaped"}]
            /\ \A u \in Threads : pc'[u] \notin {"zombie", "reaped"}
            /\ \A c \in Children : pc'[c] \notin {"garbage", "fork", "say",
                                                  "wait", "done"}
        BY <1>2, <1>3, <2>6 DEF ParentReturns, AfterRound, TypeInv, TaskType
      <3>. QED
        BY <1>1, <2>6, <3>1, <3>2, <3>3, <3>4
        DEF ParentReturns, Returns, TypeInv, TaskType
    <2>. QED
      BY <1>6, <2>1, <2>2, <2>3, <2>4, <2>5, <2>6, <2>7, <2>8, <2>9 DEF Thread
  <1>7. ASSUME NEW c \in Children, ChildStep(c) PROVE TaskType'
    <2>1. CASE Hit(c)
      <3>1. slot' \in [Tasks -> Slots(Tasks)]
        <4>1. HandlerCounts(Claimed(c), c) \in Slots(Tasks)
          BY <1>3, ClaimedType, SlotFacts
        <4>. QED  BY <1>4, <2>1, <4>1 DEF Hit, TypeInv, TaskType
      <3>. QED  BY <1>1, <1>3, <1>4, <2>1, <3>1 DEF Hit, TypeInv, TaskType
    <2>2. CASE Store(c)
      BY <1>1, <1>3, <2>2 DEF Store, TypeInv, TaskType
    <2>5. CASE Trapped(c)
      BY <1>1, <1>3, <2>5 DEF Trapped, TypeInv, TaskType
    <2>3. CASE Miss(c)
      BY <1>1, <1>3, <1>4, <2>3, ClaimedType DEF Miss, TypeInv, TaskType
    <2>4. CASE ChildReturns(c)
      <3>1. slot' \in [Tasks -> Slots(Tasks)]
        <4>1. UserCounts(slot[c]) \in Slots(Tasks)
          BY <1>3, <1>4, SlotFacts
        <4>. QED
          BY <1>4, <2>4, <4>1 DEF ChildReturns, Returns, TypeInv, TaskType
      <3>2. calls' \in [Tasks -> 0 .. AllCalls]
        BY <1>1, <1>3, <2>4
        DEF ChildReturns, Returns, TypeInv, TaskType, ChildInv
      <3>. QED
        BY <1>1, <1>3, <2>4, <3>1, <3>2
        DEF ChildReturns, Returns, TypeInv, TaskType
    <2>. QED  BY <1>7, <2>1, <2>2, <2>3, <2>4, <2>5 DEF ChildStep
  <1>. QED  BY <1>5, <1>6, <1>7 DEF ProgramStep, Programs

\* A handler runs before the last call has returned.
LEMMA InCall ==
  ASSUME TypeInv, \A t \in Threads : ThreadInv(t), \A c \in Children : ChildInv(c),
         NEW p \in Tasks, pc[p] \in {"call", "store", "return"}
  PROVE  /\ calls[p] \in Nat /\ calls[p] < AllCalls
         /\ Function(calls[p] + 1) \in {0, 1, 2}
  <1>0. test \in Tests /\ calls \in [Tasks -> 0 .. AllCalls]
    BY DEF TypeInv, TestType, TaskType
  <1>a. AllCalls \in Nat /\ Iters \in Nat /\ Iters < AllCalls
    BY <1>0, ProgramFacts, ParameterFacts
  <1>1. calls[p] \in Nat /\ AllCalls \in Nat /\ Iters \in Nat /\ Iters < AllCalls
        /\ test \in Tests
    BY <1>0, <1>a
  <1>2. calls[p] < AllCalls
    <2>1. CASE p \in Threads
      BY <2>1 DEF ThreadInv
    <2>2. CASE p \in Children
      BY <1>1, <2>2 DEF ChildInv
    <2>. QED  BY <2>1, <2>2, ParameterFacts
  <1>3. Function(calls[p] + 1) \in {0, 1, 2}
    BY <1>1, <1>2, FunctionType
  <1>. QED  BY <1>1, <1>2, <1>3

\* The counter, the histories and the log in a step of a program.
LEMMA ProgramCountType ==
  ASSUME TypeInv, \A t \in Threads : ThreadInv(t),
         \A c \in Children : ChildInv(c), ProgramStep
  PROVE  CountType'
  <1>1. /\ counter \in ULong /\ hits \in Nat /\ childHits \in 0 .. hits
        /\ log \in Seq(Line) /\ tmp \in [Tasks -> ULong]
    BY DEF TypeInv, CountType, TaskType
  <1>2. CASE UNCHANGED countVars
    BY <1>1, <1>2 DEF countVars, CountType
  <1>3. ASSUME NEW p \in Tasks, Hit(p) PROVE CountType'
    <2>1. Append(log, Called(0)) \in Seq(Line)
      BY <1>1, LineFacts
    <2>2. log' \in Seq(Line)
      BY <1>1, <1>3, <2>1 DEF Hit
    <2>3. hits' \in Nat /\ childHits' \in 0 .. hits' /\ counter' = counter
      BY <1>1, <1>3 DEF Hit
    <2>. QED  BY <1>1, <2>2, <2>3 DEF CountType
  <1>4. ASSUME NEW p \in Tasks, Store(p) PROVE CountType'
    <2>1. Function(calls[p] + 1) \in Nat
      BY <1>4, InCall DEF Store
    <2>2. Append(log, Called(Function(calls[p] + 1))) \in Seq(Line)
      BY <1>1, <2>1, LineFacts
    <2>3. log' \in Seq(Line)
      BY <1>1, <1>4, <2>2 DEF Store
    <2>4. counter' \in ULong /\ hits' = hits /\ childHits' = childHits
      BY <1>1, <1>4, IncrType DEF Store
    <2>. QED  BY <1>1, <2>3, <2>4 DEF CountType
  <1>5. ASSUME NEW t \in Threads, Exits(t) PROVE CountType'
    <2>1. hits' = hits + 1 /\ counter' = counter /\ log' = log
          /\ childHits' = childHits
      BY <1>5 DEF Exits
    <2>. QED  BY <1>1, <2>1 DEF CountType
  <1>6. CASE Main
    BY <1>2, <1>6 DEF Main, Stop, Create, CreateFails, SayPassed, Join, JoinCrashes
  <1>7. ASSUME NEW t \in Threads, Thread(t) PROVE CountType'
    <2>1. t \in Tasks
      BY ParameterFacts
    <2>2. CASE Hit(t) \/ Store(t) \/ Exits(t)
      BY <1>3, <1>4, <1>5, <2>1, <2>2
    <2>3. CASE ~ (Hit(t) \/ Store(t) \/ Exits(t))
      BY <1>2, <1>7, <2>3
      DEF Thread, Fork, ForkFails, Wait, Miss, Oops, ParentReturns, Returns
    <2>. QED  BY <2>2, <2>3
  <1>8. ASSUME NEW c \in Children, ChildStep(c) PROVE CountType'
    <2>1. c \in Tasks
      BY ParameterFacts
    <2>2. CASE Hit(c) \/ Store(c)
      BY <1>3, <1>4, <2>1, <2>2
    <2>3. CASE ~ (Hit(c) \/ Store(c))
      BY <1>2, <1>8, <2>3 DEF ChildStep, Miss, Trapped, ChildReturns, Returns
    <2>. QED  BY <2>2, <2>3
  <1>. QED  BY <1>6, <1>7, <1>8 DEF ProgramStep, Programs

\* The types in a step of runtest.sh.
LEMMA ScriptType1 ==
  ASSUME TypeInv, ScriptInv, Script PROVE TypeInv'
  <1>1. test' = test /\ Workers' = Workers /\ AllCalls' = AllCalls
    BY NextTest, TestStays DEF Next, Progress
  <1>2. /\ UNCHANGED <<taskVars, created, joined, counter, hits, childHits, overlap,
                       expectVars, entry, early, stale>>
        /\ log' \in {log, <<Registration>>}
        /\ attached' \in BOOLEAN /\ loaded' \in BOOLEAN /\ fault' \in BOOLEAN
        /\ lateStop' \in BOOLEAN /\ said' \in BOOLEAN
        /\ proc' \in {proc, "starting", "running", "passed", "killed"}
        /\ script' \in {"ended", "insmod", "cont", "refused", "wait", "kill"}
    <2>1. CASE Check
      BY <2>1 DEF Check, countVars, moduleVars, TypeInv, TestType, ScriptType
    <2>2. CASE Insmod
      BY <2>2 DEF Insmod, mainVars, TypeInv, TestType, ScriptType
    <2>3. CASE Continue
      BY <2>3 DEF Continue, countVars, moduleVars, TypeInv, TestType, ScriptType
    <2>4. CASE Kill
      BY <2>4 DEF Kill, countVars, moduleVars, TypeInv, TestType, ScriptType
    <2>5. CASE WaitForJob
      BY <2>5 DEF WaitForJob, forkVars, mainVars, countVars, moduleVars, TypeInv,
                  TestType, ScriptType
    <2>. QED  BY <2>1, <2>2, <2>3, <2>4, <2>5 DEF Script
  <1>3. <<Registration>> \in Seq(Line)
    BY RegistrationFacts DEF TypeInv, TestType
  <1>4. TestType' /\ MainType' /\ ScriptType'
    BY <1>1, <1>2 DEF TypeInv, TestType, MainType, ScriptType
  <1>5. TaskType'
    BY <1>1, <1>2 DEF TypeInv, TaskType, taskVars
  <1>6. CountType' /\ ExpectType'
    BY <1>2, <1>3 DEF TypeInv, CountType, ExpectType, expectVars
  <1>. QED  BY <1>4, <1>5, <1>6 DEF TypeInv

\* The types in a step of the .exp file.
LEMMA ExpectType1 ==
  ASSUME TypeInv, Expect PROVE TypeInv'
  <1>1. test' = test /\ Workers' = Workers /\ AllCalls' = AllCalls
    BY NextTest, TestStays DEF Next, Progress
  <1>2. /\ UNCHANGED <<taskVars, mainVars, counter, hits, childHits, overlap,
                       scriptVars, stale>>
        /\ log' \in {log, log \o Summaries(counter)}
        /\ attached' \in BOOLEAN /\ loaded' \in BOOLEAN /\ fault' \in BOOLEAN
        /\ early' \in BOOLEAN /\ same' \in BOOLEAN
        /\ expect' \in {"end_mod", "diff", "rmmod", "done"}
        /\ loc_return' \in {-1, 0, 1} /\ entry' \in {0, 1}
        /\ outcome' \in {outcome, "pass", "fail", "error"}
    <2>1. CASE SeePassed
      BY <2>1 DEF SeePassed, forkVars, countVars, moduleVars, TypeInv, TestType,
                  ExpectType
    <2>2. CASE SeeEnd
      BY <2>2 DEF SeeEnd, forkVars, countVars, moduleVars, TypeInv, TestType,
                  ExpectType
    <2>3. CASE RunByHand
      BY <2>3 DEF RunByHand, forkVars, countVars, moduleVars, TypeInv, TestType,
                  ExpectType
    <2>4. CASE SeeLine
      BY <2>4 DEF SeeLine, forkVars, countVars, EndOfFile, TypeInv, TestType,
                  ExpectType
    <2>5. CASE EndMod
      BY <2>5 DEF EndMod, TypeInv, TestType, ExpectType
    <2>6. CASE Compare
      BY <2>6 DEF Compare, forkVars, countVars, moduleVars, TypeInv, TestType,
                  ExpectType
    <2>7. CASE Rmmod
      BY <2>7 DEF Rmmod, countVars, TypeInv, TestType, ExpectType
    <2>. QED  BY <2>1, <2>2, <2>3, <2>4, <2>5, <2>6, <2>7 DEF Expect
  <1>3. log \o Summaries(counter) \in Seq(Line)
    <2>1. counter \in Nat /\ test \in Tests
      BY WidthFacts DEF TypeInv, TestType, CountType, ULong
    <2>2. Summaries(counter) \in Seq(Line)
      BY <2>1, SummariesFacts
    <2>. QED  BY <2>2 DEF TypeInv, CountType
  <1>4. TestType' /\ MainType' /\ ScriptType'
    BY <1>1, <1>2 DEF TypeInv, TestType, MainType, ScriptType, mainVars, scriptVars
  <1>5. TaskType'
    BY <1>1, <1>2 DEF TypeInv, TaskType, taskVars
  <1>6. CountType' /\ ExpectType'
    BY <1>2, <1>3 DEF TypeInv, CountType, ExpectType
  <1>. QED  BY <1>4, <1>5, <1>6 DEF TypeInv

\* Every step keeps the types.
LEMMA TypeStep == ASSUME HarnessInv, Next PROVE TypeInv'
  <1>1. CASE Script
    BY <1>1, ScriptType1 DEF HarnessInv
  <1>2. CASE Expect
    BY <1>2, ExpectType1 DEF HarnessInv
  <1>3. CASE ProgramStep
    BY <1>3, ProgramTestType, ProgramMainType, ProgramTaskType, ProgramCountType
    DEF HarnessInv, TypeInv
  <1>4. CASE UNCHANGED vars
    <2>1. test' = test /\ Workers' = Workers /\ AllCalls' = AllCalls
      BY NextTest, <1>4, TestStays DEF vars, forkVars
    <2>2. TestType' /\ MainType' /\ TaskType'
      BY <1>4, <2>1
      DEF HarnessInv, TypeInv, vars, forkVars, mainVars, taskVars, countVars,
          scriptVars, moduleVars, TestType, MainType, TaskType
    <2>3. CountType' /\ ScriptType' /\ ExpectType'
      BY <1>4
      DEF HarnessInv, TypeInv, vars, forkVars, countVars, expectVars, scriptVars,
          moduleVars, CountType, ScriptType, ExpectType
    <2>. QED  BY <2>2, <2>3 DEF TypeInv
  <1>. QED
    BY <1>1, <1>2, <1>3, <1>4 DEF Next, Progress, ProgramStep, Done, Hangs

-----------------------------------------------------------------------------
(* main(), the threads and the children. *)

\* A task that a step leaves alone keeps its invariant.
LEMMA ThreadStays ==
  ASSUME test' = test, NEW u \in Threads, ThreadInv(u),
         pc'[u] = pc[u], calls'[u] = calls[u], waited'[u] = waited[u],
         result'[u] = result[u]
  PROVE  ThreadInv(u)'
  <1>. USE TestStays
  <1>. QED  BY DEF ThreadInv, StatusOf

\* So does a child.
LEMMA ChildStays ==
  ASSUME NEW c \in Children, ChildInv(c),
         pc'[c] = pc[c], calls'[c] = calls[c], status'[c] = status[c]
  PROVE  ChildInv(c)'
  BY DEF ChildInv

\* So does main() where no thread is created or joined.
LEMMA MainStays ==
  ASSUME test' = test, MainInv,
         UNCHANGED mainVars,
         \A u \in Threads : /\ pc'[u] = "none" <=> pc[u] = "none"
                            /\ pc[u] \in {"done", "garbage"} =>
                                 pc'[u] = pc[u] /\ result'[u] = result[u]
  PROVE  MainInv'
  BY TestStays DEF MainInv, mainVars

TasksInv == /\ \A t \in Threads : ThreadInv(t)
            /\ \A c \in Children : ChildInv(c)

\* runtest.sh moves main() on, and no thread.
LEMMA ScriptMain == ASSUME HarnessInv, Script PROVE MainInv' /\ TasksInv'
  <1>1. test' = test /\ UNCHANGED <<taskVars, created, joined>>
    BY DEF Script, Check, Insmod, Continue, Kill, WaitForJob, forkVars, mainVars
  <1>2. Workers' = Workers /\ Probeme6' = Probeme6 /\ Workers > 0
    BY <1>1, TestStays, ProgramFacts DEF HarnessInv, TypeInv, TestType
  <1>3. /\ proc' \in {"none", "starting", "stopped"} =>
             proc \in {"none", "starting", "stopped"}
        /\ proc' \in {"running", "leaving"} =>
             proc' = proc \/ proc = "stopped"
        /\ proc' = "leaving" => proc = "leaving"
        /\ proc' = "passed" => proc \in {"passed", "leaving"}
    <2>1. CASE Check
      BY <2>1 DEF Check, HarnessInv, ScriptInv
    <2>2. CASE Insmod \/ WaitForJob
      BY <2>2 DEF Insmod, WaitForJob, forkVars, mainVars
    <2>3. CASE Continue
      BY <2>3 DEF Continue
    <2>4. CASE Kill
      BY <2>4 DEF Kill, Ended
    <2>. QED  BY <2>1, <2>2, <2>3, <2>4 DEF Script
  <1>4. MainInv'
    <2>1. created \in Nat /\ joined \in Nat /\ joined <= created
      BY <1>2, ProgramFacts DEF HarnessInv, TypeInv, TestType, MainType
    <2>. QED
      BY <1>1, <1>2, <1>3, <2>1 DEF HarnessInv, MainInv, taskVars
  <1>5. ASSUME NEW u \in Threads PROVE ThreadInv(u)'
    BY <1>1, ThreadStays DEF HarnessInv, taskVars
  <1>6. ASSUME NEW c \in Children PROVE ChildInv(c)'
    BY <1>1, ChildStays DEF HarnessInv, taskVars
  <1>. QED  BY <1>4, <1>5, <1>6 DEF TasksInv

\* The .exp file moves no task.
LEMMA ExpectMain ==
  ASSUME HarnessInv, Expect \/ UNCHANGED vars PROVE MainInv' /\ TasksInv'
  <1>1. test' = test /\ UNCHANGED <<taskVars, mainVars>>
    BY DEF Expect, SeePassed, SeeEnd, RunByHand, SeeLine, EndMod, Compare, Rmmod,
           forkVars, vars
  <1>2. MainInv'
    BY <1>1, MainStays DEF HarnessInv, taskVars
  <1>3. ASSUME NEW u \in Threads PROVE ThreadInv(u)'
    BY <1>1, ThreadStays DEF HarnessInv, taskVars
  <1>4. ASSUME NEW c \in Children PROVE ChildInv(c)'
    BY <1>1, ChildStays DEF HarnessInv, taskVars
  <1>. QED  BY <1>2, <1>3, <1>4 DEF TasksInv

\* main()'s own steps: a thread is created or joined, or main() ends.
LEMMA MainMain == ASSUME HarnessInv, Main PROVE MainInv' /\ TasksInv'
  <1>1. test' = test /\ calls' = calls /\ waited' = waited /\ result' = result
        /\ status' = status
    BY DEF Main, Stop, Create, CreateFails, SayPassed, Join, JoinCrashes, taskVars
  <1>2. /\ Workers' = Workers /\ Probeme6' = Probeme6
        /\ Workers \in Nat /\ Workers > 0 /\ Workers <= NumThreads
        /\ Program \in Kinds /\ Program' = Program
    BY <1>1, TestStays, ProgramFacts DEF HarnessInv, TypeInv, TestType
  <1>3. created \in Nat /\ joined \in Nat /\ joined <= created /\ created <= Workers
    BY <1>2 DEF HarnessInv, TypeInv, MainType
  <1>4. \A t \in Threads : t \in Tasks /\ t \notin Children
    BY ParameterFacts
  <1>5. \A c \in Children : c \in Tasks /\ c \notin Threads
    BY ParameterFacts
  <1>6. created < Workers => created + 1 \in Threads /\ pc[created + 1] = "none"
    BY <1>2, <1>3, ParameterFacts DEF HarnessInv, MainInv
  <1>7. pc \in [Tasks -> {"none", "garbage", "fork", "call", "store", "return",
                          "say", "wait", "done", "zombie", "reaped"}]
    BY DEF HarnessInv, TypeInv, TaskType
  <1>8. CASE Stop \/ Join \/ JoinCrashes
    <2>1. pc' = pc
      BY <1>8 DEF Stop, Join, JoinCrashes, taskVars
    <2>2. TasksInv'
      BY <1>1, <2>1, ThreadStays, ChildStays DEF HarnessInv, TasksInv
    <2>3. MainInv'
      <3>1. CASE Stop
        BY <1>1, <1>2, <2>1, <3>1 DEF Stop, HarnessInv, MainInv
      <3>2. CASE JoinCrashes
        BY <1>1, <1>2, <2>1, <3>2 DEF JoinCrashes, HarnessInv, MainInv
      <3>3. CASE Join
        <4>1. joined < Workers /\ joined + 1 \in Threads
          BY <1>2, <1>3, <3>3, ParameterFacts DEF Join, HarnessInv, MainInv
        <4>2. /\ \/ proc' \in {"failed", "internal"} /\ joined' = joined
                 \/ /\ joined' = joined + 1 /\ result[joined + 1] = 0
                    /\ proc' = IF joined' = Workers THEN "passed" ELSE "running"
              /\ pc[joined + 1] \in {"done", "garbage"} /\ created' = created
          BY <3>3 DEF Join
        <4>3. \A u \in Threads : u \in Nat
          BY ParameterFacts
        <4>. QED
          BY <1>1, <1>2, <1>3, <2>1, <4>1, <4>2, <4>3 DEF HarnessInv, MainInv
      <3>. QED  BY <1>8, <3>1, <3>2, <3>3
    <2>. QED  BY <2>2, <2>3
  <1>9. CASE Create
    <2>0. PICK n \in Threads : n = created + 1
      BY <1>6, <1>9 DEF Create
    <2>1. /\ n \in Threads /\ created' = n /\ pc[n] = "none"
          /\ pc' = [pc EXCEPT ![n] = IF Forks THEN "fork" ELSE "call"]
          /\ proc' = proc /\ joined' = joined /\ proc = "running"
      BY <1>6, <1>9, <2>0 DEF Create
    <2>2. /\ pc'[n] = (IF Forks THEN "fork" ELSE "call")
          /\ \A p \in Tasks : p # n => pc'[p] = pc[p]
      BY <1>4, <1>7, <2>1
    <2>3. \A u \in Threads : u \in Nat
      BY ParameterFacts
    <2>4. MainInv'
      <3>1. n = created + 1
        BY <2>0
      <3>2. \A u \in Threads : pc'[u] = "none" <=> u > created'
        BY <1>3, <1>4, <2>1, <2>2, <2>3, <3>1 DEF HarnessInv, MainInv
      <3>3. \A u \in Threads : u <= joined =>
              pc'[u] \in {"done", "garbage"} /\ result[u] = 0
        BY <1>3, <1>4, <2>1, <2>2, <2>3, <3>1 DEF HarnessInv, MainInv
      <3>. QED
        BY <1>1, <1>2, <2>1, <3>2, <3>3 DEF HarnessInv, MainInv
    <2>5. ThreadInv(n)'
      <3>1. ThreadInv(n) /\ Forks' = Forks /\ AllCalls' = AllCalls
        BY <1>1, <2>1, TestStays DEF HarnessInv
      <3>2. calls'[n] = 0 /\ waited'[n] = "none" /\ result'[n] = 0
        BY <1>1, <2>1, <3>1 DEF ThreadInv
      <3>3. 0 < AllCalls /\ 0 < Iters
        BY ProgramFacts, ParameterFacts DEF HarnessInv, TypeInv, TestType
      <3>4. pc'[n] = IF Forks THEN "fork" ELSE "call"
        BY <2>2
      <3>5. CASE Forks
        BY <3>1, <3>2, <3>4, <3>5 DEF ThreadInv
      <3>6. CASE ~ Forks
        BY <3>1, <3>2, <3>3, <3>4, <3>6 DEF ThreadInv
      <3>. QED  BY <3>5, <3>6
    <2>6. ASSUME NEW u \in Threads PROVE ThreadInv(u)'
      <3>1. CASE u = n
        BY <2>5, <3>1
      <3>2. CASE u # n
        BY <1>1, <1>4, <2>2, <3>2, ThreadStays DEF HarnessInv
      <3>. QED  BY <3>1, <3>2
    <2>7. ASSUME NEW c \in Children PROVE ChildInv(c)'
      <3>1. c # n
        BY <1>5, <2>1
      <3>. QED  BY <1>1, <1>5, <2>2, <3>1, ChildStays DEF HarnessInv
    <2>. QED  BY <2>4, <2>6, <2>7 DEF TasksInv
  <1>10. CASE CreateFails
    <2>1. CASE proc' = "internal" /\ UNCHANGED <<created, pc>>
      <3>1. joined' = joined
        BY <1>10 DEF CreateFails
      <3>2. TasksInv'
        BY <1>1, <2>1, ThreadStays, ChildStays DEF HarnessInv, TasksInv
      <3>. QED
        BY <1>1, <1>2, <2>1, <3>1, <3>2 DEF HarnessInv, MainInv
    <2>2. CASE ~ (proc' = "internal" /\ UNCHANGED <<created, pc>>)
      <3>0. PICK n \in Threads : n = created + 1
        BY <1>6, <1>10 DEF CreateFails
      <3>1. /\ n \in Threads /\ created' = n /\ pc[n] = "none"
            /\ pc' = [pc EXCEPT ![n] = "garbage"]
            /\ proc' = proc /\ joined' = joined /\ proc = "running"
            /\ Program = "probe7-thread"
        BY <1>2, <1>6, <1>10, <2>2, <3>0
        DEF CreateFails, Single, HasSlots, Probeme6, Kinds
      <3>2. /\ pc'[n] = "garbage"
            /\ \A p \in Tasks : p # n => pc'[p] = pc[p]
        BY <1>4, <1>7, <3>1
      <3>3. \A u \in Threads : u \in Nat
        BY ParameterFacts
      <3>4. MainInv'
        <4>1. n = created + 1
          BY <3>0
        <4>2. \A u \in Threads : pc'[u] = "none" <=> u > created'
          BY <1>3, <1>4, <3>1, <3>2, <3>3, <4>1 DEF HarnessInv, MainInv
        <4>3. \A u \in Threads : u <= joined =>
                pc'[u] \in {"done", "garbage"} /\ result[u] = 0
          BY <1>3, <1>4, <3>1, <3>2, <3>3, <4>1 DEF HarnessInv, MainInv
        <4>. QED
          BY <1>1, <1>2, <3>1, <4>2, <4>3 DEF HarnessInv, MainInv
      <3>5. ThreadInv(n)'
        <4>1. ThreadInv(n) /\ Forks' = Forks
          BY <1>1, <3>1, TestStays DEF HarnessInv
        <4>2. calls'[n] = 0 /\ waited'[n] = "none" /\ result'[n] = 0
          BY <1>1, <3>1, <4>1 DEF ThreadInv
        <4>. QED  BY <1>2, <3>1, <3>2, <4>1, <4>2 DEF ThreadInv
      <3>6. ASSUME NEW u \in Threads PROVE ThreadInv(u)'
        <4>1. CASE u = n
          BY <3>5, <4>1
        <4>2. CASE u # n
          BY <1>1, <1>4, <3>2, <4>2, ThreadStays DEF HarnessInv
        <4>. QED  BY <4>1, <4>2
      <3>7. ASSUME NEW c \in Children PROVE ChildInv(c)'
        <4>1. c # n
          BY <1>5, <3>1
        <4>. QED  BY <1>1, <1>5, <3>2, <4>1, ChildStays DEF HarnessInv
      <3>. QED  BY <3>4, <3>6, <3>7 DEF TasksInv
    <2>. QED  BY <2>1, <2>2
  <1>11. CASE SayPassed
    <2>1. /\ 1 \in Threads /\ pc[1] = "say" /\ pc' = [pc EXCEPT ![1] = "call"]
          /\ proc' = "leaving" /\ proc = "running"
          /\ created' = created /\ joined' = joined
      BY <1>11, ParameterFacts DEF SayPassed
    <2>2. pc'[1] = "call" /\ \A p \in Tasks : p # 1 => pc'[p] = pc[p]
      BY <1>4, <1>7, <2>1
    <2>3. ThreadInv(1) /\ calls[1] = Iters /\ Probeme6
      BY <2>1 DEF HarnessInv, ThreadInv
    <2>4. MainInv'
      BY <1>1, <1>2, <1>4, <2>1, <2>2, <2>3 DEF HarnessInv, MainInv
    <2>5. ThreadInv(1)'
      <3>1. Iters < AllCalls /\ AllCalls' = AllCalls /\ ~ Forks
            /\ Program \notin {"probe7-thread", "probe8-fork"}
        BY <1>1, <2>3, ProgramFacts, TestStays
        DEF HarnessInv, TypeInv, TestType, Forks, Probeme6
      <3>. QED  BY <1>1, <1>2, <2>1, <2>2, <2>3, <3>1, TestStays DEF ThreadInv
    <2>6. ASSUME NEW u \in Threads PROVE ThreadInv(u)'
      BY <1>1, <1>4, <2>2, <2>5, ThreadStays DEF HarnessInv
    <2>7. ASSUME NEW c \in Children PROVE ChildInv(c)'
      <3>1. c # 1
        BY <1>5, <2>1
      <3>. QED  BY <1>1, <1>5, <2>2, <3>1, ChildStays DEF HarnessInv
    <2>. QED  BY <2>4, <2>6, <2>7 DEF TasksInv
  <1>. QED  BY <1>8, <1>9, <1>10, <1>11 DEF Main

\* A step of one task that changes nothing in main(), nor in another task.
LEMMA OneTask ==
  ASSUME HarnessInv, test' = test, UNCHANGED mainVars, NEW p \in Tasks,
         \A q \in Tasks : q # p => pc'[q] = pc[q] /\ calls'[q] = calls[q],
         \A u \in Threads : u # p => result'[u] = result[u] /\ waited'[u] = waited[u],
         \A c \in Children : c # p => status'[c] = status[c],
         pc[p] \notin {"none", "done", "garbage"}, pc'[p] # "none",
         p \in Threads => ThreadInv(p)',
         p \in Children => ChildInv(p)'
  PROVE  MainInv' /\ TasksInv'
  <1>1. ASSUME NEW u \in Threads PROVE ThreadInv(u)'
    <2>1. CASE u # p
      BY <2>1, ParameterFacts, ThreadStays DEF HarnessInv
    <2>2. CASE u = p
      <3>1. p \in Threads
        BY <2>2
      <3>2. ThreadInv(p)'
        BY <3>1
      <3>. QED  BY <2>2, <3>2
    <2>. QED  BY <2>1, <2>2
  <1>2. ASSUME NEW c \in Children PROVE ChildInv(c)'
    <2>1. CASE c # p
      BY <2>1, ParameterFacts, ChildStays DEF HarnessInv
    <2>2. CASE c = p
      <3>1. p \in Children
        BY <2>2
      <3>2. ChildInv(p)'
        BY <3>1
      <3>. QED  BY <2>2, <3>2
    <2>. QED  BY <2>1, <2>2
  <1>3. \A u \in Threads : /\ pc'[u] = "none" <=> pc[u] = "none"
                           /\ pc[u] \in {"done", "garbage"} =>
                                pc'[u] = pc[u] /\ result'[u] = result[u]
    BY ParameterFacts
  <1>4. MainInv'
    BY <1>3, MainStays DEF HarnessInv
  <1>. QED  BY <1>1, <1>2, <1>4 DEF TasksInv

\* A step within a call.
LEMMA CallSteps ==
  ASSUME HarnessInv, NEW p \in Tasks, Hit(p) \/ Store(p) \/ Miss(p)
  PROVE  MainInv' /\ TasksInv'
  <1>1. /\ test' = test /\ UNCHANGED <<mainVars, calls, result, waited, status>>
        /\ pc[p] \in {"call", "store"} /\ \E v \in {"store", "return"} :
                                            pc' = [pc EXCEPT ![p] = v]
    BY DEF Hit, Store, Miss
  <1>2. pc \in [Tasks -> {"none", "garbage", "fork", "call", "store", "return",
                          "say", "wait", "done", "zombie", "reaped"}]
    BY DEF HarnessInv, TypeInv, TaskType
  <1>3. pc'[p] \in {"store", "return"} /\ \A q \in Tasks : q # p => pc'[q] = pc[q]
    BY <1>1, <1>2
  <1>4. ASSUME p \in Threads PROVE ThreadInv(p)'
    BY <1>1, <1>3, <1>4, TestStays DEF HarnessInv, ThreadInv
  <1>5. ASSUME p \in Children PROVE ChildInv(p)'
    BY <1>1, <1>3, <1>5 DEF HarnessInv, ChildInv
  <1>. QED  BY <1>1, <1>3, <1>4, <1>5, OneTask

\* The steps of a thread.
LEMMA ThreadMain ==
  ASSUME HarnessInv, NEW t \in Threads, Thread(t) PROVE MainInv' /\ TasksInv'
  <1>1. t \in Tasks /\ t \notin Children /\ Child(t) \in Children
        /\ Child(t) \in Tasks /\ Child(t) # t
    BY ParameterFacts
  <1>2. pc \in [Tasks -> {"none", "garbage", "fork", "call", "store", "return",
                          "say", "wait", "done", "zombie", "reaped"}]
        /\ calls \in [Tasks -> 0 .. AllCalls] /\ result \in [Threads -> Int]
        /\ waited \in [Threads -> {"none", "exit0", "exit1", "signal"}]
        /\ status \in [Children -> {"none", "exit0", "exit1", "signal"}]
    BY DEF HarnessInv, TypeInv, TaskType
  <1>3. ThreadInv(t) /\ \A c \in Children : ChildInv(c)
    BY DEF HarnessInv
  <1>4. test' = test /\ test \in Tests
    BY NextTest DEF Next, Progress, Programs, Thread, Fork, ForkFails, Wait, Hit,
       Store, Miss, Oops, Exits, ParentReturns, Returns, HarnessInv, TypeInv,
       TestType
  <1>5. /\ Program' = Program /\ Forks' = Forks /\ HasSlots' = HasSlots
        /\ AllCalls' = AllCalls /\ Probeme6' = Probeme6 /\ Program \in Kinds
        /\ AllCalls \in Nat /\ Iters \in Nat /\ Iters > 0 /\ Iters < AllCalls
    BY <1>4, TestStays, ProgramFacts, ParameterFacts
  <1>6. CASE Fork(t)
    <2>1. /\ pc' = [pc EXCEPT ![t] = "call", ![Child(t)] = "call"]
          /\ UNCHANGED <<mainVars, calls, result, waited, status>>
          /\ pc[t] = "fork"
      BY <1>6 DEF Fork
    <2>2. /\ pc'[t] = "call" /\ pc'[Child(t)] = "call"
          /\ \A q \in Tasks : (q # t /\ q # Child(t)) => pc'[q] = pc[q]
      BY <1>1, <1>2, <2>1
    <2>3. pc[Child(t)] = "none"
      BY <2>1 DEF HarnessInv, ForkInv
    <2>4. ThreadInv(t)'
      BY <1>3, <1>5, <2>1, <2>2 DEF ThreadInv
    <2>5. ChildInv(Child(t))'
      BY <1>1, <1>3, <1>5, <2>1, <2>2, <2>3 DEF ChildInv
    <2>6. ASSUME NEW u \in Threads PROVE ThreadInv(u)'
      <3>1. CASE u # t
        <4>1. pc'[u] = pc[u]
          BY <2>2, <3>1, ParameterFacts
        <4>. QED  BY <1>4, <2>1, <4>1, ThreadStays DEF HarnessInv
      <3>. QED  BY <2>4, <3>1
    <2>7. ASSUME NEW c \in Children PROVE ChildInv(c)'
      <3>1. CASE c # Child(t)
        <4>1. pc'[c] = pc[c]
          BY <2>2, <3>1, ParameterFacts
        <4>. QED  BY <2>1, <4>1, ChildStays DEF HarnessInv
      <3>. QED  BY <2>5, <3>1
    <2>8. \A u \in Threads : /\ pc'[u] = "none" <=> pc[u] = "none"
                             /\ pc[u] \in {"done", "garbage"} =>
                                  pc'[u] = pc[u] /\ result'[u] = result[u]
      <3>1. \A u \in Threads : u \in Tasks /\ u # Child(t)
        BY ParameterFacts
      <3>. QED  BY <2>1, <2>2, <3>1
    <2>9. MainInv'
      BY <1>4, <2>1, <2>8, MainStays DEF HarnessInv
    <2>. QED  BY <2>6, <2>7, <2>9 DEF TasksInv
  <1>7. CASE ForkFails(t)
    <2>1. CASE HasSlots
      <3>1. /\ pc' = [pc EXCEPT ![t] = "call"] /\ pc[t] = "fork"
            /\ UNCHANGED <<mainVars, calls, result, waited, status>>
        BY <1>7, <2>1 DEF ForkFails, mainVars
      <3>2. pc'[t] = "call" /\ \A q \in Tasks : q # t => pc'[q] = pc[q]
        BY <1>1, <1>2, <3>1
      <3>3. ThreadInv(t)'
        BY <1>3, <1>5, <2>1, <3>1, <3>2 DEF ThreadInv, HasSlots
      <3>. QED  BY <1>1, <1>4, <3>1, <3>2, <3>3, OneTask
    <2>2. CASE ~ HasSlots
      <3>1. /\ proc' = "internal" /\ pc' = pc /\ proc = "running"
            /\ UNCHANGED <<created, joined, calls, result, waited, status>>
        BY <1>7, <2>2 DEF ForkFails
      <3>2. TasksInv'
        BY <1>4, <3>1, ThreadStays, ChildStays DEF HarnessInv, TasksInv
      <3>3. MainInv'
        BY <1>4, <3>1, TestStays DEF HarnessInv, MainInv
      <3>. QED  BY <3>2, <3>3
    <2>. QED  BY <2>1, <2>2
  <1>8. CASE Wait(t)
    <2>1. /\ pc[t] = "wait" /\ test' = test
          /\ UNCHANGED <<mainVars, calls, status>>
          /\ waited' \in [Threads -> {"none", "exit0", "exit1", "signal"}]
          /\ waited'[t] # "none"
          /\ \A u \in Threads : u # t => waited'[u] = waited[u]
                                         /\ result'[u] = result[u]
          /\ result'[t] = IF HasSlots THEN 0 ELSE StatusOf(waited'[t])
      <3>1. \A c \in Children : pc[c] = "zombie" => status[c] # "none"
        BY <1>3 DEF ChildInv
      <3>2. /\ waited' \in [Threads -> {"none", "exit0", "exit1", "signal"}]
            /\ waited'[t] # "none"
            /\ \A u \in Threads : u # t => waited'[u] = waited[u]
        BY <1>2, <1>8, <3>1 DEF Wait
      <3>3. /\ \A u \in Threads : u # t => result'[u] = result[u]
            /\ result'[t] = IF HasSlots THEN 0 ELSE StatusOf(waited'[t])
        BY <1>2, <1>8 DEF Wait
      <3>. QED  BY <1>8, <3>2, <3>3 DEF Wait
    <2>2. ASSUME pc'[t] = IF HasSlots THEN "call" ELSE "done"
          PROVE  ThreadInv(t)'
      <3>1. CASE HasSlots
        BY <1>3, <1>5, <2>1, <2>2, <3>1 DEF ThreadInv, HasSlots
      <3>2. CASE ~ HasSlots
        <4>1. Program = "probe8-fork" /\ Forks /\ calls[t] = Iters
          BY <1>3, <2>1, <3>2 DEF ThreadInv, Forks, HasSlots
        <4>. QED
          BY <1>3, <1>5, <2>1, <2>2, <3>2, <4>1 DEF ThreadInv, StatusOf
      <3>. QED  BY <3>1, <3>2
    <2>3. CASE \E c \in Children : pc[c] = "zombie" /\
                 pc' = [pc EXCEPT ![c] = "reaped",
                                  ![t] = IF HasSlots THEN "call" ELSE "done"]
      <3>1. PICK c \in Children : pc[c] = "zombie" /\
                 pc' = [pc EXCEPT ![c] = "reaped",
                                  ![t] = IF HasSlots THEN "call" ELSE "done"]
        BY <2>3
      <3>2. /\ pc'[t] = (IF HasSlots THEN "call" ELSE "done") /\ pc'[c] = "reaped"
            /\ \A q \in Tasks : (q # t /\ q # c) => pc'[q] = pc[q]
        BY <1>1, <1>2, <3>1, ParameterFacts
      <3>3. ThreadInv(t)'
        BY <2>2, <3>2
      <3>4. ChildInv(c)'
        BY <1>3, <2>1, <3>1, <3>2 DEF ChildInv
      <3>5. ASSUME NEW u \in Threads PROVE ThreadInv(u)'
        <4>1. CASE u # t
          <5>1. pc'[u] = pc[u]
            BY <3>2, <4>1, ParameterFacts
          <5>. QED  BY <2>1, <4>1, <5>1, ThreadStays DEF HarnessInv
        <4>. QED  BY <3>3, <4>1
      <3>6. ASSUME NEW d \in Children PROVE ChildInv(d)'
        <4>1. CASE d # c
          <5>1. pc'[d] = pc[d]
            BY <3>2, <4>1, ParameterFacts
          <5>. QED  BY <2>1, <5>1, ChildStays DEF HarnessInv
        <4>. QED  BY <3>4, <4>1
      <3>7. \A u \in Threads : /\ pc'[u] = "none" <=> pc[u] = "none"
                               /\ pc[u] \in {"done", "garbage"} =>
                                    pc'[u] = pc[u] /\ result'[u] = result[u]
        BY <1>1, <2>1, <3>2, ParameterFacts
      <3>8. MainInv'
        BY <2>1, <3>7, MainStays DEF HarnessInv
      <3>. QED  BY <3>5, <3>6, <3>8 DEF TasksInv
    <2>4. CASE /\ \A c \in Children : pc[c] \in {"none", "reaped"}
               /\ pc' = [pc EXCEPT ![t] = "call"]
      <3>1. pc'[t] = "call" /\ \A q \in Tasks : q # t => pc'[q] = pc[q]
        BY <1>1, <1>2, <2>4
      <3>2. HasSlots
        BY <1>1, <1>3, <2>1, <2>4 DEF HarnessInv, ForkInv, ThreadInv, Forks, HasSlots
      <3>3. ThreadInv(t)'
        BY <2>2, <3>1, <3>2
      <3>. QED  BY <1>1, <2>1, <3>1, <3>3, OneTask
    <2>. QED  BY <1>8, <2>3, <2>4 DEF Wait
  <1>9. CASE Oops(t) \/ Exits(t)
    <2>1. /\ pc[t] = "call" /\ pc' = [pc EXCEPT ![t] = "done"]
          /\ UNCHANGED <<created, joined, calls, result, waited, status>>
          /\ proc' = proc \/ proc' = "killed"
          /\ Program \in {"fork_and_defunc", "suicide"}
      <3>1. Effect(t) = "oops" => Program = "fork_and_defunc"
        BY DEF Effect
      <3>2. Effect(t) = "exits" => Program = "suicide"
        BY DEF Effect
      <3>. QED  BY <1>9, <3>1, <3>2 DEF Oops, Exits, mainVars
    <2>2. pc'[t] = "done" /\ \A q \in Tasks : q # t => pc'[q] = pc[q]
      BY <1>1, <1>2, <2>1
    <2>3. ThreadInv(t)'
      BY <1>3, <1>5, <2>1, <2>2 DEF ThreadInv, ForkPrograms
    <2>4. ASSUME NEW u \in Threads PROVE ThreadInv(u)'
      <3>1. CASE u # t
        <4>1. pc'[u] = pc[u]
          BY <2>2, <3>1, ParameterFacts
        <4>. QED  BY <1>4, <2>1, <4>1, ThreadStays DEF HarnessInv
      <3>. QED  BY <2>3, <3>1
    <2>5. ASSUME NEW c \in Children PROVE ChildInv(c)'
      <3>1. pc'[c] = pc[c]
        BY <1>1, <2>2, ParameterFacts
      <3>. QED  BY <2>1, <3>1, ChildStays DEF HarnessInv
    <2>6. MainInv'
      BY <1>4, <2>1, <2>2, TestStays, ParameterFacts DEF HarnessInv, MainInv
    <2>. QED  BY <2>4, <2>5, <2>6 DEF TasksInv
  <1>10. CASE ParentReturns(t)
    <2>. DEFINE r == IF HasSlots THEN ProbeResult(slot'[t]) ELSE 0
                n == calls[t] + 1
    <2>1. /\ pc[t] = "return" /\ UNCHANGED <<mainVars, waited, status>>
          /\ calls' = [calls EXCEPT ![t] = @ + 1]
      BY <1>10 DEF ParentReturns, Returns
    <2>2. calls[t] \in Nat /\ n <= AllCalls
      BY <1>1, <1>2, <1>3, <1>5, <2>1 DEF ThreadInv
    <2>3. calls'[t] = n /\ \A q \in Tasks : q # t => calls'[q] = calls[q]
      BY <1>1, <1>2, <2>1
    <2>4. /\ pc' = [pc EXCEPT ![t] =
                      IF r < 0 THEN "done" ELSE IF n = Iters THEN AfterRound
                      ELSE IF n = AllCalls THEN "done" ELSE "call"]
          /\ result' = [result EXCEPT ![t] =
                      IF r < 0 THEN r
                      ELSE IF n = AllCalls THEN StatusOf(waited[t]) ELSE 0]
      BY <1>10, <2>3 DEF ParentReturns
    <2>5. r \in Int
      <3>1. slot' \in [Tasks -> Slots(Tasks)]
        <4>1. slot \in [Tasks -> Slots(Tasks)] /\ slot[t] \in Slots(Tasks)
          BY <1>1 DEF HarnessInv, TypeInv, TaskType
        <4>2. UserCounts(slot[t]) \in Slots(Tasks)
          BY <1>1, <4>1, SlotFacts
        <4>. QED  BY <1>1, <1>10, <4>1, <4>2 DEF ParentReturns, Returns
      <3>2. slot'[t] \in Slots(Tasks)
        BY <1>1, <3>1
      <3>. QED  BY <1>1, <3>2, SlotFacts
    <2>. HIDE DEF r
    <2>6. /\ pc'[t] = IF r < 0 THEN "done" ELSE IF n = Iters THEN AfterRound
                      ELSE IF n = AllCalls THEN "done" ELSE "call"
          /\ \A q \in Tasks : q # t => pc'[q] = pc[q]
      BY <1>1, <1>2, <2>4
    <2>7. /\ result'[t] = IF r < 0 THEN r
                          ELSE IF n = AllCalls THEN StatusOf(waited[t]) ELSE 0
          /\ \A u \in Threads : u # t => result'[u] = result[u]
      BY <1>2, <2>4
    <2>8. ThreadInv(t)'
      <3>0. /\ calls[t] < AllCalls
            /\ Forks => (waited[t] = "none" <=> calls[t] < Iters)
            /\ Program \in {"probe7-thread", "probe8-fork"} => calls[t] < Iters
            /\ ~ Forks => waited[t] = "none"
            /\ waited'[t] = waited[t]
        BY <1>3, <2>1 DEF ThreadInv
      <3>1. CASE r < 0
        <4>1. HasSlots /\ Forks
          BY <3>1 DEF r, HasSlots, Forks
        <4>. QED  BY <1>5, <2>5, <2>6, <2>7, <3>1, <4>1 DEF ThreadInv
      <3>2. CASE ~ (r < 0) /\ n = Iters
        <4>1. pc'[t] = AfterRound /\ result'[t] = 0
          BY <1>5, <2>5, <2>6, <2>7, <3>2
        <4>2. CASE Forks
          BY <1>5, <2>2, <2>3, <3>0, <3>2, <4>1, <4>2 DEF ThreadInv, AfterRound
        <4>3. CASE ~ Forks /\ Probeme6
          BY <1>5, <2>2, <2>3, <3>0, <3>2, <4>1, <4>3 DEF ThreadInv, AfterRound
        <4>4. CASE ~ Forks /\ ~ Probeme6
          <5>1. Program = "probe7-thread" /\ pc'[t] = "done"
            BY <1>5, <4>1, <4>4 DEF AfterRound, Kinds, Forks, Probeme6
          <5>. QED
            BY <1>5, <2>2, <2>3, <3>0, <3>2, <4>1, <4>4, <5>1
            DEF ThreadInv, ForkPrograms
        <4>. QED  BY <4>2, <4>3, <4>4
      <3>3. CASE ~ (r < 0) /\ n # Iters /\ n = AllCalls
        <4>1. pc'[t] = "done" /\ result'[t] = StatusOf(waited[t])
          BY <2>5, <2>6, <2>7, <3>3
        <4>2. Program \notin {"probe7-thread", "probe8-fork"}
          BY <1>5, <2>2, <3>0, <3>3
        <4>3. Forks => waited[t] # "none"
          BY <1>5, <2>2, <3>0, <3>3
        <4>4. ~ Forks => result'[t] = 0
          BY <3>0, <4>1 DEF StatusOf
        <4>. QED
          BY <1>5, <2>2, <2>3, <3>0, <3>3, <4>1, <4>2, <4>3, <4>4
          DEF ThreadInv, ForkPrograms, Forks, StatusOf
      <3>4. CASE ~ (r < 0) /\ n # Iters /\ n # AllCalls
        <4>1. pc'[t] = "call" /\ result'[t] = 0
          BY <2>5, <2>6, <2>7, <3>4
        <4>. QED
          BY <1>5, <2>2, <2>3, <3>0, <3>4, <4>1 DEF ThreadInv
      <3>. QED  BY <3>1, <3>2, <3>3, <3>4
    <2>9. pc'[t] # "none"
      BY <2>6 DEF AfterRound
    <2>. QED
      BY <1>1, <1>4, <2>1, <2>3, <2>6, <2>7, <2>8, <2>9, OneTask
  <1>. QED
    BY <1>1, <1>6, <1>7, <1>8, <1>9, <1>10, CallSteps DEF Thread

\* The steps of a child.
LEMMA ChildMain ==
  ASSUME HarnessInv, NEW c \in Children, ChildStep(c) PROVE MainInv' /\ TasksInv'
  <1>1. c \in Tasks /\ c \notin Threads
    BY ParameterFacts
  <1>2. pc \in [Tasks -> {"none", "garbage", "fork", "call", "store", "return",
                          "say", "wait", "done", "zombie", "reaped"}]
        /\ calls \in [Tasks -> 0 .. AllCalls]
        /\ status \in [Children -> {"none", "exit0", "exit1", "signal"}]
        /\ AllCalls \in Nat
    BY ProgramFacts DEF HarnessInv, TypeInv, TaskType, TestType
  <1>3. ChildInv(c)
    BY DEF HarnessInv
  <1>4. CASE Trapped(c)
    <2>1. /\ pc[c] = "call" /\ pc' = [pc EXCEPT ![c] = "zombie"]
          /\ status' = [status EXCEPT ![c] = "signal"] /\ test' = test
          /\ UNCHANGED <<mainVars, calls, result, waited>>
      BY <1>4 DEF Trapped
    <2>2. /\ pc'[c] = "zombie" /\ status'[c] = "signal"
          /\ \A q \in Tasks : q # c => pc'[q] = pc[q]
          /\ \A d \in Children : d # c => status'[d] = status[d]
      BY <1>1, <1>2, <2>1
    <2>3. ChildInv(c)'
      BY <2>2 DEF ChildInv
    <2>. QED  BY <1>1, <2>1, <2>2, <2>3, OneTask
  <1>5. CASE ChildReturns(c)
    <2>. DEFINE ends == ChildSeesProbe(c) \/ calls'[c] = Iters
    <2>1. /\ pc[c] = "return" /\ test' = test
          /\ UNCHANGED <<mainVars, result, waited>>
          /\ calls' = [calls EXCEPT ![c] = @ + 1]
          /\ pc' = [pc EXCEPT ![c] = IF ends THEN "zombie" ELSE "call"]
          /\ status' = [status EXCEPT ![c] = IF ~ends THEN "none"
                                             ELSE IF ChildSeesProbe(c) THEN "exit1"
                                             ELSE "exit0"]
      BY <1>5 DEF ChildReturns, Returns
    <2>2. /\ calls'[c] = calls[c] + 1 /\ calls[c] < Iters
          /\ calls[c] \in Nat
      BY <1>1, <1>2, <1>3, <2>1 DEF ChildInv
    <2>3. /\ pc'[c] = (IF ends THEN "zombie" ELSE "call")
          /\ status'[c] = (IF ~ends THEN "none"
                           ELSE IF ChildSeesProbe(c) THEN "exit1" ELSE "exit0")
          /\ \A q \in Tasks : q # c => pc'[q] = pc[q] /\ calls'[q] = calls[q]
          /\ \A d \in Children : d # c => status'[d] = status[d]
      BY <1>1, <1>2, <2>1
    <2>4. ChildInv(c)'
      <3>1. Iters \in Nat
        BY ParameterFacts
      <3>2. CASE ends
        BY <2>3, <3>2 DEF ChildInv
      <3>3. CASE ~ends
        BY <2>2, <2>3, <3>1, <3>3 DEF ChildInv
      <3>. QED  BY <3>2, <3>3
    <2>5. pc'[c] # "none"
      BY <2>3
    <2>. QED  BY <1>1, <2>1, <2>3, <2>4, <2>5, OneTask
  <1>. QED  BY <1>1, <1>4, <1>5, CallSteps DEF ChildStep

\* MainInv and TasksInv are inductive, with the other parts of HarnessInv.
LEMMA MainStep == ASSUME HarnessInv, Next PROVE MainInv' /\ TasksInv'
  BY ScriptMain, ExpectMain, MainMain, ThreadMain, ChildMain
  DEF Next, Progress, Programs, Done, Hangs

-----------------------------------------------------------------------------
(* The children that are still to be waited for. *)

\* The two sets that ForkInv compares are finite.
LEMMA ForkSetsFinite ==
  /\ IsFiniteSet(Unreaped) /\ IsFiniteSet(YetToWait)
  /\ Cardinality(Unreaped) \in Nat /\ Cardinality(YetToWait) \in Nat
  <1>1. IsFiniteSet(Threads) /\ IsFiniteSet((NumThreads + 1) .. (2 * NumThreads))
    BY ParameterFacts, FS_Interval
  <1>2. Children \subseteq (NumThreads + 1) .. (2 * NumThreads)
    BY ParameterFacts DEF Children, Child
  <1>3. IsFiniteSet(Children)
    BY <1>1, <1>2, FS_Subset
  <1>4. IsFiniteSet(Unreaped) /\ IsFiniteSet(YetToWait)
    BY <1>1, <1>3, FS_Subset DEF Unreaped, YetToWait
  <1>. QED  BY <1>4, FS_CardinalityType

\* The sets in the next state are finite too.
LEMMA ForkSetsFiniteNext ==
  /\ IsFiniteSet(Unreaped') /\ IsFiniteSet(YetToWait')
  /\ Cardinality(Unreaped') \in Nat /\ Cardinality(YetToWait') \in Nat
  <1>1. IsFiniteSet(Threads) /\ IsFiniteSet((NumThreads + 1) .. (2 * NumThreads))
    BY ParameterFacts, FS_Interval
  <1>2. Children \subseteq (NumThreads + 1) .. (2 * NumThreads)
    BY ParameterFacts DEF Children, Child
  <1>3. IsFiniteSet(Children)
    BY <1>1, <1>2, FS_Subset
  <1>4. IsFiniteSet(Unreaped') /\ IsFiniteSet(YetToWait')
    BY <1>1, <1>3, FS_Subset DEF Unreaped, YetToWait
  <1>. QED  BY <1>4, FS_CardinalityType

\* Where no child is forked and no thread has waited.
LEMMA NobodyWaits ==
  ASSUME ForkInv,
         \A c \in Children : pc[c] \in {"none", "reaped"} => pc'[c] = pc[c],
         \A t \in Threads : pc[t] \notin {"none", "fork", "garbage"} =>
                              pc'[t] \notin {"none", "fork", "garbage"},
         waited' = waited
  PROVE  Cardinality(Unreaped') <= Cardinality(YetToWait')
  <1>1. Unreaped' \subseteq Unreaped /\ YetToWait \subseteq YetToWait'
    BY DEF Unreaped, YetToWait
  <1>2. /\ Cardinality(Unreaped') <= Cardinality(Unreaped)
        /\ Cardinality(YetToWait) <= Cardinality(YetToWait')
    BY <1>1, ForkSetsFinite, ForkSetsFiniteNext, FS_Subset
  <1>. QED
    BY <1>2, ForkSetsFinite, ForkSetsFiniteNext DEF ForkInv

\* The children of threads that a step leaves alone.
ForkedInv(t) ==
  /\ pc[Child(t)] # "none" => Forks /\ pc[t] \notin {"none", "fork", "garbage"}
  /\ (Program = "probe8-fork" /\ pc[t] \in {"call", "store", "return", "wait"}) =>
       pc[Child(t)] # "none" /\ pc[Child(t)] # "reaped"

\* ForkInv, thread by thread.
LEMMA ForkInvIs ==
  ForkInv <=> /\ \A t \in Threads : ForkedInv(t)
              /\ Cardinality(Unreaped) <= Cardinality(YetToWait)
  BY DEF ForkInv, ForkedInv

\* The same in the next state.
LEMMA ForkInvIsNext ==
  ForkInv' <=> /\ \A t \in Threads : ForkedInv(t)'
               /\ Cardinality(Unreaped') <= Cardinality(YetToWait')
  BY DEF ForkInv, ForkedInv

\* A task has one step further to go, and no one is created, forked or reaped.
LEMMA OneTaskFork ==
  ASSUME HarnessInv, test' = test, waited' = waited, NEW p \in Tasks,
         \A q \in Tasks : q # p => pc'[q] = pc[q],
         p \in Threads => /\ pc[p] \notin {"none", "fork", "garbage"}
                          /\ pc'[p] \notin {"none", "fork", "garbage"}
                          /\ pc[p] \notin {"call", "store", "return", "wait"} =>
                               pc'[p] \notin {"call", "store", "return", "wait"}
                               \/ ~ Forks,
         p \in Children => pc[p] \notin {"none", "reaped"}
                           /\ pc'[p] \notin {"none", "reaped"}
  PROVE  ForkInv'
  <1>1. Cardinality(Unreaped') <= Cardinality(YetToWait')
    BY NobodyWaits, ParameterFacts DEF HarnessInv
  <1>2. ASSUME NEW t \in Threads PROVE ForkedInv(t)'
    <2>1. ForkedInv(t) /\ Forks' = Forks /\ Program' = Program
      BY ForkInvIs, TestStays DEF HarnessInv
    <2>2. Child(t) \in Tasks /\ t \in Tasks /\ Child(t) \in Children
          /\ Child(t) \notin Threads /\ t \notin Children
      BY ParameterFacts
    <2>3. CASE p = t
      <3>1. pc'[Child(t)] = pc[Child(t)]
        BY <2>2, <2>3
      <3>2. Program = "probe8-fork" => Forks
        BY DEF Forks
      <3>. QED  BY <2>1, <2>2, <2>3, <3>1, <3>2 DEF ForkedInv
    <2>4. CASE p = Child(t)
      BY <2>1, <2>2, <2>4 DEF ForkedInv
    <2>5. CASE p # t /\ p # Child(t)
      BY <2>1, <2>2, <2>5 DEF ForkedInv
    <2>. QED  BY <2>3, <2>4, <2>5
  <1>. QED  BY <1>1, <1>2, ForkInvIsNext

\* No task moves.
LEMMA NoTaskFork ==
  ASSUME HarnessInv, test' = test, waited' = waited, pc' = pc PROVE ForkInv'
  BY TestStays DEF HarnessInv, ForkInv, Unreaped, YetToWait

\* main() forks and waits for nothing.
LEMMA MainFork == ASSUME HarnessInv, Main PROVE ForkInv'
  <1>1. test' = test /\ waited' = waited
    BY DEF Main, Stop, Create, CreateFails, SayPassed, Join, JoinCrashes, taskVars
  <1>2. CASE pc' = pc
    BY <1>1, <1>2, NoTaskFork
  <1>3. CASE SayPassed
    <2>1. /\ 1 \in Threads /\ 1 \in Tasks /\ pc[1] = "say"
          /\ pc' = [pc EXCEPT ![1] = "call"]
      BY <1>3, ParameterFacts DEF SayPassed
    <2>2. pc'[1] = "call" /\ \A q \in Tasks : q # 1 => pc'[q] = pc[q]
      BY <2>1 DEF HarnessInv, TypeInv, TaskType
    <2>3. ~ Forks
      BY <2>1 DEF HarnessInv, ThreadInv, Probeme6, Forks
    <2>. QED  BY <1>1, <2>1, <2>2, <2>3, OneTaskFork, ParameterFacts
  <1>4. CASE pc' # pc /\ (Create \/ CreateFails)
    <2>1. PICK n \in Threads : n = created + 1 /\ pc[n] = "none"
      <3>1. created < Workers /\ created \in Nat /\ Workers \in Nat
            /\ Workers <= NumThreads
        BY <1>4, ProgramFacts
        DEF Create, CreateFails, HarnessInv, TypeInv, TestType, MainType
      <3>. QED  BY <3>1, ParameterFacts DEF HarnessInv, MainInv
    <2>2. PICK v \in {"fork", "call", "garbage"} :
            pc' = [pc EXCEPT ![n] = v] /\ (v = "call" => ~ Forks)
      BY <1>4, <2>1 DEF Create, CreateFails
    <2>3. n \in Tasks /\ pc'[n] = v /\ \A q \in Tasks : q # n => pc'[q] = pc[q]
      BY <2>2, ParameterFacts DEF HarnessInv, TypeInv, TaskType
    <2>a. /\ \A u \in Threads : u \in Tasks /\ Child(u) \in Tasks /\ Child(u) # n
          /\ \A c \in Children : c \in Tasks /\ c # n
      BY ParameterFacts
    <2>4. Cardinality(Unreaped') <= Cardinality(YetToWait')
      <3>1. \A c \in Children : pc[c] \in {"none", "reaped"} => pc'[c] = pc[c]
        BY <2>3, <2>a
      <3>2. \A t \in Threads : pc[t] \notin {"none", "fork", "garbage"} =>
                              pc'[t] \notin {"none", "fork", "garbage"}
        BY <2>1, <2>3, <2>a
      <3>. QED  BY <1>1, <3>1, <3>2, NobodyWaits DEF HarnessInv
    <2>5. ASSUME NEW t \in Threads PROVE ForkedInv(t)'
      <3>1. ForkedInv(t) /\ Forks' = Forks /\ Program' = Program
        BY <1>1, ForkInvIs, TestStays DEF HarnessInv
      <3>2. pc'[Child(t)] = pc[Child(t)] /\ (t # n => pc'[t] = pc[t])
        BY <2>3, <2>a
      <3>3. CASE t = n
        <4>1. pc[Child(t)] = "none"
          BY <2>1, <3>1, <3>3 DEF ForkedInv
        <4>2. Program = "probe8-fork" => Forks
          BY DEF Forks
        <4>. QED  BY <2>2, <2>3, <3>1, <3>2, <3>3, <4>1, <4>2 DEF ForkedInv
      <3>4. CASE t # n
        BY <3>1, <3>2, <3>4 DEF ForkedInv
      <3>. QED  BY <3>3, <3>4
    <2>. QED  BY <2>4, <2>5, ForkInvIsNext
  <1>. QED
    BY <1>2, <1>3, <1>4 DEF Main, Stop, Join, JoinCrashes, taskVars, HarnessInv

\* fork(): one child more, and one thread more that is to wait.
LEMMA ForkStep == ASSUME HarnessInv, NEW t \in Threads, Fork(t) PROVE ForkInv'
  <1>1. /\ test' = test /\ waited' = waited /\ pc[t] = "fork"
        /\ pc' = [pc EXCEPT ![t] = "call", ![Child(t)] = "call"]
    BY DEF Fork
  <1>2. /\ t \in Tasks /\ Child(t) \in Children /\ Child(t) \in Tasks
        /\ Child(t) # t
        /\ \A u \in Threads : u \in Tasks /\ Child(u) \in Tasks /\ u # Child(t)
                              /\ Child(u) # t /\ (Child(u) = Child(t) => u = t)
        /\ \A c \in Children : c \in Tasks /\ c # t
    BY ParameterFacts
  <1>3. /\ pc'[t] = "call" /\ pc'[Child(t)] = "call"
        /\ \A q \in Tasks : (q # t /\ q # Child(t)) => pc'[q] = pc[q]
    BY <1>1, <1>2 DEF HarnessInv, TypeInv, TaskType
  <1>4. pc[Child(t)] = "none" /\ Forks /\ waited[t] = "none"
    BY <1>1 DEF HarnessInv, ForkInv, ThreadInv
  <1>5. ASSUME NEW u \in Threads PROVE ForkedInv(u)'
    <2>1. ForkedInv(u) /\ Forks' = Forks /\ Program' = Program
      BY <1>1, ForkInvIs, TestStays DEF HarnessInv
    <2>2. CASE u = t
      BY <1>3, <1>4, <2>1, <2>2 DEF ForkedInv
    <2>3. CASE u # t
      <3>1. pc'[u] = pc[u] /\ pc'[Child(u)] = pc[Child(u)]
        BY <1>2, <1>3, <2>3
      <3>. QED  BY <2>1, <3>1 DEF ForkedInv
    <2>. QED  BY <2>2, <2>3
  <1>6. /\ Unreaped' = Unreaped \cup {Child(t)} /\ Child(t) \notin Unreaped
        /\ YetToWait' = YetToWait \cup {t} /\ t \notin YetToWait
    <2>1. Unreaped' = Unreaped \cup {Child(t)} /\ Child(t) \notin Unreaped
      BY <1>2, <1>3, <1>4 DEF Unreaped
    <2>2. YetToWait' = YetToWait \cup {t} /\ t \notin YetToWait
      BY <1>1, <1>2, <1>3, <1>4 DEF YetToWait
    <2>. QED  BY <2>1, <2>2
  <1>7. /\ Cardinality(Unreaped') = Cardinality(Unreaped) + 1
        /\ Cardinality(YetToWait') = Cardinality(YetToWait) + 1
    BY <1>6, ForkSetsFinite, FS_AddElement
  <1>8. Cardinality(Unreaped') <= Cardinality(YetToWait')
    BY <1>7, ForkSetsFinite DEF HarnessInv, ForkInv
  <1>. QED  BY <1>5, <1>8, ForkInvIsNext

\* wait(): it takes one child, and the thread has waited; or there is none to take.
LEMMA WaitStep == ASSUME HarnessInv, NEW t \in Threads, Wait(t) PROVE ForkInv'
  <1>1. /\ test' = test /\ pc[t] = "wait" /\ waited[t] = "none"
        /\ ForkedInv(t) /\ Forks
        /\ pc \in [Tasks -> {"none", "garbage", "fork", "call", "store", "return",
                             "say", "wait", "done", "zombie", "reaped"}]
        /\ waited \in [Threads -> {"none", "exit0", "exit1", "signal"}]
    BY ForkInvIs DEF Wait, HarnessInv, ThreadInv, TypeInv, TaskType
  <1>2. /\ t \in Tasks /\ t \notin Children /\ Child(t) \in Children
        /\ \A u \in Threads : u \in Tasks /\ u \notin Children
                              /\ Child(u) \in Children /\ Child(u) \in Tasks
        /\ \A c \in Children : c \in Tasks /\ c \notin Threads
    BY ParameterFacts
  <1>3. CASE \E c \in Children :
               /\ pc[c] = "zombie"
               /\ pc' = [pc EXCEPT ![c] = "reaped",
                                   ![t] = IF HasSlots THEN "call" ELSE "done"]
               /\ waited' = [waited EXCEPT ![t] = status[c]]
    <2>1. PICK c \in Children :
               /\ pc[c] = "zombie"
               /\ pc' = [pc EXCEPT ![c] = "reaped",
                                   ![t] = IF HasSlots THEN "call" ELSE "done"]
               /\ waited' = [waited EXCEPT ![t] = status[c]]
      BY <1>3
    <2>2. /\ pc'[t] = (IF HasSlots THEN "call" ELSE "done") /\ pc'[c] = "reaped"
          /\ \A q \in Tasks : (q # t /\ q # c) => pc'[q] = pc[q]
          /\ waited'[t] = status[c]
          /\ \A u \in Threads : u # t => waited'[u] = waited[u]
      BY <1>1, <1>2, <2>1
    <2>3. status[c] # "none"
      BY <2>1 DEF HarnessInv, ChildInv
    <2>4. /\ Unreaped' = Unreaped \ {c} /\ c \in Unreaped
          /\ YetToWait' = YetToWait \ {t} /\ t \in YetToWait
      <3>1. Unreaped' = Unreaped \ {c} /\ c \in Unreaped
        BY <1>2, <2>1, <2>2 DEF Unreaped
      <3>2. YetToWait' = YetToWait \ {t} /\ t \in YetToWait
        BY <1>1, <1>2, <2>2, <2>3 DEF YetToWait
      <3>. QED  BY <3>1, <3>2
    <2>5. /\ Cardinality(Unreaped') = Cardinality(Unreaped) - 1
          /\ Cardinality(YetToWait') = Cardinality(YetToWait) - 1
      BY <2>4, ForkSetsFinite, FS_RemoveElement
    <2>6. Cardinality(Unreaped') <= Cardinality(YetToWait')
      BY <2>5, ForkSetsFinite DEF HarnessInv, ForkInv
    <2>7. ASSUME NEW u \in Threads PROVE ForkedInv(u)'
      <3>1. ForkedInv(u) /\ Forks' = Forks /\ Program' = Program
            /\ HasSlots' = HasSlots
        BY <1>1, ForkInvIs, TestStays DEF HarnessInv
      <3>2. pc[Child(u)] # "none" <=> pc'[Child(u)] # "none"
        BY <1>2, <2>1, <2>2
      <3>3. CASE u = t
        <4>1. Program = "probe8-fork" => ~ HasSlots
          BY DEF HasSlots
        <4>. QED  BY <1>1, <2>2, <3>1, <3>2, <3>3, <4>1 DEF ForkedInv
      <3>4. CASE u # t
        <4>1. pc'[u] = pc[u]
          BY <1>2, <2>2, <3>4
        <4>2. Program = "probe8-fork" => pc[u] = "none"
          <5>1. Program = "probe8-fork" => Workers = 1
            BY DEF Workers, Single
          <5>2. created <= Workers /\ created \in Nat /\ u >= 1 /\ t >= 1
                /\ u \in Nat /\ t \in Nat
            BY ParameterFacts, ProgramFacts
            DEF HarnessInv, TypeInv, TestType, MainType
          <5>3. pc[t] # "none"
            BY <1>1
          <5>. QED
            BY <3>4, <5>1, <5>2, <5>3 DEF HarnessInv, MainInv
        <4>. QED  BY <3>1, <3>2, <4>1, <4>2 DEF ForkedInv
      <3>. QED  BY <3>3, <3>4
    <2>. QED  BY <2>6, <2>7, ForkInvIsNext
  <1>4. CASE /\ \A c \in Children : pc[c] \in {"none", "reaped"}
             /\ pc' = [pc EXCEPT ![t] = "call"]
    <2>1. pc'[t] = "call" /\ \A q \in Tasks : q # t => pc'[q] = pc[q]
      BY <1>1, <1>2, <1>4
    <2>2. Unreaped' = {}
      BY <1>2, <1>4, <2>1 DEF Unreaped
    <2>3. Cardinality(Unreaped') <= Cardinality(YetToWait')
      BY <2>2, ForkSetsFiniteNext, FS_EmptySet
    <2>4. ASSUME NEW u \in Threads PROVE ForkedInv(u)'
      <3>1. ForkedInv(u) /\ Forks' = Forks /\ Program' = Program
            /\ pc'[Child(u)] = pc[Child(u)]
        BY <1>1, <1>2, <2>1, ForkInvIs, TestStays DEF HarnessInv
      <3>2. u # t => pc'[u] = pc[u]
        BY <1>2, <2>1
      <3>. QED  BY <1>1, <2>1, <3>1, <3>2 DEF ForkedInv
    <2>. QED  BY <2>3, <2>4, ForkInvIsNext
  <1>. QED  BY <1>3, <1>4 DEF Wait

\* The steps of a thread.
LEMMA ThreadFork ==
  ASSUME HarnessInv, NEW t \in Threads, Thread(t) PROVE ForkInv'
  <1>1. /\ t \in Tasks /\ t \notin Children
        /\ pc \in [Tasks -> {"none", "garbage", "fork", "call", "store", "return",
                             "say", "wait", "done", "zombie", "reaped"}]
    BY ParameterFacts DEF HarnessInv, TypeInv, TaskType
  <1>2. CASE ForkFails(t)
    <2>1. /\ test' = test /\ waited' = waited /\ pc[t] = "fork"
          /\ \/ pc' = pc
             \/ HasSlots /\ pc' = [pc EXCEPT ![t] = "call"]
      BY <1>2 DEF ForkFails
    <2>2. CASE pc' = pc
      BY <2>1, <2>2, NoTaskFork
    <2>3. CASE HasSlots /\ pc' = [pc EXCEPT ![t] = "call"]
      <3>1. pc'[t] = "call" /\ \A q \in Tasks : q # t => pc'[q] = pc[q]
        BY <1>1, <2>3
      <3>2. Cardinality(Unreaped') <= Cardinality(YetToWait')
        BY <1>1, <2>1, <3>1, NobodyWaits, ParameterFacts DEF HarnessInv
      <3>3. ASSUME NEW u \in Threads PROVE ForkedInv(u)'
        <4>0. u \in Tasks /\ Child(u) \in Tasks /\ Child(u) # t
          BY ParameterFacts
        <4>1. ForkedInv(u) /\ Forks' = Forks /\ Program' = Program
              /\ pc'[Child(u)] = pc[Child(u)] /\ (u # t => pc'[u] = pc[u])
          BY <2>1, <3>1, <4>0, ForkInvIs, TestStays DEF HarnessInv
        <4>2. Program # "probe8-fork"
          BY <2>3 DEF HasSlots
        <4>. QED  BY <2>1, <3>1, <4>1, <4>2 DEF ForkedInv
      <3>. QED  BY <3>2, <3>3, ForkInvIsNext
    <2>. QED  BY <2>1, <2>2, <2>3
  <1>3. CASE Hit(t) \/ Store(t) \/ Miss(t) \/ Oops(t) \/ Exits(t)
    <2>1. /\ test' = test /\ waited' = waited /\ pc[t] \in {"call", "store"}
          /\ \E v \in {"store", "return", "done"} : pc' = [pc EXCEPT ![t] = v]
      BY <1>3 DEF Hit, Store, Miss, Oops, Exits
    <2>2. /\ pc'[t] \in {"store", "return", "done"}
          /\ \A q \in Tasks : q # t => pc'[q] = pc[q]
      BY <1>1, <2>1
    <2>. QED  BY <1>1, <2>1, <2>2, OneTaskFork
  <1>4. CASE ParentReturns(t)
    <2>1. /\ test' = test /\ waited' = waited /\ pc[t] = "return"
          /\ \E v \in {"done", "wait", "say", "call"} : pc' = [pc EXCEPT ![t] = v]
      BY <1>4 DEF ParentReturns, Returns, AfterRound
    <2>2. /\ pc'[t] \in {"done", "wait", "say", "call"}
          /\ \A q \in Tasks : q # t => pc'[q] = pc[q]
      BY <1>1, <2>1
    <2>. QED  BY <1>1, <2>1, <2>2, OneTaskFork
  <1>. QED
    BY <1>2, <1>3, <1>4, ForkStep, WaitStep DEF Thread

\* The steps of a child: it stays one to wait for.
LEMMA ChildFork ==
  ASSUME HarnessInv, NEW c \in Children, ChildStep(c) PROVE ForkInv'
  <1>1. /\ c \in Tasks /\ c \notin Threads
        /\ pc \in [Tasks -> {"none", "garbage", "fork", "call", "store", "return",
                             "say", "wait", "done", "zombie", "reaped"}]
    BY ParameterFacts DEF HarnessInv, TypeInv, TaskType
  <1>2. /\ test' = test /\ waited' = waited /\ pc[c] \in {"call", "store", "return"}
        /\ \E v \in {"store", "return", "zombie", "call"} :
             pc' = [pc EXCEPT ![c] = v]
    BY DEF ChildStep, Hit, Store, Miss, Trapped, ChildReturns, Returns
  <1>3. /\ pc'[c] \in {"store", "return", "zombie", "call"}
        /\ \A q \in Tasks : q # c => pc'[q] = pc[q]
    BY <1>1, <1>2
  <1>. QED  BY <1>1, <1>2, <1>3, OneTaskFork

\* ForkInv is inductive.
LEMMA ForkInvStep == ASSUME HarnessInv, Next PROVE ForkInv'
  <1>1. CASE Script
    <2>1. test' = test /\ waited' = waited /\ pc' = pc
      BY <1>1 DEF Script, Check, Insmod, Continue, Kill, WaitForJob, forkVars,
                  taskVars
    <2>. QED  BY <2>1, NoTaskFork
  <1>2. CASE Expect \/ UNCHANGED vars
    <2>1. test' = test /\ waited' = waited /\ pc' = pc
      BY <1>2 DEF Expect, SeePassed, SeeEnd, RunByHand, SeeLine, EndMod, Compare,
                  Rmmod, forkVars, taskVars, vars
    <2>. QED  BY <2>1, NoTaskFork
  <1>. QED
    BY <1>1, <1>2, MainFork, ThreadFork, ChildFork
    DEF Next, Progress, Programs, Done, Hangs

-----------------------------------------------------------------------------
(* The scripts. *)

\* What a step of the program does to main(), as the scripts see it.
LEMMA ProgramMoves ==
  ASSUME HarnessInv, ProgramStep
  PROVE  /\ proc \notin {"none", "passed", "failed", "internal", "crashed", "killed"}
            \/ proc' = proc
         /\ proc' # proc =>
              \/ proc = "starting" /\ proc' = "stopped"
              \/ proc = "running" /\ proc' \notin {"none", "starting", "stopped"}
              \/ proc = "leaving" /\ (proc' = "passed" \/ (proc' = "killed" /\ Negative))
  <1>1. proc = "leaving" => /\ Workers = 1 /\ joined = 0 /\ ~ Forks /\ Probeme6
                            /\ result[joined + 1] = 0
    <2>1. Workers \in Nat /\ joined \in Nat
      BY ProgramFacts DEF HarnessInv, TypeInv, TestType, MainType
    <2>2. proc = "leaving" => Probeme6 /\ Workers = 1 /\ joined < 1 /\ ~ Forks
      BY DEF HarnessInv, MainInv, Workers, Single, Probeme6, Forks
    <2>3. 1 \in Threads
      BY ParameterFacts
    <2>. QED  BY <2>1, <2>2, <2>3 DEF HarnessInv, ThreadInv
  <1>2. CASE Main
    <2>1. CASE Join
      BY <1>1, <2>1 DEF Join
    <2>2. CASE ~ Join
      BY <1>2, <2>2
      DEF Main, Stop, Create, CreateFails, SayPassed, JoinCrashes
    <2>. QED  BY <2>1, <2>2
  <1>3. ASSUME NEW t \in Threads, Thread(t)
        PROVE  proc' = proc \/ (proc = "running" /\ proc' \in {"internal", "killed"})
               \/ (proc = "leaving" /\ proc' = "killed" /\ Negative)
    <2>1. Effect(t) = "exits" => Negative
      BY DEF Effect, Negative
    <2>. QED
      BY <1>3, <2>1, ParameterFacts
      DEF Thread, Fork, ForkFails, Wait, Hit, Store, Miss, Oops, Exits,
          ParentReturns, Returns, mainVars, Runs
  <1>4. ASSUME NEW c \in Children, ChildStep(c) PROVE proc' = proc
    BY <1>4 DEF ChildStep, Hit, Store, Miss, Trapped, ChildReturns, Returns, mainVars
  <1>. QED  BY <1>2, <1>3, <1>4 DEF ProgramStep, Programs

\* Before the program has been continued nothing runs, and nothing is hit.
LEMMA NobodyYet ==
  ASSUME HarnessInv, proc \in {"none", "starting", "stopped"}
  PROVE  \A p \in Tasks : pc[p] = "none"
  <1>1. created = 0
    BY DEF HarnessInv, MainInv
  <1>2. \A t \in Threads : pc[t] = "none"
    BY <1>1, ParameterFacts DEF HarnessInv, MainInv
  <1>3. \A t \in Threads : pc[Child(t)] = "none"
    BY <1>2 DEF HarnessInv, ForkInv
  <1>. QED  BY <1>2, <1>3, ParameterFacts

\* Nothing is hit before the program runs.
LEMMA ProgramHits ==
  ASSUME HarnessInv, ProgramStep, proc \in {"none", "starting", "stopped"}
  PROVE  hits' = hits
  <1>1. \A p \in Tasks : pc[p] = "none"
    BY NobodyYet
  <1>. QED
    BY <1>1, ParameterFacts
    DEF ProgramStep, Programs, Main, Stop, Create, CreateFails, SayPassed, Join,
        JoinCrashes, Thread, ChildStep, Fork, ForkFails, Wait, Hit, Store, Miss,
        Oops, Exits, Trapped, ParentReturns, ChildReturns, Returns, countVars

\* A program changes none of the scripts' variables.
LEMMA ProgramAttached ==
  ASSUME ProgramStep
  PROVE  /\ attached' = attached /\ script' = script /\ loaded' = loaded
         /\ stale' = stale /\ expect' = expect /\ loc_return' = loc_return
         /\ early' = early /\ outcome' = outcome /\ same' = same /\ said' = said
  <1>1. attached' = attached
    BY DEF ProgramStep, Programs, Main, Stop, Create, CreateFails, SayPassed, Join,
        JoinCrashes, Thread, ChildStep, Fork, ForkFails, Wait, Hit, Store, Miss,
        Oops, Exits, Trapped, ParentReturns, ChildReturns, Returns
  <1>. QED  BY <1>1 DEF ProgramStep, expectVars, scriptVars, moduleVars

\* ScriptInv is inductive.
LEMMA ScriptInvStep == ASSUME HarnessInv, Next PROVE ScriptInv'
  <1>1. CASE Check
    BY <1>1
    DEF Check, expectVars, moduleVars, countVars, HarnessInv, ScriptInv, TypeInv,
        TestType, Ended
  <1>2. CASE Insmod
    BY <1>2
    DEF Insmod, expectVars, mainVars, HarnessInv, ScriptInv, TypeInv, TestType,
        Ended
  <1>3. CASE Continue
    BY <1>3
    DEF Continue, expectVars, moduleVars, countVars, HarnessInv, ScriptInv, TypeInv,
        TestType, Ended
  <1>4. CASE Kill
    BY <1>4
    DEF Kill, expectVars, moduleVars, countVars, HarnessInv, ScriptInv, TypeInv,
        TestType, MainType, Ended
  <1>5. CASE WaitForJob
    BY <1>5
    DEF WaitForJob, expectVars, moduleVars, forkVars, mainVars, countVars,
        HarnessInv, ScriptInv, TypeInv, TestType, Ended
  <1>6. CASE Expect
    <2>1. /\ UNCHANGED <<script, proc, stale, hits>>
          /\ attached' = attached \/ (~ attached' /\ expect = "rmmod")
          /\ loaded' = loaded \/ (~ loaded' /\ expect = "rmmod")
      BY <1>6
      DEF Expect, SeePassed, SeeEnd, RunByHand, SeeLine, EndMod, Compare, Rmmod,
          forkVars, mainVars, countVars, scriptVars, moduleVars
    <2>2. (expect = "rmmod" /\ script = "check") => FALSE
      BY DEF HarnessInv, ExpectInv, ScriptInv, EndOfFile, ByHand, Negative
    <2>. QED
      BY <2>1, <2>2 DEF HarnessInv, ScriptInv, Ended, TypeInv, TestType
  <1>7. CASE ProgramStep
    BY <1>7, ProgramMoves, ProgramHits, ProgramAttached
    DEF HarnessInv, ScriptInv, Ended, TypeInv, TestType, MainType
  <1>8. CASE UNCHANGED vars
    BY <1>8
    DEF vars, forkVars, mainVars, countVars, scriptVars, moduleVars, HarnessInv,
        ScriptInv, Ended
  <1>. QED
    BY <1>1, <1>2, <1>3, <1>4, <1>5, <1>6, <1>7, <1>8
    DEF Next, Progress, Script, ProgramStep, Done, Hangs

-----------------------------------------------------------------------------
(* The .exp file. *)

ExpectedLine == [text : {"Registering", "called", "summary", "bye", "adios"},
                 num : Int]

\* No line of a summary is a complaint of cat.
LEMMA SummariesExpected ==
  ASSUME test \in Tests, NEW n \in Nat
  PROVE  Summaries(n) \in Seq(ExpectedLine)
  <1>1. CallsOf(0, n) \in Nat /\ CallsOf(1, n) \in Nat /\ CallsOf(2, n) \in Nat
    BY CallsOfFacts
  <1>2. Summaries(n) \in Seq(Line) /\ Len(Summaries(n)) \in Nat
    BY SummariesFacts, LenProperties
  <1>3. ASSUME NEW i \in 1 .. Len(Summaries(n))
        PROVE  Summaries(n)[i] \in ExpectedLine
    <2>1. CASE i = 1
      <3>1. Summaries(n)[i] = Summary(CallsOf(0, n))
        BY <2>1, SummariesFacts
      <3>2. Summary(CallsOf(0, n)) \in ExpectedLine
        BY <1>1 DEF Summary, ExpectedLine
      <3>. QED  BY <3>1, <3>2
    <2>2. CASE i # 1
      <3>a. Len(Summaries(n)) = 1 \/ (Program = "probeme6" /\ Len(Summaries(n)) = 3)
        BY SummariesFacts
      <3>1. Program = "probeme6" /\ i - 1 \in {1, 2} /\ i = 1 + (i - 1)
        <4>1. CASE Len(Summaries(n)) = 1
          BY <2>2, <4>1
        <4>2. CASE Program = "probeme6" /\ Len(Summaries(n)) = 3
          <5>1. i \in 1 .. 3
            BY <4>2
          <5>. QED  BY <2>2, <4>2, <5>1
        <4>. QED  BY <3>a, <4>1, <4>2
      <3>2. PICK f \in {1, 2} : i = 1 + f
        BY <3>1
      <3>3. Summaries(n)[i] = [text |-> LastCalls[f], num |-> CallsOf(f, n)]
        BY <3>1, <3>2, SummariesFacts
      <3>. QED  BY <1>1, <3>2, <3>3, LastCallsFacts DEF ExpectedLine
    <2>. QED  BY <2>1, <2>2
  <1>. QED  BY <1>2, <1>3, ElementOfSeq, SeqDef

\* A parent has calls to make.
LEMMA ParentCallsType ==
  ASSUME test \in Tests PROVE ParentCalls \in Nat /\ ParentCalls > 0
  <1>1. Iters \in Nat /\ Iters > 0 /\ NumThreads \in Nat /\ NumThreads > 0
        /\ AllCalls \in Nat /\ AllCalls > Iters
    BY ParameterFacts, ProgramFacts
  <1>2. 2 * Iters * NumThreads \in Nat /\ 2 * Iters * NumThreads > 0
    BY <1>1
  <1>. QED  BY <1>1, <1>2 DEF ParentCalls

\* The registrations and the calls, line by line.
LEMMA ExpectedCallsFacts ==
  ASSUME test \in Tests
  PROVE  /\ ExpectedCalls \in Seq(ExpectedLine)
         /\ Len(ExpectedCalls) > 0
         /\ ExpectedCalls[1] = Reg
         /\ ExpectedCalls \in Seq(Line)
         /\ PrintsFirst \/ PrintsLast =>
              /\ Len(ExpectedCalls) = ParentCalls + 1
              /\ \A i \in 1 .. ParentCalls :
                   ExpectedCalls[i + 1] = Called(Function(i))
         /\ ~ (PrintsFirst \/ PrintsLast) => ExpectedCalls = <<Reg>>
  <1>1. Reg \in ExpectedLine /\ Reg \in Line
    BY DEF Reg, ExpectedLine, Line
  <1>2. CASE PrintsFirst \/ PrintsLast
    <2>. DEFINE c == [i \in 1 .. ParentCalls |-> Called(Function(i))]
    <2>1. ParentCalls \in Nat /\ ParentCalls <= AllCalls
      BY <1>2, ParentCallsType, ParameterFacts, ProgramFacts
      DEF PrintsFirst, PrintsLast, ParentCalls, Negative
    <2>2. \A i \in 1 .. ParentCalls : Called(Function(i)) \in ExpectedLine
      BY <2>1, FunctionType, ProgramFacts DEF Called, ExpectedLine
    <2>2a. \A i \in 1 .. ParentCalls : Called(Function(i)) \in Line
      BY <2>2 DEF ExpectedLine, Line
    <2>3. c \in Seq(ExpectedLine) /\ c \in Seq(Line) /\ Len(c) = ParentCalls
          /\ \A i \in 1 .. ParentCalls : c[i] = Called(Function(i))
      BY <2>1, <2>2, <2>2a
    <2>4. ExpectedCalls = <<Reg>> \o c
      BY <1>2 DEF ExpectedCalls
    <2>5. <<Reg>> \in Seq(ExpectedLine) /\ <<Reg>> \in Seq(Line)
      BY <1>1
    <2>. HIDE DEF c
    <2>6. /\ ExpectedCalls \in Seq(ExpectedLine) /\ ExpectedCalls \in Seq(Line)
          /\ Len(ExpectedCalls) = 1 + ParentCalls /\ ExpectedCalls[1] = Reg
      BY <2>1, <2>3, <2>4, <2>5, ConcatProperties
    <2>7. ASSUME NEW i \in 1 .. ParentCalls
          PROVE  ExpectedCalls[i + 1] = Called(Function(i))
      <3>1. ExpectedCalls[i + 1] = c[i]
        BY <2>1, <2>3, <2>4, <2>5
      <3>. QED  BY <2>3, <3>1
    <2>. QED  BY <1>2, <2>1, <2>6, <2>7
  <1>3. CASE ~ (PrintsFirst \/ PrintsLast)
    BY <1>1, <1>3 DEF ExpectedCalls
  <1>. QED  BY <1>2, <1>3

\* What the log is at first: that of a module left in is the expected one where
\* its registration is.
LEMMA InitLog ==
  ASSUME Init
  PROVE  \/ log = <<Registration>> \/ log = <<>>
         \/ log = ExpectedCalls /\ Registration = Reg
  <1>0. test \in Tests
    BY DEF Init, ForkInit
  <1>1. ExpectedCalls \in Seq(Line) /\ Len(ExpectedCalls) > 0 /\ ExpectedCalls[1] = Reg
    BY <1>0, ExpectedCallsFacts
  <1>2. CASE HasSlots
    <2>1. ~ (PrintsFirst \/ PrintsLast)
      BY <1>2 DEF HasSlots, PrintsFirst, PrintsLast
    <2>2. ExpectedCalls = <<Reg>>
      BY <1>0, <2>1, ExpectedCallsFacts
    <2>3. Tail(ExpectedCalls) = <<>>
      BY <2>2
    <2>4. <<Registration>> \o <<>> = <<Registration>>
      BY <1>0, RegistrationFacts
    <2>. QED  BY <2>3, <2>4 DEF Init
  <1>3. CASE ~ HasSlots
    <2>1. Registration = Reg
      BY <1>3 DEF Registration
    <2>2. <<Reg>> \o Tail(ExpectedCalls) = ExpectedCalls
      <3>. DEFINE e == ExpectedCalls
      <3>1. e \in Seq(Line) /\ Len(e) > 0 /\ e[1] = Reg /\ Len(e) \in Nat
        BY <1>1
      <3>. HIDE DEF e
      <3>2. <<Reg>> \o Tail(e) = e
        BY <3>1, LineFacts
      <3>. QED  BY <3>2 DEF e
    <2>. QED  BY <2>1, <2>2 DEF Init
  <1>. QED  BY <1>2, <1>3

\* There is an expected file, and no complaint of cat in it.
LEMMA ExpectedFacts ==
  ASSUME test \in Tests
  PROVE  Expected \in Seq(ExpectedLine) /\ Expected # <<>>
  <1>1. Reg \in ExpectedLine /\ Summary(Many) \in ExpectedLine
    BY DEF Reg, Summary, Many, ExpectedLine
  <1>2. CASE Program = "fork_thread"
    BY <1>1, <1>2 DEF Expected
  <1>3. CASE Program # "fork_thread" /\ Negative
    BY <1>1, <1>3 DEF Expected
  <1>4. CASE Program # "fork_thread" /\ ~ Negative
    <2>1. Expected = ExpectedCalls \o Summaries(ParentCalls)
      BY <1>4 DEF Expected
    <2>2. Summaries(ParentCalls) \in Seq(ExpectedLine)
      BY ParentCallsType, SummariesExpected
    <2>3. Expected \in Seq(ExpectedLine) /\ Len(Expected) > 0
      BY <2>1, <2>2, ExpectedCallsFacts, LenProperties, ConcatProperties
    <2>. QED  BY <2>3
  <1>. QED  BY <1>2, <1>3, <1>4

\* What uprobes_diff reads is a sequence of lines.
LEMMA ResultsType == ASSUME log \in Seq(Line) PROVE Results \in Seq(Line)
  <1>1. ASSUME NEW line \in Line PROVE Normalised(line) \in Line
    BY <1>1 DEF Normalised, Line, Many, Reg
  <1>2. \A i \in DOMAIN log : Normalised(log[i]) \in Line
    BY <1>1
  <1>3. [text |-> "NoSuchFile", num |-> 0] \in Line
    BY DEF Line
  <1>4. [i \in DOMAIN log |-> Normalised(log[i])] \in Seq(Line)
    BY <1>2
  <1>. QED  BY <1>3, <1>4 DEF Results

\* uprobes_diff gives a Tcl error only where there is a log.
LEMMA ErrorMeansLoaded ==
  ASSUME test \in Tests, log \in Seq(Line), ~ loaded
  PROVE  Diff(Results, Expected) # "error"
  <1>1. /\ Expected \in Seq(ExpectedLine) /\ Expected # <<>>
        /\ Results \in Seq(Line)
    BY ExpectedFacts, ResultsType
  <1>2. SUFFICES ASSUME IsSubsequence(Results, Front(Expected)) PROVE FALSE
    BY <1>1, DiffDecides
  <1>3. PICK f \in [DOMAIN Results -> DOMAIN Front(Expected)] :
              \A i \in DOMAIN Results : Results[i] = Front(Expected)[f[i]]
    BY <1>2 DEF IsSubsequence
  <1>4. Results = <<[text |-> "NoSuchFile", num |-> 0]>>
    BY DEF Results
  <1>5. 1 \in DOMAIN Results /\ Results[1].text = "NoSuchFile"
    BY <1>4
  <1>6. /\ f[1] \in DOMAIN Front(Expected)
        /\ Front(Expected)[f[1]].text = "NoSuchFile"
    BY <1>3, <1>5
  <1>7. Front(Expected) \in Seq(ExpectedLine)
    <2>1. Len(Expected) \in Nat /\ Len(Expected) > 0
      BY <1>1, LenProperties, EmptySeq
    <2>. QED  BY <1>1, <2>1 DEF Front
  <1>8. Front(Expected)[f[1]] \in ExpectedLine
    BY <1>6, <1>7
  <1>. QED  BY <1>6, <1>8 DEF ExpectedLine

\* Once the output has ended nothing of the program or of runtest.sh is left to do.
LEMMA NothingMoves == ASSUME EndOfFile PROVE ~ Script /\ ~ Programs
  <1>1. /\ script = "ended"
        /\ proc \in {"none", "passed", "failed", "internal", "crashed", "killed"}
        /\ \A c \in Children : pc[c] \notin {"call", "store", "return"}
        /\ \A t \in Threads : pc[t] # "store"
    BY DEF EndOfFile, Ended, Alive
  <1>2. ~ Script
    BY <1>1 DEF Script, Check, Insmod, Continue, Kill, WaitForJob
  <1>3. ~ Main
    BY <1>1 DEF Main, Stop, Create, CreateFails, SayPassed, Join, JoinCrashes
  <1>4. ASSUME NEW t \in Threads PROVE ~ Thread(t)
    BY <1>1 DEF Thread, Fork, ForkFails, Wait, Hit, Store, Miss, Oops, Exits,
       ParentReturns, Returns, Runs
  <1>5. ASSUME NEW c \in Children PROVE ~ ChildStep(c)
    BY <1>1 DEF ChildStep, Hit, Store, Miss, Trapped, ChildReturns, Returns
  <1>. QED  BY <1>2, <1>3, <1>4, <1>5 DEF Programs

\* So that it stays so, whatever the .exp file does.
LEMMA EndStays ==
  ASSUME HarnessInv, EndOfFile, Next
  PROVE  EndOfFile' /\ proc' = proc /\ script' = script
  <1>1. Expect \/ UNCHANGED vars
    BY NothingMoves DEF Next, Progress, Done, Hangs
  <1>2. proc' = proc /\ script' = script /\ pc' = pc
    BY <1>1
    DEF Expect, SeePassed, SeeEnd, RunByHand, SeeLine, EndMod, Compare, Rmmod, vars,
        forkVars, scriptVars, mainVars, taskVars
  <1>. QED  BY <1>2 DEF EndOfFile, Ended, Alive

\* Nothing but the .exp file itself disturbs what it has come to.
LEMMA OthersExpect ==
  ASSUME HarnessInv, Next, Script \/ ProgramStep \/ UNCHANGED vars
  PROVE  ExpectInv'
  <1>1. /\ UNCHANGED <<expectVars, early, test>>
        /\ loaded => loaded'
        /\ script # "check" => script' # "check"
        /\ script # "insmod" => loaded' = loaded /\ attached' = attached
    <2>1. CASE Script
      BY <2>1
      DEF Script, Check, Insmod, Continue, Kill, WaitForJob, forkVars, moduleVars
    <2>2. CASE ProgramStep
      <3>1. test' = test
        BY NextTest
      <3>. QED  BY <2>2, <3>1, ProgramAttached DEF ProgramStep, moduleVars
    <2>3. CASE UNCHANGED vars
      BY <2>3 DEF vars, forkVars, scriptVars, moduleVars
    <2>. QED  BY <2>1, <2>2, <2>3
  <1>2. /\ expect' = expect /\ loc_return' = loc_return /\ same' = same
        /\ outcome' = outcome /\ early' = early
        /\ Negative' = Negative /\ ByHand' = ByHand /\ HasSlots' = HasSlots
    BY <1>1, TestStays DEF expectVars
  <1>3. EndOfFile => EndOfFile' /\ proc' = proc
    BY EndStays
  <1>4. proc \in {"passed", "leaving"} => proc' \in {"passed", "leaving"} \/ Negative
    <2>1. CASE Script
      BY <2>1
      DEF Script, Check, Insmod, Continue, Kill, WaitForJob, forkVars, mainVars,
          Ended, HarnessInv, ScriptInv
    <2>2. CASE ProgramStep
      BY <2>2, ProgramMoves
    <2>3. CASE UNCHANGED vars
      BY <2>3 DEF vars, forkVars, mainVars
    <2>. QED  BY <2>1, <2>2, <2>3
  <1>5. \A p \in Tasks : pc'[p] = "store" => pc[p] = "store" \/ attached
    <2>1. pc \in [Tasks -> {"none", "garbage", "fork", "call", "store", "return",
                            "say", "wait", "done", "zombie", "reaped"}]
          /\ created \in Nat
      BY ParameterFacts, ProgramFacts
      DEF HarnessInv, TypeInv, TestType, MainType, TaskType
    <2>2. CASE Script \/ UNCHANGED vars
      <3>1. pc' = pc
        BY <2>2 DEF Script, Check, Insmod, Continue, Kill, WaitForJob, vars,
           forkVars, taskVars
      <3>. QED  BY <3>1
    <2>3. CASE Main
      BY <2>1, <2>3
      DEF Main, Stop, Create, CreateFails, SayPassed, Join, JoinCrashes, taskVars
    <2>4. ASSUME NEW p \in Tasks, Hit(p) PROVE attached
      BY <2>4 DEF Hit, Effect
    <2>5. ASSUME NEW p \in Tasks, Store(p) \/ Miss(p)
          PROVE  \A q \in Tasks : pc'[q] = "store" => pc[q] = "store"
      BY <2>1, <2>5 DEF Store, Miss
    <2>6. ASSUME NEW t \in Threads, Fork(t) \/ ForkFails(t) \/ Wait(t) \/ Oops(t)
                                    \/ Exits(t) \/ ParentReturns(t)
          PROVE  \A q \in Tasks : pc'[q] = "store" => pc[q] = "store"
      <3>1. t \in Tasks /\ Child(t) \in Tasks
        BY ParameterFacts
      <3>2. CASE Wait(t)
        BY <2>1, <3>1, <3>2 DEF Wait
      <3>3. CASE ~ Wait(t)
        BY <2>1, <2>6, <3>1, <3>3
        DEF Fork, ForkFails, Oops, Exits, ParentReturns, Returns, AfterRound
      <3>. QED  BY <3>2, <3>3
    <2>7. ASSUME NEW c \in Children, Trapped(c) \/ ChildReturns(c)
          PROVE  \A q \in Tasks : pc'[q] = "store" => pc[q] = "store"
      BY <2>1, <2>7, ParameterFacts DEF Trapped, ChildReturns, Returns
    <2>8. \A t \in Threads : t \in Tasks
      BY ParameterFacts
    <2>9. \A c \in Children : c \in Tasks
      BY ParameterFacts
    <2>. QED
      BY <2>2, <2>3, <2>4, <2>5, <2>6, <2>7, <2>8, <2>9
      DEF ProgramStep, Programs, Thread, ChildStep
  <1>6. (expect = "done" /\ ~ ByHand /\ ~ (Negative /\ early)) => script # "insmod"
    BY DEF HarnessInv, ExpectInv, ScriptInv, EndOfFile
  <1>7. ExpectInv
    BY DEF HarnessInv
  <1>8. outcome \in {"pass", "fail"} => expect = "done" /\ ~ ByHand
    BY <1>7 DEF ExpectInv
  <1>9. ((expect # "watch" /\ ~ Negative /\ ~ ByHand) =>
           \/ proc \in {"passed", "leaving"} /\ loc_return = 0
           \/ EndOfFile /\ proc # "passed" /\ loc_return # 0)'
    BY <1>2, <1>3, <1>4, <1>7 DEF ExpectInv
  <1>10. ((expect # "watch" /\ Negative) =>
            script # "check" /\ loc_return = 0 /\ (early \/ EndOfFile))'
    BY <1>1, <1>2, <1>3, <1>7 DEF ExpectInv
  <1>11. ((outcome \in {"pass", "fail"} /\ ~ (Negative /\ early)) =>
            /\ ~ loaded
            /\ ~ HasSlots => ~ attached /\ \A p \in Tasks : pc[p] # "store")'
    <2>1. SUFFICES ASSUME outcome' \in {"pass", "fail"}, ~ (Negative' /\ early')
                   PROVE  /\ ~ loaded'
                          /\ ~ HasSlots' => /\ ~ attached'
                                            /\ \A p \in Tasks : pc'[p] # "store"
      OBVIOUS
    <2>2. outcome \in {"pass", "fail"} /\ ~ (Negative /\ early)
      BY <1>2, <2>1
    <2>3. loaded' = loaded /\ attached' = attached
      BY <1>1, <1>6, <1>8, <2>2
    <2>4. ~ loaded /\ (~ HasSlots => ~ attached /\ \A p \in Tasks : pc[p] # "store")
      BY <1>7, <2>2 DEF ExpectInv
    <2>. QED  BY <1>2, <1>5, <2>3, <2>4
  <1>. QED  BY <1>1, <1>2, <1>7, <1>9, <1>10, <1>11 DEF ExpectInv

\* ExpectInv is inductive.
LEMMA ExpectInvStep == ASSUME HarnessInv, Next PROVE ExpectInv'
  <1>0. ExpectInv /\ TypeInv /\ test' = test /\ loc_return \in {-1, 0, 1}
    BY NextTest DEF HarnessInv, TypeInv, ExpectType
  <1>t. Negative' = Negative /\ ByHand' = ByHand /\ HasSlots' = HasSlots
    BY <1>0, TestStays
  <1>1. CASE Script \/ ProgramStep \/ UNCHANGED vars
    BY <1>1, OthersExpect
  <1>2. CASE Expect
    <2>1. proc' = proc /\ script' = script /\ (Rmmod \/ pc' = pc)
          /\ (~ Rmmod => loaded' = loaded /\ attached' = attached)
      BY <1>2
      DEF Expect, SeePassed, SeeEnd, RunByHand, SeeLine, EndMod, Compare, Rmmod,
          forkVars, scriptVars, moduleVars, mainVars, taskVars
    <2>1a. pc' = pc
      BY <2>1 DEF Rmmod, taskVars
    <2>2. EndOfFile' <=> EndOfFile
      BY <2>1, <2>1a DEF EndOfFile, Ended, Alive
    <2>3. CASE SeePassed
      BY <1>0, <1>t, <2>1, <2>2, <2>3
      DEF SeePassed, ExpectInv, moduleVars
    <2>4. CASE SeeEnd
      <3>1. loc_return' # 0
        BY <1>0, <2>4 DEF SeeEnd, ExpectInv
      <3>. QED  BY <1>0, <1>t, <2>1, <2>2, <2>4, <3>1 DEF SeeEnd, ExpectInv, moduleVars
    <2>5. CASE RunByHand
      <3>1. ~ Negative
        BY <2>5 DEF RunByHand, ByHand, Negative
      <3>. QED
        BY <1>0, <1>t, <2>1, <2>2, <2>5, <3>1 DEF RunByHand, ExpectInv, moduleVars
    <2>6. CASE SeeLine
      <3>1. ~ ByHand /\ ~ Rmmod
        BY <2>6 DEF SeeLine, ByHand, Negative, Rmmod
      <3>2. EndOfFile \in BOOLEAN
        BY DEF EndOfFile
      <3>. QED  BY <1>0, <1>t, <2>1, <2>2, <2>6, <3>1, <3>2 DEF SeeLine, ExpectInv
    <2>7. CASE EndMod
      <3>1. ~ ByHand /\ ~ Negative /\ ~ Rmmod
        BY <1>0, <2>7 DEF EndMod, ExpectInv, Rmmod
      <3>. QED  BY <1>0, <1>t, <2>1, <2>2, <2>7, <3>1 DEF EndMod, ExpectInv
    <2>8. CASE Compare
      <3>1. ~ ByHand
        BY <1>0, <2>8 DEF Compare, ExpectInv
      <3>2. outcome' = "error" => loaded'
        <4>1. test \in Tests /\ log \in Seq(Line) /\ loaded \in BOOLEAN
          BY <1>0 DEF TypeInv, TestType, CountType
        <4>2. loaded' = loaded
          BY <2>8 DEF Compare, moduleVars
        <4>3. outcome' = "error" => Diff(Results, Expected) = "error"
          BY <1>0, <2>8 DEF Compare, ExpectInv
        <4>. QED  BY <4>1, <4>2, <4>3, ErrorMeansLoaded
      <3>3. /\ expect = "diff" /\ outcome = "none" /\ loc_return' = loc_return
            /\ early' = early
            /\ \/ expect' = "done" /\ outcome' = "error"
               \/ expect' = "rmmod" /\ outcome' = outcome
        <4>1. expect = "diff" /\ outcome = "none"
          BY <1>0, <2>8 DEF Compare, ExpectInv
        <4>. QED  BY <2>8, <4>1 DEF Compare, moduleVars
      <3>. HIDE <2>8
      <3>. QED  BY <1>0, <1>t, <2>1, <2>2, <3>1, <3>2, <3>3 DEF ExpectInv
    <2>9. CASE Rmmod
      <3>1. ~ ByHand
        BY <1>0, <2>9 DEF Rmmod, ExpectInv
      <3>2. /\ expect = "rmmod" /\ loc_return' = loc_return /\ early' = early
            /\ expect' = "done" /\ loaded' = FALSE /\ same' = same
            /\ outcome' = IF same /\ loc_return = 0 THEN "pass" ELSE "fail"
            /\ ~ HasSlots => ~ attached' /\ \A p \in Tasks : pc[p] # "store"
        BY <2>9 DEF Rmmod
      <3>. QED  BY <1>0, <1>t, <2>1, <2>1a, <2>2, <3>1, <3>2 DEF ExpectInv
    <2>. QED
      BY <1>2, <2>3, <2>4, <2>5, <2>6, <2>7, <2>8, <2>9 DEF Expect
  <1>. QED
    BY <1>1, <1>2 DEF Next, Progress, ProgramStep, Done, Hangs

-----------------------------------------------------------------------------
(* The counter and the log. *)

\* What a step does to the counter and to what the handlers have loaded of it.
LEMMA CountInvStep == ASSUME HarnessInv, Next PROVE CountInv' /\ hits' >= hits
  <1>0. /\ counter \in Nat /\ hits \in Nat /\ counter <= hits
        /\ tmp \in [Tasks -> ULong] /\ ULong \subseteq Nat
        /\ \A p \in Tasks : pc[p] = "store" => tmp[p] < hits
        /\ pc \in [Tasks -> {"none", "garbage", "fork", "call", "store", "return",
                             "say", "wait", "done", "zombie", "reaped"}]
        /\ created \in Nat
    <2>1. ULong \subseteq Nat
      BY WidthFacts DEF ULong
    <2>2. counter \in ULong /\ created \in Nat
      BY ProgramFacts, ParameterFacts
      DEF HarnessInv, TypeInv, TestType, CountType, MainType
    <2>. QED
      BY <2>1, <2>2 DEF HarnessInv, TypeInv, CountType, TaskType, CountInv
  <1>1. ASSUME UNCHANGED <<counter, hits, tmp>>,
               \A p \in Tasks : pc'[p] = "store" => pc[p] = "store"
        PROVE  CountInv' /\ hits' >= hits
    BY <1>0, <1>1 DEF CountInv
  <1>2. ASSUME NEW p \in Tasks, Hit(p) PROVE CountInv' /\ hits' >= hits
    <2>1. /\ counter' = counter /\ hits' = hits + 1 /\ tmp'[p] = counter
          /\ \A q \in Tasks : q # p => pc'[q] = pc[q] /\ tmp'[q] = tmp[q]
      BY <1>0, <1>2 DEF Hit
    <2>2. ASSUME NEW q \in Tasks, pc'[q] = "store" PROVE tmp'[q] < hits'
      <3>1. CASE q = p
        BY <1>0, <2>1, <3>1
      <3>2. CASE q # p
        <4>1. tmp'[q] = tmp[q] /\ tmp[q] < hits /\ tmp[q] \in Nat
          BY <1>0, <2>1, <2>2, <3>2
        <4>. QED  BY <1>0, <2>1, <4>1
      <3>. QED  BY <3>1, <3>2
    <2>. QED  BY <1>0, <2>1, <2>2 DEF CountInv
  <1>3. ASSUME NEW p \in Tasks, Store(p) PROVE CountInv' /\ hits' >= hits
    <2>1. /\ pc[p] = "store" /\ counter' = Incr(tmp[p])
          /\ hits' = hits /\ tmp' = tmp
          /\ pc'[p] = "return" /\ \A q \in Tasks : q # p => pc'[q] = pc[q]
      BY <1>0, <1>3 DEF Store
    <2>2. tmp[p] \in Nat /\ tmp[p] < hits /\ tmp[p] \in ULong
      BY <1>0, <2>1
    <2>3. Incr(tmp[p]) <= tmp[p] + 1
      BY <2>2 DEF Incr
    <2>4. Incr(tmp[p]) \in Nat
      BY <2>2 DEF Incr
    <2>5. counter' <= hits'
      BY <1>0, <2>1, <2>2, <2>3, <2>4
    <2>. QED  BY <1>0, <2>1, <2>5 DEF CountInv
  <1>4. ASSUME NEW t \in Threads, Exits(t) PROVE CountInv' /\ hits' >= hits
    <2>1. t \in Tasks
      BY ParameterFacts
    <2>2. counter' = counter /\ hits' = hits + 1 /\ tmp' = tmp
          /\ \A q \in Tasks : pc'[q] = "store" => pc[q] = "store"
      BY <1>0, <1>4, <2>1 DEF Exits
    <2>3. ASSUME NEW q \in Tasks, pc'[q] = "store" PROVE tmp'[q] < hits'
      <3>1. tmp'[q] = tmp[q] /\ tmp[q] < hits /\ tmp[q] \in Nat
        BY <1>0, <2>2, <2>3
      <3>. QED  BY <1>0, <2>2, <3>1
    <2>. QED  BY <1>0, <2>2, <2>3 DEF CountInv
  <1>5. CASE Script \/ Expect \/ UNCHANGED vars
    <2>1. UNCHANGED <<counter, hits, taskVars>>
      BY <1>5
      DEF Script, Check, Insmod, Continue, Kill, WaitForJob, vars, forkVars,
          countVars, Expect, SeePassed, SeeEnd, RunByHand, SeeLine, EndMod, Compare,
          Rmmod
    <2>. QED  BY <1>1, <2>1 DEF taskVars
  <1>6. CASE Main
    <2>1. \A p \in Tasks : pc'[p] = "store" => pc[p] = "store"
      BY <1>0, <1>6
      DEF Main, Stop, Create, CreateFails, SayPassed, Join, JoinCrashes, taskVars
    <2>2. UNCHANGED <<counter, hits, tmp>>
      BY <1>6
      DEF Main, Stop, Create, CreateFails, SayPassed, Join, JoinCrashes, taskVars,
          countVars
    <2>. QED  BY <1>1, <2>1, <2>2
  <1>7. ASSUME NEW p \in Tasks, Miss(p) PROVE CountInv' /\ hits' >= hits
    <2>1. UNCHANGED <<counter, hits, tmp>>
      BY <1>7 DEF Miss, countVars
    <2>2. \A q \in Tasks : pc'[q] = "store" => pc[q] = "store"
      BY <1>0, <1>7 DEF Miss
    <2>. QED  BY <1>1, <2>1, <2>2
  <1>8. ASSUME NEW t \in Threads, Fork(t) \/ ForkFails(t) \/ Wait(t) \/ Oops(t)
                                  \/ ParentReturns(t)
        PROVE  CountInv' /\ hits' >= hits
    <2>1. t \in Tasks /\ Child(t) \in Tasks
      BY ParameterFacts
    <2>2. UNCHANGED <<counter, hits, tmp>>
      BY <1>8
      DEF Fork, ForkFails, Wait, Oops, ParentReturns, Returns, countVars
    <2>3. \A q \in Tasks : pc'[q] = "store" => pc[q] = "store"
      <3>1. CASE Wait(t)
        BY <1>0, <2>1, <3>1 DEF Wait
      <3>2. CASE ~ Wait(t)
        BY <1>0, <1>8, <2>1, <3>2
        DEF Fork, ForkFails, Oops, ParentReturns, Returns, AfterRound
      <3>. QED  BY <3>1, <3>2
    <2>. QED  BY <1>1, <2>2, <2>3
  <1>9. ASSUME NEW c \in Children, Trapped(c) \/ ChildReturns(c)
        PROVE  CountInv' /\ hits' >= hits
    <2>1. UNCHANGED <<counter, hits, tmp>>
      BY <1>9 DEF Trapped, ChildReturns, Returns, countVars
    <2>2. \A q \in Tasks : pc'[q] = "store" => pc[q] = "store"
      BY <1>0, <1>9, ParameterFacts DEF Trapped, ChildReturns, Returns
    <2>. QED  BY <1>1, <2>1, <2>2
  <1>10. (\A t \in Threads : t \in Tasks) /\ (\A c \in Children : c \in Tasks)
    BY ParameterFacts
  <1>. QED
    BY <1>2, <1>3, <1>4, <1>5, <1>6, <1>7, <1>8, <1>9, <1>10
    DEF Next, Progress, Programs, Thread, ChildStep, Done, Hangs

\* What the handlers print.
LEMMA CalledLegal ==
  ASSUME NEW n \in Nat, NEW f \in {0, 1, 2}, f = 0 \/ PrintsLast
  PROVE  Legal(Called(f), n)
  <1>1. CASE f = 0
    BY <1>1 DEF Legal
  <1>2. CASE PrintsLast
    <2>1. Called(f) \in [text : {"called"} \cup Range(LastCalls), num : 0 .. 2]
      BY DEF Called
    <2>. QED  BY <1>2, <2>1 DEF Legal
  <1>. QED  BY <1>1, <1>2

\* What child_exit() prints.
LEMMA SummariesLegal ==
  ASSUME test \in Tests, NEW n \in Nat, NEW m \in Nat, n <= m
  PROVE  \A i \in DOMAIN Summaries(n) : Legal(Summaries(n)[i], m)
  <1>1. CallsOf(0, n) \in 0 .. n /\ CallsOf(1, n) \in 0 .. n /\ CallsOf(2, n) \in 0 .. n
    BY CallsOfFacts
  <1>2. CallsOf(1, n) <= 1 /\ CallsOf(2, n) <= 1
    BY LastCallsOnce
  <1>3. Legal(Summaries(n)[1], m)
    <2>1. Summaries(n)[1] = Summary(CallsOf(0, n))
      BY SummariesFacts
    <2>2. CallsOf(0, n) \in 0 .. m
      BY <1>1
    <2>. QED  BY <2>1, <2>2 DEF Legal
  <1>4. ASSUME Program = "probeme6", NEW f \in {1, 2}
        PROVE  Legal(Summaries(n)[1 + f], m)
    <2>1. Summaries(n)[1 + f] = [text |-> LastCalls[f], num |-> CallsOf(f, n)]
      BY <1>4, SummariesFacts
    <2>2. LastCalls[f] \in Range(LastCalls)
      BY LastCallsFacts
    <2>3. CallsOf(f, n) \in 0 .. 2
      BY <1>1, <1>2
    <2>. QED  BY <1>4, <2>1, <2>2, <2>3 DEF Legal, PrintsLast
  <1>5. /\ Summaries(n) \in Seq(Line)
        /\ Len(Summaries(n)) = 1 \/ (Program = "probeme6" /\ Len(Summaries(n)) = 3)
    BY SummariesFacts
  <1>6. CASE Len(Summaries(n)) = 1
    BY <1>3, <1>5, <1>6
  <1>7. CASE Program = "probeme6" /\ Len(Summaries(n)) = 3
    <2>1. Legal(Summaries(n)[2], m) /\ Legal(Summaries(n)[3], m)
      <3>1. Legal(Summaries(n)[1 + 1], m) /\ Legal(Summaries(n)[1 + 2], m)
        BY <1>4, <1>7
      <3>. QED  BY <3>1
    <2>2. DOMAIN Summaries(n) = 1 .. 3
      BY <1>5, <1>7
    <2>3. \A i \in 1 .. 3 : i = 1 \/ i = 2 \/ i = 3
      OBVIOUS
    <2>. QED  BY <1>3, <2>1, <2>2, <2>3
  <1>. QED  BY <1>5, <1>6, <1>7

\* LinesInv is inductive.
LEMMA LinesInvStep == ASSUME HarnessInv, Next PROVE LinesInv'
  <1>0. /\ test \in Tests /\ log \in Seq(Line) /\ hits \in Nat /\ counter \in Nat
        /\ counter <= hits /\ test' = test
        /\ \A i \in DOMAIN log : Legal(log[i], hits)
    <2>1. ULong \subseteq Nat
      BY WidthFacts DEF ULong
    <2>. QED
      BY <2>1, NextTest
      DEF HarnessInv, TypeInv, TestType, CountType, CountInv, LinesInv
  <1>1. hits' \in Nat /\ hits' >= hits /\ hits <= hits'
    <2>1. hits' \in Nat /\ hits' >= hits
      BY CountInvStep, TypeStep DEF TypeInv, CountType
    <2>. QED  BY <1>0, <2>1
  <1>t. PrintsLast' = PrintsLast /\ Registration' = Registration
    BY <1>0, TestStays
  <1>2. ASSUME NEW line, Legal(line, hits) PROVE Legal(line, hits)'
    BY <1>0, <1>1, <1>2, <1>t DEF Legal
  <1>n. ASSUME \A i \in DOMAIN log' : \E line : line = log'[i] /\ Legal(line, hits)
        PROVE  LinesInv'
    <2>1. ASSUME NEW i \in DOMAIN log' PROVE Legal(log[i], hits)'
      <3>1. PICK line : line = log'[i] /\ Legal(line, hits)
        BY <1>n, <2>1
      <3>2. Legal(line, hits)'
        BY <1>2, <3>1
      <3>. QED  BY <3>1, <3>2 DEF Legal
    <2>. QED  BY <2>1 DEF LinesInv
  <1>3. CASE log' = log
    <2>1. ASSUME NEW i \in DOMAIN log'
          PROVE  \E line : line = log'[i] /\ Legal(line, hits)
      <3>1. i \in DOMAIN log /\ log'[i] = log[i] /\ Legal(log[i], hits)
        BY <1>0, <1>3, <2>1
      <3>. QED  BY <3>1
    <2>. QED  BY <1>n, <2>1
  <1>4. ASSUME NEW f \in {0, 1, 2}, f = 0 \/ PrintsLast, log' = Append(log, Called(f))
        PROVE  LinesInv'
    <2>1. Legal(Called(f), hits) /\ Called(f) \in Line
      BY <1>0, <1>4, CalledLegal, LineFacts
    <2>2. ASSUME NEW i \in DOMAIN log'
          PROVE  \E line : line = log'[i] /\ Legal(line, hits)
      <3>1. log'[i] = Called(f) \/ (i \in DOMAIN log /\ log'[i] = log[i])
        BY <1>0, <1>4, <2>1, <2>2
      <3>2. CASE log'[i] = Called(f)
        BY <2>1, <3>2
      <3>3. CASE i \in DOMAIN log /\ log'[i] = log[i]
        <4>1. Legal(log[i], hits)
          BY <1>0, <3>3
        <4>. QED  BY <3>3, <4>1
      <3>. QED  BY <3>1, <3>2, <3>3
    <2>. QED  BY <1>n, <2>2
  <1>5. ASSUME log' = log \o Summaries(counter) PROVE LinesInv'
    <2>1. Summaries(counter) \in Seq(Line)
      BY <1>0, SummariesFacts
    <2>2. ASSUME NEW i \in DOMAIN log'
          PROVE  \E line : line = log'[i] /\ Legal(line, hits)
      <3>1. \/ i \in DOMAIN log /\ log'[i] = log[i]
            \/ \E j \in DOMAIN Summaries(counter) : log'[i] = Summaries(counter)[j]
        <4>1. i \in 1 .. Len(log) + Len(Summaries(counter))
          BY <1>0, <1>5, <2>1, <2>2
        <4>2. CASE i <= Len(log)
          BY <1>0, <1>5, <2>1, <4>1, <4>2
        <4>3. CASE i > Len(log)
          <5>1. i - Len(log) \in DOMAIN Summaries(counter)
            BY <1>0, <2>1, <4>1, <4>3
          <5>2. log'[i] = Summaries(counter)[i - Len(log)]
            BY <1>0, <1>5, <2>1, <4>1, <4>3
          <5>. QED  BY <5>1, <5>2
        <4>. QED  BY <1>0, <4>1, <4>2, <4>3
      <3>2. CASE i \in DOMAIN log /\ log'[i] = log[i]
        <4>1. Legal(log[i], hits)
          BY <1>0, <3>2
        <4>. QED  BY <3>2, <4>1
      <3>3. ASSUME NEW j \in DOMAIN Summaries(counter), log'[i] = Summaries(counter)[j]
            PROVE  \E line : line = log'[i] /\ Legal(line, hits)
        <4>1. PICK n \in Nat : n = counter
          BY <1>0
        <4>2. \A k \in DOMAIN Summaries(n) : Legal(Summaries(n)[k], hits)
          BY <1>0, <4>1, SummariesLegal
        <4>3. Legal(Summaries(counter)[j], hits)
          BY <3>3, <4>1, <4>2
        <4>. QED  BY <3>3, <4>3
      <3>. QED  BY <3>1, <3>2, <3>3
    <2>. QED  BY <1>n, <2>2
  <1>6. ASSUME log' = <<Registration>> PROVE LinesInv'
    <2>1. Legal(Registration, hits)
      BY DEF Legal
    <2>2. \A i \in DOMAIN log' : log'[i] = Registration
      BY <1>6
    <2>. QED  BY <1>n, <2>1, <2>2
  <1>7. CASE Script
    BY <1>3, <1>6, <1>7
    DEF Script, Check, Insmod, Continue, Kill, WaitForJob, forkVars, countVars
  <1>8. CASE Expect \/ UNCHANGED vars
    BY <1>3, <1>5, <1>8
    DEF Expect, SeePassed, SeeEnd, RunByHand, SeeLine, EndMod, Compare, Rmmod,
        forkVars, countVars, vars
  <1>9. ASSUME NEW p \in Tasks, Hit(p) \/ Store(p) \/ Miss(p) PROVE LinesInv'
    <2>1. CASE Hit(p)
      BY <1>3, <1>4, <2>1 DEF Hit
    <2>2. CASE Store(p)
      <3>1. Function(calls[p] + 1) \in {0, 1, 2}
        BY <2>2, InCall DEF Store, HarnessInv
      <3>. QED  BY <1>3, <1>4, <2>2, <3>1 DEF Store
    <2>3. CASE Miss(p)
      BY <1>3, <2>3 DEF Miss, countVars
    <2>. QED  BY <1>9, <2>1, <2>2, <2>3
  <1>10. CASE Main
    BY <1>3, <1>10
    DEF Main, Stop, Create, CreateFails, SayPassed, Join, JoinCrashes, countVars
  <1>11. ASSUME NEW t \in Threads, Thread(t) PROVE LinesInv'
    <2>1. t \in Tasks
      BY ParameterFacts
    <2>. QED
      BY <1>3, <1>9, <1>11, <2>1
      DEF Thread, Fork, ForkFails, Wait, Oops, Exits, ParentReturns, Returns,
          countVars
  <1>12. ASSUME NEW c \in Children, ChildStep(c) PROVE LinesInv'
    <2>1. c \in Tasks
      BY ParameterFacts
    <2>. QED
      BY <1>3, <1>9, <1>12, <2>1
      DEF ChildStep, Trapped, ChildReturns, Returns, countVars
  <1>. QED
    BY <1>7, <1>8, <1>10, <1>11, <1>12 DEF Next, Progress, Programs, Done, Hangs

-----------------------------------------------------------------------------
(* What a probe function returns. *)

\* A thread whose counts a step leaves alone.
LEMMA CountsStay ==
  ASSUME NEW t \in Threads, CountsOf(t), calls'[t] = calls[t],
         slot'[t].kcount = slot[t].kcount, result'[t] = result[t],
         pc'[t] \in {"store", "return"} <=> pc[t] \in {"store", "return"}
  PROVE  CountsOf(t)'
  BY DEF CountsOf, Made

\* The result is -1, -2 or a count, as no count is too large for an int.
LEMMA ResultRange ==
  ASSUME HarnessInv, CountsFit, HasSlots, NEW t \in Threads, CountsOf(t),
         pc[t] = "return", NEW s \in Slots(Tasks), s.kcount = slot[t].kcount
  PROVE  ProbeResult(s) \in Int
         /\ (ProbeResult(s) < 0 => ProbeResult(s) \in {-2, -1})
  <1>1. CASE s.kcount = NotCounting
    BY <1>1, ToIntNotCounting DEF ProbeResult
  <1>2. CASE s.kcount # NotCounting /\ s.kcount # s.ucount
    BY <1>2 DEF ProbeResult
  <1>3. CASE s.kcount # NotCounting /\ s.kcount = s.ucount
    <2>1. test \in Tests /\ calls \in [Tasks -> 0 .. AllCalls] /\ t \in Tasks
          /\ AllCalls \in Nat /\ Iters \in Nat
      BY ParameterFacts, ProgramFacts DEF HarnessInv, TypeInv, TestType, TaskType
    <2>2. AllCalls = 2 * Iters
      BY DEF HasSlots, AllCalls, Probeme6
    <2>3. calls[t] < AllCalls
      BY DEF HarnessInv, ThreadInv
    <2>4. s.kcount < Made(t) /\ Made(t) = calls[t] + 1 /\ calls[t] \in Nat
      BY <1>3, <2>1 DEF CountsOf, Made
    <2>5. s.kcount \in Nat /\ IntHalf \in Nat
      BY WidthFacts DEF Slots, ULong
    <2>6. s.kcount \in 0 .. (IntHalf - 1)
      BY <2>1, <2>2, <2>3, <2>4, <2>5 DEF CountsFit
    <2>7. ToInt(s.kcount) = s.kcount
      BY <2>6, ToIntSmall
    <2>. QED  BY <1>3, <2>5, <2>7 DEF ProbeResult
  <1>. QED  BY <1>1, <1>2, <1>3

\* ResultInv is inductive, where the counts are ints.
LEMMA ResultInvStep ==
  ASSUME HarnessInv, CountsFit, ResultInv, Next PROVE ResultInv'
  <1>0. /\ \A t \in Threads : CountsOf(t)
        /\ \A t \in Threads : t \in Tasks /\ Child(t) \in Tasks /\ Child(t) \notin Threads
        /\ \A c \in Children : c \in Tasks /\ c \notin Threads
        /\ pc \in [Tasks -> {"none", "garbage", "fork", "call", "store", "return",
                             "say", "wait", "done", "zombie", "reaped"}]
        /\ slot \in [Tasks -> Slots(Tasks)] /\ created \in Nat
        /\ calls \in [Tasks -> 0 .. AllCalls] /\ AllCalls \in Nat
        /\ result \in [Threads -> Int]
    <2>1. \A t \in Threads : CountsOf(t)
      BY DEF ResultInv
    <2>2. test \in Tests /\ Workers \in Nat /\ AllCalls \in Nat
      BY ProgramFacts DEF HarnessInv, TypeInv, TestType
    <2>3. created \in Nat
      BY <2>2 DEF HarnessInv, TypeInv, MainType
    <2>4. /\ \A t \in Threads : t \in Tasks /\ Child(t) \in Tasks /\ Child(t) \notin Threads
          /\ \A c \in Children : c \in Tasks /\ c \notin Threads
      BY ParameterFacts
    <2>. QED
      BY <2>1, <2>2, <2>3, <2>4 DEF HarnessInv, TypeInv, TaskType
  <1>1. ASSUME UNCHANGED <<calls, slot, result>>,
               \A t \in Threads :
                 pc'[t] \in {"store", "return"} <=> pc[t] \in {"store", "return"}
        PROVE  ResultInv'
    BY <1>0, <1>1, CountsStay DEF ResultInv
  <1>2. CASE Script \/ Expect \/ UNCHANGED vars
    <2>1. UNCHANGED <<calls, slot, result, pc>>
      BY <1>2
      DEF Script, Check, Insmod, Continue, Kill, WaitForJob, vars, forkVars,
          taskVars, Expect, SeePassed, SeeEnd, RunByHand, SeeLine, EndMod, Compare,
          Rmmod
    <2>. QED  BY <1>1, <2>1
  <1>3. CASE Main
    <2>1. UNCHANGED <<calls, slot, result>>
      BY <1>3
      DEF Main, Stop, Create, CreateFails, SayPassed, Join, JoinCrashes, taskVars
    <2>2. created < Workers => created + 1 \in Threads
      <3>1. Workers \in Nat /\ Workers <= NumThreads
        BY ProgramFacts DEF HarnessInv, TypeInv, TestType
      <3>. QED  BY <1>0, <3>1, ParameterFacts
    <2>3. created < Workers => pc[created + 1] = "none"
      <3>1. created + 1 > created
        BY <1>0
      <3>. QED  BY <2>2, <3>1 DEF HarnessInv, MainInv
    <2>4. ASSUME NEW t \in Threads
          PROVE  pc'[t] \in {"store", "return"} <=> pc[t] \in {"store", "return"}
      BY <1>0, <1>3, <2>2, <2>3
      DEF Main, Stop, Create, CreateFails, SayPassed, Join, JoinCrashes, taskVars
    <2>. QED  BY <1>1, <2>1, <2>4
  <1>4. ASSUME NEW p \in Tasks, Hit(p) \/ Store(p) \/ Miss(p) PROVE ResultInv'
    <2>1. /\ UNCHANGED <<calls, result>>
          /\ \A q \in Tasks : q # p => pc'[q] = pc[q] /\ slot'[q] = slot[q]
      BY <1>0, <1>4 DEF Hit, Store, Miss
    <2>2. ASSUME NEW t \in Threads, t # p PROVE CountsOf(t)'
      BY <1>0, <2>1, <2>2, CountsStay
    <2>3. ASSUME p \in Threads PROVE CountsOf(p)'
      <3>0. CountsOf(p) /\ calls[p] \in Nat /\ slot[p] \in Slots(Tasks)
            /\ slot[p].kcount \in ULong /\ result[p] \in {-2, -1, 0, 1}
            /\ ULongMod \in Nat
        BY <1>0, <2>3, WidthFacts DEF CountsOf, Slots
      <3>1. CASE Hit(p)
        <4>1. pc[p] = "call" /\ pc'[p] = "store" /\ calls'[p] = calls[p]
              /\ result'[p] = result[p]
          BY <1>0, <2>1, <3>1 DEF Hit
        <4>2. CASE HasSlots
          <5>1. slot'[p].kcount = Incr(slot[p].kcount)
            <6>1. slot'[p] = HandlerCounts(Claimed(p), p)
              BY <1>0, <3>1, <4>2 DEF Hit
            <6>2. Claimed(p) \in Slots(Tasks) /\ Claimed(p).kcount = slot[p].kcount
              BY ClaimedType DEF HarnessInv
            <6>3. HandlerCounts(Claimed(p), p).kcount = Incr(Claimed(p).kcount)
              BY <6>2 DEF HandlerCounts, Slots
            <6>. QED  BY <6>1, <6>2, <6>3
          <5>2. Incr(slot[p].kcount) < calls[p] + 1
            <6>1. CASE slot[p].kcount = NotCounting
              BY <3>0, <6>1 DEF Incr, NotCounting
            <6>2. CASE slot[p].kcount < Made(p)
              BY <3>0, <4>1, <6>2 DEF Incr, Made, ULong
            <6>. QED  BY <3>0, <6>1, <6>2 DEF CountsOf
          <5>. QED  BY <3>0, <4>1, <5>1, <5>2 DEF CountsOf, Made
        <4>3. CASE ~ HasSlots
          <5>1. slot'[p] = slot[p]
            BY <1>0, <3>1, <4>3 DEF Hit
          <5>2. slot[p].kcount = NotCounting \/ slot[p].kcount < calls[p] + 1
            BY <3>0, <4>1 DEF CountsOf, Made, ULong
          <5>. QED  BY <3>0, <4>1, <5>1, <5>2 DEF CountsOf, Made
        <4>. QED  BY <4>2, <4>3
      <3>2. CASE Store(p)
        <4>1. /\ pc[p] = "store" /\ pc'[p] = "return" /\ calls'[p] = calls[p]
              /\ result'[p] = result[p] /\ slot'[p] = slot[p]
          BY <1>0, <2>1, <3>2 DEF Store
        <4>. QED  BY <2>3, <3>0, <4>1, CountsStay
      <3>3. CASE Miss(p)
        <4>1. /\ pc[p] = "call" /\ pc'[p] = "return" /\ calls'[p] = calls[p]
              /\ result'[p] = result[p] /\ slot'[p] = Claimed(p)
          BY <1>0, <2>1, <3>3 DEF Miss
        <4>2. slot'[p].kcount = slot[p].kcount
          BY <4>1, ClaimedType DEF HarnessInv
        <4>3. slot[p].kcount = NotCounting \/ slot[p].kcount < calls[p] + 1
          BY <3>0, <4>1 DEF CountsOf, Made, ULong
        <4>. QED  BY <3>0, <4>1, <4>2, <4>3 DEF CountsOf, Made
      <3>. QED  BY <1>4, <3>1, <3>2, <3>3
    <2>. QED  BY <2>2, <2>3 DEF ResultInv
  <1>5. ASSUME NEW t \in Threads, Fork(t) PROVE ResultInv'
    <2>1. /\ UNCHANGED <<calls, result>> /\ pc[t] = "fork" /\ pc'[t] = "call"
          /\ \A q \in Threads : q # t => pc'[q] = pc[q]
          /\ \A q \in Threads : slot'[q] = slot[q]
      BY <1>0, <1>5 DEF Fork
    <2>2. ASSUME NEW q \in Threads PROVE CountsOf(q)'
      BY <1>0, <2>1, CountsStay
    <2>. QED  BY <2>2 DEF ResultInv
  <1>6. ASSUME NEW t \in Threads, ForkFails(t) \/ Oops(t) \/ Exits(t)
        PROVE  ResultInv'
    <2>1. UNCHANGED <<calls, slot, result>>
      BY <1>6 DEF ForkFails, Oops, Exits
    <2>2. \A q \in Threads :
            pc'[q] \in {"store", "return"} <=> pc[q] \in {"store", "return"}
      BY <1>0, <1>6 DEF ForkFails, Oops, Exits
    <2>. QED  BY <1>1, <2>1, <2>2
  <1>7. ASSUME NEW t \in Threads, Wait(t) PROVE ResultInv'
    <2>1. /\ UNCHANGED <<calls, slot>>
          /\ pc[t] = "wait" /\ pc'[t] \notin {"store", "return"}
          /\ result' = [result EXCEPT ![t] = IF HasSlots THEN 0
                                             ELSE StatusOf(waited'[t])]
      BY <1>0, <1>7 DEF Wait
    <2>2. \A q \in Threads :
            pc'[q] \in {"store", "return"} <=> pc[q] \in {"store", "return"}
      BY <1>0, <1>7 DEF Wait
    <2>3. result'[t] \in {0, 1} /\ \A q \in Threads : q # t => result'[q] = result[q]
      BY <1>0, <2>1 DEF StatusOf
    <2>4. ASSUME NEW q \in Threads, q # t PROVE CountsOf(q)'
      BY <1>0, <2>1, <2>2, <2>3, <2>4, CountsStay
    <2>5. CountsOf(t)'
      BY <1>0, <2>1, <2>3 DEF CountsOf, Made
    <2>. QED  BY <2>4, <2>5 DEF ResultInv
  <1>8. ASSUME NEW t \in Threads, ParentReturns(t) PROVE ResultInv'
    <2>1. /\ pc[t] = "return" /\ t \in Tasks
          /\ slot' = [slot EXCEPT ![t] = IF HasSlots THEN UserCounts(slot[t])
                                                     ELSE slot[t]]
          /\ calls' = [calls EXCEPT ![t] = calls[t] + 1]
      BY <1>0, <1>8 DEF ParentReturns, Returns
    <2>2. /\ calls'[t] = calls[t] + 1
          /\ slot'[t] \in Slots(Tasks) /\ slot'[t].kcount = slot[t].kcount
      <3>1. slot[t] \in Slots(Tasks)
        BY <1>0
      <3>2. UserCounts(slot[t]) \in Slots(Tasks)
            /\ UserCounts(slot[t]).kcount = slot[t].kcount
        BY <3>1, <2>1, SlotFacts
      <3>. QED  BY <1>0, <2>1, <3>1, <3>2
    <2>3. PICK r \in Int :
            /\ r = IF HasSlots THEN ProbeResult(slot'[t]) ELSE 0
            /\ r < 0 => r \in {-2, -1}
      <3>1. CASE HasSlots
        <4>1. CountsOf(t)
          BY <1>0
        <4>2. PICK s \in Slots(Tasks) : s = slot'[t] /\ s.kcount = slot[t].kcount
          BY <2>2
        <4>. QED  BY <2>1, <3>1, <4>1, <4>2, ResultRange
      <3>2. CASE ~ HasSlots
        BY <3>2
      <3>. QED  BY <3>1, <3>2
    <2>4. /\ pc' = [pc EXCEPT ![t] = IF r < 0 THEN "done"
                                     ELSE IF calls'[t] = Iters THEN AfterRound
                                     ELSE IF calls'[t] = AllCalls THEN "done" ELSE "call"]
          /\ result' = [result EXCEPT ![t] =
                          IF r < 0 THEN r
                          ELSE IF calls'[t] = AllCalls THEN StatusOf(waited[t]) ELSE 0]
      BY <1>8, <2>3 DEF ParentReturns
    <2>5. pc'[t] \notin {"store", "return"}
      BY <1>0, <2>1, <2>4 DEF AfterRound
    <2>6. result'[t] \in {-2, -1, 0, 1}
      BY <1>0, <2>3, <2>4 DEF StatusOf
    <2>7. CountsOf(t)'
      <3>1. /\ calls[t] \in Nat
            /\ slot[t].kcount = NotCounting \/ slot[t].kcount < calls[t] + 1
        <4>1. CountsOf(t) /\ Made(t) = calls[t] + 1
          BY <1>0, <2>1 DEF Made
        <4>. QED  BY <1>0, <2>1, <4>1 DEF CountsOf
      <3>. QED  BY <1>0, <2>2, <2>5, <2>6, <3>1 DEF CountsOf, Made
    <2>8. ASSUME NEW q \in Threads, q # t PROVE CountsOf(q)'
      <3>1. /\ pc'[q] = pc[q] /\ calls'[q] = calls[q] /\ slot'[q] = slot[q]
            /\ result'[q] = result[q]
        BY <1>0, <2>1, <2>4, <2>8
      <3>. QED  BY <1>0, <3>1, CountsStay
    <2>. QED  BY <2>7, <2>8 DEF ResultInv
  <1>9. ASSUME NEW c \in Children, Trapped(c) \/ ChildReturns(c) PROVE ResultInv'
    <2>1. ASSUME NEW t \in Threads PROVE CountsOf(t)'
      <3>1. t # c /\ c \in Tasks /\ t \in Tasks
        BY <1>0
      <3>2. /\ pc'[t] = pc[t] /\ calls'[t] = calls[t] /\ slot'[t] = slot[t]
            /\ result' = result
        BY <1>0, <1>9, <3>1 DEF Trapped, ChildReturns, Returns
      <3>. QED  BY <1>0, <3>2, CountsStay
    <2>. QED  BY <2>1 DEF ResultInv
  <1>. QED
    BY <1>0, <1>2, <1>3, <1>4, <1>5, <1>6, <1>7, <1>8, <1>9
    DEF Next, Progress, Programs, Thread, ChildStep, Done, Hangs

-----------------------------------------------------------------------------
(* The theorems. *)

\* The initial states have the types.
LEMMA HarnessInitType == ASSUME Init PROVE TypeInv
  <1>1. test \in Tests /\ Workers \in Nat /\ AllCalls \in Nat /\ Threads \subseteq Tasks
        /\ Children \subseteq Tasks
    BY ProgramFacts, ParameterFacts DEF Init, ForkInit
  <1>2. 0 \in ULong /\ NewSlot \in Slots(Tasks)
    BY WidthFacts, NewSlotType DEF ULong
  <1>3. log \in Seq(Line)
    <2>1. <<Registration>> \in Seq(Line) /\ <<>> \in Seq(Line)
      BY <1>1, RegistrationFacts
    <2>2. ExpectedCalls \in Seq(Line)
      BY <1>1, ExpectedCallsFacts
    <2>. QED  BY <2>1, <2>2, InitLog
  <1>4. TestType
    BY <1>1 DEF Init, ForkInit, TestType
  <1>5. MainType
    BY <1>1 DEF Init, ForkInit, MainType
  <1>6. TaskType
    BY <1>1, <1>2 DEF Init, ForkInit, TaskType
  <1>7. CountType
    BY <1>2, <1>3 DEF Init, ForkInit, CountType
  <1>8. ScriptType
    BY DEF Init, ScriptType
  <1>9. ExpectType
    BY DEF Init, ExpectType
  <1>. QED  BY <1>4, <1>5, <1>6, <1>7, <1>8, <1>9 DEF TypeInv

\* They satisfy the invariant: the program has not been started.
LEMMA HarnessInit == ASSUME Init PROVE HarnessInv
  <1>0. TypeInv
    BY HarnessInitType
  <1>1. /\ \A p \in Tasks : pc[p] = "none" /\ calls[p] = 0
        /\ \A t \in Threads : result[t] = 0 /\ waited[t] = "none" /\ pc[t] = "none"
                              /\ calls[t] = 0 /\ pc[Child(t)] = "none"
        /\ \A c \in Children : status[c] = "none" /\ pc[c] = "none" /\ calls[c] = 0
        /\ \A t \in Threads : t > 0
    BY ParameterFacts DEF Init, ForkInit
  <1>2. MainInv
    <2>1. proc = "none" /\ created = 0 /\ joined = 0
      BY DEF Init, ForkInit
    <2>2. \A t \in Threads : t \in Nat /\ t > 0
      BY ParameterFacts
    <2>3. ASSUME NEW t \in Threads
          PROVE  /\ pc[t] = "none" <=> t > created
                 /\ t <= joined => pc[t] \in {"done", "garbage"} /\ result[t] = 0
      BY <1>1, <2>1, <2>2
    <2>. QED  BY <2>1, <2>3 DEF MainInv
  <1>3. ForkInv
    <2>1. Unreaped = {} /\ YetToWait = {}
      BY <1>1 DEF Unreaped, YetToWait
    <2>. QED  BY <1>1, <2>1, ForkSetsFinite DEF ForkInv
  <1>4. ScriptInv
    BY DEF Init, ForkInit, ScriptInv, Ended
  <1>5. ExpectInv
    BY DEF Init, ForkInit, ExpectInv, Negative, ByHand
  <1>6. CountInv
    BY <1>1 DEF Init, ForkInit, CountInv
  <1>7. LinesInv
    <2>0. test \in Tests /\ hits = 0
      BY DEF Init, ForkInit
    <2>1. CASE log = <<Registration>> \/ log = <<>>
      BY <2>1 DEF LinesInv, Legal
    <2>2. CASE log = ExpectedCalls /\ Registration = Reg
      <3>1. ASSUME NEW i \in DOMAIN log PROVE Legal(log[i], 0)
        <4>1. CASE ~ (PrintsFirst \/ PrintsLast)
          BY <2>0, <2>2, <3>1, <4>1, ExpectedCallsFacts DEF Legal
        <4>2. CASE PrintsFirst \/ PrintsLast
          <5>1. ParentCalls \in Nat /\ ParentCalls <= AllCalls
            BY <2>0, <4>2, ParentCallsType, ParameterFacts, ProgramFacts
            DEF PrintsFirst, PrintsLast, ParentCalls, Negative
          <5>2. i \in 1 .. (ParentCalls + 1)
            BY <2>0, <2>2, <3>1, <4>2, ExpectedCallsFacts, LenProperties
          <5>3. CASE i = 1
            <6>1. log[i] = Reg
              BY <2>0, <2>2, <5>3, ExpectedCallsFacts
            <6>. QED  BY <2>2, <6>1 DEF Legal
          <5>4. CASE i # 1
            <6>1. PICK j \in 1 .. ParentCalls : i = j + 1
              <7>1. i - 1 \in 1 .. ParentCalls /\ i = (i - 1) + 1
                BY <5>1, <5>2, <5>4
              <7>. QED  BY <7>1
            <6>2. log[i] = Called(Function(j))
              BY <2>0, <2>2, <4>2, <6>1, ExpectedCallsFacts
            <6>3. Function(j) \in {0, 1, 2}
              <7>1. j \in Nat /\ j <= AllCalls /\ AllCalls \in Nat
                BY <2>0, <5>1, <6>1, ProgramFacts
              <7>. QED  BY <2>0, <7>1, FunctionType
            <6>4. Function(j) = 0 \/ PrintsLast
              BY <4>2 DEF Function, PrintsFirst, PrintsLast, Probeme6
            <6>. QED  BY <6>2, <6>3, <6>4, CalledLegal
          <5>. QED  BY <5>3, <5>4
        <4>. QED  BY <4>1, <4>2
      <3>. QED  BY <2>0, <3>1 DEF LinesInv
    <2>. QED  BY <2>1, <2>2, InitLog
  <1>8. ASSUME NEW t \in Threads PROVE ThreadInv(t)
    BY <1>1 DEF ThreadInv
  <1>9. ASSUME NEW c \in Children PROVE ChildInv(c)
    BY <1>1 DEF ChildInv
  <1>. QED
    BY <1>0, <1>2, <1>3, <1>4, <1>5, <1>6, <1>7, <1>8, <1>9 DEF HarnessInv

\* The invariant is inductive.
LEMMA HarnessNext == ASSUME HarnessInv, [Next]_vars PROVE HarnessInv'
  <1>1. CASE Next
    BY <1>1, TypeStep, MainStep, ForkInvStep, ScriptInvStep, ExpectInvStep,
       CountInvStep, LinesInvStep
    DEF HarnessInv, TasksInv
  <1>2. CASE UNCHANGED vars
    BY <1>2
    DEF vars, forkVars, mainVars, taskVars, countVars, expectVars, scriptVars,
          moduleVars, HarnessInv, TypeInv, TestType, MainType, TaskType, CountType,
          ScriptType, ExpectType, MainInv, ForkInv, ScriptInv, ExpectInv, CountInv,
          LinesInv, Legal, ThreadInv, ChildInv, Unreaped, YetToWait, EndOfFile,
          Ended, Alive, Workers, AllCalls, Single, Forks, HasSlots, Probeme6,
          Program, Negative, ByHand, PrintsLast, StatusOf, Registration
  <1>. QED  BY <1>1, <1>2

\* The inductive invariant: where main() and its threads are, who is still to be
\* waited for, why runtest.sh and the .exp file have gone on, and what the module
\* has counted and printed.
THEOREM HarnessInvariant == Spec => []HarnessInv
  <1>1. Init => HarnessInv
    BY HarnessInit
  <1>2. HarnessInv /\ [Next]_vars => HarnessInv'
    BY HarnessNext
  <1>. QED  BY <1>1, <1>2, PTL DEF Spec

\* The types of the programs' and the scripts' variables: the module's counter
\* never runs ahead of the calls, the log holds nothing but the module's lines,
\* and a thread's result is -1 or -2 or a verdict.  Where a count can be
\* negative as an int (ToInt), what probe_N() returns is anything; so the number
\* of iterations is one that an int can count.
THEOREM TypeCorrect == ASSUME CountsFit PROVE Spec => []TypeOK
  <1>1. ASSUME Init PROVE HarnessInv /\ ResultInv
    <2>1. HarnessInv /\ \A t \in Threads : t \in Tasks
      BY <1>1, HarnessInit, ParameterFacts
    <2>2. \A t \in Threads : slot[t].kcount = NotCounting /\ result[t] = 0
      BY <1>1, <2>1 DEF Init, ForkInit, NewSlot
    <2>. QED  BY <2>1, <2>2 DEF ResultInv, CountsOf
  <1>2. ASSUME HarnessInv, ResultInv, [Next]_vars PROVE HarnessInv' /\ ResultInv'
    <2>1. CASE Next
      BY <1>2, <2>1, HarnessNext, ResultInvStep
    <2>2. CASE UNCHANGED vars
      <3>1. HarnessInv'
        BY <1>2, HarnessNext
      <3>. QED
        BY <1>2, <2>2, <3>1
        DEF vars, forkVars, taskVars, ResultInv, CountsOf, Made
    <2>. QED  BY <1>2, <2>1, <2>2
  <1>3. ASSUME HarnessInv, ResultInv PROVE TypeOK
    <2>1. result \in [Threads -> {-2, -1, 0, 1}]
      BY <1>3 DEF HarnessInv, TypeInv, TaskType, ResultInv, CountsOf
    <2>2. counter \in 0 .. hits /\ childHits \in 0 .. hits
      BY <1>3, WidthFacts DEF HarnessInv, TypeInv, CountType, CountInv, ULong
    <2>3. \A i \in DOMAIN log :
            \/ log[i] \in {Registration, Called(0)} \cup {Summary(n) : n \in 0 .. hits}
            \/ PrintsLast
               /\ log[i] \in [text : {"called"} \cup Range(LastCalls), num : 0 .. 2]
      BY <1>3 DEF HarnessInv, LinesInv, Legal
    <2>. QED
      BY <1>3, <2>1, <2>2, <2>3
      DEF TypeOK, HarnessInv, TypeInv, TestType, MainType, TaskType, CountType,
          ScriptType, ExpectType
  <1>. QED  BY <1>1, <1>2, <1>3, PTL DEF Spec

\* What uprobes_diff finds of every log that a module can have left and every
\* expected file: "same" where the log is a part of the file with its last line,
\* and a Tcl error where it is one without it (uprobes.exp:54-69).
THEOREM DiffAlwaysDecides == Spec => []DiffIsSubsequence
  <1>1. ASSUME HarnessInv PROVE DiffIsSubsequence
    <2>1. /\ Results \in Seq(Line)
          /\ Expected \in Seq(ExpectedLine) /\ Expected # <<>>
      BY <1>1, ResultsType, ExpectedFacts DEF HarnessInv, TypeInv, TestType, CountType
    <2>2. Diff(Results, Expected) =
            IF IsSubsequence(Results, Front(Expected)) THEN "error"
            ELSE IF IsSubsequence(Results, Expected) THEN "same" ELSE "differs"
      BY <2>1, DiffDecides
    <2>3. ASSUME NEW results \in SmallLogs, NEW expected \in SmallLogs \ {<<>>}
          PROVE  Diff(results, expected) =
                   IF IsSubsequence(results, Front(expected)) THEN "error"
                   ELSE IF IsSubsequence(results, expected) THEN "same" ELSE "differs"
      <3>1. results \in Seq(Range(results)) /\ expected \in Seq(Range(expected))
        BY HarnessAssumption
      <3>. QED  BY <3>1, DiffDecides
    <2>. QED  BY <2>2, <2>3 DEF DiffIsSubsequence
  <1>. QED  BY <1>1, HarnessInvariant, PTL

\* A program that has passed has waited for each child that it has forked.
LEMMA PassedHasWaited ==
  ASSUME HarnessInv, proc = "passed", Program \in ForkPrograms
  PROVE  Unreaped = {} /\ \A t \in Threads : pc[t] # "store"
  <1>1. joined = Workers /\ created = Workers /\ Workers \in Nat
    <2>1. test \in Tests /\ created \in 0 .. Workers /\ joined \in 0 .. created
      BY DEF HarnessInv, TypeInv, TestType, MainType
    <2>2. joined = Workers
      BY DEF HarnessInv, MainInv, ForkPrograms, Probeme6
    <2>3. Workers \in Nat
      BY <2>1, ProgramFacts
    <2>. QED  BY <2>1, <2>2, <2>3
  <1>2. ASSUME NEW t \in Threads
        PROVE  t \notin YetToWait /\ pc[t] # "store"
    <2>1. t \in Nat
      BY ParameterFacts
    <2>2. CASE t <= Workers
      <3>1. pc[t] \in {"done", "garbage"} /\ result[t] = 0
        BY <1>1, <2>2 DEF HarnessInv, MainInv
      <3>2. pc[t] # "garbage" /\ (pc[t] = "done" => waited[t] # "none")
        BY <3>1 DEF HarnessInv, ThreadInv, ForkPrograms
      <3>. QED  BY <3>1, <3>2 DEF YetToWait
    <2>3. CASE t > Workers
      <3>1. pc[t] = "none"
        BY <1>1, <2>3 DEF HarnessInv, MainInv
      <3>. QED  BY <3>1 DEF YetToWait
    <2>. QED  BY <1>1, <2>1, <2>2, <2>3
  <1>3. YetToWait = {}
    BY <1>2 DEF YetToWait
  <1>4. Cardinality(Unreaped) = 0
    <2>1. Cardinality(Unreaped) <= Cardinality(YetToWait) /\ Cardinality(YetToWait) = 0
      BY <1>3, FS_EmptySet DEF HarnessInv, ForkInv
    <2>. QED  BY <2>1, ForkSetsFinite
  <1>. QED  BY <1>2, <1>4, ForkSetsFinite, FS_EmptySet

\* The module is removed once no task is left that could run its handler, though
\* rmmod is not told when that is: uprobes_run_test goes by what it has read, and
\* wait() takes whichever child has ended (uprobes.exp:92-129, fork_thread.c:58).
\* And a module that was left loaded lets no test pass that needs its program.
THEOREM ModuleAlwaysGoesLast == Spec => []ModuleGoesLast
  <1>1. ASSUME HarnessInv PROVE ModuleGoesLast
    <2>0. ExpectInv /\ ScriptInv
      BY <1>1 DEF HarnessInv
    <2>1. ASSUME ~ (Negative /\ early), outcome \in {"pass", "fail"}
          PROVE  ~ Alive /\ proc # "running"
      <3>1. expect = "done" /\ ~ ByHand
        BY <2>0, <2>1 DEF ExpectInv
      <3>2. CASE EndOfFile
        BY <3>2 DEF EndOfFile, Ended
      <3>3. CASE ~ EndOfFile
        <4>1. proc \in {"passed", "leaving"} /\ ~ Negative
          BY <2>0, <2>1, <3>1, <3>3 DEF ExpectInv
        <4>2. CASE Program \in ForkPrograms
          <5>1. proc = "passed"
            BY <1>1, <4>1, <4>2 DEF HarnessInv, MainInv, ForkPrograms, Probeme6
          <5>2. Unreaped = {} /\ \A t \in Threads : pc[t] # "store"
            BY <1>1, <4>2, <5>1, PassedHasWaited
          <5>. QED  BY <4>1, <5>2 DEF Alive, Unreaped
        <4>3. CASE Program \notin ForkPrograms
          <5>1. ~ Forks /\ ~ HasSlots
            BY <3>1, <4>3 DEF Forks, HasSlots, ForkPrograms, ByHand
          <5>2. \A c \in Children : pc[c] = "none"
            BY <1>1, <5>1, ParameterFacts DEF HarnessInv, ForkInv
          <5>3. \A t \in Threads : pc[t] # "store"
            BY <2>0, <2>1, <5>1, ParameterFacts DEF ExpectInv
          <5>. QED  BY <4>1, <5>2, <5>3 DEF Alive
        <4>. QED  BY <4>2, <4>3
      <3>. QED  BY <3>2, <3>3
    <2>2. ASSUME ~ (Negative /\ early), expect = "done", ~ ByHand
          PROVE  loaded = (outcome = "error")
      <3>1. outcome \in {"none", "pass", "fail", "error"} /\ loaded \in BOOLEAN
        BY <1>1 DEF HarnessInv, TypeInv, TestType, ExpectType
      <3>. QED  BY <2>0, <2>2, <3>1 DEF ExpectInv
    <2>3. ASSUME stale, outcome = "pass" PROVE Negative /\ hits = 0
      BY <2>0, <2>3 DEF ExpectInv, ScriptInv
    <2>. QED  BY <2>1, <2>2, <2>3 DEF ModuleGoesLast
  <1>. QED  BY <1>1, HarnessInvariant, PTL

-----------------------------------------------------------------------------
(* What a reported pass means. *)

\* The calls of the threads that have got past their breakpoint.
MadeSet == {c \in Threads \X (1 .. AllCalls) : c[2] <= Made(c[1])}

\* Each of them is a hit, as long as the module is there.
ParentHits ==
  ~ Negative /\ ~ ByHand =>
    /\ hits <= childHits + Cardinality(MadeSet)
    /\ attached => hits = childHits + Cardinality(MadeSet)

\* The module comes with its probes, and only if it is not refused.
AttachInv ==
  /\ loaded /\ ~ stale => attached
  /\ script \in {"refused", "kill"} => ~ attached

\* The first hit of suicide ends the program.
SuicideInv ==
  Negative /\ attached =>
    /\ pc[1] \in {"none", "call", "done"} /\ calls[1] = 0
    /\ hits = IF pc[1] = "done" THEN 1 ELSE 0
    /\ Ended => pc[1] = "done"
    /\ pc[1] = "done" => proc = "killed"

\* A child that has been counted exits with 1, and its status is waited for.
ChildHitInv ==
  /\ ~ Forks => childHits = 0
  /\ \A t \in Threads : pc[t] \in {"none", "fork"} => slot[t].kcount = NotCounting
  /\ Program = "fork_thread" /\ childHits > 0 =>
       \E c \in Children : slot[c].kcount # NotCounting

ChildSlotInv(c) ==
  /\ HasSlots /\ slot[c].kcount # NotCounting =>
       \/ pc[c] \in {"store", "return"} /\ slot[c].kcount = 0
                                        /\ slot[c].ucount = NotCounting
       \/ status[c] = "exit1"
  /\ status[c] = "signal" => test.kernel = "traps"
  /\ pc[c] = "reaped" => \E t \in Threads : waited[t] = status[c]

\* The lines of the calls, and the last line of probe6.
Adios == [text |-> "adios", num |-> 1]

CalledLines == {i \in DOMAIN log : log[i] = Called(0)}

PrintInv ==
  /\ Program = "probe8-fork" /\ loaded /\ ~ stale => hits <= Cardinality(CalledLines)
  /\ \A i \in DOMAIN log : log[i] = Adios => AllCalls <= hits

PassFacts ==
  /\ childHits = 0 /\ hits = ParentCalls
  /\ \A c \in Children :
       \/ pc[c] = "none"
       \/ pc[c] = "reaped" /\ status[c] = "exit0"
       \/ pc[c] = "reaped" /\ status[c] = "signal" /\ Program = "fork_thread"
                           /\ test.kernel = "traps"

\* What the comparison has found is so, and stays so.
VerdictInv ==
  (expect = "rmmod" \/ outcome = "pass") /\ same /\ loc_return = 0
     /\ ~ (Negative /\ (early \/ stale)) => PassFacts

PassInv ==
  /\ ParentHits /\ AttachInv /\ SuicideInv /\ ChildHitInv
  /\ \A c \in Children : ChildSlotInv(c)
  /\ PrintInv /\ VerdictInv

\* What a breakpoint does, by program.
LEMMA EffectFacts ==
  ASSUME NEW p \in Tasks
  PROVE  /\ Effect(p) = "counts" =>
              /\ attached /\ ~ Negative /\ ~ ByHand
              /\ p \in Threads \/ test.kernel = "inherits"
         /\ (Effect(p) = "nothing" /\ attached /\ ~ Negative /\ ~ ByHand) =>
              p \notin Threads
         /\ Effect(p) = "exits" => attached /\ Negative
         /\ Effect(p) = "oops" => attached /\ ByHand
         /\ Effect(p) = "SIGTRAP" => test.kernel = "traps"
         /\ (Negative /\ attached /\ Function(calls[p] + 1) = 0) => Effect(p) = "exits"
  BY DEF Effect, Negative, ByHand

\* No thread makes more calls than its program has.
LEMMA MadeType ==
  ASSUME HarnessInv, NEW t \in Threads
  PROVE  /\ Made(t) \in 0 .. AllCalls /\ AllCalls \in Nat
         /\ calls[t] \in Nat
         /\ pc[t] \in {"call", "store", "return"} => calls[t] + 1 <= AllCalls
  <1>1. t \in Tasks /\ AllCalls \in Nat /\ calls \in [Tasks -> 0 .. AllCalls]
    BY ParameterFacts, ProgramFacts DEF HarnessInv, TypeInv, TestType, TaskType
  <1>2. pc[t] \in {"call", "store", "return"} => calls[t] < AllCalls
    BY <1>1, InCall DEF HarnessInv
  <1>. QED  BY <1>1, <1>2 DEF Made

\* A set of calls is finite.
LEMMA CallsFinite ==
  ASSUME NEW n \in Nat, NEW S \in SUBSET (Threads \X (1 .. n))
  PROVE  /\ IsFiniteSet(S) /\ Cardinality(S) \in Nat
         /\ Cardinality(S) <= NumThreads * n
         /\ Cardinality(Threads \X (1 .. n)) = NumThreads * n
  <1>0. IsFiniteSet(1 .. n) /\ Cardinality(1 .. n) = n
    BY FS_Interval
  <1>1. IsFiniteSet(Threads) /\ Cardinality(Threads) = NumThreads
    <2>1. NumThreads \in Nat /\ Threads = 1 .. NumThreads
      BY ParameterFacts
    <2>. QED  BY <2>1, FS_Interval
  <1>2. /\ IsFiniteSet(Threads \X (1 .. n))
        /\ Cardinality(Threads \X (1 .. n)) = NumThreads * n
    BY <1>0, <1>1, FS_Product
  <1>3. IsFiniteSet(S) /\ Cardinality(S) <= NumThreads * n
    BY <1>2, FS_Subset
  <1>. QED  BY <1>2, <1>3, FS_CardinalityType

\* The two kinds of steps: no thread gets past a breakpoint, or one does.
LEMMA MadeStays ==
  ASSUME test' = test, \A t \in Threads : Made(t)' = Made(t)
  PROVE  MadeSet' = MadeSet
  BY TestStays DEF MadeSet

\* A thread gets past a breakpoint: there is one call more.
LEMMA MadeOneMore ==
  ASSUME HarnessInv, test' = test, NEW p \in Threads, Made(p) + 1 <= AllCalls,
         Made(p)' = Made(p) + 1,
         \A t \in Threads : t # p => Made(t)' = Made(t)
  PROVE  Cardinality(MadeSet') = Cardinality(MadeSet) + 1
  <1>1. AllCalls' = AllCalls /\ AllCalls \in Nat /\ Made(p) \in Nat
    BY TestStays, MadeType
  <1>2. \A t \in Threads : Made(t) \in Nat
    BY MadeType
  <1>3. MadeSet' = MadeSet \cup {<<p, Made(p) + 1>>}
    <2>1. ASSUME NEW t \in Threads, NEW k \in 1 .. AllCalls
          PROVE  k <= Made(t)' <=> k <= Made(t) \/ <<t, k>> = <<p, Made(p) + 1>>
      <3>1. CASE t = p
        BY <1>1, <3>1
      <3>2. CASE t # p
        BY <3>2
      <3>. QED  BY <3>1, <3>2
    <2>2. <<p, Made(p) + 1>> \in Threads \X (1 .. AllCalls)
      BY <1>1
    <2>. QED  BY <1>1, <2>1, <2>2 DEF MadeSet
  <1>4. <<p, Made(p) + 1>> \notin MadeSet
    BY <1>1 DEF MadeSet
  <1>5. IsFiniteSet(MadeSet)
    BY <1>1, CallsFinite DEF MadeSet
  <1>. QED  BY <1>3, <1>4, <1>5, FS_AddElement

\* The numbers that ParentHits compares.
LEMMA HitsType ==
  ASSUME HarnessInv
  PROVE  /\ hits \in Nat /\ childHits \in Nat /\ childHits <= hits
         /\ Cardinality(MadeSet) \in Nat
  <1>1. hits \in Nat /\ childHits \in Nat /\ childHits <= hits /\ test \in Tests
    BY DEF HarnessInv, TypeInv, TestType, CountType
  <1>2. AllCalls \in Nat
    BY <1>1, ProgramFacts
  <1>. QED  BY <1>1, <1>2, CallsFinite DEF MadeSet

\* Where no breakpoint is met.
LEMMA NoCallMade ==
  ASSUME HarnessInv, ParentHits, test' = test, UNCHANGED <<hits, childHits>>,
         attached' => attached,
         \A t \in Threads : Made(t)' = Made(t)
  PROVE  ParentHits'
  <1>1. MadeSet' = MadeSet
    BY MadeStays
  <1>. QED  BY <1>1, TestStays DEF ParentHits

\* Where a thread has got past one: it is counted if the module is there.
LEMMA OneCallMade ==
  ASSUME HarnessInv, ParentHits, test' = test, NEW p \in Threads,
         Made(p) + 1 <= AllCalls, Made(p)' = Made(p) + 1,
         \A t \in Threads : t # p => Made(t)' = Made(t),
         childHits' = childHits, attached' = attached,
         hits' = hits + 1 \/ (hits' = hits /\ (attached => Negative \/ ByHand))
  PROVE  ParentHits'
  <1>1. Cardinality(MadeSet') = Cardinality(MadeSet) + 1
    BY MadeOneMore
  <1>. QED  BY <1>1, TestStays, HitsType DEF ParentHits

\* The hits are those of the calls made: where no handler overlaps another, and
\* where it does.
LEMMA ParentHitsStep == ASSUME HarnessInv, ParentHits, Next PROVE ParentHits'
  <1>0. /\ test' = test
        /\ pc \in [Tasks -> {"none", "garbage", "fork", "call", "store", "return",
                             "say", "wait", "done", "zombie", "reaped"}]
        /\ calls \in [Tasks -> 0 .. AllCalls] /\ AllCalls \in Nat /\ created \in Nat
        /\ Workers \in Nat /\ Workers <= NumThreads
    <2>1. test \in Tests /\ Workers \in Nat /\ AllCalls \in Nat /\ Workers <= NumThreads
      BY ProgramFacts DEF HarnessInv, TypeInv, TestType
    <2>2. created \in Nat
      BY <2>1 DEF HarnessInv, TypeInv, MainType
    <2>. QED  BY <2>1, <2>2, NextTest DEF HarnessInv, TypeInv, TaskType
  <1>a. /\ \A t \in Threads : t \in Tasks /\ Child(t) \in Tasks /\ Child(t) \notin Threads
        /\ \A c \in Children : c \in Tasks /\ c \notin Threads
        /\ \A p \in Tasks : p \in Threads \/ p \in Children
    BY ParameterFacts
  <1>b. \A t \in Threads : calls[t] \in Nat
    BY <1>0, <1>a
  <1>1. CASE Insmod
    <2>1. script = "insmod" /\ UNCHANGED <<pc, calls, hits, childHits>>
      BY <1>1 DEF Insmod, taskVars
    <2>2. \A p \in Tasks : pc[p] = "none"
      <3>1. proc \in {"starting", "stopped"}
        BY <2>1 DEF HarnessInv, ScriptInv
      <3>. QED  BY <3>1, NobodyYet
    <2>3. ASSUME NEW t \in Threads PROVE Made(t) = 0 /\ Made(t)' = 0
      <3>1. calls[t] = 0 /\ pc[t] = "none"
        BY <1>a, <2>2 DEF HarnessInv, ThreadInv
      <3>. QED  BY <2>1, <3>1 DEF Made
    <2>4. MadeSet = {} /\ MadeSet' = MadeSet
      <3>1. MadeSet = {}
        BY <1>0, <2>3 DEF MadeSet
      <3>. QED  BY <1>0, <2>3, <3>1, MadeStays
    <2>5. Cardinality(MadeSet) = 0
      BY <2>4, FS_EmptySet
    <2>. QED  BY <1>0, <2>1, <2>4, <2>5, TestStays, HitsType DEF ParentHits
  <1>2. CASE (Script /\ ~ Insmod) \/ Expect \/ UNCHANGED vars
    <2>1. UNCHANGED <<pc, calls, hits, childHits>> /\ (attached' => attached)
      BY <1>2
      DEF Script, Check, Continue, Kill, WaitForJob, vars, forkVars, countVars,
          taskVars, Expect, SeePassed, SeeEnd, RunByHand, SeeLine, EndMod, Compare,
          Rmmod
    <2>2. \A t \in Threads : Made(t)' = Made(t)
      BY <2>1 DEF Made
    <2>. QED  BY <1>0, <2>1, <2>2, NoCallMade
  <1>3. CASE Main
    <2>1. UNCHANGED <<calls, hits, childHits, attached>>
      BY <1>3
      DEF Main, Stop, Create, CreateFails, SayPassed, Join, JoinCrashes, taskVars,
          countVars
    <2>2. created < Workers => created + 1 \in Threads
      BY <1>0, ParameterFacts
    <2>3. created < Workers => pc[created + 1] = "none"
      <3>1. created + 1 > created
        BY <1>0
      <3>. QED  BY <2>2, <3>1 DEF HarnessInv, MainInv
    <2>4. ASSUME NEW t \in Threads
          PROVE  pc'[t] \in {"store", "return"} <=> pc[t] \in {"store", "return"}
      BY <1>0, <1>3, <1>a, <2>2, <2>3
      DEF Main, Stop, Create, CreateFails, SayPassed, Join, JoinCrashes, taskVars
    <2>5. \A t \in Threads : Made(t)' = Made(t)
      BY <2>1, <2>4 DEF Made
    <2>. QED  BY <1>0, <2>1, <2>5, NoCallMade
  <1>4. ASSUME NEW p \in Tasks, Hit(p) \/ Miss(p) PROVE ParentHits'
    <2>1. /\ calls' = calls /\ attached' = attached
          /\ pc[p] = "call" /\ pc'[p] \in {"store", "return"}
          /\ \A q \in Tasks : q # p => pc'[q] = pc[q]
          /\ Hit(p) => /\ hits' = hits + 1
                       /\ childHits' = childHits + (IF p \in Children THEN 1 ELSE 0)
          /\ ~ Hit(p) => hits' = hits /\ childHits' = childHits
      <3>1. childHits \in Nat
        BY HitsType
      <3>2. CASE Hit(p)
        BY <1>0, <3>1, <3>2 DEF Hit
      <3>3. CASE ~ Hit(p)
        BY <1>0, <1>4, <3>3 DEF Miss, countVars
      <3>. QED  BY <3>2, <3>3
    <2>2. \A t \in Threads : t # p => Made(t)' = Made(t)
      BY <1>a, <2>1 DEF Made
    <2>3. CASE p \in Threads
      <3>1. Made(p)' = Made(p) + 1 /\ Made(p) = calls[p]
        BY <1>b, <2>1, <2>3 DEF Made
      <3>2. Made(p) + 1 <= AllCalls
        BY <2>1, <2>3, <3>1, MadeType
      <3>3. ~ Hit(p) /\ attached => Negative \/ ByHand
        BY <1>4, <2>3, EffectFacts DEF Miss
      <3>4. p \notin Children
        BY <1>a, <2>3
      <3>5. childHits' = childHits
        BY <2>1, <3>4, HitsType
      <3>. QED  BY <1>0, <2>1, <2>2, <2>3, <3>1, <3>2, <3>3, <3>5, OneCallMade
    <2>4. CASE p \notin Threads
      <3>1. \A t \in Threads : Made(t)' = Made(t)
        BY <2>2, <2>4
      <3>2. CASE Hit(p)
        <4>1. hits' = hits + 1 /\ childHits' = childHits + 1
          BY <1>a, <2>1, <2>4, <3>2
        <4>2. MadeSet' = MadeSet
          BY <1>0, <3>1, MadeStays
        <4>. QED
          BY <1>0, <2>1, <4>1, <4>2, TestStays, HitsType DEF ParentHits
      <3>3. CASE ~ Hit(p)
        BY <1>0, <2>1, <3>1, <3>3, NoCallMade
      <3>. QED  BY <3>2, <3>3
    <2>. QED  BY <2>3, <2>4
  <1>5. ASSUME NEW p \in Tasks, Store(p) PROVE ParentHits'
    <2>1. /\ UNCHANGED <<calls, attached, hits, childHits>>
          /\ pc[p] = "store" /\ pc'[p] = "return"
          /\ \A q \in Tasks : q # p => pc'[q] = pc[q]
      BY <1>0, <1>5 DEF Store
    <2>2. \A t \in Threads : Made(t)' = Made(t)
      BY <1>a, <2>1 DEF Made
    <2>. QED  BY <1>0, <2>1, <2>2, NoCallMade
  <1>6. ASSUME NEW t \in Threads, Fork(t) \/ ForkFails(t) \/ Wait(t) \/ Oops(t)
        PROVE  ParentHits'
    <2>1. UNCHANGED <<calls, attached, hits, childHits>>
      BY <1>6 DEF Fork, ForkFails, Wait, Oops, countVars
    <2>2. \A q \in Threads :
            pc'[q] \in {"store", "return"} <=> pc[q] \in {"store", "return"}
      <3>1. CASE Wait(t)
        BY <1>0, <1>a, <3>1 DEF Wait
      <3>2. CASE ~ Wait(t)
        BY <1>0, <1>6, <1>a, <3>2 DEF Fork, ForkFails, Oops
      <3>. QED  BY <3>1, <3>2
    <2>3. \A q \in Threads : Made(q)' = Made(q)
      BY <2>1, <2>2 DEF Made
    <2>. QED  BY <1>0, <2>1, <2>3, NoCallMade
  <1>7. ASSUME NEW t \in Threads, Exits(t) PROVE ParentHits'
    <2>1. Negative'
      BY <1>0, <1>7, <1>a, EffectFacts, TestStays DEF Exits
    <2>. QED  BY <2>1 DEF ParentHits
  <1>8. ASSUME NEW t \in Threads, ParentReturns(t) PROVE ParentHits'
    <2>1. /\ UNCHANGED <<attached, hits, childHits>>
          /\ pc[t] = "return" /\ calls'[t] = calls[t] + 1
          /\ pc'[t] \notin {"store", "return"}
          /\ \A q \in Tasks : q # t => pc'[q] = pc[q] /\ calls'[q] = calls[q]
      BY <1>0, <1>8, <1>a DEF ParentReturns, Returns, countVars, AfterRound
    <2>2. \A q \in Threads : Made(q)' = Made(q)
      BY <1>a, <1>b, <2>1 DEF Made
    <2>. QED  BY <1>0, <2>1, <2>2, NoCallMade
  <1>9. ASSUME NEW c \in Children, Trapped(c) \/ ChildReturns(c) PROVE ParentHits'
    <2>1. /\ UNCHANGED <<attached, hits, childHits>>
          /\ \A q \in Tasks : q # c => pc'[q] = pc[q] /\ calls'[q] = calls[q]
      BY <1>0, <1>9, <1>a DEF Trapped, ChildReturns, Returns, countVars
    <2>2. \A q \in Threads : Made(q)' = Made(q)
      BY <1>a, <2>1 DEF Made
    <2>. QED  BY <1>0, <2>1, <2>2, NoCallMade
  <1>. QED
    BY <1>1, <1>2, <1>3, <1>4, <1>5, <1>6, <1>7, <1>8, <1>9, <1>a
    DEF Next, Progress, Script, Programs, Thread, ChildStep, Done, Hangs

\* The module comes with its probes; a refused one does not come.
LEMMA AttachInvStep == ASSUME HarnessInv, AttachInv, Next PROVE AttachInv'
  <1>1. CASE Script
    BY <1>1
    DEF Script, Check, Insmod, Continue, Kill, WaitForJob, forkVars, moduleVars,
        HarnessInv, ScriptInv, AttachInv
  <1>2. CASE Expect
    BY <1>2
    DEF Expect, SeePassed, SeeEnd, RunByHand, SeeLine, EndMod, Compare, Rmmod,
        forkVars, scriptVars, moduleVars, AttachInv
  <1>3. CASE ProgramStep
    BY <1>3, ProgramAttached DEF AttachInv
  <1>4. CASE UNCHANGED vars
    BY <1>4 DEF vars, forkVars, scriptVars, moduleVars, AttachInv
  <1>. QED
    BY <1>1, <1>2, <1>3, <1>4 DEF Next, Progress, ProgramStep, Done, Hangs

\* The program of suicide: one thread, which calls add() first.
LEMMA SuicideFacts ==
  ASSUME HarnessInv, Negative
  PROVE  /\ Workers = 1 /\ Single /\ ~ Forks /\ ~ HasSlots /\ Probeme6
         /\ 1 \in Threads /\ 1 \in Tasks
         /\ \A t \in Threads : t # 1 => pc[t] = "none"
         /\ \A c \in Children : pc[c] = "none"
         /\ calls[1] = 0 => Function(calls[1] + 1) = 0
  <1>1. Workers = 1 /\ Single /\ ~ Forks /\ ~ HasSlots /\ Probeme6
    BY DEF Negative, Workers, Single, Forks, HasSlots, Probeme6
  <1>2. 1 \in Threads /\ 1 \in Tasks
    BY ParameterFacts
  <1>3. created \in 0 .. 1
    BY <1>1 DEF HarnessInv, TypeInv, MainType
  <1>4. ASSUME NEW t \in Threads, t # 1 PROVE pc[t] = "none"
    <2>1. t > created
      BY <1>3, <1>4, ParameterFacts
    <2>. QED  BY <2>1 DEF HarnessInv, MainInv
  <1>5. \A c \in Children : pc[c] = "none"
    BY <1>1, ParameterFacts DEF HarnessInv, ForkInv
  <1>6. calls[1] = 0 => Function(calls[1] + 1) = 0
    BY ParameterFacts DEF Function
  <1>. QED  BY <1>1, <1>2, <1>4, <1>5, <1>6

\* The only hit of suicide is its last step, as the handler ends the program.
LEMMA SuicideInvStep ==
  ASSUME HarnessInv, AttachInv, ParentHits, SuicideInv, Next PROVE SuicideInv'
  <1>0. test' = test /\ Negative' = Negative /\ hits \in Nat
    BY NextTest, TestStays, HitsType
  <1>. SUFFICES ASSUME Negative, attached'
                PROVE  /\ pc'[1] \in {"none", "call", "done"} /\ calls'[1] = 0
                       /\ hits' = IF pc'[1] = "done" THEN 1 ELSE 0
                       /\ Ended' => pc'[1] = "done"
                       /\ pc'[1] = "done" => proc' = "killed"
    BY <1>0 DEF SuicideInv
  <1>1. CASE Insmod
    <2>1. script = "insmod" /\ UNCHANGED <<pc, calls, hits, proc>>
      BY <1>1 DEF Insmod, taskVars, mainVars
    <2>2. proc \in {"starting", "stopped"} /\ pc[1] = "none" /\ calls[1] = 0
      <3>1. proc \in {"starting", "stopped"}
        BY <2>1 DEF HarnessInv, ScriptInv
      <3>2. pc[1] = "none"
        BY <3>1, NobodyYet, SuicideFacts
      <3>. QED  BY <3>1, <3>2, SuicideFacts DEF HarnessInv, ThreadInv
    <2>3. hits = 0
      BY <2>2 DEF HarnessInv, ScriptInv
    <2>. QED  BY <2>1, <2>2, <2>3 DEF Ended
  <1>2. CASE (Script /\ ~ Insmod) \/ Expect \/ UNCHANGED vars
    <2>1. UNCHANGED <<pc, calls, hits>> /\ attached
      BY <1>2
      DEF Script, Check, Continue, Kill, WaitForJob, vars, forkVars, countVars,
          taskVars, Expect, SeePassed, SeeEnd, RunByHand, SeeLine, EndMod, Compare,
          Rmmod
    <2>2. proc' = proc \/ (proc = "stopped" /\ proc' = "running")
      <3>1. script # "check" /\ script # "kill"
        BY <2>1 DEF HarnessInv, ScriptInv, AttachInv
      <3>. QED
        BY <1>2, <3>1
        DEF Script, Check, Continue, Kill, WaitForJob, vars, forkVars, mainVars,
            Expect, SeePassed, SeeEnd, RunByHand, SeeLine, EndMod, Compare, Rmmod
    <2>. QED  BY <2>1, <2>2 DEF SuicideInv, Ended
  <1>3. CASE ProgramStep
    <2>1. attached
      BY <1>3, ProgramAttached
    <2>2. /\ pc[1] \in {"none", "call", "done"} /\ calls[1] = 0
          /\ hits = IF pc[1] = "done" THEN 1 ELSE 0
          /\ Ended => pc[1] = "done"
          /\ pc[1] = "done" => proc = "killed"
      BY <2>1 DEF SuicideInv
    <2>3. /\ pc \in [Tasks -> {"none", "garbage", "fork", "call", "store", "return",
                               "say", "wait", "done", "zombie", "reaped"}]
          /\ created \in 0 .. 1 /\ joined \in 0 .. created
      BY SuicideFacts DEF HarnessInv, TypeInv, MainType, TaskType
    <2>4. CASE Main
      <3>1. ~ Join /\ ~ JoinCrashes
        <4>1. proc \in {"running", "leaving"} => joined + 1 = 1
          BY <2>3, SuicideFacts DEF HarnessInv, MainInv
        <4>. QED  BY <2>2, <4>1 DEF Join, JoinCrashes
      <3>2. ~ CreateFails /\ ~ SayPassed
        BY <2>2, SuicideFacts DEF CreateFails, SayPassed
      <3>3. CASE Stop
        BY <2>2, <3>3 DEF Stop, taskVars, countVars, Ended
      <3>4. CASE Create
        <4>1. created = 0 /\ proc = "running" /\ pc' = [pc EXCEPT ![1] = "call"]
          <5>1. Workers = 1 /\ ~ Forks
            BY SuicideFacts
          <5>2. created = 0 /\ proc = "running" /\ created' = 1
            BY <2>3, <3>4, <5>1 DEF Create
          <5>. QED  BY <3>4, <5>1, <5>2 DEF Create
        <4>. QED
          BY <2>2, <2>3, <3>4, <4>1, SuicideFacts DEF Create, countVars, Ended
      <3>. QED  BY <2>4, <3>1, <3>2, <3>3, <3>4 DEF Main
    <2>5. ASSUME NEW t \in Threads, Thread(t)
          PROVE  /\ pc'[1] \in {"none", "call", "done"} /\ calls'[1] = 0
                 /\ hits' = IF pc'[1] = "done" THEN 1 ELSE 0
                 /\ Ended' => pc'[1] = "done"
                 /\ pc'[1] = "done" => proc' = "killed"
      <3>1. t = 1 /\ pc[1] = "call"
        BY <2>2, <2>5, SuicideFacts
        DEF Thread, Fork, ForkFails, Wait, Hit, Store, Miss, Oops, Exits,
            ParentReturns, Returns
      <3>2. Effect(1) = "exits"
        BY <2>1, <2>2, SuicideFacts, EffectFacts
      <3>3. Exits(1)
        BY <2>5, <3>1, <3>2
        DEF Thread, Fork, ForkFails, Wait, Hit, Store, Miss, Oops, ParentReturns,
            Returns
      <3>4. hits = 0
        BY <2>2, <3>1
      <3>. QED  BY <2>2, <2>3, <3>3, <3>4, SuicideFacts DEF Exits
    <2>6. ASSUME NEW c \in Children PROVE ~ ChildStep(c)
      BY SuicideFacts
      DEF ChildStep, Hit, Store, Miss, Trapped, ChildReturns, Returns
    <2>. QED  BY <1>3, <2>4, <2>5, <2>6 DEF ProgramStep, Programs
  <1>. QED
    BY <1>1, <1>2, <1>3 DEF Next, Progress, ProgramStep, Done, Hangs

-----------------------------------------------------------------------------
(* A child that is counted. *)

SlotInv == ChildHitInv /\ \A c \in Children : ChildSlotInv(c)

\* A child that a step leaves alone.
LEMMA ChildSlotStays ==
  ASSUME test' = test, NEW c \in Children, ChildSlotInv(c),
         slot'[c] = slot[c], status'[c] = status[c], pc'[c] = pc[c],
         \A t \in Threads : waited[t] # "none" => waited'[t] = waited[t],
         pc[c] = "reaped" => status[c] # "none"
  PROVE  ChildSlotInv(c)'
  <1>1. Program' = Program /\ HasSlots' = HasSlots
    BY TestStays
  <1>2. pc'[c] = "reaped" => \E t \in Threads : waited'[t] = status'[c]
    BY DEF ChildSlotInv
  <1>. QED  BY <1>1, <1>2 DEF ChildSlotInv

\* No task moves that has a slot.
LEMMA SlotInvStays ==
  ASSUME HarnessInv, SlotInv, test' = test,
         UNCHANGED <<slot, status, childHits>>,
         \A c \in Children : pc'[c] = pc[c],
         \A t \in Threads : pc'[t] \in {"none", "fork"} => pc[t] \in {"none", "fork"},
         \A t \in Threads : waited[t] # "none" => waited'[t] = waited[t]
  PROVE  SlotInv'
  <1>1. ChildHitInv'
    BY TestStays DEF SlotInv, ChildHitInv
  <1>2. ASSUME NEW c \in Children PROVE ChildSlotInv(c)'
    <2>1. pc[c] = "reaped" => status[c] # "none"
      BY DEF HarnessInv, ChildInv
    <2>. QED  BY <2>1, ChildSlotStays DEF SlotInv
  <1>. QED  BY <1>1, <1>2 DEF SlotInv

\* A child that is about to make a call, or has yet to be forked, has not been
\* counted.
LEMMA NotCounted ==
  ASSUME HarnessInv, SlotInv, NEW c \in Children, HasSlots,
         pc[c] \in {"none", "call"}
  PROVE  slot[c].kcount = NotCounting
  <1>1. ChildSlotInv(c) /\ ChildInv(c)
    BY DEF HarnessInv, SlotInv
  <1>. QED  BY <1>1 DEF ChildSlotInv, ChildInv

\* NotCounting is one below 0, as an unsigned long is.
LEMMA NotCountingFacts ==
  /\ NotCounting \in ULong /\ NotCounting # 0 /\ Incr(NotCounting) = 0
  /\ ToInt(0) = 0
  <1>1. ULongMod \in Nat /\ ULongMod >= 2 /\ IntHalf \in Nat /\ IntHalf >= 1
    BY WidthFacts
  <1>2. 0 \in 0 .. (IntHalf - 1)
    BY <1>1
  <1>. QED  BY <1>1, <1>2, ToIntSmall DEF NotCounting, ULong, Incr

\* One task has moved: SlotInv holds of the others.
LEMMA OneSlot ==
  ASSUME HarnessInv, SlotInv, test' = test, waited' = waited, NEW p \in Tasks,
         \A q \in Tasks : q # p => pc'[q] = pc[q] /\ slot'[q] = slot[q],
         \A c \in Children : c # p => status'[c] = status[c],
         p \in Threads => /\ childHits' = childHits
                          /\ pc'[p] \notin {"none", "fork"},
         p \in Children =>
           /\ ChildSlotInv(p)'
           /\ pc[p] # "none"
           /\ HasSlots /\ slot[p].kcount # NotCounting => slot'[p].kcount # NotCounting
           /\ \/ childHits' = childHits
              \/ HasSlots => slot'[p].kcount # NotCounting
  PROVE  SlotInv'
  <1>1. /\ \A t \in Threads : t \in Tasks /\ t \notin Children
        /\ \A c \in Children : c \in Tasks /\ c \notin Threads
        /\ p \in Threads \/ p \in Children
    BY ParameterFacts
  <1>2. ASSUME NEW c \in Children PROVE ChildSlotInv(c)'
    <2>1. pc[c] = "reaped" => status[c] # "none"
      BY DEF HarnessInv, ChildInv
    <2>2. CASE c # p
      BY <1>1, <2>1, <2>2, ChildSlotStays DEF SlotInv
    <2>3. CASE c = p
      BY <2>3
    <2>. QED  BY <2>2, <2>3
  <1>3. ~ Forks' => childHits' = 0
    <2>1. Forks' = Forks
      BY TestStays
    <2>2. CASE p \in Threads
      BY <2>1, <2>2 DEF SlotInv, ChildHitInv
    <2>3. CASE p \in Children
      <3>1. Forks
        BY <2>3, ParameterFacts DEF HarnessInv, ForkInv
      <3>. QED  BY <2>1, <3>1
    <2>. QED  BY <1>1, <2>2, <2>3
  <1>4. ASSUME NEW t \in Threads, pc'[t] \in {"none", "fork"}
        PROVE  slot'[t].kcount = NotCounting
    BY <1>1, <1>4 DEF SlotInv, ChildHitInv
  <1>5. ASSUME Program' = "fork_thread", childHits' > 0
        PROVE  \E c \in Children : slot'[c].kcount # NotCounting
    <2>1. Program = "fork_thread" /\ HasSlots
      BY <1>5, TestStays DEF HasSlots
    <2>2. CASE childHits' = childHits
      <3>1. PICK c \in Children : slot[c].kcount # NotCounting
        BY <1>5, <2>1, <2>2 DEF SlotInv, ChildHitInv
      <3>2. slot'[c].kcount # NotCounting
        BY <1>1, <2>1, <3>1
      <3>. QED  BY <3>2
    <2>3. CASE childHits' # childHits
      <3>1. p \in Children /\ slot'[p].kcount # NotCounting
        BY <1>1, <2>1, <2>3
      <3>. QED  BY <3>1
    <2>. QED  BY <2>2, <2>3
  <1>6. ChildHitInv'
    BY <1>3, <1>4, <1>5 DEF ChildHitInv
  <1>. QED  BY <1>2, <1>6 DEF SlotInv

\* A hit, a store or a call without effect.
LEMMA CallSlots ==
  ASSUME HarnessInv, SlotInv, test' = test, NEW p \in Tasks,
         Hit(p) \/ Store(p) \/ Miss(p)
  PROVE  SlotInv'
  <1>0. /\ pc \in [Tasks -> {"none", "garbage", "fork", "call", "store", "return",
                             "say", "wait", "done", "zombie", "reaped"}]
        /\ slot \in [Tasks -> Slots(Tasks)] /\ childHits \in Nat
        /\ \A t \in Threads : t \notin Children
    BY HitsType, ParameterFacts DEF HarnessInv, TypeInv, TaskType
  <1>1. /\ waited' = waited /\ status' = status
        /\ \A q \in Tasks : q # p => pc'[q] = pc[q] /\ slot'[q] = slot[q]
        /\ pc[p] \in {"call", "store"} /\ pc'[p] \in {"store", "return"}
        /\ p \notin Children => childHits' = childHits
    BY <1>0 DEF Hit, Store, Miss, countVars
  <1>2. CASE p \notin Children
    BY <1>1, <1>2, OneSlot
  <1>3. CASE p \in Children
    <2>0. /\ ChildSlotInv(p) /\ HasSlots' = HasSlots
          /\ slot[p] \in Slots(Tasks)
          /\ slot[p].kcount \in ULong
      BY <1>0, <1>3, TestStays DEF SlotInv, Slots
    <2>1. CASE Hit(p)
      <3>1. pc[p] = "call" /\ pc'[p] = "store"
        BY <1>0, <2>1 DEF Hit
      <3>2. CASE HasSlots
        <4>1. slot[p].kcount = NotCounting
          BY <1>3, <3>1, <3>2, NotCounted
        <4>2. slot'[p] = HandlerCounts(Claimed(p), p)
          BY <1>0, <2>1, <3>2 DEF Hit
        <4>3. PICK s \in Slots(Tasks) : s = Claimed(p) /\ s.kcount = NotCounting
          BY <4>1, ClaimedType DEF HarnessInv
        <4>4. HandlerCounts(s, p).kcount = 0 /\ HandlerCounts(s, p).ucount = NotCounting
          BY <4>3, NotCountingFacts DEF HandlerCounts, Slots
        <4>5. slot'[p].kcount = 0 /\ slot'[p].ucount = NotCounting
          BY <4>2, <4>3, <4>4
        <4>6. ChildSlotInv(p)'
          BY <1>1, <2>0, <3>1, <4>5 DEF ChildSlotInv
        <4>. QED  BY <1>1, <3>1, <4>5, <4>6, <1>3, <1>0, NotCountingFacts, OneSlot
      <3>3. CASE ~ HasSlots
        <4>1. ChildSlotInv(p)'
          BY <1>1, <2>0, <3>1, <3>3 DEF ChildSlotInv
        <4>. QED  BY <1>0, <1>1, <1>3, <3>1, <3>3, <4>1, OneSlot
      <3>. QED  BY <3>2, <3>3
    <2>2. CASE Store(p)
      <3>1. /\ pc[p] = "store" /\ pc'[p] = "return" /\ slot' = slot
            /\ childHits' = childHits
        BY <1>0, <2>2 DEF Store
      <3>2. ChildSlotInv(p)'
        BY <1>1, <2>0, <3>1, TestStays DEF ChildSlotInv
      <3>. QED  BY <1>0, <1>1, <1>3, <3>1, <3>2, OneSlot
    <2>3. CASE Miss(p)
      <3>1. /\ pc[p] = "call" /\ pc'[p] = "return" /\ slot'[p] = Claimed(p)
            /\ childHits' = childHits
        BY <1>0, <2>3 DEF Miss, countVars
      <3>2. slot'[p].kcount = slot[p].kcount
        BY <3>1, ClaimedType DEF HarnessInv
      <3>3. HasSlots => slot'[p].kcount = NotCounting
        BY <1>3, <3>1, <3>2, NotCounted
      <3>4. ChildSlotInv(p)'
        BY <1>1, <2>0, <3>1, <3>3, TestStays DEF ChildSlotInv
      <3>. QED  BY <1>0, <1>1, <1>3, <3>1, <3>2, <3>4, OneSlot
    <2>. QED  BY <2>1, <2>2, <2>3
  <1>. QED  BY <1>2, <1>3

\* fork(): the child has a copy of a slot that is not counted.
LEMMA ForkSlots ==
  ASSUME HarnessInv, SlotInv, NEW t \in Threads, Fork(t) PROVE SlotInv'
  <1>0. /\ t \in Tasks /\ Child(t) \in Tasks /\ Child(t) \in Children /\ Child(t) # t
        /\ \A u \in Threads : u \in Tasks /\ u # Child(t)
        /\ \A c \in Children : c \in Tasks /\ c # t
        /\ pc \in [Tasks -> {"none", "garbage", "fork", "call", "store", "return",
                             "say", "wait", "done", "zombie", "reaped"}]
        /\ slot \in [Tasks -> Slots(Tasks)]
    <2>1. Child(t) \in Children
      BY ParameterFacts
    <2>2. Tasks = Threads \cup Children /\ Threads \cap Children = {}
      BY ParameterFacts
    <2>3. /\ pc \in [Tasks -> {"none", "garbage", "fork", "call", "store", "return",
                               "say", "wait", "done", "zombie", "reaped"}]
          /\ slot \in [Tasks -> Slots(Tasks)]
      BY DEF HarnessInv, TypeInv, TaskType
    <2>. QED  BY <2>1, <2>2, <2>3
  <1>1. /\ pc[t] = "fork" /\ pc'[t] = "call" /\ pc'[Child(t)] = "call"
        /\ slot'[Child(t)] = slot[t] /\ slot'[t] = slot[t]
        /\ \A q \in Tasks : q # t /\ q # Child(t) => pc'[q] = pc[q] /\ slot'[q] = slot[q]
        /\ test' = test /\ status' = status /\ waited' = waited
        /\ childHits' = childHits
    BY <1>0 DEF Fork, countVars
  <1>2. pc[Child(t)] = "none"
    BY <1>1 DEF HarnessInv, ForkInv
  <1>3. slot[t].kcount = NotCounting
    BY <1>1 DEF SlotInv, ChildHitInv
  <1>t. Forks' = Forks /\ Program' = Program /\ HasSlots' = HasSlots
    BY <1>1, TestStays
  <1>4. ASSUME NEW c \in Children PROVE ChildSlotInv(c)'
    <2>1. CASE c = Child(t)
      <3>1. status[c] = "none" /\ ChildSlotInv(c)
        BY <1>2, <2>1 DEF HarnessInv, ChildInv, SlotInv
      <3>2. slot'[c].kcount = NotCounting /\ pc'[c] = "call" /\ status'[c] = "none"
        BY <1>1, <1>3, <2>1, <3>1
      <3>. QED  BY <3>2 DEF ChildSlotInv
    <2>2. CASE c # Child(t)
      <3>1. pc[c] = "reaped" => status[c] # "none"
        BY DEF HarnessInv, ChildInv
      <3>. QED  BY <1>0, <1>1, <2>2, <3>1, ChildSlotStays DEF SlotInv
    <2>. QED  BY <2>1, <2>2
  <1>5. ASSUME NEW u \in Threads, pc'[u] \in {"none", "fork"}
        PROVE  slot'[u].kcount = NotCounting
    BY <1>0, <1>1, <1>5 DEF SlotInv, ChildHitInv
  <1>6. ASSUME Program' = "fork_thread", childHits' > 0
        PROVE  \E c \in Children : slot'[c].kcount # NotCounting
    <2>1. Program = "fork_thread" /\ HasSlots
      BY <1>6, <1>t DEF HasSlots
    <2>2. PICK c \in Children : slot[c].kcount # NotCounting
      BY <1>1, <1>6, <2>1 DEF SlotInv, ChildHitInv
    <2>3. c # Child(t)
      BY <1>0, <1>2, <2>1, <2>2, NotCounted
    <2>. QED  BY <1>0, <1>1, <2>2, <2>3
  <1>7. ~ Forks' => childHits' = 0
    BY <1>1, <1>t DEF SlotInv, ChildHitInv
  <1>. QED  BY <1>4, <1>5, <1>6, <1>7 DEF SlotInv, ChildHitInv

\* wait(): the thread gets the status of the child that goes.
LEMMA WaitSlots ==
  ASSUME HarnessInv, SlotInv, NEW t \in Threads, Wait(t) PROVE SlotInv'
  <1>0. /\ t \in Tasks /\ t \notin Children
        /\ \A u \in Threads : u \in Tasks /\ u \notin Children
        /\ \A c \in Children : c \in Tasks /\ c # t
        /\ pc \in [Tasks -> {"none", "garbage", "fork", "call", "store", "return",
                             "say", "wait", "done", "zombie", "reaped"}]
        /\ waited \in [Threads -> {"none", "exit0", "exit1", "signal"}]
    <2>1. Tasks = Threads \cup Children /\ Threads \cap Children = {}
      BY ParameterFacts
    <2>2. /\ pc \in [Tasks -> {"none", "garbage", "fork", "call", "store", "return",
                               "say", "wait", "done", "zombie", "reaped"}]
          /\ waited \in [Threads -> {"none", "exit0", "exit1", "signal"}]
      BY DEF HarnessInv, TypeInv, TaskType
    <2>. QED  BY <2>1, <2>2
  <1>1. /\ pc[t] = "wait" /\ test' = test /\ slot' = slot /\ status' = status
        /\ childHits' = childHits
    BY DEF Wait, countVars
  <1>2. waited[t] = "none"
    BY <1>1 DEF HarnessInv, ThreadInv
  <1>3. \A u \in Threads : u # t => waited'[u] = waited[u]
    BY <1>0 DEF Wait
  <1>4. \A u \in Threads : pc'[u] \in {"none", "fork"} => pc[u] \in {"none", "fork"}
    BY <1>0, <1>1 DEF Wait
  <1>5. ASSUME \A c \in Children : pc'[c] = pc[c] PROVE SlotInv'
    BY <1>1, <1>2, <1>3, <1>4, <1>5, SlotInvStays
  <1>6. ASSUME NEW c \in Children, pc[c] = "zombie",
               pc' = [pc EXCEPT ![c] = "reaped", ![t] = IF HasSlots THEN "call" ELSE "done"],
               waited' = [waited EXCEPT ![t] = status[c]]
        PROVE  SlotInv'
    <2>1. /\ pc'[c] = "reaped" /\ waited'[t] = status[c]
          /\ \A d \in Children : d # c => pc'[d] = pc[d]
      BY <1>0, <1>6
    <2>2. ASSUME NEW d \in Children PROVE ChildSlotInv(d)'
      <3>0. ChildSlotInv(d) /\ (pc[d] = "reaped" => status[d] # "none")
        BY DEF SlotInv, HarnessInv, ChildInv
      <3>1. CASE d = c
        <4>1. HasSlots' = HasSlots /\ Program' = Program
          BY <1>1, TestStays
        <4>. QED  BY <1>1, <1>6, <2>1, <3>0, <3>1, <4>1 DEF ChildSlotInv
      <3>2. CASE d # c
        <4>1. pc'[d] = pc[d]
          BY <2>1, <3>2
        <4>. QED  BY <1>1, <1>2, <1>3, <3>0, <4>1, ChildSlotStays
      <3>. QED  BY <3>1, <3>2
    <2>3. ChildHitInv'
      BY <1>1, <1>4, TestStays DEF SlotInv, ChildHitInv
    <2>. QED  BY <2>2, <2>3 DEF SlotInv
  <1>7. CASE \A c \in Children : pc[c] \in {"none", "reaped"}
    <2>1. \A c \in Children : pc[c] # "zombie"
      BY <1>7
    <2>2. pc' = [pc EXCEPT ![t] = "call"]
      BY <2>1 DEF Wait
    <2>3. \A c \in Children : pc'[c] = pc[c]
      BY <1>0, <2>2
    <2>. QED  BY <1>5, <2>3
  <1>. QED  BY <1>6, <1>7 DEF Wait

\* A child that has been counted sees it, and exits with 1.
LEMMA ChildReturnsSlots ==
  ASSUME HarnessInv, SlotInv, NEW c \in Children, ChildReturns(c) PROVE SlotInv'
  <1>0. /\ c \in Tasks /\ c \notin Threads
        /\ pc \in [Tasks -> {"none", "garbage", "fork", "call", "store", "return",
                             "say", "wait", "done", "zombie", "reaped"}]
        /\ slot \in [Tasks -> Slots(Tasks)] /\ slot[c] \in Slots(Tasks)
        /\ status \in [Children -> {"none", "exit0", "exit1", "signal"}]
    BY ParameterFacts DEF HarnessInv, TypeInv, TaskType
  <1>1. /\ pc[c] = "return" /\ test' = test /\ waited' = waited
        /\ childHits' = childHits
        /\ slot' = [slot EXCEPT ![c] = IF HasSlots THEN UserCounts(@) ELSE @]
        /\ pc' = [pc EXCEPT ![c] = IF ChildSeesProbe(c) \/ calls'[c] = Iters
                                   THEN "zombie" ELSE "call"]
        /\ status' = [status EXCEPT ![c] = IF ~ (ChildSeesProbe(c) \/ calls'[c] = Iters)
                                           THEN "none"
                                           ELSE IF ChildSeesProbe(c) THEN "exit1"
                                           ELSE "exit0"]
    BY DEF ChildReturns, Returns, countVars
  <1>2. /\ \A q \in Tasks : q # c => pc'[q] = pc[q] /\ slot'[q] = slot[q]
        /\ \A d \in Children : d # c => status'[d] = status[d]
        /\ pc'[c] \in {"zombie", "call"} /\ status'[c] # "signal"
        /\ HasSlots => slot'[c] = UserCounts(slot[c])
    BY <1>0, <1>1
  <1>3. slot'[c].kcount = slot[c].kcount
    <2>1. UserCounts(slot[c]).kcount = slot[c].kcount
      BY <1>0, SlotFacts
    <2>. QED  BY <1>0, <1>1, <2>1
  <1>4. ASSUME HasSlots, slot[c].kcount # NotCounting PROVE status'[c] = "exit1"
    <2>1. slot[c].kcount = 0 /\ slot[c].ucount = NotCounting
      <3>1. status[c] = "none"
        BY <1>1 DEF HarnessInv, ChildInv
      <3>. QED  BY <1>1, <1>4, <3>1 DEF SlotInv, ChildSlotInv
    <2>2. PICK s \in Slots(Tasks) : s = slot'[c] /\ s.kcount = 0 /\ s.ucount = 0
      <3>1. UserCounts(slot[c]) \in Slots(Tasks) /\ UserCounts(slot[c]).ucount = 0
            /\ UserCounts(slot[c]).kcount = 0
        BY <1>0, <2>1, SlotFacts, NotCountingFacts DEF UserCounts, Slots
      <3>. QED  BY <1>2, <1>4, <3>1
    <2>3. ProbeResult(slot'[c]) = 0
      BY <2>2, NotCountingFacts DEF ProbeResult
    <2>4. ChildSeesProbe(c)
      BY <1>4, <2>3 DEF ChildSeesProbe
    <2>. QED  BY <1>0, <1>1, <2>4
  <1>5. ChildSlotInv(c)'
    <2>1. HasSlots' = HasSlots
      BY <1>1, TestStays
    <2>. QED  BY <1>2, <1>3, <1>4, <2>1 DEF ChildSlotInv
  <1>. QED  BY <1>0, <1>1, <1>2, <1>3, <1>5, OneSlot

\* SlotInv is inductive.
LEMMA SlotInvStep == ASSUME HarnessInv, SlotInv, Next PROVE SlotInv'
  <1>0. /\ test' = test
        /\ pc \in [Tasks -> {"none", "garbage", "fork", "call", "store", "return",
                             "say", "wait", "done", "zombie", "reaped"}]
        /\ slot \in [Tasks -> Slots(Tasks)]
        /\ status \in [Children -> {"none", "exit0", "exit1", "signal"}]
        /\ Workers \in Nat /\ Workers <= NumThreads /\ created \in Nat
    <2>1. test \in Tests /\ Workers \in Nat /\ Workers <= NumThreads
      BY ProgramFacts DEF HarnessInv, TypeInv, TestType
    <2>2. created \in Nat
      BY <2>1 DEF HarnessInv, TypeInv, MainType
    <2>. QED  BY <2>1, <2>2, NextTest DEF HarnessInv, TypeInv, TaskType
  <1>a. /\ \A t \in Threads : t \in Tasks /\ t \notin Children
        /\ \A c \in Children : c \in Tasks /\ c \notin Threads
    BY ParameterFacts
  <1>1. CASE Script \/ Expect \/ UNCHANGED vars
    <2>1. UNCHANGED <<pc, slot, status, waited, childHits>>
      BY <1>1
      DEF Script, Check, Insmod, Continue, Kill, WaitForJob, vars, forkVars,
          countVars, taskVars, Expect, SeePassed, SeeEnd, RunByHand, SeeLine, EndMod,
          Compare, Rmmod
    <2>. QED  BY <1>0, <2>1, SlotInvStays
  <1>2. CASE Main
    <2>1. UNCHANGED <<slot, status, waited, childHits>>
      BY <1>2
      DEF Main, Stop, Create, CreateFails, SayPassed, Join, JoinCrashes, taskVars,
          countVars
    <2>2. created < Workers => created + 1 \in Threads
      BY <1>0, ParameterFacts
    <2>3. created < Workers => pc[created + 1] = "none"
      <3>1. created + 1 > created
        BY <1>0
      <3>. QED  BY <2>2, <3>1 DEF HarnessInv, MainInv
    <2>4. 1 \in Threads
      BY ParameterFacts
    <2>5. \A c \in Children : pc'[c] = pc[c]
      BY <1>0, <1>2, <1>a, <2>2, <2>4
      DEF Main, Stop, Create, CreateFails, SayPassed, Join, JoinCrashes, taskVars
    <2>6. \A t \in Threads : pc'[t] \in {"none", "fork"} => pc[t] \in {"none", "fork"}
      BY <1>0, <1>2, <1>a, <2>2, <2>3
      DEF Main, Stop, Create, CreateFails, SayPassed, Join, JoinCrashes, taskVars
    <2>. QED  BY <1>0, <2>1, <2>5, <2>6, SlotInvStays
  <1>3. ASSUME NEW p \in Tasks, Hit(p) \/ Store(p) \/ Miss(p) PROVE SlotInv'
    BY <1>0, <1>3, CallSlots
  <1>4. ASSUME NEW t \in Threads, ForkFails(t) \/ Oops(t) \/ Exits(t) PROVE SlotInv'
    <2>1. UNCHANGED <<slot, status, waited, childHits>>
      BY <1>4 DEF ForkFails, Oops, Exits, countVars
    <2>2. \A c \in Children : pc'[c] = pc[c]
      BY <1>0, <1>4, <1>a DEF ForkFails, Oops, Exits
    <2>3. \A u \in Threads : pc'[u] \in {"none", "fork"} => pc[u] \in {"none", "fork"}
      BY <1>0, <1>4, <1>a DEF ForkFails, Oops, Exits
    <2>. QED  BY <1>0, <2>1, <2>2, <2>3, SlotInvStays
  <1>5. ASSUME NEW t \in Threads, ParentReturns(t) PROVE SlotInv'
    <2>1. /\ UNCHANGED <<status, waited, childHits>>
          /\ \A q \in Tasks : q # t => pc'[q] = pc[q] /\ slot'[q] = slot[q]
          /\ pc'[t] \notin {"none", "fork"}
      BY <1>0, <1>5, <1>a DEF ParentReturns, Returns, countVars, AfterRound
    <2>. QED  BY <1>0, <1>a, <2>1, OneSlot
  <1>6. ASSUME NEW c \in Children, Trapped(c) PROVE SlotInv'
    <2>1. /\ UNCHANGED <<slot, waited, childHits>>
          /\ pc[c] = "call" /\ pc'[c] = "zombie" /\ status'[c] = "signal"
          /\ \A q \in Tasks : q # c => pc'[q] = pc[q]
          /\ \A d \in Children : d # c => status'[d] = status[d]
          /\ test.kernel = "traps"
      BY <1>0, <1>6, <1>a, EffectFacts DEF Trapped, countVars
    <2>2. HasSlots => slot[c].kcount = NotCounting
      BY <2>1, NotCounted
    <2>3. ChildSlotInv(c)'
      BY <1>0, <2>1, <2>2, TestStays DEF ChildSlotInv
    <2>. QED  BY <1>0, <1>a, <2>1, <2>3, OneSlot
  <1>. QED
    BY <1>1, <1>2, <1>3, <1>4, <1>5, <1>6, <1>a, ForkSlots, WaitSlots,
       ChildReturnsSlots
    DEF Next, Progress, Programs, Thread, ChildStep, Done, Hangs

-----------------------------------------------------------------------------
(* The lines of the log, and the hits. *)

\* What a step does to the log and to the number of hits.
LEMMA LogMoves ==
  ASSUME HarnessInv, Next
  PROVE  \/ log' = log /\ hits' = hits /\ (loaded' => loaded)
         \/ log' = <<Registration>> /\ hits' = hits /\ hits = 0
         \/ PrintsFirst /\ log' = Append(log, Called(0)) /\ hits' = hits + 1
                        /\ loaded' = loaded
         \/ ~ PrintsFirst /\ log' = log /\ hits' = hits + 1
         \/ PrintsLast /\ hits' = hits
                       /\ \E f \in {0, 1, 2} : log' = Append(log, Called(f))
         \/ log' = log \o Summaries(counter) /\ hits' = hits /\ loaded' = loaded
  <1>1. CASE Insmod
    <2>1. hits = 0
      BY <1>1 DEF Insmod, HarnessInv, ScriptInv
    <2>. QED  BY <1>1, <2>1 DEF Insmod
  <1>2. CASE Script /\ ~ Insmod
    BY <1>2
    DEF Script, Check, Continue, Kill, WaitForJob, countVars, forkVars, moduleVars
  <1>3. CASE EndMod
    BY <1>3 DEF EndMod
  <1>4. CASE (Expect /\ ~ EndMod) \/ UNCHANGED vars
    BY <1>4
    DEF Expect, SeePassed, SeeEnd, RunByHand, SeeLine, Compare, Rmmod, vars,
        countVars, forkVars, moduleVars
  <1>5. ASSUME ProgramStep, UNCHANGED countVars
        PROVE  log' = log /\ hits' = hits /\ loaded' = loaded
    BY <1>5, ProgramAttached DEF countVars
  <1>6. ASSUME NEW p \in Tasks, Hit(p), ProgramStep
        PROVE  /\ hits' = hits + 1 /\ loaded' = loaded
               /\ log' = IF PrintsFirst THEN Append(log, Called(0)) ELSE log
    BY <1>6, ProgramAttached DEF Hit
  <1>7. ASSUME NEW p \in Tasks, Store(p), ProgramStep
        PROVE  /\ hits' = hits /\ loaded' = loaded
               /\ log' = IF PrintsLast THEN Append(log, Called(Function(calls[p] + 1)))
                                       ELSE log
               /\ Function(calls[p] + 1) \in {0, 1, 2}
    <2>1. pc[p] = "store"
      BY <1>7 DEF Store
    <2>2. Function(calls[p] + 1) \in {0, 1, 2}
      BY <2>1, InCall DEF HarnessInv
    <2>. QED  BY <1>7, <2>2, ProgramAttached DEF Store
  <1>8. ASSUME NEW t \in Tasks, Exits(t)
        PROVE  log' = log /\ hits' = hits + 1 /\ ~ PrintsFirst
    <2>1. Negative
      BY <1>8, EffectFacts DEF Exits
    <2>. QED  BY <1>8, <2>1 DEF Exits, Negative, PrintsFirst
  <1>9. CASE ProgramStep
    <2>1. CASE Main
      <3>1. UNCHANGED countVars
        BY <2>1 DEF Main, Stop, Create, CreateFails, SayPassed, Join, JoinCrashes
      <3>. QED  BY <1>5, <1>9, <3>1
    <2>2. ASSUME NEW p \in Tasks, Hit(p) \/ Store(p) \/ Exits(p)
          PROVE  \/ log' = log /\ hits' = hits /\ (loaded' => loaded)
                 \/ PrintsFirst /\ log' = Append(log, Called(0)) /\ hits' = hits + 1
                                /\ loaded' = loaded
                 \/ ~ PrintsFirst /\ log' = log /\ hits' = hits + 1
                 \/ PrintsLast /\ hits' = hits
                               /\ \E f \in {0, 1, 2} : log' = Append(log, Called(f))
      BY <1>6, <1>7, <1>8, <1>9, <2>2
    <2>3. ASSUME NEW t \in Threads, Fork(t) \/ ForkFails(t) \/ Wait(t) \/ Miss(t)
                                    \/ Oops(t) \/ ParentReturns(t)
          PROVE  log' = log /\ hits' = hits /\ (loaded' => loaded)
      <3>1. UNCHANGED countVars
        BY <2>3 DEF Fork, ForkFails, Wait, Miss, Oops, ParentReturns, Returns
      <3>. QED  BY <1>5, <1>9, <3>1
    <2>4. ASSUME NEW c \in Children, Miss(c) \/ Trapped(c) \/ ChildReturns(c)
          PROVE  log' = log /\ hits' = hits /\ (loaded' => loaded)
      <3>1. UNCHANGED countVars
        BY <2>4 DEF Miss, Trapped, ChildReturns, Returns
      <3>. QED  BY <1>5, <1>9, <3>1
    <2>5. Tasks = Threads \cup Children
      BY ParameterFacts
    <2>. QED
      BY <1>9, <2>1, <2>2, <2>3, <2>4, <2>5
      DEF ProgramStep, Programs, Thread, ChildStep
  <1>. QED
    BY <1>1, <1>2, <1>3, <1>4, <1>9
    DEF Next, Progress, ProgramStep, Done, Hangs

\* Only the line of the last call of probeme6 is one of "adios".
LEMMA AdiosFacts ==
  /\ Adios # Reg
  /\ \A f : Called(f) # Adios
  /\ \A n : Summary(n) # Adios /\ Summary(n) # Called(0)
  /\ Reg # Called(0)
  BY DEF Adios, Reg, Called, Summary

\* A registration is none of the lines of the calls.
LEMMA RegistrationIsNoCall ==
  ASSUME test \in Tests
  PROVE  /\ Registration # Adios
         /\ \A f : Registration # Called(f)
         /\ \A n : Registration # Summary(n)
  BY RegistrationFacts DEF Adios, Called, Summary

\* Where the registration is as expected comparing changes none of the module's
\* lines.
LEMMA NormalisedLegal ==
  ASSUME ~ HasSlots, NEW n, NEW line, Legal(line, n)
  PROVE  Normalised(line) = line
  <1>1. line.text \in {"Registering", "called", "summary", "bye", "adios"}
    BY LastCallsFacts DEF Legal, Registration, Reg, Called, Summary
  <1>. QED  BY <1>1 DEF Normalised, HasSlots

\* It is in a summary once the last call has been counted.
LEMMA AdiosCounted ==
  ASSUME test \in Tests, NEW n \in Nat, NEW k \in 1 .. Len(Summaries(n)),
         Summaries(n)[k] = Adios
  PROVE  AllCalls <= n
  <1>1. k # 1
    BY SummariesFacts, AdiosFacts
  <1>2. Len(Summaries(n)) # 1
    BY <1>1
  <1>3. Program = "probeme6" /\ Len(Summaries(n)) = 3
    BY <1>2, SummariesFacts
  <1>4. k \in {2, 3}
    BY <1>1, <1>3
  <1>5. k = 3 /\ CallsOf(2, n) = 1
    <2>1. CASE k = 2
      <3>1. Summaries(n)[2] = [text |-> LastCalls[1], num |-> CallsOf(1, n)]
        <4>1. 2 = 1 + 1 /\ 1 \in {1, 2}
          OBVIOUS
        <4>. QED  BY <1>3, <4>1, SummariesFacts
      <3>. QED  BY <2>1, <3>1, LastCallsFacts DEF Adios
    <2>2. CASE k = 3
      <3>1. Summaries(n)[3] = [text |-> LastCalls[2], num |-> CallsOf(2, n)]
        <4>1. 3 = 1 + 2 /\ 2 \in {1, 2}
          OBVIOUS
        <4>. QED  BY <1>3, <4>1, SummariesFacts
      <3>. QED  BY <2>2, <3>1 DEF Adios
    <2>. QED  BY <1>4, <2>1, <2>2
  <1>6. PICK i \in 1 .. n : Function(i) = 2
    <2>. DEFINE S == {i \in 1 .. n : Function(i) = 2}
    <2>1. Cardinality(S) = 1
      BY <1>5 DEF CallsOf
    <2>2. S = {} \/ \E i \in 1 .. n : Function(i) = 2
      OBVIOUS
    <2>4. IsFiniteSet(S)
      <3>1. IsFiniteSet(1 .. n) /\ S \subseteq 1 .. n
        BY FS_Interval
      <3>. QED  BY <3>1, FS_Subset
    <2>. HIDE DEF S
    <2>3. S # {}
      <3>1. Cardinality(S) = 0 <=> S = {}
        BY <2>4, FS_EmptySet
      <3>. QED  BY <2>1, <3>1
    <2>. QED  BY <2>2, <2>3
  <1>7. i - Iters = 2
    BY <1>6 DEF Function
  <1>8. AllCalls = Iters + 2
    BY <1>3, LastCallsFacts DEF AllCalls, Probeme6
  <1>. QED  BY <1>6, <1>7, <1>8, ParameterFacts

\* PrintInv is inductive.
LEMMA PrintInvStep == ASSUME HarnessInv, PrintInv, Next PROVE PrintInv'
  <1>0. /\ test' = test /\ test \in Tests /\ hits \in Nat /\ counter \in Nat
        /\ log \in Seq(Line) /\ AllCalls \in Nat /\ counter <= hits
    <2>1. /\ test \in Tests /\ hits \in Nat /\ counter \in ULong /\ log \in Seq(Line)
          /\ counter <= hits
      BY DEF HarnessInv, TypeInv, TestType, CountType, CountInv
    <2>. QED  BY <2>1, NextTest, ProgramFacts, WidthFacts DEF ULong
  <1>t. AllCalls' = AllCalls /\ Program' = Program
    BY <1>0, TestStays
  <1>s. stale' = stale
    <2>1. CASE ProgramStep
      BY <2>1, ProgramAttached
    <2>2. CASE ~ ProgramStep
      BY <2>2
      DEF Next, Progress, ProgramStep, Script, Check, Insmod, Continue, Kill,
          WaitForJob, Expect, SeePassed, SeeEnd, RunByHand, SeeLine, EndMod, Compare,
          Rmmod, Done, Hangs, vars
    <2>. QED  BY <2>1, <2>2
  <1>d. DOMAIN log = 1 .. Len(log) /\ Len(log) \in Nat
    BY <1>0, LenProperties
  <1>f. IsFiniteSet(CalledLines) /\ Cardinality(CalledLines) \in Nat
    <2>1. IsFiniteSet(1 .. Len(log))
      BY <1>d, FS_Interval
    <2>2. CalledLines \subseteq 1 .. Len(log)
      BY <1>d DEF CalledLines
    <2>. QED  BY <2>1, <2>2, FS_Subset, FS_CardinalityType
  <1>1. ASSUME log' = log, hits' = hits \/ (hits' = hits + 1 /\ ~ PrintsFirst),
               hits' = hits => (loaded' => loaded)
        PROVE  PrintInv'
    <2>1. CalledLines' = CalledLines
      BY <1>1 DEF CalledLines
    <2>. QED  BY <1>0, <1>1, <1>s, <1>t, <2>1 DEF PrintInv, PrintsFirst
  <1>2. CASE log' = <<Registration>> /\ hits' = hits /\ hits = 0
    <2>1. \A i \in DOMAIN log' : log'[i] = Registration
      BY <1>2
    <2>2. CalledLines' = {} /\ \A i \in DOMAIN log' : log'[i] # Adios
      BY <1>0, <2>1, RegistrationIsNoCall DEF CalledLines
    <2>3. Cardinality(CalledLines') = 0
      BY <2>2, FS_EmptySet
    <2>. QED  BY <1>2, <2>2, <2>3 DEF PrintInv
  <1>3. ASSUME NEW f \in {0, 1, 2}, log' = Append(log, Called(f)),
               (f = 0 /\ hits' = hits + 1 /\ loaded' = loaded)
                 \/ (hits' = hits /\ PrintsLast)
        PROVE  PrintInv'
    <2>1. /\ DOMAIN log' = 1 .. (Len(log) + 1)
          /\ log'[Len(log) + 1] = Called(f)
          /\ \A i \in DOMAIN log : log'[i] = log[i]
      <3>1. Called(f) \in Line
        BY LineFacts
      <3>. QED  BY <1>0, <1>3, <1>d, <3>1, AppendProperties
    <2>2. \A i \in DOMAIN log' : i = Len(log) + 1 \/ i \in DOMAIN log
      BY <1>d, <2>1
    <2>3. \A i \in DOMAIN log' : log'[i] = Adios => AllCalls <= hits'
      BY <1>0, <1>3, <2>1, <2>2, AdiosFacts DEF PrintInv
    <2>4. ASSUME Program = "probe8-fork", loaded', ~ stale
          PROVE  hits' <= Cardinality(CalledLines')
      <3>1. f = 0 /\ hits' = hits + 1 /\ loaded
        BY <1>3, <2>4 DEF PrintsLast
      <3>2. CalledLines' = CalledLines \cup {Len(log) + 1}
        BY <1>d, <2>1, <2>2, <3>1 DEF CalledLines
      <3>3. Len(log) + 1 \notin CalledLines
        BY <1>d DEF CalledLines
      <3>4. Cardinality(CalledLines') = Cardinality(CalledLines) + 1
        BY <1>f, <3>2, <3>3, FS_AddElement
      <3>5. hits <= Cardinality(CalledLines)
        BY <2>4, <3>1 DEF PrintInv
      <3>. QED  BY <1>0, <1>f, <3>1, <3>4, <3>5
    <2>. QED  BY <1>s, <1>t, <2>3, <2>4 DEF PrintInv
  <1>4. CASE log' = log \o Summaries(counter) /\ hits' = hits /\ loaded' = loaded
    <2>. DEFINE s == Summaries(counter)
    <2>1. s \in Seq(Line) /\ Len(s) \in Nat
      BY <1>0, SummariesFacts, LenProperties
    <2>2. ASSUME NEW k \in 1 .. Len(s), s[k] = Adios PROVE AllCalls <= hits
      <3>1. AllCalls <= counter
        BY <1>0, <2>2, AdiosCounted
      <3>. QED  BY <1>0, <3>1
    <2>. HIDE DEF s
    <2>3. /\ DOMAIN log' = 1 .. (Len(log) + Len(s))
          /\ \A i \in 1 .. Len(log) : log'[i] = log[i]
          /\ \A i \in DOMAIN log' : i > Len(log) => log'[i] = s[i - Len(log)]
      <3>1. log' = log \o s
        BY <1>4 DEF s
      <3>. QED  BY <1>0, <1>d, <2>1, <3>1, ConcatProperties
    <2>4. ASSUME NEW i \in DOMAIN log', log'[i] = Adios PROVE AllCalls <= hits
      <3>1. CASE i \in DOMAIN log
        BY <1>d, <2>3, <2>4, <3>1 DEF PrintInv
      <3>2. CASE i \notin DOMAIN log
        <4>1. i > Len(log) /\ i - Len(log) \in 1 .. Len(s)
          BY <1>d, <2>1, <2>3, <3>2
        <4>. QED  BY <2>2, <2>3, <2>4, <4>1
      <3>. QED  BY <3>1, <3>2
    <2>5. CalledLines \subseteq CalledLines' /\ IsFiniteSet(CalledLines')
      <3>1. CalledLines' \subseteq 1 .. (Len(log) + Len(s))
        BY <2>3 DEF CalledLines
      <3>2. IsFiniteSet(1 .. (Len(log) + Len(s)))
        BY <1>d, <2>1, FS_Interval
      <3>3. CalledLines \subseteq CalledLines'
        BY <1>d, <2>1, <2>3 DEF CalledLines
      <3>. QED  BY <3>1, <3>2, <3>3, FS_Subset
    <2>6. Cardinality(CalledLines) <= Cardinality(CalledLines')
          /\ Cardinality(CalledLines') \in Nat
      BY <2>5, FS_Subset, FS_CardinalityType
    <2>. QED  BY <1>0, <1>4, <1>f, <1>s, <1>t, <2>4, <2>6 DEF PrintInv
  <1>. QED
    BY <1>0, <1>1, <1>2, <1>3, <1>4, LogMoves DEF PrintsFirst, PrintsLast

-----------------------------------------------------------------------------
(* What a comparison that finds no difference shows. *)

\* The log's lines are lines of the expected file, no two are the same one, and
\* the last of the expected file is among them; so there is a log.
LEMMA SameFacts ==
  ASSUME test \in Tests, log \in Seq(Line), Diff(Results, Expected) = "same"
  PROVE  /\ loaded
         /\ \E i \in DOMAIN log : Normalised(log[i]) = Expected[Len(Expected)]
         /\ \E f \in [DOMAIN log -> DOMAIN Expected] :
              /\ \A i \in DOMAIN log : Normalised(log[i]) = Expected[f[i]]
              /\ \A i, j \in DOMAIN log : i < j => f[i] < f[j]
  <1>1. /\ Expected \in Seq(ExpectedLine) /\ Expected # <<>>
        /\ Results \in Seq(Line)
    BY ExpectedFacts, ResultsType
  <1>2. IsSubsequence(Results, Expected) /\ ~ IsSubsequence(Results, Front(Expected))
    BY <1>1, DiffDecides
  <1>3. PICK f \in [DOMAIN Results -> DOMAIN Expected] :
          /\ \A i \in DOMAIN Results : Results[i] = Expected[f[i]]
          /\ \A i, j \in DOMAIN Results : i < j => f[i] < f[j]
    BY <1>2 DEF IsSubsequence
  <1>4. loaded
    <2>1. SUFFICES ASSUME ~ loaded PROVE FALSE
      OBVIOUS
    <2>2. Results = <<[text |-> "NoSuchFile", num |-> 0]>>
      BY <2>1 DEF Results
    <2>3. 1 \in DOMAIN Results /\ Results[1].text = "NoSuchFile"
      BY <2>2
    <2>4. f[1] \in DOMAIN Expected /\ Expected[f[1]].text = "NoSuchFile"
      BY <1>3, <2>3
    <2>5. Expected[f[1]] \in ExpectedLine
      BY <1>1, <2>4
    <2>. QED  BY <2>4, <2>5 DEF ExpectedLine
  <1>5. Results = [i \in DOMAIN log |-> Normalised(log[i])]
    BY <1>4 DEF Results
  <1>6. /\ DOMAIN Results = DOMAIN log
        /\ \A i \in DOMAIN log : Results[i] = Normalised(log[i])
    BY <1>5
  <1>7. \E i \in DOMAIN Results : f[i] = Len(Expected)
    <2>1. SUFFICES ASSUME \A i \in DOMAIN Results : f[i] # Len(Expected)
                   PROVE  FALSE
      OBVIOUS
    <2>2. Len(Expected) \in Nat /\ Len(Expected) > 0
          /\ DOMAIN Expected = 1 .. Len(Expected)
      BY <1>1, LenProperties, EmptySeq
    <2>3. /\ DOMAIN Front(Expected) = 1 .. (Len(Expected) - 1)
          /\ \A n \in 1 .. (Len(Expected) - 1) : Front(Expected)[n] = Expected[n]
      BY <1>1, <2>2 DEF Front
    <2>4. \A i \in DOMAIN Results : f[i] \in 1 .. (Len(Expected) - 1)
      BY <1>3, <2>1, <2>2
    <2>5. f \in [DOMAIN Results -> DOMAIN Front(Expected)]
      BY <1>3, <2>3, <2>4
    <2>6. \A i \in DOMAIN Results : Results[i] = Front(Expected)[f[i]]
      BY <1>3, <2>3, <2>4
    <2>7. IsSubsequence(Results, Front(Expected))
      BY <1>3, <2>5, <2>6 DEF IsSubsequence
    <2>. QED  BY <1>2, <2>7
  <1>. QED  BY <1>3, <1>4, <1>6, <1>7

\* All calls are of add(), but for the last two of probeme6.
LEMMA CallsOfAdd ==
  ASSUME NEW n \in Nat, ~ Probeme6 PROVE CallsOf(0, n) = n
  <1>1. {i \in 1 .. n : Function(i) = 0} = 1 .. n
    BY DEF Function
  <1>2. Cardinality(1 .. n) = n
    BY FS_Interval
  <1>. QED  BY <1>1, <1>2 DEF CallsOf

\* The last function of probeme6 is called once.
LEMMA CallsOfAdios ==
  ASSUME Probeme6 PROVE CallsOf(2, Iters + 2) = 1
  <1>. DEFINE S == {i \in 1 .. (Iters + 2) : Function(i) = 2}
  <1>1. S = {Iters + 2}
    BY ParameterFacts DEF Function
  <1>2. Cardinality({Iters + 2}) = 1
    BY FS_Singleton
  <1>3. Cardinality(S) = 1
    BY <1>1, <1>2
  <1>. QED  BY <1>3 DEF CallsOf

\* The last line that is expected.
LEMMA LastExpected ==
  ASSUME test \in Tests
  PROVE  /\ Program = "probe7-thread" => Expected[Len(Expected)] = Summary(2 * Iters)
         /\ Program = "probeme6" => Expected[Len(Expected)] = Adios
  <1>1. ParentCalls \in Nat
    BY ParentCallsType
  <1>2. /\ Summaries(ParentCalls) \in Seq(Line) /\ Len(Summaries(ParentCalls)) > 0
        /\ Len(Summaries(ParentCalls)) \in Nat
        /\ ExpectedCalls \in Seq(Line) /\ Len(ExpectedCalls) \in Nat
    BY <1>1, SummariesFacts, ExpectedCallsFacts, LenProperties
  <1>3. ASSUME Expected = ExpectedCalls \o Summaries(ParentCalls)
        PROVE  Expected[Len(Expected)] =
                 Summaries(ParentCalls)[Len(Summaries(ParentCalls))]
    <2>1. Len(Expected) = Len(ExpectedCalls) + Len(Summaries(ParentCalls))
      BY <1>2, <1>3, ConcatProperties
    <2>2. Len(Expected) > Len(ExpectedCalls)
          /\ Len(Expected) - Len(ExpectedCalls) = Len(Summaries(ParentCalls))
      BY <1>2, <2>1
    <2>. QED  BY <1>2, <1>3, <2>1, <2>2, ConcatProperties
  <1>4. ASSUME Program = "probe7-thread"
        PROVE  Expected[Len(Expected)] = Summary(2 * Iters)
    <2>1. /\ Expected = ExpectedCalls \o Summaries(ParentCalls)
          /\ ParentCalls = 2 * Iters /\ ~ Probeme6
      BY <1>4 DEF Expected, Negative, ParentCalls, AllCalls, Probeme6
    <2>2. Len(Summaries(ParentCalls)) = 1
          /\ Summaries(ParentCalls)[1] = Summary(CallsOf(0, ParentCalls))
      BY <1>1, <1>4, SummariesFacts
    <2>3. CallsOf(0, ParentCalls) = ParentCalls
      BY <1>1, <2>1, CallsOfAdd
    <2>. QED  BY <1>3, <2>1, <2>2, <2>3
  <1>5. ASSUME Program = "probeme6" PROVE Expected[Len(Expected)] = Adios
    <2>1. /\ Expected = ExpectedCalls \o Summaries(ParentCalls)
          /\ ParentCalls = Iters + 2 /\ Probeme6
      BY <1>5, LastCallsFacts
      DEF Expected, Negative, ParentCalls, AllCalls, Probeme6
    <2>2. Len(Summaries(ParentCalls)) = 3
      BY <1>1, <1>5, SummariesFacts
    <2>3. Summaries(ParentCalls)[3] =
            [text |-> LastCalls[2], num |-> CallsOf(2, ParentCalls)]
      <3>1. 3 = 1 + 2 /\ 2 \in {1, 2}
        OBVIOUS
      <3>. QED  BY <1>1, <1>5, <3>1, SummariesFacts
    <2>4. CallsOf(2, ParentCalls) = 1
      BY <2>1, CallsOfAdios
    <2>. QED  BY <1>3, <2>1, <2>2, <2>3, <2>4, LastCallsFacts DEF Adios
  <1>. QED  BY <1>4, <1>5

\* A log of probe8-fork that passes has no more lines of calls than main() has
\* calls to make.
LEMMA CalledLinesFit ==
  ASSUME test \in Tests, log \in Seq(Line), Program = "probe8-fork",
         Diff(Results, Expected) = "same"
  PROVE  Cardinality(CalledLines) \in Nat /\ Cardinality(CalledLines) <= Iters
  <1>1. PICK f \in [DOMAIN log -> DOMAIN Expected] :
          /\ \A i \in DOMAIN log : Normalised(log[i]) = Expected[f[i]]
          /\ \A i, j \in DOMAIN log : i < j => f[i] < f[j]
    BY SameFacts
  <1>2. /\ DOMAIN log = 1 .. Len(log) /\ Len(log) \in Nat
        /\ Iters \in Nat /\ ParentCalls = Iters
    <2>1. ParentCalls = Iters
      BY DEF ParentCalls, Negative
    <2>. QED  BY <2>1, LenProperties, ParameterFacts
  <1>3. \A i \in CalledLines : Normalised(log[i]) = Called(0)
    BY DEF Normalised, CalledLines, Called
  <1>4. ASSUME NEW n \in DOMAIN Expected, Expected[n] = Called(0)
        PROVE  n \in 2 .. (Iters + 1)
    <2>1. /\ Expected = ExpectedCalls \o Summaries(Iters)
          /\ ExpectedCalls \in Seq(Line) /\ Len(ExpectedCalls) = Iters + 1
          /\ ExpectedCalls[1] = Reg
      BY <1>2, ExpectedCallsFacts DEF Expected, Negative, PrintsFirst
    <2>2. /\ Summaries(Iters) \in Seq(Line) /\ Len(Summaries(Iters)) = 1
          /\ Summaries(Iters)[1] = Summary(CallsOf(0, Iters))
      BY <1>2, SummariesFacts
    <2>3. Len(Expected) = Iters + 2 /\ DOMAIN Expected = 1 .. Len(Expected)
      <3>1. /\ ExpectedCalls \o Summaries(Iters) \in Seq(Line)
            /\ Len(ExpectedCalls \o Summaries(Iters)) =
                 Len(ExpectedCalls) + Len(Summaries(Iters))
        BY <2>1, <2>2, ConcatProperties
      <3>2. Len(Expected) = Iters + 2
        BY <1>2, <2>1, <2>2, <3>1
      <3>. QED  BY <1>2, <2>1, <2>2, <3>1, <3>2, LenProperties
    <2>4. Expected[1] = Reg
      BY <1>2, <2>1, <2>2, ConcatProperties
    <2>5. Expected[Iters + 2] = Summary(CallsOf(0, Iters))
      <3>1. Iters + 2 > Len(ExpectedCalls) /\ (Iters + 2) - Len(ExpectedCalls) = 1
        BY <1>2, <2>1
      <3>. QED  BY <1>2, <2>1, <2>2, <3>1, ConcatProperties
    <2>6. n # 1 /\ n # Iters + 2
      BY <1>4, <2>4, <2>5, AdiosFacts
    <2>7. n \in 1 .. (Iters + 2)
      BY <2>3
    <2>. QED  BY <1>2, <2>6, <2>7
  <1>5. \A i \in CalledLines : i \in DOMAIN log /\ f[i] \in 2 .. (Iters + 1)
    BY <1>1, <1>3, <1>4 DEF CalledLines
  <1>. DEFINE g == [i \in CalledLines |-> f[i]]
  <1>6. g \in Injection(CalledLines, 2 .. (Iters + 1))
    <2>1. g \in [CalledLines -> 2 .. (Iters + 1)]
      BY <1>5
    <2>2. ASSUME NEW i \in CalledLines, NEW j \in CalledLines, g[i] = g[j]
          PROVE  i = j
      <3>1. /\ i \in Nat /\ j \in Nat /\ f[i] = f[j]
            /\ i < j => f[i] < f[j]
            /\ j < i => f[j] < f[i]
        BY <1>1, <1>2, <1>5, <2>2
      <3>2. f[i] \in Nat /\ f[j] \in Nat
        BY <1>2, <1>5
      <3>. QED  BY <3>1, <3>2
    <2>. HIDE DEF g
    <2>3. \A i, j \in CalledLines : g[i] = g[j] => i = j
      BY <2>2
    <2>. QED  BY <2>1, <2>3 DEF Injection, IsInjective
  <1>7. IsFiniteSet(2 .. (Iters + 1)) /\ Cardinality(2 .. (Iters + 1)) = Iters
    <2>1. 2 \in Int /\ Iters + 1 \in Int /\ (2 <= Iters + 1)
      BY <1>2, ParameterFacts
    <2>2. Cardinality(2 .. (Iters + 1)) = (Iters + 1) - 2 + 1
      BY <2>1, FS_Interval
    <2>. QED  BY <1>2, <2>1, <2>2, FS_Interval
  <1>. HIDE DEF g
  <1>. QED  BY <1>6, <1>7, FS_Injection, FS_CardinalityType

-----------------------------------------------------------------------------
(* What the calls and the children of a program that has passed have come to. *)

\* The threads that main() has joined.
LEMMA PassedThreads ==
  ASSUME HarnessInv, proc = "passed", ~ Probeme6, NEW t \in Threads
  PROVE  /\ t <= Workers => pc[t] \in {"done", "garbage"} /\ result[t] = 0
         /\ t > Workers => pc[t] = "none"
         /\ pc[t] = "garbage" => Program = "probe7-thread"
  <1>1. joined = Workers /\ created = Workers /\ Workers \in Nat
    <2>1. test \in Tests /\ created \in 0 .. Workers /\ joined \in 0 .. created
      BY DEF HarnessInv, TypeInv, TestType, MainType
    <2>2. joined = Workers
      BY DEF HarnessInv, MainInv
    <2>3. Workers \in Nat
      BY <2>1, ProgramFacts
    <2>. QED  BY <2>1, <2>2, <2>3
  <1>. QED  BY <1>1 DEF HarnessInv, MainInv, ThreadInv

\* Of the children of a program that has passed all that wait() has not found have
\* not been forked, and none of those that it has found had failed.
LEMMA PassedChildren ==
  ASSUME HarnessInv, SlotInv, proc = "passed", Program \in ForkPrograms,
         NEW c \in Children
  PROVE  /\ \/ pc[c] = "none"
            \/ pc[c] = "reaped" /\ status[c] = "exit0"
            \/ pc[c] = "reaped" /\ status[c] = "signal" /\ Program = "fork_thread"
                                /\ test.kernel = "traps"
         /\ status[c] # "exit1"
  <1>1. pc[c] \in {"none", "reaped"}
    BY PassedHasWaited DEF Unreaped
  <1>2. CASE pc[c] = "none"
    BY <1>2 DEF HarnessInv, ChildInv
  <1>3. CASE pc[c] = "reaped"
    <2>1. /\ status[c] \in {"exit0", "exit1", "signal"}
          /\ status[c] = "signal" => test.kernel = "traps"
          /\ \E t \in Threads : waited[t] = status[c]
      <3>1. status[c] \in {"none", "exit0", "exit1", "signal"}
        BY DEF HarnessInv, TypeInv, TaskType
      <3>2. status[c] # "none"
        BY <1>3 DEF HarnessInv, ChildInv
      <3>. QED  BY <1>3, <3>1, <3>2 DEF SlotInv, ChildSlotInv
    <2>2. PICK t \in Threads : waited[t] = status[c]
      BY <2>1
    <2>3. ~ Probeme6
      BY DEF ForkPrograms, Probeme6
    <2>4. pc[t] \in {"done", "none"} /\ (pc[t] = "done" => result[t] = 0)
      <3>1. t \in Nat /\ Workers \in Nat
        BY ParameterFacts, ProgramFacts DEF HarnessInv, TypeInv, TestType
      <3>2. t <= Workers \/ t > Workers
        BY <3>1
      <3>. QED  BY <2>3, <3>2, PassedThreads DEF ForkPrograms
    <2>5. pc[t] = "done" /\ StatusOf(waited[t]) = 0
      BY <2>1, <2>2, <2>4 DEF HarnessInv, ThreadInv
    <2>. QED  BY <1>3, <2>1, <2>2, <2>5 DEF StatusOf, HasSlots, ForkPrograms
  <1>. QED  BY <1>1, <1>2, <1>3

\* A program that does not fork has no children.
LEMMA NoChildren ==
  ASSUME HarnessInv, ~ Forks PROVE \A c \in Children : pc[c] = "none"
  BY ParameterFacts DEF HarnessInv, ForkInv

\* The calls of w threads that have made n each.
LEMMA MadeAll ==
  ASSUME HarnessInv, NEW w \in 1 .. NumThreads, NEW n \in 0 .. AllCalls,
         \A t \in Threads : Made(t) <= IF t <= w THEN n ELSE 0
  PROVE  /\ Cardinality(MadeSet) <= w * n
         /\ (\A t \in Threads : t <= w => Made(t) = n) => Cardinality(MadeSet) = w * n
  <1>0. AllCalls \in Nat /\ NumThreads \in Nat /\ Threads = 1 .. NumThreads
        /\ w \in Nat /\ n \in Nat /\ n <= AllCalls
    BY MadeType, ParameterFacts, ProgramFacts DEF HarnessInv, TypeInv, TestType
  <1>1. \A t \in Threads : Made(t) \in Nat
    BY MadeType
  <1>. DEFINE B == (1 .. w) \X (1 .. n)
  <1>2. IsFiniteSet(B) /\ Cardinality(B) = w * n
    <2>1. IsFiniteSet(1 .. w) /\ Cardinality(1 .. w) = w
      BY <1>0, FS_Interval
    <2>2. IsFiniteSet(1 .. n) /\ Cardinality(1 .. n) = n
      BY <1>0, FS_Interval
    <2>. QED  BY <2>1, <2>2, FS_Product
  <1>3. MadeSet \subseteq B
    <2>1. ASSUME NEW t \in Threads, NEW k \in 1 .. AllCalls, k <= Made(t)
          PROVE  t \in 1 .. w /\ k \in 1 .. n
      BY <1>0, <1>1, <2>1
    <2>. QED  BY <2>1 DEF MadeSet
  <1>4. Cardinality(MadeSet) <= w * n
    BY <1>2, <1>3, FS_Subset
  <1>5. ASSUME \A t \in Threads : t <= w => Made(t) = n PROVE MadeSet = B
    <2>1. ASSUME NEW t \in 1 .. w, NEW k \in 1 .. n
          PROVE  t \in Threads /\ k \in 1 .. AllCalls /\ k <= Made(t)
      BY <1>0, <1>5, <2>1
    <2>2. B \subseteq MadeSet
      BY <2>1 DEF MadeSet
    <2>. QED  BY <1>3, <2>2
  <1>. QED  BY <1>2, <1>4, <1>5

\* No thread that has not been created has made a call.
LEMMA MadeNone ==
  ASSUME HarnessInv, NEW t \in Threads, t > Workers PROVE Made(t) = 0
  <1>1. t > created
    <2>1. created \in 0 .. Workers /\ Workers \in Nat /\ t \in Nat
      BY ProgramFacts, ParameterFacts DEF HarnessInv, TypeInv, TestType, MainType
    <2>. QED  BY <2>1
  <1>2. pc[t] = "none" /\ calls[t] = 0
    BY <1>1 DEF HarnessInv, MainInv, ThreadInv
  <1>. QED  BY <1>2 DEF Made

-----------------------------------------------------------------------------
(* The verdict. *)

\* The tests of two threads, and of probeme6: as many hits as the last line says,
\* and no more than there are calls.
LEMMA SinglePass ==
  ASSUME HarnessInv, PassInv, Program \in {"probe7-thread", "probeme6"},
         attached, Diff(Results, Expected) = "same"
  PROVE  PassFacts
  <1>0. /\ test \in Tests /\ log \in Seq(Line) /\ hits \in Nat /\ AllCalls \in Nat
        /\ Iters \in Nat /\ NumThreads \in Nat /\ NumThreads > 0
        /\ AllCalls > Iters
    BY ParameterFacts, ProgramFacts DEF HarnessInv, TypeInv, TestType, CountType
  <1>1. ~ Forks /\ ~ HasSlots /\ ~ Negative /\ ~ ByHand
    BY DEF Forks, HasSlots, Negative, ByHand
  <1>2. childHits = 0 /\ hits = Cardinality(MadeSet)
    <2>1. childHits = 0 /\ hits = childHits + Cardinality(MadeSet)
      BY <1>1 DEF PassInv, ChildHitInv, ParentHits
    <2>. QED  BY <2>1, HitsType
  <1>3. PICK i \in DOMAIN log : Normalised(log[i]) = Expected[Len(Expected)]
    BY <1>0, SameFacts
  <1>4. log[i] = Expected[Len(Expected)] /\ Legal(log[i], hits)
    <2>1. Legal(log[i], hits)
      BY DEF HarnessInv, LinesInv
    <2>. QED  BY <1>1, <1>3, <2>1, NormalisedLegal
  <1>5. CASE Program = "probe7-thread"
    <2>1. AllCalls = 2 * Iters /\ ParentCalls = 2 * Iters /\ Workers = 2
          /\ ~ Probeme6
      BY <1>5 DEF AllCalls, ParentCalls, Probeme6, Negative, Workers, Single
    <2>2. 2 * Iters <= hits
      <3>1. log[i] = Summary(2 * Iters)
        BY <1>0, <1>4, <1>5, LastExpected
      <3>2. log[i] \in {Reg, Called(0)} \cup {Summary(k) : k \in 0 .. hits}
        BY <1>1, <1>4, <1>5 DEF Legal, PrintsLast, Registration
      <3>3. log[i] # Reg /\ log[i] # Called(0)
        BY <3>1 DEF Summary, Reg, Called
      <3>4. PICK k \in 0 .. hits : log[i] = Summary(k)
        BY <3>2, <3>3
      <3>5. k = 2 * Iters
        BY <3>1, <3>4 DEF Summary
      <3>. QED  BY <1>0, <3>5
    <2>3. Cardinality(MadeSet) <= 2 * Iters
      <3>1. ASSUME NEW t \in Threads
            PROVE  Made(t) <= IF t <= 2 THEN Iters ELSE 0
        <4>1. CASE t > 2
          <5>1. Made(t) = 0
            BY <2>1, <4>1, MadeNone
          <5>. QED  BY <4>1, <5>1, ParameterFacts
        <4>2. CASE t <= 2
          <5>1. Made(t) <= Iters
            <6>1. calls[t] \in Nat /\ t \in Tasks
              BY MadeType, ParameterFacts
            <6>2. pc[t] \in {"none", "garbage", "fork", "call", "store", "return", "say",
                             "wait", "done"}
              BY <6>1 DEF HarnessInv, TypeInv, TaskType
            <6>3. pc[t] \in {"call", "store", "return"} => calls[t] < Iters
              BY <1>5 DEF HarnessInv, ThreadInv
            <6>4. pc[t] \notin {"call", "store", "return"} => calls[t] <= Iters
              <7>1. ThreadInv(t)
                BY DEF HarnessInv
              <7>2. result[t] = 0 /\ pc[t] \notin {"fork", "wait"}
                BY <1>1, <7>1 DEF ThreadInv
              <7>3. pc[t] # "say"
                BY <2>1, <7>1 DEF ThreadInv
              <7>4. pc[t] \in {"none", "garbage"} => calls[t] = 0
                BY <7>1 DEF ThreadInv
              <7>5. pc[t] = "done" => calls[t] = Iters
                BY <1>5, <7>1, <7>2 DEF ThreadInv
              <7>. QED  BY <1>0, <6>1, <6>2, <7>2, <7>3, <7>4, <7>5
            <6>. QED  BY <1>0, <6>1, <6>3, <6>4 DEF Made
          <5>. QED  BY <4>2, <5>1
        <4>. QED  BY <4>1, <4>2, ParameterFacts
      <3>2. 2 \in 1 .. NumThreads /\ Iters \in 0 .. AllCalls
        BY <1>0, <2>1, ProgramFacts
      <3>. QED  BY <3>1, <3>2, MadeAll
    <2>4. hits = ParentCalls
      BY <1>0, <1>2, <2>1, <2>2, <2>3
    <2>. QED  BY <1>1, <1>2, <2>4, NoChildren DEF PassFacts
  <1>6. CASE Program = "probeme6"
    <2>1. ParentCalls = AllCalls /\ Workers = 1
      BY <1>6 DEF ParentCalls, Negative, Workers, Single, Probeme6
    <2>2. AllCalls <= hits
      <3>1. log[i] = Adios
        BY <1>0, <1>4, <1>6, LastExpected
      <3>. QED  BY <3>1 DEF PassInv, PrintInv
    <2>3. Cardinality(MadeSet) <= 1 * AllCalls
      <3>1. ASSUME NEW t \in Threads
            PROVE  Made(t) <= IF t <= 1 THEN AllCalls ELSE 0
        <4>1. t > 1 => Made(t) = 0
          BY <2>1, MadeNone
        <4>2. Made(t) <= AllCalls
          BY MadeType
        <4>. QED  BY <4>1, <4>2, ParameterFacts
      <3>2. 1 \in 1 .. NumThreads /\ AllCalls \in 0 .. AllCalls
        BY <1>0
      <3>. QED  BY <3>1, <3>2, MadeAll
    <2>4. hits = ParentCalls
      BY <1>0, <1>2, <2>1, <2>2, <2>3
    <2>. QED  BY <1>1, <1>2, <2>4, NoChildren DEF PassFacts
  <1>. QED  BY <1>5, <1>6

\* probe8-fork: each hit has a line, and of those there are no more than main()
\* has calls, which have all been made.
LEMMA Probe8Pass ==
  ASSUME HarnessInv, PassInv, Program = "probe8-fork", proc = "passed",
         loaded, ~ stale, Diff(Results, Expected) = "same"
  PROVE  PassFacts
  <1>0. /\ test \in Tests /\ log \in Seq(Line) /\ AllCalls \in Nat
        /\ Iters \in Nat /\ NumThreads \in Nat /\ NumThreads > 0
        /\ AllCalls > Iters
    BY ParameterFacts, ProgramFacts DEF HarnessInv, TypeInv, TestType, CountType
  <1>1. ~ Negative /\ ~ ByHand /\ ~ Probeme6 /\ Workers = 1 /\ ParentCalls = Iters
        /\ Program \in ForkPrograms
    <2>1. ~ Negative /\ ~ ByHand /\ ~ Probeme6
      BY DEF Negative, ByHand, Probeme6
    <2>2. Workers = 1
      BY DEF Workers, Single
    <2>. QED  BY <2>1, <2>2 DEF ParentCalls, ForkPrograms
  <1>2. hits = childHits + Cardinality(MadeSet)
    BY <1>1 DEF PassInv, AttachInv, ParentHits
  <1>3. ASSUME NEW t \in Threads
        PROVE  /\ Made(t) <= IF t <= 1 THEN Iters ELSE 0
               /\ t <= 1 => Made(t) = Iters
    <2>1. t > 1 => Made(t) = 0
      BY <1>1, MadeNone
    <2>2. ASSUME t <= 1 PROVE Made(t) = Iters
      <3>1. pc[t] = "done" /\ result[t] = 0
        BY <1>1, <2>2, PassedThreads
      <3>2. calls[t] = Iters
        BY <3>1 DEF HarnessInv, ThreadInv
      <3>. QED  BY <1>0, <3>1, <3>2 DEF Made
    <2>. QED  BY <1>0, <2>1, <2>2, ParameterFacts
  <1>4. Cardinality(MadeSet) = 1 * Iters
    <2>1. 1 \in 1 .. NumThreads /\ Iters \in 0 .. AllCalls
      BY <1>0
    <2>. QED  BY <1>3, <2>1, MadeAll
  <1>5. hits <= Iters
    <2>1. hits <= Cardinality(CalledLines)
      BY DEF PassInv, PrintInv
    <2>2. Cardinality(CalledLines) \in Nat /\ Cardinality(CalledLines) <= Iters
      BY <1>0, CalledLinesFit
    <2>. QED  BY <1>0, <2>1, <2>2, HitsType
  <1>6. childHits = 0 /\ hits = ParentCalls
    BY <1>0, <1>1, <1>2, <1>4, <1>5, HitsType
  <1>. QED  BY <1>1, <1>6, PassedChildren DEF PassFacts, PassInv, SlotInv

\* fork_thread: all calls have been made, and a child that had been counted would
\* have failed its parent, or the thread that has waited for it.
LEMMA ForkThreadPass ==
  ASSUME HarnessInv, PassInv, Program = "fork_thread", proc = "passed", attached
  PROVE  PassFacts
  <1>0. /\ test \in Tests /\ AllCalls \in Nat
        /\ Iters \in Nat /\ NumThreads \in Nat /\ NumThreads > 0
    BY ParameterFacts, ProgramFacts DEF HarnessInv, TypeInv, TestType
  <1>1. /\ ~ Negative /\ ~ ByHand /\ ~ Probeme6 /\ HasSlots
        /\ Program \in ForkPrograms /\ AllCalls = 2 * Iters
    BY DEF Negative, ByHand, Probeme6, ForkPrograms, HasSlots, AllCalls
  <1>2. Workers = NumThreads /\ ParentCalls = 2 * Iters * NumThreads
    <2>1. Workers = NumThreads
      BY DEF Workers, Single, Probeme6
    <2>2. ParentCalls = 2 * Iters * NumThreads
      BY DEF ParentCalls, Negative
    <2>. QED  BY <2>1, <2>2
  <1>3. hits = childHits + Cardinality(MadeSet)
    BY <1>1 DEF PassInv, ParentHits
  <1>4. ASSUME NEW t \in Threads PROVE t <= NumThreads /\ Made(t) = AllCalls
    <2>1. t <= NumThreads
      BY ParameterFacts DEF Threads
    <2>2. pc[t] = "done" /\ result[t] = 0
      BY <1>1, <1>2, <2>1, PassedThreads
    <2>3. calls[t] = AllCalls
      BY <2>2 DEF HarnessInv, ThreadInv
    <2>. QED  BY <1>0, <2>1, <2>2, <2>3 DEF Made
  <1>5. Cardinality(MadeSet) = NumThreads * AllCalls
    <2>1. NumThreads \in 1 .. NumThreads /\ AllCalls \in 0 .. AllCalls
      BY <1>0
    <2>2. \A t \in Threads : Made(t) <= IF t <= NumThreads THEN AllCalls ELSE 0
      BY <1>0, <1>4
    <2>. QED  BY <1>4, <2>1, <2>2, MadeAll
  <1>6. childHits = 0
    <2>1. SUFFICES ASSUME childHits > 0 PROVE FALSE
      BY HitsType
    <2>2. PICK c \in Children : slot[c].kcount # NotCounting
      BY <2>1 DEF PassInv, ChildHitInv
    <2>3. pc[c] \in {"none", "reaped"} /\ status[c] # "exit1"
      BY <1>1, PassedChildren DEF PassInv, SlotInv
    <2>4. ChildSlotInv(c)
      BY DEF PassInv
    <2>. QED  BY <1>1, <2>2, <2>3, <2>4 DEF ChildSlotInv
  <1>7. hits = ParentCalls
    <2>1. NumThreads * (2 * Iters) = 2 * Iters * NumThreads
      BY <1>0
    <2>. QED  BY <1>1, <1>2, <1>3, <1>5, <1>6, <2>1, HitsType
  <1>. QED  BY <1>1, <1>6, <1>7, PassedChildren DEF PassFacts, PassInv, SlotInv

\* suicide: its output has ended, and so has the program, at its first call.
LEMMA SuicidePass ==
  ASSUME HarnessInv, PassInv, Negative, EndOfFile, ~ stale, attached
  PROVE  PassFacts
  <1>1. Ended
    <2>1. proc = "none" => script = "check" \/ stale
      BY DEF HarnessInv, ScriptInv
    <2>. QED  BY <2>1 DEF EndOfFile
  <1>2. hits = 1 /\ ParentCalls = 1
    <2>1. hits = 1
      BY <1>1 DEF PassInv, SuicideInv
    <2>2. ParentCalls = 1
      BY DEF ParentCalls, Negative
    <2>. QED  BY <2>1, <2>2
  <1>3. ~ Forks /\ \A c \in Children : pc[c] = "none"
    BY SuicideFacts
  <1>4. childHits = 0
    BY <1>3 DEF PassInv, ChildHitInv
  <1>. QED  BY <1>2, <1>3, <1>4 DEF PassFacts

\* When uprobes_diff finds no difference, it is so.
LEMMA CompareFinds ==
  ASSUME HarnessInv, PassInv, expect = "diff", Diff(Results, Expected) = "same",
         loc_return = 0, ~ (Negative /\ (early \/ stale))
  PROVE  PassFacts
  <1>0. test \in Tests /\ log \in Seq(Line) /\ Program \in Kinds
    <2>1. test \in Tests /\ log \in Seq(Line)
      BY DEF HarnessInv, TypeInv, TestType, CountType
    <2>. QED  BY <2>1, ProgramFacts
  <1>1. loaded /\ ~ ByHand
    BY <1>0, SameFacts DEF HarnessInv, ExpectInv
  <1>2. CASE Negative
    <2>1. EndOfFile /\ ~ stale
      BY <1>2 DEF HarnessInv, ExpectInv
    <2>2. attached
      BY <1>1, <2>1 DEF PassInv, AttachInv
    <2>. QED  BY <1>2, <2>1, <2>2, SuicidePass
  <1>3. CASE ~ Negative
    <2>1. proc \in {"passed", "leaving"}
      BY <1>1, <1>3 DEF HarnessInv, ExpectInv
    <2>2. ~ stale
      BY <2>1 DEF HarnessInv, ScriptInv
    <2>3. attached
      BY <1>1, <2>2 DEF PassInv, AttachInv
    <2>4. proc = "leaving" => Program \notin ForkPrograms
      BY DEF HarnessInv, MainInv, Probeme6, ForkPrograms
    <2>5. CASE Program \in {"probe7-thread", "probeme6"}
      BY <2>3, <2>5, SinglePass
    <2>6. CASE Program = "probe8-fork"
      BY <1>1, <2>1, <2>2, <2>4, <2>6, Probe8Pass DEF ForkPrograms
    <2>7. CASE Program = "fork_thread"
      BY <2>1, <2>3, <2>4, <2>7, ForkThreadPass DEF ForkPrograms
    <2>. QED
      BY <1>0, <1>1, <1>3, <2>5, <2>6, <2>7 DEF Kinds, Negative, ByHand
  <1>. QED  BY <1>2, <1>3

\* A program that has passed and has no child left makes no step, unless it is
\* probeme6.
LEMMA PassedIsOver ==
  ASSUME HarnessInv, proc = "passed", ~ Probeme6,
         \A c \in Children : pc[c] \in {"none", "reaped"}
  PROVE  ~ Programs
  <1>1. ~ Main
    BY DEF Main, Stop, Create, CreateFails, SayPassed, Join, JoinCrashes
  <1>2. ASSUME NEW t \in Threads PROVE ~ Thread(t)
    <2>1. pc[t] \in {"none", "done", "garbage"}
      <3>1. t \in Nat /\ Workers \in Nat
        BY ParameterFacts, ProgramFacts DEF HarnessInv, TypeInv, TestType
      <3>2. t <= Workers \/ t > Workers
        BY <3>1
      <3>. QED  BY <3>2, PassedThreads
    <2>. QED
      BY <2>1
      DEF Thread, Fork, ForkFails, Wait, Hit, Store, Miss, Oops, Exits, ParentReturns,
          Returns
  <1>3. ASSUME NEW c \in Children PROVE ~ ChildStep(c)
    BY DEF ChildStep, Hit, Store, Miss, Trapped, ChildReturns, Returns
  <1>. QED  BY <1>1, <1>2, <1>3 DEF Programs

\* probeme6 has no call left to make once all have been counted.
LEMMA Probeme6IsOver ==
  ASSUME HarnessInv, PassInv, PassFacts, Program = "probeme6", ProgramStep
  PROVE  UNCHANGED <<hits, childHits, status>> /\ \A c \in Children : pc'[c] = pc[c]
  <1>0. /\ pc \in [Tasks -> {"none", "garbage", "fork", "call", "store", "return",
                             "say", "wait", "done", "zombie", "reaped"}]
        /\ AllCalls \in Nat /\ NumThreads \in Nat /\ NumThreads > 0
        /\ hits \in Nat /\ created \in Nat
    <2>1. test \in Tests /\ AllCalls \in Nat /\ Workers \in Nat
      BY ProgramFacts DEF HarnessInv, TypeInv, TestType
    <2>2. created \in Nat
      BY <2>1 DEF HarnessInv, TypeInv, MainType
    <2>. QED  BY <2>1, <2>2, ParameterFacts, HitsType DEF HarnessInv, TypeInv, TaskType
  <1>a. /\ \A t \in Threads : t \in Tasks /\ t \notin Children
        /\ \A c \in Children : c \in Tasks
    BY ParameterFacts
  <1>1. /\ ~ Negative /\ ~ ByHand /\ ~ Forks /\ Probeme6
        /\ Workers = 1 /\ ParentCalls = AllCalls
    BY DEF Negative, ByHand, Forks, Probeme6, Workers, Single, ParentCalls
  <1>2. \A c \in Children : pc[c] = "none"
    BY <1>1, NoChildren
  <1>3. ASSUME NEW t \in Threads PROVE ~ Hit(t)
    <2>1. SUFFICES ASSUME Hit(t) PROVE FALSE
      OBVIOUS
    <2>2. attached /\ pc[t] = "call"
      BY <1>a, <2>1, EffectFacts DEF Hit
    <2>3. t = 1
      <3>1. ~ (t > Workers)
        <4>1. SUFFICES ASSUME t > Workers PROVE FALSE
          OBVIOUS
        <4>2. created <= Workers /\ t \in Nat
          BY ParameterFacts DEF HarnessInv, TypeInv, MainType
        <4>3. t > created
          BY <1>0, <1>1, <4>1, <4>2
        <4>4. pc[t] = "none"
          BY <4>3 DEF HarnessInv, MainInv
        <4>. QED  BY <2>2, <4>4
      <3>2. t \in Nat /\ t >= 1
        BY ParameterFacts DEF Threads
      <3>. QED  BY <1>1, <3>1, <3>2
    <2>4. Made(t) <= AllCalls - 1 /\ Made(t) \in Nat
      <3>1. calls[t] \in Nat /\ calls[t] + 1 <= AllCalls
        BY <2>2, MadeType
      <3>. QED  BY <1>0, <2>2, <3>1 DEF Made
    <2>5. \A u \in Threads : Made(u) <= IF u <= 1 THEN AllCalls - 1 ELSE 0
      <3>1. ASSUME NEW u \in Threads, u > 1 PROVE Made(u) = 0
        BY <1>1, <3>1, MadeNone
      <3>2. \A u \in Threads : u \in Nat /\ u >= 1
        BY ParameterFacts DEF Threads
      <3>. QED  BY <2>3, <2>4, <3>1, <3>2
    <2>6. Cardinality(MadeSet) <= 1 * (AllCalls - 1)
      <3>1. 1 \in 1 .. NumThreads /\ AllCalls - 1 \in 0 .. AllCalls
        BY <1>0, <2>4
      <3>. QED  BY <2>5, <3>1, MadeAll
    <2>7. hits = 0 + Cardinality(MadeSet) /\ hits = AllCalls
      BY <1>1, <2>2 DEF PassInv, ParentHits, PassFacts
    <2>. QED  BY <1>0, <2>6, <2>7, HitsType
  <1>4. CASE Main
    <2>1. UNCHANGED <<hits, childHits, status>>
      BY <1>4
      DEF Main, Stop, Create, CreateFails, SayPassed, Join, JoinCrashes, taskVars,
          countVars
    <2>2. created < Workers => created + 1 \in Threads
      BY <1>0, <1>1, ParameterFacts
    <2>3. 1 \in Threads
      BY ParameterFacts
    <2>4. \A c \in Children : pc'[c] = pc[c]
      BY <1>0, <1>4, <1>a, <2>2, <2>3
      DEF Main, Stop, Create, CreateFails, SayPassed, Join, JoinCrashes, taskVars
    <2>. QED  BY <2>1, <2>4
  <1>5. ASSUME NEW t \in Threads, Thread(t)
        PROVE  UNCHANGED <<hits, childHits, status>> /\ \A c \in Children : pc'[c] = pc[c]
    <2>1. pc[t] \notin {"fork", "wait"} /\ Effect(t) \notin {"exits", "oops"}
      BY <1>1, <1>a, EffectFacts DEF HarnessInv, ThreadInv
    <2>2. Store(t) \/ Miss(t) \/ ParentReturns(t)
      BY <1>3, <1>5, <2>1 DEF Thread, Fork, ForkFails, Wait, Oops, Exits
    <2>3. UNCHANGED <<hits, childHits, status>>
      BY <2>2 DEF Store, Miss, ParentReturns, Returns, countVars
    <2>4. \A c \in Children : pc'[c] = pc[c]
      BY <1>0, <1>a, <2>2 DEF Store, Miss, ParentReturns, Returns
    <2>. QED  BY <2>3, <2>4
  <1>6. ASSUME NEW c \in Children PROVE ~ ChildStep(c)
    BY <1>2 DEF ChildStep, Hit, Store, Miss, Trapped, ChildReturns, Returns
  <1>. QED  BY <1>4, <1>5, <1>6 DEF ProgramStep, Programs

\* VerdictInv is inductive: what the comparison has found is so, and no step that
\* is left changes it.
LEMMA VerdictInvStep == ASSUME HarnessInv, PassInv, Next PROVE VerdictInv'
  <1>0. test' = test
    BY NextTest
  <1>t. /\ Program' = Program /\ ParentCalls' = ParentCalls
        /\ Negative' = Negative
    BY <1>0, TestStays DEF ParentCalls
  <1>1. ASSUME PassFacts, UNCHANGED <<hits, childHits, status>>,
               \A c \in Children : pc'[c] = pc[c]
        PROVE  PassFacts'
    BY <1>0, <1>1, <1>t DEF PassFacts
  <1>2. CASE Script \/ ProgramStep \/ UNCHANGED vars
    <2>1. UNCHANGED <<expect, outcome, same, loc_return, early, stale>>
      BY <1>2, ProgramAttached
      DEF Script, Check, Insmod, Continue, Kill, WaitForJob, vars, expectVars,
          moduleVars
    <2>. SUFFICES ASSUME expect = "rmmod" \/ outcome = "pass", same, loc_return = 0,
                         ~ (Negative /\ (early \/ stale))
                  PROVE  PassFacts'
      BY <1>t, <2>1 DEF VerdictInv
    <2>2. PassFacts
      BY DEF PassInv, VerdictInv
    <2>3. CASE ~ ProgramStep
      <3>1. UNCHANGED <<hits, childHits, status, pc>>
        BY <1>2, <2>3
        DEF Script, Check, Insmod, Continue, Kill, WaitForJob, vars, forkVars,
            taskVars, countVars
      <3>. QED  BY <1>1, <2>2, <3>1
    <2>4. CASE ProgramStep
      <3>1. expect # "watch" /\ ~ ByHand
        BY DEF HarnessInv, ExpectInv
      <3>2. ~ Negative
        <4>1. SUFFICES ASSUME Negative PROVE FALSE
          OBVIOUS
        <4>2. EndOfFile
          BY <3>1, <4>1 DEF HarnessInv, ExpectInv
        <4>. QED  BY <2>4, <4>2, NothingMoves DEF ProgramStep
      <3>3. proc \in {"passed", "leaving"}
        BY <3>1, <3>2 DEF HarnessInv, ExpectInv
      <3>4. CASE Program = "probeme6"
        BY <1>1, <2>2, <2>4, <3>4, Probeme6IsOver
      <3>5. CASE Program # "probeme6"
        <4>1. ~ Probeme6
          BY <3>2, <3>5 DEF Probeme6, Negative
        <4>2. proc = "passed"
          BY <3>3, <4>1 DEF HarnessInv, MainInv
        <4>3. \A c \in Children : pc[c] \in {"none", "reaped"}
          BY <2>2 DEF PassFacts
        <4>. QED  BY <2>4, <4>1, <4>2, <4>3, PassedIsOver DEF ProgramStep
      <3>. QED  BY <3>4, <3>5
    <2>. QED  BY <2>3, <2>4
  <1>3. CASE Compare
    <2>1. /\ UNCHANGED <<hits, childHits, status, pc, loc_return, early, stale>>
          /\ expect = "diff" /\ (same' => Diff(Results, Expected) = "same")
      BY <1>3 DEF Compare, forkVars, moduleVars, taskVars, countVars
    <2>2. outcome # "pass"
      BY <2>1 DEF HarnessInv, ExpectInv
    <2>3. outcome' # "pass"
      BY <1>3, <2>2 DEF Compare
    <2>4. ASSUME same', loc_return' = 0, ~ (Negative' /\ (early' \/ stale'))
          PROVE  PassFacts'
      <3>1. PassFacts
        BY <1>t, <2>1, <2>4, CompareFinds
      <3>. QED  BY <1>1, <2>1, <3>1
    <2>. QED  BY <2>3, <2>4 DEF VerdictInv
  <1>4. CASE Rmmod
    <2>1. /\ UNCHANGED <<hits, childHits, status, pc, loc_return, same, early, stale>>
          /\ expect = "rmmod"
      BY <1>4 DEF Rmmod, taskVars, countVars
    <2>2. ASSUME same, loc_return = 0, ~ (Negative /\ (early \/ stale)) PROVE PassFacts'
      <3>1. PassFacts
        BY <2>1, <2>2 DEF PassInv, VerdictInv
      <3>. QED  BY <1>1, <2>1, <3>1
    <2>. QED  BY <1>t, <2>1, <2>2 DEF VerdictInv
  <1>5. CASE SeePassed \/ SeeEnd \/ RunByHand \/ SeeLine \/ EndMod
    <2>1. outcome' = outcome /\ expect # "done" /\ expect' # "rmmod"
      BY <1>5 DEF SeePassed, SeeEnd, RunByHand, SeeLine, EndMod
    <2>2. outcome # "pass"
      BY <2>1 DEF HarnessInv, ExpectInv
    <2>. QED  BY <2>1, <2>2 DEF VerdictInv
  <1>. QED
    BY <1>2, <1>3, <1>4, <1>5 DEF Next, Progress, Expect, ProgramStep, Done, Hangs

\* The first state: nothing has run.
LEMMA PassInit == ASSUME Init PROVE PassInv
  <1>1. /\ \A t \in Threads : pc[t] = "none" /\ calls[t] = 0 /\ slot[t] = NewSlot
                              /\ t \in Tasks
        /\ \A c \in Children : pc[c] = "none" /\ status[c] = "none"
                               /\ slot[c] = NewSlot /\ c \in Tasks
        /\ test \in Tests /\ ~ attached /\ hits = 0 /\ childHits = 0
        /\ script = "check" /\ loaded = stale /\ expect = "watch" /\ outcome = "none"
    BY ParameterFacts DEF Init, ForkInit
  <1>2. NewSlot.kcount = NotCounting
    BY DEF NewSlot
  <1>3. ParentHits
    <2>1. AllCalls \in Nat
      BY <1>1, ProgramFacts
    <2>2. \A t \in Threads : Made(t) = 0
      BY <1>1 DEF Made
    <2>3. MadeSet = {}
      BY <2>1, <2>2 DEF MadeSet
    <2>4. Cardinality(MadeSet) = 0
      BY <2>3, FS_EmptySet
    <2>. QED  BY <1>1, <2>4 DEF ParentHits
  <1>4. AttachInv /\ SuicideInv /\ VerdictInv
    BY <1>1 DEF AttachInv, SuicideInv, VerdictInv, Init
  <1>5. ChildHitInv /\ \A c \in Children : ChildSlotInv(c)
    BY <1>1, <1>2 DEF ChildHitInv, ChildSlotInv
  <1>6. PrintInv
    <2>1. loaded => stale
      BY DEF Init
    <2>2. ASSUME NEW i \in DOMAIN log PROVE log[i] # Adios
      <3>1. \A n \in Nat : Called(n) # Adios /\ Reg # Adios
        BY AdiosFacts
      <3>2. CASE log = ExpectedCalls
        <4>1. /\ ExpectedCalls \in Seq(Line) /\ ExpectedCalls[1] = Reg
              /\ PrintsFirst \/ PrintsLast =>
                   /\ Len(ExpectedCalls) = ParentCalls + 1
                   /\ \A k \in 1 .. ParentCalls :
                        ExpectedCalls[k + 1] = Called(Function(k))
              /\ ~ (PrintsFirst \/ PrintsLast) => ExpectedCalls = <<Reg>>
          BY <1>1, ExpectedCallsFacts
        <4>2. ParentCalls \in Nat /\ i \in 1 .. Len(ExpectedCalls)
          BY <1>1, <3>2, <4>1, ParentCallsType, LenProperties
        <4>3. CASE i = 1
          BY <3>1, <3>2, <4>1, <4>3
        <4>4. CASE i # 1
          <5>1. PrintsFirst \/ PrintsLast
            <6>1. SUFFICES ASSUME ExpectedCalls = <<Reg>> PROVE FALSE
              BY <4>1
            <6>2. i \in 1 .. 1
              BY <4>2, <6>1
            <6>. QED  BY <4>4, <6>2
          <5>2. i - 1 \in 1 .. ParentCalls /\ i = (i - 1) + 1
            BY <4>1, <4>2, <4>4, <5>1
          <5>3. log[i] = Called(Function(i - 1))
            BY <3>2, <4>1, <5>1, <5>2
          <5>. QED  BY <5>3, AdiosFacts
        <4>. QED  BY <4>3, <4>4
      <3>3. CASE log = <<Registration>> \/ log = <<>>
        BY <1>1, <3>3, RegistrationIsNoCall
      <3>. QED  BY <3>2, <3>3, InitLog
    <2>. QED  BY <1>1, <2>1, <2>2 DEF PrintInv
  <1>. QED  BY <1>3, <1>4, <1>5, <1>6 DEF PassInv

\* Every step keeps PassInv.
LEMMA PassNext ==
  ASSUME HarnessInv, PassInv, [Next]_vars PROVE PassInv'
  <1>1. CASE Next
    <2>1. ParentHits' /\ AttachInv' /\ SuicideInv' /\ PrintInv' /\ VerdictInv'
      BY <1>1, ParentHitsStep, AttachInvStep, SuicideInvStep, PrintInvStep,
         VerdictInvStep
      DEF PassInv
    <2>2. SlotInv'
      BY <1>1, SlotInvStep DEF PassInv, SlotInv
    <2>. QED  BY <2>1, <2>2 DEF PassInv, SlotInv
  <1>2. CASE UNCHANGED vars
    BY <1>2
    DEF vars, forkVars, mainVars, taskVars, countVars, expectVars, scriptVars,
        moduleVars, PassInv, ParentHits, MadeSet, Made, AttachInv, SuicideInv,
        ChildHitInv, ChildSlotInv, PrintInv, CalledLines, VerdictInv, PassFacts,
        ParentCalls, Ended, AllCalls, Forks, HasSlots, Probeme6, Program, Negative,
        ByHand
  <1>. QED  BY <1>1, <1>2

\* What a reported pass means: each call of a parent, and none of a child, has
\* been counted, and each child has been waited for and has found its probe points
\* silent, in every interleaving and for any number of threads and iterations
\* (README of uprobes.w, lines 27 and 28; probe8-fork.c:14).  uprobes.exp has
\* read nothing but PASSED and the module's log.
THEOREM PassIsSound == Spec => []PassMeansParentOnly
  <1>1. Init => HarnessInv /\ PassInv
    BY HarnessInit, PassInit
  <1>2. HarnessInv /\ PassInv /\ [Next]_vars => HarnessInv' /\ PassInv'
    BY HarnessNext, PassNext
  <1>3. HarnessInv /\ PassInv => PassMeansParentOnly
    BY DEF HarnessInv, ExpectInv, PassInv, VerdictInv, PassFacts, PassMeansParentOnly
  <1>. QED  BY <1>1, <1>2, <1>3, PTL DEF Spec

-----------------------------------------------------------------------------
(* No false alarm: a test of a kernel that is right passes. *)

ForkThreadRuns == \E t \in Tests : t.program = "fork_thread"

\* The store of ktid does not disturb a count of fork_thread: it is no wider than
\* its field, or clears a count of 0 only.
KtidHarmless == ForkThreadRuns => ~ WideLong \/ Iters = 1

\* The module's counter does not wrap, and that of fork_thread is expected to be
\* of two digits or more.
CounterFits == 2 * Iters * NumThreads < ULongMod
ManyHits    == ForkThreadRuns => Ten <= 2 * Iters * NumThreads

\* Where nothing fails that a test relies on, the registration is printed as it is
\* expected, and the test has not ended.
Healthy == /\ ~ Misprinted
           /\ test.kernel = "removes" /\ ~ fault /\ ~ overlap /\ ~ stale
           /\ expect # "done"

\* No script complains, and the program fails only if its module ends it.
CalmInv ==
  /\ ~ said /\ script \notin {"refused", "kill"}
  /\ script \in {"cont", "wait", "ended"} => attached /\ loaded
  /\ proc \notin {"failed", "internal", "crashed"}
  /\ proc = "killed" => Negative
  /\ proc = "passed" => joined = Workers
  /\ expect \in {"watch", "end_mod"} => entry = 0

\* There is a child for each thread that is to wait.
ChildForEach == Forks => Cardinality(YetToWait) <= Cardinality(Unreaped)

\* The two counts of a slot after n calls: they agree, and in a call the caller's
\* is one behind.
CountsAfter(s, n, inCall) ==
  IF inCall THEN s.kcount = n /\ Incr(s.ucount) = n
  ELSE IF n = 0 THEN s.kcount = NotCounting /\ s.ucount = NotCounting
                ELSE s.kcount = n - 1 /\ s.ucount = n - 1

InHandler(p) == pc[p] \in {"store", "return"}

\* A thread finds its probe points counted, and its child has ended well.
ThreadWell(t) ==
  /\ pc[t] # "garbage" /\ result[t] = 0 /\ waited[t] \in {"none", "exit0"}
  /\ HasSlots => CountsAfter(slot[t], calls[t], InHandler(t))

\* A child finds its probe points silent.
ChildWell(c) ==
  pc[c] # "store" /\ slot[c].kcount = NotCounting /\ status[c] \in {"none", "exit0"}

WellInv == /\ childHits = 0
           /\ \A t \in Threads : ThreadWell(t)
           /\ \A c \in Children : ChildWell(c)

\* Handlers that do not overlap lose no count.
CounterInv ==
  ~ Negative =>
    /\ \A p, q \in Tasks : pc[p] = "store" /\ pc[q] = "store" => p = q
    /\ \A p \in Tasks : pc[p] = "store" => tmp[p] = counter /\ hits = counter + 1
    /\ (\A p \in Tasks : pc[p] # "store") => counter = hits

\* The log after n calls, and how many calls are in the log.
CallLog(n) == <<Registration>> \o [i \in 1 .. n |-> Called(Function(i))]

Logged == IF PrintsFirst THEN hits
          ELSE IF PrintsLast THEN calls[1] + (IF pc[1] = "return" THEN 1 ELSE 0)
          ELSE 0

CallsLogged ==
  (expect \in {"watch", "end_mod"} \/ Negative) /\ script \in {"cont", "wait", "ended"} =>
    log = CallLog(Logged)

\* The log that is compared is the expected file, and stays so.
ResultsFit ==
  expect = "diff" /\ ~ early =>
    loaded /\ Results = Expected /\ (proc = "passed" \/ Negative)

SameFound == expect = "rmmod" /\ ~ early => same /\ loc_return = 0

LogInv == CallsLogged /\ ResultsFit /\ SameFound

HealthyInv ==
  Healthy => CalmInv /\ ChildForEach /\ WellInv /\ CounterInv /\ LogInv

\* The programs whose module lets the kernel remove the breakpoints.
LEMMA HealthyPrograms ==
  ASSUME test \in Tests, test.kernel = "removes"
  PROVE  Program \in Kinds \ {"fork_and_defunc"} /\ ~ ByHand
  BY ForkAssumption DEF Program, Kinds, ForkPrograms, ByHand

\* What has failed stays so.
LEMMA FailedStays ==
  ASSUME HarnessInv, Next
  PROVE  /\ stale' = stale
         /\ ~ fault' => ~ fault
         /\ ~ overlap' => ~ overlap
         /\ expect' # "done" => expect # "done"
  <1>1. overlap \in BOOLEAN /\ fault \in BOOLEAN
    BY DEF HarnessInv, TypeInv, TestType
  <1>2. CASE Script
    BY <1>1, <1>2
    DEF Script, Check, Insmod, Continue, Kill, WaitForJob, forkVars, countVars,
        expectVars
  <1>3. CASE Expect
    BY <1>1, <1>3
    DEF Expect, SeePassed, SeeEnd, RunByHand, SeeLine, EndMod, Compare, Rmmod,
        forkVars, countVars
  <1>4. CASE ProgramStep
    <2>1. stale' = stale /\ expect' = expect
      BY <1>4, ProgramAttached
    <2>2. CASE Main
      BY <1>1, <2>1, <2>2
      DEF Main, Stop, Create, CreateFails, SayPassed, Join, JoinCrashes, countVars
    <2>3. ASSUME NEW t \in Threads, Thread(t)
          PROVE  (~ fault' => ~ fault) /\ (~ overlap' => ~ overlap)
      BY <1>1, <2>3
      DEF Thread, Fork, ForkFails, Wait, Hit, Store, Miss, Oops, Exits,
          ParentReturns, Returns, countVars
    <2>4. ASSUME NEW c \in Children, ChildStep(c)
          PROVE  (~ fault' => ~ fault) /\ (~ overlap' => ~ overlap)
      BY <1>1, <2>4
      DEF ChildStep, Hit, Store, Miss, Trapped, ChildReturns, Returns, countVars
    <2>. QED  BY <1>4, <2>1, <2>2, <2>3, <2>4 DEF ProgramStep, Programs
  <1>5. CASE UNCHANGED vars
    BY <1>5 DEF vars, forkVars, countVars, expectVars
  <1>. QED
    BY <1>2, <1>3, <1>4, <1>5 DEF Next, Progress, ProgramStep, Done, Hangs

\* A test that is well in the next state is well now.
LEMMA HealthyBefore ==
  ASSUME HarnessInv, Next, Healthy' PROVE Healthy /\ test' = test
  BY NextTest, TestStays, FailedStays DEF Healthy

\* A task that has come into being runs under the module.
LEMMA UnderModule ==
  ASSUME HarnessInv, Healthy, CalmInv, NEW p \in Tasks, pc[p] # "none"
  PROVE  attached /\ loaded /\ script \in {"wait", "ended"}
  <1>1. proc \notin {"none", "starting", "stopped"}
    BY NobodyYet
  <1>2. script \in {"check", "insmod", "cont", "refused", "kill", "wait", "ended"}
    BY DEF HarnessInv, TypeInv, ScriptType
  <1>3. script \notin {"check", "insmod", "cont", "refused", "kill"}
    BY <1>1 DEF HarnessInv, ScriptInv, CalmInv, Healthy
  <1>. QED  BY <1>2, <1>3 DEF CalmInv

\* What a breakpoint does: it counts a thread, and is gone from a child.
LEMMA HealthyEffect ==
  ASSUME HarnessInv, Healthy, CalmInv, NEW p \in Tasks, pc[p] = "call"
  PROVE  /\ attached
         /\ p \in Threads /\ ~ Negative => Effect(p) = "counts"
         /\ p \in Children => Effect(p) \notin {"counts", "SIGTRAP"}
         /\ Effect(p) # "oops"
         /\ Negative => Effect(p) # "counts"
  <1>1. attached
    BY UnderModule
  <1>2. ~ ByHand
    BY HealthyPrograms DEF HarnessInv, TypeInv, TestType, Healthy
  <1>3. p \in Children => p \notin Threads
    BY ParameterFacts
  <1>4. p \in Threads /\ ~ Negative => Effect(p) = "counts"
    BY <1>1, <1>2 DEF Effect, Negative, ByHand
  <1>. QED  BY <1>1, <1>2, <1>3, <1>4, EffectFacts DEF Healthy

\* The steps that a program is left with.
LEMMA HealthySteps ==
  ASSUME HarnessInv, Healthy, CalmInv, WellInv, Healthy', ProgramStep
  PROVE  \/ Stop \/ Create \/ SayPassed \/ Join
         \/ \E t \in Threads : \/ Fork(t) \/ Wait(t) \/ Store(t)
                               \/ ParentReturns(t)
                               \/ Hit(t) /\ ~ Negative
                               \/ Miss(t) /\ Negative
                               \/ Exits(t) /\ Negative
         \/ \E c \in Children : Miss(c) \/ ChildReturns(c)
  <1>1. CASE Main
    <2>1. fault' = FALSE
      BY DEF Healthy
    <2>2. JoinCrashes => pc[joined + 1] = "garbage"
      BY DEF JoinCrashes
    <2>3. JoinCrashes => joined + 1 \in Threads
      <3>1. created \in 0 .. Workers /\ joined \in 0 .. created /\ Workers \in Nat
            /\ Workers <= NumThreads
        BY ProgramFacts DEF HarnessInv, TypeInv, TestType, MainType
      <3>2. JoinCrashes => joined < Workers
        BY DEF JoinCrashes, HarnessInv, MainInv
      <3>. QED  BY <3>1, <3>2, ParameterFacts
    <2>4. ~ JoinCrashes
      BY <2>2, <2>3 DEF WellInv, ThreadWell
    <2>5. ~ CreateFails
      BY <2>1 DEF CreateFails
    <2>. QED  BY <1>1, <2>4, <2>5 DEF Main
  <1>2. ASSUME NEW t \in Threads, Thread(t)
        PROVE  \/ Fork(t) \/ Wait(t) \/ Store(t) \/ ParentReturns(t)
               \/ Hit(t) /\ ~ Negative
               \/ Miss(t) /\ Negative
               \/ Exits(t) /\ Negative
    <2>1. t \in Tasks
      BY ParameterFacts
    <2>2. ~ ForkFails(t) /\ ~ Oops(t)
      BY DEF ForkFails, Oops, Healthy
    <2>3. Hit(t) => ~ Negative
      BY <2>1, HealthyEffect DEF Hit
    <2>4. Miss(t) => Negative
      BY <2>1, HealthyEffect DEF Miss
    <2>5. Exits(t) => Negative
      BY <2>1, EffectFacts DEF Exits
    <2>. QED  BY <1>2, <2>2, <2>3, <2>4, <2>5 DEF Thread
  <1>3. ASSUME NEW c \in Children, ChildStep(c)
        PROVE  Miss(c) \/ ChildReturns(c)
    <2>1. c \in Tasks
      BY ParameterFacts
    <2>2. ~ Hit(c) /\ ~ Trapped(c)
      BY <2>1, HealthyEffect DEF Hit, Trapped
    <2>3. ~ Store(c)
      BY DEF Store, WellInv, ChildWell
    <2>. QED  BY <1>3, <2>2, <2>3 DEF ChildStep
  <1>. QED  BY <1>1, <1>2, <1>3 DEF ProgramStep, Programs

\* main() joins one thread after the other, each of which has found 0.
LEMMA JoinPasses ==
  ASSUME HarnessInv, WellInv, Join
  PROVE  /\ proc' \in {"passed", "running"}
         /\ proc' = "passed" => joined' = Workers
  <1>1. joined + 1 \in Threads
    <2>1. created \in 0 .. Workers /\ joined \in 0 .. created /\ Workers \in Nat
          /\ Workers <= NumThreads
      BY ProgramFacts DEF HarnessInv, TypeInv, TestType, MainType
    <2>2. joined < Workers
      BY DEF Join, HarnessInv, MainInv
    <2>. QED  BY <2>1, <2>2, ParameterFacts
  <1>2. result[joined + 1] = 0
    BY <1>1 DEF WellInv, ThreadWell
  <1>. QED  BY <1>2 DEF Join

\* CalmInv is inductive.
LEMMA CalmInvStep ==
  ASSUME HarnessInv, Healthy, CalmInv, WellInv, Next, Healthy' PROVE CalmInv'
  <1>0. test' = test /\ Workers' = Workers /\ Negative' = Negative
    BY NextTest, TestStays
  <1>1. CASE Check
    <2>1. ~ loaded
      BY <1>1 DEF Check, HarnessInv, ScriptInv, Healthy
    <2>. QED
      BY <1>0, <1>1, <2>1 DEF Check, CalmInv, expectVars, moduleVars
  <1>2. CASE Insmod
    BY <1>0, <1>2 DEF Insmod, CalmInv, mainVars, expectVars, Healthy
  <1>3. CASE Continue
    BY <1>0, <1>3 DEF Continue, CalmInv, expectVars, moduleVars
  <1>4. CASE Kill \/ WaitForJob
    BY <1>0, <1>4
    DEF Kill, WaitForJob, CalmInv, forkVars, mainVars, expectVars, moduleVars
  <1>5. CASE Expect
    <2>1. ~ Rmmod /\ ~ RunByHand
      BY DEF Rmmod, RunByHand, Healthy
    <2>2. SeePassed \/ SeeEnd \/ SeeLine \/ EndMod \/ Compare
      BY <1>5, <2>1 DEF Expect
    <2>3. UNCHANGED <<said, script, attached, loaded, proc, joined>>
      BY <2>2
      DEF SeePassed, SeeEnd, SeeLine, EndMod, Compare, forkVars, mainVars, scriptVars,
          moduleVars
    <2>4. expect' \in {"watch", "end_mod"} => entry' = 0
      BY <2>2
      DEF SeePassed, SeeEnd, SeeLine, EndMod, Compare, moduleVars, CalmInv
    <2>. QED  BY <1>0, <2>3, <2>4 DEF CalmInv
  <1>6. CASE ProgramStep
    <2>1. UNCHANGED <<attached, script, loaded, expect, said, entry>>
      BY <1>6, ProgramAttached DEF ProgramStep, moduleVars
    <2>2. /\ proc' \notin {"failed", "internal", "crashed"}
          /\ proc' = "killed" => Negative
          /\ proc' = "passed" => joined' = Workers
      <3>1. CASE Stop \/ Create \/ SayPassed
        BY <3>1 DEF Stop, Create, SayPassed, CalmInv
      <3>2. CASE Join
        BY <3>2, JoinPasses
      <3>3. ASSUME NEW t \in Threads,
                   \/ Fork(t) \/ Wait(t) \/ Store(t) \/ ParentReturns(t)
                   \/ Hit(t) /\ ~ Negative
                   \/ Miss(t) /\ Negative
            PROVE  proc' = proc /\ joined' = joined
        BY <3>3 DEF Fork, Wait, Store, ParentReturns, Returns, Hit, Miss, mainVars
      <3>4. ASSUME NEW t \in Threads, Exits(t) /\ Negative
            PROVE  proc' = "killed" /\ Negative
        BY <3>4 DEF Exits
      <3>5. ASSUME NEW c \in Children, Miss(c) \/ ChildReturns(c)
            PROVE  proc' = proc /\ joined' = joined
        BY <3>5 DEF Miss, ChildReturns, Returns, mainVars
      <3>. QED
        BY <1>6, <3>1, <3>2, <3>3, <3>4, <3>5, HealthySteps DEF CalmInv
    <2>. QED  BY <1>0, <2>1, <2>2 DEF CalmInv
  <1>7. CASE UNCHANGED vars
    BY <1>0, <1>7
    DEF vars, forkVars, mainVars, expectVars, scriptVars, moduleVars, CalmInv
  <1>. QED
    BY <1>1, <1>2, <1>3, <1>4, <1>5, <1>6, <1>7
    DEF Next, Progress, Script, ProgramStep, Done, Hangs

\* The same in the next state.
LEMMA ChildForEachNext ==
  ASSUME test' = test
  PROVE  ChildForEach' <=> (Forks => Cardinality(YetToWait') <= Cardinality(Unreaped'))
  BY TestStays DEF ChildForEach

\* Where the children that have yet to be waited for stay, and the threads.
LEMMA SameToWait ==
  ASSUME ChildForEach, test' = test,
         \A c \in Children : pc[c] \notin {"none", "reaped"} =>
                               pc'[c] \notin {"none", "reaped"},
         \A t \in Threads : pc'[t] \notin {"none", "fork", "garbage"}
                            /\ waited'[t] = "none" =>
                              pc[t] \notin {"none", "fork", "garbage"}
                              /\ waited[t] = "none"
  PROVE  ChildForEach'
  <1>1. Unreaped \subseteq Unreaped' /\ YetToWait' \subseteq YetToWait
    BY DEF Unreaped, YetToWait
  <1>2. /\ Cardinality(Unreaped) <= Cardinality(Unreaped')
        /\ Cardinality(YetToWait') <= Cardinality(YetToWait)
    BY <1>1, ForkSetsFinite, ForkSetsFiniteNext, FS_Subset
  <1>. QED
    BY <1>2, ForkSetsFinite, ForkSetsFiniteNext, ChildForEachNext DEF ChildForEach

\* wait() finds a child.
LEMMA WaitFinds ==
  ASSUME HarnessInv, ChildForEach, NEW t \in Threads, Wait(t)
  PROVE  \E c \in Children :
           /\ pc[c] = "zombie"
           /\ pc' = [pc EXCEPT ![c] = "reaped",
                               ![t] = IF HasSlots THEN "call" ELSE "done"]
           /\ waited' = [waited EXCEPT ![t] = status[c]]
  <1>1. pc[t] = "wait" /\ waited[t] = "none" /\ Forks
    BY DEF Wait, HarnessInv, ThreadInv
  <1>2. YetToWait # {}
    BY <1>1 DEF YetToWait
  <1>3. Unreaped # {}
    BY <1>1, <1>2, ForkSetsFinite, FS_EmptySet DEF ChildForEach
  <1>4. \E c \in Children : pc[c] \notin {"none", "reaped"}
    BY <1>3 DEF Unreaped
  <1>. QED  BY <1>4 DEF Wait

\* ChildForEach is inductive: nothing but fork() and wait() changes either set.
LEMMA ChildForEachStep ==
  ASSUME HarnessInv, Healthy, CalmInv, ChildForEach, WellInv, Next, Healthy'
  PROVE  ChildForEach'
  <1>0. /\ test' = test
        /\ pc \in [Tasks -> {"none", "garbage", "fork", "call", "store", "return",
                             "say", "wait", "done", "zombie", "reaped"}]
        /\ waited \in [Threads -> {"none", "exit0", "exit1", "signal"}]
    BY NextTest DEF HarnessInv, TypeInv, TaskType
  <1>a. /\ \A t \in Threads : /\ t \in Tasks /\ t \notin Children
                              /\ Child(t) \in Children /\ Child(t) \in Tasks
        /\ \A c \in Children : c \in Tasks /\ c \notin Threads
    BY ParameterFacts
  <1>1. CASE pc' = pc /\ waited' = waited
    BY <1>0, <1>1, SameToWait
  <1>2. ASSUME NEW t \in Threads, waited' = waited, NEW v,
               pc' = [pc EXCEPT ![t] = v],
               pc[t] \notin {"none", "fork", "garbage"} \/ ~ Forks \/ v = "fork"
        PROVE  ChildForEach'
    <2>1. pc'[t] = v /\ \A q \in Tasks : q # t => pc'[q] = pc[q]
      BY <1>0, <1>2, <1>a
    <2>2. CASE ~ Forks
      BY <1>0, <2>2, ChildForEachNext
    <2>3. CASE Forks
      BY <1>0, <1>2, <1>a, <2>1, <2>3, SameToWait
    <2>. QED  BY <2>2, <2>3
  <1>3. ASSUME NEW c \in Children, waited' = waited, NEW v,
               pc' = [pc EXCEPT ![c] = v], v \notin {"none", "reaped"}
        PROVE  ChildForEach'
    <2>1. pc'[c] = v /\ \A q \in Tasks : q # c => pc'[q] = pc[q]
      BY <1>0, <1>3, <1>a
    <2>. QED  BY <1>0, <1>3, <1>a, <2>1, SameToWait
  <1>4. CASE Script \/ Expect \/ UNCHANGED vars
    <2>1. pc' = pc /\ waited' = waited
      BY <1>4
      DEF Script, Check, Insmod, Continue, Kill, WaitForJob, Expect, SeePassed,
          SeeEnd, RunByHand, SeeLine, EndMod, Compare, Rmmod, forkVars, taskVars, vars
    <2>. QED  BY <1>1, <2>1
  <1>5. CASE Stop \/ Join
    BY <1>1, <1>5 DEF Stop, Join, taskVars
  <1>6. CASE Create
    <2>1. created + 1 \in Threads
      <3>1. created < Workers /\ created \in Nat /\ Workers \in Nat
            /\ Workers <= NumThreads
        BY <1>6, ProgramFacts DEF Create, HarnessInv, TypeInv, TestType, MainType
      <3>. QED  BY <3>1, ParameterFacts
    <2>2. waited' = waited
          /\ pc' = [pc EXCEPT ![created + 1] = IF Forks THEN "fork" ELSE "call"]
      BY <1>6 DEF Create
    <2>. QED  BY <1>2, <2>1, <2>2
  <1>7. CASE SayPassed
    <2>1. 1 \in Threads /\ waited' = waited /\ pc[1] = "say"
          /\ pc' = [pc EXCEPT ![1] = "call"]
      BY <1>7, ParameterFacts DEF SayPassed
    <2>. QED  BY <1>2, <2>1
  <1>8. ASSUME NEW t \in Threads, Fork(t) PROVE ChildForEach'
    <2>1. /\ waited' = waited /\ pc[t] = "fork"
          /\ pc' = [pc EXCEPT ![t] = "call", ![Child(t)] = "call"]
      BY <1>8 DEF Fork
    <2>2. /\ pc'[t] = "call" /\ pc'[Child(t)] = "call"
          /\ \A q \in Tasks : (q # t /\ q # Child(t)) => pc'[q] = pc[q]
      BY <1>0, <1>a, <2>1
    <2>3. pc[Child(t)] = "none" /\ waited[t] = "none"
      BY <2>1 DEF HarnessInv, ForkInv, ThreadInv
    <2>4. Unreaped' = Unreaped \cup {Child(t)} /\ Child(t) \notin Unreaped
      BY <1>a, <2>2, <2>3 DEF Unreaped
    <2>5. YetToWait' = YetToWait \cup {t} /\ t \notin YetToWait
      BY <1>a, <2>1, <2>2, <2>3 DEF YetToWait
    <2>6. /\ Cardinality(Unreaped') = Cardinality(Unreaped) + 1
          /\ Cardinality(YetToWait') = Cardinality(YetToWait) + 1
      BY <2>4, <2>5, ForkSetsFinite, FS_AddElement
    <2>. QED  BY <1>0, <2>6, ForkSetsFinite, ChildForEachNext DEF ChildForEach
  <1>9. ASSUME NEW t \in Threads, Wait(t) PROVE ChildForEach'
    <2>1. PICK c \in Children :
               /\ pc[c] = "zombie"
               /\ pc' = [pc EXCEPT ![c] = "reaped",
                                   ![t] = IF HasSlots THEN "call" ELSE "done"]
               /\ waited' = [waited EXCEPT ![t] = status[c]]
      BY <1>9, WaitFinds
    <2>2. /\ pc'[t] = (IF HasSlots THEN "call" ELSE "done") /\ pc'[c] = "reaped"
          /\ \A q \in Tasks : (q # t /\ q # c) => pc'[q] = pc[q]
          /\ waited'[t] = status[c]
          /\ \A u \in Threads : u # t => waited'[u] = waited[u]
      BY <1>0, <1>a, <2>1
    <2>3. status[c] # "none" /\ pc[t] = "wait" /\ waited[t] = "none"
      BY <1>9, <2>1 DEF HarnessInv, ChildInv, ThreadInv, Wait
    <2>4. Unreaped' = Unreaped \ {c} /\ c \in Unreaped
      BY <1>a, <2>1, <2>2 DEF Unreaped
    <2>5. YetToWait' = YetToWait \ {t} /\ t \in YetToWait
      BY <1>a, <2>2, <2>3 DEF YetToWait
    <2>6. /\ Cardinality(Unreaped') = Cardinality(Unreaped) - 1
          /\ Cardinality(YetToWait') = Cardinality(YetToWait) - 1
      BY <2>4, <2>5, ForkSetsFinite, FS_RemoveElement
    <2>. QED  BY <1>0, <2>6, ForkSetsFinite, ChildForEachNext DEF ChildForEach
  <1>10. ASSUME NEW t \in Threads,
                \/ Store(t) \/ ParentReturns(t) \/ Hit(t) \/ Miss(t) \/ Exits(t)
         PROVE  ChildForEach'
    <2>1. /\ waited' = waited /\ pc[t] \in {"call", "store", "return"}
          /\ \E v \in {"store", "return", "done", "wait", "say", "call"} :
               pc' = [pc EXCEPT ![t] = v]
      BY <1>10 DEF Store, ParentReturns, Returns, Hit, Miss, Exits, AfterRound
    <2>. QED  BY <1>2, <2>1
  <1>11. ASSUME NEW c \in Children, Miss(c) \/ ChildReturns(c) PROVE ChildForEach'
    <2>1. /\ waited' = waited
          /\ \E v \in {"return", "zombie", "call"} : pc' = [pc EXCEPT ![c] = v]
      BY <1>11 DEF Miss, ChildReturns, Returns
    <2>. QED  BY <1>3, <2>1
  <1>12. CASE ProgramStep
    BY <1>12, <1>5, <1>6, <1>7, <1>8, <1>9, <1>10, <1>11, HealthySteps
  <1>. QED  BY <1>4, <1>12 DEF Next, Progress, ProgramStep, Done, Hangs

\* The handler counts the call that begins.
LEMMA CountedByHandler ==
  ASSUME CountsFit, Iters = 1, NEW s \in Slots(Tasks), NEW t \in Tasks,
         NEW n \in Nat, n < 2 * Iters, CountsAfter(s, n, FALSE)
  PROVE  CountsAfter(HandlerCounts([s EXCEPT !.utid = t], t), n, TRUE)
  <1>0. /\ ULongMod \in Nat /\ IntHalf \in Nat /\ IntHalf >= 1
        /\ ULongMod >= 2 * IntHalf /\ Iters \in Nat
        /\ n < IntHalf
    BY WidthFacts, ParameterFacts DEF CountsFit
  <1>. DEFINE c == [s EXCEPT !.utid = t]
  <1>1. c \in Slots(Tasks) /\ c.kcount = s.kcount /\ c.ucount = s.ucount
    BY DEF Slots
  <1>. HIDE DEF c
  <1>2. /\ HandlerCounts(c, t).kcount = Incr(s.kcount)
        /\ HandlerCounts(c, t).ucount =
             IF s.kcount = NotCounting THEN s.kcount ELSE AfterKtidStore(s.ucount)
    <2>1. /\ HandlerCounts(c, t).kcount = Incr(c.kcount)
          /\ HandlerCounts(c, t).ucount =
               IF c.kcount = NotCounting THEN c.kcount ELSE AfterKtidStore(c.ucount)
      BY <1>1, SlotFacts, Zenon
    <2>. QED  BY <1>1, <2>1, Zenon
  <1>3. CASE n = 0
    <2>1. s.kcount = NotCounting
      BY <1>3 DEF CountsAfter
    <2>. QED
      BY <1>2, <1>3, <2>1, NotCountingFacts DEF CountsAfter, c
  <1>4. CASE n # 0
    <2>1. s.kcount = n - 1 /\ s.ucount = n - 1
      BY <1>4 DEF CountsAfter
    <2>2. n - 1 # NotCounting /\ Incr(n - 1) = n
      BY <1>0, <1>4 DEF NotCounting, Incr
    <2>3. AfterKtidStore(n - 1) = n - 1
      <3>1. n = 1
        BY <1>0, <1>4
      <3>2. 0 % (2 * IntHalf) = 0
        BY <1>0
      <3>. QED  BY <3>1, <3>2 DEF AfterKtidStore
    <2>4. /\ HandlerCounts(c, t).kcount = n
          /\ Incr(HandlerCounts(c, t).ucount) = n
      BY <1>2, <2>1, <2>2, <2>3
    <2>. QED  BY <2>4 DEF CountsAfter, c
  <1>. QED  BY <1>3, <1>4

\* The caller counts it too, and returns its number.
LEMMA CountedByCaller ==
  ASSUME CountsFit, NEW s \in Slots(Tasks), NEW n \in Nat, n < 2 * Iters,
         CountsAfter(s, n, TRUE)
  PROVE  CountsAfter(UserCounts(s), n + 1, FALSE) /\ ProbeResult(UserCounts(s)) = n
  <1>0. IntHalf \in Nat /\ Iters \in Nat /\ n \in 0 .. (IntHalf - 1)
    BY WidthFacts, ParameterFacts DEF CountsFit
  <1>1. s.kcount = n /\ Incr(s.ucount) = n
    BY DEF CountsAfter
  <1>2. UserCounts(s).kcount = n /\ UserCounts(s).ucount = n
    BY <1>1 DEF UserCounts, Slots
  <1>3. ProbeResult(UserCounts(s)) = n
    BY <1>0, <1>2, ToIntSmall DEF ProbeResult
  <1>. QED  BY <1>2, <1>3 DEF CountsAfter

\* A thread that makes no step within a call stays well.
LEMMA ThreadWellStays ==
  ASSUME test' = test, NEW t \in Threads, ThreadWell(t), pc'[t] # "garbage",
         pc'[t] \in {"store", "return"} <=> pc[t] \in {"store", "return"},
         calls'[t] = calls[t], slot'[t] = slot[t], result'[t] = result[t],
         waited'[t] \in {"none", "exit0"}
  PROVE  ThreadWell(t)'
  <1>1. HasSlots' = HasSlots
    BY TestStays
  <1>2. CountsAfter(slot[t], calls[t], InHandler(t))' <=>
          CountsAfter(slot[t], calls[t], InHandler(t))
    BY DEF CountsAfter, InHandler, NotCounting, Incr
  <1>. QED  BY <1>1, <1>2 DEF ThreadWell

\* One task has moved.
LEMMA OneWell ==
  ASSUME WellInv, test' = test, childHits' = childHits, NEW p \in Tasks,
         \A q \in Tasks : q # p => /\ pc'[q] = pc[q] /\ calls'[q] = calls[q]
                                   /\ slot'[q] = slot[q],
         \A u \in Threads : u # p => result'[u] = result[u] /\ waited'[u] = waited[u],
         \A c \in Children : c # p => status'[c] = status[c],
         p \in Threads => ThreadWell(p)',
         p \in Children => ChildWell(p)'
  PROVE  WellInv'
  <1>1. ASSUME NEW u \in Threads PROVE ThreadWell(u)'
    <2>1. CASE u # p
      <3>1. ThreadWell(u) /\ u \in Tasks
        BY ParameterFacts DEF WellInv
      <3>2. pc[u] # "garbage" /\ waited[u] \in {"none", "exit0"}
        BY <3>1 DEF ThreadWell
      <3>. QED  BY <2>1, <3>1, <3>2, ThreadWellStays
    <2>2. CASE u = p
      <3>1. p \in Threads
        BY <2>2
      <3>2. ThreadWell(p)'
        BY <3>1
      <3>. QED  BY <2>2, <3>2
    <2>. QED  BY <2>1, <2>2
  <1>2. ASSUME NEW c \in Children PROVE ChildWell(c)'
    <2>1. CASE c # p
      BY <2>1, ParameterFacts DEF WellInv, ChildWell, NotCounting
    <2>2. CASE c = p
      <3>1. p \in Children
        BY <2>2
      <3>2. ChildWell(p)'
        BY <3>1
      <3>. QED  BY <2>2, <3>2
    <2>. QED  BY <2>1, <2>2
  <1>. QED  BY <1>1, <1>2 DEF WellInv

\* A thread's calls are those it has slots for.
LEMMA SlotCalls ==
  ASSUME HarnessInv, HasSlots, NEW t \in Threads,
         pc[t] \in {"call", "store", "return"}
  PROVE  calls[t] \in Nat /\ calls[t] < 2 * Iters /\ slot[t] \in Slots(Tasks)
  <1>1. t \in Tasks
    BY ParameterFacts
  <1>2. calls[t] \in Nat /\ calls[t] < AllCalls
    BY <1>1, InCall DEF HarnessInv
  <1>3. AllCalls = 2 * Iters
    BY DEF AllCalls, HasSlots, Probeme6
  <1>. QED  BY <1>1, <1>2, <1>3 DEF HarnessInv, TypeInv, TaskType

\* A healthy test that uses slots makes two calls of each probe point, and an int
\* can count them.
LEMMA HealthyWidths ==
  ASSUME test \in Tests, Healthy, KtidHarmless, HasSlots
  PROVE  Iters = 1 /\ CountsFit
  <1>1. Program = "fork_thread"
    BY HealthyPrograms DEF Healthy, HasSlots
  <1>2. ForkThreadRuns
    BY <1>1 DEF ForkThreadRuns, Program
  <1>3. test.inode \in ULong /\ test.inode \in Nat
    BY ForkAssumption, WidthFacts DEF ULong
  <1>4. ToInt(test.inode) \in Int
    BY <1>3, ToIntType
  <1>5. WideLong /\ ToInt(test.inode) > 0
    BY <1>1, <1>4 DEF Healthy, Misprinted
  <1>6. IntHalf # 1
    <2>1. ASSUME NEW x \in Nat, IntHalf = 1 PROVE ToInt(x) <= 0
      BY <2>1 DEF ToInt
    <2>. QED  BY <1>3, <1>4, <1>5, <2>1
  <1>7. Iters = 1
    BY <1>2, <1>5 DEF KtidHarmless
  <1>. QED  BY <1>6, <1>7, WidthFacts DEF CountsFit

\* The steps of a call.
LEMMA CallWell ==
  ASSUME KtidHarmless, HarnessInv, Healthy, CalmInv, WellInv,
         test' = test, NEW t \in Threads,
         \/ Hit(t) \/ ParentReturns(t) \/ Store(t)
         \/ Negative /\ (Miss(t) \/ Exits(t))
  PROVE  WellInv'
  <1>0. /\ pc \in [Tasks -> {"none", "garbage", "fork", "call", "store", "return",
                             "say", "wait", "done", "zombie", "reaped"}]
        /\ slot \in [Tasks -> Slots(Tasks)] /\ result \in [Threads -> Int]
        /\ calls \in [Tasks -> 0 .. AllCalls]
        /\ t \in Tasks /\ t \notin Children /\ HasSlots' = HasSlots
        /\ \A u \in Threads : u \in Tasks
        /\ AllCalls' = AllCalls
    BY ParameterFacts, TestStays DEF HarnessInv, TypeInv, TaskType
  <1>1. ThreadWell(t)
    BY DEF WellInv
  <1>2. CASE Hit(t)
    <2>1. /\ pc[t] = "call" /\ pc'[t] = "store"
          /\ \A q \in Tasks : q # t => pc'[q] = pc[q] /\ slot'[q] = slot[q]
          /\ slot'[t] = IF HasSlots THEN HandlerCounts(Claimed(t), t) ELSE slot[t]
          /\ UNCHANGED <<calls, result, waited, status, childHits>>
      BY <1>0, <1>2 DEF Hit
    <2>2. ASSUME HasSlots
          PROVE  CountsAfter(slot'[t], calls[t], TRUE)
      <3>1. CountsAfter(slot[t], calls[t], FALSE)
        <4>1. InHandler(t) = FALSE
          BY <2>1 DEF InHandler
        <4>. QED  BY <1>1, <2>2, <4>1 DEF ThreadWell
      <3>2. slot'[t] = HandlerCounts([slot[t] EXCEPT !.utid = t], t)
        BY <2>1, <2>2 DEF Claimed
      <3>3. calls[t] \in Nat /\ calls[t] < 2 * Iters /\ slot[t] \in Slots(Tasks)
        BY <2>1, <2>2, SlotCalls
      <3>4. CountsAfter(HandlerCounts([slot[t] EXCEPT !.utid = t], t), calls[t], TRUE)
        <4>1. t \in Tasks
          BY <1>0
        <4>2. Iters = 1 /\ CountsFit
          BY <2>2, HealthyWidths DEF HarnessInv, TypeInv, TestType
        <4>. QED  BY <3>1, <3>3, <4>1, <4>2, CountedByHandler
      <3>. QED  BY <3>2, <3>4
    <2>3. ThreadWell(t)'
      <3>1. InHandler(t)' = TRUE
        BY <2>1 DEF InHandler
      <3>2. CountsAfter(slot[t], calls[t], InHandler(t))' <=>
              CountsAfter(slot'[t], calls[t], TRUE)
        BY <2>1, <3>1 DEF CountsAfter, NotCounting, Incr
      <3>. QED  BY <1>0, <1>1, <2>1, <2>2, <3>2 DEF ThreadWell
    <2>. QED  BY <1>0, <2>1, <2>3, OneWell
  <1>3. CASE Store(t) \/ (Negative /\ (Miss(t) \/ Exits(t)))
    <2>1. /\ pc[t] \in {"store", "call"} /\ pc'[t] \in {"return", "done"}
          /\ \A q \in Tasks : q # t => pc'[q] = pc[q] /\ slot'[q] = slot[q]
          /\ UNCHANGED <<calls, result, waited, status, childHits>>
      BY <1>0, <1>3 DEF Store, Miss, Exits, countVars
    <2>2. \/ Negative
          \/ slot'[t] = slot[t] /\ pc[t] = "store" /\ pc'[t] = "return"
      BY <1>0, <1>3 DEF Store
    <2>3. Negative => ~ HasSlots
      BY DEF Negative, HasSlots
    <2>4. ThreadWell(t)'
      <3>1. CASE Negative
        BY <1>0, <1>1, <2>1, <2>3, <3>1 DEF ThreadWell
      <3>2. CASE ~ Negative
        BY <1>1, <2>1, <2>2, <3>2, ThreadWellStays DEF ThreadWell
      <3>. QED  BY <3>1, <3>2
    <2>. QED  BY <1>0, <2>1, <2>4, OneWell
  <1>4. CASE ParentReturns(t)
    <2>. DEFINE r == IF HasSlots THEN ProbeResult(slot'[t]) ELSE 0
                n == calls[t] + 1
    <2>1. /\ pc[t] = "return" /\ UNCHANGED <<waited, status, childHits>>
          /\ calls'[t] = n
          /\ \A q \in Tasks : q # t => calls'[q] = calls[q] /\ slot'[q] = slot[q]
          /\ slot'[t] = IF HasSlots THEN UserCounts(slot[t]) ELSE slot[t]
      BY <1>0, <1>4 DEF ParentReturns, Returns, countVars
    <2>2. HasSlots => /\ r = calls[t]
                      /\ CountsAfter(slot'[t], n, FALSE)
      <3>1. ASSUME HasSlots PROVE CountsAfter(slot[t], calls[t], TRUE)
        <4>1. InHandler(t) = TRUE
          BY <2>1 DEF InHandler
        <4>. QED  BY <1>1, <3>1, <4>1 DEF ThreadWell
      <3>2. HasSlots => CountsFit
        BY HealthyWidths DEF HarnessInv, TypeInv, TestType
      <3>. QED  BY <2>1, <3>1, <3>2, SlotCalls, CountedByCaller
    <2>3. r \in Int /\ ~ (r < 0)
      <3>1. calls[t] \in Nat
        BY MadeType
      <3>2. r = calls[t] \/ r = 0
        BY <2>2
      <3>. HIDE DEF r
      <3>. QED  BY <3>1, <3>2
    <2>4. /\ pc' = [pc EXCEPT ![t] =
                      IF r < 0 THEN "done" ELSE IF n = Iters THEN AfterRound
                      ELSE IF n = AllCalls THEN "done" ELSE "call"]
          /\ result' = [result EXCEPT ![t] =
                      IF r < 0 THEN r
                      ELSE IF n = AllCalls THEN StatusOf(waited[t]) ELSE 0]
      BY <1>4, <2>1 DEF ParentReturns
    <2>. HIDE DEF r
    <2>5. /\ pc'[t] \in {"done", "wait", "say", "call"}
          /\ \A q \in Tasks : q # t => pc'[q] = pc[q]
      BY <1>0, <2>4 DEF AfterRound
    <2>6. /\ result'[t] = 0
          /\ \A u \in Threads : u # t => result'[u] = result[u]
      <3>1. StatusOf(waited[t]) = 0
        BY <1>1 DEF ThreadWell, StatusOf
      <3>. QED  BY <1>0, <2>3, <2>4, <3>1
    <2>7. ThreadWell(t)'
      <3>1. InHandler(t)' = FALSE
        BY <2>5 DEF InHandler
      <3>2. CountsAfter(slot[t], calls[t], InHandler(t))' <=>
              CountsAfter(slot'[t], n, FALSE)
        BY <2>1, <3>1 DEF CountsAfter, NotCounting, Incr
      <3>. QED  BY <1>0, <1>1, <2>1, <2>2, <2>5, <2>6, <3>2 DEF ThreadWell
    <2>. QED  BY <1>0, <2>1, <2>5, <2>6, <2>7, OneWell
  <1>. QED  BY <1>2, <1>3, <1>4


\* No task has moved that a count depends on.
LEMMA WellStays ==
  ASSUME WellInv, test' = test, UNCHANGED <<taskVars, childHits>> PROVE WellInv'
  <1>0. UNCHANGED <<pc, calls, slot, result, waited, status>>
    BY DEF taskVars
  <1>1. ASSUME NEW t \in Threads PROVE ThreadWell(t)'
    <2>1. ThreadWell(t)
      BY DEF WellInv
    <2>2. pc[t] # "garbage" /\ waited[t] \in {"none", "exit0"}
      BY <2>1 DEF ThreadWell
    <2>. QED  BY <1>0, <2>1, <2>2, ThreadWellStays
  <1>2. ASSUME NEW c \in Children PROVE ChildWell(c)'
    BY <1>0 DEF WellInv, ChildWell, NotCounting
  <1>. QED  BY <1>1, <1>2 DEF WellInv

\* A thread comes to its next call, or into being.
LEMMA ThreadGoesOn ==
  ASSUME HarnessInv, WellInv, test' = test, NEW t \in Threads,
         NEW v \in {"fork", "call"}, pc[t] \notin {"store", "return"},
         pc' = [pc EXCEPT ![t] = v],
         UNCHANGED <<calls, slot, result, waited, status, childHits>>
  PROVE  WellInv'
  <1>1. /\ pc'[t] = v /\ t \in Tasks /\ t \notin Children
        /\ \A q \in Tasks : q # t => pc'[q] = pc[q]
    BY ParameterFacts DEF HarnessInv, TypeInv, TaskType
  <1>2. ThreadWell(t)
    BY DEF WellInv
  <1>3. waited[t] \in {"none", "exit0"}
    BY <1>2 DEF ThreadWell
  <1>4. ThreadWell(t)'
    BY <1>1, <1>2, <1>3, ThreadWellStays
  <1>. QED  BY <1>1, <1>4, OneWell

\* The copy of a slot that has not been counted is not counted either.
LEMMA ForkWell ==
  ASSUME HarnessInv, PassInv, WellInv, test' = test, NEW t \in Threads, Fork(t)
  PROVE  WellInv'
  <1>0. /\ pc \in [Tasks -> {"none", "garbage", "fork", "call", "store", "return",
                             "say", "wait", "done", "zombie", "reaped"}]
        /\ slot \in [Tasks -> Slots(Tasks)]
    BY DEF HarnessInv, TypeInv, TaskType
  <1>a. /\ t \in Tasks /\ Child(t) \in Children /\ Child(t) \in Tasks
        /\ \A u \in Threads : u \in Tasks /\ u # Child(t)
        /\ \A c \in Children : c \in Tasks /\ c # t
    BY ParameterFacts
  <1>1. /\ pc[t] = "fork"
        /\ pc' = [pc EXCEPT ![t] = "call", ![Child(t)] = "call"]
        /\ slot' = [slot EXCEPT ![Child(t)] = slot[t]]
        /\ UNCHANGED <<calls, result, waited, status, childHits>>
    BY DEF Fork, countVars
  <1>2. /\ pc'[t] = "call" /\ pc'[Child(t)] = "call"
        /\ \A q \in Tasks : (q # t /\ q # Child(t)) => pc'[q] = pc[q]
        /\ slot'[Child(t)] = slot[t]
        /\ \A q \in Tasks : q # Child(t) => slot'[q] = slot[q]
    BY <1>0, <1>a, <1>1
  <1>3. slot[t].kcount = NotCounting
    BY <1>1 DEF PassInv, ChildHitInv
  <1>4. ASSUME NEW u \in Threads PROVE ThreadWell(u)'
    <2>1. ThreadWell(u)
      BY DEF WellInv
    <2>2. waited[u] \in {"none", "exit0"} /\ pc[u] # "garbage"
      BY <2>1 DEF ThreadWell
    <2>3. pc'[u] # "garbage" /\ (pc'[u] \in {"store", "return"} <=>
                                   pc[u] \in {"store", "return"})
      <3>1. CASE u = t
        BY <1>1, <1>2, <3>1
      <3>2. CASE u # t
        BY <1>a, <1>2, <2>2, <3>2
      <3>. QED  BY <3>1, <3>2
    <2>4. slot'[u] = slot[u]
      BY <1>a, <1>2
    <2>. QED  BY <1>1, <2>1, <2>2, <2>3, <2>4, ThreadWellStays
  <1>5. ASSUME NEW c \in Children PROVE ChildWell(c)'
    <2>0. ChildWell(c)
      BY DEF WellInv
    <2>1. CASE c = Child(t)
      BY <1>1, <1>2, <1>3, <2>0, <2>1 DEF ChildWell, NotCounting
    <2>2. CASE c # Child(t)
      BY <1>a, <1>1, <1>2, <2>0, <2>2 DEF ChildWell, NotCounting
    <2>. QED  BY <2>1, <2>2
  <1>. QED  BY <1>1, <1>4, <1>5 DEF WellInv

\* The child that is waited for has ended well.
LEMMA WaitWell ==
  ASSUME HarnessInv, ChildForEach, WellInv, test' = test, NEW t \in Threads, Wait(t)
  PROVE  WellInv'
  <1>0. /\ pc \in [Tasks -> {"none", "garbage", "fork", "call", "store", "return",
                             "say", "wait", "done", "zombie", "reaped"}]
        /\ waited \in [Threads -> {"none", "exit0", "exit1", "signal"}]
        /\ result \in [Threads -> Int]
    BY DEF HarnessInv, TypeInv, TaskType
  <1>a. /\ t \in Tasks /\ \A u \in Threads : u \in Tasks /\ u \notin Children
        /\ \A c \in Children : c \in Tasks /\ c # t
    BY ParameterFacts
  <1>1. PICK c \in Children :
             /\ pc[c] = "zombie"
             /\ pc' = [pc EXCEPT ![c] = "reaped",
                                 ![t] = IF HasSlots THEN "call" ELSE "done"]
             /\ waited' = [waited EXCEPT ![t] = status[c]]
    BY WaitFinds
  <1>2. /\ pc[t] = "wait"
        /\ result' = [result EXCEPT ![t] = IF HasSlots THEN 0 ELSE StatusOf(waited'[t])]
        /\ UNCHANGED <<calls, slot, status, childHits>>
    BY DEF Wait, countVars
  <1>3. /\ pc'[t] = (IF HasSlots THEN "call" ELSE "done") /\ pc'[c] = "reaped"
        /\ \A q \in Tasks : (q # t /\ q # c) => pc'[q] = pc[q]
        /\ waited'[t] = status[c]
        /\ \A u \in Threads : u # t => waited'[u] = waited[u] /\ result'[u] = result[u]
        /\ result'[t] = IF HasSlots THEN 0 ELSE StatusOf(status[c])
    BY <1>0, <1>a, <1>1, <1>2
  <1>4. status[c] \in {"none", "exit0"}
    BY DEF WellInv, ChildWell
  <1>5. result'[t] = 0
    BY <1>3, <1>4 DEF StatusOf
  <1>6. ASSUME NEW u \in Threads PROVE ThreadWell(u)'
    <2>1. ThreadWell(u)
      BY DEF WellInv
    <2>2. waited[u] \in {"none", "exit0"} /\ pc[u] # "garbage" /\ result[u] = 0
      BY <2>1 DEF ThreadWell
    <2>3. CASE u = t
      <3>1. /\ waited'[u] \in {"none", "exit0"} /\ result'[u] = result[u]
            /\ pc'[u] # "garbage"
            /\ pc'[u] \notin {"store", "return"} /\ pc[u] \notin {"store", "return"}
        BY <1>2, <1>3, <1>4, <1>5, <2>2, <2>3
      <3>. QED  BY <1>2, <2>1, <3>1, ThreadWellStays
    <2>4. CASE u # t
      <3>1. /\ waited'[u] \in {"none", "exit0"} /\ result'[u] = result[u]
            /\ pc'[u] = pc[u]
        BY <1>a, <1>3, <2>2, <2>4
      <3>. QED  BY <1>2, <2>1, <2>2, <3>1, ThreadWellStays
    <2>. QED  BY <2>3, <2>4
  <1>7. ASSUME NEW d \in Children PROVE ChildWell(d)'
    <2>1. ChildWell(d)
      BY DEF WellInv
    <2>2. pc'[d] # "store"
      <3>1. pc[d] # "store"
        BY <2>1 DEF ChildWell
      <3>. QED  BY <1>a, <1>3, <3>1
    <2>. QED  BY <1>2, <2>1, <2>2 DEF ChildWell, NotCounting
  <1>. QED  BY <1>2, <1>6, <1>7 DEF WellInv

\* A child's calls go uncounted, and it ends well.
LEMMA ChildStepWell ==
  ASSUME HarnessInv, WellInv, test' = test, NEW c \in Children,
         Miss(c) \/ ChildReturns(c)
  PROVE  WellInv'
  <1>0. /\ pc \in [Tasks -> {"none", "garbage", "fork", "call", "store", "return",
                             "say", "wait", "done", "zombie", "reaped"}]
        /\ slot \in [Tasks -> Slots(Tasks)] /\ slot[c] \in Slots(Tasks)
        /\ status \in [Children -> {"none", "exit0", "exit1", "signal"}]
        /\ calls \in [Tasks -> 0 .. AllCalls]
        /\ c \in Tasks /\ c \notin Threads
    BY ParameterFacts DEF HarnessInv, TypeInv, TaskType
  <1>1. ChildWell(c)
    BY DEF WellInv
  <1>2. CASE Miss(c)
    <2>1. /\ pc'[c] = "return" /\ slot'[c] = Claimed(c)
          /\ \A q \in Tasks : q # c => pc'[q] = pc[q] /\ slot'[q] = slot[q]
          /\ UNCHANGED <<calls, result, waited, status, childHits>>
      BY <1>0, <1>2 DEF Miss, countVars
    <2>2. Claimed(c).kcount = slot[c].kcount
      BY <1>0, ClaimedType DEF HarnessInv
    <2>3. ChildWell(c)'
      BY <1>1, <2>1, <2>2 DEF ChildWell, NotCounting
    <2>. QED  BY <1>0, <2>1, <2>3, OneWell
  <1>3. CASE ChildReturns(c)
    <2>1. /\ slot'[c] = (IF HasSlots THEN UserCounts(slot[c]) ELSE slot[c])
          /\ \A q \in Tasks : q # c => slot'[q] = slot[q] /\ calls'[q] = calls[q]
          /\ UNCHANGED <<result, waited, childHits>>
      BY <1>0, <1>3 DEF ChildReturns, Returns, countVars
    <2>2. slot[c].kcount = NotCounting
      BY <1>1 DEF ChildWell
    <2>3. slot'[c].kcount = NotCounting
      BY <1>0, <2>1, <2>2 DEF UserCounts, Slots
    <2>4. ~ ChildSeesProbe(c)
      BY <2>3, ToIntNotCounting DEF ChildSeesProbe, ProbeResult
    <2>5. /\ \E e \in BOOLEAN :
               /\ pc' = [pc EXCEPT ![c] = IF e THEN "zombie" ELSE "call"]
               /\ status' = [status EXCEPT ![c] = IF ~ e THEN "none" ELSE "exit0"]
      <3>. DEFINE e == ChildSeesProbe(c) \/ calls'[c] = Iters
      <3>1. /\ e \in BOOLEAN
            /\ pc' = [pc EXCEPT ![c] = IF e THEN "zombie" ELSE "call"]
            /\ status' = [status EXCEPT ![c] = IF ~ e THEN "none" ELSE "exit0"]
        BY <1>3, <2>4 DEF ChildReturns
      <3>. QED  BY <3>1
    <2>6. /\ pc'[c] \in {"zombie", "call"} /\ status'[c] \in {"none", "exit0"}
          /\ \A q \in Tasks : q # c => pc'[q] = pc[q]
          /\ \A d \in Children : d # c => status'[d] = status[d]
      BY <1>0, <2>5
    <2>7. ChildWell(c)'
      BY <2>3, <2>6 DEF ChildWell, NotCounting
    <2>. QED  BY <1>0, <2>1, <2>6, <2>7, OneWell
  <1>. QED  BY <1>2, <1>3

\* WellInv is inductive: the two counts of a slot agree after every call.
LEMMA WellInvStep ==
  ASSUME KtidHarmless, HarnessInv, PassInv, Healthy, CalmInv, ChildForEach,
         WellInv, Next, Healthy'
  PROVE  WellInv'
  <1>0. test' = test
    BY NextTest
  <1>1. CASE Script \/ Expect \/ UNCHANGED vars
    <2>1. UNCHANGED <<taskVars, childHits>>
      BY <1>1
      DEF Script, Check, Insmod, Continue, Kill, WaitForJob, Expect, SeePassed,
          SeeEnd, RunByHand, SeeLine, EndMod, Compare, Rmmod, forkVars, countVars, vars
    <2>. QED  BY <1>0, <2>1, WellStays
  <1>2. CASE Stop \/ Join
    <2>1. UNCHANGED <<taskVars, childHits>>
      BY <1>2 DEF Stop, Join, countVars
    <2>. QED  BY <1>0, <2>1, WellStays
  <1>3. CASE Create
    <2>1. created + 1 \in Threads /\ created + 1 > created
      <3>1. created < Workers /\ created \in Nat /\ Workers \in Nat
            /\ Workers <= NumThreads
        BY <1>3, ProgramFacts DEF Create, HarnessInv, TypeInv, TestType, MainType
      <3>. QED  BY <3>1, ParameterFacts
    <2>2. pc[created + 1] = "none"
      BY <2>1 DEF HarnessInv, MainInv
    <2>3. /\ pc' = [pc EXCEPT ![created + 1] = IF Forks THEN "fork" ELSE "call"]
          /\ UNCHANGED <<calls, slot, result, waited, status, childHits>>
      BY <1>3 DEF Create, countVars
    <2>. QED  BY <1>0, <2>1, <2>2, <2>3, ThreadGoesOn
  <1>4. CASE SayPassed
    <2>1. /\ 1 \in Threads /\ pc[1] = "say" /\ pc' = [pc EXCEPT ![1] = "call"]
          /\ UNCHANGED <<calls, slot, result, waited, status, childHits>>
      BY <1>4, ParameterFacts DEF SayPassed, countVars
    <2>. QED  BY <1>0, <2>1, ThreadGoesOn
  <1>5. ASSUME NEW t \in Threads,
               \/ Fork(t) \/ Wait(t) \/ Store(t) \/ ParentReturns(t)
               \/ Hit(t) /\ ~ Negative
               \/ Miss(t) /\ Negative
               \/ Exits(t) /\ Negative
        PROVE  WellInv'
    <2>1. CASE Fork(t)
      BY <1>0, <2>1, ForkWell
    <2>2. CASE Wait(t)
      BY <1>0, <2>2, WaitWell
    <2>3. CASE Hit(t)
      BY <1>0, <2>3, CallWell
    <2>4. CASE Store(t)
      BY <1>0, <2>4, CallWell
    <2>5. CASE ParentReturns(t)
      BY <1>0, <2>5, CallWell
    <2>6. CASE Negative /\ (Miss(t) \/ Exits(t))
      BY <1>0, <2>6, CallWell
    <2>. QED  BY <1>5, <2>1, <2>2, <2>3, <2>4, <2>5, <2>6
  <1>6. ASSUME NEW c \in Children, Miss(c) \/ ChildReturns(c) PROVE WellInv'
    BY <1>0, <1>6, ChildStepWell
  <1>7. CASE ProgramStep
    BY <1>7, <1>2, <1>3, <1>4, <1>5, <1>6, HealthySteps
  <1>. QED  BY <1>1, <1>7 DEF Next, Progress, ProgramStep, Done, Hangs

\* No more hits than the threads have calls, and that few fit the counter.
LEMMA HitsBound ==
  ASSUME CounterFits, HarnessInv, PassInv, Healthy, WellInv, ~ Negative, attached
  PROVE  hits = Cardinality(MadeSet) /\ hits \in Nat /\ hits < ULongMod
  <1>0. /\ test \in Tests /\ Iters \in Nat /\ Iters > 0
        /\ NumThreads \in Nat /\ NumThreads > 0
        /\ Workers \in Nat /\ Workers > 0 /\ Workers <= NumThreads
        /\ AllCalls \in Nat
    BY ParameterFacts, ProgramFacts DEF HarnessInv, TypeInv, TestType
  <1>1. Program \in Kinds \ {"fork_and_defunc", "suicide"} /\ ~ ByHand
    BY <1>0, HealthyPrograms DEF Healthy, Negative
  <1>2. hits = childHits + Cardinality(MadeSet) /\ childHits = 0
    BY <1>1 DEF PassInv, ParentHits, WellInv
  <1>3. hits = Cardinality(MadeSet) /\ hits \in Nat
    BY <1>2, HitsType
  <1>4. Cardinality(MadeSet) <= Workers * AllCalls
    <2>1. ASSUME NEW t \in Threads
          PROVE  Made(t) <= IF t <= Workers THEN AllCalls ELSE 0
      <3>1. Made(t) <= AllCalls
        BY <1>0, MadeType
      <3>2. t > Workers => Made(t) = 0
        BY MadeNone
      <3>3. t \in Nat
        BY ParameterFacts
      <3>. QED  BY <1>0, <3>1, <3>2, <3>3
    <2>2. Workers \in 1 .. NumThreads /\ AllCalls \in 0 .. AllCalls
      BY <1>0
    <2>. QED  BY <2>1, <2>2, MadeAll
  <1>5. Workers * AllCalls < ULongMod
    <2>0. /\ (2 * Iters) * NumThreads \in Nat /\ 2 * Iters <= (2 * Iters) * NumThreads
          /\ ULongMod \in Nat
          /\ (2 * Iters) * NumThreads < ULongMod
      BY <1>0, WidthFacts DEF CounterFits
    <2>a. ULongMod # 3
      <3>1. PICK k \in 1 .. ULongMod : ULongMod = k * (2 * IntHalf)
        BY WidthAssumption
      <3>2. IntHalf \in Nat /\ k \in Nat
        BY WidthAssumption
      <3>. DEFINE half == k * IntHalf
      <3>3. half \in Nat /\ k * (2 * IntHalf) = 2 * half
        BY <3>2
      <3>. HIDE DEF half
      <3>. QED  BY <3>1, <3>3
    <2>1. CASE Program = "fork_thread"
      <3>1. Workers = NumThreads /\ AllCalls = 2 * Iters
        BY <2>1 DEF Workers, Single, Probeme6, AllCalls
      <3>. QED  BY <1>0, <2>0, <3>1
    <2>2. CASE Program = "probe8-fork"
      <3>1. Workers = 1 /\ AllCalls = 2 * Iters
        BY <2>2 DEF Workers, Single, Probeme6, AllCalls
      <3>. QED  BY <1>0, <2>0, <3>1
    <2>3. CASE Program = "probe7-thread"
      <3>1. Workers = 2 /\ AllCalls = 2 * Iters
        BY <2>3 DEF Workers, Single, Probeme6, AllCalls
      <3>2. (2 * Iters) * 2 <= (2 * Iters) * NumThreads
        BY <1>0, <3>1
      <3>. QED  BY <1>0, <2>0, <3>1, <3>2
    <2>4. CASE Program = "probeme6"
      <3>1. Workers = 1 /\ AllCalls = Iters + 2
        BY <2>4, LastCallsFacts DEF Workers, Single, Probeme6, AllCalls
      <3>2. Iters + 2 < ULongMod
        <4>1. CASE Iters = 1
          BY <2>0, <2>a, <4>1
        <4>2. CASE Iters > 1
          BY <1>0, <2>0, <4>2
        <4>. QED  BY <1>0, <4>1, <4>2
      <3>. QED  BY <1>0, <2>0, <3>1, <3>2
    <2>. QED  BY <1>1, <2>1, <2>2, <2>3, <2>4 DEF Kinds
  <1>6. Workers * AllCalls \in Nat /\ ULongMod \in Nat
    BY <1>0, WidthFacts
  <1>. QED  BY <1>3, <1>4, <1>5, <1>6

\* No handler has begun or ended.
LEMMA CounterStays ==
  ASSUME CounterInv, test' = test, UNCHANGED <<counter, hits, tmp>>,
         \A p \in Tasks : pc'[p] = "store" <=> pc[p] = "store"
  PROVE  CounterInv'
  BY TestStays DEF CounterInv

\* A handler begins, and no other is at work.
LEMMA CounterHit ==
  ASSUME HarnessInv, CounterInv, test' = test, NEW t \in Tasks, Hit(t), ~ overlap'
  PROVE  CounterInv'
  <1>1. \A u \in Tasks : pc[u] # "store"
    BY DEF Hit, HarnessInv, TypeInv, TestType
  <1>2. /\ pc'[t] = "store" /\ \A q \in Tasks : q # t => pc'[q] = pc[q]
        /\ tmp'[t] = counter /\ counter' = counter /\ hits' = hits + 1
    BY DEF Hit, HarnessInv, TypeInv, TaskType
  <1>3. ~ Negative => counter = hits
    BY <1>1 DEF CounterInv
  <1>. QED  BY <1>1, <1>2, <1>3, TestStays DEF CounterInv

\* The handler that is at work stores what it has loaded, plus one.
LEMMA CounterStore ==
  ASSUME CounterFits, HarnessInv, PassInv, Healthy, CalmInv, WellInv, CounterInv,
         test' = test, NEW t \in Tasks, Store(t)
  PROVE  CounterInv'
  <1>0. SUFFICES ASSUME ~ Negative PROVE CounterInv'
    BY TestStays DEF CounterInv
  <1>1. /\ pc[t] = "store" /\ pc'[t] = "return" /\ counter' = Incr(tmp[t])
        /\ \A q \in Tasks : q # t => pc'[q] = pc[q]
        /\ hits' = hits
    BY DEF Store, HarnessInv, TypeInv, TaskType
  <1>2. /\ tmp[t] = counter /\ hits = counter + 1
        /\ \A q \in Tasks : pc[q] = "store" => q = t
    BY <1>0, <1>1 DEF CounterInv
  <1>3. \A q \in Tasks : pc'[q] # "store"
    BY <1>1, <1>2
  <1>4. counter' = hits
    <2>1. attached
      BY <1>1, UnderModule
    <2>2. hits \in Nat /\ hits < ULongMod /\ ULongMod \in Nat /\ counter \in Nat
      BY <1>0, <2>1, HitsBound, WidthFacts DEF HarnessInv, TypeInv, CountType, ULong
    <2>. QED  BY <1>1, <1>2, <2>2 DEF Incr
  <1>. QED  BY <1>1, <1>3, <1>4 DEF CounterInv

\* CounterInv is inductive.
LEMMA CounterInvStep ==
  ASSUME CounterFits, HarnessInv, PassInv, Healthy, CalmInv, ChildForEach, WellInv,
         CounterInv, Next, Healthy'
  PROVE  CounterInv'
  <1>0. /\ test' = test
        /\ pc \in [Tasks -> {"none", "garbage", "fork", "call", "store", "return",
                             "say", "wait", "done", "zombie", "reaped"}]
    BY NextTest DEF HarnessInv, TypeInv, TaskType
  <1>a. /\ \A t \in Threads : /\ t \in Tasks /\ t \notin Children
                              /\ Child(t) \in Children /\ Child(t) \in Tasks
        /\ \A c \in Children : c \in Tasks /\ c \notin Threads
    BY ParameterFacts
  <1>1. CASE Script \/ Expect \/ UNCHANGED vars
    <2>1. UNCHANGED <<counter, hits, tmp, pc>>
      BY <1>1
      DEF Script, Check, Insmod, Continue, Kill, WaitForJob, Expect, SeePassed,
          SeeEnd, RunByHand, SeeLine, EndMod, Compare, Rmmod, forkVars, countVars,
          taskVars, vars
    <2>. QED  BY <1>0, <2>1, CounterStays
  <1>2. CASE Stop \/ Join
    <2>1. UNCHANGED <<counter, hits, tmp, pc>>
      BY <1>2 DEF Stop, Join, countVars, taskVars
    <2>. QED  BY <1>0, <2>1, CounterStays
  <1>3. ASSUME NEW p \in Tasks, NEW v, v # "store", pc[p] # "store",
               pc' = [pc EXCEPT ![p] = v], UNCHANGED <<counter, hits, tmp>>
        PROVE  CounterInv'
    <2>1. pc'[p] = v /\ \A q \in Tasks : q # p => pc'[q] = pc[q]
      BY <1>0, <1>3
    <2>. QED  BY <1>0, <1>3, <2>1, CounterStays
  <1>4. CASE Create
    <2>1. created + 1 \in Threads /\ created + 1 > created
      <3>1. created < Workers /\ created \in Nat /\ Workers \in Nat
            /\ Workers <= NumThreads
        BY <1>4, ProgramFacts DEF Create, HarnessInv, TypeInv, TestType, MainType
      <3>. QED  BY <3>1, ParameterFacts
    <2>2. pc[created + 1] = "none" /\ created + 1 \in Tasks
      BY <1>a, <2>1 DEF HarnessInv, MainInv
    <2>3. /\ pc' = [pc EXCEPT ![created + 1] = IF Forks THEN "fork" ELSE "call"]
          /\ UNCHANGED <<counter, hits, tmp>>
      BY <1>4 DEF Create, countVars
    <2>. QED  BY <1>3, <2>2, <2>3
  <1>5. CASE SayPassed
    <2>1. /\ 1 \in Tasks /\ pc[1] = "say" /\ pc' = [pc EXCEPT ![1] = "call"]
          /\ UNCHANGED <<counter, hits, tmp>>
      BY <1>5, <1>a, ParameterFacts DEF SayPassed, countVars
    <2>. QED  BY <1>3, <2>1
  <1>6. ASSUME NEW t \in Threads, Fork(t) PROVE CounterInv'
    <2>1. /\ pc[t] = "fork" /\ UNCHANGED <<counter, hits, tmp>>
          /\ pc' = [pc EXCEPT ![t] = "call", ![Child(t)] = "call"]
      BY <1>6 DEF Fork, countVars
    <2>2. pc[Child(t)] = "none"
      BY <2>1 DEF HarnessInv, ForkInv
    <2>3. /\ pc'[t] = "call" /\ pc'[Child(t)] = "call"
          /\ \A q \in Tasks : (q # t /\ q # Child(t)) => pc'[q] = pc[q]
      BY <1>0, <1>a, <2>1
    <2>4. \A q \in Tasks : pc'[q] = "store" <=> pc[q] = "store"
      BY <2>1, <2>2, <2>3
    <2>. QED  BY <1>0, <2>1, <2>4, CounterStays
  <1>7. ASSUME NEW t \in Threads, Wait(t) PROVE CounterInv'
    <2>1. PICK c \in Children :
               /\ pc[c] = "zombie"
               /\ pc' = [pc EXCEPT ![c] = "reaped",
                                   ![t] = IF HasSlots THEN "call" ELSE "done"]
      BY <1>7, WaitFinds
    <2>2. pc[t] = "wait" /\ UNCHANGED <<counter, hits, tmp>>
      BY <1>7 DEF Wait, countVars
    <2>3. /\ pc'[t] # "store" /\ pc'[c] # "store"
          /\ \A q \in Tasks : (q # t /\ q # c) => pc'[q] = pc[q]
      BY <1>0, <1>a, <2>1
    <2>4. \A q \in Tasks : pc'[q] = "store" <=> pc[q] = "store"
      BY <2>1, <2>2, <2>3
    <2>. QED  BY <1>0, <2>2, <2>4, CounterStays
  <1>8. ASSUME NEW t \in Threads, ParentReturns(t) \/ Miss(t) PROVE CounterInv'
    <2>1. /\ pc[t] \in {"call", "return"} /\ UNCHANGED <<counter, hits, tmp>>
          /\ \E v \in {"return", "done", "wait", "say", "call"} :
               pc' = [pc EXCEPT ![t] = v]
      BY <1>8 DEF ParentReturns, Returns, Miss, AfterRound, countVars
    <2>. QED  BY <1>3, <1>a, <2>1
  <1>9. ASSUME NEW c \in Children, Miss(c) \/ ChildReturns(c) PROVE CounterInv'
    <2>1. /\ pc[c] \in {"call", "return"} /\ UNCHANGED <<counter, hits, tmp>>
          /\ \E v \in {"return", "zombie", "call"} : pc' = [pc EXCEPT ![c] = v]
      BY <1>9 DEF Miss, ChildReturns, Returns, countVars
    <2>. QED  BY <1>3, <1>a, <2>1
  <1>10. ASSUME NEW t \in Threads, Hit(t) PROVE CounterInv'
    BY <1>0, <1>10, <1>a, CounterHit DEF Healthy
  <1>11. ASSUME NEW t \in Threads, Store(t) PROVE CounterInv'
    BY <1>0, <1>11, <1>a, CounterStore
  <1>12. CASE Negative
    BY <1>0, <1>12, TestStays DEF CounterInv
  <1>13. CASE ProgramStep
    BY <1>13, <1>2, <1>4, <1>5, <1>6, <1>7, <1>8, <1>9, <1>10, <1>11, <1>12,
       HealthySteps
  <1>. QED  BY <1>1, <1>13 DEF Next, Progress, ProgramStep, Done, Hangs

\* The lines of the log after n calls.
LEMMA CallLogFacts ==
  ASSUME test \in Tests, NEW n \in Nat
  PROVE  /\ CallLog(n) \in Seq(Line) /\ Len(CallLog(n)) = n + 1
         /\ CallLog(n)[1] = Registration
         /\ \A i \in 1 .. n : CallLog(n)[i + 1] = Called(Function(i))
  <1>. DEFINE c == [i \in 1 .. n |-> Called(Function(i))]
  <1>1. \A i \in 1 .. n : Called(Function(i)) \in Line
    <2>1. ASSUME NEW i \in 1 .. n PROVE Function(i) \in Nat
      BY ParameterFacts DEF Function
    <2>. QED  BY <2>1, LineFacts
  <1>2. /\ c \in Seq(Line) /\ Len(c) = n
        /\ \A i \in 1 .. n : c[i] = Called(Function(i))
    BY <1>1
  <1>3. /\ <<Registration>> \in Seq(Line) /\ Len(<<Registration>>) = 1
        /\ <<Registration>>[1] = Registration
    BY RegistrationFacts
  <1>4. CallLog(n) = <<Registration>> \o c
    BY DEF CallLog
  <1>. HIDE DEF c
  <1>5. /\ CallLog(n) \in Seq(Line) /\ Len(CallLog(n)) = n + 1
        /\ CallLog(n)[1] = Registration
    BY <1>2, <1>3, <1>4, ConcatProperties
  <1>6. ASSUME NEW i \in 1 .. n PROVE CallLog(n)[i + 1] = Called(Function(i))
    <2>1. i + 1 \in 1 .. (1 + n) /\ ~ (i + 1 <= 1) /\ (i + 1) - 1 = i
      OBVIOUS
    <2>2. CallLog(n)[i + 1] = c[i]
      BY <1>2, <1>3, <1>4, <2>1, ConcatProperties
    <2>. QED  BY <1>2, <2>2
  <1>. QED  BY <1>5, <1>6

\* One call more.
LEMMA CallLogNext ==
  ASSUME test \in Tests, NEW n \in Nat
  PROVE  CallLog(n + 1) = Append(CallLog(n), Called(Function(n + 1)))
  <1>. DEFINE s == CallLog(n + 1)
              line == Called(Function(n + 1))
              t == Append(CallLog(n), line)
  <1>1. /\ s \in Seq(Line) /\ Len(s) = n + 2 /\ s[1] = Registration
        /\ \A i \in 1 .. (n + 1) : s[i + 1] = Called(Function(i))
    <2>1. n + 1 \in Nat /\ (n + 1) + 1 = n + 2
      OBVIOUS
    <2>2. /\ s \in Seq(Line) /\ Len(s) = (n + 1) + 1 /\ s[1] = Registration
          /\ \A i \in 1 .. (n + 1) : s[i + 1] = Called(Function(i))
      BY <2>1, CallLogFacts
    <2>. QED  BY <2>1, <2>2
  <1>2. line \in Line
    <2>1. Function(n + 1) \in Nat
      BY ParameterFacts DEF Function
    <2>. QED  BY <2>1, LineFacts
  <1>3. /\ CallLog(n) \in Seq(Line) /\ Len(CallLog(n)) = n + 1
        /\ CallLog(n)[1] = Registration
        /\ \A i \in 1 .. n : CallLog(n)[i + 1] = Called(Function(i))
    BY CallLogFacts
  <1>. HIDE DEF s, line
  <1>4. /\ t \in Seq(Line) /\ Len(t) = n + 2
        /\ \A i \in 1 .. (n + 1) : t[i] = CallLog(n)[i]
        /\ t[n + 2] = line
    BY <1>2, <1>3, AppendProperties
  <1>. HIDE DEF t
  <1>5. ASSUME NEW i \in 1 .. Len(s) PROVE s[i] = t[i]
    <2>1. CASE i = 1
      BY <1>1, <1>3, <1>4, <2>1
    <2>2. CASE i = n + 2
      <3>1. i = (n + 1) + 1 /\ n + 1 \in 1 .. (n + 1)
        BY <2>2
      <3>. QED  BY <1>1, <1>4, <2>2, <3>1 DEF line
    <2>3. CASE i # 1 /\ i # n + 2
      <3>1. PICK k \in 1 .. n : i = k + 1
        <4>1. i - 1 \in 1 .. n /\ i = (i - 1) + 1
          BY <1>1, <2>3
        <4>. QED  BY <4>1
      <3>2. k \in 1 .. (n + 1) /\ i \in 1 .. (n + 1)
        BY <3>1
      <3>. QED  BY <1>1, <1>3, <1>4, <3>1, <3>2
    <2>. QED  BY <2>1, <2>2, <2>3
  <1>6. s = t
    BY <1>1, <1>4, <1>5, SeqEqual
  <1>. QED  BY <1>6 DEF s, t, line

\* The log of a module that has just come.
LEMMA CallLogNone == ASSUME test \in Tests PROVE CallLog(0) = <<Registration>>
  <1>1. CallLog(0) \in Seq(Line) /\ Len(CallLog(0)) = 1 /\ CallLog(0)[1] = Registration
    <2>1. 0 \in Nat /\ 0 + 1 = 1
      OBVIOUS
    <2>2. CallLog(0) \in Seq(Line) /\ Len(CallLog(0)) = 0 + 1 /\ CallLog(0)[1] = Registration
      BY <2>1, CallLogFacts
    <2>. QED  BY <2>1, <2>2
  <1>2. <<Registration>> \in Seq(Line)
    BY RegistrationFacts
  <1>. QED  BY <1>1, <1>2, SeqEqual

\* No file differs from itself, nor can it do without its last line.
LEMMA DiffSelf ==
  ASSUME NEW S, NEW s \in Seq(S), s # <<>> PROVE Diff(s, s) = "same"
  <1>1. Len(s) \in Nat /\ Len(s) > 0 /\ DOMAIN s = 1 .. Len(s)
    BY LenProperties, EmptySeq
  <1>2. IsSubsequence(s, s)
    <2>. DEFINE f == [i \in DOMAIN s |-> i]
    <2>1. /\ f \in [DOMAIN s -> DOMAIN s]
          /\ \A i \in DOMAIN s : s[i] = s[f[i]]
          /\ \A i, j \in DOMAIN s : i < j => f[i] < f[j]
      OBVIOUS
    <2>. QED  BY <2>1 DEF IsSubsequence
  <1>3. ~ IsSubsequence(s, Front(s))
    <2>1. SUFFICES ASSUME IsSubsequence(s, Front(s)) PROVE FALSE
      OBVIOUS
    <2>2. DOMAIN Front(s) = 1 .. (Len(s) - 1)
      BY <1>1 DEF Front
    <2>3. PICK f \in [1 .. Len(s) -> 1 .. (Len(s) - 1)] :
               \A i, j \in 1 .. Len(s) : i < j => f[i] < f[j]
      BY <1>1, <2>1, <2>2 DEF IsSubsequence
    <2>4. f \in Injection(1 .. Len(s), 1 .. (Len(s) - 1))
      <3>1. ASSUME NEW i \in 1 .. Len(s), NEW j \in 1 .. Len(s), f[i] = f[j]
            PROVE  i = j
        <4>1. /\ i \in Nat /\ j \in Nat /\ f[i] \in Nat /\ f[j] \in Nat
              /\ i < j => f[i] < f[j]
              /\ j < i => f[j] < f[i]
          BY <1>1, <2>3
        <4>. QED  BY <3>1, <4>1
      <3>. QED  BY <2>3, <3>1 DEF Injection, IsInjective
    <2>5. /\ IsFiniteSet(1 .. Len(s)) /\ Cardinality(1 .. Len(s)) = Len(s)
          /\ IsFiniteSet(1 .. (Len(s) - 1))
          /\ Cardinality(1 .. (Len(s) - 1)) = Len(s) - 1
      <3>1. Len(s) - 1 \in Nat
        BY <1>1
      <3>. QED  BY <1>1, <3>1, FS_Interval
    <2>6. Cardinality(1 .. Len(s)) <= Cardinality(1 .. (Len(s) - 1))
      BY <2>4, <2>5, FS_Injection
    <2>. QED  BY <1>1, <2>5, <2>6
  <1>. QED  BY <1>2, <1>3, DiffDecides

\* A program that has passed has made all of its calls, and is over.
LEMMA PassedThread ==
  ASSUME HarnessInv, Healthy, CalmInv, WellInv, proc = "passed", ~ Negative,
         NEW t \in Threads
  PROVE  /\ t <= Workers => /\ pc[t] = "done"
                            /\ Program \in {"fork_thread", "probeme6"} =>
                                 calls[t] = AllCalls
                            /\ Program \in {"probe7-thread", "probe8-fork"} =>
                                 calls[t] = Iters
         /\ t > Workers => pc[t] = "none"
  <1>1. joined = Workers /\ created = Workers /\ Workers \in Nat /\ t \in Nat
    <2>1. test \in Tests /\ created \in 0 .. Workers /\ joined \in 0 .. created
      BY DEF HarnessInv, TypeInv, TestType, MainType
    <2>2. Workers \in Nat /\ t \in Nat
      BY <2>1, ProgramFacts, ParameterFacts
    <2>. QED  BY <2>1, <2>2 DEF CalmInv
  <1>2. t > Workers => pc[t] = "none"
    BY <1>1 DEF HarnessInv, MainInv
  <1>3. ASSUME t <= Workers PROVE pc[t] = "done" /\ result[t] = 0
    BY <1>1, <1>3 DEF HarnessInv, MainInv, WellInv, ThreadWell
  <1>. QED  BY <1>2, <1>3 DEF HarnessInv, ThreadInv

\* So are its children.
LEMMA PassedMoves ==
  ASSUME HarnessInv, Healthy, CalmInv, WellInv, proc = "passed", ~ Negative
  PROVE  /\ \A p \in Tasks : pc[p] # "store"
         /\ ~ Programs
  <1>0. test \in Tests /\ Workers \in Nat
    BY ProgramFacts DEF HarnessInv, TypeInv, TestType
  <1>1. \A c \in Children : pc[c] \in {"none", "reaped"}
    <2>1. CASE Program \in ForkPrograms
      BY <2>1, PassedHasWaited DEF Unreaped
    <2>2. CASE Program \notin ForkPrograms
      <3>1. ~ Forks
        BY <1>0, <2>2, HealthyPrograms DEF Forks, ForkPrograms, Healthy
      <3>. QED  BY <3>1, NoChildren
    <2>. QED  BY <2>1, <2>2
  <1>2. \A t \in Threads : pc[t] \in {"done", "none"}
    <2>1. ASSUME NEW t \in Threads PROVE pc[t] \in {"done", "none"}
      <3>1. t <= Workers \/ t > Workers
        BY <1>0, ParameterFacts
      <3>. QED  BY <3>1, PassedThread
    <2>. QED  BY <2>1
  <1>3. ~ Main
    BY DEF Main, Stop, Create, CreateFails, SayPassed, Join, JoinCrashes
  <1>4. ASSUME NEW t \in Threads PROVE ~ Thread(t)
    BY <1>2
    DEF Thread, Fork, ForkFails, Wait, Hit, Store, Miss, Oops, Exits, ParentReturns,
        Returns
  <1>5. ASSUME NEW c \in Children PROVE ~ ChildStep(c)
    BY <1>1 DEF ChildStep, Hit, Store, Miss, Trapped, ChildReturns, Returns
  <1>6. \A p \in Tasks : pc[p] # "store"
    BY <1>1, <1>2, ParameterFacts
  <1>. QED  BY <1>3, <1>4, <1>5, <1>6 DEF Programs

\* Its calls have all been counted, and none has been lost.
LEMMA PassedCounted ==
  ASSUME CounterFits, HarnessInv, PassInv, Healthy, CalmInv, WellInv, CounterInv,
         proc = "passed", ~ Negative, attached
  PROVE  counter = ParentCalls /\ hits = ParentCalls
  <1>0. /\ test \in Tests /\ Iters \in Nat /\ Iters > 0
        /\ NumThreads \in Nat /\ NumThreads > 0
        /\ Workers \in 1 .. NumThreads /\ AllCalls \in Nat /\ Iters < AllCalls
    BY ParameterFacts, ProgramFacts DEF HarnessInv, TypeInv, TestType
  <1>1. Program \in {"fork_thread", "probe8-fork", "probe7-thread", "probeme6"}
    BY <1>0, HealthyPrograms DEF Healthy, Negative, Kinds
  <1>2. counter = hits /\ hits = Cardinality(MadeSet)
    BY PassedMoves, HitsBound DEF CounterInv
  <1>. DEFINE n == IF Program \in {"fork_thread", "probeme6"} THEN AllCalls ELSE Iters
  <1>3. ASSUME NEW t \in Threads
        PROVE  /\ Made(t) <= IF t <= Workers THEN n ELSE 0
               /\ t <= Workers => Made(t) = n
    <2>1. CASE t <= Workers
      <3>1. pc[t] = "done" /\ calls[t] = n
        BY <1>1, <2>1, PassedThread
      <3>. QED  BY <1>0, <2>1, <3>1 DEF Made
    <2>2. CASE t > Workers
      <3>1. Made(t) = 0
        BY <2>2, MadeNone
      <3>. QED  BY <1>0, <2>2, <3>1, ParameterFacts
    <2>. QED  BY <1>0, <2>1, <2>2, ParameterFacts
  <1>4. n \in 0 .. AllCalls
    BY <1>0
  <1>5. Cardinality(MadeSet) = Workers * n
    <2>. HIDE DEF n
    <2>. QED  BY <1>0, <1>3, <1>4, MadeAll
  <1>6. Workers * n = ParentCalls
    <2>1. CASE Program = "fork_thread"
      <3>1. Workers = NumThreads /\ n = 2 * Iters
        BY <2>1 DEF Workers, Single, Probeme6, AllCalls
      <3>2. ParentCalls = 2 * Iters * NumThreads
        BY <2>1 DEF ParentCalls, Negative
      <3>. QED  BY <1>0, <3>1, <3>2
    <2>2. CASE Program = "probe8-fork"
      BY <1>0, <2>2 DEF Workers, Single, Probeme6, ParentCalls, Negative
    <2>3. CASE Program = "probe7-thread"
      BY <1>0, <2>3 DEF Workers, Single, Probeme6, AllCalls, ParentCalls, Negative
    <2>4. CASE Program = "probeme6"
      BY <1>0, <2>4 DEF Workers, Single, Probeme6, ParentCalls, Negative
    <2>. QED  BY <1>1, <2>1, <2>2, <2>3, <2>4
  <1>. QED  BY <1>2, <1>5, <1>6

\* The log in the next state.
LEMMA CallsLoggedNext ==
  ASSUME test' = test
  PROVE  CallsLogged' <=>
           ((expect' \in {"watch", "end_mod"} \/ Negative)
              /\ script' \in {"cont", "wait", "ended"} => log' = CallLog(Logged'))
  <1>1. /\ Negative' = Negative /\ Probeme6' = Probeme6
        /\ Registration' = Registration
    BY TestStays
  <1>2. (CallLog(Logged))' = CallLog(Logged')
    BY <1>1 DEF CallLog, Function
  <1>. QED  BY <1>1, <1>2 DEF CallsLogged

\* Where no call is logged.
LEMMA LoggedStays ==
  ASSUME test' = test, PrintsFirst => hits' = hits,
         PrintsLast => calls'[1] + (IF pc'[1] = "return" THEN 1 ELSE 0) =
                         calls[1] + (IF pc[1] = "return" THEN 1 ELSE 0)
  PROVE  Logged' = Logged
  BY TestStays DEF Logged

\* A step of a program that logs nothing.
LEMMA NothingLogged ==
  ASSUME CallsLogged, test' = test, UNCHANGED <<expect, script, log>>, Logged' = Logged
  PROVE  CallsLogged'
  BY CallsLoggedNext DEF CallsLogged

\* A line is printed for each call, before it is counted or after.
LEMMA CallsLoggedProgram ==
  ASSUME HarnessInv, Healthy, CalmInv, ChildForEach, WellInv, CallsLogged, Healthy',
         ProgramStep
  PROVE  CallsLogged'
  <1>0. /\ test' = test /\ test \in Tests
        /\ pc \in [Tasks -> {"none", "garbage", "fork", "call", "store", "return",
                             "say", "wait", "done", "zombie", "reaped"}]
        /\ calls \in [Tasks -> 0 .. AllCalls]
        /\ calls[1] \in Nat /\ hits \in Nat
    <2>1. 1 \in Threads
      BY ParameterFacts
    <2>. QED
      BY <2>1, NextTest, MadeType, HitsType
      DEF HarnessInv, TypeInv, TestType, TaskType, ProgramStep, Next, Progress
  <1>a. /\ 1 \in Threads /\ 1 \in Tasks /\ 1 \notin Children
        /\ \A t \in Threads : /\ t \in Tasks /\ t \notin Children
                              /\ Child(t) \in Children /\ Child(t) \in Tasks
        /\ \A c \in Children : c \in Tasks /\ c \notin Threads
    BY ParameterFacts
  <1>b. UNCHANGED <<expect, script>>
    BY ProgramAttached
  <1>1. CASE Stop \/ Join
    <2>1. UNCHANGED <<pc, calls, log, hits>>
      BY <1>1 DEF Stop, Join, taskVars, countVars
    <2>. QED  BY <1>0, <1>b, <2>1, LoggedStays, NothingLogged
  <1>2. ASSUME NEW p \in Tasks, NEW v, v # "return", pc[p] # "return",
               pc' = [pc EXCEPT ![p] = v], calls' = calls, log' = log,
               PrintsFirst => hits' = hits
        PROVE  CallsLogged'
    <2>1. pc'[1] = "return" <=> pc[1] = "return"
      BY <1>0, <1>a, <1>2
    <2>2. Logged' = Logged
      BY <1>0, <1>2, <2>1, LoggedStays
    <2>. QED  BY <1>0, <1>2, <1>b, <2>2, NothingLogged
  <1>3. CASE Create
    <2>1. created + 1 \in Threads /\ created + 1 > created
      <3>1. created < Workers /\ created \in Nat /\ Workers \in Nat
            /\ Workers <= NumThreads
        BY <1>3, ProgramFacts DEF Create, HarnessInv, TypeInv, TestType, MainType
      <3>. QED  BY <3>1, ParameterFacts
    <2>2. pc[created + 1] = "none" /\ created + 1 \in Tasks
      BY <1>a, <2>1 DEF HarnessInv, MainInv
    <2>3. /\ pc' = [pc EXCEPT ![created + 1] = IF Forks THEN "fork" ELSE "call"]
          /\ UNCHANGED <<calls, log, hits>>
      BY <1>3 DEF Create, countVars
    <2>. QED  BY <1>2, <2>2, <2>3
  <1>4. CASE SayPassed
    <2>1. /\ pc[1] = "say" /\ pc' = [pc EXCEPT ![1] = "call"]
          /\ UNCHANGED <<calls, log, hits>>
      BY <1>4 DEF SayPassed, countVars
    <2>. QED  BY <1>2, <1>a, <2>1
  <1>5. ASSUME NEW t \in Threads, Fork(t) PROVE CallsLogged'
    <2>1. /\ pc[t] = "fork" /\ UNCHANGED <<calls, log, hits>>
          /\ pc' = [pc EXCEPT ![t] = "call", ![Child(t)] = "call"]
      BY <1>5 DEF Fork, countVars
    <2>2. pc'[1] = "return" <=> pc[1] = "return"
      <3>1. /\ pc'[t] = "call"
            /\ \A q \in Tasks : (q # t /\ q # Child(t)) => pc'[q] = pc[q]
        BY <1>0, <1>a, <2>1
      <3>. QED  BY <1>a, <2>1, <3>1
    <2>3. Logged' = Logged
      BY <1>0, <2>1, <2>2, LoggedStays
    <2>. QED  BY <1>0, <1>b, <2>1, <2>3, NothingLogged
  <1>6. ASSUME NEW t \in Threads, Wait(t) PROVE CallsLogged'
    <2>1. PICK c \in Children :
               /\ pc[c] = "zombie"
               /\ pc' = [pc EXCEPT ![c] = "reaped",
                                   ![t] = IF HasSlots THEN "call" ELSE "done"]
      BY <1>6, WaitFinds
    <2>2. pc[t] = "wait" /\ UNCHANGED <<calls, log, hits>>
      BY <1>6 DEF Wait, countVars
    <2>3. pc'[1] = "return" <=> pc[1] = "return"
      <3>1. /\ pc'[t] # "return"
            /\ \A q \in Tasks : (q # t /\ q # c) => pc'[q] = pc[q]
        BY <1>0, <1>a, <2>1
      <3>. QED  BY <1>a, <2>2, <3>1
    <2>4. Logged' = Logged
      BY <1>0, <2>2, <2>3, LoggedStays
    <2>. QED  BY <1>0, <1>b, <2>2, <2>4, NothingLogged
  <1>7. ASSUME NEW t \in Threads, ParentReturns(t) PROVE CallsLogged'
    <2>1. /\ pc[t] = "return" /\ UNCHANGED <<log, hits>>
          /\ calls' = [calls EXCEPT ![t] = @ + 1]
          /\ \E v \in {"done", "wait", "say", "call"} : pc' = [pc EXCEPT ![t] = v]
      BY <1>7 DEF ParentReturns, Returns, AfterRound, countVars
    <2>2. calls'[1] + (IF pc'[1] = "return" THEN 1 ELSE 0) =
            calls[1] + (IF pc[1] = "return" THEN 1 ELSE 0)
      <3>1. CASE t = 1
        <4>1. calls'[1] = calls[1] + 1 /\ pc'[1] # "return" /\ pc[1] = "return"
          BY <1>0, <1>a, <2>1, <3>1
        <4>. QED  BY <1>0, <4>1
      <3>2. CASE t # 1
        <4>1. calls'[1] = calls[1] /\ pc'[1] = pc[1]
          BY <1>0, <1>a, <2>1, <3>2
        <4>. QED  BY <4>1
      <3>. QED  BY <3>1, <3>2
    <2>3. Logged' = Logged
      BY <1>0, <2>1, <2>2, LoggedStays
    <2>. QED  BY <1>0, <1>b, <2>1, <2>3, NothingLogged
  <1>8. ASSUME NEW t \in Threads, Hit(t) PROVE CallsLogged'
    <2>1. /\ pc[t] = "call" /\ pc' = [pc EXCEPT ![t] = "store"]
          /\ hits' = hits + 1 /\ calls' = calls
          /\ log' = IF PrintsFirst THEN Append(log, Called(0)) ELSE log
      BY <1>8 DEF Hit
    <2>2. CASE ~ PrintsFirst
      BY <1>2, <1>a, <2>1, <2>2
    <2>3. CASE PrintsFirst
      <3>1. Logged = hits /\ Logged' = hits + 1
        BY <1>0, <2>1, <2>3, TestStays DEF Logged
      <3>2. Function(hits + 1) = 0
        BY <2>3 DEF PrintsFirst, Function, Probeme6
      <3>3. CallLog(hits + 1) = Append(CallLog(hits), Called(0))
        BY <1>0, <3>2, CallLogNext
      <3>4. (expect \in {"watch", "end_mod"} \/ Negative)
               /\ script \in {"cont", "wait", "ended"} => log' = CallLog(Logged')
        BY <2>1, <2>3, <3>1, <3>3 DEF CallsLogged
      <3>. QED  BY <1>0, <1>b, <3>4, CallsLoggedNext
    <2>. QED  BY <2>2, <2>3
  <1>9. ASSUME NEW t \in Threads, Store(t) PROVE CallsLogged'
    <2>1. /\ pc[t] = "store" /\ pc' = [pc EXCEPT ![t] = "return"]
          /\ hits' = hits /\ calls' = calls
          /\ log' = IF PrintsLast THEN Append(log, Called(Function(calls[t] + 1)))
                                  ELSE log
      BY <1>9 DEF Store
    <2>2. CASE ~ PrintsLast
      <3>1. Logged' = Logged
        BY <1>0, <2>1, <2>2, LoggedStays
      <3>. QED  BY <1>0, <1>b, <2>1, <2>2, <3>1, NothingLogged
    <2>3. CASE PrintsLast
      <3>1. t = 1
        <4>1. created \in 0 .. 1
          <5>1. Workers = 1
            BY <2>3 DEF PrintsLast, Workers, Single, Probeme6
          <5>. QED  BY <5>1 DEF HarnessInv, TypeInv, MainType
        <4>2. ~ (t > created)
          BY <2>1 DEF HarnessInv, MainInv
        <4>3. t \in Nat /\ t > 0
          BY ParameterFacts
        <4>. QED  BY <4>1, <4>2, <4>3
      <3>2. ~ PrintsFirst
        BY <2>3 DEF PrintsFirst, PrintsLast
      <3>3. pc[1] = "store" /\ pc'[1] = "return"
        BY <1>0, <1>a, <2>1, <3>1
      <3>4. Logged = calls[1] /\ Logged' = calls[1] + 1
        BY <1>0, <2>1, <2>3, <3>2, <3>3, TestStays DEF Logged
      <3>5. CallLog(calls[1] + 1) =
              Append(CallLog(calls[1]), Called(Function(calls[1] + 1)))
        BY <1>0, CallLogNext
      <3>6. (expect \in {"watch", "end_mod"} \/ Negative)
               /\ script \in {"cont", "wait", "ended"} => log' = CallLog(Logged')
        BY <2>1, <2>3, <3>1, <3>4, <3>5 DEF CallsLogged
      <3>. QED  BY <1>0, <1>b, <3>6, CallsLoggedNext
    <2>. QED  BY <2>2, <2>3
  <1>10. ASSUME NEW t \in Threads, Miss(t) \/ Exits(t), Negative PROVE CallsLogged'
    <2>1. log' = log
      BY <1>10 DEF Miss, Exits, countVars
    <2>2. ~ PrintsFirst /\ ~ PrintsLast
      BY <1>10 DEF Negative, PrintsFirst, PrintsLast
    <2>3. Logged' = Logged
      BY <1>0, <2>2, LoggedStays
    <2>. QED  BY <1>0, <1>b, <2>1, <2>3, NothingLogged
  <1>11. ASSUME NEW c \in Children, Miss(c) \/ ChildReturns(c) PROVE CallsLogged'
    <2>1. /\ UNCHANGED <<log, hits>>
          /\ \E v \in {"return", "zombie", "call"} : pc' = [pc EXCEPT ![c] = v]
          /\ calls' = calls \/ calls' = [calls EXCEPT ![c] = @ + 1]
      BY <1>11 DEF Miss, ChildReturns, Returns, countVars
    <2>2. c # 1
      BY <1>a
    <2>3. pc'[1] = pc[1] /\ calls'[1] = calls[1]
      BY <1>0, <1>a, <2>1, <2>2
    <2>4. Logged' = Logged
      BY <1>0, <2>1, <2>3, LoggedStays
    <2>. QED  BY <1>0, <1>b, <2>1, <2>4, NothingLogged
  <1>. QED
    BY <1>1, <1>3, <1>4, <1>5, <1>6, <1>7, <1>8, <1>9, <1>10, <1>11, HealthySteps

\* CallsLogged is inductive: the module comes with an empty log, and before the
\* summary is printed has logged the calls and nothing else.
LEMMA CallsLoggedStep ==
  ASSUME HarnessInv, Healthy, CalmInv, ChildForEach, WellInv, CallsLogged, Next,
         Healthy'
  PROVE  CallsLogged'
  <1>0. test' = test /\ test \in Tests /\ 1 \in Threads /\ 1 \in Tasks
    BY NextTest, ParameterFacts DEF HarnessInv, TypeInv, TestType
  <1>1. CASE Check
    <2>1. script' = "insmod"
      BY <1>1 DEF Check, HarnessInv, ScriptInv, Healthy
    <2>. QED  BY <1>0, <2>1, CallsLoggedNext
  <1>2. CASE Insmod
    <2>1. /\ script = "insmod" /\ log' = <<Registration>>
          /\ UNCHANGED <<hits, calls, pc>>
      BY <1>2 DEF Insmod, taskVars, Healthy
    <2>2. proc \in {"starting", "stopped"} /\ hits = 0
      BY <2>1 DEF HarnessInv, ScriptInv
    <2>3. pc[1] = "none" /\ calls[1] = 0
      BY <1>0, <2>2, NobodyYet DEF HarnessInv, ThreadInv
    <2>4. Logged' = 0
      BY <1>0, <2>1, <2>2, <2>3, TestStays DEF Logged
    <2>. QED  BY <1>0, <2>1, <2>4, CallLogNone, CallsLoggedNext
  <1>3. CASE Continue \/ Kill \/ WaitForJob
    <2>1. script \in {"cont", "wait"}
      BY <1>3 DEF Continue, Kill, WaitForJob, CalmInv
    <2>2. UNCHANGED <<expect, log, hits, calls, pc>>
      BY <1>3
      DEF Continue, Kill, WaitForJob, countVars, taskVars, expectVars, forkVars
    <2>3. Logged' = Logged
      BY <1>0, <2>2, LoggedStays
    <2>. QED  BY <1>0, <2>1, <2>2, <2>3, CallsLoggedNext DEF CallsLogged
  <1>4. CASE Expect
    <2>1. ~ Rmmod /\ ~ RunByHand
      BY DEF Rmmod, RunByHand, Healthy
    <2>2. SeePassed \/ SeeEnd \/ SeeLine \/ EndMod \/ Compare
      BY <1>4, <2>1 DEF Expect
    <2>3. UNCHANGED <<script, hits, calls, pc>>
      BY <2>2
      DEF SeePassed, SeeEnd, SeeLine, EndMod, Compare, forkVars, scriptVars, taskVars,
          countVars
    <2>4. Logged' = Logged
      BY <1>0, <2>3, LoggedStays
    <2>5. Negative => ~ EndMod
      BY DEF EndMod, HarnessInv, ExpectInv
    <2>6. CASE EndMod
      BY <1>0, <2>5, <2>6, CallsLoggedNext DEF EndMod
    <2>7. CASE SeePassed \/ SeeEnd \/ SeeLine \/ Compare
      <3>1. /\ log' = log
            /\ expect' \in {"watch", "end_mod"} \/ Negative =>
                 expect \in {"watch", "end_mod"} \/ Negative
        BY <2>7 DEF SeePassed, SeeEnd, SeeLine, Compare, forkVars, countVars
      <3>. QED  BY <1>0, <2>3, <2>4, <3>1, CallsLoggedNext DEF CallsLogged
    <2>. QED  BY <2>2, <2>6, <2>7
  <1>5. CASE ProgramStep
    BY <1>5, CallsLoggedProgram
  <1>6. CASE UNCHANGED vars
    <2>1. UNCHANGED <<expect, script, log, hits, calls, pc>>
      BY <1>6 DEF vars, expectVars, scriptVars, forkVars, taskVars, countVars
    <2>2. Logged' = Logged
      BY <1>0, <2>1, LoggedStays
    <2>. QED  BY <1>0, <2>1, <2>2, NothingLogged
  <1>. QED
    BY <1>1, <1>2, <1>3, <1>4, <1>5, <1>6
    DEF Next, Progress, Script, ProgramStep, Done, Hangs

\* What is compared, in the next state.
LEMMA ResultsNext ==
  ASSUME test' = test
  PROVE  /\ loaded' => Results' = [i \in DOMAIN log' |-> Normalised(log'[i])]
         /\ Expected' = Expected
  <1>1. Results' = IF loaded' THEN [i \in DOMAIN log' |-> Normalised(log'[i])]
                              ELSE <<[text |-> "NoSuchFile", num |-> 0]>>
    BY DEF Results, Normalised, Program, Reg
  <1>2. Expected' = Expected
    <2>1. /\ ParentCalls' = ParentCalls /\ Probeme6' = Probeme6
          /\ Program' = Program /\ Negative' = Negative
          /\ PrintsFirst' = PrintsFirst /\ PrintsLast' = PrintsLast
      BY TestStays DEF ParentCalls
    <2>2. ExpectedCalls' = ExpectedCalls
      BY <2>1 DEF ExpectedCalls, Function
    <2>3. ASSUME NEW CONSTANT f
          PROVE  CallsOf(f, ParentCalls)' = CallsOf(f, ParentCalls)
      <3>1. {i \in 1 .. ParentCalls : Function(i) = f}' =
              {i \in 1 .. ParentCalls : Function(i) = f}
        BY <2>1 DEF Function
      <3>. QED  BY <3>1 DEF CallsOf
    <2>4. Summaries(ParentCalls)' = Summaries(ParentCalls)
      BY <2>1, <2>3 DEF Summaries
    <2>. QED  BY <2>1, <2>2, <2>4 DEF Expected
  <1>. QED  BY <1>1, <1>2

\* Only kfork_thread prints numbers that are not compared.
LEMMA NormalisedLines ==
  ASSUME NEW lines \in Seq(ExpectedLine), Program # "fork_thread"
  PROVE  [i \in DOMAIN lines |-> Normalised(lines[i])] = lines
  <1>1. \A i \in DOMAIN lines : lines[i] \in ExpectedLine
    OBVIOUS
  <1>2. \A i \in DOMAIN lines : Normalised(lines[i]) = lines[i]
    BY <1>1 DEF Normalised, ExpectedLine
  <1>3. [i \in DOMAIN lines |-> Normalised(lines[i])] = [i \in DOMAIN lines |-> lines[i]]
    BY <1>2
  <1>. QED  BY <1>3

\* The summary of a program that has passed completes its log.
LEMMA SummaryFits ==
  ASSUME CounterFits, ManyHits, HarnessInv, PassInv, Healthy, CalmInv, ChildForEach,
         WellInv, CounterInv, CallsLogged, EndMod, Healthy', test' = test, ~ early'
  PROVE  loaded' /\ Results' = Expected /\ proc' = "passed"
  <1>0. test \in Tests /\ ~ Negative /\ ~ ByHand /\ Program \in Kinds
    <2>1. test \in Tests
      BY DEF HarnessInv, TypeInv, TestType
    <2>2. ~ Negative
      BY DEF EndMod, HarnessInv, ExpectInv
    <2>. QED  BY <2>1, <2>2, HealthyPrograms DEF Healthy
  <1>1. proc = "passed"
    <2>1. proc # "leaving"
      BY DEF EndMod
    <2>2. \/ proc = "passed"
          \/ EndOfFile /\ proc # "passed"
      BY <1>0, <2>1 DEF EndMod, HarnessInv, ExpectInv
    <2>3. ~ EndOfFile \/ proc = "passed"
      <3>1. ASSUME EndOfFile PROVE proc = "passed"
        <4>1. script = "ended"
          BY <3>1 DEF EndOfFile
        <4>2. proc # "none"
          BY <4>1 DEF HarnessInv, ScriptInv, Healthy
        <4>. QED  BY <1>0, <3>1, <4>2 DEF EndOfFile, Ended, CalmInv
      <3>. QED  BY <3>1
    <2>. QED  BY <2>2, <2>3
  <1>2. attached /\ loaded /\ script \in {"wait", "ended"}
    <2>1. script \in {"check", "insmod", "cont", "refused", "kill", "wait", "ended"}
      BY DEF HarnessInv, TypeInv, ScriptType
    <2>2. script \notin {"check", "insmod", "cont", "refused", "kill"}
      BY <1>1 DEF HarnessInv, ScriptInv, CalmInv
    <2>. QED  BY <2>1, <2>2 DEF CalmInv
  <1>3. loaded' /\ proc' = "passed" /\ log' = log \o Summaries(counter)
    BY <1>1, <1>2 DEF EndMod, CalmInv, Healthy, mainVars
  <1>4. counter = ParentCalls /\ hits = ParentCalls /\ ParentCalls \in Nat
    BY <1>0, <1>1, <1>2, PassedCounted, ParentCallsType
  <1>5. /\ Program # "fork_thread" => log = ExpectedCalls
        /\ Program = "fork_thread" => log = <<Registration>>
    <2>0. Program # "fork_thread" => Registration = Reg
      BY <1>0 DEF Registration, HasSlots, ByHand
    <2>1. log = CallLog(Logged)
      BY <1>2 DEF CallsLogged, EndMod
    <2>2. CASE PrintsFirst \/ PrintsLast
      <3>1. Logged = ParentCalls
        <4>1. CASE PrintsFirst
          BY <1>4, <4>1 DEF Logged
        <4>2. CASE PrintsLast
          <5>1. 1 \in Threads /\ 1 <= Workers
            BY <1>0, ProgramFacts, ParameterFacts
          <5>2. pc[1] = "done" /\ calls[1] = AllCalls
            BY <1>0, <1>1, <4>2, <5>1, PassedThread DEF PrintsLast
          <5>3. ParentCalls = AllCalls /\ ~ PrintsFirst /\ AllCalls \in Nat
            BY <1>0, <4>2, ProgramFacts
            DEF PrintsFirst, PrintsLast, ParentCalls, Negative
          <5>. QED  BY <4>2, <5>2, <5>3 DEF Logged
        <4>. QED  BY <2>2, <4>1, <4>2
      <3>2. Program # "fork_thread"
        BY <2>2 DEF PrintsFirst, PrintsLast
      <3>. QED  BY <2>0, <2>1, <2>2, <3>1, <3>2 DEF CallLog, ExpectedCalls
    <2>3. CASE ~ (PrintsFirst \/ PrintsLast)
      <3>1. log = <<Registration>>
        BY <1>0, <2>1, <2>3, CallLogNone DEF Logged
      <3>. QED  BY <2>0, <2>3, <3>1 DEF ExpectedCalls
    <2>. QED  BY <2>2, <2>3
  <1>6. /\ ExpectedCalls \in Seq(ExpectedLine)
        /\ Summaries(ParentCalls) \in Seq(ExpectedLine)
        /\ Summaries(ParentCalls) \in Seq(Line)
    BY <1>0, <1>4, ExpectedCallsFacts, SummariesFacts, SummariesExpected
  <1>8. Results' = [i \in DOMAIN log' |-> Normalised(log'[i])]
    BY <1>3, ResultsNext
  <1>9. CASE Program # "fork_thread"
    <2>1. Expected = ExpectedCalls \o Summaries(ParentCalls)
      BY <1>0, <1>9 DEF Expected
    <2>2. log' = Expected /\ log' \in Seq(ExpectedLine)
      BY <1>0, <1>3, <1>4, <1>5, <1>9, <2>1, ExpectedFacts
    <2>3. Results' = log'
      BY <1>8, <1>9, <2>2, NormalisedLines
    <2>. QED  BY <1>3, <2>2, <2>3
  <1>10. CASE Program = "fork_thread"
    <2>1. Registration \in Line /\ Normalised(Registration) = Reg
      BY <1>0, <1>10, RegistrationFacts DEF Healthy
    <2>2. /\ Len(Summaries(ParentCalls)) = 1
          /\ Summaries(ParentCalls)[1] = Summary(ParentCalls)
      <3>1. CallsOf(0, ParentCalls) = ParentCalls
        BY <1>4, <1>10, CallsOfAdd DEF Probeme6
      <3>. QED  BY <1>0, <1>4, <1>10, <3>1, SummariesFacts
    <2>3. /\ Len(log') = 2 /\ DOMAIN log' = 1 .. 2
          /\ log'[1] = Registration /\ log'[2] = Summary(ParentCalls)
      <3>. DEFINE s == Summaries(ParentCalls)
      <3>1. log' = <<Registration>> \o s /\ s \in Seq(Line) /\ Len(s) = 1
            /\ s[1] = Summary(ParentCalls)
        BY <1>3, <1>4, <1>5, <1>6, <1>10, <2>2
      <3>. HIDE DEF s
      <3>2. /\ <<Registration>> \in Seq(Line) /\ Len(<<Registration>>) = 1
            /\ <<Registration>>[1] = Registration
        BY <2>1
      <3>3. /\ log' \in Seq(Line) /\ Len(log') = 1 + 1
            /\ log'[1] = Registration /\ log'[1 + 1] = s[1]
        BY <3>1, <3>2, ConcatProperties
      <3>. QED  BY <3>1, <3>3
    <2>5. Normalised(Summary(ParentCalls)) = Summary(Many)
      <3>1. ParentCalls = 2 * Iters * NumThreads
        BY <1>10 DEF ParentCalls, Negative
      <3>2. ParentCalls >= Ten
        BY <1>0, <1>4, <1>10, <3>1, HarnessAssumption DEF ManyHits, ForkThreadRuns, Program
      <3>. QED  BY <1>10, <3>2 DEF Normalised, Summary
    <2>6. Results' = <<Reg, Summary(Many)>>
      <3>1. DOMAIN Results' = 1 .. 2 /\ Results'[1] = Reg /\ Results'[2] = Summary(Many)
        BY <1>8, <2>1, <2>3, <2>5
      <3>2. Results' = [i \in 1 .. 2 |-> IF i = 1 THEN Reg ELSE Summary(Many)]
        BY <1>8, <2>1, <2>3, <2>5
      <3>. QED  BY <3>2
    <2>7. Expected = <<Reg, Summary(Many)>>
      BY <1>0, <1>10 DEF Expected
    <2>. QED  BY <1>3, <2>6, <2>7
  <1>. QED  BY <1>9, <1>10

\* ResultsFit is inductive.
LEMMA ResultsFitStep ==
  ASSUME CounterFits, ManyHits, HarnessInv, PassInv, Healthy, CalmInv, ChildForEach,
         WellInv, CounterInv, CallsLogged, ResultsFit, Next, Healthy'
  PROVE  ResultsFit'
  <1>0. test' = test /\ Negative' = Negative /\ early \in BOOLEAN
    BY NextTest, TestStays DEF HarnessInv, TypeInv, TestType
  <1>a. test \in Tests
    BY DEF HarnessInv, TypeInv, TestType
  <1>1. SUFFICES ASSUME expect' = "diff", ~ early'
                 PROVE  loaded' /\ Results' = Expected /\ (proc' = "passed" \/ Negative)
    BY <1>0, ResultsNext DEF ResultsFit
  <1>2. CASE EndMod
    BY <1>0, <1>1, <1>2, SummaryFits
  <1>3. CASE SeeLine
    <2>1. Negative /\ EndOfFile /\ script = "ended"
      BY <1>1, <1>3 DEF SeeLine, EndOfFile
    <2>2. loaded /\ loaded' /\ log' = log
      BY <1>3, <2>1 DEF SeeLine, CalmInv, forkVars, countVars
    <2>3. log = <<Reg>>
      <3>1. Logged = 0
        BY <2>1 DEF Logged, Negative, PrintsFirst, PrintsLast
      <3>2. Registration = Reg
        BY <2>1 DEF Registration, Negative, HasSlots
      <3>. QED  BY <1>a, <2>1, <3>1, <3>2, CallLogNone DEF CallsLogged
    <2>4. <<Reg>> \in Seq(ExpectedLine) /\ Program # "fork_thread"
      BY <2>1 DEF Negative, Reg, ExpectedLine
    <2>5. Results' = <<Reg>>
      BY <1>0, <2>2, <2>3, <2>4, ResultsNext, NormalisedLines
    <2>. QED  BY <2>1, <2>2, <2>4, <2>5 DEF Expected
  <1>4. ASSUME UNCHANGED <<log, loaded, proc>>, expect = "diff", ~ early
        PROVE  loaded' /\ Results' = Expected /\ (proc' = "passed" \/ Negative)
    <2>1. loaded /\ Results = Expected /\ (proc = "passed" \/ Negative)
      BY <1>4 DEF ResultsFit
    <2>2. Results' = [i \in DOMAIN log |-> Normalised(log[i])]
      BY <1>0, <1>4, <2>1, ResultsNext
    <2>. QED  BY <1>4, <2>1, <2>2 DEF Results
  <1>5. CASE Expect /\ ~ EndMod /\ ~ SeeLine
    BY <1>1, <1>5 DEF Expect, SeePassed, SeeEnd, RunByHand, Compare, Rmmod
  <1>6. CASE Script \/ ProgramStep
    <2>1. expect = "diff" /\ ~ early
      <3>1. UNCHANGED <<expect, early>>
        BY <1>6, ProgramAttached
        DEF Script, Check, Insmod, Continue, Kill, WaitForJob, expectVars, moduleVars
      <3>. QED  BY <1>1, <3>1
    <2>2. loaded /\ (proc = "passed" \/ Negative)
      BY <2>1 DEF ResultsFit
    <2>3. ~ EndOfFile
      BY <1>6, NothingMoves DEF ProgramStep
    <2>4. proc = "passed" /\ ~ Negative
      BY <2>1, <2>2, <2>3 DEF HarnessInv, ExpectInv
    <2>5. ~ ProgramStep
      BY <2>4, PassedMoves DEF ProgramStep
    <2>6. ~ Check /\ ~ Insmod
      BY <2>4 DEF Check, Insmod, HarnessInv, ScriptInv
    <2>7. Continue \/ Kill \/ WaitForJob
      BY <1>6, <2>5, <2>6 DEF Script
    <2>8. UNCHANGED <<log, loaded, proc>>
      BY <2>4, <2>7
      DEF Continue, Kill, WaitForJob, Ended, countVars, moduleVars, forkVars, mainVars
    <2>. QED  BY <1>4, <2>1, <2>8
  <1>7. CASE UNCHANGED vars
    BY <1>1, <1>4, <1>7
    DEF vars, forkVars, countVars, mainVars, moduleVars, expectVars
  <1>. QED
    BY <1>2, <1>3, <1>5, <1>6, <1>7 DEF Next, Progress, ProgramStep, Done, Hangs

\* So uprobes_diff finds no difference.
LEMMA ComparedSame ==
  ASSUME HarnessInv, ResultsFit, expect = "diff", ~ early
  PROVE  Diff(Results, Expected) = "same"
  <1>1. Expected \in Seq(ExpectedLine) /\ Expected # <<>>
    BY ExpectedFacts DEF HarnessInv, TypeInv, TestType
  <1>. QED  BY <1>1, DiffSelf DEF ResultsFit

\* SameFound is inductive.
LEMMA SameFoundStep ==
  ASSUME HarnessInv, Healthy, CalmInv, ResultsFit, SameFound, Next, Healthy'
  PROVE  SameFound'
  <1>1. CASE Compare
    <2>1. SUFFICES ASSUME ~ early' PROVE same' /\ loc_return' = 0
      BY DEF SameFound
    <2>2. /\ expect = "diff" /\ early' = early /\ loc_return' = loc_return
          /\ same' = (Diff(Results, Expected) = "same")
      BY <1>1 DEF Compare, moduleVars
    <2>3. same'
      BY <2>1, <2>2, ComparedSame
    <2>4. proc = "passed" \/ Negative
      BY <2>1, <2>2 DEF ResultsFit
    <2>5. ~ ByHand
      BY HealthyPrograms DEF HarnessInv, TypeInv, TestType, Healthy
    <2>6. loc_return = 0
      BY <2>2, <2>4, <2>5 DEF HarnessInv, ExpectInv
    <2>. QED  BY <2>2, <2>3, <2>6
  <1>2. CASE Expect /\ ~ Compare
    BY <1>2 DEF Expect, SeePassed, SeeEnd, RunByHand, SeeLine, EndMod, Rmmod, SameFound
  <1>3. CASE Script \/ ProgramStep \/ UNCHANGED vars
    <2>1. UNCHANGED <<expect, early, same, loc_return>>
      BY <1>3, ProgramAttached
      DEF Script, Check, Insmod, Continue, Kill, WaitForJob, expectVars, moduleVars,
          vars
    <2>. QED  BY <2>1 DEF SameFound
  <1>. QED  BY <1>1, <1>2, <1>3 DEF Next, Progress, ProgramStep, Done, Hangs

\* What has been found before the module was removed is what is reported.
LEMMA OutcomeStep ==
  ASSUME HarnessInv, HealthyInv, HealthyTestPasses, Next PROVE HealthyTestPasses'
  <1>0. test' = test /\ stale' = stale /\ (~ fault' => ~ fault)
        /\ (~ overlap' => ~ overlap) /\ Misprinted' = Misprinted
    BY NextTest, FailedStays, TestStays
  <1>1. SUFFICES ASSUME ~ Misprinted, expect' = "done", test.kernel = "removes", ~ fault', ~ overlap',
                        ~ stale', ~ early'
                 PROVE  outcome' = "pass"
    BY <1>0 DEF HealthyTestPasses, LogAsExpected
  <1>2. CASE expect = "done"
    <2>1. ~ Expect
      BY <1>2
      DEF Expect, SeePassed, SeeEnd, RunByHand, SeeLine, EndMod, Compare, Rmmod
    <2>2. Script \/ ProgramStep \/ UNCHANGED vars
      BY <2>1 DEF Next, Progress, ProgramStep, Done, Hangs
    <2>3. UNCHANGED <<early, outcome>>
      BY <2>2, ProgramAttached
      DEF Script, Check, Insmod, Continue, Kill, WaitForJob, expectVars, moduleVars,
          vars
    <2>. QED  BY <1>0, <1>1, <1>2, <2>3 DEF HealthyTestPasses, LogAsExpected
  <1>3. CASE expect # "done"
    <2>1. Healthy
      BY <1>0, <1>1, <1>3 DEF Healthy
    <2>2. ResultsFit /\ SameFound
      BY <2>1 DEF HealthyInv, LogInv
    <2>3. ~ RunByHand
      BY <1>1, HealthyPrograms DEF RunByHand, HarnessInv, TypeInv, TestType
    <2>4. CASE Compare
      <3>1. expect = "diff" /\ early' = early
        BY <2>4 DEF Compare, moduleVars
      <3>2. Diff(Results, Expected) = "same"
        BY <1>1, <2>2, <3>1, ComparedSame
      <3>. QED  BY <1>1, <2>4, <3>2 DEF Compare
    <2>5. CASE Rmmod
      BY <1>1, <2>2, <2>5 DEF Rmmod, SameFound
    <2>6. CASE Expect /\ ~ RunByHand /\ ~ Compare /\ ~ Rmmod
      BY <1>1, <2>6 DEF Expect, SeePassed, SeeEnd, SeeLine, EndMod
    <2>7. CASE Script \/ ProgramStep \/ UNCHANGED vars
      <3>1. expect' = expect
        BY <2>7, ProgramAttached
        DEF Script, Check, Insmod, Continue, Kill, WaitForJob, expectVars, vars
      <3>. QED  BY <1>1, <1>3, <3>1
    <2>. QED
      BY <2>3, <2>4, <2>5, <2>6, <2>7 DEF Next, Progress, ProgramStep, Done, Hangs
  <1>. QED  BY <1>2, <1>3

\* Before the test nothing has been counted or logged.
LEMMA HealthyInit == ASSUME Init PROVE HealthyInv /\ HealthyTestPasses
  <1>1. HealthyTestPasses
    BY DEF Init, HealthyTestPasses, LogAsExpected
  <1>2. SUFFICES ASSUME Healthy
                 PROVE  CalmInv /\ ChildForEach /\ WellInv /\ CounterInv /\ LogInv
    BY <1>1 DEF HealthyInv
  <1>3. /\ \A p \in Tasks : pc[p] = "none" /\ calls[p] = 0 /\ slot[p] = NewSlot
        /\ \A t \in Threads : result[t] = 0 /\ waited[t] = "none" /\ t \in Tasks
        /\ \A c \in Children : status[c] = "none" /\ c \in Tasks
        /\ counter = 0 /\ hits = 0 /\ childHits = 0
    BY ParameterFacts DEF Init, ForkInit
  <1>4. CalmInv
    BY <1>2 DEF CalmInv, Init, ForkInit, Healthy
  <1>5. ChildForEach
    <2>1. YetToWait = {} /\ Unreaped = {}
      BY <1>3 DEF YetToWait, Unreaped
    <2>2. Cardinality({}) = 0
      BY FS_EmptySet
    <2>. QED  BY <2>1, <2>2 DEF ChildForEach
  <1>6. WellInv
    <2>1. ASSUME NEW t \in Threads PROVE ThreadWell(t)
      BY <1>3 DEF ThreadWell, CountsAfter, InHandler, NewSlot
    <2>2. ASSUME NEW c \in Children PROVE ChildWell(c)
      BY <1>3 DEF ChildWell, NewSlot
    <2>. QED  BY <1>3, <2>1, <2>2 DEF WellInv
  <1>7. CounterInv
    BY <1>3 DEF CounterInv
  <1>8. LogInv
    BY DEF LogInv, CallsLogged, ResultsFit, SameFound, Init
  <1>. QED  BY <1>4, <1>5, <1>6, <1>7, <1>8

\* Every step keeps HealthyInv and what it is for.
LEMMA HealthyNext ==
  ASSUME KtidHarmless, CounterFits, ManyHits, HarnessInv, PassInv,
         HealthyInv, HealthyTestPasses, [Next]_vars
  PROVE  HealthyInv' /\ HealthyTestPasses'
  <1>1. CASE Next
    <2>1. HealthyTestPasses'
      BY <1>1, OutcomeStep
    <2>2. SUFFICES ASSUME Healthy'
                   PROVE  CalmInv' /\ ChildForEach' /\ WellInv' /\ CounterInv' /\ LogInv'
      BY <2>1 DEF HealthyInv
    <2>3. Healthy
      BY <1>1, <2>2, HealthyBefore
    <2>4. CalmInv /\ ChildForEach /\ WellInv /\ CounterInv
          /\ CallsLogged /\ ResultsFit /\ SameFound
      BY <2>3 DEF HealthyInv, LogInv
    <2>5. CalmInv'
      BY <1>1, <2>2, <2>3, <2>4, CalmInvStep
    <2>6. ChildForEach'
      BY <1>1, <2>2, <2>3, <2>4, ChildForEachStep
    <2>7. WellInv'
      BY <1>1, <2>2, <2>3, <2>4, WellInvStep
    <2>8. CounterInv'
      BY <1>1, <2>2, <2>3, <2>4, CounterInvStep
    <2>9. LogInv'
      <3>1. CallsLogged'
        BY <1>1, <2>2, <2>3, <2>4, CallsLoggedStep
      <3>2. ResultsFit'
        BY <1>1, <2>2, <2>3, <2>4, ResultsFitStep
      <3>3. SameFound'
        BY <1>1, <2>2, <2>3, <2>4, SameFoundStep
      <3>. QED  BY <3>1, <3>2, <3>3 DEF LogInv
    <2>. QED  BY <2>5, <2>6, <2>7, <2>8, <2>9
  <1>2. CASE UNCHANGED vars
    <2>1. /\ UNCHANGED <<forkVars, taskVars, countVars, expectVars, scriptVars,
                         moduleVars, test, pc, waited, calls, hits, childHits, counter,
                         tmp, log>>
          /\ UNCHANGED <<stale, expect, early, outcome, fault, overlap, said, script,
                         attached, loaded, proc, joined, entry, same, loc_return>>
      BY <1>2
      DEF vars, forkVars, mainVars, taskVars, countVars, expectVars, scriptVars,
          moduleVars
    <2>2. HealthyTestPasses'
      BY <2>1, TestStays DEF HealthyTestPasses, LogAsExpected
    <2>3. SUFFICES ASSUME Healthy'
                   PROVE  CalmInv' /\ ChildForEach' /\ WellInv' /\ CounterInv' /\ LogInv'
      BY <2>2 DEF HealthyInv
    <2>4. Healthy
      BY <2>1, <2>3, TestStays DEF Healthy
    <2>5. CalmInv /\ ChildForEach /\ WellInv /\ CounterInv
          /\ CallsLogged /\ ResultsFit /\ SameFound
      BY <2>4 DEF HealthyInv, LogInv
    <2>6. CalmInv'
      BY <2>1, <2>5, TestStays DEF CalmInv
    <2>7. ChildForEach'
      BY <2>1, <2>5, SameToWait
    <2>8. WellInv' /\ CounterInv'
      BY <2>1, <2>5, WellStays, CounterStays
    <2>9. CallsLogged'
      BY <2>1, <2>5, LoggedStays, NothingLogged
    <2>10. ResultsFit'
      <3>1. loaded => Results' = Results
        BY <2>1, ResultsNext DEF Results
      <3>. QED  BY <2>1, <2>5, <3>1, ResultsNext, TestStays DEF ResultsFit
    <2>11. SameFound'
      BY <2>1, <2>5 DEF SameFound
    <2>. QED  BY <2>6, <2>7, <2>8, <2>9, <2>10, <2>11 DEF LogInv
  <1>. QED  BY <1>1, <1>2

\* A test of a kernel that does not let probes be inherited passes, whatever the
\* order of its threads, its children and the scripts, unless something fails that
\* it relies on: the handlers do not overlap, the module was not loaded before,
\* the script was not too early (probeme6.c:53-54, uprobes.exp:103-109), and
\* kfork_thread does not print a registration that differs from the expected one
\* (Misprinted: kfork_thread.c:70-71, uprobes.exp:46; so fork_thread is only
\* spoken for where a long is wider than an int and the inode's address is
\* positive as an int).  The widths are such that the module's counter does not
\* wrap; and where fork_thread is run put_user() of a ulong does no harm
\* (KtidHarmless; u_mod_common.h), which with wide longs means one iteration, and
\* ten hits or more are expected (uprobes.exp:46).
THEOREM HealthyAlwaysPasses ==
  ASSUME KtidHarmless, CounterFits, ManyHits
  PROVE  Spec => []HealthyTestPasses
  <1>1. Init => HarnessInv /\ PassInv /\ HealthyInv /\ HealthyTestPasses
    BY HarnessInit, PassInit, HealthyInit
  <1>2. HarnessInv /\ PassInv /\ HealthyInv /\ HealthyTestPasses /\ [Next]_vars =>
          HarnessInv' /\ PassInv' /\ HealthyInv' /\ HealthyTestPasses'
    BY HarnessNext, PassNext, HealthyNext
  <1>. QED  BY <1>1, <1>2, PTL DEF Spec
=============================================================================
