----------------------------- MODULE UdbgfsProofs -----------------------------
(***************************************************************************)
(* Theorems about Udbgfs, for any number of handlers, writers and readers, *)
(* every set of message lengths that has a largest one, every size of the  *)
(* buffer, and every width of size_t that exceeds that of an int.          *)
(*                                                                         *)
(* CountInv relates the three counters of the buffer, of which bytes_left  *)
(* wraps, LogInv relates them to the messages printed, and DataInv relates *)
(* the bytes to the messages.  ReaderInv is what a reader has of them.     *)
(***************************************************************************)
EXTENDS Udbgfs, SequenceTheorems, TLAPS

\* Where the processes are, and what the histories hold.
PlaceInv ==
  /\ pc \in [Actors \cup Readers ->
               {"idle", "advance", "mark", "summary", "copy", "again", "done",
                "oops"}]
  /\ msgs \in Nat /\ log \in Seq(Nat)
  /\ got \in [Readers -> Seq(Int)] /\ start \in [Readers -> Nat]

\* It is the holder of the lock that has a length to add to the counters.
LockInv == \A a \in Actors : pc[a] = "advance" <=> lock = a

\* Without the module nobody prints or writes, and what is read is empty.
StageInv ==
  stage \notin {"ready", "unloaded"} =>
    /\ bytes_in_buf = 0
    /\ \A a \in Actors : pc[a] = "idle"
    /\ \A r \in Readers : pc[r] # "copy" /\ start[r] = 0

\* The bytes of a message that is in the buffer but not yet counted.
Pending == IF lock = None THEN 0 ELSE len[lock]

\* bytes_left is what is left of the buffer, or has wrapped by less than the
\* length of one message, and then nothing is added any more.
CountInv ==
  /\ cur = bytes_in_buf
  /\ stage \in {"buffer", "ready", "unloaded"} =>
       bytes_left = Cap - bytes_in_buf + (IF bytes_in_buf > Cap THEN SizeMod ELSE 0)
  /\ bytes_in_buf + Pending <= Cap + MaxLen
  /\ bytes_in_buf > Cap => Pending = 0

\* Every message is counted, until they are refused.
LogInv ==
  /\ bytes_in_buf + Pending <= Len(log)
  /\ bytes_in_buf <= Cap => Len(log) = bytes_in_buf + Pending

\* The buffer holds the messages, but for the NUL in its last byte.
DataInv ==
  /\ \A i \in 0 .. (Cap - 2) : i < bytes_in_buf + Pending => data[i] = log[i + 1]
  /\ ~beyond

\* A reader has a part of the messages from their beginning on.
ReaderInv ==
  \A r \in Readers :
    /\ Len(got[r]) <= bytes_in_buf /\ start[r] <= bytes_in_buf
    /\ \A i \in 1 .. Len(got[r]) : i < Cap => got[r][i] = log[i]
    /\ pc[r] = "done" => Len(got[r]) >= start[r]

\* Unless two writers were between the test of entry and its increment, one
\* writer was there before the summary, and nobody is there after it.
MarkInv ==
  ~overlap =>
    /\ \A v, w \in Writers : pc[v] = "mark" /\ pc[w] = "mark" => v = w
    /\ entry # 0 => \A w \in Writers : pc[w] # "mark"
    /\ entry = 0 => summaries = 0
    /\ summaries <= 1

\* Who comes after the first writer finds a summary, or a write that failed.
SummaryInv ==
  \/ summaries >= 1
  \/ copyFailed
  \/ entry = 0 /\ \A w \in Writers : pc[w] \in {"idle", "mark"}

UdbgfsInv ==
  /\ TypeOK
  /\ PlaceInv
  /\ LockInv
  /\ StageInv
  /\ CountInv
  /\ LogInv
  /\ DataInv
  /\ ReaderInv
  /\ MarkInv
  /\ SummaryInv

-----------------------------------------------------------------------------
(* The constants, the size_t and sequences. *)

LEMMA Sizes ==
  /\ Cap \in Nat /\ Cap > 0 /\ IntHalf \in Nat /\ SizeMod \in Nat
  /\ Cap < IntHalf /\ SizeMod >= 2 * IntHalf
  /\ MaxLen \in Nat /\ MaxLen > 0 /\ MaxLen < IntHalf
  /\ \A l \in Lens : l \in Nat /\ l > 0 /\ l <= MaxLen
  <1>1. MaxLen \in Lens /\ \A l \in Lens : l <= MaxLen
    BY UdbgfsAssumption DEF MaxLen
  <1>2. \A l \in Lens : l \in Nat /\ l > 0
    <2>1. Lens \subseteq Nat \ {0}
      BY UdbgfsAssumption
    <2>. QED  BY <2>1
  <1>. QED  BY <1>1, <1>2, UdbgfsAssumption

LEMMA Processes ==
  /\ None \notin Actors
  /\ \A a \in Actors : a \notin Readers
  /\ \A p \in Printers : p \notin Writers
  /\ Actors = Printers \cup Writers
  BY UdbgfsAssumption DEF Actors

\* A difference that is less than SizeMod below 0 wraps once.
LEMMA WrapsOnce ==
  ASSUME NEW m \in Nat, m > 0, NEW x \in Int, -m <= x, x < m
  PROVE  x % m = IF x >= 0 THEN x ELSE x + m
  OBVIOUS

LEMMA SequenceOfFunction ==
  ASSUME NEW S, NEW n \in Nat, NEW f \in [1 .. n -> S]
  PROVE  f \in Seq(S) /\ Len(f) = n
  <1>1. f \in Seq(S)
    BY SeqDef
  <1>2. Len(f) \in Nat /\ 1 .. Len(f) = 1 .. n
    BY <1>1, LenProperties
  <1>. QED  BY <1>1, <1>2

\* A free lock has nothing to count, a taken one the length of its holder.
LEMMA PendingType ==
  ASSUME TypeOK
  PROVE  Pending \in Nat /\ Pending <= MaxLen
  <1>1. CASE lock = None
    BY <1>1, Sizes DEF Pending
  <1>2. CASE lock # None
    <2>1. lock \in Actors /\ len[lock] \in Lens \cup {0}
      BY <1>2 DEF TypeOK
    <2>. QED  BY <1>2, <2>1, Sizes DEF Pending
  <1>. QED  BY <1>1, <1>2

LEMMA PendingSame ==
  UNCHANGED <<lock, len>> => Pending' = Pending
  BY DEF Pending

-----------------------------------------------------------------------------
(* UdbgfsInv is inductive. *)

\* Before insmod makes the files the invariant holds.
THEOREM UdbgfsInit == Init => UdbgfsInv
  <1>. SUFFICES ASSUME Init PROVE UdbgfsInv
    OBVIOUS
  <1>1. /\ \A x \in Actors \cup Readers : pc[x] = "idle"
        /\ pc \in [Actors \cup Readers -> {"idle"}]
        /\ \A r \in Readers : got[r] = <<>> /\ start[r] = 0
        /\ lock = None /\ cur = 0 /\ bytes_in_buf = 0 /\ msgs = 0 /\ log = <<>>
        /\ stage = "start"
    BY DEF Init
  <1>2. Len(log) = 0 /\ Pending = 0 /\ \A r \in Readers : Len(got[r]) = 0
    BY <1>1 DEF Pending
  <1>3. TypeOK
    <2>1. /\ \A p \in Printers : pc[p] = "idle"
          /\ \A w \in Writers : pc[w] = "idle"
          /\ \A r \in Readers : pc[r] = "idle"
      BY <1>1, Processes
    <2>2. data \in [0 .. (Cap - 1) -> {Unset, Nul} \cup 1 .. msgs]
      BY DEF Init
    <2>3. bytes_left \in 0 .. (SizeMod - 1)
      BY Sizes DEF Init
    <2>4. len \in [Actors -> Lens \cup {0}]
      BY DEF Init
    <2>5. /\ stage = "start" /\ files = {} /\ lock = None
          /\ cur = 0 /\ bytes_in_buf = 0
          /\ entry = 0 /\ summaries = 0 /\ overlap = FALSE /\ beyond = FALSE
          /\ copyFailed = FALSE
      BY DEF Init
    <2>. QED  BY <2>1, <2>2, <2>3, <2>4, <2>5 DEF TypeOK
  <1>4. PlaceInv
    <2>1. got \in [Readers -> Seq(Int)]
      BY EmptySeq DEF Init
    <2>. QED  BY <1>1, <2>1 DEF Init, PlaceInv
  <1>5. LockInv
    BY <1>1, Processes DEF LockInv
  <1>6. StageInv
    BY <1>1 DEF StageInv
  <1>7. CountInv /\ LogInv
    BY <1>1, <1>2, Sizes DEF CountInv, LogInv
  <1>8. DataInv
    BY <1>1, <1>2 DEF Init, DataInv
  <1>9. ReaderInv
    BY <1>1, <1>2 DEF ReaderInv
  <1>10. MarkInv /\ SummaryInv
    BY <1>1, Processes DEF Init, MarkInv, SummaryInv
  <1>. QED
    BY <1>3, <1>4, <1>5, <1>6, <1>7, <1>8, <1>9, <1>10 DEF UdbgfsInv

\* A message is formatted, and its length not yet counted.
LEMMA FormatFacts ==
  ASSUME UdbgfsInv, stage \in {"ready", "unloaded"},
         NEW a \in Actors, NEW l \in Lens, Format(a, l)
  PROVE  /\ lock = None /\ Pending = 0
         /\ Pending' = IF bytes_in_buf > Cap THEN 0 ELSE l
         /\ log' \in Seq(Nat) /\ Len(log') = Len(log) + l
         /\ \A i \in 1 .. Len(log) : log'[i] = log[i]
         /\ \A i \in (Len(log) + 1) .. (Len(log) + l) : log'[i] = msgs'
         /\ beyond' = beyond
         /\ data' \in [0 .. (Cap - 1) -> {Unset, Nul} \cup 1 .. msgs']
         /\ \A i \in 0 .. (Cap - 1) :
              data'[i] = IF i < bytes_in_buf \/ bytes_in_buf >= Cap THEN data[i]
                         ELSE IF i < bytes_in_buf + l /\ i < Cap - 1 THEN msgs'
                         ELSE IF i <= bytes_in_buf + l THEN Nul
                         ELSE data[i]
  <1>a. /\ TypeOK /\ PlaceInv /\ CountInv
    BY DEF UdbgfsInv
  <1>b. /\ l \in Nat /\ l > 0 /\ bytes_in_buf \in Nat /\ msgs \in Nat
        /\ bytes_left = Cap - bytes_in_buf
                         + (IF bytes_in_buf > Cap THEN SizeMod ELSE 0)
        /\ cur = bytes_in_buf
    BY <1>a, Sizes DEF TypeOK, PlaceInv, CountInv
  <1>1. lock = None /\ lock' = a /\ a # None
    BY Processes DEF Format, TakeLock
  <1>2. Pending = 0
    BY <1>1 DEF Pending
  <1>3. Refuses <=> bytes_in_buf > Cap
    BY <1>a, <1>b, <1>2, Sizes DEF CountInv, Refuses
  <1>4. Pending' = IF bytes_in_buf > Cap THEN 0 ELSE l
    <2>1. len' = [len EXCEPT ![a] = IF Refuses THEN 0 ELSE l]
      BY DEF Format, Vsnprintf
    <2>2. len'[a] = IF Refuses THEN 0 ELSE l
      BY <1>a, <2>1 DEF TypeOK
    <2>. QED  BY <1>1, <1>3, <2>2 DEF Pending
  <1>5. /\ log' \in Seq(Nat) /\ Len(log') = Len(log) + l
        /\ \A i \in 1 .. Len(log) : log'[i] = log[i]
        /\ \A i \in (Len(log) + 1) .. (Len(log) + l) : log'[i] = msgs'
    <2> DEFINE m == [k \in 1 .. l |-> msgs + 1]
    <2>1. m \in [1 .. l -> Nat] /\ \A k \in 1 .. l : m[k] = msgs + 1
      BY <1>b
    <2>2. log \in Seq(Nat) /\ log' = log \o m /\ msgs' = msgs + 1
      BY <1>a DEF Format, PlaceInv
    <2> HIDE DEF m
    <2>3. m \in Seq(Nat) /\ Len(m) = l
      BY <1>b, <2>1, SequenceOfFunction
    <2>4. Len(log) \in Nat
      BY <2>2, LenProperties
    <2>5. /\ log \o m \in Seq(Nat)
          /\ Len(log \o m) = Len(log) + l
          /\ \A i \in 1 .. Len(log) + l :
               (log \o m)[i] = IF i <= Len(log) THEN log[i] ELSE m[i - Len(log)]
      BY <2>2, <2>3, ConcatProperties
    <2>6. ASSUME NEW i \in (Len(log) + 1) .. (Len(log) + l) PROVE log'[i] = msgs'
      <3>1. i - Len(log) \in 1 .. l /\ i \in 1 .. Len(log) + l /\ ~(i <= Len(log))
        BY <1>b, <2>4
      <3>. QED  BY <2>1, <2>2, <2>5, <3>1
    <2>7. ASSUME NEW i \in 1 .. Len(log) PROVE log'[i] = log[i]
      BY <1>b, <2>2, <2>4, <2>5
    <2>. QED  BY <2>2, <2>5, <2>6, <2>7
  <1>6. /\ beyond' = beyond
        /\ data' \in [0 .. (Cap - 1) -> {Unset, Nul} \cup 1 .. msgs']
        /\ \A i \in 0 .. (Cap - 1) :
             data'[i] = IF i < bytes_in_buf \/ bytes_in_buf >= Cap THEN data[i]
                        ELSE IF i < bytes_in_buf + l /\ i < Cap - 1 THEN msgs'
                        ELSE IF i <= bytes_in_buf + l THEN Nul
                        ELSE data[i]
    <2>1. /\ data \in [0 .. (Cap - 1) -> {Unset, Nul} \cup 1 .. msgs]
          /\ msgs' = msgs + 1 /\ beyond \in BOOLEAN
      BY <1>a DEF TypeOK, Format
    <2>2. \A i : i \in {Unset, Nul} \cup 1 .. msgs =>
                   i \in {Unset, Nul} \cup 1 .. msgs'
      BY <1>b, <2>1
    <2>3. CASE bytes_in_buf >= Cap
      <3>1. data' = data /\ beyond' = beyond
        BY <1>b, <1>3, <2>3, Sizes DEF Format, Vsnprintf
      <3>. QED  BY <1>b, <2>1, <2>2, <2>3, <3>1, Sizes
    <2>4. CASE bytes_in_buf < Cap
      <3> DEFINE n == Fitting(l)
      <3>1. ~Refuses /\ bytes_left # 0 /\ bytes_left = Cap - bytes_in_buf
        BY <1>b, <1>3, <2>4, Sizes
      <3>2. n = IF l < Cap - bytes_in_buf THEN l ELSE Cap - bytes_in_buf - 1
        BY <3>1 DEF Fitting
      <3>3. /\ data' = [i \in DOMAIN data |->
                          IF i \in cur .. (cur + n - 1) THEN msgs + 1
                          ELSE IF i = cur + n THEN Nul ELSE data[i]]
            /\ beyond' = (beyond \/ cur + n >= Cap)
        BY <3>1 DEF Format, Vsnprintf
      <3> HIDE DEF n
      <3>4. n \in Nat /\ cur + n < Cap /\ cur + n <= cur + l
        BY <1>b, <2>4, <3>2, Sizes
      <3>5. beyond' = beyond
        BY <1>b, <2>1, <3>3, <3>4, Sizes
      <3>6. DOMAIN data = 0 .. (Cap - 1)
        BY <2>1
      <3>7. \A i \in 0 .. (Cap - 1) :
              data'[i] = IF i \in cur .. (cur + n - 1) THEN msgs + 1
                         ELSE IF i = cur + n THEN Nul ELSE data[i]
        BY <3>3, <3>6
      <3>8. \A i \in 0 .. (Cap - 1) :
             data'[i] = IF i < bytes_in_buf THEN data[i]
                        ELSE IF i < bytes_in_buf + l /\ i < Cap - 1 THEN msgs'
                        ELSE IF i <= bytes_in_buf + l THEN Nul
                        ELSE data[i]
        <4>. TAKE i \in 0 .. (Cap - 1)
        <4>1. CASE i < cur
          BY <1>b, <2>4, <3>4, <3>7, <4>1, Sizes
        <4>2. CASE i \in cur .. (cur + n - 1)
          <5>1. data'[i] = msgs' /\ ~(i < bytes_in_buf)
            BY <1>b, <2>1, <3>7, <4>2
          <5>2. i < bytes_in_buf + l /\ i < Cap - 1
            BY <1>b, <2>4, <3>2, <3>4, <4>2, Sizes
          <5>. QED  BY <5>1, <5>2
        <4>3. CASE i = cur + n
          <5>1. data'[i] = Nul /\ ~(i < bytes_in_buf)
            BY <1>b, <3>4, <3>7, <4>3
          <5>2. /\ ~(i < bytes_in_buf + l /\ i < Cap - 1)
                /\ i <= bytes_in_buf + l
            BY <1>b, <2>4, <3>2, <4>3, Sizes
          <5>. QED  BY <5>1, <5>2
        <4>4. CASE i > cur + n
          <5>1. data'[i] = data[i] /\ ~(i < bytes_in_buf)
            BY <1>b, <3>4, <3>7, <4>4
          <5>2. /\ ~(i < bytes_in_buf + l /\ i < Cap - 1)
                /\ ~(i <= bytes_in_buf + l)
            BY <1>b, <2>4, <3>2, <4>4, Sizes
          <5>. QED  BY <5>1, <5>2
        <4>. QED  BY <1>b, <3>4, <4>1, <4>2, <4>3, <4>4, Sizes
      <3>9. data' \in [0 .. (Cap - 1) -> {Unset, Nul} \cup 1 .. msgs']
        <4>1. msgs + 1 \in 1 .. msgs'
          BY <1>b, <2>1
        <4>2. \A i \in 0 .. (Cap - 1) : data[i] \in {Unset, Nul} \cup 1 .. msgs'
          BY <2>1, <2>2
        <4>. QED  BY <3>3, <3>6, <4>1, <4>2
      <3>. QED  BY <1>b, <2>4, <3>5, <3>8, <3>9, Sizes
    <2>. QED  BY <1>b, <2>3, <2>4, Sizes
  <1>. QED  BY <1>1, <1>2, <1>4, <1>5, <1>6

\* What TypeOK and PlaceInv say of the scalars.
LEMMA ScalarFacts ==
  ASSUME TypeOK, PlaceInv
  PROVE  /\ bytes_in_buf \in Nat /\ bytes_left \in Int /\ cur \in Nat
         /\ Pending \in Nat /\ Pending <= MaxLen
         /\ msgs \in Nat /\ Len(log) \in Nat
         /\ \A r \in Readers : Len(got[r]) \in Nat /\ start[r] \in Nat
         /\ entry \in Nat /\ summaries \in Nat /\ overlap \in BOOLEAN
         /\ copyFailed \in BOOLEAN
  <1>1. Len(log) \in Nat
    BY LenProperties DEF PlaceInv
  <1>2. ASSUME NEW r \in Readers PROVE Len(got[r]) \in Nat /\ start[r] \in Nat
    <2>1. got[r] \in Seq(Int) /\ start[r] \in Nat
      BY DEF PlaceInv
    <2>. QED  BY <2>1, LenProperties
  <1>3. /\ bytes_in_buf \in Nat /\ bytes_left \in Int /\ cur \in Nat
        /\ entry \in Nat /\ summaries \in Nat /\ overlap \in BOOLEAN
        /\ copyFailed \in BOOLEAN
    BY DEF TypeOK
  <1>4. msgs \in Nat
    BY DEF PlaceInv
  <1>. QED  BY <1>1, <1>2, <1>3, <1>4, PendingType

\* A step in which an actor formats a message, of a handler or the summary.
LEMMA FormatStep ==
  ASSUME UdbgfsInv, stage \in {"ready", "unloaded"},
         NEW a \in Actors, NEW l \in Lens, Format(a, l),
         a \in Writers => pc[a] = "summary",
         UNCHANGED <<stage, files, readVars, sumVars>>
  PROVE  UdbgfsInv'
  <1>a. /\ TypeOK /\ PlaceInv /\ LockInv /\ StageInv /\ CountInv /\ LogInv
        /\ DataInv /\ ReaderInv /\ MarkInv
        /\ SummaryInv
    BY DEF UdbgfsInv
  <1>b. /\ bytes_in_buf \in Nat /\ msgs \in Nat /\ Len(log) \in Nat
        /\ l \in Nat /\ l > 0 /\ l <= MaxLen /\ MaxLen \in Nat /\ Cap \in Nat
    BY <1>a, ScalarFacts, Sizes
  <1>c. /\ lock = None /\ lock' = a /\ Pending = 0
        /\ Pending' = IF bytes_in_buf > Cap THEN 0 ELSE l
        /\ msgs' = msgs + 1
        /\ pc' = [pc EXCEPT ![a] = "advance"]
        /\ UNCHANGED <<stage, files, cur, bytes_in_buf, bytes_left, got, start,
                       entry, summaries, copyFailed, overlap>>
    BY FormatFacts DEF Format, TakeLock, readVars, sumVars
  <1>d. /\ log' \in Seq(Nat) /\ Len(log') = Len(log) + l
        /\ \A i \in 1 .. Len(log) : log'[i] = log[i]
        /\ \A i \in (Len(log) + 1) .. (Len(log) + l) : log'[i] = msgs'
    BY FormatFacts
  <1>e. /\ \A x \in Actors \cup Readers :
             pc'[x] = IF x = a THEN "advance" ELSE pc[x]
        /\ pc' \in [Actors \cup Readers ->
               {"idle", "advance", "mark", "summary", "copy", "again", "done",
                "oops"}]
    BY <1>a, <1>c DEF PlaceInv
  <1>1. TypeOK'
    <2>1. data' \in [0 .. (Cap - 1) -> {Unset, Nul} \cup 1 .. msgs']
      BY FormatFacts
    <2>2. len' \in [Actors -> Lens \cup {0}]
      <3>1. len' = [len EXCEPT ![a] = IF Refuses THEN 0 ELSE l]
        BY DEF Format, Vsnprintf
      <3>2. (IF Refuses THEN 0 ELSE l) \in Lens \cup {0}
        OBVIOUS
      <3>3. len \in [Actors -> Lens \cup {0}]
        BY <1>a DEF TypeOK
      <3>. QED  BY <3>1, <3>2, <3>3
    <2>3. /\ \A p \in Printers : pc'[p] \in {"idle", "advance"}
          /\ \A w \in Writers :
               pc'[w] \in {"idle", "mark", "summary", "advance", "done"}
          /\ \A r \in Readers : pc'[r] \in {"idle", "copy", "again", "done", "oops"}
      BY <1>a, <1>e, Processes DEF TypeOK
    <2>4. beyond' \in BOOLEAN
      BY <1>a, FormatFacts DEF TypeOK
    <2>. QED  BY <1>a, <1>c, <2>1, <2>2, <2>3, <2>4 DEF TypeOK
  <1>2. PlaceInv'
    BY <1>a, <1>b, <1>c, <1>d, <1>e DEF PlaceInv
  <1>3. LockInv'
    BY <1>a, <1>c, <1>e, Processes DEF LockInv
  <1>4. StageInv'
    BY <1>c DEF StageInv
  <1>5. CountInv'
    BY <1>a, <1>b, <1>c DEF CountInv
  <1>6. LogInv'
    <2>1. /\ bytes_in_buf <= Len(log)
          /\ bytes_in_buf <= Cap => Len(log) = bytes_in_buf
      BY <1>a, <1>b, <1>c DEF LogInv
    <2>2. Len(log') = Len(log) + l /\ bytes_in_buf' = bytes_in_buf
      BY <1>c, <1>d
    <2>3. CASE bytes_in_buf > Cap
      <3>1. Pending' = 0
        BY <1>c, <2>3
      <3>. QED  BY <1>b, <2>1, <2>2, <2>3, <3>1 DEF LogInv
    <2>4. CASE ~(bytes_in_buf > Cap)
      <3>1. Pending' = l
        BY <1>c, <2>4
      <3>. QED  BY <1>b, <2>1, <2>2, <2>4, <3>1 DEF LogInv
    <2>. QED  BY <2>3, <2>4
  <1>7. DataInv'
    <2>1. ASSUME NEW i \in 0 .. (Cap - 2), i < bytes_in_buf + Pending'
          PROVE  data'[i] = log'[i + 1]
      <3>1. i \in 0 .. (Cap - 1) /\ i < Cap - 1 /\ i \in Nat
        BY <1>b
      <3>2. data'[i] = IF i < bytes_in_buf \/ bytes_in_buf >= Cap THEN data[i]
                       ELSE IF i < bytes_in_buf + l /\ i < Cap - 1 THEN msgs'
                       ELSE IF i <= bytes_in_buf + l THEN Nul ELSE data[i]
        BY <3>1, FormatFacts
      <3>3. CASE i < bytes_in_buf
        <4>1. data'[i] = data[i] /\ data[i] = log[i + 1]
          BY <1>a, <1>b, <1>c, <3>2, <3>3 DEF DataInv
        <4>2. i + 1 \in 1 .. Len(log)
          BY <1>a, <1>b, <1>c, <3>1, <3>3 DEF LogInv
        <4>. QED  BY <1>d, <4>1, <4>2
      <3>4. CASE ~(i < bytes_in_buf)
        <4>1. bytes_in_buf < Cap /\ i < bytes_in_buf + l
          BY <1>b, <1>c, <2>1, <3>1, <3>4
        <4>2. data'[i] = msgs'
          BY <1>b, <3>1, <3>2, <3>4, <4>1
        <4>3. i + 1 \in (Len(log) + 1) .. (Len(log) + l)
          BY <1>a, <1>b, <1>c, <3>1, <3>4, <4>1 DEF LogInv
        <4>. QED  BY <1>d, <4>2, <4>3
      <3>. QED  BY <3>3, <3>4
    <2>2. ~beyond'
      BY <1>a, FormatFacts DEF DataInv
    <2>. QED  BY <1>c, <2>1, <2>2 DEF DataInv
  <1>8. ReaderInv'
    <2>1. ASSUME NEW r \in Readers
          PROVE  /\ Len(got[r]) <= bytes_in_buf /\ start[r] <= bytes_in_buf
                 /\ \A i \in 1 .. Len(got[r]) : i < Cap => got[r][i] = log'[i]
                 /\ pc'[r] = "done" => Len(got[r]) >= start[r]
      <3>1. Len(got[r]) <= bytes_in_buf /\ start[r] <= bytes_in_buf
        BY <1>a DEF ReaderInv
      <3>2. pc'[r] = pc[r]
        BY <1>e, Processes
      <3>3. ASSUME NEW i \in 1 .. Len(got[r]), i < Cap PROVE got[r][i] = log'[i]
        <4>1. Len(got[r]) \in Nat /\ got[r][i] = log[i]
          BY <1>a, <3>3, ScalarFacts DEF ReaderInv
        <4>2. i \in 1 .. Len(log)
          BY <1>a, <1>b, <1>c, <3>1, <4>1 DEF LogInv
        <4>. QED  BY <1>d, <4>1, <4>2
      <3>. QED  BY <1>a, <3>1, <3>2, <3>3 DEF ReaderInv
    <2>. QED  BY <1>c, <2>1 DEF ReaderInv
  <1>9. MarkInv'
    <2>1. \A w \in Writers : pc'[w] = "mark" => pc[w] = "mark"
      BY <1>e, Processes
    <2>. QED  BY <1>a, <1>c, <2>1 DEF MarkInv
  <1>10. SummaryInv'
    BY <1>a, <1>c, <1>e, Processes DEF SummaryInv
  <1>. QED
    BY <1>1, <1>2, <1>3, <1>4, <1>5, <1>6, <1>7, <1>8, <1>9, <1>10 DEF UdbgfsInv

\* The length of the message is counted and the lock released.
LEMMA AdvanceStep ==
  ASSUME UdbgfsInv, NEW a \in Actors, Advance(a)
  PROVE  UdbgfsInv'
  <1>a. /\ TypeOK /\ PlaceInv /\ LockInv /\ StageInv /\ CountInv /\ LogInv
        /\ DataInv /\ ReaderInv /\ MarkInv
        /\ SummaryInv
    BY DEF UdbgfsInv
  <1>b. /\ bytes_in_buf \in Nat /\ Len(log) \in Nat /\ MaxLen \in Nat /\ Cap \in Nat
        /\ Pending \in Nat /\ Pending <= MaxLen
    BY <1>a, ScalarFacts, Sizes
  <1>c. /\ pc[a] = "advance" /\ lock = a /\ lock' = None /\ len[a] = Pending
        /\ stage \in {"ready", "unloaded"}
    BY <1>a, Processes DEF Advance, LockInv, Pending, StageInv
  <1>d. /\ Pending' = 0
        /\ bytes_in_buf' = bytes_in_buf + Pending
        /\ cur' = cur + Pending
        /\ bytes_left' = (bytes_left - Pending) % SizeMod
        /\ UNCHANGED <<stage, files, data, len, msgs, log, beyond, got, start, entry,
                       summaries, copyFailed, overlap>>
    BY <1>c DEF Advance, Pending, readVars, sumVars
  <1>e. /\ \A x \in Actors \cup Readers :
             pc'[x] = IF x = a THEN (IF a \in Writers THEN "done" ELSE "idle")
                               ELSE pc[x]
        /\ pc' \in [Actors \cup Readers ->
               {"idle", "advance", "mark", "summary", "copy", "again", "done",
                "oops"}]
    BY <1>a DEF Advance, PlaceInv
  <1>f. bytes_left' =
          Cap - bytes_in_buf' + (IF bytes_in_buf' > Cap THEN SizeMod ELSE 0)
    <2>1. /\ bytes_left = Cap - bytes_in_buf
                           + (IF bytes_in_buf > Cap THEN SizeMod ELSE 0)
          /\ bytes_in_buf + Pending <= Cap + MaxLen
          /\ bytes_in_buf > Cap => Pending = 0
      BY <1>a, <1>c DEF CountInv
    <2>2. /\ bytes_left - Pending \in Int /\ -SizeMod <= bytes_left - Pending
          /\ bytes_left - Pending < SizeMod /\ SizeMod \in Nat /\ SizeMod > 0
      BY <1>b, <2>1, Sizes
    <2>3. bytes_left' = IF bytes_left - Pending >= 0 THEN bytes_left - Pending
                        ELSE bytes_left - Pending + SizeMod
      BY <1>d, <2>2, WrapsOnce
    <2>. QED  BY <1>b, <1>d, <2>1, <2>3, Sizes
  <1>1. TypeOK'
    <2>1. /\ \A p \in Printers : pc'[p] \in {"idle", "advance"}
          /\ \A w \in Writers :
               pc'[w] \in {"idle", "mark", "summary", "advance", "done"}
          /\ \A r \in Readers : pc'[r] \in {"idle", "copy", "again", "done", "oops"}
      BY <1>a, <1>e, Processes DEF TypeOK
    <2>2. bytes_left' \in 0 .. (SizeMod - 1)
      <3>1. bytes_in_buf' <= Cap + MaxLen
        BY <1>a, <1>d DEF CountInv
      <3>. QED  BY <1>b, <1>d, <1>f, <3>1, Sizes
    <2>3. cur' \in Nat /\ bytes_in_buf' \in Nat
      BY <1>a, <1>b, <1>d DEF TypeOK
    <2>. QED  BY <1>a, <1>c, <1>d, <2>1, <2>2, <2>3 DEF TypeOK
  <1>2. PlaceInv'
    BY <1>a, <1>d, <1>e DEF PlaceInv
  <1>3. LockInv'
    BY <1>a, <1>c, <1>e, Processes DEF LockInv
  <1>4. StageInv'
    BY <1>c, <1>d DEF StageInv
  <1>5. CountInv'
    BY <1>a, <1>b, <1>d, <1>f DEF CountInv
  <1>6. LogInv'
    BY <1>a, <1>b, <1>d DEF LogInv, CountInv
  <1>7. DataInv'
    BY <1>a, <1>b, <1>d DEF DataInv
  <1>8. ReaderInv'
    <2>1. ASSUME NEW r \in Readers
          PROVE  /\ Len(got[r]) <= bytes_in_buf' /\ start[r] <= bytes_in_buf'
                 /\ pc'[r] = "done" => Len(got[r]) >= start[r]
      <3>1. /\ Len(got[r]) <= bytes_in_buf /\ start[r] <= bytes_in_buf
            /\ pc[r] = "done" => Len(got[r]) >= start[r]
            /\ Len(got[r]) \in Nat /\ start[r] \in Nat
        BY <1>a, ScalarFacts DEF ReaderInv
      <3>2. pc'[r] = pc[r]
        BY <1>e, Processes
      <3>. QED  BY <1>b, <1>d, <3>1, <3>2
    <2>. QED  BY <1>a, <1>d, <2>1 DEF ReaderInv
  <1>9. MarkInv'
    <2>1. \A w \in Writers : pc'[w] = "mark" => pc[w] = "mark"
      BY <1>e, Processes
    <2>. QED  BY <1>a, <1>d, <2>1 DEF MarkInv
  <1>10. SummaryInv'
    <2>1. a \in Writers => summaries >= 1 \/ copyFailed
      BY <1>a, <1>c DEF SummaryInv
    <2>. QED  BY <1>a, <1>d, <1>e, <2>1, Processes DEF SummaryInv
  <1>. QED
    BY <1>1, <1>2, <1>3, <1>4, <1>5, <1>6, <1>7, <1>8, <1>9, <1>10 DEF UdbgfsInv

\* insmod and rmmod.
LEMMA ModuleStep ==
  ASSUME UdbgfsInv,
         CreateDir \/ CreateData \/ SetUpBuffer \/ CreateCleanup \/ Remove
  PROVE  UdbgfsInv'
  <1>a. /\ TypeOK /\ PlaceInv /\ LockInv /\ StageInv /\ CountInv /\ LogInv
        /\ DataInv /\ ReaderInv /\ MarkInv
        /\ SummaryInv
    BY DEF UdbgfsInv
  <1>b. /\ bytes_in_buf \in Nat /\ bytes_left \in Int /\ Cap \in Nat
        /\ SizeMod \in Nat /\ Cap < SizeMod
    BY <1>a, ScalarFacts, Sizes
  <1>c. /\ UNCHANGED <<lock, cur, bytes_in_buf, data, entry, pc, len, got, msgs, log,
                       summaries, copyFailed, overlap, start, beyond>>
        /\ Pending' = Pending
    BY PendingSame DEF CreateDir, CreateData, SetUpBuffer, CreateCleanup, Remove,
                       bufVars, readVars, sumVars
  <1>d. /\ stage \in {"start", "dir", "data", "buffer", "ready"}
        /\ stage' \in {"dir", "data", "buffer", "ready", "refused", "unloaded"}
        /\ stage' \in {"ready", "unloaded"} => stage \in {"buffer", "ready"}
        /\ stage' = "unloaded" => stage = "ready"
        /\ bytes_left' = IF stage' = "buffer" THEN Cap ELSE bytes_left
        /\ stage' = "buffer" => stage = "data"
        /\ stage = "ready" => stage' = "unloaded"
    BY DEF CreateDir, CreateData, SetUpBuffer, CreateCleanup, Remove, bufVars
  <1>e. files' \subseteq {"dir", "data", "cleanup"}
    BY <1>a DEF TypeOK, CreateDir, CreateData, SetUpBuffer, CreateCleanup, Remove
  <1>1. TypeOK'
    <2>1. bytes_left' \in 0 .. (SizeMod - 1)
      BY <1>a, <1>b, <1>d DEF TypeOK
    <2>. QED  BY <1>a, <1>c, <1>d, <1>e, <2>1 DEF TypeOK
  <1>2. PlaceInv' /\ LockInv'
    BY <1>a, <1>c DEF PlaceInv, LockInv
  <1>3. StageInv'
    BY <1>a, <1>c, <1>d DEF StageInv
  <1>4. CountInv'
    <2>1. stage \notin {"buffer", "ready"} => bytes_in_buf = 0
      BY <1>a, <1>d DEF StageInv
    <2>2. CASE stage' = "buffer"
      BY <1>a, <1>b, <1>c, <1>d, <2>1, <2>2 DEF CountInv
    <2>3. CASE stage' # "buffer"
      BY <1>a, <1>b, <1>c, <1>d, <2>3 DEF CountInv
    <2>. QED  BY <2>2, <2>3
  <1>5. LogInv' /\ DataInv' /\ ReaderInv' /\ MarkInv' /\ SummaryInv'
    BY <1>a, <1>c DEF LogInv, DataInv, ReaderInv, MarkInv, SummaryInv
  <1>. QED  BY <1>e, <1>1, <1>2, <1>3, <1>4, <1>5 DEF UdbgfsInv

\* What no step disturbs in which nobody prints and the module stays.
LEMMA NothingPrinted ==
  ASSUME UdbgfsInv, UNCHANGED <<stage, files, bufVars>>
  PROVE  CountInv' /\ LogInv' /\ DataInv'
  <1>1. /\ UNCHANGED <<stage, files, lock, cur, bytes_in_buf, bytes_left, data, len,
                       msgs, log, beyond>>
        /\ Pending' = Pending
    BY PendingSame DEF bufVars
  <1>. QED  BY <1>1 DEF UdbgfsInv, CountInv, LogInv, DataInv

\* A writer tests entry.
LEMMA TestEntryStep ==
  ASSUME UdbgfsInv, NEW w \in Writers, TestEntry(w)
  PROVE  UdbgfsInv'
  <1>a. /\ TypeOK /\ PlaceInv /\ LockInv /\ StageInv /\ ReaderInv /\ MarkInv
        /\ SummaryInv /\ w \in Actors
    BY Processes DEF UdbgfsInv
  <1>b. /\ UNCHANGED <<stage, files, lock, cur, bytes_in_buf, bytes_left, data, len,
                       msgs, log, beyond, got, start, entry, summaries, copyFailed>>
        /\ stage = "ready" /\ pc[w] = "idle"
        /\ pc' = [pc EXCEPT ![w] = IF entry # 0 THEN "done" ELSE "mark"]
    BY DEF TestEntry, bufVars, readVars
  <1>c. /\ \A x \in Actors \cup Readers :
             pc'[x] = IF x = w THEN IF entry # 0 THEN "done" ELSE "mark" ELSE pc[x]
        /\ pc' \in [Actors \cup Readers ->
               {"idle", "advance", "mark", "summary", "copy", "again", "done",
                "oops"}]
    BY <1>a, <1>b DEF PlaceInv
  <1>d. /\ overlap' \in BOOLEAN
        /\ overlap' <=> overlap \/ (entry = 0 /\ \E v \in Writers : pc[v] = "mark")
    BY <1>a DEF TestEntry, TypeOK
  <1>e. /\ \A p \in Printers : pc'[p] = pc[p]
        /\ \A r \in Readers : pc'[r] = pc[r]
        /\ \A v \in Writers : pc'[v] = pc[v] \/ pc'[v] \in {"done", "mark"}
    BY <1>c, Processes
  <1>1. TypeOK'
    BY <1>a, <1>b, <1>d, <1>e DEF TypeOK
  <1>2. PlaceInv' /\ StageInv'
    BY <1>a, <1>b, <1>c DEF PlaceInv, StageInv
  <1>3. LockInv'
    BY <1>a, <1>b, <1>c, Processes DEF LockInv
  <1>4. ReaderInv'
    BY <1>a, <1>b, <1>e DEF ReaderInv
  <1>5. MarkInv'
    BY <1>a, <1>b, <1>c, <1>d, Processes DEF MarkInv
  <1>6. SummaryInv'
    BY <1>a, <1>b, <1>c, Processes DEF SummaryInv
  <1>. QED
    BY <1>b, <1>1, <1>2, <1>3, <1>4, <1>5, <1>6, NothingPrinted DEF UdbgfsInv, bufVars

\* A writer marks the entry, and reads what was written.
LEMMA MarkEntryStep ==
  ASSUME UdbgfsInv, NEW w \in Writers, MarkEntry(w)
  PROVE  UdbgfsInv'
  <1>a. /\ TypeOK /\ PlaceInv /\ LockInv /\ StageInv /\ ReaderInv /\ MarkInv
        /\ SummaryInv /\ w \in Actors
    BY Processes DEF UdbgfsInv
  <1>b. /\ UNCHANGED <<stage, files, lock, cur, bytes_in_buf, bytes_left, data, len,
                       msgs, log, beyond, got, start, overlap>>
        /\ pc[w] = "mark" /\ entry' = entry + 1
        /\ entry \in Nat /\ summaries \in Nat
    BY <1>a DEF MarkEntry, bufVars, readVars, TypeOK
  <1>c. PICK place \in {"summary", "done"} :
          /\ pc' = [pc EXCEPT ![w] = place]
          /\ \/ summaries' = summaries /\ copyFailed' = TRUE
             \/ summaries' = summaries + 1 /\ copyFailed' = copyFailed
    BY DEF MarkEntry
  <1>d. /\ \A x \in Actors \cup Readers : pc'[x] = IF x = w THEN place ELSE pc[x]
        /\ pc' \in [Actors \cup Readers ->
               {"idle", "advance", "mark", "summary", "copy", "again", "done",
                "oops"}]
    BY <1>a, <1>c DEF PlaceInv
  <1>e. /\ \A p \in Printers : pc'[p] = pc[p]
        /\ \A r \in Readers : pc'[r] = pc[r]
        /\ \A v \in Writers : pc'[v] = IF v = w THEN place ELSE pc[v]
    BY <1>d, Processes
  <1>1. TypeOK'
    <2>1. copyFailed' \in BOOLEAN
      BY <1>a, <1>c DEF TypeOK
    <2>2. summaries' \in Nat
      BY <1>b, <1>c
    <2>. QED  BY <1>a, <1>b, <1>e, <2>1, <2>2 DEF TypeOK
  <1>2. PlaceInv' /\ StageInv'
    BY <1>a, <1>b, <1>d DEF PlaceInv, StageInv
  <1>3. LockInv'
    BY <1>a, <1>b, <1>d, Processes DEF LockInv
  <1>4. ReaderInv'
    BY <1>a, <1>b, <1>e DEF ReaderInv
  <1>5. MarkInv'
    <2>1. SUFFICES ASSUME ~overlap
                   PROVE  /\ \A v \in Writers : pc'[v] # "mark"
                          /\ entry' # 0 /\ summaries' <= 1
      BY <1>b DEF MarkInv
    <2>2. entry = 0 /\ summaries = 0
      BY <1>a, <1>b, <2>1 DEF MarkInv
    <2>3. \A v \in Writers : pc[v] = "mark" => v = w
      BY <1>a, <1>b, <2>1 DEF MarkInv
    <2>. QED  BY <1>b, <1>c, <1>e, <2>2, <2>3
  <1>6. SummaryInv'
    BY <1>b, <1>c DEF SummaryInv
  <1>. QED
    BY <1>b, <1>1, <1>2, <1>3, <1>4, <1>5, <1>6, NothingPrinted DEF UdbgfsInv, bufVars

\* A reader looks whether the buffer is empty.
LEMMA ReadCheckStep ==
  ASSUME UdbgfsInv, NEW r \in Readers, ReadCheck(r)
  PROVE  UdbgfsInv'
  <1>a. /\ TypeOK /\ PlaceInv /\ LockInv /\ StageInv /\ ReaderInv /\ MarkInv
        /\ SummaryInv /\ r \notin Actors /\ bytes_in_buf \in Nat
    BY Processes DEF UdbgfsInv, TypeOK
  <1>b. /\ UNCHANGED <<stage, files, lock, cur, bytes_in_buf, bytes_left, data, len,
                       msgs, log, beyond, got, entry, summaries, copyFailed, overlap>>
        /\ stage = "ready"
        /\ start' = [start EXCEPT ![r] = IF pc[r] = "idle" THEN bytes_in_buf ELSE @]
        /\ pc' = [pc EXCEPT ![r] = IF bytes_in_buf = 0 THEN "done" ELSE "copy"]
    BY DEF ReadCheck, bufVars, sumVars
  <1>c. /\ \A x \in Actors \cup Readers :
             pc'[x] = IF x = r THEN IF bytes_in_buf = 0 THEN "done" ELSE "copy"
                               ELSE pc[x]
        /\ pc' \in [Actors \cup Readers ->
               {"idle", "advance", "mark", "summary", "copy", "again", "done",
                "oops"}]
    BY <1>a, <1>b DEF PlaceInv
  <1>d. /\ \A x \in Readers :
             start'[x] = IF x = r /\ pc[r] = "idle" THEN bytes_in_buf ELSE start[x]
        /\ start' \in [Readers -> Nat]
    BY <1>a, <1>b DEF PlaceInv
  <1>e. /\ \A a \in Actors : pc'[a] = pc[a]
        /\ \A p \in Printers : pc'[p] = pc[p]
        /\ \A w \in Writers : pc'[w] = pc[w]
        /\ \A x \in Readers : pc'[x] = pc[x] \/ pc'[x] \in {"done", "copy"}
    BY <1>a, <1>c, Processes
  <1>1. TypeOK'
    BY <1>a, <1>b, <1>e DEF TypeOK
  <1>2. PlaceInv' /\ StageInv'
    BY <1>a, <1>b, <1>c, <1>d DEF PlaceInv, StageInv
  <1>3. LockInv' /\ MarkInv' /\ SummaryInv'
    BY <1>a, <1>b, <1>e DEF LockInv, MarkInv, SummaryInv
  <1>4. ReaderInv'
    <2>1. ASSUME NEW x \in Readers
          PROVE  /\ start'[x] <= bytes_in_buf
                 /\ pc'[x] = "done" => Len(got[x]) >= start'[x]
      <3>1. /\ start[x] \in Nat /\ start[x] <= bytes_in_buf /\ Len(got[x]) \in Nat
            /\ pc[x] = "done" => Len(got[x]) >= start[x]
        BY <1>a, ScalarFacts DEF ReaderInv
      <3>. QED  BY <1>a, <1>c, <1>d, <3>1
    <2>. QED  BY <1>a, <1>b, <2>1 DEF ReaderInv
  <1>. QED
    BY <1>b, <1>1, <1>2, <1>3, <1>4, NothingPrinted DEF UdbgfsInv, bufVars

\* What a reader has after it copied: what it had, and then all the buffer holds.
LEMMA CopiedFacts ==
  ASSUME UdbgfsInv, NEW r \in Readers, Len(got[r]) < bytes_in_buf
  PROVE  /\ got[r] \o Copied(r) \in Seq(Int)
         /\ Len(got[r] \o Copied(r)) = bytes_in_buf
         /\ \A i \in 1 .. bytes_in_buf :
              i < Cap => (got[r] \o Copied(r))[i] = log[i]
  <1>a. /\ TypeOK /\ PlaceInv /\ LogInv /\ DataInv /\ ReaderInv
    BY DEF UdbgfsInv
  <1>b. /\ got[r] \in Seq(Int) /\ Len(got[r]) \in Nat /\ bytes_in_buf \in Nat
        /\ Cap \in Nat /\ Pending \in Nat
    BY <1>a, ScalarFacts, Sizes DEF PlaceInv
  <1> DEFINE m == Len(got[r])
             n == bytes_in_buf - Len(got[r])
             c == Copied(r)
  <1>1. n \in Nat
    BY <1>b
  <1>2. \A i \in Nat : Byte(i) \in Int
    <2>. TAKE i \in Nat
    <2>1. CASE i < Cap
      <3>1. i \in 0 .. (Cap - 1)
        BY <1>b, <2>1
      <3>2. data[i] \in {Unset, Nul} \cup 1 .. msgs
        BY <1>a, <3>1 DEF TypeOK
      <3>3. msgs \in Nat
        BY <1>a DEF PlaceInv
      <3>4. data[i] \in Int
        BY <3>2, <3>3 DEF Unset, Nul
      <3>. QED  BY <2>1, <3>4 DEF Byte
    <2>2. CASE ~(i < Cap)
      BY <2>2 DEF Byte, Outside
    <2>. QED  BY <2>1, <2>2
  <1>3. c = [k \in 1 .. n |-> Byte(m + k - 1)]
    BY DEF Copied
  <1> HIDE DEF c
  <1>4. /\ \A k \in 1 .. n : c[k] = Byte(m + k - 1)
        /\ c \in [1 .. n -> Int]
    <2>1. \A k \in 1 .. n : m + k - 1 \in Nat
      BY <1>b
    <2>. QED  BY <1>2, <1>3, <2>1
  <1>5. c \in Seq(Int) /\ Len(c) = n
    BY <1>1, <1>4, SequenceOfFunction
  <1>6. /\ got[r] \o c \in Seq(Int)
        /\ Len(got[r] \o c) = m + n
        /\ \A i \in 1 .. m + n :
             (got[r] \o c)[i] = IF i <= m THEN got[r][i] ELSE c[i - m]
    BY <1>b, <1>5, ConcatProperties
  <1>7. m + n = bytes_in_buf
    BY <1>b
  <1>8. ASSUME NEW i \in 1 .. bytes_in_buf, i < Cap
        PROVE  (got[r] \o c)[i] = log[i]
    <2>1. CASE i <= m
      BY <1>a, <1>6, <1>7, <1>8, <2>1 DEF ReaderInv
    <2>2. CASE ~(i <= m)
      <3>1. i - m \in 1 .. n /\ m + (i - m) - 1 = i - 1
        BY <1>b, <2>2
      <3>2. (got[r] \o c)[i] = Byte(i - 1)
        BY <1>4, <1>6, <1>7, <2>2, <3>1
      <3>3. i - 1 \in 0 .. (Cap - 2) /\ i - 1 < bytes_in_buf + Pending
            /\ i - 1 < Cap /\ (i - 1) + 1 = i
        BY <1>b, <1>8
      <3>4. data[i - 1] = log[i]
        BY <1>a, <3>3 DEF DataInv
      <3>. QED  BY <3>2, <3>3, <3>4 DEF Byte
    <2>. QED  BY <2>1, <2>2
  <1>. QED  BY <1>6, <1>7, <1>8 DEF c

\* A reader copies what is left to read, or is at the end.
LEMMA ReadCopyStep ==
  ASSUME UdbgfsInv, NEW r \in Readers, ReadCopy(r)
  PROVE  UdbgfsInv'
  <1>a. /\ TypeOK /\ PlaceInv /\ LockInv /\ StageInv /\ ReaderInv /\ MarkInv
        /\ SummaryInv /\ r \notin Actors /\ bytes_in_buf \in Nat
    BY Processes DEF UdbgfsInv, TypeOK
  <1>b. /\ UNCHANGED <<stage, files, lock, cur, bytes_in_buf, bytes_left, data, len,
                       msgs, log, beyond, start, entry, summaries, copyFailed, overlap>>
        /\ pc[r] = "copy"
    BY DEF ReadCopy, bufVars, sumVars
  <1>c. PICK place \in {"done", "again"}, g \in Seq(Int) :
          /\ pc' = [pc EXCEPT ![r] = place]
          /\ got' = [got EXCEPT ![r] = g]
          /\ Len(g) = bytes_in_buf
          /\ \A i \in 1 .. Len(g) : i < Cap => g[i] = log[i]
    <2>1. CASE Len(got[r]) >= bytes_in_buf
      <3>1. got[r] \in Seq(Int) /\ Len(got[r]) = bytes_in_buf
        BY <1>a, <2>1, ScalarFacts DEF PlaceInv, ReaderInv
      <3>2. pc' = [pc EXCEPT ![r] = "done"] /\ got' = [got EXCEPT ![r] = got[r]]
        <4>1. pc' = [pc EXCEPT ![r] = "done"] /\ got' = got
          BY <1>a, <2>1, <3>1 DEF ReadCopy
        <4>2. got = [got EXCEPT ![r] = got[r]]
          BY <1>a DEF PlaceInv
        <4>. QED  BY <4>1, <4>2
      <3>3. \A i \in 1 .. Len(got[r]) : i < Cap => got[r][i] = log[i]
        BY <1>a DEF ReaderInv
      <3>. QED  BY <3>1, <3>2, <3>3
    <2>2. CASE ~(Len(got[r]) >= bytes_in_buf)
      <3>1. Len(got[r]) < bytes_in_buf
        BY <1>a, <2>2, ScalarFacts
      <3>2. /\ pc' = [pc EXCEPT ![r] = "again"]
            /\ got' = [got EXCEPT ![r] = got[r] \o Copied(r)]
        BY <2>2 DEF ReadCopy
      <3>. QED  BY <3>1, <3>2, CopiedFacts
    <2>. QED  BY <2>1, <2>2
  <1>d. /\ \A x \in Actors \cup Readers : pc'[x] = IF x = r THEN place ELSE pc[x]
        /\ pc' \in [Actors \cup Readers ->
               {"idle", "advance", "mark", "summary", "copy", "again", "done",
                "oops"}]
        /\ \A x \in Readers : got'[x] = IF x = r THEN g ELSE got[x]
        /\ got' \in [Readers -> Seq(Int)]
    BY <1>a, <1>c DEF PlaceInv
  <1>e. /\ \A a \in Actors : pc'[a] = pc[a]
        /\ \A p \in Printers : pc'[p] = pc[p]
        /\ \A w \in Writers : pc'[w] = pc[w]
        /\ \A x \in Readers : pc'[x] = IF x = r THEN place ELSE pc[x]
    BY <1>a, <1>d, Processes
  <1>1. TypeOK'
    BY <1>a, <1>b, <1>e DEF TypeOK
  <1>2. PlaceInv'
    BY <1>a, <1>b, <1>d DEF PlaceInv
  <1>3. StageInv'
    BY <1>a, <1>b DEF StageInv
  <1>4. LockInv' /\ MarkInv' /\ SummaryInv'
    BY <1>a, <1>b, <1>e DEF LockInv, MarkInv, SummaryInv
  <1>5. ReaderInv'
    <2>1. ASSUME NEW x \in Readers
          PROVE  /\ Len(got'[x]) <= bytes_in_buf /\ start[x] <= bytes_in_buf
                 /\ \A i \in 1 .. Len(got'[x]) : i < Cap => got'[x][i] = log[i]
                 /\ pc'[x] = "done" => Len(got'[x]) >= start[x]
      <3>1. start[x] <= bytes_in_buf /\ start[x] \in Nat
        BY <1>a, ScalarFacts DEF ReaderInv
      <3>2. CASE x = r
        BY <1>a, <1>c, <1>d, <3>1, <3>2
      <3>3. CASE x # r
        BY <1>a, <1>d, <1>e, <3>3 DEF ReaderInv
      <3>. QED  BY <3>2, <3>3
    <2>. QED  BY <1>b, <2>1 DEF ReaderInv
  <1>. QED
    BY <1>b, <1>1, <1>2, <1>3, <1>4, <1>5, NothingPrinted DEF UdbgfsInv, bufVars

\* A reader opens a file that a refused module has left.
LEMMA ReadRefusedStep ==
  ASSUME UdbgfsInv, NEW r \in Readers, ReadRefused(r)
  PROVE  UdbgfsInv'
  <1>a. /\ TypeOK /\ PlaceInv /\ LockInv /\ StageInv /\ ReaderInv /\ MarkInv
        /\ SummaryInv /\ r \notin Actors /\ Len(got[r]) \in Nat
    BY Processes, ScalarFacts DEF UdbgfsInv
  <1>b. /\ UNCHANGED <<stage, files, lock, cur, bytes_in_buf, bytes_left, data, len,
                       msgs, log, beyond, got, start, entry, summaries, copyFailed,
                       overlap>>
        /\ stage = "refused"
    BY DEF ReadRefused, bufVars, readVars, sumVars
  <1>c. PICK end \in {"oops", "done"} : pc' = [pc EXCEPT ![r] = end]
    BY DEF ReadRefused
  <1>d. /\ \A x \in Actors \cup Readers : pc'[x] = IF x = r THEN end ELSE pc[x]
        /\ pc' \in [Actors \cup Readers ->
               {"idle", "advance", "mark", "summary", "copy", "again", "done",
                "oops"}]
    BY <1>a, <1>c DEF PlaceInv
  <1>e. /\ \A a \in Actors : pc'[a] = pc[a]
        /\ \A p \in Printers : pc'[p] = pc[p]
        /\ \A w \in Writers : pc'[w] = pc[w]
        /\ \A x \in Readers : pc'[x] = IF x = r THEN end ELSE pc[x]
    BY <1>a, <1>d, Processes
  <1>1. TypeOK'
    BY <1>a, <1>b, <1>e DEF TypeOK
  <1>2. PlaceInv' /\ StageInv'
    BY <1>a, <1>b, <1>d, <1>e DEF PlaceInv, StageInv
  <1>3. LockInv' /\ MarkInv' /\ SummaryInv'
    BY <1>a, <1>b, <1>e DEF LockInv, MarkInv, SummaryInv
  <1>4. ReaderInv'
    <2>1. Len(got[r]) >= start[r]
      BY <1>a, <1>b DEF StageInv
    <2>. QED  BY <1>a, <1>b, <1>e, <2>1 DEF ReaderInv
  <1>. QED
    BY <1>b, <1>1, <1>2, <1>3, <1>4, NothingPrinted DEF UdbgfsInv, bufVars

LEMMA UdbgfsStep == UdbgfsInv /\ [Next]_vars => UdbgfsInv'
  <1>. SUFFICES ASSUME UdbgfsInv, [Next]_vars PROVE UdbgfsInv'
    OBVIOUS
  <1>1. ASSUME InitModule PROVE UdbgfsInv'
    BY <1>1, ModuleStep DEF InitModule
  <1>2. ASSUME Remove PROVE UdbgfsInv'
    BY <1>2, ModuleStep
  <1>3. ASSUME NEW p \in Printers, TestPrintk(p) PROVE UdbgfsInv'
    <2>1. p \in Actors
      BY Processes
    <2>. QED  BY <1>3, <2>1, FormatStep, Processes DEF TestPrintk
  <1>4. ASSUME NEW w \in Writers, Summary(w) PROVE UdbgfsInv'
    <2>1. w \in Actors
      BY Processes
    <2>2. stage \in {"ready", "unloaded"}
      BY <1>4, <2>1 DEF Summary, UdbgfsInv, StageInv
    <2>. QED  BY <1>4, <2>1, <2>2, FormatStep DEF Summary
  <1>5. ASSUME NEW w \in Writers, TestEntry(w) PROVE UdbgfsInv'
    BY <1>5, TestEntryStep
  <1>6. ASSUME NEW w \in Writers, MarkEntry(w) PROVE UdbgfsInv'
    BY <1>6, MarkEntryStep
  <1>7. ASSUME NEW a \in Actors, Advance(a) PROVE UdbgfsInv'
    BY <1>7, AdvanceStep
  <1>8. ASSUME NEW r \in Readers, Reader(r) PROVE UdbgfsInv'
    BY <1>8, ReadCheckStep, ReadCopyStep, ReadRefusedStep DEF Reader
  <1>9. ASSUME UNCHANGED vars PROVE UdbgfsInv'
    <2>1. UNCHANGED <<stage, files, pc, lock, cur, bytes_in_buf, bytes_left, data,
                      len, msgs, log, beyond, got, start, entry, summaries, copyFailed, overlap>>
      BY <1>9 DEF vars, bufVars, readVars, sumVars
    <2>2. CountInv' /\ LogInv' /\ DataInv'
      BY <2>1, NothingPrinted DEF bufVars
    <2>3. TypeOK' /\ PlaceInv'
      BY <2>1 DEF UdbgfsInv, TypeOK, PlaceInv
    <2>4. LockInv' /\ StageInv' /\ ReaderInv' /\ MarkInv' /\ SummaryInv'
      BY <2>1 DEF UdbgfsInv, LockInv, StageInv, ReaderInv, MarkInv, SummaryInv
    <2>. QED  BY <2>2, <2>3, <2>4 DEF UdbgfsInv
  <1>. QED
    BY <1>1, <1>2, <1>3, <1>4, <1>5, <1>6, <1>7, <1>8, <1>9
    DEF Next, Actor, Terminated

\* In every state of every behaviour the counters, the messages and what the
\* readers have agree (udbgfs.c:33-68).
THEOREM UdbgfsInvariant == Spec => []UdbgfsInv
  BY UdbgfsInit, UdbgfsStep, PTL DEF Spec

-----------------------------------------------------------------------------
(* What follows. *)

\* Every variable keeps its type: bytes_left, which wraps (udbgfs.c:42), stays
\* a size_t, and a byte of the buffer is a byte of a message printed before.
THEOREM TypeCorrect == Spec => []TypeOK
  <1>1. UdbgfsInv => TypeOK
    BY DEF UdbgfsInv
  <1>. QED  BY <1>1, UdbgfsInvariant, PTL

\* However long the messages are and however they fill the buffer, test_printk()
\* writes no byte outside of it, and bytes_in_buf exceeds its size by less than
\* what the longest message needs (udbgfs.c:38-42).
THEOREM WritesInside == Spec => []WritesStayInside
  <1>1. UdbgfsInv => WritesStayInside
    <2>. SUFFICES ASSUME UdbgfsInv PROVE WritesStayInside
      OBVIOUS
    <2>1. /\ bytes_in_buf \in Nat /\ Pending \in Nat /\ MaxLen \in Nat /\ Cap \in Nat
          /\ bytes_in_buf + Pending <= Cap + MaxLen /\ ~beyond
      BY ScalarFacts, Sizes DEF UdbgfsInv, CountInv, DataInv
    <2>. QED  BY <2>1 DEF WritesStayInside
  <1>. QED  BY <1>1, UdbgfsInvariant, PTL

\* A reader, though it takes no lock, gets a part of the log from its beginning
\* on that holds all that was counted when it began (udbgfs.c:54-66).
THEOREM ReadersGetLog == Spec => []ReaderGetsLog
  <1>1. UdbgfsInv => ReaderGetsLog
    <2>. SUFFICES ASSUME UdbgfsInv, NEW r \in Readers
                  PROVE  /\ \A i \in DOMAIN got[r] : i < Cap => got[r][i] = log[i]
                         /\ pc[r] = "done" => Len(got[r]) >= start[r]
      BY DEF ReaderGetsLog
    <2>1. DOMAIN got[r] = 1 .. Len(got[r])
      BY LenProperties DEF UdbgfsInv, PlaceInv
    <2>. QED  BY <2>1 DEF UdbgfsInv, ReaderInv
  <1>. QED  BY <1>1, UdbgfsInvariant, PTL

\* Any number of writers of "cleanup" print one summary, unless two of them
\* were between the test of entry and its increment; and none of them returns
\* without it unless a copy_from_user() has failed (udbgfs.c:75-79).
THEOREM SummaryPrintedOnce == Spec => []SummaryOnce
  <1>1. UdbgfsInv => SummaryOnce
    <2>. SUFFICES ASSUME UdbgfsInv PROVE SummaryOnce
      OBVIOUS
    <2>1. summaries <= 1 \/ overlap
      BY DEF UdbgfsInv, MarkInv
    <2>2. ASSUME NEW w \in Writers, pc[w] = "done"
          PROVE  summaries >= 1 \/ copyFailed
      BY <2>2 DEF UdbgfsInv, SummaryInv
    <2>. QED  BY <2>1, <2>2 DEF SummaryOnce
  <1>. QED  BY <1>1, UdbgfsInvariant, PTL
=============================================================================
