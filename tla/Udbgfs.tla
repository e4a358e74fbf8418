------------------------------- MODULE Udbgfs -------------------------------
(***************************************************************************)
(* The log of a test module, include/udbgfs.c: test_printk() appends a     *)
(* message to a fixed buffer under a spin lock; the debugfs file "data"    *)
(* reads the buffer, without the lock; a write to the file "cleanup" makes *)
(* the module append its summary, once.  u_dbfs_init() makes the files and *)
(* the buffer step by step, u_dbfs_cleanup() removes them.                 *)
(*                                                                         *)
(* A byte of a message is the number of the message.  Handlers print while *)
(* readers read and writers write; as the scripts have it, nobody opens a  *)
(* file before insmod has returned, be it with an error, and rmmod comes   *)
(* when all are done.                                                      *)
(***************************************************************************)
EXTENDS Integers, Sequences

CONSTANTS Printers,   \* the threads that print from probe handlers
          Writers,    \* the processes that write to "cleanup"
          Readers,    \* the processes that read "data" to its end
          None,       \* nobody, where a free lock has its holder
          Lens,       \* the possible lengths of a message
          Cap,        \* DATA_BUF_SIZE
          SizeMod,    \* how many values a size_t has
          IntHalf,    \* INT_MAX + 1
          MaxMsgs     \* bound: how many messages handlers print

MaxLen == CHOOSE l \in Lens : \A k \in Lens : k <= l

ASSUME UdbgfsAssumption ==
  /\ Lens \subseteq Nat \ {0}
  /\ \E l \in Lens : \A k \in Lens : k <= l
  /\ Cap \in Nat \ {0} /\ MaxMsgs \in Nat
  /\ IntHalf \in Nat /\ Cap < IntHalf
  /\ SizeMod \in Nat /\ SizeMod >= 2 * IntHalf /\ MaxLen < IntHalf
  /\ Printers \cap Writers = {} /\ (Printers \cup Writers) \cap Readers = {}
  /\ None \notin Printers \cup Writers

Actors == Printers \cup Writers

Nul     == 0       \* what vsnprintf() ends a string with
Unset   == -1      \* a byte of the buffer that nobody has written
Outside == -2      \* a byte beyond the buffer

VARIABLES
  stage,         \* how far u_dbfs_init() is; "ready", "refused", "unloaded"
  files,         \* what debugfs holds of the module
  lock,          \* who holds print_buf->lock
  cur,           \* print_buf->cur - print_buf->data
  bytes_in_buf, bytes_left, data,
  entry,         \* of write_cleanup()
  pc,            \* where each actor and reader is
  len,           \* what vsnprintf() has returned to an actor
  got,           \* what each reader has read; its length is the file position
  msgs,          \* history: how many messages there have been
  log,           \* history: all the messages, in the order of the lock
  summaries,     \* history: how often child_exit() was called
  copyFailed,    \* history: a copy_from_user() of a writer has failed
  overlap,       \* history: two writers were between the test of entry and ++
  start,         \* history: bytes_in_buf when a reader began
  beyond         \* history: vsnprintf() has written outside of the buffer

bufVars  == <<lock, cur, bytes_in_buf, bytes_left, data, len, msgs, log, beyond>>
readVars == <<got, start>>
sumVars  == <<entry, summaries, copyFailed, overlap>>
vars == <<stage, files, pc, bufVars, readVars, sumVars>>

Init ==
  /\ stage = "start" /\ files = {}
  /\ lock = None /\ cur = 0 /\ bytes_in_buf = 0 /\ bytes_left = 0
  /\ data = [i \in 0 .. (Cap - 1) |-> Unset]
  /\ len = [a \in Actors |-> 0]
  /\ pc = [x \in Actors \cup Readers |-> "idle"]
  /\ got = [r \in Readers |-> <<>>] /\ start = [r \in Readers |-> 0]
  /\ entry = 0 /\ summaries = 0 /\ copyFailed = FALSE /\ overlap = FALSE
  /\ msgs = 0 /\ log = <<>> /\ beyond = FALSE

-----------------------------------------------------------------------------
(* u_dbfs_init(), called by init_module(), and u_dbfs_cleanup() *)

\* debugfs_create_dir()
CreateDir ==
  /\ stage = "start"
  /\ \/ stage' = "dir" /\ files' = {"dir"}
     \/ stage' = "refused" /\ files' = files
  /\ UNCHANGED <<pc, bufVars, readVars, sumVars>>

\* debugfs_create_file("data"); a failure removes the directory
CreateData ==
  /\ stage = "dir"
  /\ \/ stage' = "data" /\ files' = files \cup {"data"}
     \/ stage' = "refused" /\ files' = files \ {"dir"}
  /\ UNCHANGED <<pc, bufVars, readVars, sumVars>>

\* set_up_print_buffer(); a failure leaves the files where they are
SetUpBuffer ==
  /\ stage = "data"
  /\ \/ stage' = "buffer" /\ bytes_left' = Cap
     \/ stage' = "refused" /\ UNCHANGED bytes_left
  /\ UNCHANGED <<files, pc, lock, cur, bytes_in_buf, data, len, msgs, log, beyond,
                 readVars, sumVars>>

\* debugfs_create_file("cleanup"); nobody looks whether it has failed
CreateCleanup ==
  /\ stage = "buffer"
  /\ stage' = "ready"
  /\ files' \in {files, files \cup {"cleanup"}}
  /\ UNCHANGED <<pc, bufVars, readVars, sumVars>>

\* u_dbfs_cleanup() at rmmod.
Remove ==
  /\ stage = "ready"
  /\ \A x \in Actors \cup Readers : pc[x] \in {"idle", "done"}
  /\ stage' = "unloaded" /\ files' = {}
  /\ UNCHANGED <<pc, bufVars, readVars, sumVars>>

-----------------------------------------------------------------------------
(* test_printk() *)

\* vsnprintf() of the kernel refuses a size that is negative as an int, which
\* bytes_left is once it has wrapped.
Refuses == bytes_left >= IntHalf

\* How many bytes of a message of length l fit before the terminating NUL.
Fitting(l) == IF l < bytes_left THEN l ELSE bytes_left - 1

\* Mutant of Vsnprintf: a size_t that has wrapped is just a large one.
Vsnprintf_AnySize(a, l) ==
  /\ len' = [len EXCEPT ![a] = l]
  /\ IF bytes_left = 0
     THEN UNCHANGED <<data, beyond>>
     ELSE /\ data' = [i \in DOMAIN data |->
                        IF i \in cur .. (cur + Fitting(l) - 1) THEN msgs + 1
                        ELSE IF i = cur + Fitting(l) THEN Nul ELSE data[i]]
          /\ beyond' = (beyond \/ cur + Fitting(l) >= Cap)

\* len = vsnprintf(cur, bytes_left, ...): what it writes, and the length the
\* whole message would have.
Vsnprintf(a, l) ==
  /\ len' = [len EXCEPT ![a] = IF Refuses THEN 0 ELSE l]
  /\ IF Refuses \/ bytes_left = 0
     THEN UNCHANGED <<data, beyond>>
     ELSE /\ data' = [i \in DOMAIN data |->
                        IF i \in cur .. (cur + Fitting(l) - 1) THEN msgs + 1
                        ELSE IF i = cur + Fitting(l) THEN Nul ELSE data[i]]
          /\ beyond' = (beyond \/ cur + Fitting(l) >= Cap)

\* Mutant of TakeLock: spin_lock() is left out.
TakeLock_Not(a) == lock' = lock

TakeLock(a) == lock = None /\ lock' = a

\* The lock, and vsnprintf().  A reader looks at no byte of it yet.
Format(a, l) ==
  /\ TakeLock(a)
  /\ Vsnprintf(a, l)
  /\ msgs' = msgs + 1
  /\ log' = log \o [k \in 1 .. l |-> msgs + 1]
  /\ pc' = [pc EXCEPT ![a] = "advance"]
  /\ UNCHANGED <<cur, bytes_in_buf, bytes_left>>

\* A probe handler prints a message.
TestPrintk(p) ==
  /\ stage = "ready" /\ pc[p] = "idle" /\ msgs < MaxMsgs
  /\ \E l \in Lens : Format(p, l)
  /\ UNCHANGED <<stage, files, readVars, sumVars>>

\* Mutants of Advance: bytes_left is forgotten; it is signed; the lock is kept.
Advance_KeepsLeft(a) ==
  /\ pc[a] = "advance"
  /\ cur' = cur + len[a]
  /\ bytes_in_buf' = bytes_in_buf + len[a]
  /\ pc' = [pc EXCEPT ![a] = IF a \in Writers THEN "done" ELSE "idle"]
  /\ lock' = None
  /\ UNCHANGED <<stage, files, bytes_left, data, len, msgs, log, beyond, readVars,
                 sumVars>>

Advance_SignedLeft(a) ==
  /\ pc[a] = "advance"
  /\ cur' = cur + len[a]
  /\ bytes_in_buf' = bytes_in_buf + len[a]
  /\ bytes_left' = bytes_left - len[a]
  /\ pc' = [pc EXCEPT ![a] = IF a \in Writers THEN "done" ELSE "idle"]
  /\ lock' = None
  /\ UNCHANGED <<stage, files, data, len, msgs, log, beyond, readVars, sumVars>>

Advance_KeepsLock(a) ==
  /\ pc[a] = "advance"
  /\ cur' = cur + len[a]
  /\ bytes_in_buf' = bytes_in_buf + len[a]
  /\ bytes_left' = (bytes_left - len[a]) % SizeMod
  /\ pc' = [pc EXCEPT ![a] = IF a \in Writers THEN "done" ELSE "idle"]
  /\ UNCHANGED <<stage, files, lock, data, len, msgs, log, beyond, readVars,
                 sumVars>>

\* The length is added to cur and bytes_in_buf and taken from bytes_left, and
\* the lock is released: readers now see the message.
Advance(a) ==
  /\ pc[a] = "advance"
  /\ cur' = cur + len[a]
  /\ bytes_in_buf' = bytes_in_buf + len[a]
  /\ bytes_left' = (bytes_left - len[a]) % SizeMod
  /\ pc' = [pc EXCEPT ![a] = IF a \in Writers THEN "done" ELSE "idle"]
  /\ lock' = None
  /\ UNCHANGED <<stage, files, data, len, msgs, log, beyond, readVars, sumVars>>

-----------------------------------------------------------------------------
(* write_cleanup() *)

\* if (entry) return count;
TestEntry(w) ==
  /\ stage = "ready" /\ "cleanup" \in files /\ pc[w] = "idle"
  /\ pc' = [pc EXCEPT ![w] = IF entry # 0 THEN "done" ELSE "mark"]
  /\ overlap' = (overlap \/ (entry = 0 /\ \E v \in Writers : pc[v] = "mark"))
  /\ UNCHANGED <<stage, files, bufVars, readVars, entry, summaries, copyFailed>>

\* Mutant of MarkEntry: entry++ is left out.
MarkEntry_Not(w) ==
  /\ pc[w] = "mark"
  /\ pc' = [pc EXCEPT ![w] = "summary"] /\ summaries' = summaries + 1
  /\ UNCHANGED <<stage, files, bufVars, readVars, entry, copyFailed, overlap>>

\* Mutant of MarkEntry: child_exit() is not called.
MarkEntry_NoSummary(w) ==
  /\ pc[w] = "mark"
  /\ entry' = entry + 1
  /\ pc' = [pc EXCEPT ![w] = "done"]
  /\ UNCHANGED <<stage, files, bufVars, readVars, summaries, copyFailed, overlap>>

\* entry++, and then copy_from_user(): if it fails, the write fails and there
\* is no summary, not even for the next writer.
MarkEntry(w) ==
  /\ pc[w] = "mark"
  /\ entry' = entry + 1
  /\ \/ /\ pc' = [pc EXCEPT ![w] = "summary"]
        /\ summaries' = summaries + 1 /\ UNCHANGED copyFailed
     \/ /\ pc' = [pc EXCEPT ![w] = "done"]
        /\ copyFailed' = TRUE /\ UNCHANGED summaries
  /\ UNCHANGED <<stage, files, bufVars, readVars, overlap>>

\* child_exit() prints the summary.
Summary(w) ==
  /\ pc[w] = "summary"
  /\ \E l \in Lens : Format(w, l)
  /\ UNCHANGED <<stage, files, readVars, sumVars>>

-----------------------------------------------------------------------------
(* read_data(), which a reader calls until it returns 0 *)

\* The first load of bytes_in_buf: an empty buffer is the end of the file.
ReadCheck(r) ==
  /\ stage = "ready" /\ "data" \in files /\ pc[r] \in {"idle", "again"}
  /\ start' = [start EXCEPT ![r] = IF pc[r] = "idle" THEN bytes_in_buf ELSE @]
  /\ pc' = [pc EXCEPT ![r] = IF bytes_in_buf = 0 THEN "done" ELSE "copy"]
  /\ UNCHANGED <<stage, files, bufVars, got, sumVars>>

Byte(i) == IF i < Cap THEN data[i] ELSE Outside

\* Mutant of Copied: the copy starts at the beginning of the buffer.
Copied_FromStart(r) ==
  [k \in 1 .. (bytes_in_buf - Len(got[r])) |-> Byte(k - 1)]

\* The bytes from the file position to bytes_in_buf, which is loaded again.
Copied(r) ==
  [k \in 1 .. (bytes_in_buf - Len(got[r])) |-> Byte(Len(got[r]) + k - 1)]

\* simple_read_from_buffer(): nothing is left to read, or all there is is read.
ReadCopy(r) ==
  /\ pc[r] = "copy"
  /\ \/ /\ Len(got[r]) >= bytes_in_buf
        /\ pc' = [pc EXCEPT ![r] = "done"]
        /\ got' = got
     \/ /\ Len(got[r]) < bytes_in_buf
        /\ pc' = [pc EXCEPT ![r] = "again"]
        /\ got' = [got EXCEPT ![r] = @ \o Copied(r)]
  /\ UNCHANGED <<stage, files, bufVars, start, sumVars>>

\* The same script reads "data" after a refused insmod, too (uprobes.exp:99-113).
\* A file that is still there leads to the operations of a module that the kernel
\* has freed (undefined): the reader dies in an oops, or finds the freed counter
\* at 0 and is at the end.
ReadRefused(r) ==
  /\ stage = "refused" /\ "data" \in files /\ pc[r] = "idle"
  /\ \E end \in {"oops", "done"} : pc' = [pc EXCEPT ![r] = end]
  /\ UNCHANGED <<stage, files, bufVars, readVars, sumVars>>

-----------------------------------------------------------------------------
InitModule == CreateDir \/ CreateData \/ SetUpBuffer \/ CreateCleanup

Actor(a) ==
  \/ a \in Printers /\ TestPrintk(a)
  \/ a \in Writers /\ (TestEntry(a) \/ MarkEntry(a) \/ Summary(a))
  \/ Advance(a)

Reader(r) == ReadCheck(r) \/ ReadCopy(r) \/ ReadRefused(r)

Terminated == stage \in {"refused", "unloaded"} /\ UNCHANGED vars

Next ==
  \/ InitModule \/ Remove \/ Terminated
  \/ \E a \in Actors : Actor(a)
  \/ \E r \in Readers : Reader(r)

\* insmod goes on, and so does every actor and reader that has begun.  Nobody
\* has to print, to read or to write.
Fairness ==
  /\ WF_vars(InitModule)
  /\ \A a \in Actors :
       WF_vars(Advance(a)) /\ WF_vars(a \in Writers /\ (MarkEntry(a) \/ Summary(a)))
  /\ \A r \in Readers : WF_vars(pc[r] # "idle" /\ Reader(r))

Spec     == Init /\ [][Next]_vars
FairSpec == Spec /\ Fairness

-----------------------------------------------------------------------------
\* Types, and the bounds of the counters.
TypeOK ==
  /\ stage \in {"start", "dir", "data", "buffer", "ready", "refused", "unloaded"}
  /\ files \subseteq {"dir", "data", "cleanup"}
  /\ lock \in Actors \cup {None}
  /\ cur \in Nat /\ bytes_in_buf \in Nat /\ bytes_left \in 0 .. (SizeMod - 1)
  /\ data \in [0 .. (Cap - 1) -> {Unset, Nul} \cup 1 .. msgs]
  /\ len \in [Actors -> Lens \cup {0}]
  /\ \A p \in Printers : pc[p] \in {"idle", "advance"}
  /\ \A w \in Writers : pc[w] \in {"idle", "mark", "summary", "advance", "done"}
  /\ \A r \in Readers : pc[r] \in {"idle", "copy", "again", "done", "oops"}
  /\ entry \in Nat /\ summaries \in Nat
  /\ copyFailed \in BOOLEAN /\ overlap \in BOOLEAN /\ beyond \in BOOLEAN

\* The messages are never written outside of the buffer.  It is not test_printk()
\* that sees to it, bytes_left wraps below 0, but vsnprintf(), which takes the
\* wrapped size for an error (udbgfs.c:38-42).  bytes_in_buf, which grows by what
\* a message would need, does exceed the buffer, but by the length of one message
\* since all later ones are refused: so far can read_data() read beyond it.
WritesStayInside == ~beyond /\ bytes_in_buf <= Cap + MaxLen

\* A reader, which takes no lock, gets the messages in the order they were
\* printed, byte for byte, and those printed when it began are among them, up
\* to the last byte of the buffer: that one is a NUL if the log fills the
\* buffer (udbgfs.c:54-66).
ReaderGetsLog ==
  \A r \in Readers :
    /\ \A i \in DOMAIN got[r] : i < Cap => got[r][i] = log[i]
    /\ Len(log) < Cap /\ pc[r] = "done" => Len(got[r]) >= start[r]

\* The summary is printed once, unless two writers of "cleanup" were between
\* the test of entry and its increment, and no write returns before it is printed
\* or being printed, unless a copy_from_user() has failed: entry is set by then,
\* and the summary is lost to every later writer (udbgfs.c:75-79).
SummaryOnce ==
  /\ summaries <= 1 \/ overlap
  /\ (\E w \in Writers : pc[w] = "done") => summaries >= 1 \/ copyFailed

\* A writer gets its summary into the log, whoever else prints, and a reader
\* gets to the end of the log.
CallsReturn ==
  /\ \A w \in Writers : pc[w] = "mark" ~> pc[w] = "done"
  /\ \A r \in Readers : pc[r] = "copy" ~> pc[r] = "done"
=============================================================================
