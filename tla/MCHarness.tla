------------------------------ MODULE MCHarness ------------------------------
(***************************************************************************)
(* Harness for TLC: two threads, so that each may take the other's child;  *)
(* two inodes, one of them at an address that is negative as an int; logs  *)
(* of up to four lines.                                                    *)
(***************************************************************************)
EXTENDS Harness

Positive == IntHalf - 2
Negated  == IntHalf + 1

MCTests ==
  [program : {"fork_thread"}, kernel : {"removes", "inherits", "traps"},
   inode : {Positive, Negated}]
  \cup [program : {"probe8-fork"}, kernel : {"removes", "inherits", "traps"},
        inode : {Positive}]
  \cup [program : {"fork_and_defunc"}, kernel : {"skips", "oopses"},
        inode : {Positive}]
  \cup [program : {"probe7-thread", "probeme6", "suicide"}, kernel : {"removes"},
        inode : {Positive}]

MCSmallLogs == BoundedSeq({"x", "y"}, 4)
=============================================================================
