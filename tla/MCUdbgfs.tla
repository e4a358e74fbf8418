------------------------------ MODULE MCUdbgfs ------------------------------
(***************************************************************************)
(* Two handlers print three messages and two writers of "cleanup" two      *)
(* more, of one or three bytes each, into a buffer of four: the log stays  *)
(* below it, fills it to the last byte, and overruns it with bytes_left at *)
(* 0 or above.  A size_t is wider than an int, as on x86_64.               *)
(***************************************************************************)
EXTENDS Udbgfs
=============================================================================
