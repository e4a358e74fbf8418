----------------------------- MODULE MCUnregTest -----------------------------
(***************************************************************************)
(* Three threads, two rounds and three probe points: register_all() stops  *)
(* before the first, in between and after the last of them, and threads of *)
(* one part interleave.  MAX_PROBES leaves one entry to spare, the one     *)
(* that unregister_all() reads beyond its end.                             *)
(***************************************************************************)
EXTENDS UnregTest
=============================================================================
