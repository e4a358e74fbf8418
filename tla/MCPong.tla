------------------------------- MODULE MCPong -------------------------------
(***************************************************************************)
(* Pong for TLC.  Two calls are one round of entry and return handler; the *)
(* third and fourth are a second round, which starts from what the first   *)
(* one left behind.                                                        *)
(***************************************************************************)
EXTENDS Pong

MCVariants == {"pong", "wa7", "wa7 no callback"}
=============================================================================
