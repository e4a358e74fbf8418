------------------------------ MODULE MCBlink ------------------------------
(***************************************************************************)
(* Blink for TLC.  The pattern of the multiples of 3 and 5 repeats every   *)
(* 15 calls; 31 calls meet all of it twice, in either order of handlers.   *)
(***************************************************************************)
EXTENDS Blink

MCBuilds == [module : {"blink", "blink2", "probe5lim"},
             callback : BOOLEAN, blinkFirst : BOOLEAN]
=============================================================================
