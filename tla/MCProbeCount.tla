---------------------------- MODULE MCProbeCount ----------------------------
(***************************************************************************)
(* ProbeCount for TLC.  Three threads are the least that let two counting  *)
(* threads race with each other and with a nasty one; two probe points the *)
(* least that let suicide keep one for itself.                             *)
(***************************************************************************)
EXTENDS ProbeCount

MCPrograms == {"uthread", "suicide", "tdie", "texec"}
MCUthread  == {"uthread"}
MCSuicide  == {"suicide"}
=============================================================================
