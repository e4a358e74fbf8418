---------------------------- MODULE MCModuleLife ----------------------------
(***************************************************************************)
(* ModuleLife for TLC.  kdie, kexec and kfork_thread have kthread's loop,  *)
(* ksuicide2 has ksuicide's.                                               *)
(***************************************************************************)
EXTENDS ModuleLife

MCModules == {kthread, kfork_and_defunc, ksuicide, probe5, probe5ag, probe6,
              rprobe6, suicide}

MCKdie == {kdie}
=============================================================================
