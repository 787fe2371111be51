----------------------------- MODULE MCScheduler -----------------------------
(***************************************************************************)
(* Scheduler on its own: with one hardware thread, where everything makes  *)
(* progress, and with two, for the assert that a wakeup can break.         *)
(***************************************************************************)
EXTENDS Scheduler
=============================================================================
