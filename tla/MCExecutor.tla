------------------------------ MODULE MCExecutor ------------------------------
(***************************************************************************)
(* Instance of Executor for TLC: more tasks than slots, so that tasks are  *)
(* refused, and more than one slot, so that tasks finish while do waits.   *)
(***************************************************************************)
EXTENDS Executor
===============================================================================
