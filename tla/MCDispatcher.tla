---------------------------- MODULE MCDispatcher ----------------------------
(***************************************************************************)
(* Dispatcher on small pools.                                              *)
(***************************************************************************)
EXTENDS Dispatcher

mcOneQueue == [fp \in FP |-> CHOOSE q \in Queues : TRUE]
=============================================================================
