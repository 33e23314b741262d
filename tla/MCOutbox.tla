------------------------------ MODULE MCOutbox ------------------------------
(***************************************************************************)
(* Outbox with one worker, one producer and the booting goroutine.         *)
(***************************************************************************)
EXTENDS Outbox

mcOneQueue == [fp \in FP |-> CHOOSE q \in Queues : TRUE]
mcShards == {FP, {}}
=============================================================================
