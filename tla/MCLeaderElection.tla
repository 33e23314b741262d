-------------------------- MODULE MCLeaderElection --------------------------
(***************************************************************************)
(* LeaderElection with two replicas; the clock of the second is ahead.     *)
(***************************************************************************)
EXTENDS LeaderElection

mcSkew == [r \in Replicas |-> IF r = "b" THEN 2 ELSE 0]
=============================================================================
