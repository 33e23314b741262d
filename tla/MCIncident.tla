----------------------------- MODULE MCIncident -----------------------------
EXTENDS Incident

mcOneQueue == [fp \in FP |-> CHOOSE q \in Queues : TRUE]
=============================================================================
