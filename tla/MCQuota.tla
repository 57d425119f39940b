------------------------------ MODULE MCQuota ------------------------------
(***************************************************************************)
(* An instance of QuotaLedger for TLC: the simple lane, with every limit   *)
(* enforced and so low that each of them refuses some caller.              *)
(***************************************************************************)
EXTENDS QuotaLedger, TLC

CONSTANTS t1, t2

Each(limit) == [l \in Lane |-> limit]
McRpm    == Each(2)
McTpm    == Each(3)
McRpd    == Each(2)
McBudget == Each(3)
Callers  == Permutations(Task)
=============================================================================
