-------------------------- MODULE MCMarketingSend --------------------------
(* Two contacts, one of which may opt out.  Lists of two are queued.       *)
EXTENDS MarketingSendProperties, TLC

CONSTANTS ada, ben

MCSymmetry == Permutations(Executions) \cup Permutations(CronRuns)
=============================================================================
