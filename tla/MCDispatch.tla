------------------------------ MODULE MCDispatch ------------------------------
(* Nodes that share the run's ledger.                                        *)
EXTENDS Dispatch, TLC

CONSTANTS ledger, calls, slots

MCCharged == [n \in Nodes |-> {ledger}]
MCMaxCalls == [l \in {ledger} |-> calls]
MCMaxConcurrency == [l \in {ledger} |-> slots]
MCSymmetry == Permutations(Nodes)
===============================================================================
