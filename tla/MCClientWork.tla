----------------------------- MODULE MCClientWork -----------------------------
(* A callback of an operation, and a callback under its host work.           *)
EXTENDS ClientWork, TLC

CONSTANTS parent, child, session

MCSessionOf == [i \in Ids |-> session]
MCParentOf == [i \in Ids |-> IF i = child THEN parent ELSE None]
\* Bound: the child's work is a leaf, and replies are sent only where no child
\* has arrived.
MCLeaf == row[child] # None =>
  ~row[child].claimed /\ row[child].sends = 0 /\ row[parent].sends = 0
MCSymmetry == Permutations(Keys)

MCEvidence == {[reply |-> "result", delivery |-> "completed"],
               [reply |-> "error", delivery |-> "uncertain"]}
===============================================================================
