------------------------------ MODULE MCRunStore ------------------------------
(* A run with one wait record that is drafted, then accepted; one artifact   *)
(* and its tombstone; one late reply; a root replacement; a final decision.  *)
EXTENDS RunStore

CONSTANTS o1, o2, c1, c2, wait, artifact, tombstone, reply, draft, accept, r1, r2

MCKeys == {wait, artifact, tombstone, reply}
MCTombstoneOf == [a \in {artifact} |-> tombstone]
MCDue == [p \in {draft, accept} |-> IF p = accept THEN 2 ELSE None]

NoWrites == [k \in MCKeys |-> None]
Puts(k, expected, final, payload) ==
  [NoWrites EXCEPT ![k] = [expected |-> expected, final |-> final,
                           payload |-> payload]]
Proposes(writes, next, replacement, compare) ==
  [writes |-> writes, status |-> next, root |-> replacement,
   expected |-> compare]

\* Insert the wait, settle it, settle it while finishing the run, write over
\* the settled wait, or install an extension over the first root.
MCBodies ==
  {Proposes(Puts(wait, None, FALSE, draft), None, None, None),
   Proposes(Puts(wait, 1, TRUE, accept), None, None, None),
   Proposes(Puts(wait, 1, TRUE, accept), "succeeded", None, None),
   Proposes(Puts(wait, 2, FALSE, draft), None, None, None),
   Proposes(NoWrites, None, r2, r1)}
MCInitialBodies ==
  {Proposes(Puts(artifact, None, TRUE, draft), s, None, r1) :
     s \in {None, "failed"}}
===============================================================================
