------------------------------ MODULE MCRetention ------------------------------
(* An earlier run with an input and an output, and a later one with equal    *)
(* values.                                                                   *)
EXTENDS Retention, TLC

CONSTANTS r1, r2, in, out, given, later, seen, shared

MCBlobOf ==
  (in :> seen) @@ (out :> shared) @@ (given :> seen) @@ (later :> shared)
MCProducerOf ==
  (in :> r1) @@ (out :> r1) @@ (given :> r2) @@ (later :> r2)
===============================================================================
