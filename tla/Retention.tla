------------------------------- MODULE Retention -------------------------------
(***************************************************************************)
(* Artifacts, the bytes they share, and who may delete what. Bytes are     *)
(* staged before the transaction that accepts an artifact; a host may      *)
(* declare an accepted artifact expired when no run needs it and every     *)
(* promised audit window has passed; a collector removes byte rows that    *)
(* nothing retains. Runs, hosts and the collector take turns in any order: *)
(* only single transactions of the store are atomic. A transaction's clock *)
(* reading is the store's committed time or a later one.                   *)
(*                                                                         *)
(* crates/htlk-runtime/src/store_retention.rs, store_artifacts.rs,         *)
(* store_runs.rs, execution/step.rs, execution/extension.rs.               *)
(***************************************************************************)
EXTENDS Integers, FiniteSets

CONSTANTS
  Runs, Artifacts, Blobs,
  BlobOf,      \* storage_reference: equal values share their bytes
  ProducerOf,  \* the run whose record an artifact is
  Inputs,      \* artifacts of a run's own inputs; the others are outputs
  Audits,      \* audit_retention_ms: of a run as it started, and of a request
  None,
  MaxTime      \* bound: clock readings are 0..MaxTime
Times == 0 .. MaxTime

ASSUME MapsAssumption ==
  /\ BlobOf \in [Artifacts -> Blobs] /\ ProducerOf \in [Artifacts -> Runs]
  /\ Inputs \subseteq Artifacts
ASSUME TimesAssumption == MaxTime \in Nat /\ Audits \subseteq Nat \ {0}
ASSUME NoneAssumption == None \notin Nat

VARIABLES
  time,      \* the committed time
  state,     \* runs.status: new, running or ended
  ended,     \* terminal_time: when its first terminal status was committed
  saved,     \* the audit window saved in the run's usage record
  accepted,  \* artifacts with a final metadata record
  refs,      \* the artifacts that a run's records name
  tombstone, \* the time saved in an artifact's tombstone, or None
  bytes,     \* value_blobs
  staging,   \* what a run is about to accept, between its two transactions
  lost       \* history: runs stopped because staged bytes had vanished

vars == <<time, state, ended, saved, accepted, refs, tombstone, bytes, staging,
          lost>>

Own(r) == {a \in Artifacts : ProducerOf[a] = r}
BlobsOf(s) == {BlobOf[a] : a \in s}
Expired(a) == tombstone[a] # None
Later(t, u) == IF t < u THEN u ELSE t

Init ==
  /\ time = 0
  /\ state = [r \in Runs |-> "new"] /\ ended = [r \in Runs |-> None]
  /\ saved = [r \in Runs |-> None] /\ refs = [r \in Runs |-> {}]
  /\ accepted = {} /\ tombstone = [a \in Artifacts |-> None]
  /\ bytes = {} /\ staging = [r \in Runs |-> {}] /\ lost = {}

Tick ==
  /\ time < MaxTime /\ time' = time + 1
  /\ UNCHANGED <<state, ended, saved, accepted, refs, tombstone, bytes, staging,
                 lost>>

-------------------------------------------------------------------------------
(***************************************************************************)
(* Staging and acceptance.                                                 *)
(***************************************************************************)

\* stage_artifact, once for each value: start_run's inputs before the run
\* exists, an extension's inputs or a node's outputs while it is running.
Stage(r, a) ==
  /\ a \in Own(r) \ (accepted \union staging[r])
  /\ state[r] = IF a \in Inputs /\ state[r] = "new" THEN "new" ELSE "running"
  /\ staging[r] # {} => (a \in Inputs <=> staging[r] \subseteq Inputs)
  /\ bytes' = bytes \union {BlobOf[a]}
  /\ staging' = [staging EXCEPT ![r] = @ \union {a}]
  /\ UNCHANGED <<time, state, ended, saved, accepted, refs, tombstone, lost>>

\* A crash, a superseded owner, a refused command: what was staged stays.
Abandon(r) ==
  /\ staging[r] # {} /\ staging' = [staging EXCEPT ![r] = {}]
  /\ UNCHANGED <<time, state, ended, saved, accepted, refs, tombstone, bytes,
                 lost>>

\* check_artifact_write of everything a transaction accepts.
Present(s) == BlobsOf(s) \subseteq bytes

\* Seeded fault: a manifest names values whose metadata is not committed.
AcceptNamesOnly(r, names) ==
  /\ refs' = [refs EXCEPT ![r] = @ \union staging[r] \union names]
  /\ staging' = [staging EXCEPT ![r] = {}] /\ UNCHANGED accepted

Accept(r, names) ==
  /\ accepted' = accepted \union staging[r]
  /\ refs' = [refs EXCEPT ![r] = @ \union staging[r] \union names]
  /\ staging' = [staging EXCEPT ![r] = {}]

\* initialize_run: the run's inputs are new or artifacts of earlier runs
\* (check_input_reference); false preconditions end it at once.
StartRun(r, names, audit, fails) ==
  /\ state[r] = "new" /\ Present(staging[r])
  /\ names \subseteq accepted
  /\ \A a \in names : ~Expired(a) /\ BlobOf[a] \in bytes
  /\ Accept(r, names)
  /\ saved' = [saved EXCEPT ![r] = audit]
  /\ state' = [state EXCEPT ![r] = IF fails THEN "ended" ELSE "running"]
  /\ ended' = [ended EXCEPT ![r] = IF fails THEN time ELSE None]
  /\ UNCHANGED <<time, tombstone, bytes, lost>>

\* An extension's commit names accepted artifacts (check_references). Without
\* its bytes or with an expired name it is refused, to the host.
Extend(r, names) ==
  /\ state[r] = "running" /\ names \subseteq accepted
  /\ names \union staging[r] # {}
  /\ staging[r] \subseteq Inputs /\ Present(staging[r])
  /\ \A a \in names : ~Expired(a)
  /\ Accept(r, names)
  /\ UNCHANGED <<time, state, ended, saved, tombstone, bytes, lost>>

\* accept_node commits a node's outputs. When their bytes are gone drive stops
\* the run.
AcceptOutputs(r) ==
  /\ state[r] = "running" /\ staging[r] # {} /\ staging[r] \intersect Inputs = {}
  /\ Present(staging[r]) /\ Accept(r, {})
  /\ UNCHANGED <<time, state, ended, saved, tombstone, bytes, lost>>
LoseUpload(r) ==
  /\ state[r] = "running" /\ staging[r] # {} /\ staging[r] \intersect Inputs = {}
  /\ ~Present(staging[r])
  /\ state' = [state EXCEPT ![r] = "ended"]
  /\ ended' = [ended EXCEPT ![r] = time]
  /\ staging' = [staging EXCEPT ![r] = {}]
  /\ lost' = lost \union {r}
  /\ UNCHANGED <<time, saved, accepted, refs, tombstone, bytes>>

\* The run closes, fails or is cancelled.
FinishRun(r) ==
  /\ state[r] = "running"
  /\ state' = [state EXCEPT ![r] = "ended"]
  /\ ended' = [ended EXCEPT ![r] = time]
  /\ staging' = [staging EXCEPT ![r] = {}]
  /\ UNCHANGED <<time, saved, accepted, refs, tombstone, bytes, lost>>

-------------------------------------------------------------------------------
(***************************************************************************)
(* Expiry and collection.                                                  *)
(***************************************************************************)

\* Seeded fault: a shorter window configured later cuts a saved one short.
ConfiguredOnly(r, audit) == ended[r] + audit

\* protected_until.
ProtectedUntil(r, audit) == ended[r] + Later(audit, saved[r])

\* Seeded fault: a repeated request stamps a new tombstone.
ExpireAgain(a, audit) ==
  /\ a \in accepted
  /\ \A r \in {s \in Runs : a \in refs[s]} :
       state[r] = "ended" /\ time >= ProtectedUntil(r, audit)
  /\ tombstone' = [tombstone EXCEPT ![a] = time]
  /\ UNCHANGED <<time, state, ended, saved, accepted, refs, bytes, staging, lost>>

\* expire_artifact: its producer and every run that names it have ended, and
\* the windows of all of them are over. An expired artifact stays as it is.
ExpireArtifact(a, audit) ==
  /\ a \in accepted /\ ~Expired(a)
  /\ \A r \in {ProducerOf[a]} \union {s \in Runs : a \in refs[s]} :
       state[r] = "ended" /\ time >= ProtectedUntil(r, audit)
  /\ tombstone' = [tombstone EXCEPT ![a] = time]
  /\ UNCHANGED <<time, state, ended, saved, accepted, refs, bytes, staging, lost>>

Active == \E r \in Runs : state[r] = "running"
\* Artifact metadata that mentions a byte row, whether expired or not.
Mentions(b) == {a \in accepted : BlobOf[a] = b}

\* Seeded fault: one expired artifact gives the bytes of all of them up.
CollectAnyExpired(b) ==
  /\ b \in bytes
  /\ \E a \in Mentions(b) : Expired(a)
  /\ bytes' = bytes \ {b}
  /\ UNCHANGED <<time, state, ended, saved, accepted, refs, tombstone, staging,
                 lost>>

\* collect_garbage, for each byte row of its page: the rows of a page do not
\* depend on each other.
CollectGarbage(b) ==
  /\ b \in bytes
  /\ \A a \in Mentions(b) : Expired(a)
  /\ Active => Mentions(b) # {}
  /\ bytes' = bytes \ {b}
  /\ UNCHANGED <<time, state, ended, saved, accepted, refs, tombstone, staging,
                 lost>>

Next ==
  \/ Tick
  \/ \E r \in Runs :
       \/ \E a \in Artifacts : Stage(r, a)
       \/ Abandon(r) \/ AcceptOutputs(r) \/ LoseUpload(r) \/ FinishRun(r)
       \/ \E names \in SUBSET accepted :
            \/ Extend(r, names)
            \/ \E audit \in Audits, fails \in BOOLEAN :
                 StartRun(r, names, audit, fails)
  \/ \E a \in Artifacts, audit \in Audits : ExpireArtifact(a, audit)
  \/ \E b \in Blobs : CollectGarbage(b)

Spec == Init /\ [][Next]_vars

-------------------------------------------------------------------------------
(***************************************************************************)
(* Correctness.                                                            *)
(***************************************************************************)

\* Every variable has its type, a run ends once it has started, and only
\* accepted artifacts are named or expire.
TypeOK ==
  /\ time \in Times
  /\ state \in [Runs -> {"new", "running", "ended"}]
  /\ ended \in [Runs -> Times \union {None}]
  /\ saved \in [Runs -> Audits \union {None}]
  /\ accepted \subseteq Artifacts
  /\ refs \in [Runs -> SUBSET accepted]
  /\ tombstone \in [Artifacts -> Times \union {None}]
  /\ bytes \subseteq Blobs
  /\ staging \in [Runs -> SUBSET Artifacts] /\ lost \subseteq Runs
  /\ \A r \in Runs : /\ state[r] = "new" <=> saved[r] = None
                     /\ state[r] = "ended" <=> ended[r] # None
                     /\ staging[r] \subseteq Own(r) \ accepted
  /\ \A a \in Artifacts : Expired(a) => a \in accepted

\* A run that recovers finds everything it ever named: whatever hosts declare
\* expired and the collector removes while it runs, none of it has expired and
\* all the bytes are there (recover_artifacts, manifest). And an artifact that
\* did not expire is always readable, whoever shares its bytes.
NamesAreReadable ==
  /\ \A r \in Runs : state[r] = "running" => \A a \in refs[r] : ~Expired(a)
  /\ \A a \in accepted : ~Expired(a) => BlobOf[a] \in bytes

\* docs/runtime-guide.md:217-220: no artifact expires inside the audit window
\* that any run naming it was promised when it started, also when the window
\* was configured shorter later.
WindowsAreKept ==
  \A a \in Artifacts, r \in Runs :
    Expired(a) /\ a \in refs[r] =>
      ended[r] # None /\ tombstone[a] >= ended[r] + saved[r]

\* A tombstone is final: no later request moves it, no reappearing bytes and no
\* new run revive the artifact or name it again.
KeepsTombstones ==
  \A a \in Artifacts : Expired(a) =>
    /\ tombstone'[a] = tombstone[a]
    /\ \A r \in Runs : a \in refs'[r] => a \in refs[r]
TombstonesStand == [][KeepsTombstones]_vars

\* retention.rs:54-56: "staging-only orphans are collected only while no run is
\* active." So no run is stopped because the bytes it staged vanished.
RunsKeepUploads == lost = {}

===============================================================================
