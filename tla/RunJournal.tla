------------------------------ MODULE RunJournal ------------------------------
(***************************************************************************)
(* Vocabulary shared by the durable authority of one run (RunStore) and    *)
(* the reader that reconstructs it (RunReplay): journal entries, revisioned *)
(* records, transition bodies and the two rules both sides apply, the      *)
(* lease check and the compare-and-swap write.                             *)
(*                                                                         *)
(* crates/htlk-runtime/src/store.rs, store_transitions.rs,                 *)
(* store_replay.rs.                                                        *)
(***************************************************************************)
EXTENDS Integers, Sequences

CONSTANTS
  Owners,         \* coordinator instance names, never reused
  Commands,       \* internal idempotent command IDs
  Keys,           \* record keys: a family and an id
  ReplyKeys,      \* the keys of family reply
  ArtifactKeys,   \* the keys of family artifact
  TombstoneOf,    \* the tombstone key that carries an artifact's id
  Payloads,       \* canonical record payloads
  Due,            \* acceptance deadline of a payload, None when it accepts nothing
  Roots,          \* fingerprints of the graphs a run may have active; the root
                  \* scope installed with a graph is not told apart from it
  Bodies,         \* the requests a coordinator may propose: attribution and body
  InitialBodies,  \* the bodies initialize_run may write
  None,           \* absence: SQL NULL, Option::None
  MaxTime,        \* bound: coordinator clock readings are 0..MaxTime
  MaxSequence     \* bound: sequence and fence stop here (i64::MAX in the code)

Times == 0 .. MaxTime
Sequences == 0 .. MaxSequence

TerminalStatuses == {"succeeded", "failed", "cancelled"}
RunStatuses == {"running"} \union TerminalStatuses

\* RunStatus::can_transition_to.
CanTransition(from, to) == from = "running" /\ to \in TerminalStatuses

Write == [expected : Nat \union {None}, final : BOOLEAN, payload : Payloads]
Record == [revision : Nat, final : BOOLEAN, payload : Payloads]
Body == [writes   : [Keys -> Write \union {None}],
         status   : RunStatuses \union {None},
         root     : Roots \union {None},
         expected : Roots \union {None}]

\* A body that inserts one final record and decides nothing else: the shape of
\* a terminal receipt and of an artifact tombstone.
FinalInsert(key, payload) ==
  [writes   |-> [k \in Keys |-> IF k = key
                                THEN [expected |-> None, final |-> TRUE,
                                      payload |-> payload]
                                ELSE None],
   status   |-> None, root |-> None, expected |-> None]

ASSUME NoneAssumption ==
  /\ None \notin Owners \union Commands \union Keys \union Payloads \union Roots
  /\ None \notin Int \union RunStatuses \union Record \union Write \union Body
  /\ None \notin [body : Body, sequence : Nat]
ASSUME BoundsAssumption == MaxTime \in Nat /\ MaxSequence \in Nat \ {0, 1}
ASSUME KeysAssumption ==
  /\ ReplyKeys \subseteq Keys
  /\ ArtifactKeys \subseteq Keys
  /\ TombstoneOf \in [ArtifactKeys -> Keys]
ASSUME DueAssumption == Due \in [Payloads -> Nat \union {None}]
\* PreparedTransition::new refuses an expected revision below one
\* (transition_body calls next_revision on every write).
ASSUME BodiesAssumption ==
  /\ Bodies \subseteq Body
  /\ \A b \in Bodies, k \in Keys :
       b.writes[k] # None => b.writes[k].expected # 0
\* PreparedRun::initial_records only inserts, names the prepared graph and can
\* do no more to the run than fail it.
ASSUME InitialBodiesAssumption ==
  /\ InitialBodies \subseteq Body
  /\ \A b \in InitialBodies :
       /\ \A k \in Keys : b.writes[k] # None => b.writes[k].expected = None
       /\ b.root = None /\ b.expected # None
       /\ b.status \in {None, "failed"}

EventKinds == {"run_created", "run_initialized", "ownership_acquired",
               "ownership_renewed", "records_committed", "terminal_receipt",
               "artifact_expired"}

\* One journal row. Fields an event does not carry hold None. The command of a
\* start, a receipt or a tombstone repeats its payload's key and is left out.
Entry == [event    : EventKinds,
          sequence : Sequences,
          time     : Times,
          owner    : Owners \union {None},
          fence    : Sequences \union {None},
          expires  : Times \union {None},
          command  : Commands \union {None},
          root     : Roots \union {None},
          body     : Body \union {None}]

CreatedEntry(root, time) ==
  [event |-> "run_created", sequence |-> 1, time |-> time, owner |-> None,
   fence |-> None, expires |-> None, command |-> None, root |-> root,
   body |-> None]
LeaseEntry(event, sequence, time, owner, fence, expires) ==
  [event |-> event, sequence |-> sequence, time |-> time, owner |-> owner,
   fence |-> fence, expires |-> expires, command |-> None, root |-> None,
   body |-> None]
CommitEntry(sequence, time, lease, command, body) ==
  [event |-> "records_committed", sequence |-> sequence, time |-> time,
   owner |-> lease.owner, fence |-> lease.fence, expires |-> None,
   command |-> command, root |-> None, body |-> body]
UnownedEntry(event, sequence, time, body) ==
  [event |-> event, sequence |-> sequence, time |-> time, owner |-> None,
   fence |-> None, expires |-> None, command |-> None, root |-> None,
   body |-> body]

\* The later of two clock readings: every transaction clamps the observed time
\* to the last committed one.
Later(s, t) == IF s < t THEN t ELSE s

\* Seeded fault: the lease check forgets that a lease ends.
AuthorizedForEver(owner, fence, expires, lease, now) ==
  lease.fence = fence /\ lease.owner = owner /\ owner # None

\* check_authority: the lease names the current fence and owner, and has not
\* expired at the clamped time.
Authorized(owner, fence, expires, lease, now) ==
  /\ lease.fence = fence
  /\ lease.owner = owner
  /\ owner # None
  /\ now < expires

\* next_revision: insertion is revision one, a revision adds one.
NextRevision(expected) == IF expected = None THEN 1 ELSE expected + 1

RevisionOf(records, k) ==
  IF records[k] = None THEN None ELSE records[k].revision
IsFinal(records, k) == records[k] # None /\ records[k].final

\* The compare-and-swap condition of every write of a body.
Writable(records, writes) ==
  \A k \in Keys : writes[k] # None =>
    /\ ~IsFinal(records, k)
    /\ RevisionOf(records, k) = writes[k].expected

\* The records after the writes of a body.
Written(records, writes) ==
  [k \in Keys |-> IF writes[k] = None THEN records[k]
                  ELSE [revision |-> NextRevision(writes[k].expected),
                        final    |-> writes[k].final,
                        payload  |-> writes[k].payload]]

\* The active root after a body: a root replacement or the old one.
RootAfter(root, body) == IF body.root = None THEN root ELSE body.root
StatusAfter(status, body) == IF body.status = None THEN status ELSE body.status

===============================================================================
