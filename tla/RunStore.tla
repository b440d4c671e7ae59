-------------------------------- MODULE RunStore --------------------------------
(***************************************************************************)
(* The durable authority of one run: the rows of runs, journal, records    *)
(* and commands that SqliteStore keeps, and every transaction that changes *)
(* them. Each transaction is one action, because it runs under             *)
(* TransactionBehavior::Immediate and either commits whole or leaves no    *)
(* trace; a refused transaction is a stuttering step. Workers are not      *)
(* modelled: any lease ever granted may be presented at any time, with any *)
(* clock reading, so crashed, delayed and superseded coordinators and lost *)
(* answers are all among the behaviours.                                   *)
(*                                                                         *)
(* crates/htlk-runtime/src/store.rs, store_transitions.rs, store_runs.rs,  *)
(* store_execution.rs (terminal_receipt), store_retention.rs               *)
(* (expire_artifact).                                                      *)
(***************************************************************************)
EXTENDS RunJournal

CONSTANT AuditWindow   \* how long a terminal run protects its artifacts

ASSUME AuditAssumption == AuditWindow \in Nat

VARIABLES
  status, sequence, owner, fence, expires, time, root,  \* the row of runs
  records,    \* the rows of records, by key
  commands,   \* the rows of commands: request and journal sequence
  journal,    \* the rows of journal, in sequence order
  answers     \* history: every CommitReceipt a commit call has been answered

row == <<status, sequence, owner, fence, expires, time, root>>
vars == <<status, sequence, owner, fence, expires, time, root, records,
          commands, journal, answers>>

\* Each RunLease that acquire has handed out. A worker may keep it for ever.
Leases == {[owner |-> journal[i].owner, fence |-> journal[i].fence] :
             i \in {j \in DOMAIN journal :
                      journal[j].event = "ownership_acquired"}}

NoRecords == [k \in Keys |-> None]
NoCommands == [c \in Commands |-> None]

Init ==
  /\ status = "none" /\ sequence = 0 /\ time = 0 /\ root = None
  /\ owner = None /\ fence = 0 /\ expires = None
  /\ records = NoRecords /\ commands = NoCommands
  /\ journal = <<>> /\ answers = {}

\* Seeded fault: the journal row is inserted and the run row is not advanced.
AppendedOnly(e) ==
  /\ sequence < MaxSequence
  /\ journal' = Append(journal, e)
  /\ UNCHANGED <<sequence, time>>

\* append_event under the next sequence; the row's counters follow it.
Appended(e) ==
  /\ sequence < MaxSequence
  /\ journal' = Append(journal, e)
  /\ sequence' = e.sequence
  /\ time' = e.time

\* SqliteStore::create_run.
CreateRun(r, now) ==
  /\ status = "none"
  /\ Appended(CreatedEntry(r, now))
  /\ status' = "running" /\ root' = r
  /\ UNCHANGED <<owner, fence, expires, records, commands, answers>>

\* The insertion path of SqliteStore::initialize_run: creation and the initial
\* records become visible together.
InitializeRun(body, now) ==
  /\ status = "none"
  /\ journal' = <<CreatedEntry(body.expected, now),
                  UnownedEntry("run_initialized", 2, now, body)>>
  /\ sequence' = 2 /\ time' = now /\ root' = body.expected
  /\ records' = Written(records, body.writes)
  /\ status' = StatusAfter("running", body)
  /\ UNCHANGED <<owner, fence, expires, commands, answers>>

\* Seeded fault: a takeover keeps the fence of the owner it replaces.
AcquireSameFence(o, observed, expiry) ==
  LET now == Later(time, observed) IN
  /\ observed < expiry /\ status = "running" /\ now < expiry
  /\ owner # None => expires <= now
  /\ Appended(LeaseEntry("ownership_acquired", sequence + 1, now, o, fence,
                         expiry))
  /\ owner' = o /\ expires' = expiry
  /\ UNCHANGED <<status, fence, root, records, commands, answers>>

\* SqliteStore::acquire, over the clamped time.
Acquire(o, observed, expiry) ==
  LET now == Later(time, observed) IN
  /\ observed < expiry
  /\ status = "running"
  /\ now < expiry
  /\ owner # None => expires <= now
  /\ Appended(LeaseEntry("ownership_acquired", sequence + 1, now, o,
                         fence + 1, expiry))
  /\ owner' = o /\ fence' = fence + 1 /\ expires' = expiry
  /\ UNCHANGED <<status, root, records, commands, answers>>

\* Seeded fault: renewal does not look at the status of the run.
RenewAnyStatus(lease, observed, expiry) ==
  LET now == Later(time, observed) IN
  /\ observed < expiry /\ status # "none"
  /\ Authorized(owner, fence, expires, lease, now)
  /\ now < expiry /\ expires <= expiry
  /\ Appended(LeaseEntry("ownership_renewed", sequence + 1, now, lease.owner,
                         lease.fence, expiry))
  /\ expires' = expiry
  /\ UNCHANGED <<status, owner, fence, root, records, commands, answers>>

\* SqliteStore::renew.
Renew(lease, observed, expiry) ==
  LET now == Later(time, observed) IN
  /\ observed < expiry
  /\ status # "none"
  /\ Authorized(owner, fence, expires, lease, now)
  /\ status = "running"
  /\ now < expiry /\ expires <= expiry
  /\ Appended(LeaseEntry("ownership_renewed", sequence + 1, now, lease.owner,
                         lease.fence, expiry))
  /\ expires' = expiry
  /\ UNCHANGED <<status, owner, fence, root, records, commands, answers>>

\* check_acceptance_deadline of every write, at the transaction's own time.
WithinDeadlines(writes, now) ==
  \A k \in Keys : writes[k] # None =>
    LET due == Due[writes[k].payload] IN due # None => now < due

\* Seeded fault: the repeated command is not compared with the stored request.
CommitAgainAnyRequest(lease, command, body, observed) ==
  /\ status # "none"
  /\ Authorized(owner, fence, expires, lease, Later(time, observed))
  /\ commands[command] # None
  /\ answers' = answers \union
       {[command |-> command, body |-> body,
         sequence |-> commands[command].sequence]}
  /\ UNCHANGED <<row, records, commands, journal>>

\* PreparedTransition::apply, for a command seen before: the lease must still
\* be good, the request identical, and the old receipt is the answer.
CommitAgain(lease, command, body, observed) ==
  /\ status # "none"
  /\ Authorized(owner, fence, expires, lease, Later(time, observed))
  /\ commands[command] # None
  /\ commands[command].body = body
  /\ answers' = answers \union
       {[command |-> command, body |-> body,
         sequence |-> commands[command].sequence]}
  /\ UNCHANGED <<row, records, commands, journal>>

\* Seeded fault: deadlines are checked against the proposal's own clock.
CommitByOwnClock(lease, command, body, observed) ==
  LET now == Later(time, observed) IN
  /\ status = "running"
  /\ Authorized(owner, fence, expires, lease, now)
  /\ commands[command] = None
  /\ body.expected # None => body.expected = root
  /\ WithinDeadlines(body.writes, observed)
  /\ Writable(records, body.writes)
  /\ records' = Written(records, body.writes)
  /\ status' = StatusAfter(status, body)
  /\ root' = RootAfter(root, body)
  /\ Appended(CommitEntry(sequence + 1, now, lease, command, body))
  /\ commands' = [commands EXCEPT ![command] =
                    [body |-> body, sequence |-> sequence + 1]]
  /\ answers' = answers \union
       {[command |-> command, body |-> body, sequence |-> sequence + 1]}
  /\ UNCHANGED <<owner, fence, expires>>

\* PreparedTransition::apply, for a new command.
Commit(lease, command, body, observed) ==
  LET now == Later(time, observed) IN
  /\ status # "none"
  /\ Authorized(owner, fence, expires, lease, now)
  /\ commands[command] = None
  /\ status = "running"
  /\ body.expected # None => body.expected = root
  /\ body.status # None => CanTransition(status, body.status)
  /\ WithinDeadlines(body.writes, now)
  /\ Writable(records, body.writes)
  /\ records' = Written(records, body.writes)
  /\ status' = StatusAfter(status, body)
  /\ root' = RootAfter(root, body)
  /\ Appended(CommitEntry(sequence + 1, now, lease, command, body))
  /\ commands' = [commands EXCEPT ![command] =
                    [body |-> body, sequence |-> sequence + 1]]
  /\ answers' = answers \union
       {[command |-> command, body |-> body, sequence |-> sequence + 1]}
  /\ UNCHANGED <<owner, fence, expires>>

\* Seeded fault: a second receipt under the same key replaces the first.
InsertFinalOver(event, key, payload, now) ==
  /\ status \in TerminalStatuses
  /\ records' = Written(records, FinalInsert(key, payload).writes)
  /\ Appended(UnownedEntry(event, sequence + 1, now, FinalInsert(key, payload)))
  /\ UNCHANGED <<status, owner, fence, expires, root, commands, answers>>

\* What a terminal run may still gain: one final record, outside any lease.
InsertFinal(event, key, payload, now) ==
  /\ status \in TerminalStatuses
  /\ records[key] = None
  /\ records' = Written(records, FinalInsert(key, payload).writes)
  /\ Appended(UnownedEntry(event, sequence + 1, now, FinalInsert(key, payload)))
  /\ UNCHANGED <<status, owner, fence, expires, root, commands, answers>>

\* SqliteStore::terminal_receipt; repeating a stored receipt changes nothing.
TerminalReceipt(key, payload, observed) ==
  InsertFinal("terminal_receipt", key, payload, Later(time, observed))

\* terminal_time: when the entry that decided the run's status was committed.
Decides(e) == e.event \in {"run_initialized", "records_committed"}
              /\ e.body.status # None
TerminalTime ==
  LET deciding == {i \in DOMAIN journal : Decides(journal[i])}
  IN journal[CHOOSE i \in deciding : \A j \in deciding : i <= j].time

\* SqliteStore::expire_artifact, for the run that produced the artifact; the
\* references of other runs are in module Retention.
ExpireArtifact(artifact, payload, observed) ==
  LET now == Later(time, observed) IN
  /\ status \in TerminalStatuses
  /\ IsFinal(records, artifact)
  /\ now >= TerminalTime + AuditWindow
  /\ InsertFinal("artifact_expired", TombstoneOf[artifact], payload, now)

Next ==
  \/ \E r \in Roots, now \in Times : CreateRun(r, now)
  \/ \E b \in InitialBodies, now \in Times : InitializeRun(b, now)
  \/ \E o \in Owners, observed, expiry \in Times : Acquire(o, observed, expiry)
  \/ \E l \in Leases, observed, expiry \in Times : Renew(l, observed, expiry)
  \/ \E l \in Leases, c \in Commands, b \in Bodies, observed \in Times :
       \/ Commit(l, c, b, observed)
       \/ CommitAgain(l, c, b, observed)
  \/ \E k \in ReplyKeys, p \in Payloads, observed \in Times :
       TerminalReceipt(k, p, observed)
  \/ \E a \in ArtifactKeys, p \in Payloads, observed \in Times :
       ExpireArtifact(a, p, observed)

Spec == Init /\ [][Next]_vars

-------------------------------------------------------------------------------
(***************************************************************************)
(* Correctness.                                                            *)
(***************************************************************************)

\* Every variable has its type; the journal rows are numbered 1, 2, 3, ... by
\* the sequence column and a lease is recorded whole or not at all (the CHECK
\* of store.sql).
TypeOK ==
  /\ status \in RunStatuses \union {"none"}
  /\ sequence \in Sequences
  /\ owner \in Owners \union {None}
  /\ fence \in Sequences /\ fence <= sequence
  /\ expires \in Times \union {None}
  /\ owner = None <=> expires = None
  /\ time \in Times
  /\ root \in Roots \union {None}
  /\ records \in [Keys -> Record \union {None}]
  /\ commands \in [Commands -> [body : Bodies, sequence : Sequences] \union {None}]
  /\ journal \in Seq(Entry)
  /\ Len(journal) = sequence
  /\ \A i \in DOMAIN journal : journal[i].sequence = i
  /\ answers \subseteq [command : Commands, body : Bodies, sequence : Sequences]

IsGrant(e) == e.event \in {"ownership_acquired", "ownership_renewed"}
IsFenced(e) == e.event \in {"ownership_renewed", "records_committed"}

\* Entry g is the lease grant in force when entry k was written.
GrantBefore(g, k) ==
  /\ g < k /\ IsGrant(journal[g])
  /\ \A m \in g + 1 .. k - 1 : ~IsGrant(journal[m])

\* Entry k was written by the owner and under the fence of the grant in force,
\* before that grant expired.
InsideLease(k) ==
  \E g \in DOMAIN journal :
    /\ GrantBefore(g, k)
    /\ journal[g].owner = journal[k].owner
    /\ journal[g].fence = journal[k].fence
    /\ journal[k].time < journal[g].expires

\* Entry k takes over after the grant in force expired, with the next fence.
TakesOver(k) ==
  \A g \in DOMAIN journal : GrantBefore(g, k) =>
    /\ journal[g].expires <= journal[k].time
    /\ journal[k].fence = journal[g].fence + 1

\* Exclusive authority, told by the journal alone: every commit and renewal lies
\* inside the lease in force, and a new owner takes over only after it ended. No
\* order of late, stale or repeated calls by any number of workers lets two of
\* them write in one lease interval.
FencedHistory ==
  \A k \in DOMAIN journal :
    /\ IsFenced(journal[k]) => InsideLease(k)
    /\ journal[k].event = "ownership_acquired" => TakesOver(k)

\* A command decides once: at most one journal entry carries it, and every
\* answer any caller ever received for it names that entry and the request
\* written there, whoever retried it and under whichever lease.
CommandsDecideOnce ==
  /\ \A i, j \in DOMAIN journal :
       /\ journal[i].event = "records_committed"
       /\ journal[j].event = "records_committed"
       /\ journal[i].command = journal[j].command
       => i = j
  /\ \A a \in answers :
       /\ a.sequence \in DOMAIN journal
       /\ journal[a.sequence].event = "records_committed"
       /\ journal[a.sequence].command = a.command
       /\ journal[a.sequence].body = a.body

\* No success and no reply is accepted at or after its deadline, whatever clock
\* the proposal was built with: the time that counts is the committed one, and
\* it never runs backwards along the journal.
NoLateAcceptance ==
  /\ \A i, j \in DOMAIN journal : i <= j => journal[i].time <= journal[j].time
  /\ \A i \in DOMAIN journal : journal[i].event = "records_committed" =>
       WithinDeadlines(journal[i].body.writes, journal[i].time)

\* Outcomes are immutable: a finished run keeps its status and root, a final
\* record keeps its value, no record disappears, a revision moves by one, and
\* the journal only grows.
KeepsOutcomes ==
  /\ status \in TerminalStatuses => status' = status /\ root' = root
  /\ \A k \in Keys : records[k] # None =>
       /\ records'[k] # None
       /\ records[k].final => records'[k] = records[k]
       /\ records'[k] # records[k] =>
            records'[k].revision = records[k].revision + 1
  /\ \A i \in DOMAIN journal : i \in DOMAIN journal' /\ journal'[i] = journal[i]
OutcomesImmutable == [][KeepsOutcomes]_vars

\* After the entry that finished the run, only receipts and tombstones follow:
\* no lease, no commit, no second decision. A tombstone comes after the whole
\* audit window.
TerminalIsQuiet ==
  \A i, j \in DOMAIN journal : i < j /\ Decides(journal[i]) =>
    /\ journal[j].event \in {"terminal_receipt", "artifact_expired"}
    /\ journal[j].event = "artifact_expired" =>
         journal[j].time >= journal[i].time + AuditWindow

\* The journal replays: the rows of the store are, after every transaction,
\* what ReplayState reconstructs from the journal, and no committed entry is
\* one that it rejects.
Replay == INSTANCE RunReplay
JournalReplays == Replay!Spec

===============================================================================
