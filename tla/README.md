# Verification of the htlk runtime

TLA+ specifications of the runtime of this repository (`src/crates/htlk-runtime`):
what it stores, who may change it when, and what survives crashes, takeovers and
retries. TLC checks the specifications on small instances; TLAPS proves the
theorems listed below for every value of the constants.

## The system

A host compiles a graph, starts a *run* of it and answers its waits. An *engine*
(one process, one supervisor actor) polls a SQLite store for runs that nobody
owns, acquires a *lease* on them, and drives each with a coordinator actor and a
worker. A worker reads the run's records, does one piece of work, and commits.
Everything that survives is in the store; engines on the same store do not talk
to each other. MCP servers are called by workers, and call back: a server may
ask this client to sample, to elicit or to list roots.

| Component | State it keeps | Operations | Interacts with |
|---|---|---|---|
| Run store (`store.rs`, `store_transitions.rs`, `store_runs.rs`, `store_execution.rs`) | `runs` (status, sequence, fence, lease, committed time), `records` (revisions, final), `journal`, `commands`, `outbox` | create, initialize, acquire, renew, commit, terminal receipt, expire | every writer; SQLite serializes transactions |
| Journal replay (`store_replay.rs`) | a replayed header, records and commands | begin, apply | checked against the tables when a run recovers |
| MCP operations (`execution/mcp.rs`, `retry.rs`) | attempt, response, reservation, evidence and decision records; usage ledgers | prepare, connect, dispatch, send, record, release, normalize, accept, retry, fail | run store, MCP servers, acceptance |
| Run worker (`execution/step.rs`, `composite.rs`, `waits.rs`, `approval.rs`) | scopes, invocations, bindings, timers, waits | bind, guard, admit, operate, accept, close | run store, artifacts |
| Stops (`execution/control.rs`) | - | node, scope and run deadlines; cancellation; failures | run store |
| Supervision (`execution/mod.rs`, `recovery.rs`) | active and attached runs, coordinators, one worker pool | poll, acquire, pulse, renew, recover, shut down | run store |
| Host commands (`execution/host.rs`, `extension.rs`) | host receipts | submit a reply, decide an approval, cancel, extend | supervisor, worker, run store |
| MCP client work (`store_mcp.rs`, `store_mcp_run.rs`) | owners, session epochs, interactions, receipts, late results, journal of facts | acquire, open, receive, begin, claim, complete, cancel, deliver, settle | run ledgers, client services |
| Artifacts and retention (`store_artifacts.rs`, `store_retention.rs`) | `value_blobs`, artifact metadata, tombstones | stage, accept, reference, expire, collect, read | start, extension, acceptance, hosts |
| Client services and transports (`mcp/`) | sessions, queues, subscriptions, tasks | connect, call, notify | client work, servers |
| Analyzer, compiler, executable format | - | pure conversions | - |

What is hard here:

- *Ownership.* A coordinator may be superseded at any await. It does not know;
  only the fence and the clamped clock in the next transaction tell.
- *Effects.* Between the durable intent and the recorded response of a call
  there is a window in which nobody knows whether it happened.
- *Retries.* Commands, host requests and replies are retried by callers that
  lost the acknowledgement, after takeovers, under other clocks.
- *Clocks.* A reading may be behind the committed time. Deadlines and leases
  are compared with the later of the two, and equality means expired.
- *Budgets.* Ledgers of nested scopes are charged by several nodes, by retries
  and by the callbacks of a call, and given back when its fate is known.
- *Two-step publication.* Bytes are staged before the transaction that accepts
  them; a host may expire, and collect, in between.

Correctness, by component: the journal has one author at a time and replays to
the tables, a command decides once, nothing is accepted late, outcomes never
change (store); no blind replay, outcomes tell the truth, ledgers add up, a run
ends (dispatch); client work starts once, slots come back with evidence only,
rows written by legal calls read back (client work); what a running run names is
readable, promised windows are kept, tombstones are final (retention).

## Modules

| Module | Models | Runs | Proofs |
|---|---|---|---|
| `RunJournal` | statuses, records, journal entries, and the rules of one commit; shared by the next two | | |
| `RunReplay` | abstract specification: what a reader of the journal accepts | | |
| `RunStore` | the store of one run, one action per transaction | `MCRunStore` | `RunStoreProofs`, `RunStoreRefinement` |
| `Dispatch` | MCP invocations of one run across owners | `MCDispatch*` | planned |
| `ClientWork` | client work of one owner, a host session or a run | `MCClientWork*` | planned |
| `Retention` | artifacts of several runs, their bytes, expiry and collection | `MCRetention*` | `RetentionProofs` |

Each specification has variables named after the tables or fields they stand
for, an action per transaction or worker step, and *seeded faults*: variants of
a definition with a plausible defect, used to see that a property notices it.

**RunStore** keeps the row of `runs`, its records, journal and commands. Any
owner may call with any lease it was ever given, at any clock reading: a
superseded owner is one that still calls. `Commit` is the whole of
`PreparedTransition::apply`: authority, the command's receipt, the status, the
expected fingerprint, deadlines, compare and swap of every write, root and
status. Payloads are abstracted to drafts and acceptances; what a payload is due
by is a constant. `RunReplay` is specified on its own, from `store_replay.rs`;
the refinement maps the reader's state to the tables after every entry.

**Dispatch** takes the store's rules as one guard, `Holds(f)`: owner `f` is the
current fence, its lease has not ended and the run is running. A worker's memory
between two commits is the variable `worker` and dies with it. `sent` and
`handled` record what left and what a server did, which no code can see. A
call ends in an outcome that is a delivery (`not_sent`, `possibly_sent`,
`response_received`) with an answer. Host policy and deduplication keys are free
choices, recorded in `trusted` where they allow a replay.

**ClientWork** has no caller: any generation may call any transaction at any
time, which covers sessions, host operations and recovered owners at once. The
owner is a host session with a lease of its own or a run whose lease is borrowed
(`register_run_owner`), and the callbacks of a run operation are charged to the
run's ledgers. `granted` records what callers were told they may start.

**Retention** has several runs, since expiry asks all of them. Staging and
acceptance are two actions; a page of a collection is one action for each row,
because the rows of a page do not depend on each other.

## Runs

| Run | Question | Result |
|---|---|---|
| `MCRunStore` | Does the journal have one author at a time, with no command deciding twice and nothing accepted late, and does it replay? | holds |
| `MCDispatch` | Is anything sent twice blindly, and can an outcome lie about its effect? | holds |
| `MCDispatchEnds` | Does a run end whatever was lost? | holds under the fairness below |
| `MCDispatchShared` | Do the ledgers add up when nodes compete? | holds |
| `MCDispatchTakeover` | Does a takeover resume a recorded response? | violated (1) |
| `MCDispatchRelease` | Do answered calls release their slots? | violated (2) |
| `MCClientWork` | Does work start once, with every legal history readable and slots tied to evidence? | holds |
| `MCClientWorkFacts` | Are facts in time order? | violated (3) |
| `MCRetention` | Is what runs name readable, are windows kept, are tombstones final? | holds |
| `MCRetentionUploads` | Does a running run keep what it staged? | violated (4) |

The violations are disagreements between the code and what it says of itself:

1. `command_digest` covers the actor, which for a worker is the lease's owner.
   The diagnosis of a rejected result is a commit of its own, named by
   invocation and revision. When its author dies before the next commit, the
   successor repeats it, is refused with an idempotency conflict, and the run
   is stopped. `docs/runtime-internals.md:84` says that owner and fence are
   excluded so that a new owner can retry the same command.
2. A node stopped while its call is in flight keeps its slot: `release` is
   reached only from nodes that are not final. `docs/mcp-guide.md:588` says that
   correlated replies release concurrency.
3. `retain_mcp_native_outcome` stamps a fact with the caller's clock reading,
   unlike every other fact; `McpJournalFact` promises a monotonic commit time.
4. A collection during an active run spares bytes that no metadata mentions,
   but not bytes that only expired metadata mentions. A running run that stages
   an equal value loses it before its commit and is stopped;
   `retention.rs:54` says that staging-only orphans are collected only while no
   run is active.

(The documentation also gives schema version 12 where `store.rs` has 13.)

### Bounds

Every bound is a constant marked as one in its module.

- `MCRunStore`: two owners, two commands, two graphs, clock readings 0..3 and
  seven journal entries. Takeover, a retried command on both sides of it, an
  acceptance at and after its deadline, and the end of the run followed by a
  receipt and an expiry fit in seven entries.
- `MCDispatch`: one node, two attempts, three owners, so that a retry can cross
  two takeovers. `MCDispatchShared`: two nodes and one slot, one attempt, two
  owners; nodes are symmetric. `MCDispatchEnds`: one node, two attempts, two
  owners; no symmetry, as liveness is checked.
- `MCClientWork`: a callback and a child callback, two keys (symmetric), readings
  0..2, two generations. Budgets of two calls and one slot of the run make both
  the refusal and the reuse of a slot happen. One piece of late evidence is kept
  of each interaction, drawn from a certain and an uncertain one, and it is kept
  while it can matter. One send stands for any number. The constraint `MCLeaf`
  stops the child from working and from replying where its parent replied: what
  the child could do then, the parent alone does in the same run.
- `MCRetention`: two runs, each with an input and an output, with equal bytes
  pairwise, two audit windows, and readings 0..4, so that both windows pass
  after the second run ended.

Deadlock is not checked: a run that has ended stops, and clocks are bounded.

### Fairness

Only `MCDispatchEnds` assumes any. The supervisor polls on an interval for runs
without an owner (`Acquire`); nobody renews the lease of a coordinator that is
gone, so it expires; a retry delay passes; a coordinator whose fence is stale is
told so by its next commit and stops; and a worker that is alive keeps driving
its run, since the coordinator pulses on an interval and `bounded` limits every
call by a timeout. Nothing makes a server act, a deadline pass or a host cancel,
and a coordinator may crash at any step, though the bound on fences means
finitely often.

## Proofs

`RunStoreProofs` proves every property of `MCRunStore` for any owners, commands,
payloads, bounds and clocks. The invariants are not inductive as they stand; the
strengthening is a conjunction of parts, each proved step by step with one step
lemma per action:

- `TypeInv`: types, and that the header, the records and the journal agree on
  sequence, status and committed time;
- `LeaseInv`: every lease ever handed out has a grant in the journal, and the
  current one is the last; from it follows `FencedHistory`;
- `CommandInv`: a stored command has exactly one entry with its request; from
  it, `CommandsDecideOnce`;
- `ClockInv`: journal times never go back and are at most the committed time,
  so an acceptance within its deadline stays within it;
- `QuietInv`: after the terminal entry only unowned ones follow.

`RunStoreRefinement` proves that the store implements `RunReplay`: the initial
states map to initial states, and each transaction appends entries that the
replay accepts one by one and that bring it to the new tables, or stutters.

`RetentionProofs` proves the properties of `MCRetention` for any runs, artifacts
and windows. The strengthening adds only that a run which has not started names
nothing. The argument is that names are added in the transaction that checks
them, by a run that is running or starts, and that the transaction of an expiry
sees every such run.

Assumptions are those named in the modules, which TLC evaluates on its
instances. Liveness under fairness (`RunEnds`) is model-checked only, and so,
for now, is everything about `Dispatch` and `ClientWork`.

## Not modelled

Values: expressions, types, labels, schemas, canonical encoding and digests are
pure conversions, tested where they are. Transports, framing and processes appear
as the outcome of a send or as a request received. SQLite is taken at its word:
a transaction is atomic, and one that commits is durable. Policies of the host
are free choices. Compiler, analyzer and executable format are sequential and
keep no state.

## Plan

1. `HostCommands`: waits and approvals with their expiry; replies, decisions,
   cancellation and extension as they arrive in any order, with host receipts
   that expire; implements an abstract one-shot decision. To prove: a wait is
   decided once, by an authorized answer before its expiry.
2. `Supervision`: several runs and two engines, `max_runs`, attachment, renewal
   and shutdown; that no run is driven by two live leases, and which runs can
   starve while others wait for a host.
3. `Reducer`: scopes, nodes and loop iterations of one run with bindings,
   guards and recursive stops; that a scope closes over finished children only
   and that budgets of a scope bound those below it.
4. `ClientTasks`: remote tasks and subscriptions on the ownership of
   `ClientWork`.
5. Proofs about `ClientWork` (`WorkStartsOnce`, `HistoryReadsBack`,
   `SlotsNeedEvidence`) and about `Dispatch` (`NoBlindReplay`, `RecordsStand`,
   `LedgersAddUp`), and `Dispatch`'s guard `Holds` from `RunStore`.
