------------------------------- MODULE ClientWork -------------------------------
(***************************************************************************)
(* The durable facts of MCP client work under one owner: the requests that *)
(* a server sends to this client (sampling, elicitation, roots), the host  *)
(* work each may start once, its reply, and what stays uncertain when an   *)
(* owner is replaced, a session closes or a deadline passes. An owner is a *)
(* host session with a lease of its own, or a run, whose lease it borrows. *)
(* Each transaction of the store is one action; callers are not modelled:  *)
(* any owner generation ever handed out may call anything at any time with *)
(* any clock reading. Labels, raw bytes and digests are left out.          *)
(*                                                                         *)
(* crates/htlk-runtime/src/store_mcp.rs, store_mcp_run.rs.                 *)
(***************************************************************************)
EXTENDS Integers, Sequences, FiniteSets

CONSTANTS
  Ids,             \* interaction ids: a session and a server request id
  SessionOf,       \* the session epoch an id belongs to
  ParentOf,        \* the callback under which it arrived, or None
  Attributed,      \* ids of a run operation's callbacks, roots/list aside
  Keys,            \* responders' idempotency keys
  MaxCalls, MaxConcurrency,  \* the owner's budget, given with each claim
  RunCalls, RunSlots,        \* what the run's ledgers have left for callbacks
  Evidence,        \* what the host may find out late about some work
  MaxLate,         \* maximum_replies: evidence kept of one interaction
  None,
  MaxTime,         \* bound: clock readings are 0..MaxTime
  MaxFence         \* bound: ownership generations
Times == 0 .. MaxTime
Fences == 1 .. MaxFence
Sessions == {SessionOf[i] : i \in Ids}
States == {"pending", "intent", "result", "cancelled"}
Deliveries == {"not_started", "uncertain", "completed"}
Replies == {"result", "error"}

ASSUME IdsAssumption ==
  /\ IsFiniteSet(Ids) /\ Attributed \subseteq Ids
  /\ ParentOf \in [Ids -> Ids \union {None}]
  /\ \A i \in Ids : LET p == ParentOf[i] IN p # None =>
       /\ p # i /\ SessionOf[p] = SessionOf[i]
       /\ p \in Attributed <=> i \in Attributed
ASSUME EvidenceAssumption ==
  \A e \in Evidence : /\ e \in [reply : Replies, delivery : Deliveries]
                      /\ e.reply = "result" => e.delivery = "completed"
ASSUME BoundsAssumption == MaxTime \in Nat /\ MaxFence \in Nat \ {0}
ASSUME NoneAssumption == None \notin Ids \union Replies \union Int

VARIABLES
  scope,       \* whether the owner is a host session or a run
  running,     \* the run is not finished; of a host, TRUE
  fence, expires,  \* the lease: of mcp_owners for a host, of runs for a run
  registered,  \* mcp_owners.generation
  last,        \* the last committed time
  operation,   \* run: the fence under which its MCP attempt is outstanding,
               \* None before it was sent, 0 once it is over
  epoch,       \* mcp_epochs, by session
  row,         \* mcp_interactions, and the facts that recovery reads with it
  calls, busy, \* mcp_owners.calls_spent and outstanding
  ledger,      \* the run's usage records: calls and slots taken by callbacks
  slot,        \* the reservation record client:<id>
  receipt,     \* mcp_receipts
  late,        \* mcp_late_results of each id
  backdated,   \* history: a fact was stamped before the committed time
  granted      \* history: the permissions to start work given for each id

owner == <<scope, running, fence, expires, registered, operation>>
money == <<calls, busy, ledger, slot>>
vars == <<owner, last, epoch, row, money, receipt, late, backdated, granted>>

Later(s, t) == IF s < t THEN t ELSE s
Sooner(s, t) == IF s < t THEN s ELSE t

Init ==
  /\ scope \in {"host", "run"} /\ running = TRUE
  /\ fence = 0 /\ expires = 0 /\ registered = 0 /\ last = 0
  /\ operation = None
  /\ epoch = [s \in Sessions |-> None] /\ row = [i \in Ids |-> None]
  /\ calls = 0 /\ busy = 0 /\ ledger = [calls |-> 0, slots |-> 0]
  /\ slot = [i \in Ids |-> "none"]
  /\ receipt = [k \in Keys |-> None] /\ late = [i \in Ids |-> {}]
  /\ backdated = FALSE /\ granted = [i \in Ids |-> <<>>]

-------------------------------------------------------------------------------
(***************************************************************************)
(* Ownership and sessions.                                                 *)
(***************************************************************************)

\* The lease itself: owner g presents it at time t.
InLease(g, t) == running /\ g = fence /\ t < expires

\* authority, whose transaction time then becomes the committed one.
Authority(g, observed) ==
  /\ g = registered
  /\ InLease(g, Later(last, observed))
  /\ last' = Later(last, observed)

\* fact: a row of mcp_events, stamped with the time given.
Fact(t) == backdated' = (backdated \/ t < last)

\* acquire_mcp_owner; for a run, SqliteStore::acquire of its lease.
Acquire(observed, expiry) ==
  LET t == Later(last, observed) IN
  /\ running /\ fence < MaxFence
  /\ observed < expiry /\ t < expiry
  /\ expires <= t
  /\ fence' = fence + 1 /\ expires' = expiry /\ last' = t
  /\ IF scope = "host" THEN registered' = fence + 1 /\ Fact(last')
                       ELSE UNCHANGED <<registered, backdated>>
  /\ UNCHANGED <<scope, running, operation, epoch, row, money, receipt, late,
                 granted>>

\* renew_mcp_owner and release_mcp_owner; for a run, a renewal of its lease.
Renew(g, observed, expiry) ==
  /\ IF scope = "host" THEN Authority(g, observed) /\ Fact(last')
     ELSE /\ InLease(g, Later(last, observed))
          /\ last' = Later(last, observed) /\ UNCHANGED backdated
  /\ observed < expiry /\ last' < expiry /\ expires < expiry
  /\ expires' = expiry
  /\ UNCHANGED <<scope, running, fence, registered, operation, epoch, row,
                 money, receipt, late, granted>>
Release(g, observed) ==
  /\ scope = "host" /\ Authority(g, observed) /\ Fact(last')
  /\ expires' = last'
  /\ UNCHANGED <<scope, running, fence, registered, operation, epoch, row,
                 money, receipt, late, granted>>

\* The run's coordinator sends, or finishes, the MCP attempt whose callbacks
\* these are; the run ends with whatever its owner leaves open.
Operate(g, observed) ==
  /\ scope = "run" /\ InLease(g, Later(last, observed))
  /\ operation' \in {IF operation = None THEN g ELSE operation, 0}
  /\ operation' # operation
  /\ last' = Later(last, observed)
  /\ UNCHANGED <<scope, running, fence, expires, registered, epoch, row, money,
                 receipt, late, backdated, granted>>
EndRun(g, observed) ==
  /\ scope = "run" /\ InLease(g, Later(last, observed))
  /\ running' = FALSE /\ operation' = 0
  /\ last' = Later(last, observed)
  /\ UNCHANGED <<scope, fence, expires, registered, epoch, row, money, receipt,
                 late, backdated, granted>>

\* open_mcp_epoch; a run's owner row follows its lease here.
OpenEpoch(g, s, observed) ==
  LET t == Later(last, observed) IN
  /\ epoch[s] = None
  /\ InLease(g, t) /\ registered <= g /\ (scope = "host" => registered = g)
  /\ registered' = g /\ last' = t /\ Fact(last')
  /\ epoch' = [epoch EXCEPT ![s] = [generation |-> g, closed |-> FALSE]]
  /\ UNCHANGED <<scope, running, fence, expires, operation, row, money, receipt,
                 late, granted>>

\* session_authority, for an open epoch.
Open(g, s) == epoch[s] = [generation |-> g, closed |-> FALSE]

\* close_mcp_epoch.
CloseEpoch(g, s, observed) ==
  /\ Open(g, s) /\ Authority(g, observed) /\ Fact(last')
  /\ epoch' = [epoch EXCEPT ![s].closed = TRUE]
  /\ UNCHANGED <<owner, row, money, receipt, late, granted>>

-------------------------------------------------------------------------------
(***************************************************************************)
(* A request arrives, and its work may start.                              *)
(***************************************************************************)

IsAttributed(i) == scope = "run" /\ i \in Attributed

\* run::admit: a callback of a run operation only while that is outstanding
\* under the same fence.
Admitted(i, g) == IsAttributed(i) => operation = g

\* A child arrives only under a callback whose host work is claimed, open and
\* its owner's own.
ParentIsWorking(i, g) ==
  LET p == row[ParentOf[i]] IN
  /\ p # None /\ p.claimed /\ p.state = "intent" /\ p.outstanding
  /\ p.generation = g
DeadlineOf(i, asked) ==
  IF ParentOf[i] = None THEN asked ELSE Sooner(asked, row[ParentOf[i]].deadline)

\* receive_mcp_interaction. A duplicate answers with the stored row.
Receive(g, i, asked, observed) ==
  /\ row[i] = None
  /\ Authority(g, observed) /\ observed < asked
  /\ Open(g, SessionOf[i]) /\ Admitted(i, g)
  /\ ParentOf[i] # None => ParentIsWorking(i, g)
  /\ last' < DeadlineOf(i, asked)
  /\ row' = [row EXCEPT ![i] =
       [state |-> "pending", delivery |-> "not_started", generation |-> g,
        deadline |-> DeadlineOf(i, asked), outstanding |-> FALSE,
        charged |-> FALSE, reply |-> None, sends |-> 0, accepted |-> FALSE,
        settled |-> None, claimed |-> FALSE, native |-> "none"]]
  /\ Fact(last')
  /\ UNCHANGED <<owner, epoch, money, receipt, late, granted>>

\* Seeded fault: a slot of the run is reserved for work of any scope.
ReserveForAny(i) ==
  /\ ledger.calls < RunCalls /\ ledger.slots < RunSlots
  /\ ledger' = [calls |-> ledger.calls + 1, slots |-> ledger.slots + 1]
  /\ slot' = [slot EXCEPT ![i] = "outstanding"]

\* run::reserve and run::release, through a commit on the run's journal.
Reserve(i) ==
  IF IsAttributed(i)
  THEN /\ ledger.calls < RunCalls /\ ledger.slots < RunSlots
       /\ ledger' = [calls |-> ledger.calls + 1, slots |-> ledger.slots + 1]
       /\ slot' = [slot EXCEPT ![i] = "outstanding"]
  ELSE UNCHANGED <<ledger, slot>>
GiveBack(i) ==
  IF IsAttributed(i) /\ slot[i] = "outstanding"
  THEN /\ ledger' = [ledger EXCEPT !.slots = @ - 1]
       /\ slot' = [slot EXCEPT ![i] = "released"]
  ELSE UNCHANGED <<ledger, slot>>

\* Caller g is told that it may do this step of the work.
Grant(kind, i, g) ==
  granted' = [granted EXCEPT ![i] = Append(@, [kind |-> kind, by |-> g])]

\* Seeded fault: a claim is answered Started for an intent that exists.
BeginWorkAgain(g, i, observed) ==
  /\ row[i] # None /\ row[i].state \in {"pending", "intent"}
  /\ Authority(g, observed) /\ Open(g, SessionOf[i]) /\ Admitted(i, g)
  /\ last' < row[i].deadline
  /\ calls < MaxCalls /\ busy < MaxConcurrency
  /\ row' = [row EXCEPT ![i].state = "intent"]
  /\ Grant("work", i, g) /\ Fact(last')
  /\ UNCHANGED <<owner, epoch, money, receipt, late>>

\* begin_mcp_work answering Started. Any other state answers Existing.
BeginWork(g, i, observed) ==
  /\ row[i] # None /\ row[i].state = "pending"
  /\ Authority(g, observed) /\ Open(g, SessionOf[i]) /\ Admitted(i, g)
  /\ last' < row[i].deadline
  /\ calls < MaxCalls /\ busy < MaxConcurrency /\ Reserve(i)
  /\ calls' = calls + 1 /\ busy' = busy + 1
  /\ row' = [row EXCEPT ![i].state = "intent", ![i].delivery = "uncertain",
                        ![i].outstanding = TRUE, ![i].charged = TRUE]
  /\ Grant("work", i, g) /\ Fact(last')
  /\ UNCHANGED <<owner, epoch, receipt, late>>

\* claim_mcp_host_operation, and claim_mcp_native_operation under its claim.
Working(g, i) ==
  /\ row[i] # None /\ row[i].generation = g
  /\ row[i].state = "intent" /\ row[i].outstanding
  /\ Open(g, SessionOf[i]) /\ Admitted(i, g)
ClaimHost(g, i, observed) ==
  /\ Working(g, i) /\ row[i].charged /\ ~row[i].claimed
  /\ Authority(g, observed) /\ last' < row[i].deadline
  /\ row' = [row EXCEPT ![i].claimed = TRUE]
  /\ Grant("host", i, g) /\ Fact(last')
  /\ UNCHANGED <<owner, epoch, money, receipt, late>>
ClaimNative(g, i, observed) ==
  /\ Working(g, i) /\ row[i].claimed /\ row[i].native = "none"
  /\ Authority(g, observed) /\ last' < row[i].deadline
  /\ row' = [row EXCEPT ![i].native = "intent"]
  /\ Grant("native", i, g) /\ Fact(last')
  /\ UNCHANGED <<owner, epoch, money, receipt, late>>

\* retain_mcp_native_outcome keeps what the native call returned, for whoever
\* asks and at the time he observed: it asks for no authority and its fact is
\* not clamped.
RetainOutcome(i, observed) ==
  /\ row[i] # None /\ row[i].native = "intent"
  /\ row' = [row EXCEPT ![i].native = "known"]
  /\ Fact(observed)
  /\ UNCHANGED <<owner, last, epoch, money, receipt, late, granted>>

-------------------------------------------------------------------------------
(***************************************************************************)
(* Replies, cancellation and what comes late.                              *)
(***************************************************************************)

\* validate_work_reply: only completed work has a result to tell.
Sensible(reply, delivery) == reply = "result" => delivery = "completed"

\* Seeded fault: the deadline is not checked again when the reply is stored.
CompleteLate(g, i, k, reply, delivery, observed) ==
  /\ row[i] # None /\ receipt[k] = None /\ Sensible(reply, delivery)
  /\ Authority(g, observed) /\ row[i].generation = g
  /\ row[i].state = "intent" /\ delivery = "uncertain"
  /\ row' = [row EXCEPT ![i].state = "result", ![i].reply = reply]
  /\ receipt' = [receipt EXCEPT ![k] =
                   [id |-> i, reply |-> reply, delivery |-> delivery]]
  /\ Fact(last')
  /\ UNCHANGED <<owner, money, epoch, late, granted>>

\* complete_mcp_work for a key not used before. Uncertain work keeps its slot.
\* submit_mcp_reply is the case of completed work in a session still open.
Complete(g, i, k, reply, delivery, observed) ==
  /\ row[i] # None /\ receipt[k] = None /\ Sensible(reply, delivery)
  /\ Authority(g, observed)
  /\ \/ row[i].state = "intent"
     \/ row[i].state = "pending" /\ delivery = "not_started"
  /\ row[i].generation = g
  /\ last' < row[i].deadline
  /\ LET open == delivery = "uncertain" IN
     /\ row' = [row EXCEPT ![i].state = "result", ![i].delivery = delivery,
                           ![i].outstanding = open, ![i].reply = reply]
     /\ IF row[i].outstanding /\ ~open
        THEN GiveBack(i) /\ busy' = busy - 1
        ELSE UNCHANGED <<ledger, slot, busy>>
  /\ receipt' = [receipt EXCEPT ![k] =
                   [id |-> i, reply |-> reply, delivery |-> delivery]]
  /\ Fact(last')
  /\ UNCHANGED <<owner, calls, epoch, late, granted>>

\* The same reply under another key: a second receipt for the first reply. The
\* same key again is answered from its receipt.
CompleteAgain(g, i, k, observed) ==
  /\ row[i] # None /\ row[i].state = "result" /\ receipt[k] = None
  /\ Authority(g, observed)
  /\ \E j \in Keys : /\ receipt[j] # None /\ receipt[j].id = i
                     /\ receipt[j].reply = row[i].reply
                     /\ receipt' = [receipt EXCEPT ![k] = receipt[j]]
  /\ Fact(last')
  /\ UNCHANGED <<owner, epoch, row, money, late, granted>>

\* Seeded fault: cancellation gives the slot back.
CancelAndRelease(g, i, observed) ==
  /\ row[i] # None /\ row[i].state \in {"pending", "intent"}
  /\ Authority(g, observed)
  /\ row' = [row EXCEPT ![i].state = "cancelled", ![i].outstanding = FALSE,
                        ![i].delivery = "not_started"]
  /\ IF row[i].outstanding THEN GiveBack(i) /\ busy' = busy - 1
     ELSE UNCHANGED <<ledger, slot, busy>>
  /\ Fact(last')
  /\ UNCHANGED <<owner, calls, epoch, receipt, late, granted>>

\* cancel_mcp_work: whatever was outstanding stays outstanding.
Cancel(g, i, observed) ==
  /\ row[i] # None /\ row[i].state \in {"pending", "intent"}
  /\ Authority(g, observed)
  /\ row' = [row EXCEPT ![i].state = "cancelled"]
  /\ Fact(last')
  /\ UNCHANGED <<owner, epoch, money, receipt, late, granted>>

\* Seeded fault: any interaction without a reply takes the refusal.
CancelledReplyOfAny(g, i, observed) ==
  /\ row[i] # None /\ row[i].reply = None
  /\ Authority(g, observed) /\ Open(g, SessionOf[i])
  /\ row' = [row EXCEPT ![i].reply = "error"]
  /\ Fact(last')
  /\ UNCHANGED <<owner, epoch, money, receipt, late, granted>>

\* record_mcp_cancelled_reply: the refusal sent for cancelled work.
CancelledReply(g, i, observed) ==
  /\ row[i] # None /\ row[i].state = "cancelled" /\ row[i].reply = None
  /\ Authority(g, observed) /\ Open(g, SessionOf[i])
  /\ row' = [row EXCEPT ![i].reply = "error"]
  /\ Fact(last')
  /\ UNCHANGED <<owner, epoch, money, receipt, late, granted>>

\* record_mcp_delivery: a send is attempted, or the transport took it.
Deliver(g, i, accepted, observed) ==
  /\ row[i] # None /\ row[i].reply # None
  /\ Authority(g, observed) /\ Open(g, SessionOf[i])
  /\ IF accepted
     THEN /\ row[i].sends > 0 /\ ~row[i].accepted
          /\ row' = [row EXCEPT ![i].accepted = TRUE]
     ELSE /\ row[i].sends = 0   \* bound: one attempt stands for any number
          /\ row' = [row EXCEPT ![i].sends = 1]
  /\ Fact(last')
  /\ UNCHANGED <<owner, epoch, money, receipt, late, granted>>

\* retain_mcp_late_reply: evidence, kept for anybody, decides nothing. (Bound:
\* it is kept when it can matter, while the work is outstanding.)
RetainLate(i, evidence) ==
  /\ row[i] # None /\ row[i].outstanding
  /\ evidence \notin late[i] /\ Cardinality(late[i]) < MaxLate
  /\ late' = [late EXCEPT ![i] = @ \union {evidence}]
  /\ UNCHANGED <<owner, last, epoch, row, money, receipt, backdated, granted>>

\* settle_mcp_work: uncertain work is settled against retained evidence that
\* it completed, or never started, by whoever owns it now.
Settle(g, i, evidence, observed) ==
  /\ row[i] # None /\ row[i].settled = None
  /\ row[i].state \in {"cancelled", "result"} /\ row[i].outstanding
  /\ Authority(g, observed) /\ evidence \in late[i]
  /\ evidence.delivery # "uncertain"
  /\ row' = [row EXCEPT ![i].outstanding = FALSE, ![i].settled = evidence,
                        ![i].delivery = evidence.delivery]
  /\ GiveBack(i) /\ busy' = busy - 1 /\ Fact(last')
  /\ UNCHANGED <<owner, calls, epoch, receipt, late, granted>>

\* Any accepted call that finds its answer stored: duplicates, existing claims,
\* validate_mcp_owner. Its time is committed all the same.
Repeat(g, observed) ==
  /\ Authority(g, observed) /\ last' # last
  /\ UNCHANGED <<owner, epoch, row, money, receipt, late, backdated, granted>>

Next ==
  \/ \E observed, expiry \in Times : Acquire(observed, expiry)
  \/ \E i \in Ids, e \in Evidence : RetainLate(i, e)
  \/ \E i \in Ids, observed \in Times : RetainOutcome(i, observed)
  \/ \E g \in Fences, observed \in Times :
       \/ \E expiry \in Times : Renew(g, observed, expiry)
       \/ Release(g, observed) \/ Repeat(g, observed)
       \/ Operate(g, observed) \/ EndRun(g, observed)
       \/ \E s \in Sessions : OpenEpoch(g, s, observed)
                              \/ CloseEpoch(g, s, observed)
       \/ \E i \in Ids :
            \/ \E asked \in Times : Receive(g, i, asked, observed)
            \/ BeginWork(g, i, observed)
            \/ ClaimHost(g, i, observed) \/ ClaimNative(g, i, observed)
            \/ Cancel(g, i, observed) \/ CancelledReply(g, i, observed)
            \/ \E accepted \in BOOLEAN : Deliver(g, i, accepted, observed)
            \/ \E e \in late[i] : Settle(g, i, e, observed)
            \/ \E k \in Keys :
                 \/ CompleteAgain(g, i, k, observed)
                 \/ \E reply \in Replies, delivery \in Deliveries :
                      Complete(g, i, k, reply, delivery, observed)

Spec == Init /\ [][Next]_vars

-------------------------------------------------------------------------------
(***************************************************************************)
(* Correctness.                                                            *)
(***************************************************************************)

Rows ==
  [state : States, delivery : Deliveries, generation : Fences,
   deadline : Times, outstanding : BOOLEAN, charged : BOOLEAN,
   reply : Replies \union {None}, sends : {0, 1}, accepted : BOOLEAN,
   settled : Evidence \union {None},
   claimed : BOOLEAN, native : {"none", "intent", "known"}]

\* Every variable has its type, and a slot exists only for charged work of a
\* run operation.
TypeOK ==
  /\ scope \in {"host", "run"} /\ running \in BOOLEAN
  /\ fence \in 0 .. MaxFence /\ registered \in 0 .. MaxFence
  /\ registered <= fence
  /\ expires \in Times /\ last \in Times /\ backdated \in BOOLEAN
  /\ operation \in 0 .. MaxFence \union {None}
  /\ epoch \in [Sessions -> [generation : Fences, closed : BOOLEAN]
                            \union {None}]
  /\ row \in [Ids -> Rows \union {None}]
  /\ calls \in Nat /\ busy \in Nat
  /\ ledger \in [calls : Nat, slots : Nat]
  /\ slot \in [Ids -> {"none", "outstanding", "released"}]
  /\ receipt \in [Keys -> [id : Ids, reply : Replies, delivery : Deliveries]
                          \union {None}]
  /\ \A i \in Ids :
       /\ late[i] \subseteq Evidence
       /\ slot[i] # "none" => IsAttributed(i) /\ row[i].charged

\* The checks that interaction() makes of a row it reads.
RowReadsBack(r) ==
  /\ r.state = "result" => r.reply # None
  /\ r.state \in {"pending", "intent"} => r.reply = None
  /\ r.outstanding <=> r.delivery = "uncertain"
  /\ r.outstanding \/ r.delivery = "completed" => r.charged
  /\ r.state = "pending" => ~r.charged /\ r.delivery = "not_started"
  /\ r.state = "intent" => r.outstanding
  /\ r.accepted => r.sends > 0
  /\ r.settled # None =>
       /\ r.state \in {"cancelled", "result"} /\ ~r.outstanding
       /\ r.settled.delivery = r.delivery
  /\ r.reply # None =>
       Sensible(r.reply, IF r.state = "cancelled" THEN "uncertain"
                         ELSE r.delivery)
\* Those that checked_usage and run::validate make of the totals and the run's
\* reservations.
TotalsReadBack ==
  LET charged == {i \in Ids : row[i] # None /\ row[i].charged}
      open == {i \in charged : row[i].outstanding}
      ofRun == {i \in charged : IsAttributed(i)}
  IN /\ calls = Cardinality(charged) /\ busy = Cardinality(open)
     /\ ledger = [calls |-> Cardinality(ofRun),
                  slots |-> Cardinality(ofRun \intersect open)]
     /\ \A i \in ofRun :
          slot[i] = IF i \in open THEN "outstanding" ELSE "released"

\* No sequence of legal calls, by any owners, writes a row that its own reader
\* refuses as corrupt: every row, receipt, parent link and total still reads
\* back, so recovery never finds its history unusable.
HistoryReadsBack ==
  /\ TotalsReadBack
  /\ \A i \in Ids : row[i] # None =>
       /\ RowReadsBack(row[i]) /\ row[i].generation <= fence
       /\ ParentOf[i] # None =>
            /\ row[ParentOf[i]] # None /\ row[ParentOf[i]].claimed
            /\ row[i].deadline <= row[ParentOf[i]].deadline
            /\ row[i].generation = row[ParentOf[i]].generation
  /\ \A k \in Keys : receipt[k] # None =>
       /\ row[receipt[k].id].state = "result"
       /\ row[receipt[k].id].reply = receipt[k].reply

\* Work starts once: whoever asks, after whatever takeover, an interaction's
\* work, its host operation and its native call are each permitted at most
\* once, in that order, and all to the owner that received the request.
WorkStartsOnce ==
  \A i \in Ids :
    LET Step(kind) == [kind |-> kind, by |-> row[i].generation] IN
    granted[i] # <<>> => \E n \in 1 .. 3 :
      granted[i] = SubSeq(<<Step("work"), Step("host"), Step("native")>>, 1, n)

\* A slot comes back only when the fate of the work is known: by a reply that
\* says so, or by evidence kept for a settlement. Not by a takeover, a
\* cancellation, a closed session, the end of the run or a deadline. And what
\* is kept busy never passes its limits.
SlotsNeedEvidence ==
  /\ busy <= MaxConcurrency /\ calls <= MaxCalls
  /\ ledger.slots <= RunSlots /\ ledger.calls <= RunCalls
  /\ \A i \in Ids : row[i] # None /\ row[i].charged /\ ~row[i].outstanding =>
       \/ \E k \in Keys : /\ receipt[k] # None /\ receipt[k].id = i
                          /\ receipt[k].delivery # "uncertain"
       \/ \E e \in late[i] : e.delivery # "uncertain" /\ row[i].settled = e

\* What is decided stands: a reply, a settlement or a terminal state never
\* changes, nothing spent is refunded, and after the deadline no work starts
\* and no result is accepted.
KeepsDecisions ==
  /\ calls <= calls' /\ ledger.calls <= ledger'.calls
  /\ \A i \in Ids : row[i] # None =>
       /\ row[i].reply # None => row'[i].reply = row[i].reply
       /\ row[i].settled # None => row'[i].settled = row[i].settled
       /\ row[i].state \in {"result", "cancelled"} =>
            row'[i].state = row[i].state
       /\ last' >= row[i].deadline =>
            /\ granted'[i] = granted[i]
            /\ row'[i].state = "result" => row[i].state = "result"
DecisionsStand == [][KeepsDecisions]_vars

\* store_mcp.rs, McpJournalFact.timestamp_ms: "Trusted monotonic commit time."
\* So no fact of an owner is stamped before the time last committed for it.
FactsInOrder == ~backdated

===============================================================================
