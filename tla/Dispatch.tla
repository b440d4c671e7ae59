-------------------------------- MODULE Dispatch --------------------------------
(***************************************************************************)
(* One run's MCP invocations, from the prepared attempt to the node's      *)
(* outcome, across coordinators that crash, stall or are superseded. The   *)
(* durable rules of RunStore appear here as Holds: a commit takes effect   *)
(* only for the current fence, before its lease ends, in a running run.    *)
(* What a worker knows between two commits is in worker, and is lost with  *)
(* it; what the server did with a request is in sent and handled.          *)
(*                                                                         *)
(* Revision comparisons: between the reads and the commit of one worker    *)
(* only a stop writes the node under the same fence, so comparing          *)
(* revisions amounts to finding the node unfinished and its attempt as it  *)
(* was. Guards, inputs and approvals of the node are not modelled.         *)
(*                                                                         *)
(* crates/htlk-runtime/src/execution/mcp.rs, retry.rs, recovery.rs (drive),*)
(* control.rs (stop), step.rs (accept_node, finish_node).                  *)
(***************************************************************************)
EXTENDS Integers, FiniteSets

CONSTANTS
  Nodes,           \* the run's MCP nodes
  MaxAttempts,     \* RetryPolicy::max_attempts
  RetryOn,         \* RetryPolicy::on: the codes a graph asks to retry
  Ledgers,         \* usage records: the run, its scopes, its invocations
  Charged,         \* the ledgers a node's dispatch is charged to
  MaxCalls,        \* max_mcp_calls of each ledger
  MaxConcurrency,  \* max_concurrency of each ledger
  None,
  MaxFence         \* bound: coordinators that ever own the run

Attempts == 1 .. MaxAttempts
Fences == 1 .. MaxFence
Calls == Nodes \X Attempts

ASSUME NodesAssumption ==
  IsFiniteSet(Nodes) /\ MaxAttempts \in Nat \ {0} /\ MaxFence \in Nat \ {0}
ASSUME LedgersAssumption ==
  /\ Charged \in [Nodes -> SUBSET Ledgers]
  /\ MaxCalls \in [Ledgers -> Nat] /\ MaxConcurrency \in [Ledgers -> Nat]

\* What an answer is once assessed: a result every check accepts, a result the
\* node's postcondition rejects, a tool error, or a reply out of protocol.
Answers == {"accepted", "rejected", "tool_error", "protocol"}
\* What a call may end with instead of an answer.
NoSendErrors == {"transport", "descriptor"}
Deliveries == {"not_sent", "possibly_sent", "response_received"}
Outcomes ==
  [delivery : {"not_sent"}, answer : NoSendErrors]
  \union [delivery : {"possibly_sent"}, answer : {"transport"}]
  \union [delivery : {"response_received"}, answer : Answers]

\* retry.rs: the codes that a retry may ever repair.
Retryable == {"transport", "protocol", "tool_error", "rejected"}
Codes == Retryable \union
         {"descriptor", "uncertain", "policy", "budget", "timeout"}
ASSUME RetryAssumption == RetryOn \subseteq Codes
ASSUME NoneAssumption ==
  /\ None \notin Outcomes \union Codes \union Fences \union BOOLEAN
  /\ None \notin Calls \union {"conflict", "cancelled"}

VARIABLES
  run,          \* "running", or how it ended
  fence, held,  \* the current lease's fence, and whether it has not expired
  status,       \* of each invocation
  failure,      \* of each invocation
  current,      \* attempt_id: the attempt in progress, None between attempts
  number,       \* attempt_number: how many attempts were prepared
  waiting,      \* retry_at is in the future
  attempt,      \* dispatch_state of each attempt record
  response,     \* each response record
  reservation,  \* state of each reservation record
  evidence,     \* calls whose normalization is recorded
  decision,     \* each decision record
  diagnosed,    \* the fence whose owner committed a call's contract diagnostic
  spent, reserved,  \* calls_spent and concurrency_reserved of each ledger
  late,         \* calls with an answer in the late-response inbox
  worker,       \* each owner's worker: what it is doing and knows
  sent,         \* history: requests handed to a server, and by which owner
  handled,      \* history: requests a server has acted on
  trusted       \* history: calls whose replay a host policy or key allowed

lease == <<fence, held>>
node == <<status, failure, current, number, waiting>>
facts == <<attempt, response, reservation, evidence, decision, diagnosed,
           spent, reserved, late>>
outside == <<sent, handled, trusted>>
vars == <<run, lease, node, facts, worker, outside>>

Idle == [phase |-> "idle", call |-> None, outcome |-> None]
Gone == [phase |-> "gone", call |-> None, outcome |-> None]
Doing(phase, call) == [phase |-> phase, call |-> call, outcome |-> None]
Knows(call, outcome) ==
  [phase |-> "answered", call |-> call, outcome |-> outcome]

Init ==
  /\ run = "running" /\ fence = 0 /\ held = FALSE
  /\ status = [n \in Nodes |-> "running"] /\ failure = [n \in Nodes |-> None]
  /\ current = [n \in Nodes |-> None] /\ number = [n \in Nodes |-> 0]
  /\ waiting = [n \in Nodes |-> FALSE]
  /\ attempt = [c \in Calls |-> "none"] /\ response = [c \in Calls |-> None]
  /\ reservation = [c \in Calls |-> "none"] /\ evidence = {}
  /\ decision = [c \in Calls |-> None] /\ diagnosed = [c \in Calls |-> None]
  /\ spent = [l \in Ledgers |-> 0] /\ reserved = [l \in Ledgers |-> 0]
  /\ late = {} /\ worker = [f \in Fences |-> Gone]
  /\ sent = {} /\ handled = {} /\ trusted = {}

\* The store accepts a commit of owner f.
Holds(f) == f = fence /\ held /\ run = "running"
Free(f) == worker[f].phase = "idle"
Active(n) == status[n] = "running"
\* Call c is the one its node is working on.
InProgress(c) == Active(c[1]) /\ current[c[1]] = c[2]
Becomes(f, w) == worker' = [worker EXCEPT ![f] = w]

-------------------------------------------------------------------------------
(***************************************************************************)
(* Ownership.                                                              *)
(***************************************************************************)

\* Seeded fault: an expired lease is not taken over.
AcquireUnowned ==
  /\ run = "running" /\ ~held /\ fence = 0
  /\ fence' = fence + 1 /\ held' = TRUE
  /\ Becomes(fence + 1, Idle)
  /\ UNCHANGED <<run, node, facts, outside>>

\* A coordinator acquires a free or expired lease and starts its worker.
Acquire ==
  /\ run = "running" /\ ~held /\ fence < MaxFence
  /\ fence' = fence + 1 /\ held' = TRUE
  /\ Becomes(fence + 1, Idle)
  /\ UNCHANGED <<run, node, facts, outside>>

\* A lease ends unrenewed, whether or not its owner still runs. The last
\* coordinator of the bounded history keeps its lease.
Expire ==
  /\ held /\ fence < MaxFence
  /\ held' = FALSE
  /\ UNCHANGED <<run, fence, node, facts, worker, outside>>

\* A coordinator ends with whatever its worker knew: the process dies, the
\* store fails, the service shuts down.
Crash(f) ==
  /\ f < MaxFence /\ worker[f] # Gone
  /\ Becomes(f, Gone)
  /\ UNCHANGED <<run, lease, node, facts, outside>>

\* A worker between commits finds its lease lost and its coordinator stops.
Superseded(f) ==
  /\ worker[f].phase \in {"idle", "connected", "diagnosed"}
  /\ ~(f = fence /\ held)
  /\ Becomes(f, Gone)
  /\ UNCHANGED <<run, lease, node, facts, outside>>

-------------------------------------------------------------------------------
(***************************************************************************)
(* The outcome of a node, and the decision about a failed attempt.         *)
(***************************************************************************)

\* finish_node with a failure.
FinishFailed(n, code) ==
  /\ status' = [status EXCEPT ![n] = "failed"]
  /\ failure' = [failure EXCEPT ![n] = code]
  /\ UNCHANGED <<current, number, waiting>>

\* Seeded fault: the graph's retry settings are enough.
MayRetryUnsafe(c, code, safe, intime) ==
  code \in Retryable \intersect RetryOn /\ c[2] < MaxAttempts /\ intime

\* replay_delay, and the comparison of the due time with the deadline.
MayRetry(c, code, safe, intime) ==
  /\ code \in Retryable \intersect RetryOn
  /\ safe
  /\ c[2] < MaxAttempts
  /\ intime

\* fail_attempt: retry after a delay, or fail the node; one commit either way.
FailAttempt(c, code, safe, intime) ==
  LET retry == MayRetry(c, code, safe, intime) IN
  /\ decision' = [decision EXCEPT ![c] =
       [verdict |-> IF retry THEN "retry" ELSE "failed", code |-> code,
        safe |-> safe]]
  /\ IF retry
     THEN /\ current' = [current EXCEPT ![c[1]] = None]
          /\ waiting' = [waiting EXCEPT ![c[1]] = TRUE]
          /\ UNCHANGED <<status, failure, number>>
     ELSE FinishFailed(c[1], code)

-------------------------------------------------------------------------------
(***************************************************************************)
(* Dispatch.                                                               *)
(***************************************************************************)

\* The retry delay has passed.
Elapse(n) ==
  /\ waiting[n]
  /\ waiting' = [waiting EXCEPT ![n] = FALSE]
  /\ UNCHANGED <<run, lease, status, failure, current, number, facts, worker,
                 outside>>

\* The next attempt record is committed with the node that names it, or the
\* request, its deduplication or the policy for its result is refused.
Prepare(f, n, allowed) ==
  LET c == <<n, number[n] + 1>> IN
  /\ Holds(f) /\ Free(f) /\ Active(n)
  /\ current[n] = None /\ ~waiting[n]
  /\ number[n] < MaxAttempts
  /\ IF allowed
     THEN /\ attempt' = [attempt EXCEPT ![c] = "prepared"]
          /\ current' = [current EXCEPT ![n] = c[2]]
          /\ number' = [number EXCEPT ![n] = c[2]]
          /\ UNCHANGED <<status, failure, waiting>>
     ELSE FinishFailed(n, "policy") /\ UNCHANGED attempt
  /\ UNCHANGED <<run, lease, response, reservation, evidence, decision,
                 diagnosed, spent, reserved, late, worker, outside>>

\* A worker that has read a prepared attempt connects, or learns that it
\* cannot. It may have lost its lease without knowing.
Connect(f, c, outcome) ==
  /\ Free(f) /\ run = "running" /\ InProgress(c) /\ attempt[c] = "prepared"
  /\ Becomes(f, IF outcome = None THEN Doing("connected", c)
                ELSE Knows(c, outcome))
  /\ UNCHANGED <<run, lease, node, facts, outside>>

\* Seeded fault: outstanding reservations are not counted.
HasCapacityForCalls(n) == \A l \in Charged[n] : spent[l] < MaxCalls[l]

\* reserve: every charged ledger has a call and a slot left.
HasCapacity(n) ==
  \A l \in Charged[n] : spent[l] < MaxCalls[l] /\ reserved[l] < MaxConcurrency[l]

AddTo(ledger, n, i) ==
  [l \in Ledgers |-> IF l \in Charged[n] THEN ledger[l] + i ELSE ledger[l]]

\* After connecting, policy and deduplication are asked again, capacity is
\* reserved and the intent committed in one transaction that compares all it
\* read; only then may the worker send.
Dispatch(f, allowed) ==
  LET c == worker[f].call IN
  /\ Holds(f) /\ worker[f].phase = "connected"
  /\ InProgress(c) /\ attempt[c] = "prepared"
  /\ IF allowed /\ HasCapacity(c[1])
     THEN /\ attempt' = [attempt EXCEPT ![c] = "possibly_sent"]
          /\ reservation' = [reservation EXCEPT ![c] = "outstanding"]
          /\ spent' = AddTo(spent, c[1], 1)
          /\ reserved' = AddTo(reserved, c[1], 1)
          /\ Becomes(f, Doing("intent", c))
          /\ UNCHANGED node
     ELSE /\ FinishFailed(c[1], IF allowed THEN "budget" ELSE "policy")
          /\ Becomes(f, Idle)
          /\ UNCHANGED <<attempt, reservation, spent, reserved>>
  /\ UNCHANGED <<run, lease, response, evidence, decision, diagnosed, late,
                 outside>>

\* The node was stopped meanwhile: the comparison fails and the worker returns.
Refused(f) ==
  /\ worker[f].phase \in {"connected", "diagnosed"}
  /\ ~InProgress(worker[f].call)
  /\ Becomes(f, Idle)
  /\ UNCHANGED <<run, lease, node, facts, outside>>

-------------------------------------------------------------------------------
(***************************************************************************)
(* The call itself. The server is outside this code.                       *)
(***************************************************************************)

\* The request leaves, or is withdrawn before anything left.
Send(f) ==
  /\ worker[f].phase = "intent"
  /\ Becomes(f, [worker[f] EXCEPT !.phase = "sent"])
  /\ sent' = sent \union {[call |-> worker[f].call, by |-> f]}
  /\ UNCHANGED <<run, lease, node, facts, handled, trusted>>
Withdraw(f, outcome) ==
  /\ worker[f].phase = "intent"
  /\ outcome.delivery = "not_sent"
  /\ Becomes(f, Knows(worker[f].call, outcome))
  /\ UNCHANGED <<run, lease, node, facts, outside>>

\* The server acts on a request, however late.
Handle(c) ==
  /\ \E s \in sent : s.call = c
  /\ c \notin handled
  /\ handled' = handled \union {c}
  /\ UNCHANGED <<run, lease, node, facts, worker, sent, trusted>>

\* The adapter returns: a correlated reply to a handled request, or nothing
\* that tells whether the request took effect.
Return(f, outcome) ==
  /\ worker[f].phase = "sent"
  /\ \/ outcome.delivery = "response_received" /\ worker[f].call \in handled
     \/ outcome.delivery = "possibly_sent"
  /\ Becomes(f, Knows(worker[f].call, outcome))
  /\ UNCHANGED <<run, lease, node, facts, outside>>

\* Seeded fault: a superseded owner's response is stored like any other.
RecordResponseUnfenced(f) ==
  LET c == worker[f].call IN
  /\ worker[f].phase = "answered"
  /\ attempt' = [attempt EXCEPT ![c] = "response_recorded"]
  /\ response' = [response EXCEPT ![c] = worker[f].outcome]
  /\ Becomes(f, Idle)
  /\ UNCHANGED <<run, lease, node, reservation, evidence, decision, diagnosed,
                 spent, reserved, late, outside>>

\* record_outcome: the response and the attempt's last state in one commit. The
\* node is not compared, so the answer is stored for a stopped node too; an
\* owner that lost the run, or outlived it, keeps the answer in the inbox.
RecordResponse(f) ==
  LET c == worker[f].call IN
  /\ worker[f].phase = "answered"
  /\ IF Holds(f)
     THEN /\ attempt' = [attempt EXCEPT ![c] = "response_recorded"]
          /\ response' = [response EXCEPT ![c] = worker[f].outcome]
          /\ UNCHANGED late
     ELSE /\ late' = late \union {c}
          /\ UNCHANGED <<attempt, response>>
  /\ Becomes(f, Idle)
  /\ UNCHANGED <<run, lease, node, reservation, evidence, decision, diagnosed,
                 spent, reserved, outside>>

-------------------------------------------------------------------------------
(***************************************************************************)
(* Local acceptance, from the records alone.                               *)
(***************************************************************************)

\* Seeded fault: a slot is given back without looking whether it still is out.
UsesCapacityOfAnyAnswer(c) == response[c].delivery # "possibly_sent"

\* The response tells that the call is over and its slot can be given back.
UsesCapacity(c) ==
  /\ response[c].delivery # "possibly_sent"
  /\ reservation[c] = "outstanding"

\* Owner f's free worker finds call c in progress with its response recorded.
Resumes(f, c) ==
  Holds(f) /\ Free(f) /\ InProgress(c) /\ attempt[c] = "response_recorded"

\* release: the slot is given back in every ledger, the call stays spent.
Release(f, c) ==
  /\ Resumes(f, c) /\ UsesCapacity(c)
  /\ reservation' = [reservation EXCEPT ![c] = "released"]
  /\ reserved' = AddTo(reserved, c[1], -1)
  /\ UNCHANGED <<run, lease, node, attempt, response, evidence, decision,
                 diagnosed, spent, late, worker, outside>>

\* The tool result is assessed and the assessment recorded.
Normalize(f, c) ==
  /\ Resumes(f, c) /\ ~UsesCapacity(c)
  /\ response[c].answer \in {"accepted", "rejected", "tool_error"}
  /\ c \notin evidence
  /\ evidence' = evidence \union {c}
  /\ UNCHANGED <<run, lease, node, attempt, response, reservation, decision,
                 diagnosed, spent, reserved, late, worker, outside>>

\* Owner f decides call c, whose assessed answer is as given.
Assessed(f, c, answers) ==
  /\ Resumes(f, c) /\ ~UsesCapacity(c) /\ c \in evidence
  /\ response[c].answer \in answers

\* accept_node: outputs and success in one commit.
Succeed(f, c) ==
  /\ Assessed(f, c, {"accepted"})
  /\ status' = [status EXCEPT ![c[1]] = "succeeded"]
  /\ UNCHANGED <<run, lease, failure, current, number, waiting, facts, worker,
                 outside>>

\* accept_node of a result the postcondition rejects commits the diagnostic by
\* itself, under a command named by invocation and revision. Repeated by the
\* same owner it is answered; the owner is part of the request, so repeated by
\* another it is a different request for a used command, and drive stops the
\* run for it.
Diagnose(f, c) ==
  /\ Assessed(f, c, {"rejected"})
  /\ IF diagnosed[c] \in {None, f}
     THEN /\ diagnosed' = [diagnosed EXCEPT ![c] = f]
          /\ Becomes(f, Doing("diagnosed", c))
          /\ UNCHANGED <<run, status, failure>>
     ELSE /\ run' = "conflict"
          /\ status' = [n \in Nodes |-> IF Active(n) THEN "cancelled"
                                         ELSE status[n]]
          /\ UNCHANGED <<failure, diagnosed, worker>>
  /\ UNCHANGED <<lease, current, number, waiting, attempt, response,
                 reservation, evidence, decision, spent, reserved, late,
                 outside>>

\* Seeded fault: an ambiguous send fails like one that certainly failed.
FailureAsObserved(c, trust) == response[c].answer

\* What fail_attempt is called with for a recorded response. A no-send may
\* always be retried; an uncertain send only if it is safe to replay.
FailureOf(c, trust) ==
  IF response[c].delivery = "possibly_sent" /\ ~trust THEN "uncertain"
  ELSE response[c].answer
SafeToReplay(c, trust) == trust \/ response[c].delivery = "not_sent"

Trusts(c, trust) == trusted' = IF trust THEN trusted \union {c} ELSE trusted

\* A failure response, or an assessed tool error. trust is the host policy's
\* replay_safe, or a deduplication key that was verified again.
FailResponse(f, c, trust, intime) ==
  /\ Resumes(f, c) /\ ~UsesCapacity(c)
  /\ \/ response[c].answer \notin {"accepted", "rejected", "tool_error"}
     \/ c \in evidence /\ response[c].answer = "tool_error"
  /\ FailAttempt(c, FailureOf(c, trust), SafeToReplay(c, trust), intime)
  /\ Trusts(c, trust)
  /\ UNCHANGED <<run, lease, attempt, response, reservation, evidence,
                 diagnosed, spent, reserved, late, worker, sent, handled>>

\* The failed postcondition, after its diagnostic.
FailRejected(f, trust, intime) ==
  LET c == worker[f].call IN
  /\ Holds(f) /\ worker[f].phase = "diagnosed" /\ InProgress(c)
  /\ FailAttempt(c, "rejected", trust, intime)
  /\ Trusts(c, trust)
  /\ Becomes(f, Idle)
  /\ UNCHANGED <<run, lease, attempt, response, reservation, evidence,
                 diagnosed, spent, reserved, late, sent, handled>>

\* An owner finds an intent without a response: an earlier one ended between
\* the two. Nothing is known of the effect.
FailUnanswered(f, c, trust, intime) ==
  /\ Holds(f) /\ Free(f) /\ InProgress(c) /\ attempt[c] = "possibly_sent"
  /\ FailAttempt(c, IF trust THEN "transport" ELSE "uncertain", trust, intime)
  /\ Trusts(c, trust)
  /\ UNCHANGED <<run, lease, attempt, response, reservation, evidence,
                 diagnosed, spent, reserved, late, worker, sent, handled>>

-------------------------------------------------------------------------------
(***************************************************************************)
(* Stops, which do not wait for the worker, and the end of the run.        *)
(***************************************************************************)

\* enforce: the node's deadline has passed.
StopNode(f, n) ==
  /\ Holds(f) /\ Active(n)
  /\ FinishFailed(n, "timeout")
  /\ UNCHANGED <<run, lease, facts, worker, outside>>

\* The run is cancelled by its host, or its own deadline passes.
StopRun(f) ==
  /\ Holds(f)
  /\ run' = "cancelled"
  /\ status' = [n \in Nodes |-> IF Active(n) THEN "cancelled" ELSE status[n]]
  /\ UNCHANGED <<lease, failure, current, number, waiting, facts, worker,
                 outside>>

\* close_scope of the root: every node is final.
Close(f) ==
  /\ Holds(f) /\ Free(f)
  /\ \A n \in Nodes : ~Active(n)
  /\ run' = "closed"
  /\ UNCHANGED <<lease, node, facts, worker, outside>>

Decide(f) ==
  \/ \E c \in Calls : Release(f, c) \/ Normalize(f, c) \/ Succeed(f, c)
                     \/ Diagnose(f, c)
  \/ \E c \in Calls, trust, intime \in BOOLEAN :
       FailResponse(f, c, trust, intime) \/ FailUnanswered(f, c, trust, intime)
  \/ \E trust, intime \in BOOLEAN : FailRejected(f, trust, intime)

Call(f) ==
  \/ \E n \in Nodes, allowed \in BOOLEAN : Prepare(f, n, allowed)
  \/ \E c \in Calls, o \in Outcomes \union {None} :
       (o # None => o.delivery = "not_sent") /\ Connect(f, c, o)
  \/ \E allowed \in BOOLEAN : Dispatch(f, allowed)
  \/ Refused(f)
  \/ Send(f)
  \/ \E o \in Outcomes : Withdraw(f, o) \/ Return(f, o)
  \/ RecordResponse(f)

Next ==
  \/ Acquire \/ Expire
  \/ \E n \in Nodes : Elapse(n)
  \/ \E c \in Calls : Handle(c)
  \/ \E f \in Fences :
       \/ Crash(f) \/ Superseded(f)
       \/ Call(f) \/ Decide(f)
       \/ \E n \in Nodes : StopNode(f, n)
       \/ StopRun(f) \/ Close(f)

Spec == Init /\ [][Next]_vars

\* The supervisor polls for runs without an owner, nobody renews the lease of a
\* coordinator that ended, time passes, and a worker that is alive keeps driving
\* its run and its call. Nothing makes a server act, a deadline pass or a host
\* cancel.
Fairness ==
  /\ WF_vars(Acquire)
  /\ WF_vars(Expire /\ worker[fence] = Gone)
  /\ \A n \in Nodes : WF_vars(Elapse(n))
  /\ \A f \in Fences : WF_vars(Superseded(f)) /\ WF_vars(Call(f) \/ Decide(f))
                      /\ WF_vars(Close(f))
FairSpec == Spec /\ Fairness

-------------------------------------------------------------------------------
(***************************************************************************)
(* Correctness.                                                            *)
(***************************************************************************)

\* Every variable has its type, and a worker's phase fixes what it holds.
TypeOK ==
  /\ run \in {"running", "closed", "cancelled", "conflict"}
  /\ fence \in 0 .. MaxFence /\ held \in BOOLEAN
  /\ status \in [Nodes -> {"running", "succeeded", "failed", "cancelled"}]
  /\ failure \in [Nodes -> Codes \union {None}]
  /\ current \in [Nodes -> Attempts \union {None}]
  /\ number \in [Nodes -> 0 .. MaxAttempts]
  /\ waiting \in [Nodes -> BOOLEAN]
  /\ attempt \in [Calls -> {"none", "prepared", "possibly_sent",
                            "response_recorded"}]
  /\ response \in [Calls -> Outcomes \union {None}]
  /\ reservation \in [Calls -> {"none", "outstanding", "released"}]
  /\ evidence \subseteq Calls
  /\ decision \in [Calls -> [verdict : {"retry", "failed"}, code : Codes,
                             safe : BOOLEAN] \union {None}]
  /\ diagnosed \in [Calls -> Fences \union {None}]
  /\ spent \in [Ledgers -> Nat] /\ reserved \in [Ledgers -> Nat]
  /\ late \subseteq Calls
  /\ worker \in [Fences ->
       {Idle, Gone}
       \union {Doing(p, c) : p \in {"connected", "intent", "sent", "diagnosed"},
                             c \in Calls}
       \union {Knows(c, o) : c \in Calls, o \in Outcomes}]
  /\ sent \subseteq [call : Calls, by : Fences]
  /\ handled \subseteq Calls /\ trusted \subseteq Calls

IsSent(c) == \E s \in sent : s.call = c
Earlier(c, d) == c[1] = d[1] /\ c[2] < d[2]

\* No blind replay: whatever coordinators crash or are superseded between an
\* intent, its send and its answer, one attempt's request leaves at most once,
\* and the node's effect is asked for again only where the host policy or a
\* verified key said that the earlier request may be repeated.
NoBlindReplay ==
  /\ \A s, t \in sent : s.call = t.call => s = t
  /\ \A c, d \in Calls :
       Earlier(c, d) /\ IsSent(c) /\ IsSent(d) => c \in trusted

\* Every ledger adds up, under any interleaving of dispatches, releases and
\* stops: what is reserved is what is outstanding, what is spent is what was
\* ever dispatched, neither passes its limit, every request that left was
\* charged, and the slot of an ambiguous one was not given back.
LedgersAddUp ==
  /\ \A l \in Ledgers :
       LET charged == {c \in Calls : l \in Charged[c[1]]
                                     /\ reservation[c] # "none"}
       IN /\ spent[l] = Cardinality(charged) /\ spent[l] <= MaxCalls[l]
          /\ reserved[l] = Cardinality({c \in charged :
                                          reservation[c] = "outstanding"})
          /\ reserved[l] <= MaxConcurrency[l]
  /\ \A c \in Calls : IsSent(c) =>
       /\ reservation[c] # "none"
       /\ reservation[c] = "released" =>
            response[c] # None /\ response[c].delivery = "response_received"

\* A node's outcome tells the truth about its effect: success only with an
\* answer of the server that was asked; uncertainty only where no answer is
\* recorded; and an error that claims a failed transport only where nothing
\* was sent, or where the policy calls the effect repeatable.
OutcomesAreTrue ==
  \A n \in Nodes : LET c == <<n, current[n]>> IN
    /\ status[n] = "succeeded" =>
         IsSent(c) /\ c \in handled /\ response[c].answer = "accepted"
    /\ failure[n] = "uncertain" =>
         /\ attempt[c] \in {"possibly_sent", "response_recorded"}
         /\ response[c] # None => response[c].delivery = "possibly_sent"
    /\ failure[n] \in {"transport", "descriptor"} =>
         ~IsSent(c) \/ c \in trusted

\* What is recorded stands: no owner, however late, replaces a response or a
\* decision, reopens an attempt or a node, or lends a recorded answer to a
\* different outcome.
KeepsRecords ==
  /\ \A c \in Calls :
       /\ response[c] # None => response'[c] = response[c]
                                /\ attempt'[c] = "response_recorded"
       /\ decision[c] # None => decision'[c] = decision[c]
       /\ reservation[c] = "released" => reservation'[c] = "released"
  /\ \A n \in Nodes : ~Active(n) =>
       status'[n] = status[n] /\ failure'[n] = failure[n]
                             /\ number'[n] = number[n]
RecordsStand == [][KeepsRecords]_vars

\* Every run ends: while owners fail only finitely often, each node reaches an
\* outcome or the run is stopped, whatever was lost on the way.
RunEnds == <>(run # "running")

\* specs/runtime-spec.md:331: "A crash after response_recorded retries local
\* validation/commit without recalling MCP"; docs/runtime-internals.md: a new
\* owner can retry the same command. So no takeover ends in a conflict.
TakeoverResumesAcceptance == run # "conflict"

\* docs/mcp-guide.md:588: "correlated replies release concurrency, never spent
\* calls". So a run that closed holds no slot for a call that was answered.
RepliesReleaseConcurrency ==
  run = "closed" => \A c \in Calls :
    response[c] # None /\ response[c].delivery = "response_received"
    => reservation[c] # "outstanding"

===============================================================================
