------------------------------- MODULE RunReplay -------------------------------
(***************************************************************************)
(* What the journal of a run promises: ReplayState of store_replay.rs. A   *)
(* reader that has seen a prefix of the journal holds the authority header, *)
(* the records and the command receipts that prefix decides, and it rejects *)
(* any entry that is out of sequence, back in time, outside a lease, a     *)
(* repeated command or a rewrite of something final. The specification     *)
(* allows exactly the journals that replay, together with what they        *)
(* reconstruct; RunStore is shown to implement it.                         *)
(***************************************************************************)
EXTENDS RunJournal

VARIABLES
  status,     \* RunHeader.status, "none" before the run exists
  sequence,   \* RunHeader.sequence
  owner,      \* RunHeader.owner
  fence,      \* RunHeader.fence
  expires,    \* RunHeader.expires_at_ms
  time,       \* RunHeader.last_time_ms
  root,       \* RunHeader.fingerprint and root_scope
  records,    \* ReplayState.records
  commands,   \* ReplayState.commands
  journal     \* the entries read so far

vars == <<status, sequence, owner, fence, expires, time, root, records,
          commands, journal>>

NoRecords == [k \in Keys |-> None]
NoCommands == [c \in Commands |-> None]

Init ==
  /\ status = "none" /\ sequence = 0 /\ time = 0 /\ root = None
  /\ owner = None /\ fence = 0 /\ expires = None
  /\ records = NoRecords /\ commands = NoCommands
  /\ journal = <<>>

\* The journal grew by one entry, the last one.
Newest == journal'[Len(journal')]
Extended == journal' = Append(journal, Newest)

\* ReplayState::begin.
Begin(e) ==
  /\ status = "none"
  /\ e.sequence = 1 /\ e.event = "run_created" /\ e.command = None
  /\ status' = "running" /\ sequence' = 1 /\ time' = e.time /\ root' = e.root
  /\ UNCHANGED <<owner, fence, expires, records, commands>>

\* The checks ReplayState::apply makes of every entry, and what it advances.
InOrder(e) ==
  /\ status # "none"
  /\ e.sequence = sequence + 1
  /\ e.time >= time
  /\ sequence' = e.sequence
  /\ time' = e.time

\* ReplayState::apply_body, not initial.
ApplyBody(body) ==
  /\ body.expected # None => body.expected = root
  /\ Writable(records, body.writes)
  /\ records' = Written(records, body.writes)
  /\ body.status # None => CanTransition(status, body.status)
  /\ status' = StatusAfter(status, body)
  /\ root' = RootAfter(root, body)

\* ReplayState::apply_initial and its body, over the records of a new run.
InitialBody(body, first) ==
  /\ \A k \in Keys : body.writes[k] # None => body.writes[k].expected = None
  /\ body.root = None
  /\ body.expected = first
  /\ body.status \in {None, "failed"}

ApplyInitial(e) ==
  /\ e.event = "run_initialized"
  /\ InOrder(e)
  /\ sequence = 1 /\ owner = None /\ fence = 0 /\ records = NoRecords
  /\ InitialBody(e.body, root)
  /\ ApplyBody(e.body)
  /\ UNCHANGED <<owner, fence, expires, commands>>

\* begin and apply_initial of the two entries initialize_run appends at once.
BeginInitialized(created, e) ==
  /\ status = "none"
  /\ created.sequence = 1 /\ created.event = "run_created"
  /\ created.command = None
  /\ e.event = "run_initialized" /\ e.sequence = 2 /\ e.time >= created.time
  /\ InitialBody(e.body, created.root)
  /\ Writable(records, e.body.writes)
  /\ records' = Written(records, e.body.writes)
  /\ status' = StatusAfter("running", e.body)
  /\ sequence' = 2 /\ time' = e.time /\ root' = created.root
  /\ UNCHANGED <<owner, fence, expires, commands>>

\* The OwnershipAcquired arm of ReplayState::apply.
ApplyAcquired(e) ==
  /\ e.event = "ownership_acquired" /\ InOrder(e)
  /\ status = "running" /\ e.command = None
  /\ e.expires > e.time
  /\ e.fence = fence + 1
  /\ owner # None => expires <= e.time
  /\ owner' = e.owner /\ fence' = e.fence /\ expires' = e.expires
  /\ UNCHANGED <<status, root, records, commands>>

\* The OwnershipRenewed arm.
ApplyRenewed(e) ==
  /\ e.event = "ownership_renewed" /\ InOrder(e)
  /\ status = "running" /\ e.command = None
  /\ e.expires > e.time
  /\ Authorized(owner, fence, expires, [owner |-> e.owner, fence |-> e.fence],
                e.time)
  /\ e.expires >= expires
  /\ owner' = e.owner /\ fence' = e.fence /\ expires' = e.expires
  /\ UNCHANGED <<status, root, records, commands>>

\* ReplayState::apply_records.
ApplyRecords(e) ==
  /\ e.event = "records_committed" /\ InOrder(e)
  /\ Authorized(owner, fence, expires, [owner |-> e.owner, fence |-> e.fence],
                e.time)
  /\ status = "running"
  /\ e.command # None /\ commands[e.command] = None
  /\ ApplyBody(e.body)
  /\ commands' = [commands EXCEPT ![e.command] =
                    [body |-> e.body, sequence |-> e.sequence]]
  /\ UNCHANGED <<owner, fence, expires>>

\* The TerminalReceipt and ArtifactExpired arms: a finished run only gains one
\* final reply, or one tombstone of an artifact it had accepted.
ApplyFinalInsert(e) ==
  /\ InOrder(e)
  /\ status \in TerminalStatuses
  /\ \/ /\ e.event = "terminal_receipt"
        /\ \E k \in ReplyKeys, p \in Payloads : e.body = FinalInsert(k, p)
     \/ /\ e.event = "artifact_expired"
        /\ \E a \in ArtifactKeys, p \in Payloads :
             /\ e.body = FinalInsert(TombstoneOf[a], p)
             /\ IsFinal(records, a)
  /\ ApplyBody(e.body)
  /\ UNCHANGED <<owner, fence, expires, commands>>

Next ==
  \/ /\ Extended
     /\ \/ Begin(Newest) \/ ApplyInitial(Newest)
        \/ ApplyAcquired(Newest) \/ ApplyRenewed(Newest)
        \/ ApplyRecords(Newest) \/ ApplyFinalInsert(Newest)
  \/ /\ journal = <<>> /\ Len(journal') = 2
     /\ BeginInitialized(journal'[1], journal'[2])

Spec == Init /\ [][Next]_vars

===============================================================================
