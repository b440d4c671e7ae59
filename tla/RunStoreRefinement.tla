--------------------------- MODULE RunStoreRefinement ---------------------------
(***************************************************************************)
(* RunStore implements RunReplay: every transaction of the store appends    *)
(* only entries that ReplayState accepts, and leaves the rows at what       *)
(* ReplayState reconstructs.                                                *)
(***************************************************************************)
EXTENDS RunStoreProofs

\* The reader's copies of the shared operators.
LEMMA SameVocabulary ==
  ASSUME NEW recs, NEW body, NEW s, NEW o, NEW f, NEW x, NEW lease, NEW t
  PROVE  /\ Replay!Writable(recs, body.writes) <=> Writable(recs, body.writes)
         /\ Replay!Written(recs, body.writes) = Written(recs, body.writes)
         /\ Replay!StatusAfter(s, body) = StatusAfter(s, body)
         /\ Replay!RootAfter(s, body) = RootAfter(s, body)
         /\ Replay!CanTransition(s, t) <=> CanTransition(s, t)
         /\ Replay!Authorized(o, f, x, lease, t) <=> Authorized(o, f, x, lease, t)
         /\ Replay!IsFinal(recs, s) <=> IsFinal(recs, s)
         /\ Replay!FinalInsert(s, t) = FinalInsert(s, t)
<1>1. Replay!Writable(recs, body.writes) <=> Writable(recs, body.writes)
  BY DEF Replay!Writable, Writable, Replay!IsFinal, IsFinal,
         Replay!RevisionOf, RevisionOf
<1>2. Replay!Written(recs, body.writes) = Written(recs, body.writes)
  BY DEF Replay!Written, Written, Replay!NextRevision, NextRevision
<1>3. /\ Replay!StatusAfter(s, body) = StatusAfter(s, body)
      /\ Replay!RootAfter(s, body) = RootAfter(s, body)
      /\ Replay!CanTransition(s, t) <=> CanTransition(s, t)
      /\ Replay!Authorized(o, f, x, lease, t) <=> Authorized(o, f, x, lease, t)
      /\ Replay!IsFinal(recs, s) <=> IsFinal(recs, s)
      /\ Replay!FinalInsert(s, t) = FinalInsert(s, t)
  BY DEF Replay!StatusAfter, StatusAfter, Replay!RootAfter, RootAfter,
         Replay!CanTransition, CanTransition, Replay!Authorized, Authorized,
         Replay!IsFinal, IsFinal, Replay!FinalInsert, FinalInsert,
         Replay!TerminalStatuses, TerminalStatuses
<1>. QED BY <1>1, <1>2, <1>3

\* What the reader sees when one row was appended: the row, numbered next.
LEMMA ReaderSees ==
  ASSUME TypeInv, NEW e \in Entry, e.sequence = sequence + 1, Appended(e)
  PROVE  /\ Replay!Newest = e /\ Replay!Extended
         /\ sequence' = e.sequence /\ time' = e.time
<1>1. /\ journal' = Append(journal, e) /\ Len(journal') = sequence + 1
      /\ journal'[sequence + 1] = e
      /\ sequence' = e.sequence /\ time' = e.time
  <2>1. Len(journal) = sequence
    BY DEF TypeInv, TypeOK
  <2>. QED BY <2>1, AppendedFacts DEF Appended, TypeInv
<1>. QED BY <1>1 DEF Replay!Newest, Replay!Extended

\* ReplayState advances along a row that is not back in time.
LEMMA ReaderAdvances ==
  ASSUME TypeInv, status # "none", NEW e \in Entry,
         e.sequence = sequence + 1, Appended(e), time <= e.time
  PROVE  Replay!InOrder(e)
<1>1. sequence' = e.sequence /\ time' = e.time
  BY ReaderSees
<1>2. e.time >= time
  BY DEF Entry, Times, TypeInv, TypeOK
<1>. QED BY <1>1, <1>2 DEF Replay!InOrder

\* A created run.
LEMMA CreateRunReplays ==
  ASSUME TypeInv, NEW r \in Roots, NEW now \in Times, CreateRun(r, now)
  PROVE  Replay!Next
<1>. DEFINE e == CreatedEntry(r, now)
<1>1. /\ status = "none" /\ sequence = 0 /\ Appended(e)
      /\ status' = "running" /\ root' = r
      /\ UNCHANGED <<owner, fence, expires, records, commands>>
  BY DEF CreateRun, TypeInv, TypeOK, BeforeCreation
<1>2. /\ e \in Entry /\ e.sequence = 1 /\ e.event = "run_created"
      /\ e.command = None /\ e.root = r /\ e.time = now
  BY EntryTypes DEF CreatedEntry
<1>. HIDE DEF e
<1>3. /\ Replay!Newest = e /\ Replay!Extended
      /\ sequence' = 1 /\ time' = e.time
  BY <1>1, <1>2, ReaderSees
<1>4. Replay!Begin(e)
  BY <1>1, <1>2, <1>3 DEF Replay!Begin
<1>. QED BY <1>3, <1>4 DEF Replay!Next

\* A run created together with its initial records.
LEMMA InitializeRunReplays ==
  ASSUME TypeInv, NEW body \in InitialBodies, NEW now \in Times,
         InitializeRun(body, now)
  PROVE  Replay!Next
<1>1. /\ Len(journal') = 2
      /\ journal'[1] = CreatedEntry(body.expected, now)
      /\ journal'[2] = UnownedEntry("run_initialized", 2, now, body)
      /\ body \in Body
  BY InitializedFacts
<1>2. /\ status = "none" /\ journal = <<>> /\ records = NoRecords
      /\ sequence' = 2 /\ time' = now /\ root' = body.expected
      /\ records' = Written(records, body.writes)
      /\ status' = StatusAfter("running", body)
      /\ UNCHANGED <<owner, fence, expires, commands>>
  BY DEF InitializeRun, TypeInv, BeforeCreation
<1>3. /\ journal'[1].sequence = 1 /\ journal'[1].event = "run_created"
      /\ journal'[1].command = None /\ journal'[1].root = body.expected
      /\ journal'[1].time = now
      /\ journal'[2].sequence = 2 /\ journal'[2].event = "run_initialized"
      /\ journal'[2].time = now /\ journal'[2].body = body
  BY <1>1 DEF CreatedEntry, UnownedEntry
<1>4. Replay!InitialBody(body, body.expected)
  BY InitialBodiesAssumption DEF Replay!InitialBody
<1>5. Writable(records, body.writes)
  BY <1>2, InitialBodiesAssumption
     DEF Writable, IsFinal, RevisionOf, NoRecords
<1>6. now >= now
  BY BoundsAssumption DEF Times
<1>7. Replay!BeginInitialized(journal'[1], journal'[2])
  BY <1>2, <1>3, <1>4, <1>5, <1>6, SameVocabulary
     DEF Replay!BeginInitialized
<1>. QED BY <1>1, <1>2, <1>7 DEF Replay!Next

\* A lease taken.
LEMMA AcquireReplays ==
  ASSUME TypeInv, NEW o \in Owners, NEW observed \in Times, NEW expiry \in Times,
         Acquire(o, observed, expiry)
  PROVE  Replay!Next
<1>1. /\ status = "running"
      /\ owner' = o /\ fence' = fence + 1 /\ expires' = expiry
      /\ UNCHANGED <<status, root, records, commands>>
  BY DEF Acquire
<1>2. PICK e \in Entry :
           /\ Appended(e) /\ e.sequence = sequence + 1 /\ time <= e.time
           /\ e.event = "ownership_acquired" /\ e.command = None
           /\ e.owner = o /\ e.fence = fence + 1 /\ e.expires = expiry
           /\ e.time < expiry
           /\ owner # None => expires <= e.time
  BY AcquireEntry
<1>3. Replay!Newest = e /\ Replay!Extended /\ Replay!InOrder(e)
  BY <1>1, <1>2, ReaderSees, ReaderAdvances
<1>4. e.expires > e.time
  BY <1>2 DEF Entry, Times
<1>5. Replay!ApplyAcquired(e)
  BY <1>1, <1>2, <1>3, <1>4 DEF Replay!ApplyAcquired
<1>. QED BY <1>3, <1>5 DEF Replay!Next

\* A lease renewed.
LEMMA RenewReplays ==
  ASSUME TypeInv, NEW l \in Leases, NEW observed \in Times, NEW expiry \in Times,
         Renew(l, observed, expiry)
  PROVE  Replay!Next
<1>1. /\ status = "running" /\ expires' = expiry
      /\ UNCHANGED <<status, owner, fence, root, records, commands>>
  BY DEF Renew
<1>2. PICK e \in Entry :
           /\ Appended(e) /\ e.sequence = sequence + 1 /\ time <= e.time
           /\ e.event = "ownership_renewed" /\ e.command = None
           /\ owner # None /\ e.owner = owner /\ e.fence = fence
           /\ e.time < expires /\ e.time < expiry
           /\ e.expires = expiry /\ expires <= expiry
  BY RenewEntry
<1>3. Replay!Newest = e /\ Replay!Extended /\ Replay!InOrder(e)
  BY <1>1, <1>2, ReaderSees, ReaderAdvances
<1>4. expires \in Times
  BY <1>2 DEF TypeInv, TypeOK
<1>5. e.expires > e.time /\ e.expires >= expires
  BY <1>2, <1>4 DEF Entry, Times
<1>6. Authorized(owner, fence, expires,
                 [owner |-> e.owner, fence |-> e.fence], e.time)
  BY <1>2 DEF Authorized
<1>7. Replay!ApplyRenewed(e)
  BY <1>1, <1>2, <1>3, <1>5, <1>6, SameVocabulary DEF Replay!ApplyRenewed
<1>. QED BY <1>3, <1>7 DEF Replay!Next

\* A command committed.
LEMMA CommitReplays ==
  ASSUME TypeInv, NEW l \in Leases, NEW c \in Commands, NEW b \in Bodies,
         NEW observed \in Times, Commit(l, c, b, observed)
  PROVE  Replay!Next
<1>1. /\ status = "running" /\ commands[c] = None
      /\ b.expected # None => b.expected = root
      /\ b.status # None => CanTransition(status, b.status)
      /\ Writable(records, b.writes)
      /\ records' = Written(records, b.writes)
      /\ status' = StatusAfter(status, b)
      /\ root' = RootAfter(root, b)
      /\ commands' = [commands EXCEPT ![c] =
                        [body |-> b, sequence |-> sequence + 1]]
      /\ UNCHANGED <<owner, fence, expires>>
  BY DEF Commit
<1>2. PICK e \in Entry :
           /\ Appended(e) /\ e.sequence = sequence + 1 /\ time <= e.time
           /\ e.event = "records_committed" /\ e.command = c /\ e.body = b
           /\ owner # None /\ e.owner = owner /\ e.fence = fence
           /\ e.time < expires
  BY RecordsEntry
<1>3. Replay!Newest = e /\ Replay!Extended /\ Replay!InOrder(e)
  BY <1>1, <1>2, ReaderSees, ReaderAdvances
<1>4. Authorized(owner, fence, expires,
                 [owner |-> e.owner, fence |-> e.fence], e.time)
  BY <1>2 DEF Authorized
<1>5. Replay!ApplyBody(b)
  BY <1>1, SameVocabulary DEF Replay!ApplyBody
<1>6. c # None
  BY NoneAssumption
<1>7. Replay!ApplyRecords(e)
  BY <1>1, <1>2, <1>3, <1>4, <1>5, <1>6, SameVocabulary
     DEF Replay!ApplyRecords
<1>. QED BY <1>3, <1>7 DEF Replay!Next

\* A receipt or a tombstone of a finished run.
LEMMA InsertFinalReplays ==
  ASSUME TypeInv, NEW event \in {"terminal_receipt", "artifact_expired"},
         NEW key \in Keys, NEW payload \in Payloads, NEW now \in Times,
         time <= now, InsertFinal(event, key, payload, now),
         \/ event = "terminal_receipt" /\ key \in ReplyKeys
         \/ /\ event = "artifact_expired"
            /\ \E a \in ArtifactKeys : IsFinal(records, a) /\ key = TombstoneOf[a]
  PROVE  Replay!Next
<1>. DEFINE body == FinalInsert(key, payload)
<1>1. /\ status \in TerminalStatuses /\ records[key] = None
      /\ records' = Written(records, body.writes)
      /\ UNCHANGED <<status, owner, fence, expires, root, commands>>
  BY DEF InsertFinal
<1>2. PICK e \in Entry :
           /\ Appended(e) /\ e.sequence = sequence + 1 /\ time <= e.time
           /\ e.event = event /\ e.body = body
  BY FinalEntry
<1>3. Replay!Newest = e /\ Replay!Extended /\ Replay!InOrder(e)
  <2>1. status # "none"
    BY <1>1 DEF TerminalStatuses
  <2>. QED BY <1>2, <2>1, ReaderSees, ReaderAdvances
<1>4. /\ Writable(records, body.writes)
      /\ body.expected = None /\ body.status = None /\ body.root = None
  BY <1>1, FinalInsertWritable DEF FinalInsert
<1>5. StatusAfter(status, body) = status /\ RootAfter(root, body) = root
  BY <1>4 DEF StatusAfter, RootAfter
<1>6. Replay!FinalInsert(key, payload) = body
  BY SameVocabulary
<1>. HIDE DEF body
<1>7. Replay!ApplyBody(body)
  BY <1>1, <1>4, <1>5, SameVocabulary DEF Replay!ApplyBody
<1>8. \/ /\ e.event = "terminal_receipt"
         /\ \E k \in ReplyKeys, p \in Payloads : e.body = Replay!FinalInsert(k, p)
      \/ /\ e.event = "artifact_expired"
         /\ \E a \in ArtifactKeys, p \in Payloads :
              /\ e.body = Replay!FinalInsert(TombstoneOf[a], p)
              /\ Replay!IsFinal(records, a)
  <2>1. CASE event = "terminal_receipt" /\ key \in ReplyKeys
    BY <1>2, <1>6, <2>1
  <2>2. ASSUME event = "artifact_expired", NEW a \in ArtifactKeys,
               IsFinal(records, a), key = TombstoneOf[a]
        PROVE  /\ e.event = "artifact_expired"
               /\ e.body = Replay!FinalInsert(TombstoneOf[a], payload)
               /\ Replay!IsFinal(records, a)
    BY <1>2, <1>6, <2>2, SameVocabulary
  <2>. QED BY <2>1, <2>2
<1>9. Replay!ApplyFinalInsert(e)
  <2>1. status \in Replay!TerminalStatuses
    BY <1>1 DEF Replay!TerminalStatuses, TerminalStatuses
  <2>. QED BY <1>1, <1>2, <1>3, <1>7, <1>8, <2>1 DEF Replay!ApplyFinalInsert
<1>. QED BY <1>3, <1>9 DEF Replay!Next

LEMMA ReplayStep == TypeInv /\ [Next]_vars => [Replay!Next]_(Replay!vars)
<1>. SUFFICES ASSUME TypeInv, [Next]_vars
              PROVE  Replay!Next \/ UNCHANGED Replay!vars
  OBVIOUS
<1>1. CASE UNCHANGED vars
  BY <1>1 DEF vars, Replay!vars
<1>2. ASSUME NEW l \in Leases, NEW c \in Commands, NEW b \in Bodies,
             NEW observed \in Times, CommitAgain(l, c, b, observed)
      PROVE  UNCHANGED Replay!vars
  BY <1>2 DEF CommitAgain, row, Replay!vars
<1>3. ASSUME NEW k \in ReplyKeys, NEW p \in Payloads, NEW now \in Times,
             time <= now, InsertFinal("terminal_receipt", k, p, now)
      PROVE  Replay!Next
  <2>1. k \in Keys
    BY KeysAssumption
  <2>. QED BY <1>3, <2>1, InsertFinalReplays
<1>4. ASSUME NEW a \in ArtifactKeys, NEW p \in Payloads, NEW now \in Times,
             time <= now, IsFinal(records, a),
             InsertFinal("artifact_expired", TombstoneOf[a], p, now)
      PROVE  Replay!Next
  <2>1. TombstoneOf[a] \in Keys
    BY KeysAssumption
  <2>. QED BY <1>4, <2>1, InsertFinalReplays
<1>5. CASE Next
  BY <1>5, <1>2, <1>3, <1>4, StepCases, CreateRunReplays, InitializeRunReplays,
     AcquireReplays, RenewReplays, CommitReplays
<1>. QED BY <1>1, <1>5

\* JournalReplays, for any owners, commands, bodies and bounds: the store never
\* commits a journal that ReplayState would call corrupt.
THEOREM StoreReplays == Spec => JournalReplays
<1>1. Init => Replay!Init
  BY DEF Init, Replay!Init, NoRecords, NoCommands, Replay!NoRecords,
         Replay!NoCommands
<1>. QED BY <1>1, TypeInvariant, ReplayStep, PTL
         DEF Spec, JournalReplays, Replay!Spec

===============================================================================
