----------------------------- MODULE RunStoreProofs -----------------------------
(***************************************************************************)
(* The theorems of RunStore: for every set of owners, commands, keys and   *)
(* bodies and for every bound, not only those of MCRunStore.cfg.           *)
(***************************************************************************)
EXTENDS RunStore, TLAPS

\* Nothing is stored before the run exists, and a run that exists has a root.
BeforeCreation ==
  /\ status = "none" <=> journal = <<>>
  /\ status = "none" => /\ owner = None /\ fence = 0
                        /\ records = NoRecords /\ commands = NoCommands
                        /\ answers = {}
  /\ status # "none" => root # None

TypeInv == TypeOK /\ BeforeCreation

-------------------------------------------------------------------------------
(* Facts about the vocabulary. *)

LEMMA LaterFacts ==
  ASSUME NEW s \in Times, NEW t \in Times
  PROVE  Later(s, t) \in Times /\ s <= Later(s, t) /\ t <= Later(s, t)
BY BoundsAssumption DEF Later, Times

LEMMA FinalInsertType ==
  ASSUME NEW key \in Keys, NEW payload \in Payloads
  PROVE  FinalInsert(key, payload) \in Body
BY DEF FinalInsert, Body, Write

LEMMA NextRevisionType ==
  ASSUME NEW n \in Nat \union {None}
  PROVE  NextRevision(n) \in Nat
BY DEF NextRevision

LEMMA WrittenType ==
  ASSUME NEW recs \in [Keys -> Record \union {None}], NEW body \in Body
  PROVE  Written(recs, body.writes) \in [Keys -> Record \union {None}]
<1>1. SUFFICES ASSUME NEW k \in Keys
               PROVE  Written(recs, body.writes)[k] \in Record \union {None}
  BY DEF Written
<1>2. body.writes[k] \in Write \union {None}
  BY DEF Body
<1>3. CASE body.writes[k] = None
  BY <1>3 DEF Written
<1>4. CASE body.writes[k] # None
  <2>1. body.writes[k] \in Write
    BY <1>2, <1>4
  <2>2. NextRevision(body.writes[k].expected) \in Nat
    BY <2>1, NextRevisionType DEF Write
  <2>. QED BY <1>4, <2>1, <2>2 DEF Written, Write, Record
<1>. QED BY <1>3, <1>4

LEMMA EntryTypes ==
  /\ \A r \in Roots, t \in Times : CreatedEntry(r, t) \in Entry
  /\ \A ev \in {"ownership_acquired", "ownership_renewed"}, s \in Sequences,
        t \in Times, o \in Owners, f \in Sequences, x \in Times :
       LeaseEntry(ev, s, t, o, f, x) \in Entry
  /\ \A s \in Sequences, t \in Times, o \in Owners, f \in Sequences,
        c \in Commands, b \in Body :
       CommitEntry(s, t, [owner |-> o, fence |-> f], c, b) \in Entry
  /\ \A ev \in {"run_initialized", "terminal_receipt", "artifact_expired"},
        s \in Sequences, t \in Times, b \in Body :
       UnownedEntry(ev, s, t, b) \in Entry
<1>1. 1 \in Sequences
  BY BoundsAssumption DEF Sequences
<1>. QED
  BY <1>1 DEF CreatedEntry, LeaseEntry, CommitEntry, UnownedEntry, Entry,
              EventKinds


\* What appending one row does to the journal.
LEMMA AppendedFacts ==
  ASSUME TypeOK, NEW e \in Entry, e.sequence = sequence + 1, Appended(e)
  PROVE  /\ journal' \in Seq(Entry) /\ Len(journal') = Len(journal) + 1
         /\ DOMAIN journal' = 1 .. sequence + 1 /\ DOMAIN journal = 1 .. sequence
         /\ \A i \in DOMAIN journal : journal'[i] = journal[i]
         /\ journal'[sequence + 1] = e
         /\ sequence' = sequence + 1 /\ time' = e.time
         /\ sequence' \in Sequences /\ time' \in Times
         /\ Len(journal') = sequence'
         /\ \A i \in DOMAIN journal' : journal'[i].sequence = i
         /\ journal' # <<>>
<1>1. sequence \in Nat /\ sequence < MaxSequence /\ sequence + 1 \in Sequences
  BY BoundsAssumption DEF TypeOK, Sequences, Appended
<1>2. /\ journal \in Seq(Entry) /\ Len(journal) = sequence
      /\ journal' = Append(journal, e)
  BY DEF TypeOK, Appended
<1>3. /\ journal' \in Seq(Entry) /\ Len(journal') = Len(journal) + 1
      /\ DOMAIN journal' = 1 .. sequence + 1 /\ DOMAIN journal = 1 .. sequence
      /\ \A i \in DOMAIN journal : journal'[i] = journal[i]
      /\ journal'[sequence + 1] = e
  BY <1>1, <1>2
<1>4. e.time \in Times
  BY DEF Entry
<1>5. \A i \in DOMAIN journal' : journal'[i].sequence = i
  BY <1>1, <1>3 DEF TypeOK
<1>. QED
  BY <1>1, <1>2, <1>3, <1>4, <1>5 DEF Appended

\* The journal of a run that is created and initialized in one transaction.
LEMMA InitializedFacts ==
  ASSUME NEW body \in InitialBodies, NEW now \in Times,
         InitializeRun(body, now)
  PROVE  /\ journal' \in Seq(Entry) /\ Len(journal') = 2
         /\ journal'[1] = CreatedEntry(body.expected, now)
         /\ journal'[2] = UnownedEntry("run_initialized", 2, now, body)
         /\ DOMAIN journal' = {1, 2}
         /\ journal'[1].sequence = 1 /\ journal'[2].sequence = 2
         /\ body \in Body /\ body.expected \in Roots
<1>1. body \in Body /\ body.expected \in Roots
  BY InitialBodiesAssumption DEF Body
<1>2. 2 \in Sequences
  BY BoundsAssumption DEF Sequences
<1>3. /\ CreatedEntry(body.expected, now) \in Entry
      /\ UnownedEntry("run_initialized", 2, now, body) \in Entry
  BY <1>1, <1>2, EntryTypes
<1>4. journal' = <<CreatedEntry(body.expected, now),
                   UnownedEntry("run_initialized", 2, now, body)>>
  BY DEF InitializeRun
<1>5. CreatedEntry(body.expected, now).sequence = 1
      /\ UnownedEntry("run_initialized", 2, now, body).sequence = 2
  BY DEF CreatedEntry, UnownedEntry
<1>. QED BY <1>1, <1>3, <1>4, <1>5

-------------------------------------------------------------------------------
(* Type correctness. *)

\* A lease in force belongs to an owner that holds it now.
LEMMA LeaseFacts ==
  ASSUME TypeInv, NEW lease \in Leases, NEW now \in Times,
         Authorized(owner, fence, expires, lease, now)
  PROVE  /\ lease = [owner |-> owner, fence |-> fence]
         /\ lease.owner \in Owners /\ lease.fence \in Sequences
         /\ owner \in Owners /\ expires \in Times /\ now < expires
<1>1. PICK i \in DOMAIN journal :
        lease = [owner |-> journal[i].owner, fence |-> journal[i].fence]
  BY DEF Leases
<1>2. lease.fence = fence /\ lease.owner = owner /\ owner # None /\ now < expires
  BY DEF Authorized
<1>3. owner \in Owners /\ expires \in Times /\ fence \in Sequences
  BY <1>2 DEF TypeInv, TypeOK
<1>. QED BY <1>1, <1>2, <1>3

LEMMA CreateRunType ==
  ASSUME TypeInv, NEW r \in Roots, NEW now \in Times, CreateRun(r, now)
  PROVE  TypeInv'
<1>. DEFINE e == CreatedEntry(r, now)
<1>1. e \in Entry /\ e.sequence = 1
  BY EntryTypes DEF CreatedEntry
<1>2. status = "none" /\ sequence = 0 /\ Appended(e)
  BY DEF CreateRun, TypeInv, TypeOK, BeforeCreation
<1>. HIDE DEF e
<1>3. /\ journal' \in Seq(Entry) /\ Len(journal') = sequence'
      /\ sequence' = sequence + 1
      /\ sequence' \in Sequences /\ time' \in Times /\ journal' # <<>>
      /\ \A i \in DOMAIN journal' : journal'[i].sequence = i
  BY <1>1, <1>2, AppendedFacts DEF TypeInv
<1>4. r # None
  BY NoneAssumption
<1>5. status' = "running" /\ root' = r
      /\ UNCHANGED <<owner, fence, expires, records, commands, answers>>
  BY DEF CreateRun
<1>. QED
  BY <1>2, <1>3, <1>4, <1>5
     DEF TypeInv, TypeOK, BeforeCreation, RunStatuses, Sequences

LEMMA InitializeRunType ==
  ASSUME TypeInv, NEW body \in InitialBodies, NEW now \in Times,
         InitializeRun(body, now)
  PROVE  TypeInv'
<1>1. /\ journal' \in Seq(Entry) /\ Len(journal') = 2 /\ DOMAIN journal' = {1, 2}
      /\ journal'[1].sequence = 1 /\ journal'[2].sequence = 2
      /\ body \in Body /\ body.expected \in Roots
  BY InitializedFacts
<1>2. /\ status = "none" /\ sequence' = 2 /\ time' = now
      /\ root' = body.expected
      /\ records' = Written(records, body.writes)
      /\ status' = StatusAfter("running", body)
      /\ UNCHANGED <<owner, fence, expires, commands, answers>>
  BY DEF InitializeRun
<1>3. records' \in [Keys -> Record \union {None}]
  BY <1>1, <1>2, WrittenType DEF TypeInv, TypeOK
<1>4. status' \in RunStatuses
  BY <1>1, <1>2 DEF StatusAfter, Body, RunStatuses
<1>5. status' # "none" /\ root' # None /\ journal' # <<>>
  BY <1>1, <1>2, <1>4, NoneAssumption DEF RunStatuses, TerminalStatuses
<1>6. 2 \in Sequences
  BY BoundsAssumption DEF Sequences
<1>. QED
  BY <1>1, <1>2, <1>3, <1>4, <1>5, <1>6
     DEF TypeInv, TypeOK, BeforeCreation, Sequences

LEMMA AcquireType ==
  ASSUME TypeInv, NEW o \in Owners, NEW observed \in Times, NEW expiry \in Times,
         Acquire(o, observed, expiry)
  PROVE  TypeInv'
<1>. DEFINE now == Later(time, observed)
            e == LeaseEntry("ownership_acquired", sequence + 1, now, o,
                            fence + 1, expiry)
<1>1. now \in Times
  BY LaterFacts DEF TypeInv, TypeOK
<1>2. /\ status = "running" /\ Appended(e)
      /\ owner' = o /\ fence' = fence + 1 /\ expires' = expiry
      /\ UNCHANGED <<status, root, records, commands, answers>>
  BY DEF Acquire
<1>3. sequence + 1 \in Sequences /\ fence + 1 \in Sequences
      /\ fence + 1 <= sequence + 1
  BY <1>2, BoundsAssumption DEF Appended, TypeInv, TypeOK, Sequences
<1>4. e \in Entry /\ e.sequence = sequence + 1
  BY <1>1, <1>3, EntryTypes DEF LeaseEntry
<1>. HIDE DEF e, now
<1>5. /\ journal' \in Seq(Entry) /\ Len(journal') = sequence'
      /\ sequence' = sequence + 1
      /\ sequence' \in Sequences /\ time' \in Times /\ journal' # <<>>
      /\ \A i \in DOMAIN journal' : journal'[i].sequence = i
  BY <1>2, <1>4, AppendedFacts DEF TypeInv
<1>6. o # None /\ expiry # None
  BY NoneAssumption DEF Times
<1>. QED
  BY <1>2, <1>3, <1>5, <1>6 DEF TypeInv, TypeOK, BeforeCreation

LEMMA RenewType ==
  ASSUME TypeInv, NEW lease \in Leases, NEW observed \in Times,
         NEW expiry \in Times, Renew(lease, observed, expiry)
  PROVE  TypeInv'
<1>. DEFINE now == Later(time, observed)
            e == LeaseEntry("ownership_renewed", sequence + 1, now, lease.owner,
                            lease.fence, expiry)
<1>1. now \in Times
  BY LaterFacts DEF TypeInv, TypeOK
<1>2. /\ status = "running" /\ Appended(e) /\ expires' = expiry
      /\ Authorized(owner, fence, expires, lease, now)
      /\ UNCHANGED <<status, owner, fence, root, records, commands, answers>>
  BY DEF Renew
<1>3. lease.owner \in Owners /\ lease.fence \in Sequences /\ owner \in Owners
  BY <1>1, <1>2, LeaseFacts
<1>4. sequence + 1 \in Sequences
  BY <1>2, BoundsAssumption DEF Appended, TypeInv, TypeOK, Sequences
<1>5. e \in Entry /\ e.sequence = sequence + 1
  BY <1>1, <1>3, <1>4, EntryTypes DEF LeaseEntry
<1>. HIDE DEF e, now
<1>6. /\ journal' \in Seq(Entry) /\ Len(journal') = sequence'
      /\ sequence' = sequence + 1
      /\ sequence' \in Sequences /\ time' \in Times /\ journal' # <<>>
      /\ \A i \in DOMAIN journal' : journal'[i].sequence = i
  BY <1>2, <1>5, AppendedFacts DEF TypeInv
<1>7. owner # None /\ expiry # None
  BY <1>3, NoneAssumption DEF Times
<1>8. fence' <= sequence'
  BY <1>2, <1>6 DEF TypeInv, TypeOK, Sequences
<1>. QED
  BY <1>2, <1>6, <1>7, <1>8 DEF TypeInv, TypeOK, BeforeCreation

LEMMA CommitType ==
  ASSUME TypeInv, NEW lease \in Leases, NEW command \in Commands,
         NEW body \in Bodies, NEW observed \in Times,
         Commit(lease, command, body, observed)
  PROVE  TypeInv'
<1>. DEFINE now == Later(time, observed)
            e == CommitEntry(sequence + 1, now, lease, command, body)
<1>1. now \in Times
  BY LaterFacts DEF TypeInv, TypeOK
<1>2. /\ status = "running" /\ Appended(e)
      /\ Authorized(owner, fence, expires, lease, now)
      /\ records' = Written(records, body.writes)
      /\ status' = StatusAfter(status, body)
      /\ root' = RootAfter(root, body)
      /\ commands' = [commands EXCEPT ![command] =
                        [body |-> body, sequence |-> sequence + 1]]
      /\ answers' = answers \union
           {[command |-> command, body |-> body, sequence |-> sequence + 1]}
      /\ UNCHANGED <<owner, fence, expires>>
  BY DEF Commit
<1>3. /\ lease = [owner |-> owner, fence |-> fence]
      /\ owner \in Owners /\ fence \in Sequences
  BY <1>1, <1>2, LeaseFacts
<1>4. sequence + 1 \in Sequences
  BY <1>2, BoundsAssumption DEF Appended, TypeInv, TypeOK, Sequences
<1>5. body \in Body
  BY BodiesAssumption
<1>6. e \in Entry /\ e.sequence = sequence + 1
  <2>1. CommitEntry(sequence + 1, now, [owner |-> owner, fence |-> fence],
                    command, body) \in Entry
    BY <1>1, <1>3, <1>4, <1>5, EntryTypes
  <2>. QED BY <2>1, <1>3 DEF CommitEntry
<1>. HIDE DEF e, now
<1>7. /\ journal' \in Seq(Entry) /\ Len(journal') = sequence'
      /\ sequence' = sequence + 1
      /\ sequence' \in Sequences /\ time' \in Times /\ journal' # <<>>
      /\ \A i \in DOMAIN journal' : journal'[i].sequence = i
  BY <1>2, <1>6, AppendedFacts DEF TypeInv
<1>8. records' \in [Keys -> Record \union {None}]
  BY <1>2, <1>5, WrittenType DEF TypeInv, TypeOK
<1>9. status' \in RunStatuses /\ root' \in Roots /\ status' # "none"
      /\ root' # None
  BY <1>2, <1>5, NoneAssumption
     DEF StatusAfter, RootAfter, Body, RunStatuses, TerminalStatuses, TypeInv,
         TypeOK, BeforeCreation
<1>10. fence' <= sequence'
  BY <1>2, <1>7 DEF TypeInv, TypeOK, Sequences
<1>11. commands' \in
         [Commands -> [body : Bodies, sequence : Sequences] \union {None}]
  BY <1>2, <1>4 DEF TypeInv, TypeOK
<1>12. answers' \subseteq
         [command : Commands, body : Bodies, sequence : Sequences]
  BY <1>2, <1>4 DEF TypeInv, TypeOK
<1>. QED
  BY <1>2, <1>7, <1>8, <1>9, <1>10, <1>11, <1>12
     DEF TypeInv, TypeOK, BeforeCreation

LEMMA CommitAgainType ==
  ASSUME TypeInv, NEW lease \in Leases, NEW command \in Commands,
         NEW body \in Bodies, NEW observed \in Times,
         CommitAgain(lease, command, body, observed)
  PROVE  TypeInv'
<1>1. /\ status # "none" /\ commands[command] # None
      /\ answers' = answers \union
           {[command |-> command, body |-> body,
             sequence |-> commands[command].sequence]}
      /\ UNCHANGED <<row, records, commands, journal>>
  BY DEF CommitAgain
<1>2. commands[command].sequence \in Sequences
  BY <1>1 DEF TypeInv, TypeOK
<1>3. answers' \subseteq
         [command : Commands, body : Bodies, sequence : Sequences]
  BY <1>1, <1>2 DEF TypeInv, TypeOK
<1>. QED BY <1>1, <1>3 DEF TypeInv, TypeOK, BeforeCreation, row

LEMMA InsertFinalType ==
  ASSUME TypeInv, NEW event \in {"terminal_receipt", "artifact_expired"},
         NEW key \in Keys, NEW payload \in Payloads, NEW now \in Times,
         InsertFinal(event, key, payload, now)
  PROVE  TypeInv'
<1>. DEFINE body == FinalInsert(key, payload)
            e == UnownedEntry(event, sequence + 1, now, body)
<1>1. body \in Body
  BY FinalInsertType
<1>2. /\ status \in TerminalStatuses /\ Appended(e)
      /\ records' = Written(records, body.writes)
      /\ UNCHANGED <<status, owner, fence, expires, root, commands, answers>>
  BY DEF InsertFinal
<1>. HIDE DEF body
<1>3. sequence + 1 \in Sequences
  BY <1>2, BoundsAssumption DEF Appended, TypeInv, TypeOK, Sequences
<1>4. e \in Entry /\ e.sequence = sequence + 1
  BY <1>1, <1>3, EntryTypes DEF UnownedEntry
<1>. HIDE DEF e
<1>5. /\ journal' \in Seq(Entry) /\ Len(journal') = sequence'
      /\ sequence' = sequence + 1
      /\ sequence' \in Sequences /\ time' \in Times /\ journal' # <<>>
      /\ \A i \in DOMAIN journal' : journal'[i].sequence = i
  BY <1>2, <1>4, AppendedFacts DEF TypeInv
<1>6. records' \in [Keys -> Record \union {None}]
  BY <1>1, <1>2, WrittenType DEF TypeInv, TypeOK
<1>7. status # "none" /\ fence' <= sequence'
  BY <1>2, <1>5 DEF TypeInv, TypeOK, Sequences, TerminalStatuses
<1>. QED
  BY <1>2, <1>5, <1>6, <1>7 DEF TypeInv, TypeOK, BeforeCreation

\* Every step of the store, with its parameters typed: the case split that the
\* step of each invariant below starts from.
LEMMA StepCases ==
  ASSUME TypeInv, Next
  PROVE  \/ \E r \in Roots, now \in Times : CreateRun(r, now)
         \/ \E b \in InitialBodies, now \in Times : InitializeRun(b, now)
         \/ \E o \in Owners, observed, expiry \in Times :
              Acquire(o, observed, expiry)
         \/ \E l \in Leases, observed, expiry \in Times :
              Renew(l, observed, expiry)
         \/ \E l \in Leases, c \in Commands, b \in Bodies, observed \in Times :
              Commit(l, c, b, observed)
         \/ \E l \in Leases, c \in Commands, b \in Bodies, observed \in Times :
              CommitAgain(l, c, b, observed)
         \/ \E k \in ReplyKeys, p \in Payloads, now \in Times :
              /\ time <= now
              /\ InsertFinal("terminal_receipt", k, p, now)
         \/ \E a \in ArtifactKeys, p \in Payloads, now \in Times :
              /\ time <= now
              /\ IsFinal(records, a)
              /\ now >= TerminalTime + AuditWindow
              /\ InsertFinal("artifact_expired", TombstoneOf[a], p, now)
<1>1. ASSUME NEW k \in ReplyKeys, NEW p \in Payloads, NEW observed \in Times,
             TerminalReceipt(k, p, observed)
      PROVE  \E now \in Times :
               /\ time <= now
               /\ InsertFinal("terminal_receipt", k, p, now)
  <2>1. Later(time, observed) \in Times /\ time <= Later(time, observed)
    BY LaterFacts DEF TypeInv, TypeOK
  <2>. QED BY <1>1, <2>1 DEF TerminalReceipt
<1>2. ASSUME NEW a \in ArtifactKeys, NEW p \in Payloads, NEW observed \in Times,
             ExpireArtifact(a, p, observed)
      PROVE  \E now \in Times :
               /\ time <= now
               /\ IsFinal(records, a)
               /\ now >= TerminalTime + AuditWindow
               /\ InsertFinal("artifact_expired", TombstoneOf[a], p, now)
  <2>1. Later(time, observed) \in Times /\ time <= Later(time, observed)
    BY LaterFacts DEF TypeInv, TypeOK
  <2>. QED BY <1>2, <2>1 DEF ExpireArtifact
<1>. QED BY <1>1, <1>2 DEF Next

\* Types are kept, and with them the facts about a run not yet created.
LEMMA TypeInvariant == Spec => []TypeInv
<1>1. Init => TypeInv
  BY BoundsAssumption
     DEF Init, TypeInv, TypeOK, BeforeCreation, NoRecords, NoCommands,
         Sequences, Times
<1>2. TypeInv /\ [Next]_vars => TypeInv'
  <2>. SUFFICES ASSUME TypeInv, [Next]_vars PROVE TypeInv'
    OBVIOUS
  <2>1. CASE UNCHANGED vars
    BY <2>1 DEF vars, TypeInv, TypeOK, BeforeCreation
  <2>2. CASE Next
    <3>1. \A k \in ReplyKeys : k \in Keys
      BY KeysAssumption
    <3>2. \A a \in ArtifactKeys : TombstoneOf[a] \in Keys
      BY KeysAssumption
    <3>. QED
      BY <2>2, <3>1, <3>2, StepCases, CreateRunType, InitializeRunType,
         AcquireType, RenewType, CommitType, CommitAgainType, InsertFinalType
  <2>. QED BY <2>1, <2>2
<1>. QED BY <1>1, <1>2, PTL DEF Spec

\* TypeOK, for every instance: the journal rows are numbered without a gap, a
\* lease is whole or absent, and every stored value is of its kind.
THEOREM TypeCorrect == Spec => []TypeOK
<1>1. TypeInv => TypeOK
  BY DEF TypeInv
<1>. QED BY <1>1, TypeInvariant, PTL

-------------------------------------------------------------------------------
(* The row that each action appends. *)

LEMMA AcquireEntry ==
  ASSUME TypeInv, NEW o \in Owners, NEW observed \in Times, NEW expiry \in Times,
         Acquire(o, observed, expiry)
  PROVE  \E e \in Entry :
           /\ Appended(e) /\ e.sequence = sequence + 1 /\ time <= e.time
           /\ e.event = "ownership_acquired" /\ e.command = None /\ e.body = None
           /\ e.owner = o /\ e.fence = fence + 1 /\ e.expires = expiry
           /\ e.time < expiry
           /\ owner # None => expires <= e.time
<1>. DEFINE now == Later(time, observed)
            e == LeaseEntry("ownership_acquired", sequence + 1, now, o,
                            fence + 1, expiry)
<1>1. /\ Appended(e) /\ now < expiry
      /\ owner # None => expires <= now
  BY DEF Acquire
<1>2. now \in Times /\ time <= now
  BY LaterFacts DEF TypeInv, TypeOK
<1>3. sequence + 1 \in Sequences /\ fence + 1 \in Sequences
  BY <1>1, BoundsAssumption DEF Appended, TypeInv, TypeOK, Sequences
<1>4. /\ e \in Entry /\ e.sequence = sequence + 1 /\ e.time = now
      /\ e.event = "ownership_acquired" /\ e.command = None /\ e.body = None
      /\ e.owner = o /\ e.fence = fence + 1 /\ e.expires = expiry
  BY <1>2, <1>3, EntryTypes DEF LeaseEntry
<1>. HIDE DEF e, now
<1>. QED BY <1>1, <1>2, <1>4

LEMMA RenewEntry ==
  ASSUME TypeInv, NEW lease \in Leases, NEW observed \in Times,
         NEW expiry \in Times, Renew(lease, observed, expiry)
  PROVE  \E e \in Entry :
           /\ Appended(e) /\ e.sequence = sequence + 1 /\ time <= e.time
           /\ e.event = "ownership_renewed" /\ e.command = None /\ e.body = None
           /\ owner # None /\ e.owner = owner /\ e.fence = fence
           /\ e.time < expires /\ e.time < expiry
           /\ e.expires = expiry /\ expires <= expiry
<1>. DEFINE now == Later(time, observed)
            e == LeaseEntry("ownership_renewed", sequence + 1, now, lease.owner,
                            lease.fence, expiry)
<1>1. /\ Appended(e) /\ Authorized(owner, fence, expires, lease, now)
      /\ now < expiry /\ expires <= expiry
  BY DEF Renew
<1>2. now \in Times /\ time <= now
  BY LaterFacts DEF TypeInv, TypeOK
<1>3. /\ lease.owner = owner /\ lease.fence = fence /\ now < expires
      /\ owner \in Owners /\ fence \in Sequences /\ owner # None
  BY <1>1, <1>2, LeaseFacts DEF Authorized, TypeInv, TypeOK
<1>4. sequence + 1 \in Sequences
  BY <1>1, BoundsAssumption DEF Appended, TypeInv, TypeOK, Sequences
<1>5. /\ e \in Entry /\ e.sequence = sequence + 1 /\ e.time = now
      /\ e.event = "ownership_renewed" /\ e.command = None /\ e.body = None
      /\ e.owner = owner /\ e.fence = fence /\ e.expires = expiry
  BY <1>2, <1>3, <1>4, EntryTypes DEF LeaseEntry
<1>. HIDE DEF e, now
<1>. QED BY <1>1, <1>2, <1>3, <1>5

LEMMA RecordsEntry ==
  ASSUME TypeInv, NEW lease \in Leases, NEW command \in Commands,
         NEW body \in Bodies, NEW observed \in Times,
         Commit(lease, command, body, observed)
  PROVE  \E e \in Entry :
           /\ Appended(e) /\ e.sequence = sequence + 1 /\ time <= e.time
           /\ e.event = "records_committed" /\ e.command = command
           /\ e.body = body
           /\ owner # None /\ e.owner = owner /\ e.fence = fence
           /\ e.time < expires
           /\ WithinDeadlines(body.writes, e.time)
<1>. DEFINE now == Later(time, observed)
            e == CommitEntry(sequence + 1, now, lease, command, body)
<1>1. /\ Appended(e) /\ Authorized(owner, fence, expires, lease, now)
      /\ WithinDeadlines(body.writes, now)
  BY DEF Commit
<1>2. now \in Times /\ time <= now
  BY LaterFacts DEF TypeInv, TypeOK
<1>3. /\ lease = [owner |-> owner, fence |-> fence] /\ now < expires
      /\ owner \in Owners /\ fence \in Sequences /\ owner # None
  BY <1>1, <1>2, LeaseFacts DEF Authorized, TypeInv, TypeOK
<1>4. sequence + 1 \in Sequences /\ body \in Body
  BY <1>1, BoundsAssumption, BodiesAssumption
     DEF Appended, TypeInv, TypeOK, Sequences
<1>5. CommitEntry(sequence + 1, now, [owner |-> owner, fence |-> fence],
                  command, body) \in Entry
  BY <1>2, <1>3, <1>4, EntryTypes
<1>6. /\ e \in Entry /\ e.sequence = sequence + 1 /\ e.time = now
      /\ e.event = "records_committed" /\ e.command = command /\ e.body = body
      /\ e.owner = owner /\ e.fence = fence
  BY <1>3, <1>5 DEF CommitEntry
<1>. HIDE DEF e, now
<1>. QED BY <1>1, <1>2, <1>3, <1>6

LEMMA FinalEntry ==
  ASSUME TypeInv, NEW event \in {"terminal_receipt", "artifact_expired"},
         NEW key \in Keys, NEW payload \in Payloads, NEW now \in Times,
         time <= now, InsertFinal(event, key, payload, now)
  PROVE  \E e \in Entry :
           /\ Appended(e) /\ e.sequence = sequence + 1 /\ time <= e.time
           /\ e.time = now
           /\ e.event = event /\ e.body = FinalInsert(key, payload)
<1>. DEFINE e == UnownedEntry(event, sequence + 1, now, FinalInsert(key, payload))
<1>1. Appended(e)
  BY DEF InsertFinal
<1>2. sequence + 1 \in Sequences
  BY <1>1, BoundsAssumption DEF Appended, TypeInv, TypeOK, Sequences
<1>3. e \in Entry
  BY <1>2, EntryTypes, FinalInsertType
<1>4. /\ e.sequence = sequence + 1 /\ e.time = now /\ e.event = event
      /\ e.body = FinalInsert(key, payload)
  BY DEF UnownedEntry
<1>. QED BY <1>1, <1>3, <1>4

-------------------------------------------------------------------------------
(* Exclusive authority. *)

\* The row repeats the last lease the journal granted: what makes the lease
\* check, which reads only the row, a statement about the whole history.
RowIsLastGrant ==
  /\ owner = None => \A i \in DOMAIN journal : ~IsGrant(journal[i])
  /\ owner # None => \E g \in DOMAIN journal :
       /\ GrantBefore(g, sequence + 1)
       /\ journal[g].owner = owner
       /\ journal[g].fence = fence
       /\ journal[g].expires = expires

LeaseInv == RowIsLastGrant /\ FencedHistory

\* Appending a row changes nothing about the grants before any row.
LEMMA GrantsKept ==
  ASSUME TypeOK, NEW e \in Entry, e.sequence = sequence + 1, Appended(e)
  PROVE  /\ \A g, k \in 1 .. sequence + 1 : GrantBefore(g, k)' <=> GrantBefore(g, k)
         /\ \A k \in DOMAIN journal :
              /\ InsideLease(k) => InsideLease(k)'
              /\ TakesOver(k) => TakesOver(k)'
<1>1. /\ DOMAIN journal' = 1 .. sequence + 1 /\ DOMAIN journal = 1 .. sequence
      /\ \A i \in 1 .. sequence : journal'[i] = journal[i]
      /\ sequence \in Nat
  BY AppendedFacts DEF TypeOK, Sequences
<1>2. ASSUME NEW g \in 1 .. sequence + 1, NEW k \in 1 .. sequence + 1
      PROVE  GrantBefore(g, k)' <=> GrantBefore(g, k)
  <2>1. \A m \in g + 1 .. k - 1 : m \in 1 .. sequence
    BY <1>1
  <2>2. g < k => g \in 1 .. sequence
    BY <1>1
  <2>. QED BY <1>1, <2>1, <2>2 DEF GrantBefore, IsGrant
<1>3. ASSUME NEW k \in DOMAIN journal, InsideLease(k) PROVE InsideLease(k)'
  BY <1>1, <1>2, <1>3 DEF InsideLease
<1>4. ASSUME NEW k \in DOMAIN journal, TakesOver(k) PROVE TakesOver(k)'
  <2>1. \A g \in DOMAIN journal' : GrantBefore(g, k)' => g \in 1 .. sequence
    BY <1>1 DEF GrantBefore
  <2>. QED BY <1>1, <1>2, <1>4, <2>1 DEF TakesOver
<1>. QED BY <1>2, <1>3, <1>4

\* So the history stays fenced when the new row alone is.
LEMMA FencedStep ==
  ASSUME TypeOK, FencedHistory,
         NEW e \in Entry, e.sequence = sequence + 1, Appended(e),
         NEW n \in Nat, n = sequence + 1,
         IsFenced(e) => InsideLease(n)',
         e.event = "ownership_acquired" => TakesOver(n)'
  PROVE  FencedHistory'
<1>1. /\ DOMAIN journal' = 1 .. sequence + 1 /\ DOMAIN journal = 1 .. sequence
      /\ \A i \in 1 .. sequence : journal'[i] = journal[i]
      /\ journal'[sequence + 1] = e
      /\ sequence \in Nat
  BY AppendedFacts DEF TypeOK, Sequences
<1>2. SUFFICES ASSUME NEW k \in DOMAIN journal'
               PROVE  /\ IsFenced(journal'[k]) => InsideLease(k)'
                      /\ journal'[k].event = "ownership_acquired" => TakesOver(k)'
  BY DEF FencedHistory, IsFenced
<1>3. CASE k = n
  BY <1>1, <1>3
<1>4. CASE k \in DOMAIN journal
  BY <1>1, <1>4, GrantsKept DEF FencedHistory
<1>. QED BY <1>1, <1>3, <1>4

\* The row stays the last grant when a grant is appended with it ...
LEMMA GrantRecorded ==
  ASSUME TypeOK, NEW e \in Entry, e.sequence = sequence + 1, Appended(e),
         IsGrant(e), owner' = e.owner, fence' = e.fence, expires' = e.expires,
         owner' # None
  PROVE  RowIsLastGrant'
<1>1. /\ DOMAIN journal' = 1 .. sequence + 1 /\ sequence' = sequence + 1
      /\ journal'[sequence + 1] = e /\ sequence \in Nat
  BY AppendedFacts DEF TypeOK, Sequences
<1>2. GrantBefore(sequence, sequence + 1)'
  BY <1>1 DEF GrantBefore, IsGrant
<1>. QED BY <1>1, <1>2 DEF RowIsLastGrant

\* ... and when the row keeps its lease and the new entry grants none.
LEMMA GrantKept ==
  ASSUME TypeOK, RowIsLastGrant,
         NEW e \in Entry, e.sequence = sequence + 1, Appended(e),
         ~IsGrant(e), UNCHANGED <<owner, fence, expires>>
  PROVE  RowIsLastGrant'
<1>1. /\ DOMAIN journal' = 1 .. sequence + 1 /\ DOMAIN journal = 1 .. sequence
      /\ sequence' = sequence + 1
      /\ \A i \in 1 .. sequence : journal'[i] = journal[i]
      /\ journal'[sequence + 1] = e /\ sequence \in Nat
  BY AppendedFacts DEF TypeOK, Sequences
<1>2. CASE owner = None
  <2>1. \A i \in 1 .. sequence + 1 : i \in 1 .. sequence \/ i = sequence + 1
    BY <1>1
  <2>. QED BY <1>1, <1>2, <2>1 DEF RowIsLastGrant, IsGrant
<1>3. CASE owner # None
  <2>1. PICK g \in DOMAIN journal :
          /\ GrantBefore(g, sequence + 1) /\ journal[g].owner = owner
          /\ journal[g].fence = fence /\ journal[g].expires = expires
    BY <1>3 DEF RowIsLastGrant
  <2>2. \A m \in g + 1 .. sequence + 1 : m \in g + 1 .. sequence \/ m = sequence + 1
    BY <1>1
  <2>3. GrantBefore(g, sequence + 1)'
    BY <1>1, <2>1, <2>2 DEF GrantBefore, IsGrant
  <2>. QED BY <1>1, <1>3, <2>1, <2>3 DEF RowIsLastGrant
<1>. QED BY <1>2, <1>3

\* An entry under the row's own lease, before it expires, is inside the lease.
LEMMA OwnLease ==
  ASSUME TypeOK, RowIsLastGrant,
         NEW e \in Entry, e.sequence = sequence + 1, Appended(e),
         NEW n \in Nat, n = sequence + 1,
         owner # None, e.owner = owner, e.fence = fence, e.time < expires
  PROVE  InsideLease(n)'
<1>1. /\ DOMAIN journal' = 1 .. sequence + 1 /\ DOMAIN journal = 1 .. sequence
      /\ \A i \in 1 .. sequence : journal'[i] = journal[i]
      /\ journal'[sequence + 1] = e
      /\ sequence \in Nat
  BY AppendedFacts DEF TypeOK, Sequences
<1>2. PICK g \in DOMAIN journal :
        /\ GrantBefore(g, sequence + 1) /\ journal[g].owner = owner
        /\ journal[g].fence = fence /\ journal[g].expires = expires
  BY DEF RowIsLastGrant
<1>3. g \in 1 .. sequence + 1 /\ n \in 1 .. sequence + 1
  BY <1>1
<1>4. GrantBefore(g, n)'
  BY <1>2, <1>3, GrantsKept
<1>. QED BY <1>1, <1>2, <1>3, <1>4 DEF InsideLease

\* An acquisition that the row allows takes over from every grant before it.
LEMMA Takeover ==
  ASSUME TypeInv, RowIsLastGrant,
         NEW e \in Entry, e.sequence = sequence + 1, Appended(e),
         NEW n \in Nat, n = sequence + 1,
         owner # None => expires <= e.time, e.fence = fence + 1
  PROVE  TakesOver(n)'
<1>1. /\ DOMAIN journal' = 1 .. sequence + 1 /\ DOMAIN journal = 1 .. sequence
      /\ \A i \in 1 .. sequence : journal'[i] = journal[i]
      /\ journal'[sequence + 1] = e
      /\ sequence \in Nat
  BY AppendedFacts DEF TypeInv, TypeOK, Sequences
<1>2. SUFFICES ASSUME NEW g \in DOMAIN journal', GrantBefore(g, n)'
               PROVE  /\ journal'[g].expires <= e.time
                      /\ e.fence = journal'[g].fence + 1
  BY <1>1 DEF TakesOver
<1>3. g \in DOMAIN journal /\ GrantBefore(g, sequence + 1)
  <2>1. g \in 1 .. sequence + 1 /\ n \in 1 .. sequence + 1
    BY <1>1
  <2>2. GrantBefore(g, sequence + 1)
    BY <1>2, <2>1, GrantsKept DEF TypeInv
  <2>. QED BY <1>1, <2>1, <2>2 DEF GrantBefore
<1>4. IsGrant(journal[g])
  BY <1>3 DEF GrantBefore
<1>5. owner # None
  BY <1>3, <1>4 DEF RowIsLastGrant
<1>6. PICK h \in DOMAIN journal :
        /\ GrantBefore(h, sequence + 1) /\ journal[h].owner = owner
        /\ journal[h].fence = fence /\ journal[h].expires = expires
  BY <1>5 DEF RowIsLastGrant
<1>7. h = g
  BY <1>1, <1>3, <1>6 DEF GrantBefore
<1>. QED BY <1>1, <1>3, <1>5, <1>6, <1>7

LEMMA LeaseStep == TypeInv /\ TypeInv' /\ LeaseInv /\ [Next]_vars => LeaseInv'
<1>. SUFFICES ASSUME TypeInv, TypeInv', LeaseInv, [Next]_vars PROVE LeaseInv'
  OBVIOUS
<1>n. PICK n \in Nat : n = sequence + 1
  BY DEF TypeInv, TypeOK, Sequences
<1>1. CASE UNCHANGED vars
  BY <1>1 DEF vars, LeaseInv, RowIsLastGrant, FencedHistory, InsideLease,
              TakesOver, GrantBefore, IsGrant, IsFenced
<1>2. ASSUME NEW r \in Roots, NEW now \in Times, CreateRun(r, now)
      PROVE  LeaseInv'
  <2>1. /\ journal' = <<CreatedEntry(r, now)>>
        /\ owner' = None
    BY <1>2 DEF CreateRun, Appended, TypeInv, BeforeCreation
  <2>2. \A i \in DOMAIN journal' : journal'[i].event = "run_created"
    BY <2>1 DEF CreatedEntry
  <2>. QED BY <2>1, <2>2 DEF LeaseInv, RowIsLastGrant, FencedHistory, IsGrant,
                            IsFenced
<1>3. ASSUME NEW b \in InitialBodies, NEW now \in Times, InitializeRun(b, now)
      PROVE  LeaseInv'
  <2>1. /\ DOMAIN journal' = {1, 2}
        /\ journal'[1] = CreatedEntry(b.expected, now)
        /\ journal'[2] = UnownedEntry("run_initialized", 2, now, b)
    BY <1>3, InitializedFacts
  <2>2. \A i \in DOMAIN journal' :
          journal'[i].event \in {"run_created", "run_initialized"}
    BY <2>1 DEF CreatedEntry, UnownedEntry
  <2>3. owner' = None
    BY <1>3 DEF InitializeRun, TypeInv, BeforeCreation
  <2>. QED BY <2>2, <2>3 DEF LeaseInv, RowIsLastGrant, FencedHistory, IsGrant,
                            IsFenced
<1>4. ASSUME NEW o \in Owners, NEW observed \in Times, NEW expiry \in Times,
             Acquire(o, observed, expiry)
      PROVE  LeaseInv'
  <2>1. PICK e \in Entry :
          /\ Appended(e) /\ e.sequence = sequence + 1
          /\ e.event = "ownership_acquired"
          /\ e.owner = o /\ e.fence = fence + 1 /\ e.expires = expiry
          /\ owner # None => expires <= e.time
    BY <1>4, AcquireEntry
  <2>2. owner' = o /\ fence' = fence + 1 /\ expires' = expiry /\ o # None
    BY <1>4, NoneAssumption DEF Acquire
  <2>3. RowIsLastGrant'
    BY <2>1, <2>2, GrantRecorded DEF TypeInv, IsGrant
  <2>4. TakesOver(n)'
    BY <2>1, <1>n, Takeover DEF LeaseInv
  <2>5. FencedHistory'
    BY <2>1, <2>4, <1>n, FencedStep DEF LeaseInv, TypeInv, IsFenced
  <2>. QED BY <2>3, <2>5 DEF LeaseInv
<1>5. ASSUME NEW l \in Leases, NEW observed \in Times, NEW expiry \in Times,
             Renew(l, observed, expiry)
      PROVE  LeaseInv'
  <2>1. PICK e \in Entry :
          /\ Appended(e) /\ e.sequence = sequence + 1
          /\ e.event = "ownership_renewed"
          /\ owner # None /\ e.owner = owner /\ e.fence = fence
          /\ e.time < expires /\ e.expires = expiry
    BY <1>5, RenewEntry
  <2>2. expires' = expiry /\ UNCHANGED <<owner, fence>>
    BY <1>5 DEF Renew
  <2>3. RowIsLastGrant'
    BY <2>1, <2>2, GrantRecorded DEF TypeInv, IsGrant
  <2>4. InsideLease(n)'
    BY <2>1, <1>n, OwnLease DEF LeaseInv, TypeInv
  <2>5. FencedHistory'
    BY <2>1, <2>4, <1>n, FencedStep DEF LeaseInv, TypeInv
  <2>. QED BY <2>3, <2>5 DEF LeaseInv
<1>6. ASSUME NEW l \in Leases, NEW c \in Commands, NEW b \in Bodies,
             NEW observed \in Times, Commit(l, c, b, observed)
      PROVE  LeaseInv'
  <2>1. PICK e \in Entry :
          /\ Appended(e) /\ e.sequence = sequence + 1
          /\ e.event = "records_committed"
          /\ owner # None /\ e.owner = owner /\ e.fence = fence
          /\ e.time < expires
    BY <1>6, RecordsEntry
  <2>2. UNCHANGED <<owner, fence, expires>>
    BY <1>6 DEF Commit
  <2>3. RowIsLastGrant'
    BY <2>1, <2>2, GrantKept DEF LeaseInv, TypeInv, IsGrant
  <2>4. InsideLease(n)'
    BY <2>1, <1>n, OwnLease DEF LeaseInv, TypeInv
  <2>5. FencedHistory'
    BY <2>1, <2>4, <1>n, FencedStep DEF LeaseInv, TypeInv
  <2>. QED BY <2>3, <2>5 DEF LeaseInv
<1>7. ASSUME NEW l \in Leases, NEW c \in Commands, NEW b \in Bodies,
             NEW observed \in Times, CommitAgain(l, c, b, observed)
      PROVE  LeaseInv'
  BY <1>7 DEF CommitAgain, row, LeaseInv, RowIsLastGrant, FencedHistory,
              InsideLease, TakesOver, GrantBefore, IsGrant, IsFenced
<1>8. ASSUME NEW event \in {"terminal_receipt", "artifact_expired"},
             NEW key \in Keys, NEW payload \in Payloads, NEW now \in Times,
             time <= now, InsertFinal(event, key, payload, now)
      PROVE  LeaseInv'
  <2>1. PICK e \in Entry :
          Appended(e) /\ e.sequence = sequence + 1 /\ e.event = event
    BY <1>8, FinalEntry
  <2>2. UNCHANGED <<owner, fence, expires>>
    BY <1>8 DEF InsertFinal
  <2>3. RowIsLastGrant'
    BY <2>1, <2>2, GrantKept DEF LeaseInv, TypeInv, IsGrant
  <2>4. FencedHistory'
    BY <2>1, <1>n, FencedStep DEF LeaseInv, TypeInv, IsFenced
  <2>. QED BY <2>3, <2>4 DEF LeaseInv
<1>9. CASE Next
  <2>1. \A k \in ReplyKeys : k \in Keys
    BY KeysAssumption
  <2>2. \A a \in ArtifactKeys : TombstoneOf[a] \in Keys
    BY KeysAssumption
  <2>. QED
    BY <1>9, <1>2, <1>3, <1>4, <1>5, <1>6, <1>7, <1>8, <2>1, <2>2, StepCases
<1>. QED BY <1>1, <1>9

\* FencedHistory, for any number of coordinators, leases and clock readings:
\* no two of them ever write in one lease interval.
THEOREM ExclusiveAuthority == Spec => []FencedHistory
<1>1. Init => LeaseInv
  BY DEF Init, LeaseInv, RowIsLastGrant, FencedHistory
<1>2. LeaseInv => FencedHistory
  BY DEF LeaseInv
<1>. QED BY <1>1, <1>2, TypeInvariant, LeaseStep, PTL DEF Spec

-------------------------------------------------------------------------------
(* A command decides once. *)

IsCommit(e) == e.event = "records_committed"

\* The command table is an index of the journal, in both directions, and every
\* answer came out of it.
CommandInv ==
  /\ \A c \in Commands : commands[c] # None =>
       /\ commands[c].sequence \in DOMAIN journal
       /\ IsCommit(journal[commands[c].sequence])
       /\ journal[commands[c].sequence].command = c
       /\ journal[commands[c].sequence].body = commands[c].body
  /\ \A i \in DOMAIN journal : IsCommit(journal[i]) =>
       /\ journal[i].command \in Commands
       /\ commands[journal[i].command] # None
       /\ commands[journal[i].command].sequence = i
  /\ \A a \in answers :
       /\ commands[a.command] # None
       /\ a.sequence = commands[a.command].sequence
       /\ a.body = commands[a.command].body

\* A row that is no commit leaves the index as it was.
LEMMA CommandsKept ==
  ASSUME TypeInv, CommandInv,
         NEW e \in Entry, e.sequence = sequence + 1, Appended(e), ~IsCommit(e),
         UNCHANGED <<commands, answers>>
  PROVE  CommandInv'
<1>1. /\ DOMAIN journal' = 1 .. sequence + 1 /\ DOMAIN journal = 1 .. sequence
      /\ \A i \in DOMAIN journal : journal'[i] = journal[i]
      /\ journal'[sequence + 1] = e /\ sequence \in Nat
  BY AppendedFacts DEF TypeInv, TypeOK, Sequences
<1>2. \A i \in DOMAIN journal' : i \in DOMAIN journal \/ i = sequence + 1
  BY <1>1
<1>3. DOMAIN journal \subseteq DOMAIN journal'
  BY <1>1
<1>. QED BY <1>1, <1>2, <1>3 DEF CommandInv, IsCommit

LEMMA CommandStep == TypeInv /\ CommandInv /\ [Next]_vars => CommandInv'
<1>. SUFFICES ASSUME TypeInv, CommandInv, [Next]_vars PROVE CommandInv'
  OBVIOUS
<1>1. CASE UNCHANGED vars
  BY <1>1 DEF vars, CommandInv, IsCommit
<1>2. ASSUME NEW r \in Roots, NEW now \in Times, CreateRun(r, now)
      PROVE  CommandInv'
  <2>1. /\ journal' = <<CreatedEntry(r, now)>>
        /\ commands' = NoCommands /\ answers' = {}
    BY <1>2 DEF CreateRun, Appended, TypeInv, BeforeCreation
  <2>. QED BY <2>1 DEF CommandInv, IsCommit, CreatedEntry, NoCommands
<1>3. ASSUME NEW b \in InitialBodies, NEW now \in Times, InitializeRun(b, now)
      PROVE  CommandInv'
  <2>1. /\ DOMAIN journal' = {1, 2}
        /\ journal'[1] = CreatedEntry(b.expected, now)
        /\ journal'[2] = UnownedEntry("run_initialized", 2, now, b)
    BY <1>3, InitializedFacts
  <2>2. commands' = NoCommands /\ answers' = {}
    BY <1>3 DEF InitializeRun, TypeInv, BeforeCreation
  <2>. QED BY <2>1, <2>2 DEF CommandInv, IsCommit, CreatedEntry, UnownedEntry,
                             NoCommands
<1>4. ASSUME NEW o \in Owners, NEW observed \in Times, NEW expiry \in Times,
             Acquire(o, observed, expiry)
      PROVE  CommandInv'
  BY <1>4, AcquireEntry, CommandsKept DEF Acquire, IsCommit
<1>5. ASSUME NEW l \in Leases, NEW observed \in Times, NEW expiry \in Times,
             Renew(l, observed, expiry)
      PROVE  CommandInv'
  BY <1>5, RenewEntry, CommandsKept DEF Renew, IsCommit
<1>6. ASSUME NEW l \in Leases, NEW c \in Commands, NEW b \in Bodies,
             NEW observed \in Times, Commit(l, c, b, observed)
      PROVE  CommandInv'
  <2>1. PICK e \in Entry :
          /\ Appended(e) /\ e.sequence = sequence + 1
          /\ e.event = "records_committed" /\ e.command = c /\ e.body = b
    BY <1>6, RecordsEntry
  <2>2. /\ commands[c] = None
        /\ commands' = [commands EXCEPT ![c] =
                          [body |-> b, sequence |-> sequence + 1]]
        /\ answers' = answers \union
             {[command |-> c, body |-> b, sequence |-> sequence + 1]}
    BY <1>6 DEF Commit
  <2>3. /\ DOMAIN journal' = 1 .. sequence + 1 /\ DOMAIN journal = 1 .. sequence
        /\ \A i \in DOMAIN journal : journal'[i] = journal[i]
        /\ journal'[sequence + 1] = e /\ sequence \in Nat
    BY <2>1, AppendedFacts DEF TypeInv, TypeOK, Sequences
  <2>4. DOMAIN commands = Commands /\ \A a \in answers : a.command \in Commands
    BY DEF TypeInv, TypeOK
  <2>5. commands'[c] = [body |-> b, sequence |-> sequence + 1]
        /\ commands'[c] # None
        /\ \A d \in Commands : d # c => commands'[d] = commands[d]
    <3>1. [body |-> b, sequence |-> sequence + 1] \in [body : Body, sequence : Nat]
      BY <2>3, BodiesAssumption
    <3>. QED BY <2>2, <2>4, <3>1, NoneAssumption
  <2>6. \A d \in Commands : commands'[d] # None =>
          /\ commands'[d].sequence \in DOMAIN journal'
          /\ IsCommit(journal'[commands'[d].sequence])
          /\ journal'[commands'[d].sequence].command = d
          /\ journal'[commands'[d].sequence].body = commands'[d].body
    BY <2>1, <2>3, <2>5 DEF CommandInv, IsCommit
  <2>7. \A i \in DOMAIN journal' : IsCommit(journal'[i]) =>
          /\ journal'[i].command \in Commands
          /\ commands'[journal'[i].command] # None
          /\ commands'[journal'[i].command].sequence = i
    <3>1. SUFFICES ASSUME NEW i \in DOMAIN journal', IsCommit(journal'[i])
                   PROVE  /\ journal'[i].command \in Commands
                          /\ commands'[journal'[i].command] # None
                          /\ commands'[journal'[i].command].sequence = i
      OBVIOUS
    <3>2. CASE i = sequence + 1
      BY <2>1, <2>3, <2>5, <3>2
    <3>3. CASE i \in DOMAIN journal
      BY <2>2, <2>3, <2>5, <3>1, <3>3 DEF CommandInv, IsCommit
    <3>. QED BY <2>3, <3>2, <3>3
  <2>8. \A a \in answers' :
          /\ commands'[a.command] # None
          /\ a.sequence = commands'[a.command].sequence
          /\ a.body = commands'[a.command].body
    <3>1. SUFFICES ASSUME NEW a \in answers'
                   PROVE  /\ commands'[a.command] # None
                          /\ a.sequence = commands'[a.command].sequence
                          /\ a.body = commands'[a.command].body
      OBVIOUS
    <3>2. CASE a \in answers
      BY <2>2, <2>4, <2>5, <3>2 DEF CommandInv
    <3>3. CASE a = [command |-> c, body |-> b, sequence |-> sequence + 1]
      BY <2>5, <3>3
    <3>. QED BY <2>2, <3>2, <3>3
  <2>. QED BY <2>6, <2>7, <2>8 DEF CommandInv, IsCommit
<1>7. ASSUME NEW l \in Leases, NEW c \in Commands, NEW b \in Bodies,
             NEW observed \in Times, CommitAgain(l, c, b, observed)
      PROVE  CommandInv'
  <2>1. /\ commands[c] # None /\ commands[c].body = b
        /\ answers' = answers \union
             {[command |-> c, body |-> b, sequence |-> commands[c].sequence]}
        /\ UNCHANGED <<commands, journal>>
    BY <1>7 DEF CommitAgain
  <2>. QED BY <2>1 DEF CommandInv, IsCommit
<1>8. ASSUME NEW event \in {"terminal_receipt", "artifact_expired"},
             NEW key \in Keys, NEW payload \in Payloads, NEW now \in Times,
             time <= now, InsertFinal(event, key, payload, now)
      PROVE  CommandInv'
  BY <1>8, FinalEntry, CommandsKept DEF InsertFinal, IsCommit
<1>9. CASE Next
  <2>1. \A k \in ReplyKeys : k \in Keys
    BY KeysAssumption
  <2>2. \A a \in ArtifactKeys : TombstoneOf[a] \in Keys
    BY KeysAssumption
  <2>. QED
    BY <1>9, <1>2, <1>3, <1>4, <1>5, <1>6, <1>7, <1>8, <2>1, <2>2, StepCases
<1>. QED BY <1>1, <1>9

\* CommandsDecideOnce, for any set of commands and however often and by whomever
\* each is retried.
THEOREM CommandsOnce == Spec => []CommandsDecideOnce
<1>1. Init => CommandInv
  BY DEF Init, CommandInv, NoCommands
<1>2. TypeInv /\ CommandInv => CommandsDecideOnce
  BY DEF CommandInv, CommandsDecideOnce, IsCommit, TypeInv, TypeOK
<1>. QED BY <1>1, <1>2, TypeInvariant, CommandStep, PTL DEF Spec

-------------------------------------------------------------------------------
(* Time. *)

\* The row's clock is at or past every committed time.
ClockInv ==
  /\ \A i \in DOMAIN journal : journal[i].time <= time
  /\ NoLateAcceptance

\* A row at a later time, and in time if it is a commit, keeps the clock.
LEMMA ClockKept ==
  ASSUME TypeInv, ClockInv,
         NEW e \in Entry, e.sequence = sequence + 1, Appended(e), time <= e.time,
         e.event = "records_committed" => WithinDeadlines(e.body.writes, e.time)
  PROVE  ClockInv'
<1>1. /\ DOMAIN journal' = 1 .. sequence + 1 /\ DOMAIN journal = 1 .. sequence
      /\ \A i \in DOMAIN journal : journal'[i] = journal[i]
      /\ journal'[sequence + 1] = e /\ sequence \in Nat
      /\ time' = e.time
  BY AppendedFacts DEF TypeInv, TypeOK, Sequences
<1>2. \A i \in DOMAIN journal : journal[i].time \in Nat
  <2>1. \A i \in DOMAIN journal : journal[i] \in Entry
    BY DEF TypeInv, TypeOK
  <2>2. \A f \in Entry : f.time \in Nat
    BY BoundsAssumption DEF Entry, Times
  <2>. QED BY <2>1, <2>2
<1>3. time \in Nat /\ e.time \in Nat
  BY BoundsAssumption DEF TypeInv, TypeOK, Entry, Times
<1>4. \A i \in DOMAIN journal' : journal'[i].time <= time'
  BY <1>1, <1>2, <1>3 DEF ClockInv
<1>5. \A i, j \in DOMAIN journal' : i <= j => journal'[i].time <= journal'[j].time
  <2>. SUFFICES ASSUME NEW i \in DOMAIN journal', NEW j \in DOMAIN journal', i <= j
                PROVE  journal'[i].time <= journal'[j].time
    OBVIOUS
  <2>1. CASE j = sequence + 1
    BY <1>1, <1>4, <2>1
  <2>2. CASE j \in DOMAIN journal
    BY <1>1, <2>2 DEF ClockInv, NoLateAcceptance
  <2>. QED BY <1>1, <2>1, <2>2
<1>6. \A i \in DOMAIN journal' : journal'[i].event = "records_committed" =>
        WithinDeadlines(journal'[i].body.writes, journal'[i].time)
  BY <1>1 DEF ClockInv, NoLateAcceptance
<1>7. NoLateAcceptance'
  BY <1>5, <1>6 DEF NoLateAcceptance, WithinDeadlines
<1>. QED BY <1>4, <1>7 DEF ClockInv

LEMMA ClockStep == TypeInv /\ ClockInv /\ [Next]_vars => ClockInv'
<1>. SUFFICES ASSUME TypeInv, ClockInv, [Next]_vars PROVE ClockInv'
  OBVIOUS
<1>1. CASE UNCHANGED vars
  BY <1>1 DEF vars, ClockInv, NoLateAcceptance, WithinDeadlines
<1>2. ASSUME NEW r \in Roots, NEW now \in Times, CreateRun(r, now)
      PROVE  ClockInv'
  <2>1. journal' = <<CreatedEntry(r, now)>> /\ time' = now
    BY <1>2 DEF CreateRun, Appended, CreatedEntry, TypeInv, BeforeCreation
  <2>2. now <= now
    BY BoundsAssumption DEF Times
  <2>. QED BY <2>1, <2>2 DEF ClockInv, NoLateAcceptance, CreatedEntry
<1>3. ASSUME NEW b \in InitialBodies, NEW now \in Times, InitializeRun(b, now)
      PROVE  ClockInv'
  <2>1. /\ DOMAIN journal' = {1, 2}
        /\ journal'[1] = CreatedEntry(b.expected, now)
        /\ journal'[2] = UnownedEntry("run_initialized", 2, now, b)
    BY <1>3, InitializedFacts
  <2>2. time' = now /\ now <= now
    BY <1>3, BoundsAssumption DEF InitializeRun, Times
  <2>. QED BY <2>1, <2>2 DEF ClockInv, NoLateAcceptance, CreatedEntry,
                             UnownedEntry
<1>4. ASSUME NEW o \in Owners, NEW observed \in Times, NEW expiry \in Times,
             Acquire(o, observed, expiry)
      PROVE  ClockInv'
  BY <1>4, AcquireEntry, ClockKept
<1>5. ASSUME NEW l \in Leases, NEW observed \in Times, NEW expiry \in Times,
             Renew(l, observed, expiry)
      PROVE  ClockInv'
  BY <1>5, RenewEntry, ClockKept
<1>6. ASSUME NEW l \in Leases, NEW c \in Commands, NEW b \in Bodies,
             NEW observed \in Times, Commit(l, c, b, observed)
      PROVE  ClockInv'
  BY <1>6, RecordsEntry, ClockKept
<1>7. ASSUME NEW l \in Leases, NEW c \in Commands, NEW b \in Bodies,
             NEW observed \in Times, CommitAgain(l, c, b, observed)
      PROVE  ClockInv'
  BY <1>7 DEF CommitAgain, row, ClockInv, NoLateAcceptance, WithinDeadlines
<1>8. ASSUME NEW event \in {"terminal_receipt", "artifact_expired"},
             NEW key \in Keys, NEW payload \in Payloads, NEW now \in Times,
             time <= now, InsertFinal(event, key, payload, now)
      PROVE  ClockInv'
  BY <1>8, FinalEntry, ClockKept
<1>9. CASE Next
  <2>1. \A k \in ReplyKeys : k \in Keys
    BY KeysAssumption
  <2>2. \A a \in ArtifactKeys : TombstoneOf[a] \in Keys
    BY KeysAssumption
  <2>. QED
    BY <1>9, <1>2, <1>3, <1>4, <1>5, <1>6, <1>7, <1>8, <2>1, <2>2, StepCases
<1>. QED BY <1>1, <1>9

\* NoLateAcceptance, for any clock readings in any order and any deadlines.
THEOREM NothingAcceptedLate == Spec => []NoLateAcceptance
<1>1. Init => ClockInv
  BY DEF Init, ClockInv, NoLateAcceptance
<1>2. ClockInv => NoLateAcceptance
  BY DEF ClockInv
<1>. QED BY <1>1, <1>2, TypeInvariant, ClockStep, PTL DEF Spec

-------------------------------------------------------------------------------
(* A finished run. *)

\* The run is finished exactly when some entry decided it, and what follows that
\* entry is quiet.
QuietInv ==
  /\ status \in TerminalStatuses <=> \E i \in DOMAIN journal : Decides(journal[i])
  /\ TerminalIsQuiet

\* A row appended to a running run: it may be the one that decides.
LEMMA QuietWhileRunning ==
  ASSUME TypeInv, QuietInv, status = "running",
         NEW e \in Entry, e.sequence = sequence + 1, Appended(e),
         Decides(e) <=> status' \in TerminalStatuses
  PROVE  QuietInv'
<1>1. /\ DOMAIN journal' = 1 .. sequence + 1 /\ DOMAIN journal = 1 .. sequence
      /\ \A i \in DOMAIN journal : journal'[i] = journal[i]
      /\ journal'[sequence + 1] = e /\ sequence \in Nat
  BY AppendedFacts DEF TypeInv, TypeOK, Sequences
<1>2. \A i \in DOMAIN journal : ~Decides(journal[i])
  BY DEF QuietInv, TerminalStatuses
<1>3. \A i \in DOMAIN journal' : Decides(journal'[i]) => i = sequence + 1
  BY <1>1, <1>2
<1>4. status' \in TerminalStatuses
        <=> \E i \in DOMAIN journal' : Decides(journal'[i])
  BY <1>1, <1>3
<1>5. TerminalIsQuiet'
  BY <1>1, <1>3 DEF TerminalIsQuiet, Decides
<1>. QED BY <1>4, <1>5 DEF QuietInv, Decides

\* A receipt or a tombstone appended to a finished run.
LEMMA QuietOnceFinished ==
  ASSUME TypeInv, QuietInv, status \in TerminalStatuses, status' = status,
         NEW e \in Entry, e.sequence = sequence + 1, Appended(e),
         e.event \in {"terminal_receipt", "artifact_expired"},
         e.event = "artifact_expired" => e.time >= TerminalTime + AuditWindow
  PROVE  QuietInv'
<1>1. /\ DOMAIN journal' = 1 .. sequence + 1 /\ DOMAIN journal = 1 .. sequence
      /\ \A i \in DOMAIN journal : journal'[i] = journal[i]
      /\ journal'[sequence + 1] = e /\ sequence \in Nat
  BY AppendedFacts DEF TypeInv, TypeOK, Sequences
<1>2. ~Decides(e)
  BY DEF Decides
<1>3. PICK d \in DOMAIN journal : Decides(journal[d])
  BY DEF QuietInv
<1>4. \A i \in DOMAIN journal : Decides(journal[i]) => i = d
  BY <1>1, <1>3 DEF QuietInv, TerminalIsQuiet, Decides
<1>5. TerminalTime = journal[d].time
  <2>. DEFINE deciding == {i \in DOMAIN journal : Decides(journal[i])}
  <2>1. deciding = {d}
    BY <1>3, <1>4
  <2>2. d <= d
    BY <1>1, <1>3
  <2>3. (CHOOSE i \in deciding : \A j \in deciding : i <= j) = d
    BY <2>1, <2>2
  <2>. QED BY <2>3 DEF TerminalTime
<1>6. ASSUME NEW i \in DOMAIN journal', NEW j \in DOMAIN journal', i < j,
             Decides(journal'[i])
      PROVE  /\ journal'[j].event \in {"terminal_receipt", "artifact_expired"}
             /\ journal'[j].event = "artifact_expired" =>
                  journal'[j].time >= journal'[i].time + AuditWindow
  <2>1. i \in DOMAIN journal /\ i = d
    BY <1>1, <1>2, <1>4, <1>6
  <2>2. CASE j = sequence + 1
    BY <1>1, <1>5, <2>1, <2>2
  <2>3. CASE j \in DOMAIN journal
    BY <1>1, <1>6, <2>1, <2>3 DEF QuietInv, TerminalIsQuiet
  <2>. QED BY <1>1, <2>2, <2>3
<1>7. \E i \in DOMAIN journal' : Decides(journal'[i])
  BY <1>1, <1>3
<1>. QED BY <1>6, <1>7 DEF QuietInv, TerminalIsQuiet, Decides

LEMMA QuietStep == TypeInv /\ QuietInv /\ [Next]_vars => QuietInv'
<1>. SUFFICES ASSUME TypeInv, QuietInv, [Next]_vars PROVE QuietInv'
  OBVIOUS
<1>1. CASE UNCHANGED vars
  BY <1>1 DEF vars, QuietInv, TerminalIsQuiet, Decides
<1>2. ASSUME NEW r \in Roots, NEW now \in Times, CreateRun(r, now)
      PROVE  QuietInv'
  <2>1. journal' = <<CreatedEntry(r, now)>> /\ status' = "running"
    BY <1>2 DEF CreateRun, Appended, TypeInv, BeforeCreation
  <2>. QED BY <2>1 DEF QuietInv, TerminalIsQuiet, Decides, CreatedEntry,
                       TerminalStatuses
<1>3. ASSUME NEW b \in InitialBodies, NEW now \in Times, InitializeRun(b, now)
      PROVE  QuietInv'
  <2>1. /\ DOMAIN journal' = {1, 2}
        /\ journal'[1] = CreatedEntry(b.expected, now)
        /\ journal'[2] = UnownedEntry("run_initialized", 2, now, b)
    BY <1>3, InitializedFacts
  <2>2. /\ status' = StatusAfter("running", b)
        /\ b.status \in {None, "failed"}
    BY <1>3, InitialBodiesAssumption DEF InitializeRun
  <2>3. /\ ~Decides(journal'[1])
        /\ Decides(journal'[2]) <=> b.status # None
    BY <2>1 DEF Decides, CreatedEntry, UnownedEntry
  <2>4. status' \in TerminalStatuses <=> b.status # None
    BY <2>2, NoneAssumption DEF StatusAfter, TerminalStatuses
  <2>. QED BY <2>1, <2>3, <2>4 DEF QuietInv, TerminalIsQuiet, Decides
<1>4. ASSUME NEW o \in Owners, NEW observed \in Times, NEW expiry \in Times,
             Acquire(o, observed, expiry)
      PROVE  QuietInv'
  <2>1. status = "running" /\ status' = status
    BY <1>4 DEF Acquire
  <2>. QED BY <1>4, <2>1, AcquireEntry, QuietWhileRunning
           DEF Decides, TerminalStatuses
<1>5. ASSUME NEW l \in Leases, NEW observed \in Times, NEW expiry \in Times,
             Renew(l, observed, expiry)
      PROVE  QuietInv'
  <2>1. status = "running" /\ status' = status
    BY <1>5 DEF Renew
  <2>. QED BY <1>5, <2>1, RenewEntry, QuietWhileRunning
           DEF Decides, TerminalStatuses
<1>6. ASSUME NEW l \in Leases, NEW c \in Commands, NEW b \in Bodies,
             NEW observed \in Times, Commit(l, c, b, observed)
      PROVE  QuietInv'
  <2>1. /\ status = "running" /\ status' = StatusAfter(status, b)
        /\ b.status # None => b.status \in TerminalStatuses
    BY <1>6 DEF Commit, CanTransition
  <2>2. status' \in TerminalStatuses <=> b.status # None
    BY <2>1 DEF StatusAfter, TerminalStatuses
  <2>. QED BY <1>6, <2>1, <2>2, RecordsEntry, QuietWhileRunning DEF Decides
<1>7. ASSUME NEW l \in Leases, NEW c \in Commands, NEW b \in Bodies,
             NEW observed \in Times, CommitAgain(l, c, b, observed)
      PROVE  QuietInv'
  BY <1>7 DEF CommitAgain, row, QuietInv, TerminalIsQuiet, Decides
<1>8. ASSUME NEW k \in Keys, NEW p \in Payloads, NEW now \in Times,
             time <= now, InsertFinal("terminal_receipt", k, p, now)
      PROVE  QuietInv'
  <2>1. status \in TerminalStatuses /\ status' = status
    BY <1>8 DEF InsertFinal
  <2>2. PICK e \in Entry : /\ Appended(e) /\ e.sequence = sequence + 1
                           /\ e.event = "terminal_receipt"
    BY <1>8, FinalEntry
  <2>. QED BY <2>1, <2>2, QuietOnceFinished
<1>9. ASSUME NEW k \in Keys, NEW p \in Payloads, NEW now \in Times,
             time <= now, now >= TerminalTime + AuditWindow,
             InsertFinal("artifact_expired", k, p, now)
      PROVE  QuietInv'
  <2>1. status \in TerminalStatuses /\ status' = status
    BY <1>9 DEF InsertFinal
  <2>2. PICK e \in Entry : /\ Appended(e) /\ e.sequence = sequence + 1
                           /\ e.event = "artifact_expired" /\ e.time = now
    BY <1>9, FinalEntry
  <2>. QED BY <1>9, <2>1, <2>2, QuietOnceFinished
<1>10. CASE Next
  <2>1. \A k \in ReplyKeys : k \in Keys
    BY KeysAssumption
  <2>2. \A a \in ArtifactKeys : TombstoneOf[a] \in Keys
    BY KeysAssumption
  <2>. QED
    BY <1>10, <1>2, <1>3, <1>4, <1>5, <1>6, <1>7, <1>8, <1>9, <2>1, <2>2,
       StepCases
<1>. QED BY <1>1, <1>10

\* TerminalIsQuiet, for any audit window and any set of receipts and artifacts.
THEOREM FinishedStaysFinished == Spec => []TerminalIsQuiet
<1>1. Init => QuietInv
  BY DEF Init, QuietInv, TerminalIsQuiet, TerminalStatuses
<1>2. QuietInv => TerminalIsQuiet
  BY DEF QuietInv
<1>. QED BY <1>1, <1>2, TypeInvariant, QuietStep, PTL DEF Spec

-------------------------------------------------------------------------------
(* Outcomes. *)

\* A compare-and-swap that goes through replaces no final record, drops none and
\* moves a revision by one.
LEMMA WrittenKeeps ==
  ASSUME NEW recs \in [Keys -> Record \union {None}], NEW body \in Body,
         Writable(recs, body.writes), NEW k \in Keys, recs[k] # None
  PROVE  /\ Written(recs, body.writes)[k] # None
         /\ recs[k].final => Written(recs, body.writes)[k] = recs[k]
         /\ Written(recs, body.writes)[k] # recs[k] =>
              Written(recs, body.writes)[k].revision = recs[k].revision + 1
<1>1. CASE body.writes[k] = None
  BY <1>1 DEF Written
<1>2. CASE body.writes[k] # None
  <2>1. ~recs[k].final /\ recs[k].revision = body.writes[k].expected
    BY <1>2 DEF Writable, IsFinal, RevisionOf
  <2>2. recs[k].revision \in Nat
    BY DEF Record
  <2>3. NextRevision(body.writes[k].expected) = recs[k].revision + 1
    BY <2>1, <2>2, NoneAssumption DEF NextRevision
  <2>4. Written(recs, body.writes)[k] # None
    <3>1. Written(recs, body.writes)[k] \in Record
      <4>1. body.writes[k] \in Write
        BY <1>2 DEF Body
      <4>. QED BY <1>2, <2>2, <2>3, <4>1 DEF Written, Write, Record
    <3>. QED BY <3>1, NoneAssumption
  <2>. QED BY <1>2, <2>1, <2>3, <2>4 DEF Written
<1>. QED BY <1>1, <1>2

LEMMA FinalInsertWritable ==
  ASSUME TypeInv, NEW key \in Keys, NEW payload \in Payloads, records[key] = None
  PROVE  Writable(records, FinalInsert(key, payload).writes)
BY DEF Writable, FinalInsert, IsFinal, RevisionOf

LEMMA StepKeepsOutcomes == TypeInv /\ [Next]_vars => [KeepsOutcomes]_vars
<1>. SUFFICES ASSUME TypeInv, Next PROVE KeepsOutcomes
  OBVIOUS
<1>1. records \in [Keys -> Record \union {None}]
  BY DEF TypeInv, TypeOK
<1>2. ASSUME NEW e \in Entry, e.sequence = sequence + 1, Appended(e)
      PROVE  \A i \in DOMAIN journal :
               i \in DOMAIN journal' /\ journal'[i] = journal[i]
  BY <1>2, AppendedFacts DEF TypeInv, TypeOK, Sequences
<1>3. ASSUME NEW r \in Roots, NEW now \in Times, CreateRun(r, now)
      PROVE  KeepsOutcomes
  BY <1>3 DEF CreateRun, KeepsOutcomes, TypeInv, BeforeCreation,
              TerminalStatuses
<1>4. ASSUME NEW b \in InitialBodies, NEW now \in Times, InitializeRun(b, now)
      PROVE  KeepsOutcomes
  <2>1. status = "none" /\ records = NoRecords /\ journal = <<>>
    BY <1>4 DEF InitializeRun, TypeInv, BeforeCreation
  <2>. QED BY <2>1 DEF KeepsOutcomes, NoRecords, TerminalStatuses
<1>5. ASSUME NEW o \in Owners, NEW observed \in Times, NEW expiry \in Times,
             Acquire(o, observed, expiry)
      PROVE  KeepsOutcomes
  BY <1>5, <1>2, AcquireEntry DEF Acquire, KeepsOutcomes
<1>6. ASSUME NEW l \in Leases, NEW observed \in Times, NEW expiry \in Times,
             Renew(l, observed, expiry)
      PROVE  KeepsOutcomes
  BY <1>6, <1>2, RenewEntry DEF Renew, KeepsOutcomes
<1>7. ASSUME NEW l \in Leases, NEW c \in Commands, NEW b \in Bodies,
             NEW observed \in Times, Commit(l, c, b, observed)
      PROVE  KeepsOutcomes
  <2>1. /\ status = "running" /\ Writable(records, b.writes)
        /\ records' = Written(records, b.writes)
    BY <1>7 DEF Commit
  <2>2. b \in Body
    BY BodiesAssumption
  <2>3. \A k \in Keys : records[k] # None =>
          /\ records'[k] # None
          /\ records[k].final => records'[k] = records[k]
          /\ records'[k] # records[k] =>
               records'[k].revision = records[k].revision + 1
    BY <1>1, <2>1, <2>2, WrittenKeeps
  <2>. QED BY <1>7, <1>2, <2>1, <2>3, RecordsEntry
           DEF KeepsOutcomes, TerminalStatuses
<1>8. ASSUME NEW l \in Leases, NEW c \in Commands, NEW b \in Bodies,
             NEW observed \in Times, CommitAgain(l, c, b, observed)
      PROVE  KeepsOutcomes
  BY <1>8 DEF CommitAgain, row, KeepsOutcomes
<1>9. ASSUME NEW event \in {"terminal_receipt", "artifact_expired"},
             NEW key \in Keys, NEW payload \in Payloads, NEW now \in Times,
             time <= now, InsertFinal(event, key, payload, now)
      PROVE  KeepsOutcomes
  <2>1. /\ records[key] = None
        /\ records' = Written(records, FinalInsert(key, payload).writes)
        /\ status' = status /\ root' = root
    BY <1>9 DEF InsertFinal
  <2>2. FinalInsert(key, payload) \in Body
    BY FinalInsertType
  <2>3. \A k \in Keys : records[k] # None =>
          /\ records'[k] # None
          /\ records[k].final => records'[k] = records[k]
          /\ records'[k] # records[k] =>
               records'[k].revision = records[k].revision + 1
    BY <1>1, <2>1, <2>2, FinalInsertWritable, WrittenKeeps
  <2>. QED BY <1>9, <1>2, <2>1, <2>3, FinalEntry DEF KeepsOutcomes
<1>10. \A k \in ReplyKeys : k \in Keys
  BY KeysAssumption
<1>11. \A a \in ArtifactKeys : TombstoneOf[a] \in Keys
  BY KeysAssumption
<1>. QED
  BY <1>3, <1>4, <1>5, <1>6, <1>7, <1>8, <1>9, <1>10, <1>11, StepCases

\* OutcomesImmutable, for any keys, bodies and bounds.
THEOREM OutcomesKept == Spec => OutcomesImmutable
BY TypeInvariant, StepKeepsOutcomes, PTL DEF Spec, OutcomesImmutable

===============================================================================
