---------------------------- MODULE RetentionProofs ----------------------------
(***************************************************************************)
(* Retention for any runs, artifacts, windows and clock: what a run names  *)
(* stays readable while it runs, promised windows are kept, tombstones are *)
(* final.                                                                  *)
(***************************************************************************)
EXTENDS Retention, TLAPS

\* A run that has not started names nothing yet.
FreshRuns == \A r \in Runs : state[r] = "new" => refs[r] = {}

IInv == TypeOK /\ NamesAreReadable /\ WindowsAreKept /\ FreshRuns

USE MapsAssumption, TimesAssumption, NoneAssumption DEF Times

LEMMA InitInv == Init => IInv
BY DEF Init, IInv, TypeOK, NamesAreReadable, WindowsAreKept, FreshRuns, Own,
       Expired

\* What a run adds to its names is new and has its bytes, or was checked.
LEMMA StageInv ==
  ASSUME IInv, NEW r \in Runs, NEW a \in Artifacts, Stage(r, a)
  PROVE  IInv'
<1> USE DEF IInv, Stage
<1>1. TypeOK'
  BY DEF TypeOK, Own, Expired
<1>2. NamesAreReadable' /\ WindowsAreKept' /\ FreshRuns'
  BY DEF TypeOK, NamesAreReadable, WindowsAreKept, FreshRuns, Expired
<1> QED  BY <1>1, <1>2

LEMMA AcceptInv ==
  ASSUME IInv, NEW r \in Runs, NEW names \in SUBSET accepted,
         Present(staging[r]), Accept(r, names),
         \A a \in names : ~Expired(a),
         UNCHANGED <<time, tombstone, bytes, lost>>,
         state[r] # "ended",
         \E s \in {"running", "ended"} : state' = [state EXCEPT ![r] = s],
         \E e \in Times \union {None} :
           ended' = [ended EXCEPT ![r] = e] /\ (e # None <=> state'[r] = "ended"),
         \E w \in Audits : saved' = [saved EXCEPT ![r] = w]
  PROVE  IInv'
<1> USE DEF IInv, Accept
<1>1. refs[r] \subseteq accepted /\ staging[r] \subseteq Own(r) \ accepted
  BY DEF TypeOK
<1>2. \A a \in refs'[r] : ~Expired(a)
  BY <1>1 DEF TypeOK, NamesAreReadable, FreshRuns, Expired
<1>3. TypeOK'
  <2>1. /\ time' \in Times /\ state' \in [Runs -> {"new", "running", "ended"}]
        /\ ended' \in [Runs -> Times \union {None}]
        /\ saved' \in [Runs -> Audits \union {None}]
    BY DEF TypeOK
  <2>2. /\ accepted' \subseteq Artifacts /\ refs' \in [Runs -> SUBSET accepted']
        /\ tombstone' \in [Artifacts -> Times \union {None}]
        /\ bytes' \subseteq Blobs /\ staging' \in [Runs -> SUBSET Artifacts]
        /\ lost' \subseteq Runs
    BY <1>1 DEF TypeOK, Own
  <2>3. \A q \in Runs : /\ state'[q] = "new" <=> saved'[q] = None
                        /\ state'[q] = "ended" <=> ended'[q] # None
    <3>1. PICK s \in {"running", "ended"} : state' = [state EXCEPT ![r] = s]
      OBVIOUS
    <3>2. PICK e \in Times \union {None} :
            ended' = [ended EXCEPT ![r] = e] /\ (e # None <=> state'[r] = "ended")
      OBVIOUS
    <3>3. PICK w \in Audits : saved' = [saved EXCEPT ![r] = w]
      OBVIOUS
    <3> QED  BY <3>1, <3>2, <3>3 DEF TypeOK
  <2>4. \A q \in Runs : staging'[q] \subseteq Own(q) \ accepted'
    BY <1>1 DEF TypeOK, Own
  <2>5. \A a \in Artifacts : Expired(a)' => a \in accepted'
    BY DEF TypeOK, Expired
  <2> QED  BY <2>1, <2>2, <2>3, <2>4, <2>5 DEF TypeOK
<1>4. NamesAreReadable'
  BY <1>1, <1>2 DEF TypeOK, NamesAreReadable, Present, BlobsOf, Expired, Own
<1>5. WindowsAreKept'
  BY <1>2 DEF TypeOK, WindowsAreKept, Expired
<1>6. FreshRuns'
  BY DEF TypeOK, FreshRuns
<1> QED  BY <1>3, <1>4, <1>5, <1>6

LEMMA StartInv ==
  ASSUME IInv, NEW r \in Runs, NEW names \in SUBSET accepted,
         NEW audit \in Audits, NEW fails \in BOOLEAN,
         StartRun(r, names, audit, fails)
  PROVE  IInv'
<1>1. time \in Times
  BY DEF IInv, TypeOK
<1>2. state[r] = "new" /\ state \in [Runs -> {"new", "running", "ended"}]
  BY DEF StartRun, IInv, TypeOK
<1>3. \E s \in {"running", "ended"} : state' = [state EXCEPT ![r] = s]
  BY DEF StartRun
<1>4. \E e \in Times \union {None} :
        ended' = [ended EXCEPT ![r] = e] /\ (e # None <=> state'[r] = "ended")
  <2>1. CASE fails
    <3>1. ended' = [ended EXCEPT ![r] = time] /\ state'[r] = "ended"
      BY <1>2, <2>1 DEF StartRun
    <3>2. time # None
      BY <1>1
    <3> QED  BY <1>1, <3>1, <3>2
  <2>2. CASE ~fails
    <3>1. ended' = [ended EXCEPT ![r] = None] /\ state'[r] = "running"
      BY <1>2, <2>2 DEF StartRun
    <3> QED  BY <3>1
  <2> QED  BY <2>1, <2>2
<1>5. \E w \in Audits : saved' = [saved EXCEPT ![r] = w]
  BY DEF StartRun
<1>6. /\ Present(staging[r]) /\ Accept(r, names) /\ \A a \in names : ~Expired(a)
      /\ UNCHANGED <<time, tombstone, bytes, lost>>
  BY DEF StartRun
<1> QED  BY <1>2, <1>3, <1>4, <1>5, <1>6, AcceptInv

\* Nothing about a running run changes but what it names.
LEMMA PublishInv ==
  ASSUME IInv, NEW r \in Runs, NEW names \in SUBSET accepted,
         state[r] = "running", Present(staging[r]), Accept(r, names),
         \A a \in names : ~Expired(a),
         UNCHANGED <<time, state, ended, saved, tombstone, bytes, lost>>
  PROVE  IInv'
<1>1. state' = [state EXCEPT ![r] = "running"]
  BY DEF IInv, TypeOK
<1>2. ended' = [ended EXCEPT ![r] = None] /\ None = ended[r]
  BY DEF IInv, TypeOK
<1>3. saved[r] \in Audits /\ saved' = [saved EXCEPT ![r] = saved[r]]
  BY DEF IInv, TypeOK
<1>4. state'[r] = "running"
  OBVIOUS
<1> QED  BY <1>1, <1>2, <1>3, <1>4, AcceptInv

\* A run ends: it keeps its names, and none of them has expired.
LEMMA EndInv ==
  ASSUME IInv, NEW r \in Runs, state[r] = "running",
         state' = [state EXCEPT ![r] = "ended"],
         ended' = [ended EXCEPT ![r] = time],
         staging' = [staging EXCEPT ![r] = {}], lost' \subseteq Runs,
         UNCHANGED <<time, saved, accepted, refs, tombstone, bytes>>
  PROVE  IInv'
<1> USE DEF IInv
<1>1. TypeOK'
  BY DEF TypeOK, Own, Expired
<1>2. NamesAreReadable' /\ FreshRuns'
  BY DEF TypeOK, NamesAreReadable, FreshRuns, Expired
<1>3. WindowsAreKept'
  BY DEF TypeOK, NamesAreReadable, WindowsAreKept, Expired
<1> QED  BY <1>1, <1>2, <1>3

LEMMA ExpireInv ==
  ASSUME IInv, NEW a \in Artifacts, NEW audit \in Audits,
         ExpireArtifact(a, audit)
  PROVE  IInv'
<1> USE DEF IInv, ExpireArtifact
<1>1. TypeOK'
  BY DEF TypeOK, Own, Expired
<1>2. NamesAreReadable' /\ FreshRuns'
  BY DEF TypeOK, NamesAreReadable, FreshRuns, Expired
<1>3. \A r \in Runs : a \in refs[r] =>
        state[r] = "ended" /\ time >= ended[r] + Later(audit, saved[r])
  BY DEF ProtectedUntil
<1>4. \A r \in Runs : a \in refs[r] =>
        ended[r] # None /\ time >= ended[r] + saved[r]
  <2> SUFFICES ASSUME NEW r \in Runs, a \in refs[r]
               PROVE  ended[r] # None /\ time >= ended[r] + saved[r]
    OBVIOUS
  <2>1. state[r] = "ended" /\ time >= ended[r] + Later(audit, saved[r])
    BY <1>3
  <2>2. ended[r] # None /\ saved[r] # None
    BY <2>1 DEF TypeOK
  <2>3. ended[r] \in Nat /\ saved[r] \in Nat /\ time \in Nat /\ audit \in Nat
    <3>1. ended[r] \in Times /\ time \in Times /\ Times \subseteq Nat
      BY <2>2 DEF TypeOK
    <3>2. saved[r] \in Audits
      BY <2>2 DEF TypeOK
    <3> QED  BY <3>1, <3>2
  <2> QED  BY <2>1, <2>2, <2>3 DEF Later
<1>5. WindowsAreKept'
  BY <1>4 DEF TypeOK, WindowsAreKept, Expired
<1> QED  BY <1>1, <1>2, <1>5

\* What is collected is mentioned by expired metadata only.
LEMMA CollectInv ==
  ASSUME IInv, NEW b \in Blobs, CollectGarbage(b)
  PROVE  IInv'
<1> USE DEF IInv, CollectGarbage
<1>1. TypeOK'
  BY DEF TypeOK, Own, Expired
<1>2. NamesAreReadable'
  BY DEF TypeOK, NamesAreReadable, Expired, Mentions
<1>3. WindowsAreKept' /\ FreshRuns'
  BY DEF WindowsAreKept, FreshRuns, Expired
<1> QED  BY <1>1, <1>2, <1>3

LEMMA QuietInv ==
  ASSUME IInv,
         \/ Tick
         \/ \E r \in Runs : Abandon(r)
         \/ UNCHANGED vars
  PROVE  IInv'
<1> USE DEF IInv, vars, Tick, Abandon
<1>1. TypeOK'
  BY DEF TypeOK, Own, Expired
<1>2. NamesAreReadable' /\ WindowsAreKept' /\ FreshRuns'
  BY DEF NamesAreReadable, WindowsAreKept, FreshRuns, Expired
<1> QED  BY <1>1, <1>2

LEMMA StepInv == IInv /\ [Next]_vars => IInv'
<1> SUFFICES ASSUME IInv, [Next]_vars  PROVE IInv'
  OBVIOUS
<1>1. CASE Tick \/ (\E r \in Runs : Abandon(r)) \/ UNCHANGED vars
  BY <1>1, QuietInv
<1>2. CASE \E r \in Runs, a \in Artifacts : Stage(r, a)
  BY <1>2, StageInv
<1>3. ASSUME NEW r \in Runs, AcceptOutputs(r)  PROVE IInv'
  <2>1. {} \in SUBSET accepted /\ \A a \in {} : ~Expired(a)
    OBVIOUS
  <2> QED  BY <1>3, <2>1, PublishInv DEF AcceptOutputs
<1>4. ASSUME NEW r \in Runs, NEW names \in SUBSET accepted, Extend(r, names)
      PROVE  IInv'
  BY <1>4, PublishInv DEF Extend
<1>5. ASSUME NEW r \in Runs, LoseUpload(r) \/ FinishRun(r)  PROVE IInv'
  <2>1. lost' \subseteq Runs
    BY <1>5 DEF IInv, TypeOK, LoseUpload, FinishRun
  <2> QED  BY <1>5, <2>1, EndInv DEF LoseUpload, FinishRun
<1>6. CASE \E r \in Runs, names \in SUBSET accepted, audit \in Audits,
              fails \in BOOLEAN : StartRun(r, names, audit, fails)
  BY <1>6, StartInv
<1>7. CASE \E a \in Artifacts, audit \in Audits : ExpireArtifact(a, audit)
  BY <1>7, ExpireInv
<1>8. CASE \E b \in Blobs : CollectGarbage(b)
  BY <1>8, CollectInv
<1> QED  BY <1>1, <1>2, <1>3, <1>4, <1>5, <1>6, <1>7, <1>8 DEF Next

THEOREM Invariance == Spec => []IInv
BY InitInv, StepInv, PTL DEF Spec

\* Types, and what every variable says of a run's life.
THEOREM RetentionTypes == Spec => []TypeOK
BY Invariance, PTL DEF IInv

\* A running run always finds what it names (NamesAreReadable), whatever is
\* expired and collected meanwhile (store_retention.rs).
THEOREM NothingNamedVanishes == Spec => []NamesAreReadable
BY Invariance, PTL DEF IInv

\* No promised audit window is cut short (protected_until).
THEOREM AuditWindows == Spec => []WindowsAreKept
BY Invariance, PTL DEF IInv

\* A tombstone is never moved and its artifact never named anew (expired,
\* check_references, check_input_reference).
THEOREM TombstonesAreFinal == Spec => TombstonesStand
<1>1. ASSUME IInv, [Next]_vars  PROVE [KeepsTombstones]_vars
  <2> SUFFICES ASSUME Next  PROVE KeepsTombstones
    BY <1>1
  <2>1. \A r \in Runs : staging[r] \subseteq Artifacts \ accepted
    BY <1>1 DEF IInv, TypeOK, Own
  <2>2. \A a \in Artifacts : Expired(a) => a \in accepted
    BY <1>1 DEF IInv, TypeOK
  <2>3. refs \in [Runs -> SUBSET accepted] /\ tombstone \in [Artifacts -> Times \union {None}]
    BY <1>1 DEF IInv, TypeOK
  <2>4. ASSUME NEW r \in Runs, NEW names \in SUBSET accepted, Accept(r, names),
               \A a \in names : ~Expired(a), UNCHANGED tombstone
        PROVE  KeepsTombstones
    BY <2>1, <2>2, <2>3, <2>4 DEF Accept, KeepsTombstones, Expired
  <2>5. CASE Tick \/ (\E r \in Runs : Abandon(r) \/ LoseUpload(r) \/ FinishRun(r))
             \/ (\E r \in Runs, a \in Artifacts : Stage(r, a))
             \/ (\E b \in Blobs : CollectGarbage(b))
    BY <2>5 DEF Tick, Abandon, LoseUpload, FinishRun, Stage, CollectGarbage,
                KeepsTombstones
  <2>6. ASSUME NEW r \in Runs, AcceptOutputs(r)  PROVE KeepsTombstones
    <3>1. {} \in SUBSET accepted /\ \A a \in {} : ~Expired(a)
      OBVIOUS
    <3> QED  BY <2>4, <2>6, <3>1 DEF AcceptOutputs
  <2>7. ASSUME NEW r \in Runs, NEW names \in SUBSET accepted, Extend(r, names)
        PROVE  KeepsTombstones
    BY <2>4, <2>7 DEF Extend
  <2>8. ASSUME NEW r \in Runs, NEW names \in SUBSET accepted,
               NEW audit \in Audits, NEW fails \in BOOLEAN,
               StartRun(r, names, audit, fails)
        PROVE  KeepsTombstones
    BY <2>4, <2>8 DEF StartRun
  <2>9. ASSUME NEW a \in Artifacts, NEW audit \in Audits,
               ExpireArtifact(a, audit)
        PROVE  KeepsTombstones
    BY <2>3, <2>9 DEF ExpireArtifact, KeepsTombstones, Expired
  <2> QED  BY <2>5, <2>6, <2>7, <2>8, <2>9 DEF Next
<1> QED  BY <1>1, Invariance, PTL DEF Spec, TombstonesStand

===============================================================================
