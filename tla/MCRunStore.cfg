SPECIFICATION Spec
CONSTANTS
  o1 = o1  o2 = o2  c1 = c1  c2 = c2
  wait = wait  artifact = artifact  tombstone = tombstone  reply = reply
  draft = draft  accept = accept  r1 = r1  r2 = r2
  None = None
  Owners = {o1, o2}
  Commands = {c1, c2}
  Roots = {r1, r2}
  Payloads = {draft, accept}
  ReplyKeys = {reply}
  ArtifactKeys = {artifact}
  Keys <- MCKeys
  TombstoneOf <- MCTombstoneOf
  Due <- MCDue
  Bodies <- MCBodies
  InitialBodies <- MCInitialBodies
  MaxTime = 3
  MaxSequence = 7
  AuditWindow = 1
INVARIANTS
  TypeOK FencedHistory CommandsDecideOnce NoLateAcceptance TerminalIsQuiet
PROPERTIES
  OutcomesImmutable 
CHECK_DEADLOCK FALSE
