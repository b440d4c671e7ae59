SPECIFICATION Spec
CONSTANTS
  r1 = r1  r2 = r2
  in = in  out = out  given = given  later = later
  seen = seen  shared = shared
  None = None
  Runs = {r1, r2}
  Artifacts = {in, out, given, later}
  Blobs = {seen, shared}
  BlobOf <- MCBlobOf
  ProducerOf <- MCProducerOf
  Inputs = {in, given}
  Audits = {1, 2}
  MaxTime = 4
INVARIANTS RunsKeepUploads
CHECK_DEADLOCK FALSE
