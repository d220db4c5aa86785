SPECIFICATION Spec
CONSTANTS
  p1 = p1
  p2 = p2
  g1 = g1
  g2 = g2
  Callers = {p1, p2}
  Gateways = {g1, g2}
  GatewayOf <- MCGatewayOf
  Files = {f1, f2, f3}
  Batches = {b1}
  Backends = {"claude", "openrouter"}
  PutRecords <- PutRecord
  Patches <- FinalizePatch
  NoFile = NoFile
  NoBatch = NoBatch
  NoBackend = NoBackend
  NoCaller = NoCaller
SYMMETRY Symmetry
INVARIANTS
  FilesAreWhole
  RunningJobIsTracked
  OutcomeMatchesProvider
  CancelIsReal
PROPERTIES
  InUseNeverRemoved
  FinalizedFromOpen
