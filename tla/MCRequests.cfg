SPECIFICATION Spec
CONSTANTS
  Absent = Absent
  Bad = Bad
  c1 = c1
  c2 = c2
  Callers <- MCCallers
  Providers = {"openai", "anthropic", "cloudflare", "switchyard"}
  Files <- MCFiles
  Headers <- MCHeaders
  Replies <- MCReplies
  Trip = 2
  DepTrip = 1
SYMMETRY MCSymmetry
INVARIANTS
  BlameIsJust
  StatusTellsTruth
  DeadlinesAreFair
PROPERTIES
  RefusalsAreEarned
