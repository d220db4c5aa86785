SPECIFICATION FairSpec
CONSTANTS
  Callers = {c1, c2, c3, c4}
  Names = {n1}
  Trip = 3
  NoName = NoName
  NoCaller = NoCaller
INVARIANTS
  ClosedMeansTrusted
PROPERTIES
  OpensOnlyForStreak
  Recovers
