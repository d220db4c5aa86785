SPECIFICATION Spec
CONSTANTS
  IdOrder <- MCIdOrder
  Inputs <- MCInputs
  Upstream <- MCUpstream
  Asked <- MCAsked
  PageSize = 1
  MaxPages = 2
INVARIANTS
  LoadIsHonoured
  DialIsCarried
  ListedIsServed
  AllowedIsServed
  
