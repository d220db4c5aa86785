SPECIFICATION Spec
CHECK_DEADLOCK FALSE
CONSTANTS
  a = a
  b = b
  c = c
  m1 = m1
  m2 = m2
  Blank = Blank
  Ids = {a, b, c}
  Models = {m1, m2}
  BatchModels = {m1}
  Inputs <- MCInputs
INVARIANTS
  SubmittedOnce
  ResultsAreFiled
  OutcomeIsTrue
