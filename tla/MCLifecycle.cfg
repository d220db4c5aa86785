SPECIFICATION LifeSpec
CONSTANTS
  m1 = m1
  loop0 = loop0
  r1 = r1
  Models <- MCModels
  Configured = {}
  Tasks <- MCTasks
  Loop = loop0
  MaxPuts = 3
  NoTask = NoTask
  NoModel = NoModel
INVARIANTS
  RouterClosesLast
PROPERTIES
  StopsWhenTold
