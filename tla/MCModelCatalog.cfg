SPECIFICATION Spec
CONSTANTS
  m1 = m1
  m2 = m2
  loop0 = loop0
  r1 = r1
  r2 = r2
  Models <- MCModels
  Configured = {}
  Tasks <- MCTasks
  Loop = loop0
  MaxPuts = 3
  NoTask = NoTask
  NoModel = NoModel
SYMMETRY MCSymmetry
INVARIANTS
  SavedWhenQuiet
PROPERTIES
  KeepsPromise
  DiskNeverOlder
