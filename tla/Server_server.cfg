SPECIFICATION Spec
CONSTANTS
  t1 = t1
  t2 = t2
  Missing = Missing
  Malformed = Malformed
  Threads = {t1, t2}
  MaxRefs = 2
  MayBeKilled = TRUE
  Registries <- MCRegistries
  UserFiles <- MCUserFiles
  SystemFiles <- MCSystemFiles
  Environments <- MCEnvironments
  Edits <- MCEdits
SYMMETRY Symmetry
INVARIANTS
  HeldIsLoaded
  ReportIsTrue
PROPERTIES
  ConfirmedIsRead
