SPECIFICATION FilesSpec
CONSTANTS
  Runs = {r1, r2}
  Old = Old
  None = None
  MaxActive = 1
  MaxFaults = 2
  MaxCrashes = 1
  MaxCleans = 1
  MaxEdits = 1
  StatFails = FALSE
  Regulars = {m1, m2}
  Aliases = {a1}
  Absent = Absent
  MaxChanges = 2
  MaxRuns = 2
  Builds = {b1, b2}
  Others = Others
  NoFile = NoFile
  Entries <- MCEntries
  MaxOthers = 1
  Files = {1}
  AppEdits = 1
  Editable = {1, 5, 6}
  MaxWrites = 2
  MaxActs = 3
  MaxCalls = 2
  Changers = {w1}
  Binders = {s1, s2}
  NoCaller = NoCaller
  NoSnapshot = NoSnapshot
  MaxGeneration = 2
  MaxRevision = 2
  MaxBrand = 2
  EditsOnDisk = TRUE
INVARIANTS
  RestIsWhole
  SnapshotIsOneBrand
  LaterChangesAreReported
  RuntimeSnapshots
  MarkerMeansWhole
  ShownIsTrue
  OutcomeIsTrue
PROPERTIES
  FailureRestores
  AllOrNothing
  CustodyIsKept
  CompileSettles
CHECK_DEADLOCK FALSE
