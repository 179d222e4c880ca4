SPECIFICATION Spec
CONSTANTS
  Versions <- MCVersions
  FirstVersion = "v1"
  Delay <- MCDelay
  Has = {"v1", "v2", "v3", "v4", "v6"}
  Named = {"v1", "v2", "v3", "v5", "v6"}
  ReadsContext = {"v3"}
  Throws = {"v6"}
  Leaves = {"v2", "v4"}
  Keeps = {"v2"}
  Exiting = {"v1", "v3", "v6"}
  MaxTime = 12
  MaxMigrations = 3
CHECK_DEADLOCK FALSE
INVARIANTS EntryIsTheTimer NotForgotten WaitIsBounded NoOrphans OnScheduleOnce
