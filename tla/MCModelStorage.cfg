\* Periodic stores, a kill at any step, a restart: what a restart loads, and the stop of the storage thread.
CONSTANTS
  Absent = Absent
  MaxChanges = 3
  MaxRestarts = 1
  Crashes = TRUE
SPECIFICATION Spec
INVARIANT
  TypeOK
PROPERTIES
  RestartLoadsSavedOrEmpty
  StorageStopsAfterShutdown
