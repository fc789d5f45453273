\* A kill between the remove and the end of the iteration loses the last snapshot.
CONSTANTS
  Absent = Absent
  MaxChanges = 3
  MaxRestarts = 1
  Crashes = TRUE
SPECIFICATION Spec
PROPERTY
  RestartLoadsLatestSnapshot
