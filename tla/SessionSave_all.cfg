SPECIFICATION Spec
CONSTANTS
  Absent = Absent
  Torn = Torn
  NoJob = NoJob
  MaxChanges = 3
INVARIANT Restorable CleanExit
PROPERTY NeverOlder ChangeReachesDisk
