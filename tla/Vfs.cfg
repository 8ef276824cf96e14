CONSTANTS
  Threads = {"a", "b"}
  Devices = {"null", "lhd0", "con"}
  Disks = {"lhd0"}
  Files = {2, 3}
  Names = {"f", "g"}
  MaxFaults = 1
  Volname <- MCVolname
  RawName <- MCRawName
  Attached <- MCAttached
  Calls <- MCCalls
  MaxCalls = 5
SPECIFICATION Spec
INVARIANTS ReferencesExact NamespaceSound
PROPERTIES OperationsEnd
CHECK_DEADLOCK FALSE
