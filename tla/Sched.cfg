CONSTANTS
  N = 2
  Threads = {"boot0", "boot1", "a", "b"}
  Wchans <- MCWchans
  Boot <- MCBoot
  Script <- MCScript
  Sems = {"donesem", "exitsem", "gatesem", "cpu_hatch"}
  Locks = {"testlock"}
  Turns = 2
  MaxTicks = 2
  MaxMoves = 2
SPECIFICATION FairSpec
INVARIANTS CpusSound WakeupsArrive
PROPERTIES Finishes
CHECK_DEADLOCK FALSE
