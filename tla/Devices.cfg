CONSTANTS
  t0 = t0
  t1 = t1
  t2 = t2
  byte1 = byte1
  byte2 = byte2
  h1 = h1
  h2 = h2
  Threads = {t0, t1, t2}
  Boot = t0
  DISK <- MCDisk
  SER <- MCSer
  EMUCARD <- MCEmu
  JUNK <- MCJunk
  Slots <- MCSlots
  Drivers <- MCDrivers
  Plans <- MCPlans
  MaxDuds = 2
  Data = {byte1, byte2}
  Blocks = 2
  Platters <- MCPlatters
  Width = 3
  MaxFaults = 1
  Ring = 3
  Message <- MCMessage
  MaxReads = 2
  Second = t2
  MaxLine = 2
  Handles = {h1, h2}
  MaxChunks = 2
  MaxRetries = 1
  MaxErrors = 2
  MaxRefused = 1
SPECIFICATION SysSpec
INVARIANTS TransfersSound ConsoleShown
PROPERTIES CallsEnd StopsEnd
CHECK_DEADLOCK FALSE
