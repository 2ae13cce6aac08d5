SPECIFICATION DateSpec
CONSTANTS
  Packets <- MCPackets
  Slots = 5
  WriteTimeout = 0
  MaxBusy = 1
  MaxTime = 5
INVARIANTS SendsPacket DateWhole
PROPERTIES Returns
CHECK_DEADLOCK FALSE
