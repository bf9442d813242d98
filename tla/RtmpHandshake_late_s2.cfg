SPECIFICATION Spec
CONSTANTS
  PacketSize = 2
  Clients = {"code"}
  WriteResults = {"all"}
PROPERTIES ClientFinishes
CHECK_DEADLOCK FALSE
