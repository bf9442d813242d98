SPECIFICATION Spec
CONSTANTS
  PacketSize = 4
  Clients = {"code", "external"}
  WriteResults = {"all", "part"}
INVARIANTS TypeOK StreamIntact FramingExact
PROPERTIES ServerFinishes
CHECK_DEADLOCK FALSE
