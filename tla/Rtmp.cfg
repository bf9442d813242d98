SPECIFICATION Spec
CONSTANTS
  Csids = {2, 3, 70, 400}
  Messages <- MCMessages
  Times = {0, 1, 5}
  Radix = 4
  Small = 1
  Large = 2
  MaxSent = 3
  Window = 4
  OtherWindows = {2, 6}
  Urls <- MCUrls
  Streams <- MCStreams
  MaxSaid = 2
  AmfCommands <- MCCommands
  AmfNames <- MCNames
INVARIANTS TypeOK FramingKept MessagesIntact BytesAcknowledged DialogueCompletes JoinsAsAsked AmfArrives
CHECK_DEADLOCK FALSE
