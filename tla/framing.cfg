\* Bytes of two bits; packets of up to 5 bytes in a ring of 7, so that every
\* field is cut everywhere; -1, 4 and 5 are what no packet declares. The peer
\* may stop sending: the session then waits for it. The server echoes one
\* field of 3 bytes, as the echo server does one double.
CONSTANTS
  Size = 7
  HEADER_SIZE = 2
  MAX_PACKET_SIZE = 3
  Base = 4
  Payloads <- SomePayloads
  BadHeaders <- SomeBadHeaders
  Window = 6
  MaxPackets = 4
  Fields <- OneField
  ReplySize = 5
  Unknown = Unknown
CHECK_DEADLOCK FALSE
SPECIFICATION FairSpec
INVARIANTS Reassembles RecvHasRoom ClosedForCause EchoesBack
PROPERTIES AllReceived
