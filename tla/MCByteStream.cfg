\* ByteStream: headers of two cells, so that one can be cut in two, and
\* frames that fit the buffer, that fill it and that are longer than it.
SPECIFICATION StreamSpec
CONSTANTS
  BufSize = 5
  Hdr = 2
  Chunk = 2
  MaxPayload = 4
  MaxBytes = 7
INVARIANTS
  StreamInv
  StandoffOnlyOverLong
PROPERTIES
  ImplementsChannel
  FramesFetched
  ThreadsEnd
CHECK_DEADLOCK FALSE
