SPECIFICATION Spec
CONSTANTS
  ch1 = ch1
  r1 = r1
  Relay = {r1, r2}
  Channel = {ch1}
  ChannelOf <- MCChannelOf
  ChunkSize = 3
  StreamSize = 4
  RequestSize <- MCRequestSize
INVARIANTS StreamIntact UndefinedExplained 
CHECK_DEADLOCK FALSE
