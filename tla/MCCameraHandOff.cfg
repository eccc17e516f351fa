CONSTANTS
  WORKTHREADS_SIZE = 2
  Channel = {ch1, ch2, ch3}
  Camera = {c1, c2, c3}
  CHANNELS_LIMIT = 1
  NULL = NULL
SPECIFICATION Spec
CHECK_DEADLOCK FALSE
SYMMETRY Symmetry
INVARIANTS TypeOK ChannelOnOneWorker ChannelsBounded HandlerFindsChannel
  WatcherOwnsChannel LostByOverlapOrEarly FreedReadOnlyByOverlap
