CONSTANTS
  CACHED_TAGS_LIMIT = 4
  Payload = {a, b}
  DataSize = 2
  NULL = NULL
SPECIFICATION Spec
INVARIANTS TypeOK SlotsMatchIndices OnlyHeadPartlySent
PROPERTY FifoSpec
