CONSTANTS
  CACHED_TAGS_LIMIT = 2
  NULL = NULL
  Viewer = {v1, v2}
  Size = 2
  MaxTags = 1
  MaxHeaders = 2
SPECIFICATION Spec
INVARIANTS TypeOK HeadersBeforeFrames FlvHeaderWhole
