CONSTANTS
  CACHED_TAGS_LIMIT = 2
  NULL = NULL
  Viewer = {v1, v2}
  Size = 2
  MaxTags = 1
  MaxHeaders = 0
SPECIFICATION Spec
INVARIANT HeadersWhole
