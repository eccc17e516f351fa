CONSTANTS
  CACHED_TAGS_LIMIT = 3
  NULL = NULL
  Viewer = {v1}
  Size = 2
  MaxTags = 6
  MaxHeaders = 0
SPECIFICATION FairSpec
INVARIANTS NoLostWakeup FirstFrameIsKey FramesInOrder
PROPERTIES KeyFrameGivenUpLast TagsLeaveQueue
