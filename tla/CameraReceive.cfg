CONSTANTS
  FLV_HEADER_BYTES = 2
  TAG_HEADER_SIZE = 2
  MaxData = 3
  MaxTags = 3
SPECIFICATION FairSpec
CHECK_DEADLOCK FALSE
INVARIANTS TypeOK TagsCutRight BlockedOnlyAfterHeader
PROPERTY WholeTagsReceived
