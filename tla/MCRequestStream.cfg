SPECIFICATION Spec
CONSTANTS
  MaxInlineRequest = 12
  Streams <- MCStreams
  Known <- MCKnown
  Handler <- MCHandler
  kReadChunk = 4
  kMaxInlineBuffer = 24
INVARIANTS
  BurstsDoNotMatter RepliesReadBack
CHECK_DEADLOCK FALSE
