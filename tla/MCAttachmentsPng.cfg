SPECIFICATION AttachSpec
CONSTANTS
  Agents = {a}
  NoAgent = NoAgent
  PageCount = 2
  Limits = {0, 3}
  PngSize = 2
  PdfPageSize = 1
  ThumbSize = 1
INVARIANTS AnyPageAttachable
CHECK_DEADLOCK FALSE
