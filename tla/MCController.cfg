SPECIFICATION MCSpec
CONSTANTS
  i1 = i1
  i2 = i2
  i3 = i3
  Instances = {i1, i2, i3}
  SubjectOf <- MCSubjectOf
  StaticSubjects <- MCStaticSubjects
  Cadences <- MCCadences
  DefaultInterval = 1
  Window = 1
  Debounce = 1
  Sweep = 2
  Agents = {a, b}
  NoAgent = NoAgent
  PageCount = 2
  Limits = {0, 3}
  PngSize = 2
  PdfPageSize = 1
  ThumbSize = 1
  Bodies <- MCBodies
  MaxBlocks = 3
  HeaderLen = 2
  BlockHead = 2
SYMMETRY Symmetry
INVARIANTS
  RosterTypeOK OneRowPerAgent OnlineIsFresh OfflineIsSilent
  AttachTypeOK NoCarryOver AttachedAsLabelled
  BlocksTypeOK  CleanFilesExact
CHECK_DEADLOCK FALSE
