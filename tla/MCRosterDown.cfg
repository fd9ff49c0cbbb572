SPECIFICATION RosterSpec
CONSTANTS
  i1 = i1
  i2 = i2
  i3 = i3
  Instances = {i1}
  SubjectOf <- MCSubjectOf
  StaticSubjects <- MCStaticSubjects
  Cadences <- MCCadences
  DefaultInterval = 1
  Window = 2
  Debounce = 1
  Sweep = 3
INVARIANTS
  DiscoveredOnlyWhileConnected
CHECK_DEADLOCK FALSE
