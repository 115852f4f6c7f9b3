SPECIFICATION Spec
CONSTANTS
  Start = Start
  Req = Req
  t1 = t1
  t2 = t2
  k1 = k1
  k2 = k2
  v1 = v1
  v2 = v2
  none = none
  AllKinds = AllKinds
  Kinds <- MCKinds
  Times <- MCTimes
  Windows <- MCWindows
  DayTicks = 6
  SecTicks = 3
  LineMax = 9
  FileMax = 2
  DirMax = 44
  PruneMin = 11
  MaxLines = 10
  IniThreads <- MCThreads
  Keys <- MCKeys
  Values <- MCValues
  Absent = none
  Default = v1
SYMMETRY Symmetry
INVARIANTS
  LogTypeOK FileBounded QueryComplete QueryOrder
  IniTypeOK NeverStale SettingsKept DefaultsYield
  RoundTrip WholeCode
PROPERTIES
  LinesKept DirBounded
CHECK_DEADLOCK FALSE
