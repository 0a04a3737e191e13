SPECIFICATION StoresSpec
CONSTANTS
  a1 = a1  a2 = a2  p1 = p1  p2 = p2
  Blank = Blank  None = None
  Accounts <- TheAccounts
  Plays <- ThePlays
  Handlers <- TheHandlers
  Thresholds = {1}  DefaultMin = 1
  Positions = {0, 1, 4}
  MaxSessions = 1  MaxSampleGap = 2  SeekFactor = 2  SeekSlack = 1  Refresh = 2  PersistInterval = 2
  TTL = 3  Cycle = 4  MaxTime = 4  MaxEvents = 3  MaxRevision = 3
  t1 = t1  t2 = t2  x1 = x1  x2 = x2  x3 = x3  y1 = y1  u1 = u1  Nil = Nil
  Themes = {t1, t2}
  Versions = {x1, x2, x3, y1}
  Owner <- TheOwner
  Bytes <- OneByteEach
  Members = {u1}
  Builtin = Builtin  Site = Site
  MaxThemes = 2  MaxThemeBytes = 3  MaxThemeRevision = 5  MaxLosses = 1
INVARIANTS CreditIsElapsedTime NoWriteForgotten ViewSpeaksOfAccount FormsFollowTheAccount NoRowWithoutFiles SelectionsResolve
PROPERTIES PublishedStays
CHECK_DEADLOCK FALSE
