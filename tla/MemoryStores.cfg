SPECIFICATION MemorySpec
CONSTANTS
  q1 = q1  q2 = q2  k1 = k1  k2 = k2
  Requests = {q1, q2}
  Keys = {k1, k2}
  Lists <- TheLists
  Window = 2  Fallback = 1  WideWindow = 2  Round = 2  MaxCandidates = 4
  MaxEntries = 2  MaxBytes = 4  TTL = 1  Budget = 2  Grace = 1  Global = 2
  MaxTime = 2  MaxFills = 4
  l1 = l1  l2 = l2  a1 = a1  m1 = m1  v1 = v1  v2 = v2  g1 = g1  r1 = r1  None = None
  Plays = {l1, l2}
  Attempts = {a1}
  Tries <- TheTries
  URLs = {v1, v2}
  Playlists = {m1, m2}
  Readers = {r1}
  Handles = {h1, h2}
  Capabilities = {g1}
  IdleTTL = 2  CatchupGrace = 1  CapabilityTTL = 2  Horizon = 3
INVARIANTS UnmarkedAnswersAreWhole FillsOwnTheirEntries GivenStaysUsable
CHECK_DEADLOCK FALSE
