SPECIFICATION MCConfigSpec
CONSTANTS
  s1 = s1  s2 = s2  r1 = r1  r2 = r2  p1 = p1  p2 = p2  v1 = v1  l1 = l1  Nothing = Nothing
  ServerIds = {s1, s2}
  Residents = {r1, r2}
  Prints = {p1, p2}
  Urls = {1, 2}
  Graces = {0, 3000}
  DefaultGrace = 3000
  Bodies <- TheBodies
  Viewers = {v1}
  Libraries = {l1}
  RecentLimit = 1
  MaxRevision = 2
INVARIANT GraceSurvivesRestart
CHECK_DEADLOCK FALSE
SYMMETRY IdSymmetry
