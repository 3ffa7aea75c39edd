CONSTANTS
  Media = {a, b}
  Files <- OneVideo
  Packages <- OnePackage
  Reqs = {r1}
  SlowPuts = {a}
SPECIFICATION FairSpec
PROPERTY PendingResolves
