CONSTANTS
  Media = {a}
  Files <- OnePhoto
  Packages <- OnePackage
  Reqs = {r1}
  SlowPuts = {a}
SPECIFICATION Spec
INVARIANT RemovesUnconfirmed
