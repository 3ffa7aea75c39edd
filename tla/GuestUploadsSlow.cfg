CONSTANTS
  Media = {a}
  Files <- OnePhoto
  Packages <- OnePackage
  Reqs = {r1}
  SlowPuts = {a}
SPECIFICATION Spec
PROPERTY RemovesAbandoned
