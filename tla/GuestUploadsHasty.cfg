CONSTANTS
  Media = {a}
  Files <- OnePhoto
  Packages <- OnePackage
  Reqs = {r1}
  SlowPuts = {}
SPECIFICATION Spec
INVARIANT DeletesFiles
