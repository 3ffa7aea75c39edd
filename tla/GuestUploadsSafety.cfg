CONSTANTS
  Media = {a, b}
  Files <- OnePhoto
  Packages <- BothPackages
  Reqs = {r1, r2}
  SlowPuts = {}
SYMMETRY Symmetric
SPECIFICATION Spec
INVARIANTS TypeOK WithinPackage UploadedVerified ToldKept NoOrphans
PROPERTY ImplementsLedger
