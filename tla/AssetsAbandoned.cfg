CONSTANTS
  Covers = {c1, c2}
  Logos = {l1, l2}
  Favicons = {f1}
  Reqs = {r1, r2}
SYMMETRY Symmetric
CHECK_DEADLOCK FALSE
SPECIFICATION Spec
INVARIANT NoneAbandoned
