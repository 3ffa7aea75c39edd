CONSTANTS
  Users = {root, admin, host}
  Admins = {root, admin}
  Passwords = {p, q}
  Tokens = {t, u}
  Reqs = {r1, r2}
SYMMETRY Symmetric
CHECK_DEADLOCK FALSE
SPECIFICATION Spec
INVARIANTS TypeOK SessionsEarned AdminsRemain
