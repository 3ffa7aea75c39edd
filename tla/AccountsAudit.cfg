CONSTANTS
  Users = {root}
  Admins = {root}
  Passwords = {p}
  Tokens = {t}
  Reqs = {r}
CHECK_DEADLOCK FALSE
SPECIFICATION Spec
INVARIANT AuditTrue
