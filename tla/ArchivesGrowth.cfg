CONSTANTS
  Jobs = {j1}
  Media = {a}
  Selections = {{}, {a}}
SPECIFICATION Spec
INVARIANT NoZipLeft
