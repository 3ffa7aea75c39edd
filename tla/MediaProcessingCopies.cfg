CONSTANTS
  Media = {v}
  Videos = {v}
  Legacy = {}
  Shared = shared
  MaxJobs = 1
SPECIFICATION Spec
INVARIANT CopiesRemoved
