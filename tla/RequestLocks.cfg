CONSTANTS
  h1 = h1
  n1 = n1
  n2 = n2
  Handlers = {h1}
  Notices = {n1, n2}
SPECIFICATION FairSpec
INVARIANT TypeOK
PROPERTIES StandstillStays RequestsEnd
