CONSTANTS
  Jobs = {j1, j2}
  Media = {a, b}
  Selections = {{a}}
SPECIFICATION FairSpec
INVARIANTS TypeOK OfferedServable ExpiredGone
PROPERTIES OfferLasts ArchiveResolves
