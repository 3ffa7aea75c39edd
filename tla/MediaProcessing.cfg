CONSTANTS
  Media = {v, old}
  Videos = {v}
  Legacy = {old}
  Shared = shared
  MaxJobs = 1
SPECIFICATION FairSpec
INVARIANTS TypeOK GalleryServable NoneForgotten
PROPERTIES ReadyStays ImplementsGallery MediaResolves
