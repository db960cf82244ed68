CONSTANTS
  None = None
  Images = {i1}
  ImageIDs = {a, b}
  Catalogs = {tools, more}
  DontNeedImageUpdates = {more}
  NeverPull = FALSE
  MaxRetries = 2
SPECIFICATION FairSpec
INVARIANTS TypeOK StaleCatalogsAreNoticed
PROPERTIES LatestImagesArePublished RetriesEnd
