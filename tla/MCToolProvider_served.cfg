CONSTANTS
  None = None
  NoID = NoID
  ImageManager = ImageManager
  ContainerCleaner = ContainerCleaner
  i1 = i1
  v1 = v1
  v2 = v2
  m1 = m1
  m2 = m2
  Images = {i1}
  ImageIDs = {a, b}
  Containers = {c1, c2, c3}
  OldContainers = {}
  Descriptions = {a, b}
  Volumes = {}
  Calls = {}
  Mutexes = {m1}
  MutexOf <- SharedMutex
  ImageOf <- OneImage
  Txns <- MCTxns
SPECIFICATION ServingSpec
PROPERTIES CatalogIsServed
