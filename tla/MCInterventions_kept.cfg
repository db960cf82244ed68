CONSTANTS
  None = None
  NoID = NoID
  ImageManager = ImageManager
  ContainerCleaner = ContainerCleaner
  i1 = i1
  v1 = v1
  m1 = m1
  c1 = c1
  c2 = c2
  c3 = c3
  Images = {i1}
  ImageIDs = {a}
  Containers = {c1, c2}
  OldContainers = {}
  Descriptions = {a}
  Volumes = {v1}
  Calls = {k1}
  Mutexes = {m1}
  MutexOf <- OneMutex
  ImageOf <- OneImage
  Txns <- MCTxns
  MaxDeletes = 1
SPECIFICATION InterventionsSpec
INVARIANT StoreStaysConsistent
PROPERTIES RecordedContainersStay OnlyPowerLossesDisconnect
SYMMETRY Symmetry
