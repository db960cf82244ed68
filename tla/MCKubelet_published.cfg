CONSTANTS
  None = None
  NoID = NoID
  ImageManager = ImageManager
  ContainerCleaner = ContainerCleaner
  i1 = i1
  v1 = v1
  m1 = m1
  Images = {i1}
  ImageIDs = {a}
  Containers = {c1, c2, o}
  OldContainers = {o}
  Descriptions = {a}
  Volumes = {v1}
  Calls = {k1}
  Mutexes = {m1}
  MutexOf <- OneMutex
  ImageOf <- OneImage
  Txns <- MCTxns
SPECIFICATION KubeletSpec
PROPERTIES RetiredContainersAreCollected RepeatedPublishesMount
INVARIANT ServingContainersAreSound
