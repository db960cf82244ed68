CONSTANTS
  None = None
  NoID = NoID
  ImageManager = ImageManager
  ContainerCleaner = ContainerCleaner
  i1 = i1
  v1 = v1
  v2 = v2
  m1 = m1
  m2 = m2
  Images = {i1, i2}
  ImageIDs = {a}
  Containers = {c1, c2}
  OldContainers = {}
  Descriptions = {a}
  Volumes = {v1, v2}
  Calls = {k1}
  Mutexes = {m1, m2}
  MutexOf <- OwnMutex
  ImageOf <- OneImage
  Txns <- MCTxns
SYMMETRY VolumeSymmetry
SPECIFICATION filesSpec
INVARIANTS RecordedContainersSurvive BoundVolumesAreRecorded
PROPERTIES ConflictMeansUpdate PublishedIsReadOnly
