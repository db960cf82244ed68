CONSTANTS
  None = None
  NoID = NoID
  ImageManager = ImageManager
  Images = {i1}
  ImageIDs = {a}
  Containers = {c1, c2}
  Descriptions = {a, None}
  Volumes = {}
  Txns = {ImageManager}
  Catalogs = {tools, more}
  DontNeedImageUpdates = {more}
  NeverPull = FALSE
  MaxRetries = 1
  Steady = {i1}
SPECIFICATION SteadySpec
PROPERTY SteadyImagesStayServed
