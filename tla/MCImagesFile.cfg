CONSTANTS
  Words <- MCWords
  ImageNames <- MCImageNames
  Outputs <- MCOutputs
  CatalogNames <- MCCatalogNames
  ImageIDs = {"a"}
SPECIFICATION FileSpec
INVARIANTS ListedImagesAreRead ImageIDsAreReadBack
PROPERTY OnlyChangesAreWritten
