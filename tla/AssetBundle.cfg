\* The build ends.
CHECK_DEADLOCK FALSE
SPECIFICATION Spec
CONSTANTS
  Services = {"web", "db"}
  Files = {"page", "image"}
  Folders = {"folder"}
  Places <- FewPlaces
INVARIANTS
  TypeOK
  KeptFilesAreBundled
  InventoryMatchesArchive
  MembersWereThere
PROPERTY
  BundlingEnds
