SPECIFICATION MCSpec
CONSTANTS
  MaxActs = 3
  MaxCalls = 2
  MaxUploads = 1
  FileTrouble = 1
  File = {1, 2, 3}
  InFolder = {1, 2}
  Corrupt = {1}
  FileStem <- MCFileStem
  FileName <- MCFileName
  FolderName <- MCFolderName
  ArchiveName <- MCArchiveName
  Selections = {{1, 2}, {3}, {}}
  MaxSteps = 9
  MaxBuilds = 2
  BuildTrouble = 1
CHECK_DEADLOCK FALSE
INVARIANT FilesInv
INVARIANT DialogInv
PROPERTY DeletesChosen
PROPERTY FilesStayListed
