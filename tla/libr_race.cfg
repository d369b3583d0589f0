SPECIFICATION Spec
CONSTANTS
  NONE = NONE
  NoFile = NONE
  Names <- MCNames
  Fold <- MCFold
  Objects <- MCObjects
  Directories <- RaceDirectories
  Versions <- RaceVersions
  Commands <- RaceCommands
  Word = 100
  MaxSyms = 3
  MaxEdits = 1
  MaxRuns = 2
INVARIANTS TypeOK 
PROPERTY Terminates
