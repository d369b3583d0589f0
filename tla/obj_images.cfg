SPECIFICATION Spec
CONSTANTS
  Byte = 16
  Nibble = 4
  BlkSize = 16
  Limit = 1024
  Line = 8
  AsmLine = 2
  relocSegName = "__Lbss"
  Names = {"__Lbss", "s", "t"}
  Jobs <- MCJobs
INVARIANTS TypeOK ImageFaithful WorkFilesGone
PROPERTY Terminates
