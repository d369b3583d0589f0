CONSTANTS
  Commands <- AllCommands
  Disks <- MCDisks
SPECIFICATION Spec
INVARIANTS TypeOK BuiltFromSources ExitTellsAll CleansUp
PROPERTIES Terminates
