SPECIFICATION Spec
CONSTANTS
  Sources <- FrontSources
  Runs <- FrontRuns
  MaxLevel <- FrontMaxLevel
  MaxInc <- FrontMaxInc
  MaxStack = 20
  MaxArgs = 128
INVARIANTS TypeOK TextRight FaultsTold LinesTold CodeRight
