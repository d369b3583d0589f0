CONSTANTS
  Cases <- MCCases
  Instructions <- MCInstructions
  Here <- MCHere
SPECIFICATION Spec
INVARIANTS TypeOK MeansWhatItSays EveryInstruction
