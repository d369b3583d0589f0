CONSTANTS
  Cases <- MCJumpCases
  Instructions <- MCJumps
  Here <- MCHere
SPECIFICATION Spec
INVARIANT JumpsJump
