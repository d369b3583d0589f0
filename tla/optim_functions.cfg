CONSTANTS
  Public <- MCPublic
  Sym <- MCSym
  Top <- MCTop
  Functions <- MCFunctions
  Starts <- MCStarts
SPECIFICATION Spec
INVARIANTS TypeOK LabelsKept SameEffect Ends

