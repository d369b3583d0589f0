CONSTANTS
  Public <- MCPublic
  Sym <- MCSym
  Top <- MCTop
  Functions <- MCAliases
  Starts <- MCStarts
SPECIFICATION Spec
INVARIANT SameEffect

