SPECIFICATION Spec
CONSTANTS
  CharBit = 3
  MAGIC = 61
  Jobs <- MCJobs
  Members <- MCMembers
  Contents <- MCContents
INVARIANTS TypeOK CodesRight 
