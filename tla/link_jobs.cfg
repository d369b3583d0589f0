CONSTANTS
  a = a
  b = b
  code = code
  data = data
  ov = ov
  loc = loc
  cls = cls
  cls2 = cls2
  le = le
  be = be
  c1 = c1
  c2 = c2
  c3 = c3
  c4 = c4
  c5 = c5
  c6 = c6
  c7 = c7
  c8 = c8
  c9 = c9
  c10 = c10
  c11 = c11
  c12 = c12
  c13 = c13
  Abs = Abs
  NoName = NoName
  NoOrder = NoOrder
  UserSyms <- MCSyms
  PsectNames <- MCPsects
  ClassNames <- MCClasses
  Orders <- MCOrders
  Jobs <- LinkJobs
  MaxSymbols = 18
  MaxPsects = 8
  MaxFiles = 256
  FieldMax = 65535
SPECIFICATION Spec
INVARIANTS TypeOK TableCounts PassesAgree TextPlaced AddressesFollowText DoneMeansGood
PROPERTIES  Terminates
