CONSTANTS
  alpha = alpha
  beta = beta
  data = data
  Syms = {alpha, beta}
  Psects = {data}
  Abs = Abs
  None = None
  Programs <- MCPrograms
  Reach = 8
  Half = 64
  MaxTmp = 2
  MaxJumps = 3
  TextCap = 4
  RelocCap = 1
  MaxErrors = 3
SPECIFICATION Spec
INVARIANTS TypeOK RecordsAsEmitted LabelsLand PlainAssembles
