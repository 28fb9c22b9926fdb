SPECIFICATION Spec
CONSTANTS
  baseA = baseA  wildA = wildA  baseTXT = baseTXT  baseCNAME = baseCNAME
  v1 = v1  v2 = v2
  c1 = c1  c2 = c2  c3 = c3  c4 = c4
  qA = qA  qTXT = qTXT
  f1 = f1  f2 = f2  f3 = f3
  Keys = {baseA, baseCNAME}
  Values = {v1, v2}
  Cells = {c1, c2, c3, c4}
  Queries = {qA}
  Lookups <- MCConflictLookups
  Unsupported = {}
  Encodable = {v1, v2}
  Files = {f1, f2}
  FileAdds <- MCConflictAdds
  FileOutcome <- MCConflictOutcome
  AllocMayFail = FALSE
  NULL = NULL
SYMMETRY CellSymmetry
INVARIANT CnameExclusive
