SPECIFICATION Spec
CONSTANTS
  baseA = baseA  wildA = wildA  baseTXT = baseTXT  baseCNAME = baseCNAME
  v1 = v1  v2 = v2
  c1 = c1  c2 = c2  c3 = c3  c4 = c4
  qA = qA  qTXT = qTXT
  f1 = f1  f2 = f2  f3 = f3
  Keys = {baseA, wildA, baseTXT}
  Values = {v1, v2}
  Cells = {c1, c2, c3, c4}
  Queries = {qA, qTXT}
  Lookups <- MCLookups
  Unsupported = {qTXT}
  Encodable = {v1}
  Files = {f1, f2, f3}
  FileAdds <- MCFileAdds
  FileOutcome <- MCFileOutcome
  AllocMayFail = TRUE
  NULL = NULL
SYMMETRY CellSymmetry
INVARIANTS TypeOK MutexDiscipline NoDanglingPointer NoLeak
PROPERTY FrozenWhileAnswering
