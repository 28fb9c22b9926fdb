SPECIFICATION LiveSpec
CONSTANTS
  baseA = baseA  wildA = wildA  baseTXT = baseTXT  baseCNAME = baseCNAME
  v1 = v1  v2 = v2
  c1 = c1  c2 = c2  c3 = c3  c4 = c4
  qA = qA  qTXT = qTXT
  f1 = f1  f2 = f2  f3 = f3
  Keys = {baseA, baseTXT}
  Values = {v1}
  Cells = {c1, c2}
  Queries = {qA, qTXT}
  Lookups <- MCLiveLookups
  Unsupported = {qTXT}
  Encodable = {v1}
  Files = {f1, f2, f3}
  FileAdds <- MCLiveAdds
  FileOutcome <- MCFileOutcome
  AllocMayFail = TRUE
  NULL = NULL

PROPERTIES QueryAnswered CommandAnswered ShutdownCompletes
