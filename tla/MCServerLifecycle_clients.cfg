SPECIFICATION LiveSpec
CONSTANTS
  good = good  bad = bad
  Clients = {good, bad}
  Requests <- MCRequests
  SignalTargets = {"main", "mgmt"}
  MaxSignals = 1
  MaxDatagrams = 2
  NULL = NULL
INVARIANTS TypeOK NoDescriptorLeak
PROPERTIES QueriesServed RequestsServed ShutdownCompletes
\* A client that never sends, or a signal in the wrong place, can stop it.
CHECK_DEADLOCK FALSE
