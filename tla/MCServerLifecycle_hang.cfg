SPECIFICATION PoliteSpec
CONSTANTS
  good = good  bad = bad
  Clients = {good, bad}
  Requests <- MCRequests
  SignalTargets = {"mgmt"}
  MaxSignals = 1
  MaxDatagrams = 2
  NULL = NULL
PROPERTY SignalEndsProcess
CHECK_DEADLOCK FALSE
