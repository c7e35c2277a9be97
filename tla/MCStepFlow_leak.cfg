SPECIFICATION FairSpec
CONSTANTS
  Prog <- Linear
  TimeOutMax = 3
  TimeOutRetry = TRUE
  Retries = {TRUE}
  Mods = {FALSE}
  MaxChain = 2
  MaxLaunch = 1
  MaxSeq = 8
PROPERTIES FlowsEnd
CHECK_DEADLOCK FALSE
