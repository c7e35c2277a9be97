SPECIFICATION FairSpec
CONSTANTS
  Prog <- Mixed
  TimeOutMax = 3
  TimeOutRetry = TRUE
  Retries = {TRUE, FALSE}
  Mods = {TRUE, FALSE}
  MaxChain = 2
  MaxLaunch = 1
  MaxSeq = 9
INVARIANTS UpperOutlivesRequests ClockStopsAfterOutcome
PROPERTIES RequestsEnd OutcomeReached NeverGoesBack
CHECK_DEADLOCK FALSE
