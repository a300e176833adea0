\* A clock of 16 stamps, which comes round while the timers run.  The
\* executor may be late by a whole Slap.
SPECIFICATION Spec
CONSTANTS
  Half = 8
  Interval = 2
  Slap = 3
  NoDelay = TRUE
  MinRto = 2
  FastResend = 1
  IKCP_RTO_DEF = 4
  IKCP_RTO_MAX = 5
  IKCP_PROBE_INIT = 2
  IKCP_PROBE_LIMIT = 2
  Jitter = 3
  StartTime <- LateStarts
  MaxTime = 22
  MaxSegments = 2
INVARIANTS
  TypeOK
  FlushedOnTime
  ResentOnTime
  ProbedOnTime
  EstimateIsTrue
PROPERTIES
  NotResentEarly
\* The clock stops at MaxTime.
CHECK_DEADLOCK FALSE
