\* Two callers with one wrapped call each, against one host that may fail
\* once and recover once.  A status check takes 1 or 2 ticks, so a failed
\* check can end after the grace period though it started inside it.
CONSTANTS
  c1 = c1
  c2 = c2
  m1 = m1
  m2 = m2
  None = None
  MaxTime = 8
  Callers <- MCCallers
  Monitors <- MCMonitors
  MaxCalls <- OneCallEach
  MaxHostFlips = 2
  FailureDetectionTime = 1
  FailureDetectionInterval = 1
  FailureDetectionCount = 1
  MonitorDisposalTime = 2
  InactiveSleep = 1
  MinHostCheckTimeout = 2
  ProbeTimes = {1, 2}
SPECIFICATION Spec
CONSTRAINT TimeBound
SYMMETRY Symmetry
VIEW View
INVARIANT TypeOK
INVARIANT GraceRespected
PROPERTY ContextRefinement
