\* One caller making three wrapped calls in turn on its one connection,
\* against a host that may fail once and recover once; time runs long
\* enough for a monitor to dispose of itself between calls.
CONSTANTS
  c1 = c1
  c2 = c2
  m1 = m1
  m2 = m2
  None = None
  MaxTime = 11
  Callers <- OneCaller
  Monitors <- MCMonitors
  MaxCalls <- ThreeCalls
  MaxHostFlips = 2
  FailureDetectionTime = 1
  FailureDetectionInterval = 1
  FailureDetectionCount = 1
  MonitorDisposalTime = 2
  InactiveSleep = 1
  MinHostCheckTimeout = 2
  ProbeTimes = {1, 2}
SPECIFICATION Spec
CONSTRAINT TimeBound
SYMMETRY MonitorSymmetry
VIEW View
INVARIANT MonitoredByLiveMonitor
