\* Two calls on one handler over three hosts, under fair scheduling.
CONSTANTS
  h1 = h1
  h2 = h2
  h3 = h3
  None = None
  Hosts <- MCHosts
  d1 = d1
  hDialect = hDialect
  hCustom = hCustom
  eNet = eNet
  eAuth = eAuth
  Handlers <- MCHandlers
  Dialects = {d1}
  DialectHandler <- MCDialectHandler
  Errors = {eNet, eAuth}
  NetworkErrors <- MCNetworkErrors
  Dialect = d1
  MaxOps = 2
SPECIFICATION FairSpec
INVARIANT TypeOK
INVARIANT PriorityMatchesReference
PROPERTY ReaderWhenRequired
PROPERTY CallsReturn
