SPECIFICATION FairSpec
CONSTANTS
  g1 = g1
  c1 = c1
  c2 = c2
  Groups = {g1}
  Configs = {c1, c2}
  Handlers = {h1}
  Root = root
  Callers = {root}
  Requests <- SomeRequests
  ProviderOf <- Providers
  MaxTries = 2
  NoFailure = NoFailure
  NoGroup = NoGroup
  Free = Free
  NoWork = NoWork
  NoSignal = NoSignal
INVARIANTS InForceWasAccepted FailureIsRegression ReportedWasWritten CustomerIsBlamed
PROPERTIES VersionLearns
