SPECIFICATION FairSpec
CONSTANTS
  s1 = s1
  s2 = s2
  Signals = {s1, s2}
  MaxPending = 3
  MaxChannel = 2
  BatchSize = 2
  MaxPollInterval = 2
  PollIntervals = {1}
  ValidationInterval = 3
  HistoryLimit = 5
  NoPollTime = NoPollTime
INVARIANTS PollWaitBounded BatchKeepsSignals TimersArmedOnce
PROPERTIES ImplementsQueue DuePollRuns
