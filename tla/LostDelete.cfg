SPECIFICATION Spec
CONSTANTS
  h1 = h1
  h2 = h2
  t1 = t1
  g1 = g1
  rate = rate
  noSync = noSync
  bad = bad
  Groups = {g1}
  RateConfigs = {}
  NoSyncConfigs = {noSync}
  InvalidConfigs = {bad}
  TaskAdds <- NoSyncMatch
  Requests <- EndingRequests
  Handlers = {h1, h2}
  Tokens = {t1}
  MaxCount = 1
  MaxPending = 1
  MaxChannel = 0
  NoGroup = NoGroup
  NoStatus = NoStatus
  NoCount = NoCount
  NilMap = NilMap
  NoToken = NoToken
  NoHandler = NoHandler
  NoRequest = NoRequest
  NoAction = NoAction
  NoSignal = NoSignal
PROPERTY DeletedInstanceEnds
