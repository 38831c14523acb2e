SPECIFICATION FairSpec
CONSTANTS
  workflow = workflow
  activity = activity
  QueueTypes = {workflow, activity}
  Rates = {0, 10, 11, 12}
  Loads <- SomeLoads
  Configs <- SomeConfigs
  MinPoll = 2
  MaxPoll = 3
  Horizon = 3
  NotSteady = NotSteady
  NoRate = NoRate
INVARIANTS SuppressedIsSteady
PROPERTIES EngagesAfterWindow InvocationsAreSpaced BacklogIsRefreshed StalledBacklogIsServed
