SPECIFICATION FairSpec
CONSTANTS
  Configs <- SomeConfigs
  Horizon = 3
  NextPolls = {1, 2}
  Unset = Unset
  NotAsked = NotAsked
INVARIANTS PlannedIsAsked
PROPERTIES ApproachesBounds ScaleUpsAreSpaced MissesHoldWorkers IdleReachesMin LoadGetsWorkers InactiveIsReleased
