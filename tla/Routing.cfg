SPECIFICATION Spec
CONSTANTS
  workflow = workflow
  activity = activity
  a = a
  b = b
  c = c
  east = east
  south = south
  west = west
  GroupKeys = {a, b, c}
  ScalableTypes = {workflow, activity}
  Unspecified = Unspecified
  RegionIds = {east, west, NoRegion}
  Regions = {east, west, south, NoRegion}
  NoRegion = NoRegion
  Requests <- AllRequests
  NoGroup = NoGroup
INVARIANTS RoutingIsUnique EffectiveTypesFollowRouting EveryGroupServes
PROPERTIES FailoverKeepsService UpdateMovesOnlyItsGroups
SYMMETRY Symmetry
