SPECIFICATION Spec
CONSTANTS
  MaxDeploys = 2
  Projects = {p1}
  Nodes = {n1}
  Kinds = {"manual", "auto", "dev"}
  MaxCrashes = 1
  MaxDrops = 0
  MaxFailures = 1
  MaxUserOps = 1
  AcceptsBeforeResume = FALSE
CONSTRAINTS ManualThenOther OneEventBesideDev
INVARIANTS TypeOK LoneActive CancelReachesBuild  NodeExclusion ProjectFollowsRow
