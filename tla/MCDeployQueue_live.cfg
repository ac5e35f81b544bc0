SPECIFICATION FairSpec
CONSTANTS
  MaxDeploys = 2
  Projects = {p1}
  Nodes = {n1}
  Kinds = {"manual", "preview"}
  MaxCrashes = 1
  MaxDrops = 1
  MaxFailures = 1
  MaxUserOps = 0
  AcceptsBeforeResume = FALSE
PROPERTIES EveryDeploymentSettles ProjectIsReleased
