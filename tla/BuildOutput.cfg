SPECIFICATION Spec
CONSTANTS
  Artifacts <- TwoArtifacts
  Timed = {"changes.json"}
  Verdict <- Verdicts
  Heads = {"usable", "foreign"}
  MaxBuilds = 3
  MaxEdits = 2
INVARIANTS TypeOK CompleteWhenOk GoodOutputKept OnlyAcceptedModels CleanBuildRecovers
PROPERTIES EveryBuildEnds
CHECK_DEADLOCK FALSE
