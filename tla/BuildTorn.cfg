SPECIFICATION Spec
CONSTANTS
  Artifacts <- TwoArtifacts
  Timed = {"changes.json"}
  Verdict <- Verdicts
  Heads = {"usable"}
  MaxBuilds = 2
  MaxEdits = 1
INVARIANT BuildFollowsCheck
CHECK_DEADLOCK FALSE
