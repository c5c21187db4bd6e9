CONSTANTS
  Revisions = {1, 2}
  Heads = {1, 2}
  Before <- OneStep
  FirstPin = 1
  NoRevision = 0
  Runs = {a, b}
  MaxChecks = 2
  MaxCommits = 2
  DispatchRefs = {}
  Failures = FALSE
SPECIFICATION Spec
PROPERTIES ClosedMeansCaughtUp
CHECK_DEADLOCK FALSE
