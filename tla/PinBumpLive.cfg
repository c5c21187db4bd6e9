CONSTANTS
  Revisions = {1, 2}
  Heads = {1, 2}
  Before <- OneStep
  FirstPin = 1
  NoRevision = 0
  Runs = {a, b}
  MaxChecks = 1
  MaxCommits = 2
  DispatchRefs = {}
  Failures = FALSE
SPECIFICATION FairSpec
PROPERTIES
  IssueClosesItself
  BehindIsTracked
CHECK_DEADLOCK FALSE
