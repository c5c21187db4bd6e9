CONSTANTS
  Revisions = {1, 2, 3}
  Heads = {1, 2}
  Before <- TwoSteps
  FirstPin = 1
  NoRevision = 0
  Runs = {a, b}
  MaxChecks = 1
  MaxCommits = 2
  DispatchRefs = {"main", "work"}
  Failures = TRUE
SYMMETRY AnyRun
SPECIFICATION Spec
INVARIANTS
  ProposalWasProven
  OneIssue
PROPERTIES
  HumanWorkIsKept
  PinMovesForward
CHECK_DEADLOCK FALSE
