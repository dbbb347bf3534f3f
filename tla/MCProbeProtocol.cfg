SPECIFICATION Spec
CONSTANTS
  Objects <- MCObjects
  Probes <- MCProbes
  ProbeOf <- MCProbeOf
  Needs <- MCNeeds
  Skipped <- MCSkipped
  MaxQueries = 3
INVARIANTS
  ReplyMatches
  TreesExclusive
PROPERTY
  Answered
CHECK_DEADLOCK FALSE
