SPECIFICATION Spec
CONSTANTS
  Objects <- MCObjects
  Probes <- MCProbes
  ProbeOf <- MCProbeOf
  Needs <- MCNeeds
  Skipped <- MCSkipped
  MaxQueries = 3
INVARIANT
  CommandTableExclusive
CHECK_DEADLOCK FALSE
