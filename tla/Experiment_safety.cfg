\* Every graph and every random choice of a sample of four processes with two
\* peers each, and of a series of smaller ones, with and without faults, and
\* with and without logs of an earlier invocation.
SPECIFICATION ExperimentSpec
CONSTANTS
  Arguments <- MCArguments
  Plans <- MCPlans
  FaultSets = {{}, {"fails", "stoptime"}}
  Earlier = {0, 3}
INVARIANTS
  RewiredStaysReachable
  ConfigsAreDeployable
  NoSampleFails
  RowIsBacked
\* The scripts return.
CHECK_DEADLOCK FALSE
