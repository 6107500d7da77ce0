SPECIFICATION Spec
CONSTANTS
  Name = {"scalar", "avx2", "sve", "bare"}
  Kind = {"qemu", "sde"}
  NoRunner = "none"
  Compiler = {"c++", "cross"}
  Scenarios <- Everything
  MaxBinaries = 2
CHECK_DEADLOCK FALSE
INVARIANTS
  AcceptedTestsRan
  AcceptedBuildsAreComplete
  AcceptedRunsAreAttested
