SPECIFICATION KernelFairSpec
CONSTANTS
  Module = {1, 2, 3}
  Graphs <- MCGraphs
  BootRank <- MCBootRank
  Audit = {2}
  Call = {"c"}
  MaxRestarts = 1
  StopOnExhaustion = TRUE
PROPERTY BootEnds
CHECK_DEADLOCK FALSE
