SPECIFICATION KernelSpec
CONSTANTS
  Module = {1, 2, 3}
  Graphs <- MCGraphs
  BootRank <- MCBootRank
  Audit = {2}
  Call = {"c", "d"}
  MaxRestarts = 1
  StopOnExhaustion = TRUE
PROPERTY StoppedTerminal
CHECK_DEADLOCK FALSE
