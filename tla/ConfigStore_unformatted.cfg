SPECIFICATION Spec
CONSTANTS
  N = 1
  HostReg0 <- MCReg0
  HostReg1 <- MCNone
  HostIds <- MCNone
  HostFlags <- MCParamFlags
  Polite = TRUE
  Formatted = {FALSE}
  MaxWrites = 2
  MaxCuts = 0
INVARIANTS ParametersAreSaved
