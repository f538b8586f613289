SPECIFICATION Spec
CONSTANTS
  N = 1
  HostReg0 <- MCReg0
  HostReg1 <- MCReg1
  HostIds <- MCNone
  HostFlags <- MCFlags
  Polite = TRUE
  Formatted = {TRUE}
  MaxWrites = 3
  MaxCuts = 1
INVARIANTS OvertimeOfFileIsUsed
