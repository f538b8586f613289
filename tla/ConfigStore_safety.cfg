SPECIFICATION FairSpec
CONSTANTS
  N = 2
  HostReg0 <- MCReg0
  HostReg1 <- MCReg1
  HostIds <- MCIds
  HostFlags <- MCFlags
  Polite = TRUE
  Formatted = {TRUE, FALSE}
  MaxWrites = 5
  MaxCuts = 2
INVARIANTS TypeOK RebootKeepsConfiguration RegistersShowConfiguration AskedIdsAreStored SlaveStarts
PROPERTIES RequestsAreAcknowledged ImplementsDurableConfig
