SPECIFICATION Spec
CONSTANTS
  NHold = 3080
  NInput = 120
  NCoils = 64
  NDisc = 16
  Stored <- MCStored
  HostRequests <- NoRequests
  MaxRequests = 0
  Slots <- OneSlot
  Configured <- OneConfigured
  Sensors <- Temperatures
  Senders <- OneSender
  Damages = {"none"}
  Times <- OneTime
  MaxFrames = 1
  MaxInputs = 1
INVARIANT TenthsBelowZero
