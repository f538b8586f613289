SPECIFICATION Spec
CONSTANTS
  NHold = 3080
  NInput = 120
  NCoils = 64
  NDisc = 16
  Stored <- MCStored
  HostRequests <- MCHostRequests
  MaxRequests = 2
  Slots <- MCSlots
  Configured <- MCConfigured
  Sensors <- MCSensors
  Senders <- MCSenders
  Damages = {"none", "head", "byte"}
  Times <- MCTimes
  MaxFrames = 2
  MaxInputs = 3
INVARIANTS
  TypeOK
  RefusedIfAbsent
  AnswersAreTrue
  CoilsAsAsked
  RecordsShowMeasurements
  RecordsStandUnderTheirId
  NoTraceWithoutRecord
