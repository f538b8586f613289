SPECIFICATION Spec
CONSTANTS
  N = 1
  Word = 8
  Overtime = 2
  Devices = {1}
  IdWords = {1}
  TimerOutcomes = {TRUE}
  MaxTicksPerPass = 1
  MaxTicksPerSave = 0
  MaxPackets = 2
PROPERTIES ClearsOnlyExpired
