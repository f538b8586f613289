SPECIFICATION FairSpec
CONSTANTS
  N = 1
  Word = 2
  Overtime = 2
  Devices = {1}
  IdWords = {0, 1}
  TimerOutcomes = {TRUE, FALSE}
  MaxTicksPerPass = 1
  MaxTicksPerSave = 1
  MaxPackets = 3
INVARIANTS TypeOK SavesUnderItsId LaunchNeverOvercounts BoundedStaleness
PROPERTIES SilentSlotsExpire
