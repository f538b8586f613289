SPECIFICATION FairSpec
CONSTANTS
  FrameLen = 3
  Lengths = {2, 3, 5}
  Bytes = {0, 2, 4, 15}
  UInt8 = 16
  Polls = 3
INVARIANTS TypeOK HandsOverWholePackets OneFrameLostPerPacket
PROPERTIES FramesAreLostOnlyToResets KeepsPolling Recovers
