SPECIFICATION Spec

CONSTANTS
    Frames <- PlainRequests
    MaxRequests = 2
    CrcSize = 1
    PduSizeMax = 4

INVARIANTS
    ReceivesOnlyWhileNotSending
