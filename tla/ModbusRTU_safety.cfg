SPECIFICATION FairSpec

CONSTANTS
    Frames <- AllKinds
    MaxRequests = 3
    CrcSize = 1
    PduSizeMax = 4

INVARIANTS
    TypeOK
    MachinesAgree
    PatientMasterIsSafe
    ExecutesWhatWasAsked

PROPERTIES
    RequestsAreAnswered
    ListensAgain
    ImplementsRequestAnswer
