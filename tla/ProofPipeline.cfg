CONSTANTS
    Rooms <- MCRooms
    Image <- MCImage
    Requests <- MCRequests
    Crafted <- MCCrafted
    Colds <- MCColds
    Strays <- MCStrays
    FirstHeights <- MCFirstHeights
    Closings <- MCClosings
    ModesOf <- MCModesOf
    Window = 2
    MaxWord = 7
    MaxSize = 2
    MaxNow = 3
    MaxPrepared = 1
    MaxReceipts = 5
    MaxSettled = 2
    Prime = 13
    Omega = 5
    Fields = 4
    BytesPerField = 2
    ByteBase = 2
    MaxBlobs = 2
    MaxMembers = 2
SPECIFICATION Spec
INVARIANTS
    VerifiedWasChecked
    GuestAgrees
    NoLateAdmission
    PreparedContinues
    BlobsCarryData
    CommitmentsBind
    BlobsFaithful
CHECK_DEADLOCK FALSE
