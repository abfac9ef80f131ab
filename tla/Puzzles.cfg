SPECIFICATION Spec
CONSTANTS
    MAX_MONEY = 20
    UINT32_MAX = 15
    LOCKTIME_THRESHOLD = 8
    SEQUENCE_FINAL = 15
    SEQUENCE_DISABLE_FLAG = 8
    SEQUENCE_TYPE_FLAG = 4
    SEQUENCE_VALUES = 4
    NotBitLisp = NotBitLisp
    NoKey = NoKey
    NoHash = NoHash
    TaprootScript <- MCTaprootScript
    Verifies <- MCVerifies
    Instances <- MCInstances
    Orders <- MCOrders
    Fundings <- MCFundings
    MaxDelay = 3
    Launchers <- MCLaunchers
    Inners <- MCInners
    Handovers <- MCHandovers
    PublicLists <- MCPublicLists
    Payments <- MCPayments
    MaxIndex = 2
    MaxInputs = 3
    MaxHeight = 3
    MaxSigned = 2
INVARIANTS
    EveryCoinIsRecoverable
PROPERTIES
    ValueIsKept
    TriggersAreSigned
    LineageIsKept
CHECK_DEADLOCK FALSE
