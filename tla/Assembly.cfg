SPECIFICATION Spec
CONSTANTS
    MAX_MONEY = 20
    UINT32_MAX = 15
    LOCKTIME_THRESHOLD = 8
    SEQUENCE_FINAL = 15
    SEQUENCE_DISABLE_FLAG = 8
    SEQUENCE_TYPE_FLAG = 4
    SEQUENCE_VALUES = 4
    NotBitLisp = NotBitLisp
    TaprootScript <- MCTaprootScript
    Verifies <- MCVerifies
    Offers <- MCOffers
    NewConditions <- MCNewConditions
    NewSlots <- MCNewSlots
    NewInputs <- MCNewInputs
    MaxEdits = 2
INVARIANTS
    AgreesWithRules
PROPERTIES
    CompositionGuarantee
    SealedMergeIsRejected
    OrderIsIrrelevant
    ConditionsOnlyTighten
CHECK_DEADLOCK FALSE
