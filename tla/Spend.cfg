SPECIFICATION Spec
CONSTANTS
    FIELD_PRIME = 43
    GROUP_ORDER = 31
    WORD_BYTES = 2
    DIGEST_VALUES = 40
    BASE_POINT <- MCBasePoint
    MUL_OPERAND_MAX_BYTES = 1
    MUL_ACCUMULATOR_MAX_BYTES = 1
    DIV_NUMERATOR_MAX_BYTES = 1
    DIV_DIVISOR_MAX_BYTES = 2
    INDEX_MAX_BYTES = 1
    SHIFT_COUNT_MAX_MAGNITUDE = 8
    HASH_SIZE = 2
    OUTPOINT_SIZE = 3
    SIG_SIGNATURE_SIZE = 4
    MAX_SCRIPT_PUBKEY_SIZE = 5
    MAX_MESSAGE_SIZE = 2
    MAX_MONEY = 300
    UINT32_MAX = 15
    LOCKTIME_THRESHOLD = 8
    LOCKTIME_MAX = 15
    SEQUENCE_VALUE_MAX = 3
    SEQUENCE_FINAL = 15
    SEQUENCE_DISABLE_FLAG = 8
    SEQUENCE_TYPE_FLAG = 4
    SEQUENCE_VALUES = 4
    NotBitLisp = NotBitLisp
    NoBudget = NoBudget
    Undeserializable = Undeserializable
    TaprootScript <- MCTaprootScript
    Verifies <- MCVerifies
    Nodes <- MCNodes
    Programs <- MCPrograms
    Envs <- MCEnvs
    Budgets <- MCBudgets
    Contexts <- MCContexts
    Indexes <- MCIndexes
    Fuel <- MCFuel
PROPERTIES
    IsAtomic
    BudgetOnlyCuts
    OnlySignersPass
CHECK_DEADLOCK FALSE
