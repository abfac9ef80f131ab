SPECIFICATION Spec
CONSTANTS
    FIELD_PRIME = 43
    GROUP_ORDER = 31
    WORD_BYTES = 1
    DIGEST_VALUES = 40
    BASE_POINT <- MCBasePoint
    MUL_OPERAND_MAX_BYTES = 1
    MUL_ACCUMULATOR_MAX_BYTES = 1
    DIV_NUMERATOR_MAX_BYTES = 1
    DIV_DIVISOR_MAX_BYTES = 2
    INDEX_MAX_BYTES = 1
    SHIFT_COUNT_MAX_MAGNITUDE = 8
    Reserved <- MCReserved
    ConditionConstants <- MCConditionConstants
    INLINE_DEPTH_LIMIT = 3
    INLINE_SIZE_LIMIT = 40
    Sources <- MCSources
    Arguments <- MCArguments
    Budget = 6000
    Fuel = 16
INVARIANTS
    RerootingIsSafe
PROPERTIES
    CompiledMeans
CHECK_DEADLOCK FALSE
