SPECIFICATION FairSpec
CONSTANTS
    FIELD_PRIME = 43
    GROUP_ORDER = 31
    WORD_BYTES = 1
    DIGEST_VALUES = 40
    BASE_POINT <- MCBasePoint
    MUL_OPERAND_MAX_BYTES = 1
    MUL_ACCUMULATOR_MAX_BYTES = 1
    DIV_NUMERATOR_MAX_BYTES = 1
    DIV_DIVISOR_MAX_BYTES = 2
    INDEX_MAX_BYTES = 1
    SHIFT_COUNT_MAX_MAGNITUDE = 8
    Nodes <- MCNodes
    Programs <- MCPrograms
    Envs <- MCEnvs
    Budgets <- MCBudgets
    Fuel <- MCFuel
INVARIANTS
    ReproducesRun
    LiveIsSound
PROPERTIES
    StepOverCompletesSubtree
    CommandsReturn
CHECK_DEADLOCK FALSE
