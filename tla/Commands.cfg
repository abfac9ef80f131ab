SPECIFICATION Spec
CONSTANTS
    FIELD_PRIME = 43
    GROUP_ORDER = 31
    WORD_BYTES = 1
    DIGEST_VALUES = 40
    BASE_POINT <- MCBasePoint
    FORMS <- MCForms
    STRING_MIN_BYTES = 3
    DECIMAL_MAX_BYTES = 2
    NEGATIVE_DECIMAL_MAX_BYTES = 1
    NAMED_ATOMS <- MCNamed
    Texts <- MCTexts
    Lines <- MCLines
    Arguments <- MCArguments
    MaxCommands = 3
    MUL_OPERAND_MAX_BYTES = 1
    MUL_ACCUMULATOR_MAX_BYTES = 1
    DIV_NUMERATOR_MAX_BYTES = 1
    DIV_DIVISOR_MAX_BYTES = 2
    INDEX_MAX_BYTES = 1
    SHIFT_COUNT_MAX_MAGNITUDE = 8
    Envs <- MCEnvs
    Fuel = 6
    Length = 24
INVARIANTS
    ReaderAgrees
    OneSpelling
PROPERTIES
    ConversionsKeepTree
    UncurryInverts
    CurriedMeans
CHECK_DEADLOCK FALSE
