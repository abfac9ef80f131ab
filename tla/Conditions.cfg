SPECIFICATION Spec
CONSTANTS
    FIELD_PRIME = 43
    GROUP_ORDER = 31
    WORD_BYTES = 2
    DIGEST_VALUES = 40
    BASE_POINT <- MCBasePoint
    HASH_SIZE = 2
    OUTPOINT_SIZE = 3
    SIG_SIGNATURE_SIZE = 4
    MAX_SCRIPT_PUBKEY_SIZE = 5
    MAX_MESSAGE_SIZE = 2
    MAX_MONEY = 300
    LOCKTIME_THRESHOLD = 10
    LOCKTIME_MAX = 20
    SEQUENCE_VALUE_MAX = 40
    NoBudget = NoBudget
    Lists <- MCLists
    Budgets <- MCBudgets
    Spent <- MCSpent
INVARIANTS
    CostIsSum
    OutputKeysAreTweaked
    EncodingIsCanonical
    FirstFaultDecides
CHECK_DEADLOCK FALSE
