------------------------------- MODULE Costs -------------------------------
(***************************************************************************)
(* The cost constants (bitlisp/costs.py) that the modelled operators and   *)
(* conditions charge, and running totals of charges.                       *)
(***************************************************************************)
EXTENDS Integers, Sequences

(* The evaluator. *)
QUOTE_COST == 20
APPLY_COST == 90
OP_DISPATCH_COST == 1
PATH_LOOKUP_BASE_COST == 40
PATH_LOOKUP_COST_PER_LEG == 4
PATH_LOOKUP_COST_PER_ZERO_BYTE == 4

(* The operators. *)
IF_COST == 33
CONS_COST == 50
FIRST_COST == 30
REST_COST == 30
LISTP_COST == 19
EQ_BASE_COST == 117
EQ_COST_PER_BYTE == 1
ARITH_BASE_COST == 99
ARITH_COST_PER_ARG == 320
ARITH_COST_PER_BYTE == 3
MUL_BASE_COST == 92
MUL_COST_PER_OP == 885
MUL_LINEAR_COST_PER_BYTE == 6
MUL_SQUARE_COST_PER_BYTE_DIVIDER == 128
DIV_BASE_COST == 988
DIV_COST_PER_BYTE == 4
DIVMOD_BASE_COST == 1116
DIVMOD_COST_PER_BYTE == 6
GR_BASE_COST == 498
GR_COST_PER_BYTE == 2
GRS_BASE_COST == 117
GRS_COST_PER_BYTE == 1
STRLEN_BASE_COST == 173
STRLEN_COST_PER_BYTE == 1
SUBSTR_COST == 1
CONCAT_BASE_COST == 142
CONCAT_COST_PER_ARG == 135
CONCAT_COST_PER_BYTE == 3
SHA256_BASE_COST == 87
SHA256_COST_PER_ARG == 134
SHA256_COST_PER_BYTE == 2
SHA256TREE_BASE_COST == 270
SHA256TREE_PAIR_COST == 460
SHA256TREE_COST_PER_BYTE == 2
SECP_VERIFY_COST == 1300000
LOG_BASE_COST == 100
LOG_COST_PER_ARG == 264
LOG_COST_PER_BYTE == 3
LOGNOT_BASE_COST == 331
LOGNOT_COST_PER_BYTE == 3
ASHIFT_BASE_COST == 596
ASHIFT_COST_PER_BYTE == 3
SHIFT_BASE_COST == 277
SHIFT_COST_PER_BYTE == 3
BOOL_BASE_COST == 200
BOOL_COST_PER_ARG == 300
MALLOC_COST_PER_BYTE == 10

(* The conditions. *)
CONDITION_GENERIC_COST == 200
CONDITION_MESSAGE_COST == 700
CONDITION_SIG_ASSERT_COST == SECP_VERIFY_COST
TAPROOT_TWEAK_COST == 1300000
CREATE_OUTPUT_COST == 1350000

-----------------------------------------------------------------------------
\* Running totals: Totals(start, amounts)[i] is start plus the first i amounts.
Totals(start, amounts) ==
    LET total[i \in 0..Len(amounts)] ==
          IF i = 0 THEN start ELSE total[i-1] + amounts[i]
    IN  total
Total(start, amounts) == Totals(start, amounts)[Len(amounts)]
=============================================================================
