----------------------------- MODULE Operators -----------------------------
(***************************************************************************)
(* The operator table (bitlisp/operators.py), with the order in which each *)
(* operator checks its arguments and charges the budget.                   *)
(*                                                                         *)
(* Running an operator on arguments is a sequence of charges followed by   *)
(* a result or by an error: [charges, code, value].  The sequence is cut   *)
(* at the first check that fails, so it holds exactly the charges the code *)
(* makes before that raise.  What the budget turns it into is the          *)
(* machine's business (Machine.tla).                                       *)
(***************************************************************************)
EXTENDS Sexp, Costs, Curve

\* Size limits of operands, in bytes but for the last.
CONSTANTS
    MUL_OPERAND_MAX_BYTES, MUL_ACCUMULATOR_MAX_BYTES,
    DIV_NUMERATOR_MAX_BYTES, DIV_DIVISOR_MAX_BYTES,
    INDEX_MAX_BYTES, SHIFT_COUNT_MAX_MAGNITUDE

Ok == "ok"
Returns(charges, node) == [charges |-> charges, code |-> Ok, value |-> node]
Raises(charges, error) == [charges |-> charges, code |-> error, value |-> Nil]

Malloc(atom) == MALLOC_COST_PER_BYTE * ByteLen(atom)
Truth(holds) == IF holds THEN TrueAtom ELSE Nil

\* The arguments that are not atoms, and the first of them.
PairsAmong(args) == {i \in 1..Len(args) : IsPair(args[i])}
AllAtoms(args) == PairsAmong(args) = {}
FirstPair(args) ==
    CHOOSE i \in PairsAmong(args) : \A j \in PairsAmong(args) : i <= j

-----------------------------------------------------------------------------
(* The tree family. *)

\* Defect: the charge of a branch is forgotten.
op_if_uncharged(args) ==
    IF Len(args) # 3 THEN Raises(<<>>, "wrong_arg_count")
    ELSE Returns(<<>>, IF args[1] = Nil THEN args[3] ELSE args[2])

op_if(args) ==
    IF Len(args) # 3 THEN Raises(<<>>, "wrong_arg_count")
    ELSE Returns(<<IF_COST>>, IF args[1] = Nil THEN args[3] ELSE args[2])

op_cons(args) ==
    IF Len(args) # 2 THEN Raises(<<>>, "wrong_arg_count")
    ELSE Returns(<<CONS_COST>>, Cons(args[1], args[2]))

\* The pair check precedes the charge.
op_first(args) ==
    IF Len(args) # 1 THEN Raises(<<>>, "wrong_arg_count")
    ELSE IF ~IsPair(args[1]) THEN Raises(<<>>, "arg_not_pair")
    ELSE Returns(<<FIRST_COST>>, First(args[1]))

op_rest(args) ==
    IF Len(args) # 1 THEN Raises(<<>>, "wrong_arg_count")
    ELSE IF ~IsPair(args[1]) THEN Raises(<<>>, "arg_not_pair")
    ELSE Returns(<<REST_COST>>, Rest(args[1]))

op_listp(args) ==
    IF Len(args) # 1 THEN Raises(<<>>, "wrong_arg_count")
    ELSE Returns(<<LISTP_COST>>, Truth(IsPair(args[1])))

op_eq(args) ==
    IF Len(args) # 2 THEN Raises(<<>>, "wrong_arg_count")
    ELSE IF ~AllAtoms(args) THEN Raises(<<>>, "arg_not_atom")
    ELSE Returns(<<EQ_BASE_COST
                     + EQ_COST_PER_BYTE * (ByteLen(args[1]) + ByteLen(args[2]))>>,
                 Truth(args[1] = args[2]))

\* Two arguments, both atoms: > and >s check them before their one charge.
TwoAtomsError(args) ==
    IF Len(args) # 2 THEN "wrong_arg_count"
    ELSE IF ~AllAtoms(args) THEN "arg_not_atom" ELSE Ok

op_gr(args) ==
    IF TwoAtomsError(args) # Ok THEN Raises(<<>>, TwoAtomsError(args))
    ELSE Returns(<<GR_BASE_COST
                     + GR_COST_PER_BYTE * (ByteLen(args[1]) + ByteLen(args[2]))>>,
                 Truth(AtomToInt(args[1]) > AtomToInt(args[2])))

\* Unsigned lexicographic order; a proper prefix is less.
BytesGreater(a, b) ==
    \E i \in 1..Len(a) :
        /\ i <= Len(b) + 1
        /\ \A j \in 1..(i - 1) : a[j] = b[j]
        /\ i <= Len(b) => a[i] > b[i]

op_grs(args) ==
    IF TwoAtomsError(args) # Ok THEN Raises(<<>>, TwoAtomsError(args))
    ELSE Returns(<<GRS_BASE_COST
                     + GRS_COST_PER_BYTE * (ByteLen(args[1]) + ByteLen(args[2]))>>,
                 Truth(BytesGreater(args[1].bytes, args[2].bytes)))

\* One charge, the result's bytes included.
op_strlen(args) ==
    LET length == IntToAtom(ByteLen(args[1]))
    IN  IF Len(args) # 1 THEN Raises(<<>>, "wrong_arg_count")
        ELSE IF IsPair(args[1]) THEN Raises(<<>>, "arg_not_atom")
        ELSE Returns(<<STRLEN_BASE_COST + STRLEN_COST_PER_BYTE * ByteLen(args[1])
                         + Malloc(length)>>, length)

op_raise(args) == Raises(<<>>, "user_raise")

-----------------------------------------------------------------------------
(***************************************************************************)
(* The loop that addition, the bitwise folds, concat and sha256 share: an  *)
(* argument is checked before its charge, on the first of which the base   *)
(* cost rides.  mallocs is what the operator charges after the loop.       *)
(***************************************************************************)

\* The charges of the first n arguments.
LoopCharges(args, n, base, per_arg, per_byte) ==
    [i \in 1..n |-> (IF i = 1 THEN base ELSE 0) + per_arg + per_byte * ByteLen(args[i])]

LoopRun(args, base, per_arg, per_byte, mallocs, node) ==
    LET charges(n) == LoopCharges(args, n, base, per_arg, per_byte)
        last == IF args = <<>> THEN base ELSE 0
    IN  IF AllAtoms(args)
        THEN Returns(charges(Len(args)) \o <<last>> \o mallocs, node)
        ELSE Raises(charges(FirstPair(args) - 1), "arg_not_atom")

(***************************************************************************)
(* Addition and subtraction.  Subtraction charges before it checks and     *)
(* prices an argument's bytes one step late.  The totals agree, the points *)
(* at which a small budget bursts do not.                                  *)
(***************************************************************************)

BaseOnFirst(i) == IF i = 1 THEN ARITH_BASE_COST ELSE 0
BytesOf(args, i) == ARITH_COST_PER_BYTE * ByteLen(args[i])

\* The charges of the first n arguments in subtraction.
SubCharges(args, n) ==
    [i \in 1..n |-> BaseOnFirst(i) + ARITH_COST_PER_ARG
                      + (IF i = 1 THEN 0 ELSE BytesOf(args, i - 1))]

Ints(args) == [i \in 1..Len(args) |-> AtomToInt(args[i])]

op_add(args) ==
    LET total == IntToAtom(Total(0, Ints(args)))
    IN  LoopRun(args, ARITH_BASE_COST, ARITH_COST_PER_ARG, ARITH_COST_PER_BYTE,
                <<Malloc(total)>>, total)

op_sub(args) ==
    LET n == Len(args)
        total == IntToAtom(AtomToInt(args[1]) - Total(0, Ints(Tail(args))))
    IN  IF n = 0 THEN Returns(<<ARITH_BASE_COST, 0>>, Nil)
        ELSE IF AllAtoms(args)
        THEN Returns(SubCharges(args, n) \o <<BytesOf(args, n), Malloc(total)>>, total)
        ELSE Raises(SubCharges(args, FirstPair(args)), "arg_not_atom")

-----------------------------------------------------------------------------
(***************************************************************************)
(* Multiplication.  A factor is checked before the charge of its step, the *)
(* product's size after it and before the next factor.                     *)
(***************************************************************************)

MagnitudeLen(value) == (BitLength(value) + 7) \div 8

Products(args) ==
    LET product[i \in 1..Len(args)] ==
          IF i = 1 THEN AtomToInt(args[1]) ELSE product[i-1] * AtomToInt(args[i])
    IN  product

IsFactor(arg) == IsAtom(arg) /\ ByteLen(arg) <= MUL_OPERAND_MAX_BYTES

\* The factors at which multiplication raises, themselves or by the product
\* they complete.
MulFaults(args) ==
    {i \in 1..Len(args) :
        (\A j \in 1..i : IsFactor(args[j])) =>
            i > 1 /\ MagnitudeLen(Products(args)[i]) > MUL_ACCUMULATOR_MAX_BYTES}
FirstFault(args) ==
    CHOOSE i \in MulFaults(args) : \A j \in MulFaults(args) : i <= j

\* The first factor counts the bytes it has, a product those of its magnitude.
AccumulatorLen(args, i) ==
    IF i = 1 THEN ByteLen(args[1]) ELSE MagnitudeLen(Products(args)[i])

MulStep(args, i) ==
    LET acc_len == AccumulatorLen(args, i - 1)
    IN  (IF i = 2 THEN MUL_BASE_COST ELSE 0) + MUL_COST_PER_OP
          + MUL_LINEAR_COST_PER_BYTE * (acc_len + ByteLen(args[i]))
          + (acc_len * ByteLen(args[i])) \div MUL_SQUARE_COST_PER_BYTE_DIVIDER

\* The charges of the first n factors: the first has none of its own.
MulCharges(args, n) == [i \in 1..(IF n = 0 THEN 0 ELSE n - 1) |-> MulStep(args, i + 1)]

op_mul(args) ==
    LET n == Len(args)
        k == FirstFault(args)
        product == IntToAtom(Products(args)[n])
        last == IF n = 1 THEN MUL_BASE_COST ELSE 0
    IN  IF n = 0 THEN Returns(<<MUL_BASE_COST, Malloc(TrueAtom)>>, TrueAtom)
        ELSE IF MulFaults(args) = {}
        THEN Returns(MulCharges(args, n) \o <<last, Malloc(product)>>, product)
        ELSE IF IsPair(args[k]) THEN Raises(MulCharges(args, k - 1), "arg_not_atom")
        ELSE IF ~IsFactor(args[k]) THEN Raises(MulCharges(args, k - 1), "arg_too_long")
        ELSE Raises(MulCharges(args, k), "arg_too_long")

-----------------------------------------------------------------------------
(* Division and shifts: every check of an argument precedes the charge, a  *)
(* zero divisor alone is reported after it.                                *)

\* Both atom checks precede both size checks.
DivError(args) ==
    IF TwoAtomsError(args) # Ok THEN TwoAtomsError(args)
    ELSE IF \/ ByteLen(args[1]) > DIV_NUMERATOR_MAX_BYTES
            \/ ByteLen(args[2]) > DIV_DIVISOR_MAX_BYTES
    THEN "arg_too_long" ELSE Ok

\* The quotient rounded down, for a divisor of either sign.
FloorDiv(a, b) == IF b > 0 THEN a \div b ELSE (-a) \div (-b)

op_div(args) ==
    LET charge == DIV_BASE_COST + DIV_COST_PER_BYTE * (ByteLen(args[1]) + ByteLen(args[2]))
        quotient == IntToAtom(FloorDiv(AtomToInt(args[1]), AtomToInt(args[2])))
    IN  IF DivError(args) # Ok THEN Raises(<<>>, DivError(args))
        ELSE IF AtomToInt(args[2]) = 0 THEN Raises(<<charge>>, "div_by_zero")
        ELSE Returns(<<charge, Malloc(quotient)>>, quotient)

\* The remainder has the divisor's sign.
op_divmod(args) ==
    LET charge == DIVMOD_BASE_COST + DIVMOD_COST_PER_BYTE * (ByteLen(args[1]) + ByteLen(args[2]))
        numerator == AtomToInt(args[1])
        divisor == AtomToInt(args[2])
        quotient == FloorDiv(numerator, divisor)
        q_atom == IntToAtom(quotient)
        r_atom == IntToAtom(numerator - quotient * divisor)
    IN  IF DivError(args) # Ok THEN Raises(<<>>, DivError(args))
        ELSE IF divisor = 0 THEN Raises(<<charge>>, "div_by_zero")
        ELSE Returns(<<charge, Malloc(q_atom), Malloc(r_atom)>>, Cons(q_atom, r_atom))

op_lognot(args) ==
    LET result == IntToAtom(-AtomToInt(args[1]) - 1)
    IN  IF Len(args) # 1 THEN Raises(<<>>, "wrong_arg_count")
        ELSE IF IsPair(args[1]) THEN Raises(<<>>, "arg_not_atom")
        ELSE Returns(<<LOGNOT_BASE_COST + LOGNOT_COST_PER_BYTE * ByteLen(args[1]),
                       Malloc(result)>>, result)

\* The value's check precedes the count's, and the shape of a count its range.
ShiftError(args) ==
    IF Len(args) # 2 THEN "wrong_arg_count"
    ELSE IF IsPair(args[1]) THEN "arg_not_atom"
    ELSE IF IsPair(args[2]) \/ ByteLen(args[2]) > INDEX_MAX_BYTES THEN "bad_index"
    ELSE IF Magnitude(AtomToInt(args[2])) > SHIFT_COUNT_MAX_MAGNITUDE THEN "shift_too_large"
    ELSE Ok

Shifted(value, count) ==
    IF count >= 0 THEN value * 2^count ELSE value \div 2^(-count)

\* The charge counts the result's magnitude, its malloc the bytes it has.
ShiftRun(args, base_cost, cost_per_byte, shifted) ==
    Returns(<<base_cost + cost_per_byte * (ByteLen(args[1]) + MagnitudeLen(shifted)),
              Malloc(IntToAtom(shifted))>>, IntToAtom(shifted))

op_ash(args) ==
    IF ShiftError(args) # Ok THEN Raises(<<>>, ShiftError(args))
    ELSE ShiftRun(args, ASHIFT_BASE_COST, ASHIFT_COST_PER_BYTE,
                  Shifted(AtomToInt(args[1]), AtomToInt(args[2])))

\* The logical shift reads the value unsigned.
op_lsh(args) ==
    IF ShiftError(args) # Ok THEN Raises(<<>>, ShiftError(args))
    ELSE ShiftRun(args, SHIFT_BASE_COST, SHIFT_COST_PER_BYTE,
                  Shifted(Unsigned(args[1].bytes), AtomToInt(args[2])))

-----------------------------------------------------------------------------
(***************************************************************************)
(* The bitwise folds, on two's complement of MaxBits bits and a sign.      *)
(***************************************************************************)

BitIsOn(value, bit) == (value \div 2^bit) % 2 = 1

\* The integer whose bits that are on are these; MaxBits is the sign.
FromBits(bits) ==
    Total(IF MaxBits \in bits THEN -(2^MaxBits) ELSE 0,
          [b \in 1..MaxBits |-> IF b - 1 \in bits THEN 2^(b - 1) ELSE 0])

LogRun(args, bits) ==
    LET result == IntToAtom(FromBits(bits))
    IN  LoopRun(args, LOG_BASE_COST, LOG_COST_PER_ARG, LOG_COST_PER_BYTE,
                <<Malloc(result)>>, result)

op_logand(args) ==
    LogRun(args, {b \in 0..MaxBits : \A i \in DOMAIN args : BitIsOn(Ints(args)[i], b)})
op_logior(args) ==
    LogRun(args, {b \in 0..MaxBits : \E i \in DOMAIN args : BitIsOn(Ints(args)[i], b)})
op_logxor(args) ==
    LogRun(args, {b \in 0..MaxBits :
                    Cardinality({i \in DOMAIN args : BitIsOn(Ints(args)[i], b)}) % 2 = 1})

-----------------------------------------------------------------------------
(* Bytes and hashes. *)

\* All the arguments' bytes, one after the other.
Joined(args) ==
    LET end == Totals(0, [i \in 1..Len(args) |-> ByteLen(args[i])])
    IN  [j \in 1..end[Len(args)] |->
            LET i == CHOOSE i \in 1..Len(args) : end[i - 1] < j /\ j <= end[i]
            IN  args[i].bytes[j - end[i - 1]]]

\* The malloc of the result is charged with the bytes of each argument.
op_concat(args) ==
    LoopRun(args, CONCAT_BASE_COST, CONCAT_COST_PER_ARG,
            CONCAT_COST_PER_BYTE + MALLOC_COST_PER_BYTE, <<>>, Atom(Joined(args)))

op_sha256(args) ==
    LET result == Atom(Digest(Joined(args)))
    IN  LoopRun(args, SHA256_BASE_COST, SHA256_COST_PER_ARG, SHA256_COST_PER_BYTE,
                <<Malloc(result)>>, result)

IsIndex(arg) == IsAtom(arg) /\ ByteLen(arg) <= INDEX_MAX_BYTES

\* substr's indices, the end of the data by default.
SubstrStart(args) == AtomToInt(args[2])
SubstrEnd(args) == IF Len(args) = 3 THEN AtomToInt(args[3]) ELSE ByteLen(args[1])

SubstrError(args) ==
    IF Len(args) \notin {2, 3} THEN "wrong_arg_count"
    ELSE IF IsPair(args[1]) THEN "arg_not_atom"
    ELSE IF \E i \in 2..Len(args) : ~IsIndex(args[i]) THEN "bad_index"
    ELSE IF \/ SubstrStart(args) < 0
            \/ SubstrEnd(args) > ByteLen(args[1])
            \/ SubstrEnd(args) < SubstrStart(args)
    THEN "index_out_of_range" ELSE Ok

\* bytes[start:end].
Slice(bytes, start, end) ==
    LET inside == {j \in 1..Len(bytes) : start < j /\ j <= end}
    IN  [i \in 1..Cardinality(inside) |-> bytes[start + i]]

\* One flat charge: the result is a part of an atom that exists.
op_substr(args) ==
    IF SubstrError(args) # Ok THEN Raises(<<>>, SubstrError(args))
    ELSE Returns(<<SUBSTR_COST>>,
                 Atom(Slice(args[1].bytes, SubstrStart(args), SubstrEnd(args))))

\* The widths of a key, of a message and of a signature.
SecpError(args) ==
    IF Len(args) # 3 THEN "wrong_arg_count"
    ELSE IF ~AllAtoms(args) THEN "arg_not_atom"
    ELSE IF \/ ByteLen(args[1]) # WORD_BYTES
            \/ ByteLen(args[2]) # WORD_BYTES
            \/ ByteLen(args[3]) \notin {0, 2 * WORD_BYTES}
    THEN "secp_verify_failed" ELSE Ok

\* An empty signature is a false value, an invalid one raises.
op_secp_verify(args) ==
    IF SecpError(args) # Ok THEN Raises(<<>>, SecpError(args))
    ELSE IF args[3] = Nil THEN Returns(<<SECP_VERIFY_COST>>, Nil)
    ELSE IF verify(args[1].bytes, args[2].bytes, args[3].bytes)
    THEN Returns(<<SECP_VERIFY_COST>>, TrueAtom)
    ELSE Raises(<<SECP_VERIFY_COST>>, "secp_verify_failed")

-----------------------------------------------------------------------------
(***************************************************************************)
(* sha256tree walks its argument with a stack of nodes, the top first, and *)
(* charges a node when it reaches it.  COMBINE stands for a pair both of   *)
(* whose halves have been hashed, the rest before the first.  WALK_MAX     *)
(* bounds the turns of the walk that the model follows.                    *)
(***************************************************************************)

WALK_MAX == 32
COMBINE == [type |-> "combine"]

NodeCharge(node) ==
    IF IsPair(node) THEN SHA256TREE_PAIR_COST
    ELSE SHA256TREE_COST_PER_BYTE * (ByteLen(node) + 1)

WalkTurn(walk) ==
    LET top == Head(walk.stack)
        base == IF walk.charges = <<>> THEN SHA256TREE_BASE_COST ELSE 0
    IN  IF walk.stack = <<>> THEN walk
        ELSE IF top = COMBINE THEN [walk EXCEPT !.stack = Tail(@)]
        ELSE [stack |-> (IF IsPair(top) THEN <<Rest(top), First(top), COMBINE>> ELSE <<>>)
                          \o Tail(walk.stack),
              charges |-> Append(walk.charges, base + NodeCharge(top))]

\* The stack and the charges so far after each turn.
TreeWalk(node) ==
    LET walk[i \in 0..WALK_MAX] ==
          IF i = 0 THEN [stack |-> <<node>>, charges |-> <<>>] ELSE WalkTurn(walk[i - 1])
    IN  walk

\* The hashes after each turn, the last first.
TreeHashes(node) ==
    LET hashes[i \in 0..WALK_MAX] ==
          IF i = 0 THEN <<>>
          ELSE LET stack == TreeWalk(node)[i - 1].stack
                   before == hashes[i - 1]
               IN  IF stack = <<>> \/ IsPair(Head(stack)) THEN before
                   ELSE IF Head(stack) = COMBINE
                   THEN <<Digest(<<2>> \o before[1] \o before[2])>>
                          \o SubSeq(before, 3, Len(before))
                   ELSE <<Digest(<<1>> \o Head(stack).bytes)>> \o before
    IN  hashes

op_sha256tree(args) ==
    LET root == TreeHashes(args[1])[WALK_MAX][1]
        result == Atom([i \in 1..WORD_BYTES |-> root[i]])
    IN  IF Len(args) # 1 THEN Raises(<<>>, "wrong_arg_count")
        ELSE Returns(TreeWalk(args[1])[WALK_MAX].charges \o <<Malloc(result)>>, result)

-----------------------------------------------------------------------------
(* The boolean family: nil is the only false value. *)

op_not(args) ==
    IF Len(args) # 1 THEN Raises(<<>>, "wrong_arg_count")
    ELSE Returns(<<BOOL_BASE_COST>>, Truth(args[1] = Nil))

BoolCharge(args) == <<BOOL_BASE_COST + BOOL_COST_PER_ARG * Len(args)>>

op_any(args) ==
    Returns(BoolCharge(args), Truth(\E i \in DOMAIN args : args[i] # Nil))

op_all(args) ==
    Returns(BoolCharge(args), Truth(\A i \in DOMAIN args : args[i] # Nil))

-----------------------------------------------------------------------------
(* The table.  Opcodes are one-byte atoms. *)

OpIf == Atom(<<3>>)
OpCons == Atom(<<4>>)
OpFirst == Atom(<<5>>)
OpRest == Atom(<<6>>)
OpListp == Atom(<<7>>)
OpRaise == Atom(<<8>>)
OpEq == Atom(<<9>>)
OpGrs == Atom(<<10>>)
OpSha256 == Atom(<<11>>)
OpSubstr == Atom(<<12>>)
OpStrlen == Atom(<<13>>)
OpConcat == Atom(<<14>>)
OpSecpVerify == Atom(<<15>>)
OpAdd == Atom(<<16>>)
OpSub == Atom(<<17>>)
OpMul == Atom(<<18>>)
OpDiv == Atom(<<19>>)
OpDivmod == Atom(<<20>>)
OpGr == Atom(<<21>>)
OpAsh == Atom(<<22>>)
OpLsh == Atom(<<23>>)
OpLogand == Atom(<<24>>)
OpLogior == Atom(<<25>>)
OpLogxor == Atom(<<26>>)
OpLognot == Atom(<<27>>)
OpNot == Atom(<<32>>)
OpAny == Atom(<<33>>)
OpAll == Atom(<<34>>)
OpSha256tree == Atom(<<63>>)

OPERATORS == {OpIf, OpCons, OpFirst, OpRest, OpListp, OpRaise, OpEq, OpGrs,
              OpSha256, OpSubstr, OpStrlen, OpConcat, OpSecpVerify, OpAdd, OpSub,
              OpMul, OpDiv, OpDivmod, OpGr, OpAsh, OpLsh, OpLogand, OpLogior,
              OpLogxor, OpLognot, OpNot, OpAny, OpAll, OpSha256tree}

\* OPERATORS[op](args, charge).
RunOperator(op, args) ==
    CASE op = OpIf    -> op_if(args)
      [] op = OpCons  -> op_cons(args)
      [] op = OpFirst -> op_first(args)
      [] op = OpRest  -> op_rest(args)
      [] op = OpListp -> op_listp(args)
      [] op = OpRaise -> op_raise(args)
      [] op = OpEq    -> op_eq(args)
      [] op = OpGrs    -> op_grs(args)
      [] op = OpStrlen -> op_strlen(args)
      [] op = OpSha256 -> op_sha256(args)
      [] op = OpSubstr -> op_substr(args)
      [] op = OpConcat -> op_concat(args)
      [] op = OpSecpVerify -> op_secp_verify(args)
      [] op = OpDivmod -> op_divmod(args)
      [] op = OpLogand -> op_logand(args)
      [] op = OpLogior -> op_logior(args)
      [] op = OpLogxor -> op_logxor(args)
      [] op = OpSha256tree -> op_sha256tree(args)
      [] op = OpAdd   -> op_add(args)
      [] op = OpSub   -> op_sub(args)
      [] op = OpMul   -> op_mul(args)
      [] op = OpDiv   -> op_div(args)
      [] op = OpGr    -> op_gr(args)
      [] op = OpAsh   -> op_ash(args)
      [] op = OpLsh   -> op_lsh(args)
      [] op = OpLognot -> op_lognot(args)
      [] op = OpNot   -> op_not(args)
      [] op = OpAny   -> op_any(args)
      [] op = OpAll   -> op_all(args)
=============================================================================
