--------------------------- MODULE ConditionsProof ---------------------------
(***************************************************************************)
(* The pass over a condition list, for every list, every budget and every  *)
(* value of the widths and bounds: what the meter shows is the sum of what *)
(* was parsed, a parsed condition has one encoding, and the first fault in *)
(* list order decides the verdict.                                         *)
(***************************************************************************)
EXTENDS Conditions, CostsProof, SequenceTheorems

-----------------------------------------------------------------------------
(* Integers in atoms. *)

\* The unsigned reading of bytes is an integer, and of one byte that byte.
LEMMA UnsignedType ==
    ASSUME NEW bytes \in Seq(Byte)
    PROVE  Unsigned(bytes) \in Int /\ (Len(bytes) = 1 => Unsigned(bytes) = bytes[1])
<1> DEFINE n == Len(bytes)
           step == [i \in 1..n |-> [x \in Int |-> 256 * x + bytes[i]]]
           Eqn(f) == f = [i \in 0..n |-> IF i = 0 THEN 0 ELSE 256 * f[i-1] + bytes[i]]
           value == CHOOSE f : Eqn(f)
<1>1. n \in Nat /\ \A i \in 1..n : bytes[i] \in Int
  <2>1. n \in Nat /\ \A i \in 1..n : bytes[i] \in Byte
    OBVIOUS
  <2>2. Byte \subseteq Int
    BY DEF Byte
  <2> QED BY <2>1, <2>2
<1>2. Steps(step, n, Int)
  BY <1>1 DEF Steps
<1>3. PICK f \in [0..n -> Int] : Follows(f, step, n, 0)
  <2> DEFINE S == Int
             x == 0
  <2>1. n \in Nat /\ x \in S /\ Steps(step, n, S)
    BY <1>1, <1>2
  <2> HIDE DEF step, n, S, x
  <2>2. \E f \in [0..n -> S] : Follows(f, step, n, x)
    BY <2>1, RecursionExists
  <2> QED BY <2>2 DEF S, x
<1>4. f[0] = 0 /\ \A i \in 1..n : f[i] = 256 * f[i-1] + bytes[i]
  <2>1. f[0] = 0 /\ \A i \in 1..n : f[i] = step[i][f[i-1]]
    BY <1>3 DEF Follows
  <2>2. \A i \in 1..n : i - 1 \in 0..n /\ f[i-1] \in Int
    <3> HIDE DEF n
    <3> QED BY <1>1, <1>3
  <2> HIDE DEF n
  <2> QED BY <2>1, <2>2
<1>5. Eqn(f)
  <2>1. f = [i \in 0..n |-> f[i]]
    BY <1>3
  <2>2. \A i \in 0..n : f[i] = IF i = 0 THEN 0 ELSE 256 * f[i-1] + bytes[i]
    <3> HIDE DEF n
    <3> QED BY <1>1, <1>4
  <2> QED BY <2>1, <2>2
<1>6. Eqn(value)
  <2> HIDE DEF Eqn
  <2> QED BY <1>5
<1>7. value[0] = 0 /\ \A i \in 1..n : value[i] = 256 * value[i-1] + bytes[i]
  <2> HIDE DEF value
  <2> QED BY <1>1, <1>6
<1>8. \A i \in 0..n : value[i] \in Int
  <2> DEFINE T == {i \in 0..n : value[i] \in Int}
  <2> HIDE DEF value, n
  <2>1. 0 \in T
    BY <1>1, <1>7
  <2>2. ASSUME NEW i \in 0..(n-1), i \in T PROVE i + 1 \in T
    <3>1. i + 1 \in 1..n /\ i + 1 \in 0..n /\ (i + 1) - 1 = i
      BY <1>1
    <3>2. value[i+1] = 256 * value[i] + bytes[i+1]
      BY <1>7, <3>1
    <3>3. value[i] \in Int /\ bytes[i+1] \in Int
      BY <1>1, <2>2, <3>1
    <3> QED BY <3>1, <3>2, <3>3
  <2>3. 0..n \subseteq T
    <3> HIDE DEF T
    <3> QED BY <1>1, <2>1, <2>2, IntervalInduction
  <2> QED BY <2>3
<1>9. Unsigned(bytes) = value[n]
  BY DEF Unsigned
<1>10. n = 1 => value[1] = bytes[1]
  <2> HIDE DEF value
  <2> SUFFICES ASSUME n = 1 PROVE value[1] = bytes[1]
    OBVIOUS
  <2>1. value[1] = 256 * value[0] + bytes[1] /\ value[0] = 0 /\ bytes[1] \in Int
    BY <1>1, <1>7
  <2> QED BY <2>1
<1> QED
  <2> HIDE DEF value
  <2> QED BY <1>1, <1>8, <1>9, <1>10

\* An atom is an integer.
LEMMA AtomToIntType ==
    ASSUME NEW a, IsBytes(a)
    PROVE  AtomToInt(a) \in Int
<1>1. a.bytes \in Seq(Byte) /\ Len(a.bytes) \in Nat
  BY DEF IsBytes
<1>2. Unsigned(a.bytes) \in Int
  BY <1>1, UnsignedType
<1>3. 256^Len(a.bytes) \in Int
  <2> DEFINE n == Len(a.bytes)
  <2>1. n \in Nat
    BY <1>1
  <2> HIDE DEF n
  <2>2. 256^n \in Int
    BY <2>1
  <2> QED BY <2>2 DEF n
<1> QED
  BY <1>2, <1>3 DEF AtomToInt

-----------------------------------------------------------------------------
(* One condition. *)

\* A proper list of at least one element is that element before its others.
LEMMA ListParts ==
    ASSUME NEW e, IsTree(e), IsPair(e)
    PROVE  /\ e = Spine(e.elems, e.tail) /\ e.elems \in Seq(Parts(e)) /\ Len(e.elems) \in Nat
           /\ Len(e.elems) > 0 /\ ListElems(e) = e.elems
           /\ First(e) = e.elems[1] /\ First(e) \in Parts(e)
           /\ IsBytes(e.tail)
<1>1. IsSpine(e)
  BY DEF IsTree, IsBytes, IsAtom, IsPair
<1>2. /\ e = Spine(e.elems, e.tail) /\ e.elems \in Seq(Parts(e)) /\ e.elems # <<>>
      /\ IsBytes(e.tail) /\ ListElems(e) = e.elems
  BY <1>1 DEF IsSpine, ListElems
<1>3. Len(e.elems) \in Nat /\ Len(e.elems) > 0
  BY <1>2
<1>4. Head(e.elems) = e.elems[1] /\ e.elems[1] \in Parts(e)
  BY <1>2, <1>3
<1> QED
  BY <1>2, <1>3, <1>4 DEF First

\* The arguments of a condition are its elements after the first.
LEMMA ArgsAreTail ==
    ASSUME NEW e, IsTree(e), IsPair(e), IsProperList(e)
    PROVE  /\ Args(e) = Tail(e.elems) /\ Args(e) \in Seq(Parts(e))
           /\ e = ListOf(<<First(e)>> \o Args(e))
<1> DEFINE s == e.elems
           S == Parts(e)
<1>1. /\ e = Spine(s, Nil) /\ s \in Seq(S) /\ Len(s) \in Nat /\ Len(s) > 0
      /\ First(e) = s[1] /\ s[1] \in S
  <2>1. e.tail = Nil
    BY DEF IsProperList, IsPair, Nil, Atom
  <2> QED BY <2>1, ListParts
<1>2. Args(e) = Tail(s)
  <2>1. CASE Len(s) = 1
    <3>1. Rest(e) = Nil
      BY <1>1, <2>1 DEF Rest, Spine
    <3>2. Tail(s) = <<>>
      <4> HIDE DEF s, S
      <4>1. Tail(s) \in Seq(S) /\ Len(Tail(s)) = 0
        BY <1>1, <2>1, SMTT(20)
      <4> QED BY <4>1, EmptySeq
    <3> QED BY <3>1, <3>2 DEF Args, ListElems, Nil, Atom, IsPair
  <2>2. CASE Len(s) # 1
    <3>1. Rest(e) = Spine(Tail(s), Nil)
      BY <1>1, <2>2 DEF Rest, Spine
    <3> QED BY <3>1 DEF Args, ListElems, Spine, IsPair
  <2> QED BY <2>1, <2>2
<1>3. Tail(s) \in Seq(S) /\ s = <<s[1]>> \o Tail(s) /\ s # <<>>
  <2> HIDE DEF s, S
  <2> QED BY <1>1
<1> QED
  BY <1>1, <1>2, <1>3 DEF ListOf

\* Every argument is a tree.
Trees(args) == \A i \in DOMAIN args : IsTree(args[i])

\* What an operand's value is written as is the operand.
LEMMA OperandEncodesBack ==
    ASSUME NEW kind, NEW a, IsTree(a), IsOperand(kind, a)
    PROVE  EncodeOperand(kind, Operand(kind, a)) = a
<1>1. IsBytes(a)
  BY DEF IsTree, IsSpine, IsOperand, IsAtom, IsPair
<1> QED
  BY <1>1 DEF IsBytes, IsOperand, IsMinimal, EncodeOperand, Operand

\* Accepted arguments are as many as the kinds, and each is of its kind.
LEMMA CheckedArgs ==
    ASSUME NEW kinds, NEW args, CheckArgs(kinds, args) = Accepted
    PROVE  Len(args) = Len(kinds) /\ \A i \in 1..Len(args) : IsOperand(kinds[i], args[i])
BY DEF CheckArgs, Accepted

\* The same of all arguments.
LEMMA OperandsEncodeBack ==
    ASSUME NEW kinds, NEW S, NEW args \in Seq(S), Trees(args),
           CheckArgs(kinds, args) = Accepted
    PROVE  EncodeOperands(kinds, Operands(kinds, args)) = args
<1> DEFINE n == Len(args)
<1>1. n \in Nat /\ args = [i \in 1..n |-> args[i]] /\ DOMAIN args = 1..n
  OBVIOUS
<1>2. Len(kinds) = n /\ \A i \in 1..n : IsOperand(kinds[i], args[i])
  BY CheckedArgs
<1>3. ASSUME NEW i \in 1..n
      PROVE  EncodeOperand(kinds[i], Operands(kinds, args)[i]) = args[i]
  <2>1. IsTree(args[i]) /\ IsOperand(kinds[i], args[i])
    BY <1>1, <1>2 DEF Trees
  <2>2. Operands(kinds, args)[i] = Operand(kinds[i], args[i])
    BY <1>2 DEF Operands
  <2> QED BY <2>1, <2>2, OperandEncodesBack
<1>4. EncodeOperands(kinds, Operands(kinds, args))
        = [i \in 1..n |-> EncodeOperand(kinds[i], Operands(kinds, args)[i])]
  BY <1>2 DEF EncodeOperands
<1> HIDE DEF n
<1> QED
  BY <1>1, <1>3, <1>4

\* The halves of a mode, and the mode they make up.
LEMMA ModeHalves ==
    ASSUME NEW mode \in 0..1023
    PROVE  /\ LowHalf(mode) \in 0..31 /\ HighHalf(mode) \in 0..31
           /\ 32 * HighHalf(mode) + LowHalf(mode) = mode
           /\ mode <= 31 => LowHalf(mode) = mode
BY SMTT(20) DEF LowHalf, HighHalf

\* The kinds of the operands that depend on a mode.
ModeKindNames ==
    {"mode", "pair_mode", "payload", "outpoint", "txid", "script_pubkey", "amount",
     "tapleaf", "merkle_root"}

\* The fields of a commitment are a tuple of kinds.
LEMMA SpecifierKinds ==
    ASSUME NEW h \in 0..31
    PROVE  SPECIFIER_OPERANDS[h] \in Seq(ModeKindNames)
<1> DEFINE K == ModeKindNames
           field(bit, kind) == IF (h \div bit) % 2 = 1 THEN <<kind>> ELSE <<>>
           own == field(4, "txid") \o field(2, "script_pubkey") \o field(1, "amount")
           prevout == IF h % 8 = 7 THEN <<"outpoint">> ELSE own
<1>1. SPECIFIER_OPERANDS[h] = prevout \o field(8, "tapleaf") \o field(16, "merkle_root")
  BY DEF SPECIFIER_OPERANDS
<1>2. ASSUME NEW bit, NEW kind \in K PROVE field(bit, kind) \in Seq(K)
  <2>1. <<kind>> \in Seq(K) /\ <<>> \in Seq(K)
    OBVIOUS
  <2> HIDE DEF K
  <2> QED BY <2>1
<1>3. /\ field(4, "txid") \in Seq(K) /\ field(2, "script_pubkey") \in Seq(K)
      /\ field(1, "amount") \in Seq(K) /\ field(8, "tapleaf") \in Seq(K)
      /\ field(16, "merkle_root") \in Seq(K)
  <2>1. "txid" \in K /\ "script_pubkey" \in K /\ "amount" \in K
        /\ "tapleaf" \in K /\ "merkle_root" \in K
    BY DEF ModeKindNames
  <2> HIDE DEF field, K
  <2> QED BY <1>2, <2>1
<1>4. <<"outpoint">> \in Seq(K)
  <2>1. "outpoint" \in K
    BY DEF ModeKindNames
  <2> HIDE DEF K
  <2> QED BY <2>1
<1> HIDE DEF field, K
<1>5. own \in Seq(K)
  BY <1>3
<1> HIDE DEF own
<1>6. prevout \in Seq(K)
  BY <1>4, <1>5
<1> HIDE DEF prevout
<1>7. SPECIFIER_OPERANDS[h] \in Seq(K)
  BY <1>1, <1>3, <1>6
<1> QED
  BY <1>7 DEF K

\* The opcodes with a mode, and the kinds before their specifier's.
LEMMA ShapeKinds ==
    ASSUME NEW opcode, ModeShape(opcode) # <<>>
    PROVE  /\ opcode \in {ASSERT_ANNOUNCEMENT, ASSURE, REQUIRE}
           /\ opcode = ASSERT_ANNOUNCEMENT =>
                ModeShape(opcode) = <<"mode", "payload", "payload">>
           /\ opcode \in {ASSURE, REQUIRE} => ModeShape(opcode) = <<"pair_mode", "payload">>
           /\ ModeShape(opcode) \in Seq(ModeKindNames)
           /\ Len(ModeShape(opcode)) \in {2, 3}
           /\ \A i \in 2..Len(ModeShape(opcode)) : ModeShape(opcode)[i] = "payload"
<1>1. opcode \in {ASSERT_ANNOUNCEMENT, ASSURE, REQUIRE}
  BY DEF ModeShape
<1>2. ASSERT_ANNOUNCEMENT # ASSURE /\ ASSERT_ANNOUNCEMENT # REQUIRE
  BY DEF ASSERT_ANNOUNCEMENT, ASSURE, REQUIRE
<1>3. /\ opcode = ASSERT_ANNOUNCEMENT =>
           ModeShape(opcode) = <<"mode", "payload", "payload">>
      /\ opcode \in {ASSURE, REQUIRE} => ModeShape(opcode) = <<"pair_mode", "payload">>
  BY <1>2 DEF ModeShape
<1>4. "mode" \in ModeKindNames /\ "pair_mode" \in ModeKindNames /\ "payload" \in ModeKindNames
  BY DEF ModeKindNames
<1>5. /\ <<"mode", "payload", "payload">> \in Seq(ModeKindNames)
      /\ <<"pair_mode", "payload">> \in Seq(ModeKindNames)
  BY <1>4
<1>6. CASE opcode = ASSERT_ANNOUNCEMENT
  <2> DEFINE shape == <<"mode", "payload", "payload">>
  <2>1. Len(shape) = 3 /\ \A i \in 2..3 : shape[i] = "payload"
    OBVIOUS
  <2> QED BY <1>1, <1>3, <1>5, <1>6, <2>1
<1>7. CASE opcode \in {ASSURE, REQUIRE}
  <2> DEFINE shape == <<"pair_mode", "payload">>
  <2>1. Len(shape) = 2 /\ \A i \in 2..2 : shape[i] = "payload"
    OBVIOUS
  <2> QED BY <1>1, <1>3, <1>5, <1>7, <2>1
<1> QED
  BY <1>1, <1>6, <1>7

\* An accepted mode is minimal and in its opcode's range.
LEMMA CheckedMode ==
    ASSUME NEW opcode, NEW args, ModeShape(opcode) # <<>>, CheckMode(opcode, args) = Accepted
    PROVE  /\ AtomToInt(args[1]) \in 0..1023
           /\ opcode = ASSERT_ANNOUNCEMENT => AtomToInt(args[1]) \in 0..31
           /\ IntToAtom(AtomToInt(args[1])) = args[1]
           /\ CheckArgs(ModeKinds(opcode, AtomToInt(args[1])), args) = Accepted
<1>1. /\ IsOperand(ModeShape(opcode)[1], args[1])
      /\ CheckArgs(ModeKinds(opcode, AtomToInt(args[1])), args) = Accepted
  BY DEF CheckMode, Accepted
<1>2. ModeShape(opcode)[1] = IF opcode = ASSERT_ANNOUNCEMENT THEN "mode" ELSE "pair_mode"
  BY ShapeKinds
<1>3. "mode" \notin DOMAIN Widths /\ "pair_mode" \notin DOMAIN Widths
  BY DEF Widths
<1>4. Ranges["mode"] = 0..31 /\ Ranges["pair_mode"] = 0..1023
  BY DEF Ranges
<1>5. IsMinimal(args[1]) /\ AtomToInt(args[1]) \in Ranges[ModeShape(opcode)[1]]
  BY <1>1, <1>2, <1>3 DEF IsOperand
<1>6. /\ AtomToInt(args[1]) \in 0..1023
      /\ opcode = ASSERT_ANNOUNCEMENT => AtomToInt(args[1]) \in 0..31
  <2> DEFINE v == AtomToInt(args[1])
  <2>1. v \in Ranges[ModeShape(opcode)[1]]
    BY <1>5
  <2> HIDE DEF v
  <2>2. CASE opcode = ASSERT_ANNOUNCEMENT
    <3>1. v \in 0..31
      BY <1>2, <1>4, <2>1, <2>2
    <3> QED BY <3>1 DEF v
  <2>3. CASE opcode # ASSERT_ANNOUNCEMENT
    <3>1. ModeShape(opcode)[1] = "pair_mode"
      BY <1>2, <2>3
    <3>2. v \in Ranges["pair_mode"]
      BY <2>1, <3>1
    <3>3. v \in 0..1023
      BY <1>4, <3>2
    <3> QED BY <2>3, <3>3 DEF v
  <2> QED BY <2>2, <2>3
<1> QED
  BY <1>1, <1>5, <1>6 DEF IsMinimal

\* The condition c has the halves of its mode.
HasHalves(c, opcode, mode) ==
    c.opcode = opcode /\ c.own = OwnHalf(opcode, mode)
      /\ c.commitment = ArgumentHalf(opcode, mode)

\* A mode that the argument of this opcode can be.
IsModeOf(opcode, mode) ==
    /\ opcode \in {ASSERT_ANNOUNCEMENT, ASSURE, REQUIRE}
    /\ mode \in 0..1023
    /\ opcode = ASSERT_ANNOUNCEMENT => mode \in 0..31

\* The assurer's half is above the requirer's.
LEMMA ModeEncodesBack ==
    ASSUME NEW opcode, NEW mode, IsModeOf(opcode, mode),
           NEW c, HasHalves(c, opcode, mode)
    PROVE  EncodeMode(c) = mode /\ ArgumentHalf(opcode, mode) \in 0..31
<1>6. /\ opcode \in {ASSERT_ANNOUNCEMENT, ASSURE, REQUIRE} /\ mode \in 0..1023
      /\ opcode = ASSERT_ANNOUNCEMENT => mode \in 0..31
  BY DEF IsModeOf
<1>7. mode \in 0..1023
  BY <1>6
<1>1. ASSERT_ANNOUNCEMENT # ASSURE /\ ASSERT_ANNOUNCEMENT # REQUIRE /\ ASSURE # REQUIRE
  BY DEF ASSERT_ANNOUNCEMENT, ASSURE, REQUIRE
<1>2. /\ LowHalf(mode) \in 0..31 /\ HighHalf(mode) \in 0..31
      /\ 32 * HighHalf(mode) + LowHalf(mode) = mode
      /\ mode <= 31 => LowHalf(mode) = mode
  BY ONLY <1>7, ModeHalves, ZenonT(30)
<1>3. CASE opcode = ASSURE
  BY <1>1, <1>2, <1>3, <1>6, SMTT(20) DEF EncodeMode, OwnHalf, ArgumentHalf, HasHalves
<1>4. CASE opcode = REQUIRE
  BY <1>1, <1>2, <1>4, <1>6, SMTT(20) DEF EncodeMode, OwnHalf, ArgumentHalf, HasHalves
<1>5. CASE opcode = ASSERT_ANNOUNCEMENT
  BY <1>1, <1>2, <1>5, <1>6, SMTT(20) DEF EncodeMode, OwnHalf, ArgumentHalf, HasHalves
<1> QED
  BY <1>3, <1>4, <1>5, <1>6

\* A sequence that is cut in three.
LEMMA ThreeParts ==
    ASSUME NEW S, NEW s \in Seq(S), NEW a \in S, NEW b \in Seq(S), NEW c \in Seq(S),
           Len(s) = 1 + Len(b) + Len(c),
           s[1] = a, \A i \in 1..Len(b) : s[i + 1] = b[i],
           \A i \in 1..Len(c) : s[1 + Len(b) + i] = c[i]
    PROVE  (<<a>> \o b) \o c = s
<1> DEFINE t == (<<a>> \o b) \o c
           m == Len(b)
           n == Len(c)
<1>1. m \in Nat /\ n \in Nat
  OBVIOUS
<1>2. <<a>> \o b \in Seq(S) /\ Len(<<a>> \o b) = 1 + m
  OBVIOUS
<1>3. t \in Seq(S) /\ Len(t) = 1 + m + n
  BY <1>2
<1>4. t[1] = a
  BY <1>2
<1>5. ASSUME NEW i \in 1..m PROVE t[i + 1] = b[i]
  BY <1>1, <1>2
<1>6. ASSUME NEW i \in 1..n PROVE t[1 + m + i] = c[i]
  BY <1>1, <1>2
<1>7. ASSUME NEW j \in 1..(1 + m + n) PROVE t[j] = s[j]
  <2> HIDE DEF t
  <2>1. s[1] = a /\ \A i \in 1..m : s[i + 1] = b[i]
    OBVIOUS
  <2>2. \A i \in 1..n : s[1 + m + i] = c[i]
    OBVIOUS
  <2> HIDE DEF m, n
  <2>3. CASE j = 1
    BY <1>4, <2>1, <2>3
  <2>4. CASE j > 1 /\ j <= 1 + m
    <3>1. j - 1 \in 1..m /\ (j - 1) + 1 = j
      BY <1>1, <2>4
    <3> QED BY <1>5, <2>1, <3>1
  <2>5. CASE j > 1 + m
    <3>1. j - 1 - m \in 1..n /\ 1 + m + (j - 1 - m) = j
      BY <1>1, <2>5
    <3> QED BY <1>6, <2>2, <3>1
  <2> QED BY <1>1, <2>3, <2>4, <2>5
<1> HIDE DEF t
<1>8. t = s
  BY <1>3, <1>7, SeqEqual
<1> QED
  BY <1>8 DEF t

\* A condition with a mode encodes back into its arguments.
LEMMA AddressedEncodesBack ==
    ASSUME NEW opcode, NEW S, NEW args \in Seq(S), Trees(args), NEW c,
           opcode < ReservedStart, FixedKinds(opcode) = <<>>, ModeShape(opcode) # <<>>,
           CheckMode(opcode, args) = Accepted,
           c = [opcode |-> opcode,
                own |-> OwnHalf(opcode, AtomToInt(args[1])),
                commitment |-> ArgumentHalf(opcode, AtomToInt(args[1])),
                operands |-> SubSeq(Operands(ModeKinds(opcode, AtomToInt(args[1])), args),
                                    2, Len(ModeShape(opcode))),
                fields |-> SubSeq(Operands(ModeKinds(opcode, AtomToInt(args[1])), args),
                                  Len(ModeShape(opcode)) + 1,
                                  Len(Operands(ModeKinds(opcode, AtomToInt(args[1])), args)))]
    PROVE  EncodeArgs(c) = args
<1> DEFINE mode == AtomToInt(args[1])
           half == ArgumentHalf(opcode, mode)
           shape == ModeShape(opcode)
           spec == SPECIFIER_OPERANDS[half]
           kinds == ModeKinds(opcode, mode)
           operands == Operands(kinds, args)
           n == Len(args)
           p == Len(shape)
           V == {operands[i] : i \in 1..n}
<1>1. /\ opcode \in {ASSERT_ANNOUNCEMENT, ASSURE, REQUIRE}
      /\ shape \in Seq(ModeKindNames) /\ p \in {2, 3}
      /\ \A i \in 2..p : shape[i] = "payload"
  BY ShapeKinds
<1>2. /\ mode \in 0..1023 /\ (opcode = ASSERT_ANNOUNCEMENT => mode \in 0..31)
      /\ IntToAtom(mode) = args[1] /\ CheckArgs(kinds, args) = Accepted
  BY CheckedMode
<1>3. /\ c.opcode = opcode /\ c.own = OwnHalf(opcode, mode) /\ c.commitment = half
      /\ c.operands = SubSeq(operands, 2, p) /\ c.fields = SubSeq(operands, p + 1, Len(operands))
  OBVIOUS
<1>4. EncodeMode(c) = mode /\ half \in 0..31
  <2>1. HasHalves(c, opcode, mode)
    BY <1>3 DEF HasHalves
  <2>2. opcode \in {ASSERT_ANNOUNCEMENT, ASSURE, REQUIRE}
    BY <1>1
  <2>3. mode \in 0..1023 /\ (opcode = ASSERT_ANNOUNCEMENT => mode \in 0..31)
    BY <1>2
  <2>4. half = ArgumentHalf(opcode, mode)
    OBVIOUS
  <2> HIDE DEF mode, half
  <2>5. IsModeOf(opcode, mode)
    BY ONLY <2>2, <2>3 DEF IsModeOf
  <2>6. EncodeMode(c) = mode /\ ArgumentHalf(opcode, mode) \in 0..31
    BY ONLY <2>1, <2>5, ModeEncodesBack
  <2> QED BY ONLY <2>4, <2>6
<1>5. spec \in Seq(ModeKindNames)
  BY <1>4, SpecifierKinds
<1>6. /\ kinds = shape \o spec /\ Len(kinds) = p + Len(spec) /\ Len(spec) \in Nat
      /\ \A i \in 1..p : kinds[i] = shape[i]
      /\ \A i \in 1..Len(spec) : kinds[p + i] = spec[i]
  <2>1. kinds = shape \o spec
    BY DEF ModeKinds
  <2> HIDE DEF shape, spec, kinds
  <2> QED BY <1>1, <1>5, <2>1
<1>7. /\ n \in Nat /\ Len(kinds) = n /\ n = p + Len(spec)
      /\ \A i \in 1..n : IsOperand(kinds[i], args[i])
  <2>1. n \in Nat
    OBVIOUS
  <2> QED BY <1>2, <1>6, <2>1, CheckedArgs
<1>8. ASSUME NEW i \in 1..n
      PROVE  /\ operands[i] = Operand(kinds[i], args[i])
             /\ EncodeOperand(kinds[i], operands[i]) = args[i]
             /\ args[i] \in S
  <2>1. operands[i] = Operand(kinds[i], args[i])
    BY <1>7 DEF Operands
  <2>2. IsTree(args[i]) /\ IsOperand(kinds[i], args[i]) /\ args[i] \in S
    BY <1>7 DEF Trees
  <2> QED BY <2>1, <2>2, OperandEncodesBack
<1>9. operands = [i \in 1..n |-> operands[i]] /\ Len(operands) = n
  BY <1>7 DEF Operands
<1> HIDE DEF operands, n, p, kinds, spec, shape, half, mode
<1>10. operands \in Seq(V)
  <2>1. \A i \in 1..n : operands[i] \in V
    OBVIOUS
  <2>2. n \in Nat
    BY <1>7
  <2> HIDE DEF V
  <2>3. [i \in 1..n |-> operands[i]] \in Seq(V)
    BY <2>1, <2>2
  <2> QED BY <1>9, <2>3
<1>11. /\ Len(c.operands) = p - 1
       /\ \A i \in 1..(p - 1) : c.operands[i] = operands[i + 1]
       /\ Len(c.fields) = Len(spec)
       /\ \A i \in 1..Len(spec) : c.fields[i] = operands[p + i]
  <2> HIDE DEF V
  <2>1. n \in Nat /\ Len(spec) \in Nat /\ n = p + Len(spec) /\ p \in {2, 3}
    BY <1>1, <1>6, <1>7
  <2> DEFINE k == Len(spec)
  <2> HIDE DEF k
  <2>2. \A i \in 2..p : operands[i] \in V
    BY <1>10, <1>9, <2>1 DEF k
  <2>3. \A i \in (p+1)..n : operands[i] \in V
    BY <1>10, <1>9, <2>1 DEF k
  <2>4. /\ Len(SubSeq(operands, 2, p)) = p - 1
        /\ \A i \in 1..(p - 1) : SubSeq(operands, 2, p)[i] = operands[i + 1]
    <3>1. 2 \in Int /\ p \in Int /\ 2 <= p /\ p - 2 + 1 = p - 1
      BY <2>1
    <3>2. /\ Len(SubSeq(operands, 2, p)) = p - 2 + 1
          /\ \A i \in 1..(p - 2 + 1) : SubSeq(operands, 2, p)[i] = operands[2 + i - 1]
      BY <2>2, <3>1, SubSeqProperties
    <3> QED BY <3>1, <3>2
  <2>5. /\ Len(SubSeq(operands, p + 1, n)) = k
        /\ \A i \in 1..k : SubSeq(operands, p + 1, n)[i] = operands[p + i]
    <3>1. p + 1 \in Int /\ n \in Int /\ n - (p + 1) + 1 = k /\ k \in Nat /\ p \in Int
          /\ (p + 1 <= n <=> k > 0)
      BY <2>1 DEF k
    <3>2. /\ Len(SubSeq(operands, p + 1, n)) = IF p + 1 <= n THEN n - (p + 1) + 1 ELSE 0
          /\ \A i \in 1..(n - (p + 1) + 1) :
               SubSeq(operands, p + 1, n)[i] = operands[(p + 1) + i - 1]
      BY <2>3, <3>1, SubSeqProperties
    <3> QED BY <3>1, <3>2
  <2> QED BY <1>3, <1>9, <2>4, <2>5 DEF k
<1> DEFINE b == [i \in 1..Len(c.operands) |-> Atom(c.operands[i])]
           d == EncodeOperands(spec, c.fields)
<1>12. b \in Seq(S) /\ Len(b) = p - 1 /\ \A i \in 1..(p - 1) : b[i] = args[i + 1]
  <2>1. ASSUME NEW i \in 1..(p - 1) PROVE Atom(c.operands[i]) = args[i + 1] /\ args[i + 1] \in S
    <3>1. i + 1 \in 1..n /\ i + 1 \in 2..p /\ i + 1 \in 1..p
      BY <1>1, <1>6, <1>7
    <3>2. kinds[i + 1] = "payload" /\ "payload" \in DOMAIN Widths
      BY <1>1, <1>6, <3>1 DEF Widths
    <3>3. EncodeOperand(kinds[i + 1], operands[i + 1]) = Atom(operands[i + 1])
      BY <3>2 DEF EncodeOperand
    <3> QED BY <1>8, <1>11, <3>1, <3>3
  <2>2. b = [i \in 1..(p - 1) |-> args[i + 1]]
    BY <1>11, <2>1
  <2> DEFINE m == p - 1
  <2>3. m \in Nat
    BY <1>1
  <2> HIDE DEF b, m
  <2>4. b = [i \in 1..m |-> args[i + 1]] /\ \A i \in 1..m : args[i + 1] \in S
    BY <2>1, <2>2 DEF m
  <2>5. b \in Seq(S) /\ Len(b) = m /\ \A i \in 1..m : b[i] = args[i + 1]
    BY <2>3, <2>4
  <2> QED BY <2>5 DEF m
<1>13. d \in Seq(S) /\ Len(d) = Len(spec) /\ \A i \in 1..Len(spec) : d[i] = args[p + i]
  <2>1. ASSUME NEW i \in 1..Len(spec)
        PROVE  EncodeOperand(spec[i], c.fields[i]) = args[p + i] /\ args[p + i] \in S
    <3>1. p + i \in 1..n
      <4> DEFINE k == Len(spec)
      <4>1. k \in Nat /\ i \in 1..k /\ n = p + k /\ p \in {2, 3}
        BY <1>1, <1>6, <1>7
      <4> HIDE DEF k
      <4> QED BY <4>1
    <3> QED BY <1>6, <1>8, <1>11, <3>1
  <2>2. d = [i \in 1..Len(spec) |-> args[p + i]]
    BY <2>1 DEF EncodeOperands
  <2>3. Len(spec) \in Nat
    BY <1>6
  <2> HIDE DEF d
  <2> QED BY <2>1, <2>2, <2>3
<1>14. EncodeArgs(c) = (<<IntToAtom(mode)>> \o b) \o d
  <2>1. ~(c.opcode >= ReservedStart) /\ FixedKinds(c.opcode) = <<>>
        /\ spec = SPECIFIER_OPERANDS[c.commitment]
    BY <1>1, <1>3 DEF spec, ReservedStart, ASSERT_ANNOUNCEMENT, ASSURE, REQUIRE
  <2> HIDE DEF b
  <2>2. EncodeArgs(c) = <<IntToAtom(EncodeMode(c))>>
           \o [i \in 1..Len(c.operands) |-> Atom(c.operands[i])]
           \o EncodeOperands(SPECIFIER_OPERANDS[c.commitment], c.fields)
    BY <2>1 DEF EncodeArgs
  <2> QED BY <1>4, <2>1, <2>2 DEF b
<1> HIDE DEF b, d
<1>15. (<<args[1]>> \o b) \o d = args
  <2>1. args[1] \in S /\ n = 1 + (p - 1) + Len(spec)
    <3>1. 1 \in 1..n
      BY <1>1, <1>6, <1>7
    <3>2. args[1] \in S
      BY <1>8, <3>1
    <3> DEFINE k == Len(spec)
    <3>3. k \in Nat /\ n = p + k /\ p \in {2, 3}
      BY <1>1, <1>6, <1>7
    <3> HIDE DEF k
    <3>4. n = 1 + (p - 1) + k
      BY <3>3
    <3> QED BY <3>2, <3>4 DEF k
  <2>2. Len(args) = 1 + Len(b) + Len(d)
    BY <1>12, <1>13, <2>1 DEF n
  <2>3. \A i \in 1..Len(b) : args[i + 1] = b[i]
    BY <1>12
  <2>4. 1 + Len(b) = p
    BY <1>1, <1>12
  <2>5. \A i \in 1..Len(d) : args[1 + Len(b) + i] = d[i]
    BY <1>13, <2>4
  <2> QED BY <1>12, <1>13, <2>1, <2>2, <2>3, <2>5, ThreeParts
<1> QED
  BY <1>2, <1>14, <1>15

\* A well-formed element that the checks accept.
IsAccepted(e) == IsElement(e) /\ Check(e) = Accepted

\* What an accepted element consists of.
LEMMA AcceptedParts ==
    ASSUME NEW e, IsAccepted(e)
    PROVE  /\ e = ListOf(<<First(e)>> \o Args(e))
           /\ Args(e) \in Seq(Parts(e)) /\ Trees(Args(e))
           /\ First(e) = Atom(<<Opcode(e)>>) /\ Opcode(e) \in Byte
           /\ IF Opcode(e) >= ReservedStart THEN CheckReserved(Args(e)) = Accepted
              ELSE IF FixedKinds(Opcode(e)) # <<>>
              THEN CheckArgs(FixedKinds(Opcode(e)), Args(e)) = Accepted
              ELSE ModeShape(Opcode(e)) # <<>> /\ CheckMode(Opcode(e), Args(e)) = Accepted
<1>1. IsTree(e) /\ \A a \in Parts(e) : IsTree(a)
  BY DEF IsAccepted, IsElement
<1>2. IsPair(e) /\ IsProperList(e) /\ IsOpcode(First(e))
  BY DEF IsAccepted, Check, Accepted
<1>3. /\ e = ListOf(<<First(e)>> \o Args(e)) /\ Args(e) \in Seq(Parts(e))
      /\ First(e) \in Parts(e)
  BY <1>1, <1>2, ArgsAreTail, ListParts
<1>4. Trees(Args(e))
  BY <1>1, <1>3 DEF Trees
<1>5. First(e) = Atom(<<Opcode(e)>>) /\ Opcode(e) \in Byte
  <2> DEFINE b == First(e).bytes
  <2>1. IsBytes(First(e))
    BY <1>1, <1>2, <1>3 DEF IsTree, IsSpine, IsOpcode, IsAtom, IsPair
  <2>2. First(e) = Atom(b) /\ b \in Seq(Byte) /\ Len(b) = 1
    BY <1>2, <2>1 DEF IsBytes, IsOpcode, ByteLen
  <2>3. Opcode(e) = b[1]
    <3>1. Opcode(e) = Unsigned(b)
      BY DEF Opcode
    <3> HIDE DEF b
    <3> QED BY <2>2, <3>1, UnsignedType
  <2>4. b = <<b[1]>> /\ b[1] \in Byte
    <3> HIDE DEF b
    <3> DEFINE t == <<b[1]>>
    <3>1. b[1] \in Byte
      BY <2>2
    <3>2. t \in Seq(Byte) /\ Len(t) = 1 /\ t[1] = b[1]
      BY <3>1
    <3> HIDE DEF t
    <3>3. b = t
      BY <2>2, <3>2, SeqEqual
    <3> QED BY <3>1, <3>3 DEF t
  <2> QED BY <2>2, <2>3, <2>4
<1>6. Accepted # "bad_condition_opcode"
  BY DEF Accepted
<1> QED
  BY <1>2, <1>3, <1>4, <1>5, <1>6 DEF IsAccepted, Check

\* What an accepted element parses into, by the layout of its opcode.
LEMMA AcceptedParse ==
    ASSUME NEW e, IsAccepted(e)
    PROVE  EncodeArgs(Parse(e)) = Args(e) /\ Parse(e).opcode = Opcode(e)
<1> DEFINE opcode == Opcode(e)
           args == Args(e)
           S == Parts(e)
           mode == AtomToInt(args[1])
           operands == Operands(ModeKinds(opcode, mode), args)
           plain == Len(ModeShape(opcode))
<1>1. /\ args \in Seq(S) /\ Trees(args) /\ opcode \in Byte
      /\ IF opcode >= ReservedStart THEN CheckReserved(args) = Accepted
         ELSE IF FixedKinds(opcode) # <<>>
         THEN CheckArgs(FixedKinds(opcode), args) = Accepted
         ELSE ModeShape(opcode) # <<>> /\ CheckMode(opcode, args) = Accepted
  BY AcceptedParts
<1>2. Parse(e) =
        IF opcode >= ReservedStart
        THEN [opcode |-> opcode, cost |-> mode, args |-> Tail(args)]
        ELSE IF FixedKinds(opcode) # <<>>
        THEN [opcode |-> opcode, operands |-> Operands(FixedKinds(opcode), args)]
        ELSE [opcode |-> opcode,
              own |-> OwnHalf(opcode, mode),
              commitment |-> ArgumentHalf(opcode, mode),
              operands |-> SubSeq(operands, 2, plain),
              fields |-> SubSeq(operands, plain + 1, Len(operands))]
  BY DEF Parse
<1>7. opcode < ReservedStart <=> ~(opcode >= ReservedStart)
  <2>1. opcode \in Byte
    BY <1>1
  <2> HIDE DEF opcode
  <2>2. opcode \in Int
    BY <2>1 DEF Byte
  <2> QED BY <2>2 DEF ReservedStart
<1>3. Parse(e).opcode = opcode
  <2> HIDE DEF opcode, args, mode, operands, plain
  <2> QED BY <1>2
<1>4. CASE opcode >= ReservedStart
  <2>1. IntToAtom(mode) = args[1] /\ args # <<>>
    BY <1>1, <1>4 DEF CheckReserved, IsMinimal, Accepted
  <2>2. Parse(e).cost = mode /\ Parse(e).args = Tail(args)
    <3> HIDE DEF opcode, args, mode
    <3> QED BY <1>2, <1>4
  <2>3. <<args[1]>> \o Tail(args) = args
    <3> HIDE DEF args, S
    <3> QED BY <1>1, <2>1
  <2>4. EncodeArgs(Parse(e)) = <<IntToAtom(mode)>> \o Tail(args)
    <3> HIDE DEF opcode, args, mode
    <3> QED BY <1>3, <1>4, <2>2 DEF EncodeArgs
  <2> QED BY <1>3, <2>1, <2>3, <2>4
<1>5. CASE opcode < ReservedStart /\ FixedKinds(opcode) # <<>>
  <2>1. ~(opcode >= ReservedStart)
    BY <1>5, <1>7
  <2>2. Parse(e).operands = Operands(FixedKinds(opcode), args)
    <3> HIDE DEF opcode, args, mode
    <3> QED BY <1>2, <1>5, <2>1
  <2>3. EncodeOperands(FixedKinds(opcode), Operands(FixedKinds(opcode), args)) = args
    <3> HIDE DEF opcode, args, S
    <3> QED BY <1>1, <1>5, <2>1, OperandsEncodeBack
  <2>4. EncodeArgs(Parse(e)) = EncodeOperands(FixedKinds(opcode), Parse(e).operands)
    <3> HIDE DEF opcode, args, mode
    <3> QED BY <1>3, <1>5, <2>1 DEF EncodeArgs
  <2> QED BY <1>3, <2>2, <2>3, <2>4
<1>6. CASE opcode < ReservedStart /\ FixedKinds(opcode) = <<>>
  <2>1. ~(opcode >= ReservedStart)
    BY <1>6, <1>7
  <2>2. ModeShape(opcode) # <<>> /\ CheckMode(opcode, args) = Accepted
    BY <1>1, <1>6, <2>1
  <2>3. Parse(e) = [opcode |-> opcode,
                    own |-> OwnHalf(opcode, mode),
                    commitment |-> ArgumentHalf(opcode, mode),
                    operands |-> SubSeq(operands, 2, plain),
                    fields |-> SubSeq(operands, plain + 1, Len(operands))]
    BY <1>2, <1>6, <2>1
  <2>4. EncodeArgs(Parse(e)) = args
    <3> HIDE DEF opcode, args, S
    <3> QED BY <1>1, <1>6, <2>2, <2>3, AddressedEncodesBack
  <2> QED BY <1>3, <2>4
<1> QED
  BY <1>4, <1>5, <1>6, <1>7

\* A condition that has parsed encodes back into the element it came from.
LEMMA ElementEncodesBack ==
    ASSUME NEW e, IsAccepted(e)
    PROVE  ListOf(<<Atom(<<Parse(e).opcode>>)>> \o EncodeArgs(Parse(e))) = e
<1>1. Atom(<<Parse(e).opcode>>) = First(e) /\ EncodeArgs(Parse(e)) = Args(e)
  BY AcceptedParts, AcceptedParse
<1> QED
  BY <1>1, AcceptedParts

\* The cost of an accepted condition is a natural number.
LEMMA AcceptedCost ==
    ASSUME NEW e, IsAccepted(e)
    PROVE  condition_cost(Parse(e)) \in Nat
<1> DEFINE args == Args(e)
           c == Parse(e)
<1>1. c.opcode = Opcode(e)
  BY AcceptedParse
<1>2. CASE Opcode(e) >= ReservedStart
  <2>1. /\ args # <<>> /\ IsAtom(args[1]) /\ ~(AtomToInt(args[1]) < 0)
        /\ args \in Seq(Parts(e)) /\ Trees(args)
    BY <1>2, AcceptedParts DEF CheckReserved, Accepted
  <2>2. IsTree(args[1])
    <3> HIDE DEF args
    <3>1. 1 \in DOMAIN args
      BY <2>1
    <3> QED BY <2>1, <3>1 DEF Trees
  <2>3. IsBytes(args[1])
    BY <2>1, <2>2 DEF IsTree, IsSpine, IsAtom, IsPair
  <2>4. AtomToInt(args[1]) \in Int
    BY <2>3, AtomToIntType
  <2>5. c.cost = AtomToInt(args[1])
    BY <1>2 DEF Parse
  <2> QED BY <1>1, <1>2, <2>1, <2>4, <2>5 DEF condition_cost
<1>3. CASE ~(Opcode(e) >= ReservedStart)
  <2> HIDE DEF c
  <2> QED BY <1>1, <1>3 DEF condition_cost, CREATE_OUTPUT_COST, TAPROOT_TWEAK_COST,
            CONDITION_SIG_ASSERT_COST, CONDITION_MESSAGE_COST, CONDITION_GENERIC_COST,
            SECP_VERIFY_COST, c
<1> QED
  BY <1>2, <1>3

-----------------------------------------------------------------------------
(* Sums of costs. *)

\* Equal amounts have equal running totals, as far as they go.
LEMMA TotalsPrefix ==
    ASSUME NEW s \in Int, NEW a, NEW b, IsInts(a), IsInts(b), Len(a) <= Len(b),
           \A i \in 1..Len(a) : a[i] = b[i]
    PROVE  \A i \in 0..Len(a) : Totals(s, a)[i] = Totals(s, b)[i]
<1> DEFINE g == Totals(s, b)
           k == Len(a)
           n == Len(b)
<1>1. g[0] = s /\ \A i \in 1..n : g[i] = g[i-1] + b[i]
  BY TotalsDef DEF IsInts
<1>2. k \in Nat /\ n \in Nat /\ k <= n /\ \A i \in 1..k : a[i] \in Int /\ a[i] = b[i]
  BY DEF IsInts
<1>3. Tracks(g, s, a)
  <2> HIDE DEF g, n
  <2>1. \A i \in 1..k : g[i] = g[i-1] + a[i]
    <3> HIDE DEF k
    <3> QED BY <1>1, <1>2
  <2> QED BY <1>1, <1>2, <2>1 DEF Tracks
<1> HIDE DEF g
<1>4. \A i \in 0..Len(a) : Totals(s, a)[i] = g[i]
  BY <1>3, TotalsUnique
<1> QED
  BY <1>4 DEF g

\* The costs of conditions, in order.
CostsOf(cs) == [i \in 1..Len(cs) |-> condition_cost(cs[i])]

\* The conditions cs are sound to add up.
HaveCosts(cs) == Len(cs) \in Nat /\ \A i \in 1..Len(cs) : condition_cost(cs[i]) \in Nat

\* Their costs are integers.
LEMMA CostsAreInts ==
    ASSUME NEW cs, HaveCosts(cs)
    PROVE  IsInts(CostsOf(cs)) /\ Len(CostsOf(cs)) = Len(cs)
<1> DEFINE n == Len(cs)
<1>1. n \in Nat /\ \A i \in 1..n : condition_cost(cs[i]) \in Nat
  BY DEF HaveCosts
<1>2. CostsOf(cs) = [i \in 1..n |-> condition_cost(cs[i])]
  BY DEF CostsOf
<1> HIDE DEF n
<1>3. Len(CostsOf(cs)) = n /\ \A i \in 1..n : CostsOf(cs)[i] \in Int
  BY <1>1, <1>2
<1> QED
  BY <1>1, <1>3 DEF n, IsInts

\* ds begins with cs.
BeginsWith(ds, cs) ==
    HaveCosts(cs) /\ HaveCosts(ds) /\ Len(cs) <= Len(ds)
      /\ \A i \in 1..Len(cs) : ds[i] = cs[i]

\* Conditions that begin with others have their totals, and one more adds its cost.
LEMMA TotalsExtend ==
    ASSUME NEW s \in Int, NEW cs, NEW ds, BeginsWith(ds, cs)
    PROVE  /\ \A i \in 0..Len(cs) : Totals(s, CostsOf(ds))[i] = Totals(s, CostsOf(cs))[i]
           /\ Total(s, CostsOf(cs)) = Totals(s, CostsOf(cs))[Len(cs)]
           /\ Total(s, CostsOf(cs)) \in Int
           /\ Len(cs) < Len(ds) =>
                Totals(s, CostsOf(ds))[Len(cs) + 1]
                  = Total(s, CostsOf(cs)) + condition_cost(ds[Len(cs) + 1])
<1> DEFINE a == CostsOf(cs)
           b == CostsOf(ds)
           k == Len(cs)
           n == Len(ds)
<1>1. IsInts(a) /\ Len(a) = k /\ IsInts(b) /\ Len(b) = n
  BY CostsAreInts DEF BeginsWith
<1>2. k \in Nat /\ n \in Nat /\ k <= n /\ \A i \in 1..k : ds[i] = cs[i]
  BY DEF BeginsWith, HaveCosts
<1>3. ASSUME NEW i \in 1..k PROVE a[i] = b[i]
  <2>1. i \in 1..n
    <3> HIDE DEF k, n
    <3> QED BY <1>2
  <2> QED BY <1>2, <2>1 DEF CostsOf
<1>4. \A i \in 1..n : b[i] = condition_cost(ds[i])
  BY DEF CostsOf
<1>5. /\ Totals(s, b)[0] = s /\ \A i \in 1..n : Totals(s, b)[i] = Totals(s, b)[i-1] + b[i]
      /\ Totals(s, a) \in [0..k -> Int]
  BY <1>1, TotalsDef DEF IsInts
<1> HIDE DEF a, b, k, n
<1>6. \A i \in 0..k : Totals(s, a)[i] = Totals(s, b)[i]
  BY <1>1, <1>2, <1>3, TotalsPrefix
<1>7. Total(s, a) = Totals(s, a)[k] /\ Totals(s, a)[k] \in Int
  BY <1>1, <1>2, <1>5 DEF Total
<1>8. k < n => Totals(s, b)[k + 1] = Total(s, a) + condition_cost(ds[k + 1])
  <2> SUFFICES ASSUME k < n PROVE Totals(s, b)[k + 1] = Total(s, a) + condition_cost(ds[k + 1])
    OBVIOUS
  <2>1. k + 1 \in 1..n /\ (k + 1) - 1 = k /\ k \in 0..k
    BY <1>2
  <2>2. Totals(s, b)[k + 1] = Totals(s, b)[k] + b[k + 1]
    BY <1>5, <2>1
  <2> QED BY <1>4, <1>6, <1>7, <2>1, <2>2
<1> QED
  BY <1>6, <1>7, <1>8 DEF a, b, k, n

-----------------------------------------------------------------------------
(* The walk along the list. *)

\* A list as a program can return it.
IsGood(list) == IsTree(list) /\ \A element \in Parts(list) : IsElement(element)

\* cs are the conditions of the first elements of the list.
Reads(list, cs) ==
    /\ Len(cs) \in Nat /\ Len(cs) <= Len(ListElems(list))
    /\ cs \in Seq({Parse(e) : e \in {x \in Parts(list) : IsAccepted(x)}})
    /\ \A i \in 1..Len(cs) :
          /\ IsAccepted(ListElems(list)[i])
          /\ cs[i] = Parse(ListElems(list)[i])
          /\ NeedsDerivation(cs[i]) => Derives(cs[i])

\* What is left of the list after its first k elements.
Unread(list, k) ==
    IF IsPair(list) /\ k < Len(list.elems)
    THEN Spine(SubSeq(list.elems, k + 1, Len(list.elems)), list.tail)
    ELSE IF IsPair(list) THEN list.tail ELSE list

\* The elements of a list.
LEMMA GoodElements ==
    ASSUME NEW list, IsGood(list)
    PROVE  /\ Len(ListElems(list)) \in Nat
           /\ ListElems(list) \in Seq(Parts(list))
           /\ DOMAIN ListElems(list) = 1..Len(ListElems(list))
           /\ \A i \in 1..Len(ListElems(list)) :
                ListElems(list)[i] \in Parts(list) /\ IsElement(ListElems(list)[i])
<1>1. CASE IsPair(list)
  <2>1. ListElems(list) = list.elems /\ list.elems \in Seq(Parts(list))
    BY <1>1, ListParts DEF IsGood
  <2> DEFINE s == list.elems
             S == Parts(list)
  <2>2. \A e \in S : IsElement(e)
    BY DEF IsGood
  <2>3. s \in Seq(S)
    BY <2>1
  <2> HIDE DEF s, S
  <2>4. Len(s) \in Nat /\ DOMAIN s = 1..Len(s) /\ \A i \in 1..Len(s) : s[i] \in S
    BY <2>3
  <2> QED BY <2>1, <2>2, <2>4 DEF s, S
<1>2. CASE ~IsPair(list)
  <2>1. ListElems(list) = <<>>
    BY <1>2 DEF ListElems
  <2> QED BY <2>1
<1> QED
  BY <1>1, <1>2

\* All of the list is left at first.
LEMMA UnreadFirst ==
    ASSUME NEW list, IsGood(list)
    PROVE  Unread(list, 0) = list
<1>1. CASE IsPair(list)
  <2> DEFINE s == list.elems
             S == Parts(list)
  <2>1. list = Spine(s, list.tail) /\ s \in Seq(S) /\ Len(s) \in Nat /\ Len(s) > 0
    BY <1>1, ListParts DEF IsGood
  <2> HIDE DEF S
  <2>2. SubSeq(s, 1, Len(s)) = s
    BY <2>1, SubSeqFull
  <2>3. Unread(list, 0) = Spine(SubSeq(s, 0 + 1, Len(s)), list.tail)
    BY <1>1, <2>1 DEF Unread
  <2>4. 0 + 1 = 1
    OBVIOUS
  <2> HIDE DEF s
  <2> QED BY <2>1, <2>2, <2>3, <2>4
<1>2. CASE ~IsPair(list)
  BY <1>2 DEF Unread
<1> QED
  BY <1>1, <1>2

\* While elements are left, the next is First of what is left, and Rest
\* goes on behind it; after them an atom is left.
LEMMA UnreadNext ==
    ASSUME NEW list, IsGood(list), NEW k \in Nat, k <= Len(ListElems(list))
    PROVE  /\ IsPair(Unread(list, k)) <=> k < Len(ListElems(list))
           /\ IsAtom(Unread(list, k)) <=> k = Len(ListElems(list))
           /\ k < Len(ListElems(list)) =>
                /\ First(Unread(list, k)) = ListElems(list)[k + 1]
                /\ Rest(Unread(list, k)) = Unread(list, k + 1)
           /\ k = Len(ListElems(list)) => (Unread(list, k) = Nil <=> IsProperList(list))
<1>1. CASE IsPair(list)
  <2> DEFINE s == list.elems
             S == Parts(list)
             n == Len(s)
             left == SubSeq(s, k + 1, n)
  <2>1. /\ s \in Seq(S) /\ n \in Nat /\ n > 0 /\ ListElems(list) = s /\ IsBytes(list.tail)
        /\ list # Nil
    BY <1>1, ListParts DEF IsGood, Nil, Atom, IsPair
  <2>2. k <= n
    BY <2>1
  <2>3. CASE k < n
    <3>1. Unread(list, k) = Spine(left, list.tail)
      BY <1>1, <2>3 DEF Unread
    <3>2. IsPair(Unread(list, k)) /\ ~IsAtom(Unread(list, k))
      BY <3>1 DEF Spine, IsPair, IsAtom
    <3> HIDE DEF S
    <3>3. k + 1 \in 1..n /\ n \in (k+1)..n
      BY <2>1, <2>3
    <3>4. Head(left) = s[k + 1] /\ Tail(left) = SubSeq(s, (k + 1) + 1, n)
      BY <2>1, <3>3, HeadTailOfSubSeq
    <3>5. Len(left) = n - k
      <4> HIDE DEF n
      <4>1. \A i \in (k+1)..n : s[i] \in S
        BY <2>1, <3>3 DEF n
      <4>2. k + 1 \in Int /\ n \in Int /\ k + 1 <= n /\ n - (k + 1) + 1 = n - k
        BY <2>1, <3>3
      <4> QED BY <4>1, <4>2, SubSeqProperties
    <3>6. First(Unread(list, k)) = s[k + 1]
      <4> HIDE DEF left, s
      <4>1. Unread(list, k).elems = left
        BY <3>1 DEF Spine
      <4> QED BY <3>4, <4>1 DEF First
    <3>7. Rest(Unread(list, k)) = Unread(list, k + 1)
      <4>1. CASE k + 1 < n
        <5>1. Len(left) # 1
          <6> HIDE DEF n, left
          <6> QED BY <2>1, <3>5, <4>1
        <5>2. Rest(Unread(list, k)) = Spine(Tail(left), list.tail)
          BY <3>1, <5>1 DEF Rest, Spine
        <5> QED BY <1>1, <3>4, <4>1, <5>2 DEF Unread
      <4>2. CASE ~(k + 1 < n)
        <5>1. Len(left) = 1
          <6> HIDE DEF n, left
          <6> QED BY <2>1, <2>3, <3>5, <4>2
        <5>2. Rest(Unread(list, k)) = list.tail
          BY <3>1, <5>1 DEF Rest, Spine
        <5> QED BY <1>1, <4>2, <5>2 DEF Unread
      <4> QED BY <4>1, <4>2
    <3> HIDE DEF s, n
    <3> QED BY <2>1, <2>3, <3>2, <3>6, <3>7 DEF n
  <2>4. CASE k = n
    <3>1. Unread(list, k) = list.tail
      BY <1>1, <2>1, <2>4 DEF Unread
    <3>2. IsAtom(list.tail) /\ ~IsPair(list.tail)
      BY <2>1 DEF IsBytes, IsAtom, IsPair
    <3>3. list.tail = Nil <=> IsProperList(list)
      BY <1>1, <2>1 DEF IsProperList
    <3> QED BY <2>1, <2>4, <3>1, <3>2, <3>3
  <2> QED BY <2>1, <2>2, <2>3, <2>4
<1>2. CASE ~IsPair(list)
  <2>1. ListElems(list) = <<>> /\ Unread(list, k) = list /\ k = 0
    BY <1>2 DEF ListElems, Unread
  <2>2. IsAtom(list)
    BY <1>2 DEF IsGood, IsTree, IsSpine, IsBytes
  <2> QED BY <1>2, <2>1, <2>2 DEF IsProperList
<1> QED
  BY <1>1, <1>2

\* Conditions read have costs.
LEMMA ReadsHaveCosts ==
    ASSUME NEW list, NEW cs, Reads(list, cs)
    PROVE  HaveCosts(cs)
<1>1. ASSUME NEW i \in 1..Len(cs) PROVE condition_cost(cs[i]) \in Nat
  BY AcceptedCost DEF Reads
<1> QED
  BY <1>1 DEF Reads, HaveCosts

\* The next element is accepted, and derives if it has to.
MayAccept(list, k) ==
    LET e == ListElems(list)[k + 1]
    IN  /\ k < Len(ListElems(list)) /\ Check(e) = Accepted
        /\ NeedsDerivation(Parse(e)) => Derives(Parse(e))

\* One more condition is read.
LEMMA ReadsMore ==
    ASSUME NEW list, IsGood(list), NEW cs, Reads(list, cs), MayAccept(list, Len(cs)),
           NEW ds, ds = Append(cs, Parse(ListElems(list)[Len(cs) + 1]))
    PROVE  /\ Reads(list, ds) /\ BeginsWith(ds, cs)
           /\ Len(ds) = Len(cs) + 1
           /\ ds[Len(cs) + 1] = Parse(ListElems(list)[Len(cs) + 1])
<1> DEFINE k == Len(cs)
           E == ListElems(list)
           n == Len(E)
           W == {Parse(e) : e \in {x \in Parts(list) : IsAccepted(x)}}
           e1 == E[k + 1]
<1>1. /\ n \in Nat /\ k \in Nat /\ k < n /\ cs \in Seq(W)
      /\ \A i \in 1..k : IsAccepted(E[i]) /\ cs[i] = Parse(E[i])
                           /\ (NeedsDerivation(cs[i]) => Derives(cs[i]))
  BY GoodElements DEF Reads, MayAccept
<1>2. k + 1 \in 1..n
  <2> HIDE DEF n, k
  <2> QED BY <1>1
<1>3. e1 \in Parts(list) /\ IsElement(e1)
  BY <1>2, GoodElements
<1>4. IsAccepted(e1) /\ Parse(e1) \in W /\ (NeedsDerivation(Parse(e1)) => Derives(Parse(e1)))
  BY <1>3 DEF IsAccepted, MayAccept
<1>5. /\ ds \in Seq(W) /\ Len(ds) = k + 1 /\ ds[k + 1] = Parse(e1)
      /\ \A i \in 1..k : ds[i] = cs[i]
  <2> DEFINE c == Parse(e1)
  <2>1. ds = Append(cs, c) /\ c \in W /\ cs \in Seq(W) /\ Len(cs) = k /\ k \in Nat
    BY <1>1, <1>4
  <2> HIDE DEF W, c, k
  <2>2. /\ ds \in Seq(W) /\ Len(ds) = k + 1 /\ ds[k + 1] = c
        /\ \A i \in 1..k : ds[i] = cs[i]
    BY ONLY <2>1
  <2> QED BY <2>2 DEF c
<1>6. ASSUME NEW i \in 1..(k + 1)
      PROVE  /\ IsAccepted(E[i]) /\ ds[i] = Parse(E[i])
             /\ (NeedsDerivation(ds[i]) => Derives(ds[i]))
  <2>1. CASE i = k + 1
    BY <1>4, <1>5, <2>1
  <2>2. CASE i # k + 1
    <3>1. i \in 1..k
      <4> HIDE DEF k
      <4> QED BY <1>1, <2>2
    <3> QED BY <1>1, <1>5, <3>1
  <2> QED BY <2>1, <2>2
<1>7. Reads(list, ds)
  <2>1. Len(ds) \in Nat /\ Len(ds) <= n
    <3> HIDE DEF k, n
    <3> QED BY <1>1, <1>5
  <2> QED BY <1>5, <1>6, <2>1 DEF Reads
<1>8. BeginsWith(ds, cs)
  <2>1. HaveCosts(cs) /\ HaveCosts(ds)
    BY <1>7, ReadsHaveCosts
  <2>2. Len(cs) <= Len(ds)
    <3> HIDE DEF k
    <3> QED BY <1>1, <1>5 DEF k
  <2> QED BY <1>5, <2>1, <2>2 DEF BeginsWith
<1> QED
  BY <1>5, <1>7, <1>8

\* Every total so far is within the budget.
Affordable(budget, s, cs) ==
    \A i \in 0..Len(cs) : budget # NoBudget => Totals(s, CostsOf(cs))[i] <= budget

\* ds is cs and one more condition, whose cost the budget covers.
AffordsMore(budget, s, cs, ds) ==
    /\ BeginsWith(ds, cs) /\ Len(ds) = Len(cs) + 1 /\ Affordable(budget, s, cs)
    /\ budget # NoBudget =>
         Total(s, CostsOf(cs)) + condition_cost(ds[Len(ds)]) <= budget

\* One more affordable condition.
LEMMA AffordableMore ==
    ASSUME NEW budget, NEW s \in Int, NEW cs, NEW ds, AffordsMore(budget, s, cs, ds)
    PROVE  /\ Affordable(budget, s, ds)
           /\ Total(s, CostsOf(ds)) = Total(s, CostsOf(cs)) + condition_cost(ds[Len(ds)])
<1> DEFINE k == Len(cs)
<1> USE DEF AffordsMore
<1>1. k \in Nat /\ Len(ds) = k + 1
  BY DEF BeginsWith, HaveCosts
<1>2. /\ \A i \in 0..k : Totals(s, CostsOf(ds))[i] = Totals(s, CostsOf(cs))[i]
      /\ Totals(s, CostsOf(ds))[k + 1] = Total(s, CostsOf(cs)) + condition_cost(ds[k + 1])
  <2>1. Len(cs) < Len(ds)
    <3> HIDE DEF k
    <3> QED BY <1>1 DEF k
  <2> QED BY <2>1, TotalsExtend
<1>3. Total(s, CostsOf(ds)) = Totals(s, CostsOf(ds))[k + 1]
  <2>1. Len(CostsOf(ds)) = Len(ds)
    BY CostsAreInts DEF BeginsWith
  <2> QED BY <1>1, <2>1 DEF Total
<1>4. ASSUME NEW i \in 0..(k + 1), budget # NoBudget
      PROVE  Totals(s, CostsOf(ds))[i] <= budget
  <2>1. CASE i = k + 1
    BY <1>1, <1>2, <1>4, <2>1
  <2>2. CASE i # k + 1
    <3>1. i \in 0..k
      <4> HIDE DEF k
      <4> QED BY <1>1, <2>2
    <3> QED BY <1>2, <1>4, <3>1 DEF Affordable
  <2> QED BY <2>1, <2>2
<1> QED
  BY <1>1, <1>2, <1>3, <1>4 DEF Affordable

-----------------------------------------------------------------------------
(* The verdict on the whole list. *)

\* p are the conditions of the elements before the first malformed one.
IsParsedPrefix(list, p) ==
    /\ Len(ListElems(list)) \in Nat
    /\ Len(p) \in Nat /\ Len(p) <= Len(ListElems(list)) /\ DOMAIN p = 1..Len(p)
    /\ \A i \in 1..Len(p) :
          p[i] = Parse(ListElems(list)[i]) /\ IsAccepted(ListElems(list)[i])
    /\ Len(p) < Len(ListElems(list)) => Check(ListElems(list)[Len(p) + 1]) # Accepted

\* A function over 1..m is a sequence of length m.
LEMMA IsSequence ==
    ASSUME NEW m \in Nat, NEW f, f = [i \in 1..m |-> f[i]]
    PROVE  Len(f) = m
<1> DEFINE V == {f[i] : i \in 1..m}
<1>1. \A i \in 1..m : f[i] \in V
  OBVIOUS
<1> HIDE DEF V
<1>2. [i \in 1..m |-> f[i]] \in Seq(V) /\ Len([i \in 1..m |-> f[i]]) = m
  BY <1>1
<1> QED
  BY <1>2

\* ParsedPrefix is what it says.
LEMMA ParsedPrefixIs ==
    ASSUME NEW list, IsGood(list)
    PROVE  IsParsedPrefix(list, ParsedPrefix(ListElems(list)))
<1> DEFINE E == ListElems(list)
           n == Len(E)
           malformed == {i \in DOMAIN E : Check(E[i]) # Accepted}
           D == {i \in DOMAIN E : \A j \in malformed : i < j}
           p == [i \in D |-> Parse(E[i])]
<1>1. /\ n \in Nat /\ DOMAIN E = 1..n
      /\ \A i \in 1..n : IsElement(E[i])
  BY GoodElements
<1>2. ParsedPrefix(E) = p
  BY DEF ParsedPrefix
<1>3. \E m \in 0..n : D = 1..m /\ (m < n => Check(E[m + 1]) # Accepted)
  <2> HIDE DEF E
  <2>1. CASE malformed = {}
    <3>1. D = 1..n /\ n \in 0..n
      BY <1>1, <2>1
    <3> QED BY <3>1
  <2>2. CASE malformed # {}
    <3>1. malformed \in SUBSET Nat /\ malformed \subseteq 1..n
      BY <1>1
    <3>2. PICK j \in malformed : \A i \in malformed : j <= i
      <4> HIDE DEF malformed
      <4> QED BY <2>2, <3>1, LeastElement
    <3>3. j \in 1..n /\ j - 1 \in 0..n /\ (j - 1) + 1 = j
      BY <1>1, <3>1, <3>2
    <3>4. D = 1..(j - 1)
      <4>1. \A i \in 1..n : (\A l \in malformed : i < l) <=> i < j
        <5> HIDE DEF malformed
        <5> QED BY <1>1, <3>1, <3>2, <3>3
      <4>2. D = {i \in 1..n : i < j}
        BY <1>1, <4>1
      <4> QED BY <1>1, <3>3, <4>2
    <3>5. Check(E[(j - 1) + 1]) # Accepted
      BY <3>2, <3>3
    <3> QED BY <3>3, <3>4, <3>5
  <2> QED BY <2>1, <2>2
<1>4. PICK m \in 0..n : D = 1..m /\ (m < n => Check(E[m + 1]) # Accepted)
  BY <1>3
<1>5. p = [i \in 1..m |-> p[i]] /\ DOMAIN p = 1..m /\ \A i \in 1..m : p[i] = Parse(E[i])
  BY <1>4
<1>6. m \in Nat /\ m <= n
  BY <1>1, <1>4
<1>7. Len(p) = m
  <2> HIDE DEF p
  <2> QED BY <1>5, <1>6, IsSequence
<1>8. ASSUME NEW i \in 1..m PROVE IsAccepted(E[i])
  <2>1. i \in 1..n /\ i \in D
    BY <1>1, <1>4, <1>6
  <2>2. i \notin malformed
    <3>1. \A j \in malformed : i < j
      BY <2>1
    <3>2. ~(i < i)
      BY <2>1
    <3> HIDE DEF malformed
    <3> QED BY <3>1, <3>2
  <2> QED BY <1>1, <2>1, <2>2 DEF IsAccepted
<1> HIDE DEF p, D
<1> QED
  BY <1>2, <1>4, <1>5, <1>6, <1>7, <1>8 DEF IsParsedPrefix

\* What has been read is the beginning of the parsed prefix.
LEMMA ReadIsPrefix ==
    ASSUME NEW list, NEW p, IsParsedPrefix(list, p), NEW cs, Reads(list, cs)
    PROVE  /\ BeginsWith(p, cs)
           /\ Len(cs) = Len(p) \/ (Len(cs) < Len(p) /\ p[Len(cs) + 1] = Parse(ListElems(list)[Len(cs) + 1]))
           /\ Len(cs) < Len(ListElems(list)) =>
                (Len(cs) = Len(p) <=> Check(ListElems(list)[Len(cs) + 1]) # Accepted)
<1> DEFINE E == ListElems(list)
           k == Len(cs)
           m == Len(p)
           n == Len(E)
<1>1. /\ k \in Nat /\ k <= n
      /\ \A i \in 1..k : IsAccepted(E[i]) /\ cs[i] = Parse(E[i])
  BY DEF Reads
<1>2. /\ n \in Nat /\ m \in Nat /\ m <= n
      /\ \A i \in 1..m : p[i] = Parse(E[i]) /\ IsAccepted(E[i])
      /\ m < n => Check(E[m + 1]) # Accepted
  BY DEF IsParsedPrefix
<1>3. HaveCosts(cs) /\ HaveCosts(p)
  <2>1. \A i \in 1..m : condition_cost(p[i]) \in Nat
    BY <1>2, AcceptedCost
  <2> QED BY <1>2, <2>1, ReadsHaveCosts DEF HaveCosts
<1>4. \A i \in 1..k : Check(E[i]) = Accepted
  BY <1>1 DEF IsAccepted
<1>5. \A i \in 1..m : Check(E[i]) = Accepted
  BY <1>2 DEF IsAccepted
<1> HIDE DEF E, n, k, m
<1>7. k <= m
  <2>1. SUFFICES ASSUME m < k PROVE FALSE
    BY <1>1, <1>2
  <2>2. m + 1 \in 1..k
    BY <1>1, <1>2, <2>1
  <2>3. Check(E[m + 1]) = Accepted
    BY <1>4, <2>2
  <2>4. m < n
    BY <1>1, <1>2, <2>1
  <2> QED BY <1>2, <2>3, <2>4
<1>8. \A i \in 1..k : p[i] = cs[i]
  BY <1>1, <1>2, <1>7
<1>9. k = m \/ (k < m /\ p[k + 1] = Parse(E[k + 1]))
  <2> SUFFICES ASSUME k # m PROVE k < m /\ p[k + 1] = Parse(E[k + 1])
    OBVIOUS
  <2>1. k < m /\ k + 1 \in 1..m
    BY <1>1, <1>2, <1>7
  <2> QED BY <1>2, <2>1
<1>10. k < n => (k = m <=> Check(E[k + 1]) # Accepted)
  <2> SUFFICES ASSUME k < n PROVE k = m <=> Check(E[k + 1]) # Accepted
    OBVIOUS
  <2>1. CASE k = m
    BY <1>2, <2>1
  <2>2. CASE k # m
    <3>1. k + 1 \in 1..m
      BY <1>1, <1>2, <1>7, <2>2
    <3> QED BY <1>5, <2>2, <3>1
  <2> QED BY <2>1, <2>2
<1> QED
  BY <1>3, <1>7, <1>8, <1>9, <1>10 DEF BeginsWith, E, n, k, m

\* The faults among the conditions p: those that burst the budget, and those
\* that the curve's logarithms say derive no key.
Bursts(budget, s, p) ==
    {i \in 1..Len(p) : budget # NoBudget /\ Totals(s, CostsOf(p))[i] > budget}
Undoes(p) == {i \in 1..Len(p) : NeedsDerivation(p[i]) /\ DerivableKeys(p[i]) = {}}

\* The verdict in these terms.
LEMMA VerdictIs ==
    ASSUME NEW list, NEW budget, NEW s, NEW p, p = ParsedPrefix(ListElems(list))
    PROVE  /\ (\E i \in Bursts(budget, s, p) : \A j \in Undoes(p) : i <= j) =>
                VerdictOn(list, budget, s) = "cost_exceeded"
           /\ /\ ~\E i \in Bursts(budget, s, p) : \A j \in Undoes(p) : i <= j
              /\ Undoes(p) # {}
              => VerdictOn(list, budget, s) = "bad_condition_arg"
           /\ Bursts(budget, s, p) = {} /\ Undoes(p) = {} /\ Len(p) < Len(ListElems(list)) =>
                VerdictOn(list, budget, s) = Check(ListElems(list)[Len(p) + 1])
           /\ Bursts(budget, s, p) = {} /\ Undoes(p) = {} /\ ~(Len(p) < Len(ListElems(list))) =>
                VerdictOn(list, budget, s) =
                  IF IsProperList(list) THEN "done" ELSE "bad_condition_list"
BY DEF VerdictOn, VerdictAfter, Bursts, Undoes, CostsOf

\* Derivations agree with the logarithms on the elements of the lists.
LEMMA Derivations ==
    ASSUME NEW list \in Lists, NEW e \in Parts(list), IsAccepted(e), NeedsDerivation(Parse(e))
    PROVE  Derives(Parse(e)) <=> DerivableKeys(Parse(e)) # {}
BY DerivationsExist DEF IsAccepted

\* Nothing that has been read is a fault.
LEMMA NoFaultRead ==
    ASSUME NEW list \in Lists, NEW budget, budget # NoBudget => budget \in Nat,
           NEW s \in Int, NEW cs, Reads(list, cs),
           Affordable(budget, s, cs), NEW p, p = ParsedPrefix(ListElems(list))
    PROVE  /\ IsParsedPrefix(list, p) /\ BeginsWith(p, cs)
           /\ \A i \in Bursts(budget, s, p) \cup Undoes(p) :
                 i \in 1..Len(p) /\ i > Len(cs)
<1> DEFINE k == Len(cs)
           E == ListElems(list)
<1>1. IsGood(list)
  BY ListsAreTrees DEF IsGood
<1>2. IsParsedPrefix(list, p)
  BY <1>1, ParsedPrefixIs
<1>3. BeginsWith(p, cs)
  BY <1>2, ReadIsPrefix
<1>4. k \in Nat /\ Len(p) \in Nat /\ k <= Len(p) /\ \A i \in 1..k : p[i] = cs[i]
  BY <1>3 DEF BeginsWith, HaveCosts
<1>5. \A i \in 0..k : Totals(s, CostsOf(p))[i] = Totals(s, CostsOf(cs))[i]
  BY <1>3, TotalsExtend
<1>6. ASSUME NEW i \in 1..k PROVE i \notin Bursts(budget, s, p)
  <2>1. i \in 0..k
    <3> HIDE DEF k
    <3> QED BY <1>4
  <2>2. Totals(s, CostsOf(p))[i] = Totals(s, CostsOf(cs))[i]
    BY <1>5, <2>1
  <2>3. Totals(s, CostsOf(cs))[i] \in Int
    <3>1. IsInts(CostsOf(cs)) /\ Len(CostsOf(cs)) = k
      BY <1>3, CostsAreInts DEF BeginsWith
    <3>2. Totals(s, CostsOf(cs)) \in [0..k -> Int]
      BY <3>1, TotalsDef DEF IsInts
    <3> QED BY <2>1, <3>2
  <2>4. budget # NoBudget => Totals(s, CostsOf(cs))[i] <= budget
    BY <2>1 DEF Affordable
  <2> QED BY <2>2, <2>3, <2>4 DEF Bursts
<1>7. ASSUME NEW i \in 1..k PROVE i \notin Undoes(p)
  <2>1. IsAccepted(E[i]) /\ cs[i] = Parse(E[i]) /\ (NeedsDerivation(cs[i]) => Derives(cs[i]))
    BY DEF Reads
  <2>2. E[i] \in Parts(list)
    <3>1. k <= Len(E) /\ Len(E) \in Nat
      BY <1>1, GoodElements DEF Reads
    <3>2. i \in 1..Len(E)
      <4> HIDE DEF k, E
      <4> QED BY <1>4, <3>1
    <3> QED BY <1>1, <3>2, GoodElements
  <2>3. NeedsDerivation(cs[i]) => DerivableKeys(cs[i]) # {}
    BY <2>1, <2>2, Derivations
  <2> QED BY <1>4, <2>3 DEF Undoes
<1>8. ASSUME NEW i \in Bursts(budget, s, p) \cup Undoes(p)
      PROVE  i \in 1..Len(p) /\ i > k
  <2>1. i \in 1..Len(p)
    BY DEF Bursts, Undoes
  <2>2. i \notin 1..k
    BY <1>6, <1>7
  <2> HIDE DEF k
  <2> QED BY <1>4, <2>1, <2>2
<1> QED
  BY <1>2, <1>3, <1>8

\* A list that has been read to its end is judged by its tail.
LEMMA AllRead ==
    ASSUME NEW list \in Lists, NEW budget, budget # NoBudget => budget \in Nat,
           NEW s \in Int, NEW cs, Reads(list, cs), Affordable(budget, s, cs),
           Len(cs) = Len(ListElems(list))
    PROVE  VerdictOn(list, budget, s) =
             IF IsProperList(list) THEN "done" ELSE "bad_condition_list"
<1> DEFINE p == ParsedPrefix(ListElems(list))
<1>1. /\ IsParsedPrefix(list, p) /\ BeginsWith(p, cs)
      /\ \A i \in Bursts(budget, s, p) \cup Undoes(p) : i \in 1..Len(p) /\ i > Len(cs)
  BY NoFaultRead
<1> HIDE DEF p
<1>2. Len(p) \in Nat /\ Len(p) = Len(cs) /\ Len(cs) = Len(ListElems(list))
  BY <1>1 DEF IsParsedPrefix, BeginsWith, HaveCosts
<1>3. Bursts(budget, s, p) = {} /\ Undoes(p) = {}
  <2> DEFINE m == Len(p)
             F == Bursts(budget, s, p) \cup Undoes(p)
  <2>1. m \in Nat /\ \A i \in F : i \in 1..m /\ i > m
    BY <1>1, <1>2
  <2> HIDE DEF m, F
  <2>2. F = {}
    BY <2>1
  <2> QED BY <2>2 DEF F
<1>4. ~(Len(p) < Len(ListElems(list)))
  BY <1>2
<1>5. p = ParsedPrefix(ListElems(list))
  BY DEF p
<1> QED
  BY <1>3, <1>4, <1>5, VerdictIs

\* A malformed element decides when no fault came before it.
LEMMA NextMalformed ==
    ASSUME NEW list \in Lists, NEW budget, budget # NoBudget => budget \in Nat,
           NEW s \in Int, NEW cs, Reads(list, cs), Affordable(budget, s, cs),
           Len(cs) < Len(ListElems(list)),
           Check(ListElems(list)[Len(cs) + 1]) # Accepted
    PROVE  VerdictOn(list, budget, s) = Check(ListElems(list)[Len(cs) + 1])
<1> DEFINE p == ParsedPrefix(ListElems(list))
<1>1. /\ IsParsedPrefix(list, p) /\ BeginsWith(p, cs)
      /\ \A i \in Bursts(budget, s, p) \cup Undoes(p) : i \in 1..Len(p) /\ i > Len(cs)
  BY NoFaultRead
<1> HIDE DEF p
<1>2. Len(cs) = Len(p) /\ Len(p) \in Nat
  BY <1>1, ReadIsPrefix DEF IsParsedPrefix
<1>3. Bursts(budget, s, p) = {} /\ Undoes(p) = {}
  <2> DEFINE m == Len(p)
             F == Bursts(budget, s, p) \cup Undoes(p)
  <2>1. m \in Nat /\ \A i \in F : i \in 1..m /\ i > m
    BY <1>1, <1>2
  <2> HIDE DEF m, F
  <2>2. F = {}
    BY <2>1
  <2> QED BY <2>2 DEF F
<1>4. p = ParsedPrefix(ListElems(list))
  BY DEF p
<1> QED
  BY <1>2, <1>3, <1>4, VerdictIs

\* A condition that is well formed is the next of the parsed prefix.
LEMMA NextInPrefix ==
    ASSUME NEW list \in Lists, NEW budget, budget # NoBudget => budget \in Nat,
           NEW s \in Int, NEW cs, Reads(list, cs), Affordable(budget, s, cs),
           Len(cs) < Len(ListElems(list)),
           Check(ListElems(list)[Len(cs) + 1]) = Accepted,
           NEW p, p = ParsedPrefix(ListElems(list))
    PROVE  /\ Len(cs) \in Nat /\ Len(cs) + 1 \in 1..Len(p)
           /\ p[Len(cs) + 1] = Parse(ListElems(list)[Len(cs) + 1])
           /\ IsAccepted(ListElems(list)[Len(cs) + 1])
           /\ ListElems(list)[Len(cs) + 1] \in Parts(list)
           /\ Totals(s, CostsOf(p))[Len(cs) + 1] =
                Total(s, CostsOf(cs)) + condition_cost(Parse(ListElems(list)[Len(cs) + 1]))
           /\ Total(s, CostsOf(cs)) \in Int
           /\ condition_cost(Parse(ListElems(list)[Len(cs) + 1])) \in Nat
           /\ \A i \in Bursts(budget, s, p) \cup Undoes(p) : i \in Nat /\ i >= Len(cs) + 1
<1> DEFINE k == Len(cs)
           E == ListElems(list)
<1>1. /\ IsParsedPrefix(list, p) /\ BeginsWith(p, cs)
      /\ \A i \in Bursts(budget, s, p) \cup Undoes(p) : i \in 1..Len(p) /\ i > k
  BY NoFaultRead
<1>2. Len(cs) < Len(p) /\ p[k + 1] = Parse(E[k + 1])
  BY <1>1, ReadIsPrefix
<1>3. k \in Nat /\ Len(p) \in Nat /\ \A i \in 1..Len(p) : IsAccepted(E[i])
  BY <1>1 DEF IsParsedPrefix, BeginsWith, HaveCosts
<1>4. k + 1 \in 1..Len(p)
  <2>1. k < Len(p)
    BY <1>2
  <2> HIDE DEF k
  <2> QED BY <1>3, <2>1
<1>5. IsAccepted(E[k + 1])
  BY <1>3, <1>4
<1>6. E[k + 1] \in Parts(list)
  <2>1. IsGood(list)
    BY ListsAreTrees DEF IsGood
  <2>2. Len(E) \in Nat /\ k < Len(E)
    BY <2>1, GoodElements
  <2>3. k + 1 \in 1..Len(E)
    <3> HIDE DEF k, E
    <3> QED BY <1>3, <2>2
  <2> QED BY <2>1, <2>3, GoodElements
<1>7. /\ Totals(s, CostsOf(p))[k + 1] = Total(s, CostsOf(cs)) + condition_cost(p[k + 1])
      /\ Total(s, CostsOf(cs)) \in Int
  BY <1>1, <1>2, TotalsExtend
<1>8. condition_cost(Parse(E[k + 1])) \in Nat
  BY <1>5, AcceptedCost
<1>9. \A i \in Bursts(budget, s, p) \cup Undoes(p) : i \in Nat /\ i >= k + 1
  <2> DEFINE F == Bursts(budget, s, p) \cup Undoes(p)
  <2>1. \A i \in F : i \in 1..Len(p) /\ i > k
    BY <1>1
  <2> HIDE DEF F, k
  <2>2. \A i \in F : i \in Nat /\ i >= k + 1
    BY <1>3, <2>1
  <2> QED BY <2>2 DEF F
<1> QED
  BY <1>2, <1>3, <1>4, <1>5, <1>6, <1>7, <1>8, <1>9

\* The condition that the budget cannot pay decides.
LEMMA NextBursts ==
    ASSUME NEW list \in Lists, NEW budget, budget \in Nat, budget # NoBudget,
           NEW s \in Int, NEW cs, Reads(list, cs), Affordable(budget, s, cs),
           Len(cs) < Len(ListElems(list)),
           Check(ListElems(list)[Len(cs) + 1]) = Accepted,
           Total(s, CostsOf(cs)) + condition_cost(Parse(ListElems(list)[Len(cs) + 1])) > budget
    PROVE  VerdictOn(list, budget, s) = "cost_exceeded"
<1> DEFINE p == ParsedPrefix(ListElems(list))
           k == Len(cs)
           e == ListElems(list)[k + 1]
           total == Total(s, CostsOf(cs)) + condition_cost(Parse(e))
<1>0. budget # NoBudget => budget \in Nat
  OBVIOUS
<1>1. /\ k \in Nat /\ k + 1 \in 1..Len(p)
      /\ p[k + 1] = Parse(e) /\ IsAccepted(e) /\ e \in Parts(list)
      /\ Totals(s, CostsOf(p))[k + 1] = total
      /\ total \in Int
      /\ \A i \in Bursts(budget, s, p) \cup Undoes(p) : i \in Nat /\ i >= k + 1
  <2>1. /\ list \in Lists /\ s \in Int /\ Reads(list, cs) /\ Affordable(budget, s, cs)
        /\ Len(cs) < Len(ListElems(list)) /\ Check(ListElems(list)[Len(cs) + 1]) = Accepted
    OBVIOUS
  <2> QED BY ONLY <1>0, <2>1, NextInPrefix
<1>7. total > budget
  OBVIOUS
<1> HIDE DEF p, k, e, total
<1>2. k + 1 \in Bursts(budget, s, p)
  BY <1>1, <1>7 DEF Bursts
<1>3. \A j \in Undoes(p) : k + 1 <= j
  BY <1>1
<1>4. p = ParsedPrefix(ListElems(list))
  BY DEF p
<1> QED
  BY <1>2, <1>3, <1>4, VerdictIs

\* The condition that derives no key decides, when the budget can pay it.
LEMMA NextUndoes ==
    ASSUME NEW list \in Lists, NEW budget, budget # NoBudget => budget \in Nat,
           NEW s \in Int, NEW cs, Reads(list, cs), Affordable(budget, s, cs),
           Len(cs) < Len(ListElems(list)),
           Check(ListElems(list)[Len(cs) + 1]) = Accepted,
           budget # NoBudget =>
             Total(s, CostsOf(cs)) + condition_cost(Parse(ListElems(list)[Len(cs) + 1])) <= budget,
           NeedsDerivation(Parse(ListElems(list)[Len(cs) + 1])),
           ~Derives(Parse(ListElems(list)[Len(cs) + 1]))
    PROVE  VerdictOn(list, budget, s) = "bad_condition_arg"
<1> DEFINE p == ParsedPrefix(ListElems(list))
           k == Len(cs)
           e == ListElems(list)[k + 1]
           total == Total(s, CostsOf(cs)) + condition_cost(Parse(e))
<1>1. /\ k \in Nat /\ k + 1 \in 1..Len(p)
      /\ p[k + 1] = Parse(e) /\ IsAccepted(e) /\ e \in Parts(list)
      /\ Totals(s, CostsOf(p))[k + 1] = total
      /\ total \in Int
      /\ \A i \in Bursts(budget, s, p) \cup Undoes(p) : i \in Nat /\ i >= k + 1
  BY NextInPrefix
<1>2. DerivableKeys(Parse(e)) = {}
  BY <1>1, Derivations
<1>3. NeedsDerivation(Parse(e)) /\ (budget # NoBudget => total <= budget /\ budget \in Nat)
  OBVIOUS
<1> HIDE DEF p, k, e, total
<1>4. k + 1 \in Undoes(p)
  BY <1>1, <1>2, <1>3 DEF Undoes
<1>5. k + 1 \notin Bursts(budget, s, p)
  BY <1>1, <1>3 DEF Bursts
<1>6. ~\E i \in Bursts(budget, s, p) : \A j \in Undoes(p) : i <= j
  <2> SUFFICES ASSUME NEW i \in Bursts(budget, s, p), i <= k + 1 PROVE FALSE
    BY <1>4
  <2>1. i \in Nat /\ i >= k + 1
    BY <1>1
  <2>2. i = k + 1
    BY <1>1, <2>1
  <2> QED BY <1>5, <2>2
<1>7. p = ParsedPrefix(ListElems(list))
  BY DEF p
<1> QED
  BY <1>4, <1>6, <1>7, VerdictIs

-----------------------------------------------------------------------------
(* The inductive invariant: the conditions so far are the parsed elements  *)
(* of the list's beginning, the rest is what follows them, the meter shows *)
(* their sum and every total on the way was affordable.                    *)

ArgumentsOK == node \in Lists /\ max_cost \in Budgets /\ start \in Spent
WalkInv == Reads(node, parsed) /\ rest = Unread(node, Len(parsed))
MeterInv ==
    outcome \in {"running", "done"} =>
        cost = Total(start, CostsOf(parsed)) /\ Affordable(max_cost, start, parsed)
IInv == ArgumentsOK /\ WalkInv /\ MeterInv /\ FirstFaultDecides


\* What the invariant says of a running parse.
LEMMA RunningParse ==
    ASSUME IInv, outcome = "running"
    PROVE  /\ node \in Lists /\ IsGood(node) /\ start \in Int
           /\ max_cost # NoBudget => max_cost \in Nat
           /\ Reads(node, parsed) /\ HaveCosts(parsed)
           /\ Len(parsed) \in Nat /\ Len(ListElems(node)) \in Nat
           /\ cost = Total(start, CostsOf(parsed)) /\ cost \in Int
           /\ Affordable(max_cost, start, parsed)
           /\ IsPair(rest) =>
                /\ Len(parsed) < Len(ListElems(node))
                /\ First(rest) = ListElems(node)[Len(parsed) + 1]
                /\ Rest(rest) = Unread(node, Len(parsed) + 1)
           /\ IsAtom(rest) =>
                Len(parsed) = Len(ListElems(node)) /\ (rest = Nil <=> IsProperList(node))
<1>1. node \in Lists /\ max_cost \in Budgets /\ start \in Spent
      /\ Reads(node, parsed) /\ rest = Unread(node, Len(parsed))
  BY DEF IInv, ArgumentsOK, WalkInv
<1>2. cost = Total(start, CostsOf(parsed)) /\ Affordable(max_cost, start, parsed)
  BY DEF IInv, MeterInv
<1>3. IsGood(node) /\ start \in Int /\ (max_cost # NoBudget => max_cost \in Nat)
  BY <1>1, ListsAreTrees, BudgetsAreCosts DEF IsGood
<1>4. Len(parsed) \in Nat /\ Len(parsed) <= Len(ListElems(node)) /\ HaveCosts(parsed)
  BY <1>1, ReadsHaveCosts DEF Reads
<1>5. Len(ListElems(node)) \in Nat
  BY <1>3, GoodElements
<1>6. Total(start, CostsOf(parsed)) \in Int
  <2>1. BeginsWith(parsed, parsed)
    BY <1>4 DEF BeginsWith
  <2> QED BY <1>3, <2>1, TotalsExtend
<1>7. /\ IsPair(rest) <=> Len(parsed) < Len(ListElems(node))
      /\ IsAtom(rest) <=> Len(parsed) = Len(ListElems(node))
      /\ Len(parsed) < Len(ListElems(node)) =>
           /\ First(rest) = ListElems(node)[Len(parsed) + 1]
           /\ Rest(rest) = Unread(node, Len(parsed) + 1)
      /\ Len(parsed) = Len(ListElems(node)) => (rest = Nil <=> IsProperList(node))
  BY <1>1, <1>3, <1>4, UnreadNext
<1> QED
  BY <1>1, <1>2, <1>3, <1>4, <1>5, <1>6, <1>7

\* The end of a parse: a verdict, or an accepted condition that changes nothing else.
LEMMA IInvDecided ==
    ASSUME IInv, UNCHANGED <<arguments, rest, parsed>>,
           outcome' \notin {"running", "done"} \/ (outcome = "running" /\ UNCHANGED cost),
           outcome' # "running" => outcome' = VerdictOn(node, max_cost, start)
    PROVE  IInv'
<1>1. node' = node /\ max_cost' = max_cost /\ start' = start /\ rest' = rest /\ parsed' = parsed
  BY DEF arguments
<1>2. ArgumentsOK' /\ WalkInv'
  BY <1>1 DEF IInv, ArgumentsOK, WalkInv
<1>3. MeterInv'
  BY <1>1 DEF IInv, MeterInv
<1>4. FirstFaultDecides'
  BY <1>1 DEF FirstFaultDecides
<1> QED
  BY <1>2, <1>3, <1>4 DEF IInv

\* Nothing but the conditions read, what is left and the meter change when
\* a condition is accepted.
LEMMA IInvAccepted ==
    ASSUME IInv, AtElement, Check(First(rest)) = Accepted, UNCHANGED arguments,
           NeedsDerivation(Parse(First(rest))) => Derives(Parse(First(rest))),
           cost' = cost + condition_cost(Parse(First(rest))),
           max_cost # NoBudget => cost' <= max_cost,
           Accept(Parse(First(rest)))
    PROVE  IInv'
<1> DEFINE k == Len(parsed)
           e == ListElems(node)[k + 1]
           ds == Append(parsed, Parse(e))
<1>1. /\ node \in Lists /\ IsGood(node) /\ start \in Int /\ Reads(node, parsed)
      /\ k < Len(ListElems(node)) /\ First(rest) = e
      /\ Rest(rest) = Unread(node, k + 1)
      /\ cost = Total(start, CostsOf(parsed)) /\ Affordable(max_cost, start, parsed)
      /\ outcome = "running"
  BY RunningParse DEF AtElement
<1>2. /\ node' = node /\ max_cost' = max_cost /\ start' = start /\ outcome' = outcome
      /\ parsed' = ds /\ rest' = Unread(node, k + 1)
  BY <1>1 DEF arguments, Accept
<1>3. MayAccept(node, k)
  BY <1>1 DEF MayAccept
<1>4. /\ Reads(node, ds) /\ BeginsWith(ds, parsed) /\ Len(ds) = k + 1
      /\ ds[k + 1] = Parse(e)
  BY <1>1, <1>3, ReadsMore
<1>5. max_cost # NoBudget => Total(start, CostsOf(parsed)) + condition_cost(ds[Len(ds)]) <= max_cost
  BY <1>1, <1>4
<1>6. /\ Affordable(max_cost, start, ds)
      /\ Total(start, CostsOf(ds)) = Total(start, CostsOf(parsed)) + condition_cost(Parse(e))
  <2>1. Len(ds) = Len(parsed) + 1 /\ ds[Len(ds)] = Parse(e)
    BY <1>4
  <2> HIDE DEF ds, e
  <2>2. /\ Affordable(max_cost, start, ds)
        /\ Total(start, CostsOf(ds)) = Total(start, CostsOf(parsed)) + condition_cost(ds[Len(ds)])
    <3>1. start \in Int /\ AffordsMore(max_cost, start, parsed, ds)
      BY <1>1, <1>4, <1>5, <2>1 DEF AffordsMore
    <3> QED BY <3>1, AffordableMore
  <2> QED BY <2>1, <2>2
<1>7. cost' = Total(start, CostsOf(ds))
  BY <1>1, <1>6
<1> HIDE DEF ds, k
<1>8. ArgumentsOK'
  BY <1>2 DEF IInv, ArgumentsOK
<1>9. WalkInv'
  BY <1>2, <1>4 DEF WalkInv
<1>10. MeterInv'
  BY <1>2, <1>6, <1>7 DEF MeterInv
<1>11. FirstFaultDecides'
  BY <1>1, <1>2 DEF FirstFaultDecides
<1> QED
  BY <1>8, <1>9, <1>10, <1>11 DEF IInv

\* A check's code is not that of a parse that goes on or has succeeded.
LEMMA CheckCodes ==
    ASSUME NEW e
    PROVE  Check(e) \notin {"running", "done"}
BY DEF Check, CheckReserved, CheckArgs, CheckMode, Accepted

\* The invariant holds at first.
LEMMA IInvInit == Init => IInv
<1> SUFFICES ASSUME Init PROVE IInv
  OBVIOUS
<1>1. /\ node \in Lists /\ max_cost \in Budgets /\ start \in Spent
      /\ max_cost # NoBudget => start <= max_cost
      /\ rest = node /\ cost = start /\ parsed = <<>> /\ outcome = "running"
  BY DEF Init, Affords
<1>2. IsGood(node) /\ start \in Int
  BY <1>1, ListsAreTrees, BudgetsAreCosts DEF IsGood
<1>3. rest = Unread(node, 0) /\ Len(parsed) = 0
  BY <1>1, <1>2, UnreadFirst
<1>4. Reads(node, parsed)
  <2> DEFINE W == {Parse(e) : e \in {x \in Parts(node) : IsAccepted(x)}}
  <2>1. parsed \in Seq(W)
    <3> HIDE DEF W
    <3> QED BY <1>1
  <2>2. Len(ListElems(node)) \in Nat
    BY <1>2, GoodElements
  <2>3. 0 <= Len(ListElems(node))
    <3> DEFINE n == Len(ListElems(node))
    <3>1. n \in Nat
      BY <2>2
    <3> HIDE DEF n
    <3>2. 0 <= n
      BY <3>1
    <3> QED BY <3>2 DEF n
  <2> QED BY <1>3, <2>1, <2>3 DEF Reads
<1>5. Totals(start, CostsOf(parsed))[0] = start /\ Len(CostsOf(parsed)) = 0
  <2>1. IsInts(CostsOf(parsed)) /\ Len(CostsOf(parsed)) = 0
    BY <1>3, <1>4, ReadsHaveCosts, CostsAreInts
  <2> QED BY <1>2, <2>1, TotalsDef DEF IsInts
<1>6. cost = Total(start, CostsOf(parsed)) /\ Affordable(max_cost, start, parsed)
  BY <1>1, <1>3, <1>5 DEF Total, Affordable
<1> QED
  BY <1>1, <1>3, <1>4, <1>6 DEF IInv, ArgumentsOK, WalkInv, MeterInv, FirstFaultDecides

\* Every step keeps the invariant.
LEMMA IInvNext == IInv /\ [Next]_vars => IInv'
<1> SUFFICES ASSUME IInv, [Next]_vars PROVE IInv'
  OBVIOUS
<1> DEFINE k == Len(parsed)
           e == First(rest)
           total == cost + condition_cost(Parse(e))
<1>1. CASE RejectElement
  <2>1. /\ AtElement /\ Check(e) # Accepted /\ outcome' = Check(e)
        /\ UNCHANGED <<arguments, rest, parsed>>
    BY <1>1 DEF RejectElement, Reject
  <2>2. VerdictOn(node, max_cost, start) = Check(e)
    BY <2>1, RunningParse, NextMalformed DEF AtElement
  <2>3. outcome' \notin {"running", "done"}
    BY <2>1, CheckCodes
  <2> QED BY <2>1, <2>2, <2>3, IInvDecided
<1>2. ASSUME AtElement, Check(e) = Accepted, ~Affords(total), cost' = total,
             outcome' = "cost_exceeded", UNCHANGED <<arguments, rest, parsed>>
      PROVE  IInv'
  <2>1. max_cost # NoBudget /\ max_cost \in Nat
    BY <1>2, RunningParse DEF Affords, AtElement
  <2>2. condition_cost(Parse(e)) \in Nat /\ cost \in Int
    <3>1. cost \in Int
      BY <1>2, RunningParse DEF AtElement
    <3>2. k < Len(ListElems(node)) /\ e = ListElems(node)[k + 1]
          /\ IsGood(node) /\ k \in Nat /\ Len(ListElems(node)) \in Nat
      BY <1>2, RunningParse DEF AtElement
    <3>3. k + 1 \in 1..Len(ListElems(node))
      <4> DEFINE n == Len(ListElems(node))
      <4>1. k \in Nat /\ n \in Nat /\ k < n
        BY <3>2
      <4> HIDE DEF k, n
      <4>2. k + 1 \in 1..n
        BY <4>1
      <4> QED BY <4>2 DEF n
    <3>4. IsElement(e)
      BY <3>2, <3>3, GoodElements
    <3> QED BY <1>2, <3>1, <3>4, AcceptedCost DEF IsAccepted
  <2>3. total > max_cost
    BY <1>2, <2>1, <2>2 DEF Affords
  <2>4. VerdictOn(node, max_cost, start) = "cost_exceeded"
    BY <1>2, <2>1, <2>3, RunningParse, NextBursts DEF AtElement
  <2> QED BY <1>2, <2>4, IInvDecided
<1>3. CASE ParseCondition
  <2>1. /\ AtElement /\ Check(e) = Accepted /\ ~NeedsDerivation(Parse(e))
        /\ cost' = total /\ UNCHANGED arguments
        /\ IF Affords(total) THEN Accept(Parse(e))
           ELSE outcome' = "cost_exceeded" /\ UNCHANGED <<rest, parsed>>
    BY <1>3 DEF ParseCondition
  <2>2. CASE Affords(total)
    BY <2>1, <2>2, IInvAccepted DEF Affords
  <2>3. CASE ~Affords(total)
    BY <1>2, <2>1, <2>3
  <2> QED BY <2>2, <2>3
<1>4. CASE ParseTaproot
  <2>1. /\ AtElement /\ Check(e) = Accepted /\ NeedsDerivation(Parse(e))
        /\ cost' = total /\ UNCHANGED arguments
        /\ IF ~Affords(total)
           THEN outcome' = "cost_exceeded" /\ UNCHANGED <<rest, parsed>>
           ELSE IF Derives(Parse(e)) THEN Accept(Parse(e))
           ELSE outcome' = "bad_condition_arg" /\ UNCHANGED <<rest, parsed>>
    BY <1>4 DEF ParseTaproot
  <2>2. CASE ~Affords(total)
    BY <1>2, <2>1, <2>2
  <2>3. CASE Affords(total) /\ Derives(Parse(e))
    BY <2>1, <2>3, IInvAccepted DEF Affords
  <2>4. CASE Affords(total) /\ ~Derives(Parse(e))
    <3>1. outcome' = "bad_condition_arg" /\ UNCHANGED <<arguments, rest, parsed>>
      BY <2>1, <2>4
    <3>2. VerdictOn(node, max_cost, start) = "bad_condition_arg"
      BY <2>1, <2>4, RunningParse, NextUndoes DEF Affords, AtElement
    <3> QED BY <3>1, <3>2, IInvDecided
  <2> QED BY <2>2, <2>3, <2>4
<1>5. CASE ImproperList
  <2>1. /\ outcome = "running" /\ IsAtom(rest) /\ rest # Nil
        /\ outcome' = "bad_condition_list" /\ UNCHANGED <<arguments, rest, parsed>>
    BY <1>5 DEF ImproperList, Reject
  <2>2. VerdictOn(node, max_cost, start) = "bad_condition_list"
    BY <2>1, RunningParse, AllRead
  <2> QED BY <2>1, <2>2, IInvDecided
<1>6. CASE EndOfList
  <2>1. /\ outcome = "running" /\ rest = Nil /\ UNCHANGED cost
        /\ outcome' = "done" /\ UNCHANGED <<arguments, rest, parsed>>
    BY <1>6 DEF EndOfList
  <2>2. IsAtom(rest)
    BY <2>1 DEF Nil, Atom, IsAtom
  <2>3. VerdictOn(node, max_cost, start) = "done"
    BY <2>1, <2>2, RunningParse, AllRead
  <2> QED BY <2>1, <2>3, IInvDecided
<1>7. CASE UNCHANGED vars
  <2>1. /\ node' = node /\ max_cost' = max_cost /\ start' = start /\ rest' = rest
        /\ parsed' = parsed /\ cost' = cost /\ outcome' = outcome
    BY <1>7 DEF vars
  <2> QED BY <2>1 DEF IInv, ArgumentsOK, WalkInv, MeterInv, FirstFaultDecides
<1> QED
  BY <1>1, <1>3, <1>4, <1>5, <1>6, <1>7 DEF Next

\* The invariant holds throughout.
LEMMA Invariance == Spec => []IInv
  BY IInvInit, IInvNext, PTL DEF Spec

\* The total that parsing returns is the cost that came in plus the flat
\* cost of every condition parsed: no charge of parse_conditions' loop is
\* lost, repeated or refunded, whatever the list and the budget.
THEOREM TotalIsTheSum == Spec => []CostIsSum
<1>1. IInv => CostIsSum
  BY DEF IInv, MeterInv, CostIsSum, CostsOf
<1> QED
  BY <1>1, Invariance, PTL

\* A condition that has parsed has one encoding, the list element it came
\* from: nothing that parse_conditions accepts can be written in a second way,
\* for every opcode, every mode and every width of the operands.
THEOREM ConditionsHaveOneEncoding == Spec => []EncodingIsCanonical
<1>1. IInv => EncodingIsCanonical
  <2> SUFFICES ASSUME IInv, NEW i \in 1..Len(parsed)
               PROVE  ListOf(<<Atom(<<parsed[i].opcode>>)>> \o EncodeArgs(parsed[i])) = Elements[i]
    BY DEF EncodingIsCanonical
  <2>1. IsAccepted(ListElems(node)[i]) /\ parsed[i] = Parse(ListElems(node)[i])
    BY DEF IInv, WalkInv, Reads
  <2> QED BY <2>1, ElementEncodesBack DEF Elements
<1> QED
  BY <1>1, Invariance, PTL

\* A parse ends with the verdict on the whole list: the first fault in list
\* order decides, and of two faults of one condition the budget, as the
\* charge comes after every check and before the derivation.
THEOREM FirstFaultIsTheVerdict == Spec => []FirstFaultDecides
<1>1. IInv => FirstFaultDecides
  BY DEF IInv
<1> QED
  BY <1>1, Invariance, PTL
==============================================================================
