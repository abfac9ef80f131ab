--------------------------- MODULE OperatorsProof ---------------------------
(***************************************************************************)
(* What every operator's run looks like to the machine, for arguments of   *)
(* any shape and number: its charges are natural numbers, a run that       *)
(* returns has charged something, and what it returns is a node.           *)
(***************************************************************************)
EXTENDS Operators, CostsProof, FiniteSetTheorems, SequenceTheorems

(* Sets of nodes, extended by what operators return. *)

\* More nodes around do not spoil a node.
LEMMA NodeSetExtends ==
    ASSUME NEW S, NodeSet(S), NEW c, IsNodeIn(c, S \cup {c})
    PROVE  NodeSet(S \cup {c})
<1> DEFINE T == S \cup {c}
<1>1. SUFFICES ASSUME NEW n \in S PROVE IsNodeIn(n, T)
  BY DEF NodeSet
<1>2. IsNodeIn(n, S)
  BY DEF NodeSet
<1>3. CASE IsAtom(n) /\ Len(n.bytes) \in Nat
  BY <1>3 DEF IsNodeIn
<1>4. CASE ~(IsAtom(n) /\ Len(n.bytes) \in Nat)
  <2>1. n.elems \in Seq(S) /\ S \subseteq T
    BY <1>2, <1>4 DEF IsNodeIn
  <2>2. n.elems \in Seq(T)
    <3> HIDE DEF T
    <3> QED BY <2>1, SeqMonotonic
  <2> QED
    BY <1>2, <1>4, <2>2 DEF IsNodeIn
<1> QED
  BY <1>3, <1>4

\* An atom of any bytes joins the nodes.
LEMMA AtomExtends ==
    ASSUME NEW S, NodeSet(S), NEW bytes, Len(bytes) \in Nat
    PROVE  NodeSet(S \cup {Atom(bytes)})
BY NodeSetExtends DEF IsNodeIn, IsAtom, Atom

\* A pair of two nodes is a node, and its second half is the second node.
LEMMA ConsExtends ==
    ASSUME NEW S, NodeSet(S), NEW a \in S, NEW b \in S
    PROVE  NodeSet(S \cup {Cons(a, b)})
<1> DEFINE c == Cons(a, b)
           T == S \cup {c}
<1>1. IsNodeIn(b, S)
  BY DEF NodeSet
<1>2. CASE IsPair(b)
  <2>1. b = Spine(b.elems, b.tail) /\ b.elems \in Seq(S) /\ Len(b.elems) > 0
    BY <1>1, <1>2 DEF IsNodeIn, IsAtom, IsPair
  <2> DEFINE e == <<a>> \o b.elems
  <2>2. <<a>> \in Seq(S) /\ Len(<<a>>) = 1
    OBVIOUS
  <2>3. /\ e \in Seq(S)
        /\ Len(e) = 1 + Len(b.elems)
        /\ \A i \in 1..Len(b.elems) : e[i + 1] = b.elems[i]
    BY <2>1, <2>2, ConcatProperties
  <2>4. Tail(e) = b.elems
    <3> HIDE DEF e
    <3>1. Tail(e) \in Seq(S) /\ Len(Tail(e)) = Len(b.elems)
      BY <2>1, <2>3
    <3>2. \A i \in 1..Len(b.elems) : Tail(e)[i] = b.elems[i]
      BY <2>1, <2>3
    <3> QED BY <2>1, <3>1, <3>2, SeqEqual
  <2>5. c = Spine(e, b.tail)
    BY <1>2 DEF Cons
  <2>6. Rest(c) = b
    <3> HIDE DEF e, c
    <3>1. c.elems = e /\ c.tail = b.tail
      BY <2>5 DEF Spine
    <3>2. Len(c.elems) # 1
      BY <2>1, <2>3, <3>1
    <3> QED BY <2>1, <2>4, <3>1, <3>2 DEF Rest
  <2>7. e \in Seq(T)
    <3> HIDE DEF e, T
    <3>1. S \subseteq T
      BY DEF T
    <3> QED BY <2>3, <3>1, SeqMonotonic
  <2>8. c.type = "pair" /\ c.elems = e /\ c = Spine(c.elems, c.tail)
    <3> HIDE DEF e, c
    <3> QED BY <2>5 DEF Spine
  <2>9. IsNodeIn(c, T)
    <3> HIDE DEF e, c
    <3> QED BY <2>1, <2>3, <2>6, <2>7, <2>8 DEF IsNodeIn, IsPair
  <2> QED
    BY <2>9, NodeSetExtends
<1>3. CASE ~IsPair(b)
  <2>1. c = Spine(<<a>>, b)
    BY <1>3 DEF Cons
  <2>2. c.type = "pair" /\ c.elems = <<a>> /\ c.tail = b /\ c = Spine(c.elems, c.tail)
    <3> HIDE DEF c
    <3> QED BY <2>1 DEF Spine
  <2>3. <<a>> \in Seq(T) /\ Len(<<a>>) = 1
    OBVIOUS
  <2>4. Rest(c) = b
    BY <2>2, <2>3 DEF Rest
  <2>5. IsNodeIn(c, T)
    <3> HIDE DEF c
    <3> QED BY <2>2, <2>3, <2>4 DEF IsNodeIn, IsPair
  <2> QED
    BY <2>5, NodeSetExtends
<1> QED
  BY <1>2, <1>3

-----------------------------------------------------------------------------
(* Integers as atoms have a length in bytes, whatever the integer. *)

\* The bit length of any value is a natural number.
LEMMA BitLengthType ==
    ASSUME NEW v
    PROVE  BitLength(v) \in Nat
<1>1. IsFiniteSet(0..MaxBits)
  <2>1. 0 \in Int /\ MaxBits \in Int
    BY DEF MaxBits
  <2> QED BY <2>1, FS_Interval
<1>2. {n \in 0..MaxBits : 2^n <= Magnitude(v)} \in SUBSET (0..MaxBits)
  OBVIOUS
<1>3. IsFiniteSet({n \in 0..MaxBits : 2^n <= Magnitude(v)})
  BY <1>1, <1>2, FS_Subset
<1> QED
  BY <1>3, FS_CardinalityType DEF BitLength

\* A big-endian encoding has the length asked for.
LEMMA BigEndianSeq ==
    ASSUME NEW v, NEW length \in Nat
    PROVE  \E V : BigEndian(v, length) \in Seq(V) /\ Len(BigEndian(v, length)) = length
<1> DEFINE digit(i) == (v \div 256^(length - i)) % 256
           V == {digit(i) : i \in 1..length}
           b == [i \in 1..length |-> digit(i)]
<1>1. \A i \in 1..length : digit(i) \in V
  OBVIOUS
<1>2. b \in Seq(V) /\ Len(b) = length
  <2> HIDE DEF digit, V
  <2> QED BY <1>1
<1> QED
  BY <1>2 DEF BigEndian

\* int_to_atom gives an atom.
LEMMA IntToAtomBytes ==
    ASSUME NEW v
    PROVE  \E bytes : IntToAtom(v) = Atom(bytes) /\ Len(bytes) \in Nat
<1> DEFINE encoded == IntToAtomUnstripped(v).bytes
<1>1. \E V : encoded \in Seq(V)
  <2>1. CASE v = 0
    BY <2>1 DEF IntToAtomUnstripped, Nil, Atom
  <2>2. CASE v # 0
    <3>1. (BitLength(v) + 8) \div 8 \in Nat
      BY BitLengthType
    <3>2. encoded = BigEndian(v, (BitLength(v) + 8) \div 8)
      BY <2>2 DEF IntToAtomUnstripped, Atom
    <3> QED
      BY <3>1, <3>2, BigEndianSeq
  <2> QED
    BY <2>1, <2>2
<1>2. PICK V : encoded \in Seq(V)
  BY <1>1
<1> HIDE DEF encoded
<1>3. Len(encoded) \in Nat
  BY <1>2
<1>4. Len(encoded) > 1 => Len(Tail(encoded)) \in Nat
  BY <1>2
<1> USE DEF encoded
<1> QED
  BY <1>3, <1>4 DEF IntToAtom

-----------------------------------------------------------------------------
(* What the machine relies on in an operator's run. *)

OperatorErrors ==
    {"wrong_arg_count", "arg_not_pair", "arg_not_atom", "user_raise", "arg_too_long",
     "div_by_zero", "bad_index", "shift_too_large", "index_out_of_range",
     "secp_verify_failed"}

IsCharges(charges) ==
    Len(charges) \in Nat /\ \A i \in 1..Len(charges) : charges[i] \in Nat

IsRun(body, S) ==
    /\ IsCharges(body.charges)
    /\ body.code \in OperatorErrors \cup {Ok}
    /\ body.code = Ok => /\ Len(body.charges) > 0
                        /\ body.charges[1] > 0
                        /\ \E T : S \subseteq T /\ NodeSet(T) /\ body.value \in T

\* Raising an error of the table, after any charges, is a run.
LEMMA RaisesIsRun ==
    ASSUME NEW S, NEW charges, IsCharges(charges), NEW error \in OperatorErrors
    PROVE  IsRun(Raises(charges, error), S)
BY DEF IsRun, Raises, OperatorErrors, Ok

\* Returning a node after a positive charge is a run.
LEMMA ReturnsIsRun ==
    ASSUME NEW S, NEW charges, IsCharges(charges), Len(charges) > 0, charges[1] > 0,
           NEW node, NodeSet(S \cup {node})
    PROVE  IsRun(Returns(charges, node), S)
<1>1. S \subseteq S \cup {node} /\ node \in S \cup {node}
  OBVIOUS
<1> QED BY <1>1 DEF IsRun, Returns

\* The same when the node joins the set along with its parts.
LEMMA ReturnsPartsIsRun ==
    ASSUME NEW S, NEW charges, IsCharges(charges), Len(charges) > 0, charges[1] > 0,
           NEW T, S \subseteq T, NodeSet(T), NEW node \in T
    PROVE  IsRun(Returns(charges, node), S)
BY DEF IsRun, Returns

\* A single charge.
LEMMA OneCharge ==
    ASSUME NEW n \in Nat, n > 0
    PROVE  IsCharges(<<n>>) /\ Len(<<n>>) > 0 /\ <<n>>[1] > 0
BY DEF IsCharges

\* No charge at all is a sequence of charges.
LEMMA NoCharge == IsCharges(<<>>)
BY DEF IsCharges

\* The truth values, and a node that is already there, extend a node set.
LEMMA OldNode ==
    ASSUME NEW S, NodeSet(S), NEW n \in S
    PROVE  NodeSet(S \cup {n})
<1>1. S \cup {n} = S
  OBVIOUS
<1> QED BY <1>1

\* Either truth value joins the nodes.
LEMMA TruthExtends ==
    ASSUME NEW S, NodeSet(S), NEW holds
    PROVE  NodeSet(S \cup {Truth(holds)})
<1>1. Len(<<>>) \in Nat /\ Len(<<1>>) \in Nat
  OBVIOUS
<1>2. NodeSet(S \cup {Nil}) /\ NodeSet(S \cup {TrueAtom})
  BY <1>1, AtomExtends DEF Nil, TrueAtom
<1> QED
  BY <1>2 DEF Truth

\* The length in bytes of an atom among the nodes is a natural number.
LEMMA ByteLenType ==
    ASSUME NEW S, NodeSet(S), NEW n \in S, ~IsPair(n)
    PROVE  ByteLen(n) \in Nat
BY DEF NodeSet, IsNodeIn, ByteLen

\* The two halves of a pair are nodes.
LEMMA PairParts ==
    ASSUME NEW S, NodeSet(S), NEW n \in S, IsPair(n)
    PROVE  /\ First(n) \in S /\ Rest(n) \in S
           /\ n.elems \in Seq(S) /\ Len(n.elems) > 0
<1>1. n.elems \in Seq(S) /\ Len(n.elems) > 0 /\ Rest(n) \in S
  BY DEF NodeSet, IsNodeIn, IsAtom, IsPair
<1>2. Head(n.elems) \in S
  BY <1>1
<1> QED
  BY <1>1, <1>2 DEF First

-----------------------------------------------------------------------------
(* One lemma per operator: whatever the arguments, it runs as IsRun says. *)

\* if, cons, first, rest, listp and raise.
LEMMA TreeOperatorsRun ==
    ASSUME NEW S, NodeSet(S), NEW args \in Seq(S)
    PROVE  /\ IsRun(op_if(args), S) /\ IsRun(op_cons(args), S)
           /\ IsRun(op_first(args), S) /\ IsRun(op_rest(args), S)
           /\ IsRun(op_listp(args), S) /\ IsRun(op_raise(args), S)
<1>1. \A i \in 1..Len(args) : args[i] \in S
  OBVIOUS
<1>2. \A e \in OperatorErrors : IsRun(Raises(<<>>, e), S)
  BY NoCharge, RaisesIsRun
<1>3. ASSUME NEW n \in Nat, n > 0, NEW v, NodeSet(S \cup {v})
      PROVE  IsRun(Returns(<<n>>, v), S)
  <2> DEFINE charges == <<n>>
  <2>1. IsCharges(charges) /\ Len(charges) > 0 /\ charges[1] > 0
    BY <1>3, OneCharge
  <2> HIDE DEF charges
  <2>2. IsRun(Returns(charges, v), S)
    BY <1>3, <2>1, ReturnsIsRun
  <2> QED BY <2>2 DEF charges
<1>4. /\ "wrong_arg_count" \in OperatorErrors /\ "arg_not_pair" \in OperatorErrors
      /\ "user_raise" \in OperatorErrors
  BY DEF OperatorErrors
<1>5. IsRun(op_if(args), S)
  <2>1. CASE Len(args) # 3
    BY <1>2, <1>4, <2>1 DEF op_if
  <2>2. CASE Len(args) = 3
    <3> DEFINE v == IF args[1] = Nil THEN args[3] ELSE args[2]
    <3>1. v \in S
      BY <1>1, <2>2
    <3>2. NodeSet(S \cup {v})
      <4> HIDE DEF v
      <4> QED BY <3>1, OldNode
    <3>3. IF_COST \in Nat /\ IF_COST > 0
      BY DEF IF_COST
    <3>4. op_if(args) = Returns(<<IF_COST>>, v)
      BY <2>2 DEF op_if
    <3> HIDE DEF v
    <3> QED BY <1>3, <3>2, <3>3, <3>4
  <2> QED BY <2>1, <2>2
<1>6. IsRun(op_cons(args), S)
  <2>1. CASE Len(args) # 2
    BY <1>2, <1>4, <2>1 DEF op_cons
  <2>2. CASE Len(args) = 2
    <3>1. NodeSet(S \cup {Cons(args[1], args[2])})
      BY <1>1, <2>2, ConsExtends
    <3>2. CONS_COST \in Nat /\ CONS_COST > 0
      BY DEF CONS_COST
    <3>3. op_cons(args) = Returns(<<CONS_COST>>, Cons(args[1], args[2]))
      BY <2>2 DEF op_cons
    <3> QED BY <1>3, <3>1, <3>2, <3>3
  <2> QED BY <2>1, <2>2
<1>7. IsRun(op_first(args), S)
  <2>1. CASE Len(args) # 1 \/ ~IsPair(args[1])
    BY <1>2, <1>4, <2>1 DEF op_first
  <2>2. CASE Len(args) = 1 /\ IsPair(args[1])
    <3>1. NodeSet(S \cup {First(args[1])})
      BY <1>1, <2>2, PairParts, OldNode
    <3>2. FIRST_COST \in Nat /\ FIRST_COST > 0
      BY DEF FIRST_COST
    <3>3. op_first(args) = Returns(<<FIRST_COST>>, First(args[1]))
      BY <2>2 DEF op_first
    <3> QED BY <1>3, <3>1, <3>2, <3>3
  <2> QED BY <2>1, <2>2
<1>8. IsRun(op_rest(args), S)
  <2>1. CASE Len(args) # 1 \/ ~IsPair(args[1])
    BY <1>2, <1>4, <2>1 DEF op_rest
  <2>2. CASE Len(args) = 1 /\ IsPair(args[1])
    <3>1. NodeSet(S \cup {Rest(args[1])})
      BY <1>1, <2>2, PairParts, OldNode
    <3>2. REST_COST \in Nat /\ REST_COST > 0
      BY DEF REST_COST
    <3>3. op_rest(args) = Returns(<<REST_COST>>, Rest(args[1]))
      BY <2>2 DEF op_rest
    <3> QED BY <1>3, <3>1, <3>2, <3>3
  <2> QED BY <2>1, <2>2
<1>9. IsRun(op_listp(args), S)
  <2>1. CASE Len(args) # 1
    BY <1>2, <1>4, <2>1 DEF op_listp
  <2>2. CASE Len(args) = 1
    <3>1. NodeSet(S \cup {Truth(IsPair(args[1]))})
      BY TruthExtends
    <3>2. LISTP_COST \in Nat /\ LISTP_COST > 0
      BY DEF LISTP_COST
    <3>3. op_listp(args) = Returns(<<LISTP_COST>>, Truth(IsPair(args[1])))
      BY <2>2 DEF op_listp
    <3> QED BY <1>3, <3>1, <3>2, <3>3
  <2> QED BY <2>1, <2>2
<1>10. IsRun(op_raise(args), S)
  BY <1>2, <1>4 DEF op_raise
<1> QED
  BY <1>5, <1>6, <1>7, <1>8, <1>9, <1>10

\* eq, not, any and all.
LEMMA BooleanOperatorsRun ==
    ASSUME NEW S, NodeSet(S), NEW args \in Seq(S)
    PROVE  /\ IsRun(op_eq(args), S) /\ IsRun(op_not(args), S)
           /\ IsRun(op_any(args), S) /\ IsRun(op_all(args), S)
<1>1. ASSUME NEW n \in Nat, n > 0, NEW holds
      PROVE  IsRun(Returns(<<n>>, Truth(holds)), S)
  <2> DEFINE charges == <<n>>
             v == Truth(holds)
  <2>1. IsCharges(charges) /\ Len(charges) > 0 /\ charges[1] > 0
    BY <1>1, OneCharge
  <2>2. NodeSet(S \cup {v})
    BY TruthExtends
  <2> HIDE DEF charges, v
  <2>3. IsRun(Returns(charges, v), S)
    BY <2>1, <2>2, ReturnsIsRun
  <2> QED BY <2>3 DEF charges, v
<1>2. \A e \in OperatorErrors : IsRun(Raises(<<>>, e), S)
  BY NoCharge, RaisesIsRun
<1>3. "wrong_arg_count" \in OperatorErrors /\ "arg_not_atom" \in OperatorErrors
  BY DEF OperatorErrors
<1>4. IsRun(op_eq(args), S)
  <2>1. CASE Len(args) # 2 \/ ~AllAtoms(args)
    BY <1>2, <1>3, <2>1 DEF op_eq
  <2>2. CASE Len(args) = 2 /\ AllAtoms(args)
    <3> DEFINE n == EQ_BASE_COST + EQ_COST_PER_BYTE * (ByteLen(args[1]) + ByteLen(args[2]))
    <3>1. args[1] \in S /\ args[2] \in S /\ ~IsPair(args[1]) /\ ~IsPair(args[2])
      <4>1. 1 \in 1..Len(args) /\ 2 \in 1..Len(args)
        BY <2>2
      <4>2. \A i \in 1..Len(args) : ~IsPair(args[i])
        BY <2>2 DEF AllAtoms, PairsAmong
      <4> QED BY <4>1, <4>2
    <3>2. ByteLen(args[1]) \in Nat /\ ByteLen(args[2]) \in Nat
      BY <3>1, ByteLenType
    <3>3. n \in Nat /\ n > 0
      BY <3>2 DEF EQ_BASE_COST, EQ_COST_PER_BYTE
    <3>4. op_eq(args) = Returns(<<n>>, Truth(args[1] = args[2]))
      BY <2>2 DEF op_eq
    <3> HIDE DEF n
    <3> QED BY <1>1, <3>3, <3>4
  <2> QED BY <2>1, <2>2
<1>5. IsRun(op_not(args), S)
  <2>1. CASE Len(args) # 1
    BY <1>2, <1>3, <2>1 DEF op_not
  <2>2. CASE Len(args) = 1
    <3>1. BOOL_BASE_COST \in Nat /\ BOOL_BASE_COST > 0
      BY DEF BOOL_BASE_COST
    <3>2. op_not(args) = Returns(<<BOOL_BASE_COST>>, Truth(args[1] = Nil))
      BY <2>2 DEF op_not
    <3> QED BY <1>1, <3>1, <3>2
  <2> QED BY <2>1, <2>2
<1>6. IsRun(op_any(args), S) /\ IsRun(op_all(args), S)
  <2> DEFINE n == BOOL_BASE_COST + BOOL_COST_PER_ARG * Len(args)
  <2>1. n \in Nat /\ n > 0
    BY DEF BOOL_BASE_COST, BOOL_COST_PER_ARG
  <2>2. /\ op_any(args) = Returns(<<n>>, Truth(\E i \in DOMAIN args : args[i] # Nil))
        /\ op_all(args) = Returns(<<n>>, Truth(\A i \in DOMAIN args : args[i] # Nil))
    BY DEF op_any, op_all, BoolCharge
  <2> HIDE DEF n
  <2> QED BY <1>1, <2>1, <2>2
<1> QED
  BY <1>4, <1>5, <1>6

\* The first pair among the arguments is the least one.
LEMMA FirstPairIsLeast ==
    ASSUME NEW S, NEW args \in Seq(S), ~AllAtoms(args)
    PROVE  /\ FirstPair(args) \in 1..Len(args)
           /\ \A i \in 1..(FirstPair(args) - 1) : ~IsPair(args[i])
<1> DEFINE P == PairsAmong(args)
<1>1. P # {} /\ P \in SUBSET Nat /\ P \subseteq 1..Len(args)
  BY DEF AllAtoms, PairsAmong
<1>2. \E m \in P : \A j \in P : m <= j
  <2> HIDE DEF P
  <2> QED BY <1>1, LeastElement
<1>3. FirstPair(args) \in P /\ \A j \in P : FirstPair(args) <= j
  <2> HIDE DEF P
  <2> QED BY <1>2 DEF FirstPair, P
<1> QED
  BY <1>1, <1>3 DEF PairsAmong

\* The charges of the loop that several operators share.
AtomsUpTo(args, n) == n \in 0..Len(args) /\ \A i \in 1..n : ~IsPair(args[i])

\* The charges of a loop over the arguments are natural numbers.
LEMMA LoopChargesType ==
    ASSUME NEW S, NodeSet(S), NEW args \in Seq(S),
           NEW base \in Nat, base > 0, NEW per_arg \in Nat, NEW per_byte \in Nat,
           NEW n, AtomsUpTo(args, n)
    PROVE  /\ LoopCharges(args, n, base, per_arg, per_byte) \in Seq(Nat)
           /\ Len(LoopCharges(args, n, base, per_arg, per_byte)) = n
           /\ n > 0 => LoopCharges(args, n, base, per_arg, per_byte)[1] > 0
<1> DEFINE bytes(i) == per_byte * ByteLen(args[i])
           charge(i) == (IF i = 1 THEN base ELSE 0) + per_arg + bytes(i)
<1>1. ASSUME NEW i \in 1..n
      PROVE  bytes(i) \in Nat
  <2>1. args[i] \in S /\ ~IsPair(args[i])
    BY DEF AtomsUpTo
  <2>2. ByteLen(args[i]) \in Nat
    BY <2>1, ByteLenType
  <2> QED BY <2>2
<1>2. LoopCharges(args, n, base, per_arg, per_byte) = [i \in 1..n |-> charge(i)]
  BY DEF LoopCharges
<1> HIDE DEF bytes
<1>3. \A i \in 1..n : charge(i) \in Nat
  BY <1>1
<1>4. n \in Nat
  BY DEF AtomsUpTo
<1>5. n > 0 => charge(1) > 0
  <2>1. n > 0 => bytes(1) \in Nat
    BY <1>1, <1>4
  <2> QED BY <2>1
<1> HIDE DEF charge
<1> QED
  BY <1>2, <1>3, <1>4, <1>5

\* A loop over atoms that returns a node is a run.
LEMMA LoopRuns ==
    ASSUME NEW S, NodeSet(S), NEW args \in Seq(S),
           NEW base \in Nat, base > 0, NEW per_arg \in Nat, NEW per_byte \in Nat,
           NEW mallocs, NEW node,
           AllAtoms(args) => mallocs \in Seq(Nat) /\ NodeSet(S \cup {node})
    PROVE  IsRun(LoopRun(args, base, per_arg, per_byte, mallocs, node), S)
<1> DEFINE charges(n) == LoopCharges(args, n, base, per_arg, per_byte)
           n == Len(args)
           m == FirstPair(args) - 1
           last == IF args = <<>> THEN base ELSE 0
<1>1. n \in Nat /\ (args = <<>> <=> n = 0)
  OBVIOUS
<1>2. CASE AllAtoms(args)
  <2> DEFINE c == charges(n)
             d == c \o <<last>>
             e == d \o mallocs
  <2>1. c \in Seq(Nat) /\ Len(c) = n /\ (n > 0 => c[1] > 0)
    <3>1. \A i \in 1..n : ~IsPair(args[i])
      BY <1>2 DEF AllAtoms, PairsAmong
    <3>2. AtomsUpTo(args, n)
      BY <3>1 DEF AtomsUpTo
    <3> HIDE DEF n
    <3>3. /\ LoopCharges(args, n, base, per_arg, per_byte) \in Seq(Nat)
          /\ Len(LoopCharges(args, n, base, per_arg, per_byte)) = n
          /\ n > 0 => LoopCharges(args, n, base, per_arg, per_byte)[1] > 0
      BY <3>2, LoopChargesType
    <3> QED BY <3>3
  <2>2. last \in Nat /\ (n = 0 => last > 0)
    BY <1>1
  <2>3. mallocs \in Seq(Nat) /\ NodeSet(S \cup {node})
    BY <1>2
  <2>4. d \in Seq(Nat) /\ Len(d) = n + 1 /\ d[1] > 0
    <3> HIDE DEF c, last, n
    <3>1. <<last>> \in Seq(Nat) /\ Len(<<last>>) = 1 /\ <<last>>[1] = last
      BY <2>2
    <3>2. /\ d \in Seq(Nat) /\ Len(d) = n + 1
          /\ \A i \in 1..(n + 1) : d[i] = IF i <= n THEN c[i] ELSE <<last>>[i - n]
      BY <1>1, <2>1, <3>1, ConcatProperties
    <3>3. d[1] > 0
      <4> HIDE DEF d
      <4>1. CASE n > 0
        BY <1>1, <2>1, <3>2, <4>1
      <4>2. CASE n = 0
        BY <2>2, <3>1, <3>2, <4>2
      <4> QED BY <1>1, <4>1, <4>2
    <3> QED BY <3>2, <3>3
  <2>5. IsCharges(e) /\ Len(e) > 0 /\ e[1] > 0
    <3> HIDE DEF d, n
    <3>1. /\ e \in Seq(Nat) /\ Len(e) = Len(d) + Len(mallocs)
          /\ \A i \in 1..(Len(d) + Len(mallocs)) :
                e[i] = IF i <= Len(d) THEN d[i] ELSE mallocs[i - Len(d)]
      BY <2>3, <2>4, ConcatProperties
    <3>2. Len(mallocs) \in Nat /\ Len(d) \in Nat /\ Len(d) > 0
      BY <1>1, <2>3, <2>4
    <3> HIDE DEF e
    <3>3. e[1] = d[1]
      BY <3>1, <3>2
    <3> QED BY <2>4, <3>1, <3>2, <3>3 DEF IsCharges
  <2>6. LoopRun(args, base, per_arg, per_byte, mallocs, node) = Returns(e, node)
    BY <1>2 DEF LoopRun
  <2> HIDE DEF e
  <2> QED BY <2>3, <2>5, <2>6, ReturnsIsRun
<1>3. CASE ~AllAtoms(args)
  <2>1. AtomsUpTo(args, m)
    BY <1>3, FirstPairIsLeast DEF AtomsUpTo
  <2>2. IsCharges(charges(m))
    <3> HIDE DEF m
    <3>1. charges(m) \in Seq(Nat)
      BY <2>1, LoopChargesType
    <3> HIDE DEF charges
    <3> QED BY <3>1 DEF IsCharges
  <2>3. LoopRun(args, base, per_arg, per_byte, mallocs, node) = Raises(charges(m), "arg_not_atom")
    BY <1>3 DEF LoopRun
  <2>4. "arg_not_atom" \in OperatorErrors
    BY DEF OperatorErrors
  <2> HIDE DEF charges, m
  <2> QED BY <2>2, <2>3, <2>4, RaisesIsRun
<1> QED
  BY <1>2, <1>3

\* The charges of the first n arguments of a subtraction, when those of
\* them whose bytes are charged are atoms.
LEMMA SubChargesType ==
    ASSUME NEW S, NodeSet(S), NEW args \in Seq(S), NEW n \in 0..Len(args)
    PROVE  /\ \A i \in 1..n : ~IsPair(args[i]) => BytesOf(args, i) \in Nat
           /\ (\A i \in 1..(n-1) : ~IsPair(args[i])) => IsCharges(SubCharges(args, n))
           /\ Len(SubCharges(args, n)) = n
           /\ SubCharges(args, n) = [i \in 1..n |-> SubCharges(args, n)[i]]
           /\ n > 0 => SubCharges(args, n)[1] > 0
<1>1. ASSUME NEW i \in 1..n, ~IsPair(args[i])
      PROVE  BytesOf(args, i) \in Nat
  <2>1. args[i] \in S
    OBVIOUS
  <2>2. ByteLen(args[i]) \in Nat
    BY <1>1, <2>1, ByteLenType
  <2> QED
    BY <2>2 DEF BytesOf, ARITH_COST_PER_BYTE
<1>2. \A i \in 1..n : BaseOnFirst(i) \in Nat
  BY DEF BaseOnFirst, ARITH_BASE_COST
<1>3. Len(SubCharges(args, n)) = n
  BY DEF SubCharges
<1>4. ASSUME \A i \in 1..(n-1) : ~IsPair(args[i])
      PROVE  IsCharges(SubCharges(args, n))
  <2>1. \A i \in 1..n : SubCharges(args, n)[i] \in Nat
    <3> TAKE i \in 1..n
    <3>1. i # 1 => BytesOf(args, i - 1) \in Nat
      BY <1>1, <1>4
    <3> QED
      BY <1>2, <3>1 DEF SubCharges, ARITH_COST_PER_ARG
  <2> QED
    BY <1>3, <2>1 DEF IsCharges
<1>5. SubCharges(args, n) = [i \in 1..n |-> SubCharges(args, n)[i]]
  BY DEF SubCharges
<1>6. n > 0 => SubCharges(args, n)[1] > 0
  BY DEF SubCharges, BaseOnFirst, ARITH_BASE_COST, ARITH_COST_PER_ARG
<1> QED
  BY <1>1, <1>3, <1>4, <1>5, <1>6

\* Two more charges after some.
LEMMA AppendCharges ==
    ASSUME NEW n \in Nat, NEW c, c = [i \in 1..n |-> c[i]],
           \A i \in 1..n : c[i] \in Nat, NEW x \in Nat, NEW y \in Nat,
           IF n > 0 THEN c[1] > 0 ELSE x > 0
    PROVE  IsCharges(c \o <<x, y>>) /\ Len(c \o <<x, y>>) > 0 /\ (c \o <<x, y>>)[1] > 0
<1> DEFINE d == c \o <<x, y>>
<1>1. c \in Seq(Nat) /\ Len(c) = n
  OBVIOUS
<1>2. <<x, y>> \in Seq(Nat) /\ Len(<<x, y>>) = 2
  OBVIOUS
<1>3. /\ d \in Seq(Nat) /\ Len(d) = n + 2
      /\ \A i \in 1..(n + 2) : d[i] = IF i <= n THEN c[i] ELSE <<x, y>>[i - n]
  BY <1>1, <1>2, ConcatProperties
<1>4. d[1] > 0
  <2> HIDE DEF d
  <2>1. CASE n > 0
    <3>1. d[1] = c[1]
      BY <1>3, <2>1
    <3> QED BY <2>1, <3>1
  <2>2. CASE n = 0
    BY <1>3, <2>2
  <2> QED BY <2>1, <2>2
<1> QED
  <2> HIDE DEF d
  <2>1. IsCharges(d) /\ Len(d) > 0
    BY <1>3 DEF IsCharges
  <2> QED
    BY <1>4, <2>1 DEF d

\* An integer's atom joins the nodes, and can be paid for.
LEMMA IntExtends ==
    ASSUME NEW S, NodeSet(S), NEW v
    PROVE  NodeSet(S \cup {IntToAtom(v)}) /\ Malloc(IntToAtom(v)) \in Nat
<1>1. PICK bytes : IntToAtom(v) = Atom(bytes) /\ Len(bytes) \in Nat
  BY IntToAtomBytes
<1>2. NodeSet(S \cup {IntToAtom(v)})
  BY <1>1, AtomExtends
<1>3. ByteLen(IntToAtom(v)) \in Nat
  BY <1>1 DEF ByteLen, Atom
<1> QED
  BY <1>2, <1>3 DEF Malloc, MALLOC_COST_PER_BYTE

\* The loop followed by the malloc of an integer.
LEMMA IntLoopRuns ==
    ASSUME NEW S, NodeSet(S), NEW args \in Seq(S),
           NEW base \in Nat, base > 0, NEW per_arg \in Nat, NEW per_byte \in Nat, NEW v
    PROVE  IsRun(LoopRun(args, base, per_arg, per_byte, <<Malloc(IntToAtom(v))>>, IntToAtom(v)), S)
<1> DEFINE node == IntToAtom(v)
           m == Malloc(node)
           mallocs == <<m>>
<1>1. NodeSet(S \cup {node}) /\ m \in Nat
  BY IntExtends
<1> HIDE DEF m, node
<1>2. mallocs \in Seq(Nat)
  BY <1>1
<1> HIDE DEF mallocs
<1>3. IsRun(LoopRun(args, base, per_arg, per_byte, mallocs, node), S)
  BY <1>1, <1>2, LoopRuns
<1> QED
  BY <1>3 DEF mallocs, m, node

\* + and -.
LEMMA ArithOperatorsRun ==
    ASSUME NEW S, NodeSet(S), NEW args \in Seq(S)
    PROVE  IsRun(op_add(args), S) /\ IsRun(op_sub(args), S)
<1> DEFINE n == Len(args)
           m == FirstPair(args)
<1>1. n \in Nat
  OBVIOUS
<1>2. "arg_not_atom" \in OperatorErrors
  BY DEF OperatorErrors
<1>3. AllAtoms(args) => \A i \in 1..n : ~IsPair(args[i])
  BY DEF AllAtoms, PairsAmong
<1>4. ~AllAtoms(args) => m \in 1..n /\ \A i \in 1..(m-1) : ~IsPair(args[i])
  BY FirstPairIsLeast
<1>5. IsRun(op_add(args), S)
  BY IntLoopRuns DEF op_add, ARITH_BASE_COST, ARITH_COST_PER_ARG, ARITH_COST_PER_BYTE
<1>6. IsRun(op_sub(args), S)
  <2> DEFINE v == IntToAtom(AtomToInt(args[1]) - Total(0, Ints(Tail(args))))
             c == SubCharges(args, n)
  <2>1. CASE n = 0
    <3> DEFINE d == <<ARITH_BASE_COST, 0>>
    <3>1. IsCharges(d) /\ Len(d) > 0 /\ d[1] > 0
      BY DEF IsCharges, ARITH_BASE_COST
    <3>2. NodeSet(S \cup {Nil})
      <4>1. Len(<<>>) \in Nat
        OBVIOUS
      <4> QED BY <4>1, AtomExtends DEF Nil
    <3>3. op_sub(args) = Returns(d, Nil)
      BY <2>1 DEF op_sub
    <3> HIDE DEF d
    <3> QED BY <3>1, <3>2, <3>3, ReturnsIsRun
  <2>2. CASE n # 0 /\ AllAtoms(args)
    <3>1. IsCharges(c) /\ Len(c) = n /\ c = [i \in 1..n |-> c[i]] /\ c[1] > 0
      <4>1. n \in 0..n /\ n > 0
        BY <2>2
      <4>2. \A i \in 1..(n-1) : ~IsPair(args[i])
        BY <1>3, <2>2
      <4> QED BY <4>1, <4>2, SubChargesType
    <3>2. BytesOf(args, n) \in Nat
      <4>1. n \in 0..n /\ n \in 1..n
        BY <2>2
      <4> QED BY <1>3, <2>2, <4>1, SubChargesType
    <3>3. Malloc(v) \in Nat /\ NodeSet(S \cup {v})
      BY IntExtends
    <3> DEFINE b == BytesOf(args, n)
               d == c \o <<b, Malloc(v)>>
    <3>4. IsCharges(d) /\ Len(d) > 0 /\ d[1] > 0
      <4>1. \A i \in 1..n : c[i] \in Nat
        BY <3>1 DEF IsCharges
      <4>2. IF n > 0 THEN c[1] > 0 ELSE b > 0
        BY <2>2, <3>1
      <4>3. b \in Nat
        BY <3>2
      <4> HIDE DEF c, v, n, b
      <4> QED BY <1>1, <3>1, <3>3, <4>1, <4>2, <4>3, AppendCharges
    <3>5. op_sub(args) = Returns(d, v)
      BY <2>2 DEF op_sub
    <3> HIDE DEF d, v
    <3> QED BY <3>3, <3>4, <3>5, ReturnsIsRun
  <2>3. CASE n # 0 /\ ~AllAtoms(args)
    <3>1. IsCharges(SubCharges(args, m))
      <4>1. m \in 0..n
        BY <1>4, <2>3
      <4> QED BY <1>4, <2>3, <4>1, SubChargesType
    <3>2. op_sub(args) = Raises(SubCharges(args, m), "arg_not_atom")
      BY <2>3 DEF op_sub
    <3> QED BY <1>2, <3>1, <3>2, RaisesIsRun
  <2> QED BY <2>1, <2>2, <2>3
<1> QED
  BY <1>5, <1>6

-----------------------------------------------------------------------------
(* The operators with one charge or with a charge and a malloc. *)

\* A charge followed by the malloc of an integer.
LEMMA ChargeAndMalloc ==
    ASSUME NEW S, NodeSet(S), NEW n \in Nat, n > 0, NEW v
    PROVE  IsRun(Returns(<<n, Malloc(IntToAtom(v))>>, IntToAtom(v)), S)
<1> DEFINE node == IntToAtom(v)
           m == Malloc(node)
           charges == <<n, m>>
<1>1. NodeSet(S \cup {node}) /\ m \in Nat
  BY IntExtends
<1> HIDE DEF m, node
<1>2. IsCharges(charges) /\ Len(charges) > 0 /\ charges[1] > 0
  BY <1>1 DEF IsCharges
<1> HIDE DEF charges
<1>3. IsRun(Returns(charges, node), S)
  BY <1>1, <1>2, ReturnsIsRun
<1> QED
  BY <1>3 DEF charges, m, node

\* The length of a magnitude is a natural number.
LEMMA MagnitudeLenType ==
    ASSUME NEW v
    PROVE  MagnitudeLen(v) \in Nat
BY BitLengthType DEF MagnitudeLen

\* Two atoms among the nodes.
LEMMA TwoAtoms ==
    ASSUME NEW S, NodeSet(S), NEW args \in Seq(S), TwoAtomsError(args) = Ok
    PROVE  ByteLen(args[1]) \in Nat /\ ByteLen(args[2]) \in Nat
<1>1. Len(args) = 2 /\ AllAtoms(args)
  BY DEF TwoAtomsError, Ok
<1>2. args[1] \in S /\ args[2] \in S /\ ~IsPair(args[1]) /\ ~IsPair(args[2])
  <2>1. 1 \in 1..Len(args) /\ 2 \in 1..Len(args)
    BY <1>1
  <2>2. \A i \in 1..Len(args) : ~IsPair(args[i])
    BY <1>1 DEF AllAtoms, PairsAmong
  <2> QED BY <2>1, <2>2
<1> QED
  BY <1>2, ByteLenType

\* >, >s and strlen.
LEMMA OrderOperatorsRun ==
    ASSUME NEW S, NodeSet(S), NEW args \in Seq(S)
    PROVE  /\ IsRun(op_gr(args), S) /\ IsRun(op_grs(args), S)
           /\ IsRun(op_strlen(args), S)
<1>1. \A e \in OperatorErrors : IsRun(Raises(<<>>, e), S)
  BY NoCharge, RaisesIsRun
<1>2. ASSUME NEW n \in Nat, n > 0, NEW v, NodeSet(S \cup {v})
      PROVE  IsRun(Returns(<<n>>, v), S)
  <2> DEFINE charges == <<n>>
  <2>1. IsCharges(charges) /\ Len(charges) > 0 /\ charges[1] > 0
    BY <1>2, OneCharge
  <2> HIDE DEF charges
  <2>2. IsRun(Returns(charges, v), S)
    BY <1>2, <2>1, ReturnsIsRun
  <2> QED BY <2>2 DEF charges
<1>3. TwoAtomsError(args) # Ok => TwoAtomsError(args) \in OperatorErrors
  BY DEF TwoAtomsError, OperatorErrors
<1>4. IsRun(op_gr(args), S)
  <2>1. CASE TwoAtomsError(args) # Ok
    BY <1>1, <1>3, <2>1 DEF op_gr
  <2>2. CASE TwoAtomsError(args) = Ok
    <3> DEFINE n == GR_BASE_COST + GR_COST_PER_BYTE * (ByteLen(args[1]) + ByteLen(args[2]))
               v == Truth(AtomToInt(args[1]) > AtomToInt(args[2]))
    <3>1. n \in Nat /\ n > 0
      BY <2>2, TwoAtoms DEF GR_BASE_COST, GR_COST_PER_BYTE
    <3>2. NodeSet(S \cup {v})
      BY TruthExtends
    <3>3. op_gr(args) = Returns(<<n>>, v)
      BY <2>2 DEF op_gr
    <3> HIDE DEF n, v
    <3> QED BY <1>2, <3>1, <3>2, <3>3
  <2> QED BY <2>1, <2>2
<1>5. IsRun(op_grs(args), S)
  <2>1. CASE TwoAtomsError(args) # Ok
    BY <1>1, <1>3, <2>1 DEF op_grs
  <2>2. CASE TwoAtomsError(args) = Ok
    <3> DEFINE n == GRS_BASE_COST + GRS_COST_PER_BYTE * (ByteLen(args[1]) + ByteLen(args[2]))
               v == Truth(BytesGreater(args[1].bytes, args[2].bytes))
    <3>1. n \in Nat /\ n > 0
      BY <2>2, TwoAtoms DEF GRS_BASE_COST, GRS_COST_PER_BYTE
    <3>2. NodeSet(S \cup {v})
      BY TruthExtends
    <3>3. op_grs(args) = Returns(<<n>>, v)
      BY <2>2 DEF op_grs
    <3> HIDE DEF n, v
    <3> QED BY <1>2, <3>1, <3>2, <3>3
  <2> QED BY <2>1, <2>2
<1>6. IsRun(op_strlen(args), S)
  <2> DEFINE v == IntToAtom(ByteLen(args[1]))
  <2>1. CASE Len(args) # 1
    BY <1>1, <2>1 DEF op_strlen, OperatorErrors
  <2>2. CASE Len(args) = 1 /\ IsPair(args[1])
    BY <1>1, <2>2 DEF op_strlen, OperatorErrors
  <2>3. CASE Len(args) = 1 /\ ~IsPair(args[1])
    <3> DEFINE n == STRLEN_BASE_COST + STRLEN_COST_PER_BYTE * ByteLen(args[1]) + Malloc(v)
    <3>1. ByteLen(args[1]) \in Nat
      <4>1. args[1] \in S
        BY <2>3
      <4> QED BY <2>3, <4>1, ByteLenType
    <3>2. NodeSet(S \cup {v}) /\ Malloc(v) \in Nat
      BY IntExtends
    <3>3. n \in Nat /\ n > 0
      <4> HIDE DEF v
      <4> QED BY <3>1, <3>2 DEF STRLEN_BASE_COST, STRLEN_COST_PER_BYTE
    <3>4. op_strlen(args) = Returns(<<n>>, v)
      BY <2>3 DEF op_strlen
    <3> HIDE DEF n, v
    <3> QED BY <1>2, <3>2, <3>3, <3>4
  <2> QED BY <2>1, <2>2, <2>3
<1> QED
  BY <1>4, <1>5, <1>6

\* / and lognot.
LEMMA DivisionRuns ==
    ASSUME NEW S, NodeSet(S), NEW args \in Seq(S)
    PROVE  IsRun(op_div(args), S) /\ IsRun(op_lognot(args), S)
<1>1. \A e \in OperatorErrors : IsRun(Raises(<<>>, e), S)
  BY NoCharge, RaisesIsRun
<1>2. IsRun(op_div(args), S)
  <2> DEFINE n == DIV_BASE_COST + DIV_COST_PER_BYTE * (ByteLen(args[1]) + ByteLen(args[2]))
             q == FloorDiv(AtomToInt(args[1]), AtomToInt(args[2]))
  <2>1. CASE DivError(args) # Ok
    <3>1. DivError(args) \in OperatorErrors
      BY <2>1 DEF DivError, TwoAtomsError, OperatorErrors
    <3> QED BY <1>1, <2>1, <3>1 DEF op_div
  <2>2. CASE DivError(args) = Ok
    <3>1. n \in Nat /\ n > 0
      <4>1. TwoAtomsError(args) = Ok
        BY <2>2 DEF DivError
      <4> QED BY <4>1, TwoAtoms DEF DIV_BASE_COST, DIV_COST_PER_BYTE
    <3>2. CASE AtomToInt(args[2]) = 0
      <4>1. op_div(args) = Raises(<<n>>, "div_by_zero")
        BY <2>2, <3>2 DEF op_div
      <4>2. "div_by_zero" \in OperatorErrors
        BY DEF OperatorErrors
      <4> DEFINE charges == <<n>>
      <4>3. IsCharges(charges)
        <5> HIDE DEF n
        <5> QED BY <3>1, OneCharge
      <4> HIDE DEF n, charges
      <4>4. IsRun(Raises(charges, "div_by_zero"), S)
        BY <4>2, <4>3, RaisesIsRun
      <4> QED BY <4>1, <4>4 DEF charges
    <3>3. CASE AtomToInt(args[2]) # 0
      <4>1. op_div(args) = Returns(<<n, Malloc(IntToAtom(q))>>, IntToAtom(q))
        BY <2>2, <3>3 DEF op_div
      <4> HIDE DEF n, q
      <4> QED BY <3>1, <4>1, ChargeAndMalloc
    <3> QED BY <3>2, <3>3
  <2> QED BY <2>1, <2>2
<1>3. IsRun(op_lognot(args), S)
  <2>1. CASE Len(args) # 1
    BY <1>1, <2>1 DEF op_lognot, OperatorErrors
  <2>2. CASE Len(args) = 1 /\ IsPair(args[1])
    BY <1>1, <2>2 DEF op_lognot, OperatorErrors
  <2>3. CASE Len(args) = 1 /\ ~IsPair(args[1])
    <3> DEFINE n == LOGNOT_BASE_COST + LOGNOT_COST_PER_BYTE * ByteLen(args[1])
               v == -AtomToInt(args[1]) - 1
    <3>1. ByteLen(args[1]) \in Nat
      <4>1. args[1] \in S
        BY <2>3
      <4> QED BY <2>3, <4>1, ByteLenType
    <3>2. n \in Nat /\ n > 0
      BY <3>1 DEF LOGNOT_BASE_COST, LOGNOT_COST_PER_BYTE
    <3>3. op_lognot(args) = Returns(<<n, Malloc(IntToAtom(v))>>, IntToAtom(v))
      BY <2>3 DEF op_lognot
    <3> HIDE DEF n, v
    <3> QED BY <3>2, <3>3, ChargeAndMalloc
  <2> QED BY <2>1, <2>2, <2>3
<1> QED
  BY <1>2, <1>3

\* ash and lsh.
LEMMA ShiftsRun ==
    ASSUME NEW S, NodeSet(S), NEW args \in Seq(S)
    PROVE  IsRun(op_ash(args), S) /\ IsRun(op_lsh(args), S)
<1>1. CASE ShiftError(args) # Ok
  <2>1. ShiftError(args) \in OperatorErrors
    BY <1>1 DEF ShiftError, OperatorErrors
  <2>2. IsRun(Raises(<<>>, ShiftError(args)), S)
    BY <2>1, NoCharge, RaisesIsRun
  <2> QED BY <1>1, <2>2 DEF op_ash, op_lsh
<1>2. CASE ShiftError(args) = Ok
  <2>1. ByteLen(args[1]) \in Nat
    <3>1. Len(args) = 2 /\ ~IsPair(args[1])
      BY <1>2 DEF ShiftError, Ok
    <3>2. args[1] \in S
      BY <3>1
    <3> QED BY <3>1, <3>2, ByteLenType
  <2>2. ASSUME NEW base \in Nat, base > 0, NEW rate \in Nat, NEW v
        PROVE  IsRun(ShiftRun(args, base, rate, v), S)
    <3> DEFINE n == base + rate * (ByteLen(args[1]) + MagnitudeLen(v))
    <3>1. n \in Nat /\ n > 0
      <4> DEFINE length == ByteLen(args[1]) + MagnitudeLen(v)
      <4>1. length \in Nat
        BY <2>1, MagnitudeLenType
      <4> HIDE DEF length
      <4>2. rate * length \in Nat
        BY <2>2, <4>1
      <4>3. n = base + rate * length
        BY DEF length
      <4> HIDE DEF n
      <4> QED BY <2>2, <4>2, <4>3
    <3>2. ShiftRun(args, base, rate, v) = Returns(<<n, Malloc(IntToAtom(v))>>, IntToAtom(v))
      BY DEF ShiftRun
    <3> HIDE DEF n
    <3> QED BY <3>1, <3>2, ChargeAndMalloc
  <2>3. /\ ASHIFT_BASE_COST \in Nat /\ ASHIFT_BASE_COST > 0 /\ ASHIFT_COST_PER_BYTE \in Nat
        /\ SHIFT_BASE_COST \in Nat /\ SHIFT_BASE_COST > 0 /\ SHIFT_COST_PER_BYTE \in Nat
    BY DEF ASHIFT_BASE_COST, ASHIFT_COST_PER_BYTE, SHIFT_BASE_COST, SHIFT_COST_PER_BYTE
  <2> QED
    BY <1>2, <2>2, <2>3 DEF op_ash, op_lsh
<1> QED
  BY <1>1, <1>2

-----------------------------------------------------------------------------
(* Multiplication, whose charges depend on the products so far. *)

\* The first fault is the least one, and what precedes it are factors.
LEMMA FirstFaultIsLeast ==
    ASSUME NEW S, NEW args \in Seq(S), MulFaults(args) # {}
    PROVE  /\ FirstFault(args) \in 1..Len(args)
           /\ \A i \in 1..(FirstFault(args) - 1) : IsFactor(args[i])
<1> DEFINE P == MulFaults(args)
<1>1. P # {} /\ P \in SUBSET Nat /\ P \subseteq 1..Len(args)
  BY DEF MulFaults
<1>2. \E m \in P : \A j \in P : m <= j
  <2> HIDE DEF P
  <2> QED BY <1>1, LeastElement
<1>3. FirstFault(args) \in P /\ \A j \in P : FirstFault(args) <= j
  <2> HIDE DEF P
  <2> QED BY <1>2 DEF FirstFault, P
<1> DEFINE k == FirstFault(args)
<1>4. k \in 1..Len(args)
  BY <1>1, <1>3
<1>5. ASSUME NEW i \in 1..(k - 1) PROVE IsFactor(args[i])
  <2>1. i \in 1..Len(args) /\ ~(k <= i)
    <3> HIDE DEF k
    <3> QED BY <1>4
  <2>2. i \notin P
    BY <1>3, <2>1
  <2>3. \A j \in 1..i : IsFactor(args[j])
    BY <2>1, <2>2 DEF MulFaults
  <2> QED BY <2>1, <2>3
<1> QED
  BY <1>4, <1>5

\* Each multiplication charges a positive number.
LEMMA MulStepType ==
    ASSUME NEW S, NodeSet(S), NEW args \in Seq(S), NEW i \in 2..Len(args),
           ~IsPair(args[i]), ~IsPair(args[i - 1])
    PROVE  MulStep(args, i) \in Nat /\ MulStep(args, i) > 0
<1> DEFINE acc_len == AccumulatorLen(args, i - 1)
           length == ByteLen(args[i])
           area == acc_len * length
           share == area \div MUL_SQUARE_COST_PER_BYTE_DIVIDER
<1>1. args[i] \in S /\ args[i - 1] \in S
  OBVIOUS
<1>2. acc_len \in Nat
  <2>1. i - 1 = 1 => ByteLen(args[1]) \in Nat
    BY <1>1, ByteLenType
  <2>2. MagnitudeLen(Products(args)[i - 1]) \in Nat
    BY MagnitudeLenType
  <2> QED BY <2>1, <2>2 DEF AccumulatorLen
<1>3. length \in Nat
  BY <1>1, ByteLenType
<1>4. area \in Nat
  <2> HIDE DEF acc_len, length
  <2> QED BY <1>2, <1>3
<1>5. share \in Nat
  <2> HIDE DEF area
  <2> QED BY <1>4 DEF MUL_SQUARE_COST_PER_BYTE_DIVIDER
<1>6. MulStep(args, i) = (IF i = 2 THEN MUL_BASE_COST ELSE 0) + MUL_COST_PER_OP
                           + MUL_LINEAR_COST_PER_BYTE * (acc_len + length) + share
  BY DEF MulStep
<1> HIDE DEF acc_len, length, share
<1> QED
  BY <1>2, <1>3, <1>5, <1>6 DEF MUL_BASE_COST, MUL_COST_PER_OP, MUL_LINEAR_COST_PER_BYTE

\* The charges of the first n factors, all of them atoms.
LEMMA MulChargesType ==
    ASSUME NEW S, NodeSet(S), NEW args \in Seq(S), NEW n \in 0..Len(args),
           \A i \in 1..n : ~IsPair(args[i]),
           NEW m, m = IF n = 0 THEN 0 ELSE n - 1
    PROVE  /\ IsCharges(MulCharges(args, n))
           /\ MulCharges(args, n) = [i \in 1..m |-> MulCharges(args, n)[i]]
           /\ \A i \in 1..m : MulCharges(args, n)[i] \in Nat
           /\ m > 0 => MulCharges(args, n)[1] > 0
<1> DEFINE c == MulCharges(args, n)
<1>1. m \in Nat /\ m <= n
  OBVIOUS
<1>2. c = [i \in 1..m |-> MulStep(args, i + 1)]
  BY DEF MulCharges
<1>3. \A i \in 1..m : MulStep(args, i + 1) \in Nat /\ MulStep(args, i + 1) > 0
  <2> TAKE i \in 1..m
  <2>1. i + 1 \in 2..Len(args) /\ i + 1 \in 1..n /\ i \in 1..n /\ (i + 1) - 1 = i
    BY <1>1
  <2>2. ~IsPair(args[i + 1]) /\ ~IsPair(args[(i + 1) - 1])
    BY <2>1
  <2> DEFINE j == i + 1
  <2>3. j \in 2..Len(args) /\ ~IsPair(args[j]) /\ ~IsPair(args[j - 1])
    BY <2>1, <2>2
  <2> HIDE DEF j
  <2>4. MulStep(args, j) \in Nat /\ MulStep(args, j) > 0
    BY <2>3, MulStepType
  <2> QED BY <2>4 DEF j
<1> HIDE DEF c
<1>4. \A i \in 1..m : c[i] \in Nat /\ c[i] > 0
  BY <1>2, <1>3
<1>5. c = [i \in 1..m |-> c[i]]
  BY <1>2
<1>6. IsCharges(c)
  <2>1. Len(c) = m
    BY <1>1, <1>2
  <2> QED BY <1>1, <1>4, <2>1 DEF IsCharges
<1> QED
  <2>1. m > 0 => c[1] > 0
    BY <1>1, <1>4
  <2> QED BY <1>4, <1>5, <1>6, <2>1 DEF c

\* *, which stops at its first fault.
LEMMA MultiplicationRuns ==
    ASSUME NEW S, NodeSet(S), NEW args \in Seq(S)
    PROVE  IsRun(op_mul(args), S)
<1> DEFINE n == Len(args)
           k == FirstFault(args)
<1>1. n \in Nat
  OBVIOUS
<1>2. \A i \in 1..n : IsFactor(args[i]) => ~IsPair(args[i])
  BY DEF IsFactor, IsAtom, IsPair
<1>3. CASE n = 0
  <2> DEFINE charges == <<MUL_BASE_COST, Malloc(TrueAtom)>>
  <2>1. IsCharges(charges) /\ Len(charges) > 0 /\ charges[1] > 0
    <3>1. Malloc(TrueAtom) \in Nat
      BY DEF Malloc, TrueAtom, Atom, ByteLen, MALLOC_COST_PER_BYTE
    <3> DEFINE b == Malloc(TrueAtom)
    <3> HIDE DEF b
    <3>2. b \in Nat
      BY <3>1 DEF b
    <3>3. charges = <<MUL_BASE_COST, b>>
      BY DEF b
    <3> HIDE DEF charges
    <3> QED BY <3>2, <3>3 DEF IsCharges, MUL_BASE_COST
  <2>2. NodeSet(S \cup {TrueAtom})
    <3>1. Len(<<1>>) \in Nat
      OBVIOUS
    <3> QED BY <3>1, AtomExtends DEF TrueAtom
  <2>3. op_mul(args) = Returns(charges, TrueAtom)
    BY <1>3 DEF op_mul
  <2> HIDE DEF charges
  <2> QED BY <2>1, <2>2, <2>3, ReturnsIsRun
<1>4. CASE n # 0 /\ MulFaults(args) = {}
  <2> DEFINE v == IntToAtom(Products(args)[n])
             last == IF n = 1 THEN MUL_BASE_COST ELSE 0
             c == MulCharges(args, n)
             m == n - 1
             d == c \o <<last, Malloc(v)>>
  <2>1. \A i \in 1..n : ~IsPair(args[i])
    <3>1. \A i \in 1..n : i \notin MulFaults(args)
      BY <1>4
    <3>2. \A i \in 1..n : IsFactor(args[i])
      BY <3>1 DEF MulFaults
    <3> QED BY <1>2, <3>2
  <2>2. m \in Nat /\ m = IF n = 0 THEN 0 ELSE n - 1
    BY <1>1, <1>4
  <2>3. /\ c = [i \in 1..m |-> c[i]]
        /\ \A i \in 1..m : c[i] \in Nat
        /\ m > 0 => c[1] > 0
    <3>1. n \in 0..Len(args)
      OBVIOUS
    <3> HIDE DEF n, m
    <3> QED BY <2>1, <2>2, <3>1, MulChargesType
  <2>4. last \in Nat /\ (m = 0 => last > 0)
    BY DEF MUL_BASE_COST
  <2>5. Malloc(v) \in Nat /\ NodeSet(S \cup {v})
    BY IntExtends
  <2>6. IsCharges(d) /\ Len(d) > 0 /\ d[1] > 0
    <3>1. IF m > 0 THEN c[1] > 0 ELSE last > 0
      <4>1. m > 0 \/ m = 0
        <5> HIDE DEF m
        <5> QED BY <2>2
      <4> HIDE DEF c, last, m
      <4> QED BY <2>3, <2>4, <4>1
    <3> HIDE DEF c, last, v, m
    <3> QED BY <2>2, <2>3, <2>4, <2>5, <3>1, AppendCharges
  <2>7. op_mul(args) = Returns(d, v)
    BY <1>4 DEF op_mul
  <2> HIDE DEF d, v
  <2> QED BY <2>5, <2>6, <2>7, ReturnsIsRun
<1>5. CASE n # 0 /\ MulFaults(args) # {}
  <2>1. k \in 1..n /\ \A i \in 1..(k - 1) : IsFactor(args[i])
    BY <1>5, FirstFaultIsLeast
  <2>2. "arg_not_atom" \in OperatorErrors /\ "arg_too_long" \in OperatorErrors
    BY DEF OperatorErrors
  <2>3. IsCharges(MulCharges(args, k - 1))
    <3> DEFINE j == k - 1
               m == IF j = 0 THEN 0 ELSE j - 1
    <3>1. j \in 0..Len(args) /\ j \in 0..n
      BY <2>1
    <3>2. \A i \in 1..j : ~IsPair(args[i])
      BY <1>2, <2>1, <3>1
    <3>3. m = IF j = 0 THEN 0 ELSE j - 1
      OBVIOUS
    <3> HIDE DEF j, m
    <3>4. IsCharges(MulCharges(args, j))
      BY <3>1, <3>2, <3>3, MulChargesType
    <3> QED BY <3>4 DEF j
  <2>4. CASE ~IsFactor(args[k])
    <3>1. \/ op_mul(args) = Raises(MulCharges(args, k - 1), "arg_not_atom")
          \/ op_mul(args) = Raises(MulCharges(args, k - 1), "arg_too_long")
      BY <1>5, <2>4 DEF op_mul
    <3> QED BY <2>2, <2>3, <3>1, RaisesIsRun
  <2>5. CASE IsFactor(args[k])
    <3> DEFINE m == IF k = 0 THEN 0 ELSE k - 1
    <3>1. \A i \in 1..k : ~IsPair(args[i])
      BY <1>2, <2>1, <2>5
    <3>2. IsCharges(MulCharges(args, k))
      <4>1. k \in 0..Len(args)
        BY <2>1
      <4>2. m = IF k = 0 THEN 0 ELSE k - 1
        OBVIOUS
      <4> HIDE DEF k, m
      <4> QED BY <3>1, <4>1, <4>2, MulChargesType
    <3>3. op_mul(args) = Raises(MulCharges(args, k), "arg_too_long")
      BY <1>2, <1>5, <2>1, <2>5 DEF op_mul
    <3> QED BY <2>2, <3>2, <3>3, RaisesIsRun
  <2> QED BY <2>4, <2>5
<1> QED
  BY <1>3, <1>4, <1>5

-----------------------------------------------------------------------------
(* The bitwise folds, divmod, and the operators on bytes and hashes. *)

\* logand, logior and logxor.
LEMMA LogFoldsRun ==
    ASSUME NEW S, NodeSet(S), NEW args \in Seq(S)
    PROVE  IsRun(op_logand(args), S) /\ IsRun(op_logior(args), S) /\ IsRun(op_logxor(args), S)
<1>1. ASSUME NEW bits PROVE IsRun(LogRun(args, bits), S)
  BY IntLoopRuns DEF LogRun, LOG_BASE_COST, LOG_COST_PER_ARG, LOG_COST_PER_BYTE
<1> QED
  BY <1>1 DEF op_logand, op_logior, op_logxor

\* divmod.
LEMMA DivmodRuns ==
    ASSUME NEW S, NodeSet(S), NEW args \in Seq(S)
    PROVE  IsRun(op_divmod(args), S)
<1> DEFINE n == DIVMOD_BASE_COST + DIVMOD_COST_PER_BYTE * (ByteLen(args[1]) + ByteLen(args[2]))
           q == FloorDiv(AtomToInt(args[1]), AtomToInt(args[2]))
           r == AtomToInt(args[1]) - q * AtomToInt(args[2])
<1>1. CASE DivError(args) # Ok
  <2>1. DivError(args) \in OperatorErrors
    BY <1>1 DEF DivError, TwoAtomsError, OperatorErrors
  <2> QED BY <1>1, <2>1, NoCharge, RaisesIsRun DEF op_divmod
<1>2. CASE DivError(args) = Ok
  <2>1. n \in Nat /\ n > 0
    <3>1. TwoAtomsError(args) = Ok
      BY <1>2 DEF DivError
    <3> QED BY <3>1, TwoAtoms DEF DIVMOD_BASE_COST, DIVMOD_COST_PER_BYTE
  <2>2. CASE AtomToInt(args[2]) = 0
    <3>1. op_divmod(args) = Raises(<<n>>, "div_by_zero")
      BY <1>2, <2>2 DEF op_divmod
    <3>2. "div_by_zero" \in OperatorErrors
      BY DEF OperatorErrors
    <3> DEFINE charges == <<n>>
    <3>3. IsCharges(charges)
      <4> HIDE DEF n
      <4> QED BY <2>1, OneCharge
    <3> HIDE DEF n, charges
    <3>4. IsRun(Raises(charges, "div_by_zero"), S)
      BY <3>2, <3>3, RaisesIsRun
    <3> QED BY <3>1, <3>4 DEF charges
  <2>3. CASE AtomToInt(args[2]) # 0
    <3> DEFINE q_atom == IntToAtom(q)
               r_atom == IntToAtom(r)
               x == Malloc(q_atom)
               y == Malloc(r_atom)
               charges == <<n, x, y>>
               T == S \cup {q_atom}
               U == T \cup {r_atom}
    <3>1. NodeSet(T) /\ x \in Nat
      <4> HIDE DEF q
      <4> QED BY IntExtends
    <3>2. NodeSet(U) /\ y \in Nat
      <4> HIDE DEF r, T
      <4> QED BY <3>1, IntExtends
    <3>3. NodeSet(U \cup {Cons(q_atom, r_atom)})
      <4> HIDE DEF q_atom, r_atom
      <4>1. q_atom \in U /\ r_atom \in U
        OBVIOUS
      <4> HIDE DEF U
      <4> QED BY <3>2, <4>1, ConsExtends
    <3>4. IsCharges(charges) /\ Len(charges) > 0 /\ charges[1] > 0
      <4> HIDE DEF n, x, y
      <4>1. \A i \in 1..3 : charges[i] \in Nat
        BY <2>1, <3>1, <3>2
      <4>2. Len(charges) = 3 /\ charges[1] = n
        OBVIOUS
      <4> HIDE DEF charges
      <4> QED BY <2>1, <4>1, <4>2 DEF IsCharges
    <3>5. op_divmod(args) = Returns(charges, Cons(q_atom, r_atom))
      BY <1>2, <2>3 DEF op_divmod
    <3> DEFINE V == U \cup {Cons(q_atom, r_atom)}
    <3>6. S \subseteq V /\ Cons(q_atom, r_atom) \in V
      OBVIOUS
    <3> HIDE DEF charges, q_atom, r_atom, V
    <3> QED BY <3>3, <3>4, <3>5, <3>6, ReturnsPartsIsRun DEF V
  <2> QED BY <2>2, <2>3
<1> QED
  BY <1>1, <1>2

\* The bytes of the arguments put together have a length.
LEMMA JoinedLen ==
    ASSUME NEW S, NodeSet(S), NEW args \in Seq(S), AllAtoms(args)
    PROVE  Len(Joined(args)) \in Nat
<1> DEFINE n == Len(args)
           lengths == [i \in 1..n |-> ByteLen(args[i])]
           end == Totals(0, lengths)
           piece(j) == LET i == CHOOSE i \in 1..n : end[i - 1] < j /\ j <= end[i]
                       IN  args[i].bytes[j - end[i - 1]]
           joined == [j \in 1..end[n] |-> piece(j)]
<1>1. n \in Nat
  OBVIOUS
<1>2. \A i \in 1..n : lengths[i] \in Nat
  <2> TAKE i \in 1..n
  <2>1. args[i] \in S /\ ~IsPair(args[i])
    BY DEF AllAtoms, PairsAmong
  <2>2. ByteLen(args[i]) \in Nat
    BY <2>1, ByteLenType
  <2> QED BY <2>2
<1>3. Len(lengths) = n
  BY <1>1
<1>4. end[n] \in Nat
  <2> HIDE DEF lengths, n
  <2>1. \A i \in 0..Len(lengths) : Totals(0, lengths)[i] \in Nat
    BY <1>1, <1>2, <1>3, TotalsGrow
  <2> QED BY <1>1, <1>3, <2>1
<1>5. Joined(args) = joined
  BY DEF Joined
<1> HIDE DEF end, n, piece
<1> QED BY <1>4, <1>5

\* A slice has a length, whatever its ends.
LEMMA SliceLen ==
    ASSUME NEW bytes, Len(bytes) \in Nat, NEW start, NEW end
    PROVE  Len(Slice(bytes, start, end)) \in Nat
<1> DEFINE inside == {j \in 1..Len(bytes) : start < j /\ j <= end}
           length == Cardinality(inside)
<1>1. IsFiniteSet(1..Len(bytes))
  BY FS_Interval
<1>2. inside \in SUBSET (1..Len(bytes))
  OBVIOUS
<1> HIDE DEF inside
<1>3. length \in Nat
  BY <1>1, <1>2, FS_Subset, FS_CardinalityType
<1>4. Slice(bytes, start, end) = [i \in 1..length |-> bytes[start + i]]
  BY DEF Slice, inside
<1> HIDE DEF length
<1> QED BY <1>3, <1>4

\* A digest has a length.
LEMMA DigestLen ==
    ASSUME NEW bytes
    PROVE  Len(Digest(bytes)) \in Nat
BY BigEndianSeq, WordsHaveBytes DEF Digest, Word

\* An atom of any length joins the nodes, and can be paid for.
LEMMA BytesExtend ==
    ASSUME NEW S, NodeSet(S), NEW bytes, Len(bytes) \in Nat
    PROVE  NodeSet(S \cup {Atom(bytes)}) /\ Malloc(Atom(bytes)) \in Nat
<1>1. ByteLen(Atom(bytes)) \in Nat
  BY DEF ByteLen, Atom
<1> QED BY <1>1, AtomExtends DEF Malloc, MALLOC_COST_PER_BYTE

\* concat and sha256.
LEMMA BytesOperatorsRun ==
    ASSUME NEW S, NodeSet(S), NEW args \in Seq(S)
    PROVE  IsRun(op_concat(args), S) /\ IsRun(op_sha256(args), S)
<1>1. IsRun(op_concat(args), S)
  <2> DEFINE node == Atom(Joined(args))
             mallocs == <<>>
             rate == CONCAT_COST_PER_BYTE + MALLOC_COST_PER_BYTE
  <2>1. AllAtoms(args) => mallocs \in Seq(Nat) /\ NodeSet(S \cup {node})
    BY JoinedLen, BytesExtend
  <2>2. /\ CONCAT_BASE_COST \in Nat /\ CONCAT_BASE_COST > 0
        /\ CONCAT_COST_PER_ARG \in Nat /\ rate \in Nat
    BY DEF CONCAT_BASE_COST, CONCAT_COST_PER_ARG, CONCAT_COST_PER_BYTE, MALLOC_COST_PER_BYTE
  <2>3. op_concat(args)
          = LoopRun(args, CONCAT_BASE_COST, CONCAT_COST_PER_ARG, rate, mallocs, node)
    BY DEF op_concat
  <2> HIDE DEF node, mallocs, rate
  <2>4. IsRun(LoopRun(args, CONCAT_BASE_COST, CONCAT_COST_PER_ARG, rate, mallocs, node), S)
    BY <2>1, <2>2, LoopRuns
  <2> QED BY <2>3, <2>4
<1>2. IsRun(op_sha256(args), S)
  <2> DEFINE node == Atom(Digest(Joined(args)))
             m == Malloc(node)
             mallocs == <<m>>
  <2>1. m \in Nat /\ NodeSet(S \cup {node})
    BY DigestLen, BytesExtend
  <2>2. mallocs \in Seq(Nat)
    <3> HIDE DEF m
    <3> QED BY <2>1
  <2>3. /\ SHA256_BASE_COST \in Nat /\ SHA256_BASE_COST > 0
        /\ SHA256_COST_PER_ARG \in Nat /\ SHA256_COST_PER_BYTE \in Nat
    BY DEF SHA256_BASE_COST, SHA256_COST_PER_ARG, SHA256_COST_PER_BYTE
  <2>4. op_sha256(args) = LoopRun(args, SHA256_BASE_COST, SHA256_COST_PER_ARG,
                                  SHA256_COST_PER_BYTE, mallocs, node)
    BY DEF op_sha256
  <2> HIDE DEF node, mallocs
  <2> QED BY <2>1, <2>2, <2>3, <2>4, LoopRuns
<1> QED
  BY <1>1, <1>2

\* substr and secp_verify.
LEMMA SubstrAndVerifyRun ==
    ASSUME NEW S, NodeSet(S), NEW args \in Seq(S)
    PROVE  IsRun(op_substr(args), S) /\ IsRun(op_secp_verify(args), S)
<1>1. \A e \in OperatorErrors : IsRun(Raises(<<>>, e), S)
  BY NoCharge, RaisesIsRun
<1>2. IsRun(op_substr(args), S)
  <2>1. CASE SubstrError(args) # Ok
    <3>1. SubstrError(args) \in OperatorErrors
      BY <2>1 DEF SubstrError, OperatorErrors
    <3> QED BY <1>1, <2>1, <3>1 DEF op_substr
  <2>2. CASE SubstrError(args) = Ok
    <3> DEFINE bytes == Slice(args[1].bytes, SubstrStart(args), SubstrEnd(args))
               charges == <<SUBSTR_COST>>
    <3>1. Len(args[1].bytes) \in Nat
      <4>1. Len(args) \in {2, 3} /\ ~IsPair(args[1])
        BY <2>2 DEF SubstrError, Ok
      <4>2. args[1] \in S
        BY <4>1
      <4> QED BY <4>1, <4>2, ByteLenType DEF ByteLen
    <3>2. Len(bytes) \in Nat
      BY <3>1, SliceLen
    <3>3. NodeSet(S \cup {Atom(bytes)})
      <4> HIDE DEF bytes
      <4> QED BY <3>2, BytesExtend
    <3>4. IsCharges(charges) /\ Len(charges) > 0 /\ charges[1] > 0
      BY OneCharge DEF SUBSTR_COST
    <3>5. op_substr(args) = Returns(charges, Atom(bytes))
      BY <2>2 DEF op_substr
    <3> HIDE DEF bytes, charges
    <3> QED BY <3>3, <3>4, <3>5, ReturnsIsRun
  <2> QED BY <2>1, <2>2
<1>3. IsRun(op_secp_verify(args), S)
  <2>1. CASE SecpError(args) # Ok
    <3>1. SecpError(args) \in OperatorErrors
      BY <2>1 DEF SecpError, OperatorErrors
    <3> QED BY <1>1, <2>1, <3>1 DEF op_secp_verify
  <2>2. CASE SecpError(args) = Ok
    <3> DEFINE charges == <<SECP_VERIFY_COST>>
    <3>1. IsCharges(charges) /\ Len(charges) > 0 /\ charges[1] > 0
      BY OneCharge DEF SECP_VERIFY_COST
    <3>2. NodeSet(S \cup {Nil}) /\ NodeSet(S \cup {TrueAtom})
      <4>1. Len(<<>>) \in Nat /\ Len(<<1>>) \in Nat
        OBVIOUS
      <4> QED BY <4>1, AtomExtends DEF Nil, TrueAtom
    <3>3. "secp_verify_failed" \in OperatorErrors
      BY DEF OperatorErrors
    <3>4. \/ op_secp_verify(args) = Returns(charges, Nil)
          \/ op_secp_verify(args) = Returns(charges, TrueAtom)
          \/ op_secp_verify(args) = Raises(charges, "secp_verify_failed")
      BY <2>2 DEF op_secp_verify
    <3> HIDE DEF charges
    <3>5. IsRun(Returns(charges, Nil), S)
      BY <3>1, <3>2, ReturnsIsRun
    <3>6. IsRun(Returns(charges, TrueAtom), S)
      BY <3>1, <3>2, ReturnsIsRun
    <3>7. IsRun(Raises(charges, "secp_verify_failed"), S)
      BY <3>1, <3>3, RaisesIsRun
    <3> QED BY <3>4, <3>5, <3>6, <3>7
  <2> QED BY <2>1, <2>2
<1> QED
  BY <1>2, <1>3

-----------------------------------------------------------------------------
(* The walk of sha256tree, turn by turn. *)

\* What the walk over a set of nodes keeps: a stack, and charges that begin
\* with a positive one.
Walks(S) ==
    {w \in [stack : Seq(S \cup {COMBINE}), charges : Seq(Nat)] :
        w.charges # <<>> => w.charges[1] > 0}

\* Every node of a tree walk is charged a natural number.
LEMMA NodeChargeType ==
    ASSUME NEW S, NodeSet(S), NEW node \in S
    PROVE  NodeCharge(node) \in Nat
<1>1. CASE IsPair(node)
  BY <1>1 DEF NodeCharge, SHA256TREE_PAIR_COST
<1>2. CASE ~IsPair(node)
  BY <1>2, ByteLenType DEF NodeCharge, SHA256TREE_COST_PER_BYTE
<1> QED BY <1>1, <1>2

\* A turn stays among the walks, and one that reaches a node charges it.
LEMMA WalkTurnType ==
    ASSUME NEW S, NodeSet(S), NEW walk \in Walks(S)
    PROVE  /\ WalkTurn(walk) \in Walks(S)
           /\ walk.charges # <<>> => WalkTurn(walk).charges # <<>>
           /\ walk.stack # <<>> /\ Head(walk.stack) # COMBINE => WalkTurn(walk).charges # <<>>
<1> DEFINE top == Head(walk.stack)
           base == IF walk.charges = <<>> THEN SHA256TREE_BASE_COST ELSE 0
           U == S \cup {COMBINE}
           below == Tail(walk.stack)
<1>1. /\ walk.stack \in Seq(U) /\ walk.charges \in Seq(Nat)
      /\ walk = [stack |-> walk.stack, charges |-> walk.charges]
      /\ walk.charges # <<>> => walk.charges[1] > 0
  BY DEF Walks
<1>2. CASE walk.stack = <<>>
  BY <1>2 DEF WalkTurn
<1>3. walk.stack # <<>> => top \in U /\ below \in Seq(U)
  <2> HIDE DEF U
  <2> QED BY <1>1
<1>4. CASE walk.stack # <<>> /\ top = COMBINE
  <2>1. WalkTurn(walk) = [stack |-> below, charges |-> walk.charges]
    BY <1>1, <1>4 DEF WalkTurn
  <2> HIDE DEF below, top
  <2> QED BY <1>1, <1>3, <1>4, <2>1 DEF Walks, top
<1>5. CASE walk.stack # <<>> /\ top # COMBINE
  <2> DEFINE charge == base + NodeCharge(top)
             halves == IF IsPair(top) THEN <<Rest(top), First(top), COMBINE>> ELSE <<>>
             stack == halves \o below
             charges == Append(walk.charges, charge)
  <2>1. top \in S
    BY <1>3, <1>5
  <2>2. NodeCharge(top) \in Nat
    <3> HIDE DEF top
    <3> QED BY <2>1, NodeChargeType
  <2>3. charge \in Nat /\ (walk.charges = <<>> => charge > 0)
    <3> HIDE DEF top
    <3> QED BY <2>2 DEF SHA256TREE_BASE_COST
  <2>4. halves \in Seq(U)
    <3>1. IsPair(top) => First(top) \in S /\ Rest(top) \in S
      <4> HIDE DEF top
      <4> QED BY <2>1, PairParts
    <3>2. COMBINE \in U /\ S \subseteq U
      OBVIOUS
    <3> HIDE DEF top, U
    <3>3. CASE IsPair(top)
      BY <3>1, <3>2, <3>3
    <3>4. CASE ~IsPair(top)
      BY <3>4
    <3> QED BY <3>3, <3>4
  <2>5. stack \in Seq(U)
    <3> HIDE DEF halves, below, U
    <3> QED BY <1>3, <1>5, <2>4
  <2>6. charges \in Seq(Nat) /\ charges # <<>> /\ charges[1] > 0
    <3> DEFINE before == walk.charges
    <3>1. before \in Seq(Nat) /\ (before # <<>> => before[1] > 0)
      BY <1>1
    <3>2. charges = Append(before, charge) /\ (before = <<>> => charge > 0)
      BY <2>3
    <3> HIDE DEF before, charge, charges
    <3>3. /\ charges \in Seq(Nat) /\ Len(charges) = Len(before) + 1
          /\ charges[Len(before) + 1] = charge
          /\ \A i \in 1..Len(before) : charges[i] = before[i]
      BY <2>3, <3>1, <3>2
    <3>4. Len(before) \in Nat /\ (before = <<>> <=> Len(before) = 0)
      BY <3>1
    <3>5. charges # <<>>
      BY <3>3, <3>4
    <3> QED BY <3>1, <3>2, <3>3, <3>4, <3>5
  <2>7. WalkTurn(walk) = [stack |-> stack, charges |-> charges]
    BY <1>5 DEF WalkTurn
  <2> HIDE DEF stack, charges, U
  <2>8. WalkTurn(walk) \in Walks(S)
    BY <2>5, <2>6, <2>7 DEF Walks, U
  <2> QED BY <2>6, <2>7, <2>8
<1> QED
  BY <1>2, <1>4, <1>5

\* The walk over a tree keeps nodes on its stack, and has charged for one.
LEMMA TreeWalkType ==
    ASSUME NEW S, NodeSet(S), NEW node \in S
    PROVE  TreeWalk(node)[WALK_MAX] \in Walks(S) /\ TreeWalk(node)[WALK_MAX].charges # <<>>
<1> DEFINE n == WALK_MAX
           W == Walks(S)
           x == [stack |-> <<node>>, charges |-> <<>>]
           step == [i \in 1..n |-> [w \in W |-> WalkTurn(w)]]
           Eqn(f) == f = [i \in 0..n |-> IF i = 0 THEN x ELSE WalkTurn(f[i - 1])]
           t == TreeWalk(node)
<1>1. n \in Nat /\ n > 0
  BY DEF WALK_MAX
<1>2. x \in W
  <2>1. <<node>> \in Seq(S \cup {COMBINE}) /\ <<>> \in Seq(Nat)
    OBVIOUS
  <2> QED BY <2>1 DEF Walks
<1>3. \A w \in W : WalkTurn(w) \in W
  BY WalkTurnType
<1> HIDE DEF n, W, x
<1>4. Steps(step, n, W)
  BY <1>3 DEF Steps
<1>5. PICK f \in [0..n -> W] : Follows(f, step, n, x)
  <2> HIDE DEF step
  <2> QED BY <1>1, <1>2, <1>4, RecursionExists
<1>6. f[0] = x /\ \A i \in 1..n : f[i] = WalkTurn(f[i - 1])
  <2>1. f[0] = x /\ \A i \in 1..n : f[i] = step[i][f[i - 1]]
    BY <1>5 DEF Follows
  <2>2. \A i \in 1..n : f[i - 1] \in W
    BY <1>1
  <2>3. \A i \in 1..n : step[i][f[i - 1]] = WalkTurn(f[i - 1])
    BY <2>2
  <2> QED BY <2>1, <2>3
<1>7. Eqn(f)
  <2>1. f = [i \in 0..n |-> f[i]]
    OBVIOUS
  <2>2. \A i \in 0..n : f[i] = IF i = 0 THEN x ELSE WalkTurn(f[i - 1])
    BY <1>1, <1>6
  <2> QED BY <2>1, <2>2
<1>8. Eqn(t)
  <2>1. t = CHOOSE g : Eqn(g)
    BY DEF TreeWalk, n, x
  <2> HIDE DEF Eqn, t
  <2> QED BY <1>7, <2>1
<1>9. t[0] = x /\ \A i \in 1..n : t[i] = WalkTurn(t[i - 1])
  <2> HIDE DEF t
  <2>1. \A i \in 0..n : t[i] = IF i = 0 THEN x ELSE WalkTurn(t[i - 1])
    BY <1>8
  <2> QED BY <1>1, <2>1
<1> DEFINE T == {i \in 0..n : t[i] \in W /\ (i > 0 => t[i].charges # <<>>)}
<1> HIDE DEF t
<1>10. 0 \in T
  BY <1>1, <1>2, <1>9
<1>11. ASSUME NEW i \in 0..(n - 1), i \in T
       PROVE  i + 1 \in T
  <2>1. i + 1 \in 1..n /\ i + 1 \in 0..n /\ (i + 1) - 1 = i
    BY <1>1
  <2>2. t[i] \in W /\ (i > 0 => t[i].charges # <<>>) /\ t[i + 1] = WalkTurn(t[i])
    BY <1>9, <1>11, <2>1
  <2>3. i = 0 => t[i].stack # <<>> /\ Head(t[i].stack) # COMBINE
    <3>1. node # COMBINE
      BY DEF NodeSet, IsNodeIn, IsAtom, IsPair, COMBINE
    <3>2. <<node>> # <<>> /\ Head(<<node>>) = node
      OBVIOUS
    <3> QED BY <1>9, <3>1, <3>2 DEF x
  <2>4. i = 0 \/ i > 0
    OBVIOUS
  <2>5. WalkTurn(t[i]) \in W /\ WalkTurn(t[i]).charges # <<>>
    BY <2>2, <2>3, <2>4, WalkTurnType DEF W
  <2> QED BY <2>1, <2>2, <2>5
<1>12. n \in T
  <2> HIDE DEF T
  <2>1. 0..n \subseteq T
    BY <1>1, <1>10, <1>11, IntervalInduction
  <2> QED BY <1>1, <2>1
<1> QED
  BY <1>1, <1>12 DEF n, W, t

\* sha256tree.
LEMMA TreeHashRuns ==
    ASSUME NEW S, NodeSet(S), NEW args \in Seq(S)
    PROVE  IsRun(op_sha256tree(args), S)
<1>1. CASE Len(args) # 1
  <2>1. "wrong_arg_count" \in OperatorErrors
    BY DEF OperatorErrors
  <2> QED BY <1>1, <2>1, NoCharge, RaisesIsRun DEF op_sha256tree
<1>2. CASE Len(args) = 1
  <2> DEFINE root == TreeHashes(args[1])[WALK_MAX][1]
             bytes == [i \in 1..WORD_BYTES |-> root[i]]
             m == Malloc(Atom(bytes))
             c == TreeWalk(args[1])[WALK_MAX].charges
             d == c \o <<m>>
  <2>1. c \in Seq(Nat) /\ c # <<>> /\ c[1] > 0
    <3>1. args[1] \in S
      BY <1>2
    <3> QED BY <3>1, TreeWalkType DEF Walks
  <2>2. Len(bytes) \in Nat
    <3> HIDE DEF root
    <3> QED BY WordsHaveBytes
  <2>3. NodeSet(S \cup {Atom(bytes)}) /\ m \in Nat
    <3> HIDE DEF bytes
    <3> QED BY <2>2, BytesExtend
  <2>4. IsCharges(d) /\ Len(d) > 0 /\ d[1] > 0
    <3> HIDE DEF c, m
    <3>1. <<m>> \in Seq(Nat) /\ Len(<<m>>) = 1
      BY <2>3
    <3>2. Len(c) \in Nat /\ Len(c) > 0
      BY <2>1
    <3>3. /\ d \in Seq(Nat) /\ Len(d) = Len(c) + 1
          /\ \A i \in 1..(Len(c) + 1) : d[i] = IF i <= Len(c) THEN c[i] ELSE <<m>>[i - Len(c)]
      BY <2>1, <3>1, ConcatProperties
    <3> HIDE DEF d
    <3> QED BY <2>1, <3>2, <3>3 DEF IsCharges
  <2>5. op_sha256tree(args) = Returns(d, Atom(bytes))
    BY <1>2 DEF op_sha256tree
  <2> HIDE DEF d, bytes
  <2> QED BY <2>3, <2>4, <2>5, ReturnsIsRun
<1> QED
  BY <1>1, <1>2

-----------------------------------------------------------------------------
\* Every operator of the table, on any arguments: its charges are natural
\* numbers, an operator that returns has charged, and what it returns is a
\* node.  (operators.py: every function of OPERATORS charges before it
\* returns.)
THEOREM OperatorsRun ==
    ASSUME NEW S, NodeSet(S), NEW args \in Seq(S), NEW op \in OPERATORS
    PROVE  IsRun(RunOperator(op, args), S)
<1> DEFINE Runs(body) == IsRun(body, S)
<1>1. /\ Runs(op_if(args)) /\ Runs(op_cons(args)) /\ Runs(op_first(args))
      /\ Runs(op_rest(args)) /\ Runs(op_listp(args)) /\ Runs(op_raise(args))
      /\ Runs(op_eq(args)) /\ Runs(op_not(args)) /\ Runs(op_any(args))
      /\ Runs(op_all(args)) /\ Runs(op_gr(args)) /\ Runs(op_grs(args))
      /\ Runs(op_strlen(args)) /\ Runs(op_add(args)) /\ Runs(op_sub(args))
      /\ Runs(op_mul(args)) /\ Runs(op_div(args)) /\ Runs(op_divmod(args))
      /\ Runs(op_lognot(args)) /\ Runs(op_ash(args)) /\ Runs(op_lsh(args))
      /\ Runs(op_logand(args)) /\ Runs(op_logior(args)) /\ Runs(op_logxor(args))
      /\ Runs(op_concat(args)) /\ Runs(op_sha256(args)) /\ Runs(op_substr(args))
      /\ Runs(op_secp_verify(args)) /\ Runs(op_sha256tree(args))
  BY TreeOperatorsRun, BooleanOperatorsRun, ArithOperatorsRun, OrderOperatorsRun,
     DivisionRuns, DivmodRuns, ShiftsRun, MultiplicationRuns, LogFoldsRun,
     BytesOperatorsRun, SubstrAndVerifyRun, TreeHashRuns
<1> HIDE DEF Runs
<1>2. Runs(RunOperator(op, args))
  BY <1>1, SMTT(60) DEF OPERATORS, RunOperator, Atom,
     OpIf, OpCons, OpFirst, OpRest, OpListp, OpRaise, OpEq, OpGrs, OpSha256, OpSubstr,
     OpStrlen, OpConcat, OpSecpVerify, OpAdd, OpSub, OpMul, OpDiv, OpDivmod, OpGr,
     OpAsh, OpLsh, OpLogand, OpLogior, OpLogxor, OpLognot, OpNot, OpAny, OpAll,
     OpSha256tree
<1> QED
  BY <1>2 DEF Runs
=============================================================================
