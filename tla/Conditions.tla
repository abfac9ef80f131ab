----------------------------- MODULE Conditions -----------------------------
(***************************************************************************)
(* Condition-list parsing (bitlisp/conditions.py, parse_conditions): one   *)
(* pass over the list a program returned, each condition checked and then  *)
(* charged on the budget its evaluation ran on.  One action parses one     *)
(* condition.                                                              *)
(*                                                                         *)
(* Widths and bounds are constants so that TLC can use small ones; the     *)
(* code's values are in the comments.  The opcodes, the modes, the costs   *)
(* and the specifier table are the code's.                                 *)
(***************************************************************************)
EXTENDS Sexp, Costs, Curve, ConditionTable

CONSTANTS
    HASH_SIZE,               \* 32, as WORD_BYTES
    OUTPOINT_SIZE,           \* 36
    SIG_SIGNATURE_SIZE,      \* 64
    MAX_SCRIPT_PUBKEY_SIZE,  \* 10000
    MAX_MESSAGE_SIZE,        \* 1024
    MAX_MONEY,               \* 2100000000000000
    LOCKTIME_THRESHOLD,      \* 500000000
    LOCKTIME_MAX,            \* 2^32 - 1
    SEQUENCE_VALUE_MAX,      \* 2^16 - 1
    NoBudget,                \* max_cost None
    Lists, Budgets, Spent    \* what parse_conditions may be called with

ASSUME WidthsDiffer ==
    /\ {HASH_SIZE, OUTPOINT_SIZE, SIG_SIGNATURE_SIZE} \subseteq Nat \ {0}
    /\ Cardinality({HASH_SIZE, OUTPOINT_SIZE, SIG_SIGNATURE_SIZE}) = 3
ASSUME HashesAreWords == HASH_SIZE = WORD_BYTES
ASSUME BoundsAreNat ==
    {MAX_SCRIPT_PUBKEY_SIZE, MAX_MESSAGE_SIZE, MAX_MONEY, LOCKTIME_THRESHOLD,
     LOCKTIME_MAX, SEQUENCE_VALUE_MAX} \subseteq Nat
ASSUME BudgetsAreCosts == Budgets \ {NoBudget} \subseteq Nat /\ Spent \subseteq Nat

\* Nodes as the parser meets them: a list, its elements and their arguments.
IsBytes(n) == IsAtom(n) /\ n = Atom(n.bytes) /\ n.bytes \in Seq(Byte)
Parts(n) == {ListElems(n)[i] : i \in DOMAIN ListElems(n)}
IsSpine(n) ==
    /\ IsPair(n) /\ n = Spine(n.elems, n.tail)
    /\ n.elems \in Seq(Parts(n)) /\ n.elems # <<>> /\ IsBytes(n.tail)
IsTree(n) == IsBytes(n) \/ IsSpine(n)
IsElement(n) == IsTree(n) /\ \A argument \in Parts(n) : IsTree(argument)
ASSUME ListsAreTrees ==
    \A list \in Lists : IsTree(list) /\ \A element \in Parts(list) : IsElement(element)

RESERVED_COST_FLOOR == 500

-----------------------------------------------------------------------------
(* Operands: an operand kind is a set of widths or a range of integers. *)

Widths ==
    [claimed_script |-> 1..MAX_SCRIPT_PUBKEY_SIZE,
     script_pubkey  |-> 0..MAX_SCRIPT_PUBKEY_SIZE,
     outpoint       |-> {OUTPOINT_SIZE},
     txid           |-> {HASH_SIZE},
     tapleaf        |-> {HASH_SIZE},
     merkle_root    |-> {HASH_SIZE},
     hash           |-> {HASH_SIZE},
     root_or_none   |-> {0, HASH_SIZE},
     signature      |-> {SIG_SIGNATURE_SIZE},
     payload        |-> 0..MAX_MESSAGE_SIZE]

Ranges ==
    [amount    |-> 0..MAX_MONEY,
     height    |-> 0..(LOCKTIME_THRESHOLD - 1),
     time      |-> LOCKTIME_THRESHOLD..LOCKTIME_MAX,
     sequence  |-> 0..SEQUENCE_VALUE_MAX,
     pair_mode |-> 0..1023,
     mode      |-> 0..31]

IsMinimal(atom) == IntToAtom(AtomToInt(atom)) = atom

IsOperand(kind, atom) ==
    /\ IsAtom(atom)
    /\ IF kind \in DOMAIN Widths THEN ByteLen(atom) \in Widths[kind]
       ELSE IsMinimal(atom) /\ AtomToInt(atom) \in Ranges[kind]

\* The value a well-formed operand is parsed into.
Operand(kind, atom) == IF kind \in DOMAIN Widths THEN atom.bytes ELSE AtomToInt(atom)

FixedKinds(opcode) ==
    CASE opcode = CREATE_OUTPUT          -> <<"claimed_script", "amount">>
      [] opcode = CREATE_OUTPUT_TAPROOT  -> <<"hash", "root_or_none", "amount">>
      [] opcode \in SigOpcodes         -> <<"hash", "payload", "signature">>
      [] opcode = ASSERT_LOCKTIME_HEIGHT -> <<"height">>
      [] opcode = ASSERT_LOCKTIME_TIME   -> <<"time">>
      [] opcode = ASSERT_SEQUENCE_HEIGHT -> <<"sequence">>
      [] opcode = ASSERT_SEQUENCE_TIME   -> <<"sequence">>
      [] opcode = ASSERT_MY_OUTPOINT     -> <<"outpoint">>
      [] opcode = ASSERT_MY_TXID         -> <<"txid">>
      [] opcode = ASSERT_MY_SCRIPTPUBKEY -> <<"script_pubkey">>
      [] opcode = ASSERT_MY_AMOUNT       -> <<"amount">>
      [] opcode = ASSERT_MY_TAPTREE      -> <<"hash", "merkle_root">>
      [] opcode = ANNOUNCE               -> <<"payload", "payload">>
      [] opcode = RESERVE_FEE            -> <<"amount">>
      [] opcode = SEAL                   -> <<"hash">>
      [] opcode = SEAL_OUTPUTS           -> <<"hash">>
      [] OTHER                           -> <<>>

\* Conditions whose arguments depend on a mode, which is the first of them:
\* its kind, the kinds before the specifier and the specifier's commitment.
ModeShape(opcode) ==
    CASE opcode = ASSERT_ANNOUNCEMENT -> <<"mode", "payload", "payload">>
      [] opcode \in {ASSURE, REQUIRE} -> <<"pair_mode", "payload">>
      [] OTHER                        -> <<>>

\* mode & 31 and mode >> 5.  The assurer's half is the high one; the
\* argument specifier describes the other participant.
LowHalf(mode) == mode % 32
HighHalf(mode) == mode \div 32
ArgumentHalf(opcode, mode) == IF opcode = REQUIRE THEN HighHalf(mode) ELSE LowHalf(mode)
\* Defect: REQUIRE's layout for both.
OwnHalfLow(opcode, mode) == LowHalf(mode)

OwnHalf(opcode, mode) == IF opcode = REQUIRE THEN LowHalf(mode) ELSE HighHalf(mode)

-----------------------------------------------------------------------------
(* The encoding checks of one condition, in their order. *)

Accepted == "accepted"

CheckArgs(kinds, args) ==
    IF Len(args) # Len(kinds) THEN "bad_condition_arity"
    ELSE IF \A i \in 1..Len(args) : IsOperand(kinds[i], args[i]) THEN Accepted
    ELSE "bad_condition_arg"

ModeKinds(opcode, mode) ==
    ModeShape(opcode) \o SPECIFIER_OPERANDS[ArgumentHalf(opcode, mode)]

CheckMode(opcode, args) ==
    IF Len(args) < Len(ModeShape(opcode)) THEN "bad_condition_arity"
    ELSE IF ~IsOperand(ModeShape(opcode)[1], args[1]) THEN "bad_condition_arg"
    ELSE CheckArgs(ModeKinds(opcode, AtomToInt(args[1])), args)

CheckReserved(args) ==
    IF args = <<>> THEN "bad_condition_arity"
    ELSE IF ~(IsAtom(args[1]) /\ IsMinimal(args[1])) THEN "bad_condition_arg"
    ELSE IF AtomToInt(args[1]) < 0 THEN "bad_condition_arg"
    ELSE IF AtomToInt(args[1]) < RESERVED_COST_FLOOR THEN "reserved_cost_too_low"
    ELSE Accepted

IsOpcode(node) == IsAtom(node) /\ ByteLen(node) = 1
Opcode(element) == Unsigned(First(element).bytes)
Args(element) == ListElems(Rest(element))

\* A condition is walked to its end before its opcode is looked at.
Check(element) ==
    IF ~IsPair(element) \/ ~IsProperList(element) THEN "bad_condition_list"
    ELSE IF ~IsOpcode(First(element)) THEN "bad_condition_opcode"
    ELSE LET opcode == Opcode(element)
             args == Args(element)
         IN  IF opcode >= ReservedStart THEN CheckReserved(args)
             ELSE IF FixedKinds(opcode) # <<>> THEN CheckArgs(FixedKinds(opcode), args)
             ELSE IF ModeShape(opcode) # <<>> THEN CheckMode(opcode, args)
             ELSE "bad_condition_opcode"

-----------------------------------------------------------------------------
(* Parsed conditions and what they cost. *)

Operands(kinds, args) == [i \in 1..Len(kinds) |-> Operand(kinds[i], args[i])]

\* The condition a well-formed element is parsed into.
Parse(element) ==
    LET opcode == Opcode(element)
        args == Args(element)
    IN  IF opcode >= ReservedStart
        THEN [opcode |-> opcode, cost |-> AtomToInt(args[1]), args |-> Tail(args)]
        ELSE IF FixedKinds(opcode) # <<>>
        THEN [opcode |-> opcode, operands |-> Operands(FixedKinds(opcode), args)]
        ELSE LET mode == AtomToInt(args[1])
                 plain == Len(ModeShape(opcode))
                 operands == Operands(ModeKinds(opcode, mode), args)
             IN  [opcode |-> opcode,
                  own |-> OwnHalf(opcode, mode),
                  commitment |-> ArgumentHalf(opcode, mode),
                  operands |-> SubSeq(operands, 2, plain),
                  fields |-> SubSeq(operands, plain + 1, Len(operands))]

condition_cost(c) ==
    IF c.opcode >= ReservedStart THEN c.cost
    ELSE IF c.opcode = CREATE_OUTPUT THEN CREATE_OUTPUT_COST
    ELSE IF c.opcode = CREATE_OUTPUT_TAPROOT THEN CREATE_OUTPUT_COST + TAPROOT_TWEAK_COST
    ELSE IF c.opcode \in SigOpcodes THEN CONDITION_SIG_ASSERT_COST
    ELSE IF c.opcode \in {ANNOUNCE, ASSERT_ANNOUNCEMENT, ASSURE, REQUIRE}
    THEN CONDITION_MESSAGE_COST
    ELSE CONDITION_GENERIC_COST

NeedsDerivation(c) == c.opcode = CREATE_OUTPUT_TAPROOT
\* _derive_taproot_spk's output key, which the components may not have.
OutputKey(c) == taproot_output_key(c.operands[1], c.operands[2])
Derives(c) == OutputKey(c) # None

-----------------------------------------------------------------------------
(* parse_conditions. *)

VARIABLES
    node, max_cost, start,   \* its arguments: the list, the budget, the cost so far
    rest,                    \* what is left of the list
    cost,                    \* meter.cost
    parsed,                  \* the conditions parsed so far
    outcome                  \* "running", "done" or an error code

vars == <<node, max_cost, start, rest, cost, parsed, outcome>>
arguments == <<node, max_cost, start>>

Affords(total) == max_cost # NoBudget => total <= max_cost

Init ==
    /\ node \in Lists
    /\ max_cost \in Budgets
    /\ start \in Spent
    /\ Affords(start)
    /\ rest = node
    /\ cost = start
    /\ parsed = <<>>
    /\ outcome = "running"

\* The next element of the list, if there is one.
AtElement == outcome = "running" /\ IsPair(rest)

Reject(code) ==
    /\ outcome' = code
    /\ UNCHANGED <<arguments, rest, cost, parsed>>

\* The condition has parsed and the loop goes on.
Accept(condition) ==
    /\ parsed' = Append(parsed, condition)
    /\ rest' = Rest(rest)
    /\ UNCHANGED outcome

RejectElement ==
    /\ AtElement
    /\ Check(First(rest)) # Accepted
    /\ Reject(Check(First(rest)))

\* Defect: the list ends before the condition that the budget cannot pay.
ParseConditionTruncating ==
    /\ AtElement
    /\ Check(First(rest)) = Accepted
    /\ LET condition == Parse(First(rest))
       IN  /\ ~NeedsDerivation(condition)
           /\ IF Affords(cost + condition_cost(condition))
              THEN cost' = cost + condition_cost(condition) /\ Accept(condition)
              ELSE outcome' = "done" /\ UNCHANGED <<rest, cost, parsed>>
    /\ UNCHANGED arguments

\* A condition without a derivation: checked in full, then charged.
ParseCondition ==
    /\ AtElement
    /\ Check(First(rest)) = Accepted
    /\ LET condition == Parse(First(rest))
       IN  /\ ~NeedsDerivation(condition)
           /\ cost' = cost + condition_cost(condition)
           /\ IF Affords(cost') THEN Accept(condition)
              ELSE outcome' = "cost_exceeded" /\ UNCHANGED <<rest, parsed>>
    /\ UNCHANGED arguments

\* Defect: the tweak's cost alone is charged.
ParseTaprootUnderpaid ==
    /\ AtElement
    /\ Check(First(rest)) = Accepted
    /\ LET condition == Parse(First(rest))
       IN  /\ NeedsDerivation(condition)
           /\ cost' = cost + TAPROOT_TWEAK_COST
           /\ IF ~Affords(cost')
              THEN outcome' = "cost_exceeded" /\ UNCHANGED <<rest, parsed>>
              ELSE IF Derives(condition) THEN Accept(condition)
              ELSE outcome' = "bad_condition_arg" /\ UNCHANGED <<rest, parsed>>
    /\ UNCHANGED arguments

\* _parse_create_output_taproot: the point work comes after the charge.
ParseTaproot ==
    /\ AtElement
    /\ Check(First(rest)) = Accepted
    /\ LET condition == Parse(First(rest))
       IN  /\ NeedsDerivation(condition)
           /\ cost' = cost + condition_cost(condition)
           /\ IF ~Affords(cost')
              THEN outcome' = "cost_exceeded" /\ UNCHANGED <<rest, parsed>>
              ELSE IF Derives(condition) THEN Accept(condition)
              ELSE outcome' = "bad_condition_arg" /\ UNCHANGED <<rest, parsed>>
    /\ UNCHANGED arguments

\* Defect: the list is walked to its end before its elements are parsed.
ImproperListFirst ==
    /\ outcome = "running"
    /\ rest = node
    /\ ~IsProperList(rest)
    /\ Reject("bad_condition_list")

\* The list's tail is looked at only when everything before it has parsed.
ImproperList ==
    /\ outcome = "running"
    /\ IsAtom(rest)
    /\ rest # Nil
    /\ Reject("bad_condition_list")

EndOfList ==
    /\ outcome = "running"
    /\ rest = Nil
    /\ outcome' = "done"
    /\ UNCHANGED <<arguments, rest, cost, parsed>>

Next == RejectElement \/ ParseCondition \/ ParseTaproot \/ ImproperList \/ EndOfList

Spec == Init /\ [][Next]_vars

-----------------------------------------------------------------------------
(* Correctness. *)

Elements == ListElems(node)

\* The cost is what came in plus each parsed condition's flat cost, in any
\* state the loop goes on from: no charge is lost, repeated or refunded.
CostIsSum ==
    outcome \in {"running", "done"} =>
        cost = Total(start, [i \in 1..Len(parsed) |-> condition_cost(parsed[i])])

\* The one encoding of a parsed condition, by the layout of the opcode: an
\* addressed pair's mode has the assurer's commitment above the requirer's.
EncodeOperand(kind, value) ==
    IF kind \in DOMAIN Widths THEN Atom(value) ELSE IntToAtom(value)

EncodeOperands(kinds, operands) ==
    [i \in 1..Len(kinds) |-> EncodeOperand(kinds[i], operands[i])]

EncodeMode(c) ==
    IF c.opcode = ASSURE THEN 32 * c.own + c.commitment
    ELSE IF c.opcode = REQUIRE THEN 32 * c.commitment + c.own
    ELSE c.commitment

EncodeArgs(c) ==
    IF c.opcode >= ReservedStart THEN <<IntToAtom(c.cost)>> \o c.args
    ELSE IF FixedKinds(c.opcode) # <<>>
    THEN EncodeOperands(FixedKinds(c.opcode), c.operands)
    ELSE <<IntToAtom(EncodeMode(c))>>
           \o [i \in 1..Len(c.operands) |-> Atom(c.operands[i])]
           \o EncodeOperands(SPECIFIER_OPERANDS[c.commitment], c.fields)

\* A parsed condition has exactly one encoding, and it is the list element
\* it came from: strict arity and minimal integers leave nobody a second
\* way to write the same condition, and no bit of it is dropped.
EncodingIsCanonical ==
    \A i \in 1..Len(parsed) :
        ListOf(<<Atom(<<parsed[i].opcode>>)>> \o EncodeArgs(parsed[i])) = Elements[i]

\* The output keys a condition's components can derive, by logarithms.
DerivableKeys(c) == TweakedKeys(c.operands[1], c.operands[2])

\* A taproot output that has parsed pays to the key its components tweak
\* to, by the curve's discrete logarithms: the lift, the square root, the
\* tagged tweak and double-and-add give the one right key or the condition
\* is rejected.
OutputKeysAreTweaked ==
    \A i \in 1..Len(parsed) :
        NeedsDerivation(parsed[i]) => DerivableKeys(parsed[i]) = {OutputKey(parsed[i])}

\* The curve's arithmetic derives a key exactly when the logarithms say
\* that there is one.
ASSUME DerivationsExist ==
    \A element \in UNION {Parts(list) : list \in Lists} :
        Check(element) = Accepted /\ NeedsDerivation(Parse(element)) =>
            (Derives(Parse(element)) <=> DerivableKeys(Parse(element)) # {})

\* The elements before the first malformed one, parsed.
ParsedPrefix(elements) ==
    LET malformed == {i \in DOMAIN elements : Check(elements[i]) # Accepted}
    IN  [i \in {i \in DOMAIN elements : \A j \in malformed : i < j} |-> Parse(elements[i])]

\* The first of these conditions that bursts the budget or does not derive
\* decides, the budget first; then the element after them, which is
\* malformed; then the list's tail.
VerdictAfter(prefix, list, budget, spent) ==
    LET m == Len(prefix)
        total == Totals(spent, [i \in 1..m |-> condition_cost(prefix[i])])
        bursts == {i \in 1..m : budget # NoBudget /\ total[i] > budget}
        undoes == {i \in 1..m : NeedsDerivation(prefix[i]) /\ DerivableKeys(prefix[i]) = {}}
    IN  IF \E i \in bursts : \A j \in undoes : i <= j THEN "cost_exceeded"
        ELSE IF undoes # {} THEN "bad_condition_arg"
        ELSE IF m < Len(ListElems(list)) THEN Check(ListElems(list)[m + 1])
        ELSE IF ~IsProperList(list) THEN "bad_condition_list"
        ELSE "done"

\* What the whole list means, looked at at once.
VerdictOn(list, budget, spent) ==
    VerdictAfter(ParsedPrefix(ListElems(list)), list, budget, spent)

\* A rejected list is rejected for its first fault.
FirstFaultDecides ==
    outcome # "running" => outcome = VerdictOn(node, max_cost, start)

=============================================================================
