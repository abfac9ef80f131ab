----------------------------- MODULE Validation -----------------------------
(***************************************************************************)
(* Transactions and their validation.  First the transaction view          *)
(* (bitlisp/tx.py): what an input, an output slot and a transaction are,   *)
(* what the constructors admit, and the two hashes that validation         *)
(* derives.  Then bitlisp/validation.py: the checks of                     *)
(* validate_transaction, in the order in which it runs them.               *)
(*                                                                         *)
(* Hashes and serializations are taken to be injective, so each is the     *)
(* tuple of what it covers, in its order.                                  *)
(*                                                                         *)
(* A place <<i, k>> is the k-th condition of the i-th input.  A loop over  *)
(* every condition of every input is a quantifier over the places, and a   *)
(* Counter is the cardinality of a set of places.                          *)
(***************************************************************************)
EXTENDS Costs, FiniteSets, ConditionTable

CONSTANTS
    MAX_MONEY,                 \* 2100000000000000
    UINT32_MAX,                \* 2^32 - 1
    NotBitLisp,                \* conditions, tapleaf, merkle_root or internal_key None
    LOCKTIME_THRESHOLD,        \* 500000000
    SEQUENCE_FINAL,            \* 2^32 - 1
    SEQUENCE_DISABLE_FLAG,     \* 2^31
    SEQUENCE_TYPE_FLAG,        \* 2^22
    SEQUENCE_VALUES,           \* 2^16, one more than the value mask
    TaprootScript(_, _),       \* secp256k1.taproot_output_key, as a scriptPubKey
    Verifies(_, _, _)          \* secp256k1.verify: pubkey, digest, signature

ASSUME TimeConstantsArePositive ==
    {LOCKTIME_THRESHOLD, SEQUENCE_FINAL, SEQUENCE_DISABLE_FLAG,
     SEQUENCE_TYPE_FLAG, SEQUENCE_VALUES} \subseteq Nat \ {0}

ASSUME LimitsAreNat == MAX_MONEY \in Nat /\ UINT32_MAX \in Nat

-----------------------------------------------------------------------------
(* Transactions. *)

InputFields == {"txid", "index", "script_pubkey", "amount", "sequence", "conditions",
                "script_sig", "tapleaf", "merkle_root", "internal_key"}

\* The list that validation iterates: "conditions or ()".
Conditions(input) == IF input.conditions = NotBitLisp THEN <<>> ELSE input.conditions

\* The txid and, after it, the index: fields of fixed width.
outpoint(input) == Append(input.txid, input.index)

InputTotal(tx) == Total(0, [i \in 1..Len(tx.inputs) |-> tx.inputs[i].amount])
OutputTotal(tx) == Total(0, [j \in 1..Len(tx.outputs) |-> tx.outputs[j].amount])

-----------------------------------------------------------------------------
(* The constructors' checks. *)

IsTxInput(input) ==
    /\ DOMAIN input = InputFields
    /\ input.index \in 0..UINT32_MAX
    /\ input.sequence \in 0..UINT32_MAX
    /\ input.amount \in 0..MAX_MONEY
    /\ input.conditions # NotBitLisp =>
          NotBitLisp \notin {input.tapleaf, input.merkle_root, input.internal_key}

IsTxOutput(output) ==
    DOMAIN output = {"script_pubkey", "amount"} /\ output.amount \in 0..MAX_MONEY

DistinctOutpoints(tx) ==
    \A i, j \in 1..Len(tx.inputs) :
        outpoint(tx.inputs[i]) = outpoint(tx.inputs[j]) => i = j

ConservesValue(tx) == OutputTotal(tx) <= InputTotal(tx)

IsTransaction(tx) ==
    /\ tx.version \in 0..UINT32_MAX
    /\ tx.locktime \in 0..UINT32_MAX
    /\ tx.inputs # <<>> /\ tx.outputs # <<>>
    /\ \A i \in 1..Len(tx.inputs) : IsTxInput(tx.inputs[i])
    /\ \A j \in 1..Len(tx.outputs) : IsTxOutput(tx.outputs[j])
    /\ DistinctOutpoints(tx)
    /\ ConservesValue(tx)

-----------------------------------------------------------------------------
\* Defect: the hash covers the first output only.
outputs_hash_of_first(tx) == <<tx.outputs[1].amount, tx.outputs[1].script_pubkey>>

\* The outputs in order, the spent contents and the conditions excluded:
\* conditions are witness data, so no seal's operand feeds its own quantity.
outputs_hash(tx) ==
    [j \in 1..Len(tx.outputs) |-> <<tx.outputs[j].amount, tx.outputs[j].script_pubkey>>]

txid(tx) ==
    LET input(i) == tx.inputs[i]
    IN  <<tx.version,
          [i \in 1..Len(tx.inputs) |->
              <<input(i).txid, input(i).index, input(i).script_sig, input(i).sequence>>],
          outputs_hash(tx),
          tx.locktime>>

-----------------------------------------------------------------------------
(* Where a check looks. *)

Valid == "valid"
Checked(holds, code) == IF holds THEN Valid ELSE code

Places(tx) ==
    UNION {{<<i, k>> : k \in 1..Len(Conditions(tx.inputs[i]))} : i \in 1..Len(tx.inputs)}
Input(tx, p) == tx.inputs[p[1]]
Condition(tx, p) == Conditions(tx.inputs[p[1]])[p[2]]
PlacesOf(tx, opcodes) == {p \in Places(tx) : Condition(tx, p).opcode \in opcodes}

\* The first place of a set, in the order of the loops.
Before(p, q) == p[1] < q[1] \/ (p[1] = q[1] /\ p[2] < q[2])
FirstOf(places) == CHOOSE p \in places : \A q \in places \ {p} : Before(p, q)

-----------------------------------------------------------------------------
(* Self asserts: equalities with the spending input's own data. *)

SelfAsserts == {ASSERT_MY_OUTPOINT, ASSERT_MY_TXID, ASSERT_MY_SCRIPTPUBKEY,
                ASSERT_MY_AMOUNT, ASSERT_MY_TAPTREE}

SelfAssertError ==
    [opcode \in SelfAsserts |->
        CASE opcode \in {ASSERT_MY_OUTPOINT, ASSERT_MY_TXID} -> "unsatisfied_outpoint_assert"
          [] opcode = ASSERT_MY_SCRIPTPUBKEY -> "unsatisfied_scriptpubkey_assert"
          [] opcode = ASSERT_MY_AMOUNT       -> "unsatisfied_amount_assert"
          [] opcode = ASSERT_MY_TAPTREE      -> "unsatisfied_taptree_assert"]

SelfAssertHolds(input, c) ==
    c.operands =
        CASE c.opcode = ASSERT_MY_OUTPOINT     -> <<outpoint(input)>>
          [] c.opcode = ASSERT_MY_TXID         -> <<input.txid>>
          [] c.opcode = ASSERT_MY_SCRIPTPUBKEY -> <<input.script_pubkey>>
          [] c.opcode = ASSERT_MY_AMOUNT       -> <<input.amount>>
          [] c.opcode = ASSERT_MY_TAPTREE      -> <<input.internal_key, input.merkle_root>>

\* Defect: each input's last self assert decides.
FailedSelfAssertsLast(tx) ==
    {p \in PlacesOf(tx, SelfAsserts) :
        /\ ~SelfAssertHolds(Input(tx, p), Condition(tx, p))
        /\ \A q \in PlacesOf(tx, SelfAsserts) : q[1] = p[1] => q[2] <= p[2]}

FailedSelfAsserts(tx) ==
    {p \in PlacesOf(tx, SelfAsserts) :
        ~SelfAssertHolds(Input(tx, p), Condition(tx, p))}

check_self_asserts(tx) ==
    IF FailedSelfAsserts(tx) = {} THEN Valid
    ELSE SelfAssertError[Condition(tx, FirstOf(FailedSelfAsserts(tx))).opcode]

-----------------------------------------------------------------------------
(* Rule 1: the multiset of claims is contained in that of the slots. *)

Claims(tx) == PlacesOf(tx, {CREATE_OUTPUT, CREATE_OUTPUT_TAPROOT})
Claimed(c) ==
    IF c.opcode = CREATE_OUTPUT
    THEN [script_pubkey |-> c.operands[1], amount |-> c.operands[2]]
    ELSE [script_pubkey |-> TaprootScript(c.operands[1], c.operands[2]),
          amount |-> c.operands[3]]

ClaimsOf(tx, content) == {p \in Claims(tx) : Claimed(Condition(tx, p)) = content}
SlotsOf(tx, content) == {j \in 1..Len(tx.outputs) : tx.outputs[j] = content}

\* Defect: a set of claims is compared with a set of slots.
OutputClaimsHoldAsSets(tx) ==
    \A p \in Claims(tx) : SlotsOf(tx, Claimed(Condition(tx, p))) # {}

OutputClaimsHold(tx) ==
    \A p \in Claims(tx) :
        LET content == Claimed(Condition(tx, p))
        IN  Cardinality(ClaimsOf(tx, content)) <= Cardinality(SlotsOf(tx, content))

check_output_claims(tx) == Checked(OutputClaimsHold(tx), "unsatisfied_output_claim")

-----------------------------------------------------------------------------
(* Time asserts: they read the transaction's own fields, never the chain. *)

LocktimeAsserts == {ASSERT_LOCKTIME_HEIGHT, ASSERT_LOCKTIME_TIME}
TimeAsserts == LocktimeAsserts \cup {ASSERT_SEQUENCE_HEIGHT, ASSERT_SEQUENCE_TIME}

\* Defect: the field must equal the operand.
LocktimeHoldsExactly(tx, input, operand, height_typed) ==
    /\ input.sequence # SEQUENCE_FINAL
    /\ (tx.locktime < LOCKTIME_THRESHOLD) = height_typed
    /\ tx.locktime = operand

LocktimeHolds(tx, input, operand, height_typed) ==
    /\ input.sequence # SEQUENCE_FINAL
    /\ (tx.locktime < LOCKTIME_THRESHOLD) = height_typed
    /\ tx.locktime >= operand

HasFlag(sequence, flag) == (sequence \div flag) % 2 = 1

SequenceHolds(tx, input, operand, time_typed) ==
    /\ tx.version >= 2
    /\ ~HasFlag(input.sequence, SEQUENCE_DISABLE_FLAG)
    /\ HasFlag(input.sequence, SEQUENCE_TYPE_FLAG) = time_typed
    /\ input.sequence % SEQUENCE_VALUES >= operand

FailedTimeAsserts(tx) ==
    {p \in Places(tx) :
        LET c == Condition(tx, p)
            input == Input(tx, p)
        IN  \/ /\ c.opcode = ASSERT_LOCKTIME_HEIGHT
               /\ ~LocktimeHolds(tx, input, c.operands[1], TRUE)
            \/ /\ c.opcode = ASSERT_LOCKTIME_TIME
               /\ ~LocktimeHolds(tx, input, c.operands[1], FALSE)
            \/ /\ c.opcode = ASSERT_SEQUENCE_HEIGHT
               /\ ~SequenceHolds(tx, input, c.operands[1], FALSE)
            \/ /\ c.opcode = ASSERT_SEQUENCE_TIME
               /\ ~SequenceHolds(tx, input, c.operands[1], TRUE)}

check_time_asserts(tx) ==
    LET failed == FailedTimeAsserts(tx)
    IN  IF failed = {} THEN Valid
        ELSE IF Condition(tx, FirstOf(failed)).opcode \in LocktimeAsserts
        THEN "unsatisfied_locktime_assert"
        ELSE "unsatisfied_sequence_assert"

-----------------------------------------------------------------------------
(* Rule 3: the message ledger and the announcements. *)

FieldOf(input, kind) == IF kind = "outpoint" THEN outpoint(input) ELSE input[kind]
FieldsOf(input, kinds) == [n \in 1..Len(kinds) |-> FieldOf(input, kinds[n])]

self_specifier(input, commitment) ==
    <<commitment, FieldsOf(input, SPECIFIER_OPERANDS[commitment])>>
ArgumentSpecifier(c) == <<c.commitment, c.fields>>

\* The ledger record an addressed condition writes: assurer, requirer,
\* message.
Record(tx, p) ==
    LET c == Condition(tx, p)
        self == self_specifier(Input(tx, p), c.own)
    IN  IF c.opcode = ASSURE THEN <<self, ArgumentSpecifier(c), c.operands[1]>>
        ELSE <<ArgumentSpecifier(c), self, c.operands[1]>>

Writers(tx, opcode, record) == {p \in PlacesOf(tx, {opcode}) : Record(tx, p) = record}

\* Defect: a record is written at most once in each direction.
MessagesBalanceAsSets(tx) ==
    \A p \in PlacesOf(tx, {ASSURE, REQUIRE}) :
        (Writers(tx, ASSURE, Record(tx, p)) = {}) = (Writers(tx, REQUIRE, Record(tx, p)) = {})

MessagesBalance(tx) ==
    \A p \in PlacesOf(tx, {ASSURE, REQUIRE}) :
        Cardinality(Writers(tx, ASSURE, Record(tx, p)))
          = Cardinality(Writers(tx, REQUIRE, Record(tx, p)))

check_messages(tx) == Checked(MessagesBalance(tx), "unbalanced_message")

\* Defect: facts are collected in the pass that reads them.
AnnouncedBefore(tx, c) ==
    \E q \in PlacesOf(tx, {ANNOUNCE}) :
        /\ Condition(tx, q).operands = c.operands
        /\ self_specifier(Input(tx, q), c.commitment) = ArgumentSpecifier(c)
        /\ \A p \in PlacesOf(tx, {ASSERT_ANNOUNCEMENT}) :
              Condition(tx, p) = c => Before(q, p)

\* Some input announced the namespace and payload and is the announcer.
Announced(tx, c) ==
    \E q \in PlacesOf(tx, {ANNOUNCE}) :
        /\ Condition(tx, q).operands = c.operands
        /\ self_specifier(Input(tx, q), c.commitment) = ArgumentSpecifier(c)

AnnouncementsHold(tx) ==
    \A p \in PlacesOf(tx, {ASSERT_ANNOUNCEMENT}) : Announced(tx, Condition(tx, p))

check_announcements(tx) ==
    Checked(AnnouncementsHold(tx), "unsatisfied_announcement_assert")

-----------------------------------------------------------------------------
(* Rule 7: the fee covers the sum of the reserves. *)

Reserve(c) == IF c.opcode = RESERVE_FEE THEN c.operands[1] ELSE 0
InputReserve(input) ==
    Total(0, [k \in 1..Len(Conditions(input)) |-> Reserve(Conditions(input)[k])])
ReserveTotal(tx) == Total(0, [i \in 1..Len(tx.inputs) |-> InputReserve(tx.inputs[i])])
Fee(tx) == InputTotal(tx) - OutputTotal(tx)

FeeCoversReserves(tx) == Fee(tx) >= ReserveTotal(tx)

check_fee_reserve(tx) == Checked(FeeCoversReserves(tx), "insufficient_fee")

-----------------------------------------------------------------------------
(* Seals, and rule 8, the signature asserts. *)

SealsHold(tx) ==
    \A p \in PlacesOf(tx, {SEAL, SEAL_OUTPUTS}) :
        Condition(tx, p).operands[1] =
            IF Condition(tx, p).opcode = SEAL THEN txid(tx) ELSE outputs_hash(tx)

check_seals(tx) == Checked(SealsHold(tx), "unsatisfied_seal_assert")

\* _sig_digest: the variant's tag, its binding fields, the message.
sig_digest(c, input) == <<c.opcode, FieldsOf(input, SIG_BINDINGS[c.opcode]), c.operands[2]>>

SignaturesHold(tx) ==
    \A p \in PlacesOf(tx, SigOpcodes) :
        LET c == Condition(tx, p)
        IN  Verifies(c.operands[1], sig_digest(c, Input(tx, p)), c.operands[3])

check_signature_asserts(tx) == Checked(SignaturesHold(tx), "unsatisfied_sig_assert")

-----------------------------------------------------------------------------
\* The checks in order; the first that raises decides.
Verdicts(tx) ==
    <<check_self_asserts(tx), check_output_claims(tx), check_time_asserts(tx),
      check_messages(tx), check_announcements(tx), check_fee_reserve(tx),
      check_seals(tx), check_signature_asserts(tx)>>

FirstRaised(verdicts) ==
    LET raised == {n \in DOMAIN verdicts : verdicts[n] # Valid}
    IN  IF raised = {} THEN Valid
        ELSE verdicts[CHOOSE n \in raised : \A m \in raised : n <= m]

validate_transaction(tx) == FirstRaised(Verdicts(tx))

IsValid(tx) == validate_transaction(tx) = Valid
=============================================================================
