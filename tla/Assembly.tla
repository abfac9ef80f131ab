------------------------------ MODULE Assembly ------------------------------
(***************************************************************************)
(* Recombining spends.  Whoever assembles a transaction may concatenate it *)
(* with another, add slots and plain inputs, reorder it and edit the       *)
(* condition lists; each result is validated anew.  These are the edits    *)
(* under which the test suite states its validation invariants             *)
(* (python/tests/test_*_invariants.py), here in any sequence.              *)
(***************************************************************************)
EXTENDS Validation, FiniteSetsExt

CONSTANTS
    Offers,         \* transactions to start from and to concatenate with
    NewConditions,  \* conditions that may be added to a list
    NewSlots,       \* output slots that may be added
    NewInputs,      \* inputs without conditions that may be added
    MaxEdits        \* the longest sequence of edits

\* What parse_conditions makes of operands and what a dataclass holds: the
\* numbers of a condition, tuples and their records.
IsParsed(c) ==
    /\ c.opcode \in TimeAsserts \cup {RESERVE_FEE} => c.operands[1] \in Nat
    /\ c.opcode \in {ASSURE, REQUIRE} =>
          c.own \in 0..31 /\ c.operands = <<c.operands[1]>>
    /\ c.opcode \in {ASSURE, REQUIRE, ASSERT_ANNOUNCEMENT} => c.commitment \in 0..31
IsTuple(s) == s \in Seq(Range(s))
ConditionsOf(t) == UNION {Range(Conditions(t.inputs[i])) : i \in DOMAIN t.inputs}
AllConditions == NewConditions \cup UNION {ConditionsOf(offer) : offer \in Offers}
IsParsedInput(input) ==
    /\ input = [field \in InputFields |-> input[field]]
    /\ Conditions(input) \in Seq(AllConditions)
    /\ \A k \in DOMAIN Conditions(input) : IsParsed(Conditions(input)[k])
IsParsedTx(t) ==
    /\ t = [field \in {"version", "locktime", "inputs", "outputs"} |-> t[field]]
    /\ IsTuple(t.inputs) /\ IsTuple(t.outputs)
    /\ \A i \in DOMAIN t.inputs : IsParsedInput(t.inputs[i])

ASSUME OffersAreTransactions == \A offer \in Offers : IsTransaction(offer) /\ IsParsedTx(offer)
ASSUME NewPartsAreParsed ==
    (\A c \in NewConditions : IsParsed(c)) /\ (\A input \in NewInputs : IsParsedInput(input))
ASSUME NoneIsNoTuple == NotBitLisp \notin Seq(AllConditions)
ASSUME MaxEditsIsNat == MaxEdits \in Nat

VARIABLES
    tx,             \* the transaction as assembled so far
    edits           \* how often it has been edited

vars == <<tx, edits>>

-----------------------------------------------------------------------------
(* The edits. *)

Greater(m, n) == IF m > n THEN m ELSE n

Concatenation(a, b) ==
    [version  |-> Greater(a.version, b.version),
     locktime |-> Greater(a.locktime, b.locktime),
     inputs   |-> a.inputs \o b.inputs,
     outputs  |-> a.outputs \o b.outputs]

Exchange(seq, k) == [seq EXCEPT ![k] = seq[k+1], ![k+1] = seq[k]]

\* The constructor's checks stand between an edit and the transaction.
Edit(result) ==
    /\ edits < MaxEdits
    /\ IsTransaction(result)
    /\ tx' = result
    /\ edits' = edits + 1

Concatenate(offer) == Edit(Concatenation(tx, offer))

AddSlot(slot) == Edit([tx EXCEPT !.outputs = Append(@, slot)])

AddInput(input) == Edit([tx EXCEPT !.inputs = Append(@, input)])

ExchangeInputs(i) ==
    /\ i < Len(tx.inputs)
    /\ Edit([tx EXCEPT !.inputs = Exchange(@, i)])

ExchangeOutputs(j) ==
    /\ j < Len(tx.outputs)
    /\ Edit([tx EXCEPT !.outputs = Exchange(@, j)])

ExchangeConditions(i, k) ==
    /\ k < Len(Conditions(tx.inputs[i]))
    /\ Edit([tx EXCEPT !.inputs[i].conditions = Exchange(@, k)])

\* The new condition may stand anywhere in the list.
AddCondition(i, k, c) ==
    LET list == Conditions(tx.inputs[i])
    IN  /\ tx.inputs[i].conditions # NotBitLisp
        /\ k \in 0..Len(list)
        /\ Edit([tx EXCEPT !.inputs[i].conditions =
                   SubSeq(list, 1, k) \o <<c>> \o SubSeq(list, k + 1, Len(list))])

Repeat(i, k) ==
    /\ k \in 1..Len(Conditions(tx.inputs[i]))
    /\ AddCondition(i, k, Conditions(tx.inputs[i])[k])

Init == tx \in Offers /\ edits = 0

Next ==
    \/ \E offer \in Offers : Concatenate(offer)
    \/ \E slot \in NewSlots : AddSlot(slot)
    \/ \E input \in NewInputs : AddInput(input)
    \/ \E i \in 1..Len(tx.inputs) : ExchangeInputs(i)
    \/ \E j \in 1..Len(tx.outputs) : ExchangeOutputs(j)
    \/ \E i \in 1..Len(tx.inputs) :
          \E k \in 1..Len(Conditions(tx.inputs[i])) : ExchangeConditions(i, k)
    \/ \E i \in 1..Len(tx.inputs) :
          \E k \in 0..Len(Conditions(tx.inputs[i])), c \in NewConditions : AddCondition(i, k, c)
    \/ \E i \in 1..Len(tx.inputs) :
          \E k \in 1..Len(Conditions(tx.inputs[i])) : Repeat(i, k)

Spec == Init /\ [][Next]_vars

-----------------------------------------------------------------------------
(* Correctness. *)

Seals == {SEAL, SEAL_OUTPUTS}
Addressed == {ASSURE, REQUIRE}
Asserts == (SelfAsserts \cup TimeAsserts \cup SigOpcodes \cup Seals)
             \cup {ASSERT_ANNOUNCEMENT} \cup ReservedStart..255
Has(t, opcodes) == PlacesOf(t, opcodes) # {}
HeightTyped(t) == t.locktime < LOCKTIME_THRESHOLD

\* The composition guarantee: two valid transactions without seals and with
\* locktimes of one type concatenate into a valid one, so wallets may batch
\* independent spends without looking into their programs.
CompositionGuarantee ==
    [][\A offer \in Offers :
          /\ Concatenate(offer)
          /\ IsValid(tx) /\ IsValid(offer)
          /\ ~Has(tx, Seals) /\ ~Has(offer, Seals)
          /\ HeightTyped(tx) = HeightTyped(offer)
          => IsValid(tx')]_vars

\* A satisfied seal survives no concatenation, on either side.
SealedMergeIsRejected ==
    [][\A offer \in Offers :
          /\ Concatenate(offer)
          /\ (IsValid(tx) /\ Has(tx, Seals)) \/ (IsValid(offer) /\ Has(offer, Seals))
          => ~IsValid(tx')]_vars

\* Reordering a condition list never changes the outcome, seals included;
\* reordering inputs or outputs does only through a seal.
OrderIsIrrelevant ==
    [][(\/ \E i \in 1..Len(tx.inputs) :
              \E k \in 1..Len(Conditions(tx.inputs[i])) : ExchangeConditions(i, k)
        \/ /\ ~Has(tx, Seals)
           /\ \/ \E i \in 1..Len(tx.inputs) : ExchangeInputs(i)
              \/ \E j \in 1..Len(tx.outputs) : ExchangeOutputs(j))
        => IsValid(tx') = IsValid(tx)]_vars

\* A claim, an assert or a reserve only tightens: adding it never turns an
\* invalid transaction valid.
ConditionsOnlyTighten ==
    [][\A i \in 1..Len(tx.inputs), c \in NewConditions :
          \A k \in 0..Len(Conditions(tx.inputs[i])) :
              AddCondition(i, k, c) /\ c.opcode \notin Addressed \cup {ANNOUNCE} /\ IsValid(tx')
              => IsValid(tx)]_vars

-----------------------------------------------------------------------------
(***************************************************************************)
(* What the rules of spec/VALIDATION.md say a valid transaction is, as     *)
(* assignments and facts instead of counts: the reference that the checks  *)
(* of Validation.tla are compared with.                                    *)
(***************************************************************************)

Injective(f) == \A p, q \in DOMAIN f : f[p] = f[q] => p = q

\* Every claim has a slot of its own.
OutputsAreAssigned ==
    \E satisfier \in [Claims(tx) -> 1..Len(tx.outputs)] :
        /\ Injective(satisfier)
        /\ \A p \in Claims(tx) :
              tx.outputs[satisfier[p]] = Claimed(Condition(tx, p))

\* Each of two addressed conditions describes the other's input.
Describes(c, input, commitment) ==
    /\ c.commitment = commitment
    /\ c.fields = FieldsOf(input, SPECIFIER_OPERANDS[commitment])
Answer(p, q) ==
    LET assure == Condition(tx, p)
        require == Condition(tx, q)
    IN  /\ assure.operands = require.operands
        /\ Describes(assure, Input(tx, q), require.own)
        /\ Describes(require, Input(tx, p), assure.own)

\* Every half of an addressed pair has its own other half.
MessagesArePaired ==
    \E other \in [PlacesOf(tx, {ASSURE}) -> PlacesOf(tx, {REQUIRE})] :
        /\ Injective(other)
        /\ PlacesOf(tx, {REQUIRE}) = {other[p] : p \in DOMAIN other}
        /\ \A p \in DOMAIN other : Answer(p, other[p])

AssertsAreRead ==
    \A p \in PlacesOf(tx, {ASSERT_ANNOUNCEMENT}) :
        \E q \in PlacesOf(tx, {ANNOUNCE}) :
            /\ Condition(tx, q).operands = Condition(tx, p).operands
            /\ Describes(Condition(tx, p), Input(tx, q), Condition(tx, p).commitment)

\* Inputs pay for the outputs and for every unit of every reserve.
UnitsReserved(p) == {p} \X (1..Condition(tx, p).operands[1])
ReservesArePaid ==
    Cardinality(UNION {UnitsReserved(p) : p \in PlacesOf(tx, {RESERVE_FEE})})
      + OutputTotal(tx) <= InputTotal(tx)

\* The rules in the order of validation, each with the errors it has.
Rules ==
    <<[holds |-> FailedSelfAsserts(tx) = {},
       errors |-> {SelfAssertError[opcode] : opcode \in SelfAsserts}],
      [holds |-> OutputsAreAssigned, errors |-> {"unsatisfied_output_claim"}],
      [holds |-> FailedTimeAsserts(tx) = {},
       errors |-> {"unsatisfied_locktime_assert", "unsatisfied_sequence_assert"}],
      [holds |-> MessagesArePaired, errors |-> {"unbalanced_message"}],
      [holds |-> AssertsAreRead, errors |-> {"unsatisfied_announcement_assert"}],
      [holds |-> ReservesArePaid, errors |-> {"insufficient_fee"}],
      [holds |-> SealsHold(tx), errors |-> {"unsatisfied_seal_assert"}],
      [holds |-> SignaturesHold(tx), errors |-> {"unsatisfied_sig_assert"}]>>

\* Counting decides assignment: the checks accept exactly the transactions
\* in which every claim and every message half has a partner of its own and
\* every other rule holds, and otherwise the first broken rule is reported.
AgreesWithRules ==
    LET broken == {n \in 1..Len(Rules) : ~Rules[n].holds}
    IN  IF broken = {} THEN IsValid(tx)
        ELSE validate_transaction(tx) \in Rules[Min(broken)].errors
=============================================================================
