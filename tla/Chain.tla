------------------------------- MODULE Chain -------------------------------
(***************************************************************************)
(* The chain that the puzzles live on: coins, the transactions that anyone *)
(* assembles from spends of them, with outputs of its choice, and the      *)
(* blocks that confirm those which validation accepts.  A tree hash is the *)
(* tuple of what it covers.                                                *)
(***************************************************************************)
EXTENDS Validation

CONSTANTS
    Fundings,         \* sets of coins to start from
    NoKey, NoHash,    \* nil as a key, and a value that is not 32 bytes
    MaxInputs,        \* of one transaction
    MaxHeight, MaxSigned

ASSUME VersionFits == UINT32_MAX >= 2

VARIABLES
    coins,            \* the unspent coins
    height,           \* of the chain
    signed,           \* what the keys have signed: key, coin, message and its order
    pending           \* the inputs joined so far

vars == <<coins, height, signed, pending>>

S == INSTANCE SequencesExt

curried_tree_hash(mod, values) == <<mod, values>>

Emit(opcode, operands) == [opcode |-> opcode, operands |-> operands]

\* A signature over the outpoint-bound digest.
Signature(s) ==
    <<s.key, sig_digest(Emit(ASSERT_SIG_MY_OUTPOINT, <<s.key, s.message>>), s.coin)>>

NoSignature == <<>>
Signatures == {NoSignature} \cup {Signature(s) : s \in signed}

\* A key's signature of a digest is one value, and no other verifies.
SignaturesAreIdeal ==
    \A key, digest, signature : Verifies(key, digest, signature) <=> signature = <<key, digest>>

\* What stands for no conditions is no list of them.
NoneIsNoList == \A T : NotBitLisp \notin Seq(T)

-----------------------------------------------------------------------------
(* Inputs and transactions. *)

\* An input that spends a coin by its script path: base consensus
\* authenticates the key and the root from the control block.
ScriptInput(coin, internal_key, root, sequence, conditions) ==
    [txid |-> coin.txid, index |-> coin.index, script_pubkey |-> coin.script_pubkey,
     amount |-> coin.amount, sequence |-> sequence, conditions |-> conditions,
     script_sig |-> <<>>, tapleaf |-> root, merkle_root |-> root,
     internal_key |-> internal_key]

\* An ordinary input, which brings fees.
PlainInput(coin) ==
    [txid |-> coin.txid, index |-> coin.index, script_pubkey |-> coin.script_pubkey,
     amount |-> coin.amount, sequence |-> 0, conditions |-> NotBitLisp,
     script_sig |-> <<>>, tapleaf |-> NotBitLisp, merkle_root |-> NotBitLisp,
     internal_key |-> NotBitLisp]

Tx(inputs, outputs) ==
    [version |-> 2, locktime |-> 0, inputs |-> S!SetToSeq(inputs), outputs |-> outputs]

\* These checks read one input and no output: an input that fails one is in
\* no valid transaction.
StandsAlone(input) ==
    LET tx == Tx({input}, <<>>)
    IN  /\ \A n \in DOMAIN input.conditions :
             input.conditions[n].opcode \in SelfAsserts =>
                 SelfAssertHolds(input, input.conditions[n])
        /\ check_time_asserts(tx) = Valid
        /\ check_signature_asserts(tx) = Valid

CoinOf(input) == CHOOSE c \in coins : outpoint(c) = outpoint(input)

\* Base consensus enforces relative locks in blocks of coin age.
IsMature(input) == height + 1 - CoinOf(input).born >= input.sequence % SEQUENCE_VALUES

\* One output for each of these claims.
OutputsFor(tx, claims) ==
    LET order == S!SetToSeq(claims)
    IN  [n \in 1..Len(order) |-> Claimed(Condition(tx, order[n]))]

\* What the inputs claim.
ClaimedBy(inputs) ==
    LET tx == Tx(inputs, <<>>)
    IN  OutputsFor(tx, Claims(tx))

\* Scripts that base consensus lets nobody spend.
IsData(script_pubkey) == script_pubkey[1] = "op_return"

Created(tx) ==
    {[txid |-> txid(tx), index |-> j - 1, script_pubkey |-> tx.outputs[j].script_pubkey,
      amount |-> tx.outputs[j].amount, born |-> height + 1] :
         j \in {k \in 1..Len(tx.outputs) : ~IsData(tx.outputs[k].script_pubkey)}}

-----------------------------------------------------------------------------
(* What happens on the chain; the puzzles say which spends and outputs. *)

Init ==
    /\ coins \in Fundings
    /\ height = 0
    /\ signed = {}
    /\ pending = {}

CanSign == pending = {} /\ Cardinality(signed) < MaxSigned

Sign(key, coin, message, order) ==
    /\ signed' = signed \cup {[key |-> key, coin |-> coin, message |-> message, order |-> order]}
    /\ UNCHANGED <<coins, height, pending>>

\* A block without a transaction of these coins; Confirm makes the others,
\* with one transaction each.
Mine ==
    /\ pending = {}
    /\ height < MaxHeight
    /\ height' = height + 1
    /\ UNCHANGED <<coins, signed, pending>>

IsJoined(coin) == \E input \in pending : outpoint(input) = outpoint(coin)

CanJoin(coin) ==
    /\ Cardinality(pending) < MaxInputs /\ height < MaxHeight
    /\ ~IsJoined(coin)

Join(input) ==
    /\ pending' = pending \cup {input}
    /\ UNCHANGED <<coins, height, signed>>

\* Messages read no output: outputs are tried only for inputs whose messages
\* balance.
CanConfirm ==
    /\ pending # {}
    /\ height < MaxHeight
    /\ \A input \in pending : IsMature(input)
    /\ check_messages(Tx(pending, <<>>)) = Valid

\* A block has no room for more outputs than an index can name.
Confirm(outputs) ==
    LET tx == Tx(pending, outputs)
    IN  /\ Len(outputs) <= UINT32_MAX
        /\ IsTransaction(tx)
        /\ IsValid(tx)
        /\ height' = height + 1
        /\ coins' = {c \in coins : ~IsJoined(c)} \cup Created(tx)
        /\ pending' = {}
        /\ UNCHANGED signed

\* The coins a transaction spent and created.
Spent == coins \ coins'
New == coins' \ coins
=============================================================================
