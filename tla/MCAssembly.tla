----------------------------- MODULE MCAssembly -----------------------------
(***************************************************************************)
(* Small transactions for TLC: for every family of conditions one offer    *)
(* that satisfies it, and ones that fail alone and hold together.          *)
(* Sequences are four bits: two of value, the type flag and the disable    *)
(* flag.                                                                   *)
(***************************************************************************)
EXTENDS Assembly

MCTaprootScript(key, root) == IF <<key, root>> = <<"K", "R">> THEN "s1" ELSE "s2"
MCVerifies(pubkey, digest, signature) == signature = <<pubkey, digest>>

Cond(opcode, operands) == [opcode |-> opcode, operands |-> operands]
Pair(opcode, own, message, commitment, fields) ==
    [opcode |-> opcode, own |-> own, operands |-> <<message>>,
     commitment |-> commitment, fields |-> fields]
Asks(namespace, payload, commitment, fields) ==
    [opcode |-> ASSERT_ANNOUNCEMENT, operands |-> <<namespace, payload>>,
     commitment |-> commitment, fields |-> fields]
Signed(opcode, input, message) ==
    Cond(opcode, <<"K", message, <<"K", sig_digest([opcode |-> opcode,
                                          operands |-> <<"K", message>>], input)>>>>)

Coin(id, script, amount, sequence, conditions) ==
    [txid |-> <<id>>, index |-> 0, script_pubkey |-> script, amount |-> amount,
     sequence |-> sequence, conditions |-> conditions, script_sig |-> "",
     tapleaf |-> "L", merkle_root |-> "R", internal_key |-> "K"]
Plain(id, amount, sequence) ==
    [Coin(id, "s1", amount, sequence, NotBitLisp) EXCEPT !.tapleaf = NotBitLisp]
Slot(script, amount) == [script_pubkey |-> script, amount |-> amount]
Tx(version, locktime, inputs, outputs) ==
    [version |-> version, locktime |-> locktime, inputs |-> inputs, outputs |-> outputs]

Take == Cond(CREATE_OUTPUT, <<"s1", 2>>)
TakeTaproot == Cond(CREATE_OUTPUT_TAPROOT, <<"K", "R", 2>>)

Claiming ==
    Tx(1, 0, <<Coin("a", "s1", 2, 15, <<Take>>), Coin("b", "s1", 3, 15, <<TakeTaproot>>)>>,
       <<Slot("s1", 2), Slot("s1", 2)>>)
Overclaiming ==
    Tx(1, 0, <<Coin("c", "s1", 5, 15, <<Take, TakeTaproot>>)>>,
       <<Slot("s1", 2), Slot("s1", 1)>>)

AtHeight(id, height, locktime) ==
    Tx(1, locktime,
       <<Coin(id, "s1", 2, 0, <<Cond(ASSERT_LOCKTIME_HEIGHT, <<height>>)>>)>>,
       <<Slot("s2", 1)>>)
AtTime ==
    Tx(1, 9, <<Coin("f", "s1", 2, 0, <<Cond(ASSERT_LOCKTIME_TIME, <<9>>)>>)>>, <<Slot("s2", 1)>>)
Relative ==
    Tx(2, 0, <<Coin("g", "s1", 2, 2, <<Cond(ASSERT_SEQUENCE_HEIGHT, <<2>>)>>),
               Coin("h", "s1", 2, 5, <<Cond(ASSERT_SEQUENCE_TIME, <<1>>)>>)>>,
       <<Slot("s2", 1)>>)
\* A relative lock in a version 1 transaction: unenforced alone.
RelativeVersion1 ==
    Tx(1, 0, <<Coin("i", "s1", 2, 3, <<Cond(ASSERT_SEQUENCE_HEIGHT, <<3>>)>>)>>, <<Slot("s2", 1)>>)

\* An assurer known by its txid, a requirer known by script and tapleaf.
Assures == Pair(ASSURE, 4, "m", 10, <<"s2", "L">>)
Requires(assurer) == Pair(REQUIRE, 10, "m", 4, <<<<assurer>>>>)
Assuring == Tx(1, 0, <<Coin("j", "s1", 2, 15, <<Assures>>)>>, <<Slot("s2", 1)>>)
Requiring == Tx(1, 0, <<Coin("k", "s2", 2, 15, <<Requires("j")>>)>>, <<Slot("s2", 1)>>)
Balanced ==
    Tx(1, 0, <<Coin("l", "s1", 2, 15, <<Assures>>), Coin("m", "s2", 1, 15, <<Requires("l")>>)>>,
       <<Slot("s2", 1)>>)

Announcing ==
    Tx(1, 0, <<Coin("n", "s1", 2, 15, <<Cond(ANNOUNCE, <<"ns", "p">>)>>)>>, <<Slot("s2", 1)>>)
Asking ==
    Tx(1, 0, <<Coin("o", "s1", 2, 15,
                    <<Asks("ns", "p", 3, <<"s1", 2>>), Asks("ns", "p", 7, <<<<"n", 0>>>>)>>)>>,
       <<Slot("s2", 1)>>)

Reserving ==
    Tx(1, 0, <<Coin("p", "s1", 4, 15, <<Cond(RESERVE_FEE, <<1>>), Cond(RESERVE_FEE, <<2>>)>>)>>,
       <<Slot("s2", 1)>>)
Unaffordable ==
    Tx(1, 0, <<Coin("q", "s1", 2, 15, <<Cond(RESERVE_FEE, <<2>>)>>)>>, <<Slot("s2", 1)>>)

\* A seal's operand is known before the list that carries it.
Sealed(opcode, id, slots) ==
    LET bare == Tx(1, 0, <<Coin(id, "s1", 3, 15, <<>>)>>, slots)
        seal == Cond(opcode, <<IF opcode = SEAL THEN txid(bare) ELSE outputs_hash(bare)>>)
    IN  [bare EXCEPT !.inputs[1].conditions = <<seal>>]
SealedWhole == Sealed(SEAL, "r", <<Slot("s1", 1), Slot("s2", 1)>>)
SealedOutputs == Sealed(SEAL_OUTPUTS, "s", <<Slot("s1", 1), Slot("s2", 1)>>)

Signing ==
    LET t == Coin("t", "s1", 2, 15, <<>>)
        u == Coin("u", "s2", 1, 15, <<>>)
    IN  Tx(1, 0, <<[t EXCEPT !.conditions = <<Signed(ASSERT_SIG_MY_TXID_AMOUNT, t, "m"),
                                              Signed(ASSERT_SIG_RAW, t, "m")>>],
                   [u EXCEPT !.conditions = <<Signed(ASSERT_SIG_MY_OUTPOINT, u, "m"),
                                              Signed(ASSERT_SIG_MY_SCRIPTPUBKEY, u, "m")>>]>>,
           <<Slot("s2", 1)>>)
Missigned ==
    Tx(1, 0, <<Coin("v", "s1", 2, 15,
                    <<Signed(ASSERT_SIG_MY_TXID, Coin("w", "s1", 2, 15, <<>>), "m")>>)>>,
       <<Slot("s2", 1)>>)

Mine ==
    <<Cond(ASSERT_MY_SCRIPTPUBKEY, <<"s1">>), Cond(ASSERT_MY_AMOUNT, <<2>>),
      Cond(ASSERT_MY_TAPTREE, <<"K", "R">>)>>
Selfish ==
    Tx(1, 0, <<Coin("x", "s1", 2, 15,
                    Mine \o <<Cond(ASSERT_MY_OUTPOINT, <<<<"x", 0>>>>), Cond(ASSERT_MY_TXID, <<<<"x">>>>)>>)>>,
       <<Slot("s2", 1)>>)
Mistaken ==
    Tx(1, 0, <<Coin("y", "s2", 1, 15, Mine)>>, <<Slot("s2", 1)>>)
PlainTx == Tx(2, 3, <<Plain("z", 2, 15)>>, <<Slot("s1", 2)>>)

MCOffers ==
    {Claiming, Overclaiming, AtHeight("d", 5, 5), AtHeight("e", 3, 3), AtTime, Relative,
     RelativeVersion1, Assuring, Requiring, Balanced, Announcing, Asking, Reserving,
     Unaffordable, SealedWhole, SealedOutputs, Signing, Missigned, Selfish, Mistaken, PlainTx}
MCNewConditions ==
    {Take, Cond(ASSERT_LOCKTIME_HEIGHT, <<4>>), Cond(ASSERT_SEQUENCE_TIME, <<1>>),
     Cond(ASSERT_MY_AMOUNT, <<2>>), Cond(ASSERT_MY_TXID, <<<<"a">>>>),
     Cond(ANNOUNCE, <<"ns", "p">>), Asks("ns", "p", 3, <<"s1", 2>>), Assures, Requires("l"),
     Cond(RESERVE_FEE, <<1>>), Cond(SEAL_OUTPUTS, <<outputs_hash(SealedOutputs)>>),
     Signed(ASSERT_SIG_MY_TXID, Coin("a", "s1", 2, 15, <<>>), "m"),
     [opcode |-> 130, cost |-> 500, args |-> <<>>]}
MCNewSlots == {Slot("s1", 2), Slot("s2", 0)}
MCNewInputs == {Plain("ext", 3, 0)}
=============================================================================
