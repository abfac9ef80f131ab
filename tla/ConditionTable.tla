--------------------------- MODULE ConditionTable ---------------------------
(***************************************************************************)
(* What the parser and the validator share of bitlisp/conditions.py: the   *)
(* opcodes, the specifier table and the binding fields of the signature    *)
(* asserts.                                                                *)
(*                                                                         *)
(* A parsed condition is a record with its opcode and its operands, in the *)
(* order of the code's dataclass fields.  An ASSURE or REQUIRE also has    *)
(* its own commitment value, and with ASSERT_ANNOUNCEMENT the commitment   *)
(* value and the fields of its argument specifier.                         *)
(***************************************************************************)
EXTENDS Integers, Sequences

CREATE_OUTPUT == 1
CREATE_OUTPUT_TAPROOT == 2
ASSERT_SIG_MY_TXID == 16
ASSERT_SIG_MY_SCRIPTPUBKEY == 17
ASSERT_SIG_MY_AMOUNT == 18
ASSERT_SIG_MY_SCRIPTPUBKEY_AMOUNT == 19
ASSERT_SIG_MY_TXID_AMOUNT == 20
ASSERT_SIG_MY_TXID_SCRIPTPUBKEY == 21
ASSERT_SIG_RAW == 22
ASSERT_SIG_MY_OUTPOINT == 23
ASSERT_LOCKTIME_HEIGHT == 32
ASSERT_LOCKTIME_TIME == 33
ASSERT_SEQUENCE_HEIGHT == 34
ASSERT_SEQUENCE_TIME == 35
ASSERT_MY_OUTPOINT == 48
ASSERT_MY_TXID == 49
ASSERT_MY_SCRIPTPUBKEY == 50
ASSERT_MY_AMOUNT == 51
ASSERT_MY_TAPTREE == 56
ANNOUNCE == 64
ASSERT_ANNOUNCEMENT == 65
ASSURE == 66
REQUIRE == 67
RESERVE_FEE == 80
SEAL == 96
SEAL_OUTPUTS == 97
ReservedStart == 128

\* The binding fields of each signature assert.
SIG_BINDINGS ==
    [opcode \in ASSERT_SIG_MY_TXID..ASSERT_SIG_MY_OUTPOINT |->
        CASE opcode = ASSERT_SIG_MY_TXID                -> <<"txid">>
          [] opcode = ASSERT_SIG_MY_SCRIPTPUBKEY        -> <<"script_pubkey">>
          [] opcode = ASSERT_SIG_MY_AMOUNT              -> <<"amount">>
          [] opcode = ASSERT_SIG_MY_SCRIPTPUBKEY_AMOUNT -> <<"script_pubkey", "amount">>
          [] opcode = ASSERT_SIG_MY_TXID_AMOUNT         -> <<"txid", "amount">>
          [] opcode = ASSERT_SIG_MY_TXID_SCRIPTPUBKEY   -> <<"txid", "script_pubkey">>
          [] opcode = ASSERT_SIG_RAW                    -> <<>>
          [] opcode = ASSERT_SIG_MY_OUTPOINT            -> <<"outpoint">>]

SigOpcodes == DOMAIN SIG_BINDINGS

\* The fields a commitment value commits to: prevout fields by its low three
\* bits, then the tapleaf hash and the merkle root.
SPECIFIER_OPERANDS ==
    [commitment \in 0..31 |->
        LET field(bit, kind) ==
              IF (commitment \div bit) % 2 = 1 THEN <<kind>> ELSE <<>>
            prevout ==
              IF commitment % 8 = 7 THEN <<"outpoint">>
              ELSE field(4, "txid") \o field(2, "script_pubkey") \o field(1, "amount")
        IN  prevout \o field(8, "tapleaf") \o field(16, "merkle_root")]
=============================================================================
