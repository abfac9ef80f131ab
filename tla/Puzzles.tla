------------------------------ MODULE Puzzles ------------------------------
(***************************************************************************)
(* Both puzzles on one chain: whoever assembles a transaction joins spends *)
(* of vault coins, of singleton coins and of ordinary coins.               *)
(***************************************************************************)
EXTENDS Vault, Singleton

\* A coin to start from: no transaction of the chain made it, and a vault's
\* is a well-formed vault's.
IsFunding(coin) ==
    /\ coin.txid \in Seq(S!Range(coin.txid)) /\ ~IsFieldList(coin.txid)
    /\ coin.index \in 0..UINT32_MAX /\ coin.amount \in 0..MAX_MONEY
    /\ IsVaultScript(coin.script_pubkey) =>
          \E p \in Programs : ScriptOf(p) = coin.script_pubkey /\ IsWellFormed(p)

ASSUME FundingsAreCoins ==
    \A some \in Fundings :
        /\ IsFiniteSet(some)
        /\ \A c \in some : IsFunding(c)
        /\ \A c, d \in some : outpoint(c) = outpoint(d) => c = d

CreateOpcodes == {CREATE_OUTPUT, CREATE_OUTPUT_TAPROOT}

\* Conditions whose claims anyone may make; one of an odd amount is the
\* singleton's own.
NamesPayable(conditions) ==
    /\ conditions \in Seq(S!Range(conditions))
    /\ \A n \in 1..Len(conditions) :
          conditions[n].opcode \in CreateOpcodes /\ created_amount(conditions[n]) % 2 # 1 =>
              IsPayable(Claimed(conditions[n]).script_pubkey)

\* Beside the vaults' own programs anyone pays to a vault as a deposit.
ASSUME OthersPayDeposits ==
    /\ \A list \in PublicLists \cup {order.extra_conditions : order \in Handovers} :
          NamesPayable(list)
    /\ \A payment \in Payments :
          /\ payment \in Seq(S!Range(payment))
          /\ \A n \in 1..Len(payment) : IsPayable(payment[n].script_pubkey)

\* An ordinary coin brings a fee.
SpendPlain ==
    \E coin \in coins :
        /\ CanJoin(coin)
        /\ Owners(coin) = {} /\ LineagesOf(coin) = {}
        /\ Join(PlainInput(coin))

HasVaultCoin(some) == \E coin \in some : Owners(coin) # {}

\* Payments beside a vault's outputs only give more away, and beside vault
\* coins an ordinary coin only brings a fee.
Slots ==
    IF HasVaultCoin({coin \in coins : IsJoined(coin)}) THEN VaultSlots(pending)
    ELSE IF HasVaultCoin(coins) THEN {}
    ELSE LineageSlots(pending)

ConfirmPending == CanConfirm /\ \E outputs \in Slots : Confirm(outputs)

Next ==
    \/ SignTrigger \/ SignRecovery \/ SignHandover
    \/ Mine \/ SpendVault \/ SpendSingleton \/ SpendPlain \/ ConfirmPending

Spec == Init /\ [][Next]_vars
=============================================================================
