------------------------------- MODULE Vault -------------------------------
(***************************************************************************)
(* The vault puzzle (puzzles/vault).  A vault coin and a triggered coin    *)
(* are each governed by a program; anyone may run any program with any     *)
(* solution on any coin, and chooses the outputs.                          *)
(*                                                                         *)
(* A path that fails an assert returns no list of conditions, any other    *)
(* returns one: each path is an operator to a set of at most one list.     *)
(***************************************************************************)
EXTENDS Chain

CONSTANTS
    Instances,        \* vaults: the values curried into vault.bl
    Orders,           \* what AUTH_KEY may sign: a target and two amounts
    MaxDelay          \* 65535

NoOrder == [target |-> NoHash, trig_amt |-> 0, revault_amt |-> 0]

Targets == {order.target : order \in Orders} \ {NoHash}

-----------------------------------------------------------------------------
(* Identities. *)

vault_root(v) ==
    curried_tree_hash("vault", <<v.auth_key, v.internal_key, v.recovery_spk, v.recovery_key, v.delay>>)

triggered_root(ik, rspk, rkey, delay, target) ==
    curried_tree_hash("triggered", <<ik, rspk, rkey, delay, target>>)

TriggeredRoot(v, target) ==
    triggered_root(v.internal_key, v.recovery_spk, v.recovery_key, v.delay, target)

\* Defect: two arguments in the wrong order.
CreatedRootSwapped(v, target) ==
    triggered_root(v.recovery_key, v.recovery_spk, v.internal_key, v.delay, target)

\* The root under which the trigger path creates its coin.
CreatedRoot(v, target) == TriggeredRoot(v, target)

VaultProgram(v) == [state |-> "vault", v |-> v, root |-> vault_root(v)]
TriggeredProgram(v, target) ==
    [state |-> "triggered", v |-> v, root |-> TriggeredRoot(v, target), target |-> target]

Programs ==
    {VaultProgram(v) : v \in Instances}
      \cup {TriggeredProgram(v, target) : v \in Instances, target \in Targets}

ScriptOf(program) == TaprootScript(program.v.internal_key, program.root)

IsVaultScript(script_pubkey) ==
    script_pubkey[1] = "taproot" /\ script_pubkey[3][1] \in {"vault", "triggered"}

\* Different programs have different scripts.
ASSUME ProgramsAreCommitted ==
    \A p \in Programs :
        /\ ScriptOf(p) = <<"taproot", p.v.internal_key, p.root>>
        /\ NotBitLisp \notin {p.v.internal_key, p.root}

\* Every path checks the curried values' domains first.
IsWellFormed(program) ==
    LET v == program.v
    IN  /\ v.recovery_key # NoHash
        /\ v.recovery_spk # <<>>
        /\ v.delay \in 0..MaxDelay
        /\ IF program.state = "vault" THEN v.auth_key # NoHash ELSE program.target # NoHash

\* What anyone may pay to: no triggered coin's script, and a vault's script
\* only if the vault can be spent.
IsPayable(script_pubkey) ==
    IsVaultScript(script_pubkey) =>
        \E v \in Instances :
            ScriptOf(VaultProgram(v)) = script_pubkey /\ IsWellFormed(VaultProgram(v))

\* What leaves a vault leaves for such scripts.
ASSUME VaultsPayDeposits ==
    /\ \A v \in Instances : IsPayable(v.recovery_spk)
    /\ \A target \in Targets :
          /\ target \in Seq(S!Range(target))
          /\ \A j \in 1..Len(target) : IsPayable(target[j][2])

-----------------------------------------------------------------------------
(* The paths. *)

TRIGGER_SIG_TAG == 1
RECOVERY_SIG_TAG == 2
TRIGGER_PATH == 1
RECOVER_PATH == 2
FOLLOW_PATH == 3
LEAD_PATH == 4
WITHDRAW_PATH == 1

\* spk_amount-spk: the assurer's commitment times 32 plus the requirer's.
CONSOLIDATE_MODE == 98
CONSOLIDATE_PAYLOAD == <<>>
Assurer == CONSOLIDATE_MODE \div 32
Requirer == CONSOLIDATE_MODE % 32

EmitAddressed(opcode, own, commitment, fields) ==
    [opcode |-> opcode, own |-> own, operands |-> <<CONSOLIDATE_PAYLOAD>>,
     commitment |-> commitment, fields |-> fields]

\* Defect: the amounts are left out of the digest.
TriggerMessageOfTarget(order) == <<TRIGGER_SIG_TAG, order.target>>

TriggerMessage(order) ==
    <<TRIGGER_SIG_TAG, order.target, order.trig_amt, order.revault_amt>>
RecoveryMessage(a) == <<RECOVERY_SIG_TAG, a.my_amt, a.recover_amt>>

trigger_path(v, a) ==
    IF \/ a.order.target = NoHash
       \/ a.order.trig_amt <= 0
       \/ a.order.revault_amt < 0
       \/ a.my_amt > a.order.trig_amt + a.order.revault_amt
    THEN {}
    ELSE {<<Emit(ASSERT_MY_TAPTREE, <<v.internal_key, vault_root(v)>>),
            Emit(ASSERT_MY_AMOUNT, <<a.my_amt>>),
            Emit(ASSERT_SIG_MY_OUTPOINT, <<v.auth_key, TriggerMessage(a.order), a.sig>>),
            Emit(CREATE_OUTPUT_TAPROOT,
                 <<v.internal_key, CreatedRoot(v, a.order.target), a.order.trig_amt>>)>>
           \o (IF a.order.revault_amt = 0 THEN <<>>
               ELSE <<Emit(CREATE_OUTPUT_TAPROOT,
                           <<v.internal_key, vault_root(v), a.order.revault_amt>>)>>)}

\* Shared by both states.
recovery_conditions(v, root, a) ==
    IF a.my_amt > a.recover_amt THEN {}
    ELSE {<<Emit(ASSERT_MY_TAPTREE, <<v.internal_key, root>>),
            Emit(ASSERT_MY_AMOUNT, <<a.my_amt>>),
            Emit(CREATE_OUTPUT, <<v.recovery_spk, a.recover_amt>>)>>
           \o (IF v.recovery_key = NoKey THEN <<>>
               ELSE <<Emit(ASSERT_SIG_MY_OUTPOINT,
                           <<v.recovery_key, RecoveryMessage(a), a.sig>>)>>)}

follow_path(v, a) ==
    {<<Emit(ASSERT_MY_TAPTREE, <<v.internal_key, vault_root(v)>>),
       Emit(ASSERT_MY_SCRIPTPUBKEY, <<a.my_spk>>),
       EmitAddressed(ASSURE, Assurer, Requirer, <<a.my_spk>>)>>}

lead_path(v, a) ==
    IF \/ a.follower_amounts = <<>>
       \/ a.my_amt + Total(0, a.follower_amounts) > a.out_amt
    THEN {}
    ELSE {<<Emit(ASSERT_MY_TAPTREE, <<v.internal_key, vault_root(v)>>),
            Emit(ASSERT_MY_SCRIPTPUBKEY, <<a.my_spk>>),
            Emit(ASSERT_MY_AMOUNT, <<a.my_amt>>)>>
           \o [n \in 1..Len(a.follower_amounts) |->
                  EmitAddressed(REQUIRE, Requirer, Assurer, <<a.my_spk, a.follower_amounts[n]>>)]
           \o <<Emit(CREATE_OUTPUT, <<a.my_spk, a.out_amt>>)>>}

\* The seal fixes the outputs and leaves the inputs open.
withdraw_conditions(v, target) ==
    {<<Emit(ASSERT_MY_TAPTREE, <<v.internal_key, TriggeredRoot(v, target)>>),
       Emit(ASSERT_SEQUENCE_HEIGHT, <<v.delay>>),
       Emit(SEAL_OUTPUTS, <<target>>)>>}

\* What a program returns for a solution; an unknown path raises.
Run(program, a) ==
    LET v == program.v
    IN  IF ~IsWellFormed(program) THEN {}
        ELSE IF program.state = "vault"
        THEN CASE a.path = TRIGGER_PATH -> trigger_path(v, a)
               [] a.path = RECOVER_PATH -> recovery_conditions(v, vault_root(v), a)
               [] a.path = FOLLOW_PATH  -> follow_path(v, a)
               [] a.path = LEAD_PATH    -> lead_path(v, a)
               [] OTHER                 -> {}
        ELSE CASE a.path = WITHDRAW_PATH -> withdraw_conditions(v, program.target)
               [] a.path = RECOVER_PATH  -> recovery_conditions(v, program.root, a)
               [] OTHER                  -> {}

-----------------------------------------------------------------------------
(* Signatures, solutions and outputs. *)

AmountsOf(list) == [n \in 1..Len(list) |-> list[n].amount]

Solutions(coin, state) ==
    LET amounts == {coin.amount - 1, coin.amount}
        scripts == {coin.script_pubkey} \cup {ScriptOf(VaultProgram(v)) : v \in Instances}
        followers(some) == AmountsOf(S!SetToSeq(some))
        recoveries ==
            {[path |-> RECOVER_PATH, my_amt |-> m, recover_amt |-> r, sig |-> s] :
                m \in amounts, r \in amounts, s \in Signatures}
    IN  recoveries \cup
        IF state = "triggered" THEN {[path |-> WITHDRAW_PATH]}
        ELSE {[path |-> TRIGGER_PATH, order |-> o, my_amt |-> m, sig |-> s] :
                o \in Orders, m \in amounts, s \in Signatures}
          \cup {[path |-> FOLLOW_PATH, my_spk |-> spk] : spk \in scripts}
          \cup UNION {{[path |-> LEAD_PATH, my_spk |-> spk, my_amt |-> m, follower_amounts |-> f,
                        out_amt |-> m + Total(0, f) - short] :
                          spk \in scripts, m \in amounts, short \in {0, 1}} :
                      f \in {followers(some) : some \in SUBSET (coins \ {coin})}}

\* The assembler gives an input the relative lock its conditions ask for.
SequenceFor(conditions) ==
    LET asked == {n \in DOMAIN conditions : conditions[n].opcode = ASSERT_SEQUENCE_HEIGHT}
    IN  IF asked = {} THEN 0 ELSE conditions[CHOOSE n \in asked : TRUE].operands[1]

Owners(coin) == {p \in Programs : ScriptOf(p) = coin.script_pubkey}

\* Any program may be run against any coin.
SpendVault ==
    \E coin \in coins :
        /\ CanJoin(coin)
        /\ \E own \in Owners(coin), program \in Programs :
           \E a \in Solutions(coin, program.state) : \E conditions \in Run(program, a) :
              LET input == ScriptInput(coin, own.v.internal_key, own.root,
                                       SequenceFor(conditions), conditions)
              IN  StandsAlone(input) /\ Join(input)

\* Outputs worth considering: some of the claimed slots, or a target's.
\* Slots beyond these only give more away.
VaultSlots(inputs) ==
    LET tx == Tx(inputs, <<>>)
        slots(target) == [j \in 1..Len(target) |->
                             [amount |-> target[j][1], script_pubkey |-> target[j][2]]]
    IN  {OutputsFor(tx, some) : some \in SUBSET Claims(tx)}
          \cup {slots(target) : target \in Targets}

IsUsed(target) ==
    \E s \in signed :
        Owners(s.coin) # {} /\ s.message[1] = TRIGGER_SIG_TAG /\ s.message[2] = target

\* The wallet's rule: every target is new.  Orders that need another input's
\* value are left out.
SignTrigger ==
    /\ CanSign
    /\ \E coin \in coins, order \in Orders : \E program \in Owners(coin) :
        /\ program.state = "vault"
        /\ ~IsUsed(order.target)
        /\ order.trig_amt + order.revault_amt <= coin.amount
        /\ Sign(program.v.auth_key, coin, TriggerMessage(order), order)

SignRecovery ==
    /\ CanSign
    /\ \E coin \in coins : \E program \in Owners(coin) :
        /\ program.v.recovery_key # NoKey
        /\ Sign(program.v.recovery_key, coin,
                RecoveryMessage([my_amt |-> coin.amount, recover_amt |-> coin.amount]), NoOrder)

-----------------------------------------------------------------------------
(* Correctness. *)

\* The outputs of a transaction, in order.
NewOutputs ==
    LET output(j) == CHOOSE c \in New : c.index = j - 1
    IN  [j \in 1..Cardinality(New) |-> <<output(j).amount, output(j).script_pubkey>>]

Amount(some) == S!MapThenSumSet(LAMBDA c : c.amount, some)

\* The coins of well-formed vaults, in either state.
Guarded(some) == {c \in some : \E p \in Owners(c) : IsWellFormed(p)}
Recovered(some) == {c \in some : \E v \in Instances : c.script_pubkey = v.recovery_spk}

\* Coins that leave for the target they were triggered for, at their age.
Withdrawn ==
    {c \in Guarded(Spent) :
        \E p \in Owners(c) :
            p.state = "triggered" /\ p.target = NewOutputs /\ height' - c.born >= p.v.delay}

\* Whoever joins whichever spends: a coin is withdrawn alone, after its
\* delay, to its target, and all other value stays in the vaults and their
\* recovery scripts.
ValueIsKept ==
    [][ LET kept == New \cap (Guarded(New) \cup Recovered(New))
        IN  IF Withdrawn # {} THEN Cardinality(Guarded(Spent)) = 1
            ELSE Amount(Guarded(Spent)) <= Amount(kept) ]_coins

\* A triggered coin takes the signature that its own vault's key made of a
\* coin that its transaction spends, for its target and its amount: none is
\* replayed or rewritten.
TriggersAreSigned ==
    [][ \A v \in Instances, target \in Targets, amount \in {c.amount : c \in New} :
          LET created == {c \in New : /\ c.script_pubkey = ScriptOf(TriggeredProgram(v, target))
                                      /\ c.amount = amount}
              signing == {c \in Spent :
                            \E s \in signed, p \in Owners(c) :
                               /\ p.state = "vault" /\ s.key = p.v.auth_key /\ s.coin = c
                               /\ s.order.target = target /\ s.order.trig_amt = amount}
          IN  Cardinality(created) <= Cardinality(signing) ]_coins

RecoveryTx(coin, p) ==
    LET amounts == [my_amt |-> coin.amount, recover_amt |-> coin.amount]
        sig == Signature([key |-> p.v.recovery_key, coin |-> coin,
                          message |-> RecoveryMessage(amounts)])
        a == [path |-> RECOVER_PATH, my_amt |-> coin.amount, recover_amt |-> coin.amount,
              sig |-> sig]
    IN  {Tx({ScriptInput(coin, p.v.internal_key, p.root, 0, conditions)},
            <<[script_pubkey |-> p.v.recovery_spk, amount |-> coin.amount]>>) :
            conditions \in Run(p, a)}

\* Until it is withdrawn, every coin a vault's programs made can be
\* recovered alone: no step of any life cycle leaves a coin that its own
\* program does not recognize.  (Joining inputs changes no coin.)
EveryCoinIsRecoverable ==
    pending = {} =>
        \A c \in coins :
            IsVaultScript(c.script_pubkey) =>
                \E p \in Owners(c) : \E tx \in RecoveryTx(c, p) :
                    IsTransaction(tx) /\ IsValid(tx)
=============================================================================
