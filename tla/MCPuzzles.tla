----------------------------- MODULE MCPuzzles -----------------------------
(***************************************************************************)
(* Two vaults for TLC that share their keys and their recovery script, one *)
(* with keyless and one with keyed recovery, and the coins of either; and  *)
(* a singleton lineage, its launcher and a stranger's coin.                *)
(***************************************************************************)
EXTENDS Puzzles

MCTaprootScript(key, root) == <<"taproot", key, root>>
MCVerifies(pubkey, digest, signature) == signature = <<pubkey, digest>>

Keyless == [auth_key |-> "K", internal_key |-> "nums", recovery_spk |-> <<"safe">>,
            recovery_key |-> NoKey, delay |-> 2]
Keyed == [Keyless EXCEPT !.recovery_key = "K"]
MCInstances == {Keyless, Keyed}

Order(target, trig_amt, revault_amt) ==
    [target |-> target, trig_amt |-> trig_amt, revault_amt |-> revault_amt]
Shop == <<<<1, <<"shop">>>>>>
Friend == <<<<1, <<"friend">>>>>>
MCOrders == {Order(Shop, 1, 1), Order(Shop, 2, 0), Order(Friend, 2, 0), Order(NoHash, 2, 0)}

Coin(n, spk, amount) ==
    [txid |-> <<n>>, index |-> 0, script_pubkey |-> spk, amount |-> amount, born |-> 0]
Held(v, n, amount) == Coin(n, MCTaprootScript(v.internal_key, vault_root(v)), amount)

-----------------------------------------------------------------------------
Launcher == <<"l", 0>>
Alice == <<"owner", "A">>
Bob == <<"owner", "B">>
Public == <<"public">>

MCLaunchers == {Launcher}
MCInners == {Alice, Bob, Public}

Home == LineageScript(Launcher)
Pay(script, amount) == [script_pubkey |-> script, amount |-> amount]
State(inner, amount, index) ==
    Pay(state_script(Launcher, state_payload(inner, amount, index)), 0)

\* Launches, honest and not, and what a stranger may add to any transaction:
\* a deposit to a vault too.
MCPayments ==
    {<<>>,
     <<Pay(<<"shop">>, 1)>>,
     <<Pay(ScriptOf(VaultProgram(Keyless)), 1)>>,
     <<Pay(Home, 1)>>,
     <<State(Public, 1, 0)>>,
     <<Pay(Home, 1), State(Alice, 1, 0)>>,
     <<Pay(Home, 1), State(Public, 1, 0), State(Alice, 1, 0)>>,
     <<Pay(Home, 1), Pay(Home, 1), State(Public, 1, 1)>>}

Handover(next_inner, next_amount, outputs) ==
    [next_inner |-> next_inner, next_amount |-> next_amount, extra_conditions |-> <<>>,
     outputs_hash |-> [j \in 1..Len(outputs) |-> <<outputs[j].amount, outputs[j].script_pubkey>>]]
MCHandovers ==
    {Handover(Bob, 1, <<Pay(Home, 1), State(Bob, 1, 0)>>),
     Handover(Public, 1, <<State(Public, 1, 1), Pay(Home, 1)>>),
     Handover(NoHash, END_AMOUNT, <<Pay(state_script(Launcher, END_PAYLOAD), 0)>>)}

Child(inner, amount) == Emit(CREATE_OUTPUT, <<inner, amount>>)
MCPublicLists ==
    {<<>>,
     <<Child(Alice, 1)>>,
     <<Child(NoHash, END_AMOUNT)>>,
     <<Child(Alice, 1), Child(Public, 1)>>,
     <<Child(Public, 1), Emit(CREATE_OUTPUT, <<State(Alice, 1, 0).script_pubkey, 0>>)>>,
     <<Emit(CREATE_OUTPUT_TAPROOT, <<INTERNAL_KEY, singleton_root(Launcher), 1>>)>>}

MCFundings ==
    {{Held(Keyless, "a", 2), Held(Keyless, "b", 1), Held(Keyless, "c", 1)},
     {Held(Keyless, "a", 2), Held(Keyed, "b", 2), Coin("d", <<"shop">>, 1)},
     {Coin("l", <<"shop">>, 2), Coin("d", <<"shop">>, 1)}}
=============================================================================
