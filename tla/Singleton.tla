----------------------------- MODULE Singleton -----------------------------
(***************************************************************************)
(* The singleton puzzle (puzzles/singleton): a wrapper that proves a       *)
(* coin's descent from its launcher and runs an inner program, and the     *)
(* inner program of an owner.  Hashes and serializations are injective: a  *)
(* transaction's field list is the tuple that its txid is, so whoever      *)
(* supplies a list with a given txid supplies that transaction.            *)
(***************************************************************************)
EXTENDS Chain

CONSTANTS
    Launchers,        \* LAUNCHER_OUTPOINT of each lineage
    Inners,           \* tree hashes of inner programs
    Handovers,        \* what an owner may sign: the next state and the outputs
    PublicLists,      \* condition lists that a program with a public path yields
    Payments,         \* outputs that any transaction may have
    MaxIndex          \* of an output or an input

ASSUME HandoversNameInners ==
    \A order \in Handovers : order.next_inner \in Inners \cup {NoHash}

\* The wallet's rule: the amount of the next state is the odd one.
ASSUME HandoversAreOdd ==
    \A order \in Handovers : order.next_amount \in Int /\ order.next_amount % 2 = 1

\* Any input of a transaction can be shown as the parent.
ASSUME IndexesReachInputs ==
    MaxIndex \in Nat /\ MaxInputs \in Nat /\ MaxInputs <= MaxIndex + 1

-----------------------------------------------------------------------------
(* lib/tx-wire.blib: a transaction's fields. *)

tx_inputs(tx) == tx[2]
tx_outputs(tx) == tx[3]
input_outpoint(input) == Append(input[1], input[2])
output_script(output) == output[2]

\* A coin to start from has no creating transaction to show.
IsFieldList(tx) == Len(tx) = 4

-----------------------------------------------------------------------------
(* The wrapper. *)

INTERNAL_KEY == "nums"
END_AMOUNT == -113
END_PAYLOAD == <<>>

singleton_root(launcher) == curried_tree_hash("singleton", <<launcher>>)
LineageScript(launcher) == TaprootScript(INTERNAL_KEY, singleton_root(launcher))

ASSUME LineagesAreCommitted ==
    \A launcher \in Launchers :
        LineageScript(launcher) = <<"taproot", INTERNAL_KEY, singleton_root(launcher)>>

state_script(launcher, payload) == <<"op_return", launcher, payload>>

state_payload(inner, amount, index) == <<inner, amount, index>>

\* The parent is the launcher, or a coin at this same script.
parent_proven(launcher, my_spk, parent, parent_vout, grandparent_tx) ==
    \/ parent = launcher
    \/ /\ IsFieldList(grandparent_tx)
       /\ parent = Append(grandparent_tx, parent_vout)
       /\ parent_vout < Len(tx_outputs(grandparent_tx))
       /\ output_script(tx_outputs(grandparent_tx)[parent_vout + 1]) = my_spk

IsTagged(script, launcher) == script[1] = "op_return" /\ script[2] = launcher

\* The scripts of every output carrying the lineage's tag, at their places.
state_scripts(outputs, launcher) ==
    LET tagged == {j \in 1..Len(outputs) : IsTagged(output_script(outputs[j]), launcher)}
    IN  [j \in tagged |-> output_script(outputs[j])]

\* Defect: one of several tagged outputs is enough.
StateAmong(scripts, expected) == \E n \in DOMAIN scripts : scripts[n] = expected

\* Exactly one, and it commits what is expected.
state_proven(scripts, expected) ==
    \E n \in DOMAIN scripts : DOMAIN scripts = {n} /\ scripts[n] = expected

created_amount(c) ==
    CASE c.opcode = CREATE_OUTPUT         -> c.operands[2]
      [] c.opcode = CREATE_OUTPUT_TAPROOT -> c.operands[3]
      [] OTHER                            -> 0

\* The conditions that stand for the odd one.  Only an inner program's hash
\* has 32 bytes.
morph_one(launcher, my_spk, child_index, c) ==
    LET inner == c.operands[1]
        amount == c.operands[2]
        state(payload) == Emit(CREATE_OUTPUT, <<state_script(launcher, payload), 0>>)
    IN  IF amount = END_AMOUNT THEN {<<state(END_PAYLOAD)>>}
        ELSE IF inner \notin Inners THEN {}
        ELSE {<<Emit(CREATE_OUTPUT, <<my_spk, amount>>),
                state(state_payload(inner, amount, child_index))>>}

\* Exactly one odd amount, and in a CREATE_OUTPUT; all else passes through.
morph(launcher, my_spk, child_index, conditions) ==
    LET odd == {n \in DOMAIN conditions : created_amount(conditions[n]) % 2 = 1}
    IN  IF Cardinality(odd) # 1 THEN {}
        ELSE LET n == CHOOSE n \in odd : TRUE
             IN  IF conditions[n].opcode # CREATE_OUTPUT THEN {}
                 ELSE {SubSeq(conditions, 1, n - 1) \o rewritten
                         \o SubSeq(conditions, n + 1, Len(conditions)) :
                         rewritten \in morph_one(launcher, my_spk, child_index, conditions[n])}

IsWellFormedLineage(launcher) == launcher # NoHash

MyScript(p) == output_script(tx_outputs(p.parent_tx)[p.my_index + 1])

\* What a solution says of the coin's descent, before the inner program.
IsDescent(launcher, p) ==
    /\ IsWellFormedLineage(launcher)
    /\ p.my_amount % 2 = 1
    /\ p.my_index < Len(tx_outputs(p.parent_tx))
    /\ p.parent_input < Len(tx_inputs(p.parent_tx))
    /\ parent_proven(launcher, MyScript(p),
                     input_outpoint(tx_inputs(p.parent_tx)[p.parent_input + 1]),
                     p.parent_vout, p.grandparent_tx)
    /\ state_proven(state_scripts(tx_outputs(p.parent_tx), launcher),
                    state_script(launcher, state_payload(p.inner, p.my_amount, p.my_index)))

SelfConditions(launcher, p) ==
    <<Emit(ASSERT_MY_TAPTREE, <<INTERNAL_KEY, singleton_root(launcher)>>),
      Emit(ASSERT_MY_AMOUNT, <<p.my_amount>>),
      Emit(ASSERT_MY_OUTPOINT, <<Append(p.parent_tx, p.my_index)>>)>>

-----------------------------------------------------------------------------
(* Inner programs: an owner's, and one that anyone may run. *)

HandoverMessage(order) ==
    <<order.next_inner, order.next_amount, order.extra_conditions, order.outputs_hash>>

owner_inner(owner_key, a) ==
    <<Emit(ASSERT_SIG_MY_OUTPOINT, <<owner_key, HandoverMessage(a.order), a.sig>>),
      Emit(SEAL_OUTPUTS, <<a.order.outputs_hash>>),
      Emit(CREATE_OUTPUT, <<a.order.next_inner, a.order.next_amount>>)>>
      \o a.order.extra_conditions

IsOwned(inner) == inner[1] = "owner"

\* The seal is the owner's placement commitment: outputs that hold the state
\* that the order names hold no other of its lineage, and the coin at the index
\* that this state commits to.
ASSUME HandoversPlaceTheState ==
    \A order \in Handovers, l \in Launchers, index \in 0..MaxIndex :
        LET outputs == order.outputs_hash
            scripts == state_scripts(outputs, l)
            next == state_script(l, state_payload(order.next_inner, order.next_amount, index))
        IN  (\E j \in DOMAIN scripts : scripts[j] = next) =>
               /\ state_proven(scripts, next)
               /\ index < Len(outputs)
               /\ outputs[index + 1] = <<order.next_amount, LineageScript(l)>>

\* What the inner program may yield, for any solution.
InnerLists(inner) ==
    IF IsOwned(inner)
    THEN {owner_inner(inner[2], [order |-> o, sig |-> s]) : o \in Handovers, s \in Signatures}
    ELSE PublicLists

-----------------------------------------------------------------------------
(* Spending and assembling. *)

\* Descents that anyone may claim of a coin: with its own creating
\* transaction, or with that of another coin at its script.
Descents(coin) ==
    LET shown == {c.txid : c \in {d \in coins : d.script_pubkey = coin.script_pubkey
                                                  /\ IsFieldList(d.txid)}}
        grandparents(tx) == {tx_inputs(tx)[i][1] : i \in 1..Len(tx_inputs(tx))}
    IN  UNION {[my_amount : {coin.amount, coin.amount + 2}, my_index : 0..MaxIndex,
                parent_tx : {tx}, parent_input : 0..MaxIndex, parent_vout : 0..MaxIndex,
                grandparent_tx : grandparents(tx), inner : Inners] : tx \in shown}

LineagesOf(coin) == {l \in Launchers : LineageScript(l) = coin.script_pubkey}

LineageInput(launcher, coin, conditions) ==
    ScriptInput(coin, INTERNAL_KEY, singleton_root(launcher), 0, conditions)

\* The descents that hold and are the coin's own.
Proofs(launcher, coin) ==
    {p \in Descents(coin) :
        IsDescent(launcher, p)
          /\ StandsAlone(LineageInput(launcher, coin, SelfConditions(launcher, p)))}

SpendSingleton ==
    \E coin \in coins : \E l \in LineagesOf(coin) :
        /\ CanJoin(coin)
        /\ \E p \in Proofs(l, coin), child_index \in 0..MaxIndex :
           \E list \in InnerLists(p.inner) :
           \E rest \in morph(l, MyScript(p), child_index, list) :
              LET input == LineageInput(l, coin, SelfConditions(l, p) \o rest)
              IN  StandsAlone(input) /\ Join(input)

Reordered(list) ==
    {[n \in 1..Len(list) |-> list[f[n]]] :
        f \in {g \in [1..Len(list) -> 1..Len(list)] :
                  Cardinality({g[n] : n \in DOMAIN g}) = Len(list)}}

\* The claimed outputs in any order, with a payment before or after.
LineageSlots(inputs) ==
    LET orders == Reordered(ClaimedBy(inputs))
    IN  {o \o payment : o \in orders, payment \in Payments}
          \cup {payment \o o : o \in orders, payment \in Payments}

Governing(launcher, coin) == {p.inner : p \in Proofs(launcher, coin)}
Living(launcher) == {c \in coins : launcher \in LineagesOf(c) /\ Governing(launcher, c) # {}}

\* The wallet's rule: one signature for a coin.
SignHandover ==
    /\ CanSign
    /\ \E launcher \in Launchers : \E coin \in Living(launcher) :
        \E inner \in Governing(launcher, coin), order \in Handovers :
            /\ IsOwned(inner)
            /\ \A s \in signed : s.coin # coin
            /\ Sign(inner[2], coin, HandoverMessage(order), order)

-----------------------------------------------------------------------------
(* Correctness. *)

\* A lineage never forks: at most one coin of it can move, under one state.
\* It passes on only in a transaction that spends that coin or the launcher,
\* and from an owner exactly to the state that the owner signed for it: no
\* payment to its script, no second state and no placement redirects it, and
\* an ended lineage stays ended.
LineageIsKept ==
    [][ \A l \in Launchers :
          LET before == Living(l)
              after == Living(l)'
          IN  /\ Cardinality(after) <= 1
              /\ \A c \in after : Cardinality(Governing(l, c)') = 1
              /\ after \subseteq before
                   \/ \E c \in Spent : c \in before \/ outpoint(c) = l
              /\ \A c \in before \cap Spent, inner \in Inners :
                   inner \in Governing(l, c) /\ IsOwned(inner) =>
                      \E s \in signed :
                         /\ s.coin = c /\ s.key = inner[2]
                         /\ IF s.order.next_amount = END_AMOUNT THEN after = {}
                            ELSE \E d \in after :
                                    /\ Governing(l, d)' = {s.order.next_inner}
                                    /\ d.amount = s.order.next_amount ]_coins
=============================================================================
