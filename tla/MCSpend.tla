------------------------------ MODULE MCSpend ------------------------------
(***************************************************************************)
(* Spends for TLC: programs that return, compute, apply or fail to return  *)
(* a condition list; lists that hold alone, with another input's           *)
(* conditions, or not at all; contexts with each kind of defect.  Widths   *)
(* are those of MCConditions, and outputs pay to scripts <<1>> and <<7,7>>. *)
(***************************************************************************)
EXTENDS SpendReference, TLC

O == INSTANCE Operators

Op(b) == O!Atom(<<b>>)
Num(n) == O!IntToAtom(n)
Bytes(s) == O!Atom(s)
List(elems) == O!ListOf(elems)
Quoted(node) == O!Cons(Op(1), node)
Call(op, args) == List(<<op>> \o args)
Cond(opcode, args) == List(<<Op(opcode)>> \o args)

MCBasePoint == <<2, 12>>
Key == O!Word(7)
Off == O!Word(9)                 \* no point of the curve
Nonce == O!Word(2)

\* A taproot script holds the output key.  The message of a digest depends
\* on its opcode and on how much it binds.
MCTaprootScript(key, root) == <<81, 2>> \o O!taproot_output_key(key, root)
Message(opcode, bound, fields) == O!Digest(<<opcode, bound, fields>>)
MCVerifies(pubkey, digest, signature) ==
    O!verify(pubkey, Message(digest[1], Len(digest[2]), Len(digest[3])), signature)

\* The scalar of Key's signature of a message with Nonce, or its negative.
Scalar(msg, sign) ==
    LET k == CHOOSE k \in O!Secrets(Nonce) : TRUE
        d == CHOOSE d \in O!Secrets(Key) : TRUE
    IN  (sign * k + O!Challenge(Key, msg, Nonce) * d) % GROUP_ORDER
Signature(msg) == Nonce \o O!Word(Scalar(msg, 1))

Coin(id) ==
    [txid |-> <<id, id>>, index |-> 0, script_pubkey |-> <<1>>, amount |-> 5,
     tapleaf |-> <<3, 3>>, merkle_root |-> <<4, 4>>, internal_key |-> Key]
Bare(id) == [txid |-> <<id, id>>, index |-> 0, script_pubkey |-> <<2>>, amount |-> 3]
Carrying(id, list) == ("conditions" :> list) @@ Coin(id)
Slots == <<[script_pubkey |-> <<1>>, amount |-> 2], [script_pubkey |-> MCTaprootScript(Key, <<>>), amount |-> 2]>>
Object(inputs) == [version |-> 2, locktime |-> 0, inputs |-> inputs, outputs |-> Slots]

Create == Cond(CREATE_OUTPUT, <<Op(1), Num(2)>>)
Taproot(key) == Cond(CREATE_OUTPUT_TAPROOT, <<Bytes(key), O!Nil, Num(2)>>)
MyAmount == Cond(ASSERT_MY_AMOUNT, <<Num(5)>>)
Signed(opcode, bound) ==
    Cond(opcode, <<Bytes(Key), Op(6), Bytes(Signature(Message(opcode, bound, 1)))>>)
\* Assurer known by txid, requirer by script and tapleaf: 4 * 32 + 10.
Assure == Cond(ASSURE, <<Num(138), Op(6), Op(1), Bytes(<<3, 3>>)>>)
Require(id) == Cond(REQUIRE, <<Num(138), Op(6), Bytes(<<id, id>>)>>)
Malformed == Cond(RESERVE_FEE, <<Bytes(<<0, 1>>)>>)

GoodLists ==
    {O!Nil, List(<<Create, MyAmount>>), List(<<Taproot(Key), Cond(130, <<Num(600)>>)>>),
     List(<<Assure>>), List(<<Signed(ASSERT_SIG_MY_AMOUNT, 1)>>)}
BadLists ==
    {Op(1), List(<<Create, Create>>), List(<<Taproot(Off)>>), List(<<Create, Malformed>>),
     O!Spine(<<MyAmount>>, Op(1)), List(<<Cond(RESERVE_FEE, <<Num(7)>>)>>),
     List(<<Signed(ASSERT_SIG_RAW, 1)>>), List(<<Cond(ASSERT_SEQUENCE_HEIGHT, <<O!Nil>>)>>)}

Nothing == Quoted(O!Nil)
Failing ==
    {Call(O!OpRaise, <<>>), Op(2), Call(Op(42), <<>>), List(<<List(<<Op(1)>>)>>),
     O!Spine(<<O!OpFirst>>, Op(1)), Call(Bytes(<<255, 255>>), <<>>), Call(O!OpFirst, <<O!Nil>>),
     Call(Op(2), <<O!Nil>>)}
\* Puzzles that ask for Key's signature of a message before they return a
\* list: the signature itself, none, one with the nonce's other root, one
\* with its scalar off by one or written above the order, one of another
\* message, and arguments of a wrong width or that are no key.
Demanding(key, sig) ==
    Call(O!OpIf, <<Call(O!OpSecpVerify, <<Quoted(Bytes(key)), Quoted(Bytes(Nonce)), Quoted(Bytes(sig))>>),
                   Quoted(List(<<Create>>)), Nothing>>)
Signing ==
    {Demanding(Key, Nonce \o O!Word(s)) :
        s \in {Scalar(Nonce, 1), Scalar(Nonce, -1), (Scalar(Nonce, 1) + 1) % GROUP_ORDER,
               Scalar(Nonce, 1) + GROUP_ORDER, Scalar(Key, 1)}}
      \cup {Demanding(key, sig) : key \in {Key, Off, <<7>>}, sig \in {<<>>, Signature(Nonce)}}

MCPrograms ==
    {Quoted(list) : list \in GoodLists \cup BadLists} \cup Failing \cup Signing
      \cup {Op(1),
            Call(O!OpCons, <<Quoted(MyAmount), Op(1)>>),
            Call(Op(2), <<Quoted(Quoted(List(<<MyAmount, MyAmount>>))), O!Nil>>),
            Call(O!OpIf, <<Op(1), Quoted(List(<<Create>>)), Quoted(List(<<Create, Taproot(Key)>>))>>)}
MCEnvs == {O!Nil, List(<<MyAmount>>)}
RECURSIVE Parts(_)
Parts(node) ==
    {node} \cup IF O!IsAtom(node) THEN {}
               ELSE Parts(O!First(node)) \cup Parts(O!Rest(node))
MCNodes == UNION {Parts(n) : n \in MCPrograms \cup MCEnvs}

MCBudgets == {0, 20, 220, 420, 520, 720, 1300061, 1350020, 1350220, 2650619, 2650620, 5000000}
MCIndexes == {-1, 0, 1}
MCContexts ==
    {Object(<<Coin(1)>>),
     Object(<<Bare(2), Coin(1)>>),
     Object(<<Coin(1), Carrying(2, List(<<Require(1)>>))>>),
     Object(<<Carrying(2, List(<<Create>>)), Coin(1)>>),
     Object(<<Coin(1), Carrying(2, List(<<Taproot(Off)>>))>>),
     Object(<<Coin(1), Carrying(2, Malformed), Carrying(3, Undeserializable)>>),
     Object(<<Coin(1), Carrying(3, Undeserializable), Carrying(2, Malformed)>>),
     Object(<<Coin(1), ("conditions" :> O!Nil) @@ Bare(2)>>),
     Object(<<Coin(1), Coin(1)>>),
     Object(<<Bare(2)>>),
     Object(<<[Coin(1) EXCEPT !.amount = 3]>>),
     Object(<<("spent" :> 1) @@ Coin(1)>>),
     Object(<<[key \in DOMAIN Coin(1) \ {"amount"} |-> Coin(1)[key]]>>),
     [key \in {"version", "locktime", "outputs"} |-> Object(<<>>)[key]]}
MCFuel == 8
=============================================================================
