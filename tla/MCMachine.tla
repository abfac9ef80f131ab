----------------------------- MODULE MCMachine -----------------------------
(***************************************************************************)
(* Programs for TLC: every operator applied to every pair of leaves,       *)
(* nested applications, malformed nodes of each kind, and programs that    *)
(* apply themselves.                                                       *)
(***************************************************************************)
EXTENDS MachineReference

MCBasePoint == <<2, 12>>

Op(b) == Atom(<<b>>)
Quoted(node) == Cons(QUOTE, node)
Call(op, args) == Spine(<<op>> \o args, Nil)

Paths == {Nil, Atom(<<0>>), Atom(<<1>>), Atom(<<2>>), Atom(<<3>>), Atom(<<0, 5>>)}
Leaves == Paths \cup {Quoted(Nil), Quoted(Atom(<<0, 128>>)),
                      Quoted(ListOf(<<QUOTE, Op(5)>>))}
Reserved == Atom(<<255, 255>>)
Unknown == Atom(<<42>>)
Callable == OPERATORS \cup {APPLY, Reserved, Nil}

Unary == {Call(op, <<x>>) : op \in Callable, x \in Leaves}
Binary == {Call(op, <<x, y>>) : op \in Callable, x \in Leaves, y \in Leaves}

Malformed == {Spine(<<OpFirst, Atom(<<1>>)>>, Op(5)),
              Call(Unknown, <<Call(OpRaise, <<>>)>>),
              Call(ListOf(<<QUOTE>>), <<>>),
              Call(APPLY, <<>>)}
               \cup {Call(op, <<>>) : op \in {OpAdd, OpSub, OpConcat, OpSha256, OpLogand}}

\* Applications of programs that fail before they charge, and after.
Applying ==
    {Call(APPLY, <<Quoted(p), e>>) :
        p \in Malformed \cup {Atom(<<2>>), Quoted(Nil), Call(OpFirst, <<Nil>>)},
        e \in {Nil, Atom(<<1>>)}}

Ternary ==
    {Call(OpIf, <<x, y, z>>) : x \in {Nil, Quoted(Op(0)), Atom(<<2>>)},
                               y \in {Atom(<<1>>), Call(OpRaise, <<>>)},
                               z \in {Quoted(Nil), Call(Unknown, <<>>)}}
      \cup {Call(op, <<x, Atom(<<1>>), y>>) : op \in {OpAdd, OpSub, OpMul, OpAll},
                 x \in {Quoted(Op(200)), Atom(<<1>>)}, y \in {Quoted(Op(7)), Nil}}
      \cup {Call(op, <<Quoted(Op(200)), y>> \o z) :
                 op \in {OpMul, OpDiv, OpGr, OpGrs, OpAsh, OpLsh},
                 y \in {Quoted(Op(b)) : b \in {2, 8, 9, 248, 254}},
                 z \in {<<>>, <<Nil>>, <<Call(OpCons, <<Nil, Nil>>)>>}}

\* The bitwise folds, concat, sha256 and divmod on operands of either sign,
\* substr at and across its bounds, and calls of secp_verify that a small
\* budget sees the end of.
Bytes3 == Quoted(Atom(<<7, 128, 9>>))
Folding ==
    {Call(op, <<Quoted(Op(200)), Quoted(x)>> \o z) :
        op \in {OpLogand, OpLogior, OpLogxor, OpConcat, OpSha256, OpDivmod},
        x \in {Nil, Op(6), Op(251), Atom(<<1, 7>>)},
        z \in {<<>>, <<Bytes3>>, <<Atom(<<1>>)>>}}
Slicing ==
    {Call(OpSubstr, <<Bytes3, Quoted(i)>> \o z) :
        i \in {Nil, Op(1), Op(3), Op(4), Op(255), Atom(<<0, 1>>)},
        z \in {<<>>} \cup {<<Quoted(j)>> : j \in {Nil, Op(2), Op(3), Op(4), Op(255), Nil}}}
Verifying ==
    {Call(OpSecpVerify, <<x, y, z>>) :
        x \in {Quoted(Op(7)), Quoted(Nil), Bytes3}, y \in {Quoted(Op(7)), Atom(<<1>>)},
        z \in {Quoted(Nil), Quoted(Atom(<<2, 9>>)), Bytes3}}

Nested ==
    {Call(OpCons, <<x, y>>) :
        x \in Applying \cup Malformed, y \in Malformed \cup {Call(OpRest, <<Atom(<<1>>)>>)}}

\* (a 1 1): in an environment that is this program it never ends.
SelfApplying == Call(APPLY, <<Atom(<<1>>), Atom(<<1>>)>>)

MCPrograms == Leaves \cup Unary \cup Binary \cup Ternary \cup Malformed \cup Folding
                \cup Slicing \cup Verifying \cup Applying \cup Nested \cup {SelfApplying}
MCEnvs == {Nil, SelfApplying, Cons(ListOf(<<Op(9), Op(0)>>), Op(255))}
MCBudgets == {0, 1, 20, 45, 64, 91, 110, 131, 135, 178, 221, 421, 520, 1000, 2000}
MCFuel == 16

\* Every part of a node, itself included.
RECURSIVE Parts(_)
Parts(node) ==
    {node} \cup IF IsAtom(node) THEN {}
               ELSE Parts(First(node)) \cup Parts(Rest(node))
MCNodes == UNION {Parts(n) : n \in MCPrograms \cup MCEnvs}

=============================================================================
