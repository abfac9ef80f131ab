----------------------------- MODULE MCCommands -----------------------------
(***************************************************************************)
(* Every short token sequence and byte string, the boundaries of the       *)
(* length prefixes, each kind of atom, and programs to curry.              *)
(***************************************************************************)
EXTENDS Commands

MCBasePoint == <<2, 12>>

Op(b) == Atom(<<b>>)
Call(op, args) == ListOf(<<Op(op)>> \o args)
Bytes(n) == [i \in 1..n |-> 97]

\* The first four of the five; the fifth announces 2^27 bytes and more.
MCForms == <<[prefix |-> 128, mask |-> 63, extra |-> 0, floor |-> 0],
             [prefix |-> 192, mask |-> 31, extra |-> 1, floor |-> 64],
             [prefix |-> 224, mask |-> 15, extra |-> 2, floor |-> 8192],
             [prefix |-> 240, mask |-> 7, extra |-> 3, floor |-> 1048576]>>
MCNamed == {Op(b) : b \in (1..27) \cup (32..34) \cup {63}}

Name(b) == Token("name", <<b>>)
Decimal(n) == Token("decimal", <<n>>)
UpTo(n, alphabet) == UNION {[1..k -> alphabet] : k \in 0..n}

Spellings ==
    {Token("string", <<>>), Token("string", <<97, 34, 98>>), Token("string", <<195, 169>>),
     Token("hex", <<>>), Token("hex", <<1>>), Token("hex", <<0, 5>>), Token("hex", <<15, 15, 0, 1>>),
     Token("hex", <<2, 2, 2, 7, 4, 1>>), Decimal(0), Decimal(-1), Decimal(127), Decimal(128),
     Decimal(-129), Decimal(40000), Name(63), Token("bad_string", <<>>),
     Token("bad_hex", <<>>), Token("huge_decimal", <<>>)}
MCTexts ==
    UpTo(5, {Open, Close, Dot, Name(2), Decimal(300), Token("symbol", <<1>>)})
      \cup UNION {{<<t>>, <<Open, t, Close>>, <<Open, Name(1), Dot, t, Close>>} : t \in Spellings}

Programs ==
    {Call(16, <<Op(2), Op(5)>>), Call(4, <<Op(5), Call(4, <<Op(2), Op(11)>>)>>), Op(1), Op(23),
     Call(2, <<Op(2), Op(3)>>), Call(2, <<Quote(Op(5)), Call(4, <<Quote(Op(7)), Op(3)>>)>>),
     Call(2, <<Quote(Op(5)), Op(1), Op(1)>>), Spine(<<Op(2), Quote(Nil)>>, Op(1)),
     Call(2, <<Op(5), Op(1)>>)}
MCLines ==
    UpTo(4, {0, 1, 127, 128, 129, 130, 192, 252, 255})
      \cup {serialize(p) : p \in Programs}
      \cup {<<191>> \o Bytes(63), <<191>> \o Bytes(62), <<192, 63>> \o Bytes(63),
            <<192, 64>> \o Bytes(64), <<223, 255>> \o Bytes(8191), <<223, 255>> \o Bytes(8192),
            <<224, 31, 255>> \o Bytes(8191), <<224, 32, 0>> \o Bytes(8192), <<240, 0, 32, 0>> \o Bytes(8192)}

MCArguments ==
    {<<>>, <<<<Decimal(9)>>>>, <<<<Open, Name(1), Decimal(0), Dot, Name(3), Close>>, <<Token("hex", <<0, 9>>)>>>>,
     <<<<Decimal(1)>>, <<Open>>>>}
MCEnvs == {Nil, ListOf(<<Op(100), Op(3)>>), Op(6)}
=============================================================================
