---------------------------- MODULE MCConditions ----------------------------
(***************************************************************************)
(* Condition lists for TLC: for every opcode well-formed conditions and    *)
(* ones with each defect, alone and in pairs.  The widths are 2 for a      *)
(* hash, 3 for an outpoint and 4 for a signature.                          *)
(***************************************************************************)
EXTENDS Conditions

Num(n) == IntToAtom(n)
Op(b) == Atom(<<b>>)
Of(width, byte) == Atom([i \in 1..width |-> byte])
Condition(opcode, args) == ListOf(<<Op(opcode)>> \o args)

MCBasePoint == <<2, 12>>

Hash == Atom(Word(7))            \* an internal key as well as a root
Off == Atom(Word(9))             \* an internal key that lifts to no point
Money == Num(300)

\* A well-formed atom of each kind, and atoms just outside each kind.
Good ==
    [claimed_script |-> {Op(1), Of(5, 1)}, script_pubkey |-> {Nil, Of(5, 1)},
     hash |-> {Hash}, txid |-> {Hash}, tapleaf |-> {Hash}, merkle_root |-> {Hash},
     root_or_none |-> {Nil, Hash}, outpoint |-> {Of(3, 7)}, signature |-> {Of(4, 1)},
     payload |-> {Nil, Of(2, 4)},
     amount |-> {Nil, Money}, height |-> {Num(9)}, time |-> {Num(10)},
     sequence |-> {Num(40)}]
Bad ==
    [claimed_script |-> {Nil, Of(6, 1)}, script_pubkey |-> {Of(6, 1)},
     hash |-> {Of(3, 7), Nil}, txid |-> {Nil}, tapleaf |-> {Nil}, merkle_root |-> {Nil},
     root_or_none |-> {Op(7)}, outpoint |-> {Hash}, signature |-> {Hash},
     payload |-> {Of(3, 4)},
     amount |-> {Num(301), Num(-1), Atom(<<0, 5>>)}, height |-> {Num(10)},
     time |-> {Num(9), Num(21)}, sequence |-> {Num(41)}]
Pair == Spine(<<Nil>>, Nil)

FixedOpcodes == {b \in 0..127 : FixedKinds(b) # <<>>}

\* All conditions of an opcode with operands drawn from Good, ones with one
\* operand replaced, and ones with an operand too few or too many.
RECURSIVE Choices(_, _)
Choices(kinds, of) ==
    IF kinds = <<>> THEN {<<>>}
    ELSE {<<a>> \o rest_ : a \in of[Head(kinds)], rest_ \in Choices(Tail(kinds), of)}
Replaced(kinds) ==
    UNION {{[args EXCEPT ![i] = b] : b \in Bad[kinds[i]] \cup {Pair}} :
             args \in {CHOOSE c \in Choices(kinds, Good) : TRUE}, i \in 1..Len(kinds)}
Miscounted(kinds) ==
    LET some == CHOOSE c \in Choices(kinds, Good) : TRUE
    IN  {Tail(some), Append(some, Nil)}

ForKinds(opcode, before, kinds) ==
    {Condition(opcode, before \o args) :
        args \in Choices(kinds, Good)
                   \cup (IF kinds = <<>> THEN {<<Nil>>}
                         ELSE Replaced(kinds) \cup Miscounted(kinds))}

Fixed == UNION {ForKinds(o, <<>>, FixedKinds(o)) : o \in FixedOpcodes \ SigOpcodes}
           \cup ForKinds(16, <<>>, FixedKinds(16))
           \cup {Condition(2, <<Off, Nil, Money>>)}

\* Every internal key the curve has, and some it does not.
Derived == {Condition(2, <<Atom(Word(x)), root, Money>>) :
              x \in 0..(FIELD_PRIME + 1), root \in {Nil, Hash}}

\* Addressed conditions at modes whose halves differ.
Addressed ==
    UNION {ForKinds(o, <<Num(mode)>>, Tail(ModeKinds(o, mode))) :
             o \in {ASSURE, REQUIRE}, mode \in {0, 2, 33, 98, 7 * 32 + 24, 1023}}
      \cup UNION {ForKinds(ASSERT_ANNOUNCEMENT, <<Num(mode)>>,
                           Tail(ModeKinds(ASSERT_ANNOUNCEMENT, mode))) : mode \in {3, 21}}
      \cup {Condition(o, <<m, Nil, Hash>>) :
              o \in {ASSURE, ASSERT_ANNOUNCEMENT},
              m \in {Num(1024), Num(32), Num(-1), Atom(<<0, 4>>), Pair}}
      \cup {Condition(o, <<Nil>>) : o \in {ASSURE, ASSERT_ANNOUNCEMENT}}

Reserved ==
    {Condition(o, <<c>>) : o \in {128, 255},
        c \in {Num(500), Num(499), Num(100), Num(600), Num(-1), Atom(<<0, 2, 88>>), Pair}}
      \cup {Condition(128, <<>>), Condition(200, <<Num(1000), Pair, Hash>>)}

Malformed ==
    {Op(1), Nil, Spine(<<Op(1), Hash>>, Op(3)), Condition(0, <<>>), Condition(57, <<Hash>>),
     Condition(127, <<Nil>>), ListOf(<<Nil, Hash>>), ListOf(<<Pair>>),
     ListOf(<<Atom(<<1, 1>>), Hash, Nil>>)}

Singles == Fixed \cup Derived \cup Addressed \cup Reserved \cup Malformed

\* The conditions that are put in every order with each other.
Mixed ==
    {Condition(1, <<Op(1), Money>>), Condition(1, <<Op(1), Atom(<<0, 5>>)>>),
     Condition(2, <<Hash, Nil, Money>>), Condition(2, <<Off, Hash, Nil>>),
     Condition(2, <<Hash, Nil>>), Condition(17, <<Hash, Nil, Of(4, 1)>>),
     Condition(32, <<Num(9)>>), Condition(ASSURE, <<Num(33), Nil, Money>>),
     Condition(128, <<Num(500)>>), Condition(129, <<Num(499)>>),
     Condition(96, <<Hash>>), Condition(57, <<Hash>>), Op(1)}

MCLists ==
    {Nil, Op(1)}
      \cup {ListOf(<<x>>) : x \in Singles}
      \cup {Spine(<<x>>, Op(1)) : x \in Mixed}
      \cup {ListOf(<<x, y>>) : x \in Mixed, y \in Mixed}
      \cup {ListOf(<<x, y, z>>) : x \in Mixed, y \in Mixed, z \in Mixed}
MCBudgets == {NoBudget, 0, 199, 200, 350, 900, 1000, 2649999, 2650000, 2650650, 4000000}
MCSpent == {0, 150}
=============================================================================
