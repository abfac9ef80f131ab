----------------------------- MODULE MCCompiler -----------------------------
(***************************************************************************)
(* Program forms for TLC: one function or two, an inline of each parameter *)
(* shape and a constant, under bodies that nest lets, calls of both kinds  *)
(* and every form, run on arguments that fit the parameters and that do    *)
(* not.                                                                    *)
(***************************************************************************)
EXTENDS Compiler

MCBasePoint == <<2, 12>>

Num(n) == Literal(IntToAtom(n))
A == Name("A")
B == Name("B")
X == Name("X")
Y == Name("Y")
Cat(x, y) == Application(OpCons, <<x, y>>)
RestOf(x) == Application(OpRest, <<x>>)
Bind(name, value) == [name |-> name, value |-> value]
F(x) == CallOf("f", <<x>>)
G(x) == CallOf("g", <<x>>)

One(name) == Params(Param(name), NoParam)
Two(first, second) == Params(Param(first), One(second))

Defun(name, params, body) == [kind |-> "defun", name |-> name, params |-> params, body |-> body]
Inline(name, params, body) == [Defun(name, params, body) EXCEPT !.kind = "defun-inline"]
Constant(name, body) == [kind |-> "defconstant", name |-> name, params |-> NoParam, body |-> body]

\* What a body of one parameter x may do with it.
Uses(x) ==
    {x, Num(7), Cat(x, x), Let(<<Bind("B", Num(1))>>, Cat(x, B)),
     Let(<<Bind("A", RestOf(x)), Bind("B", x)>>, Let(<<Bind("X", A)>>, Form("list", <<X, A, B, x>>)))}

Functions ==
    {Defun("f", One("X"), body) : body \in Uses(X)}
      \cup {Defun("f", One("X"), Form("if", <<X, F(RestOf(X)), Num(3)>>)),
            Defun("f", Param("X"), Form("if", <<RestOf(X), CallOf("h", <<X, Num(2)>>), X>>)),
            Defun("f", Params(Two("X", "Y").first, Param("Y")), Let(<<Bind("A", G(X))>>, Cat(A, Y))),
            Defun("f", One("X"), Name("nowhere"))}

Helper == Defun("h", Two("X", "Y"), Cat(Y, F(RestOf(X))))

Inlines ==
    {Inline("g", One("X"), body) : body \in Uses(X) \cup {F(X), Let(<<Bind("B", Num(1))>>, F(Cat(X, B)))}}
      \cup {Inline("g", Params(Params(Param("X"), Param("Y")), NoParam), body) :
               body \in {Form("list", <<X, Y>>), Form("if", <<Num(1), Y, X>>)}}
      \cup {Inline("g", Param("X"), Let(<<Bind("A", Num(4))>>, Cat(A, X))),
            Inline("g", One("X"), G(X))}

Arg == {A, RestOf(A), Num(5), Literal(Nil)}

Bodies1 ==
    {F(a) : a \in Arg} \cup {G(a) : a \in Arg}
      \cup {F(G(a)) : a \in Arg} \cup {G(F(a)) : a \in Arg} \cup {G(G(A)), CallOf("f", <<A, B>>)}
      \cup {Let(<<Bind("B", RestOf(A))>>, G(x)) : x \in {A, B, Cat(A, B), F(B)}}
      \cup {Let(<<Bind("A", RestOf(A))>>, Let(<<Bind("B", G(A))>>, F(Cat(A, B))))}

Forms ==
    {Form(word, <<x, y, z>>) : word \in {"if", "list", "list*", "assert", "and", "or"},
        x \in {A, Num(1), Literal(Nil)}, y \in {RestOf(A), B}, z \in {Num(9), RestOf(Num(1))}}
      \cup {Form(word, <<>>) : word \in {"if", "list", "list*", "assert", "and", "or"}}
      \cup {Name("K"), Name("SEAL"), Name("f"), Name("nowhere"), Malformed,
            Data(ListOf(<<QUOTE>>), {}), Data(Nil, {"A"}), Application(Atom(<<99>>), <<A>>),
            Application(APPLY, <<Num(1), A>>), CallOf("A", <<A>>), CallOf("K", <<>>),
            Let(<<Bind("A", A), Bind("A", B)>>, A), Let(<<Bind("SEAL", A)>>, A), Let(<<>>, A),
            Let(<<Bind("B", Name("K")), Bind("A", F(Name("K")))>>, Form("list", <<A, B, Name("SEAL")>>))}

Constants ==
    {Constant("K", body) : body \in {F(Data(ListOf(<<Atom(<<8>>)>>), {})), Num(6), Cat(Num(1), Num(2)),
                                     RestOf(Num(1)), Name("K")}}

Program(params, declarations, body) ==
    [params |-> params, declarations |-> declarations, body |-> body]
AB == Params(Param("A"), Param("B"))

MCSources ==
    {Program(AB, <<f, g, Helper>>, body) : f \in Functions, g \in Inlines, body \in Bodies1}
      \cup {Program(Two("A", "B"), <<Inline("g", One("X"), body)>>, main) :
               body \in Uses(X), main \in {G(A), Let(<<Bind("B", A)>>, G(Cat(A, B)))}}
      \cup {Program(params, <<Helper, Defun("f", One("X"), RestOf(X)), k>>, body) :
               params \in {AB, Two("A", "B")}, k \in Constants, body \in Forms}
      \cup {Program(Two("A", second), <<d>>, A) :
               second \in {"B", "A", "SEAL"},
               d \in {Defun("list", One("X"), X), Defun("f", Two("X", "X"), X), Inline("g", One("X"), X)}}
      \cup {Program(AB, <<Defun("f", One("X"), X), Inline("f", One("X"), X)>>, A)}

MCArguments ==
    {Nil, Spine(<<ListOf(<<Atom(<<2>>), Nil>>), Atom(<<3>>)>>, Nil),
     Spine(<<Spine(<<Nil>>, Atom(<<5>>))>>, Atom(<<4>>))}

MCReserved == {"if", "list", "SEAL"}
MCConditionConstants == [SEAL |-> Atom(<<96>>)]
=============================================================================
