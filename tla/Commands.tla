------------------------------ MODULE Commands ------------------------------
(***************************************************************************)
(* The converters of the one-shot commands (bitlisp_tools/cli.py), as a    *)
(* pipeline uses them: bitlisp-asm, bitlisp-disasm, bitlisp-curry and      *)
(* bitlisp-uncurry, each reading what the one before it printed.  A        *)
(* command that fails prints nothing and exits with 2.                     *)
(***************************************************************************)
EXTENDS Wire, Text

CONSTANTS
    Texts, Lines,     \* what a pipeline may begin with: token sequences and bytes
    Arguments,        \* the values of --arg, as texts, that a curry may have
    MaxCommands       \* bounds a pipeline

VARIABLES
    held,             \* what the last command printed, or the first one reads
    printed,          \* the values bitlisp-uncurry printed below its program
    status,           \* the last exit status
    curried,          \* the curries not undone yet, the last first (history)
    count             \* the commands run

vars == <<held, printed, status, curried, count>>

-----------------------------------------------------------------------------
(* Currying (bitlisp_tools/curry.py): values fixed in front of a program's *)
(* environment, (a (q . program) (c (q . value1) ... 1)), and the strict   *)
(* reading of that shape.                                                  *)

QuoteOp == Atom(<<1>>)
ApplyOp == Atom(<<2>>)
ConsOp == Atom(<<4>>)
ENV_ROOT == Atom(<<1>>)

Quote(node) == Cons(QuoteOp, node)

\* The chain of conses that the first n values end up in front of.
CoreOf(values) ==
    LET core[i \in 1..(Len(values) + 1)] ==
          IF i > Len(values) THEN ENV_ROOT
          ELSE ListOf(<<ConsOp, Quote(values[i]), core[i + 1]>>)
    IN  core[1]

\* Defect: the values are consed in the order given, the last in front.
curryReversed(program, values) ==
    ListOf(<<ApplyOp, Quote(program),
             CoreOf([i \in DOMAIN values |-> values[Len(values) + 1 - i]])>>)

curry(program, values) == ListOf(<<ApplyOp, Quote(program), CoreOf(values)>>)

\* Defect: operands past the second are not noticed.
IsApplicationOfSome(node, operator) ==
    IsPair(node) /\ Len(node.elems) >= 3 /\ node.tail = Nil /\ node.elems[1] = operator

\* An application of the operator to exactly two operands.
IsApplicationOf(node, operator) ==
    IsPair(node) /\ Len(node.elems) = 3 /\ node.tail = Nil /\ node.elems[1] = operator

IsQuoted(node) == IsPair(node) /\ First(node) = QuoteOp

\* The values of a chain, when every link is a quoted value consed and the
\* last is the whole environment.
RECURSIVE FixedIn(_)
FixedIn(core) ==
    IF core = ENV_ROOT THEN [ok |-> TRUE, values |-> <<>>]
    ELSE IF ~IsApplicationOf(core, ConsOp) \/ ~IsQuoted(core.elems[2])
    THEN [ok |-> FALSE, values |-> <<>>]
    ELSE LET rest == FixedIn(core.elems[3])
         IN  [rest EXCEPT !.values = <<Rest(core.elems[2])>> \o @]

\* The program and its fixed values, or the program itself uncurried.
uncurry(program) ==
    LET fixed == FixedIn(program.elems[3])
    IN  IF IsApplicationOf(program, ApplyOp) /\ IsQuoted(program.elems[2]) /\ fixed.ok
        THEN [ok |-> TRUE, program |-> Rest(program.elems[2]), values |-> fixed.values]
        ELSE [ok |-> FALSE, program |-> program, values |-> <<>>]

-----------------------------------------------------------------------------
(* The commands. *)

AsText(tokens) == [form |-> "text", tokens |-> tokens]
AsHex(bytes) == [form |-> "hex", bytes |-> bytes]
Nothing == [form |-> "nothing"]
NoNames == <<>>

Init ==
    /\ held \in {AsText(t) : t \in Texts} \cup {AsHex(b) : b \in Lines}
    /\ printed = <<>> /\ status = 0 /\ curried = <<>> /\ count = 0

Reads(form) ==
    /\ held.form = form
    /\ count < MaxCommands
    /\ count' = count + 1

Prints(line, values) == held' = line /\ printed' = values /\ status' = 0
Fail == held' = Nothing /\ printed' = <<>> /\ status' = 2 /\ UNCHANGED curried

\* asm_main.
Asm ==
    /\ Reads("text")
    /\ LET read == assemble(held.tokens, NoNames) IN
       IF read.error # NoError THEN Fail
       ELSE Prints(AsHex(serialize(read.results[1])), <<>>) /\ UNCHANGED curried

\* disasm_main.
Disasm ==
    /\ Reads("hex")
    /\ LET read == deserialize(held.bytes) IN
       IF ~read.ok THEN Fail
       ELSE Prints(AsText(disassemble(read.node)), <<>>) /\ UNCHANGED curried

\* curry_main: the program is read before the values.
CurryWith(args) ==
    /\ Reads("hex")
    /\ LET read == deserialize(held.bytes)
           values == [i \in DOMAIN args |-> assemble(args[i], NoNames)]
       IN  IF ~read.ok \/ (\E i \in DOMAIN args : values[i].error # NoError) THEN Fail
           ELSE LET nodes == [i \in DOMAIN args |-> values[i].results[1]] IN
                /\ Prints(AsHex(serialize(curry(read.node, nodes))), <<>>)
                /\ curried' = <<[program |-> read.node, values |-> nodes]>> \o curried

\* uncurry_main: the program's line, and a line for each value.
Uncurry ==
    /\ Reads("hex")
    /\ LET read == deserialize(held.bytes)
           parts == uncurry(read.node)
       IN  IF ~read.ok \/ ~parts.ok THEN Fail
           ELSE /\ Prints(AsHex(serialize(parts.program)),
                          [i \in DOMAIN parts.values |-> disassemble(parts.values[i])])
                /\ curried' = IF curried = <<>> THEN <<>> ELSE Tail(curried)

Next ==
    \/ Asm
    \/ Disasm
    \/ \E args \in Arguments : CurryWith(args)
    \/ Uncurry

Spec == Init /\ [][Next]_vars

-----------------------------------------------------------------------------
(* What a text denotes, by the grammar of s-expressions instead of the    *)
(* reader's stack, and what the converters promise about programs.         *)

CONSTANTS
    MUL_OPERAND_MAX_BYTES, MUL_ACCUMULATOR_MAX_BYTES,
    DIV_NUMERATOR_MAX_BYTES, DIV_DIVISOR_MAX_BYTES,
    INDEX_MAX_BYTES, SHIFT_COUNT_MAX_MAGNITUDE,
    FIELD_PRIME, GROUP_ORDER, BASE_POINT, WORD_BYTES, DIGEST_VALUES,
    Envs,   \* the environments that a curried program is tried in
    Fuel,   \* bounds the applications that a meaning is followed into,
    Length  \* and the bytes of the programs that one is taken of

Evaluator == INSTANCE MachineReference WITH
    Nodes <- {}, Programs <- {}, Budgets <- {}, program <- Nil, env <- Nil, max_cost <- 0,
    tasks <- <<>>, values <- <<>>, cost <- 0, outcome <- "done"

\* How often a token is among the first k of a text.
Count(t, k, token) == Cardinality({i \in 1..k : t[i] = token})

\* The nodes that a text is a spelling of: an atom's token, or nodes between
\* parentheses, the last of them behind a dot or not.  Of several nodes the
\* first ends where its parentheses first balance.
RECURSIVE Denoted(_), DenotedAll(_)
Denoted(t) ==
    LET n == Len(t)
        inside == SubSeq(t, 2, n - 1)
    IN  IF n = 1 /\ t[1].kind \in Literals THEN {AtomOf(t[1])}
        ELSE IF n < 2 \/ t[1] # Open \/ t[n] # Close THEN {}
        ELSE {Listed(items, Nil) : items \in DenotedAll(inside)}
               \cup UNION {{Listed(items, tail) :
                               items \in DenotedAll(SubSeq(inside, 1, k - 1)) \ {<<>>},
                               tail \in Denoted(SubSeq(inside, k + 1, n - 2))} :
                            k \in {i \in DOMAIN inside : inside[i] = Dot}}
DenotedAll(t) ==
    LET ends == {k \in DOMAIN t : Count(t, k, Open) = Count(t, k, Close)}
        k == CHOOSE least \in ends : \A other \in ends : least <= other
    IN  IF t = <<>> THEN {<<>>}
        ELSE IF ends = {} THEN {}
        ELSE {<<first>> \o others : first \in Denoted(SubSeq(t, 1, k)),
                                   others \in DenotedAll(SubSeq(t, k + 1, Len(t)))}

\* What a line that a command prints or reads stands for.
NodesOf(line) ==
    CASE line.form = "text"    -> Denoted(line.tokens)
      [] line.form = "hex"     -> IF deserialize(line.bytes).ok THEN {deserialize(line.bytes).node} ELSE {}
      [] line.form = "nothing" -> {}

-----------------------------------------------------------------------------
(* Correctness. *)

\* The assembler accepts exactly the texts that the grammar derives, and
\* reads each as the one node it denotes.  A definition that is in force
\* changes none of these readings, and the text that names it, which is
\* rejected as unknown without it, reads as what it is bound to.
ReaderAgrees ==
    held.form = "text" =>
        LET read == assemble(held.tokens, NoNames)
            bound == assemble(held.tokens, [t \in {held.tokens[1]} |-> ENV_ROOT])
        IN  /\ Denoted(held.tokens) = IF read.error = NoError THEN {read.results[1]} ELSE {}
            /\ read.error = NoError => bound = read
            /\ definable(held.tokens) => read.error = UnknownSymbol /\ bound.results = <<ENV_ROOT>>

\* A program has one accepted spelling in bytes: what the reader of the wire
\* format accepts is what the writer writes.
OneSpelling ==
    held.form = "hex" /\ deserialize(held.bytes).ok =>
        serialize(deserialize(held.bytes).node) = held.bytes

\* Converting a program to text or to bytes keeps the program, whatever
\* the conversions and curries before it, and only a line that denotes no program fails.
ConversionsKeepTree ==
    [][ Asm \/ Disasm => NodesOf(held') = NodesOf(held) /\ (status' = 2 <=> NodesOf(held) = {}) ]_vars

\* Uncurrying undoes the last curry: its program, and every value as a text
\* that reads back as it; and whatever it splits, currying gives back.
UncurryInverts ==
    [][ Uncurry =>
          LET parts == CHOOSE n \in NodesOf(held') : TRUE
              texts == [i \in DOMAIN printed' |-> CHOOSE n \in Denoted(printed'[i]) : TRUE]
          IN  /\ curried # <<>> =>
                    status' = 0 /\ parts = curried[1].program /\ texts = curried[1].values
              /\ status' = 0 => NodesOf(held) = {curry(parts, texts)} ]_vars

\* A curried program ends as the program itself does with the values in
\* front of the environment.
CurriedMeans ==
    [][ Len(curried') > Len(curried) /\ Len(held.bytes) <= Length =>
          \A e \in Envs :
              LET inner == Evaluator!Meaning(curried'[1].program, Listed(curried'[1].values, e), Fuel)
                  outer == Evaluator!Meaning(CHOOSE n \in NodesOf(held') : TRUE, e, Fuel + 1)
              IN  outer.code = inner.code /\ outer.value = inner.value ]_vars
=============================================================================
