------------------------------ MODULE Compiler ------------------------------
(***************************************************************************)
(* The compiler (bitlisp_tools/compiler.py): the declarations of a program *)
(* form are added one by one, a constant's value being compiled and run as *)
(* it is declared, and then its body is compiled.  The artifact runs on    *)
(* an environment; the evaluator takes its own steps (Machine.tla).        *)
(*                                                                         *)
(* A source tree is a record with its form; a malformed one stands for     *)
(* every shape the compiler refuses on sight.  Declarations are the ones   *)
(* that Includes.tla splices.                                              *)
(***************************************************************************)
EXTENDS Definitions, Operators, TLC

CONSTANTS
    ConditionConstants,    \* the value of each condition name
    INLINE_DEPTH_LIMIT, INLINE_SIZE_LIMIT,
    Budget,                \* of a constant's value and of the artifact's run
    Sources, Arguments     \* program forms, and what they are run on

VARIABLES
    source, argument,                              \* the program form and its environment
    rest,                                          \* the declarations still to add
    defs, order,                                   \* the definitions, the functions in order
    program, env, max_cost,                        \* what runs: a constant's value, or
    tasks, values, cost, outcome,                  \*   the artifact in the end
    stage                                          \* "declaring", "constant", "running"
                                                   \*   or the exception raised

input == <<source, argument>>
machine == <<program, env, max_cost, tasks, values, cost, outcome>>
vars == <<input, rest, defs, order, machine, stage>>

S == INSTANCE SequencesExt
VM == INSTANCE Machine WITH Nodes <- {}, Programs <- {}, Envs <- {}, Budgets <- {}

QUOTE == Atom(<<1>>)
APPLY == Atom(<<2>>)
TOP == 1
LEFT == 2
RIGHT == 3

-----------------------------------------------------------------------------
(* Source trees. *)

Name(name) == [form |-> "name", name |-> name]
Literal(node) == [form |-> "atom", node |-> node]
Data(node, names) == [form |-> "quoted", node |-> node, names |-> names]
Application(op, args) == [form |-> "operator", op |-> op, args |-> args]
Form(word, args) == [form |-> word, args |-> args]
CallOf(name, args) == [form |-> "call", name |-> name, args |-> args]
Let(entries, body) == [form |-> "let", entries |-> entries, body |-> body]
Malformed == [form |-> "malformed"]

\* _symbol_names: every name a tree mentions, shadowed and quoted ones too.
RECURSIVE Mentions(_)
Mentions(expr) ==
    CASE expr.form = "name"      -> {expr.name}
      [] expr.form = "atom"      -> {}
      [] expr.form = "malformed" -> {}
      [] expr.form = "quoted"    -> expr.names
      [] expr.form = "let"       ->
            Mentions(expr.body)
              \cup UNION {{e.name} \cup Mentions(e.value) : e \in S!ToSet(expr.entries)}
      [] OTHER -> (IF expr.form = "call" THEN {expr.name} ELSE {})
                     \cup UNION {Mentions(a) : a \in S!ToSet(expr.args)}

-----------------------------------------------------------------------------
(* Parameter trees and environment paths. *)

NoParam == [kind |-> "nil"]
Param(name) == [kind |-> "name", name |-> name]
Params(first, others) == [kind |-> "pair", first |-> first, rest |-> others]

RECURSIVE ParamNames(_), Steps(_), Spread(_)
ParamNames(params) ==
    CASE params.kind = "nil"  -> <<>>
      [] params.kind = "name" -> <<params.name>>
      [] params.kind = "pair" -> ParamNames(params.first) \o ParamNames(params.rest)

\* The way down the tree to each name.
Steps(params) ==
    CASE params.kind = "nil"  -> <<>>
      [] params.kind = "name" -> params.name :> <<>>
      [] params.kind = "pair" ->
            LET first == Steps(params.first)
                others == Steps(params.rest)
            IN  [n \in DOMAIN first |-> <<LEFT>> \o first[n]]
                  @@ [n \in DOMAIN others |-> <<RIGHT>> \o others[n]]

\* The trees along the spine, its end last.
Spread(params) ==
    IF params.kind = "pair" THEN <<params.first>> \o Spread(params.rest) ELSE <<params>>

_check_params(params) ==
    /\ S!IsInjective(ParamNames(params))
    /\ S!ToSet(ParamNames(params)) \cap Reserved = {}

\* A dotted tail takes whatever is left.
Takes(params, count) ==
    LET spine == Spread(params)
    IN  IF S!Last(spine) = NoParam THEN count = Len(spine) - 1 ELSE count >= Len(spine) - 1

\* _compose: the path that goes on from a parent path.
Compose(parent, child) ==
    LET legs == 2^(BitLength(parent) - 1)
    IN  child * legs + (parent % legs)

_bind_params(params, root) ==
    LET steps == Steps(params)
    IN  [n \in DOMAIN steps |-> IntToAtom(S!FoldLeft(Compose, root, steps[n]))]

\* Where the i-th of n functions sits in their balanced tree.
RECURSIVE TreePath(_, _, _), _build_tree(_)
TreePath(n, i, root) ==
    LET half == n \div 2
    IN  IF n = 1 THEN root
        ELSE IF i <= half THEN TreePath(half, i, Compose(root, LEFT))
        ELSE TreePath(n - half, i - half, Compose(root, RIGHT))

_build_tree(items) ==
    LET half == Len(items) \div 2
    IN  IF Len(items) = 1 THEN items[1]
        ELSE Cons(_build_tree(SubSeq(items, 1, half)),
                  _build_tree(SubSeq(items, half + 1, Len(items))))

-----------------------------------------------------------------------------
(* Emitted nodes.  An exception takes the place of one. *)

CompileError == [type |-> "CompileError"]
AssertionError == [type |-> "AssertionError"]
IsError(node) == node \in {CompileError, AssertionError}

\* The node built of parts, or the first error among them.
Built(parts, node) ==
    IF \E i \in DOMAIN parts : IsError(parts[i])
    THEN S!SelectSeq(parts, IsError)[1]
    ELSE node

Emitted(op, args) == Spine(<<op>> \o args, Nil)
Quoted(node) == Cons(QUOTE, node)

_cons_onto(items, tail) ==
    S!FoldRight(LAMBDA item, acc : Emitted(OpCons, <<item, acc>>), items, tail)

_lazy_if(condition, then, else) ==
    Emitted(APPLY, <<Emitted(OpIf, <<condition, Quoted(then), Quoted(else)>>), IntToAtom(TOP)>>)

RECURSIVE NodeSize(_)
NodeSize(node) ==
    IF IsAtom(node) THEN 1 ELSE 1 + NodeSize(First(node)) + NodeSize(Rest(node))

Component(node, step) == Emitted(IF step = LEFT THEN OpFirst ELSE OpRest, <<node>>)

\* Each name stands for its argument's own expression, or for steps into
\* it; a tail name stands for a list of the arguments left.
_bind_inline_params(params, arguments) ==
    LET steps == Steps(params)
        count == Len(Spread(params)) - 1
        Bound(way) ==
            LET i == S!SelectInSeq(way, LAMBDA step : step = LEFT)
            IN  IF way = [k \in 1..count |-> RIGHT]
                THEN _cons_onto(SubSeq(arguments, count + 1, Len(arguments)), Nil)
                ELSE S!FoldLeft(Component, arguments[i], SubSeq(way, i + 1, Len(way)))
    IN  [n \in DOMAIN steps |-> Bound(steps[n])]

-----------------------------------------------------------------------------
(* Expressions.  space holds the definitions, the functions' paths and     *)
(* the depth of inline calls.                                              *)

Root(space) == IF space.paths = <<>> THEN TOP ELSE RIGHT

_reference(name, bindings, space) ==
    IF name \in DOMAIN bindings THEN bindings[name]
    ELSE IF name \in DOMAIN space.defs["constants"]
    THEN Quoted(space.defs["constants"][name].value)
    ELSE IF name \in DOMAIN ConditionConstants THEN Quoted(ConditionConstants[name])
    ELSE CompileError

\* A binding path as the rebuilt environment sees it: with a function tree
\* it has to lead below the arguments.
Rerooted(path, tail_path, space) ==
    IF space.paths = <<>> THEN IntToAtom(Compose(tail_path, path))
    ELSE IF path < RIGHT \/ path % 2 = 0 THEN AssertionError
    ELSE IntToAtom(Compose(tail_path, path \div 2))

\* Defect: an argument's expression is left as it is.
ReboundBare(bound, tail_path, space) ==
    IF bound # Nil /\ IsAtom(bound) THEN Rerooted(AtomToInt(bound), tail_path, space) ELSE bound

\* An enclosing binding inside a let: a path is re-rooted, a quoted node
\* needs nothing, and an inline call's expression runs in the environment
\* it was compiled for, rebuilt from the tail.
Rebound(bound, tail_path, space) ==
    IF bound = Nil THEN bound
    ELSE IF IsAtom(bound) THEN Rerooted(AtomToInt(bound), tail_path, space)
    ELSE IF First(bound) = QUOTE THEN bound
    ELSE Emitted(APPLY,
                 <<Quoted(bound),
                   IF space.paths = <<>> THEN IntToAtom(tail_path)
                   ELSE Emitted(OpCons, <<IntToAtom(LEFT), IntToAtom(tail_path)>>)>>)

RECURSIVE Emit(_, _, _)

EmitAll(exprs, bindings, space) ==
    [i \in 1..Len(exprs) |-> Emit(exprs[i], bindings, space)]

\* The form of the given word over its compiled operands.
EmitForm(word, parts) ==
    CASE word = "if" /\ Len(parts) = 3      -> _lazy_if(parts[1], parts[2], parts[3])
      [] word = "list"                      -> _cons_onto(parts, Nil)
      [] word = "list*" /\ parts # <<>>     -> _cons_onto(S!Front(parts), S!Last(parts))
      [] word = "assert" /\ parts # <<>>    ->
            S!FoldRight(LAMBDA c, acc : _lazy_if(c, acc, Emitted(OpRaise, <<>>)),
                        S!Front(parts), S!Last(parts))
      [] word = "and" -> S!FoldRight(LAMBDA c, acc : _lazy_if(c, acc, Nil), parts, Quoted(TrueAtom))
      [] word = "or"  -> S!FoldRight(LAMBDA c, acc : _lazy_if(c, Quoted(TrueAtom), acc), parts, Nil)
      [] OTHER        -> CompileError

\* The body is applied in place, to the enclosing environment with the
\* bound values in front of the arguments.
_let(entries, body, bindings, space) ==
    LET n == Len(entries)
        names == [i \in 1..n |-> entries[i].name]
        Below(i) == S!FoldLeft(Compose, Root(space), [k \in 1..i |-> RIGHT])
        given == EmitAll([i \in 1..n |-> entries[i].value], bindings, space)
        rebound == [m \in DOMAIN bindings |-> Rebound(bindings[m], Below(n), space)]
        bound == [m \in S!ToSet(names) |->
                     IntToAtom(Compose(Below(S!SelectInSeq(names, LAMBDA x : x = m) - 1), LEFT))]
        inner == Emit(body, bound @@ rebound, space)
        arguments == _cons_onto(given, IntToAtom(Root(space)))
        environment == IF space.paths = <<>> THEN arguments
                       ELSE Emitted(OpCons, <<IntToAtom(LEFT), arguments>>)
    IN  IF entries = <<>> THEN Emit(body, bindings, space)
        ELSE IF ~S!IsInjective(names) \/ S!ToSet(names) \cap Reserved # {} THEN CompileError
        ELSE Built(given \o S!SetToSeq({rebound[m] : m \in DOMAIN rebound}) \o <<inner>>,
                   Emitted(APPLY, <<Quoted(inner), environment>>))

_inline_call(inline, args, bindings, space) ==
    LET compiled == EmitAll(args, bindings, space)
        body == Emit(inline.body, _bind_inline_params(inline.params, compiled),
                     [space EXCEPT !.depth = @ + 1])
    IN  IF ~Takes(inline.params, Len(args)) THEN CompileError
        ELSE Built(compiled,
                   IF space.depth >= INLINE_DEPTH_LIMIT THEN CompileError
                   ELSE Built(<<body>>, IF NodeSize(body) > INLINE_SIZE_LIMIT
                                        THEN CompileError ELSE body))

\* The callee sees the caller's layout: the tree, then its arguments.
_call(function, args, bindings, space) ==
    LET compiled == EmitAll(args, bindings, space)
    IN  IF ~Takes(function.params, Len(args)) THEN CompileError
        ELSE Built(compiled,
                   Emitted(APPLY, <<IntToAtom(space.paths[function.name]),
                                    Emitted(OpCons, <<IntToAtom(LEFT), _cons_onto(compiled, Nil)>>)>>))

_operator(op, args, bindings, space) ==
    LET compiled == EmitAll(args, bindings, space)
    IN  IF op # APPLY /\ op \notin OPERATORS THEN CompileError
        ELSE Built(compiled, Emitted(op, compiled))

\* A head that is a name: bindings shadow functions, and are none.
NamedCall(name, args, bindings, space) ==
    IF name \in DOMAIN bindings THEN CompileError
    ELSE IF name \in DOMAIN space.defs["inlines"]
    THEN _inline_call(space.defs["inlines"][name], args, bindings, space)
    ELSE IF name \in DOMAIN space.defs["functions"]
    THEN _call(space.defs["functions"][name], args, bindings, space)
    ELSE CompileError

Emit(expr, bindings, space) ==
    CASE expr.form = "name"      -> _reference(expr.name, bindings, space)
      [] expr.form = "atom"      -> IF expr.node = Nil THEN Nil ELSE Quoted(expr.node)
      [] expr.form = "malformed" -> CompileError
      [] expr.form = "quoted"    -> IF expr.names # {} THEN CompileError ELSE Quoted(expr.node)
      [] expr.form = "let"       -> _let(expr.entries, expr.body, bindings, space)
      [] expr.form = "call"      -> NamedCall(expr.name, expr.args, bindings, space)
      [] expr.form = "operator"  -> _operator(expr.op, expr.args, bindings, space)
      [] OTHER -> LET parts == EmitAll(expr.args, bindings, space)
                  IN  Built(parts, EmitForm(expr.form, parts))

\* Defect: the parameters take the whole environment, tree or not.
RootOfMainAlways(space) == TOP

RootOfMain(space) == Root(space)

_compile(params, body) ==
    LET reachable == Reachable(defs, Mentions(body), {"functions", "inlines"})
        names == S!SelectSeq(order, LAMBDA n : n \in reachable)
        paths == [n \in S!ToSet(names) |->
                     TreePath(Len(names), S!SelectInSeq(names, LAMBDA x : x = n), LEFT)]
        space == [defs |-> defs, paths |-> paths, depth |-> 0]
        main == Emit(body, _bind_params(params, RootOfMain(space)), space)
        functions == [i \in 1..Len(names) |-> defs["functions"][names[i]]]
        bodies == [i \in 1..Len(names) |->
                      Emit(functions[i].body, _bind_params(functions[i].params, RIGHT), space)]
    IN  Built(<<main>> \o bodies,
              IF names = <<>> THEN main
              ELSE Emitted(APPLY, <<Quoted(main),
                                    Emitted(OpCons, <<Quoted(_build_tree(bodies)), IntToAtom(TOP)>>)>>))

-----------------------------------------------------------------------------
(* compile_program. *)

Init ==
    /\ source \in Sources
    /\ argument \in Arguments
    /\ rest = source.declarations
    /\ defs = NoDefinitions /\ order = <<>>
    /\ program = Nil /\ env = Nil /\ max_cost = Budget
    /\ tasks = <<>> /\ values = <<>> /\ cost = 0 /\ outcome = "idle"
    /\ stage = IF _check_params(source.params) THEN "declaring" ELSE "CompileError"

Adding(kinds) ==
    /\ stage = "declaring"
    /\ rest # <<>>
    /\ Head(rest).kind \in kinds

Refuse(error) == stage' = error /\ UNCHANGED <<rest, defs, order, machine>>

\* run(compiled, e) begins.
Start(compiled, e) ==
    /\ program' = compiled /\ env' = e
    /\ tasks' = <<VM!Eval(compiled, e)>>
    /\ values' = <<>> /\ cost' = 0 /\ outcome' = "running"
    /\ UNCHANGED max_cost

\* A body is stored as written, with the names it mentions.
AddFunction ==
    /\ Adding({"defun", "defun-inline"})
    /\ LET d == Head(rest)
       IN  IF ~Claims(defs, d, {}) \/ ~_check_params(d.params) THEN Refuse("CompileError")
           ELSE /\ rest' = Tail(rest)
                /\ defs' = Added(defs, [mentions |-> Mentions(d.body)] @@ d)
                /\ order' = IF d.kind = "defun" THEN Append(order, d.name) ELSE order
                /\ UNCHANGED <<machine, stage>>
    /\ UNCHANGED input

\* A constant's value compiles against what is declared so far, and runs.
CompileConstant ==
    /\ Adding({"defconstant"})
    /\ \E compiled \in {_compile(NoParam, Head(rest).body)} :
          IF ~Claims(defs, Head(rest), {}) THEN Refuse("CompileError")
          ELSE IF IsError(compiled) THEN Refuse(compiled.type)
          ELSE /\ Start(compiled, Nil)
               /\ stage' = "constant"
               /\ UNCHANGED <<rest, defs, order>>
    /\ UNCHANGED input

Run ==
    /\ stage \in {"constant", "running"}
    /\ VM!Next
    /\ UNCHANGED <<input, rest, defs, order, stage>>

AddConstant ==
    /\ stage = "constant"
    /\ outcome # "running"
    /\ IF outcome # "done" THEN Refuse("CompileError")
       ELSE /\ defs' = Added(defs, [mentions |-> {}, value |-> values[1]] @@ Head(rest))
            /\ rest' = Tail(rest)
            /\ stage' = "declaring"
            /\ UNCHANGED <<order, machine>>
    /\ UNCHANGED input

CompileBody ==
    /\ stage = "declaring"
    /\ rest = <<>>
    /\ \E compiled \in {_compile(source.params, source.body)} :
          IF IsError(compiled) THEN Refuse(compiled.type)
          ELSE /\ Start(compiled, argument)
               /\ stage' = "running"
               /\ UNCHANGED <<rest, defs, order>>
    /\ UNCHANGED input

Next == AddFunction \/ CompileConstant \/ Run \/ AddConstant \/ CompileBody

Spec == Init /\ [][Next]_vars

-----------------------------------------------------------------------------
(* Correctness. *)

\* Every binding that a let re-roots is a path below the arguments, whatever
\* lets, inlines and parameter shapes surround it: the compiler's own
\* assertion cannot fail.
RerootingIsSafe == stage # "AssertionError"

-----------------------------------------------------------------------------
(***************************************************************************)
(* What a source program means, by an interpreter that knows names and     *)
(* values and neither environments, paths nor a function tree.  A compiled *)
(* program must end as its source does.                                    *)
(*                                                                         *)
(* Operands are evaluated right to left, as the evaluator does.  A name is *)
(* bound to a value, to no value when the argument has not the shape of    *)
(* its parameters, or to an inline call's unevaluated argument with the    *)
(* scope it stands in.                                                     *)
(***************************************************************************)

CONSTANT Fuel   \* bounds the calls that a meaning is followed into

Evaluator == INSTANCE MachineReference WITH
                Nodes <- {}, Programs <- {}, Envs <- {}, Budgets <- {}

Gives(node) == [code |-> Ok, value |-> node]
Stops(code) == [code |-> code, value |-> Nil]

Value(node) == [kind |-> "value", node |-> node]
NoValue == [kind |-> "missing"]
Thunk(expr, scope, way) == [kind |-> "thunk", expr |-> expr, scope |-> scope, way |-> way]
Thunks(exprs, scope) == [kind |-> "thunks", exprs |-> exprs, scope |-> scope]

\* The part of a node a way leads to.
RECURSIVE PartAt(_, _)
PartAt(node, way) ==
    IF way = <<>> THEN Value(node)
    ELSE IF IsAtom(node) THEN NoValue
    ELSE PartAt(IF Head(way) = LEFT THEN First(node) ELSE Rest(node), Tail(way))

BoundTo(params, node) ==
    LET steps == Steps(params) IN [n \in DOMAIN steps |-> PartAt(node, steps[n])]

\* The inline's parameters: the i-th takes the i-th argument.
RECURSIVE BoundByName(_, _, _)
BoundByName(params, exprs, scope) ==
    IF params = NoParam THEN <<>>
    ELSE IF params.kind = "name" THEN params.name :> Thunks(exprs, scope)
    ELSE LET inside == Steps(params.first)
         IN  [n \in DOMAIN inside |-> Thunk(Head(exprs), scope, inside[n])]
               @@ BoundByName(params.rest, Tail(exprs), scope)

RECURSIVE Means(_, _, _), MeansAll(_, _, _)

\* Right to left: the values in order, or the first error met.
MeansAll(exprs, scope, d) ==
    IF exprs = <<>> THEN [code |-> Ok, value |-> <<>>]
    ELSE LET right == MeansAll(Tail(exprs), scope, d)
             left == Means(Head(exprs), scope, d)
         IN  IF right.code # Ok THEN right
             ELSE IF left.code # Ok THEN left
             ELSE [code |-> Ok, value |-> <<left.value>> \o right.value]

MeansOf(binding, d) ==
    CASE binding.kind = "value"   -> Gives(binding.node)
      [] binding.kind = "missing" -> Stops("path_into_atom")
      [] binding.kind = "thunk"   ->
            LET whole == Means(binding.expr, binding.scope, d)
                part == PartAt(whole.value, binding.way)
            IN  IF whole.code # Ok THEN whole
                ELSE IF part = NoValue THEN Stops("arg_not_pair")
                ELSE Gives(part.node)
      [] binding.kind = "thunks"  ->
            LET all == MeansAll(binding.exprs, binding.scope, d)
            IN  IF all.code # Ok THEN all ELSE Gives(ListOf(all.value))

MeansName(name, scope, d) ==
    IF name \in DOMAIN scope THEN MeansOf(scope[name], d)
    ELSE IF name \in DOMAIN d["constants"] THEN Means(d["constants"][name].body, <<>>, d)
    ELSE Gives(ConditionConstants[name])

MeansCall(name, args, scope, d) ==
    IF name \in DOMAIN d["inlines"]
    THEN LET g == d["inlines"][name]
         IN  Means(g.body, BoundByName(g.params, args, scope), d)
    ELSE LET f == d["functions"][name]
             all == MeansAll(args, scope, d)
         IN  IF all.code # Ok THEN all
             ELSE IF d.left = 0 THEN Stops("out_of_fuel")
             ELSE Means(f.body, BoundTo(f.params, ListOf(all.value)), [d EXCEPT !.left = @ - 1])

MeansLet(entries, body, scope, d) ==
    LET n == Len(entries)
        all == MeansAll([i \in 1..n |-> entries[i].value], scope, d)
        bound == [m \in {entries[i].name : i \in 1..n} |->
                     Value(all.value[CHOOSE i \in 1..n : entries[i].name = m])]
    IN  IF all.code # Ok THEN all ELSE Means(body, bound @@ scope, d)

MeansOperator(op, args, scope, d) ==
    LET all == MeansAll(args, scope, d)
        ran == IF op # APPLY THEN RunOperator(op, all.value)
               ELSE IF Len(args) = 2 THEN Evaluator!Meaning(all.value[1], all.value[2], Fuel)
               ELSE Stops("wrong_arg_count")
    IN  IF all.code # Ok THEN all ELSE [code |-> ran.code, value |-> ran.value]

\* The forms that stop early: the condition's meaning decides.
MeansTest(test, scope, d, Then(_), Else(_)) ==
    LET t == Means(test, scope, d)
    IN  IF t.code # Ok THEN t ELSE IF t.value # Nil THEN Then(t) ELSE Else(t)

RECURSIVE MeansAssert(_, _, _), MeansJunction(_, _, _, _)
MeansAssert(args, scope, d) ==
    IF Len(args) = 1 THEN Means(args[1], scope, d)
    ELSE MeansTest(Head(args), scope, d,
                   LAMBDA t : MeansAssert(Tail(args), scope, d),
                   LAMBDA t : Stops("user_raise"))

\* An "or" ends at the first true operand, an "and" at the first false one.
MeansJunction(ends, args, scope, d) ==
    IF args = <<>> THEN Gives(Truth(~ends))
    ELSE LET t == Means(Head(args), scope, d)
         IN  IF t.code # Ok THEN t
             ELSE IF (t.value # Nil) = ends THEN Gives(Truth(ends))
             ELSE MeansJunction(ends, Tail(args), scope, d)

Means(expr, scope, d) ==
    CASE expr.form = "name"     -> MeansName(expr.name, scope, d)
      [] expr.form = "atom"     -> Gives(expr.node)
      [] expr.form = "quoted"   -> Gives(expr.node)
      [] expr.form = "let"      -> MeansLet(expr.entries, expr.body, scope, d)
      [] expr.form = "call"     -> MeansCall(expr.name, expr.args, scope, d)
      [] expr.form = "operator" -> MeansOperator(expr.op, expr.args, scope, d)
      [] expr.form = "if"       ->
            MeansTest(expr.args[1], scope, d,
                      LAMBDA t : Means(expr.args[2], scope, d),
                      LAMBDA t : Means(expr.args[3], scope, d))
      [] expr.form = "assert"   -> MeansAssert(expr.args, scope, d)
      [] expr.form = "and"      -> MeansJunction(FALSE, expr.args, scope, d)
      [] expr.form = "or"       -> MeansJunction(TRUE, expr.args, scope, d)
      [] expr.form = "list"     ->
            LET all == MeansAll(expr.args, scope, d)
            IN  IF all.code # Ok THEN all ELSE Gives(ListOf(all.value))
      [] expr.form = "list*"    ->
            LET all == MeansAll(expr.args, scope, d)
            IN  IF all.code # Ok THEN all
                ELSE Gives(S!FoldRight(Cons, S!Front(all.value), S!Last(all.value)))

\* An artifact ends as its source does, with the same value or the same
\* error: names keep their scope through re-rooted lets, inline arguments
\* that are evaluated where they are used or not at all, parameter shapes,
\* shared constants and the function tree.  A run that exceeds its budget, as
\* that of a function calling itself for ever, is not judged.
CompiledMeans ==
    [][ stage = "running" /\ outcome' \notin {"running", "cost_exceeded"} =>
          (IF outcome' = "done" THEN Gives(values'[1]) ELSE Stops(outcome'))
             = Means(source.body, BoundTo(source.params, argument), defs @@ [left |-> Fuel]) ]_vars
=============================================================================
