------------------------------ MODULE Machine ------------------------------
(***************************************************************************)
(* The evaluator (bitlisp/machine.py, run): an explicit task stack, a      *)
(* value stack and a budget.  One action executes one task, as one turn of *)
(* the loop does.                                                          *)
(*                                                                         *)
(* Both stacks are sequences with the top first.  Arguments evaluate right *)
(* to left, so when an application's turn comes its arguments are the top  *)
(* Len(args) values, already in argument order.                            *)
(***************************************************************************)
EXTENDS Operators

CONSTANTS
    Nodes,                          \* trees, with every part of each
    Programs, Envs, Budgets         \* what run may be called with

ASSUME ArgumentsAreNodes == NodeSet(Nodes) /\ Programs \cup Envs \subseteq Nodes
ASSUME BudgetsAreNat == Budgets \subseteq Nat

VARIABLES
    program, env, max_cost,         \* the arguments of run
    tasks, values, cost,            \* its locals
    outcome                         \* "running", "done" or an error code

vars == <<program, env, max_cost, tasks, values, cost, outcome>>
arguments == <<program, env, max_cost>>

QUOTE == Atom(<<1>>)
APPLY == Atom(<<2>>)

Eval(node, e) == [kind |-> "EVAL", node |-> node, env |-> e]
ApplyOpTask(op, n) == [kind |-> "APPLY_OP", op |-> op, count |-> n]
ApplyProgramTask(n) == [kind |-> "APPLY_PROGRAM", count |-> n]

\* The reserved families: nil, and two or more bytes starting ff ff.
IsReserved(op) ==
    \/ op = Nil
    \/ Len(op.bytes) >= 2 /\ op.bytes[1] = 255 /\ op.bytes[2] = 255

IsKnown(op) == op = APPLY \/ op \in OPERATORS \/ IsReserved(op)

-----------------------------------------------------------------------------
(***************************************************************************)
(* Path lookup.  The bits of the path below its leading one, low bit       *)
(* first, choose first (0) or rest (1).  PathIntoAtom stands for the raise *)
(* and is not a node.                                                      *)
(***************************************************************************)

PathIntoAtom == [type |-> "path_into_atom"]

LeadingZeroBytes(path) ==
    Cardinality({i \in 1..Len(path.bytes) : \A j \in 1..i : path.bytes[j] = 0})

PathCost(path) ==
    LET legs == BitLength(Unsigned(path.bytes))
    IN  PATH_LOOKUP_BASE_COST
          + PATH_LOOKUP_COST_PER_LEG * (IF legs = 0 THEN 1 ELSE legs)
          + PATH_LOOKUP_COST_PER_ZERO_BYTE * LeadingZeroBytes(path)

Leg(node, index, bit) ==
    IF node = PathIntoAtom \/ IsAtom(node) THEN PathIntoAtom
    ELSE IF (index \div 2^bit) % 2 = 0 THEN First(node) ELSE Rest(node)

Lookup(path, e) ==
    LET index == Unsigned(path.bytes)
        legs == BitLength(index)
        walk[i \in 0..legs] == IF i = 0 THEN e ELSE Leg(walk[i-1], index, i - 1)
    IN  IF legs = 0 THEN Nil ELSE walk[legs - 1]

-----------------------------------------------------------------------------
(* The budget. *)

\* charge(amount) succeeds: the budget is inclusive.
Affords(spent) == spent <= max_cost

Raise(code) ==
    /\ outcome' = code
    /\ tasks' = Tail(tasks)
    /\ UNCHANGED <<cost, values>>

\* Defect: the check precedes the addition.
ChargeThenUnchecked(amount, newTasks, newValues) ==
    /\ cost' = cost + amount
    /\ IF Affords(cost)
       THEN outcome' = outcome /\ tasks' = newTasks /\ values' = newValues
       ELSE outcome' = "cost_exceeded" /\ tasks' = Tail(tasks) /\ UNCHANGED values

\* Defect: the charge replaces the total.
ChargeThenForgetting(amount, newTasks, newValues) ==
    /\ cost' = amount
    /\ IF Affords(amount)
       THEN outcome' = outcome /\ tasks' = newTasks /\ values' = newValues
       ELSE outcome' = "cost_exceeded" /\ tasks' = Tail(tasks) /\ UNCHANGED values

\* charge(amount): it adds the amount and raises when the total is over.
ChargeThen(amount, newTasks, newValues) ==
    /\ cost' = cost + amount
    /\ IF Affords(cost + amount)
       THEN outcome' = outcome /\ tasks' = newTasks /\ values' = newValues
       ELSE outcome' = "cost_exceeded" /\ tasks' = Tail(tasks) /\ UNCHANGED values

-----------------------------------------------------------------------------
(* The actions. *)

Init ==
    /\ program \in Programs
    /\ env \in Envs
    /\ max_cost \in Budgets
    /\ tasks = <<Eval(program, env)>>
    /\ values = <<>>
    /\ cost = 0
    /\ outcome = "running"

Pending(kind) ==
    /\ outcome = "running"
    /\ tasks # <<>>
    /\ Head(tasks).kind = kind
    /\ UNCHANGED arguments

\* An atom is a path into the environment.  The walk precedes the charge.
EvalPath ==
    /\ Pending("EVAL")
    /\ IsAtom(Head(tasks).node)
    /\ LET path == Head(tasks).node
           found == Lookup(path, Head(tasks).env)
       IN  IF found = PathIntoAtom THEN Raise("path_into_atom")
           ELSE ChargeThen(PathCost(path), Tail(tasks), <<found>> \o values)

PairInOperatorPosition ==
    /\ Pending("EVAL")
    /\ IsPair(Head(tasks).node)
    /\ IsPair(First(Head(tasks).node))
    /\ Raise("operator_not_atom")

EvalQuote ==
    /\ Pending("EVAL")
    /\ IsPair(Head(tasks).node)
    /\ First(Head(tasks).node) = QUOTE
    /\ ChargeThen(QUOTE_COST, Tail(tasks), <<Rest(Head(tasks).node)>> \o values)

ApplicationTask(op, n) == IF op = APPLY THEN ApplyProgramTask(n) ELSE ApplyOpTask(op, n)

\* Defect: the leftmost argument is on top and evaluates first.
PushedLeftFirst(op, args, e) ==
    [i \in 1..Len(args) |-> Eval(args[i], e)] \o <<ApplicationTask(op, Len(args))>>

\* The tasks an application pushes: the rightmost argument on top.
Pushed(op, args, e) ==
    [i \in 1..Len(args) |-> Eval(args[Len(args) + 1 - i], e)]
      \o <<ApplicationTask(op, Len(args))>>

\* The argument list is walked before any charge, then an unknown operator
\* is rejected uncharged, then the dispatch cost is charged.
EvalApplication ==
    /\ Pending("EVAL")
    /\ IsPair(Head(tasks).node)
    /\ LET node == Head(tasks).node
           op == First(node)
           args == Rest(node)
       IN  /\ IsAtom(op)
           /\ op # QUOTE
           /\ IF ~IsProperList(args) THEN Raise("bad_arg_list")
              ELSE IF ~IsKnown(op) THEN Raise("unknown_operator")
              ELSE ChargeThen(OP_DISPATCH_COST,
                              Pushed(op, ListElems(args), Head(tasks).env) \o Tail(tasks),
                              values)

\* An operator's first burst charge, or its own error, or its result.
Conclude(body, rest) ==
    LET spent == Totals(cost, body.charges)
        n == Len(body.charges)
        burst == {i \in 1..n : ~Affords(spent[i])}
    IN  IF burst # {}
        THEN /\ outcome' = "cost_exceeded"
             /\ cost' = spent[CHOOSE i \in burst : \A j \in burst : i <= j]
             /\ values' = rest
        ELSE /\ cost' = spent[n]
             /\ IF body.code = Ok
                THEN outcome' = outcome /\ values' = <<body.value>> \o rest
                ELSE outcome' = body.code /\ values' = rest

ApplyOp ==
    /\ Pending("APPLY_OP")
    /\ tasks' = Tail(tasks)
    /\ LET op == Head(tasks).op
           n == Head(tasks).count
           args == SubSeq(values, 1, n)
           rest == SubSeq(values, n + 1, Len(values))
       IN  IF IsReserved(op)
           THEN outcome' = "reserved_operator" /\ values' = rest /\ UNCHANGED cost
           ELSE Conclude(RunOperator(op, args), rest)

\* Defect: the environment argument stays on the value stack.
ApplyProgramLeavingEnv ==
    /\ Pending("APPLY_PROGRAM")
    /\ LET n == Head(tasks).count
       IN  IF n # 2
           THEN /\ outcome' = "wrong_arg_count"
                /\ tasks' = Tail(tasks)
                /\ values' = SubSeq(values, n + 1, Len(values))
                /\ UNCHANGED cost
           ELSE /\ cost' = cost + APPLY_COST
                /\ tasks' = <<Eval(values[1], values[2])>> \o Tail(tasks)
                /\ values' = Tail(values)
                /\ UNCHANGED outcome

\* The program is the first argument, so it lies on top.  Its cost is
\* accrued: the check is left to the applied program's first charge.
ApplyProgram ==
    /\ Pending("APPLY_PROGRAM")
    /\ LET n == Head(tasks).count
       IN  IF n # 2
           THEN /\ outcome' = "wrong_arg_count"
                /\ tasks' = Tail(tasks)
                /\ values' = SubSeq(values, n + 1, Len(values))
                /\ UNCHANGED cost
           ELSE /\ cost' = cost + APPLY_COST
                /\ tasks' = <<Eval(values[1], values[2])>> \o Tail(tasks)
                /\ values' = SubSeq(values, 3, Len(values))
                /\ UNCHANGED outcome

\* The end of the loop and its backstop.
Finish ==
    /\ outcome = "running"
    /\ tasks = <<>>
    /\ outcome' = IF Affords(cost) THEN "done" ELSE "cost_exceeded"
    /\ UNCHANGED <<program, env, max_cost, tasks, values, cost>>

\* One turn of the loop.
ExecuteTask ==
    \/ EvalPath
    \/ PairInOperatorPosition
    \/ EvalQuote
    \/ EvalApplication
    \/ ApplyOp
    \/ ApplyProgram

Next == ExecuteTask \/ Finish

Spec == Init /\ [][Next]_vars

-----------------------------------------------------------------------------
(* Correctness. *)

ErrorCodes == {"cost_exceeded", "path_into_atom", "operator_not_atom",
               "bad_arg_list", "unknown_operator", "reserved_operator",
               "wrong_arg_count", "arg_not_atom", "arg_not_pair", "user_raise",
               "arg_too_long", "div_by_zero", "bad_index", "shift_too_large",
               "index_out_of_range", "secp_verify_failed"}

\* The stacks are sequences of tasks and of nodes, the cost is a natural
\* number and the outcome is one that run has.
TypeOK ==
    /\ cost \in Nat
    /\ outcome \in {"running", "done"} \cup ErrorCodes
    /\ \A i \in 1..Len(tasks) :
          \/ tasks[i].kind = "EVAL"
          \/ tasks[i].kind \in {"APPLY_OP", "APPLY_PROGRAM"} /\ tasks[i].count \in Nat

\* The cost is over the budget only by what apply accrued, and only while
\* the applied program, which is on top and will charge, has not started:
\* accrue's promise that "the check rides on the next charge".
BudgetInv ==
    outcome = "running" =>
        \/ cost <= max_cost
        \/ /\ cost <= max_cost + APPLY_COST
           /\ tasks # <<>>
           /\ Head(tasks).kind = "EVAL"

\* The check after the loop "cannot fire": every run that empties the task
\* stack is within its budget.
BackstopUnreachable == outcome = "running" /\ tasks = <<>> => cost <= max_cost

\* How many values a task consumes, and by how much it changes the height
\* of the value stack once everything it pushes has run.
Consumes(task) == IF task.kind = "EVAL" THEN 0 ELSE task.count
Effect(task) == 1 - Consumes(task)

\* The height of the value stack when i of the pending tasks have run.
Height == Totals(Len(values), [i \in 1..Len(tasks) |-> Effect(tasks[i])])

\* No pending task will find fewer values than it consumes, and exactly
\* one value is left at the end: the slices of the value stack never
\* underflow and values[0] is the result.
StackDiscipline ==
    outcome = "running" =>
        /\ \A i \in 1..Len(tasks) : Height[i-1] >= Consumes(tasks[i])
        /\ Height[Len(tasks)] = 1

\* Every task that does not end the run raises the cost, so a budget bounds
\* the number of tasks whatever the program.
EveryTaskPays ==
    [][outcome' = "running" => cost' > cost]_vars
=============================================================================
