-------------------------- MODULE MachineReference --------------------------
(***************************************************************************)
(* What evaluating a program means, without a task stack and without a     *)
(* budget: the sequence of amounts the evaluation adds to the cost, and    *)
(* the value or the error it ends in.  Run judges that meaning against a   *)
(* budget.  Machine.tla must agree with it.                                *)
(***************************************************************************)
EXTENDS Machine

CONSTANT Fuel   \* how many nested applications a meaning is followed into

Paid(amount) == [amount |-> amount, checked |-> TRUE]
Accrued(amount) == [amount |-> amount, checked |-> FALSE]

Means(events, node) == [events |-> events, code |-> Ok, value |-> node]
Fails(events, code) == [events |-> events, code |-> code, value |-> Nil]

\* The node a path index (at least 1) leads to: its low bits choose first.
RECURSIVE Walk(_, _)
Walk(node, index) ==
    IF index = 1 THEN node
    ELSE IF IsAtom(node) THEN PathIntoAtom
    ELSE Walk(IF index % 2 = 0 THEN First(node) ELSE Rest(node), index \div 2)

MeaningOfPath(path, e) ==
    LET index == Unsigned(path.bytes)
        found == IF index = 0 THEN Nil ELSE Walk(e, index)
    IN  IF found = PathIntoAtom THEN Fails(<<>>, "path_into_atom")
        ELSE Means(<<Paid(PathCost(path))>>, found)

\* The meaning of the arguments: those on the right first.  value is the
\* sequence of the argument values, in argument order.
RECURSIVE Meaning(_, _, _), MeaningOfArgs(_, _, _)
MeaningOfArgs(args, e, fuel) ==
    IF args = <<>> THEN [events |-> <<>>, code |-> Ok, value |-> <<>>]
    ELSE LET right == MeaningOfArgs(Tail(args), e, fuel)
             left == Meaning(Head(args), e, fuel)
         IN  IF right.code # Ok THEN right
             ELSE [events |-> right.events \o left.events,
                   code |-> left.code,
                   value |-> <<left.value>> \o right.value]

Applied(op, args, fuel) ==
    IF IsReserved(op) THEN Fails(<<>>, "reserved_operator")
    ELSE IF op = APPLY
    THEN IF Len(args) # 2 THEN Fails(<<>>, "wrong_arg_count")
         ELSE LET inner == Meaning(args[1], args[2], fuel - 1)
              IN  [inner EXCEPT !.events = <<Accrued(APPLY_COST)>> \o @]
    ELSE LET body == RunOperator(op, args)
         IN  [events |-> [i \in DOMAIN body.charges |-> Paid(body.charges[i])],
              code |-> body.code, value |-> body.value]

Meaning(node, e, fuel) ==
    IF fuel = 0 THEN Fails(<<>>, "out_of_fuel")
    ELSE IF IsAtom(node) THEN MeaningOfPath(node, e)
    ELSE LET op == First(node) IN
    IF IsPair(op) THEN Fails(<<>>, "operator_not_atom")
    ELSE IF op = QUOTE THEN Means(<<Paid(QUOTE_COST)>>, Rest(node))
    ELSE IF ~IsProperList(Rest(node)) THEN Fails(<<>>, "bad_arg_list")
    ELSE IF ~IsKnown(op) THEN Fails(<<>>, "unknown_operator")
    ELSE LET args == MeaningOfArgs(ListElems(Rest(node)), e, fuel)
             body == Applied(op, args.value, fuel)
             before == <<Paid(OP_DISPATCH_COST)>> \o args.events
         IN  IF args.code # Ok THEN Fails(before, args.code)
             ELSE [body EXCEPT !.events = before \o @]

\* The outcome under a budget: the first checked amount that takes the
\* total over it, and otherwise the meaning itself.
Judged(meaning, budget) ==
    LET n == Len(meaning.events)
        total == Totals(0, [i \in 1..n |-> meaning.events[i].amount])
        bursts == \E i \in 1..n : meaning.events[i].checked /\ total[i] > budget
    IN  IF bursts THEN [code |-> "cost_exceeded"]
        ELSE IF meaning.code # Ok THEN [code |-> meaning.code]
        ELSE [code |-> Ok, cost |-> total[n], value |-> meaning.value]

MachineResult ==
    IF outcome = "done" THEN [code |-> Ok, cost |-> cost, value |-> values[1]]
    ELSE [code |-> outcome]

\* run returns the cost and the value of the program's meaning, or the
\* error that meaning has under the budget: the right error, not only some
\* error, when several of them compete.
AgreesWithMeaning ==
    outcome # "running" =>
        MachineResult = Judged(Meaning(program, env, Fuel), max_cost)
=============================================================================
