--------------------------- MODULE SpendReference ---------------------------
(***************************************************************************)
(* A spend's verdict computed at once: the meaning of the program judged   *)
(* against the budget, the whole list looked at, the transaction with its  *)
(* conditions validated.  Spend.tla must implement AtomicSpend with this   *)
(* judgement.                                                              *)
(***************************************************************************)
EXTENDS Spend

CONSTANT Fuel   \* as in MachineReference

Meanings == INSTANCE MachineReference WITH
            program <- {}, env <- {}, max_cost <- 0, tasks <- <<>>,
            values <- <<>>, cost <- 0, outcome <- "running"

Rejected(code) == [code |-> code]
Unjudged == Rejected(Pending)

\* An input that may be spent: it is there, nobody has run its program yet,
\* and it commits to one.
Selectable(object, index) ==
    \E i \in 1..Len(object.inputs) :
        /\ i = index + 1
        /\ DOMAIN object.inputs[i] \cap EntryOptional \in
              {{"tapleaf", "merkle_root", "internal_key"} \cup other :
                 other \in SUBSET {"sequence", "script_sig"}}

\* Rejected for this error, if it is one, and judged by what follows if not.
Then(error, judgement) == IF error = Pending THEN judgement ELSE Rejected(error)

\* What the list in ran.value, reached at ran.cost, makes of the spend.
JudgedList(object, index, ran, b, list) ==
    Then(Unless("done", Parser!VerdictOn(ran.value, b, ran.cost)),
    Then(Unless(Valid, validate_transaction(
                          [LoadedTx(object) EXCEPT !.inputs[index + 1].conditions = list])),
         [code |-> Valid, conditions |-> list,
          cost |-> Total(ran.cost, [k \in 1..Len(list) |-> Parser!condition_cost(list[k])])]))

JudgedRun(object, index, ran, b) ==
    IF ran.code # Meanings!Ok THEN Rejected(ran.code)
    ELSE JudgedList(object, index, ran, b, ConditionsOf(ran.value))

\* The verdict of the request <<object, index, p, e>> under the budget b.
JudgedWith(object, index, p, e, b) ==
    Then(LoadError(object),
    Then(IF Selectable(object, index) THEN Pending ELSE ContextError,
         JudgedRun(object, index, Meanings!Judged(Meanings!Meaning(p, e, Fuel), b), b)))

Judgement(r) == JudgedWith(r[1], r[2], r[3], r[4], r[5])

\* What run_spend returns or raises.
Returned ==
    IF verdict = Valid THEN [code |-> Valid, cost |-> cost, conditions |-> parsed]
    ELSE Rejected(verdict)

Atomic == INSTANCE AtomicSpend WITH
            Requests <- Contexts \X Indexes \X Programs \X Envs \X Budgets,
            judgement <- Returned

\* run_spend implements the atomic spend: its stages, its shared budget and
\* the order of its error exits are invisible from outside.
IsAtomic == Atomic!Spec

\* secp_verify on its arguments, by discrete logarithms: truth is for a
\* signature made with the key's secret and nil for an empty one, and only
\* what is neither fails.
OnlySignersPass ==
    [][(tasks # <<>> /\ Head(tasks).kind = "APPLY_OP"
           /\ Head(tasks).op = VM!OpSecpVerify /\ Head(tasks).count = 3
           /\ tasks' = Tail(tasks)) =>
         LET sig == values[3].bytes
             signed == VM!IsSignature(values[1].bytes, values[2].bytes, sig)
         IN  /\ vm_outcome' = "running" =>
                   Head(values') = IF sig = <<>> THEN VM!Nil ELSE VM!TrueAtom
             /\ vm_outcome' = "running" /\ sig # <<>> => signed
             /\ vm_outcome' = "secp_verify_failed" =>
                   VM!SecpError(SubSeq(values, 1, 3)) # VM!Ok \/ ~signed]_vars

\* A larger budget agrees with every verdict but cost_exceeded: two parties
\* with different budgets never hold different opinions of one spend, only
\* one of them may have none.
BudgetOnlyCuts ==
    [][verdict' \notin {Pending, "cost_exceeded"} =>
          \A b \in {b \in Budgets : b >= max_cost} :
              Judgement([request EXCEPT ![5] = b]) = Returned']_vars
=============================================================================
