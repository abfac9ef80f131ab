------------------------------- MODULE Spend -------------------------------
(***************************************************************************)
(* One spend from a file to a verdict (bitlisp_tools/runner.py): the       *)
(* transaction context is loaded, an input is selected, its program runs,  *)
(* the result is parsed on the same budget, and the transaction with the   *)
(* parsed list installed is validated.  The evaluator and the parser are   *)
(* instances of their own modules and take their own steps here.           *)
(***************************************************************************)
EXTENDS Validation

CONSTANTS
    HASH_SIZE, OUTPOINT_SIZE, SIG_SIGNATURE_SIZE, MAX_SCRIPT_PUBKEY_SIZE,
    MAX_MESSAGE_SIZE, LOCKTIME_MAX, SEQUENCE_VALUE_MAX,
    NoBudget,                   \* carried lists parse with max_cost None
    Undeserializable,           \* a conditions field that is no node
    Nodes, Programs, Envs,      \* as in Machine
    MUL_OPERAND_MAX_BYTES, MUL_ACCUMULATOR_MAX_BYTES,
    DIV_NUMERATOR_MAX_BYTES, DIV_DIVISOR_MAX_BYTES,
    INDEX_MAX_BYTES, SHIFT_COUNT_MAX_MAGNITUDE,
    FIELD_PRIME, GROUP_ORDER, BASE_POINT, WORD_BYTES, DIGEST_VALUES,
    Budgets, Contexts, Indexes  \* what else a spend may be asked with

VARIABLES
    context, input_index,       \* the request: the tx object and the input,
    program, env, max_cost,     \*   the program, its solution, the budget
    stage,                      \* which stage comes next
    tx,                         \* the loaded transaction
    tasks, values, vm_cost, vm_outcome,                \* the evaluator
    rest, cost, parsed, parse_outcome,    \* the parser
    verdict                     \* "pending", "valid" or the error raised

request == <<context, input_index, program, env, max_cost>>
evaluator == <<tasks, values, vm_cost, vm_outcome>>
parser == <<rest, cost, parsed, parse_outcome>>
vars == <<request, stage, tx, evaluator, parser, verdict>>

VM == INSTANCE Machine WITH cost <- vm_cost, outcome <- vm_outcome
Parser == INSTANCE Conditions WITH
            node <- Head(values), start <- vm_cost, outcome <- parse_outcome,
            Lists <- Nodes, Spent <- Nat

\* What a list n parses into.
ConditionsOf(n) == [k \in 1..Len(Parser!ListElems(n)) |-> Parser!Parse(Parser!ListElems(n)[k])]

-----------------------------------------------------------------------------
(* load_context.  An error is the name of the exception it raises. *)

ContextError == "ContextError"
Pending == "pending"

EntryRequired == {"txid", "index", "script_pubkey", "amount"}
EntryOptional == {"sequence", "conditions", "script_sig", "tapleaf", "merkle_root", "internal_key"}
Get(entry, key, default) == IF key \in DOMAIN entry THEN entry[key] ELSE default

\* The outcome, unless it is this good one.
Unless(good, result) == IF result = good THEN Pending ELSE result

\* Carried lists parse unbudgeted; one that does not parse is an invalid
\* spend and one that is not a node is an unusable context.
EntryError(entry) ==
    IF ~(EntryRequired \subseteq DOMAIN entry /\ DOMAIN entry \subseteq EntryRequired \cup EntryOptional)
    THEN ContextError
    ELSE IF "conditions" \notin DOMAIN entry THEN Pending
    ELSE IF entry.conditions = Undeserializable THEN ContextError
    ELSE Unless("done", Parser!VerdictOn(entry.conditions, NoBudget, 0))

LoadedInput(entry) ==
    [key \in InputFields |->
        IF key = "conditions"
        THEN IF key \in DOMAIN entry THEN ConditionsOf(entry.conditions) ELSE NotBitLisp
        ELSE Get(entry, key, CASE key = "sequence"   -> UINT32_MAX
                               [] key = "script_sig" -> <<>>
                               [] OTHER              -> NotBitLisp)]

LoadedTx(object) ==
    [object EXCEPT !.inputs = [i \in 1..Len(object.inputs) |-> LoadedInput(object.inputs[i])]]

\* The first of these that is an error, if one is.
FirstError(errors) ==
    LET failed == {i \in DOMAIN errors : errors[i] # Pending}
    IN  IF failed = {} THEN Pending
        ELSE errors[CHOOSE i \in failed : \A j \in failed : i <= j]

\* Where the first check leaves no error, the second one decides.
Else(first, second) == IF first = Pending THEN second ELSE first

\* The inputs are read in order, then the outputs, then the constructors
\* check.
LoadError(object) ==
    IF DOMAIN object # {"version", "locktime", "inputs", "outputs"} THEN ContextError
    ELSE Else(FirstError([i \in 1..Len(object.inputs) |-> EntryError(object.inputs[i])]),
              IF IsTransaction(LoadedTx(object)) THEN Pending ELSE ContextError)

-----------------------------------------------------------------------------
(* run_spend, one action per stage. *)

Init ==
    /\ context \in Contexts
    /\ input_index \in Indexes
    /\ VM!Init
    /\ stage = "loading"
    /\ tx = <<>>
    /\ rest = VM!Nil /\ cost = 0 /\ parsed = <<>>
    /\ parse_outcome = "running"
    /\ verdict = Pending

\* The stage ends the spend with an error, or hands over to the next.
Conclude(error, next) ==
    /\ verdict' = error
    /\ stage' = IF error = Pending THEN next ELSE "finished"

LoadContext ==
    /\ stage = "loading"
    /\ Conclude(LoadError(context), "selecting")
    /\ tx' = IF verdict' = Pending THEN LoadedTx(context) ELSE tx
    /\ UNCHANGED <<request, evaluator, parser>>

Target == tx.inputs[input_index + 1]

\* The runner computes the target's conditions, so it must have none yet,
\* and it must carry the identity that conditions will require.
SelectInput ==
    /\ stage = "selecting"
    /\ Conclude(IF /\ input_index \in 0..(Len(tx.inputs) - 1)
                   /\ Target.conditions = NotBitLisp
                   /\ NotBitLisp \notin {Target.tapleaf, Target.merkle_root, Target.internal_key}
                THEN Pending ELSE ContextError,
                "running")
    /\ UNCHANGED <<request, tx, evaluator, parser>>

\* A turn of the evaluator's loop; the last one starts the parser on its
\* result and at its cost.
Evaluate ==
    /\ stage = "running"
    /\ VM!Next
    /\ IF vm_outcome' = "done"
       THEN /\ stage' = "parsing"
            /\ rest' = Head(values')
            /\ cost' = vm_cost'
            /\ UNCHANGED verdict
       ELSE /\ Conclude(IF vm_outcome' = "running" THEN Pending ELSE vm_outcome', "running")
            /\ UNCHANGED <<rest, cost>>
    /\ UNCHANGED <<context, input_index, tx, parsed, parse_outcome>>

\* A turn of the parser's loop.
ParseConditions ==
    /\ stage = "parsing"
    /\ UNCHANGED <<request, tx, evaluator>>
    /\ Parser!Next
    /\ IF parse_outcome' = "done" THEN stage' = "validating" /\ UNCHANGED verdict
       ELSE Conclude(IF parse_outcome' = "running" THEN Pending ELSE parse_outcome', "parsing")

\* Defect: the list is installed on the first input.
InstalledOnFirst(list) == [tx EXCEPT !.inputs[1].conditions = list]

Installed(list) == [tx EXCEPT !.inputs[input_index + 1].conditions = list]

Validate ==
    /\ stage = "validating"
    /\ verdict' = validate_transaction(Installed(parsed))
    /\ stage' = "finished"
    /\ UNCHANGED <<request, tx, evaluator, parser>>

Next == LoadContext \/ SelectInput \/ Evaluate \/ ParseConditions \/ Validate

Spec == Init /\ [][Next]_vars

=============================================================================
