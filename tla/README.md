# BitLisp in TLA+

BitLisp is a small Lisp whose programs govern bitcoin outputs. Spending a coin
runs its program; what the program returns is a list of *conditions*; the
transaction is valid when every condition of every input holds. This directory
models the reference implementation (`python/bitlisp`), its tools
(`python/bitlisp_tools`), the vault and the singleton puzzle (`puzzles`) and the
mutation harness (`tools/mutate.py`), checks the models with TLC and proves with
TLAPS the central properties of the evaluator and the debugger, of the condition
parser, of the validation of assembled transactions, of the shell's namespace, of the
puzzles and of the harness.

Paths in this file are relative to `src/`.

## The system

| component | state | operations | talks to |
|---|---|---|---|
| values (`bitlisp/sexp.py`) | none: a node is `bytes` or a pair | `atom_to_int`, `int_to_atom`, `iter_proper_list` | everyone |
| costs (`bitlisp/costs.py`) | the table | - | operators, evaluator, parser |
| operators (`bitlisp/operators.py`) | none | one function per opcode, `(args, charge) -> node` | evaluator, through the `charge` callback |
| evaluator (`bitlisp/machine.py`) | task stack, value stack, cost, budget | `run`: one loop turn per task | operators |
| condition parser (`bitlisp/conditions.py`) | meter (cost so far, budget), conditions so far | `parse_conditions` | evaluator's result and its cost |
| transactions (`bitlisp/tx.py`) | immutable records | constructors with checks, `txid`, `outputs_hash` | validation |
| validation (`bitlisp/validation.py`) | none | seven `check_*` rules in a fixed order | transactions with conditions installed |
| spend pipeline (`bitlisp_tools/runner.py`) | one budget | `run_spend`: evaluate, parse, install, validate | all of the above |
| debugger (`bitlisp_tools/stepper.py`) | the evaluator's stacks as an object | `step`, `step_over`, `run`, interrupts | operators, shell |
| shell (`bitlisp_tools/repl.py`) | definitions, bindings, transaction context, selected input, budget, debug session | about 25 commands | compiler, runner, debugger |
| compiler (`bitlisp_tools/compiler.py`) | definitions, loaded includes | `compile_program`, include splicing | shell |
| codec, reader, printer, currying (`bitlisp/serialize.py`, `bitlisp_tools/{reader,printer,curry}.py`) | none | inverse pairs of conversions | the one-shot commands, each reading what another printed |
| curve (`bitlisp/secp256k1.py`) | none | BIP 340 verification, BIP 341 output keys | operators, parser, validation |
| puzzles (`puzzles/`) | coins on chain | vault: trigger, withdraw, recover, consolidate; singleton: spend, end | validation, over several transactions |
| mutation harness (`tools/mutate.py`, `tools/run_vectors.py`) | a file tree per worker, a work queue, results in order | baseline, install, judge, restore, collect | process pool, subprocesses with a timeout |

The implementation is sequential, the harness apart. What makes it hard:

- **a budget shared by stages that each charge it**, with some costs tested
  when they are added and some only later;
- **two explicit stacks** in place of recursion, which must stay aligned
  through every error exit and every self-application;
- **interrupts** that arrive between any two statements of the debugger or of
  the shell;
- **transactions as the meeting point of parties who do not know each other**:
  anyone may merge, extend and reorder spends, and the conditions of one must
  keep their meaning next to the conditions of another;
- **coins that live over several transactions** (the puzzles), which a stranger
  may pay to and whose outputs a stranger places;
- **one accepted spelling** of every program, through conversions each of which
  has several ways to write the same thing;
- **workers that hang, die or leave a half-written file** (the harness).

`PROJECT.json` lists the hazards one by one, at their lines.

## What makes each component correct

- *Evaluator*: every program ends; it never spends more than its budget; its
  stacks never underflow and leave one result; its result, its cost and its
  error are those of the recursive meaning of the language.
- *Debugger*: it is the evaluator, however it is driven; a machine that an
  interrupt broke can be told from one that works.
- *Parser*: the total is what evaluation spent plus the sum of the conditions;
  the first fault in list order decides the error; one encoding per condition; an
  output key is the internal key moved by its tweak, or there is none.
- *Validation*: the verdict is the declarative conjunction of the rules; it
  does not depend on order; adding a condition never makes an invalid
  transaction valid; two valid transactions can be merged when their authors
  stay within the documented discipline; a seal stops exactly the rest.
- *Pipeline*: one budget over both stages; a larger budget changes no verdict but
  `cost_exceeded`; conditions are installed only from a complete parse; a spend
  that asserts a signature passes only with one by that key for this very coin.
- *Include splicing*: a file is loaded once per scope and after what it includes;
  a cycle is told from a diamond; the result is the text read in place.
- *Compiler*: an artifact ends as its source means, whichever way its parameters,
  bindings and calls were lowered.
- *Shell*: a name keeps one meaning; a command applies all of itself or nothing;
  what is recorded as loaded is declared.
- *Vault*: whoever assembles the transaction, value leaves the vaults only to
  the recovery script or, after the delay, to a target the key signed; every coin
  that a path makes can be recovered.
- *Singleton*: a lineage never forks, is never forged by a payment to its address,
  and passes from an owner to the state the owner signed and no other.
- *Conversions*: the reader reads the grammar; a node has one spelling in bytes;
  whatever is converted stays the same program; uncurrying undoes currying.
- *Harness*: a mutant is judged by what it does alone; exit status 0 means that none
  survived; it ends.

## Modules

| module | models | notes |
|---|---|---|
| `Sexp` | sexp.py | nodes as records; the integer codec as two operators that do what the bytes do (minimal two's complement) |
| `Costs` | costs.py | the whole table, at its values |
| `Curve` | secp256k1.py | affine arithmetic over a field given by constants, output keys, verification |
| `Operators` | operators.py | the table of 29 opcodes; each gives its value or error *and* what it charged before |
| `Machine` | machine.py `run` | one action per branch of the loop; `Next` is one turn |
| `MachineReference` | the language's meaning | a recursive evaluator with a fuel bound, which `Machine` must agree with |
| `Stepper` | stepper.py | extends `Machine`: its tasks, with commands and interrupts around them; `MCStepper` adds the reference that `ReproducesRun` compares with |
| `ConditionTable` | opcodes and operand tables of conditions.py | shared by the parser and by validation |
| `Conditions` | conditions.py `parse_conditions` | one action parses one condition; `ParseTaproot` is apart because it calls the curve |
| `Validation` | tx.py, validation.py | record sets and the constructors' checks; one operator per rule, and `Verdicts` for their order |
| `Assembly` | recombination of spends | the edits of the repository's invariant tests, in any sequence; each rule once more as a quantified formula, with which `AgreesWithRules` compares |
| `Spend` | runner.py `load_context`, `run_spend` | composes `Machine` and `Conditions`, which take their own steps, with `Validation` |
| `AtomicSpend`, `SpendReference` | what a spend promises | one judgement made at once; `Spend` refines it |
| `Definitions` | compiler.py `Definitions` | the namespace, its claims and what a declaration checks |
| `Includes` | compiler.py `_spliced` | one action per kind of entry taken off the stack; `Reading` in `MCIncludes` is the text read in place, by recursion |
| `Compiler` | compiler.py, declarations and code generation | `Machine` runs the constants and the artifact; `CompiledMeans` compares with an interpreter that knows names and values, and no paths or environments |
| `Shell` | repl.py | a session; include lines take `Includes`' steps |
| `AtomicNamespace` | what a session's namespace promises | one atomic change per command; `Shell` refines it |
| `Wire` | serialize.py | both directions, the reader with its two stacks |
| `Text` | reader.py, printer.py, keywords.py | tokens to nodes and back, the parser with its stack of open lists |
| `Commands` | curry.py, cli.py: asm, disasm, curry, uncurry | `curry` and `uncurry`; a pipeline: each command reads what the one before it printed; `ReaderAgrees` compares with the grammar of s-expressions, by recursion on where parentheses balance |
| `Chain` | coins, keys, whoever assembles a transaction | what both puzzles share: `Sign`, `Mine`, `Join`, `Confirm`; `Validation` accepts or not |
| `Vault` | vault.bl, triggered.bl, vault-shared.blib | one operator per path of the two programs |
| `Singleton` | singleton.bl, owner-inner.bl, tx-wire.blib | the proof of descent, `morph`, the owner's program |
| `Puzzles` | both on one chain | the next-state relation |
| `Harness` | mutate.py, run_vectors.py's loops | the main process and its workers, one action per statement that another process can see |
| `MC*` | - | instances for TLC |
| `CostsProof`, `OperatorsProof`, `MachineProof` | - | proofs: sums and recursive functions, the operator table, the evaluator and the debugger |
| `ConditionsProof`, `AssemblyProof`, `ShellProof`, `PuzzlesProof`, `HarnessProof` | - | proofs about the module of the name |

How they are composed:

    Sexp, Costs, Curve -> Operators -> Machine -> Spend, Compiler (INSTANCE, with its steps)
                                       Machine -> Stepper (EXTENDS), MachineReference
    ConditionTable, Curve -> Conditions -> Spend (INSTANCE, with its steps)
    Validation -------------------------> Assembly, Spend (EXTENDS)
    Validation -> Chain -> Vault, Singleton -> Puzzles (EXTENDS)
    Definitions ------------------------> Compiler, Shell (EXTENDS)
    Includes ---------------------------> Shell (INSTANCE, with its steps)
    Wire, Text -------------------------> Commands (EXTENDS)

Two abstract specifications are machines, `AtomicSpend` and `AtomicNamespace`; they are
instantiated with a refinement mapping (`SpendReference!Atomic`, `Shell!Atomic`)
and checked as a PROPERTY. The other references are functions, written apart from the
code's algorithms and compared with them by an invariant: `MachineReference`,
`Reading` in `MCIncludes`, and the last part of `Assembly`, `Compiler` and `Commands`.

### How state and actions correspond to the code

`Machine`: `tasks` and `values` are the two Python lists with their top first,
`cost` is the closure variable, `outcome` is `"running"` inside the loop, `"done"`
after the return and an error code after a raise. `EvalPath`,
`PairInOperatorPosition`, `EvalQuote`, `EvalApplication`, `ApplyOp`,
`ApplyProgram` are the branches of lines 49-110, `Finish` is the backstop and the
return. `ChargeThen` is `charge` (add, test, raise); an accrued cost is a bare
addition.

`Operators`: an operator's result carries the charge made before it ended, so
that the order of checks and charges is kept: `/` on an over-long numerator
charges nothing, on a zero divisor everything; `+` tests its base cost with its
first argument and `-` does not. The limits on operand sizes and on shift counts
(256, 2048 or 4 bytes in the code) are constants. `sha256tree` follows the code's walk
turn by turn, since every node is charged when it is reached; `WALK_MAX` bounds the
turns and exceeds those of every node of the runs. The bitwise folds take `MaxBits`
bits and a sign, more than the runs' integers have.

`Curve`: a point is a pair or `None`. `lift_x`, `point_add`, `point_mul`,
`taproot_output_key` and `verify` are the code's functions with `FIELD_PRIME`,
`GROUP_ORDER` and `BASE_POINT` for its three constants; a digest is a checksum of all
bytes, reduced to `DIGEST_VALUES`, so that a tweak or a challenge above the order
occurs. TLC takes p = 43, whose curve y^2 = x^3 + 7 has the prime order 31: every key,
every scalar and all of the special cases of addition are met.

`Stepper`: `command` is the method on the call stack, `target` is
`step_over`'s local, `finishing` is the gap inside `step` between executing the
last task and storing the result, where an interrupt can still land. `entry` is
history: the stacks when the command began, which `step_over` is judged by.
`InterruptTask` pops a task and loses its effect, as the code's `finally` does,
and poisons the machine; `InterruptBetween` only ends the command.

`Conditions`: `rest` is the unread list, `parsed` what has been appended, `cost`
the meter, `outcome` the verdict. Operand widths and ranges are constants: TLC
uses small ones that keep their order (a hash is shorter than an outpoint, and
so on).

`Validation`: a check is an operator from a transaction to the set of codes it
may raise (empty when it passes); `Verdicts` is the code of the first check with
any. A check's set has one element except where the code's own order inside a rule
picks one, which the operator does too (`FirstOf`). Hashes and signatures are
model values in `Assembly` and in the puzzles: a `txid` is the record it hashes, a
signature is the key with the digest it signs. `Spend` verifies signatures with `Curve`. This keeps what the rules rely on, that different data hash differently.

`Assembly`: `tx` is the transaction being assembled; every edit passes through
the constructor's checks (`Edit`), as any Python object would. `IsParsedTx` says of the
offers what `run_spend` sees to: the conditions of an input have been parsed, or the input
is marked `NotBitLisp`.

`Spend`: `stage` is the statement `run_spend` has reached (load, select, evaluate,
parse, validate), `verdict` is `"pending"`, `"valid"` or the error raised.
`Evaluate` and `ParseConditions` are the steps of the two instances, the second
started from the first's result *and its cost*, which is how the code shares
the budget. A context is a record with the JSON object's keys; a missing,
ill-typed or unknown key is a different record.

`Includes`: `stack`, `chain`, `loaded` and `result` are the function's locals. A
file is its stat identity, since `_spliced` compares those; several spellings may
resolve to one. The code appends an end marker below a file's items, and the action
that meets it pops the chain.

`Compiler`: `rest` are the declarations to come, `defs` and `order` the
namespace, `machine` the evaluator's state, used first by every constant and then
by the artifact. Code generation is an operator, `Emit`, because nothing can
come between its steps; `Rerooted`, `ReboundBare` and `Rebound` are its way to move
a binding under a new environment, and `AssertionError` is what the code's
`assert` in that place would raise.

`Shell`: `running` is the command on the call stack, or `"prompt"`. A command with
more than one assignment that another command could observe takes a step for each,
and `InterruptCommand` may come between any two of them; `snapshot` and `queue`
are locals of the include line. `dropped` and `torn` are history variables, read
only by properties: a name that `undef` removed, an include line cut short.

`Chain`: `coins` and `height` are the chain, `signed` what the keys have signed,
`pending` the inputs an assembler has joined. `Join` adds a spend of any coin,
`Confirm` puts the joined transaction in a block when `Verdicts` is empty, with
outputs of the assembler's choice, `Mine` passes a block without one. `StandsAlone`
leaves out, before the join, spends that fail by themselves whatever joins them.
Consensus and the wallets are external: a relative lock is counted from the coin's
block, a vault's key signs a target once, a singleton's owner signs once for a coin.

`Vault`: `Run` is the two programs' dispatch, one operator per path; `SignTrigger` and
`SignRecovery` are the key holders, `SpendVault` runs any program with any solution
against any coin.

`Singleton`: `IsDescent` is what the wrapper checks of a solution before it runs the
inner program, `morph` what it makes of the conditions, `Proofs` the descents that
hold for a coin. An assembler may show the creating transaction of any coin at the
script, claim any index and any inner program. A transaction's field list is the
tuple that its txid is, so only the real one hashes to a txid. `owner_inner` seals the
outputs; `PublicLists` are what a program without a key yields. `Governing` is derived
from the program: the states under which a coin can move.

`Wire` and `Text`: the readers' loops are folds over a record of the code's locals
(`tasks` and `values`, or `results` and `stack`). `Turn` and `ReadToken` are one turn of
the loop. A token is its kind and what it carries.

`Commands`: `held` is what the pipe holds, `curried` remembers the curries not undone
(history). A command that fails prints nothing and exits with 2.

`Harness`: a source is an original module, a mutant, or what a failed write left; what
it makes of each vector case and of the suite is chosen in `Init` (`effect`). `mine` is
`_MIRROR` of each process, `mirror` the module files under each root. `Baseline`,
`StartPool`, `Collect` and `Report` are `main`; `TakeChunk`, `Install`, `RunCorpus`,
`RunSuite`, `Restore` are a worker's statements. `InstallFails` and `RestoreFails` leave
a damaged file, as a write that fails half way does, `Die` kills a worker, on which
the pool breaks. An oracle may overrun its time whatever the mutant does.

## Runs

Each `.cfg` is one question. Deadlock checking is off where the system stops by
design: the evaluator, the debugger, the parser, a spend, a splice, a compilation and
a harness end, an assembly, a chain and a pipeline reach their bound. A shell's
session never ends, and its run checks that.

| run | question | distinct states | bounds, and why they are enough |
|---|---|---|---|
| `machine` | are the stacks, the budget and the result right? | 671,514 | every operator on every pair of leaves, the bitwise folds, `concat`, `sha256`, `substr`, `divmod` and `secp_verify` on operands at and across their bounds, nested applications whose parts fail before and after they charge, malformed nodes of each kind, self-application; budgets on, just below and just above the cost of each kind of task, so that each charge is the failing one in some behaviour. Size limits of one or two bytes, which the leaves exceed. `Fuel` bounds only the reference. |
| `stepper` | does the debugger do what `run` does, and return? | 23,572 | programs with an application, an operator, a path, an error of each stack shape, one that applies itself for ever; all mixes of commands; interrupts anywhere |
| `conditions` | is the pass over the list right? | 144,031 | lists of up to three elements with every opcode, each operand kind at, below and above its bounds, improper tails, internal keys that lift and that do not, tweaks in and out of range, and budgets on and beside the boundary of every cost |
| `assembly` | do the rules mean what they say, and do they compose? | 70,953 | offers that exercise every rule on both sides, two edits in any order (`MaxEdits = 2`): a merge followed by a reorder, a seal followed by a merge, a duplicate followed by a merge. Numeric fields are 3 or 4 bits wide with the same flags as the code's 32. |
| `spend` | is a spend one judgement, and signed by its key? | 96,164 | contexts with each kind of defect, programs that fail in each stage, signatures that are valid, of another coin, of another message and with the opposite nonce, budgets at the boundaries of both stages |
| `includes` | is splicing reading in place? | 63,108 | every file system of three files that each take one of thirteen texts: unreadable, no include, any one include before, between or after declarations, or two. Cycles of one, two and three files, diamonds, the same file twice; a file with two spellings and a missing one; scopes with and without a file already loaded |
| `compiler` | does the artifact mean the source? | 174,489 | one or two functions, an inline of each parameter shape, a constant that may fail, lets in lets, inlines of inlines, recursion, every form with operands that fail in either place; arguments that fit the parameters and that do not; inline limits of 3 levels and 40 nodes, which some sources reach |
| `shell` | does a session stay coherent? | 1,084,846 | two users: one interrupts between any two statements and includes a file nested too deeply; one never does, reloads transactions of one and two inputs and includes more files, one that includes itself among them. Three names claimed by lines, bindings and files that share a base or collide |
| `shell_deep` | is a failed include line undone? | (violation) | see Findings |
| `puzzles` | does value stay in the vaults, is every coin recoverable, does a lineage keep its one life? | 161,356 | three fundings, three blocks (trigger, wait, withdraw; launch, move, move again), transactions of up to three inputs, two signatures. Two vaults, without and with a recovery key, of up to three coins and one to pay fees, delay 2: withdrawals, consolidations of three coins, joint triggers and keyed recoveries are reached. A launcher and a stranger's coin: `MCPayments` add to a transaction honest and double launches, forged states, payments to the lineage's script and a deposit to a vault; an owner may hand over, open to the public or end. |
| `harness` | is every mutant judged alone, and is the exit status true? | 514,716 | three mutants of two modules in two chunks (two in one, so that what one leaves is there for the next), two workers, two vector files and the suite; mutants that survive, fail, escape and hang, baselines that fail in either oracle, failed writes and killed workers anywhere |
| `commands` | do the conversions keep the program? | 31,117 | every sequence of up to five tokens of six kinds, every literal kind at its edge; every line of up to four bytes from the boundaries of the prefixes, and atoms of 63 to 8192 bytes beside each form's floor; programs that are, resemble and contain curries; three commands in a row. The decimal windows are two bytes and one, where the code has eight and two. |

Bounds by name: `MaxEdits`, a user's `tasks` (of a debug session), `MaxHeight`,
`MaxInputs`, `MaxSigned`, `MaxDelay`, `MaxIndex` (of an output shown or claimed),
`MaxCommands`, `WALK_MAX`, `MaxBits`, `Fuel` and `Length` (of the reference evaluator
and of the programs it is asked about) and the sets `Programs`, `Envs`, `Budgets`,
`Lists`, `Offers`, `Sources`, `Contexts`, `Users`, `Instances`, `Orders`, `Handovers`,
`Payments`, `Texts`, `Lines`, `Effects` and the like, defined in the `MC*` modules with
comments on what each member is there for.

Two restrictions of `Puzzles` keep it small and lose no behaviour that its properties
could see: beside vault coins an ordinary coin only brings a fee and no further
outputs are added, since paying more out of a fee does not touch a vault; and outputs
are tried only for inputs whose messages balance, since messages read no output.

Fairness. `Stepper` assumes weak fairness of `Execute` and `FinishStep`, which carry out
a command already begun; `Includes` of its `Next`; `Harness` of the main process's
and of each worker's own steps. Each says that Python goes on executing what it has
begun, and for the harness also that a subprocess ends by itself or by its timeout;
which command comes next, whether an interrupt comes, whether a write fails or a
worker is killed is left open. `CommandsReturn` is then a consequence of
`EveryTaskPays` (also for a program that applies itself for ever), `Ends` of the
finiteness of the file system and of `loaded`, `EveryRunEnds` of the timeout and of the
pool reporting a broken worker. Nothing else assumes progress: a debugger may be left
idle for ever, an assembler and a key holder may stop.

Every property of a passing run has a mutant in `PROJECT.json`: a defect written
beside the definition it replaces, under which TLC finds the property violated.

## Proofs

Each theorem holds for every value of the constants that the assumptions of its module
allow. TLC evaluates those assumptions in the runs, and checked each inductive invariant
on an instance before it was proved.

| theorem | statement |
|---|---|
| `TypeCorrect` (`MachineProof`) | `Spec => []TypeOK` |
| `BudgetSafe` | `Spec => []BudgetInv` |
| `BackstopCannotFire` | `Spec => []BackstopUnreachable` |
| `StacksAreDisciplined` | `Spec => []StackDiscipline` |
| `TasksPay` | `Spec => EveryTaskPays` |
| `LiveMachinesAreSound` | `DebugSpec => []LiveIsSound` |
| `StepOverIsExact` | `DebugSpec => StepOverCompletesSubtree` |
| `OperatorsRun` (`OperatorsProof`) | every opcode, on any arguments, charges natural numbers, the first positive, and gives a node or a pinned error |
| `TotalIsTheSum` (`ConditionsProof`) | `Spec => []CostIsSum` |
| `ConditionsHaveOneEncoding` | `Spec => []EncodingIsCanonical` |
| `FirstFaultIsTheVerdict` | `Spec => []FirstFaultDecides` |
| `EveryStateIsATransaction` (`AssemblyProof`) | `Spec => []IsAssembled(tx)` |
| `ClaimsAndAssertsOnlyTighten` | `Spec => ConditionsOnlyTighten` |
| `OutcomesIgnoreOrder` | `Spec => OrderIsIrrelevant` |
| `SealsForbidMerging` | `Spec => SealedMergeIsRejected` |
| `ValidTransactionsCompose` | `Spec => CompositionGuarantee` |
| `ChecksDecideRules` | `Spec => []AgreesWithRules` |
| `OneMeaningHolds` (`ShellProof`) | `Spec => []OneMeaning` |
| `LoadedIsDeclaredHolds` | `Spec => []LoadedIsDeclared` |
| `DeclarationsStayHolds` | `Spec => DeclarationsStay` |
| `NamespaceImplementsAtomic` | if who does not interrupt `NestsShallowly`: `Spec => NamespaceIsAtomic` |
| `CoinsStayRecoverable` (`PuzzlesProof`) | if `SignaturesAreIdeal`: `Spec => []EveryCoinIsRecoverable` |
| `TriggersTakeSignatures` | if `SignaturesAreIdeal`: `Spec => TriggersAreSigned` |
| `LineagesAreKept` | if `SignaturesAreIdeal` and `NoneIsNoList`: `Spec => LineageIsKept` |
| `MutantsAreJudgedAlone` (`HarnessProof`) | `Spec => []JudgedAlone` |
| `StatusZeroMeansCaught` | `Spec => []ZeroMeansCaught` |

**Evaluator.** `StackDiscipline` is not inductive as it stands: that a task finds
its values says nothing about the tasks that its own execution pushes. The
inductive invariant `IInv` speaks of the height of the value stack after
each prefix of the pending tasks (`Height`, a sum over the stack). Each task's
*effect* on the height is fixed when it is pushed: an `EVAL` adds one, an apply of
`n` takes `n` and adds one. A step replaces the first task by tasks with the same
total effect and no prefix that dips lower, which `TotalsReplace` shows once for
all actions. The budget part follows
`accrue`'s comment: a cost over the budget is possible only while an `EVAL` task is
on top, and every `EVAL` charges or raises. `EveryTaskPays` needs that each
operator charges a positive amount (`OperatorsRun`), which
in turn rests on the signs of the cost table (`CostsProof`).

`OperatorsRun` covers the whole table, any values of the size limits and any curve:
whatever the arguments, an operator gives a node or one of its error codes, and
charges a positive amount first. That the charges of a fold over the arguments or of
the walk over a tree are natural numbers rests on one lemma per shape of loop.

`BackstopCannotFire` is only proved: the test in `machine.py` that it is about is a
second look at a budget already checked, and no run states it.

**Debugger.** What `step_over` promises is that it executes one task's subtree, and what it
looks at is only the height of the task stack. The invariant, `DebugInv`, says that at any moment
of a `step_over` the task stack is a stack of the subtree's own on top of the tasks that
were below the pending one, and the value stack likewise; and that the subtree's own tasks are
*sound*, that is, find their values among the subtree's own and leave one. `TurnIs` says
that every turn of the evaluator replaces the top task by a sound stack for the same effect,
`SoundOver` that a sound stack above one that expects one more value is sound. When
the height has come down to the target the subtree is empty, so exactly one value has been
added. `LiveIsSound` is then the evaluator's own invariant: `InterruptTask` loses a task's
effect, and the machine is finished in the same statement.

`CostsProof` also proves, by induction over the naturals, what the library states only
with operator parameters: that a function defined by recursion over a list exists
(`RecursionExists`), and how a sum over a list changes when a list is extended, cut,
joined or has an element exchanged (`TotalInsert`, `TotalJoin`, `TotalExchange`).

**Condition parser.** The loop's invariant has three parts beside the types of the
arguments. `WalkInv`: what is parsed reads a prefix of the list, and `rest` is what follows
it. `MeterInv`: the meter is the sum so far, and every sum on the way was affordable.
`FirstFaultDecides` itself: a loop that has ended, ended where the first fault of the whole list
is. An element that `Check` accepts and the same element parsed are related by one lemma
per operand kind; canonical encoding comes down to `int_to_atom` undoing `atom_to_int`
on minimal atoms of any length, by induction over the bytes. Two assumptions say what a
list is: `ListsAreTrees` that it is made of bytes and pairs, as every value that `run`
returns, and `DerivationsExist` that the curve finds an output key exactly where
logarithms say there is one. The second is a statement about the group that the
real curve is believed to be; TLC evaluates it for the small curve, and only
`FirstFaultIsTheVerdict` is about elements for which it matters.

**Assembly.** A condition's *place* is an input's index and an index in its list. Every
edit moves the places of the old transaction into those of the new one, each with its
condition and its coin (`Embeds`), and a merge splits the places of the result into those
of the two parts (`Splits`). For each rule of validation there is a lemma on what such
a move does to it: a rule that forbids something stays violated, a count or a sum of the
whole is that of its parts, a need that is met stays met. `ClaimsAndAssertsOnlyTighten`
and `OutcomesIgnoreOrder` combine them for one transaction and an edited one (`Within`,
both ways for an exchange of neighbours, of which every reordering is made);
`ValidTransactionsCompose` for two transactions and their concatenation (`Composes`),
where messages are balanced because each of the two is, and where the discipline is needed
rule by rule. `SealsForbidMerging` rests on a hash of outputs being
injective.

`ChecksDecideRules` compares two formulations of the rules. The code counts: it takes one partner out of a
multiset per claim, compares the two multisets of message halves, adds up the units that are reserved and the
amounts. The reference assigns: every claim has an output of its own, every half its other half, every
reserved unit its own part of the surplus. `CountingAssigns` is the lemma between the two: if
every value has as many givers as takers, an injection exists that keeps values, and with equal numbers
a pairing (`CountingPairs`). Two halves answer each other exactly if they make the same ledger record
(`AnswersShareRecord`), and the units reserved by all conditions are disjoint finite sets, whose
cardinality is the sum (`PartsAddUp`). That the verdict is the *first* broken rule follows from
each check raising its own codes only (`FirstBrokenIsReported`).

The sizes of the transactions, of their conditions and of the numeric fields are arbitrary. The assumptions, `OffersAreTransactions` and `NewPartsAreParsed`, say that
the parts are what the constructors and the parser let through.

**Shell.** The file system is arbitrary: any number of files, any texts, cycles included. `NamesInv`
says that declarations and bindings claim different names. For an include line the invariant follows
the declarations from the files to the namespace. `SpliceInv`: a file read since the line began has each
of its items on the stack, in the result or, an include, resolved to a file that has been read, and
what lies there is theirs. `QueueInv`: once the result is complete, the namespace is what it was and the
first `m` of it, under different names. `LoadedIsDeclared` follows when the queue is empty: everything
has arrived, unless the line was torn, by an interrupt or by a constant nested too deeply, and the
history variables say so. `DeclarationsStay` needs `SnapshotInv`: an undone line puts back a namespace from
which nothing that is older than the line is missing. `NamespaceImplementsAtomic` maps the many steps of an
include line to its last one. The abstract step asks for *all* that the files include, directly or not, so
`ReachInv` bounds from above what `SpliceInv` bounds from below: whatever set of files the
user's spellings lead into, the line reads none outside it. The hypothesis says whose sessions the theorem is about, as
the run does: an interrupt and Python's recursion limit do cut lines in half, see Findings.
The assumptions, `UsersAreUsers` and `FilesHoldItems`, say what may be typed and what a text
may hold.

**Puzzles.** Each theorem follows one transaction from the programs that made its conditions to
the coins that it creates. `VaultList` says of each path of the two vault programs which outputs its
conditions can claim: the recovery script, the coin's own script, a triggered coin of
the order that was signed, or the same vault again. The recovery invariant, `RecoveryInv`,
says that every coin at a vault's script is the coin of a *well-formed* program
(`CoinsAreKnown`) and that every joined input claims only such outputs (`InputsAreBacked`);
the second is what an assembler's free choice of spends, amounts and order of outputs
cannot break. For such a coin `CoinCanBeRecovered` builds the recovery transaction and
follows it through the constructor and all seven rules. `EveryCoinIsRecoverable` alone is not
inductive: it holds only between transactions, when nothing is joined.

`TriggersAreSigned` needs to know that a signature for one coin is of no use for another. The
digest covers the outpoint, so this comes down to outpoints never recurring. That is
not visible in a state of the model, which forgets spent coins: `SignatureInv` says that *some*
set `past` of coins exists, whose outpoints differ from those of all unspent coins, which holds
every coin that was signed for and is spent, and every coin that an unspent coin's
transaction has spent (`IsHistory`, `AreSignedOf`). A transaction's txid covers its inputs'
outpoints and it spends at least one coin, so one that recurred would have spent a coin that
was already past. The counting is an injection: a triggered output is claimed by the
fourth condition of one input, and different inputs spend different coins.

`LineageIsKept` speaks of `Living`, which quantifies over all coins, because whoever spends one
coin may show the transaction of another. `LivingAgrees` is the first step: a descent that
holds and stands alone shows the coin's own creating transaction (`OwnProofs`), since
it asserts the outpoint, so whether a coin lives can be read from the coin alone. Such a descent is one input of
that transaction, and it either spends the launcher or a coin at the lineage's script that lived:
the joined input at that script stood alone, so it ran the wrapper (`InputsDescend`, `NewLives`).
Therefore `OnlyOneLives` is inductive: a transaction's coins that live share its one tagged output,
which names one index (`OneState`), a coin that lives beside them would be a second one before,
and the launcher's outpoint does not return (`LaunchersArePast`, over the same `past`). Of an owner's coin,
`HandoverTaken` follows the three conditions of `owner_inner` through the wrapper: the signature,
which is of this coin by `SignatureInv`, the seal, which makes the outputs those that were signed, and
the rewritten child. `ChildLives` builds the descent of the coin that these outputs make,
and `state_proven` excludes any child of an end.

The assumptions of `Chain`, `Vault`, `Singleton` and `Puzzles` say what the rest of the world is.
Hashes are injective (`ProgramsAreCommitted`, `LineagesAreCommitted`). What strangers, targets and
recovery scripts pay to is arbitrary, but not a triggered coin's script, and a vault's only
if the vault is well-formed (`OthersPayDeposits`, `VaultsPayDeposits`): who sends a coin to a
program that checks its curried values and fails has lost it, as `vault.bl:8-10` says, and who sends
his own coin to a triggered script has made one that no key signed. The outputs that an owner
signs hold the state that the order names once, with the coin at the index that it commits to
(`HandoversPlaceTheState`): `docs/puzzles/singleton.md:381-386` makes the seal the owner's
placement commitment, and an owner who seals two states has ended the lineage himself. `IndexesReachInputs`
says that any input can be shown as the parent, as in the code any index can be given. A chain starts from coins with
different outpoints that no modelled transaction made (`FundingsAreCoins`); a singleton's wallet asks
for odd amounts (`HandoversAreOdd`); versions go up to 2 (`VersionFits`). `Confirm` asks for no
more outputs than an index can number, which the size of a block sees to. That a
signature verifies exactly when its key made it is a hypothesis of the theorems
(`SignaturesAreIdeal`), as is that the value for "no conditions" is not a list of conditions
(`NoneIsNoList`), because TLC cannot evaluate them: they speak of every value.

**Harness.** A verdict is right if the mirror held the mutant, and only the mutant, while the
oracles ran. `Ownership` says that a process works in its own mirror on a chunk nobody
else holds; `Progress` where it is in its chunk; `Mirrors` that its mirror is pristine before
an install and holds exactly the mutant after it. A write that fails half way breaks
`Mirrors`, so the invariant excepts workers behind a chunk that raised (`Faulted`), and
`Judgements` the results made there; `Collected` shows that `main`, which collects
chunks in order and stops at the first that raised, never takes one of these. A dead worker breaks the
pool, and a broken pool has no busy worker. The number of workers, mutants, modules
and files is arbitrary.

What is only model-checked, and why:

- agreement with the recursive meanings (`AgreesWithMeaning`, `ReproducesRun`,
  `AgreesWithReading`, `CompiledMeans`, `ReaderAgrees`), and the other properties of modules
  that reach one of these references or a recursive conversion (`RerootingIsSafe`, `IsAtomic`,
  `BudgetOnlyCuts`, `OnlySignersPass`, those of `Commands`): the prover has no SMT backend there
  and no induction over data;
- everything that rests on fairness: `CommandsReturn`, `Ends`, `EveryRunEnds`;
- `OutputKeysAreTweaked`: it compares the affine addition of the code with logarithms, so
  it is the group law of the curve;
- `ValueIsKept`: see the plan.

## Findings

`shell_deep` is the one that a run shows: `docs/lang/repl.md:97` and the docstring at
`repl.py:379-381` say that a failed include line applies nothing. The handler at
`repl.py:398` catches `CompileError`; a constant nested too deeply for Python
raises `RecursionError`, which passes it. The declarations before that constant
stay and the file counts as loaded, so that including the corrected file is
skipped. In `shell` the user who interrupts includes such a file too,
and what still holds is checked of both users; the whole promise
(`NamespaceIsAtomic`) is checked of the one who does neither.

Smaller observations made while modelling, which no run is about:

- `spec/SPEC.md:257-259` says that the program nil has no valid script-path spend
  because nil is rejected as a condition list. `conditions.py:455` iterates nil as
  the proper list of no elements and accepts it.
- An interrupt between the two assignments of `repl.py:342-344` leaves the new
  transaction context with the old input index, which a shorter transaction may
  not have; the next `spend` then reports it as an error.
- `tools/mutate.py:47` gives exit status 1 the meaning that some mutant survived. A
  worker's exception or a broken pool leaves `main` as an exception, and Python exits
  with 1 as well. `ZeroMeansCaught` is therefore about status 0 only.
- The write that installs a mutant stands before the `try` of `evaluate`
  (`mutate.py:465`), so a write that fails half way leaves the mirror damaged. The
  chunk's exception ends the run before a result judged in that mirror is collected,
  unless it belongs to an earlier chunk, and `JudgedAlone` holds.
- `spec/CONDITIONS.md` names a condition `ASSERT_MY_ANNEX` (0x39) that
  `conditions.py` does not have; `docs/execution-plan.md:90` announces it for a later
  change, so it is neither modelled nor a finding.
- `docs/puzzles/vault.md:230-247` documents that two matured coins with one target
  can be spent together, so that the value of the second becomes fee. The run keeps
  the wallet rule stated there: every trigger has a target of its own. Targets that
  pay the vault's own or its recovery script are outside the run too.

## Not modelled

- The real curve and hash: 256-bit arithmetic is out of TLC's reach. `Curve` keeps
  every step of the algorithms over a small field; in the puzzles and in `Assembly`
  hashes, tweaks and signatures are injective.
- Characters: the tokenizer's cutting of text, messages and layout. `Text` starts from
  tokens.
- The byte layout of `tx-wire.blib` (compact sizes, little-endian fields): the model
  takes from it that different fields have different txids.
- The fifth length form of the wire format, for atoms of 2^27 bytes and more: the
  constants describe it, the run cannot build such atoms.
- The shell's `maxcost`, its symbol table and the commands that only print; the
  compiler's error offsets and symbol table. `bitlisp` and `bitlisp-compile` compose
  what `Spend` and `Compiler` model; argument parsing, files and broken pipes are I/O.
- Which mutants `mutate.py` derives from a source: a syntax-tree walk with no state;
  a mutant is a model value. The printed report.
- The case runners of `run_vectors.py` and the differential tools `run_upstream.py`,
  `diff_clvm.py`, `diff_sha256tree.py` and `diff_secp.py`: they compare outputs of the
  modelled functions with recorded or foreign ones.
- `tools/oracle/bitcoincore`: third-party.

## Plan

Done, in this order: the evaluator and its proofs (`Sexp`, `Costs`, `Operators`,
`Machine`); `Stepper`; `Conditions`; `Validation` and `Assembly`; `Spend` with its
refinement; `Includes`, `Definitions`, `Compiler`; `Shell` with its refinement;
`Vault`; the rest of the operator table with its lemmas, and `Curve`; `Wire`, `Text`
and `Commands`; `Singleton` on one chain with `Vault`; `Harness`.

The proofs followed in this order: `Machine` and the operator table; `Harness`;
`Assembly`; `Conditions`; `Puzzles`; `Shell` with its refinement; `Stepper`, which for this
extends `Machine` and leaves the recursive reference to its MC module; the rules of
`Assembly` as assignments (`ChecksDecideRules`).

What is left is proofs, by importance:

1. `Puzzles`: value stays in the vaults (`ValueIsKept`), on top of `RecoveryInv` and `SignatureInv`. A
   sum over a set of coins has to be made a sum over a list, for which `CostsProof` has the lemmas;
   that messages which balance can be paired off is `CountingPairs` in `AssemblyProof`.
2. `Spend`: one budget over both stages, from `BudgetSafe` and `TotalIsTheSum`, and that its
   judgement is atomic. `MachineReference` would have to leave `SpendReference` for the MC module, as it
   left `Stepper`.
