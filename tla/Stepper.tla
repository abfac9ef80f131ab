------------------------------ MODULE Stepper ------------------------------
(***************************************************************************)
(* The debugger's evaluator (bitlisp_tools/stepper.py, DebugMachine): the  *)
(* evaluator's stacks as object state, executed by the commands step,      *)
(* step_over and run, any of which an interrupt may cut short.             *)
(*                                                                         *)
(* DebugMachine's _execute repeats the body of machine.run's loop, so a    *)
(* task here is a task of Machine.  result, error and _done are one        *)
(* variable, outcome: "done" is a result, an error code is that error, and *)
(* "poisoned" is a machine that is finished with neither.                  *)
(***************************************************************************)
EXTENDS Machine

VARIABLES
    command,       \* the method on the call stack, or "none"
    target,        \* step_over's local
    finishing,     \* step() has executed its task and found no more tasks
    entry          \* the stacks when the command began (history)

debug_vars == <<vars, command, target, finishing, entry>>

Commands == {"step", "step_over", "run"}

\* _done: the callers' guard.
Finished(out) == out # "running"

DebugInit ==
    /\ Init
    /\ command = "none"
    /\ target = 0
    /\ finishing = FALSE
    /\ entry = [tasks |-> tasks, values |-> values]

\* A command starts; step and step_over refuse a finished machine, and run
\* has nothing to do on one.
Call(c) ==
    /\ command = "none"
    /\ ~Finished(outcome)
    /\ command' = c
    /\ target' = Len(tasks) - 1
    /\ entry' = [tasks |-> tasks, values |-> values]
    /\ UNCHANGED <<vars, finishing>>

\* Defect: the subtree's last task is left out.
GoesOnAbove(ts) ==
    \/ command = "run"
    \/ command = "step_over" /\ Len(ts) > target + 1

\* Whether the command executes another task after one that left ts.
GoesOn(ts) ==
    \/ command = "run"
    \/ command = "step_over" /\ Len(ts) > target

\* step() up to the check for an empty task stack.
Execute ==
    /\ command # "none"
    /\ ~finishing
    /\ ExecuteTask
    /\ finishing' = (~Finished(outcome') /\ tasks' = <<>>)
    /\ command' = IF ~Finished(outcome') /\ (tasks' = <<>> \/ GoesOn(tasks'))
                  THEN command ELSE "none"
    /\ UNCHANGED <<target, entry>>

\* The rest of step() on an empty task stack: the backstop and the result.
FinishStep ==
    /\ finishing
    /\ Finish
    /\ finishing' = FALSE
    /\ command' = "none"
    /\ UNCHANGED <<target, entry>>

\* Defect: the interrupted task is put back, its charge kept.
InterruptTaskRetried ==
    /\ command # "none"
    /\ ~finishing
    /\ cost' \in {cost, cost + OP_DISPATCH_COST}
    /\ command' = "none"
    /\ UNCHANGED <<program, env, max_cost, tasks, values, outcome, target, finishing, entry>>

\* Defect: the interrupted machine is not poisoned.
InterruptTaskUnpoisoned ==
    /\ command # "none"
    /\ ~finishing
    /\ tasks' = Tail(tasks)
    /\ command' = "none"
    /\ UNCHANGED <<program, env, max_cost, values, cost, outcome, target, finishing, entry>>

\* An interrupt while a task executes: the task is off the stack, what else
\* it has done is any part of its work, and the machine is poisoned.
InterruptTask ==
    /\ command # "none"
    /\ outcome' = "poisoned"
    /\ tasks' = IF finishing THEN tasks ELSE Tail(tasks)
    /\ values' \in {values, <<>>}
    /\ cost' \in {cost, cost + OP_DISPATCH_COST}
    /\ command' = "none"
    /\ finishing' = FALSE
    /\ UNCHANGED <<program, env, max_cost, target, entry>>

\* An interrupt between two steps of step_over or run: no task is under
\* way, and the machine can go on.
InterruptBetween ==
    /\ command \in {"step_over", "run"}
    /\ ~finishing
    /\ command' = "none"
    /\ UNCHANGED <<vars, target, finishing, entry>>

DebugNext ==
    \/ \E c \in Commands : Call(c)
    \/ Execute
    \/ FinishStep
    \/ InterruptTask
    \/ InterruptBetween

DebugSpec == DebugInit /\ [][DebugNext]_debug_vars

\* A command that is under way is executed; nobody has to start one.
FairSpec == DebugSpec /\ WF_vars(Execute) /\ WF_vars(FinishStep)

-----------------------------------------------------------------------------
(* Correctness. *)

\* A step_over that returns by itself with the machine still running has
\* completed the pending task's whole subtree and nothing else: the tasks
\* below are the ones that were there, and the values are the old ones less
\* what the task consumed, under one new value.  The code compares only the
\* height of the task stack.
StepOverCompletesSubtree ==
    [][ (Execute /\ command = "step_over" /\ command' = "none" /\ outcome' = "running")
          => LET pending == Head(entry.tasks)
                 n == Consumes(pending)
             IN  /\ tasks' = Tail(entry.tasks)
                 /\ Tail(values') = SubSeq(entry.values, n + 1, Len(entry.values)) ]_debug_vars

\* A machine that may still be stepped has sound stacks: an interrupted
\* task never leaves a live machine behind.
LiveIsSound == ~Finished(outcome) => StackDiscipline /\ BudgetInv

\* Every command on the debugger's machine returns, also run on a program
\* that applies itself without end: its loop has no bound but the budget.
CommandsReturn == command # "none" ~> command = "none"
=============================================================================
