----------------------------- MODULE MCStepper -----------------------------
(* Programs with nested applications for the debugger's evaluator. *)
EXTENDS Stepper, MachineReference

MCBasePoint == <<2, 12>>

Op(b) == Atom(<<b>>)
Apply(op, args) == Spine(<<op>> \o args, Nil)
Quoted(node) == Cons(Op(1), node)
Sum == Apply(OpAdd, <<Op(1), Quoted(Op(5))>>)
Swap == Apply(OpCons, <<Apply(OpRest, <<Op(1)>>), Apply(OpFirst, <<Op(1)>>)>>)

MCPrograms ==
    {Apply(OpCons, <<Swap, Swap>>),
     Apply(OpIf, <<Sum, Apply(Op(2), <<Quoted(Swap), Op(1)>>), Nil>>),
     Apply(Op(2), <<Quoted(Apply(OpListp, <<Swap>>)), Quoted(Quoted(Op(9)))>>),
     Apply(Op(2), <<Op(1), Op(1)>>)}
MCEnvs == {Nil, Cons(Op(9), Op(7)), Apply(Op(2), <<Op(1), Op(1)>>)}
RECURSIVE Parts(_)
Parts(node) ==
    {node} \cup IF IsAtom(node) THEN {}
               ELSE Parts(First(node)) \cup Parts(Rest(node))
MCNodes == UNION {Parts(n) : n \in MCPrograms \cup MCEnvs}
MCBudgets == {0, 180, 300, 450, 2000}
MCFuel == 16

\* Whatever sequence of commands and interrupts drives it, a machine that
\* finishes with a result or an error finishes with that of machine.run.
ReproducesRun == outcome \notin {"running", "poisoned"} => AgreesWithMeaning
=============================================================================
