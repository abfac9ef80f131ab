----------------------------- MODULE MCHarness -----------------------------
(* Three mutants of two modules, two workers, and a corpus of two files. *)
EXTENDS Harness

CONSTANTS w1, w2, m1, m2, m3

MCWorkers == {w1, w2}
MCInventory == <<m1, m2, m3>>
MCModules == {"costs", "errors"}
MCModuleOf == (m1 :> "costs") @@ (m2 :> "errors") @@ (m3 :> "costs")
MCCorpus == [vm |-> <<"a", "b">>, conditions |-> <<"c">>]

Effect(a, b, c, suite) == [x \in {"a", "b", "c", "suite"} |->
    CASE x = "a" -> a [] x = "b" -> b [] x = "c" -> c [] x = "suite" -> suite]
Harmless == Effect("pass", "pass", "pass", "pass")
Broken == Effect("escape", "escape", "escape", "escape")
Mutated ==
    {Harmless, Effect("escape", "fail", "pass", "fail"), Effect("pass", "escape", "pass", "escape"),
     Effect("escape", "pass", "hang", "hang")}
MCEffects ==
    {(m1 :> p) @@ (m2 :> q) @@ (m3 :> r) @@ (Original :> o) @@ (Damaged :> Broken) :
        p, q, r \in Mutated \cup {Effect("pass", "pass", "pass", "fail")}, o \in {Harmless}}
      \cup {(m1 :> Harmless) @@ (m2 :> Harmless) @@ (m3 :> Harmless) @@ (Original :> o) @@ (Damaged :> Broken) :
        o \in {Effect("pass", "pass", "pass", "fail"), Effect("pass", "pass", "fail", "pass")}}
=============================================================================
