------------------------------ MODULE MCShell ------------------------------
(***************************************************************************)
(* Three names, and include files that share a base, collide, fail half    *)
(* way, include themselves or hold a value nested too deeply to compile.   *)
(***************************************************************************)
EXTENDS Shell

CONSTANTS base, lib, app, clash, deep, self

Declared(kind, name, mentions, fault) ==
    [kind |-> kind, name |-> name, mentions |-> mentions, fault |-> fault]
Include(spelling) == [kind |-> "include", spelling |-> spelling]

MCReserved == {"if"}
MCLines ==
    {Declared("defconstant", "A", {}, "none"), Declared("defconstant", "C", {"B"}, "none"),
     Declared("defun-inline", "B", {"A"}, "none"), Declared("defun", "if", {}, "none"),
     Declared("defun", "C", {"C"}, "malformed")}
MCBindings ==
    {[name |-> "A", mentions |-> {}, body |-> 1], [name |-> "A", mentions |-> {"B"}, body |-> 2],
     [name |-> "B", mentions |-> {"A"}, body |-> 3]}

MCText ==
    (base :> <<Declared("defconstant", "A", {}, "none")>>)
      @@ (lib :> <<Include("base"), Declared("defun", "B", {"A", "B"}, "none")>>)
      @@ (app :> <<Declared("defun-inline", "B", {"C"}, "none"), Include("base"),
                    Declared("defconstant", "C", {"A"}, "none")>>)
      @@ (clash :> <<Declared("defun-inline", "C", {"C"}, "none"), Include("base"),
                     Declared("defconstant", "B", {"C"}, "raises")>>)
      @@ (self :> <<Include("base"), Include("self")>>)
      @@ (deep :> <<Declared("defun", "B", {}, "none"),
                    Declared("defconstant", "C", {}, "too_deep")>>)

ShallowSpellings == {"base", "lib", "app", "clash", "self", "nowhere"}
MCSpellings == ShallowSpellings \cup {"deep"}
MCResolve ==
    [s \in MCSpellings |->
        CASE s = "base" -> base [] s = "lib" -> lib [] s = "app" -> app
          [] s = "clash" -> clash [] s = "self" -> self [] s = "deep" -> deep
          [] s = "nowhere" -> NotFound]

\* One user interrupts anything; one never does, loads transactions and
\* includes more files, none of them too deep; the third only includes.
Interrupting ==
    [interrupts |-> TRUE,
     lines |-> {d \in MCLines : d.fault = "none" /\ d.name \notin MCReserved},
     spellings |-> {"base", "lib", "clash", "deep"},
     contexts |-> {}, tasks |-> 2]
Undisturbed ==
    [interrupts |-> FALSE, lines |-> MCLines, spellings |-> ShallowSpellings,
     contexts |-> {[path |-> "p", inputs |-> 1], [path |-> "p", inputs |-> 2]},
     tasks |-> 1]
Nesting == [Undisturbed EXCEPT !.spellings = MCSpellings, !.contexts = {}]

MCUsers == {Interrupting, Undisturbed}
NestingUsers == {Nesting}
=============================================================================
