---------------------------- MODULE Definitions ----------------------------
(***************************************************************************)
(* The compiler's namespace (bitlisp_tools/compiler.py, Definitions):      *)
(* functions, inlines and constants by name.  A declaration is a record    *)
(* with its kind, the name it declares, the free names its body mentions   *)
(* and what is wrong with it, if anything; it is its own stored entry.     *)
(***************************************************************************)
EXTENDS Naturals, FiniteSets

CONSTANT Reserved   \* reserved words and the names of condition constants

Spaces == {"functions", "inlines", "constants"}
DeclarationKinds == {"defun", "defun-inline", "defconstant"}
NoDefinitions == [space \in Spaces |-> <<>>]

SpaceOf(declaration) ==
    CASE declaration.kind = "defun"        -> "functions"
      [] declaration.kind = "defun-inline" -> "inlines"
      [] declaration.kind = "defconstant"  -> "constants"

Defined(defs) == UNION {DOMAIN defs[space] : space \in Spaces}

\* Defect: a name is looked for in its own space only.
ClaimsInSpace(defs, declaration, taken) ==
    declaration.name \notin Reserved \cup DOMAIN defs[SpaceOf(declaration)] \cup taken

\* _claim: one spelling never means two things.
Claims(defs, declaration, taken) ==
    declaration.name \notin Reserved \cup Defined(defs) \cup taken

-----------------------------------------------------------------------------
(* What a constant's value needs in order to compile. *)

Bodies(defs, spaces) ==
    UNION {{defs[space][name] : name \in DOMAIN defs[space]} : space \in spaces}

\* The names that mentioned ones lead to through bodies of the given spaces.
Reachable(defs, mentioned, spaces) ==
    LET bodies == Bodies(defs, spaces)
        all == mentioned \cup UNION {b.mentions : b \in bodies}
        closed == {S \in SUBSET all :
                     /\ mentioned \subseteq S
                     /\ \A b \in bodies : b.name \in S => b.mentions \subseteq S}
    IN  {n \in all : \A S \in closed : n \in S}

\* Every name is declared, and no inline expands into itself.
Compiles(defs, mentioned) ==
    LET reached == Reachable(defs, mentioned, {"functions", "inlines"})
    IN  /\ reached \subseteq Defined(defs)
        /\ \A b \in Bodies(defs, {"inlines"}) :
              b.name \in reached => b.name \notin Reachable(defs, b.mentions, {"inlines"})

-----------------------------------------------------------------------------
\* The exception Definitions.add ends in, or "none".  A function's body is
\* stored as written; a constant's value is compiled and run at once, and
\* one nested too deeply for the compiler's recursion ends in Python's error.
AddError(defs, declaration, taken) ==
    IF declaration.fault = "malformed" \/ ~Claims(defs, declaration, taken)
    THEN "CompileError"
    ELSE IF declaration.kind # "defconstant" THEN "none"
    ELSE IF declaration.fault = "too_deep" THEN "RecursionError"
    ELSE IF declaration.fault = "raises" \/ ~Compiles(defs, declaration.mentions)
    THEN "CompileError"
    ELSE "none"

\* A dict with the entry stored at its name.
Put(entries, entry) ==
    [n \in DOMAIN entries \cup {entry.name} |->
        IF n = entry.name THEN entry ELSE entries[n]]

Added(defs, declaration) ==
    [defs EXCEPT ![SpaceOf(declaration)] = Put(@, declaration)]
=============================================================================
