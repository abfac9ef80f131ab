------------------------------ MODULE Includes ------------------------------
(***************************************************************************)
(* Splicing include files (bitlisp_tools/compiler.py, _spliced): an        *)
(* explicit stack, the chain of files being spliced and the set of files   *)
(* loaded.  One action takes one entry off the stack.                      *)
(*                                                                         *)
(* A file is its stat identity; several spellings may resolve to one.  Its *)
(* text is a sequence of items: declarations, and includes by spelling.    *)
(***************************************************************************)
EXTENDS Naturals, SequencesExt

CONSTANTS
    Spellings,     \* what an include may name
    Resolve,       \* the file each spelling resolves to on the search path
    NotFound,      \* what a spelling that resolves to none gives
    Unreadable,    \* the text of a file that holds no declaration list
    NoOrigin,      \* the origin of the program's own text
    Texts,         \* the texts that the files may have,
    Sources,       \*   the declarations a splice may start from
    Scopes         \*   and the files that may have been loaded before

ASSUME SpellingsResolve == Spellings = DOMAIN Resolve

VARIABLES
    text,          \* the text of each file, fixed while a splice runs
    source,        \* the argument: the declarations to splice
    before,        \* the files loaded when the splice began (history)
    stack,         \* the entries still to take, the next one first
    chain,         \* the files being spliced, the innermost last
    loaded,        \* the files loaded in this scope
    result,        \* the declarations so far, each with its origin
    outcome        \* "splicing", "done" or the CompileError raised

vars == <<text, source, before, stack, chain, loaded, result, outcome>>

IncludeEnd == [kind |-> "end"]
Entry(item, origin) == [item |-> item, origin |-> origin]
Entries(items, origin) == [i \in 1..Len(items) |-> Entry(items[i], origin)]

Init ==
    /\ text \in Texts
    /\ source \in Sources
    /\ before \in Scopes
    /\ loaded = before
    /\ stack = Entries(source, NoOrigin)
    /\ chain = <<>> /\ result = <<>> /\ outcome = "splicing"

Item == Head(stack).item
Pop == stack' = Tail(stack)

\* The next entry is there, and none of the arguments change.
AtEntry ==
    /\ outcome = "splicing"
    /\ stack # <<>>
    /\ UNCHANGED <<text, source, before>>

\* The marker that a loaded file left behind closes it.
EndFile ==
    /\ AtEntry
    /\ Item = IncludeEnd
    /\ Pop
    /\ chain' = Front(chain)
    /\ UNCHANGED <<loaded, result, outcome>>

EmitDeclaration ==
    /\ AtEntry
    /\ Item # IncludeEnd /\ Item.kind # "include"
    /\ Pop
    /\ result' = Append(result, Head(stack))
    /\ UNCHANGED <<chain, loaded, outcome>>

AtInclude == AtEntry /\ Item.kind = "include"
Named == Resolve[Item.spelling]
Open == {chain[i].file : i \in 1..Len(chain)}

IncludeNotFound ==
    /\ AtInclude
    /\ Named = NotFound
    /\ outcome' = "not_found"
    /\ Pop
    /\ UNCHANGED <<chain, loaded, result>>

\* Defect: only a file that includes itself is seen.
CyclicAtOnce == chain # <<>> /\ Named = Last(chain).file

\* The file is still being spliced, however far out.
Cyclic == Named \in Open

IncludeCycle ==
    /\ AtInclude
    /\ Cyclic
    /\ outcome' = "cycle"
    /\ Pop
    /\ UNCHANGED <<chain, loaded, result>>

\* Defect: the repeat stays on the stack.
IncludeAgainKept ==
    /\ AtInclude
    /\ Named \in loaded /\ ~Cyclic
    /\ UNCHANGED <<stack, chain, loaded, result, outcome>>

\* A file loads once in a scope.
IncludeAgain ==
    /\ AtInclude
    /\ Named \in loaded /\ ~Cyclic
    /\ Pop
    /\ UNCHANGED <<chain, loaded, result, outcome>>

\* The file is loaded and open before it is read, its items come next, and
\* its marker after them.
LoadFile ==
    /\ AtInclude
    /\ Named \notin loaded \cup {NotFound} /\ ~Cyclic
    /\ loaded' = loaded \cup {Named}
    /\ chain' = Append(chain, [file |-> Named, name |-> Item.spelling])
    /\ IF text[Named] = Unreadable
       THEN outcome' = "bad_file" /\ Pop
       ELSE /\ stack' = Entries(text[Named], Item.spelling)
                          \o <<Entry(IncludeEnd, NoOrigin)>> \o Tail(stack)
            /\ UNCHANGED outcome
    /\ UNCHANGED result

Finish ==
    /\ outcome = "splicing"
    /\ stack = <<>>
    /\ outcome' = "done"
    /\ UNCHANGED <<text, source, before, stack, chain, loaded, result>>

Next ==
    \/ EndFile \/ EmitDeclaration \/ IncludeNotFound \/ IncludeCycle
    \/ IncludeAgain \/ LoadFile \/ Finish

Spec == Init /\ [][Next]_vars /\ WF_vars(Next)

-----------------------------------------------------------------------------
(* Correctness. *)

\* A splice ends, include cycles or not.
Ends == <>(outcome # "splicing")
=============================================================================
