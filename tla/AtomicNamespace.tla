-------------------------- MODULE AtomicNamespace --------------------------
(***************************************************************************)
(* What a session's namespace promises: each command declares one name,    *)
(* binds one, removes one, or takes in a whole set of include files or     *)
(* nothing of them.  A name is only ever claimed once.                     *)
(***************************************************************************)
EXTENDS Naturals, Sequences

CONSTANTS
    Text, Resolve,      \* the include files and their spellings
    Unreadable,
    Lines, Bindings     \* what may be declared and bound one at a time

VARIABLES
    bound,              \* the bindings, by name
    declared,           \* the set of declarations
    loaded              \* the set of files

Init == bound = <<>> /\ declared = {} /\ loaded = {}

NamesOf(declarations) == {d.name : d \in declarations}

\* Declarations that can be made together.
Claimable(declarations) ==
    /\ \A d, e \in declarations : d.name = e.name => d = e
    /\ NamesOf(declarations) \cap (NamesOf(declared) \cup DOMAIN bound) = {}

Declare(declarations) ==
    /\ Claimable(declarations)
    /\ declared' = declared \cup declarations
    /\ UNCHANGED bound

DeclareOne == (\E d \in Lines : Declare({d})) /\ UNCHANGED loaded

Items(file) == {Text[file][i] : i \in 1..Len(Text[file])}
Declarations(file) == {item \in Items(file) : item.kind # "include"}
Included(file) == {Resolve[item.spelling] : item \in {i \in Items(file) : i.kind = "include"}}

\* Files are taken in with all that they include.
TakeIn ==
    \E files \in SUBSET {file \in DOMAIN Text \ loaded : Text[file] # Unreadable} :
        /\ \A file \in files : Included(file) \subseteq files \cup loaded
        /\ Declare(UNION {Declarations(file) : file \in files})
        /\ loaded' = loaded \cup files

Bind ==
    /\ \E b \in Bindings :
          /\ b.name \notin NamesOf(declared)
          /\ bound' = [n \in DOMAIN bound \cup {b.name} |-> IF n = b.name THEN b ELSE bound[n]]
    /\ UNCHANGED <<declared, loaded>>

Remove ==
    \E name \in NamesOf(declared) \cup DOMAIN bound :
        /\ bound' = [n \in DOMAIN bound \ {name} |-> bound[n]]
        /\ declared' = {d \in declared : d.name # name}
        /\ UNCHANGED loaded

Next == DeclareOne \/ TakeIn \/ Bind \/ Remove

Spec == Init /\ [][Next]_<<bound, declared, loaded>>
=============================================================================
