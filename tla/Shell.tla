------------------------------- MODULE Shell -------------------------------
(***************************************************************************)
(* A session of the interactive shell (bitlisp_tools/repl.py): names bound *)
(* by def, the compiler's definitions, the files loaded, the transaction   *)
(* context and the debug session.  A command that does more than one thing *)
(* that matters takes several steps, and an interrupt may come between     *)
(* them.  An include line splices with Includes.tla's own steps.           *)
(***************************************************************************)
EXTENDS Definitions, SequencesExt

CONSTANTS
    Spellings, Resolve, NotFound, Unreadable, NoOrigin,   \* as in Includes
    Text,                \* the text of each include file
    Bindings,            \* the def commands that may be typed
    NoContext, NoSession,
    Users                \* who may be at the prompt

\* What a user types: declarations, include lines and transaction files (how
\* many inputs each has); how many tasks a debugged evaluation has at most,
\* and whether the user presses Ctrl-C.
ASSUME UsersAreUsers ==
    \A u \in Users :
        /\ u.interrupts \in BOOLEAN
        /\ \A d \in u.lines : d.kind \in DeclarationKinds
        /\ u.spellings \subseteq Spellings
        /\ \A c \in u.contexts : c.inputs \in Nat \ {0}
        /\ u.tasks \in Nat

\* What a file may hold and where a spelling may lead.
IsItem(item) ==
    IF item.kind = "include" THEN item.spelling \in Spellings
    ELSE item.kind \in DeclarationKinds

ASSUME FilesHoldItems ==
    /\ NotFound \notin DOMAIN Text
    /\ \A spelling \in Spellings : Resolve[spelling] \in DOMAIN Text \cup {NotFound}
    /\ \A file \in DOMAIN Text :
          Text[file] # Unreadable =>
              /\ Text[file] \in Seq(Range(Text[file]))
              /\ \A i \in 1..Len(Text[file]) : IsItem(Text[file][i])

VARIABLES
    user,                         \* who is at the prompt, the whole session
    names, defs, loaded,          \* the namespace
    context, context_path, input_index,
    session,                      \* the tasks left and whether it is poisoned
    running,                      \* "prompt" or the command that is running
    said,                         \* what the last command ended in
    snapshot,                     \* what an include line began from
    source, before, stack, chain, result, outcome,   \* its splice
    queue,                        \* its declarations still to add
    todo,                         \* the tasks a stepping command has to do
    dropped,                      \* names removed by undef (history)
    torn                          \* an include line was cut short (history)

namespace == <<names, defs, loaded>>
transaction == <<context, context_path, input_index>>
splice == <<source, before, stack, chain, result, outcome>>
include == <<snapshot, splice, queue>>
vars == <<user, namespace, transaction, session, running, said, include, todo, dropped, torn>>

Splicing == INSTANCE Includes WITH
                text <- Text, Texts <- {Text}, Sources <- {}, Scopes <- {}

\* An include line's locals between include lines.
NothingIncluded == [defs |-> NoDefinitions, loaded |-> {}]

ForgetInclude ==
    /\ snapshot' = NothingIncluded
    /\ source' = <<>> /\ before' = {} /\ stack' = <<>> /\ chain' = <<>>
    /\ result' = <<>> /\ outcome' = "done"
    /\ queue' = <<>>

Init ==
    /\ user \in Users
    /\ names = <<>> /\ defs = NoDefinitions /\ loaded = {}
    /\ context = NoContext /\ context_path = NoContext /\ input_index = 0
    /\ session = NoSession
    /\ running = "prompt" /\ said = "nothing"
    /\ snapshot = NothingIncluded
    /\ source = <<>> /\ before = {} /\ stack = <<>> /\ chain = <<>>
    /\ result = <<>> /\ outcome = "done"
    /\ queue = <<>> /\ todo = 0
    /\ dropped = {} /\ torn = FALSE

\* A command ends: with nothing to say, an error, or an interrupt.
Return(message) == running' = "prompt" /\ said' = message

-----------------------------------------------------------------------------
(* Declarations and bindings. *)

\* A declaration line: Definitions.add assigns once, at its end.
DeclareLine ==
    /\ running = "prompt"
    /\ \E d \in user.lines :
          LET error == AddError(defs, d, DOMAIN names)
          IN  /\ Return(error)
              /\ defs' = IF error = "none" THEN Added(defs, d) ELSE defs
    /\ UNCHANGED <<user, names, loaded, transaction, session, include, todo, dropped, torn>>

\* Defect: the compiler's definitions are not looked at.
BindableOverDefinitions(b) ==
    b.name \notin Reserved /\ b.mentions \subseteq DOMAIN names

\* A binding may replace one of its own kind.
Bindable(b) ==
    /\ b.name \notin Reserved \cup Defined(defs)
    /\ b.mentions \subseteq DOMAIN names

Def ==
    /\ running = "prompt"
    /\ \E b \in Bindings :
          /\ Return(IF Bindable(b) THEN "none" ELSE "error")
          /\ names' = IF Bindable(b) THEN Put(names, b) ELSE names
    /\ UNCHANGED <<user, defs, loaded, transaction, session, include, todo, dropped, torn>>

Without(space, name) == [n \in DOMAIN space \ {name} |-> space[n]]
SearchOrder == <<"functions", "inlines", "constants">>
Holder(name) ==
    SearchOrder[Min({k \in 1..Len(SearchOrder) : name \in DOMAIN defs[SearchOrder[k]]})]

\* The first space that holds the name loses it.
Undef ==
    /\ running = "prompt"
    /\ \E name \in DOMAIN names \cup Defined(defs) :
          /\ dropped' = dropped \cup {name}
          /\ IF name \in DOMAIN names
             THEN names' = Without(names, name) /\ UNCHANGED defs
             ELSE /\ defs' = [defs EXCEPT ![Holder(name)] = Without(@, name)]
                  /\ UNCHANGED names
    /\ Return("none")
    /\ UNCHANGED <<user, loaded, transaction, session, include, todo, torn>>

-----------------------------------------------------------------------------
(* An include line: its file is spliced whole, then its declarations are   *)
(* added one by one.                                                       *)

IncludeLine ==
    /\ running = "prompt"
    /\ \E spelling \in user.spellings : source' = <<[kind |-> "include", spelling |-> spelling]>>
    /\ running' = "including"
    /\ snapshot' = [defs |-> defs, loaded |-> loaded]
    /\ before' = loaded
    /\ stack' = Splicing!Entries(source', NoOrigin)
    /\ chain' = <<>> /\ result' = <<>> /\ outcome' = "splicing" /\ queue' = <<>>
    /\ UNCHANGED <<user, namespace, transaction, session, said, todo, dropped, torn>>

\* Defect: what was loaded stays loaded.
RestoreDefinitions == defs' = snapshot.defs /\ UNCHANGED loaded

\* Defect: the session starts over.
RestoreNothing == defs' = NoDefinitions /\ loaded' = snapshot.loaded

\* The handler of a CompileError.
Restore == defs' = snapshot.defs /\ loaded' = snapshot.loaded

Splice ==
    /\ running = "including"
    /\ outcome = "splicing"
    /\ Splicing!Next
    /\ queue' = IF outcome' = "done" THEN result ELSE queue
    /\ UNCHANGED <<user, names, defs, transaction, session, running, said, snapshot, todo, dropped, torn>>

SpliceFailed ==
    /\ running = "including"
    /\ outcome \notin {"splicing", "done"}
    /\ Restore
    /\ Return("CompileError")
    /\ ForgetInclude
    /\ UNCHANGED <<user, names, transaction, session, todo, dropped, torn>>

HalfApplied == [defs |-> defs, loaded |-> loaded] # snapshot

\* Only a CompileError restores; any other exception leaves what was added.
AddNext ==
    /\ running = "including"
    /\ outcome = "done" /\ queue # <<>>
    /\ LET d == Head(queue).item
           error == AddError(defs, d, DOMAIN names)
       IN  IF error = "none"
           THEN /\ defs' = Added(defs, d)
                /\ queue' = Tail(queue)
                /\ UNCHANGED <<loaded, running, said, snapshot, splice, torn>>
           ELSE /\ IF error = "CompileError" THEN Restore ELSE UNCHANGED <<defs, loaded>>
                /\ torn' = (torn \/ (error # "CompileError" /\ HalfApplied))
                /\ ForgetInclude
                /\ Return(error)
    /\ UNCHANGED <<user, names, transaction, session, todo, dropped>>

IncludeDone ==
    /\ running = "including"
    /\ outcome = "done" /\ queue = <<>>
    /\ Return("none")
    /\ ForgetInclude
    /\ UNCHANGED <<user, namespace, transaction, session, todo, dropped, torn>>

-----------------------------------------------------------------------------
(* The transaction context.                                                *)

\* The context is assigned when it has been loaded, then the rest.
LoadContext ==
    /\ running = "prompt"
    /\ context' \in user.contexts
    /\ running' = "loading"
    /\ UNCHANGED <<user, namespace, context_path, input_index, session, said, include, todo, dropped, torn>>

ContextLoaded ==
    /\ running = "loading"
    /\ context_path' = context.path
    /\ input_index' = 0
    /\ Return("none")
    /\ UNCHANGED <<user, namespace, context, session, include, todo, dropped, torn>>

SelectInput ==
    /\ running = "prompt"
    /\ context # NoContext
    /\ \E n \in 0..context.inputs :
          IF n < context.inputs THEN input_index' = n /\ Return("none")
          ELSE Return("error") /\ UNCHANGED input_index
    /\ UNCHANGED <<user, namespace, context, context_path, session, include, todo, dropped, torn>>

-----------------------------------------------------------------------------
(* The debugger.                                                           *)

IsFinished(machine) == machine.poisoned \/ machine.left = 0

\* debug: one session is open at a time.
OpenSession ==
    /\ running = "prompt"
    /\ IF session # NoSession THEN Return("error") /\ UNCHANGED session
       ELSE /\ \E n \in 1..user.tasks : session' = [left |-> n, poisoned |-> FALSE]
            /\ Return("none")
    /\ UNCHANGED <<user, namespace, transaction, include, todo, dropped, torn>>

\* step takes one task, next the pending one's subtree, cont and trace all.
Step ==
    /\ running = "prompt"
    /\ session # NoSession
    /\ running' = "stepping"
    /\ todo' \in 1..session.left
    /\ UNCHANGED <<user, namespace, transaction, session, said, include, dropped, torn>>

ExecuteTask ==
    /\ running = "stepping"
    /\ todo > 0
    /\ todo' = todo - 1
    /\ session' = [session EXCEPT !.left = @ - 1]
    /\ UNCHANGED <<user, namespace, transaction, running, said, include, dropped, torn>>

AfterStepping ==
    /\ running = "stepping"
    /\ todo = 0
    /\ session' = IF IsFinished(session) THEN NoSession ELSE session
    /\ Return("none")
    /\ UNCHANGED <<user, namespace, transaction, include, todo, dropped, torn>>

Abort ==
    /\ running = "prompt"
    /\ session # NoSession
    /\ session' = NoSession
    /\ Return("none")
    /\ UNCHANGED <<user, namespace, transaction, include, todo, dropped, torn>>

-----------------------------------------------------------------------------
(* Interrupts: _survives catches them and drops a finished session.        *)

Kept(machine) ==
    IF machine # NoSession /\ IsFinished(machine) THEN NoSession ELSE machine

\* Inside a task: the machine poisons itself.
InterruptTask ==
    /\ user.interrupts
    /\ running = "stepping" /\ todo > 0
    /\ session' = Kept([session EXCEPT !.poisoned = TRUE])
    /\ todo' = 0
    /\ Return("interrupted")
    /\ UNCHANGED <<user, namespace, transaction, include, dropped, torn>>

\* Anywhere else in a command.
InterruptCommand ==
    /\ user.interrupts
    /\ running # "prompt"
    /\ session' = Kept(session)
    /\ torn' = (torn \/ (running = "including" /\ HalfApplied))
    /\ ForgetInclude
    /\ todo' = 0
    /\ Return("interrupted")
    /\ UNCHANGED <<user, namespace, transaction, dropped>>

-----------------------------------------------------------------------------
Command ==
    \/ DeclareLine \/ Def \/ Undef \/ IncludeLine
    \/ LoadContext \/ SelectInput \/ OpenSession \/ Step \/ Abort

\* What a running command does next, left alone.
Continue ==
    \/ Splice \/ SpliceFailed \/ AddNext \/ IncludeDone
    \/ ContextLoaded \/ ExecuteTask \/ AfterStepping

Next == Command \/ Continue \/ InterruptTask \/ InterruptCommand

Spec == Init /\ [][Next]_vars

-----------------------------------------------------------------------------
(* Correctness. *)

AtPrompt == running = "prompt"

\* One spelling never means two things: a name is in one space at most, and
\* never the language's own, through definitions, includes that fail half
\* way, removals and interrupts.
OneMeaning ==
    /\ DOMAIN names \cap Defined(defs) = {}
    /\ \A s, t \in Spaces : s # t => DOMAIN defs[s] \cap DOMAIN defs[t] = {}
    /\ Reserved \cap (DOMAIN names \cup Defined(defs)) = {}

DeclarationsIn(file) ==
    {Text[file][i] : i \in {i \in 1..Len(Text[file]) : Text[file][i].kind # "include"}}

\* What the session takes for loaded it has: every declaration of a loaded
\* file is there unless undef removed the name, so a repeated include that
\* is skipped leaves nothing out.  A line cut short by anything but a
\* CompileError breaks this, and from then on nothing is claimed.
LoadedIsDeclared ==
    AtPrompt /\ ~torn =>
        \A file \in loaded : \A d \in DeclarationsIn(file) :
            d.name \in dropped \/ d \in Bodies(defs, Spaces)

\* A declaration is never replaced, and goes only by its undef or with the
\* failed include line that had just brought it: taking that back leaves
\* what was there before alone.
DeclarationsStay ==
    [][\A d \in Bodies(defs, Spaces) \ Bodies(defs', Spaces) :
          /\ d.name \notin Defined(defs')
          /\ AtPrompt \/ d \notin Bodies(snapshot.defs, Spaces)]_vars

-----------------------------------------------------------------------------
(* What the documents promise. *)

\* repl.py, _declare: a failed include line restores the session whole,
\* applying nothing.
FailedIncludeAppliesNothing ==
    [][running = "including" /\ running' = "prompt" /\ said' # "none" =>
          defs' = snapshot.defs /\ loaded' = snapshot.loaded]_vars

-----------------------------------------------------------------------------
\* What the namespace is between commands: an include line that is under way
\* has changed nothing yet.
VisibleDefs == IF running = "including" THEN snapshot.defs ELSE defs
VisibleLoaded == IF running = "including" THEN snapshot.loaded ELSE loaded

\* A session nobody interrupts.
Seen(value, initial) == IF user.interrupts THEN initial ELSE value

Atomic == INSTANCE AtomicNamespace WITH
            Lines <- UNION {u.lines : u \in Users},
            bound <- Seen(names, <<>>),
            declared <- Seen(Bodies(VisibleDefs, Spaces), {}),
            loaded <- Seen(VisibleLoaded, {})

\* The namespace implements the atomic one when no include line is cut short
\* by an interrupt or by Python's recursion limit.
NamespaceIsAtomic == Atomic!Spec
=============================================================================
