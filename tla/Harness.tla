------------------------------ MODULE Harness ------------------------------
(***************************************************************************)
(* The mutation harness (tools/mutate.py) and the corpus runner it judges  *)
(* by (tools/run_vectors.py).  After a baseline run of the unmutated tree, *)
(* worker processes take chunks of mutants; each installs one mutant in    *)
(* its mirror of the tree, runs the oracles there and restores the module. *)
(* The main process collects the chunks in order and reports.              *)
(*                                                                         *)
(* A source is an original module, a mutant, or what a write that failed   *)
(* left; it is what it makes of each vector case and of the pytest suite:  *)
(* "pass", "fail", "escape" (an exception outside the taxonomy) or "hang". *)
(***************************************************************************)
EXTENDS Naturals, FiniteSetsExt, SequencesExt

CONSTANTS
    Workers, Main,        \* the pool's processes and the main process
    None,                 \* _MIRROR before a mirror is built
    Modules, ModuleOf,    \* the package's modules, and that of each mutant
    Original, Damaged,    \* the other sources
    Inventory,            \* the mutants, in order
    ChunkSize,
    Corpus,               \* the cases of each vector file, in order
    Suite,                \* the pytest suite, one more thing to pass
    Effects               \* what the sources may do

VARIABLES
    effect,               \* what each source does, fixed
    tests,                \* the flag --tests, fixed
    main,                 \* "baseline", "start", "pool", "done" or "raised"
    status,               \* the exit status, 0 to start with
    order,                \* the vector files, cheapest first
    mine,                 \* _MIRROR of each process: the root it works in
    mirror,               \* the source of each module under each root
    next,                 \* the next chunk of the work queue
    broken,               \* a worker has died and the pool with it
    worker,               \* what each worker is doing
    chunks,               \* what has come of each chunk
    taken,                \* the chunks that main has collected
    results               \* main's results

vars == <<effect, tests, main, status, order, mine, mirror, next, broken,
          worker, chunks, taken, results>>
fixed == <<effect, tests>>

Mutants == Range(Inventory)
Sources == Mutants \cup {Original, Damaged}
Files == DOMAIN Corpus
Cases == UNION {Range(Corpus[f]) : f \in Files}
Outcomes == {"pass", "fail", "escape", "hang"}
Pristine == [m \in Modules |-> Original]

ASSUME ProcessesDiffer == Main \notin Workers /\ None \notin Workers \cup {Main}
ASSUME MutantsHaveModules ==
    Inventory \in Seq(Mutants) /\ \A m \in Mutants : ModuleOf[m] \in Modules
ASSUME ChunksAreNotEmpty == ChunkSize \in Nat \ {0}
ASSUME FilesHoldCases == IsFiniteSet(Files) /\ \A f \in Files : Corpus[f] \in Seq(Cases)
ASSUME EffectsAreOutcomes ==
    \A e \in Effects, s \in Sources, c \in Cases \cup {Suite} : e[s][c] \in Outcomes

NumChunks == (Len(Inventory) + ChunkSize - 1) \div ChunkSize
Chunk(i) == SubSeq(Inventory, (i - 1) * ChunkSize + 1, Min({i * ChunkSize, Len(Inventory)}))

Idle == [stage |-> "idle", chunk |-> 0, todo |-> <<>>, made |-> <<>>]

Init ==
    /\ effect \in Effects
    /\ tests \in BOOLEAN
    /\ main = "baseline" /\ status = 0
    /\ order = <<>>
    /\ mine = [p \in Workers \cup {Main} |-> None]
    /\ mirror = [p \in Workers \cup {Main} |-> Pristine]
    /\ next = 1 /\ broken = FALSE
    /\ worker = [w \in Workers |-> Idle]
    /\ chunks = [i \in 1..NumChunks |-> [state |-> "pending", results |-> <<>>]]
    /\ taken = 0 /\ results = <<>>

-----------------------------------------------------------------------------
(* The oracles, over a tree: the sources of its modules. *)

\* A module that misbehaves decides; two never do at once in a mirror that
\* its worker alone writes and restores.
Outcome(tree, c) ==
    LET odd == {effect[s][c] : s \in tree} \ {"pass"}
    IN  IF odd = {} THEN "pass" ELSE CHOOSE o \in odd : TRUE

\* The loop over a file's cases and the one over the files: the first
\* failure is the verdict and ends it, an escaped exception waits for what
\* is left.
Judge(outcomes) ==
    LET ends == {i \in DOMAIN outcomes : outcomes[i] \in {"fail", "hang"}}
    IN  IF ends # {} THEN outcomes[Min(ends)]
        ELSE IF \E i \in DOMAIN outcomes : outcomes[i] = "escape" THEN "escape"
        ELSE "pass"

run_file(tree, f) == Judge([i \in DOMAIN Corpus[f] |-> Outcome(tree, Corpus[f][i])])
corpus_driver(tree, files) == Judge([i \in DOMAIN files |-> run_file(tree, files[i])])

\* Defect: the subprocess is waited for.
VerdictsUntimed(outcome) ==
    CASE outcome = "pass" -> {"survived"} [] outcome = "fail" -> {"killed"}
      [] outcome = "escape" -> {"crashed"} [] outcome = "hang" -> {}

\* _run: any run may overrun its time, and one that hangs does.
Verdicts(outcome) ==
    {"timeout"} \cup CASE outcome = "pass" -> {"survived"}
                       [] outcome = "fail" -> {"killed"}
                       [] outcome = "escape" -> {"crashed"}
                       [] outcome = "hang" -> {}

-----------------------------------------------------------------------------
(* The main process. *)

\* Defect: the baseline runs in the mirror that _mirror keeps.
BaselineInMirror ==
    /\ main = "baseline"
    /\ \E files \in SetToSeqs(Files) :
         /\ main' = "start" /\ order' = files
         /\ mine' = [mine EXCEPT ![Main] = Main]
    /\ UNCHANGED <<fixed, status, mirror, next, broken, worker, chunks, taken, results>>

\* baseline_order: every oracle the mutants will face, in a mirror of its
\* own.  The times it measures may order the files in any way.
Baseline ==
    /\ main = "baseline"
    /\ \E corpus \in Verdicts(corpus_driver({Original}, SetToSeq(Files))),
          suite \in Verdicts(Outcome({Original}, Suite)),
          files \in SetToSeqs(Files) :
         IF corpus = "survived" /\ (tests => suite = "survived")
         THEN main' = "start" /\ order' = files /\ UNCHANGED status
         ELSE main' = "done" /\ status' = 2 /\ UNCHANGED order
    /\ UNCHANGED <<fixed, mine, mirror, next, broken, worker, chunks, taken, results>>

\* The pool's processes are forked: each has main's globals.
StartPool ==
    /\ main = "start"
    /\ main' = "pool"
    /\ mine' = [p \in DOMAIN mine |-> mine[Main]]
    /\ UNCHANGED <<fixed, status, order, mirror, next, broken, worker, chunks, taken, results>>

Collect ==
    /\ main = "pool"
    /\ taken < NumChunks /\ chunks[taken + 1].state = "made"
    /\ results' = results \o chunks[taken + 1].results
    /\ taken' = taken + 1
    /\ UNCHANGED <<fixed, main, status, order, mine, mirror, next, broken, worker, chunks>>

\* Defect: a chunk that raised is passed over.
CollectRaisedSkipped ==
    /\ main = "pool"
    /\ taken < NumChunks /\ chunks[taken + 1].state = "raised"
    /\ taken' = taken + 1
    /\ UNCHANGED <<fixed, main, status, order, mine, mirror, next, broken, worker, chunks, results>>

\* A chunk's exception, or the broken pool's, leaves main; the work not yet
\* begun is cancelled.
CollectRaised ==
    /\ main = "pool"
    /\ taken < NumChunks
    /\ \/ chunks[taken + 1].state = "raised"
       \/ chunks[taken + 1].state = "pending" /\ broken
    /\ main' = "raised" /\ status' = 1
    /\ next' = NumChunks + 1
    /\ UNCHANGED <<fixed, order, mine, mirror, broken, worker, chunks, taken, results>>

Report ==
    /\ main = "pool"
    /\ taken = NumChunks
    /\ main' = "done"
    /\ status' = IF \E i \in DOMAIN results : results[i].corpus = "survived" THEN 1 ELSE 0
    /\ UNCHANGED <<fixed, order, mine, mirror, next, broken, worker, chunks, taken, results>>

-----------------------------------------------------------------------------
(* A worker, evaluating the mutants of its chunk in turn. *)

TakeChunk(w) ==
    /\ main \in {"pool", "raised"} /\ ~broken
    /\ worker[w].stage = "idle" /\ next <= NumChunks
    /\ worker' = [worker EXCEPT ![w] = [stage |-> "install", chunk |-> next, todo |-> Chunk(next), made |-> <<>>]]
    /\ next' = next + 1
    /\ UNCHANGED <<fixed, main, status, order, mine, mirror, broken, chunks, taken, results>>

At(w, stage) == worker[w].stage = stage
Mutant(w) == Head(worker[w].todo)
Root(w) == IF mine[w] = None THEN w ELSE mine[w]
Write(w, source) == mirror' = [mirror EXCEPT ![Root(w)][ModuleOf[Mutant(w)]] = source]
Tree(w) == Range(mirror[Root(w)])

\* The chunk ends with what it has become.
Finish(w, state, made) ==
    /\ chunks' = [chunks EXCEPT ![worker[w].chunk] = [state |-> state, results |-> made]]
    /\ worker' = [worker EXCEPT ![w] = Idle]

WorkerStep == UNCHANGED <<fixed, main, status, order, next, broken, taken, results>>

\* The first call of _mirror builds the mirror.
Install(w) ==
    /\ At(w, "install")
    /\ mine' = [mine EXCEPT ![w] = Root(w)]
    /\ Write(w, Mutant(w))
    /\ worker' = [worker EXCEPT ![w].stage = "corpus"]
    /\ WorkerStep /\ UNCHANGED chunks

\* The write is before the try: what it left stays.
InstallFails(w) ==
    /\ At(w, "install")
    /\ mine' = [mine EXCEPT ![w] = Root(w)]
    /\ Write(w, Damaged)
    /\ Finish(w, "raised", <<>>)
    /\ WorkerStep

RunCorpus(w) ==
    /\ At(w, "corpus")
    /\ \E verdict \in Verdicts(corpus_driver(Tree(w), order)) :
         worker' = [worker EXCEPT ![w].stage = IF tests /\ verdict = "survived" THEN "suite" ELSE "restore",
                                  ![w].made = Append(@, [mutant |-> Mutant(w), corpus |-> verdict, tests |-> "none"])]
    /\ WorkerStep /\ UNCHANGED <<mine, mirror, chunks>>

RunSuite(w) ==
    /\ At(w, "suite")
    /\ \E verdict \in Verdicts(Outcome(Tree(w), Suite)) :
         worker' = [worker EXCEPT ![w].stage = "restore", ![w].made[Len(worker[w].made)].tests = verdict]
    /\ WorkerStep /\ UNCHANGED <<mine, mirror, chunks>>

Restore(w) ==
    /\ At(w, "restore")
    /\ Write(w, Original)
    /\ IF Len(worker[w].todo) > 1
       THEN /\ worker' = [worker EXCEPT ![w].stage = "install", ![w].todo = Tail(@)]
            /\ UNCHANGED chunks
       ELSE Finish(w, "made", worker[w].made)
    /\ WorkerStep /\ UNCHANGED mine

\* So does a copy that fails half way.
RestoreFails(w) ==
    /\ At(w, "restore")
    /\ Write(w, Damaged)
    /\ Finish(w, "raised", <<>>)
    /\ WorkerStep /\ UNCHANGED mine

\* A worker killed by the system breaks the pool, which ends the others.
Die(w) ==
    /\ main \in {"pool", "raised"} /\ ~broken
    /\ broken' = TRUE
    /\ worker' = [v \in Workers |-> Idle]
    /\ UNCHANGED <<fixed, main, status, order, mine, mirror, next, chunks, taken, results>>

Evaluate(w) == TakeChunk(w) \/ Install(w) \/ RunCorpus(w) \/ RunSuite(w) \/ Restore(w)
MainStep == Baseline \/ StartPool \/ Collect \/ CollectRaised \/ Report

Next ==
    \/ MainStep
    \/ \E w \in Workers : Evaluate(w) \/ InstallFails(w) \/ RestoreFails(w) \/ Die(w)

Spec == Init /\ [][Next]_vars

\* Every process that can go on does: an oracle's run ends by itself or by
\* its timeout.  Failures are not promised.
FairSpec ==
    /\ Spec
    /\ WF_vars(MainStep)
    /\ \A w \in Workers : WF_vars(Evaluate(w))

-----------------------------------------------------------------------------
(* Correctness. *)

\* What the corpus makes of a source that does this, whatever the order of
\* the files: a failing case outranks an escaped exception, and a timeout
\* may hide either, but a source that hangs is never taken for harmless.
OwnVerdicts(does, cases) ==
    LET seen == {does[c] : c \in cases}
    IN  {"timeout"} \cup IF "fail" \in seen THEN {"killed"}
                        ELSE IF "hang" \in seen THEN {}
                        ELSE IF "escape" \in seen THEN {"crashed"} ELSE {"survived"}

\* A result that is the mutant's own, with the suite run or not.
JudgedAs(mutant, does, withSuite, r) ==
    /\ r.mutant = mutant
    /\ r.corpus \in OwnVerdicts(does, Cases)
    /\ IF withSuite /\ r.corpus = "survived" THEN r.tests \in OwnVerdicts(does, {Suite})
       ELSE r.tests = "none"

\* The unmutated tree passes whatever the mutants are to face.
OriginalPasses ==
    \A c \in Cases \cup (IF tests THEN {Suite} ELSE {}) : effect[Original][c] = "pass"

\* The results are those of the inventory's mutants in order, each judged by
\* what it does alone: never by what another mutant, another worker or a
\* write that failed left in a mirror, and never by an oracle that fails on
\* the unmutated tree as well.
JudgedAlone ==
    /\ results # <<>> => OriginalPasses
    /\ \A i \in DOMAIN results :
          JudgedAs(Inventory[i], effect[Inventory[i]], tests, results[i])

\* Exit status 0 after a run says that every mutant was judged and that none
\* survived the corpus, on a tree that passes it.
ZeroMeansCaught ==
    main = "done" /\ status = 0 =>
        /\ Len(results) = Len(Inventory)
        /\ \A i \in DOMAIN results : results[i].corpus # "survived"
        /\ OwnVerdicts(effect[Original], Cases) \ {"timeout"} = {"survived"}

\* The harness ends, whichever mutants hang and whoever fails.
EveryRunEnds == <>(main \in {"done", "raised"})
=============================================================================
