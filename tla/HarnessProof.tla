---------------------------- MODULE HarnessProof ----------------------------
(***************************************************************************)
(* The mutation harness judges every mutant alone, for any number of       *)
(* workers, mutants, modules and cases.  The inductive invariant says who  *)
(* owns which mirror and which chunk (Ownership), where each worker is in  *)
(* its chunk (Progress), what its mirror holds there (Mirrors) and what    *)
(* the judgements made so far are worth (Judgements), except behind a      *)
(* chunk that raised, which main never collects past.                      *)
(***************************************************************************)
EXTENDS Harness, CostsProof, FiniteSetTheorems, SequenceTheorems

Processes == Workers \cup {Main}
VerdictNames == {"timeout", "survived", "killed", "crashed"}
Judgement == [mutant : Mutants, corpus : VerdictNames, tests : VerdictNames \cup {"none"}]
Stages == {"idle", "install", "corpus", "suite", "restore"}
WorkerState == [stage : Stages, chunk : Nat, todo : Seq(Mutants), made : Seq(Judgement)]
ChunkState == [state : {"pending", "made", "raised"}, results : Seq(Judgement)]

TypeOK ==
    /\ effect \in Effects
    /\ tests \in BOOLEAN
    /\ main \in {"baseline", "start", "pool", "done", "raised"}
    /\ status \in {0, 1, 2}
    /\ mine \in [Processes -> Processes \cup {None}]
    /\ mirror \in [Processes -> [Modules -> Sources]]
    /\ next \in 1..(NumChunks + 1)
    /\ broken \in BOOLEAN
    /\ worker \in [Workers -> WorkerState]
    /\ chunks \in [1..NumChunks -> ChunkState]
    /\ taken \in 0..NumChunks
    /\ results \in Seq(Judgement)

Busy(w) == worker[w].stage # "idle"

\* A process works in its own mirror, and on a chunk that it alone holds.
Ownership ==
    /\ mine[Main] = None
    /\ \A w \in Workers : mine[w] \in {None, w}
    /\ \A c \in 1..NumChunks : c >= next => chunks[c].state = "pending"
    /\ \A w \in Workers : Busy(w) =>
          /\ ~broken
          /\ worker[w].chunk \in 1..NumChunks
          /\ worker[w].chunk < next
          /\ chunks[worker[w].chunk].state = "pending"
    /\ \A v, w \in Workers : Busy(v) /\ Busy(w) /\ v # w => worker[v].chunk # worker[w].chunk

\* The mutants of its chunk that a worker has begun to judge.
Begun(me) == Len(Chunk(me.chunk)) - Len(me.todo)

InPlace(me) ==
    /\ Len(me.todo) > 0
    /\ Begun(me) >= 0
    /\ \A j \in 1..Len(me.todo) : me.todo[j] = Chunk(me.chunk)[Begun(me) + j]
    /\ Len(me.made) = IF me.stage \in {"suite", "restore"} THEN Begun(me) + 1 ELSE Begun(me)

Progress == \A w \in Workers : Busy(w) => InPlace(worker[w])

\* An earlier chunk has raised: main will not collect this one.
Faulted(all, chunk) == \E c \in 1..NumChunks : c < chunk /\ all[c].state = "raised"

Installed(m) == [Pristine EXCEPT ![ModuleOf[m]] = m]

Mirrors ==
    \A w \in Workers :
        IF Busy(w)
        THEN Faulted(chunks, worker[w].chunk) \/
             mirror[w] = IF worker[w].stage = "install" THEN Pristine
                         ELSE Installed(Head(worker[w].todo))
        ELSE broken \/ Faulted(chunks, next) \/ mirror[w] = Pristine

\* Judged by the corpus and not yet by the suite.
HalfJudged(mutant, does, withSuite, r) ==
    /\ withSuite
    /\ r.mutant = mutant
    /\ r.corpus = "survived" /\ r.corpus \in OwnVerdicts(does, Cases)

\* The judgements of a worker in its chunk.
MadeJudged(me, does, withSuite) ==
    \A j \in 1..Len(me.made) :
        LET m == Chunk(me.chunk)[j]
        IN  IF me.stage = "suite" /\ j = Len(me.made)
            THEN HalfJudged(m, does[m], withSuite, me.made[j])
            ELSE JudgedAs(m, does[m], withSuite, me.made[j])

\* The judgements of a whole chunk.
ChunkJudged(c, made, does, withSuite) ==
    \A j \in 1..Len(Chunk(c)) : JudgedAs(Chunk(c)[j], does[Chunk(c)[j]], withSuite, made[j])

Judgements ==
    /\ \A w \in Workers : Busy(w) =>
          Faulted(chunks, worker[w].chunk) \/ MadeJudged(worker[w], effect, tests)
    /\ \A c \in 1..NumChunks : chunks[c].state = "made" =>
          /\ Len(chunks[c].results) = Len(Chunk(c))
          /\ Faulted(chunks, c) \/ ChunkJudged(c, chunks[c].results, effect, tests)

\* The baseline has passed.
Baselined == main \in {"start", "pool", "raised"} \/ (main = "done" /\ status # 2)

BaselineFirst ==
    /\ Baselined => OriginalPasses /\ order \in SetToSeqs(Files)
    /\ ~Baselined => results = <<>> /\ \A w \in Workers : ~Busy(w)

\* What main has collected is the beginning of the inventory, judged.
Collected ==
    /\ \A c \in 1..taken : chunks[c].state = "made"
    /\ \A i \in 1..Len(results) : i <= Len(Inventory) /\ JudgedAs(Inventory[i], effect[Inventory[i]], tests, results[i])
    /\ Len(results) = IF taken < NumChunks THEN taken * ChunkSize ELSE Len(Inventory)
    /\ main = "done" /\ status = 0 =>
          taken = NumChunks /\ \A i \in 1..Len(results) : results[i].corpus # "survived"

IInv ==
    /\ TypeOK /\ Ownership /\ Progress /\ Mirrors /\ Judgements
    /\ BaselineFirst /\ Collected

-----------------------------------------------------------------------------
(* Chunks. *)

\* Rounding up covers the inventory and leaves no chunk empty.
LEMMA NumChunksRoundsUp ==
    /\ NumChunks \in Nat
    /\ NumChunks * ChunkSize >= Len(Inventory)
    /\ (NumChunks - 1) * ChunkSize < Len(Inventory)
<1> DEFINE n == Len(Inventory)
           k == ChunkSize
           x == n + k - 1
<1>1. n \in Nat /\ k \in Nat /\ k > 0 /\ x \in Nat
  BY MutantsHaveModules, ChunksAreNotEmpty
<1> HIDE DEF n, k
<1>2. x = k * (x \div k) + (x % k) /\ 0 <= x % k /\ x % k < k /\ x \div k \in Int
  BY <1>1
<1>3. \A q \in Int : x = k * q + (x % k) => q >= 0 /\ q * k >= n /\ (q - 1) * k < n
  <2> DEFINE r == x % k
  <2> TAKE q \in Int
  <2> HAVE x = k * q + r
  <2>1. r \in Int /\ 0 <= r /\ r < k
    BY <1>1, <1>2
  <2> HIDE DEF r
  <2>2. k * q = q * k /\ (q - 1) * k = q * k - k
    BY <1>1
  <2>3. k * q >= n /\ k * q - k < n
    BY <1>1, <2>1
  <2>4. q >= 0
    <3>1. q < 0 => k * q <= -k
      BY <1>1
    <3> QED BY <1>1, <2>3, <3>1
  <2> QED BY <2>2, <2>3, <2>4
<1> QED
  BY <1>2, <1>3 DEF NumChunks, n, k

\* The smaller of two numbers, where a chunk ends.
LEMMA MinOfTwo ==
    ASSUME NEW a \in Nat, NEW b \in Nat
    PROVE  Min({a, b}) = IF a <= b THEN a ELSE b
  BY DEF Min

\* A product with a natural number grows with its other factor.
LEMMA ProductGrows ==
    ASSUME NEW a \in Int, NEW b \in Int, a <= b, NEW k \in Nat
    PROVE  a * k \in Int /\ b * k \in Int /\ a * k <= b * k
<1>1. (b - a) * k >= 0 /\ (b - a) * k = b * k - a * k
  OBVIOUS
<1> QED
  BY <1>1

\* Chunks are consecutive pieces of the inventory, none of them empty and
\* all but the last of the full size.
LEMMA ChunkIsPiece ==
    ASSUME NEW c \in 1..NumChunks
    PROVE  /\ Chunk(c) \in Seq(Mutants)
           /\ (c - 1) * ChunkSize \in Nat
           /\ c * ChunkSize = (c - 1) * ChunkSize + ChunkSize
           /\ c < NumChunks => c * ChunkSize <= Len(Inventory)
           /\ Len(Chunk(c)) = (IF c < NumChunks THEN c * ChunkSize ELSE Len(Inventory))
                                 - (c - 1) * ChunkSize
           /\ Len(Chunk(c)) \in Nat \ {0}
           /\ \A j \in 1..Len(Chunk(c)) :
                 /\ (c - 1) * ChunkSize + j \in 1..Len(Inventory)
                 /\ Chunk(c)[j] = Inventory[(c - 1) * ChunkSize + j]
<1> DEFINE n == Len(Inventory)
           k == ChunkSize
           first == (c - 1) * k
           last == IF c < NumChunks THEN c * k ELSE n
<1>1. n \in Nat /\ k \in Nat /\ k > 0 /\ NumChunks \in Nat /\ Inventory \in Seq(Mutants)
  BY MutantsHaveModules, ChunksAreNotEmpty, NumChunksRoundsUp
<1>2. first \in Nat /\ c * k \in Nat /\ c * k = first + k
  <2>1. (c - 1) * k = c * k - k /\ c * k \in Int
    BY <1>1
  <2>2. 0 * k = 0 /\ 0 * k <= (c - 1) * k
    BY <1>1, ProductGrows
  <2> QED BY <1>1, <2>1, <2>2
<1>3. c < NumChunks => c * k <= n
  <2>1. c < NumChunks => c * k <= (NumChunks - 1) * k
    BY <1>1, ProductGrows
  <2> QED BY <1>1, <1>2, <2>1, NumChunksRoundsUp
<1>4. first < n /\ (c = NumChunks => n <= c * k)
  <2>1. first <= (NumChunks - 1) * k
    BY <1>1, ProductGrows
  <2> QED BY <1>1, <1>2, <2>1, NumChunksRoundsUp
<1>5. Min({c * k, n}) = last /\ last \in Nat /\ last > first /\ last <= n
  <2>1. Min({c * k, n}) = IF c * k <= n THEN c * k ELSE n
    BY <1>1, <1>2, MinOfTwo
  <2> QED BY <1>1, <1>2, <1>3, <1>4, <2>1
<1>6. Chunk(c) = SubSeq(Inventory, first + 1, last)
  BY <1>5 DEF Chunk
<1> HIDE DEF first, last, n, k
<1>7. SubSeq(Inventory, first + 1, last) = [j \in 1..(last - first) |-> Inventory[first + j]]
  BY <1>1, <1>2, <1>5 DEF n
<1>8. \A j \in 1..(last - first) : first + j \in 1..n /\ Inventory[first + j] \in Mutants
  BY <1>1, <1>2, <1>5 DEF n
<1>9. /\ Chunk(c) \in Seq(Mutants)
      /\ Len(Chunk(c)) = last - first
      /\ \A j \in 1..(last - first) : Chunk(c)[j] = Inventory[first + j]
  <2>1. last - first \in Nat
    BY <1>2, <1>5
  <2> DEFINE m == last - first
  <2> HIDE DEF m
  <2>2. [j \in 1..m |-> Inventory[first + j]] \in [1..m -> Mutants]
    BY <1>8 DEF m
  <2>3. m \in Nat
    BY <2>1 DEF m
  <2>4. Chunk(c) = [j \in 1..m |-> Inventory[first + j]]
    BY <1>6, <1>7 DEF m
  <2>5. Chunk(c) \in Seq(Mutants) /\ Len(Chunk(c)) = m
    BY <2>2, <2>3, <2>4
  <2> QED BY <2>4, <2>5 DEF m
<1>10. Len(Chunk(c)) \in Nat \ {0}
  BY <1>2, <1>5, <1>9
<1>11. \A j \in 1..Len(Chunk(c)) : first + j \in 1..n /\ Chunk(c)[j] = Inventory[first + j]
  BY <1>8, <1>9
<1> QED
  BY <1>2, <1>3, <1>9, <1>10, <1>11 DEF first, last, n, k

-----------------------------------------------------------------------------
(* The oracles. *)

\* A set of numbers that is not empty has its Min as a member.
LEMMA MinIsLeast ==
    ASSUME NEW S \in SUBSET Nat, S # {}
    PROVE  Min(S) \in S
<1>1. \E m \in S : \A n \in S : m <= n
  BY LeastElement
<1> QED
  BY <1>1 DEF Min

\* The verdict on a sequence of outcomes is one of them; it passes exactly
\* when they all do, and an escape says that none failed or hung.
LEMMA JudgeDecides ==
    ASSUME NEW n \in Nat, NEW outcomes \in [1..n -> Outcomes]
    PROVE  /\ Judge(outcomes) \in Outcomes
           /\ Judge(outcomes) = "pass" <=> \A i \in 1..n : outcomes[i] = "pass"
           /\ Judge(outcomes) # "pass" => \E i \in 1..n : outcomes[i] = Judge(outcomes)
           /\ Judge(outcomes) = "escape" =>
                 \A i \in 1..n : outcomes[i] \in {"pass", "escape"}
<1> DEFINE ends == {i \in 1..n : outcomes[i] \in {"fail", "hang"}}
<1>1. Judge(outcomes) = IF ends # {} THEN outcomes[Min(ends)]
                        ELSE IF \E i \in 1..n : outcomes[i] = "escape" THEN "escape"
                        ELSE "pass"
  BY DEF Judge
<1>2. ends # {} => Min(ends) \in ends
  <2>1. ends \in SUBSET Nat
    OBVIOUS
  <2> HIDE DEF ends
  <2> QED BY <2>1, MinIsLeast
<1> QED
  BY <1>1, <1>2 DEF Outcomes

\* The files in any order are all the files.
LEMMA OrdersCover ==
    ASSUME NEW S, IsFiniteSet(S)
    PROVE  /\ Cardinality(S) \in Nat
           /\ \A files \in SetToSeqs(S) :
                 /\ files \in [1..Cardinality(S) -> S]
                 /\ \A f \in S : \E i \in 1..Cardinality(S) : files[i] = f
           /\ SetToSeq(S) \in SetToSeqs(S)
<1> DEFINE D == 1..Cardinality(S)
<1>1. Cardinality(S) \in Nat
  BY FS_CardinalityType
<1>2. Cardinality(D) = Cardinality(S)
  BY <1>1, FS_Interval
<1>3. \A files \in SetToSeqs(S) : files \in Injection(D, S)
  BY DEF SetToSeqs, Injection, IsInjective
<1>4. \A files \in Injection(D, S) : files \in Surjection(D, S)
  BY <1>2, FS_Injection
<1>5. SetToSeq(S) \in SetToSeqs(S)
  <2>1. PICK f \in Bijection(D, S) : TRUE
    BY FS_CardinalityType DEF ExistsBijection
  <2>2. f \in [D -> S] /\ IsInjective(f)
    BY <2>1 DEF Bijection, Injection, IsInjective
  <2>3. SetToSeq(S) \in [D -> S] /\ IsInjective(SetToSeq(S))
    BY <2>2 DEF SetToSeq
  <2> QED BY <2>3 DEF SetToSeqs, IsInjective
<1> QED
  BY <1>1, <1>3, <1>4, <1>5 DEF Surjection, SetToSeqs

\* A source beside originals that pass shows what it does alone.
LEMMA SourceDecides ==
    ASSUME effect \in Effects, NEW s \in Sources, NEW c \in Cases \cup {Suite},
           NEW tree \in SUBSET {Original, s}, s \in tree,
           tree = {s} \/ effect[Original][c] = "pass"
    PROVE  Outcome(tree, c) = effect[s][c] /\ effect[s][c] \in Outcomes
<1> DEFINE odd == {effect[t][c] : t \in tree} \ {"pass"}
<1>1. effect[s][c] \in Outcomes
  BY EffectsAreOutcomes
<1>2. odd = {effect[s][c]} \ {"pass"}
  OBVIOUS
<1>3. Outcome(tree, c) = IF odd = {} THEN "pass" ELSE CHOOSE o \in odd : TRUE
  BY DEF Outcome
<1> QED
  BY <1>1, <1>2, <1>3

\* The same for the whole corpus, in any order of its files: what the run
\* of the driver comes to is what some case, or every case, comes to.
LEMMA DriverDecides ==
    ASSUME NEW tree, \A c \in Cases : Outcome(tree, c) \in Outcomes,
           NEW files \in SetToSeqs(Files)
    PROVE  LET r == corpus_driver(tree, files) IN
           /\ r \in Outcomes
           /\ r = "pass" <=> \A c \in Cases : Outcome(tree, c) = "pass"
           /\ r # "pass" => \E c \in Cases : Outcome(tree, c) = r
           /\ r = "escape" => \A c \in Cases : Outcome(tree, c) \in {"pass", "escape"}
<1> DEFINE n == Cardinality(Files)
           file(f) == [i \in DOMAIN Corpus[f] |-> Outcome(tree, Corpus[f][i])]
           runs == [i \in DOMAIN files |-> run_file(tree, files[i])]
<1>1. /\ n \in Nat /\ files \in [1..n -> Files]
      /\ \A f \in Files : \E i \in 1..n : files[i] = f
  BY FilesHoldCases, OrdersCover
<1>2. \A f \in Files :
         /\ Len(Corpus[f]) \in Nat
         /\ DOMAIN Corpus[f] = 1..Len(Corpus[f])
         /\ \A i \in DOMAIN Corpus[f] : Corpus[f][i] \in Cases
  BY FilesHoldCases
<1>3. \A c \in Cases : \E f \in Files : \E i \in DOMAIN Corpus[f] : Corpus[f][i] = c
  BY DEF Cases, Range
<1>4. ASSUME NEW f \in Files
      PROVE  LET r == run_file(tree, f) IN
             /\ r \in Outcomes
             /\ r = "pass" <=> \A i \in DOMAIN Corpus[f] : Outcome(tree, Corpus[f][i]) = "pass"
             /\ r # "pass" => \E i \in DOMAIN Corpus[f] : Outcome(tree, Corpus[f][i]) = r
             /\ r = "escape" =>
                   \A i \in DOMAIN Corpus[f] : Outcome(tree, Corpus[f][i]) \in {"pass", "escape"}
  <2>1. file(f) \in [1..Len(Corpus[f]) -> Outcomes]
    BY <1>2
  <2>2. run_file(tree, f) = Judge(file(f))
    BY DEF run_file
  <2>3. \A i \in 1..Len(Corpus[f]) : file(f)[i] = Outcome(tree, Corpus[f][i])
    BY <1>2
  <2> HIDE DEF file
  <2> QED BY <1>2, <2>1, <2>2, <2>3, JudgeDecides
<1>5. runs \in [1..n -> Outcomes]
  BY <1>1, <1>4
<1>6. corpus_driver(tree, files) = Judge(runs)
  BY DEF corpus_driver
<1>7. \A i \in 1..n : runs[i] = run_file(tree, files[i])
  BY <1>1
<1> DEFINE r == corpus_driver(tree, files)
<1>8. /\ r \in Outcomes
      /\ r = "pass" <=> \A i \in 1..n : run_file(tree, files[i]) = "pass"
      /\ r # "pass" => \E i \in 1..n : run_file(tree, files[i]) = r
      /\ r = "escape" => \A i \in 1..n : run_file(tree, files[i]) \in {"pass", "escape"}
  <2> HIDE DEF runs, n
  <2> QED BY <1>1, <1>5, <1>6, <1>7, JudgeDecides
<1>9. r = "pass" <=> \A c \in Cases : Outcome(tree, c) = "pass"
  BY <1>1, <1>2, <1>3, <1>4, <1>8
<1>10. r # "pass" => \E c \in Cases : Outcome(tree, c) = r
  BY <1>1, <1>2, <1>4, <1>8
<1>11. r = "escape" => \A c \in Cases : Outcome(tree, c) \in {"pass", "escape"}
  <2> SUFFICES ASSUME r = "escape", NEW c \in Cases
               PROVE  Outcome(tree, c) \in {"pass", "escape"}
    OBVIOUS
  <2>1. PICK f \in Files : \E i \in DOMAIN Corpus[f] : Corpus[f][i] = c
    BY <1>3
  <2>2. run_file(tree, f) \in {"pass", "escape"}
    BY <1>1, <1>8
  <2> QED BY <1>4, <2>1, <2>2
<1> QED
  BY <1>8, <1>9, <1>10, <1>11

\* What the oracles may say of a tree in which one source is not original.
LEMMA VerdictsAreOwn ==
    ASSUME effect \in Effects, NEW s \in Sources,
           NEW tree \in SUBSET {Original, s}, s \in tree
    PROVE  /\ (\A c \in Cases : effect[Original][c] = "pass") =>
                 \A files \in SetToSeqs(Files) :
                    Verdicts(corpus_driver(tree, files)) \subseteq OwnVerdicts(effect[s], Cases)
           /\ effect[Original][Suite] = "pass" =>
                 Verdicts(Outcome(tree, Suite)) \subseteq OwnVerdicts(effect[s], {Suite})
<1>1. ASSUME \A c \in Cases : effect[Original][c] = "pass", NEW files \in SetToSeqs(Files)
      PROVE  Verdicts(corpus_driver(tree, files)) \subseteq OwnVerdicts(effect[s], Cases)
  <2>1. \A c \in Cases : Outcome(tree, c) = effect[s][c] /\ effect[s][c] \in Outcomes
    BY <1>1, SourceDecides
  <2> DEFINE r == corpus_driver(tree, files)
  <2>2. /\ r \in Outcomes
        /\ r = "pass" <=> \A c \in Cases : effect[s][c] = "pass"
        /\ r # "pass" => \E c \in Cases : effect[s][c] = r
        /\ r = "escape" => \A c \in Cases : effect[s][c] \in {"pass", "escape"}
    BY <2>1, DriverDecides
  <2> HIDE DEF r
  <2>3. Verdicts(r) \subseteq OwnVerdicts(effect[s], Cases)
    BY <2>2 DEF Verdicts, OwnVerdicts, Outcomes
  <2> QED BY <2>3 DEF r
<1>2. ASSUME effect[Original][Suite] = "pass"
      PROVE  Verdicts(Outcome(tree, Suite)) \subseteq OwnVerdicts(effect[s], {Suite})
  <2>1. Outcome(tree, Suite) = effect[s][Suite] /\ effect[s][Suite] \in Outcomes
    BY <1>2, SourceDecides
  <2> QED BY <2>1 DEF Verdicts, OwnVerdicts, Outcomes
<1> QED
  BY <1>1, <1>2

\* Only a tree whose every case passes survives the baseline.
LEMMA BaselinePasses ==
    ASSUME effect \in Effects
    PROVE  /\ "survived" \in Verdicts(corpus_driver({Original}, SetToSeq(Files))) =>
                 \A c \in Cases : effect[Original][c] = "pass"
           /\ "survived" \in Verdicts(Outcome({Original}, Suite)) =>
                 effect[Original][Suite] = "pass"
<1>1. Original \in Sources
  BY DEF Sources
<1>2. \A c \in Cases \cup {Suite} :
         Outcome({Original}, c) = effect[Original][c] /\ effect[Original][c] \in Outcomes
  BY <1>1, SourceDecides
<1>3. SetToSeq(Files) \in SetToSeqs(Files)
  BY FilesHoldCases, OrdersCover
<1>4. LET r == corpus_driver({Original}, SetToSeq(Files)) IN
      r \in Outcomes /\ (r = "pass" <=> \A c \in Cases : effect[Original][c] = "pass")
  BY <1>2, <1>3, DriverDecides
<1> QED
  BY <1>2, <1>4 DEF Verdicts, Outcomes

-----------------------------------------------------------------------------
(* The invariant is inductive. *)

\* Whatever is in a mirror, its oracles come to a verdict.
LEMMA TreeHasVerdicts ==
    ASSUME effect \in Effects, NEW tree \in SUBSET Sources
    PROVE  /\ \A files \in SetToSeqs(Files) :
                 Verdicts(corpus_driver(tree, files)) \subseteq VerdictNames
           /\ Verdicts(Outcome(tree, Suite)) \subseteq VerdictNames
<1>1. ASSUME NEW c \in Cases \cup {Suite}
      PROVE  Outcome(tree, c) \in Outcomes
  <2> DEFINE odd == {effect[s][c] : s \in tree} \ {"pass"}
  <2>1. odd \in SUBSET Outcomes
    BY EffectsAreOutcomes
  <2>2. Outcome(tree, c) = IF odd = {} THEN "pass" ELSE CHOOSE o \in odd : TRUE
    BY DEF Outcome
  <2> HIDE DEF odd
  <2> QED BY <2>1, <2>2 DEF Outcomes
<1>2. \A o \in Outcomes : Verdicts(o) \subseteq VerdictNames
  BY DEF Outcomes, Verdicts, VerdictNames
<1>3. \A files \in SetToSeqs(Files) : corpus_driver(tree, files) \in Outcomes
  BY <1>1, DriverDecides
<1> QED
  BY <1>1, <1>2, <1>3

\* A worker that is busy gets its verdicts from the whole corpus.
LEMMA WorkerVerdicts ==
    ASSUME IInv, NEW w \in Workers, Busy(w)
    PROVE  /\ order \in SetToSeqs(Files)
           /\ Tree(w) \in SUBSET Sources
           /\ Verdicts(corpus_driver(Tree(w), order)) \subseteq VerdictNames
           /\ Verdicts(Outcome(Tree(w), Suite)) \subseteq VerdictNames
<1>1. order \in SetToSeqs(Files) /\ effect \in Effects
  BY DEF IInv, BaselineFirst, TypeOK
<1>2. Root(w) \in Processes
  BY DEF IInv, Ownership, Root, Processes
<1>3. Tree(w) \in SUBSET Sources
  BY <1>2 DEF IInv, TypeOK, Tree, Range
<1> QED
  BY <1>1, <1>3, TreeHasVerdicts

\* A worker between chunks has a worker's state.
LEMMA IdleIsState == Idle \in WorkerState
  BY EmptySeq DEF Idle, WorkerState, Stages

\* The harness starts in the invariant: no mirror is built, nothing is judged.
LEMMA InitHolds == Init => IInv
<1> SUFFICES ASSUME Init PROVE IInv
  OBVIOUS
<1> USE DEF Init, Idle
<1>1. NumChunks \in Nat
  BY NumChunksRoundsUp
<1>2. TypeOK
  <2>1. chunks \in [1..NumChunks -> ChunkState] /\ results \in Seq(Judgement)
    BY EmptySeq DEF ChunkState
  <2>2. worker \in [Workers -> WorkerState]
    BY IdleIsState
  <2>3. mirror \in [Processes -> [Modules -> Sources]]
    BY DEF Processes, Pristine, Sources
  <2>4. mine \in [Processes -> Processes \cup {None}]
    BY DEF Processes
  <2>5. next \in 1..(NumChunks + 1) /\ taken \in 0..NumChunks
    BY <1>1
  <2> QED BY <2>1, <2>2, <2>3, <2>4, <2>5 DEF TypeOK
<1>3. Ownership /\ Progress /\ Mirrors /\ Judgements /\ BaselineFirst
  BY <1>1, ProcessesDiffer DEF Ownership, Progress, Mirrors, Judgements, BaselineFirst, Baselined, Busy, Processes
<1>4. Collected
  <2>1. NumChunks > 0 \/ Len(Inventory) = 0
    BY MutantsHaveModules, ChunksAreNotEmpty, NumChunksRoundsUp
  <2> QED BY <1>1, <2>1, ChunksAreNotEmpty DEF Collected
<1> QED
  BY <1>2, <1>3, <1>4 DEF IInv

\* A worker that is busy works in its own mirror, on a mutant of the
\* inventory.
LEMMA WorkerAtWork ==
    ASSUME IInv, NEW w \in Workers, Busy(w)
    PROVE  /\ Root(w) = w
           /\ Mutant(w) \in Mutants
           /\ ModuleOf[Mutant(w)] \in Modules
           /\ Len(Chunk(worker[w].chunk)) \in Nat
           /\ Begun(worker[w]) \in Nat
           /\ Len(worker[w].todo) \in Nat \ {0}
           /\ Len(worker[w].made) \in Nat
           /\ Tail(worker[w].todo) \in Seq(Mutants)
           /\ Len(Tail(worker[w].todo)) = Len(worker[w].todo) - 1
<1>1. Root(w) = w
  BY DEF IInv, Ownership, Root
<1>2. /\ worker[w].todo \in Seq(Mutants) /\ worker[w].made \in Seq(Judgement)
      /\ Len(worker[w].todo) > 0 /\ Begun(worker[w]) >= 0
  BY DEF IInv, TypeOK, WorkerState, Progress, InPlace
<1>3. Len(Chunk(worker[w].chunk)) \in Nat /\ Begun(worker[w]) \in Int
  <2>1. Len(Chunk(worker[w].chunk)) \in Nat
    BY ChunkIsPiece DEF IInv, Ownership
  <2> QED BY <1>2, <2>1 DEF Begun
<1> QED
  BY <1>1, <1>2, <1>3, MutantsHaveModules, HeadTailProperties, EmptySeq DEF Mutant

\* Every step keeps the types.
LEMMA TypeStep == IInv /\ [Next]_vars => TypeOK'
<1> SUFFICES ASSUME IInv, [Next]_vars PROVE TypeOK'
  OBVIOUS
<1> USE DEF TypeOK
<1>1. TypeOK /\ NumChunks \in Nat
  BY NumChunksRoundsUp DEF IInv
<1>2. CASE Baseline
  BY <1>1, <1>2 DEF Baseline, fixed
<1>3. CASE StartPool
  BY <1>1, <1>3 DEF StartPool, fixed, Processes
<1>4. CASE Collect
  <2>1. taken + 1 \in 1..NumChunks /\ chunks[taken + 1].results \in Seq(Judgement)
    BY <1>1, <1>4 DEF Collect, ChunkState
  <2>2. results' \in Seq(Judgement)
    BY <1>1, <1>4, <2>1, ConcatProperties DEF Collect
  <2> QED BY <1>1, <1>4, <2>1, <2>2 DEF Collect, fixed
<1>5. CASE CollectRaised
  BY <1>1, <1>5 DEF CollectRaised, fixed
<1>6. CASE Report
  BY <1>1, <1>6 DEF Report, fixed
<1>7. ASSUME NEW w \in Workers, TakeChunk(w)
      PROVE  TypeOK'
  <2> DEFINE new == [stage |-> "install", chunk |-> next, todo |-> Chunk(next), made |-> <<>>]
  <2>1. next \in 1..NumChunks /\ Chunk(next) \in Seq(Mutants)
    BY <1>1, <1>7, ChunkIsPiece DEF TakeChunk
  <2>2. new \in WorkerState
    BY <1>1, <2>1, EmptySeq DEF WorkerState, Stages
  <2>3. worker' = [worker EXCEPT ![w] = new]
    BY <1>7 DEF TakeChunk
  <2> HIDE DEF new
  <2>4. worker' \in [Workers -> WorkerState]
    BY <1>1, <2>2, <2>3
  <2> QED BY <1>1, <1>7, <2>1, <2>4 DEF TakeChunk, fixed
<1>8. ASSUME NEW w \in Workers, Install(w)
      PROVE  TypeOK'
  <2>1. worker' \in [Workers -> WorkerState]
    BY <1>1, <1>8 DEF Install, WorkerState, Stages
  <2>2. mirror' \in [Processes -> [Modules -> Sources]] /\ mine' \in [Processes -> Processes \cup {None}]
    BY <1>1, <1>8, WorkerAtWork DEF Install, At, Busy, Write, Sources, Processes
  <2> QED BY <1>1, <1>8, <2>1, <2>2 DEF Install, WorkerStep, fixed
<1>9. ASSUME NEW w \in Workers, InstallFails(w)
      PROVE  TypeOK'
  <2>1. worker' \in [Workers -> WorkerState] /\ chunks' \in [1..NumChunks -> ChunkState]
    BY <1>1, <1>9, IdleIsState, EmptySeq DEF InstallFails, Finish, ChunkState
  <2>2. mirror' \in [Processes -> [Modules -> Sources]] /\ mine' \in [Processes -> Processes \cup {None}]
    BY <1>1, <1>9, WorkerAtWork DEF InstallFails, At, Busy, Write, Sources, Processes
  <2> QED BY <1>1, <1>9, <2>1, <2>2 DEF InstallFails, WorkerStep, fixed
<1>10. ASSUME NEW w \in Workers, RunCorpus(w)
       PROVE  TypeOK'
  <2>1. worker' \in [Workers -> WorkerState]
    <3>1. PICK verdict \in Verdicts(corpus_driver(Tree(w), order)) :
             worker' = [worker EXCEPT
                ![w].stage = IF tests /\ verdict = "survived" THEN "suite" ELSE "restore",
                ![w].made = Append(@, [mutant |-> Mutant(w), corpus |-> verdict, tests |-> "none"])]
      BY <1>10 DEF RunCorpus
    <3>2. [mutant |-> Mutant(w), corpus |-> verdict, tests |-> "none"] \in Judgement
      BY <1>10, WorkerAtWork, WorkerVerdicts DEF RunCorpus, At, Busy, Judgement
    <3> DEFINE made == Append(worker[w].made, [mutant |-> Mutant(w), corpus |-> verdict, tests |-> "none"])
               new == [worker[w] EXCEPT
                          !.stage = IF tests /\ verdict = "survived" THEN "suite" ELSE "restore",
                          !.made = made]
    <3>3. made \in Seq(Judgement)
      BY <1>1, <3>2, AppendProperties DEF WorkerState
    <3>4. worker' = [worker EXCEPT ![w] = new]
      BY <1>1, <3>1 DEF WorkerState
    <3> HIDE DEF made
    <3>5. new \in WorkerState
      BY <1>1, <3>3, ZenonT(30) DEF WorkerState, Stages
    <3> HIDE DEF new
    <3> QED BY <1>1, <3>4, <3>5
  <2> QED BY <1>1, <1>10, <2>1 DEF RunCorpus, WorkerStep, fixed
<1>11. ASSUME NEW w \in Workers, RunSuite(w)
       PROVE  TypeOK'
  <2>1. worker' \in [Workers -> WorkerState]
    <3>1. PICK verdict \in Verdicts(Outcome(Tree(w), Suite)) :
             worker' = [worker EXCEPT ![w].stage = "restore",
                                      ![w].made[Len(worker[w].made)].tests = verdict]
      BY <1>11 DEF RunSuite
    <3> DEFINE made == worker[w].made
               last == [made[Len(made)] EXCEPT !.tests = verdict]
    <3>2. made \in Seq(Judgement) /\ Len(made) \in 1..Len(made)
      <4>1. worker[w].stage = "suite" /\ Busy(w)
        BY <1>11 DEF RunSuite, At, Busy
      <4>2. Begun(worker[w]) \in Nat /\ Len(made) = Begun(worker[w]) + 1
        BY <4>1, WorkerAtWork DEF IInv, Progress, InPlace
      <4> QED BY <1>1, <4>2 DEF WorkerState
    <3>3. last \in Judgement
      <4>1. verdict \in VerdictNames
        BY <1>11, <3>1, WorkerVerdicts DEF RunSuite, At, Busy
      <4>2. made[Len(made)] \in Judgement
        BY <3>2, ElementOfSeq
      <4> QED BY <4>1, <4>2 DEF Judgement
    <3>4. [made EXCEPT ![Len(made)] = last] \in Seq(Judgement)
      BY <3>2, <3>3, ExceptSeq
    <3>5. worker' = [worker EXCEPT ![w] = [worker[w] EXCEPT
                        !.stage = "restore", !.made = [made EXCEPT ![Len(made)] = last]]]
      BY <1>1, <3>1 DEF WorkerState
    <3> HIDE DEF made, last
    <3> QED BY <1>1, <3>4, <3>5 DEF WorkerState, Stages
  <2> QED BY <1>1, <1>11, <2>1 DEF RunSuite, WorkerStep, fixed
<1>12. ASSUME NEW w \in Workers, Restore(w)
       PROVE  TypeOK'
  <2>1. worker' \in [Workers -> WorkerState] /\ chunks' \in [1..NumChunks -> ChunkState]
    <3>1. CASE Len(worker[w].todo) > 1
      <4> DEFINE new == [worker[w] EXCEPT !.stage = "install", !.todo = Tail(worker[w].todo)]
      <4>1. new \in WorkerState
        BY <1>1, <1>12, WorkerAtWork, ZenonT(30) DEF Restore, At, Busy, WorkerState, Stages
      <4>2. worker' = [worker EXCEPT ![w] = new]
        BY <1>1, <1>12, <3>1 DEF Restore, WorkerState
      <4> HIDE DEF new
      <4> QED BY <1>1, <1>12, <3>1, <4>1, <4>2 DEF Restore
    <3>2. CASE ~(Len(worker[w].todo) > 1)
      <4>1. worker' = [worker EXCEPT ![w] = Idle]
        BY <1>12, <3>2 DEF Restore, Finish
      <4>2. chunks' = [chunks EXCEPT ![worker[w].chunk] =
                          [state |-> "made", results |-> worker[w].made]]
        BY <1>12, <3>2 DEF Restore, Finish
      <4>3. [state |-> "made", results |-> worker[w].made] \in ChunkState
        BY <1>1 DEF ChunkState, WorkerState
      <4> QED BY <1>1, <4>1, <4>2, <4>3, IdleIsState
    <3> QED BY <3>1, <3>2
  <2>2. mirror' \in [Processes -> [Modules -> Sources]]
    BY <1>1, <1>12, WorkerAtWork DEF Restore, At, Busy, Write, Sources, Processes
  <2> QED BY <1>1, <1>12, <2>1, <2>2 DEF Restore, WorkerStep, fixed
<1>13. ASSUME NEW w \in Workers, RestoreFails(w)
       PROVE  TypeOK'
  <2>1. worker' \in [Workers -> WorkerState] /\ chunks' \in [1..NumChunks -> ChunkState]
    BY <1>1, <1>13, IdleIsState, EmptySeq DEF RestoreFails, Finish, ChunkState
  <2>2. mirror' \in [Processes -> [Modules -> Sources]]
    BY <1>1, <1>13, WorkerAtWork DEF RestoreFails, At, Busy, Write, Sources, Processes
  <2> QED BY <1>1, <1>13, <2>1, <2>2 DEF RestoreFails, WorkerStep, fixed
<1>14. ASSUME NEW w \in Workers, Die(w)
       PROVE  TypeOK'
  BY <1>1, <1>14, IdleIsState DEF Die, fixed
<1>15. CASE UNCHANGED vars
  BY <1>1, <1>15 DEF vars
<1> QED
  BY <1>2, <1>3, <1>4, <1>5, <1>6, <1>7, <1>8, <1>9, <1>10, <1>11, <1>12, <1>13, <1>14, <1>15
     DEF Next, MainStep, Evaluate

-----------------------------------------------------------------------------
(* What the steps of one process leave to the others. *)

\* w's step leaves everybody else's work alone.
OthersKeep(w) ==
    /\ \A v \in Workers \ {w} : worker'[v] = worker[v] /\ mirror'[v] = mirror[v]
    /\ mine'[Main] = None /\ \A v \in Workers : mine'[v] \in {None, v}
    /\ UNCHANGED <<effect, tests, main, status, order, broken, taken, results>>

\* w goes on with its chunk.
Continues(w) ==
    /\ Busy(w) /\ worker'[w].stage # "idle" /\ worker'[w].chunk = worker[w].chunk
    /\ UNCHANGED <<next, chunks>>

\* w's chunk ends.
Ends(w) ==
    /\ Busy(w) /\ worker'[w].stage = "idle"
    /\ next' = next
    /\ \E state \in {"made", "raised"}, made \in Seq(Judgement) :
          chunks' = [chunks EXCEPT ![worker[w].chunk] = [state |-> state, results |-> made]]

Works(w) == Evaluate(w) \/ InstallFails(w) \/ RestoreFails(w)

\* A worker at work leaves the others alone, and takes a chunk, goes on in
\* the one it has, or ends it.
LEMMA WorkerSteps ==
    ASSUME IInv, NEW w \in Workers, Works(w)
    PROVE  OthersKeep(w) /\ (TakeChunk(w) \/ Continues(w) \/ Ends(w))
<1>1. /\ mine \in [Processes -> Processes \cup {None}] /\ mine[Main] = None
      /\ \A v \in Workers : mine[v] \in {None, v}
      /\ mirror \in [Processes -> [Modules -> Sources]]
      /\ worker \in [Workers -> WorkerState]
      /\ w # Main /\ Workers \subseteq Processes
  BY ProcessesDiffer DEF IInv, TypeOK, Ownership, Processes
<1>2. Busy(w) => Root(w) = w
  BY WorkerAtWork
<1>3. CASE TakeChunk(w)
  BY <1>1, <1>3 DEF TakeChunk, fixed, OthersKeep
<1>4. CASE Install(w)
  BY <1>1, <1>2, <1>4 DEF Install, At, Busy, Write, WorkerStep, fixed, OthersKeep, Continues, WorkerState
<1>5. CASE InstallFails(w)
  <2>1. Busy(w) /\ Ends(w)
    BY <1>1, <1>5, EmptySeq DEF InstallFails, At, Busy, WorkerStep, Finish, Idle, Ends
  <2> QED BY <1>1, <1>2, <1>5, <2>1 DEF InstallFails, Write, WorkerStep, Finish, fixed, OthersKeep
<1>6. CASE RunCorpus(w)
  BY <1>1, <1>2, <1>6 DEF RunCorpus, At, Busy, WorkerStep, fixed, OthersKeep, Continues, WorkerState
<1>7. CASE RunSuite(w)
  BY <1>1, <1>2, <1>7 DEF RunSuite, At, Busy, WorkerStep, fixed, OthersKeep, Continues, WorkerState
<1>8. CASE Restore(w)
  <2>1. OthersKeep(w) /\ Busy(w) /\ next' = next
    BY <1>1, <1>2, <1>8 DEF Restore, At, Busy, Write, WorkerStep, Finish, fixed, OthersKeep
  <2>2. CASE Len(worker[w].todo) > 1
    BY <1>1, <1>8, <2>1, <2>2 DEF Restore, Continues, WorkerState
  <2>3. CASE ~(Len(worker[w].todo) > 1)
    BY <1>1, <1>8, <2>1, <2>3 DEF Restore, Finish, Idle, Ends, WorkerState
  <2> QED BY <2>1, <2>2, <2>3
<1>9. CASE RestoreFails(w)
  BY <1>1, <1>2, <1>9, EmptySeq DEF RestoreFails, At, Busy, Write, WorkerStep, Finish, Idle, fixed, OthersKeep, Ends
<1> QED
  BY <1>3, <1>4, <1>5, <1>6, <1>7, <1>8, <1>9 DEF Works, Evaluate

\* The main process leaves the workers alone, but it may cancel the chunks
\* that are not begun yet.
LEMMA MainSteps ==
    ASSUME IInv, MainStep \/ UNCHANGED vars
    PROVE  /\ UNCHANGED <<effect, tests, mirror, broken, worker, chunks>>
           /\ next' \in {next, NumChunks + 1}
           /\ mine'[Main] = None /\ \A v \in Workers : mine'[v] \in {None, v}
  BY DEF MainStep, Baseline, StartPool, Collect, CollectRaised, Report, fixed, vars, IInv, TypeOK, Ownership, Processes

\* A step is the main process's, a worker's, or a worker's death.
LEMMA StepsAreOf ==
    ASSUME [Next]_vars
    PROVE  \/ MainStep \/ UNCHANGED vars
           \/ \E w \in Workers : Works(w) \/ Die(w)
  BY DEF Next, Works

\* No step makes two workers hold one chunk, or one chunk twice.
LEMMA OwnershipStep == IInv /\ [Next]_vars => Ownership'
<1> SUFFICES ASSUME IInv, [Next]_vars PROVE Ownership'
  OBVIOUS
<1>1. Ownership /\ TypeOK /\ NumChunks \in Nat
  BY NumChunksRoundsUp DEF IInv
<1> USE DEF Ownership
<1>2. CASE MainStep \/ UNCHANGED vars
  BY <1>1, <1>2, MainSteps DEF Busy, TypeOK
<1>3. ASSUME NEW w \in Workers, Works(w)
      PROVE  Ownership'
  <2>1. OthersKeep(w)
    BY <1>3, WorkerSteps
  <2>2. CASE TakeChunk(w)
    BY <1>1, <2>1, <2>2 DEF TakeChunk, OthersKeep, Busy, TypeOK
  <2>3. CASE Continues(w)
    BY <1>1, <2>1, <2>3 DEF Continues, OthersKeep, Busy
  <2>4. CASE Ends(w)
    <3>1. PICK state \in {"made", "raised"}, made \in Seq(Judgement) :
             chunks' = [chunks EXCEPT ![worker[w].chunk] = [state |-> state, results |-> made]]
      BY <2>4 DEF Ends
    <3>2. ~Busy(w)' /\ Busy(w) /\ next' = next /\ broken' = broken
      BY <2>1, <2>4 DEF Ends, OthersKeep, Busy
    <3>3. \A v \in Workers \ {w} : worker'[v] = worker[v]
      BY <2>1 DEF OthersKeep
    <3>4. \A c \in 1..NumChunks : c # worker[w].chunk => chunks'[c] = chunks[c]
      BY <1>1, <3>1 DEF TypeOK
    <3>5. \A c \in 1..NumChunks : c >= next => c # worker[w].chunk
      BY <1>1, <3>2 DEF TypeOK
    <3>6. \A v \in Workers : Busy(v)' => Busy(v) /\ v # w /\ worker[v].chunk # worker[w].chunk
      BY <1>1, <3>2, <3>3 DEF Busy
    <3> QED BY <1>1, <2>1, <3>2, <3>3, <3>4, <3>5, <3>6 DEF OthersKeep
  <2> QED BY <1>3, <2>2, <2>3, <2>4, WorkerSteps
<1>4. ASSUME NEW w \in Workers, Die(w)
      PROVE  Ownership'
  BY <1>1, <1>4 DEF Die, Idle, fixed, Busy, TypeOK
<1> QED
  BY <1>2, <1>3, <1>4, StepsAreOf

\* How each action leaves the record of a worker that goes on.
Takes(w) ==
    /\ TakeChunk(w)
    /\ next \in 1..NumChunks
    /\ worker'[w] = [stage |-> "install", chunk |-> next, todo |-> Chunk(next), made |-> <<>>]
Installs(w) ==
    /\ Install(w)
    /\ worker[w].stage = "install"
    /\ worker'[w] = [worker[w] EXCEPT !.stage = "corpus"]
HearsCorpus(w, verdict) ==
    /\ RunCorpus(w)
    /\ worker[w].stage = "corpus"
    /\ verdict \in Verdicts(corpus_driver(Tree(w), order))
    /\ worker'[w] = [worker[w] EXCEPT
          !.stage = IF tests /\ verdict = "survived" THEN "suite" ELSE "restore",
          !.made = Append(worker[w].made, [mutant |-> Mutant(w), corpus |-> verdict, tests |-> "none"])]
HearsSuite(w, verdict) ==
    /\ RunSuite(w)
    /\ worker[w].stage = "suite"
    /\ verdict \in Verdicts(Outcome(Tree(w), Suite))
    /\ LET made == worker[w].made IN
       worker'[w] = [worker[w] EXCEPT
          !.stage = "restore",
          !.made = [made EXCEPT ![Len(made)] = [made[Len(made)] EXCEPT !.tests = verdict]]]
Restores(w) ==
    /\ Restore(w)
    /\ worker[w].stage = "restore"
    /\ Len(worker[w].todo) > 1
    /\ worker'[w] = [worker[w] EXCEPT !.stage = "install", !.todo = Tail(worker[w].todo)]

\* What a worker that goes on has done, by the record that it keeps.
LEMMA WorkerRecord ==
    ASSUME IInv, NEW w \in Workers, Works(w), Busy(w)'
    PROVE  \/ Takes(w) \/ Installs(w) \/ Restores(w)
           \/ \E verdict \in VerdictNames : HearsCorpus(w, verdict) \/ HearsSuite(w, verdict)
<1>1. worker \in [Workers -> WorkerState] /\ next \in 1..(NumChunks + 1) /\ NumChunks \in Nat
  BY NumChunksRoundsUp DEF IInv, TypeOK
<1>2. CASE TakeChunk(w)
  BY <1>1, <1>2 DEF TakeChunk, Takes
<1>3. CASE Install(w)
  BY <1>1, <1>3 DEF Install, At, Installs
<1>4. CASE InstallFails(w) \/ RestoreFails(w)
  <2>1. worker' = [worker EXCEPT ![w] = Idle]
    BY <1>4 DEF InstallFails, RestoreFails, Finish
  <2>2. worker'[w].stage = "idle"
    BY <1>1, <2>1 DEF Idle
  <2> QED BY <2>2 DEF Busy
<1>5. CASE RunCorpus(w)
  <2>1. PICK verdict \in Verdicts(corpus_driver(Tree(w), order)) :
           worker' = [worker EXCEPT
              ![w].stage = IF tests /\ verdict = "survived" THEN "suite" ELSE "restore",
              ![w].made = Append(@, [mutant |-> Mutant(w), corpus |-> verdict, tests |-> "none"])]
    BY <1>5 DEF RunCorpus
  <2>2. verdict \in VerdictNames
    BY <1>5, WorkerVerdicts DEF RunCorpus, At, Busy
  <2>3. HearsCorpus(w, verdict)
    BY <1>1, <1>5, <2>1 DEF RunCorpus, At, HearsCorpus
  <2> QED BY <2>2, <2>3
<1>6. CASE RunSuite(w)
  <2>1. PICK verdict \in Verdicts(Outcome(Tree(w), Suite)) :
           worker' = [worker EXCEPT ![w].stage = "restore",
                                    ![w].made[Len(worker[w].made)].tests = verdict]
    BY <1>6 DEF RunSuite
  <2>2. verdict \in VerdictNames
    BY <1>6, <2>1, WorkerVerdicts DEF RunSuite, At, Busy
  <2> DEFINE made == worker[w].made
             last == [made[Len(made)] EXCEPT !.tests = verdict]
  <2>3. worker' = [worker EXCEPT ![w] = [worker[w] EXCEPT
                      !.stage = "restore", !.made = [made EXCEPT ![Len(made)] = last]]]
    BY <1>1, <2>1 DEF WorkerState
  <2>4. worker'[w] = [worker[w] EXCEPT
                         !.stage = "restore", !.made = [made EXCEPT ![Len(made)] = last]]
    BY <1>1, <2>3
  <2>5. HearsSuite(w, verdict)
    BY <1>6, <2>1, <2>4 DEF RunSuite, At, HearsSuite
  <2> QED BY <2>2, <2>5
<1>7. CASE Restore(w)
  <2>1. Len(worker[w].todo) > 1
    <3>1. ~(Len(worker[w].todo) > 1) => worker' = [worker EXCEPT ![w] = Idle]
      BY <1>7 DEF Restore, Finish
    <3>2. worker' = [worker EXCEPT ![w] = Idle] => worker'[w].stage = "idle"
      BY <1>1 DEF Idle
    <3> QED BY <3>1, <3>2 DEF Busy
  <2>2. worker' = [worker EXCEPT ![w].stage = "install", ![w].todo = Tail(@)]
    BY <1>7, <2>1 DEF Restore
  <2> QED BY <1>1, <1>7, <2>1, <2>2 DEF Restore, At, Restores
<1> QED
  BY <1>2, <1>3, <1>4, <1>5, <1>6, <1>7 DEF Works, Evaluate

\* Every step keeps what was made and what is to do apart, in the chunk's order.
LEMMA ProgressStep == IInv /\ [Next]_vars => Progress'
<1> SUFFICES ASSUME IInv, [Next]_vars PROVE Progress'
  OBVIOUS
<1>1. Progress /\ worker \in [Workers -> WorkerState]
  BY DEF IInv, TypeOK
<1> USE DEF Progress
<1>2. CASE MainStep \/ UNCHANGED vars
  BY <1>1, <1>2, MainSteps DEF Busy
<1>3. ASSUME NEW w \in Workers, Works(w)
      PROVE  Progress'
  <2>1. \A v \in Workers \ {w} : Busy(v)' => InPlace(worker'[v])
    BY <1>1, <1>3, WorkerSteps DEF OthersKeep, Busy
  <2>2. ASSUME Busy(w)'
        PROVE  InPlace(worker'[w])
    <3> DEFINE me == worker[w]
               new == worker'[w]
    <3>1. /\ me.todo \in Seq(Mutants) /\ me.made \in Seq(Judgement)
          /\ \A c \in 1..NumChunks : Chunk(c) \in Seq(Mutants) /\ Len(Chunk(c)) \in Nat \ {0}
      BY <1>1, ChunkIsPiece DEF WorkerState
    <3>2. Busy(w) => /\ InPlace(me) /\ Begun(me) \in Nat /\ Len(Chunk(me.chunk)) \in Nat
                     /\ Len(me.todo) \in Nat \ {0} /\ Len(me.made) \in Nat
      BY <1>1, WorkerAtWork
    <3>3. CASE Takes(w)
      BY <3>1, <3>3 DEF Takes, InPlace, Begun
    <3>4. CASE Installs(w)
      BY <1>1, <3>2, <3>4, ZenonT(30) DEF Installs, Busy, InPlace, Begun, WorkerState
    <3>5. ASSUME NEW verdict \in VerdictNames, HearsCorpus(w, verdict)
          PROVE  InPlace(new)
      <4>1. me.stage = "corpus" /\ new.stage \in {"suite", "restore"}
        BY <1>1, <3>5 DEF HearsCorpus, WorkerState
      <4>2. new.todo = me.todo /\ new.chunk = me.chunk /\ Len(new.made) = Len(me.made) + 1
        BY <1>1, <3>1, <3>5 DEF HearsCorpus, WorkerState
      <4> HIDE DEF new, me
      <4> QED BY <3>2, <4>1, <4>2 DEF Busy, InPlace, Begun, me
    <3>6. ASSUME NEW verdict \in VerdictNames, HearsSuite(w, verdict)
          PROVE  InPlace(new)
      <4>1. me.stage = "suite" /\ new.stage = "restore"
        BY <1>1, <3>6 DEF HearsSuite, WorkerState
      <4>2. new.todo = me.todo /\ new.chunk = me.chunk /\ Len(new.made) = Len(me.made)
        BY <1>1, <3>1, <3>6 DEF HearsSuite, WorkerState
      <4> HIDE DEF new, me
      <4> QED BY <3>2, <4>1, <4>2 DEF Busy, InPlace, Begun, me
    <3>7. CASE Restores(w)
      <4>1. me.stage = "restore" /\ new.stage = "install" /\ Len(me.todo) > 1
        BY <1>1, <3>7 DEF Restores, WorkerState
      <4>2. new.todo = Tail(me.todo) /\ new.chunk = me.chunk /\ new.made = me.made
        BY <1>1, <3>7 DEF Restores, WorkerState
      <4>3. /\ Len(new.todo) = Len(me.todo) - 1
            /\ \A j \in 1..Len(new.todo) : j + 1 \in 1..Len(me.todo) /\ new.todo[j] = me.todo[j + 1]
        BY <3>1, <3>2, <4>1, <4>2 DEF Busy
      <4>4. Begun(new) = Begun(me) + 1 /\ Begun(me) \in Nat
        <5>1. Begun(me) \in Nat /\ Len(Chunk(me.chunk)) \in Nat /\ Len(me.todo) \in Nat
          BY <3>2, <4>1 DEF Busy
        <5>2. Chunk(new.chunk) = Chunk(me.chunk)
          BY <4>2
        <5>3. Len(new.todo) = Len(me.todo) - 1
          BY <4>3
        <5>4. Begun(new) = Len(Chunk(me.chunk)) - (Len(me.todo) - 1)
          BY <5>2, <5>3 DEF Begun
        <5>5. Begun(me) = Len(Chunk(me.chunk)) - Len(me.todo)
          BY DEF Begun
        <5> HIDE DEF new, me
        <5> QED BY <5>1, <5>4, <5>5
      <4>5. InPlace(me)
        BY <3>2, <4>1 DEF Busy
      <4> HIDE DEF new, me
      <4>6. \A j \in 1..Len(new.todo) : new.todo[j] = Chunk(new.chunk)[Begun(new) + j]
        <5> TAKE j \in 1..Len(new.todo)
        <5>1. new.todo[j] = Chunk(me.chunk)[Begun(me) + (j + 1)]
          BY <4>3, <4>5 DEF InPlace
        <5>2. Begun(me) + (j + 1) = Begun(new) + j
          BY <4>4
        <5> QED BY <4>2, <5>1, <5>2
      <4>7. Len(new.todo) > 0 /\ Begun(new) >= 0 /\ Len(new.made) = Begun(new)
        <5>1. Len(me.todo) \in Nat
          BY <3>2, <4>1 DEF Busy, me
        <5>2. Len(new.todo) > 0
          BY <4>1, <4>3, <5>1
        <5>3. Len(me.made) = Begun(me) + 1
          BY <4>1, <4>5 DEF InPlace
        <5> QED BY <4>2, <4>4, <5>2, <5>3
      <4>8. new.stage \notin {"suite", "restore"}
        BY <4>1
      <4> QED BY <4>6, <4>7, <4>8 DEF InPlace, new
    <3> QED BY <1>3, <2>2, <3>3, <3>4, <3>5, <3>6, <3>7, WorkerRecord
  <2> QED BY <2>1, <2>2
<1>4. ASSUME NEW w \in Workers, Die(w)
      PROVE  Progress'
  BY <1>4 DEF Die, Idle, Busy
<1> QED
  BY <1>2, <1>3, <1>4, StepsAreOf

\* How a worker's chunk ends: it has raised, or its last mutant has been
\* judged and taken out again.
RestoresLast(w) ==
    /\ Restore(w)
    /\ worker[w].stage = "restore"
    /\ Len(worker[w].todo) = 1
    /\ chunks' = [chunks EXCEPT ![worker[w].chunk] = [state |-> "made", results |-> worker[w].made]]
Raises(w) ==
    chunks' = [chunks EXCEPT ![worker[w].chunk] = [state |-> "raised", results |-> <<>>]]

\* A worker stops being busy by finishing its chunk or by raising.
LEMMA WorkerEnds ==
    ASSUME IInv, NEW w \in Workers, Works(w), ~Busy(w)'
    PROVE  Busy(w) /\ next' = next /\ (RestoresLast(w) \/ Raises(w))
<1>1. worker \in [Workers -> WorkerState]
  BY DEF IInv, TypeOK
<1>2. ~TakeChunk(w)
  <2>1. TakeChunk(w) => worker'[w].stage = "install"
    BY <1>1 DEF TakeChunk
  <2> QED BY <2>1 DEF Busy
<1>3. ~Continues(w)
  BY DEF Continues, Busy
<1>4. Ends(w)
  BY <1>2, <1>3, WorkerSteps
<1>5. CASE InstallFails(w) \/ RestoreFails(w)
  BY <1>4, <1>5 DEF InstallFails, RestoreFails, Finish, Raises, Ends
<1>6. CASE Restore(w)
  <2>1. worker[w].stage = "restore" /\ Busy(w)
    BY <1>6 DEF Restore, At, Busy
  <2>2. ~(Len(worker[w].todo) > 1)
    <3>1. Len(worker[w].todo) > 1 => worker'[w].stage = "install"
      BY <1>1, <1>6 DEF Restore, WorkerState
    <3> QED BY <3>1 DEF Busy
  <2>3. Len(worker[w].todo) = 1
    <3>1. Len(worker[w].todo) \in Nat \ {0}
      BY <2>1, WorkerAtWork
    <3>2. \A n \in Nat \ {0} : ~(n > 1) => n = 1
      OBVIOUS
    <3> QED BY <2>2, <3>1, <3>2
  <2> QED BY <1>4, <1>6, <2>1, <2>2, <2>3 DEF Restore, Finish, RestoresLast, Ends
<1>7. CASE Install(w)
  BY <1>1, <1>7 DEF Install, Busy
<1>8. CASE RunCorpus(w)
  BY <1>1, <1>8 DEF RunCorpus, Busy, WorkerState
<1>9. CASE RunSuite(w)
  BY <1>1, <1>9 DEF RunSuite, Busy, WorkerState
<1> QED
  BY <1>2, <1>5, <1>6, <1>7, <1>8, <1>9 DEF Works, Evaluate

\* A chunk that has raised stays so.
LEMMA FaultsStay ==
    ASSUME IInv, [Next]_vars, NEW c, Faulted(chunks, c)
    PROVE  Faulted(chunks', c)
<1>1. PICK d \in 1..NumChunks : d < c /\ chunks[d].state = "raised"
  BY DEF Faulted
<1>2. SUFFICES chunks'[d].state = "raised"
  BY <1>1 DEF Faulted
<1>3. CASE MainStep \/ UNCHANGED vars
  BY <1>1, <1>3, MainSteps
<1>4. ASSUME NEW w \in Workers, Works(w)
      PROVE  chunks'[d].state = "raised"
  <2>1. Busy(w) => worker[w].chunk # d
    BY <1>1 DEF IInv, Ownership
  <2>2. CASE TakeChunk(w) \/ Continues(w)
    BY <1>1, <2>2 DEF TakeChunk, Continues
  <2>3. CASE Ends(w)
    BY <1>1, <2>1, <2>3 DEF Ends, IInv, TypeOK
  <2> QED BY <1>4, <2>2, <2>3, WorkerSteps
<1>5. ASSUME NEW w \in Workers, Die(w)
      PROVE  chunks'[d].state = "raised"
  BY <1>1, <1>5 DEF Die
<1> QED
  BY <1>3, <1>4, <1>5, StepsAreOf

\* The queue only advances.
LEMMA QueueAdvances ==
    ASSUME IInv, [Next]_vars
    PROVE  next' >= next /\ next \in Nat /\ next' \in Nat
<1>1. next \in 1..(NumChunks + 1) /\ next' \in 1..(NumChunks + 1) /\ NumChunks \in Nat
  BY NumChunksRoundsUp, TypeStep DEF IInv, TypeOK
<1>2. CASE MainStep \/ UNCHANGED vars
  BY <1>1, <1>2, MainSteps
<1>3. ASSUME NEW w \in Workers, Works(w)
      PROVE  next' >= next
  BY <1>1, <1>3, WorkerSteps DEF TakeChunk, Continues, Ends
<1>4. ASSUME NEW w \in Workers, Die(w)
      PROVE  next' >= next
  BY <1>1, <1>4 DEF Die
<1> QED
  BY <1>1, <1>2, <1>3, <1>4, StepsAreOf

\* Every step keeps each mirror pristine, but for the one mutant under test
\* and for the damage of a worker whose chunk raises.
LEMMA MirrorsStep == IInv /\ [Next]_vars => Mirrors'
<1> SUFFICES ASSUME IInv, [Next]_vars PROVE Mirrors'
  OBVIOUS
<1>1. /\ Mirrors
      /\ worker \in [Workers -> WorkerState]
      /\ mirror \in [Processes -> [Modules -> Sources]] /\ Workers \subseteq Processes
  BY DEF IInv, TypeOK, Processes
<1>2. /\ next' >= next /\ next \in Nat /\ next' \in Nat
      /\ \A c : Faulted(chunks, c) => Faulted(chunks', c)
      /\ Faulted(chunks, next) => Faulted(chunks', next')
  <2>1. next' >= next /\ next \in Nat /\ next' \in Nat
    BY QueueAdvances
  <2>2. Faulted(chunks', next) => Faulted(chunks', next')
    BY <2>1 DEF Faulted
  <2> QED BY <2>1, <2>2, FaultsStay
<1> USE DEF Mirrors
<1>3. CASE MainStep \/ UNCHANGED vars
  BY <1>1, <1>2, <1>3, MainSteps DEF Busy
<1>4. ASSUME NEW w \in Workers, Works(w)
      PROVE  Mirrors'
  <2>1. OthersKeep(w)
    BY <1>4, WorkerSteps
  <2> DEFINE me == worker[w]
             new == worker'[w]
  <2>2. CASE Busy(w)'
    <3>1. SUFFICES \/ Faulted(chunks', new.chunk)
                   \/ mirror'[w] = IF new.stage = "install" THEN Pristine
                                   ELSE Installed(Head(new.todo))
      BY <1>1, <1>2, <2>1, <2>2 DEF OthersKeep, Busy
    <3>2. CASE Takes(w)
      <4>1. me.stage = "idle" /\ ~broken /\ mirror' = mirror
        BY <3>2 DEF Takes, TakeChunk
      <4> QED BY <1>1, <1>2, <3>2, <4>1 DEF Takes, Busy
    <3>3. CASE Installs(w)
      <4>1. /\ Busy(w) /\ me.stage = "install"
            /\ new.stage = "corpus" /\ new.chunk = me.chunk /\ new.todo = me.todo
        BY <1>1, <3>3 DEF Installs, Busy, WorkerState
      <4>2. mirror'[w] = [mirror[w] EXCEPT ![ModuleOf[Mutant(w)]] = Mutant(w)]
        BY <1>1, <3>3, <4>1, WorkerAtWork DEF Installs, Install, Write
      <4> QED BY <1>1, <1>2, <4>1, <4>2 DEF Installed, Mutant
    <3>4. ASSUME NEW verdict \in VerdictNames, HearsCorpus(w, verdict) \/ HearsSuite(w, verdict)
          PROVE  \/ Faulted(chunks', new.chunk)
                 \/ mirror'[w] = IF new.stage = "install" THEN Pristine
                                 ELSE Installed(Head(new.todo))
      <4>1. /\ Busy(w) /\ me.stage # "install" /\ mirror' = mirror
            /\ new.stage # "install" /\ new.chunk = me.chunk /\ new.todo = me.todo
        <5>1. CASE HearsCorpus(w, verdict)
          BY <1>1, <5>1 DEF HearsCorpus, RunCorpus, Busy, WorkerState
        <5>2. CASE HearsSuite(w, verdict)
          <6>1. me.stage = "suite" /\ mirror' = mirror
            BY <5>2 DEF HearsSuite, RunSuite
          <6>2. new.stage = "restore" /\ new.chunk = me.chunk /\ new.todo = me.todo
            BY <1>1, <5>2 DEF HearsSuite, WorkerState
          <6> QED BY <6>1, <6>2 DEF Busy
        <5> QED BY <3>4, <5>1, <5>2
      <4> QED BY <1>1, <1>2, <4>1
    <3>5. CASE Restores(w)
      <4>1. /\ Busy(w) /\ me.stage = "restore"
            /\ new.stage = "install" /\ new.chunk = me.chunk
        BY <1>1, <3>5 DEF Restores, Busy, WorkerState
      <4>2. mirror'[w] = [mirror[w] EXCEPT ![ModuleOf[Mutant(w)]] = Original]
        BY <1>1, <3>5, <4>1, WorkerAtWork DEF Restores, Restore, Write
      <4>3. mirror[w] = Installed(Mutant(w)) => mirror'[w] = Pristine
        BY <4>2 DEF Installed, Pristine
      <4> QED BY <1>1, <1>2, <4>1, <4>3 DEF Mutant
    <3> QED BY <1>4, <2>2, <3>2, <3>3, <3>4, <3>5, WorkerRecord
  <2>3. CASE ~Busy(w)'
    <3>1. SUFFICES Faulted(chunks', next') \/ mirror'[w] = Pristine
      BY <1>1, <1>2, <2>1, <2>3 DEF OthersKeep, Busy
    <3>2. Busy(w) /\ next' = next /\ me.chunk \in 1..NumChunks /\ me.chunk < next
      BY <1>4, <2>3, WorkerEnds DEF IInv, Ownership
    <3>3. CASE Raises(w)
      <4>1. chunks'[me.chunk].state = "raised"
        BY <3>2, <3>3 DEF Raises, IInv, TypeOK
      <4> QED BY <3>2, <4>1 DEF Faulted
    <3>4. CASE RestoresLast(w)
      <4>1. mirror'[w] = [mirror[w] EXCEPT ![ModuleOf[Mutant(w)]] = Original]
        BY <1>1, <3>2, <3>4, WorkerAtWork DEF RestoresLast, Restore, Write
      <4>2. mirror[w] = Installed(Mutant(w)) => mirror'[w] = Pristine
        BY <4>1 DEF Installed, Pristine
      <4>3. Faulted(chunks, me.chunk) \/ mirror[w] = Installed(Mutant(w))
        BY <1>1, <3>2, <3>4 DEF RestoresLast, Mutant
      <4>4. Faulted(chunks, me.chunk) => Faulted(chunks, next)
        <5>1. NumChunks \in Nat
          BY NumChunksRoundsUp
        <5> QED BY <1>2, <3>2, <5>1 DEF Faulted
      <4> QED BY <1>2, <4>2, <4>3, <4>4
    <3> QED BY <1>4, <2>3, <3>3, <3>4, WorkerEnds
  <2> QED BY <2>2, <2>3
<1>5. ASSUME NEW w \in Workers, Die(w)
      PROVE  Mirrors'
  BY <1>5 DEF Die, Idle, Busy
<1> QED
  BY <1>3, <1>4, <1>5, StepsAreOf

\* What a worker hears of the mutant in a mirror of its own.
LEMMA OwnMirrorJudges ==
    ASSUME IInv, NEW w \in Workers, Busy(w), mirror[w] = Installed(Mutant(w))
    PROVE  LET m == Mutant(w) IN
           /\ Verdicts(corpus_driver(Tree(w), order)) \subseteq OwnVerdicts(effect[m], Cases)
           /\ tests => Verdicts(Outcome(Tree(w), Suite)) \subseteq OwnVerdicts(effect[m], {Suite})
<1> DEFINE m == Mutant(w)
<1>1. m \in Sources /\ ModuleOf[m] \in Modules /\ Root(w) = w
  BY WorkerAtWork DEF Sources
<1>2. Tree(w) \in SUBSET {Original, m} /\ m \in Tree(w)
  BY <1>1 DEF Tree, Range, Installed, Pristine
<1>3. effect \in Effects /\ tests \in BOOLEAN /\ OriginalPasses /\ order \in SetToSeqs(Files)
  BY DEF IInv, TypeOK, BaselineFirst
<1>4. /\ \A c \in Cases : effect[Original][c] = "pass"
      /\ tests => effect[Original][Suite] = "pass"
  BY <1>3 DEF OriginalPasses
<1> HIDE DEF m
<1>5. /\ Verdicts(corpus_driver(Tree(w), order)) \subseteq OwnVerdicts(effect[m], Cases)
      /\ tests => Verdicts(Outcome(Tree(w), Suite)) \subseteq OwnVerdicts(effect[m], {Suite})
  BY <1>1, <1>2, <1>3, <1>4, VerdictsAreOwn
<1> QED
  BY <1>5 DEF m

\* The mutant at work is the next of the chunk that has no judgement yet,
\* or between its two judgements the last that has one.
LEMMA MutantInChunk ==
    ASSUME IInv, NEW w \in Workers, Busy(w)
    PROVE  Chunk(worker[w].chunk)[Begun(worker[w]) + 1] = Mutant(w)
<1>1. Len(worker[w].todo) \in Nat \ {0} /\ Begun(worker[w]) \in Nat
  BY WorkerAtWork
<1>2. worker[w].todo[1] = Chunk(worker[w].chunk)[Begun(worker[w]) + 1]
  BY <1>1 DEF IInv, Progress, InPlace
<1> QED
  BY <1>2 DEF Mutant

\* Every step keeps each verdict the one its mutant gets alone.
LEMMA JudgementsStep == IInv /\ [Next]_vars => Judgements'
<1> SUFFICES ASSUME IInv, [Next]_vars PROVE Judgements'
  OBVIOUS
<1>1. /\ Judgements
      /\ worker \in [Workers -> WorkerState]
      /\ chunks \in [1..NumChunks -> ChunkState]
  BY DEF IInv, TypeOK
<1>2. \A c : Faulted(chunks, c) => Faulted(chunks', c)
  BY FaultsStay
<1> USE DEF Judgements
<1>3. CASE MainStep \/ UNCHANGED vars
  BY <1>1, <1>3, MainSteps DEF Busy
<1>4. ASSUME NEW w \in Workers, Works(w)
      PROVE  Judgements'
  <2> DEFINE me == worker[w]
             new == worker'[w]
  <2>1. OthersKeep(w)
    BY <1>4, WorkerSteps
  <2>2. \A v \in Workers \ {w} : Busy(v)' =>
           Faulted(chunks', worker'[v].chunk) \/ MadeJudged(worker'[v], effect', tests')
    BY <1>1, <1>2, <2>1 DEF OthersKeep, Busy
  <2>3. CASE Busy(w)'
    <3>1. chunks' = chunks
      BY <1>1, <1>4, <2>3, WorkerSteps DEF TakeChunk, Continues, Ends, Busy
    <3>2. effect' = effect /\ tests' = tests
      BY <2>1 DEF OthersKeep
    <3>3. SUFFICES Faulted(chunks', new.chunk) \/ MadeJudged(new, effect, tests)
      BY <1>1, <2>2, <3>1, <3>2
    <3>4. CASE Takes(w)
      <4>1. new.made = <<>>
        BY <3>4 DEF Takes
      <4> QED BY <4>1 DEF MadeJudged
    <3>5. CASE Installs(w)
      <4>1. /\ Busy(w) /\ me.stage = "install"
            /\ new.stage = "corpus" /\ new.chunk = me.chunk /\ new.made = me.made
        BY <1>1, <3>5 DEF Installs, Busy, WorkerState
      <4> QED BY <1>1, <1>2, <4>1 DEF MadeJudged
    <3>6. ASSUME NEW verdict \in VerdictNames, HearsCorpus(w, verdict)
          PROVE  Faulted(chunks', new.chunk) \/ MadeJudged(new, effect, tests)
      <4> DEFINE m == Mutant(w)
                 r == [mutant |-> m, corpus |-> verdict, tests |-> "none"]
                 k == Len(me.made)
      <4>1. /\ Busy(w) /\ me.stage = "corpus" /\ new.chunk = me.chunk
            /\ new.stage = IF tests /\ verdict = "survived" THEN "suite" ELSE "restore"
            /\ new.made = Append(me.made, r)
        BY <1>1, <3>6 DEF HearsCorpus, Busy, WorkerState
      <4>2. CASE Faulted(chunks, me.chunk)
        BY <1>2, <4>1, <4>2
      <4>3. CASE ~Faulted(chunks, me.chunk)
        <5>1. mirror[w] = Installed(m)
          BY <4>1, <4>3 DEF IInv, Mirrors, Mutant
        <5>2. r.corpus \in OwnVerdicts(effect[m], Cases)
          BY <3>6, <4>1, <5>1, OwnMirrorJudges DEF HearsCorpus
        <5>3. k \in Nat /\ Chunk(me.chunk)[k + 1] = m
          <6>1. k = Begun(me)
            BY <4>1 DEF IInv, Progress, InPlace
          <6> QED BY <4>1, <6>1, WorkerAtWork, MutantInChunk
        <5>4. me.made \in Seq(Judgement) /\ MadeJudged(me, effect, tests)
          BY <1>1, <4>1, <4>3 DEF WorkerState
        <5>5. Len(new.made) = k + 1 /\ new.made[k + 1] = r /\ \A j \in 1..k : new.made[j] = me.made[j]
          BY <4>1, <5>4
        <5>6. \A j \in 1..k :
                 JudgedAs(Chunk(me.chunk)[j], effect[Chunk(me.chunk)[j]], tests, new.made[j])
          BY <4>1, <5>4, <5>5 DEF MadeJudged
        <5>7. IF new.stage = "suite" THEN HalfJudged(m, effect[m], tests, r)
              ELSE JudgedAs(m, effect[m], tests, r)
          BY <4>1, <5>2 DEF HalfJudged, JudgedAs
        <5> HIDE DEF m, r, k, new, me
        <5> QED
          <6>1. ASSUME NEW j \in 1..Len(new.made)
                PROVE  LET n == Chunk(new.chunk)[j]
                       IN  IF new.stage = "suite" /\ j = Len(new.made)
                           THEN HalfJudged(n, effect[n], tests, new.made[j])
                           ELSE JudgedAs(n, effect[n], tests, new.made[j])
            <7>1. CASE j = k + 1
              BY <4>1, <5>3, <5>5, <5>7, <7>1
            <7>2. CASE j \in 1..k
              BY <4>1, <5>3, <5>5, <5>6, <7>2
            <7> QED BY <5>3, <5>5, <7>1, <7>2
          <6> QED BY <6>1 DEF MadeJudged, new
      <4> QED BY <4>2, <4>3
    <3>7. ASSUME NEW verdict \in VerdictNames, HearsSuite(w, verdict)
          PROVE  Faulted(chunks', new.chunk) \/ MadeJudged(new, effect, tests)
      <4> DEFINE m == Mutant(w)
                 k == Len(me.made)
                 r == [me.made[k] EXCEPT !.tests = verdict]
      <4>1. /\ Busy(w) /\ me.stage = "suite" /\ new.chunk = me.chunk /\ new.stage = "restore"
            /\ new.made = [me.made EXCEPT ![k] = r]
        BY <1>1, <3>7 DEF HearsSuite, Busy, WorkerState
      <4>2. CASE Faulted(chunks, me.chunk)
        BY <1>2, <4>1, <4>2
      <4>3. CASE ~Faulted(chunks, me.chunk)
        <5>1. mirror[w] = Installed(m)
          BY <4>1, <4>3 DEF IInv, Mirrors, Mutant
        <5>2. k \in Nat \ {0} /\ Chunk(me.chunk)[k] = m
          <6>1. k = Begun(me) + 1
            BY <4>1 DEF IInv, Progress, InPlace
          <6> QED BY <4>1, <6>1, WorkerAtWork, MutantInChunk
        <5>3. me.made \in Seq(Judgement) /\ MadeJudged(me, effect, tests)
          BY <1>1, <4>1, <4>3 DEF WorkerState
        <5>4. HalfJudged(m, effect[m], tests, me.made[k])
          BY <4>1, <5>2, <5>3 DEF MadeJudged
        <5>5. verdict \in OwnVerdicts(effect[m], {Suite})
          BY <3>7, <4>1, <5>1, <5>4, OwnMirrorJudges DEF HearsSuite, HalfJudged
        <5>6. JudgedAs(m, effect[m], tests, r)
          <6>1. me.made[k] \in Judgement
            BY <5>2, <5>3, ElementOfSeq
          <6>2. /\ r.mutant = me.made[k].mutant /\ r.corpus = me.made[k].corpus
                /\ r.tests = verdict
            BY <6>1 DEF Judgement
          <6> HIDE DEF r, m, k
          <6> QED BY <5>4, <5>5, <6>2 DEF HalfJudged, JudgedAs
        <5>7. /\ Len(new.made) = k
              /\ \A j \in 1..k : new.made[j] = IF j = k THEN r ELSE me.made[j]
          BY <4>1, <5>2, <5>3
        <5>8. \A j \in 1..k : j # k =>
                 JudgedAs(Chunk(me.chunk)[j], effect[Chunk(me.chunk)[j]], tests, me.made[j])
          BY <4>1, <5>3 DEF MadeJudged
        <5> HIDE DEF m, r, k, new, me
        <5> QED
          <6>1. ASSUME NEW j \in 1..k
                PROVE  JudgedAs(Chunk(me.chunk)[j], effect[Chunk(me.chunk)[j]], tests, new.made[j])
            BY <5>2, <5>6, <5>7, <5>8
          <6> QED BY <4>1, <5>7, <6>1 DEF MadeJudged, new
      <4> QED BY <4>2, <4>3
    <3>8. CASE Restores(w)
      <4>1. /\ Busy(w) /\ me.stage = "restore"
            /\ new.stage = "install" /\ new.chunk = me.chunk /\ new.made = me.made
        BY <1>1, <3>8 DEF Restores, Busy, WorkerState
      <4> QED BY <1>1, <1>2, <4>1 DEF MadeJudged
    <3> QED BY <1>4, <2>3, <3>4, <3>5, <3>6, <3>7, <3>8, WorkerRecord
  <2>4. CASE ~Busy(w)'
    <3>1. /\ Busy(w) /\ me.chunk \in 1..NumChunks
          /\ effect' = effect /\ tests' = tests
      BY <1>4, <2>1, <2>4, WorkerEnds DEF IInv, Ownership, OthersKeep
    <3>2. \A c \in 1..NumChunks : c # me.chunk => chunks'[c] = chunks[c]
      BY <1>1, <1>4, <2>4, WorkerEnds DEF Raises, RestoresLast
    <3>3. chunks'[me.chunk].state = "made" =>
            /\ Len(chunks'[me.chunk].results) = Len(Chunk(me.chunk))
            /\ \/ Faulted(chunks, me.chunk)
               \/ ChunkJudged(me.chunk, chunks'[me.chunk].results, effect, tests)
      <4>1. CASE Raises(w)
        BY <1>1, <3>1, <4>1 DEF Raises
      <4>2. CASE RestoresLast(w)
        <5>1. /\ chunks'[me.chunk].results = me.made
              /\ me.stage = "restore" /\ Len(me.todo) = 1
          BY <1>1, <3>1, <4>2 DEF RestoresLast
        <5>2. Len(me.made) = Len(Chunk(me.chunk))
          <6>1. Len(Chunk(me.chunk)) \in Nat /\ Len(me.made) = Begun(me) + 1
            BY <3>1, <5>1, WorkerAtWork DEF IInv, Progress, InPlace
          <6> QED BY <5>1, <6>1 DEF Begun
        <5>3. Faulted(chunks, me.chunk) \/ MadeJudged(me, effect, tests)
          BY <1>1, <3>1
        <5> QED BY <5>1, <5>2, <5>3 DEF MadeJudged, ChunkJudged
      <4> QED BY <1>4, <2>4, <4>1, <4>2, WorkerEnds
    <3> HIDE DEF me, new
    <3> QED BY <1>1, <1>2, <2>2, <2>4, <3>1, <3>2, <3>3
  <2> QED BY <2>3, <2>4
<1>5. ASSUME NEW w \in Workers, Die(w)
      PROVE  Judgements'
  BY <1>1, <1>5 DEF Die, Idle, Busy, fixed
<1> QED
  BY <1>3, <1>4, <1>5, StepsAreOf

\* Workers start only after the originals have passed.
LEMMA BaselineStep == IInv /\ [Next]_vars => BaselineFirst'
<1> SUFFICES ASSUME IInv, [Next]_vars PROVE BaselineFirst'
  OBVIOUS
<1>1. BaselineFirst /\ effect \in Effects /\ tests \in BOOLEAN
  BY DEF IInv, TypeOK
<1> USE DEF BaselineFirst, Baselined
<1>2. CASE Baseline
  <2>1. PICK corpus \in Verdicts(corpus_driver({Original}, SetToSeq(Files))),
             suite \in Verdicts(Outcome({Original}, Suite)),
             files \in SetToSeqs(Files) :
           IF corpus = "survived" /\ (tests => suite = "survived")
           THEN main' = "start" /\ order' = files /\ UNCHANGED status
           ELSE main' = "done" /\ status' = 2 /\ UNCHANGED order
    BY <1>2 DEF Baseline
  <2>2. effect' = effect /\ tests' = tests /\ results' = results /\ worker' = worker
    BY <1>2 DEF Baseline, fixed
  <2>3. main = "baseline" /\ results = <<>> /\ \A w \in Workers : ~Busy(w)
    BY <1>1, <1>2 DEF Baseline
  <2>4. CASE corpus = "survived" /\ (tests => suite = "survived")
    <3>1. OriginalPasses
      BY <1>1, <2>4, BaselinePasses DEF OriginalPasses
    <3> QED BY <2>1, <2>2, <2>3, <2>4, <3>1 DEF OriginalPasses
  <2>5. CASE ~(corpus = "survived" /\ (tests => suite = "survived"))
    BY <2>1, <2>2, <2>3, <2>5 DEF Busy
  <2> QED BY <2>4, <2>5
<1>3. CASE StartPool \/ Collect \/ CollectRaised \/ Report
  <2>1. /\ UNCHANGED <<effect, tests, order>>
        /\ main \in {"start", "pool"}
        /\ main' \in {"start", "pool", "raised"} \/ (main' = "done" /\ status' # 2)
    BY <1>3 DEF StartPool, Collect, CollectRaised, Report, fixed
  <2> QED BY <1>1, <2>1 DEF OriginalPasses
<1>4. ASSUME NEW w \in Workers, Works(w) \/ Die(w)
      PROVE  BaselineFirst'
  <2>1. UNCHANGED <<effect, tests, main, status, order, results>>
    BY <1>4, WorkerSteps DEF OthersKeep, Die, fixed
  <2>2. ~Baselined => \A v \in Workers : ~Busy(v)'
    <3>1. CASE Die(w)
      BY <3>1 DEF Die
    <3>2. CASE Works(w)
      BY <1>1, <3>2, WorkerSteps DEF OthersKeep, TakeChunk, Continues, Ends, Busy
    <3> QED BY <1>4, <3>1, <3>2
  <2> QED BY <1>1, <2>1, <2>2 DEF OriginalPasses
<1>5. CASE UNCHANGED vars
  BY <1>1, <1>5 DEF vars, OriginalPasses, Busy
<1> QED
  BY <1>2, <1>3, <1>4, <1>5, StepsAreOf DEF MainStep

\* The next chunk that main collects has nothing behind it that raised.
LEMMA CollectAppends ==
    ASSUME IInv, Collect
    PROVE  /\ Len(results') = IF taken' < NumChunks THEN taken' * ChunkSize ELSE Len(Inventory)
           /\ \A i \in 1..Len(results') :
                 /\ i <= Len(Inventory)
                 /\ JudgedAs(Inventory[i], effect[Inventory[i]], tests, results'[i])
<1> DEFINE c == taken + 1
           new == chunks[c].results
           n == Len(results)
<1>1. /\ c \in 1..NumChunks /\ taken \in Nat /\ taken < NumChunks /\ NumChunks \in Nat
      /\ chunks[c].state = "made" /\ taken' = c /\ results' = results \o new
  BY NumChunksRoundsUp DEF Collect, IInv, TypeOK
<1>2. results \in Seq(Judgement) /\ new \in Seq(Judgement)
  BY <1>1 DEF IInv, TypeOK, ChunkState
<1>3. n = (c - 1) * ChunkSize
  BY <1>1 DEF IInv, Collected
<1>4. ~Faulted(chunks, c)
  <2>1. \A d \in 1..taken : chunks[d].state = "made"
    BY DEF IInv, Collected
  <2> QED BY <1>1, <2>1 DEF Faulted
<1>5. Len(new) = Len(Chunk(c)) /\ ChunkJudged(c, new, effect, tests)
  BY <1>1, <1>4 DEF IInv, Judgements
<1>6. \A i \in 1..n : i <= Len(Inventory) /\ JudgedAs(Inventory[i], effect[Inventory[i]], tests, results[i])
  BY DEF IInv, Collected
<1>7. /\ n \in Nat /\ Len(Chunk(c)) \in Nat \ {0} /\ Len(Inventory) \in Nat
      /\ c * ChunkSize = n + ChunkSize
      /\ Len(Chunk(c)) = (IF c < NumChunks THEN c * ChunkSize ELSE Len(Inventory)) - n
      /\ \A j \in 1..Len(Chunk(c)) : n + j \in 1..Len(Inventory) /\ Chunk(c)[j] = Inventory[n + j]
  BY <1>1, <1>2, <1>3, ChunkIsPiece, MutantsHaveModules
<1> HIDE DEF new, n
<1>8. Len(results') = n + Len(Chunk(c))
      /\ (\A i \in 1..n : results'[i] = results[i])
      /\ \A j \in 1..Len(Chunk(c)) : results'[n + j] = new[j]
  <2>1. /\ Len(results \o new) = Len(results) + Len(new)
        /\ \A i \in 1..(Len(results) + Len(new)) :
              (results \o new)[i] = IF i <= Len(results) THEN results[i] ELSE new[i - Len(results)]
    BY <1>2, ConcatProperties
  <2>2. Len(new) = Len(Chunk(c)) /\ Len(results) = n
    BY <1>5 DEF n
  <2>3. \A j \in 1..Len(Chunk(c)) : n + j \in 1..(n + Len(new)) /\ ~(n + j <= n) /\ (n + j) - n = j
    BY <1>7, <2>2
  <2>4. \A i \in 1..n : i \in 1..(n + Len(new)) /\ i <= n
    BY <1>7, <2>2
  <2> QED BY <1>1, <2>1, <2>2, <2>3, <2>4
<1>9. Len(results') = IF taken' < NumChunks THEN taken' * ChunkSize ELSE Len(Inventory)
  BY <1>1, <1>7, <1>8, ChunksAreNotEmpty
<1>10. ASSUME NEW i \in 1..Len(results')
       PROVE  /\ i <= Len(Inventory)
              /\ JudgedAs(Inventory[i], effect[Inventory[i]], tests, results'[i])
  <2>1. CASE i <= n
    BY <1>6, <1>7, <1>8, <2>1
  <2>2. CASE i > n
    <3>1. i - n \in 1..Len(Chunk(c)) /\ n + (i - n) = i
      BY <1>7, <1>8, <2>2
    <3>2. /\ i <= Len(Inventory) /\ Chunk(c)[i - n] = Inventory[i]
          /\ results'[i] = new[i - n]
      BY <1>7, <1>8, <3>1
    <3> QED BY <1>5, <3>1, <3>2 DEF ChunkJudged
  <2> QED BY <1>7, <2>1, <2>2
<1> QED
  BY <1>9, <1>10

\* The results stay those of the chunks collected, in order.
LEMMA CollectedStep == IInv /\ [Next]_vars => Collected'
<1> SUFFICES ASSUME IInv, [Next]_vars PROVE Collected'
  OBVIOUS
<1>1. Collected /\ TypeOK /\ NumChunks \in Nat
  BY NumChunksRoundsUp DEF IInv
<1> USE DEF Collected
<1>2. CASE Baseline \/ StartPool \/ CollectRaised \/ UNCHANGED vars
  BY <1>1, <1>2 DEF Baseline, StartPool, CollectRaised, fixed, vars
<1>3. CASE Collect
  <2>1. /\ UNCHANGED <<effect, tests, main, status, chunks>>
        /\ main = "pool" /\ taken' = taken + 1 /\ chunks[taken + 1].state = "made"
    BY <1>3 DEF Collect, fixed
  <2>2. \A c \in 1..taken' : chunks'[c].state = "made"
    BY <1>1, <2>1 DEF TypeOK
  <2> QED BY <1>3, <2>1, <2>2, CollectAppends
<1>4. CASE Report
  <2>1. /\ UNCHANGED <<effect, tests, taken, results, chunks>>
        /\ main' = "done" /\ taken = NumChunks
        /\ status' = IF \E i \in DOMAIN results : results[i].corpus = "survived" THEN 1 ELSE 0
    BY <1>4 DEF Report, fixed
  <2>2. DOMAIN results = 1..Len(results)
    BY <1>1 DEF TypeOK
  <2> QED BY <1>1, <2>1, <2>2
<1>5. ASSUME NEW w \in Workers, Works(w)
      PROVE  Collected'
  <2>1. UNCHANGED <<effect, tests, main, status, taken, results>>
    BY <1>5, WorkerSteps DEF OthersKeep
  <2>2. \A c \in 1..taken : chunks'[c].state = "made"
    <3>1. \A c \in 1..taken : c \in 1..NumChunks /\ (Busy(w) => c # worker[w].chunk)
      BY <1>1 DEF TypeOK, IInv, Ownership
    <3> QED BY <1>1, <1>5, <3>1, WorkerSteps DEF TakeChunk, Continues, Ends, TypeOK
  <2> QED BY <1>1, <2>1, <2>2
<1>6. ASSUME NEW w \in Workers, Die(w)
      PROVE  Collected'
  BY <1>1, <1>6 DEF Die, fixed
<1> QED
  BY <1>2, <1>3, <1>4, <1>5, <1>6, StepsAreOf DEF MainStep

-----------------------------------------------------------------------------
(* The theorems. *)

\* Every step keeps the invariant.
LEMMA Inductive == IInv /\ [Next]_vars => IInv'
<1> SUFFICES ASSUME IInv, [Next]_vars PROVE IInv'
  OBVIOUS
<1>1. TypeOK' /\ Ownership' /\ Progress' /\ Mirrors'
  BY TypeStep, OwnershipStep, ProgressStep, MirrorsStep
<1>2. Judgements' /\ BaselineFirst' /\ Collected'
  BY JudgementsStep, BaselineStep, CollectedStep
<1> QED
  BY <1>1, <1>2 DEF IInv

\* The invariant holds in every state of a run of the harness.
LEMMA Invariance == Spec => []IInv
  BY InitHolds, Inductive, PTL DEF Spec

\* tools/mutate.py's results are the inventory's mutants in order, each
\* judged by what it does alone, however the workers' steps interleave,
\* whichever write fails and whichever worker dies.
THEOREM MutantsAreJudgedAlone == Spec => []JudgedAlone
<1>1. IInv => JudgedAlone
  <2> SUFFICES ASSUME IInv PROVE JudgedAlone
    OBVIOUS
  <2>1. results # <<>> => OriginalPasses
    BY DEF IInv, BaselineFirst
  <2>2. DOMAIN results = 1..Len(results)
    BY DEF IInv, TypeOK
  <2> QED BY <2>1, <2>2 DEF JudgedAlone, IInv, Collected
<1> QED
  BY <1>1, Invariance, PTL

\* Exit status 0 of tools/mutate.py means that every mutant of the inventory
\* was judged and none survived, on a tree that itself passes.
THEOREM StatusZeroMeansCaught == Spec => []ZeroMeansCaught
<1>1. IInv => ZeroMeansCaught
  <2> SUFFICES ASSUME IInv, main = "done", status = 0
               PROVE  /\ Len(results) = Len(Inventory)
                      /\ \A i \in DOMAIN results : results[i].corpus # "survived"
                      /\ OwnVerdicts(effect[Original], Cases) \ {"timeout"} = {"survived"}
    BY DEF ZeroMeansCaught
  <2>1. DOMAIN results = 1..Len(results) /\ NumChunks \in Nat
    BY NumChunksRoundsUp DEF IInv, TypeOK
  <2>2. taken = NumChunks /\ Len(results) = Len(Inventory)
        /\ \A i \in 1..Len(results) : results[i].corpus # "survived"
    BY <2>1 DEF IInv, Collected
  <2>3. \A c \in Cases : effect[Original][c] = "pass"
    BY DEF IInv, BaselineFirst, Baselined, OriginalPasses
  <2>4. OwnVerdicts(effect[Original], Cases) = {"timeout", "survived"}
    BY <2>3 DEF OwnVerdicts
  <2> QED BY <2>1, <2>2, <2>4
<1> QED
  BY <1>1, Invariance, PTL
=============================================================================
