---------------------------- MODULE MachineProof ----------------------------
(***************************************************************************)
(* The evaluator's safety properties, for every program, environment and   *)
(* budget.  The inductive invariant has three parts: the stacks hold tasks *)
(* and nodes (Typed), no pending task finds too few values                 *)
(* (StackDiscipline), and the budget is exceeded only on loan (BudgetInv). *)
(* The debugger's invariant adds that a command's tasks are sound by       *)
(* themselves, above those that were pending when it began.                *)
(***************************************************************************)
EXTENDS Stepper, OperatorsProof

Opcodes(S) == {op \in S : op \in OPERATORS \/ IsReserved(op)}

Tasks(S) ==
    [kind : {"EVAL"}, node : S, env : S]
      \cup [kind : {"APPLY_OP"}, op : Opcodes(S), count : Nat]
      \cup [kind : {"APPLY_PROGRAM"}, count : Nat]

Outcomes == {"running", "done"} \cup ErrorCodes

\* The state is well typed over the set S of nodes.
TypedOver(S) ==
    /\ NodeSet(S)
    /\ tasks \in Seq(Tasks(S))
    /\ values \in Seq(S)
    /\ cost \in Nat
    /\ max_cost \in Nat
    /\ outcome \in Outcomes

Typed == \E S : TypedOver(S)

IInv == Typed /\ StackDiscipline /\ BudgetInv

-----------------------------------------------------------------------------
(* The height of the value stack, as tasks are replaced. *)

\* b is a without its first amount.
Pops(a, b) ==
    /\ IsInts(a)
    /\ Len(a) > 0
    /\ Len(b) = Len(a) - 1
    /\ \A i \in 1..Len(b) : b[i] = a[i+1]

\* b replaces the first amount of a by k ones and an amount that makes up
\* for the difference between the starts h2 and h.
Replaces(h, a, k, h2, b) ==
    /\ IsInts(a)
    /\ Len(a) > 0
    /\ Len(b) = Len(a) + k
    /\ \A i \in 1..k : b[i] = 1
    /\ b[k+1] \in Int
    /\ h2 + k + b[k+1] = h + a[1]
    /\ \A i \in 2..Len(a) : b[i+k] = a[i]

\* The running totals of b: h2 + i in front, those of a from there on.
Resumes(h, a, k, h2, b) ==
    /\ \A i \in 0..k : Totals(h2, b)[i] = h2 + i
    /\ \A i \in 1..Len(a) : Totals(h2, b)[i+k] = Totals(h, a)[i]

\* The first task is done and has had its effect: the heights move up by one.
LEMMA TotalsPop ==
    ASSUME NEW h \in Int, NEW a, NEW b, Pops(a, b)
    PROVE  \A i \in 0..Len(b) : Totals(h + a[1], b)[i] = Totals(h, a)[i+1]
<1> USE DEF Pops, IsInts
<1> DEFINE t == Totals(h, a)
           g == [i \in 0..Len(b) |-> t[i+1]]
<1>1. t[0] = h /\ \A i \in 1..Len(a) : t[i] = t[i-1] + a[i]
  BY TotalsDef, SMTT(20)
<1> HIDE DEF t
<1>2. g[0] = h + a[1]
  BY <1>1
<1>3. ASSUME NEW i \in 1..Len(b) PROVE g[i] = g[i-1] + b[i]
  <2>1. i + 1 \in 1..Len(a) /\ i \in 0..Len(b) /\ i - 1 \in 0..Len(b)
    OBVIOUS
  <2>2. g[i] = t[i+1] /\ g[i-1] = t[i] /\ (i + 1) - 1 = i
    BY <2>1
  <2>3. t[i+1] = t[i] + a[i+1]
    BY <1>1, <2>1, <2>2
  <2> QED BY <2>2, <2>3
<1>4. \A i \in 0..Len(b) : Totals(h + a[1], b)[i] = g[i]
  <2> DEFINE s == h + a[1]
  <2>1. s \in Int /\ Len(b) \in Nat /\ \A i \in 1..Len(b) : b[i] \in Int
    OBVIOUS
  <2>2. g[0] = s
    BY <1>2
  <2>3. \A i \in 0..Len(b) : Totals(s, b)[i] = g[i]
    <3>1. \A i \in 1..Len(b) : g[i] = g[i-1] + b[i]
      BY <1>3
    <3> HIDE DEF g, s
    <3>2. Tracks(g, s, b)
      BY <2>1, <2>2, <3>1 DEF Tracks
    <3> QED BY <2>1, <3>2, TotalsUnique
  <2> QED BY <2>3
<1> QED
  BY <1>4 DEF t

\* The first task is replaced by k evaluations and a last task whose effect
\* makes up for them.
LEMMA TotalsReplace ==
    ASSUME NEW h \in Int, NEW a, NEW k \in Nat, NEW h2 \in Int, NEW b,
           Replaces(h, a, k, h2, b)
    PROVE  Resumes(h, a, k, h2, b)
<1> USE DEF Replaces, IsInts
<1> DEFINE n == Len(a)
           t == Totals(h, a)
           g == [i \in 0..(n+k) |-> IF i <= k THEN h2 + i ELSE t[i-k]]
<1>1. t[0] = h /\ \A i \in 1..n : t[i] = t[i-1] + a[i]
  BY TotalsDef
<1>2. \A i \in 0..n : t[i] \in Int
  BY TotalsDef
<1> HIDE DEF t
<1>3. g[0] = h2
  OBVIOUS
<1>4. ASSUME NEW i \in 1..(n+k) PROVE b[i] \in Int /\ g[i] = g[i-1] + b[i]
  <2>1. CASE i <= k
    BY <2>1
  <2>2. CASE i = k + 1
    BY <2>2, <1>1
  <2>3. CASE i > k + 1
    <3>1. i - k \in 2..n /\ b[(i-k)+k] = a[i-k]
      BY <2>3, SMTT(20)
    <3>2. t[i-k] = t[(i-k)-1] + a[i-k]
      BY <1>1, <3>1
    <3> QED BY <2>3, <3>1, <3>2
  <2> QED BY <2>1, <2>2, <2>3
<1>5. \A i \in 0..(n+k) : Totals(h2, b)[i] = g[i]
  <2>1. Len(b) \in Nat /\ Len(b) = n + k
    OBVIOUS
  <2>2. /\ \A i \in 1..Len(b) : b[i] \in Int
        /\ \A i \in 1..Len(b) : g[i] = g[i-1] + b[i]
    <3> HIDE DEF g, n
    <3> QED BY <1>4, <2>1
  <2>3. \A i \in 0..Len(b) : Totals(h2, b)[i] = g[i]
    <3> HIDE DEF g
    <3>1. Tracks(g, h2, b)
      BY <1>3, <2>1, <2>2 DEF Tracks
    <3> HIDE DEF n, Replaces, IsInts
    <3> QED BY <3>1, TotalsUnique
  <2> QED BY <2>1, <2>3
<1>6. ASSUME NEW i \in 0..k PROVE Totals(h2, b)[i] = h2 + i
  BY <1>5
<1>7. ASSUME NEW i \in 1..n PROVE Totals(h2, b)[i+k] = t[i]
  <2>1. i + k \in 0..(n+k) /\ ~(i + k <= k) /\ (i + k) - k = i
    OBVIOUS
  <2>2. g[i+k] = t[i]
    BY <2>1
  <2> HIDE DEF g
  <2> QED BY <1>5, <2>1, <2>2
<1> QED
  BY <1>6, <1>7 DEF t, Resumes
-----------------------------------------------------------------------------
(* StackDiscipline, as a predicate on a height and a sequence of tasks. *)

Effects(ts) == [i \in 1..Len(ts) |-> Effect(ts[i])]

Sound(h, ts) ==
    /\ \A i \in 1..Len(ts) : Totals(h, Effects(ts))[i-1] >= Consumes(ts[i])
    /\ Totals(h, Effects(ts))[Len(ts)] = 1

\* What a task takes and leaves are natural numbers and an integer.
LEMMA TaskType ==
    ASSUME NEW S, NEW ts \in Seq(Tasks(S)), NEW i \in 1..Len(ts)
    PROVE  /\ ts[i] \in Tasks(S)
           /\ Consumes(ts[i]) \in Nat
           /\ Effect(ts[i]) \in Int
           /\ ts[i].kind = "EVAL" => Consumes(ts[i]) = 0 /\ Effect(ts[i]) = 1
<1>1. ts[i] \in Tasks(S)
  OBVIOUS
<1>2. Consumes(ts[i]) \in Nat
  BY <1>1 DEF Tasks, Consumes
<1> QED
  BY <1>1, <1>2 DEF Effect, Consumes

\* The effects of pending tasks are integers, one for each task.
LEMMA EffectsType ==
    ASSUME NEW S, NEW ts \in Seq(Tasks(S))
    PROVE  /\ Len(Effects(ts)) = Len(ts)
           /\ Len(Effects(ts)) \in Nat
           /\ \A i \in 1..Len(ts) : Effects(ts)[i] = Effect(ts[i])
           /\ \A i \in 1..Len(Effects(ts)) : Effects(ts)[i] \in Int
<1>1. \A i \in 1..Len(ts) : Effect(ts[i]) \in Int
  BY TaskType
<1> QED
  BY <1>1 DEF Effects

\* A task that has run and had its effect leaves a sound stack.
LEMMA SoundPop ==
    ASSUME NEW S, NEW ts \in Seq(Tasks(S)), ts # <<>>, NEW h \in Int, Sound(h, ts)
    PROVE  Sound(h + Effect(ts[1]), Tail(ts))
<1> DEFINE a == Effects(ts)
           b == Effects(Tail(ts))
           t == Totals(h, a)
           u == Totals(h + Effect(ts[1]), b)
<1>1. /\ Tail(ts) \in Seq(Tasks(S)) /\ Len(Tail(ts)) = Len(ts) - 1
      /\ \A i \in 1..Len(Tail(ts)) : Tail(ts)[i] = ts[i+1]
      /\ Len(ts) \in Nat /\ Len(ts) > 0
  OBVIOUS
<1>2. /\ Len(a) = Len(ts) /\ \A i \in 1..Len(a) : a[i] \in Int
      /\ a[1] = Effect(ts[1]) /\ Len(b) = Len(a) - 1
      /\ \A i \in 1..Len(b) : b[i] = a[i+1]
  <2>1. \A i \in 1..Len(Tail(ts)) : b[i] = Effect(Tail(ts)[i])
    BY <1>1, EffectsType
  <2>2. \A i \in 1..Len(ts) : a[i] = Effect(ts[i])
    BY EffectsType
  <2>3. Len(a) = Len(ts) /\ Len(b) = Len(Tail(ts)) /\ \A i \in 1..Len(a) : a[i] \in Int
    BY <1>1, EffectsType
  <2> HIDE DEF a, b
  <2> QED BY <1>1, <2>1, <2>2, <2>3
<1>3. \A i \in 0..Len(b) : u[i] = t[i+1]
  <2> HIDE DEF a, b
  <2>1. Pops(a, b)
    BY <1>1, <1>2 DEF Pops, IsInts
  <2>2. \A i \in 0..Len(b) : Totals(h + a[1], b)[i] = t[i+1]
    BY <2>1, TotalsPop
  <2> QED BY <1>2, <2>2
<1>4. /\ \A i \in 1..Len(ts) : t[i-1] >= Consumes(ts[i])
      /\ t[Len(ts)] = 1
  BY DEF Sound
<1> HIDE DEF a, b, t, u
<1>5. u[Len(Tail(ts))] = 1
  BY <1>1, <1>2, <1>3, <1>4
<1>6. ASSUME NEW i \in 1..Len(Tail(ts)) PROVE u[i-1] >= Consumes(Tail(ts)[i])
  <2>1. i + 1 \in 1..Len(ts) /\ i - 1 \in 0..Len(b) /\ (i - 1) + 1 = i /\ (i + 1) - 1 = i
    BY <1>1, <1>2
  <2>2. u[i-1] = t[i] /\ t[i] >= Consumes(ts[i+1])
    BY <1>3, <1>4, <2>1
  <2> QED BY <1>1, <2>2
<1> QED
  BY <1>5, <1>6 DEF Sound, u, b

\* A task replaced by k evaluations and a last task that makes up for them.
LEMMA SoundReplace ==
    ASSUME NEW S, NEW ts \in Seq(Tasks(S)), ts # <<>>, NEW h \in Int, Sound(h, ts),
           NEW T, NEW new \in Seq(Tasks(T)), NEW k \in Nat, NEW h2 \in Nat,
           Len(new) = Len(ts) + k,
           \A i \in 1..k : new[i].kind = "EVAL",
           h2 + k + Effect(new[k+1]) = h + Effect(ts[1]),
           h2 + k >= Consumes(new[k+1]),
           \A i \in 2..Len(ts) : new[i+k] = ts[i]
    PROVE  Sound(h2, new)
<1> DEFINE a == Effects(ts)
           b == Effects(new)
           t == Totals(h, a)
           u == Totals(h2, b)
<1>1. Len(ts) \in Nat /\ Len(ts) > 0 /\ 1 \in 1..Len(ts) /\ k + 1 \in 1..Len(new)
  OBVIOUS
<1>2. /\ Len(a) = Len(ts) /\ \A i \in 1..Len(a) : a[i] \in Int
      /\ \A i \in 1..Len(ts) : a[i] = Effect(ts[i])
  BY EffectsType
<1>3. /\ Len(b) = Len(new) /\ \A i \in 1..Len(b) : b[i] \in Int
      /\ \A i \in 1..Len(new) : b[i] = Effect(new[i])
  BY EffectsType
<1>4. \A i \in 1..k : b[i] = 1 /\ Consumes(new[i]) = 0
  <2>1. \A i \in 1..k : i \in 1..Len(new)
    OBVIOUS
  <2> QED BY <1>3, <2>1, TaskType
<1>5. /\ \A i \in 1..Len(ts) : t[i-1] >= Consumes(ts[i])
      /\ t[Len(ts)] = 1
  BY DEF Sound
<1>6. /\ \A i \in 0..k : u[i] = h2 + i
      /\ \A i \in 1..Len(ts) : u[i+k] = t[i]
  <2>1. \A i \in 2..Len(a) : b[i+k] = a[i]
    <3> SUFFICES ASSUME NEW i \in 2..Len(a) PROVE b[i+k] = a[i]
      OBVIOUS
    <3>1. i + k \in 1..Len(new) /\ i \in 1..Len(ts) /\ new[i+k] = ts[i]
      BY <1>2
    <3> QED BY <1>2, <1>3, <3>1
  <2>2. h2 + k + b[k+1] = h + a[1] /\ b[k+1] \in Int
    BY <1>1, <1>2, <1>3
  <2> HIDE DEF a, b
  <2>3. Replaces(h, a, k, h2, b)
    BY <1>1, <1>2, <1>3, <1>4, <2>1, <2>2 DEF Replaces, IsInts
  <2>4. Resumes(h, a, k, h2, b)
    <3>1. h2 \in Int /\ Len(a) \in Nat
      BY <1>1, <1>2
    <3> HIDE DEF t, u
    <3> QED BY <2>3, <3>1, TotalsReplace
  <2>5. Len(a) = Len(ts)
    BY <1>2
  <2> QED BY <2>4, <2>5 DEF Resumes
<1> HIDE DEF a, b, t, u
<1>7. u[Len(new)] = 1
  BY <1>1, <1>5, <1>6
<1>8. ASSUME NEW i \in 1..Len(new) PROVE u[i-1] >= Consumes(new[i])
  <2>1. CASE i <= k
    BY <1>4, <1>6, <2>1
  <2>2. CASE i = k + 1
    <3>1. u[k] = h2 + k /\ i - 1 = k
      BY <1>6, <2>2
    <3> QED BY <2>2, <3>1
  <2>3. CASE i > k + 1
    <3>1. i - k \in 2..Len(ts) /\ (i - k) + k = i /\ (i - k - 1) + k = i - 1
          /\ i - k - 1 \in 1..Len(ts)
      BY <1>1, <2>3
    <3>2. new[i] = ts[i-k] /\ u[i-1] = t[i-k-1]
      BY <1>6, <3>1
    <3>3. t[(i-k)-1] >= Consumes(ts[i-k])
      BY <1>1, <1>5, <3>1
    <3> QED BY <3>2, <3>3
  <2> QED BY <2>1, <2>2, <2>3
<1> QED
  BY <1>7, <1>8 DEF Sound, u, b
-----------------------------------------------------------------------------
(* Path lookup and its cost. *)

\* A walk that does not run into an atom ends at a node.
LEMMA LookupType ==
    ASSUME NEW S, NodeSet(S), NEW path, NEW e \in S, Lookup(path, e) # PathIntoAtom
    PROVE  NodeSet(S \cup {Lookup(path, e)})
<1> DEFINE index == Unsigned(path.bytes)
           legs == BitLength(index)
           T == S \cup {PathIntoAtom}
           step == [i \in 1..legs |-> [x \in T |-> Leg(x, index, i - 1)]]
           Eqn(f) == f = [i \in 0..legs |-> IF i = 0 THEN e ELSE Leg(f[i-1], index, i - 1)]
           walk == CHOOSE f : Eqn(f)
<1>1. legs \in Nat
  BY BitLengthType
<1>2. ASSUME NEW x \in T, NEW i PROVE Leg(x, index, i) \in T
  <2>1. CASE x = PathIntoAtom \/ IsAtom(x)
    BY <2>1 DEF Leg
  <2>2. CASE x # PathIntoAtom /\ ~IsAtom(x)
    <3>1. x \in S /\ IsPair(x)
      BY <2>2 DEF NodeSet, IsNodeIn
    <3>2. First(x) \in S /\ Rest(x) \in S
      BY <3>1, PairParts
    <3> QED BY <3>2, <2>2 DEF Leg
  <2> QED BY <2>1, <2>2
<1>3. \E f \in [0..legs -> T] : Eqn(f)
  <2>1. Steps(step, legs, T)
    <3> HIDE DEF T, legs, index
    <3> QED BY <1>2 DEF Steps
  <2>2. PICK f \in [0..legs -> T] : Follows(f, step, legs, e)
    <3>1. e \in T
      OBVIOUS
    <3> HIDE DEF step, T, legs
    <3> QED BY <1>1, <2>1, <3>1, RecursionExists
  <2>3. \A i \in 1..legs : f[i] = Leg(f[i-1], index, i - 1)
    <3> SUFFICES ASSUME NEW i \in 1..legs PROVE f[i] = Leg(f[i-1], index, i - 1)
      OBVIOUS
    <3>1. f[i-1] \in T
      <4> HIDE DEF T, legs
      <4> QED BY <1>1, <2>2
    <3>2. f[i] = step[i][f[i-1]]
      BY <2>2 DEF Follows
    <3>3. step[i][f[i-1]] = Leg(f[i-1], index, i - 1)
      BY <3>1
    <3> QED BY <3>2, <3>3
  <2>4. f = [i \in 0..legs |-> f[i]]
    OBVIOUS
  <2>5. \A i \in 0..legs : f[i] = IF i = 0 THEN e ELSE Leg(f[i-1], index, i - 1)
    <3> HIDE DEF legs, index, T
    <3> QED BY <1>1, <2>2, <2>3 DEF Follows
  <2>6. Eqn(f)
    <3> HIDE DEF legs, index, T
    <3> QED BY <2>4, <2>5
  <2> QED BY <2>6
<1>4. Eqn(walk)
  <2> HIDE DEF Eqn
  <2> QED BY <1>3
<1>5. 0..legs \subseteq {i \in 0..legs : walk[i] \in T}
  <2> DEFINE W == {i \in 0..legs : walk[i] \in T}
  <2> HIDE DEF walk, legs, T, index
  <2>1. walk[0] = e /\ e \in T
    BY <1>1, <1>4 DEF T
  <2>2. 0 \in W
    BY <1>1, <2>1
  <2>3. \A i \in 0..(legs-1) : i \in W => i + 1 \in W
    <3> SUFFICES ASSUME NEW i \in 0..(legs-1), walk[i] \in T PROVE walk[i+1] \in T
      BY <1>1
    <3>1. walk[i+1] = Leg(walk[i], index, i)
      BY <1>1, <1>4
    <3> QED BY <1>2, <3>1
  <2> HIDE DEF W
  <2>4. 0..legs \subseteq W
    BY <1>1, <2>2, <2>3, IntervalInduction
  <2> QED BY <2>4 DEF W
<1>6. CASE legs = 0
  <2>1. Lookup(path, e) = Nil
    BY <1>6 DEF Lookup
  <2>2. Len(<<>>) \in Nat
    OBVIOUS
  <2> QED BY <2>1, <2>2, AtomExtends DEF Nil
<1>7. CASE legs # 0
  <2>1. Lookup(path, e) = walk[legs - 1]
    BY <1>7 DEF Lookup
  <2>2. walk[legs - 1] \in T
    <3> HIDE DEF walk, legs, T
    <3> QED BY <1>1, <1>5, <1>7
  <2>3. Lookup(path, e) \in S
    <3> HIDE DEF walk, legs
    <3> QED BY <2>1, <2>2
  <2> QED BY <2>3, OldNode
<1> QED
  BY <1>6, <1>7

\* A path lookup costs a positive natural number.
LEMMA PathCostType ==
    ASSUME NEW path, Len(path.bytes) \in Nat
    PROVE  PathCost(path) \in Nat /\ PathCost(path) > 0
<1> DEFINE legs == BitLength(Unsigned(path.bytes))
<1>1. legs \in Nat
  BY BitLengthType
<1>2. LeadingZeroBytes(path) \in Nat
  <2>1. IsFiniteSet(1..Len(path.bytes))
    BY FS_Interval
  <2>2. {i \in 1..Len(path.bytes) : \A j \in 1..i : path.bytes[j] = 0}
          \in SUBSET (1..Len(path.bytes))
    OBVIOUS
  <2>3. IsFiniteSet({i \in 1..Len(path.bytes) : \A j \in 1..i : path.bytes[j] = 0})
    BY <2>1, <2>2, FS_Subset
  <2> QED BY <2>3, FS_CardinalityType DEF LeadingZeroBytes
<1>3. PathCost(path) = 40 + 4 * (IF legs = 0 THEN 1 ELSE legs) + 4 * LeadingZeroBytes(path)
  BY DEF PathCost, PATH_LOOKUP_BASE_COST, PATH_LOOKUP_COST_PER_LEG,
         PATH_LOOKUP_COST_PER_ZERO_BYTE
<1> HIDE DEF legs
<1> QED
  BY <1>1, <1>2, <1>3
-----------------------------------------------------------------------------
(* One step of the machine. *)

\* A step that keeps the run going has been paid for.
Pays == outcome' = "running" => cost' > cost

\* More nodes do not spoil a stack.
LEMMA StacksExtend ==
    ASSUME NEW S, NEW T, S \subseteq T
    PROVE  Seq(S) \subseteq Seq(T) /\ Seq(Tasks(S)) \subseteq Seq(Tasks(T))
<1>1. Tasks(S) \subseteq Tasks(T)
  BY DEF Tasks, Opcodes
<1> HIDE DEF Tasks
<1>2. ASSUME NEW A, NEW B, A \subseteq B, NEW s \in Seq(A) PROVE s \in Seq(B)
  BY <1>2
<1> QED
  BY <1>1, <1>2

\* The stacks as a step finds them.
LEMMA Stacks ==
    ASSUME NEW S, TypedOver(S), StackDiscipline, outcome = "running", tasks # <<>>
    PROVE  /\ tasks \in Seq(Tasks(S)) /\ values \in Seq(S)
           /\ Head(tasks) \in Tasks(S) /\ Head(tasks) = tasks[1]
           /\ Tail(tasks) \in Seq(Tasks(S))
           /\ Len(values) \in Nat /\ Len(values) >= Consumes(Head(tasks))
           /\ Sound(Len(values), tasks)
           /\ Sound(Len(values) + Effect(Head(tasks)), Tail(tasks))
<1>1. /\ tasks \in Seq(Tasks(S)) /\ values \in Seq(S)
      /\ Head(tasks) = tasks[1] /\ Head(tasks) \in Tasks(S)
      /\ Tail(tasks) \in Seq(Tasks(S)) /\ Len(values) \in Nat
      /\ Len(tasks) \in Nat /\ Len(tasks) > 0
  BY DEF TypedOver
<1>2. Sound(Len(values), tasks)
  BY DEF StackDiscipline, Height, Sound, Effects
<1>3. Totals(Len(values), Effects(tasks))[0] = Len(values)
  BY <1>1, EffectsType, TotalsDef
<1>4. Totals(Len(values), Effects(tasks))[1-1] >= Consumes(tasks[1])
  BY <1>1, <1>2 DEF Sound
<1>5. Sound(Len(values) + Effect(tasks[1]), Tail(tasks))
  BY <1>1, <1>2, SoundPop
<1> QED
  BY <1>1, <1>2, <1>3, <1>4, <1>5

\* What a step must establish when it leaves the run going: Sound stacks
\* are StackDiscipline.
LEMMA SoundIsDiscipline ==
    Sound(Len(values'), tasks')  =>  StackDiscipline'
BY DEF StackDiscipline, Height, Sound, Effects

\* charge: a positive amount, and stacks that are right if it is afforded.
LEMMA ChargeStep ==
    ASSUME NEW S, TypedOver(S), outcome = "running", tasks # <<>>,
           NEW T, NodeSet(T), S \subseteq T,
           NEW amount \in Nat, amount > 0,
           NEW newTasks \in Seq(Tasks(T)), NEW newValues \in Seq(T),
           Sound(Len(newValues), newTasks),
           max_cost' = max_cost,
           ChargeThen(amount, newTasks, newValues)
    PROVE  IInv' /\ Pays
<1>1. cost \in Nat /\ max_cost \in Nat /\ cost' = cost + amount
  BY DEF TypedOver, ChargeThen
<1>2. CASE Affords(cost + amount)
  <2>1. outcome' = "running" /\ tasks' = newTasks /\ values' = newValues
    BY <1>2 DEF ChargeThen
  <2>2. TypedOver(T)'
    BY <1>1, <2>1 DEF TypedOver, Outcomes
  <2>3. StackDiscipline'
    BY <2>1, SoundIsDiscipline
  <2>4. BudgetInv'
    BY <1>1, <1>2 DEF BudgetInv, Affords
  <2> QED BY <1>1, <2>2, <2>3, <2>4 DEF IInv, Typed, Pays
<1>3. CASE ~Affords(cost + amount)
  <2>1. outcome' = "cost_exceeded" /\ tasks' = Tail(tasks) /\ values' = values
    BY <1>3 DEF ChargeThen
  <2>2. TypedOver(S)'
    BY <1>1, <2>1 DEF TypedOver, Outcomes, ErrorCodes
  <2> QED BY <2>1, <2>2 DEF IInv, Typed, Pays, StackDiscipline, BudgetInv
<1> QED
  BY <1>2, <1>3

\* A step that ends the run.
LEMMA EndStep ==
    ASSUME NEW S, TypedOver(S), max_cost' = max_cost, cost' \in Nat,
           outcome' \in Outcomes, outcome' # "running",
           tasks' \in Seq(Tasks(S)), values' \in Seq(S)
    PROVE  IInv' /\ Pays
<1>1. TypedOver(S)'
  BY DEF TypedOver
<1> QED
  BY <1>1 DEF IInv, Typed, Pays, StackDiscipline, BudgetInv

\* raise, with nothing charged.
LEMMA RaiseStep ==
    ASSUME NEW S, TypedOver(S), StackDiscipline, outcome = "running", tasks # <<>>,
           max_cost' = max_cost, NEW code \in ErrorCodes, Raise(code)
    PROVE  IInv' /\ Pays
<1>1. tasks' \in Seq(Tasks(S)) /\ values' \in Seq(S) /\ cost' \in Nat
  BY Stacks DEF Raise, TypedOver
<1>2. outcome' \in Outcomes /\ outcome' # "running"
  BY DEF Raise, Outcomes, ErrorCodes
<1> QED
  BY <1>1, <1>2, EndStep

\* Looking a path up keeps the invariant and pays.
LEMMA EvalPathStep ==
    ASSUME NEW S, TypedOver(S), StackDiscipline, EvalPath
    PROVE  IInv' /\ Pays
<1> DEFINE path == Head(tasks).node
           e == Head(tasks).env
           found == Lookup(path, e)
           newValues == <<found>> \o values
<1>1. /\ outcome = "running" /\ tasks # <<>> /\ max_cost' = max_cost
      /\ Head(tasks).kind = "EVAL" /\ IsAtom(path)
  BY DEF EvalPath, Pending, arguments
<1>2. /\ values \in Seq(S) /\ Len(values) \in Nat
      /\ Tail(tasks) \in Seq(Tasks(S)) /\ Head(tasks) \in Tasks(S)
      /\ Sound(Len(values) + Effect(Head(tasks)), Tail(tasks))
  BY <1>1, Stacks
<1>3. path \in S /\ e \in S /\ Effect(Head(tasks)) = 1
  BY <1>1, <1>2 DEF Tasks, Effect, Consumes
<1>4. NodeSet(S) /\ Len(path.bytes) \in Nat
  BY <1>1, <1>3 DEF TypedOver, NodeSet, IsNodeIn, IsAtom, IsPair
<1>5. CASE found = PathIntoAtom
  <2>1. Raise("path_into_atom") /\ "path_into_atom" \in ErrorCodes
    BY <1>5 DEF EvalPath, ErrorCodes
  <2> QED BY <1>1, <2>1, RaiseStep
<1>6. CASE found # PathIntoAtom
  <2> DEFINE T == S \cup {found}
  <2>1. ChargeThen(PathCost(path), Tail(tasks), newValues)
    BY <1>6 DEF EvalPath
  <2>2. NodeSet(T) /\ S \subseteq T
    BY <1>3, <1>4, <1>6, LookupType
  <2>3. PathCost(path) \in Nat /\ PathCost(path) > 0
    BY <1>4, PathCostType
  <2>4. Tail(tasks) \in Seq(Tasks(T)) /\ values \in Seq(T)
    BY <1>2, <2>2, StacksExtend
  <2>5. newValues \in Seq(T) /\ Len(newValues) = Len(values) + 1
    <3>1. <<found>> \in Seq(T) /\ Len(<<found>>) = 1
      OBVIOUS
    <3> HIDE DEF found, T
    <3> QED BY <2>4, <3>1
  <2>6. Sound(Len(newValues), Tail(tasks))
    BY <1>2, <1>3, <2>5
  <2> HIDE DEF newValues, T, path, found, e
  <2> QED BY <1>1, <2>1, <2>2, <2>3, <2>4, <2>5, <2>6, ChargeStep
<1> QED
  BY <1>5, <1>6

\* Raising on a pair in operator position keeps the invariant.
LEMMA PairInOperatorPositionStep ==
    ASSUME NEW S, TypedOver(S), StackDiscipline, PairInOperatorPosition
    PROVE  IInv' /\ Pays
<1>1. /\ outcome = "running" /\ tasks # <<>> /\ max_cost' = max_cost
      /\ Raise("operator_not_atom") /\ "operator_not_atom" \in ErrorCodes
  BY DEF PairInOperatorPosition, Pending, arguments, ErrorCodes
<1> QED
  BY <1>1, RaiseStep

\* Evaluating a quotation keeps the invariant and pays.
LEMMA EvalQuoteStep ==
    ASSUME NEW S, TypedOver(S), StackDiscipline, EvalQuote
    PROVE  IInv' /\ Pays
<1> DEFINE node == Head(tasks).node
           newValues == <<Rest(node)>> \o values
<1>1. /\ outcome = "running" /\ tasks # <<>> /\ max_cost' = max_cost
      /\ Head(tasks).kind = "EVAL" /\ IsPair(node)
      /\ ChargeThen(QUOTE_COST, Tail(tasks), newValues)
  BY DEF EvalQuote, Pending, arguments
<1>2. /\ values \in Seq(S) /\ Len(values) \in Nat
      /\ Tail(tasks) \in Seq(Tasks(S)) /\ Head(tasks) \in Tasks(S)
      /\ Sound(Len(values) + Effect(Head(tasks)), Tail(tasks))
  BY <1>1, Stacks
<1>3. node \in S /\ Effect(Head(tasks)) = 1 /\ NodeSet(S)
  BY <1>1, <1>2 DEF Tasks, Effect, Consumes, TypedOver
<1>4. Rest(node) \in S
  BY <1>1, <1>3, PairParts
<1>5. newValues \in Seq(S) /\ Len(newValues) = Len(values) + 1
  BY <1>2, <1>4
<1>6. Sound(Len(newValues), Tail(tasks))
  BY <1>2, <1>3, <1>5
<1>7. QUOTE_COST \in Nat /\ QUOTE_COST > 0 /\ S \subseteq S
  BY DEF QUOTE_COST
<1> HIDE DEF newValues, node
<1> QED
  BY <1>1, <1>2, <1>3, <1>5, <1>6, <1>7, ChargeStep

\* The tasks an application pushes: as many evaluations as arguments, and a
\* task that consumes their values.
LEMMA PushedType ==
    ASSUME NEW S, NEW op \in S, IsAtom(op), IsKnown(op),
           NEW args \in Seq(S), NEW e \in S
    PROVE  /\ Pushed(op, args, e) \in Seq(Tasks(S))
           /\ Len(Pushed(op, args, e)) = Len(args) + 1
           /\ \A i \in 1..Len(args) : Pushed(op, args, e)[i].kind = "EVAL"
           /\ Consumes(Pushed(op, args, e)[Len(args) + 1]) = Len(args)
           /\ Effect(Pushed(op, args, e)[Len(args) + 1]) = 1 - Len(args)
<1> DEFINE n == Len(args)
           last == ApplicationTask(op, n)
           evals == [i \in 1..n |-> Eval(args[n + 1 - i], e)]
<1>1. n \in Nat
  OBVIOUS
<1>2. \A i \in 1..n : Eval(args[n + 1 - i], e) \in Tasks(S)
  <2> SUFFICES ASSUME NEW i \in 1..n PROVE Eval(args[n + 1 - i], e) \in Tasks(S)
    OBVIOUS
  <2>1. args[n + 1 - i] \in S
    OBVIOUS
  <2> QED BY <2>1 DEF Eval, Tasks
<1>3. last \in Tasks(S) /\ last.kind # "EVAL" /\ last.count = n
  <2>1. CASE op = APPLY
    BY <1>1, <2>1 DEF ApplicationTask, ApplyProgramTask, Tasks
  <2>2. CASE op # APPLY
    <3>1. op \in Opcodes(S)
      BY <2>2 DEF Opcodes, IsKnown
    <3>2. last = [kind |-> "APPLY_OP", op |-> op, count |-> n]
      BY <2>2 DEF ApplicationTask, ApplyOpTask
    <3>3. last \in [kind : {"APPLY_OP"}, op : Opcodes(S), count : Nat]
      BY <1>1, <3>1, <3>2
    <3> QED BY <3>2, <3>3 DEF Tasks
  <2> QED BY <2>1, <2>2
<1>4. Consumes(last) = n /\ Effect(last) = 1 - n
  BY <1>3 DEF Consumes, Effect
<1>5. \A i \in 1..n : evals[i].kind = "EVAL"
  BY DEF Eval
<1>6. evals \in Seq(Tasks(S)) /\ Len(evals) = n
  <2> DEFINE T == Tasks(S)
             E(i) == Eval(args[n + 1 - i], e)
  <2>1. \A i \in 1..n : E(i) \in T
    BY <1>2
  <2> HIDE DEF T, E
  <2>2. [i \in 1..n |-> E(i)] \in Seq(T) /\ Len([i \in 1..n |-> E(i)]) = n
    BY <1>1, <2>1
  <2> QED BY <2>2 DEF T, E
<1>7. <<last>> \in Seq(Tasks(S)) /\ Len(<<last>>) = 1 /\ <<last>>[1] = last
  BY <1>3
<1>8. Pushed(op, args, e) = evals \o <<last>>
  BY DEF Pushed
<1> HIDE DEF evals, last, n
<1>9. /\ evals \o <<last>> \in Seq(Tasks(S))
      /\ Len(evals \o <<last>>) = n + 1
      /\ \A i \in 1..(n+1) : (evals \o <<last>>)[i] = IF i <= n THEN evals[i] ELSE <<last>>[i - n]
  BY <1>1, <1>6, <1>7, ConcatProperties
<1>10. (evals \o <<last>>)[n + 1] = last
  BY <1>1, <1>7, <1>9
<1>11. \A i \in 1..n : (evals \o <<last>>)[i] = evals[i]
  BY <1>1, <1>9
<1> QED
  BY <1>1, <1>4, <1>5, <1>8, <1>9, <1>10, <1>11 DEF n

\* Pushing an application's operands keeps the invariant and pays.
LEMMA EvalApplicationStep ==
    ASSUME NEW S, TypedOver(S), StackDiscipline, EvalApplication
    PROVE  IInv' /\ Pays
<1> DEFINE node == Head(tasks).node
           op == First(node)
           args == ListElems(Rest(node))
           k == Len(args)
           pushed == Pushed(op, args, Head(tasks).env)
           newTasks == pushed \o Tail(tasks)
<1>1. /\ outcome = "running" /\ tasks # <<>> /\ max_cost' = max_cost
      /\ Head(tasks).kind = "EVAL" /\ IsPair(node) /\ IsAtom(op)
  BY DEF EvalApplication, Pending, arguments
<1>2. /\ values \in Seq(S) /\ Len(values) \in Nat /\ Sound(Len(values), tasks)
      /\ tasks \in Seq(Tasks(S)) /\ Head(tasks) = tasks[1]
      /\ Tail(tasks) \in Seq(Tasks(S)) /\ Head(tasks) \in Tasks(S)
  BY <1>1, Stacks
<1>3. /\ node \in S /\ Head(tasks).env \in S /\ NodeSet(S)
      /\ Effect(Head(tasks)) = 1
  BY <1>1, <1>2 DEF Tasks, Effect, Consumes, TypedOver
<1>4. op \in S /\ Rest(node) \in S
  BY <1>1, <1>3, PairParts
<1>5. args \in Seq(S)
  <2>1. CASE IsPair(Rest(node))
    BY <1>3, <1>4, <2>1, PairParts DEF ListElems
  <2>2. CASE ~IsPair(Rest(node))
    BY <2>2 DEF ListElems
  <2> QED BY <2>1, <2>2
<1>6. CASE ~IsProperList(Rest(node))
  <2>1. Raise("bad_arg_list") /\ "bad_arg_list" \in ErrorCodes
    BY <1>6 DEF EvalApplication, ErrorCodes
  <2> QED BY <1>1, <2>1, RaiseStep
<1>7. CASE IsProperList(Rest(node)) /\ ~IsKnown(op)
  <2>1. Raise("unknown_operator") /\ "unknown_operator" \in ErrorCodes
    BY <1>7 DEF EvalApplication, ErrorCodes
  <2> QED BY <1>1, <2>1, RaiseStep
<1>8. CASE IsProperList(Rest(node)) /\ IsKnown(op)
  <2>1. ChargeThen(OP_DISPATCH_COST, newTasks, values)
    BY <1>8 DEF EvalApplication
  <2>2. /\ pushed \in Seq(Tasks(S))
        /\ Len(pushed) = k + 1
        /\ \A i \in 1..k : pushed[i].kind = "EVAL"
        /\ Consumes(pushed[k + 1]) = k
        /\ Effect(pushed[k + 1]) = 1 - k
        /\ k \in Nat
    <3> HIDE DEF op, args
    <3> QED BY <1>1, <1>3, <1>4, <1>5, <1>8, PushedType
  <2>3. /\ newTasks \in Seq(Tasks(S))
        /\ Len(newTasks) = Len(tasks) + k
        /\ \A i \in 1..(k+1) : newTasks[i] = pushed[i]
        /\ \A i \in 2..Len(tasks) : newTasks[i+k] = tasks[i]
    <3> DEFINE rest == Tail(tasks)
    <3>1. /\ rest \in Seq(Tasks(S)) /\ Len(rest) = Len(tasks) - 1
          /\ Len(tasks) \in Nat /\ Len(tasks) > 0
          /\ \A i \in 1..Len(rest) : rest[i] = tasks[i+1]
      BY <1>1, <1>2
    <3> HIDE DEF pushed, k, rest
    <3>2. /\ pushed \o rest \in Seq(Tasks(S))
          /\ Len(pushed \o rest) = (k + 1) + Len(rest)
          /\ \A i \in 1..((k+1)+Len(rest)) : (pushed \o rest)[i] =
                IF i <= k + 1 THEN pushed[i] ELSE rest[i - (k + 1)]
      BY <2>2, <3>1, ConcatProperties, SMTT(20)
    <3>3. \A i \in 1..(k+1) : (pushed \o rest)[i] = pushed[i]
      BY <2>2, <3>1, <3>2
    <3>4. ASSUME NEW i \in 2..Len(tasks) PROVE (pushed \o rest)[i+k] = tasks[i]
      <4>1. /\ i + k \in 1..((k+1)+Len(rest)) /\ ~(i + k <= k + 1)
            /\ (i + k) - (k + 1) = i - 1 /\ i - 1 \in 1..Len(rest)
        BY <2>2, <3>1
      <4>2. (pushed \o rest)[i+k] = rest[i-1] /\ rest[i-1] = tasks[(i-1)+1]
        BY <3>1, <3>2, <4>1
      <4> QED BY <4>2
    <3> QED BY <2>2, <3>1, <3>2, <3>3, <3>4, SMTT(20) DEF rest
  <2>4. Sound(Len(values), newTasks)
    <3> DEFINE h == Len(values)
    <3>1. /\ \A i \in 1..k : newTasks[i].kind = "EVAL"
          /\ newTasks[k+1] = pushed[k+1]
      <4> HIDE DEF newTasks, pushed, k
      <4> QED BY <2>2, <2>3
    <3>2. /\ h + k + Effect(newTasks[k+1]) = h + Effect(tasks[1])
          /\ h + k >= Consumes(newTasks[k+1]) /\ h \in Int /\ h \in Nat
      <4> HIDE DEF newTasks, pushed, k
      <4> QED BY <1>2, <1>3, <2>2, <3>1
    <3> HIDE DEF newTasks, pushed, k, h
    <3> QED BY <1>1, <1>2, <2>2, <2>3, <3>1, <3>2, SoundReplace DEF h
  <2>5. OP_DISPATCH_COST \in Nat /\ OP_DISPATCH_COST > 0 /\ S \subseteq S
    BY DEF OP_DISPATCH_COST
  <2> HIDE DEF newTasks
  <2> QED BY <1>1, <1>2, <1>3, <2>1, <2>3, <2>4, <2>5, ChargeStep
<1> QED
  BY <1>6, <1>7, <1>8
\* The values a task consumes and the values below them.
LEMMA Slices ==
    ASSUME NEW S, NEW vs \in Seq(S), NEW n \in Nat, Len(vs) >= n
    PROVE  /\ SubSeq(vs, 1, n) \in Seq(S)
           /\ SubSeq(vs, n + 1, Len(vs)) \in Seq(S)
           /\ Len(SubSeq(vs, n + 1, Len(vs))) = Len(vs) - n
OBVIOUS

\* The outcome of an operator's run under the budget.
LEMMA ConcludeStep ==
    ASSUME NEW S, TypedOver(S), outcome = "running", max_cost' = max_cost,
           NEW body, IsRun(body, S), NEW rest \in Seq(S),
           tasks' \in Seq(Tasks(S)), Sound(Len(rest) + 1, tasks'),
           Conclude(body, rest)
    PROVE  IInv' /\ Pays
<1> DEFINE charges == body.charges
           n == Len(charges)
           spent == Totals(cost, charges)
           burst == {i \in 1..n : ~Affords(spent[i])}
           first == CHOOSE i \in burst : \A j \in burst : i <= j
<1>1. /\ cost \in Nat /\ max_cost \in Nat /\ n \in Nat
      /\ \A i \in 1..n : charges[i] \in Nat
  BY DEF TypedOver, IsRun, IsCharges
<1>2. /\ \A i \in 0..n : spent[i] \in Nat
      /\ n > 0 => spent[n] >= cost + charges[1]
  <2> HIDE DEF charges
  <2> QED BY <1>1, TotalsGrow DEF Total
<1>3. CASE burst # {}
  <2>1. outcome' = "cost_exceeded" /\ cost' = spent[first] /\ values' = rest
    BY <1>3 DEF Conclude
  <2>2. first \in burst
    <3>1. burst \in SUBSET Nat
      OBVIOUS
    <3> HIDE DEF burst
    <3>2. \E i \in burst : \A j \in burst : i <= j
      BY <1>3, <3>1, LeastElement
    <3> QED BY <3>2
  <2>3. cost' \in Nat
    <3>1. first \in 0..n
      BY <1>1, <2>2
    <3> HIDE DEF first, n, spent
    <3> QED BY <1>2, <2>1, <3>1
  <2>4. outcome' \in Outcomes /\ outcome' # "running"
    BY <2>1 DEF Outcomes, ErrorCodes
  <2> QED BY <2>1, <2>3, <2>4, EndStep
<1>4. CASE burst = {} /\ body.code # Ok
  <2>1. outcome' = body.code /\ cost' = spent[n] /\ values' = rest
    BY <1>4 DEF Conclude
  <2>2. outcome' \in Outcomes /\ outcome' # "running"
    BY <1>4, <2>1 DEF IsRun, OperatorErrors, Outcomes, ErrorCodes, Ok
  <2>3. cost' \in Nat
    BY <1>1, <1>2, <2>1
  <2> QED BY <2>1, <2>2, <2>3, EndStep
<1>5. CASE burst = {} /\ body.code = Ok
  <2> DEFINE newValues == <<body.value>> \o rest
  <2> PICK T : S \subseteq T /\ NodeSet(T) /\ body.value \in T
    BY <1>5 DEF IsRun
  <2>1. outcome' = "running" /\ cost' = spent[n] /\ values' = newValues
    BY <1>5 DEF Conclude
  <2>2. NodeSet(T) /\ S \subseteq T /\ n > 0 /\ charges[1] > 0
    BY <1>5 DEF IsRun
  <2>3. cost' \in Nat /\ cost' > cost
    <3>1. charges[1] \in Nat /\ n \in 0..n
      BY <1>1, <2>2
    <3> HIDE DEF charges, n, spent
    <3> QED BY <1>1, <1>2, <2>1, <2>2, <3>1
  <2>4. cost' <= max_cost
    <3>1. n \in 1..n
      BY <1>1, <2>2
    <3>2. Affords(spent[n])
      BY <1>5, <3>1
    <3> QED BY <2>1, <3>2 DEF Affords
  <2>5. tasks' \in Seq(Tasks(T)) /\ rest \in Seq(T)
    BY <2>2, StacksExtend
  <2>6. newValues \in Seq(T) /\ Len(newValues) = Len(rest) + 1
    <3>1. <<body.value>> \in Seq(T) /\ Len(<<body.value>>) = 1
      OBVIOUS
    <3> QED BY <2>5, <3>1
  <2>7. TypedOver(T)'
    <3> HIDE DEF newValues
    <3> QED BY <1>1, <2>1, <2>2, <2>3, <2>5, <2>6 DEF TypedOver, Outcomes
  <2>8. StackDiscipline'
    <3> HIDE DEF newValues
    <3> QED BY <2>1, <2>6, SoundIsDiscipline
  <2>9. BudgetInv'
    BY <2>4 DEF BudgetInv
  <2> QED BY <2>3, <2>7, <2>8, <2>9 DEF IInv, Typed, Pays
<1> QED
  BY <1>3, <1>4, <1>5

\* Running an operator keeps the invariant and pays.
LEMMA ApplyOpStep ==
    ASSUME NEW S, TypedOver(S), StackDiscipline, ApplyOp
    PROVE  IInv' /\ Pays
<1> DEFINE op == Head(tasks).op
           n == Head(tasks).count
           args == SubSeq(values, 1, n)
           rest == SubSeq(values, n + 1, Len(values))
<1>1. /\ outcome = "running" /\ tasks # <<>> /\ max_cost' = max_cost
      /\ Head(tasks).kind = "APPLY_OP" /\ tasks' = Tail(tasks)
  BY DEF ApplyOp, Pending, arguments
<1>2. /\ values \in Seq(S) /\ Len(values) \in Nat
      /\ Len(values) >= Consumes(Head(tasks))
      /\ Tail(tasks) \in Seq(Tasks(S)) /\ Head(tasks) \in Tasks(S)
      /\ Sound(Len(values) + Effect(Head(tasks)), Tail(tasks))
  BY <1>1, Stacks
<1>3. n \in Nat /\ (op \in OPERATORS \/ IsReserved(op)) /\ Consumes(Head(tasks)) = n
  BY <1>1, <1>2 DEF Tasks, Opcodes, Consumes
<1>4. args \in Seq(S) /\ rest \in Seq(S) /\ Len(rest) = Len(values) - n
  BY <1>2, <1>3, Slices
<1>5. CASE IsReserved(op)
  <2>1. outcome' = "reserved_operator" /\ values' = rest /\ cost' = cost
    BY <1>5 DEF ApplyOp
  <2>2. outcome' \in Outcomes /\ outcome' # "running" /\ cost' \in Nat
    BY <2>1 DEF Outcomes, ErrorCodes, TypedOver
  <2> HIDE DEF rest
  <2> QED BY <1>1, <1>2, <1>4, <2>1, <2>2, EndStep
<1>6. CASE ~IsReserved(op)
  <2>1. Conclude(RunOperator(op, args), rest)
    BY <1>6 DEF ApplyOp
  <2>2. IsRun(RunOperator(op, args), S)
    <3>1. NodeSet(S) /\ op \in OPERATORS
      BY <1>3, <1>6 DEF TypedOver
    <3> HIDE DEF op, args
    <3> QED BY <1>4, <3>1, OperatorsRun
  <2>3. Sound(Len(rest) + 1, tasks')
    <3>1. Len(values) + Effect(Head(tasks)) = Len(rest) + 1
      <4> HIDE DEF rest, n
      <4> QED BY <1>2, <1>3, <1>4 DEF Effect
    <3> QED BY <1>1, <1>2, <3>1
  <2> HIDE DEF rest, args, op
  <2> QED BY <1>1, <1>2, <1>4, <2>1, <2>2, <2>3, ConcludeStep
<1> QED
  BY <1>5, <1>6

\* Applying a program keeps the invariant and pays.
LEMMA ApplyProgramStep ==
    ASSUME NEW S, TypedOver(S), StackDiscipline, BudgetInv, ApplyProgram
    PROVE  IInv' /\ Pays
<1> DEFINE n == Head(tasks).count
           rest == SubSeq(values, n + 1, Len(values))
<1>1. /\ outcome = "running" /\ tasks # <<>> /\ max_cost' = max_cost
      /\ Head(tasks).kind = "APPLY_PROGRAM"
      /\ cost \in Nat /\ max_cost \in Nat /\ NodeSet(S)
  BY DEF ApplyProgram, Pending, arguments, TypedOver
<1>2. /\ values \in Seq(S) /\ Len(values) \in Nat
      /\ Len(values) >= Consumes(Head(tasks))
      /\ tasks \in Seq(Tasks(S)) /\ Head(tasks) = tasks[1] /\ Sound(Len(values), tasks)
      /\ Tail(tasks) \in Seq(Tasks(S)) /\ Head(tasks) \in Tasks(S)
  BY <1>1, Stacks
<1>3. n \in Nat /\ Consumes(Head(tasks)) = n /\ Effect(Head(tasks)) = 1 - n
  BY <1>1, <1>2 DEF Tasks, Consumes, Effect
<1>4. rest \in Seq(S) /\ Len(rest) = Len(values) - n
  BY <1>2, <1>3, Slices
<1>5. CASE n # 2
  <2>1. /\ outcome' = "wrong_arg_count" /\ tasks' = Tail(tasks)
        /\ values' = rest /\ cost' = cost
    BY <1>5 DEF ApplyProgram
  <2>2. outcome' \in Outcomes /\ outcome' # "running" /\ cost' \in Nat
    BY <1>1, <2>1 DEF Outcomes, ErrorCodes
  <2> HIDE DEF rest
  <2> QED BY <1>1, <1>2, <1>4, <2>1, <2>2, EndStep
<1>6. CASE n = 2
  <2> DEFINE applied == Eval(values[1], values[2])
             newTasks == <<applied>> \o Tail(tasks)
  <2>1. /\ cost' = cost + 90 /\ outcome' = "running"
        /\ tasks' = newTasks /\ values' = rest
    BY <1>1, <1>6, SMTT(20) DEF ApplyProgram, APPLY_COST
  <2>2. applied \in Tasks(S) /\ applied.kind = "EVAL"
    <3>1. values[1] \in S /\ values[2] \in S
      BY <1>2, <1>3, <1>6
    <3> QED BY <3>1 DEF Eval, Tasks
  <2>3. /\ newTasks \in Seq(Tasks(S)) /\ Len(newTasks) = Len(tasks)
        /\ newTasks[1] = applied /\ Head(newTasks) = applied /\ newTasks # <<>>
        /\ \A i \in 2..Len(tasks) : newTasks[i] = tasks[i]
    <3> HIDE DEF applied
    <3> QED BY <1>1, <1>2, <2>2
  <2>4. Sound(Len(rest), newTasks)
    <3> DEFINE h == Len(values)
               h2 == Len(rest)
               k == 0
    <3>1. Consumes(newTasks[k+1]) = 0 /\ Effect(newTasks[k+1]) = 1
      BY <2>2, <2>3 DEF Consumes, Effect
    <3>2. /\ h2 + k + Effect(newTasks[k+1]) = h + Effect(tasks[1])
          /\ h2 + k >= Consumes(newTasks[k+1])
          /\ h \in Int /\ h2 \in Nat /\ k \in Nat
          /\ Len(newTasks) = Len(tasks) + k
          /\ \A i \in 1..k : newTasks[i].kind = "EVAL"
          /\ \A i \in 2..Len(tasks) : newTasks[i+k] = tasks[i]
      <4> HIDE DEF newTasks, rest, n
      <4> QED BY <1>2, <1>3, <1>4, <1>6, <2>3, <3>1
    <3> HIDE DEF newTasks, rest, h, h2, k
    <3>3. Sound(h2, newTasks)
      BY <1>1, <1>2, <2>3, <3>2, SoundReplace, ZenonT(30) DEF h
    <3> QED BY <3>3 DEF h2
  <2>5. StackDiscipline'
    <3> HIDE DEF newTasks, rest
    <3> QED BY <2>1, <2>4, SoundIsDiscipline
  <2>6. TypedOver(S)'
    <3> HIDE DEF newTasks, rest
    <3> QED BY <1>1, <1>4, <2>1, <2>3 DEF TypedOver, Outcomes
  <2>7. BudgetInv'
    <3>1. cost <= max_cost
      BY <1>1 DEF BudgetInv
    <3> HIDE DEF newTasks
    <3> QED BY <1>1, <2>1, <2>2, <2>3, <3>1 DEF BudgetInv, APPLY_COST
  <2> QED BY <1>1, <2>1, <2>5, <2>6, <2>7 DEF IInv, Typed, Pays
<1> QED
  BY <1>5, <1>6

\* The return, and the backstop before it, keep the invariant.
LEMMA FinishTurn ==
    ASSUME NEW S, TypedOver(S), Finish
    PROVE  IInv' /\ Pays
<1>1. /\ max_cost' = max_cost /\ cost' = cost /\ cost \in Nat
      /\ tasks' \in Seq(Tasks(S)) /\ values' \in Seq(S)
  BY DEF Finish, TypedOver
<1>2. outcome' \in Outcomes /\ outcome' # "running"
  BY DEF Finish, Outcomes, ErrorCodes
<1> QED
  BY <1>1, <1>2, EndStep

\* A run starts in the invariant.
LEMMA InitIInv == Init => IInv
<1> SUFFICES ASSUME Init PROVE IInv
  OBVIOUS
<1> DEFINE first == Eval(program, env)
<1>1. /\ program \in Nodes /\ env \in Nodes /\ NodeSet(Nodes)
      /\ max_cost \in Nat /\ cost = 0 /\ outcome = "running"
      /\ tasks = <<first>> /\ values = <<>>
  BY ArgumentsAreNodes, BudgetsAreNat DEF Init
<1>2. first \in Tasks(Nodes) /\ first.kind = "EVAL"
  BY <1>1 DEF Eval, Tasks
<1>3. tasks \in Seq(Tasks(Nodes)) /\ Len(tasks) = 1 /\ tasks[1] = first
  BY <1>1, <1>2
<1>4. TypedOver(Nodes)
  <2>1. values \in Seq(Nodes)
    BY <1>1
  <2> QED BY <1>1, <1>3, <2>1 DEF TypedOver, Outcomes
<1>5. StackDiscipline
  <2> DEFINE t == Totals(0, Effects(tasks))
  <2>1. /\ Len(Effects(tasks)) = 1 /\ Effects(tasks)[1] = 1 /\ Consumes(tasks[1]) = 0
        /\ \A i \in 1..Len(Effects(tasks)) : Effects(tasks)[i] \in Int
    <3>1. 1 \in 1..Len(tasks)
      BY <1>3
    <3>2. tasks[1].kind = "EVAL"
      BY <1>2, <1>3
    <3>3. Consumes(tasks[1]) = 0 /\ Effect(tasks[1]) = 1
      BY <3>2 DEF Consumes, Effect
    <3>4. /\ Len(Effects(tasks)) = Len(tasks) /\ Effects(tasks)[1] = Effect(tasks[1])
          /\ \A i \in 1..Len(Effects(tasks)) : Effects(tasks)[i] \in Int
      BY <1>3, <3>1, EffectsType
    <3> QED BY <1>3, <3>3, <3>4
  <2>2. t[0] = 0 /\ t[1] = 1
    <3>1. t[0] = 0 /\ t[1] = t[1-1] + Effects(tasks)[1]
      BY <2>1, TotalsDef
    <3> QED BY <2>1, <3>1
  <2>3. Sound(0, tasks)
    BY <1>3, <2>1, <2>2 DEF Sound
  <2>4. Len(values) = 0
    BY <1>1
  <2> HIDE DEF t
  <2> QED BY <2>3, <2>4 DEF StackDiscipline, Height, Sound, Effects
<1>6. BudgetInv
  BY <1>1 DEF BudgetInv
<1> QED
  BY <1>4, <1>5, <1>6 DEF IInv, Typed

\* Every turn keeps the invariant, and pays if it executes a task.
LEMMA NextIInv == IInv /\ [Next]_vars => IInv' /\ (Next => Pays)
<1> SUFFICES ASSUME IInv, [Next]_vars PROVE IInv' /\ (Next => Pays)
  OBVIOUS
<1>1. PICK S : TypedOver(S)
  BY DEF IInv, Typed
<1>2. StackDiscipline /\ BudgetInv
  BY DEF IInv
<1>3. CASE EvalPath
  BY <1>1, <1>2, <1>3, EvalPathStep
<1>4. CASE PairInOperatorPosition
  BY <1>1, <1>2, <1>4, PairInOperatorPositionStep
<1>5. CASE EvalQuote
  BY <1>1, <1>2, <1>5, EvalQuoteStep
<1>6. CASE EvalApplication
  BY <1>1, <1>2, <1>6, EvalApplicationStep
<1>7. CASE ApplyOp
  BY <1>1, <1>2, <1>7, ApplyOpStep
<1>8. CASE ApplyProgram
  BY <1>1, <1>2, <1>8, ApplyProgramStep
<1>9. CASE Finish
  BY <1>1, <1>9, FinishTurn
<1>10. CASE UNCHANGED vars /\ ~Next
  <2>1. /\ tasks' = tasks /\ values' = values /\ cost' = cost
        /\ max_cost' = max_cost /\ outcome' = outcome
    BY <1>10 DEF vars
  <2>2. TypedOver(S)'
    BY <1>1, <2>1 DEF TypedOver
  <2>3. StackDiscipline' /\ BudgetInv'
    BY <1>2, <2>1 DEF StackDiscipline, Height, BudgetInv
  <2> QED BY <1>10, <2>2, <2>3 DEF IInv, Typed
<1> QED
  BY <1>3, <1>4, <1>5, <1>6, <1>7, <1>8, <1>9, <1>10 DEF Next, ExecuteTask

-----------------------------------------------------------------------------
(* The theorems. *)

\* The inductive invariant holds of every run.  (machine.run)
THEOREM Invariance == Spec => []IInv
<1>1. Init => IInv
  BY InitIInv
<1>2. IInv /\ [Next]_vars => IInv'
  BY NextIInv
<1> QED
  BY <1>1, <1>2, PTL DEF Spec

\* The stacks hold tasks, the cost is a natural number and run ends in no
\* outcome but its own.  (machine.run's locals and raises)
THEOREM TypeCorrect == Spec => []TypeOK
<1>1. IInv => TypeOK
  <2> SUFFICES ASSUME NEW S, TypedOver(S) PROVE TypeOK
    BY DEF IInv, Typed
  <2>1. cost \in Nat /\ outcome \in {"running", "done"} \cup ErrorCodes
    BY DEF TypedOver, Outcomes
  <2>2. ASSUME NEW i \in 1..Len(tasks)
        PROVE  \/ tasks[i].kind = "EVAL"
               \/ tasks[i].kind \in {"APPLY_OP", "APPLY_PROGRAM"} /\ tasks[i].count \in Nat
    <3>1. tasks[i] \in Tasks(S)
      BY DEF TypedOver
    <3> QED BY <3>1 DEF Tasks
  <2> QED BY <2>1, <2>2 DEF TypeOK
<1> QED
  BY <1>1, Invariance, PTL

\* The budget is exceeded by at most one application's cost, and only while
\* a charge is certain to follow.  (machine.py: accrue)
THEOREM BudgetSafe == Spec => []BudgetInv
<1>1. IInv => BudgetInv
  BY DEF IInv
<1> QED
  BY <1>1, Invariance, PTL

\* The check after the loop never fires.  (machine.py: "cannot fire")
THEOREM BackstopCannotFire == Spec => []BackstopUnreachable
<1>1. IInv => BackstopUnreachable
  BY DEF IInv, BudgetInv, BackstopUnreachable
<1> QED
  BY <1>1, Invariance, PTL

\* No slice of the value stack underflows and a run that empties its task
\* stack leaves one value.  (machine.py: vals[-n:], vals[0])
THEOREM StacksAreDisciplined == Spec => []StackDiscipline
<1>1. IInv => StackDiscipline
  BY DEF IInv
<1> QED
  BY <1>1, Invariance, PTL

\* Every task that does not end the run raises the cost.  (the uncounted
\* work of a run is bounded by its budget)
THEOREM TasksPay == Spec => EveryTaskPays
<1>1. IInv /\ [Next]_vars => [outcome' = "running" => cost' > cost]_vars
  BY NextIInv DEF Pays
<1> QED
  BY <1>1, Invariance, PTL DEF Spec, EveryTaskPays

-----------------------------------------------------------------------------
(***************************************************************************)
(* The debugger.  A task's subtree is a stack of its own: the tasks it has *)
(* pushed, and the values they will consume, lie on top of the ones that   *)
(* were there when the command began.                                      *)
(***************************************************************************)

\* Nothing is pending on exactly one value.
LEMMA SoundEmpty == \A h \in Int : Sound(h, <<>>) <=> h = 1
<1> SUFFICES ASSUME NEW h \in Int PROVE Sound(h, <<>>) <=> h = 1
  OBVIOUS
<1> DEFINE none == Effects(<<>>)
<1>1. Len(none) = 0 /\ \A i \in 1..Len(none) : none[i] \in Int
  BY DEF Effects
<1> HIDE DEF none
<1>2. Totals(h, none)[0] = h
  BY <1>1, TotalsDef
<1> QED
  BY <1>2 DEF Sound, none

\* A task on the values it consumes leaves one value.
LEMMA SoundSingle ==
    ASSUME NEW S, NEW task \in Tasks(S)
    PROVE  Consumes(task) \in Nat /\ Sound(Consumes(task), <<task>>)
<1>1. PICK ts : ts = <<task>>
  OBVIOUS
<1>2. ts \in Seq(Tasks(S)) /\ Len(ts) = 1 /\ ts[1] = task /\ 1 \in 1..Len(ts)
  BY <1>1
<1>3. Consumes(task) \in Nat /\ Effect(task) = 1 - Consumes(task)
  BY <1>2, TaskType DEF Effect
<1>4. PICK h \in Nat : h = Consumes(task)
  BY <1>3
<1>5. PICK a : a = Effects(ts)
  OBVIOUS
<1>6. Len(a) = 1 /\ a[1] = 1 - h /\ \A i \in 1..Len(a) : a[i] \in Int
  BY <1>2, <1>3, <1>4, <1>5, EffectsType
<1>7. h \in Int /\ Len(a) \in Nat /\ 1 \in 1..Len(a)
  BY <1>6
<1>8. Totals(h, a)[0] = h /\ \A i \in 1..Len(a) : Totals(h, a)[i] = Totals(h, a)[i-1] + a[i]
  BY <1>6, <1>7, TotalsDef
<1>9. Totals(h, a)[1-1] = h /\ Totals(h, a)[1] = 1
  <2>1. Totals(h, a)[1] = Totals(h, a)[1-1] + a[1]
    BY <1>7, <1>8
  <2> QED BY <1>6, <1>8, <2>1
<1>10. Sound(h, ts)
  BY <1>2, <1>4, <1>5, <1>9 DEF Sound
<1> QED
  BY <1>1, <1>3, <1>4, <1>10

\* A sound stack on one that expects a value more is a sound stack.
LEMMA SoundOver ==
    ASSUME NEW S, NEW p \in Seq(Tasks(S)), NEW q \in Seq(Tasks(S)),
           NEW l \in Nat, NEW d \in Nat, Sound(l, p), Sound(d + 1, q)
    PROVE  Sound(l + d, p \o q)
<1> DEFINE m == Len(p)
           n == Len(q)
           s == Totals(l, Effects(p))
           t == Totals(d + 1, Effects(q))
           c == Effects(p \o q)
           g == [i \in 0..(m+n) |-> IF i <= m THEN s[i] + d ELSE t[i-m]]
<1>1. /\ m \in Nat /\ n \in Nat /\ p \o q \in Seq(Tasks(S)) /\ Len(p \o q) = m + n
      /\ \A i \in 1..(m+n) : (p \o q)[i] = IF i <= m THEN p[i] ELSE q[i-m]
  BY ConcatProperties
<1>2. /\ s[0] = l /\ \A i \in 1..m : s[i] = s[i-1] + Effect(p[i])
      /\ \A i \in 0..m : s[i] \in Int
  <2>1. /\ Len(Effects(p)) = m /\ \A i \in 1..m : Effects(p)[i] = Effect(p[i])
        /\ \A i \in 1..Len(Effects(p)) : Effects(p)[i] \in Int
    BY EffectsType
  <2>2. s[0] = l /\ (\A i \in 1..m : s[i] = s[i-1] + Effects(p)[i]) /\ \A i \in 0..m : s[i] \in Int
    <3> DEFINE x == Effects(p)
    <3>1. Len(x) \in Nat /\ Len(x) = m /\ l \in Int /\ \A i \in 1..Len(x) : x[i] \in Int
      BY <1>1, <2>1
    <3> HIDE DEF x, m
    <3>2. /\ Totals(l, x) \in [0..Len(x) -> Int] /\ Totals(l, x)[0] = l
          /\ \A i \in 1..Len(x) : Totals(l, x)[i] = Totals(l, x)[i-1] + x[i]
      BY <3>1, TotalsDef
    <3> QED BY <3>1, <3>2 DEF x
  <2> QED BY <2>1, <2>2
<1>3. /\ t[0] = d + 1 /\ \A i \in 1..n : t[i] = t[i-1] + Effect(q[i])
      /\ \A i \in 0..n : t[i] \in Int
  <2>1. /\ Len(Effects(q)) = n /\ \A i \in 1..n : Effects(q)[i] = Effect(q[i])
        /\ \A i \in 1..Len(Effects(q)) : Effects(q)[i] \in Int
    BY EffectsType
  <2>2. t[0] = d + 1 /\ (\A i \in 1..n : t[i] = t[i-1] + Effects(q)[i]) /\ \A i \in 0..n : t[i] \in Int
    <3> DEFINE x == Effects(q)
    <3>1. Len(x) \in Nat /\ Len(x) = n /\ d + 1 \in Int /\ \A i \in 1..Len(x) : x[i] \in Int
      BY <1>1, <2>1
    <3> HIDE DEF x, n
    <3>2. /\ Totals(d + 1, x) \in [0..Len(x) -> Int] /\ Totals(d + 1, x)[0] = d + 1
          /\ \A i \in 1..Len(x) : Totals(d + 1, x)[i] = Totals(d + 1, x)[i-1] + x[i]
      BY <3>1, TotalsDef
    <3> QED BY <3>1, <3>2 DEF x
  <2> QED BY <2>1, <2>2
<1>4. /\ \A i \in 1..m : s[i-1] >= Consumes(p[i])
      /\ \A i \in 1..n : t[i-1] >= Consumes(q[i])
      /\ s[m] = 1 /\ t[n] = 1
  BY DEF Sound
<1>5. /\ Len(c) = m + n /\ \A i \in 1..(m+n) : c[i] \in Int /\ c[i] = Effect((p \o q)[i])
  BY <1>1, EffectsType
<1>6. /\ \A i \in 1..m : Consumes(p[i]) \in Nat
      /\ \A i \in 1..n : Consumes(q[i]) \in Nat
  BY TaskType
<1> HIDE DEF m, n, s, t, c
\* What the joined stack's heights are above the second stack.
<1>7. ASSUME NEW i \in 1..(m+n), i > m
      PROVE  /\ i - m \in 1..n /\ (p \o q)[i] = q[i-m]
             /\ g[i] = t[i-m] /\ g[i-1] = t[(i-m)-1]
  <2>1. i - m \in 1..n /\ i \in 0..(m+n) /\ i - 1 \in 0..(m+n) /\ ~(i <= m)
    BY <1>1, <1>7
  <2>2. (p \o q)[i] = q[i-m] /\ g[i] = t[i-m]
    BY <1>1, <2>1
  <2>3. g[i-1] = t[(i-m)-1]
    <3>1. CASE i - 1 = m
      BY <1>1, <1>3, <1>4, <2>1, <3>1
    <3>2. CASE i - 1 # m
      <4>1. ~(i - 1 <= m) /\ (i - 1) - m = (i - m) - 1
        BY <1>1, <1>7, <3>2
      <4> QED BY <2>1, <4>1
    <3> QED BY <3>1, <3>2
  <2> QED BY <2>1, <2>2, <2>3
<1>8. ASSUME NEW i \in 1..(m+n), i <= m
      PROVE  i \in 1..m /\ (p \o q)[i] = p[i] /\ g[i] = s[i] + d /\ g[i-1] = s[i-1] + d
  <2>1. i \in 1..m /\ i \in 0..(m+n) /\ i - 1 \in 0..(m+n) /\ i - 1 <= m
    BY <1>1, <1>8
  <2>2. (p \o q)[i] = p[i]
    BY <1>1, <1>8
  <2>3. g[i] = s[i] + d
    BY <1>8, <2>1
  <2>4. g[i-1] = s[i-1] + d
    BY <2>1
  <2> QED BY <2>1, <2>2, <2>3, <2>4
<1>9. g[0] = l + d /\ g[m+n] = 1
  <2>1. g[0] = l + d
    BY <1>1, <1>2
  <2>2. CASE n = 0
    <3>1. m + n <= m /\ m + n = m /\ m + n \in 0..(m+n)
      BY <1>1, <2>2
    <3>2. g[m+n] = s[m] + d
      BY <3>1
    <3>3. d = 0
      BY <1>3, <1>4, <2>2
    <3> QED BY <1>4, <2>1, <3>2, <3>3
  <2>3. CASE n > 0
    <3>1. ~(m + n <= m) /\ m + n \in 0..(m+n) /\ (m + n) - m = n
      BY <1>1, <2>3
    <3>2. g[m+n] = t[n]
      BY <3>1
    <3> QED BY <1>4, <2>1, <3>2
  <2> QED BY <1>1, <2>1, <2>2, <2>3
<1> HIDE DEF g
<1>10. ASSUME NEW i \in 1..(m+n) PROVE g[i] = g[i-1] + c[i] /\ g[i-1] >= Consumes((p \o q)[i])
  <2>1. CASE i <= m
    <3>1. /\ s[i] = s[i-1] + Effect(p[i]) /\ s[i-1] >= Consumes(p[i])
          /\ s[i] \in Int /\ s[i-1] \in Int /\ Consumes(p[i]) \in Nat
          /\ c[i] = Effect(p[i]) /\ c[i] \in Int
      <4>1. i \in 1..m /\ i - 1 \in 0..m /\ i \in 0..m /\ (p \o q)[i] = p[i]
        BY <1>1, <1>8, <2>1
      <4> QED BY <1>2, <1>4, <1>5, <1>6, <4>1
    <3>2. g[i] = s[i] + d /\ g[i-1] = s[i-1] + d /\ (p \o q)[i] = p[i]
      BY <1>8, <2>1
    <3> QED BY <3>1, <3>2
  <2>2. CASE i > m
    <3> DEFINE j == i - m
    <3>1. j \in 1..n /\ (p \o q)[i] = q[j] /\ g[i] = t[j] /\ g[i-1] = t[j-1]
      BY <1>7, <2>2
    <3> HIDE DEF j
    <3>2. t[j] = t[j-1] + Effect(q[j]) /\ t[j-1] >= Consumes(q[j]) /\ c[i] = Effect(q[j])
      BY <1>3, <1>4, <1>5, <3>1
    <3> QED BY <3>1, <3>2
  <2> QED BY <1>1, <2>1, <2>2
<1>11. Tracks(g, l + d, c) /\ l + d \in Int /\ Len(c) \in Nat /\ \A i \in 1..Len(c) : c[i] \in Int
  BY <1>1, <1>5, <1>9, <1>10 DEF Tracks
<1>12. \A i \in 0..(m+n) : Totals(l + d, c)[i] = g[i]
  <2>1. \A i \in 0..Len(c) : Totals(l + d, c)[i] = g[i]
    BY <1>11, TotalsUnique
  <2> QED BY <1>5, <2>1
<1>13. /\ \A i \in 1..(m+n) : Totals(l + d, c)[i-1] >= Consumes((p \o q)[i])
       /\ Totals(l + d, c)[m+n] = 1
  <2>1. \A i \in 1..(m+n) : i - 1 \in 0..(m+n)
    BY <1>1
  <2>2. m + n \in 0..(m+n)
    BY <1>1
  <2> QED BY <1>9, <1>10, <1>12, <2>1, <2>2
<1> QED
  BY <1>1, <1>13 DEF Sound, c

\* The tasks an application pushes need no values but their own.
LEMMA PushedSound ==
    ASSUME NEW S, NEW op \in S, IsAtom(op), IsKnown(op),
           NEW args \in Seq(S), NEW e \in S
    PROVE  Pushed(op, args, e) \in Seq(Tasks(S)) /\ Sound(0, Pushed(op, args, e))
<1> DEFINE k == Len(args)
           pushed == Pushed(op, args, e)
           one == Eval(op, e)
           ts == <<one>>
<1>1. one \in Tasks(S) /\ Consumes(one) = 0 /\ Effect(one) = 1
  BY DEF Eval, Tasks, Consumes, Effect
<1>2. k \in Nat /\ pushed \in Seq(Tasks(S)) /\ Len(pushed) = k + 1
      /\ (\A i \in 1..k : pushed[i].kind = "EVAL")
      /\ Consumes(pushed[k+1]) = k /\ Effect(pushed[k+1]) = 1 - k
  BY PushedType
<1> HIDE DEF pushed, k, one
<1>3. ts \in Seq(Tasks(S)) /\ ts # <<>> /\ Len(ts) = 1 /\ ts[1] = one
      /\ \A i \in 2..Len(ts) : pushed[i+k] = ts[i]
  BY <1>1
<1>4. Sound(0, ts)
  BY <1>1, SoundSingle
<1> HIDE DEF ts
<1>5. 0 + k + Effect(pushed[k+1]) = 0 + Effect(ts[1]) /\ 0 + k >= Consumes(pushed[k+1])
  BY <1>1, <1>2, <1>3
<1>6. Len(pushed) = Len(ts) + k /\ 0 \in Int /\ 0 \in Nat
  BY <1>2, <1>3
<1>7. Sound(0, pushed)
  BY <1>2, <1>3, <1>4, <1>5, <1>6, SoundReplace
<1> QED
  BY <1>2, <1>7 DEF pushed

\* The step executes the task on top: it takes the values the task consumes
\* and leaves, in place of both, a sound stack of its own.
Turns(S, pushed, left) ==
    /\ pushed \in Seq(Tasks(S)) /\ left \in Seq(S)
    /\ tasks' = pushed \o Tail(tasks)
    /\ values' = left \o SubSeq(values, Consumes(Head(tasks)) + 1, Len(values))
    /\ Sound(Len(left), pushed)

\* A task that is done leaves its value.
LEMMA TurnsToValue ==
    ASSUME NEW S, TypedOver(S), tasks # <<>>, NEW value,
           tasks' = Tail(tasks),
           values' = <<value>> \o SubSeq(values, Consumes(Head(tasks)) + 1, Len(values))
    PROVE  \E T, pushed, left : Turns(T, pushed, left)
<1>1. <<>> \in Seq(Tasks({value})) /\ <<value>> \in Seq({value}) /\ Len(<<value>>) = 1
  OBVIOUS
<1>2. tasks' = <<>> \o Tail(tasks)
  <2>1. Tail(tasks) \in Seq(Tasks(S))
    BY DEF TypedOver
  <2> QED BY <2>1, ConcatEmptySeq
<1>3. Sound(1, <<>>)
  BY SoundEmpty
<1> QED
  BY <1>1, <1>2, <1>3 DEF Turns

\* A task that is not done consumes its values and leaves tasks.
LEMMA TurnsToTasks ==
    ASSUME NEW S, TypedOver(S), tasks # <<>>,
           NEW pushed \in Seq(Tasks(S)), Sound(0, pushed),
           tasks' = pushed \o Tail(tasks),
           values' = SubSeq(values, Consumes(Head(tasks)) + 1, Len(values)),
           values' \in Seq(S)
    PROVE  \E T, p, left : Turns(T, p, left)
<1>1. <<>> \in Seq(S) /\ Len(<<>>) = 0
  OBVIOUS
<1>2. values' = <<>> \o SubSeq(values, Consumes(Head(tasks)) + 1, Len(values))
  BY ConcatEmptySeq
<1> QED
  BY <1>1, <1>2 DEF Turns

\* Every task that keeps the run going turns into a value or into tasks that
\* will leave one.
LEMMA TurnIs ==
    ASSUME NEW S, TypedOver(S), StackDiscipline, ExecuteTask, outcome' = "running"
    PROVE  \E T, pushed, left : Turns(T, pushed, left)
<1>1. outcome = "running" /\ tasks # <<>>
  BY DEF ExecuteTask, EvalPath, PairInOperatorPosition, EvalQuote, EvalApplication,
         ApplyOp, ApplyProgram, Pending
<1> DEFINE task == Head(tasks)
           n == Consumes(task)
           rest == SubSeq(values, n + 1, Len(values))
<1>2. /\ values \in Seq(S) /\ Len(values) \in Nat /\ Len(values) >= n
      /\ task \in Tasks(S) /\ n \in Nat /\ NodeSet(S)
  BY <1>1, Stacks, SoundSingle DEF TypedOver
<1>3. rest \in Seq(S)
  BY <1>2, Slices
<1>4. ASSUME task.kind = "EVAL" PROVE n = 0 /\ rest = values
  <2>1. n = 0
    BY <1>4 DEF Consumes
  <2> QED BY <1>2, <2>1, SubSeqFull
<1>5. ASSUME NEW amount, NEW newTasks, NEW newValues, ChargeThen(amount, newTasks, newValues)
      PROVE  tasks' = newTasks /\ values' = newValues
  BY <1>5 DEF ChargeThen
<1>6. ASSUME NEW code, code \in ErrorCodes PROVE ~Raise(code)
  BY <1>6 DEF Raise, ErrorCodes
<1>7. CASE EvalPath
  <2>1. task.kind = "EVAL"
    BY <1>7 DEF EvalPath, Pending
  <2> DEFINE found == Lookup(task.node, task.env)
  <2>2. ChargeThen(PathCost(task.node), Tail(tasks), <<found>> \o values)
    <3>1. ~Raise("path_into_atom")
      BY <1>6 DEF ErrorCodes
    <3> QED BY <1>7, <3>1 DEF EvalPath
  <2> HIDE DEF found
  <2>3. tasks' = Tail(tasks) /\ values' = <<found>> \o values
    BY <1>5, <2>2
  <2>4. values' = <<found>> \o rest
    BY <1>4, <2>1, <2>3
  <2> QED BY <1>1, <2>3, <2>4, TurnsToValue
<1>8. CASE PairInOperatorPosition
  <2>1. ~Raise("operator_not_atom")
    BY <1>6 DEF ErrorCodes
  <2> QED BY <1>8, <2>1 DEF PairInOperatorPosition
<1>9. CASE EvalQuote
  <2>1. task.kind = "EVAL"
    BY <1>9 DEF EvalQuote, Pending
  <2> DEFINE quoted == Rest(task.node)
  <2>2. ChargeThen(QUOTE_COST, Tail(tasks), <<quoted>> \o values)
    BY <1>9 DEF EvalQuote
  <2> HIDE DEF quoted
  <2>3. tasks' = Tail(tasks) /\ values' = <<quoted>> \o values
    BY <1>5, <2>2
  <2>4. values' = <<quoted>> \o rest
    BY <1>4, <2>1, <2>3
  <2> QED BY <1>1, <2>3, <2>4, TurnsToValue
<1>10. CASE EvalApplication
  <2> DEFINE op == First(task.node)
             args == ListElems(Rest(task.node))
             pushed == Pushed(op, args, task.env)
  <2>1. /\ task.kind = "EVAL" /\ IsPair(task.node) /\ IsAtom(op)
        /\ IsKnown(op) /\ IsProperList(Rest(task.node))
        /\ ChargeThen(OP_DISPATCH_COST, pushed \o Tail(tasks), values)
    <3>1. ~Raise("bad_arg_list") /\ ~Raise("unknown_operator")
      BY <1>6 DEF ErrorCodes
    <3> QED BY <1>10, <3>1 DEF EvalApplication, Pending
  <2>2. task.node \in S /\ task.env \in S
    BY <1>2, <2>1 DEF Tasks
  <2>3. op \in S /\ Rest(task.node) \in S
    BY <1>2, <2>1, <2>2, PairParts
  <2>4. args \in Seq(S)
    <3>1. CASE IsPair(Rest(task.node))
      BY <1>2, <2>3, <3>1, PairParts DEF ListElems
    <3>2. CASE ~IsPair(Rest(task.node))
      BY <3>2 DEF ListElems
    <3> QED BY <3>1, <3>2
  <2> HIDE DEF op, args
  <2>5. pushed \in Seq(Tasks(S)) /\ Sound(0, pushed)
    BY <2>1, <2>2, <2>3, <2>4, PushedSound
  <2> HIDE DEF pushed
  <2>6. tasks' = pushed \o Tail(tasks) /\ values' = values
    BY <1>5, <2>1
  <2>7. values' = rest /\ values' \in Seq(S)
    BY <1>2, <1>4, <2>1, <2>6
  <2> QED BY <1>1, <2>5, <2>6, <2>7, TurnsToTasks
<1>11. CASE ApplyOp
  <2>1. task.kind = "APPLY_OP" /\ tasks' = Tail(tasks) /\ n = task.count
    BY <1>11 DEF ApplyOp, Pending, Consumes
  <2>2. PICK value : values' = <<value>> \o rest
    <3> DEFINE args == SubSeq(values, 1, task.count)
               body == RunOperator(task.op, args)
    <3>1. ~IsReserved(task.op) /\ Conclude(body, rest)
      BY <1>11, <2>1 DEF ApplyOp
    <3>2. task.op \in OPERATORS /\ args \in Seq(S)
      BY <1>2, <2>1, <3>1, Slices DEF Tasks, Opcodes
    <3>3. body.code \in OperatorErrors \cup {Ok}
      <4> HIDE DEF args
      <4> QED BY <1>2, <3>2, OperatorsRun DEF IsRun
    <3>4. values' = <<body.value>> \o rest
      <4> HIDE DEF body, rest
      <4> QED BY <1>1, <3>1, <3>3 DEF Conclude, OperatorErrors, Ok
    <3> QED BY <3>4
  <2> QED BY <1>1, <2>1, <2>2, TurnsToValue
<1>12. CASE ApplyProgram
  <2> DEFINE applied == Eval(values[1], values[2])
             pushed == <<applied>>
  <2>1. /\ task.kind = "APPLY_PROGRAM" /\ n = task.count /\ n = 2
        /\ tasks' = pushed \o Tail(tasks) /\ values' = SubSeq(values, 3, Len(values))
    BY <1>12 DEF ApplyProgram, Pending, Consumes
  <2>2. values' = rest
    BY <2>1
  <2>3. applied \in Tasks(S) /\ Consumes(applied) = 0
    <3>1. values[1] \in S /\ values[2] \in S
      BY <1>2, <2>1
    <3> QED BY <3>1 DEF Eval, Tasks, Consumes
  <2> HIDE DEF applied
  <2>4. pushed \in Seq(Tasks(S)) /\ Sound(0, pushed)
    BY <2>3, SoundSingle
  <2> HIDE DEF pushed
  <2> QED BY <1>1, <1>3, <2>1, <2>2, <2>4, TurnsToTasks
<1> QED
  BY <1>7, <1>8, <1>9, <1>10, <1>11, <1>12 DEF ExecuteTask

\* What is left of two sequences joined, when some of the first is taken.
LEMMA DropOfJoin ==
    ASSUME NEW S, NEW s \in Seq(S), NEW t \in Seq(S), NEW n \in 0..Len(s)
    PROVE  SubSeq(s \o t, n + 1, Len(s \o t)) = SubSeq(s, n + 1, Len(s)) \o t
<1> DEFINE joined == s \o t
           kept == SubSeq(s, n + 1, Len(s))
           left == SubSeq(joined, n + 1, Len(joined))
<1>1. /\ joined \in Seq(S) /\ Len(joined) = Len(s) + Len(t)
      /\ \A i \in 1..Len(joined) : joined[i] = IF i <= Len(s) THEN s[i] ELSE t[i - Len(s)]
      /\ Len(s) \in Nat /\ Len(t) \in Nat /\ n \in Nat /\ n <= Len(s)
  BY ConcatProperties
<1> HIDE DEF joined
<1>2. /\ kept \in Seq(S) /\ Len(kept) = Len(s) - n
      /\ \A i \in 1..Len(kept) : kept[i] = s[n + i]
  OBVIOUS
<1>3. /\ left \in Seq(S) /\ Len(left) = Len(joined) - n
      /\ \A i \in 1..Len(left) : left[i] = joined[n + i]
  <2>1. n \in 0..Len(joined) /\ Len(joined) \in Nat
    BY <1>1
  <2> QED BY <1>1, <2>1
<1> HIDE DEF kept, left
<1>4. /\ kept \o t \in Seq(S) /\ Len(kept \o t) = Len(kept) + Len(t)
      /\ \A i \in 1..(Len(kept) + Len(t)) :
            (kept \o t)[i] = IF i <= Len(kept) THEN kept[i] ELSE t[i - Len(kept)]
  BY <1>2, ConcatProperties
<1>5. Len(left) = Len(kept \o t)
  BY <1>1, <1>2, <1>3, <1>4
<1>6. ASSUME NEW i \in 1..Len(left) PROVE left[i] = (kept \o t)[i]
  <2>1. n + i \in 1..Len(joined) /\ i \in 1..(Len(kept) + Len(t))
    BY <1>1, <1>2, <1>3
  <2>2. CASE i <= Len(kept)
    <3>1. n + i <= Len(s) /\ i \in 1..Len(kept)
      BY <1>1, <1>2, <2>2
    <3> QED BY <1>1, <1>2, <1>3, <1>4, <2>1, <2>2, <3>1
  <2>3. CASE i > Len(kept)
    <3>1. ~(n + i <= Len(s)) /\ ~(i <= Len(kept)) /\ (n + i) - Len(s) = i - Len(kept)
      BY <1>1, <1>2, <2>3
    <3> QED BY <1>1, <1>3, <1>4, <2>1, <3>1
  <2> QED BY <1>1, <1>2, <2>1, <2>2, <2>3
<1>7. left = kept \o t
  BY <1>3, <1>4, <1>5, <1>6, SeqEqual
<1> QED
  BY <1>7 DEF joined, kept, left

\* The head and the tail of two sequences joined.
LEMMA TailOfJoin ==
    ASSUME NEW S, NEW s \in Seq(S), NEW t \in Seq(S), s # <<>>
    PROVE  Head(s \o t) = Head(s) /\ Tail(s \o t) = Tail(s) \o t
<1>1. 1 \in 0..Len(s) /\ s \o t \in Seq(S) /\ s \o t # <<>>
  OBVIOUS
<1>2. Tail(s \o t) = SubSeq(s \o t, 1 + 1, Len(s \o t)) /\ Tail(s) = SubSeq(s, 1 + 1, Len(s))
  BY <1>1, TailIsSubSeq
<1>3. Head(s \o t) = Head(s)
  OBVIOUS
<1> QED
  BY <1>1, <1>2, <1>3, DropOfJoin

-----------------------------------------------------------------------------
(* step_over. *)

\* The tasks below the pending one when the command began, and the values
\* below the ones it consumes.
Base == Tail(entry.tasks)
Below == SubSeq(entry.values, Consumes(Head(entry.tasks)) + 1, Len(entry.values))

\* The stacks are those of the pending task's subtree on top of the rest.
Subtree(S, above, top) ==
    /\ above \in Seq(Tasks(S)) /\ top \in Seq(S)
    /\ Base \in Seq(Tasks(S)) /\ Below \in Seq(S)
    /\ tasks = above \o Base
    /\ values = top \o Below
    /\ target = Len(Base)
    /\ Sound(Len(top), above)

SubtreeInv ==
    command = "step_over" /\ ~finishing =>
        \E S, above, top : above # <<>> /\ Subtree(S, above, top)

\* Executing the subtree's top task leaves the rest of the subtree.
LEMMA SubtreeTurn ==
    ASSUME NEW S, NEW above, NEW top, above # <<>>, Subtree(S, above, top),
           NEW T, NEW pushed, NEW left, Turns(T, pushed, left),
           UNCHANGED <<entry, target>>
    PROVE  \E U, above2, top2 : Subtree(U, above2, top2)'
<1> DEFINE U == S \cup T
           n == Consumes(Head(above))
           rest == SubSeq(top, n + 1, Len(top))
           above2 == pushed \o Tail(above)
           top2 == left \o rest
           base == Base
           below == Below
<1>1. Base' = base /\ Below' = below
  BY DEF Base, Below
<1>2. /\ above \in Seq(Tasks(S)) /\ top \in Seq(S) /\ base \in Seq(Tasks(S)) /\ below \in Seq(S)
      /\ tasks = above \o base /\ values = top \o below
      /\ target' = Len(base) /\ Sound(Len(top), above)
  BY DEF Subtree
<1> HIDE DEF base, below
<1>3. Head(tasks) = Head(above) /\ Tail(tasks) = Tail(above) \o base
  BY <1>2, TailOfJoin
<1>4. /\ Head(above) = above[1] /\ 1 \in 1..Len(above) /\ Tail(above) \in Seq(Tasks(S))
      /\ Len(top) \in Nat
  BY <1>2
<1>5. n \in Nat /\ Len(top) >= n /\ Effect(above[1]) = 1 - n
  <2>1. n \in Nat /\ Effect(above[1]) = 1 - n
    BY <1>2, <1>4, TaskType DEF Effect
  <2>2. Totals(Len(top), Effects(above))[0] = Len(top)
    <3>1. /\ Len(Effects(above)) \in Nat /\ Len(top) \in Int
          /\ \A i \in 1..Len(Effects(above)) : Effects(above)[i] \in Int
      BY <1>2, <1>4, EffectsType
    <3> QED BY <3>1, TotalsDef
  <2>3. Totals(Len(top), Effects(above))[1-1] >= Consumes(above[1])
    BY <1>2, <1>4 DEF Sound
  <2> QED BY <1>4, <2>1, <2>2, <2>3
<1>6. rest \in Seq(S) /\ Len(rest) = Len(top) - n /\ Len(rest) \in Nat
  BY <1>2, <1>5, Slices
<1>7. SubSeq(values, n + 1, Len(values)) = rest \o below
  <2>1. n \in 0..Len(top)
    BY <1>4, <1>5
  <2> QED BY <1>2, <2>1, DropOfJoin
<1>8. /\ pushed \in Seq(Tasks(T)) /\ left \in Seq(T) /\ Sound(Len(left), pushed)
      /\ tasks' = pushed \o (Tail(above) \o base)
      /\ values' = left \o (rest \o below)
  BY <1>3, <1>7 DEF Turns
<1>9. Sound(Len(rest) + 1, Tail(above))
  <2>1. Sound(Len(top) + Effect(above[1]), Tail(above))
    BY <1>2, <1>4, SoundPop
  <2>2. Len(top) + Effect(above[1]) = Len(rest) + 1
    BY <1>4, <1>5, <1>6
  <2> QED BY <2>1, <2>2
<1> HIDE DEF n, rest
<1>10. /\ Seq(S) \subseteq Seq(U) /\ Seq(T) \subseteq Seq(U)
       /\ Seq(Tasks(S)) \subseteq Seq(Tasks(U)) /\ Seq(Tasks(T)) \subseteq Seq(Tasks(U))
  <2>1. S \subseteq U /\ T \subseteq U
    OBVIOUS
  <2> HIDE DEF U
  <2> QED BY <2>1, StacksExtend
<1>11. /\ pushed \in Seq(Tasks(U)) /\ Tail(above) \in Seq(Tasks(U)) /\ base \in Seq(Tasks(U))
       /\ left \in Seq(U) /\ rest \in Seq(U) /\ below \in Seq(U)
  BY <1>2, <1>4, <1>6, <1>8, <1>10
<1> HIDE DEF U
<1>12. /\ above2 \in Seq(Tasks(U)) /\ tasks' = above2 \o base
       /\ top2 \in Seq(U) /\ values' = top2 \o below
       /\ Len(top2) = Len(left) + Len(rest) /\ Len(left) \in Nat
  <2>1. above2 \in Seq(Tasks(U))
    BY <1>11, ConcatProperties
  <2>2. tasks' = above2 \o base
    <3>1. (pushed \o Tail(above)) \o base = pushed \o (Tail(above) \o base)
      BY <1>11, ConcatAssociative, SMTT(30)
    <3> QED BY <1>8, <3>1
  <2>3. top2 \in Seq(U) /\ Len(top2) = Len(left) + Len(rest) /\ Len(left) \in Nat
    BY <1>11, ConcatProperties, LenProperties
  <2>4. values' = top2 \o below
    <3>1. (left \o rest) \o below = left \o (rest \o below)
      BY <1>11, ConcatAssociative, SMTT(30)
    <3> QED BY <1>8, <3>1
  <2> QED BY <2>1, <2>2, <2>3, <2>4
<1>13. Sound(Len(top2), above2)
  <2>1. Sound(Len(left) + Len(rest), above2)
    BY <1>6, <1>8, <1>9, <1>11, <1>12, SoundOver
  <2> QED BY <1>12, <2>1
<1> HIDE DEF above2, top2
<1>14. Subtree(U, above2, top2)'
  BY <1>1, <1>2, <1>11, <1>12, <1>13 DEF Subtree
<1> QED
  BY <1>14

\* A turn after which the tasks are no higher than the target has completed
\* the subtree and left one value in its place.
LEMMA SubtreeDone ==
    ASSUME NEW S, NEW above, NEW top, Subtree(S, above, top)', Len(tasks') <= target'
    PROVE  tasks' = Base' /\ Tail(values') = Below'
<1>1. /\ above \in Seq(Tasks(S)) /\ top \in Seq(S)
      /\ Base' \in Seq(Tasks(S)) /\ Below' \in Seq(S)
      /\ tasks' = above \o Base' /\ values' = top \o Below'
      /\ target' = Len(Base') /\ Sound(Len(top), above)
  BY DEF Subtree
<1>2. above = <<>>
  <2>1. Len(tasks') = Len(above) + Len(Base') /\ Len(above) \in Nat /\ Len(Base') \in Nat
    BY <1>1, ConcatProperties
  <2> QED BY <1>1, <2>1
<1>3. Len(top) = 1
  <2>1. Len(top) \in Int
    BY <1>1, LenProperties
  <2> QED BY <1>1, <1>2, <2>1, SoundEmpty
<1>4. top # <<>>
  <2>1. top \in Seq(S)
    BY <1>1
  <2> QED BY <1>3, <2>1
<1>5. Tail(top) = <<>>
  <2>1. Tail(top) \in Seq(S) /\ Len(Tail(top)) = 0
    BY <1>1, <1>3, <1>4, HeadTailProperties
  <2> QED BY <2>1, EmptySeq
<1>6. Tail(values') = Tail(top) \o Below'
  BY <1>1, <1>4, TailOfJoin
<1> QED
  BY <1>1, <1>2, <1>5, <1>6, ConcatEmptySeq

\* After any other turn a task of the subtree is pending.
LEMMA SubtreeAbove ==
    ASSUME NEW S, NEW above, NEW top, Subtree(S, above, top)', Len(tasks') > target'
    PROVE  above # <<>>
<1> SUFFICES ASSUME above = <<>> PROVE FALSE
  OBVIOUS
<1>1. tasks' = Base' /\ target' = Len(Base') /\ Base' \in Seq(Tasks(S))
  BY ConcatEmptySeq DEF Subtree
<1> QED
  BY <1>1

\* The state between two steps of the debugger's machine.
CommandInv ==
    /\ finishing \in BOOLEAN
    /\ outcome = "running" => IInv
    /\ command # "none" => outcome = "running"
    /\ finishing => command # "none" /\ tasks = <<>>
    /\ outcome = "running" /\ ~finishing => tasks # <<>>

DebugInv == CommandInv /\ SubtreeInv

\* A command starts on the pending task, whose subtree is the task alone.
LEMMA CallKeeps ==
    ASSUME DebugInv, NEW c \in Commands, Call(c)
    PROVE  DebugInv'
<1>1. /\ outcome = "running" /\ command = "none" /\ command' = c /\ c # "none"
      /\ UNCHANGED <<program, env, max_cost, tasks, values, cost, outcome, finishing>>
  BY DEF Call, Finished, Commands, vars
<1>2. IInv /\ finishing = FALSE /\ tasks # <<>>
  BY <1>1 DEF DebugInv, CommandInv
<1>3. IInv'
  BY <1>1, <1>2 DEF IInv, Typed, TypedOver, StackDiscipline, Height, BudgetInv
<1>4. CommandInv'
  BY <1>1, <1>2, <1>3 DEF CommandInv
<1>5. SubtreeInv'
  <2> PICK S : TypedOver(S)
    BY <1>2 DEF IInv, Typed
  <2> DEFINE task == Head(tasks)
             n == Consumes(task)
             top == SubSeq(values, 1, n)
             base == Tail(tasks)
             below == SubSeq(values, n + 1, Len(values))
  <2>1. /\ tasks \in Seq(Tasks(S)) /\ values \in Seq(S) /\ task \in Tasks(S)
        /\ base \in Seq(Tasks(S)) /\ Len(values) \in Nat /\ Len(values) >= n
    BY <1>1, <1>2, Stacks DEF IInv
  <2>2. n \in Nat /\ Sound(n, <<task>>)
    BY <2>1, SoundSingle
  <2>3. top \in Seq(S) /\ below \in Seq(S) /\ Len(top) = n
    <3> HIDE DEF n
    <3> QED BY <2>1, <2>2, Slices
  <2>4. values = top \o below
    <3>1. n \in 0..Len(values)
      BY <2>1, <2>2
    <3>2. SubSeq(values, 1, n) \o SubSeq(values, n + 1, Len(values)) = SubSeq(values, 1, Len(values))
      <4> DEFINE last == Len(values)
      <4>1. 1 \in 1..last+1 /\ n \in (1-1)..last /\ last \in n..last
        BY <2>1, <2>2, <3>1
      <4> HIDE DEF n
      <4> QED BY <2>1, <4>1, ConcatAdjacentSubSeq
    <3> QED BY <2>1, <3>2, SubSeqFull
  <2>5. <<task>> \in Seq(Tasks(S)) /\ <<task>> # <<>> /\ tasks = <<task>> \o base
    <3>1. tasks = <<Head(tasks)>> \o Tail(tasks)
      BY <1>2, <2>1
    <3> QED BY <2>1, <3>1
  <2>6. Base' = base /\ Below' = below /\ target' = Len(base)
    <3>1. entry'.tasks = tasks /\ entry'.values = values /\ target' = Len(tasks) - 1
      BY DEF Call
    <3>2. Len(base) = Len(tasks) - 1
      BY <1>2, <2>1
    <3> QED BY <3>1, <3>2 DEF Base, Below
  <2> HIDE DEF task, n, top, base, below
  <2>7. PICK above, old : above = <<task>> /\ old = top
    OBVIOUS
  <2>8. /\ above \in Seq(Tasks(S)) /\ old \in Seq(S)
        /\ Base' \in Seq(Tasks(S)) /\ Below' \in Seq(S) /\ target' = Len(Base')
    BY <2>1, <2>3, <2>5, <2>6, <2>7
  <2>9. tasks' = above \o Base' /\ values' = old \o Below' /\ Sound(Len(old), above)
    BY <1>1, <2>2, <2>3, <2>4, <2>5, <2>6, <2>7
  <2>10. Subtree(S, above, old)'
    BY <2>8, <2>9 DEF Subtree
  <2> QED BY <2>5, <2>7, <2>10 DEF SubtreeInv
<1> QED
  BY <1>4, <1>5 DEF DebugInv

\* A turn of step_over that leaves the machine running stays in the subtree
\* or completes it.
LEMMA ExecuteSubtree ==
    ASSUME DebugInv, Execute, command = "step_over", outcome' = "running"
    PROVE  \E S, above, top : Subtree(S, above, top)'
<1>1. /\ finishing = FALSE /\ ExecuteTask /\ UNCHANGED <<entry, target>>
      /\ outcome = "running" /\ IInv
  BY DEF Execute, DebugInv, CommandInv
<1>2. PICK S, above, top : above # <<>> /\ Subtree(S, above, top)
  BY <1>1 DEF DebugInv, SubtreeInv
<1>3. PICK T, pushed, left : Turns(T, pushed, left)
  BY <1>1, TurnIs DEF IInv, Typed
<1> QED
  BY <1>1, <1>2, <1>3, SubtreeTurn

\* Executing a task keeps the invariant.
LEMMA ExecuteKeeps == DebugInv /\ Execute => DebugInv'
<1> SUFFICES ASSUME DebugInv, Execute PROVE DebugInv'
  OBVIOUS
<1>1. /\ command # "none" /\ finishing = FALSE /\ ExecuteTask /\ UNCHANGED <<entry, target>>
      /\ finishing' = (outcome' = "running" /\ tasks' = <<>>)
      /\ command' = IF outcome' = "running" /\ (tasks' = <<>> \/ GoesOn(tasks'))
                    THEN command ELSE "none"
      /\ IInv
  BY DEF Execute, Finished, DebugInv, CommandInv
<1>2. IInv'
  BY <1>1, NextIInv DEF Next
<1>3. CommandInv'
  BY <1>1, <1>2 DEF CommandInv
<1>4. SubtreeInv'
  <2> SUFFICES ASSUME command' = "step_over", ~finishing'
               PROVE  \E S, above, top : above # <<>> /\ Subtree(S, above, top)'
    BY DEF SubtreeInv
  <2>1. outcome' = "running" /\ tasks' # <<>> /\ command = "step_over" /\ Len(tasks') > target'
    BY <1>1 DEF GoesOn
  <2>2. PICK S, above, top : Subtree(S, above, top)'
    BY <2>1, ExecuteSubtree
  <2>3. above # <<>>
    BY <2>1, <2>2, SubtreeAbove
  <2> QED BY <2>2, <2>3
<1> QED
  BY <1>3, <1>4 DEF DebugInv

\* The end of a run and the interrupts keep the invariant.
LEMMA ReturnKeeps ==
    DebugInv /\ (FinishStep \/ InterruptTask \/ InterruptBetween) => DebugInv'
<1> SUFFICES ASSUME DebugInv, FinishStep \/ InterruptTask \/ InterruptBetween
             PROVE  CommandInv' /\ SubtreeInv'
  BY DEF DebugInv
<1>1. command' = "none"
  BY DEF FinishStep, InterruptTask, InterruptBetween
<1>2. CASE FinishStep
  BY <1>1, <1>2 DEF FinishStep, Finish, CommandInv, SubtreeInv
<1>3. CASE InterruptTask
  BY <1>1, <1>3 DEF InterruptTask, CommandInv, SubtreeInv
<1>4. CASE InterruptBetween
  <2>1. /\ finishing = FALSE /\ outcome = "running" /\ IInv /\ tasks # <<>>
        /\ UNCHANGED <<program, env, max_cost, tasks, values, cost, outcome, finishing>>
    BY <1>4 DEF InterruptBetween, DebugInv, CommandInv, vars
  <2>2. IInv'
    BY <2>1 DEF IInv, Typed, TypedOver, StackDiscipline, Height, BudgetInv
  <2> QED BY <1>1, <2>1, <2>2 DEF CommandInv, SubtreeInv
<1> QED
  BY <1>2, <1>3, <1>4

\* A fresh machine is in the invariant.
LEMMA InitDebugInv == DebugInit => DebugInv
<1> SUFFICES ASSUME DebugInit PROVE DebugInv
  OBVIOUS
<1>1. Init /\ command = "none" /\ finishing = FALSE /\ outcome = "running"
  BY DEF DebugInit, Init
<1>2. tasks # <<>>
  BY <1>1 DEF Init
<1> QED
  BY <1>1, <1>2, InitIInv DEF DebugInv, CommandInv, SubtreeInv

\* Every command, task and interrupt keeps the invariant.
LEMMA DebugNextInv == DebugInv /\ [DebugNext]_debug_vars => DebugInv'
<1> SUFFICES ASSUME DebugInv, [DebugNext]_debug_vars PROVE DebugInv'
  OBVIOUS
<1>1. CASE \E c \in Commands : Call(c)
  BY <1>1, CallKeeps
<1>2. CASE Execute
  BY <1>2, ExecuteKeeps
<1>3. CASE FinishStep \/ InterruptTask \/ InterruptBetween
  BY <1>3, ReturnKeeps
<1>4. CASE UNCHANGED debug_vars
  <2>1. UNCHANGED <<program, env, max_cost, tasks, values, cost, outcome, command, target, finishing, entry>>
    BY <1>4 DEF debug_vars, vars
  <2>2. IInv => IInv'
    BY <2>1 DEF IInv, Typed, TypedOver, StackDiscipline, Height, BudgetInv
  <2>3. CommandInv'
    BY <2>1, <2>2 DEF DebugInv, CommandInv
  <2>4. SubtreeInv'
    BY <2>1 DEF DebugInv, SubtreeInv, Subtree, Base, Below
  <2> QED BY <2>3, <2>4 DEF DebugInv
<1> QED
  BY <1>1, <1>2, <1>3, <1>4 DEF DebugNext

\* The debugger's invariant holds of every sequence of commands and
\* interrupts.  (stepper.py: DebugMachine)
THEOREM DebugInvariance == DebugSpec => []DebugInv
<1> QED
  BY InitDebugInv, DebugNextInv, PTL DEF DebugSpec

\* A machine that may still be stepped has sound stacks and is within its
\* budget: no interrupt leaves a live machine with a task half executed.
\* (stepper.py: the try around a task, _done)
THEOREM LiveMachinesAreSound == DebugSpec => []LiveIsSound
<1>1. DebugInv => LiveIsSound
  BY DEF DebugInv, CommandInv, LiveIsSound, Finished, IInv
<1> QED
  BY <1>1, DebugInvariance, PTL

\* step_over executes exactly the pending task's subtree, although it
\* compares only the height of the task stack.  (stepper.py: step_over)
THEOREM StepOverIsExact == DebugSpec => StepOverCompletesSubtree
<1> DEFINE Completes ==
        (Execute /\ command = "step_over" /\ command' = "none" /\ outcome' = "running")
          => LET pending == Head(entry.tasks)
                 n == Consumes(pending)
             IN  /\ tasks' = Tail(entry.tasks)
                 /\ Tail(values') = SubSeq(entry.values, n + 1, Len(entry.values))
<1>1. DebugInv => Completes
  <2> SUFFICES ASSUME DebugInv, Execute, command = "step_over", command' = "none",
                      outcome' = "running"
               PROVE  tasks' = Base /\ Tail(values') = Below
    BY DEF Base, Below
  <2>1. PICK S, above, top : Subtree(S, above, top)'
    BY ExecuteSubtree
  <2>2. Base' = Base /\ Below' = Below
    BY DEF Execute, Base, Below
  <2>3. Len(tasks') <= target'
    <3>1. ~(Len(tasks') > target) /\ target' = target
      BY DEF Execute, GoesOn, Finished
    <3>2. Len(tasks') \in Nat /\ target' \in Nat
      <4>1. above \in Seq(Tasks(S)) /\ Base' \in Seq(Tasks(S)) /\ tasks' = above \o Base' /\ target' = Len(Base')
        BY <2>1 DEF Subtree
      <4> QED BY <4>1, ConcatProperties, LenProperties
    <3> QED BY <3>1, <3>2
  <2>4. tasks' = Base' /\ Tail(values') = Below'
    BY <2>1, <2>3, SubtreeDone
  <2> QED BY <2>2, <2>4
<1>2. DebugInv /\ [DebugNext]_debug_vars => [Completes]_debug_vars
  BY <1>1
<1> QED
  BY <1>2, DebugInvariance, PTL DEF DebugSpec, StepOverCompletesSubtree
=============================================================================
