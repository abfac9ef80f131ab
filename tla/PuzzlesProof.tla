---------------------------- MODULE PuzzlesProof ----------------------------
(***************************************************************************)
(* What the vault keeps for any vaults, lineages and coins, and for any    *)
(* number of transactions that anyone assembles: every coin of it can be   *)
(* recovered, and every triggered coin takes a signature of its own.       *)
(***************************************************************************)
EXTENDS Puzzles, CostsProof, FiniteSetTheorems, SequenceTheorems

IsList(s) == s \in Seq(S!Range(s))

-----------------------------------------------------------------------------
(* Lists. *)

\* A list is the function that its elements define.
LEMMA ListParts ==
    ASSUME NEW s, IsList(s)
    PROVE  Len(s) \in Nat /\ DOMAIN s = 1..Len(s) /\ s = [i \in 1..Len(s) |-> s[i]]
  BY LenProperties DEF IsList

\* A function on 1..n is a list.
LEMMA ListIs ==
    ASSUME NEW n \in Nat, NEW f, f = [i \in 1..n |-> f[i]]
    PROVE  IsList(f) /\ Len(f) = n /\ DOMAIN f = 1..n
<1>1. DOMAIN f = 1..n
  OBVIOUS
<1>2. f \in [1..n -> S!Range(f)]
  BY <1>1 DEF S!Range
<1>3. f \in Seq(S!Range(f))
  BY <1>2, SeqDef
<1> QED
  BY <1>1, <1>3, LenProperties DEF IsList

\* Appending keeps apart what differs in the list or in the last element.
LEMMA AppendKeepsApart ==
    ASSUME NEW a, IsList(a), NEW b, IsList(b), NEW x, NEW y, Append(a, x) = Append(b, y)
    PROVE  a = b /\ x = y
<1> DEFINE T == S!Range(a) \cup S!Range(b) \cup {x, y}
<1>1. a \in Seq(T) /\ b \in Seq(T) /\ x \in T /\ y \in T
  BY SeqMonotonic DEF IsList
<1> HIDE DEF T
<1> QED
  BY <1>1, AppendInjective

\* c has the elements of a, then those of b.
Joined(a, b, c) ==
    /\ IsList(c) /\ Len(a) \in Nat /\ Len(b) \in Nat /\ Len(c) = Len(a) + Len(b)
    /\ \A i \in 1..Len(c) : c[i] = IF i <= Len(a) THEN a[i] ELSE b[i - Len(a)]

\* So has their concatenation.
LEMMA ConcatIs ==
    ASSUME NEW a, IsList(a), NEW b, IsList(b)
    PROVE  Joined(a, b, a \o b)
<1> DEFINE T == S!Range(a) \cup S!Range(b)
           c == a \o b
<1>1. a \in Seq(T) /\ b \in Seq(T) /\ Len(a) \in Nat /\ Len(b) \in Nat
  BY SeqMonotonic, ListParts DEF IsList
<1> HIDE DEF T
<1>2. /\ c \in Seq(T) /\ Len(c) = Len(a) + Len(b)
      /\ \A i \in 1..Len(c) : c[i] = IF i <= Len(a) THEN a[i] ELSE b[i - Len(a)]
  BY <1>1, ConcatProperties, LenProperties
<1> HIDE DEF c
<1>3. c = [i \in 1..Len(c) |-> c[i]] /\ Len(c) \in Nat
  BY <1>2, LenProperties
<1>4. IsList(c)
  BY <1>3, ListIs
<1>5. Joined(a, b, c)
  BY <1>1, <1>2, <1>4 DEF Joined
<1> QED
  BY <1>5 DEF c

\* Each of their elements is an element of one of them.
LEMMA JoinedFrom ==
    ASSUME NEW a, NEW b, NEW c, Joined(a, b, c), NEW i \in 1..Len(c)
    PROVE  (\E j \in 1..Len(a) : c[i] = a[j]) \/ (\E j \in 1..Len(b) : c[i] = b[j])
<1>1. /\ Len(a) \in Nat /\ Len(b) \in Nat /\ Len(c) = Len(a) + Len(b)
      /\ c[i] = IF i <= Len(a) THEN a[i] ELSE b[i - Len(a)]
  BY DEF Joined
<1> DEFINE m == Len(a)
           n == Len(b)
<1>2. m \in Nat /\ n \in Nat /\ i \in 1..(m + n) /\ c[i] = IF i <= m THEN a[i] ELSE b[i - m]
  BY <1>1
<1> HIDE DEF m, n
<1>3. CASE i <= m
  <2>1. i \in 1..m /\ c[i] = a[i]
    BY <1>2, <1>3
  <2> QED BY <2>1 DEF m
<1>4. CASE ~(i <= m)
  <2>1. i - m \in 1..n /\ c[i] = b[i - m]
    BY <1>2, <1>4
  <2> QED BY <2>1 DEF n
<1> QED
  BY <1>3, <1>4


\* s has each element of T once.
IsOrderOf(s, T) ==
    /\ IsList(s) /\ Len(s) = Cardinality(T) /\ Len(s) \in Nat
    /\ \A i \in 1..Len(s) : s[i] \in T
    /\ \A i, j \in 1..Len(s) : s[i] = s[j] => i = j
    /\ \A x \in T : \E i \in 1..Len(s) : s[i] = x

\* So has any finite set in the order that the library gives it.
LEMMA OrderOf ==
    ASSUME NEW T, IsFiniteSet(T)
    PROVE  IsOrderOf(S!SetToSeq(T), T)
<1> DEFINE n == Cardinality(T)
           s == S!SetToSeq(T)
<1>1. n \in Nat /\ Cardinality(1..n) = n /\ IsFiniteSet(1..n)
  BY FS_CardinalityType, FS_Interval
<1>2. PICK f \in Bijection(1..n, T) : TRUE
  BY FS_CardinalityType DEF ExistsBijection
<1>3. f \in [1..n -> T] /\ S!IsInjective(f)
  BY <1>2 DEF Bijection, Injection, IsInjective, S!IsInjective
<1>4. s \in [1..n -> T] /\ S!IsInjective(s)
  <2>1. S!Cardinality(T) = Cardinality(T)
    BY DEF S!Cardinality, Cardinality
  <2> QED BY <1>3, <2>1 DEF S!SetToSeq
<1> HIDE DEF s
<1>5. IsList(s) /\ Len(s) = n /\ DOMAIN s = 1..n
  BY <1>1, <1>4, ListIs
<1>6. ASSUME NEW x \in T PROVE \E i \in 1..n : s[i] = x
  <2>1. s \in Injection(1..n, T)
    BY <1>4 DEF S!IsInjective, Injection, IsInjective
  <2>2. s \in Surjection(1..n, T)
    BY <1>1, <2>1, FS_Injection
  <2> QED BY <2>2 DEF Surjection
<1>7. \A i, j \in 1..n : s[i] = s[j] => i = j
  BY <1>4 DEF S!IsInjective
<1> HIDE DEF n
<1> QED
  BY <1>1, <1>4, <1>5, <1>6, <1>7 DEF s, n, IsOrderOf

-----------------------------------------------------------------------------
(* Programs and their scripts. *)

\* What a program is, and that its script commits to its root.
LEMMA ProgramIs ==
    ASSUME NEW p \in Programs
    PROVE  /\ p.v \in Instances
           /\ \/ p = VaultProgram(p.v) /\ p.state = "vault" /\ p.root = vault_root(p.v)
              \/ /\ p.target \in Targets /\ p = TriggeredProgram(p.v, p.target)
                 /\ p.state = "triggered" /\ p.root = TriggeredRoot(p.v, p.target)
           /\ p.root[1] = p.state
           /\ ScriptOf(p) = <<"taproot", p.v.internal_key, p.root>>
           /\ NotBitLisp \notin {p.v.internal_key, p.root}
           /\ IsVaultScript(ScriptOf(p))
<1>1. /\ ScriptOf(p) = <<"taproot", p.v.internal_key, p.root>>
      /\ NotBitLisp \notin {p.v.internal_key, p.root}
  BY ProgramsAreCommitted
<1>2. CASE \E v \in Instances : p = VaultProgram(v)
  <2>1. PICK v \in Instances : p = VaultProgram(v)
    BY <1>2
  <2>2. p.v = v /\ p.state = "vault" /\ p.root = vault_root(v)
    BY <2>1 DEF VaultProgram
  <2>3. p.root[1] = "vault"
    BY <2>2 DEF vault_root, curried_tree_hash
  <2> QED BY <1>1, <2>1, <2>2, <2>3 DEF IsVaultScript
<1>3. CASE \E v \in Instances, target \in Targets : p = TriggeredProgram(v, target)
  <2>1. PICK v \in Instances, target \in Targets : p = TriggeredProgram(v, target)
    BY <1>3
  <2>2. /\ p.v = v /\ p.state = "triggered" /\ p.root = TriggeredRoot(v, target)
        /\ p.target = target
    BY <2>1 DEF TriggeredProgram
  <2>3. p.root[1] = "triggered"
    BY <2>2 DEF TriggeredRoot, triggered_root, curried_tree_hash
  <2> QED BY <1>1, <2>1, <2>2, <2>3 DEF IsVaultScript
<1> QED
  BY <1>2, <1>3 DEF Programs

\* A triggered coin's script names its target.
LEMMA TriggeredScriptNames ==
    ASSUME NEW v \in Instances, NEW w \in Instances, NEW t \in Targets, NEW u \in Targets,
           ScriptOf(TriggeredProgram(v, t)) = ScriptOf(TriggeredProgram(w, u))
    PROVE  t = u
<1> DEFINE p == TriggeredProgram(v, t)
           q == TriggeredProgram(w, u)
<1>1. p \in Programs /\ q \in Programs
  BY DEF Programs
<1>2. p.root = TriggeredRoot(v, t) /\ q.root = TriggeredRoot(w, u)
  BY DEF TriggeredProgram
<1>3. TriggeredRoot(v, t) = TriggeredRoot(w, u)
  <2>1. /\ ScriptOf(p) = <<"taproot", p.v.internal_key, p.root>>
        /\ ScriptOf(q) = <<"taproot", q.v.internal_key, q.root>>
        /\ ScriptOf(p) = ScriptOf(q)
    BY <1>1, ProgramIs
  <2> HIDE DEF p, q
  <2>2. p.root = q.root
    BY <2>1
  <2> QED BY <1>2, <2>2
<1> QED
  BY <1>3 DEF TriggeredRoot, triggered_root, curried_tree_hash

\* No lineage lives at a vault's script.
LEMMA LineagesAreNoVaults ==
    ASSUME NEW l \in Launchers
    PROVE  ~IsVaultScript(LineageScript(l))
<1>1. LineageScript(l) = <<"taproot", INTERNAL_KEY, singleton_root(l)>>
  BY LineagesAreCommitted
<1>2. singleton_root(l)[1] = "singleton"
  BY DEF singleton_root, curried_tree_hash
<1> QED
  BY <1>1, <1>2 DEF IsVaultScript

-----------------------------------------------------------------------------
(* What a vault's program may claim. *)

IsClaim(c) == c.opcode \in CreateOpcodes

\* An output of the recovery path.
ClaimsRecovery(program, a, c) ==
    c = Emit(CREATE_OUTPUT, <<program.v.recovery_spk, a.recover_amt>>)

\* The sum that a leader brings back to the script it asserts as its own.
ClaimsOwnScript(program, a, c, conditions) ==
    /\ c = Emit(CREATE_OUTPUT, <<a.my_spk, a.out_amt>>)
    /\ program.state = "vault" /\ 1 \in DOMAIN conditions /\ 2 \in DOMAIN conditions
    /\ conditions[1] = Emit(ASSERT_MY_TAPTREE, <<program.v.internal_key, vault_root(program.v)>>)
    /\ conditions[2] = Emit(ASSERT_MY_SCRIPTPUBKEY, <<a.my_spk>>)

\* The triggered coin, the fourth condition, beside the signature that asks
\* for it.
ClaimsTriggered(program, a, c, conditions, k) ==
    /\ c = Emit(CREATE_OUTPUT_TAPROOT,
                <<program.v.internal_key, TriggeredRoot(program.v, a.order.target),
                  a.order.trig_amt>>)
    /\ k = 4 /\ program.state = "vault" /\ a.path = TRIGGER_PATH /\ a.order.target # NoHash
    /\ 1 \in DOMAIN conditions /\ 3 \in 1..Len(conditions)
    /\ conditions[1] = Emit(ASSERT_MY_TAPTREE, <<program.v.internal_key, vault_root(program.v)>>)
    /\ conditions[3] = Emit(ASSERT_SIG_MY_OUTPOINT,
                            <<program.v.auth_key, TriggerMessage(a.order), a.sig>>)

\* The rest that a trigger returns to its vault.
ClaimsRevault(program, a, c) ==
    /\ c = Emit(CREATE_OUTPUT_TAPROOT,
                <<program.v.internal_key, vault_root(program.v), a.order.revault_amt>>)
    /\ program.state = "vault"

\* A list of one of these four claims, and of what claims nothing.
VaultList(program, a, conditions) ==
    /\ IsList(conditions)
    /\ \A k \in 1..Len(conditions) : LET c == conditions[k] IN IsClaim(c) =>
          \/ ClaimsRecovery(program, a, c)
          \/ ClaimsOwnScript(program, a, c, conditions)
          \/ ClaimsTriggered(program, a, c, conditions, k)
          \/ ClaimsRevault(program, a, c)

\* Asserts and messages claim nothing.
LEMMA AssertsClaimNothing ==
    /\ \A operands, opcode :
          opcode \in {ASSERT_MY_TAPTREE, ASSERT_MY_AMOUNT, ASSERT_MY_SCRIPTPUBKEY,
                      ASSERT_MY_OUTPOINT, ASSERT_SIG_MY_OUTPOINT, ASSERT_SEQUENCE_HEIGHT,
                      SEAL_OUTPUTS} => ~IsClaim(Emit(opcode, operands))
    /\ \A opcode, own, commitment, fields :
          opcode \in {ASSURE, REQUIRE} => ~IsClaim(EmitAddressed(opcode, own, commitment, fields))
  BY DEF IsClaim, CreateOpcodes, Emit, EmitAddressed, CREATE_OUTPUT, CREATE_OUTPUT_TAPROOT,
     ASSERT_MY_TAPTREE, ASSERT_MY_AMOUNT, ASSERT_MY_SCRIPTPUBKEY, ASSERT_MY_OUTPOINT,
     ASSERT_SIG_MY_OUTPOINT, ASSERT_SEQUENCE_HEIGHT, SEAL_OUTPUTS, ASSURE, REQUIRE

\* The short lists.
LEMMA ShortLists ==
    /\ IsList(<<>>) /\ Len(<<>>) = 0
    /\ \A w : IsList(<<w>>) /\ Len(<<w>>) = 1 /\ <<w>>[1] = w
    /\ \A w, x, y : /\ IsList(<<w, x, y>>) /\ Len(<<w, x, y>>) = 3
                    /\ <<w, x, y>>[1] = w /\ <<w, x, y>>[2] = x /\ <<w, x, y>>[3] = y
    /\ \A w, x, y, z : /\ IsList(<<w, x, y, z>>) /\ Len(<<w, x, y, z>>) = 4
                       /\ <<w, x, y, z>>[1] = w /\ <<w, x, y, z>>[2] = x
                       /\ <<w, x, y, z>>[3] = y /\ <<w, x, y, z>>[4] = z
<1>1. IsList(<<>>) /\ Len(<<>>) = 0
  BY EmptySeq DEF IsList
<1>2. ASSUME NEW w PROVE IsList(<<w>>) /\ Len(<<w>>) = 1 /\ <<w>>[1] = w
  <2> DEFINE f == <<w>>
  <2>1. f = [i \in 1..1 |-> f[i]]
    OBVIOUS
  <2>2. IsList(f) /\ Len(f) = 1
    <3> HIDE DEF f
    <3> QED BY <2>1, ListIs
  <2> QED BY <2>2
<1>3. ASSUME NEW w, NEW x, NEW y
      PROVE  /\ IsList(<<w, x, y>>) /\ Len(<<w, x, y>>) = 3
             /\ <<w, x, y>>[1] = w /\ <<w, x, y>>[2] = x /\ <<w, x, y>>[3] = y
  <2> DEFINE f == <<w, x, y>>
  <2>1. f = [i \in 1..3 |-> f[i]]
    OBVIOUS
  <2>2. IsList(f) /\ Len(f) = 3
    <3> HIDE DEF f
    <3> QED BY <2>1, ListIs
  <2> QED BY <2>2
<1>4. ASSUME NEW w, NEW x, NEW y, NEW z
      PROVE  /\ IsList(<<w, x, y, z>>) /\ Len(<<w, x, y, z>>) = 4
             /\ <<w, x, y, z>>[1] = w /\ <<w, x, y, z>>[2] = x
             /\ <<w, x, y, z>>[3] = y /\ <<w, x, y, z>>[4] = z
  <2> DEFINE f == <<w, x, y, z>>
  <2>1. f = [i \in 1..4 |-> f[i]]
    OBVIOUS
  <2>2. IsList(f) /\ Len(f) = 4
    <3> HIDE DEF f
    <3> QED BY <2>1, ListIs
  <2> QED BY <2>2
<1> QED
  BY <1>1, <1>2, <1>3, <1>4

\* What the trigger path returns.
LEMMA TriggerList ==
    ASSUME NEW program, program.state = "vault", NEW a, a.path = TRIGGER_PATH,
           NEW conditions \in trigger_path(program.v, a)
    PROVE  VaultList(program, a, conditions)
<1> DEFINE v == program.v
           c1 == Emit(ASSERT_MY_TAPTREE, <<v.internal_key, vault_root(v)>>)
           c2 == Emit(ASSERT_MY_AMOUNT, <<a.my_amt>>)
           c3 == Emit(ASSERT_SIG_MY_OUTPOINT, <<v.auth_key, TriggerMessage(a.order), a.sig>>)
           c4 == Emit(CREATE_OUTPUT_TAPROOT,
                      <<v.internal_key, CreatedRoot(v, a.order.target), a.order.trig_amt>>)
           c5 == Emit(CREATE_OUTPUT_TAPROOT,
                      <<v.internal_key, vault_root(v), a.order.revault_amt>>)
           front == <<c1, c2, c3, c4>>
           back == IF a.order.revault_amt = 0 THEN <<>> ELSE <<c5>>
<1>1. conditions = front \o back /\ a.order.target # NoHash
  BY DEF trigger_path
<1>2. ~IsClaim(c1) /\ ~IsClaim(c2) /\ ~IsClaim(c3)
  BY AssertsClaimNothing
<1>3. /\ c4 = Emit(CREATE_OUTPUT_TAPROOT,
                   <<v.internal_key, TriggeredRoot(v, a.order.target), a.order.trig_amt>>)
      /\ ClaimsRevault(program, a, c5)
  BY DEF CreatedRoot, ClaimsRevault
<1>4. /\ c1 = Emit(ASSERT_MY_TAPTREE, <<v.internal_key, vault_root(v)>>)
      /\ c3 = Emit(ASSERT_SIG_MY_OUTPOINT, <<v.auth_key, TriggerMessage(a.order), a.sig>>)
  OBVIOUS
<1> HIDE DEF c1, c2, c3, c4, c5
<1>5. /\ IsList(front) /\ Len(front) = 4
      /\ front[1] = c1 /\ front[2] = c2 /\ front[3] = c3 /\ front[4] = c4
  BY ShortLists
<1>6. IsList(back) /\ \A j \in 1..Len(back) : back[j] = c5
  <2>1. IsList(<<>>) /\ Len(<<>>) = 0 /\ IsList(<<c5>>) /\ Len(<<c5>>) = 1 /\ <<c5>>[1] = c5
    BY ShortLists
  <2>2. CASE a.order.revault_amt = 0
    BY <2>1, <2>2
  <2>3. CASE a.order.revault_amt # 0
    <3>1. back = <<c5>>
      BY <2>3
    <3> HIDE DEF back
    <3> QED BY <2>1, <3>1
  <2> QED BY <2>2, <2>3
<1> HIDE DEF front, back
<1>7. /\ IsList(conditions) /\ Len(conditions) = 4 + Len(back) /\ Len(back) \in Nat
      /\ \A k \in 1..Len(conditions) :
            conditions[k] = IF k <= 4 THEN front[k] ELSE back[k - 4]
  <2>1. Joined(front, back, conditions)
    BY <1>1, <1>5, <1>6, ConcatIs
  <2> QED BY <1>5, <2>1 DEF Joined
<1>8. ASSUME NEW k \in 1..Len(conditions), IsClaim(conditions[k])
      PROVE  \/ ClaimsTriggered(program, a, conditions[k], conditions, k)
             \/ ClaimsRevault(program, a, conditions[k])
  <2>1. CASE k <= 4
    <3>1. k \in {1, 2, 3, 4} /\ conditions[k] = front[k]
      BY <1>7, <2>1
    <3>2. k = 4 /\ conditions[k] = c4
      BY <1>2, <1>5, <1>8, <3>1
    <3>3. /\ 1 \in 1..Len(conditions) /\ conditions[1] = c1
          /\ 3 \in 1..Len(conditions) /\ conditions[3] = c3
      BY <1>5, <1>7
    <3>4. 1 \in DOMAIN conditions
      BY <1>7, <3>3, ListParts
    <3> QED BY <1>1, <1>3, <1>4, <3>2, <3>3, <3>4 DEF ClaimsTriggered
  <2>2. CASE ~(k <= 4)
    <3>1. k - 4 \in 1..Len(back) /\ conditions[k] = back[k - 4]
      BY <1>7, <2>2
    <3> QED BY <1>3, <1>6, <3>1
  <2> QED BY <2>1, <2>2
<1> QED
  BY <1>7, <1>8 DEF VaultList

\* What the recovery path returns, in either state.
LEMMA RecoveryList ==
    ASSUME NEW program, NEW a, NEW root,
           NEW conditions \in recovery_conditions(program.v, root, a)
    PROVE  VaultList(program, a, conditions)
<1> DEFINE v == program.v
           c1 == Emit(ASSERT_MY_TAPTREE, <<v.internal_key, root>>)
           c2 == Emit(ASSERT_MY_AMOUNT, <<a.my_amt>>)
           c3 == Emit(CREATE_OUTPUT, <<v.recovery_spk, a.recover_amt>>)
           c4 == Emit(ASSERT_SIG_MY_OUTPOINT, <<v.recovery_key, RecoveryMessage(a), a.sig>>)
           front == <<c1, c2, c3>>
           back == IF v.recovery_key = NoKey THEN <<>> ELSE <<c4>>
<1>1. conditions = front \o back
  BY DEF recovery_conditions
<1>2. ~IsClaim(c1) /\ ~IsClaim(c2) /\ ~IsClaim(c4)
  BY AssertsClaimNothing
<1>3. ClaimsRecovery(program, a, c3)
  BY DEF ClaimsRecovery
<1> HIDE DEF c1, c2, c3, c4
<1>4. /\ IsList(front) /\ Len(front) = 3
      /\ front[1] = c1 /\ front[2] = c2 /\ front[3] = c3
  BY ShortLists
<1>5. IsList(back) /\ \A j \in 1..Len(back) : back[j] = c4
  <2>1. IsList(<<>>) /\ Len(<<>>) = 0 /\ IsList(<<c4>>) /\ Len(<<c4>>) = 1 /\ <<c4>>[1] = c4
    BY ShortLists
  <2>2. CASE v.recovery_key = NoKey
    BY <2>1, <2>2
  <2>3. CASE v.recovery_key # NoKey
    <3>1. back = <<c4>>
      BY <2>3
    <3> HIDE DEF back
    <3> QED BY <2>1, <3>1
  <2> QED BY <2>2, <2>3
<1> HIDE DEF front, back
<1>6. Joined(front, back, conditions) /\ IsList(conditions)
  BY <1>1, <1>4, <1>5, ConcatIs DEF Joined
<1>7. ASSUME NEW k \in 1..Len(conditions), IsClaim(conditions[k])
      PROVE  ClaimsRecovery(program, a, conditions[k])
  <2>1. \/ \E j \in 1..Len(front) : conditions[k] = front[j]
        \/ \E j \in 1..Len(back) : conditions[k] = back[j]
    BY <1>6, <1>7, JoinedFrom
  <2>2. \A j \in 1..Len(front) : front[j] \in {c1, c2, c3}
    BY <1>4
  <2> QED BY <1>2, <1>3, <1>5, <1>7, <2>1, <2>2
<1> QED
  BY <1>6, <1>7 DEF VaultList

\* What the paths of consolidation return.
LEMMA FollowList ==
    ASSUME NEW program, NEW a, NEW conditions \in follow_path(program.v, a)
    PROVE  VaultList(program, a, conditions)
<1> DEFINE v == program.v
           c1 == Emit(ASSERT_MY_TAPTREE, <<v.internal_key, vault_root(v)>>)
           c2 == Emit(ASSERT_MY_SCRIPTPUBKEY, <<a.my_spk>>)
           c3 == EmitAddressed(ASSURE, Assurer, Requirer, <<a.my_spk>>)
<1>1. conditions = <<c1, c2, c3>>
  BY DEF follow_path
<1>2. ~IsClaim(c1) /\ ~IsClaim(c2) /\ ~IsClaim(c3)
  BY AssertsClaimNothing
<1> HIDE DEF c1, c2, c3
<1>3. /\ IsList(conditions) /\ Len(conditions) = 3
      /\ conditions[1] = c1 /\ conditions[2] = c2 /\ conditions[3] = c3
  BY <1>1, ShortLists
<1>4. \A k \in 1..Len(conditions) : ~IsClaim(conditions[k])
  BY <1>2, <1>3
<1> QED
  BY <1>3, <1>4 DEF VaultList

\* What the leading path returns: asserts, the messages that it requires, and
\* one output at the script it asserts.
LEMMA LeadList ==
    ASSUME NEW program, program.state = "vault", NEW a, Len(a.follower_amounts) \in Nat,
           NEW conditions \in lead_path(program.v, a)
    PROVE  VaultList(program, a, conditions)
<1> DEFINE v == program.v
           c1 == Emit(ASSERT_MY_TAPTREE, <<v.internal_key, vault_root(v)>>)
           c2 == Emit(ASSERT_MY_SCRIPTPUBKEY, <<a.my_spk>>)
           c3 == Emit(ASSERT_MY_AMOUNT, <<a.my_amt>>)
           last == Emit(CREATE_OUTPUT, <<a.my_spk, a.out_amt>>)
           front == <<c1, c2, c3>>
           n == Len(a.follower_amounts)
           middle == [m \in 1..n |->
                        EmitAddressed(REQUIRE, Requirer, Assurer,
                                      <<a.my_spk, a.follower_amounts[m]>>)]
           most == front \o middle
           back == <<last>>
<1>1. conditions = most \o back
  BY DEF lead_path
<1>2. ~IsClaim(c1) /\ ~IsClaim(c2) /\ ~IsClaim(c3)
  BY AssertsClaimNothing
<1>3. \A m \in 1..n : ~IsClaim(middle[m])
  BY AssertsClaimNothing
<1>4. IsList(middle) /\ Len(middle) = n
  <2>1. middle = [m \in 1..n |-> middle[m]]
    OBVIOUS
  <2> HIDE DEF middle, n
  <2> QED BY <2>1, ListIs DEF n
<1>5. /\ last = Emit(CREATE_OUTPUT, <<a.my_spk, a.out_amt>>)
      /\ c1 = Emit(ASSERT_MY_TAPTREE, <<v.internal_key, vault_root(v)>>)
      /\ c2 = Emit(ASSERT_MY_SCRIPTPUBKEY, <<a.my_spk>>)
  OBVIOUS
<1> HIDE DEF c1, c2, c3, last, middle, n
<1>6. /\ IsList(front) /\ Len(front) = 3
      /\ front[1] = c1 /\ front[2] = c2 /\ front[3] = c3
      /\ IsList(back) /\ Len(back) = 1 /\ back[1] = last
  BY ShortLists
<1> HIDE DEF front, back
<1>7. /\ IsList(most) /\ Len(most) = 3 + n /\ n \in Nat
      /\ \A k \in 1..Len(most) : most[k] = IF k <= 3 THEN front[k] ELSE middle[k - 3]
  <2>1. Joined(front, middle, most)
    BY <1>4, <1>6, ConcatIs
  <2> HIDE DEF most
  <2> QED BY <1>4, <1>6, <2>1 DEF Joined
<1> HIDE DEF most
<1>8. /\ IsList(conditions) /\ Len(conditions) = 4 + n
      /\ \A k \in 1..Len(conditions) :
            conditions[k] = IF k <= 3 + n THEN most[k] ELSE back[k - (3 + n)]
  <2>1. Joined(most, back, conditions)
    BY <1>1, <1>6, <1>7, ConcatIs
  <2> QED BY <1>6, <1>7, <2>1 DEF Joined
<1>9. conditions[1] = c1 /\ conditions[2] = c2 /\ {1, 2} \subseteq DOMAIN conditions
  <2>1. /\ 1 \in 1..(3 + n) /\ 2 \in 1..(3 + n) /\ 1 \in 1..(4 + n) /\ 2 \in 1..(4 + n)
        /\ 1 <= 3 + n /\ 2 <= 3 + n
    BY <1>7
  <2>2. most[1] = c1 /\ most[2] = c2
    BY <1>6, <1>7, <2>1
  <2>3. conditions[1] = c1 /\ conditions[2] = c2
    BY <1>8, <2>1, <2>2
  <2>4. DOMAIN conditions = 1..(4 + n)
    BY <1>8, ListParts
  <2> QED BY <2>1, <2>3, <2>4
<1>10. ASSUME NEW k \in 1..Len(conditions), IsClaim(conditions[k])
       PROVE  ClaimsOwnScript(program, a, conditions[k], conditions)
  <2>1. conditions[k] = last
    <3>1. CASE k <= 3
      <4>1. k \in {1, 2, 3} /\ conditions[k] = front[k]
        BY <1>7, <1>8, <3>1
      <4> QED BY <1>2, <1>6, <1>10, <4>1
    <3>2. CASE 3 < k /\ k <= 3 + n
      <4>1. k - 3 \in 1..n /\ conditions[k] = middle[k - 3]
        BY <1>7, <1>8, <3>2
      <4> QED BY <1>3, <1>10, <4>1
    <3>3. CASE ~(k <= 3 + n)
      <4>1. k = 4 + n /\ k - (3 + n) = 1
        BY <1>7, <1>8, <3>3
      <4> QED BY <1>6, <1>8, <3>3, <4>1
    <3> QED BY <1>7, <1>8, <3>1, <3>2, <3>3
  <2> QED BY <1>5, <1>9, <2>1 DEF ClaimsOwnScript
<1> QED
  BY <1>8, <1>10 DEF VaultList

\* What the withdraw path returns.
LEMMA WithdrawList ==
    ASSUME NEW program, NEW a, NEW conditions \in withdraw_conditions(program.v, program.target)
    PROVE  VaultList(program, a, conditions)
<1> DEFINE v == program.v
           c1 == Emit(ASSERT_MY_TAPTREE,
                      <<v.internal_key, TriggeredRoot(v, program.target)>>)
           c2 == Emit(ASSERT_SEQUENCE_HEIGHT, <<v.delay>>)
           c3 == Emit(SEAL_OUTPUTS, <<program.target>>)
<1>1. conditions = <<c1, c2, c3>>
  BY DEF withdraw_conditions
<1>2. ~IsClaim(c1) /\ ~IsClaim(c2) /\ ~IsClaim(c3)
  BY AssertsClaimNothing
<1> HIDE DEF c1, c2, c3
<1>3. /\ IsList(conditions) /\ Len(conditions) = 3
      /\ conditions[1] = c1 /\ conditions[2] = c2 /\ conditions[3] = c3
  BY <1>1, ShortLists
<1>4. \A k \in 1..Len(conditions) : ~IsClaim(conditions[k])
  BY <1>2, <1>3
<1> QED
  BY <1>3, <1>4 DEF VaultList

\* What a solution for a path holds.
LEMMA SolutionParts ==
    ASSUME IsFiniteSet(coins), NEW coin, NEW state, NEW a \in Solutions(coin, state)
    PROVE  /\ state # "triggered" /\ a.path = TRIGGER_PATH =>
                 a.order \in Orders /\ a.sig \in Signatures
           /\ a.path = LEAD_PATH => Len(a.follower_amounts) \in Nat
<1> USE DEF TRIGGER_PATH, RECOVER_PATH, FOLLOW_PATH, LEAD_PATH, WITHDRAW_PATH
<1> DEFINE amounts == {coin.amount - 1, coin.amount}
           scripts == {coin.script_pubkey} \cup {ScriptOf(VaultProgram(v)) : v \in Instances}
           followers(some) == AmountsOf(S!SetToSeq(some))
           recoveries ==
              {[path |-> RECOVER_PATH, my_amt |-> m, recover_amt |-> r, sig |-> s] :
                  m \in amounts, r \in amounts, s \in Signatures}
           triggers ==
              {[path |-> TRIGGER_PATH, order |-> o, my_amt |-> m, sig |-> s] :
                  o \in Orders, m \in amounts, s \in Signatures}
           follows == {[path |-> FOLLOW_PATH, my_spk |-> spk] : spk \in scripts}
           leads(f) ==
              {[path |-> LEAD_PATH, my_spk |-> spk, my_amt |-> m, follower_amounts |-> f,
                out_amt |-> m + Total(0, f) - short] :
                  spk \in scripts, m \in amounts, short \in {0, 1}}
           lists == {followers(some) : some \in SUBSET (coins \ {coin})}
<1>1. \/ a \in recoveries
      \/ state = "triggered" /\ a = [path |-> WITHDRAW_PATH]
      \/ a \in triggers \/ a \in follows
      \/ \E f \in lists : a \in leads(f)
  BY DEF Solutions
<1>2. CASE a \in recoveries
  BY <1>2
<1>3. CASE state = "triggered" /\ a = [path |-> WITHDRAW_PATH]
  BY <1>3
<1>4. CASE a \in triggers
  BY <1>4
<1>5. CASE a \in follows
  BY <1>5
<1>6. CASE \E f \in lists : a \in leads(f)
  <2>1. PICK f \in lists : a \in leads(f)
    BY <1>6
  <2>2. a.path = LEAD_PATH /\ a.follower_amounts = f
    BY <2>1
  <2>3. PICK some \in SUBSET (coins \ {coin}) : f = followers(some)
    BY <2>1
  <2>4. IsFiniteSet(some)
    BY <2>3, FS_Subset
  <2>5. Len(S!SetToSeq(some)) \in Nat
    BY <2>4, OrderOf DEF IsOrderOf
  <2>6. Len(f) \in Nat
    BY <2>3, <2>5 DEF AmountsOf
  <2> QED BY <2>2, <2>6
<1> QED
  BY <1>1, <1>2, <1>3, <1>4, <1>5, <1>6

\* Whatever a vault's program returns is such a list, from a well-formed
\* program.
LEMMA RunList ==
    ASSUME IsFiniteSet(coins), NEW coin, NEW program \in Programs,
           NEW a \in Solutions(coin, program.state), NEW conditions \in Run(program, a)
    PROVE  IsWellFormed(program) /\ VaultList(program, a, conditions)
<1>1. IsWellFormed(program)
  BY DEF Run
<1>2. CASE program.state = "vault"
  <2>1. \/ a.path = TRIGGER_PATH /\ conditions \in trigger_path(program.v, a)
        \/ conditions \in recovery_conditions(program.v, vault_root(program.v), a)
        \/ conditions \in follow_path(program.v, a)
        \/ a.path = LEAD_PATH /\ conditions \in lead_path(program.v, a)
    BY <1>1, <1>2 DEF Run, TRIGGER_PATH, RECOVER_PATH, FOLLOW_PATH, LEAD_PATH
  <2>2. a.path = LEAD_PATH => Len(a.follower_amounts) \in Nat
    BY SolutionParts
  <2> QED BY <1>1, <1>2, <2>1, <2>2, TriggerList, RecoveryList, FollowList, LeadList
<1>3. CASE program.state # "vault"
  <2>1. \/ conditions \in withdraw_conditions(program.v, program.target)
        \/ conditions \in recovery_conditions(program.v, program.root, a)
    BY <1>1, <1>3 DEF Run, WITHDRAW_PATH, RECOVER_PATH
  <2> QED BY <1>1, <2>1, WithdrawList, RecoveryList
<1> QED
  BY <1>2, <1>3

-----------------------------------------------------------------------------
(* An input by itself. *)

\* The transaction has this input, with its conditions, and no others.
HasOneInput(tx, input) ==
    /\ IsList(tx.inputs) /\ Len(tx.inputs) = 1 /\ tx.inputs[1] = input
    /\ \A p : p \in Places(tx) <=> \E k \in 1..Len(Conditions(input)) : p = <<1, k>>
    /\ \A k : Input(tx, <<1, k>>) = input /\ Condition(tx, <<1, k>>) = Conditions(input)[k]

\* So has the one that is assembled from it alone.
LEMMA OneInput ==
    ASSUME NEW input, NEW outputs
    PROVE  HasOneInput(Tx({input}, outputs), input)
<1> DEFINE tx == Tx({input}, outputs)
           s == S!SetToSeq({input})
<1>1. tx.inputs = s
  BY DEF Tx
<1>2. IsFiniteSet({input}) /\ Cardinality({input}) = 1
  BY FS_Singleton
<1>3. IsList(s) /\ Len(s) = 1 /\ s[1] \in {input}
  <2>1. IsOrderOf(s, {input})
    BY <1>2, OrderOf
  <2> HIDE DEF s
  <2> QED BY <1>2, <2>1 DEF IsOrderOf
<1> HIDE DEF s, tx
<1>4. IsList(tx.inputs) /\ Len(tx.inputs) = 1 /\ tx.inputs[1] = input
  BY <1>1, <1>3
<1>5. \A p : p \in Places(tx) <=> \E k \in 1..Len(Conditions(input)) : p = <<1, k>>
  BY <1>4 DEF Places
<1>6. \A k : Input(tx, <<1, k>>) = input /\ Condition(tx, <<1, k>>) = Conditions(input)[k]
  BY <1>4 DEF Input, Condition
<1> QED
  BY <1>4, <1>5, <1>6 DEF tx, HasOneInput

\* What an input that stands alone asserts of its coin is so, and each
\* signature that it asks for verifies.
LEMMA StandsAloneMeans ==
    ASSUME NEW input, StandsAlone(input)
    PROVE  /\ \A n \in DOMAIN input.conditions :
                 input.conditions[n].opcode \in SelfAsserts =>
                     SelfAssertHolds(input, input.conditions[n])
           /\ \A k \in 1..Len(Conditions(input)) :
                 LET c == Conditions(input)[k]
                 IN  c.opcode \in SigOpcodes =>
                        Verifies(c.operands[1], sig_digest(c, input), c.operands[3])
<1> DEFINE tx == Tx({input}, <<>>)
<1>1. SignaturesHold(tx)
  BY DEF StandsAlone, check_signature_asserts, Checked, Valid
<1>2. ASSUME NEW k \in 1..Len(Conditions(input)), Conditions(input)[k].opcode \in SigOpcodes
      PROVE  LET c == Conditions(input)[k]
             IN  Verifies(c.operands[1], sig_digest(c, input), c.operands[3])
  <2> DEFINE p == <<1, k>>
  <2>1. p \in Places(tx) /\ Input(tx, p) = input /\ Condition(tx, p) = Conditions(input)[k]
    BY OneInput DEF HasOneInput
  <2> HIDE DEF tx, p
  <2>2. p \in PlacesOf(tx, SigOpcodes)
    BY <1>2, <2>1 DEF PlacesOf
  <2> QED BY <1>1, <2>1, <2>2 DEF SignaturesHold
<1>3. \A n \in DOMAIN input.conditions :
         input.conditions[n].opcode \in SelfAsserts => SelfAssertHolds(input, input.conditions[n])
  BY DEF StandsAlone
<1> HIDE DEF tx
<1> QED
  BY <1>2, <1>3

\* The digest of the outpoint-bound variant covers the outpoint and the message.
LEMMA OutpointDigest ==
    ASSUME NEW operands, NEW x
    PROVE  sig_digest(Emit(ASSERT_SIG_MY_OUTPOINT, operands), x)
             = <<ASSERT_SIG_MY_OUTPOINT, <<outpoint(x)>>, operands[2]>>
<1>1. SIG_BINDINGS[ASSERT_SIG_MY_OUTPOINT] = <<"outpoint">>
  BY DEF SIG_BINDINGS, ASSERT_SIG_MY_TXID, ASSERT_SIG_MY_OUTPOINT, ASSERT_SIG_MY_SCRIPTPUBKEY,
     ASSERT_SIG_MY_AMOUNT, ASSERT_SIG_MY_SCRIPTPUBKEY_AMOUNT, ASSERT_SIG_MY_TXID_AMOUNT,
     ASSERT_SIG_MY_TXID_SCRIPTPUBKEY, ASSERT_SIG_RAW
<1>2. FieldsOf(x, <<"outpoint">>) = <<outpoint(x)>>
  BY DEF FieldsOf, FieldOf
<1> QED
  BY <1>1, <1>2 DEF sig_digest, Emit

\* The outpoint-bound signature that verifies is one that its key has made,
\* of this message for this outpoint.
LEMMA SignatureMeans ==
    ASSUME SignaturesAreIdeal, NEW key, NEW message, NEW sig \in Signatures, NEW input,
           Verifies(key, sig_digest(Emit(ASSERT_SIG_MY_OUTPOINT, <<key, message, sig>>), input), sig)
    PROVE  \E s \in signed : s.key = key /\ s.message = message
                               /\ outpoint(s.coin) = outpoint(input)
<1> DEFINE c == Emit(ASSERT_SIG_MY_OUTPOINT, <<key, message, sig>>)
<1>1. sig = <<key, <<ASSERT_SIG_MY_OUTPOINT, <<outpoint(input)>>, message>>>>
  <2>1. sig_digest(c, input) = <<ASSERT_SIG_MY_OUTPOINT, <<outpoint(input)>>, message>>
    BY OutpointDigest
  <2>2. Verifies(key, sig_digest(c, input), sig)
    OBVIOUS
  <2> HIDE DEF c
  <2> QED BY <2>1, <2>2 DEF SignaturesAreIdeal
<1>2. sig # NoSignature
  BY <1>1 DEF NoSignature
<1>3. PICK s \in signed : sig = Signature(s)
  BY <1>2 DEF Signatures
<1>4. sig = <<s.key, <<ASSERT_SIG_MY_OUTPOINT, <<outpoint(s.coin)>>, s.message>>>>
  <2>1. sig_digest(Emit(ASSERT_SIG_MY_OUTPOINT, <<s.key, s.message>>), s.coin)
          = <<ASSERT_SIG_MY_OUTPOINT, <<outpoint(s.coin)>>, s.message>>
    BY OutpointDigest
  <2> QED BY <1>3, <2>1 DEF Signature
<1> QED
  BY <1>1, <1>4

-----------------------------------------------------------------------------
(* A vault's input: what it claims, and whose signature it has. *)

\* A program that is well-formed lives at this script.
HasProgram(script_pubkey) ==
    \E p \in Programs : ScriptOf(p) = script_pubkey /\ IsWellFormed(p)

\* What anyone may pay to is no triggered coin's script, and a vault's only if
\* the vault is well-formed.
LEMMA PayableIs ==
    ASSUME NEW script_pubkey, IsPayable(script_pubkey)
    PROVE  /\ IsVaultScript(script_pubkey) => HasProgram(script_pubkey)
           /\ \A v \in Instances, t \in Targets : script_pubkey # ScriptOf(TriggeredProgram(v, t))
<1>1. ASSUME IsVaultScript(script_pubkey)
      PROVE  \E p \in Programs : /\ ScriptOf(p) = script_pubkey /\ IsWellFormed(p)
                                 /\ p.root[1] = "vault"
  <2>1. PICK v \in Instances :
           ScriptOf(VaultProgram(v)) = script_pubkey /\ IsWellFormed(VaultProgram(v))
    BY <1>1 DEF IsPayable
  <2> DEFINE p == VaultProgram(v)
  <2>2. p \in Programs /\ p.state = "vault"
    BY DEF Programs, VaultProgram
  <2> HIDE DEF p
  <2> QED BY <2>1, <2>2, ProgramIs DEF p
<1>2. ASSUME NEW v \in Instances, NEW t \in Targets,
             script_pubkey = ScriptOf(TriggeredProgram(v, t))
      PROVE  FALSE
  <2> DEFINE q == TriggeredProgram(v, t)
  <2>1. q \in Programs /\ q.state = "triggered" /\ script_pubkey = ScriptOf(q)
    BY <1>2 DEF Programs, TriggeredProgram
  <2> HIDE DEF q
  <2>2. q.root[1] = "triggered" /\ IsVaultScript(script_pubkey)
        /\ script_pubkey = <<"taproot", q.v.internal_key, q.root>>
    BY <2>1, ProgramIs
  <2>3. PICK p \in Programs : ScriptOf(p) = script_pubkey /\ p.root[1] = "vault"
    BY <1>1, <2>2
  <2>4. script_pubkey = <<"taproot", p.v.internal_key, p.root>>
    BY <2>3, ProgramIs
  <2> QED BY <2>2, <2>3, <2>4
<1> QED
  BY <1>1, <1>2 DEF HasProgram

\* Every vault's output that the input claims is one that a program made.
Backed(input) ==
    \A k \in 1..Len(Conditions(input)) :
        LET c == Conditions(input)[k]
        IN  IsClaim(c) /\ IsVaultScript(Claimed(c).script_pubkey) =>
               HasProgram(Claimed(c).script_pubkey)

\* Every triggered output that the input claims is its fourth condition, and
\* its own coin was signed for that target and that amount.
Signs(s, input, target, amount) ==
    /\ s.coin \in coins /\ outpoint(s.coin) = outpoint(input)
    /\ \E p \in Owners(s.coin) : p.state = "vault" /\ s.key = p.v.auth_key
    /\ s.order.target = target /\ s.order.trig_amt = amount

SignedFor(input) ==
    \A k \in 1..Len(Conditions(input)), v \in Instances, t \in Targets :
        LET c == Conditions(input)[k]
        IN  IsClaim(c) /\ Claimed(c).script_pubkey = ScriptOf(TriggeredProgram(v, t)) =>
               k = 4 /\ \E s \in signed : Signs(s, input, t, Claimed(c).amount)

\* What a coin to start from is, and a coin that a transaction creates.
IsCoin(c) ==
    /\ IsList(c.txid) /\ c.index \in 0..UINT32_MAX /\ c.amount \in 0..MAX_MONEY
    /\ IsVaultScript(c.script_pubkey) => HasProgram(c.script_pubkey)
    /\ IsFieldList(c.txid) =>
          output_script(tx_outputs(c.txid)[c.index + 1]) = c.script_pubkey

\* What a key signs of a coin: a trigger's order, a recovery, or a handover.
IsSigned(s) ==
    \/ s.message = TriggerMessage(s.order)
    \/ \E a : s.message = RecoveryMessage(a)
    \/ LineagesOf(s.coin) # {}

\* An input of a program of the vault that is run on this coin.
IsVaultInput(input, coin, own, program, a, conditions) ==
    /\ coin \in coins /\ own \in Owners(coin) /\ program \in Programs
    /\ a \in Solutions(coin, program.state) /\ conditions \in Run(program, a)
    /\ input = ScriptInput(coin, own.v.internal_key, own.root, SequenceFor(conditions), conditions)
    /\ StandsAlone(input)

\* What a vault's coin and its input are.
LEMMA VaultInputParts ==
    ASSUME IsFiniteSet(coins),
           NEW input, NEW coin, NEW own, NEW program, NEW a, NEW conditions,
           IsVaultInput(input, coin, own, program, a, conditions)
    PROVE  /\ IsList(Conditions(input)) /\ Conditions(input) \in {<<>>, conditions}
           /\ IsWellFormed(program) /\ VaultList(program, a, conditions)
           /\ input.conditions = conditions /\ outpoint(input) = outpoint(coin)
           /\ input.txid = coin.txid /\ input.index = coin.index
           /\ input.script_pubkey = coin.script_pubkey
           /\ input.internal_key = own.v.internal_key /\ input.merkle_root = own.root
           /\ own \in Programs /\ ScriptOf(own) = coin.script_pubkey
           /\ IsVaultScript(coin.script_pubkey)
<1>1. /\ input.conditions = conditions /\ input.txid = coin.txid /\ input.index = coin.index
      /\ input.script_pubkey = coin.script_pubkey
      /\ input.internal_key = own.v.internal_key /\ input.merkle_root = own.root
  BY DEF IsVaultInput, ScriptInput
<1>2. outpoint(input) = outpoint(coin)
  BY <1>1 DEF outpoint
<1>3. IsWellFormed(program) /\ VaultList(program, a, conditions)
  BY RunList DEF IsVaultInput
<1>4. own \in Programs /\ ScriptOf(own) = coin.script_pubkey
  BY DEF IsVaultInput, Owners
<1>5. IsVaultScript(coin.script_pubkey)
  BY <1>4, ProgramIs
<1>6. IsList(Conditions(input)) /\ Conditions(input) \in {<<>>, conditions}
  BY <1>1, <1>3, ShortLists DEF Conditions, VaultList
<1> QED
  BY <1>1, <1>2, <1>3, <1>4, <1>5, <1>6

\* A vault's program claims outputs of the vault for well-formed programs only.
LEMMA VaultInputIsBacked ==
    ASSUME IsFiniteSet(coins),
           NEW input, NEW coin, NEW own, NEW program, NEW a, NEW conditions,
           IsVaultInput(input, coin, own, program, a, conditions), IsCoin(coin)
    PROVE  Backed(input)
<1>1. SUFFICES ASSUME NEW k \in 1..Len(Conditions(input)), NEW c, c = Conditions(input)[k],
                      IsClaim(c), IsVaultScript(Claimed(c).script_pubkey)
               PROVE  HasProgram(Claimed(c).script_pubkey)
  BY DEF Backed
<1>2. k \in 1..Len(conditions) /\ c = conditions[k]
  BY <1>1, VaultInputParts, ShortLists
<1>3. \/ ClaimsRecovery(program, a, c)
      \/ ClaimsOwnScript(program, a, c, conditions)
      \/ ClaimsTriggered(program, a, c, conditions, k)
      \/ ClaimsRevault(program, a, c)
  BY <1>1, <1>2, VaultInputParts DEF VaultList
<1>4. IsClaim(c) /\ IsVaultScript(Claimed(c).script_pubkey)
  BY <1>1
<1>5. program \in Programs /\ program.v \in Instances /\ IsWellFormed(program)
  BY ProgramIs, VaultInputParts DEF IsVaultInput
<1>6. CASE ClaimsRecovery(program, a, c)
  <2>1. Claimed(c).script_pubkey = program.v.recovery_spk
    BY <1>6 DEF ClaimsRecovery, Emit, Claimed
  <2>2. IsPayable(program.v.recovery_spk)
    BY <1>5, VaultsPayDeposits
  <2> QED BY <1>4, <2>1, <2>2, PayableIs
<1>7. CASE ClaimsOwnScript(program, a, c, conditions)
  <2>1. Claimed(c).script_pubkey = a.my_spk
    BY <1>7 DEF ClaimsOwnScript, Emit, Claimed
  <2>2. /\ 2 \in DOMAIN conditions /\ conditions[2].opcode = ASSERT_MY_SCRIPTPUBKEY
        /\ conditions[2].operands = <<a.my_spk>>
    BY <1>7 DEF ClaimsOwnScript, Emit
  <2>3. SelfAssertHolds(input, conditions[2])
    <3>1. input.conditions = conditions /\ StandsAlone(input)
      <4>1. StandsAlone(input)
        BY DEF IsVaultInput
      <4> QED BY <4>1, VaultInputParts
    <3>2. conditions[2].opcode \in SelfAsserts
      BY <2>2 DEF SelfAsserts
    <3> QED BY <2>2, <3>1, <3>2, StandsAloneMeans
  <2>4. a.my_spk = coin.script_pubkey
    <3>1. <<a.my_spk>> = <<input.script_pubkey>>
      BY <2>2, <2>3 DEF SelfAssertHolds, ASSERT_MY_SCRIPTPUBKEY, ASSERT_MY_OUTPOINT,
         ASSERT_MY_TXID, ASSERT_MY_AMOUNT, ASSERT_MY_TAPTREE
    <3> QED BY <3>1, VaultInputParts
  <2> QED BY <1>4, <2>1, <2>4 DEF IsCoin
<1>8. CASE ClaimsTriggered(program, a, c, conditions, k)
  <2> DEFINE t == a.order.target
             p == TriggeredProgram(program.v, t)
  <2>1. Claimed(c).script_pubkey = ScriptOf(p)
    BY <1>8 DEF ClaimsTriggered, ScriptOf, TriggeredProgram, Emit, Claimed,
       CREATE_OUTPUT, CREATE_OUTPUT_TAPROOT
  <2>2. t # NoHash /\ a.order \in Orders
    BY <1>8, SolutionParts DEF ClaimsTriggered, IsVaultInput
  <2>3. t \in Targets
    BY <2>2 DEF Targets
  <2>4. p \in Programs
    BY <1>5, <2>3 DEF Programs
  <2>5. IsWellFormed(p)
    BY <1>5, <2>2 DEF IsWellFormed, TriggeredProgram
  <2> QED BY <2>1, <2>4, <2>5 DEF HasProgram
<1>9. CASE ClaimsRevault(program, a, c)
  <2>1. program.state = "vault" /\ program.root = vault_root(program.v)
    BY <1>5, <1>9, ProgramIs DEF ClaimsRevault, TriggeredProgram
  <2>2. Claimed(c).script_pubkey = ScriptOf(program)
    BY <1>9, <2>1 DEF ClaimsRevault, ScriptOf, Emit, Claimed,
       CREATE_OUTPUT, CREATE_OUTPUT_TAPROOT
  <2> QED BY <1>5, <2>2 DEF HasProgram
<1> QED
  BY <1>3, <1>6, <1>7, <1>8, <1>9

\* What the key of a vault signed for its coin is a trigger's order or a
\* recovery.
LEMMA VaultSignature ==
    ASSUME NEW s, IsSigned(s), NEW own \in Owners(s.coin), NEW order,
           s.message = TriggerMessage(order)
    PROVE  s.order.target = order.target /\ s.order.trig_amt = order.trig_amt
<1>1. LineagesOf(s.coin) = {}
  <2>1. IsVaultScript(s.coin.script_pubkey)
    BY ProgramIs DEF Owners
  <2> QED BY <2>1, LineagesAreNoVaults DEF LineagesOf
<1>2. \A a : s.message # RecoveryMessage(a)
  BY DEF TriggerMessage, RecoveryMessage, TRIGGER_SIG_TAG, RECOVERY_SIG_TAG
<1>3. TriggerMessage(s.order) = TriggerMessage(order)
  BY <1>1, <1>2 DEF IsSigned
<1> QED
  BY <1>3 DEF TriggerMessage

\* A vault's program claims a triggered output only where its own coin was
\* signed for it.
LEMMA VaultInputIsSigned ==
    ASSUME SignaturesAreIdeal, IsFiniteSet(coins),
           NEW input, NEW coin, NEW own, NEW program, NEW a, NEW conditions,
           IsVaultInput(input, coin, own, program, a, conditions),
           \A s \in signed : IsSigned(s),
           \A s \in signed : outpoint(s.coin) = outpoint(coin) => s.coin = coin
    PROVE  SignedFor(input)
<1>1. SUFFICES ASSUME NEW k \in 1..Len(Conditions(input)), NEW v \in Instances, NEW t \in Targets,
                      NEW c, c = Conditions(input)[k], IsClaim(c),
                      Claimed(c).script_pubkey = ScriptOf(TriggeredProgram(v, t))
               PROVE  k = 4 /\ \E s \in signed : Signs(s, input, t, Claimed(c).amount)
  BY DEF SignedFor
<1>2. k \in 1..Len(conditions) /\ c = conditions[k] /\ Conditions(input) = conditions
  BY <1>1, VaultInputParts, ShortLists
<1>3. \/ ClaimsRecovery(program, a, c)
      \/ ClaimsOwnScript(program, a, c, conditions)
      \/ ClaimsTriggered(program, a, c, conditions, k)
      \/ ClaimsRevault(program, a, c)
  BY <1>1, <1>2, VaultInputParts DEF VaultList
<1>4. program \in Programs /\ program.v \in Instances /\ own \in Programs
  <2>1. program \in Programs
    BY DEF IsVaultInput
  <2> QED BY <2>1, ProgramIs, VaultInputParts
<1> DEFINE p == TriggeredProgram(v, t)
<1>5. /\ p \in Programs /\ IsVaultScript(ScriptOf(p)) /\ p.root[1] = "triggered"
      /\ ScriptOf(p) = <<"taproot", p.v.internal_key, p.root>>
  <2>1. p \in Programs /\ p.state = "triggered"
    BY DEF Programs, TriggeredProgram
  <2> HIDE DEF p
  <2> QED BY <2>1, ProgramIs
<1>6. Claimed(c).script_pubkey = ScriptOf(p)
  BY <1>1
<1> HIDE DEF p
<1>7. ~ClaimsRecovery(program, a, c)
  <2>1. SUFFICES ASSUME ClaimsRecovery(program, a, c) PROVE FALSE
    OBVIOUS
  <2>2. Claimed(c).script_pubkey = program.v.recovery_spk
    BY <2>1 DEF ClaimsRecovery, Emit, Claimed
  <2>3. IsPayable(program.v.recovery_spk)
    BY <1>4, VaultsPayDeposits
  <2> QED BY <1>1, <2>2, <2>3, PayableIs
<1>8. ~ClaimsRevault(program, a, c)
  <2>1. SUFFICES ASSUME ClaimsRevault(program, a, c) PROVE FALSE
    OBVIOUS
  <2>2. program.state = "vault" /\ program.root = vault_root(program.v)
    BY <1>4, <2>1, ProgramIs DEF ClaimsRevault, TriggeredProgram
  <2>3. Claimed(c).script_pubkey = ScriptOf(program)
    BY <2>1, <2>2 DEF ClaimsRevault, ScriptOf, Emit, Claimed,
       CREATE_OUTPUT, CREATE_OUTPUT_TAPROOT
  <2>4. /\ program.root[1] = "vault"
        /\ ScriptOf(program) = <<"taproot", program.v.internal_key, program.root>>
    BY <1>4, <2>2, ProgramIs
  <2> QED BY <1>5, <1>6, <2>3, <2>4
<1>9. ~ClaimsOwnScript(program, a, c, conditions)
  <2>1. SUFFICES ASSUME ClaimsOwnScript(program, a, c, conditions) PROVE FALSE
    OBVIOUS
  <2>2. Claimed(c).script_pubkey = a.my_spk
    BY <2>1 DEF ClaimsOwnScript, Emit, Claimed
  <2>3. /\ 1 \in DOMAIN conditions /\ 2 \in DOMAIN conditions
        /\ conditions[1].opcode = ASSERT_MY_TAPTREE
        /\ conditions[1].operands = <<program.v.internal_key, vault_root(program.v)>>
        /\ conditions[2].opcode = ASSERT_MY_SCRIPTPUBKEY
        /\ conditions[2].operands = <<a.my_spk>>
    BY <2>1 DEF ClaimsOwnScript, Emit
  <2>4. SelfAssertHolds(input, conditions[1]) /\ SelfAssertHolds(input, conditions[2])
    <3>1. StandsAlone(input)
      BY DEF IsVaultInput
    <3>2. conditions[1].opcode \in SelfAsserts /\ conditions[2].opcode \in SelfAsserts
      BY <2>3 DEF SelfAsserts
    <3> QED BY <2>3, <3>1, <3>2, StandsAloneMeans, VaultInputParts
  <2>5. /\ conditions[1].operands = <<input.internal_key, input.merkle_root>>
        /\ conditions[2].operands = <<input.script_pubkey>>
    BY <2>3, <2>4 DEF SelfAssertHolds, ASSERT_MY_SCRIPTPUBKEY, ASSERT_MY_OUTPOINT,
       ASSERT_MY_TXID, ASSERT_MY_AMOUNT, ASSERT_MY_TAPTREE
  <2>6. vault_root(program.v) = own.root /\ a.my_spk = ScriptOf(own)
    <3>1. vault_root(program.v) = input.merkle_root /\ a.my_spk = input.script_pubkey
      BY <2>3, <2>5
    <3> QED BY <3>1, VaultInputParts
  <2>7. own.root[1] = "vault"
    BY <2>6 DEF vault_root, curried_tree_hash
  <2>8. ScriptOf(own) = <<"taproot", own.v.internal_key, own.root>>
    BY <1>4, ProgramIs
  <2> QED BY <1>5, <1>6, <2>2, <2>6, <2>7, <2>8
<1>10. ClaimsTriggered(program, a, c, conditions, k)
  BY <1>3, <1>7, <1>8, <1>9
<1> DEFINE u == a.order.target
<1>11. /\ k = 4 /\ program.state = "vault" /\ u \in Targets /\ a.sig \in Signatures
       /\ Claimed(c).script_pubkey = ScriptOf(TriggeredProgram(program.v, u))
       /\ Claimed(c).amount = a.order.trig_amt
  <2>1. /\ k = 4 /\ program.state = "vault" /\ u # NoHash
        /\ a.order \in Orders /\ a.sig \in Signatures
    BY <1>10, SolutionParts DEF ClaimsTriggered, IsVaultInput
  <2>2. u \in Targets
    BY <2>1 DEF Targets
  <2>3. /\ Claimed(c).script_pubkey = ScriptOf(TriggeredProgram(program.v, u))
        /\ Claimed(c).amount = a.order.trig_amt
    BY <1>10 DEF ClaimsTriggered, ScriptOf, TriggeredProgram, Emit, Claimed,
       CREATE_OUTPUT, CREATE_OUTPUT_TAPROOT
  <2> QED BY <2>1, <2>2, <2>3
<1>12. t = u
  <2> DEFINE w == program.v
  <2>1. /\ w \in Instances /\ u \in Targets
        /\ ScriptOf(TriggeredProgram(v, t)) = ScriptOf(TriggeredProgram(w, u))
    BY <1>1, <1>4, <1>11
  <2> HIDE DEF u, w
  <2> QED BY <2>1, TriggeredScriptNames
<1>13. PICK s \in signed : /\ s.key = program.v.auth_key
                           /\ s.message = TriggerMessage(a.order)
                           /\ outpoint(s.coin) = outpoint(input)
  <2> DEFINE message == TriggerMessage(a.order)
             key == program.v.auth_key
             sig == a.sig
             d == Emit(ASSERT_SIG_MY_OUTPOINT, <<key, message, sig>>)
  <2>1. 3 \in 1..Len(Conditions(input)) /\ Conditions(input)[3] = d
    BY <1>2, <1>10 DEF ClaimsTriggered
  <2>2. /\ d.opcode \in SigOpcodes /\ d.operands[1] = key /\ d.operands[3] = sig
    BY DEF Emit, SigOpcodes, SIG_BINDINGS, ASSERT_SIG_MY_OUTPOINT, ASSERT_SIG_MY_TXID
  <2>3. StandsAlone(input)
    BY DEF IsVaultInput
  <2>4. sig \in Signatures
    BY <1>11
  <2> HIDE DEF message, key, sig
  <2>5. Verifies(key, sig_digest(d, input), sig)
    <3> HIDE DEF d
    <3> QED BY <2>1, <2>2, <2>3, StandsAloneMeans
  <2>6. \E s \in signed : s.key = key /\ s.message = message /\ outpoint(s.coin) = outpoint(input)
    BY <2>4, <2>5, SignatureMeans
  <2> QED BY <2>6 DEF message, key
<1>14. s.coin = coin /\ own \in Owners(coin) /\ coin \in coins
  <2>1. outpoint(input) = outpoint(coin)
    BY VaultInputParts
  <2> QED BY <1>13, <2>1 DEF IsVaultInput
<1>15. s.order.target = u /\ s.order.trig_amt = a.order.trig_amt
  BY <1>13, <1>14, VaultSignature
<1>16. program \in Owners(coin)
  <2>1. /\ 1 \in DOMAIN conditions /\ conditions[1].opcode = ASSERT_MY_TAPTREE
        /\ conditions[1].operands = <<program.v.internal_key, vault_root(program.v)>>
    BY <1>10 DEF ClaimsTriggered, Emit
  <2>2. SelfAssertHolds(input, conditions[1])
    <3>1. StandsAlone(input)
      BY DEF IsVaultInput
    <3>2. conditions[1].opcode \in SelfAsserts
      BY <2>1 DEF SelfAsserts
    <3> QED BY <2>1, <3>1, <3>2, StandsAloneMeans, VaultInputParts
  <2>3. conditions[1].operands = <<input.internal_key, input.merkle_root>>
    BY <2>1, <2>2 DEF SelfAssertHolds, ASSERT_MY_SCRIPTPUBKEY, ASSERT_MY_OUTPOINT,
       ASSERT_MY_TXID, ASSERT_MY_AMOUNT, ASSERT_MY_TAPTREE
  <2>4. vault_root(program.v) = own.root /\ program.v.internal_key = own.v.internal_key
    <3>1. vault_root(program.v) = input.merkle_root /\ program.v.internal_key = input.internal_key
      BY <2>1, <2>3
    <3> QED BY <3>1, VaultInputParts
  <2>5. program.root = vault_root(program.v)
    BY <1>4, <1>11, ProgramIs DEF TriggeredProgram
  <2>6. ScriptOf(program) = ScriptOf(own)
    BY <1>4, <2>4, <2>5, ProgramIs
  <2> QED BY <1>4, <2>6, VaultInputParts DEF Owners
<1> QED
  BY <1>11, <1>12, <1>13, <1>14, <1>15, <1>16 DEF Signs

-----------------------------------------------------------------------------
(* A singleton's input, and an ordinary one: they claim what anyone may pay. *)

ClaimIsPayable(c) == IsClaim(c) => IsPayable(Claimed(c).script_pubkey)
ClaimsArePayable(list) == IsList(list) /\ \A k \in 1..Len(list) : ClaimIsPayable(list[k])

\* An input that claims what anyone may pay owes no program and no signature.
LEMMA PayableIsKnown ==
    ASSUME NEW input, ClaimsArePayable(Conditions(input))
    PROVE  Backed(input) /\ SignedFor(input)
<1>1. ASSUME NEW k \in 1..Len(Conditions(input)), IsClaim(Conditions(input)[k])
      PROVE  LET script_pubkey == Claimed(Conditions(input)[k]).script_pubkey
             IN  /\ IsVaultScript(script_pubkey) => HasProgram(script_pubkey)
                 /\ \A v \in Instances, t \in Targets :
                       script_pubkey # ScriptOf(TriggeredProgram(v, t))
  <2>1. IsPayable(Claimed(Conditions(input)[k]).script_pubkey)
    BY <1>1 DEF ClaimsArePayable, ClaimIsPayable
  <2> QED BY <2>1, PayableIs
<1> QED
  BY <1>1 DEF Backed, SignedFor

\* Lists that claim what anyone may pay, joined.
LEMMA JoinIsPayable ==
    ASSUME NEW a, ClaimsArePayable(a), NEW b, ClaimsArePayable(b)
    PROVE  ClaimsArePayable(a \o b)
<1> DEFINE c == a \o b
<1>1. Joined(a, b, c) /\ IsList(c)
  BY ConcatIs DEF ClaimsArePayable, Joined
<1> HIDE DEF c
<1>2. ASSUME NEW k \in 1..Len(c) PROVE ClaimIsPayable(c[k])
  <2>1. (\E j \in 1..Len(a) : c[k] = a[j]) \/ (\E j \in 1..Len(b) : c[k] = b[j])
    BY <1>1, JoinedFrom
  <2> QED BY <2>1 DEF ClaimsArePayable
<1>3. ClaimsArePayable(c)
  BY <1>1, <1>2 DEF ClaimsArePayable
<1> QED
  BY <1>3 DEF c

\* A list of elements that s has from place m to place n.
PartOf(part, s, m, n) ==
    /\ IsList(part)
    /\ \A i \in 1..Len(part) : \E j \in m..n : j \in 1..Len(s) /\ part[i] = s[j]

\* So is the part that the library takes.
LEMMA PartIs ==
    ASSUME NEW s, IsList(s), NEW m \in Nat, NEW n \in Nat, m >= 1, n <= Len(s)
    PROVE  PartOf(SubSeq(s, m, n), s, m, n)
<1> DEFINE part == SubSeq(s, m, n)
           size == IF m <= n THEN n - m + 1 ELSE 0
<1>1. Len(s) \in Nat
  BY ListParts
<1>2. part = [i \in 1..size |-> s[m + i - 1]]
  BY <1>1
<1>3. size \in Nat
  OBVIOUS
<1>4. \A i \in 1..size : m + i - 1 \in m..n /\ m + i - 1 \in 1..Len(s)
  BY <1>1
<1> HIDE DEF size
<1>5. part = [i \in 1..size |-> part[i]]
  BY <1>2
<1>6. IsList(part) /\ Len(part) = size
  <2> HIDE DEF part
  <2> QED BY <1>3, <1>5, ListIs
<1>7. \A i \in 1..size : part[i] = s[m + i - 1]
  BY <1>2
<1> HIDE DEF part
<1>8. \A i \in 1..Len(part) : \E j \in m..n : j \in 1..Len(s) /\ part[i] = s[j]
  BY <1>4, <1>6, <1>7
<1> QED
  BY <1>6, <1>8 DEF part, PartOf

\* The wrapper replaces the one odd amount by outputs of its own.
LEMMA MorphIsPayable ==
    ASSUME NEW list, NamesPayable(list), NEW launcher, NEW my_spk, ~IsVaultScript(my_spk),
           NEW child_index, NEW rest \in morph(launcher, my_spk, child_index, list)
    PROVE  ClaimsArePayable(rest)
<1> DEFINE odd == {n \in DOMAIN list : created_amount(list[n]) % 2 = 1}
           n == CHOOSE m \in odd : TRUE
<1>1. IsList(list) /\ Len(list) \in Nat /\ DOMAIN list = 1..Len(list)
  BY ListParts DEF NamesPayable, IsList
<1>2. Cardinality(odd) = 1
  BY DEF morph
<1>3. PICK rewritten \in morph_one(launcher, my_spk, child_index, list[n]) :
         rest = SubSeq(list, 1, n - 1) \o rewritten \o SubSeq(list, n + 1, Len(list))
  BY DEF morph
<1>4. odd = {n}
  <2>1. IsFiniteSet(odd)
    <3>1. odd \in SUBSET (1..Len(list)) /\ IsFiniteSet(1..Len(list))
      BY <1>1, FS_Interval
    <3> HIDE DEF odd
    <3> QED BY <3>1, FS_Subset
  <2> HIDE DEF odd
  <2>2. \E x : odd = {x}
    BY <1>2, <2>1, FS_Singleton
  <2> QED BY <2>2
<1>5. \A m \in 1..Len(list) : m # n => ClaimIsPayable(list[m])
  <2>1. \A m \in 1..Len(list) : m # n => created_amount(list[m]) % 2 # 1
    BY <1>1, <1>4
  <2> QED BY <2>1 DEF NamesPayable, ClaimIsPayable, IsClaim
<1>6. n \in 1..Len(list)
  BY <1>1, <1>4
<1> HIDE DEF n, odd
<1>7. ASSUME NEW i \in Nat, NEW j \in Nat, i >= 1, j <= Len(list), n \notin i..j
      PROVE  ClaimsArePayable(SubSeq(list, i, j))
  <2> DEFINE part == SubSeq(list, i, j)
  <2>1. PartOf(part, list, i, j)
    BY <1>1, <1>7, PartIs
  <2> HIDE DEF part
  <2>2. \A m \in 1..Len(part) : ClaimIsPayable(part[m])
    BY <1>5, <1>7, <2>1 DEF PartOf
  <2>3. ClaimsArePayable(part)
    BY <2>1, <2>2 DEF ClaimsArePayable, PartOf
  <2> QED BY <2>3 DEF part
<1>8. ClaimsArePayable(SubSeq(list, 1, n - 1)) /\ ClaimsArePayable(SubSeq(list, n + 1, Len(list)))
  <2>1. /\ n - 1 \in Nat /\ n - 1 <= Len(list) /\ n \notin 1..(n - 1)
        /\ n + 1 \in Nat /\ n + 1 >= 1 /\ n \notin (n + 1)..Len(list)
    BY <1>1, <1>6
  <2> QED BY <1>1, <1>7, <2>1
<1>9. ClaimsArePayable(rewritten)
  <2> DEFINE amount == list[n].operands[2]
             inner == list[n].operands[1]
             state(payload) == Emit(CREATE_OUTPUT, <<state_script(launcher, payload), 0>>)
             child == Emit(CREATE_OUTPUT, <<my_spk, amount>>)
  <2>1. \A payload : ClaimIsPayable(state(payload))
    BY DEF ClaimIsPayable, IsPayable, Claimed, Emit, state_script, IsVaultScript
  <2>2. ClaimIsPayable(child)
    BY DEF ClaimIsPayable, IsPayable, Claimed, Emit
  <2>3. \/ rewritten = <<state(END_PAYLOAD)>>
        \/ rewritten = <<child, state(state_payload(inner, amount, child_index))>>
    BY <1>3 DEF morph_one
  <2> HIDE DEF state, child
  <2>4. CASE rewritten = <<state(END_PAYLOAD)>>
    <3>1. IsList(rewritten) /\ Len(rewritten) = 1 /\ rewritten[1] = state(END_PAYLOAD)
      BY <2>4, ShortLists
    <3> QED BY <2>1, <3>1 DEF ClaimsArePayable
  <2>5. CASE rewritten = <<child, state(state_payload(inner, amount, child_index))>>
    <3>1. /\ rewritten = [i \in 1..2 |-> rewritten[i]]
          /\ rewritten[1] = child
          /\ rewritten[2] = state(state_payload(inner, amount, child_index))
      BY <2>5
    <3>2. IsList(rewritten) /\ Len(rewritten) = 2
      BY <3>1, ListIs
    <3> QED BY <2>1, <2>2, <3>1, <3>2 DEF ClaimsArePayable
  <2> QED BY <2>3, <2>4, <2>5
<1> QED
  BY <1>3, <1>8, <1>9, JoinIsPayable

\* What an inner program yields: only an odd amount of its own may name a
\* script that not anyone may pay.
LEMMA InnerListsNamePayable ==
    ASSUME NEW inner, NEW list \in InnerLists(inner)
    PROVE  NamesPayable(list)
<1>1. CASE ~IsOwned(inner)
  BY <1>1, OthersPayDeposits DEF InnerLists
<1>2. CASE IsOwned(inner)
  <2>1. PICK o \in Handovers, s \in Signatures :
           list = owner_inner(inner[2], [order |-> o, sig |-> s])
    BY <1>2 DEF InnerLists
  <2> DEFINE c1 == Emit(ASSERT_SIG_MY_OUTPOINT, <<inner[2], HandoverMessage(o), s>>)
             c2 == Emit(SEAL_OUTPUTS, <<o.outputs_hash>>)
             c3 == Emit(CREATE_OUTPUT, <<o.next_inner, o.next_amount>>)
             front == <<c1, c2, c3>>
             extra == o.extra_conditions
  <2>2. list = front \o extra
    BY <2>1 DEF owner_inner
  <2>3. ~IsClaim(c1) /\ ~IsClaim(c2)
    BY AssertsClaimNothing
  <2>4. created_amount(c3) % 2 = 1
    BY HandoversAreOdd DEF created_amount, Emit, CREATE_OUTPUT, CREATE_OUTPUT_TAPROOT
  <2>5. NamesPayable(extra) /\ IsList(extra)
    BY OthersPayDeposits DEF NamesPayable, IsList
  <2> HIDE DEF c1, c2, c3, extra
  <2>6. /\ IsList(front) /\ Len(front) = 3
        /\ front[1] = c1 /\ front[2] = c2 /\ front[3] = c3
    BY ShortLists
  <2> HIDE DEF front
  <2>7. Joined(front, extra, list) /\ IsList(list)
    BY <2>2, <2>5, <2>6, ConcatIs DEF Joined
  <2>8. ASSUME NEW n \in 1..Len(list), IsClaim(list[n]), created_amount(list[n]) % 2 # 1
        PROVE  IsPayable(Claimed(list[n]).script_pubkey)
    <3>1. CASE \E j \in 1..Len(front) : list[n] = front[j]
      <4>1. list[n] \in {c1, c2, c3}
        BY <2>6, <3>1
      <4> QED BY <2>3, <2>4, <2>8, <4>1
    <3>2. CASE \E j \in 1..Len(extra) : list[n] = extra[j]
      BY <2>5, <2>8, <3>2 DEF NamesPayable, IsClaim
    <3> QED BY <2>7, <3>1, <3>2, JoinedFrom
  <2> QED BY <2>7, <2>8 DEF NamesPayable, IsClaim, IsList
<1> QED
  BY <1>1, <1>2

\* A descent that is the coin's own shows the script that the coin has.
LEMMA MyScriptIsMine ==
    ASSUME NEW coin \in coins, \A c \in coins : IsCoin(c), NEW l \in LineagesOf(coin),
           NEW p \in Proofs(l, coin)
    PROVE  MyScript(p) = LineageScript(l)
<1> DEFINE list == SelfConditions(l, p)
           input == LineageInput(l, coin, list)
           mine == Append(p.parent_tx, p.my_index)
<1>1. p \in Descents(coin) /\ StandsAlone(input)
  BY DEF Proofs
<1>2. PICK d \in coins : p.parent_tx = d.txid /\ IsFieldList(d.txid)
  BY <1>1 DEF Descents
<1>3. input.conditions = list /\ outpoint(input) = Append(coin.txid, coin.index)
  BY DEF LineageInput, ScriptInput, outpoint
<1>4. list[3] = Emit(ASSERT_MY_OUTPOINT, <<mine>>) /\ 3 \in DOMAIN list
  BY DEF SelfConditions
<1>5. list[3].opcode = ASSERT_MY_OUTPOINT /\ list[3].operands = <<mine>>
  BY <1>4 DEF Emit
<1> HIDE DEF list, input
<1>6. SelfAssertHolds(input, list[3])
  <2>1. ASSERT_MY_OUTPOINT \in SelfAsserts
    BY DEF SelfAsserts
  <2> QED BY <1>1, <1>3, <1>4, <1>5, <2>1, StandsAloneMeans
<1>7. list[3].operands = <<outpoint(input)>>
  BY <1>5, <1>6 DEF SelfAssertHolds, ASSERT_MY_SCRIPTPUBKEY, ASSERT_MY_OUTPOINT,
     ASSERT_MY_TXID, ASSERT_MY_AMOUNT, ASSERT_MY_TAPTREE
<1>8. mine = Append(coin.txid, coin.index)
  <2> HIDE DEF mine
  <2>1. <<mine>> = <<outpoint(input)>>
    BY <1>5, <1>7
  <2> QED BY <1>3, <2>1
<1>9. p.parent_tx = coin.txid /\ p.my_index = coin.index
  <2>1. IsList(p.parent_tx) /\ IsList(coin.txid)
    BY <1>2 DEF IsCoin
  <2> QED BY <1>8, <2>1, AppendKeepsApart
<1>10. MyScript(p) = coin.script_pubkey
  BY <1>2, <1>9 DEF MyScript, IsCoin
<1> QED
  BY <1>10 DEF LineagesOf

\* A singleton's input claims what anyone may pay.
LEMMA SingletonInputClaims ==
    ASSUME NEW coin \in coins, \A c \in coins : IsCoin(c), NEW l \in LineagesOf(coin),
           NEW p \in Proofs(l, coin), NEW child_index, NEW list \in InnerLists(p.inner),
           NEW rest \in morph(l, MyScript(p), child_index, list)
    PROVE  ClaimsArePayable(Conditions(LineageInput(l, coin, SelfConditions(l, p) \o rest)))
<1> DEFINE front == SelfConditions(l, p)
           input == LineageInput(l, coin, front \o rest)
<1>1. ClaimsArePayable(rest)
  <2>1. ~IsVaultScript(MyScript(p)) /\ NamesPayable(list)
    BY MyScriptIsMine, LineagesAreNoVaults, InnerListsNamePayable DEF LineagesOf
  <2> QED BY <2>1, MorphIsPayable
<1>2. ClaimsArePayable(front)
  <2> DEFINE c1 == Emit(ASSERT_MY_TAPTREE, <<INTERNAL_KEY, singleton_root(l)>>)
             c2 == Emit(ASSERT_MY_AMOUNT, <<p.my_amount>>)
             c3 == Emit(ASSERT_MY_OUTPOINT, <<Append(p.parent_tx, p.my_index)>>)
  <2>1. front = <<c1, c2, c3>>
    BY DEF SelfConditions
  <2>2. ~IsClaim(c1) /\ ~IsClaim(c2) /\ ~IsClaim(c3)
    BY AssertsClaimNothing
  <2> HIDE DEF c1, c2, c3, front
  <2>3. IsList(front) /\ Len(front) = 3 /\ front[1] = c1 /\ front[2] = c2 /\ front[3] = c3
    BY <2>1, ShortLists
  <2> QED BY <2>2, <2>3 DEF ClaimsArePayable, ClaimIsPayable
<1> HIDE DEF front
<1>3. ClaimsArePayable(front \o rest)
  BY <1>1, <1>2, JoinIsPayable
<1>4. input.conditions = front \o rest
  BY DEF LineageInput, ScriptInput
<1>5. ClaimsArePayable(<<>>)
  BY ShortLists DEF ClaimsArePayable
<1>6. ClaimsArePayable(Conditions(input))
  BY <1>3, <1>4, <1>5 DEF Conditions
<1> QED
  BY <1>6 DEF front

\* An ordinary coin's input claims nothing.
LEMMA PlainInputClaims ==
    ASSUME NEW coin
    PROVE  ClaimsArePayable(Conditions(PlainInput(coin)))
  BY ShortLists DEF ClaimsArePayable, Conditions, PlainInput

-----------------------------------------------------------------------------
(* The recovery transaction of a vault's coin. *)

\* Zeros sum to zero.
LEMMA ZerosSum ==
    ASSUME NEW a, Len(a) \in Nat, \A i \in 1..Len(a) : a[i] = 0
    PROVE  Total(0, a) = 0
<1> DEFINE n == Len(a)
           g == [i \in 0..n |-> 0]
<1>1. n \in Nat
  OBVIOUS
<1>2. Tracks(g, 0, a)
  BY DEF Tracks, IsInts
<1>3. Total(0, a) = g[n]
  <2> HIDE DEF g
  <2> QED BY <1>2, TotalIs
<1> QED
  BY <1>1, <1>3

\* One amount is its own sum.
LEMMA OneSum ==
    ASSUME NEW a, Len(a) = 1, a[1] \in Int
    PROVE  Total(0, a) = a[1]
<1> DEFINE g == [i \in 0..1 |-> IF i = 0 THEN 0 ELSE a[1]]
<1>1. Tracks(g, 0, a)
  BY DEF Tracks, IsInts
<1>2. Total(0, a) = g[1]
  <2> HIDE DEF g
  <2> QED BY <1>1, TotalIs
<1> QED
  BY <1>2

\* The conditions of a recovery, with its signature if the vault asks for one.
IsRecovery(list, key, root, script, amount, recovery_key, message, sig) ==
    \A k \in 1..Len(list) :
        \/ k = 1 /\ list[k] = Emit(ASSERT_MY_TAPTREE, <<key, root>>)
        \/ k = 2 /\ list[k] = Emit(ASSERT_MY_AMOUNT, <<amount>>)
        \/ k = 3 /\ list[k] = Emit(CREATE_OUTPUT, <<script, amount>>)
        \/ k = 4 /\ list[k] = Emit(ASSERT_SIG_MY_OUTPOINT, <<recovery_key, message, sig>>)

\* What the recovery path returns to a solution that keeps the amount.
LEMMA RecoveryReturns ==
    ASSUME NEW v, NEW root, NEW a, a.my_amt = a.recover_amt, a.my_amt \in Nat
    PROVE  \E list : /\ recovery_conditions(v, root, a) = {list} /\ IsList(list)
                     /\ IsRecovery(list, v.internal_key, root, v.recovery_spk, a.my_amt,
                                   v.recovery_key, RecoveryMessage(a), a.sig)
<1> DEFINE c1 == Emit(ASSERT_MY_TAPTREE, <<v.internal_key, root>>)
           c2 == Emit(ASSERT_MY_AMOUNT, <<a.my_amt>>)
           c3 == Emit(CREATE_OUTPUT, <<v.recovery_spk, a.recover_amt>>)
           c4 == Emit(ASSERT_SIG_MY_OUTPOINT, <<v.recovery_key, RecoveryMessage(a), a.sig>>)
           front == <<c1, c2, c3>>
           back == IF v.recovery_key = NoKey THEN <<>> ELSE <<c4>>
           list == front \o back
<1>1. recovery_conditions(v, root, a) = {list}
  BY DEF recovery_conditions
<1>2. /\ c1 = Emit(ASSERT_MY_TAPTREE, <<v.internal_key, root>>)
      /\ c2 = Emit(ASSERT_MY_AMOUNT, <<a.my_amt>>)
      /\ c3 = Emit(CREATE_OUTPUT, <<v.recovery_spk, a.my_amt>>)
      /\ c4 = Emit(ASSERT_SIG_MY_OUTPOINT, <<v.recovery_key, RecoveryMessage(a), a.sig>>)
  OBVIOUS
<1> HIDE DEF c1, c2, c3, c4
<1>3. IsList(front) /\ Len(front) = 3 /\ front[1] = c1 /\ front[2] = c2 /\ front[3] = c3
  BY ShortLists
<1>4. IsList(back) /\ Len(back) \in 0..1 /\ \A j \in 1..Len(back) : back[j] = c4
  <2>1. IsList(<<>>) /\ Len(<<>>) = 0 /\ IsList(<<c4>>) /\ Len(<<c4>>) = 1 /\ <<c4>>[1] = c4
    BY ShortLists
  <2>2. CASE v.recovery_key = NoKey
    BY <2>1, <2>2
  <2>3. CASE v.recovery_key # NoKey
    <3>1. back = <<c4>>
      BY <2>3
    <3> HIDE DEF back
    <3> QED BY <2>1, <3>1
  <2> QED BY <2>2, <2>3
<1> HIDE DEF front, back
<1>5. Joined(front, back, list)
  BY <1>3, <1>4, ConcatIs
<1> HIDE DEF list
<1>6. ASSUME NEW k \in 1..Len(list)
      PROVE  \/ k = 1 /\ list[k] = c1
             \/ k = 2 /\ list[k] = c2
             \/ k = 3 /\ list[k] = c3
             \/ k = 4 /\ list[k] = c4
  <2>1. /\ Len(list) = 3 + Len(back) /\ Len(back) \in 0..1
        /\ list[k] = IF k <= 3 THEN front[k] ELSE back[k - 3]
    BY <1>3, <1>4, <1>5 DEF Joined
  <2>2. CASE k <= 3
    <3>1. k \in {1, 2, 3} /\ list[k] = front[k]
      BY <2>1, <2>2
    <3> QED BY <1>3, <3>1
  <2>3. CASE ~(k <= 3)
    <3>1. k = 4 /\ 1 \in 1..Len(back) /\ list[k] = back[1]
      BY <2>1, <2>3
    <3> QED BY <1>4, <3>1
  <2> QED BY <2>2, <2>3
<1>7. IsRecovery(list, v.internal_key, root, v.recovery_spk, a.my_amt,
                 v.recovery_key, RecoveryMessage(a), a.sig)
  BY <1>2, <1>6 DEF IsRecovery
<1> QED
  BY <1>1, <1>5, <1>7 DEF Joined

\* A transaction of one recovery and its output.
RecoversAlone(tx, input, script, key, message, sig) ==
    /\ HasOneInput(tx, input) /\ IsTxInput(input)
    /\ tx.outputs = <<[script_pubkey |-> script, amount |-> input.amount]>>
    /\ tx.version = 2 /\ tx.locktime = 0
    /\ IsList(Conditions(input))
    /\ IsRecovery(Conditions(input), input.internal_key, input.merkle_root, script,
                  input.amount, key, message, sig)
    /\ Verifies(key, sig_digest(Emit(ASSERT_SIG_MY_OUTPOINT, <<key, message, sig>>), input), sig)

\* It keeps all of its value.
LEMMA RecoveryTotals ==
    ASSUME NEW tx, NEW input, NEW script, NEW key, NEW message, NEW sig,
           RecoversAlone(tx, input, script, key, message, sig)
    PROVE  /\ Len(tx.outputs) = 1
           /\ tx.outputs[1] = [script_pubkey |-> script, amount |-> input.amount]
           /\ input.amount \in 0..MAX_MONEY
           /\ InputTotal(tx) = input.amount /\ OutputTotal(tx) = input.amount
<1>1. /\ Len(tx.outputs) = 1
      /\ tx.outputs[1] = [script_pubkey |-> script, amount |-> input.amount]
      /\ Len(tx.inputs) = 1 /\ tx.inputs[1] = input
      /\ input.amount \in 0..MAX_MONEY
  BY ShortLists DEF RecoversAlone, HasOneInput, IsTxInput
<1>2. input.amount \in Int
  BY <1>1, LimitsAreNat
<1>3. InputTotal(tx) = input.amount
  <2> DEFINE a == [i \in 1..Len(tx.inputs) |-> tx.inputs[i].amount]
  <2>1. Len(a) = 1 /\ a[1] = input.amount
    BY <1>1
  <2> HIDE DEF a
  <2>2. Total(0, a) = input.amount
    BY <1>2, <2>1, OneSum
  <2> QED BY <2>2 DEF InputTotal, a
<1>4. OutputTotal(tx) = input.amount
  <2> DEFINE a == [j \in 1..Len(tx.outputs) |-> tx.outputs[j].amount]
  <2>1. Len(a) = 1 /\ a[1] = input.amount
    BY <1>1
  <2> HIDE DEF a
  <2>2. Total(0, a) = input.amount
    BY <1>2, <2>1, OneSum
  <2> QED BY <2>2 DEF OutputTotal, a
<1> QED
  BY <1>1, <1>3, <1>4

\* The constructor admits it.
LEMMA RecoveryIsATransaction ==
    ASSUME NEW tx, NEW input, NEW script, NEW key, NEW message, NEW sig,
           RecoversAlone(tx, input, script, key, message, sig)
    PROVE  IsTransaction(tx)
<1>1. tx.version \in 0..UINT32_MAX /\ tx.locktime \in 0..UINT32_MAX
  BY LimitsAreNat, VersionFits DEF RecoversAlone
<1>2. /\ Len(tx.inputs) = 1 /\ tx.inputs[1] = input /\ IsTxInput(input)
      /\ Len(tx.outputs) = 1
      /\ tx.outputs[1] = [script_pubkey |-> script, amount |-> input.amount]
      /\ input.amount \in 0..MAX_MONEY
  BY RecoveryTotals DEF RecoversAlone, HasOneInput
<1>3. tx.inputs # <<>> /\ tx.outputs # <<>>
  BY <1>2, ShortLists
<1>4. \A i \in 1..Len(tx.inputs) : IsTxInput(tx.inputs[i])
  BY <1>2
<1>5. \A j \in 1..Len(tx.outputs) : IsTxOutput(tx.outputs[j])
  <2>1. IsTxOutput([script_pubkey |-> script, amount |-> input.amount])
    BY <1>2 DEF IsTxOutput
  <2> QED BY <1>2, <2>1
<1>6. DistinctOutpoints(tx)
  BY <1>2 DEF DistinctOutpoints
<1>7. ConservesValue(tx)
  BY <1>2, RecoveryTotals, LimitsAreNat DEF ConservesValue
<1> QED
  BY <1>1, <1>3, <1>4, <1>5, <1>6, <1>7 DEF IsTransaction

\* The four conditions that its places hold.
LEMMA RecoveryPlaces ==
    ASSUME NEW tx, NEW input, NEW script, NEW key, NEW message, NEW sig,
           RecoversAlone(tx, input, script, key, message, sig), NEW p \in Places(tx)
    PROVE  /\ Input(tx, p) = input /\ p = <<1, p[2]>>
           /\ \/ p = <<1, 1>> /\ Condition(tx, p) =
                     Emit(ASSERT_MY_TAPTREE, <<input.internal_key, input.merkle_root>>)
              \/ p = <<1, 2>> /\ Condition(tx, p) = Emit(ASSERT_MY_AMOUNT, <<input.amount>>)
              \/ p = <<1, 3>> /\ Condition(tx, p) = Emit(CREATE_OUTPUT, <<script, input.amount>>)
              \/ p = <<1, 4>> /\ Condition(tx, p) =
                     Emit(ASSERT_SIG_MY_OUTPOINT, <<key, message, sig>>)
<1>1. PICK k \in 1..Len(Conditions(input)) : p = <<1, k>>
  BY DEF RecoversAlone, HasOneInput
<1>2. Input(tx, <<1, k>>) = input /\ Condition(tx, <<1, k>>) = Conditions(input)[k]
  BY DEF RecoversAlone, HasOneInput
<1>3. IsRecovery(Conditions(input), input.internal_key, input.merkle_root, script,
                  input.amount, key, message, sig)
  BY DEF RecoversAlone
<1> QED
  BY <1>1, <1>2, <1>3 DEF IsRecovery

\* And validation accepts it.
LEMMA RecoveryIsValid ==
    ASSUME NEW tx, NEW input, NEW script, NEW key, NEW message, NEW sig,
           RecoversAlone(tx, input, script, key, message, sig)
    PROVE  IsValid(tx)
<1> DEFINE c1 == Emit(ASSERT_MY_TAPTREE, <<input.internal_key, input.merkle_root>>)
           c2 == Emit(ASSERT_MY_AMOUNT, <<input.amount>>)
           c3 == Emit(CREATE_OUTPUT, <<script, input.amount>>)
           c4 == Emit(ASSERT_SIG_MY_OUTPOINT, <<key, message, sig>>)
           slot == [script_pubkey |-> script, amount |-> input.amount]
<1>1. ASSUME NEW p \in Places(tx)
      PROVE  /\ Input(tx, p) = input
             /\ \/ p = <<1, 1>> /\ Condition(tx, p) = c1
                \/ p = <<1, 2>> /\ Condition(tx, p) = c2
                \/ p = <<1, 3>> /\ Condition(tx, p) = c3
                \/ p = <<1, 4>> /\ Condition(tx, p) = c4
  BY RecoveryPlaces
<1>2. /\ c1.opcode = ASSERT_MY_TAPTREE /\ c1.operands = <<input.internal_key, input.merkle_root>>
      /\ c2.opcode = ASSERT_MY_AMOUNT /\ c2.operands = <<input.amount>>
      /\ c3.opcode = CREATE_OUTPUT /\ Claimed(c3) = slot
      /\ c4.opcode = ASSERT_SIG_MY_OUTPOINT
      /\ c4.operands[1] = key /\ c4.operands[3] = sig
      /\ Verifies(key, sig_digest(c4, input), sig)
  BY DEF Emit, Claimed, RecoversAlone
<1>3. /\ Len(tx.outputs) = 1 /\ tx.outputs[1] = slot
      /\ input.amount \in 0..MAX_MONEY
      /\ InputTotal(tx) = input.amount /\ OutputTotal(tx) = input.amount
  BY RecoveryTotals
<1> HIDE DEF c1, c2, c3, c4, slot
<1>4. \A p \in Places(tx) : Condition(tx, p).opcode \in
         {ASSERT_MY_TAPTREE, ASSERT_MY_AMOUNT, CREATE_OUTPUT, ASSERT_SIG_MY_OUTPOINT}
  BY <1>1, <1>2
<1>5. check_self_asserts(tx) = Valid
  <2>1. SelfAssertHolds(input, c1) /\ SelfAssertHolds(input, c2)
    BY <1>2 DEF SelfAssertHolds, ASSERT_MY_SCRIPTPUBKEY, ASSERT_MY_OUTPOINT,
       ASSERT_MY_TXID, ASSERT_MY_AMOUNT, ASSERT_MY_TAPTREE
  <2>2. c3.opcode \notin SelfAsserts /\ c4.opcode \notin SelfAsserts
    BY <1>2 DEF SelfAsserts, ASSERT_MY_SCRIPTPUBKEY, ASSERT_MY_OUTPOINT,
       ASSERT_MY_TXID, ASSERT_MY_AMOUNT, ASSERT_MY_TAPTREE, CREATE_OUTPUT, ASSERT_SIG_MY_OUTPOINT
  <2>3. FailedSelfAsserts(tx) = {}
    BY <1>1, <2>1, <2>2 DEF FailedSelfAsserts, PlacesOf
  <2> QED BY <2>3 DEF check_self_asserts
<1>6. check_output_claims(tx) = Valid
  <2>1. \A p \in Claims(tx) : p = <<1, 3>> /\ Condition(tx, p) = c3
    BY <1>1, <1>2 DEF Claims, PlacesOf, CREATE_OUTPUT, CREATE_OUTPUT_TAPROOT,
       ASSERT_MY_TAPTREE, ASSERT_MY_AMOUNT, ASSERT_SIG_MY_OUTPOINT
  <2>2. ASSUME NEW p \in Claims(tx)
        PROVE  Cardinality(ClaimsOf(tx, slot)) <= Cardinality(SlotsOf(tx, slot))
    <3>1. ClaimsOf(tx, slot) = {<<1, 3>>}
      BY <1>2, <2>1, <2>2 DEF ClaimsOf
    <3>2. SlotsOf(tx, slot) = {1}
      BY <1>3 DEF SlotsOf
    <3>3. Cardinality({<<1, 3>>}) = 1 /\ Cardinality({1}) = 1
      BY FS_Singleton
    <3> QED BY <3>1, <3>2, <3>3
  <2>3. OutputClaimsHold(tx)
    BY <1>2, <2>1, <2>2 DEF OutputClaimsHold
  <2> QED BY <2>3 DEF check_output_claims, Checked
<1>7. check_time_asserts(tx) = Valid
  <2>1. \A p \in Places(tx) : Condition(tx, p).opcode \notin
           {ASSERT_LOCKTIME_HEIGHT, ASSERT_LOCKTIME_TIME,
            ASSERT_SEQUENCE_HEIGHT, ASSERT_SEQUENCE_TIME}
    BY <1>4 DEF ASSERT_LOCKTIME_HEIGHT, ASSERT_LOCKTIME_TIME,
       ASSERT_SEQUENCE_HEIGHT, ASSERT_SEQUENCE_TIME,
       ASSERT_MY_TAPTREE, ASSERT_MY_AMOUNT, CREATE_OUTPUT, ASSERT_SIG_MY_OUTPOINT
  <2>2. \A p \in FailedTimeAsserts(tx) : p \in Places(tx)
    BY DEF FailedTimeAsserts
  <2>3. \A p \in FailedTimeAsserts(tx) : Condition(tx, p).opcode \in
           {ASSERT_LOCKTIME_HEIGHT, ASSERT_LOCKTIME_TIME,
            ASSERT_SEQUENCE_HEIGHT, ASSERT_SEQUENCE_TIME}
    BY DEF FailedTimeAsserts
  <2>4. FailedTimeAsserts(tx) = {}
    BY <2>1, <2>2, <2>3
  <2> QED BY <2>4 DEF check_time_asserts
<1>8. check_messages(tx) = Valid /\ check_announcements(tx) = Valid /\ check_seals(tx) = Valid
  <2>1. /\ PlacesOf(tx, {ASSURE, REQUIRE}) = {} /\ PlacesOf(tx, {ASSERT_ANNOUNCEMENT}) = {}
        /\ PlacesOf(tx, {SEAL, SEAL_OUTPUTS}) = {}
    BY <1>4 DEF PlacesOf, ASSURE, REQUIRE, ASSERT_ANNOUNCEMENT, SEAL, SEAL_OUTPUTS,
       ASSERT_MY_TAPTREE, ASSERT_MY_AMOUNT, CREATE_OUTPUT, ASSERT_SIG_MY_OUTPOINT
  <2>2. MessagesBalance(tx) /\ AnnouncementsHold(tx) /\ SealsHold(tx)
    BY <2>1 DEF MessagesBalance, AnnouncementsHold, SealsHold
  <2> QED BY <2>2 DEF check_messages, check_announcements, check_seals, Checked
<1>9. check_fee_reserve(tx) = Valid
  <2> DEFINE reserves == [k \in 1..Len(Conditions(input)) |-> Reserve(Conditions(input)[k])]
             all == [i \in 1..Len(tx.inputs) |-> InputReserve(tx.inputs[i])]
  <2>1. \A k \in 1..Len(Conditions(input)) : Reserve(Conditions(input)[k]) = 0
    <3>1. \A k \in 1..Len(Conditions(input)) :
             <<1, k>> \in Places(tx) /\ Condition(tx, <<1, k>>) = Conditions(input)[k]
      BY DEF RecoversAlone, HasOneInput
    <3>2. \A k \in 1..Len(Conditions(input)) : Conditions(input)[k].opcode \in
             {ASSERT_MY_TAPTREE, ASSERT_MY_AMOUNT, CREATE_OUTPUT, ASSERT_SIG_MY_OUTPOINT}
      BY <1>4, <3>1
    <3>3. RESERVE_FEE \notin
             {ASSERT_MY_TAPTREE, ASSERT_MY_AMOUNT, CREATE_OUTPUT, ASSERT_SIG_MY_OUTPOINT}
      BY DEF RESERVE_FEE, ASSERT_MY_TAPTREE, ASSERT_MY_AMOUNT, CREATE_OUTPUT,
         ASSERT_SIG_MY_OUTPOINT
    <3>4. \A k \in 1..Len(Conditions(input)) : Conditions(input)[k].opcode # RESERVE_FEE
      BY <3>2, <3>3
    <3> QED BY <3>4 DEF Reserve
  <2>2. Len(Conditions(input)) \in Nat
    BY ListParts DEF RecoversAlone
  <2>3. Len(reserves) \in Nat /\ \A k \in 1..Len(reserves) : reserves[k] = 0
    BY <2>1, <2>2
  <2>4. InputReserve(input) = 0
    <3> HIDE DEF reserves
    <3>1. Total(0, reserves) = 0
      BY <2>3, ZerosSum
    <3> QED BY <3>1 DEF InputReserve, reserves
  <2>5. Len(tx.inputs) = 1 /\ tx.inputs[1] = input
    BY DEF RecoversAlone, HasOneInput
  <2>6. Len(all) = 1 /\ all[1] = 0
    BY <2>4, <2>5
  <2>7. ReserveTotal(tx) = 0
    <3> HIDE DEF all
    <3>1. Total(0, all) = 0
      BY <2>6, OneSum
    <3> QED BY <3>1 DEF ReserveTotal, all
  <2>8. FeeCoversReserves(tx)
    BY <1>3, <2>7, LimitsAreNat DEF FeeCoversReserves, Fee
  <2> QED BY <2>8 DEF check_fee_reserve, Checked
<1>10. check_signature_asserts(tx) = Valid
  <2>1. \A p \in PlacesOf(tx, SigOpcodes) : Condition(tx, p) = c4 /\ Input(tx, p) = input
    BY <1>1, <1>2 DEF PlacesOf, SigOpcodes, SIG_BINDINGS, ASSERT_SIG_MY_TXID,
       ASSERT_MY_TAPTREE, ASSERT_MY_AMOUNT, CREATE_OUTPUT, ASSERT_SIG_MY_OUTPOINT
  <2>2. SignaturesHold(tx)
    BY <1>2, <2>1 DEF SignaturesHold
  <2> QED BY <2>2 DEF check_signature_asserts, Checked
<1> DEFINE v == Verdicts(tx)
<1>11. DOMAIN v = 1..8 /\ \A n \in 1..8 : v[n] = Valid
  <2>1. v = <<Valid, Valid, Valid, Valid, Valid, Valid, Valid, Valid>>
    BY <1>5, <1>6, <1>7, <1>8, <1>9, <1>10 DEF Verdicts
  <2> QED BY <2>1
<1>12. validate_transaction(tx) = Valid
  <2> HIDE DEF v
  <2>1. {n \in DOMAIN v : v[n] # Valid} = {}
    BY <1>11
  <2> QED BY <2>1 DEF validate_transaction, FirstRaised, v
<1> QED
  BY <1>12 DEF IsValid

\* A vault's coin of a well-formed program can be recovered alone, with the
\* signature that its recovery key makes.
LEMMA CoinCanBeRecovered ==
    ASSUME SignaturesAreIdeal, NEW c, IsCoin(c), IsVaultScript(c.script_pubkey)
    PROVE  \E p \in Owners(c) : \E tx \in RecoveryTx(c, p) : IsTransaction(tx) /\ IsValid(tx)
<1>1. PICK p \in Programs : ScriptOf(p) = c.script_pubkey /\ IsWellFormed(p)
  BY DEF IsCoin, HasProgram
<1>2. p \in Owners(c) /\ NotBitLisp \notin {p.v.internal_key, p.root}
  BY <1>1, ProgramIs DEF Owners
<1> DEFINE v == p.v
           amounts == [my_amt |-> c.amount, recover_amt |-> c.amount]
           s == [key |-> v.recovery_key, coin |-> c, message |-> RecoveryMessage(amounts)]
           sig == Signature(s)
           a == [path |-> RECOVER_PATH, my_amt |-> c.amount, recover_amt |-> c.amount,
                 sig |-> sig]
           message == RecoveryMessage(a)
           outputs == <<[script_pubkey |-> v.recovery_spk, amount |-> c.amount]>>
<1>3. c.amount \in 0..MAX_MONEY /\ c.amount \in Nat /\ c.index \in 0..UINT32_MAX
  BY LimitsAreNat DEF IsCoin
<1>4. /\ a.my_amt = c.amount /\ a.recover_amt = c.amount /\ a.path = RECOVER_PATH
      /\ a.sig = sig /\ message = RecoveryMessage(amounts)
  BY DEF RecoveryMessage
<1>5. s.key = v.recovery_key /\ s.coin = c /\ s.message = message
  BY <1>4
<1> HIDE DEF a, s
<1>6. PICK list : /\ recovery_conditions(v, p.root, a) = {list} /\ IsList(list)
                  /\ IsRecovery(list, v.internal_key, p.root, v.recovery_spk, c.amount,
                                v.recovery_key, message, sig)
  <2>1. a.my_amt = a.recover_amt /\ a.my_amt \in Nat
    BY <1>3, <1>4
  <2>2. \E l : /\ recovery_conditions(v, p.root, a) = {l} /\ IsList(l)
               /\ IsRecovery(l, v.internal_key, p.root, v.recovery_spk, a.my_amt,
                             v.recovery_key, RecoveryMessage(a), a.sig)
    BY <2>1, RecoveryReturns
  <2> QED BY <1>4, <2>2
<1>7. Run(p, a) = {list}
  <2>1. \/ p.state = "vault" /\ p.root = vault_root(v)
        \/ p.state = "triggered"
    BY ProgramIs
  <2>2. Run(p, a) = recovery_conditions(v, p.root, a)
    BY <1>1, <1>4, <2>1 DEF Run, TRIGGER_PATH, RECOVER_PATH, FOLLOW_PATH, LEAD_PATH,
       WITHDRAW_PATH
  <2> QED BY <1>6, <2>2
<1> DEFINE input == ScriptInput(c, v.internal_key, p.root, 0, list)
           tx == Tx({input}, outputs)
<1>8. /\ input.index = c.index /\ input.amount = c.amount /\ input.sequence = 0
      /\ input.internal_key = v.internal_key /\ input.merkle_root = p.root
      /\ input.tapleaf = p.root /\ input.conditions = list /\ input.txid = c.txid
      /\ DOMAIN input = InputFields
  BY DEF ScriptInput, InputFields
<1>9. /\ tx.outputs = <<[script_pubkey |-> v.recovery_spk, amount |-> input.amount]>>
      /\ tx.version = 2 /\ tx.locktime = 0 /\ HasOneInput(tx, input)
  BY <1>8, OneInput DEF Tx
<1>10. tx \in RecoveryTx(c, p)
  BY <1>7 DEF RecoveryTx, a, s
<1> HIDE DEF input, tx, outputs, message
<1>11. IsTxInput(input)
  BY <1>2, <1>3, <1>8, LimitsAreNat DEF IsTxInput
<1>12. IsList(Conditions(input)) /\ Conditions(input) \in {<<>>, list}
  BY <1>6, <1>8, ShortLists DEF Conditions
<1>13. IsRecovery(Conditions(input), v.internal_key, p.root, v.recovery_spk, c.amount,
                  v.recovery_key, message, sig)
  BY <1>6, <1>12, ShortLists DEF IsRecovery
<1>14. Verifies(v.recovery_key,
                sig_digest(Emit(ASSERT_SIG_MY_OUTPOINT, <<v.recovery_key, message, sig>>), input),
                sig)
  <2>1. outpoint(input) = outpoint(c)
    BY <1>8 DEF outpoint
  <2>2. sig_digest(Emit(ASSERT_SIG_MY_OUTPOINT, <<v.recovery_key, message, sig>>), input)
          = <<ASSERT_SIG_MY_OUTPOINT, <<outpoint(input)>>, message>>
    BY OutpointDigest
  <2>3. sig = <<s.key, <<ASSERT_SIG_MY_OUTPOINT, <<outpoint(s.coin)>>, s.message>>>>
    BY OutpointDigest DEF Signature
  <2>4. sig = <<v.recovery_key, <<ASSERT_SIG_MY_OUTPOINT, <<outpoint(input)>>, message>>>>
    BY <1>5, <2>1, <2>3
  <2> QED BY <2>2, <2>4 DEF SignaturesAreIdeal
<1>15. RecoversAlone(tx, input, v.recovery_spk, v.recovery_key, message, sig)
  BY <1>8, <1>9, <1>11, <1>12, <1>13, <1>14 DEF RecoversAlone
<1>16. IsTransaction(tx) /\ IsValid(tx)
  BY <1>15, RecoveryIsATransaction, RecoveryIsValid
<1> QED
  BY <1>2, <1>10, <1>16

-----------------------------------------------------------------------------
(* The places of the joined inputs, and the outputs for their claims. *)

\* The image of a finite set is finite.
LEMMA ImageIsFinite ==
    ASSUME NEW T, IsFiniteSet(T), NEW f, DOMAIN f = T
    PROVE  IsFiniteSet({f[x] : x \in T})
<1> DEFINE U == {f[x] : x \in T}
           g == [x \in T |-> f[x]]
<1>1. g \in Surjection(T, U)
  BY DEF Surjection
<1> QED
  BY <1>1, FS_Surjection

\* Inputs whose conditions are lists.
AreInputs(inputs) == IsFiniteSet(inputs) /\ \A input \in inputs : IsList(Conditions(input))

\* A transaction of these inputs, each once.
HasInputs(tx, inputs) ==
    /\ IsOrderOf(tx.inputs, inputs)
    /\ IsFiniteSet(Places(tx))
    /\ \A p \in Places(tx) :
          /\ p[1] \in 1..Len(tx.inputs) /\ tx.inputs[p[1]] \in inputs
          /\ p = <<p[1], p[2]>>
          /\ p[2] \in 1..Len(Conditions(tx.inputs[p[1]]))
          /\ Condition(tx, p) = Conditions(tx.inputs[p[1]])[p[2]]

\* So is the one that anyone assembles.
LEMMA AssembledHasInputs ==
    ASSUME NEW inputs, AreInputs(inputs), NEW outputs
    PROVE  HasInputs(Tx(inputs, outputs), inputs)
<1> DEFINE tx == Tx(inputs, outputs)
           n == Len(tx.inputs)
           line(i) == 1..Len(Conditions(tx.inputs[i]))
           row(i) == {<<i, k>> : k \in line(i)}
           rows == [i \in 1..n |-> row(i)]
<1>1. IsOrderOf(tx.inputs, inputs)
  <2>1. tx.inputs = S!SetToSeq(inputs)
    BY DEF Tx
  <2>2. IsOrderOf(S!SetToSeq(inputs), inputs)
    BY OrderOf DEF AreInputs
  <2> HIDE DEF tx
  <2> QED BY <2>1, <2>2
<1> HIDE DEF tx
<1>2. n \in Nat /\ \A i \in 1..n : tx.inputs[i] \in inputs
  BY <1>1 DEF IsOrderOf
<1>3. \A i \in 1..n : Len(Conditions(tx.inputs[i])) \in Nat
  BY <1>2, ListParts DEF AreInputs
<1>4. Places(tx) = UNION {row(i) : i \in 1..n}
  BY DEF Places
<1>5. ASSUME NEW i \in 1..n PROVE IsFiniteSet(row(i))
  <2> DEFINE f == [k \in line(i) |-> <<i, k>>]
  <2>1. IsFiniteSet(line(i))
    BY <1>3, FS_Interval
  <2>2. row(i) = {f[k] : k \in line(i)} /\ DOMAIN f = line(i)
    OBVIOUS
  <2> HIDE DEF row, f, line
  <2> QED BY <2>1, <2>2, ImageIsFinite
<1>6. IsFiniteSet(Places(tx))
  <2>1. {rows[i] : i \in 1..n} = {row(i) : i \in 1..n} /\ DOMAIN rows = 1..n
    OBVIOUS
  <2>2. IsFiniteSet(1..n)
    BY <1>2, FS_Interval
  <2> HIDE DEF rows, row
  <2>3. IsFiniteSet({row(i) : i \in 1..n})
    BY <2>1, <2>2, ImageIsFinite
  <2>4. \A r \in {row(i) : i \in 1..n} : IsFiniteSet(r)
    BY <1>5
  <2> QED BY <1>4, <2>3, <2>4, FS_UNION
<1>7. ASSUME NEW p \in Places(tx)
      PROVE  /\ p[1] \in 1..n /\ tx.inputs[p[1]] \in inputs
             /\ p = <<p[1], p[2]>>
             /\ p[2] \in 1..Len(Conditions(tx.inputs[p[1]]))
             /\ Condition(tx, p) = Conditions(tx.inputs[p[1]])[p[2]]
  <2>1. PICK i \in 1..n : p \in row(i)
    BY <1>4
  <2>2. PICK k \in line(i) : p = <<i, k>>
    BY <2>1
  <2>3. p[1] = i /\ p[2] = k
    BY <2>2
  <2> QED BY <1>2, <2>2, <2>3 DEF Condition
<1>8. HasInputs(tx, inputs)
  BY <1>1, <1>6, <1>7 DEF HasInputs
<1> QED
  BY <1>8 DEF tx

\* Outputs for these claims of the transaction, each once.
AreOutputsFor(outputs, tx, claims) ==
    /\ IsList(outputs)
    /\ \E order : /\ IsOrderOf(order, claims) /\ Len(outputs) = Len(order)
                  /\ \A n \in 1..Len(outputs) : outputs[n] = Claimed(Condition(tx, order[n]))

\* So are the ones that the assembler considers.
LEMMA OutputsForAre ==
    ASSUME NEW tx, IsFiniteSet(Places(tx)), NEW claims \in SUBSET Claims(tx)
    PROVE  AreOutputsFor(OutputsFor(tx, claims), tx, claims)
<1> DEFINE order == S!SetToSeq(claims)
           outputs == OutputsFor(tx, claims)
<1>1. IsOrderOf(order, claims)
  <2>1. claims \in SUBSET Places(tx)
    BY DEF Claims, PlacesOf
  <2>2. IsFiniteSet(claims)
    BY <2>1, FS_Subset
  <2> QED BY <2>2, OrderOf
<1>2. outputs = [n \in 1..Len(order) |-> Claimed(Condition(tx, order[n]))]
  BY DEF OutputsFor
<1> HIDE DEF order, outputs
<1>3. Len(order) \in Nat
  BY <1>1 DEF IsOrderOf
<1>4. outputs = [n \in 1..Len(order) |-> outputs[n]]
  BY <1>2
<1>5. IsList(outputs) /\ Len(outputs) = Len(order)
  BY <1>3, <1>4, ListIs
<1>6. AreOutputsFor(outputs, tx, claims)
  BY <1>1, <1>2, <1>5 DEF AreOutputsFor
<1> QED
  BY <1>6 DEF outputs

\* Every output that not anyone may pay is one that an input claims.
OnlyClaimsPay(outputs, tx) ==
    /\ IsList(outputs)
    /\ \A j \in 1..Len(outputs) :
          \/ IsPayable(outputs[j].script_pubkey)
          \/ \E p \in Claims(tx) : outputs[j] = Claimed(Condition(tx, p))

\* Outputs that anyone may pay.
OutputsArePayable(outputs) ==
    /\ IsList(outputs)
    /\ \A j \in 1..Len(outputs) : IsPayable(outputs[j].script_pubkey)

\* Lists of such outputs, joined.
LEMMA JoinPays ==
    ASSUME NEW tx, NEW a, OnlyClaimsPay(a, tx), NEW b, OnlyClaimsPay(b, tx)
    PROVE  OnlyClaimsPay(a \o b, tx)
<1> DEFINE c == a \o b
<1>1. Joined(a, b, c) /\ IsList(c)
  BY ConcatIs DEF OnlyClaimsPay, Joined
<1> HIDE DEF c
<1>2. ASSUME NEW j \in 1..Len(c), ~IsPayable(c[j].script_pubkey)
      PROVE  \E p \in Claims(tx) : c[j] = Claimed(Condition(tx, p))
  <2>1. \/ \E i \in 1..Len(a) : c[j] = a[i]
        \/ \E i \in 1..Len(b) : c[j] = b[i]
    BY <1>1, JoinedFrom
  <2> QED BY <1>2, <2>1 DEF OnlyClaimsPay
<1>3. OnlyClaimsPay(c, tx)
  BY <1>1, <1>2 DEF OnlyClaimsPay
<1> QED
  BY <1>3 DEF c

\* The outputs that a vault's assembler considers: for some of the claims, or a
\* target's, which anyone may pay.
LEMMA VaultSlotsAre ==
    ASSUME NEW inputs, AreInputs(inputs), NEW outputs \in VaultSlots(inputs)
    PROVE  \/ OutputsArePayable(outputs)
           \/ \E some \in SUBSET Claims(Tx(inputs, <<>>)) :
                 AreOutputsFor(outputs, Tx(inputs, <<>>), some)
<1> DEFINE tx == Tx(inputs, <<>>)
           slots(target) == [j \in 1..Len(target) |->
                                [amount |-> target[j][1], script_pubkey |-> target[j][2]]]
<1>1. IsFiniteSet(Places(tx))
  BY AssembledHasInputs DEF HasInputs
<1>2. CASE \E some \in SUBSET Claims(tx) : outputs = OutputsFor(tx, some)
  <2> HIDE DEF tx
  <2> QED BY <1>1, <1>2, OutputsForAre DEF tx
<1>3. CASE \E target \in Targets : outputs = slots(target)
  <2>1. PICK target \in Targets : outputs = slots(target)
    BY <1>3
  <2>2. IsList(target) /\ \A j \in 1..Len(target) : IsPayable(target[j][2])
    BY VaultsPayDeposits DEF IsList
  <2>3. Len(target) \in Nat
    BY <2>2, ListParts
  <2>4. /\ outputs = [j \in 1..Len(target) |-> outputs[j]]
        /\ \A j \in 1..Len(target) : outputs[j].script_pubkey = target[j][2]
    BY <2>1
  <2>5. IsList(outputs) /\ Len(outputs) = Len(target)
    BY <2>3, <2>4, ListIs
  <2> QED BY <2>2, <2>4, <2>5 DEF OutputsArePayable
<1> QED
  BY <1>2, <1>3 DEF VaultSlots

\* The outputs of a transaction of singletons: what it claims, and a payment.
LEMMA LineageSlotsAre ==
    ASSUME NEW inputs, AreInputs(inputs), NEW outputs \in LineageSlots(inputs)
    PROVE  OnlyClaimsPay(outputs, Tx(inputs, <<>>))
<1> DEFINE tx == Tx(inputs, <<>>)
           claimed == ClaimedBy(inputs)
           m == Len(claimed)
           orders == Reordered(claimed)
<1>1. AreOutputsFor(claimed, tx, Claims(tx))
  <2>1. IsFiniteSet(Places(tx))
    BY AssembledHasInputs DEF HasInputs
  <2>2. claimed = OutputsFor(tx, Claims(tx))
    BY DEF ClaimedBy
  <2> HIDE DEF tx, claimed
  <2> QED BY <2>1, <2>2, OutputsForAre
<1>2. \E o \in orders, payment \in Payments : outputs = o \o payment \/ outputs = payment \o o
  <2>1. outputs \in {o \o payment : o \in orders, payment \in Payments}
                      \cup {payment \o o : o \in orders, payment \in Payments}
    BY DEF LineageSlots
  <2> HIDE DEF orders
  <2> QED BY <2>1
<1> HIDE DEF tx, claimed
<1>3. m \in Nat
  BY <1>1, ListParts DEF AreOutputsFor
<1>4. \A n \in 1..m : \E p \in Claims(tx) : claimed[n] = Claimed(Condition(tx, p))
  BY <1>1 DEF AreOutputsFor, IsOrderOf
<1>5. ASSUME NEW o \in orders PROVE OnlyClaimsPay(o, tx)
  <2>1. PICK f \in [1..m -> 1..m] : o = [n \in 1..m |-> claimed[f[n]]]
    BY DEF Reordered
  <2>2. o = [n \in 1..m |-> o[n]] /\ \A n \in 1..m : f[n] \in 1..m /\ o[n] = claimed[f[n]]
    BY <2>1
  <2>3. IsList(o) /\ Len(o) = m
    BY <1>3, <2>2, ListIs
  <2> QED BY <1>4, <2>2, <2>3 DEF OnlyClaimsPay
<1>6. ASSUME NEW payment \in Payments PROVE OnlyClaimsPay(payment, tx)
  BY OthersPayDeposits DEF OnlyClaimsPay, IsList
<1> HIDE DEF orders
<1>7. OnlyClaimsPay(outputs, tx)
  BY <1>2, <1>5, <1>6, JoinPays
<1> QED
  BY <1>7 DEF tx

\* So every output that not anyone may pay is one that an input claims.
LEMMA SlotsPay ==
    ASSUME AreInputs(pending), NEW outputs \in Slots
    PROVE  OnlyClaimsPay(outputs, Tx(pending, <<>>))
<1> DEFINE tx == Tx(pending, <<>>)
<1>1. outputs \in VaultSlots(pending) \/ outputs \in LineageSlots(pending)
  BY DEF Slots
<1>2. CASE outputs \in VaultSlots(pending)
  <2>1. OutputsArePayable(outputs) \/ \E some \in SUBSET Claims(tx) : AreOutputsFor(outputs, tx, some)
    BY <1>2, VaultSlotsAre
  <2> HIDE DEF tx
  <2>2. OnlyClaimsPay(outputs, tx)
    <3>1. CASE OutputsArePayable(outputs)
      BY <3>1 DEF OutputsArePayable, OnlyClaimsPay
    <3>2. CASE \E some \in SUBSET Claims(tx) : AreOutputsFor(outputs, tx, some)
      <4>1. PICK some \in SUBSET Claims(tx) : AreOutputsFor(outputs, tx, some)
        BY <3>2
      <4>2. PICK order : /\ IsOrderOf(order, some) /\ Len(outputs) = Len(order)
                         /\ \A n \in 1..Len(outputs) :
                               outputs[n] = Claimed(Condition(tx, order[n]))
        BY <4>1 DEF AreOutputsFor
      <4>3. \A n \in 1..Len(outputs) : order[n] \in Claims(tx)
        BY <4>2 DEF IsOrderOf
      <4> QED BY <4>1, <4>2, <4>3 DEF AreOutputsFor, OnlyClaimsPay
    <3> QED BY <2>1, <3>1, <3>2
  <2> QED BY <2>2 DEF tx
<1> QED
  BY <1>1, <1>2, LineageSlotsAre

-----------------------------------------------------------------------------
(* Recovery: the invariant that every coin at a vault's script is one that a *)
(* well-formed program can spend. *)

\* What a transaction creates from these outputs: a coin at each of some.
LEMMA CreatedParts ==
    ASSUME NEW inputs, NEW outputs, IsList(outputs), Len(outputs) <= UINT32_MAX,
           NEW tx, tx = Tx(inputs, outputs), IsTransaction(tx)
    PROVE  /\ IsFiniteSet(Created(tx))
           /\ \A c, d \in Created(tx) : c.index = d.index => c = d
           /\ \A c \in Created(tx) :
                 /\ c.txid = txid(tx) /\ IsList(c.txid) /\ IsFieldList(c.txid)
                 /\ c.index \in 0..UINT32_MAX /\ c.amount \in 0..MAX_MONEY
                 /\ output_script(tx_outputs(c.txid)[c.index + 1]) = c.script_pubkey
                 /\ c.index + 1 \in 1..Len(outputs)
                 /\ c.script_pubkey = outputs[c.index + 1].script_pubkey
                 /\ c.amount = outputs[c.index + 1].amount
<1> DEFINE coin(j) == [txid |-> txid(tx), index |-> j - 1,
                       script_pubkey |-> tx.outputs[j].script_pubkey,
                       amount |-> tx.outputs[j].amount, born |-> height + 1]
           J == {k \in 1..Len(outputs) : ~IsData(outputs[k].script_pubkey)}
           f == [j \in J |-> coin(j)]
<1>1. tx.outputs = outputs
  BY DEF Tx
<1>2. Created(tx) = {coin(j) : j \in J}
  BY <1>1 DEF Created
<1>3. Len(outputs) \in Nat
  BY ListParts
<1>4. IsFiniteSet(Created(tx))
  <2>1. IsFiniteSet(1..Len(outputs))
    BY <1>3, FS_Interval
  <2>2. J \in SUBSET (1..Len(outputs)) /\ DOMAIN f = J
    OBVIOUS
  <2>3. Created(tx) = {f[j] : j \in J}
    BY <1>2
  <2> HIDE DEF J, f
  <2>4. IsFiniteSet(J)
    BY <2>1, <2>2, FS_Subset
  <2>5. IsFiniteSet({f[j] : j \in J})
    BY <2>2, <2>4, ImageIsFinite
  <2> QED BY <2>3, <2>5
<1>5. ASSUME NEW c \in Created(tx)
      PROVE  /\ c.txid = txid(tx) /\ c.index \in 0..UINT32_MAX /\ c.amount \in 0..MAX_MONEY
             /\ c.index + 1 \in 1..Len(outputs)
             /\ c.script_pubkey = outputs[c.index + 1].script_pubkey
             /\ c.amount = outputs[c.index + 1].amount
  <2>1. PICK j \in J : c = coin(j)
    BY <1>2
  <2>2. /\ c.txid = txid(tx) /\ c.index = j - 1 /\ c.script_pubkey = outputs[j].script_pubkey
        /\ c.amount = outputs[j].amount
    BY <1>1, <2>1
  <2>3. j \in 1..Len(outputs)
    OBVIOUS
  <2>4. outputs[j].amount \in 0..MAX_MONEY
    BY <1>1, <2>3 DEF IsTransaction, IsTxOutput
  <2>5. j - 1 \in 0..UINT32_MAX /\ (j - 1) + 1 = j
    BY <1>3, <2>3, LimitsAreNat
  <2> QED BY <2>2, <2>3, <2>4, <2>5
<1>6. IsList(txid(tx)) /\ IsFieldList(txid(tx)) /\ tx_outputs(txid(tx)) = outputs_hash(tx)
  BY ShortLists DEF txid, IsFieldList, tx_outputs
<1>7. \A j \in 1..Len(outputs) : output_script(outputs_hash(tx)[j]) = outputs[j].script_pubkey
  BY <1>1 DEF outputs_hash, output_script
<1>8. ASSUME NEW c \in Created(tx), NEW d \in Created(tx), c.index = d.index
      PROVE  c = d
  <2>1. PICK j \in J : c = coin(j)
    BY <1>2
  <2>2. PICK k \in J : d = coin(k)
    BY <1>2
  <2>3. c.index = j - 1 /\ d.index = k - 1 /\ j \in 1..Len(outputs) /\ k \in 1..Len(outputs)
    BY <2>1, <2>2
  <2>4. j \in Int /\ k \in Int
    BY <1>3, <2>3
  <2>5. j - 1 = k - 1
    BY <1>8, <2>3
  <2>6. j = k
    BY <2>4, <2>5
  <2> QED BY <2>1, <2>2, <2>6
<1> QED
  BY <1>4, <1>5, <1>6, <1>7, <1>8

\* What is known of the coins and of the joined inputs.
CoinsAreKnown == IsFiniteSet(coins) /\ \A c \in coins : IsCoin(c)
InputsAreBacked == AreInputs(pending) /\ \A input \in pending : Backed(input)
RecoveryInv == CoinsAreKnown /\ InputsAreBacked

\* Whatever a transaction creates from these outputs is known.
LEMMA CreatedIsKnown ==
    ASSUME InputsAreBacked, NEW outputs \in Slots, Len(outputs) <= UINT32_MAX,
           NEW tx, tx = Tx(pending, outputs), IsTransaction(tx)
    PROVE  IsFiniteSet(Created(tx)) /\ \A c \in Created(tx) : IsCoin(c)
<1> DEFINE tx0 == Tx(pending, <<>>)
<1>1. HasInputs(tx0, pending)
  BY AssembledHasInputs DEF InputsAreBacked
<1>2. OnlyClaimsPay(outputs, tx0)
  BY SlotsPay DEF InputsAreBacked
<1> HIDE DEF tx0
<1>3. IsList(outputs)
  BY <1>2 DEF OnlyClaimsPay
<1>4. ASSUME NEW j \in 1..Len(outputs), IsVaultScript(outputs[j].script_pubkey)
      PROVE  HasProgram(outputs[j].script_pubkey)
  <2>1. CASE IsPayable(outputs[j].script_pubkey)
    BY <1>4, <2>1, PayableIs
  <2>2. CASE ~IsPayable(outputs[j].script_pubkey)
    <3>1. PICK p \in Claims(tx0) : outputs[j] = Claimed(Condition(tx0, p))
      BY <1>2, <2>2 DEF OnlyClaimsPay
    <3>2. p \in Places(tx0) /\ IsClaim(Condition(tx0, p))
      BY <3>1 DEF Claims, PlacesOf, IsClaim, CreateOpcodes
    <3>3. PICK input \in pending : \E k \in 1..Len(Conditions(input)) :
                                      Condition(tx0, p) = Conditions(input)[k]
      BY <1>1, <3>2 DEF HasInputs
    <3>4. Backed(input)
      BY <3>3 DEF InputsAreBacked
    <3> QED BY <1>4, <3>1, <3>2, <3>3, <3>4 DEF Backed
  <2> QED BY <2>1, <2>2
<1> QED
  BY <1>3, <1>4, CreatedParts DEF IsCoin

\* Every coin to start from is known.
LEMMA InitIsKnown == Init => RecoveryInv
<1> SUFFICES ASSUME Init PROVE RecoveryInv
  OBVIOUS
<1>1. coins \in Fundings /\ pending = {}
  BY DEF Init
<1>2. IsFiniteSet(coins) /\ \A c \in coins : IsFunding(c)
  BY <1>1, FundingsAreCoins
<1>3. \A c \in coins : IsCoin(c)
  BY <1>2 DEF IsFunding, IsCoin, IsList, HasProgram
<1>4. AreInputs(pending)
  BY <1>1, FS_EmptySet DEF AreInputs
<1> QED
  BY <1>1, <1>2, <1>3, <1>4 DEF RecoveryInv, CoinsAreKnown, InputsAreBacked

\* A step joins an input, confirms what is joined, signs, or mines.
LEMMA StepIs ==
    ASSUME Next
    PROVE  \/ SignTrigger \/ SignRecovery \/ SignHandover \/ Mine
           \/ \E input : Join(input) /\ Cardinality(pending) < MaxInputs /\
                 \/ \E coin, own, program, a, conditions :
                       IsVaultInput(input, coin, own, program, a, conditions)
                 \/ \E coin \in coins : \E l \in LineagesOf(coin) :
                    \E p \in Proofs(l, coin), child_index \in 0..MaxIndex :
                    \E list \in InnerLists(p.inner) :
                    \E rest \in morph(l, MyScript(p), child_index, list) :
                       /\ input = LineageInput(l, coin, SelfConditions(l, p) \o rest)
                       /\ StandsAlone(input)
                 \/ \E coin \in coins :
                       Owners(coin) = {} /\ LineagesOf(coin) = {} /\ input = PlainInput(coin)
           \/ \E outputs \in Slots : Confirm(outputs)
<1>1. CASE SpendVault
  <2> DEFINE input(coin, own, conditions) ==
               ScriptInput(coin, own.v.internal_key, own.root, SequenceFor(conditions), conditions)
  <2>1. PICK coin \in coins : CanJoin(coin) /\ \E own \in Owners(coin), program \in Programs :
           \E a \in Solutions(coin, program.state) : \E conditions \in Run(program, a) :
              StandsAlone(input(coin, own, conditions)) /\ Join(input(coin, own, conditions))
    BY <1>1 DEF SpendVault
  <2>2. PICK own \in Owners(coin), program \in Programs :
           \E a \in Solutions(coin, program.state) : \E conditions \in Run(program, a) :
              StandsAlone(input(coin, own, conditions)) /\ Join(input(coin, own, conditions))
    BY <2>1
  <2>3. PICK a \in Solutions(coin, program.state) : \E conditions \in Run(program, a) :
              StandsAlone(input(coin, own, conditions)) /\ Join(input(coin, own, conditions))
    BY <2>2
  <2>4. PICK conditions \in Run(program, a) :
              StandsAlone(input(coin, own, conditions)) /\ Join(input(coin, own, conditions))
    BY <2>3
  <2>5. /\ IsVaultInput(input(coin, own, conditions), coin, own, program, a, conditions)
        /\ Join(input(coin, own, conditions)) /\ Cardinality(pending) < MaxInputs
    BY <2>1, <2>4 DEF IsVaultInput, CanJoin
  <2> HIDE DEF input
  <2> QED BY <2>5
<1>2. CASE SpendSingleton
  BY <1>2 DEF SpendSingleton, CanJoin
<1>3. CASE SpendPlain
  BY <1>3 DEF SpendPlain, CanJoin
<1>4. CASE ConfirmPending
  BY <1>4 DEF ConfirmPending
<1> QED
  BY <1>1, <1>2, <1>3, <1>4 DEF Next

\* Every step keeps what is known.
LEMMA StepKeepsKnown ==
    ASSUME RecoveryInv, [Next]_vars
    PROVE  RecoveryInv'
<1>1. CoinsAreKnown /\ InputsAreBacked /\ IsFiniteSet(coins) /\ \A c \in coins : IsCoin(c)
  BY DEF RecoveryInv, CoinsAreKnown
<1>2. CASE UNCHANGED <<coins, pending>>
  BY <1>1, <1>2 DEF RecoveryInv, CoinsAreKnown, InputsAreBacked
<1>3. ASSUME NEW input, Join(input), AreInputs({input}), Backed(input)
      PROVE  RecoveryInv'
  <2>1. pending' = pending \cup {input} /\ coins' = coins
    BY <1>3 DEF Join
  <2>2. IsFiniteSet(pending \cup {input})
    BY <1>1, FS_AddElement DEF InputsAreBacked, AreInputs
  <2>3. AreInputs(pending')
    BY <1>1, <1>3, <2>1, <2>2 DEF InputsAreBacked, AreInputs
  <2>4. \A other \in pending' : Backed(other)
    BY <1>1, <1>3, <2>1 DEF InputsAreBacked
  <2> QED BY <1>1, <2>1, <2>3, <2>4 DEF RecoveryInv, CoinsAreKnown, InputsAreBacked
<1>4. ASSUME NEW input, Join(input), ClaimsArePayable(Conditions(input))
      PROVE  RecoveryInv'
  <2>1. IsList(Conditions(input)) /\ Backed(input)
    BY <1>4, PayableIsKnown DEF ClaimsArePayable
  <2>2. AreInputs({input})
    BY <2>1, FS_Singleton DEF AreInputs
  <2> QED BY <1>3, <1>4, <2>1, <2>2
<1>5. ASSUME NEW input, NEW coin, NEW own, NEW program, NEW a, NEW conditions, Join(input),
             IsVaultInput(input, coin, own, program, a, conditions)
      PROVE  RecoveryInv'
  <2>1. IsCoin(coin)
    BY <1>1, <1>5 DEF IsVaultInput
  <2>2. IsList(Conditions(input)) /\ Backed(input)
    BY <1>1, <1>5, <2>1, VaultInputParts, VaultInputIsBacked
  <2>3. AreInputs({input})
    BY <2>2, FS_Singleton DEF AreInputs
  <2> QED BY <1>3, <1>5, <2>2, <2>3
<1>6. ASSUME NEW outputs \in Slots, Confirm(outputs)
      PROVE  RecoveryInv'
  <2> DEFINE tx == Tx(pending, outputs)
             kept == {c \in coins : ~IsJoined(c)}
  <2>1. /\ Len(outputs) <= UINT32_MAX /\ IsTransaction(tx)
        /\ coins' = kept \cup Created(tx) /\ pending' = {}
    BY <1>6 DEF Confirm
  <2>2. kept \in SUBSET coins
    OBVIOUS
  <2> HIDE DEF kept
  <2>3. IsFiniteSet(Created(tx)) /\ \A c \in Created(tx) : IsCoin(c)
    BY <1>1, <1>6, <2>1, CreatedIsKnown
  <2> HIDE DEF tx
  <2>4. IsFiniteSet(kept \cup Created(tx))
    BY <1>1, <2>2, <2>3, FS_Subset, FS_Union
  <2>5. CoinsAreKnown'
    BY <1>1, <2>1, <2>2, <2>3, <2>4 DEF CoinsAreKnown
  <2>6. InputsAreBacked'
    BY <2>1, FS_EmptySet DEF InputsAreBacked, AreInputs
  <2> QED BY <2>5, <2>6 DEF RecoveryInv
<1>7. CASE Next
  <2>1. ASSUME NEW coin \in coins, NEW l \in LineagesOf(coin), NEW p \in Proofs(l, coin),
               NEW child_index, NEW list \in InnerLists(p.inner),
               NEW rest \in morph(l, MyScript(p), child_index, list)
        PROVE  ClaimsArePayable(Conditions(LineageInput(l, coin, SelfConditions(l, p) \o rest)))
    BY <1>1, SingletonInputClaims
  <2>2. SignTrigger \/ SignRecovery \/ SignHandover \/ Mine => UNCHANGED <<coins, pending>>
    BY DEF SignTrigger, SignRecovery, SignHandover, Sign, Mine
  <2> QED BY <1>2, <1>4, <1>5, <1>6, <1>7, <2>1, <2>2, StepIs, PlainInputClaims
<1> QED
  BY <1>2, <1>7 DEF vars

\* Until it is withdrawn, every coin at a vault's script can be recovered alone:
\* no step of any life cycle leaves a coin that its own program does not
\* recognize.
THEOREM CoinsStayRecoverable ==
    ASSUME SignaturesAreIdeal
    PROVE  Spec => []EveryCoinIsRecoverable
<1>1. Init => RecoveryInv
  BY InitIsKnown
<1>2. RecoveryInv /\ [Next]_vars => RecoveryInv'
  BY StepKeepsKnown
<1>3. RecoveryInv => EveryCoinIsRecoverable
  BY CoinCanBeRecovered DEF RecoveryInv, CoinsAreKnown, EveryCoinIsRecoverable
<1> QED
  BY <1>1, <1>2, <1>3, PTL DEF Spec

-----------------------------------------------------------------------------
(* Signatures: the invariant that no outpoint returns, and that every        *)
(* signature is of a coin that is there or is past.                          *)

\* The outpoints that the transaction that made a coin spent.
Parents(c) ==
    IF ~IsFieldList(c.txid) THEN {}
    ELSE {input_outpoint(tx_inputs(c.txid)[i]) : i \in 1..Len(tx_inputs(c.txid))}

\* The coins that were there before: their outpoints do not return, and every
\* coin's parents are among them.
IsHistory(past) ==
    /\ \A c, d \in coins : outpoint(c) = outpoint(d) => c = d
    /\ \A c \in coins, d \in past : outpoint(c) # outpoint(d)
    /\ \A c \in coins \cup past :
          IsList(c.txid) /\ \A o \in Parents(c) : \E d \in past : outpoint(d) = o

\* Every signature is of such a coin.
AreSignedOf(past) == \A s \in signed : IsSigned(s) /\ s.coin \in coins \cup past

\* Every joined input spends a coin, with the signatures that it needs.
InputsAreSigned ==
    \A input \in pending :
        /\ SignedFor(input)
        /\ \E coin \in coins : input.txid = coin.txid /\ input.index = coin.index

SignatureInv ==
    /\ RecoveryInv /\ InputsAreSigned
    /\ \E past : IsHistory(past) /\ AreSignedOf(past)

\* A transaction spends joined coins, one at the least, and shows their outpoints
\* in its fields.
LEMMA ParentsAreJoined ==
    ASSUME AreInputs(pending), InputsAreSigned, NEW outputs,
           NEW tx, tx = Tx(pending, outputs), IsTransaction(tx), NEW c, c.txid = txid(tx)
    PROVE  /\ \A o \in Parents(c) : \E coin \in coins : IsJoined(coin) /\ outpoint(coin) = o
           /\ Parents(c) # {}
<1> DEFINE n == Len(tx.inputs)
           row == [i \in 1..n |-> <<tx.inputs[i].txid, tx.inputs[i].index,
                                    tx.inputs[i].script_sig, tx.inputs[i].sequence>>]
<1>1. IsOrderOf(tx.inputs, pending) /\ IsList(tx.inputs)
  BY AssembledHasInputs DEF HasInputs, IsOrderOf
<1>2. n \in Nat /\ \A i \in 1..n : tx.inputs[i] \in pending
  BY <1>1 DEF IsOrderOf
<1>3. 1 \in 1..n
  <2>1. n # 0
    BY <1>1, EmptySeq DEF IsTransaction, IsList
  <2> QED BY <1>2, <2>1
<1>4. IsFieldList(c.txid) /\ tx_inputs(c.txid) = row
  BY ShortLists DEF txid, IsFieldList, tx_inputs
<1>5. Len(row) = n /\ \A i \in 1..n : input_outpoint(row[i]) = outpoint(tx.inputs[i])
  <2>1. Len(row) = n
    BY <1>2
  <2>2. \A i \in 1..n : row[i][1] = tx.inputs[i].txid /\ row[i][2] = tx.inputs[i].index
    OBVIOUS
  <2> HIDE DEF row
  <2> QED BY <2>1, <2>2 DEF input_outpoint, outpoint
<1> HIDE DEF row
<1>6. Parents(c) = {outpoint(tx.inputs[i]) : i \in 1..n}
  BY <1>4, <1>5 DEF Parents
<1>7. ASSUME NEW i \in 1..n
      PROVE  \E coin \in coins : IsJoined(coin) /\ outpoint(coin) = outpoint(tx.inputs[i])
  <2>1. tx.inputs[i] \in pending
    BY <1>2
  <2>2. PICK coin \in coins : tx.inputs[i].txid = coin.txid /\ tx.inputs[i].index = coin.index
    BY <2>1 DEF InputsAreSigned
  <2>3. outpoint(tx.inputs[i]) = outpoint(coin)
    BY <2>2 DEF outpoint
  <2> QED BY <2>1, <2>3 DEF IsJoined
<1> QED
  BY <1>3, <1>6, <1>7

\* No coin that a transaction creates has an outpoint that was there before: it
\* would have made itself.
LEMMA CreatedIsFresh ==
    ASSUME AreInputs(pending), InputsAreSigned, NEW past, IsHistory(past),
           NEW outputs, IsList(outputs), Len(outputs) <= UINT32_MAX,
           NEW tx, tx = Tx(pending, outputs), IsTransaction(tx),
           NEW c \in Created(tx), NEW d \in coins \cup past
    PROVE  outpoint(c) # outpoint(d)
<1> SUFFICES ASSUME outpoint(c) = outpoint(d) PROVE FALSE
  OBVIOUS
<1>1. c.txid = txid(tx) /\ IsList(c.txid)
  BY CreatedParts
<1>2. IsList(d.txid) /\ \A o \in Parents(d) : \E e \in past : outpoint(e) = o
  BY DEF IsHistory
<1>3. d.txid = txid(tx)
  <2>1. Append(c.txid, c.index) = Append(d.txid, d.index)
    BY DEF outpoint
  <2>2. c.txid = d.txid
    BY <1>1, <1>2, <2>1, AppendKeepsApart
  <2> QED BY <1>1, <2>2
<1>4. /\ \A o \in Parents(d) : \E coin \in coins : IsJoined(coin) /\ outpoint(coin) = o
      /\ Parents(d) # {}
  BY <1>3, ParentsAreJoined
<1>5. PICK o \in Parents(d) : TRUE
  BY <1>4
<1> QED
  BY <1>2, <1>4, <1>5 DEF IsHistory

\* At the start nothing is signed and nothing is past.
LEMMA InitIsSigned == Init => SignatureInv
<1> SUFFICES ASSUME Init PROVE SignatureInv
  OBVIOUS
<1>1. coins \in Fundings /\ pending = {} /\ signed = {}
  BY DEF Init
<1>2. /\ \A c \in coins : IsFunding(c)
      /\ \A c, d \in coins : outpoint(c) = outpoint(d) => c = d
  BY <1>1, FundingsAreCoins
<1>3. \A c \in coins : IsList(c.txid) /\ Parents(c) = {}
  BY <1>2 DEF IsFunding, IsList, Parents
<1>4. IsHistory({}) /\ AreSignedOf({})
  BY <1>1, <1>2, <1>3 DEF IsHistory, AreSignedOf
<1>5. InputsAreSigned
  BY <1>1 DEF InputsAreSigned
<1> QED
  BY <1>4, <1>5, InitIsKnown DEF SignatureInv

\* A signature that is added is of a coin that is there.
LEMMA SignKeepsSigned ==
    ASSUME SignatureInv, NEW key, NEW coin \in coins, NEW message, NEW order,
           pending = {}, Sign(key, coin, message, order),
           IsSigned([key |-> key, coin |-> coin, message |-> message, order |-> order]),
           RecoveryInv'
    PROVE  SignatureInv'
<1> DEFINE s == [key |-> key, coin |-> coin, message |-> message, order |-> order]
<1>1. /\ signed' = signed \cup {s} /\ coins' = coins /\ pending' = {}
      /\ s.coin = coin /\ IsSigned(s)
  BY DEF Sign
<1> HIDE DEF s
<1>2. PICK past : IsHistory(past) /\ AreSignedOf(past)
  BY DEF SignatureInv
<1>3. IsHistory(past)'
  BY <1>1, <1>2 DEF IsHistory
<1>4. AreSignedOf(past)'
  BY <1>1, <1>2 DEF AreSignedOf
<1>5. InputsAreSigned'
  BY <1>1 DEF InputsAreSigned
<1> QED
  BY <1>3, <1>4, <1>5 DEF SignatureInv

\* The keys sign such messages.
LEMMA SigningKeepsSigned ==
    ASSUME SignatureInv, SignTrigger \/ SignRecovery \/ SignHandover, RecoveryInv'
    PROVE  SignatureInv'
<1>1. pending = {}
  BY DEF SignTrigger, SignRecovery, SignHandover, CanSign
<1>2. CASE SignTrigger
  <2>1. PICK coin \in coins, order \in Orders : \E program \in Owners(coin) :
           Sign(program.v.auth_key, coin, TriggerMessage(order), order)
    BY <1>2 DEF SignTrigger
  <2>2. \A key : IsSigned([key |-> key, coin |-> coin,
                           message |-> TriggerMessage(order), order |-> order])
    BY DEF IsSigned
  <2> QED BY <1>1, <2>1, <2>2, SignKeepsSigned
<1>3. CASE SignRecovery
  <2> DEFINE message(coin) == RecoveryMessage([my_amt |-> coin.amount, recover_amt |-> coin.amount])
  <2>1. PICK coin \in coins : \E program \in Owners(coin) :
           Sign(program.v.recovery_key, coin, message(coin), NoOrder)
    BY <1>3 DEF SignRecovery
  <2>2. \A key : IsSigned([key |-> key, coin |-> coin,
                           message |-> message(coin), order |-> NoOrder])
    BY DEF IsSigned
  <2> HIDE DEF message
  <2> QED BY <1>1, <2>1, <2>2, SignKeepsSigned
<1>4. CASE SignHandover
  <2>1. PICK launcher \in Launchers : \E coin \in Living(launcher) :
           \E inner \in Governing(launcher, coin), order \in Handovers :
              Sign(inner[2], coin, HandoverMessage(order), order)
    BY <1>4 DEF SignHandover
  <2>2. PICK coin \in Living(launcher) : \E inner, order :
              Sign(inner[2], coin, HandoverMessage(order), order)
    BY <2>1
  <2>3. coin \in coins /\ LineagesOf(coin) # {}
    BY DEF Living
  <2>4. \A key, message, order :
           IsSigned([key |-> key, coin |-> coin, message |-> message, order |-> order])
    BY <2>3 DEF IsSigned
  <2> QED BY <1>1, <2>2, <2>3, <2>4, SignKeepsSigned
<1> QED
  BY <1>2, <1>3, <1>4

\* A step that only joins inputs whose claims are signed for keeps the
\* signatures.
LEMMA InputsStaySigned ==
    ASSUME SignatureInv, coins' = coins, signed' = signed, RecoveryInv',
           \A input \in pending' \ pending :
              /\ SignedFor(input)
              /\ \E coin \in coins : input.txid = coin.txid /\ input.index = coin.index
    PROVE  SignatureInv'
<1>1. ASSUME NEW input, SignedFor(input) PROVE SignedFor(input)'
  <2>1. ASSUME NEW s, NEW target, NEW amount, Signs(s, input, target, amount)
        PROVE  Signs(s, input, target, amount)'
    BY <2>1 DEF Signs
  <2> QED BY <1>1, <2>1 DEF SignedFor
<1>2. InputsAreSigned'
  BY <1>1 DEF InputsAreSigned, SignatureInv
<1>3. \A past : IsHistory(past) /\ AreSignedOf(past) => IsHistory(past)' /\ AreSignedOf(past)'
  BY DEF IsHistory, AreSignedOf
<1> QED
  BY <1>2, <1>3 DEF SignatureInv

\* What a transaction spends is past.
LEMMA HistoryGrows ==
    ASSUME SignatureInv, NEW outputs \in Slots, Confirm(outputs), NEW past, IsHistory(past),
           NEW next, next = past \cup {c \in coins : IsJoined(c)}
    PROVE  IsHistory(next)'
<1> DEFINE tx == Tx(pending, outputs)
           joined == {c \in coins : IsJoined(c)}
<1>1. /\ Len(outputs) <= UINT32_MAX /\ IsTransaction(tx)
      /\ coins' = (coins \ joined) \cup Created(tx)
  BY DEF Confirm
<1>2. AreInputs(pending) /\ InputsAreSigned /\ IsList(outputs)
  BY SlotsPay DEF SignatureInv, RecoveryInv, InputsAreBacked, OnlyClaimsPay
<1>3. IsHistory(past) /\ next = past \cup joined
  OBVIOUS
<1>4. ASSUME NEW c \in Created(tx)
      PROVE  /\ IsList(c.txid)
             /\ \A d \in coins \cup past : outpoint(c) # outpoint(d)
             /\ \A o \in Parents(c) : \E d \in joined : outpoint(d) = o
             /\ \A d \in Created(tx) : outpoint(c) = outpoint(d) => c = d
  <2>1. /\ IsList(c.txid) /\ c.txid = txid(tx)
        /\ \A d \in Created(tx) : IsList(d.txid) /\ (c.index = d.index => c = d)
    BY <1>1, <1>2, CreatedParts
  <2>2. \A d \in coins \cup past : outpoint(c) # outpoint(d)
    BY <1>1, <1>2, <1>3, CreatedIsFresh
  <2>3. \A o \in Parents(c) : \E d \in joined : outpoint(d) = o
    BY <1>1, <1>2, <2>1, ParentsAreJoined
  <2>4. ASSUME NEW d \in Created(tx), outpoint(c) = outpoint(d)
        PROVE  c = d
    <3>1. Append(c.txid, c.index) = Append(d.txid, d.index)
      BY <2>4 DEF outpoint
    <3>2. c.index = d.index
      BY <2>1, <3>1, AppendKeepsApart
    <3> QED BY <2>1, <3>2
  <2> QED BY <2>1, <2>2, <2>3, <2>4
<1> HIDE DEF tx
<1>5. joined \in SUBSET coins
  OBVIOUS
<1> HIDE DEF joined
<1>6. \A c, d \in coins' : outpoint(c) = outpoint(d) => c = d
  BY <1>1, <1>3, <1>4 DEF IsHistory
<1>7. \A c \in coins', d \in next : outpoint(c) # outpoint(d)
  BY <1>1, <1>3, <1>4, <1>5 DEF IsHistory
<1>8. \A c \in coins' \cup next :
         IsList(c.txid) /\ \A o \in Parents(c) : \E d \in next : outpoint(d) = o
  BY <1>1, <1>3, <1>4, <1>5 DEF IsHistory
<1> QED
  BY <1>6, <1>7, <1>8 DEF IsHistory

\* A transaction keeps the signatures: the coins that it spends are past.
LEMMA ConfirmKeepsSigned ==
    ASSUME SignatureInv, NEW outputs \in Slots, Confirm(outputs), RecoveryInv'
    PROVE  SignatureInv'
<1> DEFINE joined == {c \in coins : IsJoined(c)}
<1>1. /\ pending' = {} /\ signed' = signed
      /\ coins' = (coins \ joined) \cup Created(Tx(pending, outputs))
  BY DEF Confirm
<1>2. PICK past : IsHistory(past) /\ AreSignedOf(past)
  BY DEF SignatureInv
<1>3. PICK next : next = past \cup joined
  OBVIOUS
<1>4. IsHistory(next)'
  BY <1>2, <1>3, HistoryGrows
<1>5. AreSignedOf(next)'
  BY <1>1, <1>2, <1>3 DEF AreSignedOf
<1>6. InputsAreSigned'
  BY <1>1 DEF InputsAreSigned
<1> QED
  BY <1>4, <1>5, <1>6 DEF SignatureInv

\* Every step keeps the signatures.
LEMMA StepKeepsSigned ==
    ASSUME SignaturesAreIdeal, SignatureInv, [Next]_vars
    PROVE  SignatureInv'
<1>1. RecoveryInv' /\ IsFiniteSet(coins) /\ \A c \in coins : IsCoin(c)
  BY StepKeepsKnown DEF SignatureInv, RecoveryInv, CoinsAreKnown
<1>2. CASE UNCHANGED vars
  BY <1>1, <1>2, InputsStaySigned DEF vars
<1>3. CASE Mine
  BY <1>1, <1>3, InputsStaySigned DEF Mine
<1>4. ASSUME NEW input, Join(input), SignedFor(input),
             NEW coin \in coins, input.txid = coin.txid, input.index = coin.index
      PROVE  SignatureInv'
  <2>1. pending' \ pending \in SUBSET {input} /\ coins' = coins /\ signed' = signed
    BY <1>4 DEF Join
  <2> QED BY <1>1, <1>4, <2>1, InputsStaySigned
<1>5. ASSUME NEW input, NEW coin, NEW own, NEW program, NEW a, NEW conditions, Join(input),
             IsVaultInput(input, coin, own, program, a, conditions)
      PROVE  SignatureInv'
  <2>1. coin \in coins /\ input.txid = coin.txid /\ input.index = coin.index
    BY <1>1, <1>5, VaultInputParts DEF IsVaultInput
  <2>2. PICK past : IsHistory(past) /\ AreSignedOf(past)
    BY DEF SignatureInv
  <2>3. \A s \in signed : IsSigned(s) /\ (outpoint(s.coin) = outpoint(coin) => s.coin = coin)
    BY <2>1, <2>2 DEF IsHistory, AreSignedOf
  <2>4. SignedFor(input)
    BY <1>1, <1>5, <2>3, VaultInputIsSigned
  <2> QED BY <1>4, <1>5, <2>1, <2>4
<1>6. ASSUME NEW coin \in coins, NEW l \in LineagesOf(coin), NEW p \in Proofs(l, coin),
             NEW child_index, NEW list \in InnerLists(p.inner),
             NEW rest \in morph(l, MyScript(p), child_index, list),
             Join(LineageInput(l, coin, SelfConditions(l, p) \o rest))
      PROVE  SignatureInv'
  <2> DEFINE input == LineageInput(l, coin, SelfConditions(l, p) \o rest)
  <2>1. input.txid = coin.txid /\ input.index = coin.index
    BY DEF LineageInput, ScriptInput
  <2>2. ClaimsArePayable(Conditions(input)) /\ Join(input)
    BY <1>1, <1>6, SingletonInputClaims
  <2> HIDE DEF input
  <2>3. SignedFor(input)
    BY <2>2, PayableIsKnown
  <2> QED BY <1>4, <2>1, <2>2, <2>3
<1>7. ASSUME NEW coin \in coins, Join(PlainInput(coin))
      PROVE  SignatureInv'
  <2> DEFINE input == PlainInput(coin)
  <2>1. input.txid = coin.txid /\ input.index = coin.index
    BY DEF PlainInput
  <2>2. ClaimsArePayable(Conditions(input)) /\ Join(input)
    BY <1>7, PlainInputClaims
  <2> HIDE DEF input
  <2>3. SignedFor(input)
    BY <2>2, PayableIsKnown
  <2> QED BY <1>4, <2>1, <2>2, <2>3
<1>8. CASE Next
  BY <1>1, <1>3, <1>5, <1>6, <1>7, <1>8, StepIs, SigningKeepsSigned, ConfirmKeepsSigned
<1> QED
  BY <1>2, <1>8

-----------------------------------------------------------------------------
(* Every triggered coin takes a signature of a coin that is spent for it. *)

\* The triggered coins that a step makes, and the spent coins that were signed
\* for them.
Triggered(v, target, amount) ==
    {c \in New : c.script_pubkey = ScriptOf(TriggeredProgram(v, target)) /\ c.amount = amount}
Signing(target, amount) ==
    {c \in Spent : \E s \in signed, p \in Owners(c) :
                     /\ p.state = "vault" /\ s.key = p.v.auth_key /\ s.coin = c
                     /\ s.order.target = target /\ s.order.trig_amt = amount}

\* What a transaction creates is new, and what it joined is spent.
LEMMA JoinedIsSpent ==
    ASSUME SignatureInv, NEW outputs \in Slots, Confirm(outputs),
           NEW tx, tx = Tx(pending, outputs)
    PROVE  /\ New \subseteq Created(tx) /\ IsFiniteSet(New) /\ IsFiniteSet(Spent)
           /\ \A c \in coins : IsJoined(c) => c \in Spent
<1> DEFINE joined == {c \in coins : IsJoined(c)}
<1>1. /\ Len(outputs) <= UINT32_MAX /\ IsTransaction(tx)
      /\ coins' = (coins \ joined) \cup Created(tx)
  BY DEF Confirm
<1>2. AreInputs(pending) /\ InputsAreSigned /\ IsList(outputs) /\ IsFiniteSet(coins)
  BY SlotsPay DEF SignatureInv, RecoveryInv, CoinsAreKnown, InputsAreBacked, OnlyClaimsPay
<1>3. PICK past : IsHistory(past) /\ AreSignedOf(past)
  BY DEF SignatureInv
<1>4. ASSUME NEW c \in Created(tx) PROVE c \notin coins
  BY <1>1, <1>2, <1>3, CreatedIsFresh
<1>5. IsFiniteSet(Created(tx))
  BY <1>1, <1>2, CreatedParts
<1>6. New \in SUBSET Created(tx) /\ Spent \in SUBSET coins
  BY <1>1 DEF New, Spent
<1>7. \A c \in coins : IsJoined(c) => c \in Spent
  BY <1>1, <1>4 DEF Spent
<1> HIDE DEF joined
<1> QED
  BY <1>2, <1>5, <1>6, <1>7, FS_Subset

\* A claim of a triggered output is an input's fourth condition, and the coin
\* that the input spends was signed for it.
LEMMA ClaimIsSigned ==
    ASSUME SignatureInv, NEW outputs \in Slots, Confirm(outputs),
           NEW tx, tx = Tx(pending, <<>>), NEW p \in Claims(tx),
           NEW v \in Instances, NEW target \in Targets, NEW slot,
           slot = Claimed(Condition(tx, p)),
           slot.script_pubkey = ScriptOf(TriggeredProgram(v, target))
    PROVE  /\ p[1] \in 1..Len(tx.inputs) /\ p = <<p[1], 4>> /\ HasVaultCoin(coins)
           /\ \E c \in Signing(target, slot.amount) : outpoint(c) = outpoint(tx.inputs[p[1]])
<1> DEFINE input == tx.inputs[p[1]]
           k == p[2]
<1>1. /\ p[1] \in 1..Len(tx.inputs) /\ input \in pending /\ p = <<p[1], k>>
      /\ k \in 1..Len(Conditions(input)) /\ Condition(tx, p) = Conditions(input)[k]
      /\ IsClaim(Condition(tx, p))
  BY AssembledHasInputs DEF SignatureInv, RecoveryInv, InputsAreBacked, HasInputs,
     Claims, PlacesOf, IsClaim, CreateOpcodes
<1>2. SignedFor(input)
  BY <1>1 DEF SignatureInv, InputsAreSigned
<1> HIDE DEF input, k
<1>3. k = 4 /\ \E s \in signed : Signs(s, input, target, slot.amount)
  BY <1>1, <1>2 DEF SignedFor
<1>4. PICK s \in signed : Signs(s, input, target, slot.amount)
  BY <1>3
<1>5. s.coin \in coins /\ outpoint(s.coin) = outpoint(input) /\ Owners(s.coin) # {}
  BY <1>4 DEF Signs
<1>6. s.coin \in Spent
  BY <1>1, <1>5, JoinedIsSpent DEF IsJoined
<1>7. s.coin \in Signing(target, slot.amount)
  BY <1>4, <1>6 DEF Signs, Signing
<1> QED
  BY <1>1, <1>3, <1>5, <1>7 DEF HasVaultCoin, input

\* Each triggered coin that a transaction makes is at its own claim, of its own
\* input, which spends a coin that was signed for it.
LEMMA TriggeredTakesSigning ==
    ASSUME SignatureInv, NEW outputs \in Slots, Confirm(outputs),
           NEW v \in Instances, NEW target \in Targets, NEW amount
    PROVE  Cardinality(Triggered(v, target, amount)) <= Cardinality(Signing(target, amount))
<1> DEFINE tx == Tx(pending, outputs)
           tx0 == Tx(pending, <<>>)
           T == Triggered(v, target, amount)
           U == Signing(target, amount)
<1>1. /\ Len(outputs) <= UINT32_MAX /\ IsTransaction(tx) /\ DistinctOutpoints(tx)
      /\ tx.inputs = tx0.inputs
  BY DEF Confirm, IsTransaction, Tx
<1>2. AreInputs(pending) /\ IsList(outputs)
  BY SlotsPay DEF SignatureInv, RecoveryInv, InputsAreBacked, OnlyClaimsPay
<1>3. New \subseteq Created(tx) /\ IsFiniteSet(New) /\ IsFiniteSet(Spent)
  BY JoinedIsSpent
<1>4. IsFiniteSet(T) /\ IsFiniteSet(U)
  <2>1. T \in SUBSET New /\ U \in SUBSET Spent
    BY DEF Triggered, Signing
  <2> HIDE DEF T, U
  <2> QED BY <1>3, <2>1, FS_Subset
<1>5. Cardinality(T) \in Nat /\ Cardinality(U) \in Nat
  BY <1>4, FS_CardinalityType
<1>6. ASSUME NEW c \in T
      PROVE  /\ c.index + 1 \in 1..Len(outputs) /\ c.index \in Nat
             /\ outputs[c.index + 1].script_pubkey = ScriptOf(TriggeredProgram(v, target))
             /\ outputs[c.index + 1].amount = amount
             /\ ~IsPayable(outputs[c.index + 1].script_pubkey)
             /\ \A d \in T : c.index = d.index => c = d
  <2>1. c \in Created(tx) /\ \A d \in T : d \in Created(tx)
    BY <1>3 DEF Triggered
  <2>2. /\ c.script_pubkey = ScriptOf(TriggeredProgram(v, target)) /\ c.amount = amount
        /\ ~IsPayable(c.script_pubkey)
    BY PayableIs DEF Triggered
  <2>3. /\ c.index \in 0..UINT32_MAX /\ c.index + 1 \in 1..Len(outputs)
        /\ c.script_pubkey = outputs[c.index + 1].script_pubkey
        /\ c.amount = outputs[c.index + 1].amount
        /\ \A d \in Created(tx) : c.index = d.index => c = d
    BY <1>1, <1>2, <2>1, CreatedParts
  <2>4. c.index \in Nat
    BY <2>3, LimitsAreNat
  <2> QED BY <2>1, <2>2, <2>3, <2>4
<1> HIDE DEF tx, tx0, T, U
<1>7. CASE \E some \in SUBSET Claims(tx0) : AreOutputsFor(outputs, tx0, some)
  <2>1. PICK some \in SUBSET Claims(tx0) : AreOutputsFor(outputs, tx0, some)
    BY <1>7
  <2>2. PICK order : /\ IsOrderOf(order, some) /\ Len(outputs) = Len(order)
                     /\ \A n \in 1..Len(outputs) :
                           outputs[n] = Claimed(Condition(tx0, order[n]))
    BY <2>1 DEF AreOutputsFor
  <2> DEFINE place(c) == order[c.index + 1]
             spent(c) == outpoint(tx0.inputs[place(c)[1]])
  <2>3. ASSUME NEW c \in T
        PROVE  /\ place(c)[1] \in 1..Len(tx0.inputs) /\ place(c) = <<place(c)[1], 4>>
               /\ \E d \in U : outpoint(d) = spent(c)
    <3>1. c.index + 1 \in 1..Len(outputs) /\ place(c) \in Claims(tx0)
      BY <1>6, <2>2 DEF IsOrderOf
    <3>2. outputs[c.index + 1] = Claimed(Condition(tx0, place(c)))
      BY <2>2, <3>1
    <3> HIDE DEF place
    <3> QED BY <1>6, <3>1, <3>2, ClaimIsSigned DEF tx0, U
  <2>4. ASSUME NEW c \in T, NEW d \in T, spent(c) = spent(d)
        PROVE  c = d
    <3>1. place(c)[1] = place(d)[1]
      BY <1>1, <2>3, <2>4 DEF DistinctOutpoints
    <3>2. place(c) = <<place(c)[1], 4>> /\ place(d) = <<place(d)[1], 4>>
      BY <2>3
    <3> HIDE DEF place
    <3>3. place(c) = place(d)
      BY <3>1, <3>2
    <3> USE DEF place
    <3>4. c.index + 1 = d.index + 1
      BY <1>6, <2>2, <3>3 DEF IsOrderOf
    <3>5. c.index = d.index
      BY <1>6, <3>4
    <3> QED BY <1>6, <3>5
  <2> HIDE DEF place, spent
  <2> DEFINE f == [c \in T |-> CHOOSE d \in U : outpoint(d) = spent(c)]
  <2>5. \A c \in T : f[c] \in U /\ outpoint(f[c]) = spent(c)
    BY <2>3
  <2>6. f \in [T -> U]
    BY <2>5
  <2>7. \A c, d \in T : f[c] = f[d] => c = d
    BY <2>4, <2>5
  <2> HIDE DEF f
  <2>8. f \in Injection(T, U)
    BY <2>6, <2>7 DEF Injection, IsInjective
  <2>9. Cardinality(T) <= Cardinality(U)
    BY <1>4, <2>8, FS_Injection
  <2> QED BY <2>9 DEF T, U
<1>8. CASE T = {}
  BY <1>5, <1>8, FS_EmptySet DEF T, U
<1>9. CASE OutputsArePayable(outputs)
  <2>1. T = {}
    BY <1>6, <1>9 DEF OutputsArePayable
  <2> QED BY <1>8, <2>1
<1>10. CASE OnlyClaimsPay(outputs, tx0) /\ ~HasVaultCoin(coins)
  <2>1. ASSUME NEW c \in T PROVE FALSE
    <3>1. PICK p \in Claims(tx0) : outputs[c.index + 1] = Claimed(Condition(tx0, p))
      BY <1>6, <1>10 DEF OnlyClaimsPay
    <3> QED BY <1>6, <1>10, <3>1, ClaimIsSigned DEF tx0
  <2> QED BY <1>8, <2>1
<1>11. \/ outputs \in VaultSlots(pending)
       \/ outputs \in LineageSlots(pending) /\ ~HasVaultCoin(coins)
  BY DEF Slots
<1> QED
  BY <1>2, <1>7, <1>9, <1>10, <1>11, VaultSlotsAre, LineageSlotsAre DEF tx0

\* A triggered coin takes the signature of a coin that its transaction spends,
\* for its target and its amount: none is replayed or rewritten.
THEOREM TriggersTakeSignatures ==
    ASSUME SignaturesAreIdeal
    PROVE  Spec => TriggersAreSigned
<1>1. Init => SignatureInv
  BY InitIsSigned
<1>2. SignatureInv /\ [Next]_vars => SignatureInv'
  BY StepKeepsSigned
<1>3. SignatureInv /\ [Next]_vars =>
      [ \A v \in Instances, target \in Targets, amount \in {c.amount : c \in New} :
          LET created == {c \in New : /\ c.script_pubkey = ScriptOf(TriggeredProgram(v, target))
                                      /\ c.amount = amount}
              signing == {c \in Spent :
                            \E s \in signed, p \in Owners(c) :
                               /\ p.state = "vault" /\ s.key = p.v.auth_key /\ s.coin = c
                               /\ s.order.target = target /\ s.order.trig_amt = amount}
          IN  Cardinality(created) <= Cardinality(signing) ]_coins
  <2> DEFINE created(v, target, amount) ==
                 {c \in New : /\ c.script_pubkey = ScriptOf(TriggeredProgram(v, target))
                              /\ c.amount = amount}
             signing(target, amount) ==
                 {c \in Spent : \E s \in signed, p \in Owners(c) :
                                  /\ p.state = "vault" /\ s.key = p.v.auth_key /\ s.coin = c
                                  /\ s.order.target = target /\ s.order.trig_amt = amount}
  <2> SUFFICES ASSUME SignatureInv, [Next]_vars, coins' # coins
               PROVE  \A v \in Instances, target \in Targets, amount \in {c.amount : c \in New} :
                         Cardinality(created(v, target, amount))
                           <= Cardinality(signing(target, amount))
    OBVIOUS
  <2> TAKE v \in Instances, target \in Targets, amount \in {c.amount : c \in New}
  <2>1. PICK outputs \in Slots : Confirm(outputs)
    BY StepIs DEF vars, SignTrigger, SignRecovery, SignHandover, Sign, Mine, Join
  <2>2. /\ created(v, target, amount) = Triggered(v, target, amount)
        /\ signing(target, amount) = Signing(target, amount)
    BY DEF Triggered, Signing
  <2> HIDE DEF created, signing
  <2> QED BY <2>1, <2>2, TriggeredTakesSigning
<1> QED
  BY <1>1, <1>2, <1>3, PTL DEF Spec, TriggersAreSigned

-----------------------------------------------------------------------------
(* Lineages: what a coin shows of its descent, read from the coin alone. *)

\* The descents that hold of a coin and are its own, without the other coins.
OwnProofs(l, c) ==
    {p \in [my_amount : {c.amount, c.amount + 2}, my_index : 0..MaxIndex,
            parent_tx : {c.txid}, parent_input : 0..MaxIndex, parent_vout : 0..MaxIndex,
            grandparent_tx : {tx_inputs(c.txid)[i][1] : i \in 1..Len(tx_inputs(c.txid))},
            inner : Inners] :
        /\ IsFieldList(c.txid) /\ IsDescent(l, p)
        /\ StandsAlone(LineageInput(l, c, SelfConditions(l, p)))}

Governs(l, c, inner) == \E p \in OwnProofs(l, c) : p.inner = inner
Lives(l, c) == l \in LineagesOf(c) /\ \E inner : Governs(l, c, inner)

\* Lineages have different scripts, and none is data.
LEMMA LineageScriptNames ==
    ASSUME NEW l \in Launchers
    PROVE  /\ \A m \in Launchers : LineageScript(l) = LineageScript(m) => l = m
           /\ ~IsData(LineageScript(l))
<1>1. \A m \in Launchers :
         LineageScript(m) = <<"taproot", INTERNAL_KEY, <<"singleton", <<m>>>>>>
  BY LineagesAreCommitted DEF singleton_root, curried_tree_hash
<1> QED
  BY <1>1 DEF IsData

\* So a coin is of one lineage.
LEMMA OneLineage ==
    ASSUME NEW c, NEW l \in LineagesOf(c)
    PROVE  /\ l \in Launchers /\ LineageScript(l) = c.script_pubkey
           /\ \A m \in LineagesOf(c) : m = l
  BY LineageScriptNames DEF LineagesOf

\* An input at a lineage's script that asserts these of itself is at the amount
\* and the outpoint that it names.
LEMMA SelfConditionsMean ==
    ASSUME NEW l, NEW c, IsList(c.txid), NEW p, IsList(p.parent_tx),
           NEW conditions, \A n \in 1..3 : n \in DOMAIN conditions
                                             /\ conditions[n] = SelfConditions(l, p)[n],
           StandsAlone(LineageInput(l, c, conditions))
    PROVE  p.parent_tx = c.txid /\ p.my_index = c.index /\ p.my_amount = c.amount
<1> DEFINE input == LineageInput(l, c, conditions)
           mine == Append(p.parent_tx, p.my_index)
<1>1. /\ input.conditions = conditions /\ outpoint(input) = Append(c.txid, c.index)
      /\ input.amount = c.amount
  BY DEF LineageInput, ScriptInput, outpoint
<1>2. /\ conditions[2] = Emit(ASSERT_MY_AMOUNT, <<p.my_amount>>) /\ 2 \in DOMAIN conditions
      /\ conditions[3] = Emit(ASSERT_MY_OUTPOINT, <<mine>>) /\ 3 \in DOMAIN conditions
  BY DEF SelfConditions
<1>3. /\ conditions[2].opcode = ASSERT_MY_AMOUNT /\ conditions[2].operands = <<p.my_amount>>
      /\ conditions[3].opcode = ASSERT_MY_OUTPOINT /\ conditions[3].operands = <<mine>>
  BY <1>2 DEF Emit
<1> HIDE DEF input, mine
<1>4. SelfAssertHolds(input, conditions[2]) /\ SelfAssertHolds(input, conditions[3])
  <2>1. ASSERT_MY_OUTPOINT \in SelfAsserts /\ ASSERT_MY_AMOUNT \in SelfAsserts
    BY DEF SelfAsserts
  <2>2. StandsAlone(input)
    BY DEF input
  <2> QED BY <1>1, <1>2, <1>3, <2>1, <2>2, StandsAloneMeans
<1>5. <<p.my_amount>> = <<input.amount>> /\ <<mine>> = <<outpoint(input)>>
  BY <1>3, <1>4 DEF SelfAssertHolds, ASSERT_MY_SCRIPTPUBKEY, ASSERT_MY_OUTPOINT,
     ASSERT_MY_TXID, ASSERT_MY_AMOUNT, ASSERT_MY_TAPTREE
<1>6. p.my_amount = c.amount /\ mine = Append(c.txid, c.index)
  BY <1>1, <1>5
<1> QED
  BY <1>6, AppendKeepsApart DEF mine

\* The conditions that a descent gives are the first of the wrapper's.
LEMMA SelfConditionsAre ==
    ASSUME NEW l, NEW p
    PROVE  /\ IsList(SelfConditions(l, p)) /\ Len(SelfConditions(l, p)) = 3
           /\ DOMAIN SelfConditions(l, p) = 1..3
           /\ SelfConditions(l, p)[1] = Emit(ASSERT_MY_TAPTREE, <<INTERNAL_KEY, singleton_root(l)>>)
           /\ SelfConditions(l, p)[2] = Emit(ASSERT_MY_AMOUNT, <<p.my_amount>>)
           /\ SelfConditions(l, p)[3]
                = Emit(ASSERT_MY_OUTPOINT, <<Append(p.parent_tx, p.my_index)>>)
<1> DEFINE c1 == Emit(ASSERT_MY_TAPTREE, <<INTERNAL_KEY, singleton_root(l)>>)
           c2 == Emit(ASSERT_MY_AMOUNT, <<p.my_amount>>)
           c3 == Emit(ASSERT_MY_OUTPOINT, <<Append(p.parent_tx, p.my_index)>>)
           list == SelfConditions(l, p)
<1>1. list = <<c1, c2, c3>>
  BY DEF SelfConditions
<1> HIDE DEF c1, c2, c3, list
<1>2. IsList(list) /\ Len(list) = 3 /\ list[1] = c1 /\ list[2] = c2 /\ list[3] = c3
  BY <1>1, ShortLists
<1>3. DOMAIN list = 1..3
  BY <1>2, ListParts
<1> QED
  BY <1>2, <1>3 DEF list, c1, c2, c3

\* What a coin's own descent says.
LEMMA OwnProofIs ==
    ASSUME NEW c, IsCoin(c), NEW l \in LineagesOf(c), NEW p \in OwnProofs(l, c)
    PROVE  /\ IsFieldList(c.txid) /\ p.parent_tx = c.txid
           /\ p.my_index = c.index /\ p.my_amount = c.amount /\ c.amount % 2 = 1
           /\ c.index \in 0..MaxIndex /\ c.index < Len(tx_outputs(c.txid))
           /\ p.inner \in Inners /\ IsWellFormedLineage(l)
           /\ MyScript(p) = LineageScript(l)
           /\ p.parent_input \in 0..MaxIndex /\ p.parent_input < Len(tx_inputs(c.txid))
           /\ p.grandparent_tx \in {tx_inputs(c.txid)[i][1] : i \in 1..Len(tx_inputs(c.txid))}
           /\ parent_proven(l, LineageScript(l),
                            input_outpoint(tx_inputs(c.txid)[p.parent_input + 1]),
                            p.parent_vout, p.grandparent_tx)
           /\ state_proven(state_scripts(tx_outputs(c.txid), l),
                           state_script(l, state_payload(p.inner, c.amount, c.index)))
<1> DEFINE grandparents == {tx_inputs(c.txid)[i][1] : i \in 1..Len(tx_inputs(c.txid))}
<1>1. /\ p.my_amount \in {c.amount, c.amount + 2} /\ p.my_index \in 0..MaxIndex
      /\ p.parent_tx = c.txid /\ p.parent_input \in 0..MaxIndex
      /\ p.grandparent_tx \in grandparents /\ p.inner \in Inners
      /\ IsFieldList(c.txid) /\ IsDescent(l, p)
      /\ StandsAlone(LineageInput(l, c, SelfConditions(l, p)))
  <2> HIDE DEF grandparents
  <2> QED BY DEF OwnProofs, grandparents
<1> HIDE DEF grandparents
<1>2. p.my_index = c.index /\ p.my_amount = c.amount
  <2> DEFINE list == SelfConditions(l, p)
  <2>1. \A n \in 1..3 : n \in DOMAIN list /\ list[n] = SelfConditions(l, p)[n]
    BY SelfConditionsAre
  <2>2. StandsAlone(LineageInput(l, c, list)) /\ IsList(c.txid) /\ IsList(p.parent_tx)
    BY <1>1 DEF IsCoin
  <2> HIDE DEF list
  <2> QED BY <2>1, <2>2, SelfConditionsMean
<1>3. MyScript(p) = c.script_pubkey /\ c.script_pubkey = LineageScript(l)
  BY <1>1, <1>2, OneLineage DEF MyScript, IsCoin
<1> QED
  BY <1>1, <1>2, <1>3 DEF IsDescent, grandparents

\* One state governs the coins of a transaction that live, and they are at one
\* index.
LEMMA OneState ==
    ASSUME NEW c, IsCoin(c), NEW d, IsCoin(d), c.txid = d.txid, NEW l,
           l \in LineagesOf(c), l \in LineagesOf(d),
           NEW p \in OwnProofs(l, c), NEW q \in OwnProofs(l, d)
    PROVE  p.inner = q.inner /\ c.index = d.index
<1> DEFINE scripts == state_scripts(tx_outputs(c.txid), l)
           here == state_script(l, state_payload(p.inner, c.amount, c.index))
           there == state_script(l, state_payload(q.inner, d.amount, d.index))
<1>1. state_proven(scripts, here) /\ state_proven(scripts, there)
  BY OwnProofIs
<1>2. here = there
  <2> HIDE DEF scripts, here, there
  <2> QED BY <1>1 DEF state_proven
<1> QED
  BY <1>2 DEF state_script, state_payload

\* The descents that hold for a coin are its own: what another coin's
\* transaction shows is of another outpoint.
LEMMA ProofsAreOwn ==
    ASSUME \A c \in coins : IsCoin(c), NEW coin \in coins, NEW l \in LineagesOf(coin)
    PROVE  Proofs(l, coin) = OwnProofs(l, coin)
<1> DEFINE grandparents(tx) == {tx_inputs(tx)[i][1] : i \in 1..Len(tx_inputs(tx))}
           claims(tx) == [my_amount : {coin.amount, coin.amount + 2}, my_index : 0..MaxIndex,
                          parent_tx : {tx}, parent_input : 0..MaxIndex,
                          parent_vout : 0..MaxIndex, grandparent_tx : grandparents(tx),
                          inner : Inners]
           shown == {c.txid : c \in {d \in coins : d.script_pubkey = coin.script_pubkey
                                                     /\ IsFieldList(d.txid)}}
           holds(p) == IsDescent(l, p) /\ StandsAlone(LineageInput(l, coin, SelfConditions(l, p)))
<1>1. Descents(coin) = UNION {claims(tx) : tx \in shown}
  BY DEF Descents
<1>2. \A p : p \in Proofs(l, coin) <=> (\E tx \in shown : p \in claims(tx)) /\ holds(p)
  BY <1>1 DEF Proofs
<1>3. \A p : p \in OwnProofs(l, coin)
               <=> p \in claims(coin.txid) /\ IsFieldList(coin.txid) /\ holds(p)
  BY DEF OwnProofs
<1>4. \A tx : \A p \in claims(tx) : p.parent_tx = tx
  OBVIOUS
<1>5. ASSUME NEW tx \in shown, NEW p \in claims(tx), holds(p)
      PROVE  tx = coin.txid /\ IsFieldList(coin.txid)
  <2>1. PICK d \in coins : tx = d.txid /\ IsFieldList(d.txid)
    OBVIOUS
  <2>2. p.parent_tx = tx
    BY <1>4
  <2> HIDE DEF claims, shown
  <2> DEFINE list == SelfConditions(l, p)
  <2>3. \A n \in 1..3 : n \in DOMAIN list /\ list[n] = SelfConditions(l, p)[n]
    BY SelfConditionsAre
  <2>4. StandsAlone(LineageInput(l, coin, list)) /\ IsList(coin.txid) /\ IsList(p.parent_tx)
    BY <1>5, <2>1, <2>2 DEF IsCoin
  <2> HIDE DEF list
  <2>5. p.parent_tx = coin.txid
    BY <2>3, <2>4, SelfConditionsMean
  <2> QED BY <2>1, <2>2, <2>5
<1>6. IsFieldList(coin.txid) => coin.txid \in shown
  OBVIOUS
<1> HIDE DEF claims, shown, holds
<1>7. \A p : p \in Proofs(l, coin) <=> p \in OwnProofs(l, coin)
  BY <1>2, <1>3, <1>5, <1>6
<1> QED
  BY <1>7

\* So a lineage's living coins and their states are read from the coins alone.
LivingAgrees ==
    \A l \in Launchers :
        /\ Living(l) = {c \in coins : Lives(l, c)}
        /\ \A c \in coins : l \in LineagesOf(c) =>
              \A inner : inner \in Governing(l, c) <=> Governs(l, c, inner)

\* The coins that are known suffice for it.
LEMMA LivingIs == CoinsAreKnown => LivingAgrees
<1> SUFFICES ASSUME CoinsAreKnown, NEW l \in Launchers
             PROVE  /\ Living(l) = {c \in coins : Lives(l, c)}
                    /\ \A c \in coins : l \in LineagesOf(c) =>
                          \A inner : inner \in Governing(l, c) <=> Governs(l, c, inner)
  BY DEF LivingAgrees
<1>1. \A c \in coins : l \in LineagesOf(c) => Proofs(l, c) = OwnProofs(l, c)
  BY ProofsAreOwn DEF CoinsAreKnown
<1>2. ASSUME NEW c \in coins, l \in LineagesOf(c), NEW inner
      PROVE  inner \in Governing(l, c) <=> Governs(l, c, inner)
  BY <1>1, <1>2 DEF Governing, Governs
<1>3. \A c \in coins : l \in LineagesOf(c) =>
         (Governing(l, c) # {} <=> \E inner : Governs(l, c, inner))
  BY <1>2
<1>4. \A c : c \in Living(l) <=> c \in coins /\ l \in LineagesOf(c) /\ Governing(l, c) # {}
  BY DEF Living
<1>5. \A c : c \in Living(l) <=> c \in coins /\ Lives(l, c)
  BY <1>3, <1>4 DEF Lives
<1> QED
  BY <1>2, <1>5

\* And so are they after a step.
LEMMA LivingIsNext == CoinsAreKnown' => LivingAgrees'
  BY LivingIs, PTL

-----------------------------------------------------------------------------
(* The invariant that a lineage has one living coin at most, and that every  *)
(* signature for one hands it over.                                          *)

\* An input of the wrapper, run on this coin of the lineage.
IsLineageInput(l, coin, input) ==
    /\ StandsAlone(input)
    /\ \E p \in OwnProofs(l, coin), child_index \in 0..MaxIndex :
       \E list \in InnerLists(p.inner) :
       \E rest \in morph(l, LineageScript(l), child_index, list) :
          input = LineageInput(l, coin, SelfConditions(l, p) \o rest)

\* Every joined input spends a coin; one at a lineage's script, by the wrapper.
InputsDescend ==
    /\ Cardinality(pending) <= MaxInputs
    /\ \A input \in pending : \E coin \in coins :
          /\ input.txid = coin.txid /\ input.index = coin.index
          /\ \A l \in LineagesOf(coin) : IsLineageInput(l, coin, input)

OnlyOneLives ==
    \A l \in Launchers, c, d \in coins : Lives(l, c) /\ Lives(l, d) => c = d

HandoversAreSigned ==
    \A s \in signed : LineagesOf(s.coin) # {} =>
        s.order \in Handovers /\ s.message = HandoverMessage(s.order)

\* The launcher of a lineage that lives is spent.
LaunchersArePast(past) ==
    \A l \in Launchers, c \in coins : Lives(l, c) => \E d \in past : outpoint(d) = l

LineageInv ==
    /\ SignatureInv /\ InputsDescend /\ OnlyOneLives /\ HandoversAreSigned
    /\ \E past : IsHistory(past) /\ LaunchersArePast(past)

\* At the start no lineage lives.
LEMMA InitDescends == Init => LineageInv
<1> SUFFICES ASSUME Init PROVE LineageInv
  OBVIOUS
<1>1. coins \in Fundings /\ pending = {} /\ signed = {}
  BY DEF Init
<1>2. \A c \in coins : ~IsFieldList(c.txid)
  BY <1>1, FundingsAreCoins DEF IsFunding
<1>3. \A c \in coins : \A l : ~Lives(l, c)
  BY <1>2 DEF Lives, Governs, OwnProofs
<1>4. SignatureInv
  BY InitIsSigned
<1>5. PICK past : IsHistory(past)
  BY <1>4 DEF SignatureInv
<1>6. InputsDescend
  BY <1>1, FS_EmptySet, IndexesReachInputs DEF InputsDescend
<1> QED
  BY <1>1, <1>3, <1>4, <1>5, <1>6
     DEF LineageInv, OnlyOneLives, HandoversAreSigned, LaunchersArePast

\* A step that leaves the coins and the signatures keeps it, if the input that
\* it joins descends.
LEMMA JoinDescends ==
    ASSUME LineageInv, SignatureInv', coins' = coins, signed' = signed, InputsDescend'
    PROVE  LineageInv'
<1>1. OnlyOneLives'
  BY DEF LineageInv, OnlyOneLives
<1>2. HandoversAreSigned'
  BY DEF LineageInv, HandoversAreSigned
<1>3. PICK past : IsHistory(past) /\ LaunchersArePast(past)
  BY DEF LineageInv
<1>4. IsHistory(past)' /\ LaunchersArePast(past)'
  BY <1>3 DEF IsHistory, LaunchersArePast
<1> QED
  BY <1>1, <1>2, <1>4 DEF LineageInv

\* What is joined stays so: the signatures that an inner program may show stay.
LEMMA InputStaysLineage ==
    ASSUME signed' = signed, NEW l, NEW coin, NEW input, IsLineageInput(l, coin, input)
    PROVE  IsLineageInput(l, coin, input)'
<1>1. \A inner : InnerLists(inner)' = InnerLists(inner)
  BY DEF InnerLists, Signatures
<1> QED
  BY <1>1 DEF IsLineageInput

\* An input that is joined.
LEMMA JoinKeepsDescent ==
    ASSUME LineageInv, SignatureInv', NEW input, Join(input), Cardinality(pending) < MaxInputs,
           NEW coin \in coins, input.txid = coin.txid, input.index = coin.index,
           \A l \in LineagesOf(coin) : IsLineageInput(l, coin, input)
    PROVE  LineageInv'
<1>1. pending' = pending \cup {input} /\ coins' = coins /\ signed' = signed
  BY DEF Join
<1>2. Cardinality(pending') <= MaxInputs
  <2>1. IsFiniteSet(pending) /\ Cardinality(pending) \in Nat
    BY FS_CardinalityType DEF LineageInv, SignatureInv, RecoveryInv, InputsAreBacked, AreInputs
  <2>2. Cardinality(pending \cup {input}) <= Cardinality(pending) + 1
    <3>1. Cardinality(pending \cup {input})
            = IF input \in pending THEN Cardinality(pending) ELSE Cardinality(pending) + 1
      BY <2>1, FS_AddElement
    <3> QED BY <2>1, <3>1
  <2>3. Cardinality(pending \cup {input}) \in Nat
    BY <2>1, FS_AddElement, FS_CardinalityType
  <2> QED BY <1>1, <2>1, <2>2, <2>3, IndexesReachInputs
<1>3. \A l, c, other : IsLineageInput(l, c, other) => IsLineageInput(l, c, other)'
  BY <1>1, InputStaysLineage
<1>4. ASSUME NEW other \in pending'
      PROVE  \E c \in coins : /\ other.txid = c.txid /\ other.index = c.index
                              /\ \A l \in LineagesOf(c) : IsLineageInput(l, c, other)
  BY <1>1 DEF LineageInv, InputsDescend
<1>5. InputsDescend'
  BY <1>1, <1>2, <1>3, <1>4 DEF InputsDescend
<1> QED
  BY <1>1, <1>5, JoinDescends

\* A signature that is added keeps it, if one for a lineage's coin hands it over.
LEMMA SignKeepsDescent ==
    ASSUME LineageInv, SignatureInv', pending = {}, NEW key, NEW coin, NEW message, NEW order,
           Sign(key, coin, message, order),
           LineagesOf(coin) # {} => order \in Handovers /\ message = HandoverMessage(order)
    PROVE  LineageInv'
<1> DEFINE s == [key |-> key, coin |-> coin, message |-> message, order |-> order]
<1>1. /\ signed' = signed \cup {s} /\ coins' = coins /\ pending' = {}
      /\ s.coin = coin /\ s.order = order /\ s.message = message
  BY DEF Sign
<1> HIDE DEF s
<1>2. HandoversAreSigned'
  BY <1>1 DEF LineageInv, HandoversAreSigned
<1>3. OnlyOneLives'
  BY <1>1 DEF LineageInv, OnlyOneLives
<1>4. PICK past : IsHistory(past) /\ LaunchersArePast(past)
  BY DEF LineageInv
<1>5. IsHistory(past)' /\ LaunchersArePast(past)'
  BY <1>1, <1>4 DEF IsHistory, LaunchersArePast
<1>6. InputsDescend'
  BY <1>1, FS_EmptySet, IndexesReachInputs DEF InputsDescend
<1> QED
  BY <1>2, <1>3, <1>5, <1>6 DEF LineageInv

\* The keys of vaults sign for their coins, and those of owners for lineages'.
LEMMA SigningKeepsDescent ==
    ASSUME LineageInv, SignatureInv', SignTrigger \/ SignRecovery \/ SignHandover
    PROVE  LineageInv'
<1>1. pending = {}
  BY DEF SignTrigger, SignRecovery, SignHandover, CanSign
<1>2. ASSUME NEW coin, NEW program \in Owners(coin) PROVE LineagesOf(coin) = {}
  <2>1. IsVaultScript(coin.script_pubkey)
    BY ProgramIs DEF Owners
  <2> QED BY <2>1, LineagesAreNoVaults DEF LineagesOf
<1>3. CASE SignTrigger
  <2>1. PICK coin \in coins, order \in Orders : \E program \in Owners(coin) :
           Sign(program.v.auth_key, coin, TriggerMessage(order), order)
    BY <1>3 DEF SignTrigger
  <2> QED BY <1>1, <1>2, <2>1, SignKeepsDescent
<1>4. CASE SignRecovery
  <2> DEFINE message(coin) == RecoveryMessage([my_amt |-> coin.amount, recover_amt |-> coin.amount])
  <2>1. PICK coin \in coins : \E program \in Owners(coin) :
           Sign(program.v.recovery_key, coin, message(coin), NoOrder)
    BY <1>4 DEF SignRecovery
  <2> HIDE DEF message
  <2> QED BY <1>1, <1>2, <2>1, SignKeepsDescent
<1>5. CASE SignHandover
  <2>1. PICK launcher \in Launchers : \E coin \in Living(launcher) :
           \E inner \in Governing(launcher, coin), order \in Handovers :
              Sign(inner[2], coin, HandoverMessage(order), order)
    BY <1>5 DEF SignHandover
  <2>2. PICK coin \in Living(launcher) : \E inner : \E order \in Handovers :
              Sign(inner[2], coin, HandoverMessage(order), order)
    BY <2>1
  <2> QED BY <1>1, <2>2, SignKeepsDescent
<1> QED
  BY <1>3, <1>4, <1>5

-----------------------------------------------------------------------------
(* What a lineage's input asks for. *)

\* Concatenation, four times.
LEMMA PrefixOfJoin ==
    ASSUME NEW a, IsList(a), NEW b, IsList(b)
    PROVE  /\ IsList(a \o b) /\ DOMAIN (a \o b) = 1..Len(a \o b)
           /\ Len(a \o b) = Len(a) + Len(b) /\ Len(a) \in Nat /\ Len(b) \in Nat
           /\ \A i \in 1..Len(a) : i \in 1..Len(a \o b) /\ (a \o b)[i] = a[i]
           /\ \A i \in 1..Len(b) : Len(a) + i \in 1..Len(a \o b) /\ (a \o b)[Len(a) + i] = b[i]
<1> DEFINE c == a \o b
           m == Len(a)
           n == Len(b)
<1>1. Joined(a, b, c)
  BY ConcatIs
<1> HIDE DEF c
<1>2. /\ IsList(c) /\ m \in Nat /\ n \in Nat /\ Len(c) = m + n
      /\ \A i \in 1..Len(c) : c[i] = IF i <= m THEN a[i] ELSE b[i - m]
  BY <1>1 DEF Joined
<1>3. DOMAIN c = 1..Len(c)
  BY <1>2, ListParts
<1> HIDE DEF m, n
<1>4. \A i \in 1..m : i \in 1..Len(c) /\ c[i] = a[i]
  BY <1>2
<1>5. ASSUME NEW i \in 1..n PROVE m + i \in 1..Len(c) /\ c[m + i] = b[i]
  <2>1. m + i \in 1..Len(c) /\ ~(m + i <= m) /\ (m + i) - m = i
    BY <1>2
  <2> QED BY <1>2, <2>1
<1> QED
  BY <1>2, <1>3, <1>4, <1>5 DEF c, m, n

\* What an owner's program yields: the signature, the seal, and the child.
LEMMA OwnerListIs ==
    ASSUME NEW inner, IsOwned(inner), NEW list \in InnerLists(inner)
    PROVE  \E o \in Handovers, sig \in Signatures :
              /\ IsList(list) /\ Len(list) \in Nat /\ Len(list) >= 3
              /\ list[1] = Emit(ASSERT_SIG_MY_OUTPOINT, <<inner[2], HandoverMessage(o), sig>>)
              /\ list[2] = Emit(SEAL_OUTPUTS, <<o.outputs_hash>>)
              /\ list[3] = Emit(CREATE_OUTPUT, <<o.next_inner, o.next_amount>>)
<1>1. PICK o \in Handovers, sig \in Signatures :
         list = owner_inner(inner[2], [order |-> o, sig |-> sig])
  BY DEF InnerLists
<1> DEFINE c1 == Emit(ASSERT_SIG_MY_OUTPOINT, <<inner[2], HandoverMessage(o), sig>>)
           c2 == Emit(SEAL_OUTPUTS, <<o.outputs_hash>>)
           c3 == Emit(CREATE_OUTPUT, <<o.next_inner, o.next_amount>>)
           front == <<c1, c2, c3>>
           extra == o.extra_conditions
<1>2. list = front \o extra
  BY <1>1 DEF owner_inner
<1>3. IsList(extra)
  BY OthersPayDeposits DEF NamesPayable, IsList
<1> HIDE DEF c1, c2, c3, extra
<1>4. /\ IsList(front) /\ Len(front) = 3
      /\ front[1] = c1 /\ front[2] = c2 /\ front[3] = c3
  BY ShortLists
<1> HIDE DEF front
<1>5. /\ IsList(list) /\ Len(list) = 3 + Len(extra) /\ Len(extra) \in Nat
      /\ \A i \in 1..3 : list[i] = front[i]
  <2>1. /\ IsList(front \o extra) /\ Len(front \o extra) = Len(front) + Len(extra)
        /\ Len(extra) \in Nat /\ \A i \in 1..Len(front) : (front \o extra)[i] = front[i]
    <3>1. IsList(front) /\ IsList(extra)
      BY <1>3, <1>4
    <3> QED BY ONLY <3>1, PrefixOfJoin
  <2> QED BY <1>2, <1>4, <2>1
<1>6. list[1] = c1 /\ list[2] = c2 /\ list[3] = c3
  BY <1>4, <1>5
<1>7. /\ IsList(list) /\ Len(list) \in Nat /\ Len(list) >= 3
      /\ list[1] = c1 /\ list[2] = c2 /\ list[3] = c3
  BY <1>5, <1>6
<1> QED
  BY <1>7 DEF c1, c2, c3

\* The wrapper passes the first two through, and rewrites the third.
LEMMA OwnerMorph ==
    ASSUME NEW list, IsList(list), Len(list) \in Nat, Len(list) >= 3, NEW inner, NEW amount,
           list[3] = Emit(CREATE_OUTPUT, <<inner, amount>>), amount % 2 = 1,
           NEW l, NEW my_spk, NEW child_index, NEW rest \in morph(l, my_spk, child_index, list)
    PROVE  \E rewritten \in morph_one(l, my_spk, child_index, list[3]) :
              /\ IsList(rest) /\ rest[1] = list[1] /\ rest[2] = list[2]
              /\ \A i \in 1..Len(rewritten) : 2 + i \in 1..Len(rest) /\ rest[2 + i] = rewritten[i]
              /\ {1, 2} \subseteq 1..Len(rest) /\ IsList(rewritten)
<1> DEFINE odd == {n \in DOMAIN list : created_amount(list[n]) % 2 = 1}
           n == CHOOSE m \in odd : TRUE
<1>1. DOMAIN list = 1..Len(list)
  BY ListParts
<1>2. Cardinality(odd) = 1
  BY DEF morph
<1>3. PICK rewritten \in morph_one(l, my_spk, child_index, list[n]) :
         rest = SubSeq(list, 1, n - 1) \o rewritten \o SubSeq(list, n + 1, Len(list))
  BY DEF morph
<1>4. n = 3
  <2>1. IsFiniteSet(odd)
    <3>1. odd \in SUBSET (1..Len(list)) /\ IsFiniteSet(1..Len(list))
      BY <1>1, FS_Interval
    <3> HIDE DEF odd
    <3> QED BY <3>1, FS_Subset
  <2>2. 3 \in odd
    <3>1. created_amount(list[3]) = amount
      BY DEF created_amount, Emit, CREATE_OUTPUT, CREATE_OUTPUT_TAPROOT
    <3> QED BY <1>1, <3>1
  <2> HIDE DEF odd
  <2>3. \E x : odd = {x}
    BY <1>2, <2>1, FS_Singleton
  <2> QED BY <2>2, <2>3
<1> HIDE DEF n, odd
<1> DEFINE front == SubSeq(list, 1, 2)
           back == SubSeq(list, 4, Len(list))
           most == front \o rewritten
<1>5. /\ IsList(front) /\ Len(front) = 2
      /\ front[1] = list[1] /\ front[2] = list[2]
  <2>1. front = [i \in 1..2 |-> list[1 + i - 1]]
    OBVIOUS
  <2>2. front = [i \in 1..2 |-> front[i]] /\ front[1] = list[1] /\ front[2] = list[2]
    BY <2>1
  <2> HIDE DEF front
  <2> QED BY <2>2, ListIs
<1>6. IsList(back)
  <2>1. 4 \in Nat /\ Len(list) \in Nat /\ 4 >= 1 /\ Len(list) <= Len(list)
    OBVIOUS
  <2> QED BY <2>1, PartIs DEF PartOf
<1>7. IsList(rewritten)
  <2> DEFINE state(payload) == Emit(CREATE_OUTPUT, <<state_script(l, payload), 0>>)
             child == Emit(CREATE_OUTPUT, <<my_spk, list[3].operands[2]>>)
             next == state(state_payload(list[3].operands[1], list[3].operands[2], child_index))
  <2>1. rewritten = <<state(END_PAYLOAD)>> \/ rewritten = <<child, next>>
    BY <1>3, <1>4 DEF morph_one
  <2> HIDE DEF state, child, next
  <2>2. CASE rewritten = <<state(END_PAYLOAD)>>
    BY <2>2, ShortLists
  <2>3. CASE rewritten = <<child, next>>
    <3>1. rewritten = [i \in 1..2 |-> rewritten[i]]
      BY <2>3
    <3> QED BY <3>1, ListIs
  <2> QED BY <2>1, <2>2, <2>3
<1>8. rest = most \o back
  BY <1>3, <1>4
<1> HIDE DEF front, back
<1>9. /\ IsList(most) /\ Len(most) = 2 + Len(rewritten) /\ Len(rewritten) \in Nat
      /\ \A i \in 1..2 : i \in 1..Len(most) /\ most[i] = front[i]
      /\ \A i \in 1..Len(rewritten) : 2 + i \in 1..Len(most) /\ most[2 + i] = rewritten[i]
  <2>1. /\ IsList(most) /\ Len(most) = Len(front) + Len(rewritten) /\ Len(rewritten) \in Nat
        /\ \A i \in 1..Len(front) : i \in 1..Len(most) /\ most[i] = front[i]
        /\ \A i \in 1..Len(rewritten) :
              Len(front) + i \in 1..Len(most) /\ most[Len(front) + i] = rewritten[i]
    <3>1. IsList(front) /\ IsList(rewritten)
      BY <1>5, <1>7
    <3> HIDE DEF most
    <3> QED BY ONLY <3>1, PrefixOfJoin DEF most
  <2> HIDE DEF most
  <2> QED BY <1>5, <2>1
<1> HIDE DEF most
<1>10. IsList(rest) /\ \A i \in 1..Len(most) : i \in 1..Len(rest) /\ rest[i] = most[i]
  <2>1. IsList(most) /\ IsList(back)
    BY <1>6, <1>9
  <2>2. /\ IsList(most \o back)
        /\ \A i \in 1..Len(most) : i \in 1..Len(most \o back) /\ (most \o back)[i] = most[i]
    BY ONLY <2>1, PrefixOfJoin
  <2> QED BY <1>8, <2>2
<1>11. /\ rest[1] = list[1] /\ rest[2] = list[2] /\ {1, 2} \subseteq 1..Len(rest)
       /\ \A i \in 1..Len(rewritten) : 2 + i \in 1..Len(rest) /\ rest[2 + i] = rewritten[i]
  BY <1>5, <1>9, <1>10
<1> QED
  BY <1>3, <1>4, <1>7, <1>10, <1>11

\* One of the input's conditions.
Asks(input, c) == \E k \in 1..Len(Conditions(input)) : Conditions(input)[k] = c

StateOutput(l, payload) == Emit(CREATE_OUTPUT, <<state_script(l, payload), 0>>)

\* An input that the owner's key signs, seals and hands over with this order.
AsksHandover(l, input, key, o, index) ==
    /\ \E sig \in Signatures :
          Asks(input, Emit(ASSERT_SIG_MY_OUTPOINT, <<key, HandoverMessage(o), sig>>))
    /\ Asks(input, Emit(SEAL_OUTPUTS, <<o.outputs_hash>>))
    /\ IF o.next_amount = END_AMOUNT THEN Asks(input, StateOutput(l, END_PAYLOAD))
       ELSE /\ o.next_inner \in Inners
            /\ Asks(input, StateOutput(l, state_payload(o.next_inner, o.next_amount, index)))

\* What the wrapper puts for the child.
LEMMA RewrittenIs ==
    ASSUME NEW l, NEW my_spk, NEW index, NEW inner, NEW amount, NEW c,
           c = Emit(CREATE_OUTPUT, <<inner, amount>>),
           NEW rewritten \in morph_one(l, my_spk, index, c)
    PROVE  IF amount = END_AMOUNT
           THEN 1 \in 1..Len(rewritten) /\ rewritten[1] = StateOutput(l, END_PAYLOAD)
           ELSE /\ inner \in Inners /\ 2 \in 1..Len(rewritten)
                /\ rewritten[2] = StateOutput(l, state_payload(inner, amount, index))
<1>1. c.operands[1] = inner /\ c.operands[2] = amount
  BY DEF Emit
<1> DEFINE child == Emit(CREATE_OUTPUT, <<my_spk, amount>>)
<1>2. CASE amount = END_AMOUNT
  <2>1. rewritten = <<StateOutput(l, END_PAYLOAD)>>
    BY <1>1, <1>2 DEF morph_one, StateOutput
  <2> QED BY <1>2, <2>1, ShortLists
<1>3. CASE amount # END_AMOUNT
  <2>1. /\ inner \in Inners
        /\ rewritten = <<child, StateOutput(l, state_payload(inner, amount, index))>>
    BY <1>1, <1>3 DEF morph_one, StateOutput
  <2> HIDE DEF child
  <2>2. rewritten = [i \in 1..2 |-> rewritten[i]]
    BY <2>1
  <2>3. Len(rewritten) = 2
    BY <2>2, ListIs
  <2>4. rewritten[2] = StateOutput(l, state_payload(inner, amount, index))
    BY <2>1
  <2> QED BY <1>3, <2>1, <2>3, <2>4
<1> QED
  BY <1>2, <1>3

\* An owner's input is of one order.
LEMMA OwnerAsks ==
    ASSUME NoneIsNoList, NEW coin, IsCoin(coin), NEW l \in LineagesOf(coin), NEW input,
           IsLineageInput(l, coin, input), NEW inner, Governs(l, coin, inner), IsOwned(inner)
    PROVE  \E o \in Handovers, index \in 0..MaxIndex : AsksHandover(l, input, inner[2], o, index)
<1>1. PICK p \in OwnProofs(l, coin), index \in 0..MaxIndex :
         \E list \in InnerLists(p.inner) :
         \E rest \in morph(l, LineageScript(l), index, list) :
            input = LineageInput(l, coin, SelfConditions(l, p) \o rest)
  BY DEF IsLineageInput
<1>2. PICK list \in InnerLists(p.inner) : \E rest \in morph(l, LineageScript(l), index, list) :
         input = LineageInput(l, coin, SelfConditions(l, p) \o rest)
  BY <1>1
<1>3. PICK rest \in morph(l, LineageScript(l), index, list) :
         input = LineageInput(l, coin, SelfConditions(l, p) \o rest)
  BY <1>2
<1>4. p.inner = inner
  <2>1. PICK q \in OwnProofs(l, coin) : q.inner = inner
    BY DEF Governs
  <2> QED BY <2>1, OneState
<1>5. PICK o \in Handovers, sig \in Signatures :
         /\ IsList(list) /\ Len(list) \in Nat /\ Len(list) >= 3
         /\ list[1] = Emit(ASSERT_SIG_MY_OUTPOINT, <<inner[2], HandoverMessage(o), sig>>)
         /\ list[2] = Emit(SEAL_OUTPUTS, <<o.outputs_hash>>)
         /\ list[3] = Emit(CREATE_OUTPUT, <<o.next_inner, o.next_amount>>)
  BY <1>4, OwnerListIs
<1> DEFINE c1 == Emit(ASSERT_SIG_MY_OUTPOINT, <<inner[2], HandoverMessage(o), sig>>)
           c2 == Emit(SEAL_OUTPUTS, <<o.outputs_hash>>)
           front == SelfConditions(l, p)
<1>6. PICK rewritten \in morph_one(l, LineageScript(l), index, list[3]) :
         /\ IsList(rest) /\ rest[1] = list[1] /\ rest[2] = list[2]
         /\ \A i \in 1..Len(rewritten) : 2 + i \in 1..Len(rest) /\ rest[2 + i] = rewritten[i]
         /\ {1, 2} \subseteq 1..Len(rest)
  <2>1. o.next_amount % 2 = 1
    BY HandoversAreOdd
  <2> QED BY <1>5, <2>1, OwnerMorph
<1>7. IsList(front)
  BY SelfConditionsAre
<1> HIDE DEF front
<1>8. /\ IsList(front \o rest)
      /\ \A i \in 1..Len(rest) : \E k \in 1..Len(front \o rest) : (front \o rest)[k] = rest[i]
  <2>1. IsList(front) /\ IsList(rest)
    BY <1>6, <1>7
  <2>2. /\ IsList(front \o rest)
        /\ \A i \in 1..Len(rest) : /\ Len(front) + i \in 1..Len(front \o rest)
                                  /\ (front \o rest)[Len(front) + i] = rest[i]
    BY ONLY <2>1, PrefixOfJoin
  <2> QED BY <2>2
<1>9. Conditions(input) = front \o rest
  <2>1. input.conditions = front \o rest
    BY <1>3 DEF LineageInput, ScriptInput, front
  <2>2. front \o rest # NotBitLisp
    BY <1>8 DEF NoneIsNoList, IsList
  <2> QED BY <2>1, <2>2 DEF Conditions
<1>10. \A i \in 1..Len(rest) : Asks(input, rest[i])
  BY <1>8, <1>9 DEF Asks
<1>11. Asks(input, c1) /\ Asks(input, c2)
  BY <1>5, <1>6, <1>10
<1>12. \A i \in 1..Len(rewritten) : Asks(input, rewritten[i])
  BY <1>6, <1>10
<1> HIDE DEF c1, c2
<1>13. IF o.next_amount = END_AMOUNT THEN Asks(input, StateOutput(l, END_PAYLOAD))
       ELSE /\ o.next_inner \in Inners
            /\ Asks(input, StateOutput(l, state_payload(o.next_inner, o.next_amount, index)))
  <2>1. IF o.next_amount = END_AMOUNT
        THEN 1 \in 1..Len(rewritten) /\ rewritten[1] = StateOutput(l, END_PAYLOAD)
        ELSE /\ o.next_inner \in Inners /\ 2 \in 1..Len(rewritten)
             /\ rewritten[2] = StateOutput(l, state_payload(o.next_inner, o.next_amount, index))
    BY <1>5, <1>6, RewrittenIs
  <2> QED BY <1>12, <2>1
<1>14. AsksHandover(l, input, inner[2], o, index)
  BY <1>11, <1>13 DEF AsksHandover, c1, c2
<1> QED
  BY <1>14

\* A transaction that validation accepts has an output for each claim, and the
\* outputs of each seal.
LEMMA ValidMeans ==
    ASSUME NEW tx, IsValid(tx)
    PROVE  OutputClaimsHold(tx) /\ SealsHold(tx)
<1> DEFINE v == Verdicts(tx)
           raised == {n \in DOMAIN v : v[n] # Valid}
<1>1. v = <<check_self_asserts(tx), check_output_claims(tx), check_time_asserts(tx),
            check_messages(tx), check_announcements(tx), check_fee_reserve(tx),
            check_seals(tx), check_signature_asserts(tx)>>
  BY DEF Verdicts
<1>2. DOMAIN v = 1..8 /\ v[2] = check_output_claims(tx) /\ v[7] = check_seals(tx)
  BY <1>1
<1>3. raised = {}
  <2>1. SUFFICES ASSUME raised # {} PROVE FALSE
    OBVIOUS
  <2>2. v[CHOOSE n \in raised : \A m \in raised : n <= m] = Valid
    BY <2>1 DEF IsValid, validate_transaction, FirstRaised
  <2>3. raised \in SUBSET Nat
    BY <1>2
  <2>4. \E n \in raised : \A m \in raised : n <= m
    <3> HIDE DEF raised
    <3> QED BY <2>1, <2>3, LeastElement
  <2>5. (CHOOSE n \in raised : \A m \in raised : n <= m) \in raised
    BY <2>4
  <2> QED BY <2>2, <2>5
<1>4. check_output_claims(tx) = Valid /\ check_seals(tx) = Valid
  BY <1>2, <1>3
<1> QED
  BY <1>4 DEF check_output_claims, check_seals, Checked, Valid

\* So what a joined input asks for is so.
LEMMA ConfirmedMeans ==
    ASSUME AreInputs(pending), NEW outputs, NEW tx, tx = Tx(pending, outputs), IsValid(tx),
           NEW input \in pending, NEW c, Asks(input, c)
    PROVE  /\ IsClaim(c) => \E j \in 1..Len(outputs) : outputs[j] = Claimed(c)
           /\ c.opcode = SEAL_OUTPUTS => c.operands[1] = outputs_hash(tx)
<1>1. IsOrderOf(tx.inputs, pending) /\ IsFiniteSet(Places(tx))
  BY AssembledHasInputs DEF HasInputs
<1>2. PICK i \in 1..Len(tx.inputs) : tx.inputs[i] = input
  BY <1>1 DEF IsOrderOf
<1>3. PICK k \in 1..Len(Conditions(input)) : Conditions(input)[k] = c
  BY DEF Asks
<1>4. PICK p \in Places(tx) : Condition(tx, p) = c
  <2> DEFINE p == <<i, k>>
  <2>1. p \in Places(tx)
    BY <1>2 DEF Places
  <2>2. Condition(tx, p) = c
    BY <1>2, <1>3 DEF Condition
  <2> QED BY <2>1, <2>2
<1>5. OutputClaimsHold(tx) /\ SealsHold(tx)
  BY ValidMeans
<1>6. ASSUME IsClaim(c) PROVE \E j \in 1..Len(outputs) : outputs[j] = Claimed(c)
  <2> DEFINE content == Claimed(c)
             claims == ClaimsOf(tx, content)
             slots == SlotsOf(tx, content)
  <2>1. p \in Claims(tx)
    BY <1>4, <1>6 DEF Claims, PlacesOf, IsClaim, CreateOpcodes
  <2>2. Cardinality(claims) <= Cardinality(slots)
    BY <1>4, <1>5, <2>1 DEF OutputClaimsHold
  <2>3. p \in claims /\ claims \in SUBSET Places(tx)
    BY <1>4, <2>1 DEF ClaimsOf, Claims, PlacesOf
  <2> HIDE DEF claims
  <2>4. IsFiniteSet(claims) /\ Cardinality(claims) \in Nat /\ Cardinality(claims) # 0
    <3>1. IsFiniteSet(claims)
      BY <1>1, <2>3, FS_Subset
    <3> QED BY <2>3, <3>1, FS_CardinalityType, FS_EmptySet
  <2>5. slots # {}
    <3> HIDE DEF slots
    <3> QED BY <2>2, <2>4, FS_EmptySet
  <2>6. tx.outputs = outputs
    BY DEF Tx
  <2> QED BY <2>5, <2>6 DEF SlotsOf
<1>7. ASSUME c.opcode = SEAL_OUTPUTS PROVE c.operands[1] = outputs_hash(tx)
  <2>1. p \in PlacesOf(tx, {SEAL, SEAL_OUTPUTS}) /\ SEAL_OUTPUTS # SEAL
    BY <1>4, <1>7 DEF PlacesOf, SEAL, SEAL_OUTPUTS
  <2> QED BY <1>4, <1>5, <1>7, <2>1 DEF SealsHold
<1> QED
  BY <1>6, <1>7

-----------------------------------------------------------------------------
(* A transaction of a lineage. *)

\* A transaction shows its inputs and its outputs in its fields.
LEMMA FieldsShow ==
    ASSUME AreInputs(pending), NEW outputs, NEW tx, tx = Tx(pending, outputs)
    PROVE  /\ IsFieldList(txid(tx)) /\ tx_outputs(txid(tx)) = outputs_hash(tx)
           /\ Len(tx.inputs) = Cardinality(pending) /\ Len(tx.inputs) \in Nat
           /\ Len(tx_inputs(txid(tx))) = Len(tx.inputs)
           /\ \A input \in pending : \E i \in 1..Len(tx.inputs) : tx.inputs[i] = input
           /\ \A i \in 1..Len(tx.inputs) :
                 /\ tx.inputs[i] \in pending
                 /\ tx_inputs(txid(tx))[i][1] = tx.inputs[i].txid
                 /\ input_outpoint(tx_inputs(txid(tx))[i]) = outpoint(tx.inputs[i])
<1> DEFINE n == Len(tx.inputs)
           row == [i \in 1..n |-> <<tx.inputs[i].txid, tx.inputs[i].index,
                                    tx.inputs[i].script_sig, tx.inputs[i].sequence>>]
<1>1. /\ n = Cardinality(pending) /\ n \in Nat
      /\ \A i \in 1..n : tx.inputs[i] \in pending
      /\ \A input \in pending : \E i \in 1..n : tx.inputs[i] = input
  BY AssembledHasInputs DEF HasInputs, IsOrderOf
<1>2. /\ IsFieldList(txid(tx)) /\ tx_inputs(txid(tx)) = row
      /\ tx_outputs(txid(tx)) = outputs_hash(tx)
  BY ShortLists DEF txid, IsFieldList, tx_inputs, tx_outputs
<1>3. Len(row) = n
  BY <1>1
<1>4. \A i \in 1..n : row[i][1] = tx.inputs[i].txid /\ row[i][2] = tx.inputs[i].index
  OBVIOUS
<1> HIDE DEF row
<1>5. \A i \in 1..n : input_outpoint(row[i]) = outpoint(tx.inputs[i])
  BY <1>4 DEF input_outpoint, outpoint
<1> QED
  BY <1>1, <1>2, <1>3, <1>4, <1>5

\* The conditions that a descent of the coin's own gives hold by themselves.
LEMMA SelfConditionsStand ==
    ASSUME NEW l, NEW c, NEW p,
           p.parent_tx = c.txid, p.my_index = c.index, p.my_amount = c.amount
    PROVE  StandsAlone(LineageInput(l, c, SelfConditions(l, p)))
<1> DEFINE list == SelfConditions(l, p)
           input == LineageInput(l, c, list)
           tx == Tx({input}, <<>>)
           c1 == Emit(ASSERT_MY_TAPTREE, <<INTERNAL_KEY, singleton_root(l)>>)
           c2 == Emit(ASSERT_MY_AMOUNT, <<c.amount>>)
           c3 == Emit(ASSERT_MY_OUTPOINT, <<outpoint(c)>>)
<1>1. /\ DOMAIN list = 1..3 /\ Len(list) = 3
      /\ list[1] = c1 /\ list[2] = c2 /\ list[3] = c3
  BY SelfConditionsAre DEF outpoint
<1>2. /\ input.conditions = list /\ outpoint(input) = outpoint(c) /\ input.amount = c.amount
      /\ input.internal_key = INTERNAL_KEY /\ input.merkle_root = singleton_root(l)
  BY DEF LineageInput, ScriptInput, outpoint
<1>3. HasOneInput(tx, input)
  BY OneInput
<1>4. /\ c1.opcode = ASSERT_MY_TAPTREE /\ c1.operands = <<INTERNAL_KEY, singleton_root(l)>>
      /\ c2.opcode = ASSERT_MY_AMOUNT /\ c2.operands = <<c.amount>>
      /\ c3.opcode = ASSERT_MY_OUTPOINT /\ c3.operands = <<outpoint(c)>>
  BY DEF Emit
<1> HIDE DEF c1, c2, c3, input, tx, list
<1>5. \A n \in DOMAIN input.conditions : SelfAssertHolds(input, input.conditions[n])
  <2>1. SelfAssertHolds(input, c1) /\ SelfAssertHolds(input, c2) /\ SelfAssertHolds(input, c3)
    BY <1>2, <1>4 DEF SelfAssertHolds, ASSERT_MY_SCRIPTPUBKEY, ASSERT_MY_OUTPOINT,
       ASSERT_MY_TXID, ASSERT_MY_AMOUNT, ASSERT_MY_TAPTREE
  <2> QED BY <1>1, <1>2, <2>1
<1>6. \A q \in Places(tx) :
         Condition(tx, q).opcode \in {ASSERT_MY_TAPTREE, ASSERT_MY_AMOUNT, ASSERT_MY_OUTPOINT}
  <2>1. Conditions(input) = <<>> \/ Conditions(input) = list
    BY <1>2 DEF Conditions
  <2>2. ASSUME NEW k \in 1..Len(Conditions(input))
        PROVE  Conditions(input)[k].opcode
                 \in {ASSERT_MY_TAPTREE, ASSERT_MY_AMOUNT, ASSERT_MY_OUTPOINT}
    <3>1. CASE Conditions(input) = <<>>
      BY <2>2, <3>1, ShortLists
    <3>2. CASE Conditions(input) = list
      <4>0. k \in 1..3
        <5>1. Len(Conditions(input)) = 3
          BY <1>1, <3>2
        <5> QED BY <2>2, <5>1
      <4>1. k = 1 \/ k = 2 \/ k = 3
        BY <4>0
      <4>2. list[k] \in {c1, c2, c3}
        BY <1>1, <4>1
      <4> QED BY <1>4, <3>2, <4>2
    <3> QED BY <2>1, <3>1, <3>2
  <2> QED BY <1>3, <2>2 DEF HasOneInput
<1>7. check_time_asserts(tx) = Valid
  <2>1. \A q \in Places(tx) : Condition(tx, q).opcode \notin
           {ASSERT_LOCKTIME_HEIGHT, ASSERT_LOCKTIME_TIME,
            ASSERT_SEQUENCE_HEIGHT, ASSERT_SEQUENCE_TIME}
    BY <1>6 DEF ASSERT_LOCKTIME_HEIGHT, ASSERT_LOCKTIME_TIME,
       ASSERT_SEQUENCE_HEIGHT, ASSERT_SEQUENCE_TIME,
       ASSERT_MY_TAPTREE, ASSERT_MY_AMOUNT, ASSERT_MY_OUTPOINT
  <2>2. \A q \in FailedTimeAsserts(tx) : q \in Places(tx)
    BY DEF FailedTimeAsserts
  <2>3. \A q \in FailedTimeAsserts(tx) : Condition(tx, q).opcode \in
           {ASSERT_LOCKTIME_HEIGHT, ASSERT_LOCKTIME_TIME,
            ASSERT_SEQUENCE_HEIGHT, ASSERT_SEQUENCE_TIME}
    BY DEF FailedTimeAsserts
  <2>4. FailedTimeAsserts(tx) = {}
    BY <2>1, <2>2, <2>3
  <2> QED BY <2>4 DEF check_time_asserts
<1>8. check_signature_asserts(tx) = Valid
  <2>0. SigOpcodes \cap {ASSERT_MY_TAPTREE, ASSERT_MY_AMOUNT, ASSERT_MY_OUTPOINT} = {}
    BY DEF SigOpcodes, SIG_BINDINGS, ASSERT_MY_TAPTREE, ASSERT_MY_AMOUNT,
       ASSERT_MY_OUTPOINT, ASSERT_SIG_MY_TXID, ASSERT_SIG_MY_OUTPOINT,
       ASSERT_SIG_MY_SCRIPTPUBKEY, ASSERT_SIG_MY_AMOUNT, ASSERT_SIG_MY_SCRIPTPUBKEY_AMOUNT,
       ASSERT_SIG_MY_TXID_AMOUNT, ASSERT_SIG_MY_TXID_SCRIPTPUBKEY, ASSERT_SIG_RAW
  <2>1. PlacesOf(tx, SigOpcodes) = {}
    BY <1>6, <2>0 DEF PlacesOf
  <2>2. SignaturesHold(tx)
    BY <2>1 DEF SignaturesHold
  <2> QED BY <2>2 DEF check_signature_asserts, Checked
<1>9. StandsAlone(input)
  BY <1>5, <1>7, <1>8 DEF StandsAlone, tx
<1> QED
  BY <1>9 DEF input, list

\* A coin that a transaction makes lives only as the child of a joined coin: of
\* the launcher, or of one that lives.
LEMMA NewLives ==
    ASSUME LineageInv, NEW outputs \in Slots, Confirm(outputs),
           NEW tx, tx = Tx(pending, outputs),
           NEW l \in Launchers, NEW c \in Created(tx), Lives(l, c)
    PROVE  \E b \in coins : IsJoined(b) /\ (outpoint(b) = l \/ Lives(l, b))
<1>1. Len(outputs) <= UINT32_MAX /\ IsTransaction(tx)
  BY DEF Confirm
<1>2. AreInputs(pending) /\ InputsAreBacked /\ InputsDescend /\ \A b \in coins : IsCoin(b)
  BY DEF LineageInv, SignatureInv, RecoveryInv, InputsAreBacked, CoinsAreKnown
<1>3. IsCoin(c) /\ c.txid = txid(tx)
  <2>1. IsList(outputs)
    BY <1>2, SlotsPay DEF OnlyClaimsPay
  <2> QED BY <1>1, <1>2, <2>1, CreatedIsKnown, CreatedParts
<1>4. l \in LineagesOf(c) /\ \E p : p \in OwnProofs(l, c)
  BY DEF Lives, Governs
<1>5. PICK p \in OwnProofs(l, c) : TRUE
  BY <1>4
<1> DEFINE i == p.parent_input + 1
           gp == p.grandparent_tx
           fields == tx_inputs(c.txid)
<1>6. /\ i \in 1..Len(tx.inputs) /\ tx.inputs[i] \in pending
      /\ input_outpoint(fields[i]) = outpoint(tx.inputs[i])
      /\ parent_proven(l, LineageScript(l), outpoint(tx.inputs[i]), p.parent_vout, gp)
      /\ \E k \in 1..Len(tx.inputs) : gp = tx.inputs[k].txid /\ tx.inputs[k] \in pending
  <2>1. /\ p.parent_input \in 0..MaxIndex /\ p.parent_input < Len(fields)
        /\ gp \in {fields[k][1] : k \in 1..Len(fields)}
        /\ parent_proven(l, LineageScript(l), input_outpoint(fields[i]), p.parent_vout, gp)
    BY <1>3, <1>4, OwnProofIs
  <2>2. /\ Len(fields) = Len(tx.inputs) /\ Len(tx.inputs) \in Nat
        /\ \A k \in 1..Len(tx.inputs) :
              /\ tx.inputs[k] \in pending
              /\ fields[k][1] = tx.inputs[k].txid
              /\ input_outpoint(fields[k]) = outpoint(tx.inputs[k])
    BY <1>2, <1>3, FieldsShow
  <2> HIDE DEF fields, gp
  <2>3. i \in 1..Len(tx.inputs)
    BY <2>1, <2>2, IndexesReachInputs
  <2> QED BY <2>1, <2>2, <2>3
<1> DEFINE input == tx.inputs[i]
<1>7. PICK b \in coins : /\ input.txid = b.txid /\ input.index = b.index
                         /\ \A m \in LineagesOf(b) : IsLineageInput(m, b, input)
  BY <1>2, <1>6 DEF InputsDescend
<1>8. outpoint(b) = outpoint(input) /\ IsJoined(b) /\ IsCoin(b)
  BY <1>2, <1>6, <1>7 DEF outpoint, IsJoined
<1>9. CASE outpoint(b) = l
  BY <1>8, <1>9
<1>10. CASE outpoint(b) # l
  <2>1. /\ IsFieldList(gp) /\ Append(b.txid, b.index) = Append(gp, p.parent_vout)
        /\ output_script(tx_outputs(gp)[p.parent_vout + 1]) = LineageScript(l)
    BY <1>6, <1>8, <1>10 DEF parent_proven, outpoint
  <2>2. IsList(gp) /\ IsList(b.txid)
    <3>1. PICK k \in 1..Len(tx.inputs) : gp = tx.inputs[k].txid /\ tx.inputs[k] \in pending
      BY <1>6
    <3>2. PICK d \in coins : tx.inputs[k].txid = d.txid
      BY <1>2, <3>1 DEF InputsDescend
    <3> QED BY <1>2, <1>8, <3>1, <3>2 DEF IsCoin
  <2> HIDE DEF gp
  <2>3. gp = b.txid /\ p.parent_vout = b.index
    BY <2>1, <2>2, AppendKeepsApart
  <2>4. b.script_pubkey = LineageScript(l)
    BY <1>8, <2>1, <2>3 DEF IsCoin
  <2>5. l \in LineagesOf(b) /\ IsLineageInput(l, b, input)
    BY <1>7, <2>4 DEF LineagesOf
  <2>6. Lives(l, b)
    BY <2>5 DEF IsLineageInput, Lives, Governs
  <2> QED BY <1>8, <2>6
<1> QED
  BY <1>9, <1>10

\* A transaction keeps it: a lineage passes on from the one that it spends.
LEMMA ConfirmKeepsDescent ==
    ASSUME LineageInv, SignatureInv', NEW outputs \in Slots, Confirm(outputs)
    PROVE  LineageInv'
<1> DEFINE tx == Tx(pending, outputs)
           joined == {c \in coins : IsJoined(c)}
<1>1. /\ Len(outputs) <= UINT32_MAX /\ IsTransaction(tx) /\ pending' = {} /\ signed' = signed
      /\ coins' = (coins \ joined) \cup Created(tx)
  BY DEF Confirm
<1>2. SignatureInv /\ OnlyOneLives /\ InputsAreBacked
  BY DEF LineageInv, SignatureInv, RecoveryInv
<1>3. PICK past : IsHistory(past) /\ LaunchersArePast(past)
  BY DEF LineageInv
<1>4. PICK next : next = past \cup joined
  OBVIOUS
<1>5. IsHistory(next)'
  BY <1>2, <1>3, <1>4, HistoryGrows
<1>6. ASSUME NEW l \in Launchers, NEW c \in Created(tx), Lives(l, c)
      PROVE  \E b \in joined : outpoint(b) = l \/ Lives(l, b)
  BY <1>6, NewLives
<1>7. ASSUME NEW l \in Launchers, NEW c \in Created(tx), NEW d \in Created(tx),
             Lives(l, c), Lives(l, d)
      PROVE  c = d
  <2>1. IsList(outputs)
    BY <1>2, SlotsPay DEF OnlyClaimsPay, InputsAreBacked
  <2>2. /\ IsCoin(c) /\ IsCoin(d) /\ c.txid = d.txid
        /\ (c.index = d.index => c = d)
    BY <1>1, <1>2, <2>1, CreatedIsKnown, CreatedParts
  <2>3. l \in LineagesOf(c) /\ l \in LineagesOf(d)
    BY <1>7 DEF Lives
  <2>4. PICK p : p \in OwnProofs(l, c)
    BY <1>7 DEF Lives, Governs
  <2>5. PICK q : q \in OwnProofs(l, d)
    BY <1>7 DEF Lives, Governs
  <2> QED BY <2>2, <2>3, <2>4, <2>5, OneState
<1> HIDE DEF tx, joined
<1>8. ASSUME NEW l \in Launchers, NEW c \in Created(tx), NEW d \in coins \ joined,
             Lives(l, c), Lives(l, d)
      PROVE  FALSE
  <2>1. PICK b \in joined : outpoint(b) = l \/ Lives(l, b)
    BY <1>6, <1>8
  <2>2. b \in coins /\ b # d
    BY <1>8 DEF joined
  <2>3. ~Lives(l, b)
    BY <1>2, <1>8, <2>2 DEF OnlyOneLives
  <2> QED BY <1>3, <1>8, <2>1, <2>2, <2>3 DEF LaunchersArePast, IsHistory
<1>9. OnlyOneLives'
  BY <1>1, <1>2, <1>7, <1>8 DEF OnlyOneLives
<1>10. LaunchersArePast(next)'
  <2>1. ASSUME NEW l \in Launchers, NEW c \in coins', Lives(l, c)
        PROVE  \E d \in next : outpoint(d) = l
    <3>1. CASE c \in coins
      BY <1>3, <1>4, <2>1, <3>1 DEF LaunchersArePast
    <3>2. CASE c \in Created(tx)
      <4>1. PICK b \in joined : outpoint(b) = l \/ Lives(l, b)
        BY <1>6, <2>1, <3>2
      <4> QED BY <1>3, <1>4, <4>1 DEF LaunchersArePast, joined
    <3> QED BY <1>1, <3>1, <3>2
  <2> QED BY <2>1 DEF LaunchersArePast
<1>11. HandoversAreSigned'
  BY <1>1 DEF LineageInv, HandoversAreSigned
<1>12. InputsDescend'
  BY <1>1, FS_EmptySet, IndexesReachInputs DEF InputsDescend
<1> QED
  BY <1>5, <1>9, <1>10, <1>11, <1>12 DEF LineageInv

\* Every step keeps it.
LEMMA StepKeepsDescent ==
    ASSUME SignaturesAreIdeal, LineageInv, [Next]_vars
    PROVE  LineageInv'
<1>1. /\ SignatureInv /\ SignatureInv' /\ IsFiniteSet(coins) /\ \A c \in coins : IsCoin(c)
  BY StepKeepsSigned DEF LineageInv, SignatureInv, RecoveryInv, CoinsAreKnown
<1>2. ASSUME coins' = coins, signed' = signed, pending' = pending
      PROVE  LineageInv'
  <2>1. InputsDescend'
    <3>1. \A l, c, other : IsLineageInput(l, c, other) => IsLineageInput(l, c, other)'
      BY <1>2, InputStaysLineage
    <3> QED BY <1>2, <3>1 DEF LineageInv, InputsDescend
  <2> QED BY <1>1, <1>2, <2>1, JoinDescends
<1>3. CASE UNCHANGED vars
  BY <1>2, <1>3 DEF vars
<1>4. CASE Mine
  BY <1>2, <1>4 DEF Mine
<1>5. ASSUME NEW input, Join(input), Cardinality(pending) < MaxInputs,
             NEW coin, NEW own, NEW program, NEW a, NEW conditions,
             IsVaultInput(input, coin, own, program, a, conditions)
      PROVE  LineageInv'
  <2>1. /\ coin \in coins /\ input.txid = coin.txid /\ input.index = coin.index
        /\ IsVaultScript(coin.script_pubkey)
    BY <1>1, <1>5, VaultInputParts DEF IsVaultInput
  <2>2. LineagesOf(coin) = {}
    BY <2>1, LineagesAreNoVaults DEF LineagesOf
  <2> QED BY <1>1, <1>5, <2>1, <2>2, JoinKeepsDescent
<1>6. ASSUME NEW coin \in coins, NEW l \in LineagesOf(coin), NEW p \in Proofs(l, coin),
             NEW child_index \in 0..MaxIndex, NEW list \in InnerLists(p.inner),
             NEW rest \in morph(l, MyScript(p), child_index, list),
             NEW input, input = LineageInput(l, coin, SelfConditions(l, p) \o rest),
             StandsAlone(input), Join(input), Cardinality(pending) < MaxInputs
      PROVE  LineageInv'
  <2>1. input.txid = coin.txid /\ input.index = coin.index
    BY <1>6 DEF LineageInput, ScriptInput
  <2>2. p \in OwnProofs(l, coin)
    BY <1>1, ProofsAreOwn
  <2>3. MyScript(p) = LineageScript(l)
    BY <1>1, <2>2, OwnProofIs
  <2>4. IsLineageInput(l, coin, input)
    BY <1>6, <2>2, <2>3 DEF IsLineageInput
  <2>5. \A m \in LineagesOf(coin) : IsLineageInput(m, coin, input)
    BY <2>4, OneLineage
  <2> QED BY <1>1, <1>6, <2>1, <2>5, JoinKeepsDescent
<1>7. ASSUME NEW coin \in coins, LineagesOf(coin) = {}, Join(PlainInput(coin)),
             Cardinality(pending) < MaxInputs
      PROVE  LineageInv'
  <2> DEFINE input == PlainInput(coin)
  <2>1. input.txid = coin.txid /\ input.index = coin.index /\ Join(input)
    BY <1>7 DEF PlainInput
  <2> HIDE DEF input
  <2> QED BY <1>1, <1>7, <2>1, JoinKeepsDescent
<1>8. CASE Next
  BY <1>1, <1>4, <1>5, <1>6, <1>7, <1>8, StepIs, SigningKeepsDescent, ConfirmKeepsDescent
<1> QED
  BY <1>3, <1>8

-----------------------------------------------------------------------------
(* What an owner signed is what its coin passes on to. *)

\* A state that the outputs hold is among the tagged ones.
LEMMA StateIsShown ==
    ASSUME NEW outputs, IsList(outputs), NEW tx, tx.outputs = outputs, NEW l, NEW payload,
           NEW j \in 1..Len(outputs), outputs[j] = Claimed(StateOutput(l, payload))
    PROVE  /\ j \in DOMAIN state_scripts(outputs_hash(tx), l)
           /\ state_scripts(outputs_hash(tx), l)[j] = state_script(l, payload)
<1> DEFINE hash == outputs_hash(tx)
           script == state_script(l, payload)
<1>1. outputs[j].script_pubkey = script
  BY DEF Claimed, StateOutput, Emit
<1>2. Len(hash) = Len(outputs) /\ hash[j] = <<outputs[j].amount, outputs[j].script_pubkey>>
  <2>1. Len(outputs) \in Nat /\ hash = [k \in 1..Len(outputs) |->
                                          <<outputs[k].amount, outputs[k].script_pubkey>>]
    BY ListParts DEF outputs_hash
  <2> HIDE DEF hash
  <2> QED BY <2>1
<1>3. output_script(hash[j]) = script
  BY <1>1, <1>2 DEF output_script
<1>4. IsTagged(script, l)
  BY DEF IsTagged, state_script
<1> HIDE DEF hash, script
<1>5. j \in DOMAIN state_scripts(hash, l) /\ state_scripts(hash, l)[j] = script
  BY <1>2, <1>3, <1>4 DEF state_scripts
<1> QED
  BY <1>5 DEF hash, script

\* A transaction that spends a living coin, seals an order's outputs and holds
\* the state that the order names, makes the coin that this state governs.
LEMMA ChildLives ==
    ASSUME LineageInv, NEW outputs \in Slots, Confirm(outputs),
           NEW tx, tx = Tx(pending, outputs),
           NEW l \in Launchers, NEW c \in coins, IsJoined(c), Lives(l, c),
           NEW o \in Handovers, NEW index \in 0..MaxIndex,
           outputs_hash(tx) = o.outputs_hash, o.next_inner \in Inners,
           NEW j \in 1..Len(outputs),
           outputs[j] = Claimed(StateOutput(l, state_payload(o.next_inner, o.next_amount, index)))
    PROVE  \E d \in Created(tx) :
              Lives(l, d) /\ Governs(l, d, o.next_inner) /\ d.amount = o.next_amount
<1> DEFINE hash == outputs_hash(tx)
           scripts == state_scripts(hash, l)
           next == state_script(l, state_payload(o.next_inner, o.next_amount, index))
           fields == tx_inputs(txid(tx))
<1>1. /\ AreInputs(pending) /\ IsCoin(c) /\ InputsDescend /\ IsList(outputs)
      /\ \A a, b \in coins : outpoint(a) = outpoint(b) => a = b
  BY SlotsPay DEF LineageInv, SignatureInv, RecoveryInv, InputsAreBacked, CoinsAreKnown,
     OnlyClaimsPay, IsHistory
<1>2. tx.outputs = outputs /\ Len(outputs) \in Nat
  BY <1>1, ListParts DEF Tx
<1>3. j \in DOMAIN scripts /\ scripts[j] = next
  BY <1>1, <1>2, StateIsShown
<1>4. /\ state_proven(scripts, next) /\ index < Len(hash)
      /\ hash[index + 1] = <<o.next_amount, LineageScript(l)>>
  BY <1>3, HandoversPlaceTheState
<1>5. Len(hash) = Len(outputs)
      /\ \A k \in 1..Len(outputs) : hash[k] = <<outputs[k].amount, outputs[k].script_pubkey>>
  <2>1. hash = [k \in 1..Len(outputs) |-> <<outputs[k].amount, outputs[k].script_pubkey>>]
    BY <1>2 DEF outputs_hash
  <2> HIDE DEF hash
  <2> QED BY <1>2, <2>1
<1>6. index \in Nat /\ index + 1 \in 1..Len(outputs)
  BY <1>2, <1>4, <1>5, IndexesReachInputs
<1>7. /\ outputs[index + 1].script_pubkey = LineageScript(l)
      /\ outputs[index + 1].amount = o.next_amount
  <2>1. <<outputs[index + 1].amount, outputs[index + 1].script_pubkey>>
          = <<o.next_amount, LineageScript(l)>>
    BY <1>4, <1>5, <1>6
  <2> QED BY <2>1
<1>8. l \in LineagesOf(c) /\ \E p : p \in OwnProofs(l, c)
  BY DEF Lives, Governs
<1>9. /\ IsFieldList(c.txid) /\ c.index \in 0..MaxIndex /\ c.index < Len(tx_outputs(c.txid))
      /\ IsWellFormedLineage(l) /\ c.script_pubkey = LineageScript(l)
      /\ output_script(tx_outputs(c.txid)[c.index + 1]) = LineageScript(l)
  BY <1>1, <1>8, OwnProofIs, OneLineage DEF IsCoin
<1>10. PICK input \in pending : input.txid = c.txid /\ outpoint(input) = outpoint(c)
  <2>1. PICK input \in pending : outpoint(input) = outpoint(c)
    BY DEF IsJoined
  <2>2. PICK b \in coins : input.txid = b.txid /\ input.index = b.index
    BY <1>1, <2>1 DEF InputsDescend
  <2>3. b = c
    BY <1>1, <2>1, <2>2 DEF outpoint
  <2> QED BY <2>1, <2>2, <2>3
<1>11. /\ IsFieldList(txid(tx)) /\ tx_outputs(txid(tx)) = hash
       /\ Len(tx.inputs) = Cardinality(pending) /\ Len(tx.inputs) \in Nat
       /\ Len(fields) = Len(tx.inputs)
       /\ \E i \in 1..Len(tx.inputs) : tx.inputs[i] = input
       /\ \A i \in 1..Len(tx.inputs) :
             fields[i][1] = tx.inputs[i].txid
             /\ input_outpoint(fields[i]) = outpoint(tx.inputs[i])
  BY <1>1, FieldsShow
<1>12. PICK i \in 1..Len(tx.inputs) : tx.inputs[i] = input
  BY <1>11
<1>13. /\ i \in 1..Len(fields) /\ i - 1 \in 0..MaxIndex /\ i - 1 < Len(fields)
       /\ (i - 1) + 1 = i
       /\ fields[i][1] = c.txid /\ input_outpoint(fields[i]) = outpoint(c)
  BY <1>1, <1>10, <1>11, <1>12, IndexesReachInputs DEF InputsDescend
<1> DEFINE d == [txid |-> txid(tx), index |-> index, script_pubkey |-> LineageScript(l),
                 amount |-> o.next_amount, born |-> height + 1]
           p == [my_amount |-> o.next_amount, my_index |-> index, parent_tx |-> txid(tx),
                 parent_input |-> i - 1, parent_vout |-> c.index,
                 grandparent_tx |-> c.txid, inner |-> o.next_inner]
<1>14. d \in Created(tx)
  <2> DEFINE k == index + 1
  <2>1. k \in 1..Len(tx.outputs) /\ ~IsData(tx.outputs[k].script_pubkey)
    BY <1>2, <1>6, <1>7, LineageScriptNames
  <2>2. k - 1 = index
    BY <1>6
  <2>3. d = [txid |-> txid(tx), index |-> k - 1, script_pubkey |-> tx.outputs[k].script_pubkey,
             amount |-> tx.outputs[k].amount, born |-> height + 1]
    BY <1>2, <1>7, <2>2
  <2> HIDE DEF d, k
  <2> QED BY <2>1, <2>3 DEF Created
<1>15. IsDescent(l, p)
  <2>1. /\ p.my_amount = o.next_amount /\ p.my_index = index /\ p.parent_tx = txid(tx)
        /\ p.parent_input = i - 1 /\ p.parent_vout = c.index /\ p.grandparent_tx = c.txid
        /\ p.inner = o.next_inner
    OBVIOUS
  <2> HIDE DEF p
  <2>2. MyScript(p) = LineageScript(l)
    BY <1>4, <1>11, <2>1 DEF MyScript, output_script
  <2>3. parent_proven(l, LineageScript(l), outpoint(c), c.index, c.txid)
    BY <1>9 DEF parent_proven, outpoint
  <2>4. o.next_amount % 2 = 1
    BY HandoversAreOdd
  <2> HIDE DEF hash, scripts, next, fields
  <2>5. /\ p.my_index < Len(tx_outputs(p.parent_tx))
        /\ p.parent_input < Len(tx_inputs(p.parent_tx))
    BY <1>4, <1>11, <1>13, <2>1 DEF fields
  <2>6. input_outpoint(tx_inputs(p.parent_tx)[p.parent_input + 1]) = outpoint(c)
    BY <1>13, <2>1 DEF fields
  <2>7. state_proven(state_scripts(tx_outputs(p.parent_tx), l),
                     state_script(l, state_payload(p.inner, p.my_amount, p.my_index)))
    BY <1>4, <1>11, <2>1 DEF scripts, next
  <2> QED BY <1>9, <2>1, <2>2, <2>3, <2>4, <2>5, <2>6, <2>7 DEF IsDescent
<1>16. StandsAlone(LineageInput(l, d, SelfConditions(l, p)))
  <2>1. p.parent_tx = d.txid /\ p.my_index = d.index /\ p.my_amount = d.amount
    OBVIOUS
  <2> HIDE DEF d, p
  <2> QED BY <2>1, SelfConditionsStand
<1>17. p \in OwnProofs(l, d)
  <2> DEFINE grandparents == {fields[k][1] : k \in 1..Len(fields)}
             claims == [my_amount : {d.amount, d.amount + 2}, my_index : 0..MaxIndex,
                        parent_tx : {d.txid}, parent_input : 0..MaxIndex,
                        parent_vout : 0..MaxIndex, grandparent_tx : grandparents,
                        inner : Inners]
  <2>1. c.txid \in grandparents
    BY <1>13
  <2>2. d.amount = o.next_amount /\ d.txid = txid(tx)
    OBVIOUS
  <2> HIDE DEF grandparents, d
  <2>3. p \in claims
    BY <1>9, <1>13, <2>1, <2>2
  <2> HIDE DEF p, claims, fields
  <2>4. p \in claims /\ IsFieldList(d.txid)
    BY <1>11, <2>2, <2>3
  <2> QED BY <1>15, <1>16, <2>2, <2>4 DEF OwnProofs, claims, grandparents, fields
<1>18. Governs(l, d, o.next_inner) /\ Lives(l, d) /\ d.amount = o.next_amount
  <2>1. p.inner = o.next_inner /\ d.script_pubkey = LineageScript(l) /\ d.amount = o.next_amount
    OBVIOUS
  <2> HIDE DEF p, d
  <2> QED BY <1>17, <2>1 DEF Governs, Lives, LineagesOf
<1> QED
  <2> HIDE DEF d
  <2> QED BY <1>14, <1>18

\* An owner's coin that a transaction spends was signed for, and passes on what
\* was signed: the end, or the coin and the state of the order.
LEMMA HandoverTaken ==
    ASSUME SignaturesAreIdeal, NoneIsNoList, LineageInv,
           NEW outputs \in Slots, Confirm(outputs),
           NEW l \in Launchers, NEW c \in coins, IsJoined(c), l \in LineagesOf(c),
           NEW inner, Governs(l, c, inner), IsOwned(inner)
    PROVE  \E s \in signed :
              /\ s.coin = c /\ s.key = inner[2]
              /\ IF s.order.next_amount = END_AMOUNT THEN \A d \in coins' : ~Lives(l, d)
                 ELSE \E d \in coins' : /\ Lives(l, d) /\ Governs(l, d, s.order.next_inner)
                                        /\ d.amount = s.order.next_amount
<1> DEFINE tx == Tx(pending, outputs)
           key == inner[2]
<1>1. /\ IsTransaction(tx) /\ IsValid(tx) /\ Len(outputs) <= UINT32_MAX
      /\ coins' = {b \in coins : ~IsJoined(b)} \cup Created(tx)
  BY DEF Confirm
<1>2. /\ AreInputs(pending) /\ IsCoin(c) /\ InputsDescend /\ IsList(outputs)
      /\ OnlyOneLives /\ HandoversAreSigned /\ InputsAreBacked /\ \A b \in coins : IsCoin(b)
  BY SlotsPay DEF LineageInv, SignatureInv, RecoveryInv, InputsAreBacked, CoinsAreKnown,
     OnlyClaimsPay
<1>3. PICK past : IsHistory(past) /\ AreSignedOf(past)
  BY DEF LineageInv, SignatureInv
<1>4. PICK input \in pending : outpoint(input) = outpoint(c) /\ IsLineageInput(l, c, input)
  <2>1. PICK input \in pending : outpoint(input) = outpoint(c)
    BY DEF IsJoined
  <2>2. PICK b \in coins : /\ input.txid = b.txid /\ input.index = b.index
                           /\ \A m \in LineagesOf(b) : IsLineageInput(m, b, input)
    BY <1>2, <2>1 DEF InputsDescend
  <2>3. b = c
    BY <1>3, <2>1, <2>2 DEF outpoint, IsHistory
  <2> QED BY <2>1, <2>2, <2>3
<1>5. PICK o \in Handovers, index \in 0..MaxIndex : AsksHandover(l, input, key, o, index)
  BY <1>2, <1>4, OwnerAsks
<1>6. PICK sig \in Signatures :
         Asks(input, Emit(ASSERT_SIG_MY_OUTPOINT, <<key, HandoverMessage(o), sig>>))
  BY <1>5 DEF AsksHandover
<1> HIDE DEF tx, key
<1>7. PICK s \in signed : /\ s.key = key /\ s.message = HandoverMessage(o)
                          /\ outpoint(s.coin) = outpoint(input)
  <2> DEFINE message == HandoverMessage(o)
             e == Emit(ASSERT_SIG_MY_OUTPOINT, <<key, message, sig>>)
  <2>1. PICK k \in 1..Len(Conditions(input)) : Conditions(input)[k] = e
    BY <1>6 DEF Asks
  <2>2. /\ e.opcode \in SigOpcodes /\ e.operands[1] = key /\ e.operands[3] = sig
    BY DEF Emit, SigOpcodes, SIG_BINDINGS, ASSERT_SIG_MY_OUTPOINT, ASSERT_SIG_MY_TXID
  <2>3. StandsAlone(input)
    BY <1>4 DEF IsLineageInput
  <2> HIDE DEF message
  <2>4. Verifies(key, sig_digest(e, input), sig)
    <3> HIDE DEF e
    <3> QED BY <2>1, <2>2, <2>3, StandsAloneMeans
  <2>5. \E t \in signed : t.key = key /\ t.message = message /\ outpoint(t.coin) = outpoint(input)
    BY <2>4, SignatureMeans
  <2> QED BY <2>5 DEF message
<1>8. s.coin = c
  BY <1>3, <1>4, <1>7 DEF AreSignedOf, IsHistory
<1>9. /\ s.order.next_inner = o.next_inner /\ s.order.next_amount = o.next_amount
      /\ s.order.outputs_hash = o.outputs_hash
  <2>1. HandoverMessage(s.order) = HandoverMessage(o)
    BY <1>2, <1>7, <1>8 DEF HandoversAreSigned
  <2> QED BY <2>1 DEF HandoverMessage
<1>10. Lives(l, c)
  BY DEF Lives
<1>11. o.outputs_hash = outputs_hash(tx)
  <2> DEFINE e == Emit(SEAL_OUTPUTS, <<o.outputs_hash>>)
  <2>1. Asks(input, e)
    BY <1>5 DEF AsksHandover
  <2>2. e.opcode = SEAL_OUTPUTS /\ e.operands[1] = o.outputs_hash
    BY DEF Emit
  <2> HIDE DEF e
  <2> QED BY <1>1, <1>2, <2>1, <2>2, ConfirmedMeans DEF tx
<1>12. \A payload : Asks(input, StateOutput(l, payload)) =>
          \E j \in 1..Len(outputs) : outputs[j] = Claimed(StateOutput(l, payload))
  <2> TAKE payload
  <2> DEFINE e == StateOutput(l, payload)
  <2>1. IsClaim(e)
    BY DEF IsClaim, CreateOpcodes, StateOutput, Emit
  <2> HIDE DEF e
  <2>2. Asks(input, e) => \E j \in 1..Len(outputs) : outputs[j] = Claimed(e)
    BY <1>1, <1>2, <2>1, ConfirmedMeans DEF tx
  <2> QED BY <2>2 DEF e
<1>13. CASE o.next_amount = END_AMOUNT
  <2>1. PICK j \in 1..Len(outputs) : outputs[j] = Claimed(StateOutput(l, END_PAYLOAD))
    BY <1>5, <1>12, <1>13 DEF AsksHandover
  <2> DEFINE scripts == state_scripts(outputs_hash(tx), l)
  <2>2. j \in DOMAIN scripts /\ scripts[j] = state_script(l, END_PAYLOAD)
    BY <1>2, <2>1, StateIsShown DEF tx, Tx
  <2>3. ASSUME NEW d \in coins', Lives(l, d) PROVE FALSE
    <3>1. CASE d \in coins /\ ~IsJoined(d)
      BY <1>2, <1>10, <2>3, <3>1 DEF OnlyOneLives
    <3>2. CASE d \in Created(tx)
      <4>1. IsCoin(d) /\ d.txid = txid(tx)
        BY <1>1, <1>2, <3>2, CreatedIsKnown, CreatedParts DEF tx
      <4>2. PICK p : p \in OwnProofs(l, d)
        BY <2>3 DEF Lives, Governs
      <4>3. tx_outputs(txid(tx)) = outputs_hash(tx)
        BY <1>2, FieldsShow DEF tx
      <4> DEFINE next == state_script(l, state_payload(p.inner, d.amount, d.index))
      <4>4. state_proven(scripts, next)
        BY <2>3, <4>1, <4>2, <4>3, OwnProofIs DEF Lives
      <4>5. next = state_script(l, END_PAYLOAD)
        <5> HIDE DEF next, scripts
        <5> QED BY <2>2, <4>4 DEF state_proven
      <4>6. state_payload(p.inner, d.amount, d.index) = END_PAYLOAD
        BY <4>5 DEF state_script
      <4>7. Len(END_PAYLOAD) = 0 /\ Len(state_payload(p.inner, d.amount, d.index)) = 3
        BY ShortLists DEF END_PAYLOAD, state_payload
      <4> QED BY <4>6, <4>7
    <3> QED BY <1>1, <2>3, <3>1, <3>2
  <2> QED BY <1>7, <1>8, <1>9, <1>13, <2>3 DEF key
<1>14. CASE o.next_amount # END_AMOUNT
  <2>1. o.next_inner \in Inners
        /\ Asks(input, StateOutput(l, state_payload(o.next_inner, o.next_amount, index)))
    BY <1>5, <1>14 DEF AsksHandover
  <2>2. PICK j \in 1..Len(outputs) :
           outputs[j] = Claimed(StateOutput(l, state_payload(o.next_inner, o.next_amount, index)))
    BY <1>12, <2>1
  <2>3. \E d \in Created(tx) :
           Lives(l, d) /\ Governs(l, d, o.next_inner) /\ d.amount = o.next_amount
    BY <1>10, <1>11, <2>1, <2>2, ChildLives DEF tx
  <2> QED BY <1>1, <1>7, <1>8, <1>9, <1>14, <2>3 DEF key
<1> QED
  BY <1>13, <1>14

\* What one transaction does to a lineage.
Passes(l) ==
    LET before == Living(l)
        after == Living(l)'
    IN  /\ Cardinality(after) <= 1
        /\ \A c \in after : Cardinality(Governing(l, c)') = 1
        /\ after \subseteq before
             \/ \E c \in Spent : c \in before \/ outpoint(c) = l
        /\ \A c \in before \cap Spent, inner \in Inners :
             inner \in Governing(l, c) /\ IsOwned(inner) =>
                \E s \in signed :
                   /\ s.coin = c /\ s.key = inner[2]
                   /\ IF s.order.next_amount = END_AMOUNT THEN after = {}
                      ELSE \E d \in after :
                              /\ Governing(l, d)' = {s.order.next_inner}
                              /\ d.amount = s.order.next_amount

\* A set of one or none, by its elements.
LEMMA AtMostOne ==
    ASSUME NEW some, \A x, y \in some : x = y
    PROVE  Cardinality(some) <= 1 /\ (some # {} => Cardinality(some) = 1)
<1>1. CASE some = {}
  BY <1>1, FS_EmptySet
<1>2. CASE some # {}
  <2>1. PICK x : x \in some
    BY <1>2
  <2>2. some = {x}
    BY <2>1
  <2>3. Cardinality(some) = 1
    BY <2>2, FS_Singleton
  <2> QED BY <2>3
<1> QED
  BY <1>1, <1>2

\* A transaction passes every lineage on.
LEMMA LineagePasses ==
    ASSUME SignaturesAreIdeal, NoneIsNoList, LineageInv, LineageInv',
           NEW outputs \in Slots, Confirm(outputs), NEW l \in Launchers
    PROVE  Passes(l)
<1> DEFINE after == Living(l)'
           rules(c) == Governing(l, c)'
           tx == Tx(pending, outputs)
<1>1. /\ CoinsAreKnown /\ CoinsAreKnown' /\ SignatureInv /\ OnlyOneLives'
      /\ InputsAreBacked /\ InputsAreBacked'
  BY DEF LineageInv, SignatureInv, RecoveryInv
<1>2. LivingAgrees /\ LivingAgrees'
  BY <1>1, LivingIs, LivingIsNext
<1>3. \A c : c \in after <=> c \in coins' /\ Lives(l, c)
  BY <1>2 DEF LivingAgrees
<1>4. \A c \in after : \A inner : inner \in rules(c) <=> Governs(l, c, inner)
  <2>1. \A c \in after : c \in coins' /\ l \in LineagesOf(c)
    BY <1>3 DEF Lives
  <2>2. \A c \in coins' : l \in LineagesOf(c) =>
           \A inner : inner \in rules(c) <=> Governs(l, c, inner)
    BY <1>2 DEF LivingAgrees
  <2> HIDE DEF after, rules
  <2> QED BY <2>1, <2>2
<1>5. \A c : c \in Living(l) <=> c \in coins /\ Lives(l, c)
  BY <1>2 DEF LivingAgrees
<1>6. \A c \in coins : l \in LineagesOf(c) =>
         \A inner : inner \in Governing(l, c) <=> Governs(l, c, inner)
  BY <1>2 DEF LivingAgrees
<1>7. coins' = {b \in coins : ~IsJoined(b)} \cup Created(tx)
  BY DEF Confirm
<1>8. /\ \A c \in coins : IsJoined(c) => c \in Spent
      /\ \A c \in Spent : c \in coins /\ IsJoined(c)
  BY <1>1, <1>7, JoinedIsSpent DEF Spent
<1> HIDE DEF after, rules, tx
<1>9. Cardinality(after) <= 1
  <2>1. \A c, d \in after : c = d
    BY <1>1, <1>3 DEF OnlyOneLives
  <2> QED BY <2>1, AtMostOne
<1>10. ASSUME NEW c \in after, NEW inner \in rules(c) PROVE rules(c) = {inner}
  <2>1. Governs(l, c, inner) /\ l \in LineagesOf(c) /\ IsCoin(c)
    BY <1>1, <1>3, <1>4, <1>10 DEF Lives, CoinsAreKnown
  <2>2. PICK p \in OwnProofs(l, c) : p.inner = inner
    BY <2>1 DEF Governs
  <2>3. \A other : Governs(l, c, other) => other = inner
    BY <2>1, <2>2, OneState DEF Governs
  <2> QED BY <1>4, <1>10, <2>3
<1>11. ASSUME NEW c \in after PROVE Cardinality(rules(c)) = 1
  <2>1. PICK inner : inner \in rules(c)
    BY <1>3, <1>4, <1>11 DEF Lives
  <2> QED BY <1>10, <1>11, <2>1, FS_Singleton
<1>12. after \subseteq Living(l) \/ \E c \in Spent : c \in Living(l) \/ outpoint(c) = l
  <2>1. SUFFICES ASSUME NEW c \in after, c \notin Living(l)
                 PROVE  \E b \in Spent : b \in Living(l) \/ outpoint(b) = l
    OBVIOUS
  <2>2. c \in Created(tx) /\ Lives(l, c)
    BY <1>3, <1>5, <1>7, <2>1
  <2>3. PICK b \in coins : IsJoined(b) /\ (outpoint(b) = l \/ Lives(l, b))
    BY <2>2, NewLives DEF tx
  <2> QED BY <1>5, <1>8, <2>3
<1>13. ASSUME NEW c \in Living(l) \cap Spent, NEW inner \in Inners,
              inner \in Governing(l, c), IsOwned(inner)
       PROVE  \E s \in signed :
                 /\ s.coin = c /\ s.key = inner[2]
                 /\ IF s.order.next_amount = END_AMOUNT THEN after = {}
                    ELSE \E d \in after : /\ rules(d) = {s.order.next_inner}
                                          /\ d.amount = s.order.next_amount
  <2>1. c \in coins /\ IsJoined(c) /\ l \in LineagesOf(c) /\ Governs(l, c, inner)
    BY <1>5, <1>6, <1>8, <1>13 DEF Lives
  <2>2. PICK s \in signed :
           /\ s.coin = c /\ s.key = inner[2]
           /\ IF s.order.next_amount = END_AMOUNT THEN \A d \in coins' : ~Lives(l, d)
              ELSE \E d \in coins' : /\ Lives(l, d) /\ Governs(l, d, s.order.next_inner)
                                     /\ d.amount = s.order.next_amount
    BY <1>13, <2>1, HandoverTaken
  <2>3. CASE s.order.next_amount = END_AMOUNT
    <3>1. after = {}
      BY <1>3, <2>2, <2>3
    <3> QED BY <2>2, <2>3, <3>1
  <2>4. CASE s.order.next_amount # END_AMOUNT
    <3>1. PICK d \in coins' : /\ Lives(l, d) /\ Governs(l, d, s.order.next_inner)
                              /\ d.amount = s.order.next_amount
      BY <2>2, <2>4
    <3>2. d \in after /\ rules(d) = {s.order.next_inner}
      BY <1>3, <1>4, <1>10, <3>1
    <3> QED BY <2>2, <2>4, <3>1, <3>2
  <2> QED BY <2>3, <2>4
<1> QED
  BY <1>9, <1>11, <1>12, <1>13 DEF Passes, after, rules

\* A lineage never forks and passes on only from the coin that its transaction
\* spends, from an owner exactly as the owner signed for it: no payment to its
\* script, no other coin's signature and no placement of the outputs redirects it.
THEOREM LineagesAreKept ==
    ASSUME SignaturesAreIdeal, NoneIsNoList
    PROVE  Spec => LineageIsKept
<1>1. Init => LineageInv
  BY InitDescends
<1>2. LineageInv /\ [Next]_vars => LineageInv'
  BY StepKeepsDescent
<1>3. LineageInv /\ [Next]_vars => [\A l \in Launchers : Passes(l)]_coins
  <2> SUFFICES ASSUME LineageInv, [Next]_vars, coins' # coins, NEW l \in Launchers
               PROVE  Passes(l)
    OBVIOUS
  <2>1. PICK outputs \in Slots : Confirm(outputs)
    BY StepIs DEF vars, SignTrigger, SignRecovery, SignHandover, Sign, Mine, Join
  <2>2. LineageInv'
    BY StepKeepsDescent
  <2> QED BY <2>1, <2>2, LineagePasses
<1>4. Spec => [][\A l \in Launchers : Passes(l)]_coins
  BY <1>1, <1>2, <1>3, PTL DEF Spec
<1> QED
  BY <1>4 DEF LineageIsKept, Passes
==============================================================================
