---------------------------- MODULE AssemblyProof ----------------------------
(***************************************************************************)
(* What recombining spends keeps, for transactions of any size and any     *)
(* sequence of edits: the four action properties of Assembly.tla; and that *)
(* the checks of validation, which count, decide the rules, which assign.  *)
(*                                                                         *)
(* Each edit moves the places of a transaction into those of its result.   *)
(* Embeds says what such a move keeps, and for every rule of validation    *)
(* there is a lemma on what follows for the rule.                          *)
(***************************************************************************)
EXTENDS Assembly, CostsProof, FiniteSetTheorems, SequenceTheorems

\* Two inputs that spend one coin, under whatever conditions.
SameCoin(a, b) == \A field \in InputFields \ {"conditions"} : a[field] = b[field]

\* e moves the places of t to places of u, one to one: each holds the same
\* condition of an input that spends the same coin.
Embeds(t, u, e) ==
    /\ e \in Injection(Places(t), Places(u))
    /\ \A p \in Places(t) :
          /\ Condition(u, e[p]) = Condition(t, p)
          /\ SameCoin(Input(t, p), Input(u, e[p]))

\* Every place of u with one of these opcodes is the image of one of t.
Covers(t, u, e, opcodes) ==
    \A q \in PlacesOf(u, opcodes) : \E p \in Places(t) : q = e[p]

-----------------------------------------------------------------------------
(* Places. *)

\* What a parsed transaction holds.
LEMMA TxParts ==
    ASSUME NEW t, IsParsedTx(t)
    PROVE  /\ Len(t.inputs) \in Nat /\ DOMAIN t.inputs = 1..Len(t.inputs)
           /\ Len(t.outputs) \in Nat /\ DOMAIN t.outputs = 1..Len(t.outputs)
           /\ \A i \in 1..Len(t.inputs) :
                /\ IsParsedInput(t.inputs[i])
                /\ Conditions(t.inputs[i]) \in Seq(AllConditions)
                /\ Len(Conditions(t.inputs[i])) \in Nat
                /\ \A k \in 1..Len(Conditions(t.inputs[i])) : IsParsed(Conditions(t.inputs[i])[k])
<1>1. t.inputs \in Seq(Range(t.inputs)) /\ t.outputs \in Seq(Range(t.outputs))
  BY DEF IsParsedTx, IsTuple
<1>2. /\ Len(t.inputs) \in Nat /\ DOMAIN t.inputs = 1..Len(t.inputs)
      /\ Len(t.outputs) \in Nat /\ DOMAIN t.outputs = 1..Len(t.outputs)
  BY <1>1, LenProperties
<1>3. ASSUME NEW i \in 1..Len(t.inputs)
      PROVE  /\ IsParsedInput(t.inputs[i])
             /\ Conditions(t.inputs[i]) \in Seq(AllConditions)
             /\ Len(Conditions(t.inputs[i])) \in Nat
             /\ \A k \in 1..Len(Conditions(t.inputs[i])) : IsParsed(Conditions(t.inputs[i])[k])
  <2> DEFINE list == Conditions(t.inputs[i])
  <2>1. IsParsedInput(t.inputs[i])
    BY <1>2 DEF IsParsedTx
  <2>2. list \in Seq(AllConditions) /\ \A k \in DOMAIN list : IsParsed(list[k])
    BY <2>1 DEF IsParsedInput
  <2>3. Len(list) \in Nat /\ DOMAIN list = 1..Len(list)
    <3> HIDE DEF list
    <3> QED BY <2>2, LenProperties
  <2> QED BY <2>1, <2>2, <2>3
<1> QED
  BY <1>2, <1>3

\* A place is a pair of indices.
LEMMA PlaceIs ==
    ASSUME NEW t
    PROVE  \A p : p \in Places(t) <=>
              \E i \in 1..Len(t.inputs) :
                \E k \in 1..Len(Conditions(t.inputs[i])) : p = <<i, k>>
  BY DEF Places

\* The condition at a place is a parsed one.
LEMMA PlaceHolds ==
    ASSUME NEW t, IsParsedTx(t), NEW p \in Places(t)
    PROVE  /\ p = <<p[1], p[2]>>
           /\ p[1] \in 1..Len(t.inputs) /\ p[2] \in 1..Len(Conditions(Input(t, p)))
           /\ Condition(t, p) = Conditions(t.inputs[p[1]])[p[2]]
           /\ IsParsed(Condition(t, p))
<1>1. PICK i \in 1..Len(t.inputs) : \E k \in 1..Len(Conditions(t.inputs[i])) : p = <<i, k>>
  BY PlaceIs
<1>2. PICK k \in 1..Len(Conditions(t.inputs[i])) : p = <<i, k>>
  BY <1>1
<1>3. p[1] = i /\ p[2] = k
  BY <1>2
<1> QED
  BY <1>1, <1>2, <1>3, TxParts DEF Input, Condition

\* The values of a function on a finite set are a finite set.
LEMMA ImageIsFinite ==
    ASSUME NEW S, IsFiniteSet(S), NEW f, DOMAIN f = S
    PROVE  IsFiniteSet({f[x] : x \in S})
<1> DEFINE T == {f[x] : x \in S}
           g == [x \in S |-> f[x]]
<1>1. g \in Surjection(S, T)
  BY DEF Surjection
<1> QED
  BY <1>1, FS_Surjection

\* A transaction has finitely many places.
LEMMA PlacesAreFinite ==
    ASSUME NEW t, IsParsedTx(t)
    PROVE  IsFiniteSet(Places(t))
<1> DEFINE n == Len(t.inputs)
           row == [i \in 1..n |-> {<<i, k>> : k \in 1..Len(Conditions(t.inputs[i]))}]
<1>1. n \in Nat /\ IsFiniteSet(1..n)
  BY TxParts, FS_Interval
<1>2. ASSUME NEW i \in 1..n PROVE IsFiniteSet(row[i])
  <2> DEFINE m == Len(Conditions(t.inputs[i]))
             at == [k \in 1..m |-> <<i, k>>]
  <2>1. m \in Nat /\ IsFiniteSet(1..m)
    BY TxParts, FS_Interval
  <2>2. IsFiniteSet({at[k] : k \in 1..m})
    <3> HIDE DEF m
    <3>1. DOMAIN at = 1..m
      OBVIOUS
    <3> HIDE DEF at
    <3> QED BY <2>1, <3>1, ImageIsFinite
  <2>3. {at[k] : k \in 1..m} = row[i]
    OBVIOUS
  <2> QED BY <2>2, <2>3
<1>3. Places(t) = UNION {row[i] : i \in 1..n}
  BY DEF Places
<1>4. IsFiniteSet({row[i] : i \in 1..n})
  <2>1. DOMAIN row = 1..n
    OBVIOUS
  <2> HIDE DEF row, n
  <2> QED BY <1>1, <2>1, ImageIsFinite
<1> QED
  <2> HIDE DEF row, n
  <2> QED BY <1>2, <1>3, <1>4, FS_UNION

\* Of places that are not all gone there is a first one.
LEMMA FirstIsIn ==
    ASSUME NEW t, IsParsedTx(t), NEW S \in SUBSET Places(t), S # {}
    PROVE  FirstOf(S) \in S
<1> DEFINE Rows == {p[1] : p \in S}
<1>1. \A p \in S : p[1] \in Nat /\ p[2] \in Nat /\ p = <<p[1], p[2]>>
  BY PlaceHolds, TxParts DEF Input
<1>2. PICK i \in Rows : \A j \in Rows : i <= j
  <2>1. Rows \in SUBSET Nat /\ Rows # {}
    BY <1>1
  <2> HIDE DEF Rows
  <2> QED BY <2>1, LeastElement
<1> DEFINE Columns == {p[2] : p \in {p \in S : p[1] = i}}
<1>3. PICK k \in Columns : \A l \in Columns : k <= l
  <2>1. Columns \in SUBSET Nat /\ Columns # {}
    BY <1>1, <1>2
  <2> HIDE DEF Columns
  <2> QED BY <2>1, LeastElement
<1>4. PICK p \in S : p[1] = i /\ p[2] = k
  BY <1>3
<1>5. \A q \in S \ {p} : Before(p, q)
  <2> SUFFICES ASSUME NEW q \in S, q # p PROVE Before(p, q)
    OBVIOUS
  <2>1. q[1] \in Rows /\ i <= q[1] /\ i \in Nat /\ q[1] \in Nat
    BY <1>1, <1>2, <1>4
  <2>2. CASE q[1] = i
    <3>1. q[2] \in Columns /\ k <= q[2]
      BY <1>3, <2>2
    <3>2. q[2] # k
      BY <1>1, <1>4, <2>2
    <3> QED BY <1>1, <1>4, <2>2, <3>1, <3>2 DEF Before
  <2>3. CASE q[1] # i
    BY <1>4, <2>1, <2>3 DEF Before
  <2> QED BY <2>2, <2>3
<1> QED
  BY <1>5 DEF FirstOf

-----------------------------------------------------------------------------
(* What a valid transaction is, rule by rule. *)

\* The rules as they hold, without the error that each one raises.
RulesHold(t) ==
    /\ FailedSelfAsserts(t) = {} /\ OutputClaimsHold(t)
    /\ FailedTimeAsserts(t) = {} /\ MessagesBalance(t)
    /\ AnnouncementsHold(t) /\ FeeCoversReserves(t)
    /\ SealsHold(t) /\ SignaturesHold(t)

\* No failure of the first check is reported as a success.
LEMMA SelfAssertsReport ==
    ASSUME NEW t, IsParsedTx(t)
    PROVE  check_self_asserts(t) = Valid <=> FailedSelfAsserts(t) = {}
<1>1. \A opcode \in SelfAsserts : SelfAssertError[opcode] # Valid
  BY DEF SelfAssertError, SelfAsserts, Valid, ASSERT_MY_OUTPOINT, ASSERT_MY_TXID,
         ASSERT_MY_SCRIPTPUBKEY, ASSERT_MY_AMOUNT, ASSERT_MY_TAPTREE
<1>2. FailedSelfAsserts(t) \in SUBSET Places(t)
  BY DEF FailedSelfAsserts, PlacesOf
<1>3. CASE FailedSelfAsserts(t) # {}
  <2>1. FirstOf(FailedSelfAsserts(t)) \in FailedSelfAsserts(t)
    BY <1>2, <1>3, FirstIsIn
  <2>2. Condition(t, FirstOf(FailedSelfAsserts(t))).opcode \in SelfAsserts
    BY <2>1 DEF FailedSelfAsserts, PlacesOf
  <2> QED BY <1>1, <1>3, <2>2 DEF check_self_asserts
<1> QED
  BY <1>3 DEF check_self_asserts

\* A transaction is valid exactly when all of its rules hold.
LEMMA ValidMeans ==
    ASSUME NEW t, IsParsedTx(t)
    PROVE  IsValid(t) <=> RulesHold(t)
<1> DEFINE v == Verdicts(t)
           raised == {n \in DOMAIN v : v[n] # Valid}
<1>1. v = <<check_self_asserts(t), check_output_claims(t), check_time_asserts(t),
            check_messages(t), check_announcements(t), check_fee_reserve(t),
            check_seals(t), check_signature_asserts(t)>>
  BY DEF Verdicts
<1>2. DOMAIN v = 1..8
  BY <1>1
<1>3. IsValid(t) <=> raised = {}
  <2>1. IsValid(t) <=> IF raised = {} THEN TRUE
                       ELSE v[CHOOSE n \in raised : \A m \in raised : n <= m] = Valid
    BY DEF IsValid, validate_transaction, FirstRaised
  <2>2. ASSUME raised # {}
        PROVE  (CHOOSE n \in raised : \A m \in raised : n <= m) \in raised
    <3>1. raised \in SUBSET Nat
      BY <1>2
    <3> HIDE DEF raised
    <3>2. \E n \in raised : \A m \in raised : n <= m
      BY <2>2, <3>1, LeastElement
    <3> QED BY <3>2
  <2> DEFINE first == CHOOSE n \in raised : \A m \in raised : n <= m
  <2>3. raised # {} => v[first] # Valid
    BY <2>2
  <2> QED BY <2>1, <2>3
<1>4. raised = {} <=> \A n \in 1..8 : v[n] = Valid
  BY <1>2
<1>5. (\A n \in 1..8 : v[n] = Valid) <=>
        /\ v[1] = Valid /\ v[2] = Valid /\ v[3] = Valid /\ v[4] = Valid
        /\ v[5] = Valid /\ v[6] = Valid /\ v[7] = Valid /\ v[8] = Valid
  <2> HIDE DEF v
  <2> QED OBVIOUS
<1>6. /\ v[1] = check_self_asserts(t) /\ v[2] = check_output_claims(t)
      /\ v[3] = check_time_asserts(t) /\ v[4] = check_messages(t)
      /\ v[5] = check_announcements(t) /\ v[6] = check_fee_reserve(t)
      /\ v[7] = check_seals(t) /\ v[8] = check_signature_asserts(t)
  BY <1>1
<1>7. /\ check_output_claims(t) = Valid <=> OutputClaimsHold(t)
      /\ check_messages(t) = Valid <=> MessagesBalance(t)
      /\ check_announcements(t) = Valid <=> AnnouncementsHold(t)
  BY DEF check_output_claims, check_messages, check_announcements, Checked, Valid
<1>8. /\ check_fee_reserve(t) = Valid <=> FeeCoversReserves(t)
      /\ check_seals(t) = Valid <=> SealsHold(t)
      /\ check_signature_asserts(t) = Valid <=> SignaturesHold(t)
  BY DEF check_fee_reserve, check_seals, check_signature_asserts, Checked, Valid
<1>9. check_time_asserts(t) = Valid <=> FailedTimeAsserts(t) = {}
  BY DEF check_time_asserts, Valid
<1> HIDE DEF v, raised
<1> QED
  BY <1>3, <1>4, <1>5, <1>6, <1>7, <1>8, <1>9, SelfAssertsReport DEF RulesHold

-----------------------------------------------------------------------------
(* What rules read of an input. *)

Kinds == {"outpoint", "txid", "script_pubkey", "amount", "tapleaf", "merkle_root"}

\* The specifier table and the binding table name fields of the coin.
LEMMA SpecifiersAreKinds ==
    ASSUME NEW m \in 0..31
    PROVE  SPECIFIER_OPERANDS[m] \in Seq(Kinds)
<1> DEFINE field(bit, kind) == IF (m \div bit) % 2 = 1 THEN <<kind>> ELSE <<>>
           named == field(4, "txid") \o field(2, "script_pubkey") \o field(1, "amount")
           prevout == IF m % 8 = 7 THEN <<"outpoint">> ELSE named
<1>1. \A k \in Kinds : <<k>> \in Seq(Kinds)
  OBVIOUS
<1>2. \A bit : \A k \in Kinds : field(bit, k) \in Seq(Kinds)
  BY <1>1, EmptySeq
<1>3. /\ field(4, "txid") \in Seq(Kinds) /\ field(2, "script_pubkey") \in Seq(Kinds)
      /\ field(1, "amount") \in Seq(Kinds) /\ field(8, "tapleaf") \in Seq(Kinds)
      /\ field(16, "merkle_root") \in Seq(Kinds) /\ <<"outpoint">> \in Seq(Kinds)
  BY <1>1, <1>2 DEF Kinds
<1>4. SPECIFIER_OPERANDS[m] = prevout \o field(8, "tapleaf") \o field(16, "merkle_root")
  BY DEF SPECIFIER_OPERANDS
<1> HIDE DEF field
<1>5. named \in Seq(Kinds)
  BY <1>3, ConcatProperties
<1>6. prevout \in Seq(Kinds)
  BY <1>3, <1>5
<1> HIDE DEF prevout
<1> QED
  BY <1>3, <1>4, <1>6, ConcatProperties

\* So does every variant of the signature assert.
LEMMA BindingsAreKinds ==
    ASSUME NEW opcode \in SigOpcodes
    PROVE  SIG_BINDINGS[opcode] \in Seq(Kinds)
<1>1. opcode \in 16..23
  BY DEF SigOpcodes, SIG_BINDINGS, ASSERT_SIG_MY_TXID, ASSERT_SIG_MY_OUTPOINT
<1>2. /\ \A k \in Kinds : <<k>> \in Seq(Kinds)
      /\ \A k, l \in Kinds : <<k, l>> \in Seq(Kinds)
      /\ <<>> \in Seq(Kinds)
  BY EmptySeq
<1>3. /\ <<"txid">> \in Seq(Kinds) /\ <<"script_pubkey">> \in Seq(Kinds)
      /\ <<"amount">> \in Seq(Kinds) /\ <<"outpoint">> \in Seq(Kinds)
      /\ <<"script_pubkey", "amount">> \in Seq(Kinds) /\ <<"txid", "amount">> \in Seq(Kinds)
      /\ <<"txid", "script_pubkey">> \in Seq(Kinds)
  BY <1>2 DEF Kinds
<1>4. opcode \in ASSERT_SIG_MY_TXID..ASSERT_SIG_MY_OUTPOINT
  BY <1>1 DEF ASSERT_SIG_MY_TXID, ASSERT_SIG_MY_OUTPOINT
<1>5. SIG_BINDINGS[opcode] \in
        {<<"txid">>, <<"script_pubkey">>, <<"amount">>, <<"outpoint">>, <<>>,
         <<"script_pubkey", "amount">>, <<"txid", "amount">>, <<"txid", "script_pubkey">>}
  BY <1>1, <1>4 DEF SIG_BINDINGS, ASSERT_SIG_MY_TXID, ASSERT_SIG_MY_OUTPOINT,
     ASSERT_SIG_MY_SCRIPTPUBKEY, ASSERT_SIG_MY_AMOUNT, ASSERT_SIG_MY_SCRIPTPUBKEY_AMOUNT,
     ASSERT_SIG_MY_TXID_AMOUNT, ASSERT_SIG_MY_TXID_SCRIPTPUBKEY, ASSERT_SIG_RAW
<1> QED
  BY <1>2, <1>3, <1>5

\* Inputs that spend one coin have the same fields.
LEMMA SameFields ==
    ASSUME NEW a, NEW b, SameCoin(a, b)
    PROVE  /\ outpoint(a) = outpoint(b) /\ a.txid = b.txid /\ a.amount = b.amount
           /\ a.script_pubkey = b.script_pubkey /\ a.sequence = b.sequence
           /\ a.internal_key = b.internal_key /\ a.merkle_root = b.merkle_root
           /\ \A kinds \in Seq(Kinds) : FieldsOf(a, kinds) = FieldsOf(b, kinds)
<1>1. /\ a.txid = b.txid /\ a.index = b.index /\ a.amount = b.amount
      /\ a.script_pubkey = b.script_pubkey /\ a.sequence = b.sequence
      /\ a.internal_key = b.internal_key /\ a.merkle_root = b.merkle_root
      /\ a.tapleaf = b.tapleaf
  BY DEF SameCoin, InputFields
<1>2. outpoint(a) = outpoint(b)
  BY <1>1 DEF outpoint
<1>3. \A kind \in Kinds : FieldOf(a, kind) = FieldOf(b, kind)
  BY <1>1, <1>2 DEF FieldOf, Kinds
<1>4. ASSUME NEW kinds \in Seq(Kinds) PROVE FieldsOf(a, kinds) = FieldsOf(b, kinds)
  <2>1. \A n \in 1..Len(kinds) : kinds[n] \in Kinds
    BY ElementOfSeq
  <2> QED BY <1>3, <2>1 DEF FieldsOf
<1> QED
  BY <1>1, <1>2, <1>4

-----------------------------------------------------------------------------
(* Rules that are read at one place: they hold of a transaction whose       *)
(* places another, valid one has among its own.                             *)

\* An embedding moves the places with some opcodes to such places, one to one.
LEMMA EmbeddedPlaces ==
    ASSUME NEW t, NEW u, NEW e, Embeds(t, u, e), NEW opcodes, NEW p \in PlacesOf(t, opcodes)
    PROVE  e[p] \in PlacesOf(u, opcodes)
<1>1. p \in Places(t) /\ Condition(t, p).opcode \in opcodes
  BY DEF PlacesOf
<1>2. e[p] \in Places(u) /\ Condition(u, e[p]) = Condition(t, p)
  BY <1>1 DEF Embeds, Injection
<1> QED
  BY <1>1, <1>2 DEF PlacesOf

\* What a self assert says of its coin does not depend on where it stands.
LEMMA SelfAssertsPull ==
    ASSUME NEW t, NEW u, NEW e, Embeds(t, u, e), NEW p \in FailedSelfAsserts(t)
    PROVE  e[p] \in FailedSelfAsserts(u)
<1>1. p \in PlacesOf(t, SelfAsserts) /\ ~SelfAssertHolds(Input(t, p), Condition(t, p))
  BY DEF FailedSelfAsserts
<1>2. p \in Places(t) /\ e[p] \in PlacesOf(u, SelfAsserts)
  BY <1>1, EmbeddedPlaces DEF PlacesOf
<1>3. Condition(u, e[p]) = Condition(t, p) /\ SameCoin(Input(t, p), Input(u, e[p]))
  BY <1>2 DEF Embeds
<1>4. SelfAssertHolds(Input(u, e[p]), Condition(u, e[p]))
        <=> SelfAssertHolds(Input(t, p), Condition(t, p))
  BY <1>3, SameFields DEF SelfAssertHolds
<1> QED
  BY <1>1, <1>2, <1>4 DEF FailedSelfAsserts

\* Neither does what a signature assert signs.
LEMMA SignaturesPull ==
    ASSUME NEW t, NEW u, NEW e, Embeds(t, u, e), SignaturesHold(u)
    PROVE  SignaturesHold(t)
<1> SUFFICES ASSUME NEW p \in PlacesOf(t, SigOpcodes)
             PROVE  LET c == Condition(t, p)
                    IN  Verifies(c.operands[1], sig_digest(c, Input(t, p)), c.operands[3])
  BY DEF SignaturesHold
<1> DEFINE c == Condition(t, p)
<1>1. p \in Places(t) /\ e[p] \in PlacesOf(u, SigOpcodes) /\ c.opcode \in SigOpcodes
  BY EmbeddedPlaces DEF PlacesOf
<1>2. Condition(u, e[p]) = c /\ SameCoin(Input(t, p), Input(u, e[p]))
  BY <1>1 DEF Embeds
<1>3. sig_digest(c, Input(t, p)) = sig_digest(c, Input(u, e[p]))
  <2>1. SIG_BINDINGS[c.opcode] \in Seq(Kinds)
    BY <1>1, BindingsAreKinds
  <2> QED BY <1>2, <2>1, SameFields DEF sig_digest
<1>4. Verifies(c.operands[1], sig_digest(c, Input(u, e[p])), c.operands[3])
  BY <1>1, <1>2 DEF SignaturesHold
<1> QED
  BY <1>3, <1>4

\* The transaction's own fields, as far as time asserts read them: locktimes
\* of one type with the later one in u, and no smaller version.
Later(t, u) ==
    /\ t.version \in Nat /\ u.version \in Nat /\ t.locktime \in Nat /\ u.locktime \in Nat
    /\ t.version <= u.version /\ t.locktime <= u.locktime
    /\ HeightTyped(t) = HeightTyped(u)

\* A time assert that holds still does when the locktime is later.
LEMMA TimeAssertsPush ==
    ASSUME NEW t, NEW u, NEW e, Embeds(t, u, e), IsParsedTx(t), Later(t, u),
           NEW p \in Places(t), p \notin FailedTimeAsserts(t)
    PROVE  e[p] \notin FailedTimeAsserts(u)
<1> DEFINE c == Condition(t, p)
           a == Input(t, p)
           b == Input(u, e[p])
<1>1. Condition(u, e[p]) = c /\ SameCoin(a, b)
  BY DEF Embeds
<1>2. a.sequence = b.sequence
  BY <1>1, SameFields
<1>3. IsParsed(c)
  BY PlaceHolds
<1>4. c.opcode \in TimeAsserts => c.operands[1] \in Nat
  BY <1>3 DEF IsParsed
<1>5. ASSUME c.operands[1] \in Nat, NEW typed \in BOOLEAN, LocktimeHolds(t, a, c.operands[1], typed)
      PROVE  LocktimeHolds(u, b, c.operands[1], typed)
  <2>1. u.locktime >= c.operands[1]
    BY <1>5 DEF LocktimeHolds, Later
  <2>2. (u.locktime < LOCKTIME_THRESHOLD) = typed
    BY <1>5 DEF LocktimeHolds, Later, HeightTyped
  <2> QED BY <1>2, <1>5, <2>1, <2>2 DEF LocktimeHolds
<1>6. ASSUME NEW typed, SequenceHolds(t, a, c.operands[1], typed)
      PROVE  SequenceHolds(u, b, c.operands[1], typed)
  <2>1. u.version >= 2
    BY <1>6 DEF SequenceHolds, Later
  <2> QED BY <1>2, <1>6, <2>1 DEF SequenceHolds
<1>7. /\ c.opcode = ASSERT_LOCKTIME_HEIGHT => LocktimeHolds(t, a, c.operands[1], TRUE)
      /\ c.opcode = ASSERT_LOCKTIME_TIME => LocktimeHolds(t, a, c.operands[1], FALSE)
      /\ c.opcode = ASSERT_SEQUENCE_HEIGHT => SequenceHolds(t, a, c.operands[1], FALSE)
      /\ c.opcode = ASSERT_SEQUENCE_TIME => SequenceHolds(t, a, c.operands[1], TRUE)
  BY DEF FailedTimeAsserts
<1>8. /\ c.opcode = ASSERT_LOCKTIME_HEIGHT => LocktimeHolds(u, b, c.operands[1], TRUE)
      /\ c.opcode = ASSERT_LOCKTIME_TIME => LocktimeHolds(u, b, c.operands[1], FALSE)
      /\ c.opcode = ASSERT_SEQUENCE_HEIGHT => SequenceHolds(u, b, c.operands[1], FALSE)
      /\ c.opcode = ASSERT_SEQUENCE_TIME => SequenceHolds(u, b, c.operands[1], TRUE)
  BY <1>4, <1>5, <1>6, <1>7 DEF TimeAsserts, LocktimeAsserts
<1> HIDE DEF c, b
<1> QED
  BY <1>1, <1>8 DEF FailedTimeAsserts, c, b

\* With the same fields, one that fails still does.
LEMMA TimeAssertsPull ==
    ASSUME NEW t, NEW u, NEW e, Embeds(t, u, e),
           t.version = u.version, t.locktime = u.locktime,
           NEW p \in FailedTimeAsserts(t)
    PROVE  e[p] \in FailedTimeAsserts(u)
<1> DEFINE c == Condition(t, p)
           a == Input(t, p)
           b == Input(u, e[p])
<1>1. p \in Places(t)
  BY DEF FailedTimeAsserts
<1>2. Condition(u, e[p]) = c /\ SameCoin(a, b) /\ e[p] \in Places(u)
  BY <1>1 DEF Embeds, Injection
<1>3. a.sequence = b.sequence
  BY <1>2, SameFields
<1>4. \A operand, typed : /\ LocktimeHolds(t, a, operand, typed) = LocktimeHolds(u, b, operand, typed)
                          /\ SequenceHolds(t, a, operand, typed) = SequenceHolds(u, b, operand, typed)
  BY <1>3 DEF LocktimeHolds, SequenceHolds
<1>5. \/ c.opcode = ASSERT_LOCKTIME_HEIGHT /\ ~LocktimeHolds(t, a, c.operands[1], TRUE)
      \/ c.opcode = ASSERT_LOCKTIME_TIME /\ ~LocktimeHolds(t, a, c.operands[1], FALSE)
      \/ c.opcode = ASSERT_SEQUENCE_HEIGHT /\ ~SequenceHolds(t, a, c.operands[1], FALSE)
      \/ c.opcode = ASSERT_SEQUENCE_TIME /\ ~SequenceHolds(t, a, c.operands[1], TRUE)
  BY DEF FailedTimeAsserts
<1>6. \/ c.opcode = ASSERT_LOCKTIME_HEIGHT /\ ~LocktimeHolds(u, b, c.operands[1], TRUE)
      \/ c.opcode = ASSERT_LOCKTIME_TIME /\ ~LocktimeHolds(u, b, c.operands[1], FALSE)
      \/ c.opcode = ASSERT_SEQUENCE_HEIGHT /\ ~SequenceHolds(u, b, c.operands[1], FALSE)
      \/ c.opcode = ASSERT_SEQUENCE_TIME /\ ~SequenceHolds(u, b, c.operands[1], TRUE)
  BY <1>4, <1>5
<1> HIDE DEF c, b
<1> QED
  BY <1>2, <1>6 DEF FailedTimeAsserts, c, b

-----------------------------------------------------------------------------
(* Rules that count. *)

\* An embedding of some places into others leaves at least as many of them,
\* and exactly as many when it reaches all.
LEMMA EmbeddedCount ==
    ASSUME NEW t, NEW u, NEW e, Embeds(t, u, e), IsParsedTx(u),
           NEW A \in SUBSET Places(t), NEW B \in SUBSET Places(u), \A p \in A : e[p] \in B
    PROVE  /\ IsFiniteSet(A) /\ IsFiniteSet(B)
           /\ Cardinality(A) \in Nat /\ Cardinality(B) \in Nat
           /\ Cardinality(A) <= Cardinality(B)
           /\ (\A q \in B : \E p \in A : q = e[p]) => Cardinality(A) = Cardinality(B)
<1> DEFINE g == [p \in A |-> e[p]]
<1>1. IsFiniteSet(B)
  BY PlacesAreFinite, FS_Subset
<1>2. \A p, q \in Places(t) : e[p] = e[q] => p = q
  BY DEF Embeds, Injection, IsInjective
<1>3. g \in Injection(A, B)
  BY <1>2 DEF Injection, IsInjective
<1>4. (\A q \in B : \E p \in A : q = e[p]) => g \in Surjection(A, B)
  BY <1>3 DEF Surjection, Injection
<1> HIDE DEF g
<1>5. /\ IsFiniteSet(A) /\ Cardinality(A) <= Cardinality(B)
      /\ g \in Surjection(A, B) => Cardinality(A) = Cardinality(B)
  BY <1>1, <1>3, FS_Injection
<1> QED
  BY <1>1, <1>4, <1>5, FS_CardinalityType

\* The slots with some content are finitely many.
LEMMA SlotsAreFinite ==
    ASSUME NEW t, IsParsedTx(t), NEW content
    PROVE  IsFiniteSet(SlotsOf(t, content)) /\ Cardinality(SlotsOf(t, content)) \in Nat
<1>1. SlotsOf(t, content) \in SUBSET (1..Len(t.outputs)) /\ Len(t.outputs) \in Nat
  BY TxParts DEF SlotsOf
<1>2. IsFiniteSet(1..Len(t.outputs))
  BY <1>1, FS_Interval
<1>3. IsFiniteSet(SlotsOf(t, content))
  BY <1>1, <1>2, FS_Subset
<1> QED
  BY <1>3, FS_CardinalityType

\* Every content has as many slots in one transaction as in the other.
SameSlots(t, u) ==
    \A content : Cardinality(SlotsOf(t, content)) = Cardinality(SlotsOf(u, content))

\* A transaction whose claims are among those of another, over the same
\* slots, has enough slots when the other one does.
LEMMA ClaimsPull ==
    ASSUME NEW t, NEW u, NEW e, Embeds(t, u, e), IsParsedTx(u),
           SameSlots(t, u), IsParsedTx(t), OutputClaimsHold(u)
    PROVE  OutputClaimsHold(t)
<1> SUFFICES ASSUME NEW p \in Claims(t)
             PROVE  Cardinality(ClaimsOf(t, Claimed(Condition(t, p))))
                      <= Cardinality(SlotsOf(t, Claimed(Condition(t, p))))
  BY DEF OutputClaimsHold
<1> DEFINE content == Claimed(Condition(t, p))
<1>1. \A q \in Claims(t) : /\ q \in Places(t) /\ e[q] \in Claims(u)
                           /\ Condition(u, e[q]) = Condition(t, q)
  BY EmbeddedPlaces DEF Claims, PlacesOf, Embeds
<1>2. Cardinality(ClaimsOf(u, content)) <= Cardinality(SlotsOf(u, content))
  BY <1>1 DEF OutputClaimsHold
<1> HIDE DEF content
<1>3. /\ ClaimsOf(t, content) \in SUBSET Places(t) /\ ClaimsOf(u, content) \in SUBSET Places(u)
      /\ \A q \in ClaimsOf(t, content) : e[q] \in ClaimsOf(u, content)
  BY <1>1 DEF ClaimsOf, Claims, PlacesOf
<1>4. /\ Cardinality(ClaimsOf(t, content)) <= Cardinality(ClaimsOf(u, content))
      /\ Cardinality(ClaimsOf(t, content)) \in Nat /\ Cardinality(ClaimsOf(u, content)) \in Nat
  BY <1>3, EmbeddedCount
<1>5. Cardinality(SlotsOf(u, content)) = Cardinality(SlotsOf(t, content))
  BY DEF SameSlots
<1>6. Cardinality(SlotsOf(u, content)) \in Nat
  BY SlotsAreFinite
<1>7. Cardinality(ClaimsOf(t, content)) <= Cardinality(SlotsOf(t, content))
  BY <1>2, <1>4, <1>5, <1>6
<1> QED
  BY <1>7 DEF content

\* The record that an addressed condition writes is the same wherever its
\* input stands.
LEMMA SameRecord ==
    ASSUME NEW t, NEW u, NEW e, Embeds(t, u, e), IsParsedTx(t),
           NEW p \in PlacesOf(t, Addressed)
    PROVE  e[p] \in PlacesOf(u, Addressed) /\ Record(u, e[p]) = Record(t, p)
<1> DEFINE c == Condition(t, p)
<1>1. p \in Places(t) /\ c.opcode \in {ASSURE, REQUIRE}
  BY DEF PlacesOf, Addressed
<1>2. Condition(u, e[p]) = c /\ SameCoin(Input(t, p), Input(u, e[p]))
  BY <1>1 DEF Embeds
<1>3. c.own \in 0..31
  BY <1>1, PlaceHolds DEF IsParsed
<1>4. self_specifier(Input(t, p), c.own) = self_specifier(Input(u, e[p]), c.own)
  BY <1>2, <1>3, SpecifiersAreKinds, SameFields DEF self_specifier
<1> HIDE DEF c
<1>5. Record(u, e[p]) = Record(t, p)
  BY <1>2, <1>4 DEF Record, c
<1> QED
  BY <1>5, EmbeddedPlaces

\* A record has as many writers in t as in u, in either direction.
LEMMA SameWriters ==
    ASSUME NEW t, NEW u, NEW e, Embeds(t, u, e), IsParsedTx(t), IsParsedTx(u),
           Covers(t, u, e, Addressed), NEW opcode \in Addressed, NEW record
    PROVE  /\ Cardinality(Writers(t, opcode, record)) = Cardinality(Writers(u, opcode, record))
           /\ Cardinality(Writers(t, opcode, record)) \in Nat
<1> DEFINE A == Writers(t, opcode, record)
           B == Writers(u, opcode, record)
<1>1. A \in SUBSET Places(t) /\ B \in SUBSET Places(u)
  BY DEF Writers, PlacesOf
<1>2. \A p \in PlacesOf(t, Addressed) :
         Record(u, e[p]) = Record(t, p) /\ Condition(u, e[p]) = Condition(t, p) /\ e[p] \in Places(u)
  BY SameRecord DEF Embeds, Injection, PlacesOf
<1>3. \A p \in Places(t) : p \in A <=> p \in PlacesOf(t, Addressed)
                               /\ Condition(t, p).opcode = opcode /\ Record(t, p) = record
  BY DEF Writers, PlacesOf
<1>4. \A q \in Places(u) : q \in B <=> q \in PlacesOf(u, Addressed)
                               /\ Condition(u, q).opcode = opcode /\ Record(u, q) = record
  BY DEF Writers, PlacesOf
<1>5. \A p \in A : e[p] \in B
  BY <1>1, <1>2, <1>3, <1>4, EmbeddedPlaces
<1>6. \A q \in B : \E p \in A : q = e[p]
  <2> SUFFICES ASSUME NEW q \in B PROVE \E p \in A : q = e[p]
    OBVIOUS
  <2>1. q \in Places(u) /\ q \in PlacesOf(u, Addressed)
          /\ Condition(u, q).opcode = opcode /\ Record(u, q) = record
    BY <1>1, <1>4
  <2>2. PICK p \in Places(t) : q = e[p]
    BY <2>1 DEF Covers
  <2>3. Condition(t, p) = Condition(u, q)
    BY <2>2 DEF Embeds
  <2>4. p \in PlacesOf(t, Addressed)
    BY <2>1, <2>2, <2>3 DEF PlacesOf
  <2> QED BY <1>2, <1>3, <2>1, <2>2, <2>3, <2>4
<1> HIDE DEF A, B
<1>7. Cardinality(A) = Cardinality(B) /\ Cardinality(A) \in Nat
  BY <1>1, <1>5, <1>6, EmbeddedCount
<1> QED
  BY <1>7 DEF A, B

\* Messages balance over the addressed conditions of t as over those of u.
LEMMA MessagesPull ==
    ASSUME NEW t, NEW u, NEW e, Embeds(t, u, e), IsParsedTx(t), IsParsedTx(u),
           Covers(t, u, e, Addressed), MessagesBalance(u)
    PROVE  MessagesBalance(t)
<1> SUFFICES ASSUME NEW p \in PlacesOf(t, {ASSURE, REQUIRE})
             PROVE  Cardinality(Writers(t, ASSURE, Record(t, p)))
                      = Cardinality(Writers(t, REQUIRE, Record(t, p)))
  BY DEF MessagesBalance
<1>1. p \in PlacesOf(t, Addressed)
  BY DEF Addressed
<1>2. e[p] \in PlacesOf(u, {ASSURE, REQUIRE}) /\ Record(u, e[p]) = Record(t, p)
  BY <1>1, SameRecord DEF Addressed
<1>3. Cardinality(Writers(u, ASSURE, Record(t, p))) = Cardinality(Writers(u, REQUIRE, Record(t, p)))
  BY <1>2 DEF MessagesBalance
<1>4. ASSURE \in Addressed /\ REQUIRE \in Addressed
  BY DEF Addressed
<1> QED
  BY <1>3, <1>4, SameWriters

\* What is announced in t is announced in u.
LEMMA AnnouncedPush ==
    ASSUME NEW t, NEW u, NEW e, Embeds(t, u, e), NEW c, c.commitment \in 0..31, Announced(t, c)
    PROVE  Announced(u, c)
<1>1. PICK q \in PlacesOf(t, {ANNOUNCE}) :
         /\ Condition(t, q).operands = c.operands
         /\ self_specifier(Input(t, q), c.commitment) = ArgumentSpecifier(c)
  BY DEF Announced
<1>2. e[q] \in PlacesOf(u, {ANNOUNCE}) /\ q \in Places(t)
  BY EmbeddedPlaces DEF PlacesOf
<1>3. Condition(u, e[q]) = Condition(t, q) /\ SameCoin(Input(t, q), Input(u, e[q]))
  BY <1>2 DEF Embeds
<1>4. self_specifier(Input(t, q), c.commitment) = self_specifier(Input(u, e[q]), c.commitment)
  BY <1>3, SpecifiersAreKinds, SameFields DEF self_specifier
<1> QED
  BY <1>1, <1>2, <1>3, <1>4 DEF Announced

\* What t asks for is announced in t if it is in u, where nothing else is.
LEMMA AnnouncementsPull ==
    ASSUME NEW t, NEW u, NEW e, Embeds(t, u, e), IsParsedTx(t),
           Covers(t, u, e, {ANNOUNCE}), AnnouncementsHold(u)
    PROVE  AnnouncementsHold(t)
<1> SUFFICES ASSUME NEW p \in PlacesOf(t, {ASSERT_ANNOUNCEMENT})
             PROVE  Announced(t, Condition(t, p))
  BY DEF AnnouncementsHold
<1> DEFINE c == Condition(t, p)
<1>1. p \in Places(t) /\ c.opcode = ASSERT_ANNOUNCEMENT /\ c.commitment \in 0..31
  BY PlaceHolds DEF PlacesOf, IsParsed
<1>2. e[p] \in PlacesOf(u, {ASSERT_ANNOUNCEMENT}) /\ Condition(u, e[p]) = c
  BY <1>1, EmbeddedPlaces DEF Embeds
<1>3. Announced(u, c)
  BY <1>2 DEF AnnouncementsHold
<1> HIDE DEF c
<1>4. PICK q \in PlacesOf(u, {ANNOUNCE}) :
         /\ Condition(u, q).operands = c.operands
         /\ self_specifier(Input(u, q), c.commitment) = ArgumentSpecifier(c)
  BY <1>3 DEF Announced
<1>5. PICK r \in Places(t) : q = e[r]
  BY DEF Covers
<1>6. Condition(u, q) = Condition(t, r) /\ SameCoin(Input(t, r), Input(u, q))
  BY <1>5 DEF Embeds
<1>7. r \in PlacesOf(t, {ANNOUNCE})
  BY <1>6 DEF PlacesOf
<1>8. self_specifier(Input(t, r), c.commitment) = self_specifier(Input(u, q), c.commitment)
  BY <1>1, <1>6, SpecifiersAreKinds, SameFields DEF self_specifier
<1>9. Announced(t, c)
  BY <1>4, <1>6, <1>7, <1>8 DEF Announced
<1> QED
  BY <1>9 DEF c

-----------------------------------------------------------------------------
(* Sums, seals, and all the rules together. *)

Amounts(slots) == [i \in 1..Len(slots) |-> slots[i].amount]
Reserves(list) == [k \in 1..Len(list) |-> Reserve(list[k])]
InputReserves(t) == [i \in 1..Len(t.inputs) |-> InputReserve(t.inputs[i])]

\* A reserve that the parser has read is a natural number.
LEMMA ReserveType ==
    ASSUME NEW c, IsParsed(c)
    PROVE  Reserve(c) \in Nat
<1>1. c.opcode = RESERVE_FEE => c.operands[1] \in Nat
  BY DEF IsParsed
<1> QED
  BY <1>1 DEF Reserve

\* What validation adds up are integers.
LEMMA SumsAreInts ==
    ASSUME NEW t, IsParsedTx(t), IsTransaction(t)
    PROVE  /\ IsInts(Amounts(t.inputs)) /\ IsInts(Amounts(t.outputs)) /\ IsInts(InputReserves(t))
           /\ \A i \in 1..Len(t.inputs) : IsInts(Reserves(Conditions(t.inputs[i])))
<1>1. Len(t.inputs) \in Nat /\ Len(t.outputs) \in Nat
  BY TxParts
<1>2. \A i \in 1..Len(t.inputs) : t.inputs[i].amount \in Int
  BY LimitsAreNat DEF IsTransaction, IsTxInput
<1>3. \A j \in 1..Len(t.outputs) : t.outputs[j].amount \in Int
  BY LimitsAreNat DEF IsTransaction, IsTxOutput
<1>4. ASSUME NEW i \in 1..Len(t.inputs)
      PROVE  IsInts(Reserves(Conditions(t.inputs[i]))) /\ InputReserve(t.inputs[i]) \in Int
  <2> DEFINE list == Conditions(t.inputs[i])
  <2>1. Len(list) \in Nat /\ \A k \in 1..Len(list) : IsParsed(list[k])
    BY TxParts
  <2> HIDE DEF list
  <2>2. \A k \in 1..Len(list) : Reserve(list[k]) \in Int
    BY <2>1, ReserveType
  <2>3. IsInts(Reserves(list))
    BY <2>1, <2>2 DEF IsInts, Reserves
  <2>4. Total(0, Reserves(list)) \in Int
    BY <2>3, TotalType
  <2> QED BY <2>3, <2>4 DEF InputReserve, Reserves, list
<1>5. IsInts(Amounts(t.inputs))
  BY <1>1, <1>2 DEF IsInts, Amounts
<1>6. IsInts(Amounts(t.outputs))
  BY <1>1, <1>3 DEF IsInts, Amounts
<1>7. IsInts(InputReserves(t))
  BY <1>1, <1>4 DEF IsInts, InputReserves
<1> QED
  BY <1>4, <1>5, <1>6, <1>7

\* The totals of validation are these sums.
LEMMA TotalsAre ==
    ASSUME NEW t, IsParsedTx(t), IsTransaction(t)
    PROVE  /\ InputTotal(t) = Total(0, Amounts(t.inputs)) /\ InputTotal(t) \in Int
           /\ OutputTotal(t) = Total(0, Amounts(t.outputs)) /\ OutputTotal(t) \in Int
           /\ ReserveTotal(t) = Total(0, InputReserves(t)) /\ ReserveTotal(t) \in Int
<1>1. /\ InputTotal(t) = Total(0, Amounts(t.inputs))
      /\ OutputTotal(t) = Total(0, Amounts(t.outputs))
      /\ ReserveTotal(t) = Total(0, InputReserves(t))
  BY DEF InputTotal, OutputTotal, ReserveTotal, Amounts, InputReserves
<1> QED
  BY <1>1, SumsAreInts, TotalType

\* u takes in and pays out what t does, and reserves no less.
SameFlow(t, u) ==
    /\ InputTotal(t) = InputTotal(u) /\ OutputTotal(t) = OutputTotal(u)
    /\ ReserveTotal(t) <= ReserveTotal(u)

\* A fee that covers the reserves of u covers those of t.
LEMMA FeesPull ==
    ASSUME NEW t, NEW u, IsParsedTx(t), IsTransaction(t), IsParsedTx(u), IsTransaction(u),
           SameFlow(t, u), FeeCoversReserves(u)
    PROVE  FeeCoversReserves(t)
<1>1. Fee(t) = Fee(u) /\ Fee(t) \in Int
  BY TotalsAre DEF Fee, SameFlow
<1>2. ReserveTotal(t) \in Int /\ ReserveTotal(u) \in Int
  BY TotalsAre
<1> QED
  BY <1>1, <1>2 DEF FeeCoversReserves, SameFlow

\* A seal of t holds when it does in u and both hash alike.
LEMMA SealsPull ==
    ASSUME NEW t, NEW u, NEW e, Embeds(t, u, e), SealsHold(u),
           Has(t, Seals) => txid(t) = txid(u) /\ outputs_hash(t) = outputs_hash(u)
    PROVE  SealsHold(t)
<1> SUFFICES ASSUME NEW p \in PlacesOf(t, {SEAL, SEAL_OUTPUTS})
             PROVE  Condition(t, p).operands[1] =
                      IF Condition(t, p).opcode = SEAL THEN txid(t) ELSE outputs_hash(t)
  BY DEF SealsHold
<1>1. Has(t, Seals)
  BY DEF Has, Seals
<1>2. e[p] \in PlacesOf(u, {SEAL, SEAL_OUTPUTS}) /\ p \in Places(t)
  BY EmbeddedPlaces DEF PlacesOf
<1>3. Condition(u, e[p]) = Condition(t, p)
  BY <1>2 DEF Embeds
<1>4. Condition(u, e[p]).operands[1] =
        IF Condition(u, e[p]).opcode = SEAL THEN txid(u) ELSE outputs_hash(u)
  BY <1>2 DEF SealsHold
<1> QED
  BY <1>1, <1>3, <1>4

\* t is u without some conditions that neither announce nor are addressed,
\* and with the same slots and sums; a seal of it sees the same hashes.
Within(t, u) ==
    /\ IsParsedTx(t) /\ IsTransaction(t) /\ IsParsedTx(u) /\ IsTransaction(u)
    /\ \E e : Embeds(t, u, e) /\ Covers(t, u, e, Addressed \cup {ANNOUNCE})
    /\ t.version = u.version /\ t.locktime = u.locktime
    /\ SameSlots(t, u) /\ SameFlow(t, u)
    /\ Has(t, Seals) => txid(t) = txid(u) /\ outputs_hash(t) = outputs_hash(u)

\* Then t is valid when u is.
LEMMA WithinIsValid ==
    ASSUME NEW t, NEW u, Within(t, u), IsValid(u)
    PROVE  IsValid(t)
<1>1. /\ IsParsedTx(t) /\ IsTransaction(t) /\ IsParsedTx(u) /\ IsTransaction(u)
      /\ t.version = u.version /\ t.locktime = u.locktime
      /\ SameSlots(t, u) /\ SameFlow(t, u)
      /\ Has(t, Seals) => txid(t) = txid(u) /\ outputs_hash(t) = outputs_hash(u)
  BY DEF Within
<1>2. PICK e : Embeds(t, u, e) /\ Covers(t, u, e, Addressed \cup {ANNOUNCE})
  BY DEF Within
<1>3. Covers(t, u, e, Addressed) /\ Covers(t, u, e, {ANNOUNCE})
  BY <1>2 DEF Covers, PlacesOf
<1>4. RulesHold(u)
  BY <1>1, ValidMeans
<1>5. FailedSelfAsserts(t) = {} /\ FailedTimeAsserts(t) = {}
  <2>1. FailedSelfAsserts(u) = {} /\ FailedTimeAsserts(u) = {}
    BY <1>4 DEF RulesHold
  <2> QED BY <1>1, <1>2, <2>1, SelfAssertsPull, TimeAssertsPull
<1>6. OutputClaimsHold(t)
  BY <1>1, <1>2, <1>4, ClaimsPull DEF RulesHold
<1>7. MessagesBalance(t)
  BY <1>1, <1>2, <1>3, <1>4, MessagesPull DEF RulesHold
<1>8. AnnouncementsHold(t)
  BY <1>1, <1>2, <1>3, <1>4, AnnouncementsPull DEF RulesHold
<1>9. FeeCoversReserves(t)
  BY <1>1, <1>4, FeesPull DEF RulesHold
<1>10. SealsHold(t)
  BY <1>1, <1>2, <1>4, SealsPull DEF RulesHold
<1>11. SignaturesHold(t)
  BY <1>2, <1>4, SignaturesPull DEF RulesHold
<1>12. RulesHold(t)
  BY <1>5, <1>6, <1>7, <1>8, <1>9, <1>10, <1>11 DEF RulesHold
<1> QED
  BY <1>1, <1>12, ValidMeans

-----------------------------------------------------------------------------
(* What the edits make of sequences and of transactions. *)

\* A function on 1..n is a tuple of length n.
LEMMA TupleIs ==
    ASSUME NEW n \in Nat, NEW f, f = [i \in 1..n |-> f[i]]
    PROVE  IsTuple(f) /\ Len(f) = n /\ DOMAIN f = 1..n
<1>1. DOMAIN f = 1..n
  OBVIOUS
<1>2. f \in [1..n -> Range(f)]
  BY <1>1 DEF Range
<1>3. f \in Seq(Range(f))
  BY <1>2, SeqDef
<1> QED
  BY <1>1, <1>3, LenProperties DEF IsTuple

\* A tuple is a function on the indices up to its length.
LEMMA TupleParts ==
    ASSUME NEW f, IsTuple(f)
    PROVE  Len(f) \in Nat /\ DOMAIN f = 1..Len(f) /\ f = [i \in 1..Len(f) |-> f[i]]
  BY LenProperties DEF IsTuple

\* An exchange permutes two neighbours.
LEMMA ExchangeIs ==
    ASSUME NEW S, NEW s \in Seq(S), NEW k \in 1..Len(s), k < Len(s)
    PROVE  /\ Exchange(s, k) \in Seq(S) /\ Len(Exchange(s, k)) = Len(s)
           /\ Exchange(s, k)[k] = s[k+1] /\ Exchange(s, k)[k+1] = s[k]
           /\ \A i \in 1..Len(s) : i \notin {k, k+1} => Exchange(s, k)[i] = s[i]
<1> DEFINE r == [s EXCEPT ![k] = s[k+1]]
<1>1. Len(s) \in Nat /\ DOMAIN s = 1..Len(s) /\ s \in [1..Len(s) -> S] /\ k + 1 \in 1..Len(s)
  BY LenProperties
<1>2. r \in Seq(S) /\ Len(r) = Len(s)
  BY <1>1, ExceptSeq
<1>3. Exchange(s, k) = [r EXCEPT ![k+1] = s[k]]
  BY DEF Exchange
<1>4. /\ r[k] = s[k+1]
      /\ \A i \in 1..Len(s) : i # k => r[i] = s[i]
  BY <1>1
<1>5. k + 1 \in 1..Len(r) /\ s[k] \in S
  BY <1>1, <1>2
<1> HIDE DEF r
<1>6. [r EXCEPT ![k+1] = s[k]] \in Seq(S) /\ Len([r EXCEPT ![k+1] = s[k]]) = Len(r)
  BY <1>2, <1>5, ExceptSeq
<1>7. DOMAIN r = 1..Len(s)
  BY <1>2, LenProperties
<1> QED
  BY <1>1, <1>2, <1>3, <1>4, <1>6, <1>7

Insertion(list, k, c) == SubSeq(list, 1, k) \o <<c>> \o SubSeq(list, k + 1, Len(list))

\* L is s with c after its k-th element.
HasInserted(s, k, c, L) ==
    /\ Len(L) = Len(s) + 1 /\ L[k+1] = c
    /\ \A i \in 1..k : L[i] = s[i]
    /\ \A i \in (k+1)..Len(s) : L[i+1] = s[i]

\* An insertion leaves what stands before, and moves on what stands after.
LEMMA InsertionIs ==
    ASSUME NEW S, NEW s \in Seq(S), NEW k \in 0..Len(s), NEW c \in S
    PROVE  Insertion(s, k, c) \in Seq(S) /\ HasInserted(s, k, c, Insertion(s, k, c))
<1> DEFINE n == Len(s)
           a == SubSeq(s, 1, k)
           b == SubSeq(s, k + 1, n)
           one == <<c>>
<1>1. n \in Nat /\ k \in 0..n /\ \A i \in 1..n : s[i] \in S
  BY LenProperties, ElementOfSeq
<1>2. a \in Seq(S) /\ Len(a) = k /\ \A i \in 1..k : a[i] = s[i]
  <2>1. \A i \in 1..k : s[i] \in S
    BY <1>1
  <2>2. /\ SubSeq(s, 1, k) \in Seq(S) /\ Len(SubSeq(s, 1, k)) = IF 1 <= k THEN k - 1 + 1 ELSE 0
        /\ \A i \in 1..k-1+1 : SubSeq(s, 1, k)[i] = s[1+i-1]
    BY <1>1, <2>1, SubSeqProperties
  <2> QED BY <1>1, <2>2
<1>3. b \in Seq(S) /\ Len(b) = n - k /\ \A i \in 1..(n-k) : b[i] = s[k+i]
  <2>1. k + 1 \in Int /\ n \in Int /\ \A i \in (k+1)..n : s[i] \in S
    BY <1>1
  <2>2. /\ SubSeq(s, k+1, n) \in Seq(S)
        /\ Len(SubSeq(s, k+1, n)) = IF k + 1 <= n THEN n - (k+1) + 1 ELSE 0
        /\ \A i \in 1..n-(k+1)+1 : SubSeq(s, k+1, n)[i] = s[k+1+i-1]
    <3> HIDE DEF n
    <3> QED BY <2>1, SubSeqProperties
  <2> QED BY <1>1, <2>2
<1>4. one \in Seq(S) /\ Len(one) = 1 /\ one[1] = c
  OBVIOUS
<1>5. Insertion(s, k, c) = (a \o one) \o b
  BY DEF Insertion
<1> HIDE DEF a, b, one, n
<1> DEFINE l == a \o one
<1>6. /\ l \in Seq(S) /\ Len(l) = k + 1
      /\ \A i \in 1..(k+1) : l[i] = IF i <= k THEN s[i] ELSE c
  <2>1. /\ l \in Seq(S) /\ Len(l) = Len(a) + Len(one)
        /\ \A i \in 1..(Len(a) + Len(one)) : l[i] = IF i <= Len(a) THEN a[i] ELSE one[i - Len(a)]
    BY <1>2, <1>4, ConcatProperties
  <2>2. \A i \in 1..(k+1) : ~(i <= k) => i - k = 1
    BY <1>1
  <2> HIDE DEF l
  <2> QED BY <1>1, <1>2, <1>4, <2>1, <2>2
<1> HIDE DEF l
<1>7. /\ l \o b \in Seq(S) /\ Len(l \o b) = Len(l) + Len(b)
      /\ \A i \in 1..(Len(l) + Len(b)) : (l \o b)[i] = IF i <= Len(l) THEN l[i] ELSE b[i - Len(l)]
  BY <1>3, <1>6, ConcatProperties
<1>8. Insertion(s, k, c) = l \o b
  BY <1>5 DEF l
<1>9. Len(l \o b) = n + 1
  BY <1>1, <1>3, <1>6, <1>7
<1>10. ASSUME NEW i \in 1..(n+1) PROVE (l \o b)[i] = IF i <= k THEN s[i] ELSE IF i = k + 1 THEN c ELSE s[i-1]
  <2>1. i \in 1..(Len(l) + Len(b))
    BY <1>3, <1>6, <1>1
  <2>2. CASE i <= k + 1
    BY <1>1, <1>6, <1>7, <2>1, <2>2
  <2>3. CASE ~(i <= k + 1)
    <3>1. i - (k + 1) \in 1..(n-k) /\ k + (i - (k + 1)) = i - 1
      BY <1>1, <2>3
    <3>2. b[i - (k+1)] = s[i-1]
      BY <1>3, <3>1
    <3>3. ~(i <= k) /\ i # k + 1
      BY <2>3
    <3> QED BY <1>6, <1>7, <2>1, <2>3, <3>2, <3>3
  <2> QED BY <2>2, <2>3
<1>11. \A i \in (k+1)..n : i + 1 \in 1..(n+1) /\ ~(i + 1 <= k) /\ i + 1 # k + 1 /\ (i + 1) - 1 = i
  BY <1>1
<1>12. k + 1 \in 1..(n+1) /\ ~(k + 1 <= k) /\ \A i \in 1..k : i \in 1..(n+1)
  BY <1>1
<1>13. ASSUME NEW i \in 1..k PROVE (l \o b)[i] = s[i]
  <2>1. i \in 1..(n+1) /\ i <= k
    BY <1>1
  <2> QED BY <1>10, <2>1
<1>14. (l \o b)[k+1] = c
  BY <1>10, <1>12
<1>15. ASSUME NEW i \in (k+1)..n PROVE (l \o b)[i+1] = s[i]
  <2> DEFINE j == i + 1
  <2>1. j \in 1..(n+1) /\ ~(j <= k) /\ j # k + 1 /\ j - 1 = i
    BY <1>11
  <2> HIDE DEF j
  <2>2. (l \o b)[j] = s[j-1]
    BY <1>10, <2>1
  <2> QED BY <2>1, <2>2 DEF j
<1> QED
  BY <1>7, <1>8, <1>9, <1>13, <1>14, <1>15 DEF n, HasInserted

\* u is t with L as the conditions of its i-th input.
Replaces(t, u, i, L) ==
    /\ u.version = t.version /\ u.locktime = t.locktime /\ u.outputs = t.outputs
    /\ Len(u.inputs) = Len(t.inputs)
    /\ \A j \in 1..Len(t.inputs) : /\ SameCoin(t.inputs[j], u.inputs[j])
                                   /\ j # i => u.inputs[j] = t.inputs[j]
    /\ Conditions(u.inputs[i]) = L
Reconditioned(t, i, L) == [t EXCEPT !.inputs[i].conditions = L]

\* An edit of a list of conditions leaves all else.
LEMMA ReconditionedIs ==
    ASSUME NEW t, IsParsedTx(t), NEW i \in 1..Len(t.inputs), NEW L \in Seq(AllConditions),
           \A k \in 1..Len(L) : IsParsed(L[k])
    PROVE  IsParsedTx(Reconditioned(t, i, L)) /\ Replaces(t, Reconditioned(t, i, L), i, L)
<1> DEFINE input == t.inputs[i]
           new == [input EXCEPT !.conditions = L]
           inputs == [t.inputs EXCEPT ![i] = new]
           r == [t EXCEPT !.inputs = inputs]
<1>1. Reconditioned(t, i, L) = r
  BY DEF Reconditioned
<1>2. /\ IsTuple(t.inputs) /\ IsTuple(t.outputs)
      /\ t = [field \in {"version", "locktime", "inputs", "outputs"} |-> t[field]]
      /\ \A j \in DOMAIN t.inputs : IsParsedInput(t.inputs[j])
  BY DEF IsParsedTx
<1>3. Len(t.inputs) \in Nat /\ DOMAIN t.inputs = 1..Len(t.inputs)
  BY TxParts
<1>4. input = [field \in InputFields |-> input[field]]
  BY <1>2, <1>3 DEF IsParsedInput
<1>5. L # NotBitLisp /\ DOMAIN L = 1..Len(L)
  BY NoneIsNoTuple, LenProperties
<1>6. /\ DOMAIN new = InputFields /\ new.conditions = L
      /\ \A field \in InputFields \ {"conditions"} : new[field] = input[field]
      /\ new = [field \in InputFields |-> new[field]]
  <2> HIDE DEF input
  <2> QED BY <1>4 DEF InputFields
<1> HIDE DEF new
<1>7. Conditions(new) = L
  BY <1>5, <1>6 DEF Conditions
<1>8. IsParsedInput(new)
  BY <1>5, <1>6, <1>7 DEF IsParsedInput
<1>9. /\ inputs = [j \in 1..Len(t.inputs) |-> inputs[j]]
      /\ inputs[i] = new /\ \A j \in 1..Len(t.inputs) : j # i => inputs[j] = t.inputs[j]
  BY <1>3
<1> HIDE DEF inputs
<1>10. IsTuple(inputs) /\ Len(inputs) = Len(t.inputs) /\ DOMAIN inputs = 1..Len(t.inputs)
  BY <1>3, <1>9, TupleIs
<1>11. /\ r = [field \in {"version", "locktime", "inputs", "outputs"} |-> r[field]]
       /\ r.version = t.version /\ r.locktime = t.locktime
       /\ r.inputs = inputs /\ r.outputs = t.outputs
  BY <1>2
<1> HIDE DEF r
<1>12. IsParsedTx(r)
  BY <1>2, <1>3, <1>8, <1>9, <1>10, <1>11 DEF IsParsedTx
<1>13. \A j \in 1..Len(t.inputs) : SameCoin(t.inputs[j], inputs[j])
  BY <1>6, <1>9 DEF SameCoin
<1>14. Replaces(t, r, i, L)
  BY <1>7, <1>9, <1>10, <1>11, <1>13 DEF Replaces
<1> QED
  BY <1>1, <1>12, <1>14

\* Another list of conditions changes no sum but that of the reserves and
\* no hash.
LEMMA ReplacesKeeps ==
    ASSUME NEW t, IsParsedTx(t), NEW u, NEW i \in 1..Len(t.inputs), NEW L, Replaces(t, u, i, L)
    PROVE  /\ InputTotal(t) = InputTotal(u) /\ OutputTotal(t) = OutputTotal(u)
           /\ SameSlots(t, u)
           /\ txid(t) = txid(u) /\ outputs_hash(t) = outputs_hash(u)
<1> DEFINE n == Len(t.inputs)
<1>1. /\ u.version = t.version /\ u.locktime = t.locktime /\ u.outputs = t.outputs
      /\ Len(u.inputs) = n
      /\ \A j \in 1..n : SameCoin(t.inputs[j], u.inputs[j])
  BY DEF Replaces
<1>2. \A j \in 1..n : /\ t.inputs[j].txid = u.inputs[j].txid
                      /\ t.inputs[j].index = u.inputs[j].index
                      /\ t.inputs[j].script_sig = u.inputs[j].script_sig
                      /\ t.inputs[j].sequence = u.inputs[j].sequence
                      /\ t.inputs[j].amount = u.inputs[j].amount
  BY <1>1 DEF SameCoin, InputFields
<1> HIDE DEF n
<1>3. [j \in 1..n |-> t.inputs[j].amount] = [j \in 1..n |-> u.inputs[j].amount]
  BY <1>2
<1>4. InputTotal(t) = InputTotal(u) /\ OutputTotal(t) = OutputTotal(u)
  BY <1>1, <1>3 DEF InputTotal, OutputTotal, n
<1>5. SameSlots(t, u) /\ outputs_hash(t) = outputs_hash(u)
  BY <1>1 DEF SameSlots, SlotsOf, outputs_hash
<1> DEFINE Row(v) == [j \in 1..n |-> <<v.inputs[j].txid, v.inputs[j].index,
                                       v.inputs[j].script_sig, v.inputs[j].sequence>>]
<1>6. Row(t) = Row(u)
  BY <1>2
<1>7. /\ txid(t) = <<t.version, Row(t), outputs_hash(t), t.locktime>>
      /\ txid(u) = <<u.version, Row(u), outputs_hash(u), u.locktime>>
  BY <1>1 DEF txid, n
<1> HIDE DEF Row
<1> QED
  BY <1>1, <1>4, <1>5, <1>6, <1>7

\* Where the k-th condition of input i goes when h moves the conditions.
Along(t, i, h) == [p \in Places(t) |-> IF p[1] = i THEN <<i, h[p[2]]>> ELSE p]

\* h moves the elements of a tuple to such elements of another, one to one.
Moves(a, b, h) ==
    /\ h \in Injection(1..Len(a), 1..Len(b))
    /\ \A m \in 1..Len(a) : b[h[m]] = a[m]

\* Every place of u is the image of one of t, except those that h misses.
Reaches(t, u, i, h) ==
    \A q \in Places(u) :
        (q[1] = i => \E m \in 1..Len(Conditions(t.inputs[i])) : q[2] = h[m])
        => \E p \in Places(t) : q = Along(t, i, h)[p]

\* A list of conditions whose elements move into another one's embeds its
\* transaction in that with the other list.
LEMMA RowEmbeds ==
    ASSUME NEW t, IsParsedTx(t), NEW u, NEW i \in 1..Len(t.inputs), NEW L, Replaces(t, u, i, L),
           NEW h, Moves(Conditions(t.inputs[i]), L, h)
    PROVE  Embeds(t, u, Along(t, i, h)) /\ Reaches(t, u, i, h)
<1> DEFINE n == Len(t.inputs)
           list == Conditions(t.inputs[i])
           e == Along(t, i, h)
<1>1. /\ Len(u.inputs) = n /\ Conditions(u.inputs[i]) = L
      /\ \A j \in 1..n : SameCoin(t.inputs[j], u.inputs[j]) /\ (j # i => u.inputs[j] = t.inputs[j])
  BY DEF Replaces
<1>2. /\ h \in [1..Len(list) -> 1..Len(L)]
      /\ \A l, m \in 1..Len(list) : h[l] = h[m] => l = m
      /\ \A m \in 1..Len(list) : L[h[m]] = list[m]
  BY DEF Moves, Injection, IsInjective
<1>3. ASSUME NEW p \in Places(t)
      PROVE  /\ p = <<p[1], p[2]>> /\ p[1] \in 1..n
             /\ e[p] \in Places(u) /\ e[p] = <<e[p][1], e[p][2]>> /\ e[p][1] = p[1]
             /\ p[1] = i => p[2] \in 1..Len(list) /\ e[p][2] = h[p[2]]
             /\ p[1] # i => e[p] = p
             /\ Condition(u, e[p]) = Condition(t, p)
  <2>1. /\ p = <<p[1], p[2]>> /\ p[1] \in 1..n
        /\ p[2] \in 1..Len(Conditions(t.inputs[p[1]]))
        /\ Condition(t, p) = Conditions(t.inputs[p[1]])[p[2]]
    BY PlaceHolds DEF Input
  <2>2. CASE p[1] = i
    <3>1. e[p] = <<i, h[p[2]]>> /\ p[2] \in 1..Len(list) /\ h[p[2]] \in 1..Len(L)
      BY <1>2, <2>1, <2>2 DEF Along
    <3>2. e[p][1] = i /\ e[p][2] = h[p[2]]
      BY <3>1
    <3>3. e[p] \in Places(u)
      BY <1>1, <3>1, PlaceIs
    <3>4. Condition(u, e[p]) = L[h[p[2]]]
      BY <1>1, <3>2 DEF Condition
    <3>5. L[h[p[2]]] = Condition(t, p)
      BY <1>2, <2>1, <2>2, <3>1
    <3> QED BY <2>1, <2>2, <3>1, <3>2, <3>3, <3>4, <3>5
  <2>3. CASE p[1] # i
    <3>1. e[p] = p /\ u.inputs[p[1]] = t.inputs[p[1]]
      BY <1>1, <2>1, <2>3 DEF Along
    <3>2. p \in Places(u)
      BY <1>1, <2>1, <3>1, PlaceIs
    <3> QED BY <2>1, <2>3, <3>1, <3>2 DEF Condition
  <2> QED BY <2>2, <2>3
<1>4. DOMAIN e = Places(t)
  BY DEF Along
<1> HIDE DEF e
<1>5. \A p \in Places(t) : Condition(u, e[p]) = Condition(t, p) /\ SameCoin(Input(t, p), Input(u, e[p]))
  BY <1>1, <1>3 DEF Input
<1>6. \A p, q \in Places(t) : e[p] = e[q] => p = q
  <2> SUFFICES ASSUME NEW p \in Places(t), NEW q \in Places(t), e[p] = e[q] PROVE p = q
    OBVIOUS
  <2>1. p[1] = q[1]
    BY <1>3
  <2>2. CASE p[1] = i
    <3>1. h[p[2]] = h[q[2]] /\ p[2] \in 1..Len(list) /\ q[2] \in 1..Len(list)
      BY <1>3, <2>1, <2>2
    <3>2. p[2] = q[2]
      BY <1>2, <3>1
    <3> QED BY <1>3, <2>1, <3>2
  <2>3. CASE p[1] # i
    BY <1>3, <2>1, <2>3
  <2> QED BY <2>2, <2>3
<1>7. e \in [Places(t) -> Places(u)]
  <2>1. e = [p \in Places(t) |-> e[p]]
    BY DEF e, Along
  <2> QED BY <1>3, <2>1
<1>8. Embeds(t, u, e)
  BY <1>5, <1>6, <1>7 DEF Embeds, Injection, IsInjective
<1>9. ASSUME NEW q \in Places(u), q[1] = i => \E m \in 1..Len(list) : q[2] = h[m]
      PROVE  \E p \in Places(t) : q = e[p]
  <2>1. PICK j \in 1..n : \E k \in 1..Len(Conditions(u.inputs[j])) : q = <<j, k>>
    BY <1>1, PlaceIs
  <2>2. PICK k \in 1..Len(Conditions(u.inputs[j])) : q = <<j, k>>
    BY <2>1
  <2>3. q[1] = j /\ q[2] = k
    BY <2>2
  <2>4. CASE j = i
    <3>1. PICK m \in 1..Len(list) : k = h[m]
      BY <1>9, <2>3, <2>4
    <3> DEFINE p == <<i, m>>
    <3>2. p \in Places(t) /\ p[1] = i /\ p[2] = m
      BY PlaceIs
    <3> HIDE DEF p
    <3>3. e[p] = <<e[p][1], e[p][2]>> /\ e[p][1] = i /\ e[p][2] = h[m]
      BY <1>3, <3>2
    <3>4. q = e[p]
      BY <2>2, <2>4, <3>1, <3>3
    <3> QED BY <3>2, <3>4
  <2>5. CASE j # i
    <3>1. u.inputs[j] = t.inputs[j]
      BY <1>1, <2>5
    <3>2. q \in Places(t)
      BY <2>1, <3>1, PlaceIs
    <3>3. e[q] = q
      BY <1>3, <2>3, <2>5, <3>2
    <3> QED BY <3>2, <3>3
  <2> QED BY <2>4, <2>5
<1> QED
  BY <1>8, <1>9 DEF e, Reaches

\* What h misses in L neither announces nor is addressed.
HearsAll(a, L, h) ==
    \A n \in 1..Len(L) : L[n].opcode \in Addressed \cup {ANNOUNCE}
                            => \E m \in 1..Len(a) : n = h[m]

\* If a list moves into another one that announces and addresses no more and
\* reserves no less, then its transaction is within the other's.
LEMMA RowWithin ==
    ASSUME NEW t, IsParsedTx(t), IsTransaction(t), NEW u, IsParsedTx(u), IsTransaction(u),
           NEW i \in 1..Len(t.inputs), NEW L, Replaces(t, u, i, L),
           NEW h, Moves(Conditions(t.inputs[i]), L, h),
           HearsAll(Conditions(t.inputs[i]), L, h),
           Total(0, Reserves(Conditions(t.inputs[i]))) <= Total(0, Reserves(L))
    PROVE  Within(t, u)
<1> DEFINE e == Along(t, i, h)
           list == Conditions(t.inputs[i])
<1>1. /\ Embeds(t, u, e)
      /\ \A q \in Places(u) : (q[1] = i => \E m \in 1..Len(list) : q[2] = h[m])
                              => \E p \in Places(t) : q = e[p]
  <2>1. Embeds(t, u, Along(t, i, h)) /\ Reaches(t, u, i, h)
    BY RowEmbeds
  <2> QED BY <2>1 DEF Reaches
<1>2. /\ InputTotal(t) = InputTotal(u) /\ OutputTotal(t) = OutputTotal(u) /\ SameSlots(t, u)
      /\ txid(t) = txid(u) /\ outputs_hash(t) = outputs_hash(u)
  BY ReplacesKeeps
<1>3. /\ t.version = u.version /\ t.locktime = u.locktime /\ Len(u.inputs) = Len(t.inputs)
      /\ \A j \in 1..Len(t.inputs) : j # i => u.inputs[j] = t.inputs[j]
      /\ Conditions(u.inputs[i]) = L
  BY DEF Replaces
<1>4. Covers(t, u, e, Addressed \cup {ANNOUNCE})
  <2> HIDE DEF e, list
  <2> SUFFICES ASSUME NEW q \in PlacesOf(u, Addressed \cup {ANNOUNCE})
               PROVE  q[1] = i => \E m \in 1..Len(list) : q[2] = h[m]
    BY <1>1 DEF Covers, PlacesOf
  <2>1. q \in Places(u) /\ Condition(u, q).opcode \in Addressed \cup {ANNOUNCE}
    BY DEF PlacesOf
  <2> SUFFICES ASSUME q[1] = i PROVE \E m \in 1..Len(list) : q[2] = h[m]
    OBVIOUS
  <2>2. q[2] \in 1..Len(Conditions(u.inputs[q[1]])) /\ Condition(u, q) = Conditions(u.inputs[q[1]])[q[2]]
    BY <2>1, PlaceHolds DEF Input
  <2>3. q[2] \in 1..Len(L) /\ L[q[2]].opcode \in Addressed \cup {ANNOUNCE}
    BY <1>3, <2>1, <2>2
  <2> QED BY <2>3 DEF list, HearsAll
<1>5. ReserveTotal(t) <= ReserveTotal(u)
  <2> DEFINE a == InputReserves(t)
             b == InputReserves(u)
  <2>1. IsInts(a) /\ IsInts(b) /\ Len(t.inputs) \in Nat
    BY SumsAreInts, TxParts
  <2>2. Len(a) = Len(t.inputs) /\ Len(b) = Len(t.inputs)
    BY <1>3, <2>1 DEF InputReserves
  <2>3. ASSUME NEW j \in 1..Len(t.inputs) PROVE a[j] <= b[j]
    <3>1. a[j] = InputReserve(t.inputs[j]) /\ b[j] = InputReserve(u.inputs[j])
      BY <1>3 DEF InputReserves
    <3>2. CASE j = i
      <4>1. /\ InputReserve(t.inputs[i]) = Total(0, Reserves(list))
            /\ InputReserve(u.inputs[i]) = Total(0, Reserves(L))
        BY <1>3 DEF InputReserve, Reserves
      <4> QED BY <3>1, <3>2, <4>1
    <3>3. CASE j # i
      <4>1. a[j] = b[j] /\ a[j] \in Int
        BY <1>3, <2>1, <2>2, <3>1, <3>3 DEF IsInts
      <4> QED BY <4>1
    <3> QED BY <3>2, <3>3
  <2> HIDE DEF a, b
  <2>4. Total(0, a) <= Total(0, b)
    BY <2>1, <2>2, <2>3, TotalMonotone
  <2> QED BY <2>4, TotalsAre DEF a, b
<1> HIDE DEF e
<1> QED
  BY <1>1, <1>2, <1>3, <1>4, <1>5 DEF Within, SameFlow

-----------------------------------------------------------------------------
(* Adding a condition, and exchanging two. *)

AllParsed(s) == s \in Seq(AllConditions) /\ \A k \in 1..Len(s) : IsParsed(s[k])

\* The reserves of a list that has been parsed are integers.
LEMMA ReservesAre ==
    ASSUME NEW s, AllParsed(s)
    PROVE  /\ Len(s) \in Nat /\ Len(Reserves(s)) = Len(s) /\ IsInts(Reserves(s))
           /\ \A k \in 1..Len(s) : Reserves(s)[k] = Reserve(s[k]) /\ Reserve(s[k]) \in Nat
<1>1. Len(s) \in Nat /\ \A k \in 1..Len(s) : Reserve(s[k]) \in Nat
  BY LenProperties, ReserveType DEF AllParsed
<1>2. Len(Reserves(s)) = Len(s) /\ \A k \in 1..Len(s) : Reserves(s)[k] = Reserve(s[k])
  BY <1>1 DEF Reserves
<1> QED
  BY <1>1, <1>2 DEF IsInts

\* A list moves into itself with one more element.
LEMMA InsertionMoves ==
    ASSUME NEW s, AllParsed(s), NEW k \in 0..Len(s), NEW c \in AllConditions, IsParsed(c)
    PROVE  /\ AllParsed(Insertion(s, k, c))
           /\ LET h == [m \in 1..Len(s) |-> IF m <= k THEN m ELSE m + 1]
              IN  /\ Moves(s, Insertion(s, k, c), h)
                  /\ \A n \in 1..Len(Insertion(s, k, c)) : n # k + 1 => \E m \in 1..Len(s) : n = h[m]
           /\ Total(0, Reserves(s)) <= Total(0, Reserves(Insertion(s, k, c)))
<1> DEFINE L == Insertion(s, k, c)
           n == Len(s)
           h == [m \in 1..n |-> IF m <= k THEN m ELSE m + 1]
<1>1. s \in Seq(AllConditions) /\ n \in Nat /\ k \in 0..n /\ \A m \in 1..n : IsParsed(s[m])
  BY LenProperties DEF AllParsed
<1>2. /\ L \in Seq(AllConditions) /\ Len(L) = n + 1
      /\ \A m \in 1..k : L[m] = s[m]
      /\ L[k+1] = c
      /\ \A m \in (k+1)..n : L[m+1] = s[m]
  <2>1. s \in Seq(AllConditions)
    BY <1>1
  <2>2. Insertion(s, k, c) \in Seq(AllConditions) /\ HasInserted(s, k, c, Insertion(s, k, c))
    BY <2>1, InsertionIs
  <2> QED BY <2>2 DEF HasInserted
<1> HIDE DEF L, n
<1>3. ASSUME NEW m \in 1..(n+1) PROVE IsParsed(L[m])
  <2>1. CASE m <= k
    BY <1>1, <1>2, <2>1
  <2>2. CASE m = k + 1
    BY <1>2, <2>2
  <2>3. CASE m > k + 1
    <3> DEFINE l == m - 1
    <3>1. l \in (k+1)..n /\ l \in 1..n /\ l + 1 = m
      BY <1>1, <2>3
    <3> HIDE DEF l
    <3> QED BY <1>1, <1>2, <3>1
  <2> QED BY <1>1, <2>1, <2>2, <2>3
<1>4. AllParsed(L)
  BY <1>2, <1>3 DEF AllParsed
<1>5. ASSUME NEW m \in 1..n PROVE h[m] \in 1..(n+1) /\ L[h[m]] = s[m] /\ h[m] = IF m <= k THEN m ELSE m + 1
  <2>1. CASE m <= k
    BY <1>1, <1>2, <2>1
  <2>2. CASE ~(m <= k)
    <3>1. m \in (k+1)..n /\ h[m] = m + 1
      BY <1>1, <2>2
    <3> QED BY <1>1, <1>2, <2>2, <3>1
  <2> QED BY <2>1, <2>2
<1>6. \A l, m \in 1..n : h[l] = h[m] => l = m
  BY <1>1
<1>7. h \in [1..n -> 1..(n+1)]
  BY <1>5
<1> HIDE DEF h
<1>8. Moves(s, L, h)
  BY <1>2, <1>5, <1>6, <1>7 DEF Moves, Injection, IsInjective, n
<1>9. ASSUME NEW l \in 1..(n+1), l # k + 1 PROVE \E m \in 1..n : l = h[m]
  <2>1. CASE l <= k
    <3>1. l \in 1..n /\ h[l] = l
      BY <1>1, <1>5, <2>1
    <3> QED BY <3>1
  <2>2. CASE ~(l <= k)
    <3> DEFINE m == l - 1
    <3>1. m \in 1..n /\ ~(m <= k) /\ m + 1 = l
      BY <1>1, <1>9, <2>2
    <3> HIDE DEF m
    <3>2. h[m] = l
      BY <1>5, <3>1
    <3> QED BY <3>1, <3>2
  <2> QED BY <2>1, <2>2
<1>10. Total(0, Reserves(s)) <= Total(0, Reserves(L))
  <2> DEFINE a == Reserves(s)
             b == Reserves(L)
  <2>1. /\ Len(a) = n /\ IsInts(a) /\ \A m \in 1..n : a[m] = Reserve(s[m])
        /\ Len(b) = n + 1 /\ \A m \in 1..(n+1) : b[m] = Reserve(L[m])
    BY <1>2, <1>4, ReservesAre DEF n
  <2> HIDE DEF a, b
  <2>2. k + 1 \in 1..(n+1) /\ (\A m \in 1..k : m \in 1..n /\ m \in 1..(n+1))
          /\ (\A m \in (k+1)..n : m \in 1..n /\ m + 1 \in 1..(n+1))
    BY <1>1
  <2>3. b[k+1] = Reserve(c) /\ Reserve(c) \in Nat
    BY <1>2, <2>1, <2>2, ReserveType
  <2>4. (\A m \in 1..k : b[m] = a[m]) /\ (\A m \in (k+1)..n : b[m+1] = a[m])
    BY <1>2, <2>1, <2>2
  <2>5. Inserts(a, k, Reserve(c), b)
    BY <1>1, <2>1, <2>3, <2>4 DEF Inserts
  <2>6. Total(0, b) = Total(0, a) + Reserve(c) /\ Total(0, a) \in Int
    BY <2>1, <2>5, TotalInsert, TotalType
  <2>7. Total(0, a) <= Total(0, b)
    BY <2>3, <2>6
  <2> QED BY <2>7 DEF a, b
<1> QED
  BY <1>2, <1>4, <1>8, <1>9, <1>10 DEF L, h, n

\* A list moves into itself with two neighbours exchanged, and all of it is
\* reached.
LEMMA ExchangeMoves ==
    ASSUME NEW s, AllParsed(s), NEW k \in 1..Len(s), k < Len(s)
    PROVE  /\ AllParsed(Exchange(s, k)) /\ Len(Exchange(s, k)) = Len(s)
           /\ LET h == [m \in 1..Len(s) |-> IF m = k THEN k + 1 ELSE IF m = k + 1 THEN k ELSE m]
              IN  /\ Moves(s, Exchange(s, k), h) /\ Moves(Exchange(s, k), s, h)
                  /\ \A n \in 1..Len(s) : \E m \in 1..Len(s) : n = h[m]
           /\ Total(0, Reserves(s)) = Total(0, Reserves(Exchange(s, k)))
           /\ Total(0, Reserves(s)) \in Int
<1> DEFINE L == Exchange(s, k)
           n == Len(s)
           h == [m \in 1..n |-> IF m = k THEN k + 1 ELSE IF m = k + 1 THEN k ELSE m]
<1>1. /\ s \in Seq(AllConditions) /\ n \in Nat /\ k \in 1..n /\ k < n
      /\ \A m \in 1..n : IsParsed(s[m])
  BY LenProperties DEF AllParsed
<1>2. /\ L \in Seq(AllConditions) /\ Len(L) = n
      /\ L[k] = s[k+1] /\ L[k+1] = s[k]
      /\ \A m \in 1..n : m \notin {k, k+1} => L[m] = s[m]
  BY <1>1, ExchangeIs
<1> HIDE DEF L, n
<1>3. \A m \in 1..n : IsParsed(L[m])
  BY <1>1, <1>2
<1>4. AllParsed(L)
  BY <1>2, <1>3 DEF AllParsed
<1>5. \A m \in 1..n : h[m] \in 1..n /\ L[h[m]] = s[m] /\ s[h[m]] = L[m] /\ h[h[m]] = m
  BY <1>1, <1>2
<1>6. h \in [1..n -> 1..n]
  BY <1>5
<1> HIDE DEF h
<1>7. \A l, m \in 1..n : h[l] = h[m] => l = m
  BY <1>5
<1>8. h \in Injection(1..n, 1..n)
  BY <1>6, <1>7 DEF Injection, IsInjective
<1>9. Moves(s, L, h) /\ Moves(L, s, h)
  BY <1>2, <1>5, <1>8 DEF Moves, n
<1>10. \A l \in 1..n : \E m \in 1..n : l = h[m]
  BY <1>5
<1>11. Total(0, Reserves(s)) = Total(0, Reserves(L)) /\ Total(0, Reserves(s)) \in Int
  <2> DEFINE a == Reserves(s)
             b == Reserves(L)
  <2>1. /\ Len(a) = n /\ IsInts(a) /\ \A m \in 1..n : a[m] = Reserve(s[m])
        /\ Len(b) = n /\ \A m \in 1..n : b[m] = Reserve(L[m])
    BY <1>2, <1>4, ReservesAre DEF n
  <2> HIDE DEF a, b
  <2>2. k \in 1..(n-1) /\ k \in 1..n /\ k + 1 \in 1..n
    BY <1>1
  <2>3. Exchanges(a, k, b)
    BY <1>2, <2>1, <2>2 DEF Exchanges
  <2>4. Total(0, b) = Total(0, a) /\ Total(0, a) \in Int
    BY <2>1, <2>3, TotalExchange, TotalType
  <2> QED BY <2>4 DEF a, b
<1> QED
  BY <1>2, <1>4, <1>9, <1>10, <1>11 DEF L, h, n

-----------------------------------------------------------------------------
(* Every transaction that is assembled is one that has been parsed.         *)

\* A tuple with one more element.
LEMMA AppendIs ==
    ASSUME NEW a, IsTuple(a), NEW x
    PROVE  /\ IsTuple(Append(a, x)) /\ DOMAIN Append(a, x) = 1..(Len(a) + 1)
           /\ \A i \in 1..Len(a) : Append(a, x)[i] = a[i]
           /\ Append(a, x)[Len(a) + 1] = x
<1> DEFINE S == Range(a) \cup {x}
           r == Append(a, x)
<1>1. a \in Seq(S) /\ x \in S /\ Len(a) \in Nat
  BY SeqMonotonic, TupleParts DEF IsTuple
<1> HIDE DEF S
<1>2. /\ r \in Seq(S) /\ Len(r) = Len(a) + 1
      /\ \A i \in 1..Len(a) : r[i] = a[i]
      /\ r[Len(a) + 1] = x
  BY <1>1, AppendProperties
<1> HIDE DEF r
<1>3. r = [i \in 1..(Len(a) + 1) |-> r[i]] /\ Len(a) + 1 \in Nat
  BY <1>1, <1>2, LenProperties
<1>4. IsTuple(r) /\ DOMAIN r = 1..(Len(a) + 1)
  BY <1>3, TupleIs
<1> QED
  BY <1>2, <1>4 DEF r

\* Two tuples joined.
Joined(a, b, c) ==
    /\ Len(c) = Len(a) + Len(b)
    /\ \A i \in 1..Len(a) : c[i] = a[i]
    /\ \A i \in 1..Len(b) : c[Len(a) + i] = b[i]

\* A concatenation holds the one tuple and then the other.
LEMMA ConcatIs ==
    ASSUME NEW a, IsTuple(a), NEW b, IsTuple(b)
    PROVE  IsTuple(a \o b) /\ Joined(a, b, a \o b)
<1> DEFINE S == Range(a) \cup Range(b)
           c == a \o b
           m == Len(a)
           n == Len(b)
<1>1. a \in Seq(S) /\ b \in Seq(S) /\ m \in Nat /\ n \in Nat
  BY SeqMonotonic, TupleParts DEF IsTuple
<1> HIDE DEF S
<1>2. /\ c \in Seq(S) /\ Len(c) = m + n
      /\ \A i \in 1..(m + n) : c[i] = IF i <= m THEN a[i] ELSE b[i - m]
  BY <1>1, ConcatProperties
<1> HIDE DEF c, m, n
<1>3. c = [i \in 1..(m + n) |-> c[i]] /\ m + n \in Nat
  BY <1>1, <1>2, LenProperties
<1>4. IsTuple(c)
  BY <1>3, TupleIs
<1>5. ASSUME NEW i \in 1..m PROVE c[i] = a[i]
  <2>1. i \in 1..(m + n) /\ i <= m
    BY <1>1
  <2> QED BY <1>2, <2>1
<1>6. ASSUME NEW i \in 1..n PROVE c[m + i] = b[i]
  <2> DEFINE j == m + i
  <2>1. j \in 1..(m + n) /\ ~(j <= m) /\ j - m = i
    BY <1>1
  <2> HIDE DEF j
  <2>2. c[j] = b[j - m]
    BY <1>2, <2>1
  <2> QED BY <2>1, <2>2 DEF j
<1> QED
  BY <1>2, <1>4, <1>5, <1>6 DEF c, m, n, Joined

\* Other inputs or outputs in a transaction that has been parsed.
LEMMA WithParts ==
    ASSUME NEW t, IsParsedTx(t), NEW s, IsTuple(s)
    PROVE  /\ IsParsedTx([t EXCEPT !.outputs = s])
           /\ (\A i \in DOMAIN s : IsParsedInput(s[i])) => IsParsedTx([t EXCEPT !.inputs = s])
<1> DEFINE u == [t EXCEPT !.outputs = s]
           v == [t EXCEPT !.inputs = s]
<1>1. /\ IsTuple(t.inputs) /\ IsTuple(t.outputs)
      /\ t = [field \in {"version", "locktime", "inputs", "outputs"} |-> t[field]]
      /\ \A j \in DOMAIN t.inputs : IsParsedInput(t.inputs[j])
  BY DEF IsParsedTx
<1>2. /\ u = [field \in {"version", "locktime", "inputs", "outputs"} |-> u[field]]
      /\ u.inputs = t.inputs /\ u.outputs = s
  BY <1>1
<1>3. /\ v = [field \in {"version", "locktime", "inputs", "outputs"} |-> v[field]]
      /\ v.inputs = s /\ v.outputs = t.outputs
  BY <1>1
<1> HIDE DEF u, v
<1>4. IsParsedTx(u)
  BY <1>1, <1>2 DEF IsParsedTx
<1>5. (\A i \in DOMAIN s : IsParsedInput(s[i])) => IsParsedTx(v)
  BY <1>1, <1>3 DEF IsParsedTx
<1> QED
  BY <1>4, <1>5 DEF u, v

\* What it is to have been assembled.
IsAssembled(t) == IsParsedTx(t) /\ IsTransaction(t)

\* The conditions of an input have been parsed.
LEMMA ListIsParsed ==
    ASSUME NEW t, IsParsedTx(t), NEW i \in 1..Len(t.inputs)
    PROVE  AllParsed(Conditions(t.inputs[i]))
  BY TxParts DEF AllParsed

\* What an added condition makes of the transaction.
LEMMA AddConditionIs ==
    ASSUME IsAssembled(tx), NEW i \in 1..Len(tx.inputs),
           NEW k \in 0..Len(Conditions(tx.inputs[i])),
           NEW c \in AllConditions, IsParsed(c), AddCondition(i, k, c)
    PROVE  /\ IsAssembled(tx')
           /\ Replaces(tx, tx', i, Insertion(Conditions(tx.inputs[i]), k, c))
<1> DEFINE list == Conditions(tx.inputs[i])
           L == Insertion(list, k, c)
<1>1. tx' = Reconditioned(tx, i, L) /\ IsTransaction(tx')
  BY DEF AddCondition, Edit, Reconditioned, Insertion
<1>2. AllParsed(list)
  BY ListIsParsed DEF IsAssembled
<1>3. AllParsed(L)
  <2>1. k \in 0..Len(list)
    OBVIOUS
  <2> HIDE DEF list
  <2> QED BY <1>2, <2>1, InsertionMoves
<1> HIDE DEF L
<1>4. IsParsedTx(Reconditioned(tx, i, L)) /\ Replaces(tx, Reconditioned(tx, i, L), i, L)
  BY <1>3, ReconditionedIs DEF IsAssembled, AllParsed
<1> QED
  BY <1>1, <1>4 DEF IsAssembled, L

\* What two exchanged conditions make of it.
LEMMA ExchangeConditionsIs ==
    ASSUME IsAssembled(tx), NEW i \in 1..Len(tx.inputs),
           NEW k \in 1..Len(Conditions(tx.inputs[i])), ExchangeConditions(i, k)
    PROVE  /\ IsAssembled(tx') /\ k < Len(Conditions(tx.inputs[i]))
           /\ Replaces(tx, tx', i, Exchange(Conditions(tx.inputs[i]), k))
<1> DEFINE list == Conditions(tx.inputs[i])
           L == Exchange(list, k)
<1>1. list = tx.inputs[i].conditions
  BY DEF Conditions
<1>2. /\ tx' = [tx EXCEPT !.inputs[i].conditions = Exchange(tx.inputs[i].conditions, k)]
      /\ IsTransaction(tx') /\ k < Len(list)
  BY DEF ExchangeConditions, Edit
<1>3. tx' = Reconditioned(tx, i, L)
  BY <1>1, <1>2 DEF Reconditioned
<1>4. AllParsed(list)
  BY ListIsParsed DEF IsAssembled
<1>5. AllParsed(L)
  <2>1. k \in 1..Len(list)
    OBVIOUS
  <2> HIDE DEF list
  <2> QED BY <1>2, <1>4, <2>1, ExchangeMoves
<1> HIDE DEF L
<1>6. IsParsedTx(Reconditioned(tx, i, L)) /\ Replaces(tx, Reconditioned(tx, i, L), i, L)
  BY <1>5, ReconditionedIs DEF IsAssembled, AllParsed
<1> QED
  BY <1>2, <1>3, <1>6 DEF IsAssembled, L

\* The conditions that are added are among those that have been parsed.
LEMMA NewIsParsed ==
    ASSUME NEW c \in NewConditions
    PROVE  c \in AllConditions /\ IsParsed(c)
  BY NewPartsAreParsed DEF AllConditions

\* Every edit of an assembled transaction assembles one.
LEMMA EditsAssemble ==
    ASSUME IsAssembled(tx), Next
    PROVE  IsAssembled(tx')
<1>1. IsParsedTx(tx) /\ IsTuple(tx.inputs) /\ IsTuple(tx.outputs)
        /\ Len(tx.inputs) \in Nat /\ DOMAIN tx.inputs = 1..Len(tx.inputs)
        /\ \A j \in 1..Len(tx.inputs) : IsParsedInput(tx.inputs[j])
  BY TxParts DEF IsAssembled, IsParsedTx
<1>2. ASSUME NEW offer \in Offers, Concatenate(offer) PROVE IsAssembled(tx')
  <2> DEFINE s == tx.inputs \o offer.inputs
             o == tx.outputs \o offer.outputs
             r == Concatenation(tx, offer)
  <2>1. IsParsedTx(offer) /\ IsTuple(offer.inputs) /\ IsTuple(offer.outputs)
    BY OffersAreTransactions DEF IsParsedTx
  <2>2. Len(offer.inputs) \in Nat /\ \A j \in 1..Len(offer.inputs) : IsParsedInput(offer.inputs[j])
    BY <2>1, TxParts
  <2>3. IsTuple(s) /\ IsTuple(o) /\ Joined(tx.inputs, offer.inputs, s)
    BY <1>1, <2>1, ConcatIs
  <2>4. /\ r = [field \in {"version", "locktime", "inputs", "outputs"} |-> r[field]]
        /\ r.inputs = s /\ r.outputs = o
    BY DEF Concatenation
  <2>5. tx' = r /\ IsTransaction(r)
    BY <1>2 DEF Concatenate, Edit
  <2> HIDE DEF s, o, r
  <2>6. ASSUME NEW j \in DOMAIN s PROVE IsParsedInput(s[j])
    <3>1. j \in 1..(Len(tx.inputs) + Len(offer.inputs))
      BY <2>3, TupleParts DEF Joined
    <3>2. CASE j <= Len(tx.inputs)
      <4>1. j \in 1..Len(tx.inputs)
        BY <1>1, <2>2, <3>1, <3>2
      <4> QED BY <1>1, <2>3, <4>1 DEF Joined
    <3>3. CASE ~(j <= Len(tx.inputs))
      <4> DEFINE l == j - Len(tx.inputs)
      <4>1. l \in 1..Len(offer.inputs) /\ Len(tx.inputs) + l = j
        <5> DEFINE m == Len(tx.inputs)
                   n == Len(offer.inputs)
        <5>1. m \in Nat /\ n \in Nat /\ j \in 1..(m + n) /\ ~(j <= m) /\ l = j - m
          BY <1>1, <2>2, <3>1, <3>3
        <5> HIDE DEF l, m, n
        <5>2. l \in 1..n /\ m + l = j
          BY <5>1
        <5> QED BY <5>2 DEF m, n
      <4> HIDE DEF l
      <4> QED BY <2>2, <2>3, <4>1 DEF Joined
    <3> QED BY <3>2, <3>3
  <2> QED BY <2>3, <2>4, <2>5, <2>6 DEF IsAssembled, IsParsedTx
<1>3. ASSUME NEW slot \in NewSlots, AddSlot(slot) PROVE IsAssembled(tx')
  <2>1. tx' = [tx EXCEPT !.outputs = Append(tx.outputs, slot)] /\ IsTransaction(tx')
    BY <1>3 DEF AddSlot, Edit
  <2>2. IsTuple(Append(tx.outputs, slot))
    BY <1>1, AppendIs
  <2> QED BY <1>1, <2>1, <2>2, WithParts DEF IsAssembled
<1>4. ASSUME NEW input \in NewInputs, AddInput(input) PROVE IsAssembled(tx')
  <2> DEFINE s == Append(tx.inputs, input)
  <2>1. tx' = [tx EXCEPT !.inputs = s] /\ IsTransaction(tx')
    BY <1>4 DEF AddInput, Edit
  <2>2. /\ IsTuple(s) /\ DOMAIN s = 1..(Len(tx.inputs) + 1)
        /\ \A j \in 1..Len(tx.inputs) : s[j] = tx.inputs[j]
        /\ s[Len(tx.inputs) + 1] = input
    BY <1>1, AppendIs
  <2> HIDE DEF s
  <2>3. \A j \in 1..(Len(tx.inputs) + 1) : j \in 1..Len(tx.inputs) \/ j = Len(tx.inputs) + 1
    BY <1>1
  <2>4. IsParsedInput(input)
    BY NewPartsAreParsed
  <2>5. \A j \in DOMAIN s : IsParsedInput(s[j])
    BY <1>1, <2>2, <2>3, <2>4
  <2> QED BY <1>1, <2>1, <2>2, <2>5, WithParts DEF IsAssembled
<1>5. ASSUME NEW i \in 1..Len(tx.inputs), ExchangeInputs(i) PROVE IsAssembled(tx')
  <2> DEFINE s == Exchange(tx.inputs, i)
  <2>1. tx' = [tx EXCEPT !.inputs = s] /\ IsTransaction(tx') /\ i < Len(tx.inputs)
    BY <1>5 DEF ExchangeInputs, Edit
  <2>2. /\ s \in Seq(Range(tx.inputs)) /\ Len(s) = Len(tx.inputs)
        /\ s[i] = tx.inputs[i+1] /\ s[i+1] = tx.inputs[i]
        /\ \A j \in 1..Len(tx.inputs) : j \notin {i, i+1} => s[j] = tx.inputs[j]
    BY <1>1, <2>1, ExchangeIs DEF IsTuple
  <2> HIDE DEF s
  <2>3. s = [j \in 1..Len(tx.inputs) |-> s[j]]
    BY <2>2, LenProperties
  <2>4. IsTuple(s) /\ DOMAIN s = 1..Len(tx.inputs)
    BY <1>1, <2>3, TupleIs
  <2>5. i + 1 \in 1..Len(tx.inputs)
    BY <1>1, <2>1
  <2>6. \A j \in DOMAIN s : IsParsedInput(s[j])
    BY <1>1, <2>2, <2>4, <2>5
  <2> QED BY <1>1, <2>1, <2>4, <2>6, WithParts DEF IsAssembled
<1>6. ASSUME NEW j \in 1..Len(tx.outputs), ExchangeOutputs(j) PROVE IsAssembled(tx')
  <2> DEFINE s == Exchange(tx.outputs, j)
  <2>1. tx' = [tx EXCEPT !.outputs = s] /\ IsTransaction(tx') /\ j < Len(tx.outputs)
    BY <1>6 DEF ExchangeOutputs, Edit
  <2>2. s \in Seq(Range(tx.outputs)) /\ Len(s) = Len(tx.outputs) /\ Len(s) \in Nat
    BY <1>1, <2>1, ExchangeIs, TxParts DEF IsTuple
  <2> HIDE DEF s
  <2>3. s = [l \in 1..Len(tx.outputs) |-> s[l]]
    BY <2>2, LenProperties
  <2>4. IsTuple(s)
    BY <2>2, <2>3, TupleIs
  <2> QED BY <1>1, <2>1, <2>4, WithParts DEF IsAssembled
<1>7. ASSUME NEW i \in 1..Len(tx.inputs), NEW k \in 1..Len(Conditions(tx.inputs[i])),
             ExchangeConditions(i, k)
      PROVE  IsAssembled(tx')
  BY <1>7, ExchangeConditionsIs
<1>8. ASSUME NEW i \in 1..Len(tx.inputs), NEW k \in 0..Len(Conditions(tx.inputs[i])),
             NEW c \in NewConditions, AddCondition(i, k, c)
      PROVE  IsAssembled(tx')
  BY <1>8, NewIsParsed, AddConditionIs
<1>9. ASSUME NEW i \in 1..Len(tx.inputs), NEW k \in 1..Len(Conditions(tx.inputs[i])), Repeat(i, k)
      PROVE  IsAssembled(tx')
  <2> DEFINE list == Conditions(tx.inputs[i])
  <2>1. AllParsed(list)
    BY <1>1, ListIsParsed
  <2>2. list[k] \in AllConditions /\ IsParsed(list[k])
    <3> HIDE DEF list
    <3>1. k \in 1..Len(list)
      BY DEF list
    <3> QED BY <2>1, <3>1, ElementOfSeq DEF AllParsed
  <2>3. AddCondition(i, k, list[k])
    BY <1>9 DEF Repeat
  <2>4. k \in 0..Len(list)
    OBVIOUS
  <2> QED BY <2>2, <2>3, <2>4, AddConditionIs
<1> QED
  BY <1>2, <1>3, <1>4, <1>5, <1>6, <1>7, <1>8, <1>9 DEF Next

\* Whatever the edits, the transaction is one that the constructor admits
\* and that holds what has been parsed.
THEOREM EveryStateIsATransaction == Spec => []IsAssembled(tx)
<1>1. Init => IsAssembled(tx)
  BY OffersAreTransactions DEF Init, IsAssembled
<1>2. IsAssembled(tx) /\ [Next]_vars => IsAssembled(tx)'
  <2> SUFFICES ASSUME IsAssembled(tx), [Next]_vars PROVE IsAssembled(tx')
    OBVIOUS
  <2>1. CASE UNCHANGED vars
    BY <2>1 DEF vars
  <2> QED BY <2>1, EditsAssemble
<1> QED
  BY <1>1, <1>2, PTL DEF Spec

-----------------------------------------------------------------------------
(* Conditions only tighten.                                                 *)

\* A valid transaction stays valid without a claim, an assert or a reserve.
LEMMA TightenStep ==
    ASSUME IsAssembled(tx), NEW i \in 1..Len(tx.inputs), NEW c \in NewConditions,
           NEW k \in 0..Len(Conditions(tx.inputs[i])), AddCondition(i, k, c),
           c.opcode \notin Addressed \cup {ANNOUNCE}, IsValid(tx')
    PROVE  IsValid(tx)
<1> DEFINE list == Conditions(tx.inputs[i])
           L == Insertion(list, k, c)
           h == [m \in 1..Len(list) |-> IF m <= k THEN m ELSE m + 1]
<1>1. c \in AllConditions /\ IsParsed(c) /\ AllParsed(list) /\ k \in 0..Len(list)
  BY NewIsParsed, ListIsParsed DEF IsAssembled
<1>2. IsAssembled(tx') /\ Replaces(tx, tx', i, L)
  BY <1>1, AddConditionIs
<1>3. /\ AllParsed(L) /\ Moves(list, L, h)
      /\ \A n \in 1..Len(L) : n # k + 1 => \E m \in 1..Len(list) : n = h[m]
      /\ Total(0, Reserves(list)) <= Total(0, Reserves(L))
  <2> HIDE DEF list
  <2> QED BY <1>1, InsertionMoves, ZenonT(30)
<1>4. L[k+1] = c
  <2> HIDE DEF list
  <2>1. list \in Seq(AllConditions)
    BY <1>1 DEF AllParsed
  <2>2. HasInserted(list, k, c, L)
    BY <1>1, <2>1, InsertionIs
  <2> QED BY <2>2 DEF HasInserted
<1> HIDE DEF L, h
<1>5. HearsAll(list, L, h)
  BY <1>3, <1>4 DEF HearsAll
<1>6. Within(tx, tx')
  BY <1>2, <1>3, <1>5, RowWithin DEF IsAssembled
<1> QED
  BY <1>6, WithinIsValid

\* A claim, an assert or a reserve, put anywhere into a list, never turns
\* an invalid transaction valid.
THEOREM ClaimsAndAssertsOnlyTighten == Spec => ConditionsOnlyTighten
<1>1. IsAssembled(tx) => [\A i \in 1..Len(tx.inputs), c \in NewConditions :
          \A k \in 0..Len(Conditions(tx.inputs[i])) :
              AddCondition(i, k, c) /\ c.opcode \notin Addressed \cup {ANNOUNCE} /\ IsValid(tx')
              => IsValid(tx)]_vars
  BY TightenStep
<1> QED
  BY <1>1, EveryStateIsATransaction, PTL DEF ConditionsOnlyTighten

-----------------------------------------------------------------------------
(* Order is irrelevant. *)

\* Exchanging conditions, in either direction, changes no outcome.
LEMMA ExchangeConditionsStep ==
    ASSUME IsAssembled(tx), NEW i \in 1..Len(tx.inputs),
           NEW k \in 1..Len(Conditions(tx.inputs[i])), ExchangeConditions(i, k)
    PROVE  IsValid(tx') <=> IsValid(tx)
<1> DEFINE list == Conditions(tx.inputs[i])
           L == Exchange(list, k)
           h == [m \in 1..Len(list) |-> IF m = k THEN k + 1 ELSE IF m = k + 1 THEN k ELSE m]
<1>1. AllParsed(list) /\ k \in 1..Len(list)
  BY ListIsParsed DEF IsAssembled
<1>2. IsAssembled(tx') /\ k < Len(list) /\ Replaces(tx, tx', i, L)
  BY ExchangeConditionsIs
<1>3. /\ Len(L) = Len(list) /\ Moves(list, L, h) /\ Moves(L, list, h)
      /\ \A n \in 1..Len(list) : \E m \in 1..Len(list) : n = h[m]
      /\ Total(0, Reserves(list)) = Total(0, Reserves(L)) /\ Total(0, Reserves(list)) \in Int
  <2> HIDE DEF list
  <2> QED BY <1>1, <1>2, ExchangeMoves
<1> HIDE DEF L, h
<1>4. Replaces(tx', tx, i, list) /\ i \in 1..Len(tx'.inputs) /\ Conditions(tx'.inputs[i]) = L
  BY <1>2 DEF Replaces, SameCoin
<1>5. /\ Total(0, Reserves(list)) <= Total(0, Reserves(L))
      /\ Total(0, Reserves(L)) <= Total(0, Reserves(list))
      /\ HearsAll(list, L, h) /\ HearsAll(L, list, h)
  BY <1>3 DEF HearsAll
<1>6. Within(tx, tx')
  BY <1>2, <1>3, <1>5, RowWithin DEF IsAssembled
<1>7. Within(tx', tx)
  <2> DEFINE v == tx'
  <2>1. /\ IsParsedTx(v) /\ IsTransaction(v) /\ i \in 1..Len(v.inputs)
        /\ Conditions(v.inputs[i]) = L /\ Replaces(v, tx, i, list)
    BY <1>2, <1>4 DEF IsAssembled
  <2>2. IsParsedTx(tx) /\ IsTransaction(tx)
    BY DEF IsAssembled
  <2> HIDE DEF v, list
  <2>3. Within(v, tx)
    BY <1>3, <1>5, <2>1, <2>2, RowWithin
  <2> QED BY <2>3 DEF v
<1> QED
  BY <1>6, <1>7, WithinIsValid

\* Where the conditions of input i go when h moves the inputs.
Carried(t, h) == [p \in Places(t) |-> <<h[p[1]], p[2]>>]
Arrives(t, u, h) ==
    \A q \in Places(u) :
        (\E i \in 1..Len(t.inputs) : q[1] = h[i]) => \E p \in Places(t) : q = Carried(t, h)[p]

\* A transaction whose inputs move into those of another is embedded in it.
LEMMA InputsEmbed ==
    ASSUME NEW t, IsParsedTx(t), NEW u, NEW h, Moves(t.inputs, u.inputs, h)
    PROVE  Embeds(t, u, Carried(t, h)) /\ Arrives(t, u, h)
<1> DEFINE m == Len(t.inputs)
           n == Len(u.inputs)
           e == Carried(t, h)
<1>1. /\ h \in [1..m -> 1..n]
      /\ \A i, j \in 1..m : h[i] = h[j] => i = j
      /\ \A i \in 1..m : u.inputs[h[i]] = t.inputs[i]
  BY DEF Moves, Injection, IsInjective
<1>2. ASSUME NEW p \in Places(t)
      PROVE  /\ p = <<p[1], p[2]>> /\ p[1] \in 1..m
             /\ e[p] \in Places(u) /\ e[p] = <<h[p[1]], p[2]>>
             /\ e[p][1] = h[p[1]] /\ e[p][2] = p[2]
             /\ Condition(u, e[p]) = Condition(t, p) /\ Input(u, e[p]) = Input(t, p)
  <2>1. /\ p = <<p[1], p[2]>> /\ p[1] \in 1..m
        /\ p[2] \in 1..Len(Conditions(t.inputs[p[1]]))
    BY PlaceHolds DEF Input
  <2>2. h[p[1]] \in 1..n /\ u.inputs[h[p[1]]] = t.inputs[p[1]]
    BY <1>1, <2>1
  <2>3. e[p] = <<h[p[1]], p[2]>> /\ e[p][1] = h[p[1]] /\ e[p][2] = p[2]
    BY DEF Carried
  <2>4. e[p] \in Places(u)
    BY <2>1, <2>2, <2>3, PlaceIs
  <2>5. Condition(u, e[p]) = Condition(t, p) /\ Input(u, e[p]) = Input(t, p)
    BY <2>2, <2>3 DEF Condition, Input
  <2> QED BY <2>1, <2>3, <2>4, <2>5
<1>3. e = [p \in Places(t) |-> e[p]]
  BY DEF Carried
<1> HIDE DEF e
<1>4. e \in [Places(t) -> Places(u)]
  BY <1>2, <1>3
<1>5. \A p, q \in Places(t) : e[p] = e[q] => p = q
  <2> SUFFICES ASSUME NEW p \in Places(t), NEW q \in Places(t), e[p] = e[q] PROVE p = q
    OBVIOUS
  <2>1. h[p[1]] = h[q[1]] /\ p[2] = q[2]
    BY <1>2
  <2>2. p[1] = q[1]
    BY <1>1, <1>2, <2>1
  <2> QED BY <1>2, <2>1, <2>2
<1>6. \A p \in Places(t) : Condition(u, e[p]) = Condition(t, p) /\ SameCoin(Input(t, p), Input(u, e[p]))
  BY <1>2 DEF SameCoin
<1>7. Embeds(t, u, e)
  BY <1>4, <1>5, <1>6 DEF Embeds, Injection, IsInjective
<1>8. ASSUME NEW q \in Places(u), NEW i \in 1..m, q[1] = h[i]
      PROVE  \E p \in Places(t) : q = e[p]
  <2>1. PICK j \in 1..n : \E k \in 1..Len(Conditions(u.inputs[j])) : q = <<j, k>>
    BY PlaceIs
  <2>2. PICK k \in 1..Len(Conditions(u.inputs[j])) : q = <<j, k>>
    BY <2>1
  <2>3. j = h[i]
    BY <1>8, <2>2
  <2> DEFINE p == <<i, k>>
  <2>4. p \in Places(t) /\ p[1] = i /\ p[2] = k
    BY <1>1, <2>3, PlaceIs
  <2> HIDE DEF p
  <2>5. e[p] = <<j, k>>
    BY <1>2, <2>3, <2>4
  <2> QED BY <2>2, <2>4, <2>5
<1> QED
  BY <1>7, <1>8 DEF e, Arrives

\* b is a with its k-th element and the next exchanged.
Swapped(a, b, k) ==
    /\ Len(a) \in Nat /\ Len(b) = Len(a) /\ k \in 1..(Len(a) - 1)
    /\ b[k] = a[k+1] /\ b[k+1] = a[k]
    /\ \A m \in 1..Len(a) : m \notin {k, k+1} => b[m] = a[m]
Onto(h, n) == \A m \in 1..n : \E l \in 1..n : m = h[l]
Swap(n, k) == [m \in 1..n |-> IF m = k THEN k + 1 ELSE IF m = k + 1 THEN k ELSE m]

\* Exchanging moves the one sequence to the other, all of it.
LEMMA SwapMoves ==
    ASSUME NEW a, NEW b, NEW k, Swapped(a, b, k)
    PROVE  /\ Swapped(b, a, k)
           /\ Moves(a, b, Swap(Len(a), k))
           /\ Onto(Swap(Len(a), k), Len(a))
<1> DEFINE n == Len(a)
           h == Swap(n, k)
<1>1. /\ n \in Nat /\ Len(b) = n /\ k \in 1..(n-1) /\ b[k] = a[k+1] /\ b[k+1] = a[k]
      /\ \A m \in 1..n : m \notin {k, k+1} => b[m] = a[m]
  BY DEF Swapped
<1>2. \A m \in 1..n : h[m] = IF m = k THEN k + 1 ELSE IF m = k + 1 THEN k ELSE m
  BY DEF Swap
<1>3. h = [m \in 1..n |-> h[m]]
  BY DEF Swap
<1>4. Swapped(b, a, k)
  BY <1>1 DEF Swapped
<1> HIDE DEF h, n
<1>5. \A m \in 1..n : h[m] \in 1..n /\ b[h[m]] = a[m] /\ h[h[m]] = m
  BY <1>1, <1>2
<1>6. h \in [1..n -> 1..n]
  BY <1>3, <1>5
<1>7. \A l, m \in 1..n : h[l] = h[m] => l = m
  BY <1>5
<1>8. Moves(a, b, h)
  BY <1>1, <1>5, <1>6, <1>7 DEF Moves, Injection, IsInjective, n
<1>9. Onto(h, n)
  BY <1>5 DEF Onto
<1> QED
  BY <1>1, <1>4, <1>8, <1>9 DEF h, n

\* An exchange swaps two neighbours of a tuple.
LEMMA ExchangeSwaps ==
    ASSUME NEW a, IsTuple(a), NEW k \in 1..Len(a), k < Len(a)
    PROVE  Swapped(a, Exchange(a, k), k)
<1>1. /\ Len(Exchange(a, k)) = Len(a) /\ Len(a) \in Nat
      /\ Exchange(a, k)[k] = a[k+1] /\ Exchange(a, k)[k+1] = a[k]
      /\ \A i \in 1..Len(a) : i \notin {k, k+1} => Exchange(a, k)[i] = a[i]
  BY ExchangeIs, LenProperties DEF IsTuple
<1>2. k \in 1..(Len(a) - 1)
  BY <1>1
<1> QED
  BY <1>1, <1>2 DEF Swapped

\* A transaction that covers another's seals has seals only if that has.
LEMMA NoSeals ==
    ASSUME NEW t, NEW u, NEW e, Embeds(t, u, e), Covers(t, u, e, Seals), ~Has(t, Seals)
    PROVE  ~Has(u, Seals)
<1> SUFFICES ASSUME NEW q \in PlacesOf(u, Seals) PROVE FALSE
  BY DEF Has
<1>1. PICK p \in Places(t) : q = e[p]
  BY DEF Covers
<1>2. Condition(u, q) = Condition(t, p)
  BY <1>1 DEF Embeds
<1>3. p \in PlacesOf(t, Seals)
  BY <1>2 DEF PlacesOf
<1> QED
  BY <1>3 DEF Has

\* The transaction's own fields.
SameOwn(t, u) == t.version = u.version /\ t.locktime = u.locktime

\* Without seals, exchanging inputs makes no difference.
LEMMA SwappedInputs ==
    ASSUME NEW t, IsAssembled(t), NEW u, IsAssembled(u), SameOwn(t, u), t.outputs = u.outputs,
           NEW i, Swapped(t.inputs, u.inputs, i), ~Has(t, Seals)
    PROVE  Within(t, u) /\ ~Has(u, Seals)
<1> DEFINE n == Len(t.inputs)
           h == Swap(n, i)
           e == Carried(t, h)
<1>1. /\ IsParsedTx(t) /\ IsTransaction(t) /\ IsParsedTx(u) /\ IsTransaction(u)
      /\ n \in Nat /\ Len(u.inputs) = n
  BY DEF IsAssembled, Swapped
<1>2. Moves(t.inputs, u.inputs, h) /\ Onto(h, n)
  BY <1>1, SwapMoves
<1>3. Embeds(t, u, e) /\ Arrives(t, u, h)
  BY <1>1, <1>2, InputsEmbed
<1>4. \A q \in Places(u) : \E p \in Places(t) : q = e[p]
  <2> SUFFICES ASSUME NEW q \in Places(u) PROVE \E p \in Places(t) : q = e[p]
    OBVIOUS
  <2>1. q[1] \in 1..n
    BY <1>1, PlaceHolds
  <2>2. \E l \in 1..n : q[1] = h[l]
    BY <1>2, <2>1 DEF Onto
  <2> QED BY <1>3, <2>2 DEF Arrives
<1> HIDE DEF e
<1>5. Covers(t, u, e, Addressed \cup {ANNOUNCE}) /\ Covers(t, u, e, Seals)
  BY <1>4 DEF Covers, PlacesOf
<1>6. ~Has(u, Seals)
  BY <1>3, <1>5, NoSeals
<1>7. SameSlots(t, u) /\ OutputTotal(t) = OutputTotal(u)
  BY DEF SameSlots, SlotsOf, OutputTotal
<1>8. /\ i \in 1..(n-1) /\ u.inputs[i] = t.inputs[i+1] /\ u.inputs[i+1] = t.inputs[i]
      /\ \A m \in 1..n : m \notin {i, i+1} => u.inputs[m] = t.inputs[m]
  BY DEF Swapped
<1>9. InputTotal(t) = InputTotal(u)
  <2> DEFINE a == Amounts(t.inputs)
             b == Amounts(u.inputs)
  <2>1. IsInts(a) /\ IsInts(b)
    BY <1>1, SumsAreInts
  <2>2. /\ Len(a) = n /\ Len(b) = n
        /\ \A m \in 1..n : a[m] = t.inputs[m].amount /\ b[m] = u.inputs[m].amount
    BY <1>1 DEF Amounts
  <2> HIDE DEF a, b, n
  <2>3. Exchanges(a, i, b)
    BY <1>1, <1>8, <2>1, <2>2 DEF Exchanges
  <2> QED BY <1>1, <2>3, TotalExchange, TotalsAre DEF a, b
<1>10. ReserveTotal(t) = ReserveTotal(u) /\ ReserveTotal(t) \in Int
  <2> DEFINE a == InputReserves(t)
             b == InputReserves(u)
  <2>1. IsInts(a) /\ IsInts(b)
    BY <1>1, SumsAreInts
  <2>2. /\ Len(a) = n /\ Len(b) = n
        /\ \A m \in 1..n : a[m] = InputReserve(t.inputs[m]) /\ b[m] = InputReserve(u.inputs[m])
    BY <1>1 DEF InputReserves
  <2> HIDE DEF a, b, n
  <2>3. Exchanges(a, i, b)
    BY <1>1, <1>8, <2>1, <2>2 DEF Exchanges
  <2> QED BY <1>1, <2>3, TotalExchange, TotalsAre DEF a, b
<1>11. SameFlow(t, u)
  BY <1>7, <1>9, <1>10 DEF SameFlow
<1> QED
  BY <1>1, <1>3, <1>5, <1>6, <1>7, <1>11 DEF Within, SameOwn

\* Nor does exchanging outputs.
LEMMA SwappedOutputs ==
    ASSUME NEW t, IsAssembled(t), NEW u, IsAssembled(u), SameOwn(t, u), t.inputs = u.inputs,
           NEW j, Swapped(t.outputs, u.outputs, j), ~Has(t, Seals)
    PROVE  Within(t, u) /\ ~Has(u, Seals)
<1> DEFINE n == Len(t.outputs)
           h == Swap(n, j)
           id == [i \in 1..Len(t.inputs) |-> i]
           e == Carried(t, id)
<1>1. /\ IsParsedTx(t) /\ IsTransaction(t) /\ IsParsedTx(u) /\ IsTransaction(u)
      /\ n \in Nat /\ Len(u.outputs) = n
  BY DEF IsAssembled, Swapped
<1>2. Moves(t.inputs, u.inputs, id)
  BY DEF Moves, Injection, IsInjective
<1>3. Embeds(t, u, e) /\ Arrives(t, u, id)
  BY <1>1, <1>2, InputsEmbed
<1>4. \A q \in Places(u) : \E p \in Places(t) : q = e[p]
  <2> SUFFICES ASSUME NEW q \in Places(u) PROVE \E p \in Places(t) : q = e[p]
    OBVIOUS
  <2>1. q[1] \in 1..Len(t.inputs)
    BY <1>1, PlaceHolds
  <2>2. q[1] = id[q[1]]
    BY <2>1
  <2> QED BY <1>3, <2>1, <2>2 DEF Arrives
<1> HIDE DEF e
<1>5. Covers(t, u, e, Addressed \cup {ANNOUNCE}) /\ Covers(t, u, e, Seals)
  BY <1>4 DEF Covers, PlacesOf
<1>6. ~Has(u, Seals)
  BY <1>3, <1>5, NoSeals
<1>7. InputTotal(t) = InputTotal(u) /\ ReserveTotal(t) = ReserveTotal(u) /\ ReserveTotal(t) \in Int
  BY <1>1, TotalsAre DEF InputTotal, ReserveTotal
<1>8. /\ j \in 1..(n-1) /\ u.outputs[j] = t.outputs[j+1] /\ u.outputs[j+1] = t.outputs[j]
      /\ \A m \in 1..n : m \notin {j, j+1} => u.outputs[m] = t.outputs[m]
  BY DEF Swapped
<1>9. OutputTotal(t) = OutputTotal(u)
  <2> DEFINE a == Amounts(t.outputs)
             b == Amounts(u.outputs)
  <2>1. IsInts(a) /\ IsInts(b)
    BY <1>1, SumsAreInts
  <2>2. /\ Len(a) = n /\ Len(b) = n
        /\ \A m \in 1..n : a[m] = t.outputs[m].amount /\ b[m] = u.outputs[m].amount
    BY <1>1 DEF Amounts
  <2> HIDE DEF a, b, n
  <2>3. Exchanges(a, j, b)
    BY <1>1, <1>8, <2>1, <2>2 DEF Exchanges
  <2> QED BY <1>1, <2>3, TotalExchange, TotalsAre DEF a, b
<1>10. SameFlow(t, u)
  BY <1>7, <1>9 DEF SameFlow
<1>11. SameSlots(t, u)
  <2> SUFFICES ASSUME NEW content
               PROVE  Cardinality(SlotsOf(t, content)) = Cardinality(SlotsOf(u, content))
    BY DEF SameSlots
  <2> DEFINE A == SlotsOf(t, content)
             B == SlotsOf(u, content)
             g == [m \in A |-> h[m]]
  <2>1. /\ h \in [1..n -> 1..n]
        /\ \A l, m \in 1..n : h[l] = h[m] => l = m
        /\ \A m \in 1..n : u.outputs[h[m]] = t.outputs[m]
        /\ \A m \in 1..n : \E l \in 1..n : m = h[l]
    <3>1. Moves(t.outputs, u.outputs, h) /\ Onto(h, n)
      BY SwapMoves
    <3> QED BY <1>1, <3>1 DEF Moves, Injection, IsInjective, Onto
  <2>2. /\ A \in SUBSET (1..n) /\ \A m \in 1..n : m \in A <=> t.outputs[m] = content
        /\ B \in SUBSET (1..n) /\ \A m \in 1..n : m \in B <=> u.outputs[m] = content
    BY <1>1 DEF SlotsOf
  <2>3. IsFiniteSet(B)
    BY <1>1, SlotsAreFinite
  <2> HIDE DEF A, B, h, n
  <2>4. g \in Injection(A, B)
    BY <2>1, <2>2 DEF Injection, IsInjective
  <2>5. \A m \in B : \E l \in A : g[l] = m
    BY <2>1, <2>2
  <2>6. g \in Surjection(A, B)
    BY <2>4, <2>5 DEF Surjection, Injection
  <2> HIDE DEF g
  <2>7. Cardinality(A) = Cardinality(B)
    BY <2>3, <2>4, <2>6, FS_Injection
  <2> QED BY <2>7 DEF A, B
<1> QED
  BY <1>1, <1>3, <1>5, <1>6, <1>10, <1>11 DEF Within, SameOwn

\* Exchanging inputs or outputs of a transaction without seals changes no
\* outcome.
LEMMA ExchangePartsStep ==
    ASSUME IsAssembled(tx), ~Has(tx, Seals),
           \/ \E i \in 1..Len(tx.inputs) : ExchangeInputs(i)
           \/ \E j \in 1..Len(tx.outputs) : ExchangeOutputs(j)
    PROVE  IsValid(tx') <=> IsValid(tx)
<1> DEFINE v == tx'
<1>1. /\ IsTuple(tx.inputs) /\ IsTuple(tx.outputs)
      /\ tx = [field \in {"version", "locktime", "inputs", "outputs"} |-> tx[field]]
  BY DEF IsAssembled, IsParsedTx
<1>2. IsAssembled(v)
  BY EditsAssemble DEF Next
<1>3. CASE \E i \in 1..Len(tx.inputs) : ExchangeInputs(i)
  <2>1. PICK i \in 1..Len(tx.inputs) : ExchangeInputs(i)
    BY <1>3
  <2>2. /\ v = [tx EXCEPT !.inputs = Exchange(tx.inputs, i)] /\ i < Len(tx.inputs)
    BY <2>1 DEF ExchangeInputs, Edit
  <2>3. SameOwn(tx, v) /\ tx.outputs = v.outputs /\ v.inputs = Exchange(tx.inputs, i)
    BY <1>1, <2>2 DEF SameOwn
  <2>4. Swapped(tx.inputs, v.inputs, i)
    BY <1>1, <2>2, <2>3, ExchangeSwaps
  <2> HIDE DEF v
  <2>5. Within(tx, v) /\ ~Has(v, Seals)
    BY <1>2, <2>3, <2>4, SwappedInputs
  <2>6. Swapped(v.inputs, tx.inputs, i) /\ SameOwn(v, tx)
    BY <2>3, <2>4, SwapMoves DEF SameOwn
  <2>7. Within(v, tx)
    BY <1>2, <2>3, <2>5, <2>6, SwappedInputs
  <2>8. IsValid(v) <=> IsValid(tx)
    BY <2>5, <2>7, WithinIsValid
  <2> QED BY <2>8 DEF v
<1>4. CASE \E j \in 1..Len(tx.outputs) : ExchangeOutputs(j)
  <2>1. PICK j \in 1..Len(tx.outputs) : ExchangeOutputs(j)
    BY <1>4
  <2>2. /\ v = [tx EXCEPT !.outputs = Exchange(tx.outputs, j)] /\ j < Len(tx.outputs)
    BY <2>1 DEF ExchangeOutputs, Edit
  <2>3. SameOwn(tx, v) /\ tx.inputs = v.inputs /\ v.outputs = Exchange(tx.outputs, j)
    BY <1>1, <2>2 DEF SameOwn
  <2>4. Swapped(tx.outputs, v.outputs, j)
    BY <1>1, <2>2, <2>3, ExchangeSwaps
  <2> HIDE DEF v
  <2>5. Within(tx, v) /\ ~Has(v, Seals)
    BY <1>2, <2>3, <2>4, SwappedOutputs
  <2>6. Swapped(v.outputs, tx.outputs, j) /\ SameOwn(v, tx)
    BY <2>3, <2>4, SwapMoves DEF SameOwn
  <2>7. Within(v, tx)
    BY <1>2, <2>3, <2>5, <2>6, SwappedOutputs
  <2>8. IsValid(v) <=> IsValid(tx)
    BY <2>5, <2>7, WithinIsValid
  <2> QED BY <2>8 DEF v
<1> QED
  BY <1>3, <1>4

\* No outcome depends on the order of the conditions, and only one that a
\* seal fixes on that of inputs and outputs.
THEOREM OutcomesIgnoreOrder == Spec => OrderIsIrrelevant
<1>1. IsAssembled(tx) =>
        [(\/ \E i \in 1..Len(tx.inputs) :
                \E k \in 1..Len(Conditions(tx.inputs[i])) : ExchangeConditions(i, k)
          \/ /\ ~Has(tx, Seals)
             /\ \/ \E i \in 1..Len(tx.inputs) : ExchangeInputs(i)
                \/ \E j \in 1..Len(tx.outputs) : ExchangeOutputs(j))
          => IsValid(tx') = IsValid(tx)]_vars
  <2> SUFFICES ASSUME IsAssembled(tx),
                      \/ \E i \in 1..Len(tx.inputs) :
                            \E k \in 1..Len(Conditions(tx.inputs[i])) : ExchangeConditions(i, k)
                      \/ /\ ~Has(tx, Seals)
                         /\ \/ \E i \in 1..Len(tx.inputs) : ExchangeInputs(i)
                            \/ \E j \in 1..Len(tx.outputs) : ExchangeOutputs(j)
               PROVE  IsValid(tx') <=> IsValid(tx)
    BY DEF IsValid
  <2> QED BY ExchangeConditionsStep, ExchangePartsStep
<1> QED
  BY <1>1, EveryStateIsATransaction, PTL DEF OrderIsIrrelevant

-----------------------------------------------------------------------------
(* Concatenation. *)

\* u is a with b after it.
Merged(a, b, u) ==
    /\ Joined(a.inputs, b.inputs, u.inputs) /\ Joined(a.outputs, b.outputs, u.outputs)
    /\ u.version = Greater(a.version, b.version)
    /\ u.locktime = Greater(a.locktime, b.locktime)
Front(a) == Carried(a, [i \in 1..Len(a.inputs) |-> i])
Back(a, b) == Carried(b, [i \in 1..Len(b.inputs) |-> Len(a.inputs) + i])

\* e and f together reach every place of u, and none twice.
Splits(a, b, u, e, f) ==
    /\ \A q \in Places(u) : (\E p \in Places(a) : q = e[p]) \/ (\E p \in Places(b) : q = f[p])
    /\ \A p \in Places(a), r \in Places(b) : e[p] # f[r]

\* A concatenation is made of the places of the one and of the other.
LEMMA MergeEmbeds ==
    ASSUME NEW a, IsParsedTx(a), NEW b, IsParsedTx(b), NEW u, IsParsedTx(u), Merged(a, b, u)
    PROVE  /\ Embeds(a, u, Front(a)) /\ Embeds(b, u, Back(a, b))
           /\ Splits(a, b, u, Front(a), Back(a, b))
<1> DEFINE m == Len(a.inputs)
           n == Len(b.inputs)
           g == [i \in 1..m |-> i]
           h == [i \in 1..n |-> m + i]
<1>1. /\ m \in Nat /\ n \in Nat /\ Len(u.inputs) = m + n
      /\ \A i \in 1..m : u.inputs[i] = a.inputs[i]
      /\ \A i \in 1..n : u.inputs[m + i] = b.inputs[i]
  BY TxParts DEF Merged, Joined
<1>2. Moves(a.inputs, u.inputs, g)
  <2>1. \A i \in 1..m : g[i] = i /\ i \in 1..(m + n) /\ u.inputs[g[i]] = a.inputs[i]
    <3>1. \A i \in 1..m : i \in 1..(m + n)
      <4> HIDE DEF m, n
      <4> QED BY <1>1
    <3> QED BY <1>1, <3>1
  <2> QED BY <1>1, <2>1 DEF Moves, Injection, IsInjective
<1>3. Moves(b.inputs, u.inputs, h)
  <2>1. \A i \in 1..n : h[i] = m + i /\ m + i \in 1..(m + n) /\ u.inputs[h[i]] = b.inputs[i]
    <3>1. \A i \in 1..n : m + i \in 1..(m + n)
      <4> HIDE DEF m, n
      <4> QED BY <1>1
    <3> QED BY <1>1, <3>1
  <2>2. \A i, j \in 1..n : h[i] = h[j] => i = j
    BY <1>1
  <2> QED BY <1>1, <2>1, <2>2 DEF Moves, Injection, IsInjective
<1>4. /\ Front(a) = Carried(a, g) /\ Back(a, b) = Carried(b, h)
      /\ \A i \in 1..m : g[i] = i
      /\ \A i \in 1..n : h[i] = m + i
  BY DEF Front, Back
<1> HIDE DEF g, h
<1>5. /\ Embeds(a, u, Front(a)) /\ Arrives(a, u, g)
      /\ Embeds(b, u, Back(a, b)) /\ Arrives(b, u, h)
  BY <1>2, <1>3, <1>4, InputsEmbed
<1>6. ASSUME NEW q \in Places(u)
      PROVE  (\E p \in Places(a) : q = Front(a)[p]) \/ (\E p \in Places(b) : q = Back(a, b)[p])
  <2>1. q[1] \in 1..(m + n)
    BY <1>1, PlaceHolds
  <2>2. CASE q[1] <= m
    <3>1. q[1] \in 1..m /\ q[1] = g[q[1]]
      <4>1. q[1] \in 1..m
        BY <1>1, <2>1, <2>2
      <4> QED BY <1>4, <4>1
    <3> QED BY <1>4, <1>5, <3>1 DEF Arrives
  <2>3. CASE ~(q[1] <= m)
    <3> DEFINE l == q[1] - m
    <3>1. l \in 1..n /\ q[1] = m + l
      <4> HIDE DEF m, n
      <4> QED BY <1>1, <2>1, <2>3
    <3> HIDE DEF l
    <3>2. q[1] = h[l]
      BY <1>4, <3>1
    <3> QED BY <1>4, <1>5, <3>1, <3>2 DEF Arrives
  <2> QED BY <2>2, <2>3
<1>7. ASSUME NEW p \in Places(a), NEW r \in Places(b) PROVE Front(a)[p] # Back(a, b)[r]
  <2>1. p[1] \in 1..m /\ r[1] \in 1..n
    BY PlaceHolds
  <2>2. Front(a)[p] = <<g[p[1]], p[2]>> /\ Back(a, b)[r] = <<h[r[1]], r[2]>>
    BY <1>4 DEF Carried
  <2>3. g[p[1]] = p[1] /\ h[r[1]] = m + r[1]
    BY <1>4, <2>1
  <2>4. p[1] # m + r[1]
    <3> HIDE DEF m, n
    <3> QED BY <1>1, <2>1
  <2> QED BY <2>2, <2>3, <2>4
<1> QED
  BY <1>5, <1>6, <1>7 DEF Splits

\* What a concatenation makes of the transaction.
LEMMA ConcatenateMerges ==
    ASSUME IsAssembled(tx), NEW offer \in Offers, Concatenate(offer)
    PROVE  IsAssembled(tx') /\ IsAssembled(offer) /\ Merged(tx, offer, tx')
<1>1. IsAssembled(tx')
  BY EditsAssemble DEF Next
<1>2. IsAssembled(offer) /\ IsTuple(offer.inputs) /\ IsTuple(offer.outputs)
        /\ IsTuple(tx.inputs) /\ IsTuple(tx.outputs)
  BY OffersAreTransactions DEF IsAssembled, IsParsedTx
<1>3. tx' = Concatenation(tx, offer)
  BY DEF Concatenate, Edit
<1>4. /\ tx'.inputs = tx.inputs \o offer.inputs /\ tx'.outputs = tx.outputs \o offer.outputs
      /\ tx'.version = Greater(tx.version, offer.version)
      /\ tx'.locktime = Greater(tx.locktime, offer.locktime)
  BY <1>3 DEF Concatenation
<1>5. /\ Joined(tx.inputs, offer.inputs, tx.inputs \o offer.inputs)
      /\ Joined(tx.outputs, offer.outputs, tx.outputs \o offer.outputs)
  BY <1>2, ConcatIs
<1> QED
  BY <1>1, <1>2, <1>4, <1>5 DEF Merged

\* Transactions with different numbers of outputs hash their outputs
\* differently, so they have different identifiers as well.
LEMMA HashesTell ==
    ASSUME NEW t, NEW u, Len(t.outputs) \in Nat \ {0}, Len(u.outputs) \in Nat \ {0},
           Len(t.outputs) # Len(u.outputs)
    PROVE  outputs_hash(t) # outputs_hash(u) /\ txid(t) # txid(u)
<1>1. DOMAIN outputs_hash(t) = 1..Len(t.outputs) /\ DOMAIN outputs_hash(u) = 1..Len(u.outputs)
  BY DEF outputs_hash
<1>2. 1..Len(t.outputs) # 1..Len(u.outputs)
  <2> DEFINE m == Len(t.outputs)
             n == Len(u.outputs)
  <2> HIDE DEF m, n
  <2>1. m \in Nat \ {0} /\ n \in Nat \ {0} /\ m # n
    BY DEF m, n
  <2>2. 1..m # 1..n
    BY <2>1
  <2> QED BY <2>2 DEF m, n
<1>3. outputs_hash(t) # outputs_hash(u)
  BY <1>1, <1>2
<1>4. txid(t)[3] = outputs_hash(t) /\ txid(u)[3] = outputs_hash(u)
  BY DEF txid
<1> QED
  BY <1>3, <1>4

\* A seal that holds of a part does not hold of a whole with more outputs.
LEMMA SealTells ==
    ASSUME NEW t, NEW u, NEW e, Embeds(t, u, e), IsParsedTx(t), IsParsedTx(u),
           IsValid(t), Has(t, Seals),
           outputs_hash(t) # outputs_hash(u), txid(t) # txid(u)
    PROVE  ~IsValid(u)
<1>1. PICK p \in PlacesOf(t, Seals) : TRUE
  BY DEF Has
<1>2. p \in Places(t) /\ e[p] \in PlacesOf(u, Seals)
  BY EmbeddedPlaces DEF PlacesOf
<1>3. Condition(u, e[p]) = Condition(t, p)
  BY <1>2 DEF Embeds
<1>4. SealsHold(t)
  BY ValidMeans DEF RulesHold
<1>5. Condition(t, p).operands[1] =
         IF Condition(t, p).opcode = SEAL THEN txid(t) ELSE outputs_hash(t)
  BY <1>4 DEF SealsHold, Seals
<1>6. ~SealsHold(u)
  BY <1>2, <1>3, <1>5 DEF SealsHold, Seals
<1> QED
  BY <1>6, ValidMeans DEF RulesHold

\* A transaction has an output.
LEMMA SomeOutput ==
    ASSUME NEW t, IsAssembled(t)
    PROVE  Len(t.outputs) \in Nat \ {0}
<1>1. t.outputs \in Seq(Range(t.outputs)) /\ t.outputs # <<>> /\ Len(t.outputs) \in Nat
  BY TxParts DEF IsAssembled, IsParsedTx, IsTuple, IsTransaction
<1>2. Len(t.outputs) # 0
  <2> DEFINE s == t.outputs
             S == Range(t.outputs)
  <2>1. s \in Seq(S) /\ s # <<>>
    BY <1>1
  <2> HIDE DEF s, S
  <2>2. Len(s) # 0
    BY <2>1, EmptySeq, SeqEqual
  <2> QED BY <2>2 DEF s
<1> QED
  BY <1>1, <1>2

\* Concatenating breaks a seal on either side.
LEMMA MergeBreaksSeals ==
    ASSUME IsAssembled(tx), NEW offer \in Offers, Concatenate(offer),
           (IsValid(tx) /\ Has(tx, Seals)) \/ (IsValid(offer) /\ Has(offer, Seals))
    PROVE  ~IsValid(tx')
<1> DEFINE u == tx'
<1>1. IsAssembled(u) /\ IsAssembled(offer) /\ Merged(tx, offer, u)
  BY ConcatenateMerges
<1> HIDE DEF u
<1>2. IsParsedTx(u) /\ IsParsedTx(offer) /\ IsParsedTx(tx)
  BY <1>1 DEF IsAssembled
<1>3. Embeds(tx, u, Front(tx)) /\ Embeds(offer, u, Back(tx, offer))
  BY <1>1, <1>2, MergeEmbeds
<1>4. /\ Len(tx.outputs) \in Nat \ {0} /\ Len(offer.outputs) \in Nat \ {0}
      /\ Len(u.outputs) \in Nat \ {0} /\ Len(u.outputs) = Len(tx.outputs) + Len(offer.outputs)
  BY <1>1, SomeOutput DEF Merged, Joined
<1>5. Len(u.outputs) # Len(tx.outputs) /\ Len(u.outputs) # Len(offer.outputs)
  <2> DEFINE l == Len(u.outputs)
             m == Len(tx.outputs)
             n == Len(offer.outputs)
  <2>1. l \in Nat \ {0} /\ m \in Nat \ {0} /\ n \in Nat \ {0} /\ l = m + n
    BY <1>4
  <2> HIDE DEF l, m, n
  <2>2. l # m /\ l # n
    BY <2>1
  <2> QED BY <2>2 DEF l, m, n
<1>6. /\ outputs_hash(tx) # outputs_hash(u) /\ txid(tx) # txid(u)
      /\ outputs_hash(offer) # outputs_hash(u) /\ txid(offer) # txid(u)
  BY <1>4, <1>5, HashesTell
<1>7. ~IsValid(u)
  BY <1>2, <1>3, <1>6, SealTells
<1> QED
  BY <1>7 DEF u

\* A valid transaction that carries a seal can be concatenated with nothing.
THEOREM SealsForbidMerging == Spec => SealedMergeIsRejected
<1>1. IsAssembled(tx) =>
        [\A offer \in Offers :
            /\ Concatenate(offer)
            /\ (IsValid(tx) /\ Has(tx, Seals)) \/ (IsValid(offer) /\ Has(offer, Seals))
            => ~IsValid(tx')]_vars
  BY MergeBreaksSeals
<1> QED
  BY <1>1, EveryStateIsATransaction, PTL DEF SealedMergeIsRejected

\* A is what e brings to C.
Pulls(t, e, A, C) == \A p \in Places(t) : p \in A <=> e[p] \in C

\* Places of a whole are as many as those of its parts.
LEMMA SplitCount ==
    ASSUME NEW a, NEW b, NEW u, NEW e, NEW f, IsParsedTx(u),
           Embeds(a, u, e), Embeds(b, u, f), Splits(a, b, u, e, f),
           NEW A \in SUBSET Places(a), NEW B \in SUBSET Places(b), NEW C \in SUBSET Places(u),
           Pulls(a, e, A, C), Pulls(b, f, B, C)
    PROVE  /\ Cardinality(A) \in Nat /\ Cardinality(B) \in Nat
           /\ Cardinality(C) = Cardinality(A) + Cardinality(B)
<1> DEFINE D == {q \in C : \E p \in Places(a) : q = e[p]}
           E == {q \in C : \E p \in Places(b) : q = f[p]}
<1>1. D \in SUBSET Places(u) /\ E \in SUBSET Places(u)
  OBVIOUS
<1>2. (\A p \in A : e[p] \in D) /\ (\A q \in D : \E p \in A : q = e[p])
  BY DEF Pulls
<1>3. (\A p \in B : f[p] \in E) /\ (\A q \in E : \E p \in B : q = f[p])
  BY DEF Pulls
<1>4. D \cup E = C /\ D \cap E = {}
  BY DEF Splits
<1> HIDE DEF D, E
<1>5. IsFiniteSet(D) /\ Cardinality(A) = Cardinality(D) /\ Cardinality(A) \in Nat
  BY <1>1, <1>2, EmbeddedCount
<1>6. IsFiniteSet(E) /\ Cardinality(B) = Cardinality(E) /\ Cardinality(B) \in Nat
  BY <1>1, <1>3, EmbeddedCount
<1>7. Cardinality(D \cup E) = Cardinality(D) + Cardinality(E) - Cardinality(D \cap E)
  BY <1>5, <1>6, FS_Union
<1>8. Cardinality(D \cap E) = 0
  BY <1>4, FS_EmptySet
<1>9. Cardinality(C) = Cardinality(D) + Cardinality(E) - 0
  BY <1>4, <1>7, <1>8
<1> QED
  BY <1>5, <1>6, <1>9

\* So are the slots with some content.
LEMMA SlotsJoin ==
    ASSUME NEW a, IsParsedTx(a), NEW b, IsParsedTx(b), NEW u, IsParsedTx(u),
           Joined(a.outputs, b.outputs, u.outputs), NEW content
    PROVE  Cardinality(SlotsOf(u, content))
             = Cardinality(SlotsOf(a, content)) + Cardinality(SlotsOf(b, content))
<1> DEFINE m == Len(a.outputs)
           n == Len(b.outputs)
           A == SlotsOf(a, content)
           B == SlotsOf(b, content)
           C == SlotsOf(u, content)
           D == {m + j : j \in B}
           g == [j \in B |-> m + j]
<1>1. /\ m \in Nat /\ n \in Nat /\ Len(u.outputs) = m + n
      /\ \A j \in 1..m : u.outputs[j] = a.outputs[j]
      /\ \A j \in 1..n : u.outputs[m + j] = b.outputs[j]
  BY TxParts DEF Joined
<1>2. /\ A \in SUBSET (1..m) /\ \A j \in 1..m : j \in A <=> a.outputs[j] = content
      /\ B \in SUBSET (1..n) /\ \A j \in 1..n : j \in B <=> b.outputs[j] = content
  BY DEF SlotsOf
<1>3. C \in SUBSET (1..(m + n)) /\ \A j \in 1..(m + n) : j \in C <=> u.outputs[j] = content
  BY <1>1 DEF SlotsOf
<1>4. /\ IsFiniteSet(A) /\ IsFiniteSet(B) /\ Cardinality(A) \in Nat /\ Cardinality(B) \in Nat
  BY SlotsAreFinite
<1> HIDE DEF m, n, A, B, C
<1>5. (\A j \in 1..m : j \in 1..(m + n)) /\ (\A j \in 1..n : m + j \in 1..(m + n) /\ m + j \notin 1..m)
  BY <1>1
<1>6. \A l \in 1..(m + n) : l \notin 1..m => \E j \in 1..n : l = m + j
  <2> SUFFICES ASSUME NEW l \in 1..(m + n), l \notin 1..m PROVE \E j \in 1..n : l = m + j
    OBVIOUS
  <2>1. l - m \in 1..n /\ l = m + (l - m)
    BY <1>1
  <2> QED BY <2>1
<1>7. A \cup D = C /\ A \cap D = {}
  <2>1. ASSUME NEW j \in A PROVE j \in C /\ j \notin D
    BY <1>1, <1>2, <1>3, <1>5
  <2>2. ASSUME NEW l \in D PROVE l \in C
    <3>1. PICK j \in B : l = m + j
      OBVIOUS
    <3> QED BY <1>1, <1>2, <1>3, <1>5, <3>1
  <2>3. ASSUME NEW l \in C, l \notin A PROVE l \in D
    <3>1. l \notin 1..m
      BY <1>1, <1>2, <1>3, <2>3
    <3>2. PICK j \in 1..n : l = m + j
      BY <1>3, <1>6, <3>1
    <3>3. j \in B
      BY <1>1, <1>2, <1>3, <3>2
    <3> QED BY <3>2, <3>3
  <2> HIDE DEF D
  <2> QED BY <2>1, <2>2, <2>3
<1>8. g \in Surjection(B, D)
  BY DEF Surjection
<1>9. \A i, j \in B : g[i] = g[j] => i = j
  BY <1>1, <1>2
<1>10. DOMAIN g = B /\ g \in [B -> D]
  OBVIOUS
<1> HIDE DEF g, D
<1>11. g \in Injection(B, D)
  BY <1>9, <1>10 DEF Injection, IsInjective
<1>12. IsFiniteSet(D)
  BY <1>4, <1>8, FS_Surjection
<1>13. Cardinality(D) = Cardinality(B)
  BY <1>8, <1>11, <1>12, FS_Injection
<1>14. Cardinality(A \cup D) = Cardinality(A) + Cardinality(D) - Cardinality(A \cap D)
  BY <1>4, <1>12, FS_Union
<1>15. Cardinality(A \cap D) = 0
  BY <1>7, FS_EmptySet
<1>16. Cardinality(C) = Cardinality(A) + Cardinality(B) - 0
  BY <1>7, <1>13, <1>14, <1>15
<1>17. Cardinality(C) = Cardinality(A) + Cardinality(B)
  BY <1>4, <1>16
<1> QED
  BY <1>17 DEF A, B, C

-----------------------------------------------------------------------------
(* Rules that are read at one place, from a part to the whole. *)

\* A self assert fails in the whole only if it does in the part.
LEMMA SelfAssertsPush ==
    ASSUME NEW t, NEW u, NEW e, Embeds(t, u, e), NEW p \in Places(t), e[p] \in FailedSelfAsserts(u)
    PROVE  p \in FailedSelfAsserts(t)
<1>1. Condition(u, e[p]) = Condition(t, p) /\ SameCoin(Input(t, p), Input(u, e[p]))
  BY DEF Embeds
<1>2. SelfAssertHolds(Input(u, e[p]), Condition(u, e[p]))
        <=> SelfAssertHolds(Input(t, p), Condition(t, p))
  BY <1>1, SameFields DEF SelfAssertHolds
<1>3. e[p] \in PlacesOf(u, SelfAsserts) /\ ~SelfAssertHolds(Input(u, e[p]), Condition(u, e[p]))
  BY DEF FailedSelfAsserts
<1> QED
  BY <1>1, <1>2, <1>3 DEF FailedSelfAsserts, PlacesOf

\* A signature that verifies in the part does in the whole.
LEMMA SignaturesPush ==
    ASSUME NEW t, NEW u, NEW e, Embeds(t, u, e), SignaturesHold(t),
           NEW p \in Places(t), e[p] \in PlacesOf(u, SigOpcodes)
    PROVE  Verifies(Condition(u, e[p]).operands[1],
                    sig_digest(Condition(u, e[p]), Input(u, e[p])),
                    Condition(u, e[p]).operands[3])
<1> DEFINE c == Condition(t, p)
<1>1. Condition(u, e[p]) = c /\ SameCoin(Input(t, p), Input(u, e[p]))
  BY DEF Embeds
<1>2. c.opcode \in SigOpcodes /\ p \in PlacesOf(t, SigOpcodes)
  BY <1>1 DEF PlacesOf
<1>3. sig_digest(c, Input(t, p)) = sig_digest(c, Input(u, e[p]))
  <2>1. SIG_BINDINGS[c.opcode] \in Seq(Kinds)
    BY <1>2, BindingsAreKinds
  <2> QED BY <1>1, <2>1, SameFields DEF sig_digest
<1>4. Verifies(c.operands[1], sig_digest(c, Input(t, p)), c.operands[3])
  BY <1>2 DEF SignaturesHold
<1> QED
  BY <1>1, <1>3, <1>4

\* Messages balance at every record, whether or not it is written.
LEMMA BalancedEverywhere ==
    ASSUME NEW t, MessagesBalance(t), NEW record
    PROVE  Cardinality(Writers(t, ASSURE, record)) = Cardinality(Writers(t, REQUIRE, record))
<1>1. ASSUME NEW opcode \in {ASSURE, REQUIRE}, NEW p \in Writers(t, opcode, record)
      PROVE  Cardinality(Writers(t, ASSURE, record)) = Cardinality(Writers(t, REQUIRE, record))
  <2>1. p \in PlacesOf(t, {ASSURE, REQUIRE}) /\ Record(t, p) = record
    BY DEF Writers, PlacesOf
  <2> QED BY <2>1 DEF MessagesBalance
<1>2. CASE Writers(t, ASSURE, record) = {} /\ Writers(t, REQUIRE, record) = {}
  BY <1>2
<1> QED
  BY <1>1, <1>2

\* The writers of a record in a part are those that the embedding brings to
\* the whole's.
LEMMA WritersPull ==
    ASSUME NEW t, NEW u, NEW e, Embeds(t, u, e), IsParsedTx(t), NEW opcode \in Addressed, NEW record
    PROVE  Pulls(t, e, Writers(t, opcode, record), Writers(u, opcode, record))
<1> SUFFICES ASSUME NEW p \in Places(t)
             PROVE  p \in Writers(t, opcode, record) <=> e[p] \in Writers(u, opcode, record)
  BY DEF Pulls
<1>1. e[p] \in Places(u) /\ Condition(u, e[p]) = Condition(t, p)
  BY DEF Embeds, Injection
<1>2. p \in PlacesOf(t, {opcode}) <=> e[p] \in PlacesOf(u, {opcode})
  BY <1>1 DEF PlacesOf
<1>3. p \in PlacesOf(t, {opcode}) => Record(u, e[p]) = Record(t, p)
  BY SameRecord DEF PlacesOf
<1> QED
  BY <1>2, <1>3 DEF Writers

\* So are the claims for some content.
LEMMA ClaimsOfPull ==
    ASSUME NEW t, NEW u, NEW e, Embeds(t, u, e), NEW content
    PROVE  Pulls(t, e, ClaimsOf(t, content), ClaimsOf(u, content))
<1>1. \A p \in Places(t) : e[p] \in Places(u) /\ Condition(u, e[p]) = Condition(t, p)
  BY DEF Embeds, Injection
<1> QED
  BY <1>1 DEF Pulls, ClaimsOf, Claims, PlacesOf

-----------------------------------------------------------------------------
(* Composition. *)

\* What two transactions that compose have in common with the whole.
Composes(a, b, u) ==
    /\ IsAssembled(a) /\ IsAssembled(b) /\ IsAssembled(u) /\ Merged(a, b, u)
    /\ ~Has(a, Seals) /\ ~Has(b, Seals)
    /\ HeightTyped(a) = HeightTyped(b)
    /\ RulesHold(a) /\ RulesHold(b)

\* The whole's own fields are no earlier than those of its parts.
LEMMA MergedLater ==
    ASSUME NEW a, NEW b, NEW u, Composes(a, b, u)
    PROVE  Later(a, u) /\ Later(b, u)
<1>1. /\ a.version \in Nat /\ b.version \in Nat /\ u.version \in Nat
      /\ a.locktime \in Nat /\ b.locktime \in Nat /\ u.locktime \in Nat
  BY LimitsAreNat DEF Composes, IsAssembled, IsTransaction
<1>2. /\ u.version = Greater(a.version, b.version)
      /\ u.locktime = Greater(a.locktime, b.locktime)
      /\ HeightTyped(a) = HeightTyped(b)
  BY DEF Composes, Merged
<1>3. /\ a.version <= u.version /\ b.version <= u.version
      /\ a.locktime <= u.locktime /\ b.locktime <= u.locktime
      /\ u.locktime = a.locktime \/ u.locktime = b.locktime
  BY <1>1, <1>2 DEF Greater
<1>4. HeightTyped(a) = HeightTyped(u) /\ HeightTyped(b) = HeightTyped(u)
  BY <1>2, <1>3 DEF HeightTyped
<1> QED
  BY <1>1, <1>3, <1>4 DEF Later

\* Where the elements of two tuples are in the tuple that joins them.
Aligned(r, s, v) ==
    /\ \A i \in 1..Len(r) : i \in 1..Len(v) /\ v[i] = r[i]
    /\ \A i \in 1..Len(s) : Len(r) + i \in 1..Len(v) /\ v[Len(r) + i] = s[i]
    /\ Len(v) = Len(r) + Len(s)

\* A join keeps every element.
LEMMA JoinAligns ==
    ASSUME NEW r, NEW s, NEW v, Joined(r, s, v), Len(r) \in Nat, Len(s) \in Nat
    PROVE  Aligned(r, s, v)
<1> DEFINE m == Len(r)
           n == Len(s)
<1>1. /\ m \in Nat /\ n \in Nat /\ Len(v) = m + n
      /\ \A i \in 1..m : v[i] = r[i]
      /\ \A i \in 1..n : v[m + i] = s[i]
  BY DEF Joined
<1> HIDE DEF m, n
<1>2. (\A i \in 1..m : i \in 1..(m + n)) /\ (\A i \in 1..n : m + i \in 1..(m + n))
  BY <1>1
<1> QED
  BY <1>1, <1>2 DEF m, n, Aligned

\* Inputs, outputs and reserves of the whole are those of its parts.
LEMMA MergedTotals ==
    ASSUME NEW a, NEW b, NEW u, Composes(a, b, u)
    PROVE  /\ InputTotal(u) = InputTotal(a) + InputTotal(b)
           /\ OutputTotal(u) = OutputTotal(a) + OutputTotal(b)
           /\ ReserveTotal(u) = ReserveTotal(a) + ReserveTotal(b)
<1>1. /\ IsParsedTx(a) /\ IsTransaction(a) /\ IsParsedTx(b) /\ IsTransaction(b)
      /\ IsParsedTx(u) /\ IsTransaction(u)
      /\ Joined(a.inputs, b.inputs, u.inputs) /\ Joined(a.outputs, b.outputs, u.outputs)
  BY DEF Composes, IsAssembled, Merged
<1>2. /\ Len(a.inputs) \in Nat /\ Len(b.inputs) \in Nat /\ Len(u.inputs) \in Nat
      /\ Len(a.outputs) \in Nat /\ Len(b.outputs) \in Nat /\ Len(u.outputs) \in Nat
  BY <1>1, TxParts
<1>3. ASSUME NEW r, NEW s, NEW v, Joined(r, s, v),
             Len(r) \in Nat, Len(s) \in Nat, Len(v) \in Nat,
             IsInts(Amounts(r)), IsInts(Amounts(s))
      PROVE  Total(0, Amounts(v)) = Total(0, Amounts(r)) + Total(0, Amounts(s))
  <2> DEFINE x == Amounts(r)
             y == Amounts(s)
             z == Amounts(v)
  <2>1. /\ \A i \in 1..Len(r) : i \in 1..Len(v) /\ v[i] = r[i]
        /\ \A i \in 1..Len(s) : Len(r) + i \in 1..Len(v) /\ v[Len(r) + i] = s[i]
        /\ Len(v) = Len(r) + Len(s)
    BY <1>3, JoinAligns DEF Aligned
  <2>2. /\ Len(x) = Len(r) /\ Len(y) = Len(s) /\ Len(z) = Len(v)
        /\ \A i \in 1..Len(r) : x[i] = r[i].amount
        /\ \A i \in 1..Len(s) : y[i] = s[i].amount
        /\ \A i \in 1..Len(v) : z[i] = v[i].amount
    BY <1>3 DEF Amounts
  <2> HIDE DEF x, y, z
  <2>3. (\A i \in 1..Len(x) : z[i] = x[i]) /\ (\A i \in 1..Len(y) : z[Len(x) + i] = y[i])
    BY <2>1, <2>2
  <2>4. Joins(x, y, z)
    BY <1>3, <2>1, <2>2, <2>3 DEF Joins, x, y
  <2>5. Total(0, z) = Total(0, x) + Total(0, y)
    BY <2>4, TotalJoin
  <2> QED BY <2>5 DEF x, y, z
<1>4. InputTotal(u) = InputTotal(a) + InputTotal(b)
  BY <1>1, <1>2, <1>3, SumsAreInts, TotalsAre, SMTT(20)
<1>5. OutputTotal(u) = OutputTotal(a) + OutputTotal(b)
  BY <1>1, <1>2, <1>3, SumsAreInts, TotalsAre
<1>6. ReserveTotal(u) = ReserveTotal(a) + ReserveTotal(b)
  <2> DEFINE x == InputReserves(a)
             y == InputReserves(b)
             z == InputReserves(u)
  <2>1. /\ \A i \in 1..Len(a.inputs) : i \in 1..Len(u.inputs) /\ u.inputs[i] = a.inputs[i]
        /\ \A i \in 1..Len(b.inputs) :
              Len(a.inputs) + i \in 1..Len(u.inputs) /\ u.inputs[Len(a.inputs) + i] = b.inputs[i]
        /\ Len(u.inputs) = Len(a.inputs) + Len(b.inputs)
    <3>1. Aligned(a.inputs, b.inputs, u.inputs)
      BY <1>1, <1>2, JoinAligns
    <3> QED BY <3>1 DEF Aligned
  <2>2. /\ Len(x) = Len(a.inputs) /\ Len(y) = Len(b.inputs) /\ Len(z) = Len(u.inputs)
        /\ \A i \in 1..Len(a.inputs) : x[i] = InputReserve(a.inputs[i])
        /\ \A i \in 1..Len(b.inputs) : y[i] = InputReserve(b.inputs[i])
        /\ \A i \in 1..Len(u.inputs) : z[i] = InputReserve(u.inputs[i])
    BY <1>2 DEF InputReserves
  <2>3. IsInts(x) /\ IsInts(y)
    BY <1>1, SumsAreInts
  <2> HIDE DEF x, y, z
  <2>4. (\A i \in 1..Len(x) : z[i] = x[i]) /\ (\A i \in 1..Len(y) : z[Len(x) + i] = y[i])
    BY <2>1, <2>2
  <2>5. Joins(x, y, z)
    BY <2>1, <2>2, <2>3, <2>4 DEF Joins
  <2>6. Total(0, z) = Total(0, x) + Total(0, y)
    BY <2>5, TotalJoin
  <2> QED BY <1>1, <2>6, TotalsAre DEF x, y, z
<1> QED
  BY <1>4, <1>5, <1>6

\* The counts of the whole are the sums of its parts', so each rule that
\* counts holds of the whole.
LEMMA CountsCompose ==
    ASSUME NEW a, NEW b, NEW u, Composes(a, b, u)
    PROVE  OutputClaimsHold(u) /\ MessagesBalance(u) /\ FeeCoversReserves(u)
<1> DEFINE e == Front(a)
           f == Back(a, b)
<1>1. /\ IsParsedTx(a) /\ IsTransaction(a) /\ IsParsedTx(b) /\ IsTransaction(b)
      /\ IsParsedTx(u) /\ IsTransaction(u)
      /\ Merged(a, b, u) /\ RulesHold(a) /\ RulesHold(b)
  BY DEF Composes, IsAssembled
<1>2. Embeds(a, u, e) /\ Embeds(b, u, f) /\ Splits(a, b, u, e, f)
  BY <1>1, MergeEmbeds
<1> HIDE DEF e, f
<1>3. ASSUME NEW t, IsParsedTx(t), OutputClaimsHold(t), NEW content,
             Cardinality(ClaimsOf(t, content)) \in Nat
      PROVE  Cardinality(ClaimsOf(t, content)) <= Cardinality(SlotsOf(t, content))
  <2>1. CASE ClaimsOf(t, content) = {}
    BY <1>3, <2>1, SlotsAreFinite, FS_EmptySet
  <2>2. CASE ClaimsOf(t, content) # {}
    <3>1. PICK p \in Claims(t) : Claimed(Condition(t, p)) = content
      BY <2>2 DEF ClaimsOf
    <3> QED BY <1>3, <3>1 DEF OutputClaimsHold
  <2> QED BY <2>1, <2>2
<1>4. ASSUME NEW content
      PROVE  Cardinality(ClaimsOf(u, content)) <= Cardinality(SlotsOf(u, content))
  <2>1. /\ ClaimsOf(a, content) \in SUBSET Places(a) /\ ClaimsOf(b, content) \in SUBSET Places(b)
        /\ ClaimsOf(u, content) \in SUBSET Places(u)
    BY DEF ClaimsOf, Claims, PlacesOf
  <2>2. /\ Pulls(a, e, ClaimsOf(a, content), ClaimsOf(u, content))
        /\ Pulls(b, f, ClaimsOf(b, content), ClaimsOf(u, content))
    BY <1>2, ClaimsOfPull
  <2>3. /\ Cardinality(ClaimsOf(a, content)) \in Nat /\ Cardinality(ClaimsOf(b, content)) \in Nat
        /\ Cardinality(ClaimsOf(u, content))
             = Cardinality(ClaimsOf(a, content)) + Cardinality(ClaimsOf(b, content))
    <3> DEFINE A == ClaimsOf(a, content)
               B == ClaimsOf(b, content)
               C == ClaimsOf(u, content)
    <3>1. /\ A \in SUBSET Places(a) /\ B \in SUBSET Places(b) /\ C \in SUBSET Places(u)
          /\ Pulls(a, e, A, C) /\ Pulls(b, f, B, C)
      BY <2>1, <2>2
    <3> HIDE DEF A, B, C
    <3>2. /\ Cardinality(A) \in Nat /\ Cardinality(B) \in Nat
          /\ Cardinality(C) = Cardinality(A) + Cardinality(B)
      BY <1>1, <1>2, <3>1, SplitCount
    <3> QED BY <3>2 DEF A, B, C
  <2>4. /\ Cardinality(ClaimsOf(a, content)) <= Cardinality(SlotsOf(a, content))
        /\ Cardinality(ClaimsOf(b, content)) <= Cardinality(SlotsOf(b, content))
    BY <1>1, <1>3, <2>3 DEF RulesHold
  <2>5. Cardinality(SlotsOf(u, content))
          = Cardinality(SlotsOf(a, content)) + Cardinality(SlotsOf(b, content))
    BY <1>1, SlotsJoin DEF Merged
  <2>6. Cardinality(SlotsOf(a, content)) \in Nat /\ Cardinality(SlotsOf(b, content)) \in Nat
    BY <1>1, SlotsAreFinite
  <2> QED BY <2>3, <2>4, <2>5, <2>6
<1>5. OutputClaimsHold(u)
  BY <1>4 DEF OutputClaimsHold
<1>6. ASSUME NEW record
      PROVE  Cardinality(Writers(u, ASSURE, record)) = Cardinality(Writers(u, REQUIRE, record))
  <2>1. ASSUME NEW opcode \in Addressed
        PROVE  Cardinality(Writers(u, opcode, record))
                 = Cardinality(Writers(a, opcode, record)) + Cardinality(Writers(b, opcode, record))
    <3>1. /\ Writers(a, opcode, record) \in SUBSET Places(a)
          /\ Writers(b, opcode, record) \in SUBSET Places(b)
          /\ Writers(u, opcode, record) \in SUBSET Places(u)
      BY DEF Writers, PlacesOf
    <3>2. /\ Pulls(a, e, Writers(a, opcode, record), Writers(u, opcode, record))
          /\ Pulls(b, f, Writers(b, opcode, record), Writers(u, opcode, record))
      BY <1>1, <1>2, WritersPull
    <3> QED BY <1>1, <1>2, <3>1, <3>2, SplitCount
  <2>2. /\ Cardinality(Writers(a, ASSURE, record)) = Cardinality(Writers(a, REQUIRE, record))
        /\ Cardinality(Writers(b, ASSURE, record)) = Cardinality(Writers(b, REQUIRE, record))
    BY <1>1, BalancedEverywhere DEF RulesHold
  <2> QED BY <2>1, <2>2 DEF Addressed
<1>7. MessagesBalance(u)
  BY <1>6 DEF MessagesBalance
<1>8. FeeCoversReserves(u)
  <2>1. FeeCoversReserves(a) /\ FeeCoversReserves(b)
    BY <1>1 DEF RulesHold
  <2>2. /\ InputTotal(a) \in Int /\ OutputTotal(a) \in Int /\ ReserveTotal(a) \in Int
        /\ InputTotal(b) \in Int /\ OutputTotal(b) \in Int /\ ReserveTotal(b) \in Int
    BY <1>1, TotalsAre
  <2> QED BY <2>1, <2>2, MergedTotals DEF FeeCoversReserves, Fee
<1> QED
  BY <1>5, <1>7, <1>8

\* The rules that are read at one place hold of the whole.
LEMMA PlacesCompose ==
    ASSUME NEW a, NEW b, NEW u, Composes(a, b, u)
    PROVE  /\ FailedSelfAsserts(u) = {} /\ FailedTimeAsserts(u) = {}
           /\ AnnouncementsHold(u) /\ SealsHold(u) /\ SignaturesHold(u)
<1> DEFINE e == Front(a)
           f == Back(a, b)
<1>1. /\ IsParsedTx(a) /\ IsParsedTx(b) /\ IsParsedTx(u)
      /\ Merged(a, b, u) /\ RulesHold(a) /\ RulesHold(b)
      /\ ~Has(a, Seals) /\ ~Has(b, Seals)
  BY DEF Composes, IsAssembled
<1>2. Embeds(a, u, e) /\ Embeds(b, u, f) /\ Splits(a, b, u, e, f)
  BY <1>1, MergeEmbeds
<1>3. Later(a, u) /\ Later(b, u)
  BY MergedLater
<1> HIDE DEF e, f
<1>4. \A q \in Places(u) : (\E p \in Places(a) : q = e[p]) \/ (\E p \in Places(b) : q = f[p])
  BY <1>2 DEF Splits
<1>5. ASSUME NEW t, NEW g, Embeds(t, u, g), IsParsedTx(t), RulesHold(t), Later(t, u),
             ~Has(t, Seals), NEW p \in Places(t)
      PROVE  /\ g[p] \notin FailedSelfAsserts(u) /\ g[p] \notin FailedTimeAsserts(u)
             /\ g[p] \in PlacesOf(u, {ASSERT_ANNOUNCEMENT}) => Announced(u, Condition(u, g[p]))
             /\ g[p] \notin PlacesOf(u, Seals)
             /\ g[p] \in PlacesOf(u, SigOpcodes) =>
                   Verifies(Condition(u, g[p]).operands[1],
                            sig_digest(Condition(u, g[p]), Input(u, g[p])),
                            Condition(u, g[p]).operands[3])
  <2> DEFINE q == g[p]
  <2>1. Condition(u, q) = Condition(t, p)
    BY <1>5 DEF Embeds
  <2>2. \A opcodes : q \in PlacesOf(u, opcodes) => p \in PlacesOf(t, opcodes)
    BY <1>5, <2>1 DEF PlacesOf
  <2>3. q \notin FailedSelfAsserts(u)
    BY <1>5, SelfAssertsPush DEF RulesHold
  <2>4. q \notin FailedTimeAsserts(u)
    BY <1>5, TimeAssertsPush DEF RulesHold
  <2>5. ASSUME q \in PlacesOf(u, {ASSERT_ANNOUNCEMENT}) PROVE Announced(u, Condition(u, q))
    <3>1. p \in PlacesOf(t, {ASSERT_ANNOUNCEMENT}) /\ Condition(t, p).opcode = ASSERT_ANNOUNCEMENT
      BY <1>5, <2>1, <2>5 DEF PlacesOf
    <3>2. Announced(t, Condition(t, p))
      BY <1>5, <3>1 DEF RulesHold, AnnouncementsHold
    <3>3. Condition(t, p).commitment \in 0..31
      BY <1>5, <3>1, PlaceHolds DEF IsParsed
    <3>4. Announced(u, Condition(t, p))
      BY <1>5, <3>2, <3>3, AnnouncedPush
    <3> QED BY <2>1, <3>4
  <2>6. q \notin PlacesOf(u, Seals)
    BY <1>5, <2>2 DEF Has
  <2>7. SignaturesHold(t)
    BY <1>5 DEF RulesHold
  <2> HIDE DEF q
  <2> QED BY <1>5, <2>3, <2>4, <2>5, <2>6, <2>7, SignaturesPush DEF q
<1>6. ASSUME NEW q \in Places(u)
      PROVE  /\ q \notin FailedSelfAsserts(u) /\ q \notin FailedTimeAsserts(u)
             /\ q \in PlacesOf(u, {ASSERT_ANNOUNCEMENT}) => Announced(u, Condition(u, q))
             /\ q \notin PlacesOf(u, Seals)
             /\ q \in PlacesOf(u, SigOpcodes) =>
                   Verifies(Condition(u, q).operands[1],
                            sig_digest(Condition(u, q), Input(u, q)),
                            Condition(u, q).operands[3])
  <2>1. CASE \E p \in Places(a) : q = e[p]
    BY <1>1, <1>2, <1>3, <1>5, <2>1
  <2>2. CASE \E p \in Places(b) : q = f[p]
    BY <1>1, <1>2, <1>3, <1>5, <2>2
  <2> QED BY <1>4, <2>1, <2>2
<1>7. \A opcodes : PlacesOf(u, opcodes) \in SUBSET Places(u)
  BY DEF PlacesOf
<1>8. FailedSelfAsserts(u) \in SUBSET Places(u) /\ FailedTimeAsserts(u) \in SUBSET Places(u)
  BY <1>7 DEF FailedSelfAsserts, FailedTimeAsserts
<1>9. FailedSelfAsserts(u) = {} /\ FailedTimeAsserts(u) = {}
  BY <1>6, <1>8
<1>10. AnnouncementsHold(u)
  BY <1>6, <1>7 DEF AnnouncementsHold
<1>11. SealsHold(u)
  BY <1>6, <1>7 DEF SealsHold, Seals
<1>12. SignaturesHold(u)
  BY <1>6, <1>7 DEF SignaturesHold
<1> QED
  BY <1>9, <1>10, <1>11, <1>12

\* Valid transactions without seals compose.
LEMMA MergeIsValid ==
    ASSUME IsAssembled(tx), NEW offer \in Offers, Concatenate(offer),
           IsValid(tx), IsValid(offer), ~Has(tx, Seals), ~Has(offer, Seals),
           HeightTyped(tx) = HeightTyped(offer)
    PROVE  IsValid(tx')
<1> DEFINE u == tx'
<1>1. IsAssembled(u) /\ IsAssembled(offer) /\ Merged(tx, offer, u)
  BY ConcatenateMerges
<1> HIDE DEF u
<1>2. RulesHold(tx) /\ RulesHold(offer)
  BY <1>1, ValidMeans DEF IsAssembled
<1>3. Composes(tx, offer, u)
  BY <1>1, <1>2 DEF Composes
<1>4. RulesHold(u)
  BY <1>3, CountsCompose, PlacesCompose DEF RulesHold
<1>5. IsValid(u)
  BY <1>1, <1>4, ValidMeans DEF IsAssembled
<1> QED
  BY <1>5 DEF u

\* The composition guarantee: whoever batches spends need not look into
\* their programs.
THEOREM ValidTransactionsCompose == Spec => CompositionGuarantee
<1>1. IsAssembled(tx) =>
        [\A offer \in Offers :
            /\ Concatenate(offer)
            /\ IsValid(tx) /\ IsValid(offer)
            /\ ~Has(tx, Seals) /\ ~Has(offer, Seals)
            /\ HeightTyped(tx) = HeightTyped(offer)
            => IsValid(tx')]_vars
  BY MergeIsValid
<1> QED
  BY <1>1, EveryStateIsATransaction, PTL DEF CompositionGuarantee

-----------------------------------------------------------------------------
(* Counting and assignment. *)

\* What f takes to one value.
Fiber(f, v) == {p \in DOMAIN f : f[p] = v}

\* Finite sets inject into each other exactly as their numbers compare.
LEMMA InjectionExists ==
    ASSUME NEW A, IsFiniteSet(A), NEW B, IsFiniteSet(B), Cardinality(A) <= Cardinality(B)
    PROVE  \E h \in Injection(A, B) : Cardinality(A) = Cardinality(B) => h \in Surjection(A, B)
<1> DEFINE m == Cardinality(A)
           n == Cardinality(B)
<1>1. /\ m \in Nat /\ ExistsBijection(1..m, A)
      /\ n \in Nat /\ ExistsBijection(1..n, B)
  BY FS_CardinalityType
<1>2. PICK a \in Bijection(A, 1..m) : TRUE
  <2>1. IsFiniteSet(1..m) /\ Cardinality(1..m) = m
    BY <1>1, FS_Interval
  <2>2. ExistsBijection(A, 1..m)
    BY <2>1, FS_SameCardinalityBij
  <2> QED BY <2>2 DEF ExistsBijection
<1>3. PICK b \in Bijection(1..n, B) : TRUE
  BY <1>1 DEF ExistsBijection
<1> HIDE DEF m, n
<1>4. m <= n
  BY DEF m, n
<1> DEFINE h == [x \in A |-> b[a[x]]]
<1>5. h \in Injection(A, B)
  <2>1. \A x \in A : a[x] \in 1..n
    BY <1>1, <1>2, <1>4 DEF Bijection, Injection
  <2>2. \A x, y \in A : a[x] = a[y] => x = y
    BY <1>2 DEF Bijection, Injection, IsInjective
  <2>3. \A x, y \in 1..n : b[x] = b[y] => x = y
    BY <1>3 DEF Bijection, Injection, IsInjective
  <2>4. \A x \in 1..n : b[x] \in B
    BY <1>3 DEF Bijection, Injection
  <2> QED BY <2>1, <2>2, <2>3, <2>4 DEF Injection, IsInjective
<1> HIDE DEF h
<1>6. Cardinality(A) = Cardinality(B) => h \in Surjection(A, B)
  BY <1>5, FS_Injection
<1> QED
  BY <1>5, <1>6

\* Counting decides assignment: there are for every value as many takers as
\* givers, exactly when each taker has a giver of its own with its value.
LEMMA CountingAssigns ==
    ASSUME NEW f, NEW g, IsFiniteSet(DOMAIN f), IsFiniteSet(DOMAIN g)
    PROVE  (\A v : Cardinality(Fiber(f, v)) <= Cardinality(Fiber(g, v))) <=>
             \E h \in [DOMAIN f -> DOMAIN g] :
                Injective(h) /\ \A p \in DOMAIN f : g[h[p]] = f[p]
<1> DEFINE P == DOMAIN f
           Q == DOMAIN g
           Given(h) == Injective(h) /\ \A p \in P : g[h[p]] = f[p]
<1>1. \A v : IsFiniteSet(Fiber(f, v)) /\ IsFiniteSet(Fiber(g, v))
  <2> SUFFICES ASSUME NEW v PROVE IsFiniteSet(Fiber(f, v)) /\ IsFiniteSet(Fiber(g, v))
    OBVIOUS
  <2>1. Fiber(f, v) \in SUBSET P /\ Fiber(g, v) \in SUBSET Q
    BY DEF Fiber
  <2> QED BY <2>1, FS_Subset
<1>2. ASSUME \A v : Cardinality(Fiber(f, v)) <= Cardinality(Fiber(g, v))
      PROVE  \E h \in [P -> Q] : Given(h)
  <2> DEFINE I(v) == Injection(Fiber(f, v), Fiber(g, v))
             i == [v \in {f[p] : p \in P} |-> CHOOSE j : j \in I(v)]
             h == [p \in P |-> i[f[p]][p]]
  <2>1. ASSUME NEW p \in P PROVE i[f[p]] \in I(f[p])
    <3>1. \E j : j \in I(f[p])
      BY <1>1, <1>2, InjectionExists
    <3>2. i[f[p]] = CHOOSE j : j \in I(f[p])
      OBVIOUS
    <3> HIDE DEF I, i
    <3> QED BY <3>1, <3>2
  <2> HIDE DEF i
  <2>2. ASSUME NEW p \in P PROVE h[p] \in Q /\ g[h[p]] = f[p]
    <3>1. p \in Fiber(f, f[p])
      BY DEF Fiber
    <3>2. i[f[p]][p] \in Fiber(g, f[p])
      BY <2>1, <3>1 DEF Injection
    <3> QED BY <3>2 DEF Fiber
  <2>3. ASSUME NEW p \in P, NEW q \in P, h[p] = h[q] PROVE p = q
    <3>1. f[p] = f[q]
      BY <2>2, <2>3
    <3>2. p \in Fiber(f, f[p]) /\ q \in Fiber(f, f[p])
      BY <3>1 DEF Fiber
    <3>3. i[f[p]][p] = i[f[p]][q]
      BY <2>3, <3>1
    <3> QED BY <2>1, <3>2, <3>3 DEF Injection, IsInjective
  <2>4. h \in [P -> Q]
    BY <2>2
  <2>5. DOMAIN h = P
    OBVIOUS
  <2> HIDE DEF h
  <2> QED BY <2>2, <2>3, <2>4, <2>5 DEF Injective
<1>3. ASSUME NEW h \in [P -> Q], Given(h), NEW v
      PROVE  Cardinality(Fiber(f, v)) <= Cardinality(Fiber(g, v))
  <2> DEFINE k == [p \in Fiber(f, v) |-> h[p]]
  <2>1. \A p \in Fiber(f, v) : p \in P /\ h[p] \in Fiber(g, v)
    BY <1>3 DEF Fiber
  <2>2. k \in Injection(Fiber(f, v), Fiber(g, v))
    BY <1>3, <2>1 DEF Injection, IsInjective, Injective
  <2> HIDE DEF k
  <2> QED BY <1>1, <2>2, FS_Injection
<1> HIDE DEF P, Q
<1> QED
  BY <1>2, <1>3 DEF P, Q

\* h pairs off what f and g are defined on, value by value.
PairsOff(h, f, g) ==
    /\ Injective(h) /\ DOMAIN g = {h[p] : p \in DOMAIN h}
    /\ \A p \in DOMAIN f : g[h[p]] = f[p]

\* So it decides pairing, when the numbers are equal.
LEMMA CountingPairs ==
    ASSUME NEW f, NEW g, IsFiniteSet(DOMAIN f), IsFiniteSet(DOMAIN g)
    PROVE  (\A v : Cardinality(Fiber(f, v)) = Cardinality(Fiber(g, v))) <=>
             \E h \in [DOMAIN f -> DOMAIN g] : PairsOff(h, f, g)
<1> DEFINE P == DOMAIN f
           Q == DOMAIN g
           Given(h) == Injective(h) /\ \A p \in P : g[h[p]] = f[p]
           TakesAll(h) == Q = {h[p] : p \in DOMAIN h}
<1>1. \A v : /\ IsFiniteSet(Fiber(f, v)) /\ Cardinality(Fiber(f, v)) \in Nat
             /\ IsFiniteSet(Fiber(g, v)) /\ Cardinality(Fiber(g, v)) \in Nat
  <2> SUFFICES ASSUME NEW v
               PROVE  /\ IsFiniteSet(Fiber(f, v)) /\ Cardinality(Fiber(f, v)) \in Nat
                      /\ IsFiniteSet(Fiber(g, v)) /\ Cardinality(Fiber(g, v)) \in Nat
    OBVIOUS
  <2>1. Fiber(f, v) \in SUBSET P /\ Fiber(g, v) \in SUBSET Q
    BY DEF Fiber
  <2> QED BY <2>1, FS_Subset, FS_CardinalityType
<1>2. ASSUME \A v : Cardinality(Fiber(f, v)) = Cardinality(Fiber(g, v))
      PROVE  \E h \in [P -> Q] : Given(h) /\ TakesAll(h)
  <2>1. \A v : Cardinality(Fiber(f, v)) <= Cardinality(Fiber(g, v))
    BY <1>1, <1>2
  <2>2. PICK h \in [P -> Q] : Given(h)
    BY <2>1, CountingAssigns
  <2>3. ASSUME NEW q \in Q PROVE \E p \in P : q = h[p]
    <3> DEFINE v == g[q]
               k == [p \in Fiber(f, v) |-> h[p]]
    <3>1. \A p \in Fiber(f, v) : p \in P /\ h[p] \in Fiber(g, v)
      BY <2>2 DEF Fiber
    <3>2. k \in Injection(Fiber(f, v), Fiber(g, v))
      BY <2>2, <3>1 DEF Injection, IsInjective, Injective
    <3>3. \A p \in Fiber(f, v) : k[p] = h[p]
      OBVIOUS
    <3>4. q \in Fiber(g, v)
      BY DEF Fiber
    <3> HIDE DEF k, v
    <3>5. k \in Surjection(Fiber(f, v), Fiber(g, v))
      BY <1>1, <1>2, <3>2, FS_Injection
    <3>6. PICK p \in Fiber(f, v) : k[p] = q
      BY <3>4, <3>5 DEF Surjection
    <3> QED BY <3>1, <3>3, <3>6
  <2>4. TakesAll(h)
    BY <2>3
  <2> QED BY <2>2, <2>4
<1>3. ASSUME NEW h \in [P -> Q], Given(h), TakesAll(h), NEW v
      PROVE  Cardinality(Fiber(f, v)) = Cardinality(Fiber(g, v))
  <2> DEFINE k == [p \in Fiber(f, v) |-> h[p]]
  <2>1. \A p \in Fiber(f, v) : p \in P /\ h[p] \in Fiber(g, v)
    BY <1>3 DEF Fiber
  <2>2. k \in Injection(Fiber(f, v), Fiber(g, v))
    BY <1>3, <2>1 DEF Injection, IsInjective, Injective
  <2>3. \A q \in Fiber(g, v) : \E p \in Fiber(f, v) : h[p] = q
    BY <1>3 DEF Fiber
  <2>4. k \in Surjection(Fiber(f, v), Fiber(g, v))
    BY <2>2, <2>3 DEF Surjection, Injection
  <2> HIDE DEF k
  <2> QED BY <1>1, <2>2, <2>4, FS_Injection
<1> HIDE DEF P, Q
<1> QED
  BY <1>2, <1>3 DEF P, Q, PairsOff

-----------------------------------------------------------------------------
(* The parts of disjoint sets, counted one after the other. *)

\* Disjoint finite sets have together as many elements as their numbers add
\* up to.
LEMMA PartsAddUp ==
    ASSUME NEW a, IsInts(a), NEW D,
           \A i \in 1..Len(a) : IsFiniteSet(D[i]) /\ Cardinality(D[i]) = a[i],
           \A i, j \in 1..Len(a) : i # j => D[i] \cap D[j] = {}
    PROVE  /\ IsFiniteSet(UNION {D[i] : i \in 1..Len(a)})
           /\ Cardinality(UNION {D[i] : i \in 1..Len(a)}) = Total(0, a)
<1> DEFINE n == Len(a)
           t == Totals(0, a)
           U(m) == UNION {D[i] : i \in 1..m}
           T == {m \in 0..n : IsFiniteSet(U(m)) /\ Cardinality(U(m)) = t[m]}
<1>1. n \in Nat /\ t[0] = 0 /\ \A i \in 1..n : t[i] = t[i-1] + a[i]
  BY TotalsDef DEF IsInts
<1>2. \A m \in 0..n : t[m] \in Int
  BY TotalsDef DEF IsInts
<1>3. t[n] = Total(0, a)
  BY DEF Total
<1> HIDE DEF t
<1>4. 0 \in T
  <2>1. U(0) = {}
    OBVIOUS
  <2> HIDE DEF U
  <2>2. IsFiniteSet(U(0)) /\ Cardinality(U(0)) = 0
    BY <2>1, FS_EmptySet
  <2>3. 0 \in 0..n /\ t[0] = 0
    BY <1>1
  <2> QED BY <2>2, <2>3
<1>5. ASSUME NEW m \in 0..(n-1), m \in T PROVE m + 1 \in T
  <2>1. m \in Nat /\ m + 1 \in 1..n /\ (m + 1) - 1 = m
    BY <1>1
  <2>2. U(m+1) = U(m) \cup D[m+1]
    <3>1. \A i : i \in 1..(m+1) <=> i \in 1..m \/ i = m + 1
      BY <2>1
    <3> QED BY <3>1
  <2>3. U(m) \cap D[m+1] = {}
    <3>1. \A i \in 1..m : i \in 1..n /\ i # m + 1
      BY <2>1
    <3>2. \A i \in 1..m : D[i] \cap D[m+1] = {}
      BY <2>1, <3>1
    <3> QED BY <3>2
  <2>4. IsFiniteSet(U(m)) /\ Cardinality(U(m)) = t[m]
    BY <1>5
  <2>5. IsFiniteSet(D[m+1]) /\ Cardinality(D[m+1]) = a[m+1]
    BY <2>1
  <2> HIDE DEF U
  <2>6. /\ IsFiniteSet(U(m) \cup D[m+1])
        /\ Cardinality(U(m) \cup D[m+1])
             = Cardinality(U(m)) + Cardinality(D[m+1]) - Cardinality(U(m) \cap D[m+1])
    BY <2>4, <2>5, FS_Union
  <2>7. Cardinality(U(m) \cap D[m+1]) = 0
    BY <2>3, FS_EmptySet
  <2>8. a[m+1] \in Int /\ t[m] \in Int
    BY <1>2, <2>1 DEF IsInts
  <2>9. Cardinality(U(m+1)) = t[m] + a[m+1] - 0
    BY <2>2, <2>4, <2>5, <2>6, <2>7
  <2>10. t[m+1] = t[m] + a[m+1]
    BY <1>1, <2>1
  <2>11. IsFiniteSet(U(m+1))
    BY <2>2, <2>6
  <2>12. Cardinality(U(m+1)) = t[m+1]
    BY <2>8, <2>9, <2>10
  <2>13. m + 1 \in 0..n
    BY <2>1
  <2> QED BY <2>11, <2>12, <2>13
<1>6. 0..n \subseteq T
  <2> HIDE DEF T, n
  <2> QED BY <1>1, <1>4, <1>5, IntervalInduction
<1>7. n \in T
  BY <1>1, <1>6
<1> QED
  BY <1>3, <1>7

\* The units that reserves ask for are as many as validation adds up.
LEMMA UnitsAddUp ==
    ASSUME IsAssembled(tx)
    PROVE  Cardinality(UNION {UnitsReserved(p) : p \in PlacesOf(tx, {RESERVE_FEE})})
             = ReserveTotal(tx)
<1> DEFINE n == Len(tx.inputs)
           list(i) == Conditions(tx.inputs[i])
           cell(i, k) == {<<i, k>>} \X (1..Reserve(list(i)[k]))
           row(i) == [k \in 1..Len(list(i)) |-> cell(i, k)]
           rows == [i \in 1..n |-> UNION {row(i)[k] : k \in 1..Len(list(i))}]
<1>1. IsParsedTx(tx) /\ IsTransaction(tx)
  BY DEF IsAssembled
<1>2. ASSUME NEW i \in 1..n
      PROVE  /\ IsFiniteSet(rows[i]) /\ Cardinality(rows[i]) = InputReserves(tx)[i]
             /\ \A x \in rows[i] : x[1][1] = i
  <2> DEFINE a == Reserves(list(i))
  <2>1. IsInts(a) /\ Len(a) = Len(list(i)) /\ \A k \in 1..Len(a) : a[k] = Reserve(list(i)[k])
    BY <1>1, SumsAreInts DEF Reserves
  <2>2. ASSUME NEW k \in 1..Len(a)
        PROVE  IsFiniteSet(row(i)[k]) /\ Cardinality(row(i)[k]) = a[k]
    <3> DEFINE r == Reserve(list(i)[k])
               here == {<<i, k>>}
    <3>1. IsParsed(list(i)[k])
      BY <1>1, <2>1, TxParts
    <3>2. r \in Nat
      BY <3>1, ReserveType
    <3>3. row(i)[k] = here \X (1..r) /\ a[k] = r
      BY <2>1
    <3>4. IsFiniteSet(here) /\ Cardinality(here) = 1
      BY FS_Singleton
    <3> HIDE DEF r, here, row, a
    <3>5. IsFiniteSet(1..r) /\ Cardinality(1..r) = r
      BY <3>2, FS_Interval
    <3>6. /\ IsFiniteSet(here \X (1..r))
          /\ Cardinality(here \X (1..r)) = Cardinality(here) * Cardinality(1..r)
      BY <3>4, <3>5, FS_Product
    <3>7. Cardinality(here \X (1..r)) = 1 * r
      BY <3>4, <3>5, <3>6
    <3> QED BY <3>2, <3>3, <3>6, <3>7
  <2>3. ASSUME NEW k \in 1..Len(a), NEW l \in 1..Len(a), k # l
        PROVE  row(i)[k] \cap row(i)[l] = {}
    BY <2>1, <2>3
  <2>4. rows[i] = UNION {row(i)[k] : k \in 1..Len(a)}
    BY <2>1
  <2>5. \A x \in rows[i] : x[1][1] = i
    OBVIOUS
  <2>6. InputReserves(tx)[i] = Total(0, a)
    BY DEF InputReserves, InputReserve, Reserves
  <2> HIDE DEF row, rows, a
  <2>7. /\ IsFiniteSet(UNION {row(i)[k] : k \in 1..Len(a)})
        /\ Cardinality(UNION {row(i)[k] : k \in 1..Len(a)}) = Total(0, a)
    BY <2>1, <2>2, <2>3, PartsAddUp
  <2> QED BY <2>4, <2>5, <2>6, <2>7
<1>3. IsInts(InputReserves(tx)) /\ Len(InputReserves(tx)) = n
  BY <1>1, SumsAreInts DEF InputReserves
<1>4. UNION {UnitsReserved(p) : p \in PlacesOf(tx, {RESERVE_FEE})} = UNION {rows[i] : i \in 1..n}
  <2> DEFINE all == UNION {UnitsReserved(p) : p \in PlacesOf(tx, {RESERVE_FEE})}
  <2>1. ASSUME NEW x \in all PROVE \E i \in 1..n : x \in rows[i]
    <3>1. PICK p \in PlacesOf(tx, {RESERVE_FEE}) : x \in UnitsReserved(p)
      OBVIOUS
    <3>2. p \in Places(tx) /\ Condition(tx, p).opcode = RESERVE_FEE
      BY <3>1 DEF PlacesOf
    <3>3. /\ p = <<p[1], p[2]>> /\ p[1] \in 1..n /\ p[2] \in 1..Len(list(p[1]))
          /\ Condition(tx, p) = list(p[1])[p[2]]
      BY <1>1, <3>2, PlaceHolds DEF Input
    <3>4. x \in {<<p[1], p[2]>>} \X (1..Reserve(list(p[1])[p[2]]))
      BY <3>1, <3>2, <3>3 DEF UnitsReserved, Reserve
    <3>5. x \in row(p[1])[p[2]]
      BY <3>3, <3>4
    <3> HIDE DEF row
    <3>6. x \in rows[p[1]]
      BY <3>3, <3>5
    <3> QED BY <3>3, <3>6
  <2>2. ASSUME NEW i \in 1..n, NEW x \in rows[i] PROVE x \in all
    <3>1. PICK k \in 1..Len(list(i)) : x \in cell(i, k)
      BY <2>2
    <3> DEFINE p == <<i, k>>
    <3>2. p \in Places(tx) /\ Condition(tx, p) = list(i)[k]
      BY PlaceIs DEF Condition
    <3>3. Reserve(list(i)[k]) # 0
      BY <3>1
    <3>4. Condition(tx, p).opcode = RESERVE_FEE
            /\ Reserve(list(i)[k]) = Condition(tx, p).operands[1]
      BY <3>2, <3>3 DEF Reserve
    <3>5. p \in PlacesOf(tx, {RESERVE_FEE})
      BY <3>2, <3>4 DEF PlacesOf
    <3>6. x \in UnitsReserved(p)
      BY <3>1, <3>4 DEF UnitsReserved
    <3> QED BY <3>5, <3>6
  <2> HIDE DEF rows
  <2> QED BY <2>1, <2>2
<1> HIDE DEF rows, n
<1>5. Cardinality(UNION {rows[i] : i \in 1..n}) = Total(0, InputReserves(tx))
  <2>1. \A i, j \in 1..n : i # j => rows[i] \cap rows[j] = {}
    BY <1>2
  <2> QED BY <1>2, <1>3, <2>1, PartsAddUp
<1> QED
  BY <1>1, <1>4, <1>5, TotalsAre

-----------------------------------------------------------------------------
(* Each check of validation decides its rule. *)

\* A multiset of claims within that of the slots is an assignment of slots.
LEMMA ClaimsAreAssigned ==
    ASSUME IsAssembled(tx)
    PROVE  OutputClaimsHold(tx) <=> OutputsAreAssigned
<1> DEFINE f == [p \in Claims(tx) |-> Claimed(Condition(tx, p))]
           g == [j \in 1..Len(tx.outputs) |-> tx.outputs[j]]
<1>1. IsParsedTx(tx)
  BY DEF IsAssembled
<1>2. Claims(tx) \in SUBSET Places(tx) /\ IsFiniteSet(Claims(tx))
  <2>1. Claims(tx) \in SUBSET Places(tx)
    BY DEF Claims, PlacesOf
  <2> QED BY <1>1, <2>1, PlacesAreFinite, FS_Subset
<1>3. IsFiniteSet(1..Len(tx.outputs))
  <2>1. Len(tx.outputs) \in Nat
    BY <1>1, TxParts
  <2> QED BY <2>1, FS_Interval
<1>4. \A v : Fiber(f, v) = ClaimsOf(tx, v) /\ Fiber(g, v) = SlotsOf(tx, v)
  BY DEF Fiber, ClaimsOf, SlotsOf
<1>5. DOMAIN f = Claims(tx) /\ DOMAIN g = 1..Len(tx.outputs)
  OBVIOUS
<1>6. (\E h \in [Claims(tx) -> 1..Len(tx.outputs)] :
          Injective(h) /\ \A p \in Claims(tx) : g[h[p]] = f[p])
        <=> OutputsAreAssigned
  BY DEF OutputsAreAssigned
<1>7. OutputClaimsHold(tx) <=>
        \A v : Cardinality(ClaimsOf(tx, v)) <= Cardinality(SlotsOf(tx, v))
  <2>1. ASSUME OutputClaimsHold(tx), NEW v
        PROVE  Cardinality(ClaimsOf(tx, v)) <= Cardinality(SlotsOf(tx, v))
    <3>1. CASE ClaimsOf(tx, v) = {}
      BY <1>1, <3>1, SlotsAreFinite, FS_EmptySet
    <3>2. CASE ClaimsOf(tx, v) # {}
      <4>1. PICK p \in Claims(tx) : Claimed(Condition(tx, p)) = v
        BY <3>2 DEF ClaimsOf
      <4> QED BY <2>1, <4>1 DEF OutputClaimsHold
    <3> QED BY <3>1, <3>2
  <2> QED BY <2>1 DEF OutputClaimsHold
<1> HIDE DEF f, g
<1>8. IsFiniteSet(DOMAIN f) /\ IsFiniteSet(DOMAIN g)
  BY <1>2, <1>3, <1>5
<1>9. (\A v : Cardinality(Fiber(f, v)) <= Cardinality(Fiber(g, v))) <=>
        \E h \in [DOMAIN f -> DOMAIN g] :
           Injective(h) /\ \A p \in DOMAIN f : g[h[p]] = f[p]
  BY <1>8, CountingAssigns
<1>10. OutputClaimsHold(tx) <=> \A v : Cardinality(Fiber(f, v)) <= Cardinality(Fiber(g, v))
  BY <1>4, <1>7
<1> QED
  BY <1>5, <1>6, <1>9, <1>10

\* The halves that answer each other are those of one ledger record.
LEMMA AnswersShareRecord ==
    ASSUME IsAssembled(tx), NEW p \in PlacesOf(tx, {ASSURE}), NEW q \in PlacesOf(tx, {REQUIRE})
    PROVE  Answer(p, q) <=> Record(tx, p) = Record(tx, q)
<1> DEFINE c == Condition(tx, p)
           d == Condition(tx, q)
           a == Input(tx, p)
           b == Input(tx, q)
<1>1. /\ p \in Places(tx) /\ c.opcode = ASSURE
      /\ q \in Places(tx) /\ d.opcode = REQUIRE
  BY DEF PlacesOf
<1>2. c.operands = <<c.operands[1]>> /\ d.operands = <<d.operands[1]>>
  BY <1>1, PlaceHolds DEF IsAssembled, IsParsed
<1>3. c.operands = d.operands <=> c.operands[1] = d.operands[1]
  BY <1>2
<1>4. Record(tx, p) = <<<<c.own, FieldsOf(a, SPECIFIER_OPERANDS[c.own])>>,
                        <<c.commitment, c.fields>>, c.operands[1]>>
  BY <1>1 DEF Record, self_specifier, ArgumentSpecifier
<1>5. ASSURE # REQUIRE
  BY DEF ASSURE, REQUIRE
<1>6. Record(tx, q) = <<<<d.commitment, d.fields>>,
                        <<d.own, FieldsOf(b, SPECIFIER_OPERANDS[d.own])>>, d.operands[1]>>
  BY <1>1, <1>5 DEF Record, self_specifier, ArgumentSpecifier
<1>7. Answer(p, q) <=> /\ c.operands = d.operands
                       /\ c.commitment = d.own
                       /\ c.fields = FieldsOf(b, SPECIFIER_OPERANDS[d.own])
                       /\ d.commitment = c.own
                       /\ d.fields = FieldsOf(a, SPECIFIER_OPERANDS[c.own])
  BY DEF Answer, Describes
<1> HIDE DEF a, b, c, d
<1>8. \A r, s, u, v, w, x, y, z, m, l :
         <<<<r, s>>, <<u, v>>, m>> = <<<<w, x>>, <<y, z>>, l>>
           <=> r = w /\ s = x /\ u = y /\ v = z /\ m = l
  OBVIOUS
<1> QED
  BY <1>3, <1>4, <1>6, <1>7, <1>8

\* A ledger in balance is a pairing of assurers with requirers.
LEMMA BalanceIsPairing ==
    ASSUME IsAssembled(tx)
    PROVE  MessagesBalance(tx) <=> MessagesArePaired
<1> DEFINE P == PlacesOf(tx, {ASSURE})
           Q == PlacesOf(tx, {REQUIRE})
           f == [p \in P |-> Record(tx, p)]
           g == [q \in Q |-> Record(tx, q)]
<1>1. IsFiniteSet(P) /\ IsFiniteSet(Q)
  <2>1. P \in SUBSET Places(tx) /\ Q \in SUBSET Places(tx)
    BY DEF PlacesOf
  <2> QED BY <2>1, PlacesAreFinite, FS_Subset DEF IsAssembled
<1>2. \A v : Fiber(f, v) = Writers(tx, ASSURE, v) /\ Fiber(g, v) = Writers(tx, REQUIRE, v)
  BY DEF Fiber, Writers
<1>3. DOMAIN f = P /\ DOMAIN g = Q
  OBVIOUS
<1>4. MessagesBalance(tx) <=>
        \A v : Cardinality(Writers(tx, ASSURE, v)) = Cardinality(Writers(tx, REQUIRE, v))
  BY BalancedEverywhere DEF MessagesBalance
<1>5. MessagesArePaired <=>
        \E h \in [P -> Q] : /\ Injective(h) /\ Q = {h[p] : p \in DOMAIN h}
                            /\ \A p \in P : g[h[p]] = f[p]
  <2>1. ASSUME NEW h \in [P -> Q], NEW p \in P PROVE Answer(p, h[p]) <=> g[h[p]] = f[p]
    <3>1. h[p] \in Q
      OBVIOUS
    <3>2. Answer(p, h[p]) <=> Record(tx, p) = Record(tx, h[p])
      BY <3>1, AnswersShareRecord
    <3> QED BY <3>1, <3>2
  <2>2. MessagesArePaired <=>
          \E h \in [P -> Q] : /\ Injective(h) /\ Q = {h[p] : p \in DOMAIN h}
                              /\ \A p \in P : Answer(p, h[p])
    BY DEF MessagesArePaired
  <2> HIDE DEF f, g, P, Q
  <2> QED BY <2>1, <2>2
<1> HIDE DEF f, g
<1>6. IsFiniteSet(DOMAIN f) /\ IsFiniteSet(DOMAIN g)
  BY <1>1, <1>3
<1>7. (\A v : Cardinality(Fiber(f, v)) = Cardinality(Fiber(g, v))) <=>
        \E h \in [DOMAIN f -> DOMAIN g] : PairsOff(h, f, g)
  BY <1>6, CountingPairs
<1>8. MessagesBalance(tx) <=> \A v : Cardinality(Fiber(f, v)) = Cardinality(Fiber(g, v))
  BY <1>2, <1>4
<1> QED
  BY <1>3, <1>5, <1>7, <1>8 DEF PairsOff

\* An assert of a fact reads one that is there.
LEMMA AnnouncedIsRead == AnnouncementsHold(tx) <=> AssertsAreRead
<1>1. ASSUME NEW c, NEW input
      PROVE  self_specifier(input, c.commitment) = ArgumentSpecifier(c)
               <=> Describes(c, input, c.commitment)
  BY DEF self_specifier, ArgumentSpecifier, Describes
<1> QED
  BY <1>1 DEF AnnouncementsHold, Announced, AssertsAreRead

\* Every check passes exactly when its rule holds, and otherwise raises one
\* of the rule's errors.
Decides(n) ==
    /\ Verdicts(tx)[n] = Valid <=> Rules[n].holds
    /\ Verdicts(tx)[n] # Valid => Verdicts(tx)[n] \in Rules[n].errors

LEMMA ChecksDecide ==
    ASSUME IsAssembled(tx)
    PROVE  DOMAIN Verdicts(tx) = 1..8 /\ Len(Rules) = 8 /\ \A n \in 1..8 : Decides(n)
<1> DEFINE v == Verdicts(tx)
           r == Rules
<1>1. IsParsedTx(tx) /\ IsTransaction(tx)
  BY DEF IsAssembled
<1>2. /\ DOMAIN v = 1..8
      /\ v[1] = check_self_asserts(tx) /\ v[2] = check_output_claims(tx)
      /\ v[3] = check_time_asserts(tx) /\ v[4] = check_messages(tx)
      /\ v[5] = check_announcements(tx) /\ v[6] = check_fee_reserve(tx)
      /\ v[7] = check_seals(tx) /\ v[8] = check_signature_asserts(tx)
  BY DEF Verdicts
<1>3. /\ Len(r) = 8
      /\ r[1].holds <=> FailedSelfAsserts(tx) = {}
      /\ r[1].errors = {SelfAssertError[opcode] : opcode \in SelfAsserts}
      /\ r[2].holds <=> OutputsAreAssigned
      /\ r[2].errors = {"unsatisfied_output_claim"}
      /\ r[3].holds <=> FailedTimeAsserts(tx) = {}
      /\ r[3].errors = {"unsatisfied_locktime_assert", "unsatisfied_sequence_assert"}
      /\ r[4].holds <=> MessagesArePaired
      /\ r[4].errors = {"unbalanced_message"}
  BY DEF Rules
<1>4. /\ r[5].holds <=> AssertsAreRead
      /\ r[5].errors = {"unsatisfied_announcement_assert"}
      /\ r[6].holds <=> ReservesArePaid
      /\ r[6].errors = {"insufficient_fee"}
      /\ r[7].holds <=> SealsHold(tx)
      /\ r[7].errors = {"unsatisfied_seal_assert"}
      /\ r[8].holds <=> SignaturesHold(tx)
      /\ r[8].errors = {"unsatisfied_sig_assert"}
  BY DEF Rules
<1>5. v[1] = Valid <=> FailedSelfAsserts(tx) = {}
  BY <1>1, <1>2, SelfAssertsReport
<1>6. FailedSelfAsserts(tx) # {} => v[1] \in {SelfAssertError[opcode] : opcode \in SelfAsserts}
  <2> SUFFICES ASSUME FailedSelfAsserts(tx) # {}
               PROVE  v[1] \in {SelfAssertError[opcode] : opcode \in SelfAsserts}
    OBVIOUS
  <2>1. FailedSelfAsserts(tx) \in SUBSET Places(tx)
    BY DEF FailedSelfAsserts, PlacesOf
  <2>2. FirstOf(FailedSelfAsserts(tx)) \in FailedSelfAsserts(tx)
    BY <1>1, <2>1, FirstIsIn
  <2>3. Condition(tx, FirstOf(FailedSelfAsserts(tx))).opcode \in SelfAsserts
    BY <2>2 DEF FailedSelfAsserts, PlacesOf
  <2> HIDE DEF v
  <2> QED BY <1>2, <2>3 DEF check_self_asserts
<1>7. FeeCoversReserves(tx) <=> ReservesArePaid
  <2>1. InputTotal(tx) \in Int /\ OutputTotal(tx) \in Int /\ ReserveTotal(tx) \in Int
    BY <1>1, TotalsAre
  <2>2. ReservesArePaid <=> ReserveTotal(tx) + OutputTotal(tx) <= InputTotal(tx)
    BY UnitsAddUp DEF ReservesArePaid
  <2>3. FeeCoversReserves(tx) <=> InputTotal(tx) - OutputTotal(tx) >= ReserveTotal(tx)
    BY DEF FeeCoversReserves, Fee
  <2> QED BY <2>1, <2>2, <2>3
<1> HIDE DEF v, r
<1>8. Decides(1)
  BY <1>3, <1>5, <1>6 DEF Decides, v, r
<1>9. Decides(2)
  BY <1>2, <1>3, ClaimsAreAssigned DEF Decides, check_output_claims, Checked, Valid, v, r
<1>10. Decides(3)
  BY <1>2, <1>3 DEF Decides, check_time_asserts, Valid, v, r
<1>11. Decides(4)
  BY <1>2, <1>3, BalanceIsPairing DEF Decides, check_messages, Checked, Valid, v, r
<1>12. Decides(5)
  BY <1>2, <1>4, AnnouncedIsRead DEF Decides, check_announcements, Checked, Valid, v, r
<1>13. Decides(6)
  BY <1>2, <1>4, <1>7 DEF Decides, check_fee_reserve, Checked, Valid, v, r
<1>14. Decides(7)
  BY <1>2, <1>4 DEF Decides, check_seals, Checked, Valid, v, r
<1>15. Decides(8)
  BY <1>2, <1>4 DEF Decides, check_signature_asserts, Checked, Valid, v, r
<1>16. \A n \in 1..8 : n = 1 \/ n = 2 \/ n = 3 \/ n = 4 \/ n = 5 \/ n = 6 \/ n = 7 \/ n = 8
  OBVIOUS
<1>17. \A n \in 1..8 : Decides(n)
  BY <1>8, <1>9, <1>10, <1>11, <1>12, <1>13, <1>14, <1>15, <1>16
<1> QED
  BY <1>2, <1>3, <1>17 DEF v, r

\* The first check that raises is that of the first broken rule.
LEMMA FirstBrokenIsReported ==
    ASSUME IsAssembled(tx)
    PROVE  AgreesWithRules
<1> DEFINE v == Verdicts(tx)
           broken == {n \in 1..Len(Rules) : ~Rules[n].holds}
           raised == {n \in DOMAIN v : v[n] # Valid}
<1>1. DOMAIN v = 1..8 /\ Len(Rules) = 8 /\ \A n \in 1..8 : Decides(n)
  BY ChecksDecide
<1>2. raised = broken
  BY <1>1 DEF Decides
<1>3. validate_transaction(tx) = IF raised = {} THEN Valid ELSE v[Min(raised)]
  BY DEF validate_transaction, FirstRaised, Min
<1>4. CASE broken = {}
  BY <1>2, <1>3, <1>4 DEF AgreesWithRules, IsValid
<1>5. CASE broken # {}
  <2>1. Min(broken) \in broken
    <3>1. broken \in SUBSET Nat
      BY <1>1
    <3> HIDE DEF broken
    <3>2. \E n \in broken : \A m \in broken : n <= m
      BY <1>5, <3>1, LeastElement
    <3> QED BY <3>2 DEF Min
  <2>2. Min(broken) \in 1..8 /\ v[Min(broken)] # Valid
    BY <1>1, <1>2, <2>1
  <2>3. v[Min(broken)] \in Rules[Min(broken)].errors
    BY <1>1, <2>2 DEF Decides
  <2>4. validate_transaction(tx) \in Rules[Min(broken)].errors
    BY <1>2, <1>3, <1>5, <2>3
  <2> QED BY <1>5, <2>4 DEF AgreesWithRules
<1> QED
  BY <1>4, <1>5

\* Counting decides assignment: validation accepts exactly the transactions
\* whose claims and message halves have partners of their own and which obey
\* every other rule, and reports the first broken rule of the others.
THEOREM ChecksDecideRules == Spec => []AgreesWithRules
<1>1. IsAssembled(tx) => AgreesWithRules
  BY FirstBrokenIsReported
<1> QED
  BY <1>1, EveryStateIsATransaction, PTL
==============================================================================
