------------------------------- MODULE Curve -------------------------------
(***************************************************************************)
(* BIP 340 verification and BIP 341 output keys (bitlisp/secp256k1.py):    *)
(* affine arithmetic on y^2 = x^3 + 7 over a prime field.  The field, the  *)
(* order and the base point are constants: TLC takes a curve of the same   *)
(* equation whose group is of prime order and small, with a field prime    *)
(* that is 3 mod 4 as the code's square root needs.                        *)
(***************************************************************************)
EXTENDS Sexp

CONSTANTS
    FIELD_PRIME,     \* P
    GROUP_ORDER,     \* N
    BASE_POINT,      \* G
    WORD_BYTES,      \* 32: a field element, a scalar, a digest, a message
    DIGEST_VALUES    \* 2^256: how many digests there are

ASSUME WordsHaveBytes == WORD_BYTES \in Nat \ {0}

None == <<>>         \* Python's None: the point at infinity, or no result

Word(value) == BigEndian(value, WORD_BYTES)

\* hashlib.sha256, as a checksum that depends on every byte and its place.
Digest(bytes) ==
    LET checksum[i \in 0..Len(bytes)] ==
          IF i = 0 THEN 1 ELSE (37 * checksum[i - 1] + bytes[i] + 3) % 65521
    IN  Word(checksum[Len(bytes)] % DIGEST_VALUES)

\* A tagged hash: the tag's digest twice, then the data.
Tagged(tag, data) == Digest(Digest(tag) \o Digest(tag) \o data)
CHALLENGE_TAG == <<67>>
TWEAK_TAG == <<84>>

-----------------------------------------------------------------------------
(* The group. *)

\* pow(base, exponent, FIELD_PRIME).
FieldPower(base, exponent) ==
    LET power[i \in 0..exponent] ==
          IF i = 0 THEN 1 ELSE (power[i - 1] * base) % FIELD_PRIME
    IN  power[exponent]
FieldInverse(a) == FieldPower(a % FIELD_PRIME, FIELD_PRIME - 2)

\* The even-y point with this x, or None.  The candidate root is a root
\* only when the square is a residue.
lift_x(x) ==
    LET square == (x * x * x + 7) % FIELD_PRIME
        y == FieldPower(square, (FIELD_PRIME + 1) \div 4)
    IN  IF x >= FIELD_PRIME \/ (y * y) % FIELD_PRIME # square THEN None
        ELSE <<x, IF y % 2 = 0 THEN y ELSE FIELD_PRIME - y>>

\* Defect: a point is added to itself by the chord.
point_add_chord(a, b) ==
    LET slope == ((b[2] - a[2]) * FieldInverse(b[1] - a[1])) % FIELD_PRIME
        x == (slope * slope - a[1] - b[1]) % FIELD_PRIME
    IN  IF a = None THEN b
        ELSE IF b = None THEN a
        ELSE IF a[1] = b[1] /\ (a[2] + b[2]) % FIELD_PRIME = 0 THEN None
        ELSE <<x, (slope * (a[1] - x) - a[2]) % FIELD_PRIME>>

point_add(a, b) ==
    LET slope == IF a = b THEN (3 * a[1] * a[1] * FieldInverse(2 * a[2])) % FIELD_PRIME
                 ELSE ((b[2] - a[2]) * FieldInverse(b[1] - a[1])) % FIELD_PRIME
        x == (slope * slope - a[1] - b[1]) % FIELD_PRIME
    IN  IF a = None THEN b
        ELSE IF b = None THEN a
        ELSE IF a[1] = b[1] /\ (a[2] + b[2]) % FIELD_PRIME = 0 THEN None
        ELSE <<x, (slope * (a[1] - x) - a[2]) % FIELD_PRIME>>

\* Double-and-add, from the low bit: after i bits, the sum so far and the
\* point doubled i times.
point_mul(k, point) ==
    LET after[i \in 0..BitLength(k)] ==
          IF i = 0 THEN [sum |-> None, power |-> point]
          ELSE [sum |-> IF (k \div 2^(i - 1)) % 2 = 1
                        THEN point_add(after[i - 1].sum, after[i - 1].power)
                        ELSE after[i - 1].sum,
                power |-> point_add(after[i - 1].power, after[i - 1].power)]
    IN  after[BitLength(k)].sum

-----------------------------------------------------------------------------
(* Output keys. *)

TapTweakScalar(internal_key, merkle_root) ==
    Unsigned(Tagged(TWEAK_TAG, internal_key \o merkle_root))

\* _apply_tweak: a scalar out of range and a sum at infinity give no key.
ApplyTweak(point, t) ==
    LET tweaked == point_add(point, point_mul(t, BASE_POINT))
    IN  IF t >= GROUP_ORDER \/ tweaked = None THEN None ELSE Word(tweaked[1])

taproot_output_key(internal_key, merkle_root) ==
    LET point == lift_x(Unsigned(internal_key))
    IN  IF point = None THEN None
        ELSE ApplyTweak(point, TapTweakScalar(internal_key, merkle_root))

-----------------------------------------------------------------------------
(* Signatures. *)

NonceOf(sig) == SubSeq(sig, 1, WORD_BYTES)
ScalarOf(sig) == Unsigned(SubSeq(sig, WORD_BYTES + 1, 2 * WORD_BYTES))

\* _challenge_hash as an integer mod the order.
Challenge(pubkey, msg, sig) ==
    Unsigned(Tagged(CHALLENGE_TAG, NonceOf(sig) \o pubkey \o msg)) % GROUP_ORDER

Negated(point) == IF point = None THEN None ELSE <<point[1], FIELD_PRIME - point[2]>>

\* Defect: the parity of the nonce's y is not looked at, so that a
\* signature with the opposite nonce passes too.
verify_either_parity(pubkey, msg, sig) ==
    LET point == lift_x(Unsigned(pubkey))
        r == Unsigned(NonceOf(sig))
        e == Challenge(pubkey, msg, sig)
        result == point_add(point_mul(ScalarOf(sig), BASE_POINT), Negated(point_mul(e, point)))
    IN  /\ point # None
        /\ r < FIELD_PRIME
        /\ ScalarOf(sig) < GROUP_ORDER
        /\ result # None
        /\ result[1] = r

\* result = s*G - e*point has an even y and the nonce's x.
verify(pubkey, msg, sig) ==
    LET point == lift_x(Unsigned(pubkey))
        r == Unsigned(NonceOf(sig))
        e == Challenge(pubkey, msg, sig)
        result == point_add(point_mul(ScalarOf(sig), BASE_POINT), Negated(point_mul(e, point)))
    IN  /\ point # None
        /\ r < FIELD_PRIME
        /\ ScalarOf(sig) < GROUP_ORDER
        /\ result # None
        /\ result[2] % 2 = 0
        /\ result[1] = r

-----------------------------------------------------------------------------
(***************************************************************************)
(* What the arithmetic must compute, by discrete logarithms: the multiples *)
(* of the base point one after the other, each the third point of a chord  *)
(* or tangent found by search.  Neither the inverse and the square root by *)
(* powers nor double-and-add is used.                                      *)
(***************************************************************************)

FieldElements == 0..(FIELD_PRIME - 1)
ChordSum(a, b) ==
    IF a = None THEN b
    ELSE IF a[1] = b[1] /\ a[2] # b[2] THEN None
    ELSE LET slope == CHOOSE m \in FieldElements :
                        IF a = b THEN (2 * a[2] * m - 3 * a[1] * a[1]) % FIELD_PRIME = 0
                        ELSE (m * (b[1] - a[1]) - (b[2] - a[2])) % FIELD_PRIME = 0
             x == (slope * slope - a[1] - b[1]) % FIELD_PRIME
         IN  <<x, (slope * (a[1] - x) - a[2]) % FIELD_PRIME>>

\* BASE_POINT times 1, 2, ..., GROUP_ORDER - 1.
Multiples ==
    LET first[k \in 1..(GROUP_ORDER - 1)] ==
          IF k = 1 THEN <<BASE_POINT>>
          ELSE LET before == first[k - 1]
               IN  Append(before, ChordSum(before[k - 1], BASE_POINT))
    IN  first[GROUP_ORDER - 1]

\* The secrets whose public x is this word: the logarithms of points with
\* an even y, one at most.
Secrets(word) ==
    LET public == Multiples
    IN  {k \in DOMAIN public : public[k][1] = Unsigned(word) /\ public[k][2] % 2 = 0}

\* A signature is made with a secret d and a secret nonce k, s = k + e*d.
IsSignature(pubkey, msg, sig) ==
    \E d \in Secrets(pubkey), k \in Secrets(NonceOf(sig)) :
        ScalarOf(sig) = (k + Challenge(pubkey, msg, sig) * d) % GROUP_ORDER

\* The output keys of an internal key, one at most: the tweak added to its
\* secret.
TweakedKeys(internal_key, merkle_root) ==
    LET t == TapTweakScalar(internal_key, merkle_root)
        public == Multiples
    IN  {Word(public[(d + t) % GROUP_ORDER][1]) :
            d \in {d \in Secrets(internal_key) : t < GROUP_ORDER /\ d + t # GROUP_ORDER}}
=============================================================================
