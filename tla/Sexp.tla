-------------------------------- MODULE Sexp --------------------------------
(***************************************************************************)
(* The value type of BitLisp (bitlisp/sexp.py).  A node is an atom, which  *)
(* is a string of bytes, or a pair.                                        *)
(*                                                                         *)
(* The code represents (x1 x2 ... xn . t), t an atom, as n nested pairs;   *)
(* here it is one record with the spine flattened: elems = <<x1, ..., xn>> *)
(* (n >= 1) and tail = t.  Every tree has exactly one such form, so the    *)
(* equality of nodes is the code's equality, and a walk along the spine    *)
(* (a proper-list check) is a test of the tail instead of a recursion.     *)
(***************************************************************************)
EXTENDS Integers, Sequences, FiniteSets

Byte == 0..255

Atom(bytes) == [type |-> "atom", bytes |-> bytes]
Spine(elems, tail) == [type |-> "pair", elems |-> elems, tail |-> tail]

Nil == Atom(<<>>)
TrueAtom == Atom(<<1>>)

IsAtom(node) == node.type = "atom"
IsPair(node) == node.type = "pair"

\* The pair (a . b), node[0] and node[1] of the code.
Cons(a, b) ==
    IF IsPair(b) THEN Spine(<<a>> \o b.elems, b.tail) ELSE Spine(<<a>>, b)
First(pair) == Head(pair.elems)
Rest(pair) ==
    IF Len(pair.elems) = 1 THEN pair.tail ELSE Spine(Tail(pair.elems), pair.tail)

\* iter_proper_list raises bad_arg_list unless IsProperList holds, and
\* otherwise yields ListElems.
IsProperList(node) == node = Nil \/ (IsPair(node) /\ node.tail = Nil)
ListElems(node) == IF IsPair(node) THEN node.elems ELSE <<>>

\* A proper list of the given elements.
ListOf(elems) == IF elems = <<>> THEN Nil ELSE Spine(elems, Nil)

\* A set of nodes that holds the parts of each of its members.  A tree is
\* well formed when such a set holds it: no induction over trees is needed
\* to say so.
IsNodeIn(n, S) ==
    \/ IsAtom(n) /\ Len(n.bytes) \in Nat
    \/ /\ IsPair(n)
       /\ n = Spine(n.elems, n.tail)
       /\ n.elems \in Seq(S)
       /\ Len(n.elems) > 0
       /\ Rest(n) \in S

NodeSet(S) == \A n \in S : IsNodeIn(n, S)

-----------------------------------------------------------------------------
(***************************************************************************)
(* Integers as atoms: signed, big-endian, two's complement.                *)
(***************************************************************************)

\* int.from_bytes(bytes, "big"), unsigned.
Unsigned(bytes) ==
    LET value[i \in 0..Len(bytes)] ==
          IF i = 0 THEN 0 ELSE 256 * value[i-1] + bytes[i]
    IN  value[Len(bytes)]

AtomToInt(atom) ==
    LET n == Len(atom.bytes)
    IN  IF n > 0 /\ atom.bytes[1] >= 128
        THEN Unsigned(atom.bytes) - 256^n
        ELSE Unsigned(atom.bytes)

\* value.bit_length(): the bits of the magnitude, which has at most MaxBits.
MaxBits == 30
Magnitude(value) == IF value < 0 THEN -value ELSE value
BitLength(value) == Cardinality({n \in 0..MaxBits : 2^n <= Magnitude(value)})

\* to_bytes(length, "big", signed=True).
BigEndian(value, length) ==
    [i \in 1..length |-> (value \div 256^(length - i)) % 256]

IntToAtomUnstripped(value) ==
    IF value = 0 THEN Nil ELSE Atom(BigEndian(value, (BitLength(value) + 8) \div 8))

IntToAtom(value) ==
    LET encoded == IntToAtomUnstripped(value).bytes
        redundant == /\ Len(encoded) > 1
                     /\ encoded[1] = 255
                     /\ encoded[2] >= 128
    IN  IF redundant THEN Atom(Tail(encoded)) ELSE Atom(encoded)

\* The length of an atom in bytes, the unit of every per-byte cost.
ByteLen(atom) == Len(atom.bytes)
=============================================================================
