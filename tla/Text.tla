-------------------------------- MODULE Text --------------------------------
(***************************************************************************)
(* The text syntax: the assembler (bitlisp_tools/reader.py), which reads   *)
(* tokens with a stack of open lists, and the disassembler                 *)
(* (bitlisp_tools/printer.py).                                             *)
(*                                                                         *)
(* A text is its tokens; comments and spacing are the tokenizer's.  A      *)
(* token is its kind with what the kind carries: the bytes of a string,    *)
(* the digits of a hex atom, the integer of a decimal, the opcode a name   *)
(* stands for (keywords.py gives no two names one opcode), the name of any *)
(* other symbol.                                                           *)
(***************************************************************************)
EXTENDS Sexp

CONSTANTS
    STRING_MIN_BYTES, DECIMAL_MAX_BYTES, NEGATIVE_DECIMAL_MAX_BYTES,
    NAMED_ATOMS   \* the opcodes that have a name

S == INSTANCE SequencesExt

Token(kind, value) == [kind |-> kind, value |-> value]
Open == Token("(", <<>>)
Close == Token(")", <<>>)
Dot == Token(".", <<>>)

\* What parsing ends in, when it does not end in nodes.
ParseError == "parse_error"
UnknownSymbol == "unknown_symbol"
NoError == "none"

-----------------------------------------------------------------------------
(* Reading. *)

\* An odd number of digits gets a leading zero.
HexBytes(digits) ==
    LET even == IF Len(digits) % 2 = 0 THEN digits ELSE <<0>> \o digits
    IN  [i \in 1..(Len(even) \div 2) |-> 16 * even[2*i - 1] + even[2*i]]

\* Tokens that spell an atom, and spellings of one that are malformed:
\* digits that are not, a string that has no encoding, a decimal that is
\* past the interpreter's limit.
Literals == {"string", "hex", "name", "decimal"}
Malformed == {"bad_string", "bad_hex", "huge_decimal"}

AtomOf(token) ==
    CASE token.kind = "string"  -> Atom(token.value)
      [] token.kind = "hex"     -> Atom(HexBytes(token.value))
      [] token.kind = "name"    -> Atom(token.value)
      [] token.kind = "decimal" -> IntToAtom(token.value[1])

\* A text of one token that no resolution accepts may name a definition.
definable(tokens) ==
    Len(tokens) = 1 /\ tokens[1].kind \notin Literals \cup Malformed \cup {"(", ")", "."}

Frame == [items |-> <<>>, tail |-> <<>>, dot |-> FALSE]
Parsing == [results |-> <<>>, stack |-> <<>>, error |-> NoError]
Fails(s, error) == [s EXCEPT !.error = error]

\* (item1 ... itemn . tail).
Listed(items, tail) ==
    IF items = <<>> THEN tail
    ELSE IF IsPair(tail) THEN Spine(items \o tail.elems, tail.tail) ELSE Spine(items, tail)

\* A node joins the innermost open list, after its dot if it has one.
Place(s, node) ==
    IF s.stack = <<>> THEN [s EXCEPT !.results = Append(@, node)]
    ELSE IF ~s.stack[1].dot THEN [s EXCEPT !.stack[1].items = Append(@, node)]
    ELSE IF s.stack[1].tail = <<>> THEN [s EXCEPT !.stack[1].tail = <<node>>]
    ELSE Fails(s, ParseError)

ReadDot(s) ==
    IF s.stack = <<>> \/ s.stack[1].items = <<>> \/ s.stack[1].dot THEN Fails(s, ParseError)
    ELSE [s EXCEPT !.stack[1].dot = TRUE]

\* Defect: a dot with nothing behind it is taken for a nil tail.
ReadCloseDotted(s) ==
    LET frame == s.stack[1] IN
    IF s.stack = <<>> THEN Fails(s, ParseError)
    ELSE Place([s EXCEPT !.stack = Tail(@)],
               Listed(frame.items, IF frame.tail # <<>> THEN frame.tail[1] ELSE Nil))

ReadClose(s) ==
    LET frame == s.stack[1] IN
    IF s.stack = <<>> \/ (frame.dot /\ frame.tail = <<>>) THEN Fails(s, ParseError)
    ELSE Place([s EXCEPT !.stack = Tail(@)],
               Listed(frame.items, IF frame.dot THEN frame.tail[1] ELSE Nil))

\* Bindings are consulted last.
ReadBare(s, token, names) ==
    IF token.kind \in Malformed THEN Fails(s, ParseError)
    ELSE IF token.kind \in Literals THEN Place(s, AtomOf(token))
    ELSE IF token \in DOMAIN names THEN Place(s, names[token])
    ELSE Fails(s, UnknownSymbol)

ReadToken(s, token, names, single) ==
    IF s.error # NoError THEN s
    ELSE IF single /\ s.results # <<>> /\ s.stack = <<>> THEN Fails(s, ParseError)
    ELSE CASE token = Open  -> [s EXCEPT !.stack = <<Frame>> \o @]
           [] token = Dot   -> ReadDot(s)
           [] token = Close -> ReadClose(s)
           [] OTHER         -> ReadBare(s, token, names)

_parse(tokens, names, single) ==
    LET s == S!FoldLeft(LAMBDA t, token : ReadToken(t, token, names, single), Parsing, tokens)
    IN  IF s.error = NoError /\ s.stack # <<>> THEN Fails(s, ParseError) ELSE s

\* Exactly one node.
assemble(tokens, names) ==
    LET s == _parse(tokens, names, TRUE)
    IN  IF s.error = NoError /\ s.results = <<>> THEN Fails(s, ParseError) ELSE s

-----------------------------------------------------------------------------
(* Printing. *)

DoubleQuote == 34
SingleQuote == 39

IsPrintable(bytes) ==
    Len(bytes) >= STRING_MIN_BYTES /\ \A i \in DOMAIN bytes : bytes[i] \in 32..126

\* There are no escapes: one of the quotes has to delimit.
IsQuotable(bytes) ==
    ~ ({DoubleQuote, SingleQuote} \subseteq {bytes[i] : i \in DOMAIN bytes})

\* Defect: an atom that is padded prints as its value.
IsDecimalAnyLength(atom) ==
    ByteLen(atom) <= DECIMAL_MAX_BYTES
      /\ (AtomToInt(atom) >= 0 \/ ByteLen(atom) <= NEGATIVE_DECIMAL_MAX_BYTES)

\* The minimal encoding of an integer in the window.
IsDecimal(atom) ==
    /\ ByteLen(atom) <= DECIMAL_MAX_BYTES
    /\ IntToAtom(AtomToInt(atom)) = atom
    /\ AtomToInt(atom) >= 0 \/ ByteLen(atom) <= NEGATIVE_DECIMAL_MAX_BYTES

HexDigits(bytes) ==
    [i \in 1..(2 * Len(bytes)) |->
        IF i % 2 = 1 THEN bytes[(i + 1) \div 2] \div 16 ELSE bytes[i \div 2] % 16]

\* A printable atom that has no string spelling is never a decimal.
_atom_text(atom, operator_position) ==
    IF operator_position /\ atom \in NAMED_ATOMS THEN <<Token("name", atom.bytes)>>
    ELSE IF atom = Nil THEN <<Open, Close>>
    ELSE IF IsPrintable(atom.bytes) /\ IsQuotable(atom.bytes)
    THEN <<Token("string", atom.bytes)>>
    ELSE IF ~IsPrintable(atom.bytes) /\ IsDecimal(atom)
    THEN <<Token("decimal", <<AtomToInt(atom)>>)>>
    ELSE <<Token("hex", HexDigits(atom.bytes))>>

\* A list's head is in operator position; a tail that is not nil is dotted.
RECURSIVE Spelled(_, _)
Spelled(node, operator_position) ==
    IF IsAtom(node) THEN _atom_text(node, operator_position)
    ELSE <<Open>> \o S!FlattenSeq([i \in DOMAIN node.elems |-> Spelled(node.elems[i], i = 1)])
           \o (IF node.tail = Nil THEN <<>> ELSE <<Dot>> \o _atom_text(node.tail, FALSE))
           \o <<Close>>
disassemble(node) == Spelled(node, FALSE)
=============================================================================
