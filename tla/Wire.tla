-------------------------------- MODULE Wire --------------------------------
(***************************************************************************)
(* The wire format (bitlisp/serialize.py): a node as bytes, and bytes read *)
(* back strictly, so that a node has one accepted spelling.                *)
(***************************************************************************)
EXTENDS Sexp

CONSTANT FORMS   \* the length prefixes: [prefix, mask, extra, floor]

PAIR == 255      \* the byte before a pair's two nodes
SELF_MAX == 127  \* a byte up to this one is an atom by itself

\* The longest atom that a form can announce.
Capacity(form) == (form.mask + 1) * 256^form.extra - 1

\* The first form that can announce the length.
FormFor(length) ==
    CHOOSE i \in DOMAIN FORMS :
        /\ length <= Capacity(FORMS[i])
        /\ \A j \in 1..(i - 1) : length > Capacity(FORMS[j])

AtomBytes(bytes) ==
    LET form == FORMS[FormFor(Len(bytes))]
        high == Len(bytes) \div 256^form.extra
    IN  IF Len(bytes) = 1 /\ bytes[1] <= SELF_MAX THEN bytes
        ELSE <<form.prefix + high>> \o BigEndian(Len(bytes), form.extra) \o bytes

RECURSIVE serialize(_)
serialize(node) ==
    IF IsAtom(node) THEN AtomBytes(node.bytes)
    ELSE <<PAIR>> \o serialize(First(node)) \o serialize(Rest(node))

-----------------------------------------------------------------------------
(* Reading: the loop over a stack of tasks, the top of each stack first.   *)

Reading == [pos |-> 1, tasks |-> <<"parse">>, values |-> <<>>, bad |-> FALSE]
Bad(s) == [s EXCEPT !.bad = TRUE, !.tasks = <<>>]
Push(s, node, pos) ==
    [s EXCEPT !.tasks = Tail(@), !.values = <<node>> \o @, !.pos = pos]

\* Defect: a length is taken in any form that can announce it.
ReadAtomLoosely(data, s, form) ==
    LET high == data[s.pos] - form.prefix
        start == s.pos + 1 + form.extra
        length == high * 256^form.extra + Unsigned(SubSeq(data, s.pos + 1, start - 1))
    IN  IF start - 1 > Len(data) \/ start + length - 1 > Len(data) THEN Bad(s)
        ELSE IF length = 1 /\ data[start] <= SELF_MAX THEN Bad(s)
        ELSE Push(s, Atom(SubSeq(data, start, start + length - 1)), start + length)

\* An atom behind a length prefix, refused when the prefix or the atom is
\* cut short, or when a shorter spelling exists.
ReadAtom(data, s, form) ==
    LET high == data[s.pos] - form.prefix
        start == s.pos + 1 + form.extra
        length == high * 256^form.extra + Unsigned(SubSeq(data, s.pos + 1, start - 1))
    IN  IF start - 1 > Len(data) \/ length < form.floor THEN Bad(s)
        ELSE IF start + length - 1 > Len(data) THEN Bad(s)
        ELSE IF length = 1 /\ data[start] <= SELF_MAX THEN Bad(s)
        ELSE Push(s, Atom(SubSeq(data, start, start + length - 1)), start + length)

Turn(data, s) ==
    IF Head(s.tasks) = "cons"
    THEN [s EXCEPT !.tasks = Tail(@),
                   !.values = <<Cons(@[2], @[1])>> \o SubSeq(@, 3, Len(@))]
    ELSE IF s.pos > Len(data) THEN Bad(s)
    ELSE LET b0 == data[s.pos]
             forms == {i \in DOMAIN FORMS :
                         b0 \in FORMS[i].prefix..(FORMS[i].prefix + FORMS[i].mask)}
         IN  IF b0 = PAIR
             THEN [s EXCEPT !.pos = @ + 1, !.tasks = <<"parse", "parse", "cons">> \o Tail(@)]
             ELSE IF b0 <= SELF_MAX THEN Push(s, Atom(<<b0>>), s.pos + 1)
             ELSE IF forms = {} THEN Bad(s)
             ELSE ReadAtom(data, s, FORMS[CHOOSE i \in forms : TRUE])

RECURSIVE Turns(_, _)
Turns(data, s) == IF s.tasks = <<>> THEN s ELSE Turns(data, Turn(data, s))

\* One node from all of the bytes, or a refusal.
deserialize(data) ==
    LET s == Turns(data, Reading)
    IN  IF s.bad \/ s.pos # Len(data) + 1 THEN [ok |-> FALSE, node |-> Nil]
        ELSE [ok |-> TRUE, node |-> s.values[1]]
=============================================================================
