----------------------------- MODULE ShellProof -----------------------------
(***************************************************************************)
(* Proofs about the shell: a name keeps one meaning, declarations stay,    *)
(* what is recorded as loaded is declared, and the namespace implements    *)
(* the atomic one of AtomicNamespace.tla.                                  *)
(***************************************************************************)
EXTENDS Shell, FiniteSetTheorems, SequenceTheorems, TLAPS

-----------------------------------------------------------------------------
(* The namespace. *)

\* Each space holds declarations of its own kind, at their names.
IsNamespace(ds) ==
    /\ ds = [s \in Spaces |-> ds[s]]
    /\ \A s \in Spaces : ds[s] = [n \in DOMAIN ds[s] |-> ds[s][n]]
    /\ \A s \in Spaces : \A n \in DOMAIN ds[s] : ds[s][n].name = n /\ SpaceOf(ds[s][n]) = s

\* No name is in two spaces.
IsUnambiguous(ds) == \A s, t \in Spaces : s # t => DOMAIN ds[s] \cap DOMAIN ds[t] = {}

\* A namespace in which no name of these and none of the language's is
\* declared.
IsClear(ns, ds) ==
    /\ IsNamespace(ds) /\ IsUnambiguous(ds)
    /\ (DOMAIN ns \cup Reserved) \cap Defined(ds) = {}

\* A declaration goes to one of the spaces.
LEMMA SpaceOfIs == \A d : d.kind \in DeclarationKinds => SpaceOf(d) \in Spaces
<1>1. ASSUME NEW d, d.kind \in DeclarationKinds PROVE SpaceOf(d) \in Spaces
    <2>1. CASE d.kind = "defun"
        BY <2>1 DEF SpaceOf, Spaces
    <2>2. CASE d.kind = "defun-inline"
        BY <2>2 DEF SpaceOf, Spaces
    <2>3. CASE d.kind = "defconstant"
        BY <2>3 DEF SpaceOf, Spaces
    <2> QED BY <1>1, <2>1, <2>2, <2>3 DEF DeclarationKinds
<1> QED BY <1>1

\* What the spaces hold, by name.
LEMMA BodiesAre ==
    ASSUME NEW ds, IsNamespace(ds)
    PROVE  /\ \A d : d \in Bodies(ds, Spaces) <=>
                 \E s \in Spaces : d.name \in DOMAIN ds[s] /\ ds[s][d.name] = d
           /\ Defined(ds) = {d.name : d \in Bodies(ds, Spaces)}
<1>1. ASSUME NEW d
      PROVE  d \in Bodies(ds, Spaces) <=> \E s \in Spaces : d.name \in DOMAIN ds[s] /\ ds[s][d.name] = d
    BY DEF IsNamespace, Bodies
<1>2. Defined(ds) = {d.name : d \in Bodies(ds, Spaces)}
    <2>1. ASSUME NEW n \in Defined(ds) PROVE \E d \in Bodies(ds, Spaces) : d.name = n
        <3>1. PICK s \in Spaces : n \in DOMAIN ds[s]
            BY <2>1 DEF Defined
        <3>2. ds[s][n].name = n /\ ds[s][n] \in Bodies(ds, Spaces)
            BY <3>1 DEF IsNamespace, Bodies
        <3> QED BY <3>2
    <2>2. ASSUME NEW d \in Bodies(ds, Spaces) PROVE d.name \in Defined(ds)
        BY <1>1, <2>2 DEF Defined
    <2> QED BY <2>1, <2>2
<1> QED BY <1>1, <1>2

\* A name is that of one declaration.
LEMMA OneBody ==
    ASSUME NEW ds, IsNamespace(ds), IsUnambiguous(ds),
           NEW d \in Bodies(ds, Spaces), NEW e \in Bodies(ds, Spaces), d.name = e.name
    PROVE  d = e
<1>1. PICK s \in Spaces : d.name \in DOMAIN ds[s] /\ ds[s][d.name] = d
    BY BodiesAre
<1>2. PICK t \in Spaces : e.name \in DOMAIN ds[t] /\ ds[t][e.name] = e
    BY BodiesAre
<1>3. s = t
    BY <1>1, <1>2 DEF IsUnambiguous
<1> QED BY <1>1, <1>2, <1>3

\* What storing an entry does to a dict.
LEMMA PutIs ==
    ASSUME NEW f, NEW d
    PROVE  /\ Put(f, d) = [n \in DOMAIN Put(f, d) |-> Put(f, d)[n]]
           /\ DOMAIN Put(f, d) = DOMAIN f \cup {d.name}
           /\ Put(f, d)[d.name] = d
           /\ \A n \in DOMAIN f \ {d.name} : Put(f, d)[n] = f[n]
BY DEF Put

\* A declaration that may claim its name joins the others.
LEMMA AddedIs ==
    ASSUME NEW ns, NEW ds, IsClear(ns, ds), NEW d, d.kind \in DeclarationKinds,
           Claims(ds, d, DOMAIN ns)
    PROVE  /\ IsClear(ns, Added(ds, d))
           /\ Bodies(Added(ds, d), Spaces) = Bodies(ds, Spaces) \cup {d}
           /\ d.name \notin Defined(ds)
<1> DEFINE es == Added(ds, d)
           t == SpaceOf(d)
<1>1. t \in Spaces
    BY SpaceOfIs
<1>2. d.name \notin Defined(ds) /\ d.name \notin DOMAIN ns \cup Reserved
    BY DEF Claims
<1>3. ds = [s \in Spaces |-> ds[s]]
    BY DEF IsClear, IsNamespace
<1>4. es = [s \in Spaces |-> IF s = t THEN Put(ds[t], d) ELSE ds[s]]
    BY <1>1, <1>3 DEF Added
<1>5. \A s \in Spaces : es[s] = IF s = t THEN Put(ds[t], d) ELSE ds[s]
    BY <1>4
<1>6. es[t] = Put(ds[t], d) /\ \A s \in Spaces \ {t} : es[s] = ds[s]
    BY <1>1, <1>5
<1>7. /\ DOMAIN es[t] = DOMAIN ds[t] \cup {d.name}
      /\ es[t] = [n \in DOMAIN es[t] |-> es[t][n]]
      /\ es[t][d.name] = d
      /\ \A n \in DOMAIN ds[t] \ {d.name} : es[t][n] = ds[t][n]
    <2> DEFINE p == Put(ds[t], d)
    <2>1. /\ p = [n \in DOMAIN p |-> p[n]]
          /\ DOMAIN p = DOMAIN ds[t] \cup {d.name}
          /\ p[d.name] = d
          /\ \A n \in DOMAIN ds[t] \ {d.name} : p[n] = ds[t][n]
        BY PutIs
    <2>2. es[t] = p
        BY <1>6
    <2> QED BY <2>1, <2>2
<1>8. \A s \in Spaces : d.name \notin DOMAIN ds[s]
    BY <1>2 DEF Defined
<1>9. IsNamespace(es)
    <2>1. es = [s \in Spaces |-> es[s]]
        BY <1>4
    <2>2. ASSUME NEW s \in Spaces PROVE es[s] = [n \in DOMAIN es[s] |-> es[s][n]]
        <3>1. CASE s = t
            BY <3>1, <1>7
        <3>2. CASE s # t
            <4>1. es[s] = ds[s] /\ ds[s] = [n \in DOMAIN ds[s] |-> ds[s][n]]
                BY <3>2, <1>6 DEF IsClear, IsNamespace
            <4> QED BY <4>1
        <3> QED BY <3>1, <3>2
    <2>3. ASSUME NEW s \in Spaces, NEW n \in DOMAIN es[s]
          PROVE  es[s][n].name = n /\ SpaceOf(es[s][n]) = s
        <3>1. CASE s = t /\ n = d.name
            BY <3>1, <1>7
        <3>2. CASE s = t /\ n # d.name
            BY <3>2, <2>3, <1>7, <1>1 DEF IsClear, IsNamespace
        <3>3. CASE s # t
            BY <3>3, <2>3, <1>6 DEF IsClear, IsNamespace
        <3> QED BY <3>1, <3>2, <3>3
    <2> QED BY <2>1, <2>2, <2>3 DEF IsNamespace
<1>10. IsUnambiguous(es)
    <2>1. ASSUME NEW s \in Spaces, NEW r \in Spaces, s # r
          PROVE  DOMAIN es[s] \cap DOMAIN es[r] = {}
        <3>1. DOMAIN ds[s] \cap DOMAIN ds[r] = {}
            BY <2>1 DEF IsClear, IsUnambiguous
        <3>2. CASE s = t
            BY <3>1, <3>2, <2>1, <1>6, <1>7, <1>8
        <3>3. CASE r = t
            BY <3>1, <3>3, <2>1, <1>6, <1>7, <1>8
        <3>4. CASE s # t /\ r # t
            BY <3>1, <3>4, <1>6
        <3> QED BY <3>2, <3>3, <3>4
    <2> QED BY <2>1 DEF IsUnambiguous
<1>11. Defined(es) = Defined(ds) \cup {d.name}
    BY <1>1, <1>6, <1>7 DEF Defined
<1>12. Bodies(es, Spaces) = Bodies(ds, Spaces) \cup {d}
    <2>1. IsNamespace(ds)
        BY DEF IsClear
    <2>2. ASSUME NEW e \in Bodies(es, Spaces) PROVE e \in Bodies(ds, Spaces) \cup {d}
        <3>1. PICK s \in Spaces : e.name \in DOMAIN es[s] /\ es[s][e.name] = e
            BY <1>9, BodiesAre
        <3>2. CASE s = t /\ e.name = d.name
            BY <3>1, <3>2, <1>7
        <3>3. CASE ~(s = t /\ e.name = d.name)
            <4>1. e.name \in DOMAIN ds[s] /\ ds[s][e.name] = e
                BY <3>1, <3>3, <1>6, <1>7
            <4> QED BY <4>1, <2>1, BodiesAre
        <3> QED BY <3>2, <3>3
    <2>3. ASSUME NEW e \in Bodies(ds, Spaces) PROVE e \in Bodies(es, Spaces)
        <3>1. PICK s \in Spaces : e.name \in DOMAIN ds[s] /\ ds[s][e.name] = e
            BY <2>1, BodiesAre
        <3>2. e.name \in DOMAIN es[s] /\ es[s][e.name] = e
            BY <3>1, <1>6, <1>7, <1>8
        <3> QED BY <3>2, <1>9, BodiesAre
    <2>4. d \in Bodies(es, Spaces)
        BY <1>1, <1>7, <1>9, BodiesAre
    <2> QED BY <2>2, <2>3, <2>4
<1>13. (DOMAIN ns \cup Reserved) \cap Defined(es) = {}
    BY <1>2, <1>11 DEF IsClear
<1> QED BY <1>2, <1>9, <1>10, <1>12, <1>13 DEF IsClear

\* The space that holds a declared name.
LEMMA HolderIs ==
    ASSUME NEW name \in Defined(defs)
    PROVE  Holder(name) \in Spaces /\ name \in DOMAIN defs[Holder(name)]
<1> DEFINE order == <<"functions", "inlines", "constants">>
           holds == {k \in 1..Len(order) : name \in DOMAIN defs[order[k]]}
<1>1. Len(order) = 3 /\ \A k \in 1..3 : order[k] \in Spaces
    BY DEF Spaces
<1>2. holds \subseteq 1..3 /\ holds # {}
    BY <1>1 DEF Defined, Spaces
<1>3. \E k \in holds : \A j \in holds : k <= j
    BY <1>2
<1>4. Min(holds) \in holds
    BY <1>3 DEF Min
<1> QED BY <1>1, <1>2, <1>4 DEF Holder, SearchOrder

\* A declaration that is removed leaves the others.
LEMMA RemovedIs ==
    ASSUME NEW ns, NEW ds, IsClear(ns, ds), NEW t \in Spaces, NEW name \in DOMAIN ds[t],
           NEW es, es = [s \in Spaces |-> es[s]],
           es[t] = Without(ds[t], name), \A s \in Spaces \ {t} : es[s] = ds[s]
    PROVE  /\ IsClear(ns, es)
           /\ Bodies(es, Spaces) = {d \in Bodies(ds, Spaces) : d.name # name}
           /\ name \notin Defined(es)
<1>1. IsNamespace(ds)
    BY DEF IsClear
<1>2. /\ es[t] = [n \in DOMAIN es[t] |-> es[t][n]]
      /\ DOMAIN es[t] = DOMAIN ds[t] \ {name}
      /\ \A n \in DOMAIN es[t] : es[t][n] = ds[t][n]
    BY DEF Without
<1>3. \A s \in Spaces : \A n \in DOMAIN es[s] : n \in DOMAIN ds[s] /\ es[s][n] = ds[s][n]
    BY <1>2
<1>4. IsNamespace(es)
    <2>1. ASSUME NEW s \in Spaces PROVE es[s] = [n \in DOMAIN es[s] |-> es[s][n]]
        <3>1. CASE s = t
            BY <3>1, <1>2
        <3>2. CASE s # t
            <4>1. es[s] = ds[s] /\ ds[s] = [n \in DOMAIN ds[s] |-> ds[s][n]]
                BY <3>2, <1>1 DEF IsNamespace
            <4> QED BY <4>1
        <3> QED BY <3>1, <3>2
    <2>2. es = [s \in Spaces |-> es[s]]
        OBVIOUS
    <2>3. ASSUME NEW s \in Spaces, NEW n \in DOMAIN es[s]
          PROVE  es[s][n].name = n /\ SpaceOf(es[s][n]) = s
        <3>1. n \in DOMAIN ds[s] /\ es[s][n] = ds[s][n]
            BY <1>3, <2>3
        <3>2. ds[s][n].name = n /\ SpaceOf(ds[s][n]) = s
            BY <1>1, <3>1 DEF IsNamespace
        <3> QED BY <3>1, <3>2
    <2> QED BY <2>1, <2>2, <2>3 DEF IsNamespace
<1>5. IsUnambiguous(es)
    BY <1>3 DEF IsClear, IsUnambiguous
<1>6. \A s \in Spaces : name \notin DOMAIN es[s]
    BY <1>2 DEF IsClear, IsUnambiguous
<1>7. Bodies(es, Spaces) = {d \in Bodies(ds, Spaces) : d.name # name}
    <2>1. ASSUME NEW d \in Bodies(es, Spaces) PROVE d \in Bodies(ds, Spaces) /\ d.name # name
        <3>1. PICK s \in Spaces : d.name \in DOMAIN es[s] /\ es[s][d.name] = d
            BY <1>4, BodiesAre
        <3>2. d.name \in DOMAIN ds[s] /\ ds[s][d.name] = d /\ d.name # name
            BY <3>1, <1>3, <1>6
        <3> QED BY <3>2, <1>1, BodiesAre
    <2>2. ASSUME NEW d \in Bodies(ds, Spaces), d.name # name PROVE d \in Bodies(es, Spaces)
        <3>1. PICK s \in Spaces : d.name \in DOMAIN ds[s] /\ ds[s][d.name] = d
            BY <1>1, BodiesAre
        <3>2. d.name \in DOMAIN es[s] /\ es[s][d.name] = d
            BY <3>1, <2>2, <1>2
        <3> QED BY <3>2, <1>4, BodiesAre
    <2> QED BY <2>1, <2>2
<1>8. Defined(es) \subseteq Defined(ds) /\ name \notin Defined(es)
    BY <1>3, <1>6 DEF Defined
<1> QED BY <1>4, <1>5, <1>7, <1>8 DEF IsClear

-----------------------------------------------------------------------------
(* The inductive invariant. *)

\* What a text may hold, and what the stack and the result of a splice do.
Items ==
    {[kind |-> "include", spelling |-> s] : s \in Spellings}
      \cup UNION {Range(Text[file]) : file \in {f \in DOMAIN Text : Text[f] # Unreadable}}
EntrySet == [item : Items \cup {Splicing!IncludeEnd}, origin : Spellings \cup {NoOrigin}]

ItemsOf(entries) == {entries[k].item : k \in 1..Len(entries)}
Stacked == ItemsOf(stack)
Spliced == ItemsOf(result)

\* An item of a file that has been read is still to be taken, or it has been
\* spliced or is an include of a file that has been read.
IsPlaced(item) ==
    \/ item \in Stacked
    \/ IF item.kind = "include" THEN Resolve[item.spelling] \in loaded ELSE item \in Spliced

NamesInv ==
    /\ user \in Users
    /\ names = [n \in DOMAIN names |-> names[n]]
    /\ Reserved \cap DOMAIN names = {}
    /\ IsClear(names, defs)

\* An include line remembers what it began from, and only adds to it.
SnapshotInv ==
    running = "including" =>
        /\ snapshot = [defs |-> snapshot.defs, loaded |-> before]
        /\ IsClear(names, snapshot.defs)
        /\ Bodies(snapshot.defs, Spaces) \subseteq Bodies(defs, Spaces)
        /\ before \subseteq loaded
        /\ outcome # "done" => defs = snapshot.defs

\* The files read since then lie between the stack and the result, and what
\* lies there is theirs.
SpliceInv ==
    running = "including" =>
        /\ stack \in Seq(EntrySet) /\ result \in Seq(EntrySet)
        /\ outcome = "done" => stack = <<>>
        /\ outcome \in {"splicing", "done"} =>
              /\ \A file \in loaded \ before :
                    Text[file] # Unreadable /\ \A i \in 1..Len(Text[file]) : IsPlaced(Text[file][i])
              /\ \A item \in Stacked \cup Spliced :
                    item.kind \in DeclarationKinds =>
                        \E file \in loaded \ before : item \in DeclarationsIn(file)
              /\ \A item \in Spliced : item.kind \in DeclarationKinds

\* The first m declarations have been added, each under a name of its own.
IsAdded(m) ==
    /\ queue = SubSeq(result, m + 1, Len(result))
    /\ Bodies(defs, Spaces) = Bodies(snapshot.defs, Spaces) \cup {result[k].item : k \in 1..m}
    /\ \A i, j \in 1..m : result[i].item.name = result[j].item.name => i = j
    /\ \A i \in 1..m : result[i].item.name \notin Defined(snapshot.defs)

QueueInv == running = "including" /\ outcome = "done" => \E m \in 0..Len(result) : IsAdded(m)

\* Between include lines and before one that is under way.
IsDeclared(files, ds) ==
    \A file \in files : \A d \in DeclarationsIn(file) :
        d.name \in dropped \/ d \in Bodies(ds, Spaces)

LoadedInv ==
    /\ loaded \subseteq DOMAIN Text /\ IsFiniteSet(loaded)
    /\ ~torn => IsDeclared(VisibleLoaded, VisibleDefs)

\* All that the user's spellings lead to, through includes of includes, lies
\* among these files.
Leads(u, files) ==
    /\ \A spelling \in u.spellings : Resolve[spelling] \in files \cup {NotFound}
    /\ \A file \in files :
          Text[file] # Unreadable =>
              \A i \in 1..Len(Text[file]) :
                  Text[file][i].kind = "include" =>
                      Resolve[Text[file][i].spelling] \in files \cup {NotFound}

\* So does all that an include line reads.
ReachInv ==
    running = "including" =>
        \A files \in SUBSET DOMAIN Text :
            Leads(user, files) =>
                /\ loaded \ before \subseteq files
                /\ \A item \in Stacked :
                      item.kind = "include" => Resolve[item.spelling] \in files \cup {NotFound}

ShellInv == NamesInv /\ SnapshotInv /\ SpliceInv /\ QueueInv /\ LoadedInv /\ ReachInv

-----------------------------------------------------------------------------
(* Sequences of entries. *)

\* An item is an include of a spelling or a declaration, and never the
\* marker of a file's end.
LEMMA ItemIs ==
    ASSUME NEW item \in Items
    PROVE  IsItem(item) /\ item.kind # "end" /\ item # Splicing!IncludeEnd
<1>1. IsItem(item)
    <2>1. CASE item \in {[kind |-> "include", spelling |-> s] : s \in Spellings}
        BY <2>1 DEF IsItem
    <2>2. CASE item \in UNION {Range(Text[file]) : file \in {f \in DOMAIN Text : Text[f] # Unreadable}}
        <3>1. PICK file \in DOMAIN Text : Text[file] # Unreadable /\ item \in Range(Text[file])
            BY <2>2
        <3>2. Text[file] \in Seq(Range(Text[file]))
            BY <3>1, FilesHoldItems
        <3>3. PICK i \in 1..Len(Text[file]) : item = Text[file][i]
            BY <3>1, <3>2 DEF Range
        <3> QED BY <3>1, <3>3, FilesHoldItems
    <2> QED BY <2>1, <2>2 DEF Items
<1>2. item.kind # "end"
    BY <1>1 DEF IsItem, DeclarationKinds
<1> QED BY <1>1, <1>2 DEF Splicing!IncludeEnd

\* The first entry and the rest.
LEMMA ItemsOfTail ==
    ASSUME NEW s \in Seq(EntrySet), s # <<>>
    PROVE  /\ Head(s) \in EntrySet /\ Tail(s) \in Seq(EntrySet)
           /\ ItemsOf(s) = {Head(s).item} \cup ItemsOf(Tail(s))
<1>1. Len(s) \in Nat \ {0} /\ Head(s) = s[1] /\ Head(s) \in EntrySet
    BY EmptySeq, LenProperties, HeadTailProperties
<1>2. /\ Tail(s) \in Seq(EntrySet) /\ Len(Tail(s)) = Len(s) - 1
      /\ \A k \in 1..Len(Tail(s)) : Tail(s)[k] = s[k + 1]
    BY HeadTailProperties
<1>3. ASSUME NEW k \in 1..Len(s) PROVE s[k].item \in {Head(s).item} \cup ItemsOf(Tail(s))
    <2>1. CASE k = 1
        BY <2>1, <1>1
    <2>2. CASE k # 1
        <3>1. k - 1 \in 1..Len(Tail(s)) /\ Tail(s)[k - 1] = s[k]
            BY <2>2, <1>1, <1>2
        <3> QED BY <3>1 DEF ItemsOf
    <2> QED BY <2>1, <2>2
<1>4. ASSUME NEW k \in 1..Len(Tail(s)) PROVE Tail(s)[k].item \in ItemsOf(s)
    <2>1. k + 1 \in 1..Len(s) /\ Tail(s)[k] = s[k + 1]
        BY <1>1, <1>2
    <2> QED BY <2>1 DEF ItemsOf
<1>5. Head(s).item \in ItemsOf(s)
    BY <1>1 DEF ItemsOf
<1> QED BY <1>1, <1>2, <1>3, <1>4, <1>5 DEF ItemsOf

\* The entries of two sequences, one after the other.
LEMMA ItemsOfConcat ==
    ASSUME NEW s \in Seq(EntrySet), NEW t \in Seq(EntrySet)
    PROVE  s \o t \in Seq(EntrySet) /\ ItemsOf(s \o t) = ItemsOf(s) \cup ItemsOf(t)
<1>1. /\ s \o t \in Seq(EntrySet) /\ Len(s) \in Nat /\ Len(t) \in Nat
      /\ Len(s \o t) = Len(s) + Len(t)
      /\ \A k \in 1..Len(s) + Len(t) : (s \o t)[k] = IF k <= Len(s) THEN s[k] ELSE t[k - Len(s)]
    BY ConcatProperties, LenProperties
<1>2. ASSUME NEW k \in 1..Len(s \o t) PROVE (s \o t)[k].item \in ItemsOf(s) \cup ItemsOf(t)
    <2>1. CASE k <= Len(s)
        <3>1. k \in 1..Len(s) /\ (s \o t)[k] = s[k]
            BY <2>1, <1>1
        <3> QED BY <3>1 DEF ItemsOf
    <2>2. CASE ~(k <= Len(s))
        <3>1. k - Len(s) \in 1..Len(t) /\ (s \o t)[k] = t[k - Len(s)]
            BY <2>2, <1>1
        <3> QED BY <3>1 DEF ItemsOf
    <2> QED BY <2>1, <2>2
<1>3. ASSUME NEW k \in 1..Len(s) PROVE s[k].item \in ItemsOf(s \o t)
    <2>1. k \in 1..Len(s \o t) /\ (s \o t)[k] = s[k]
        BY <1>1
    <2> QED BY <2>1 DEF ItemsOf
<1>4. ASSUME NEW k \in 1..Len(t) PROVE t[k].item \in ItemsOf(s \o t)
    <2>1. k + Len(s) \in 1..Len(s \o t) /\ (s \o t)[k + Len(s)] = t[k]
        BY <1>1
    <2> QED BY <2>1 DEF ItemsOf
<1> QED BY <1>1, <1>2, <1>3, <1>4 DEF ItemsOf

\* One more entry at the end.
LEMMA ItemsOfAppend ==
    ASSUME NEW s \in Seq(EntrySet), NEW e \in EntrySet
    PROVE  Append(s, e) \in Seq(EntrySet) /\ ItemsOf(Append(s, e)) = ItemsOf(s) \cup {e.item}
<1>1. /\ Append(s, e) \in Seq(EntrySet) /\ Len(s) \in Nat /\ Len(Append(s, e)) = Len(s) + 1
      /\ \A k \in 1..Len(s) : Append(s, e)[k] = s[k]
      /\ Append(s, e)[Len(s) + 1] = e
    BY AppendProperties, LenProperties
<1>2. ASSUME NEW k \in 1..Len(Append(s, e)) PROVE Append(s, e)[k].item \in ItemsOf(s) \cup {e.item}
    <2>1. k = Len(s) + 1 \/ k \in 1..Len(s)
        BY <1>1
    <2> QED BY <2>1, <1>1 DEF ItemsOf
<1>3. ASSUME NEW k \in 1..Len(s) PROVE s[k].item \in ItemsOf(Append(s, e))
    <2>1. k \in 1..Len(Append(s, e)) /\ Append(s, e)[k] = s[k]
        BY <1>1
    <2> QED BY <2>1 DEF ItemsOf
<1>4. e.item \in ItemsOf(Append(s, e))
    <2>1. Len(s) + 1 \in 1..Len(Append(s, e))
        BY <1>1
    <2> QED BY <2>1, <1>1 DEF ItemsOf
<1> QED BY <1>1, <1>2, <1>3, <1>4 DEF ItemsOf

\* The entries that a file's text becomes.
LEMMA EntriesAre ==
    ASSUME NEW file \in DOMAIN Text, Text[file] # Unreadable, NEW origin \in Spellings \cup {NoOrigin}
    PROVE  /\ Splicing!Entries(Text[file], origin) \in Seq(EntrySet)
           /\ ItemsOf(Splicing!Entries(Text[file], origin)) = {Text[file][i] : i \in 1..Len(Text[file])}
<1> DEFINE items == Text[file]
           es == Splicing!Entries(items, origin)
<1>1. items \in Seq(Range(items)) /\ Len(items) \in Nat
    BY FilesHoldItems, LenProperties
<1>2. \A i \in 1..Len(items) : items[i] \in Items
    BY <1>1 DEF Items, Range
<1>3. es = [i \in 1..Len(items) |-> [item |-> items[i], origin |-> origin]]
    BY DEF Splicing!Entries, Splicing!Entry
<1>4. \A i \in 1..Len(items) : es[i] \in EntrySet /\ es[i].item = items[i]
    BY <1>2, <1>3 DEF EntrySet
<1>5. es \in Seq(EntrySet) /\ Len(es) = Len(items)
    BY <1>1, <1>3, <1>4, IsASeq, LenProperties
<1> HIDE DEF es, items
<1>6. ItemsOf(es) = {items[i] : i \in 1..Len(items)}
    BY <1>4, <1>5 DEF ItemsOf
<1> QED BY <1>5, <1>6 DEF es, items

-----------------------------------------------------------------------------
(* It holds when a session begins. *)

\* Nothing is declared.
LEMMA NothingIsClear ==
    IsClear(<<>>, NoDefinitions) /\ Bodies(NoDefinitions, Spaces) = {} /\ Defined(NoDefinitions) = {}
<1>1. \A s \in Spaces : NoDefinitions[s] = <<>>
    BY DEF NoDefinitions
<1>2. \A s \in Spaces : DOMAIN NoDefinitions[s] = {}
    BY <1>1
<1>3. NoDefinitions = [s \in Spaces |-> NoDefinitions[s]]
    BY DEF NoDefinitions
<1>4. <<>> = [n \in DOMAIN <<>> |-> <<>>[n]]
    OBVIOUS
<1>5. IsNamespace(NoDefinitions)
    BY <1>1, <1>2, <1>3, <1>4 DEF IsNamespace
<1>6. Bodies(NoDefinitions, Spaces) = {} /\ Defined(NoDefinitions) = {}
    BY <1>2 DEF Bodies, Defined
<1> QED BY <1>2, <1>5, <1>6 DEF IsClear, IsUnambiguous

LEMMA ShellInvInit == Init => ShellInv
<1> SUFFICES ASSUME Init PROVE ShellInv
    OBVIOUS
<1> USE DEF Init
<1>1. NamesInv
    <2>1. <<>> = [n \in DOMAIN <<>> |-> <<>>[n]] /\ DOMAIN <<>> = {}
        OBVIOUS
    <2> QED BY <2>1, NothingIsClear DEF NamesInv
<1>2. SnapshotInv /\ SpliceInv /\ QueueInv /\ ReachInv
    BY DEF SnapshotInv, SpliceInv, QueueInv, ReachInv
<1>3. LoadedInv
    BY FS_EmptySet DEF LoadedInv, IsDeclared, VisibleLoaded
<1> QED BY <1>1, <1>2, <1>3 DEF ShellInv

-----------------------------------------------------------------------------
(* Steps outside an include line. *)

\* A step that begins and ends outside an include line has the splice and its
\* queue to say nothing about.
LEMMA OutsideIncludes ==
    ASSUME running' # "including", NamesInv', LoadedInv'
    PROVE  ShellInv'
BY DEF ShellInv, SnapshotInv, SpliceInv, QueueInv, ReachInv

\* A step that leaves the namespace alone.
LEMMA SameNamespace ==
    ASSUME ShellInv, running # "including", running' # "including",
           UNCHANGED <<user, namespace, dropped, torn>>
    PROVE  ShellInv'
<1>1. NamesInv'
    BY DEF ShellInv, NamesInv, namespace
<1>2. LoadedInv'
    <2>1. /\ VisibleLoaded = loaded /\ VisibleLoaded' = loaded
          /\ VisibleDefs = defs /\ VisibleDefs' = defs
        BY DEF namespace, VisibleLoaded, VisibleDefs
    <2> QED BY <2>1 DEF ShellInv, LoadedInv, IsDeclared, namespace
<1> QED BY <1>1, <1>2, OutsideIncludes

LEMMA DeclareLineKeeps == ShellInv /\ DeclareLine => ShellInv'
<1> SUFFICES ASSUME ShellInv, DeclareLine PROVE ShellInv'
    OBVIOUS
<1>1. PICK d \in user.lines :
        LET error == AddError(defs, d, DOMAIN names)
        IN  defs' = IF error = "none" THEN Added(defs, d) ELSE defs
    BY DEF DeclareLine
<1>2. /\ running = "prompt" /\ running' = "prompt" /\ d.kind \in DeclarationKinds
      /\ UNCHANGED <<user, names, loaded, dropped, torn>>
    BY UsersAreUsers DEF DeclareLine, Return, ShellInv, NamesInv
<1>3. IsClear(names, defs') /\ Bodies(defs, Spaces) \subseteq Bodies(defs', Spaces)
    <2>1. CASE defs' = defs
        BY <2>1 DEF ShellInv, NamesInv
    <2>2. CASE AddError(defs, d, DOMAIN names) = "none"
        <3>1. Claims(defs, d, DOMAIN names) /\ defs' = Added(defs, d)
            BY <1>1, <2>2 DEF AddError
        <3>2. IsClear(names, defs)
            BY DEF ShellInv, NamesInv
        <3> QED BY <1>2, <3>1, <3>2, AddedIs
    <2> QED BY <1>1, <2>1, <2>2
<1>4. NamesInv'
    BY <1>2, <1>3 DEF ShellInv, NamesInv
<1>5. LoadedInv'
    BY <1>2, <1>3 DEF ShellInv, LoadedInv, IsDeclared, VisibleLoaded, VisibleDefs
<1> QED BY <1>2, <1>4, <1>5, OutsideIncludes

LEMMA DefKeeps == ShellInv /\ Def => ShellInv'
<1> SUFFICES ASSUME ShellInv, Def PROVE ShellInv'
    OBVIOUS
<1>1. PICK b \in Bindings : names' = IF Bindable(b) THEN Put(names, b) ELSE names
    BY DEF Def
<1>2. /\ running = "prompt" /\ running' = "prompt"
      /\ UNCHANGED <<user, defs, loaded, dropped, torn>>
    BY DEF Def, Return
<1>3. NamesInv'
    <2>1. CASE ~Bindable(b)
        BY <1>1, <1>2, <2>1 DEF ShellInv, NamesInv
    <2>2. CASE Bindable(b)
        <3>1. /\ names' = [n \in DOMAIN names' |-> names'[n]]
              /\ DOMAIN names' = DOMAIN names \cup {b.name}
            <4>1. names' = Put(names, b)
                BY <1>1, <2>2
            <4>2. /\ Put(names, b) = [n \in DOMAIN Put(names, b) |-> Put(names, b)[n]]
                  /\ DOMAIN Put(names, b) = DOMAIN names \cup {b.name}
                BY PutIs, Zenon
            <4> QED BY <4>1, <4>2, Zenon
        <3>2. b.name \notin Reserved \cup Defined(defs)
            BY <2>2 DEF Bindable
        <3> QED BY <1>2, <3>1, <3>2 DEF ShellInv, NamesInv, IsClear
    <2> QED BY <2>1, <2>2
<1>4. LoadedInv'
    BY <1>2 DEF ShellInv, LoadedInv, IsDeclared, VisibleLoaded, VisibleDefs
<1> QED BY <1>2, <1>3, <1>4, OutsideIncludes

\* What undef does to the bindings and to the declarations.
LEMMA UndefIs ==
    ASSUME ShellInv, Undef
    PROVE  \E name \in DOMAIN names \cup Defined(defs) :
              /\ dropped' = dropped \cup {name}
              /\ names' = Without(names, name)
              /\ IsClear(names', defs')
              /\ Bodies(defs', Spaces) = {d \in Bodies(defs, Spaces) : d.name # name}
<1>1. PICK name \in DOMAIN names \cup Defined(defs) :
        /\ dropped' = dropped \cup {name}
        /\ IF name \in DOMAIN names
           THEN names' = Without(names, name) /\ UNCHANGED defs
           ELSE /\ defs' = [defs EXCEPT ![Holder(name)] = Without(@, name)]
                /\ UNCHANGED names
    BY DEF Undef
<1>2. names = [n \in DOMAIN names |-> names[n]] /\ IsClear(names, defs)
    BY DEF ShellInv, NamesInv
<1>3. CASE name \in DOMAIN names
    <2>1. name \notin Defined(defs)
        BY <1>2, <1>3 DEF IsClear
    <2>2. Bodies(defs, Spaces) = {d \in Bodies(defs, Spaces) : d.name # name}
        BY <1>2, <2>1, BodiesAre DEF IsClear
    <2>3. names' = Without(names, name) /\ defs' = defs /\ DOMAIN names' \subseteq DOMAIN names
        BY <1>1, <1>3 DEF Without
    <2> QED BY <1>1, <1>2, <2>2, <2>3 DEF IsClear
<1>4. CASE name \notin DOMAIN names
    <2>1. /\ name \in Defined(defs) /\ names' = names
          /\ defs' = [defs EXCEPT ![Holder(name)] = Without(@, name)]
        BY <1>1, <1>4
    <2>2. Holder(name) \in Spaces /\ name \in DOMAIN defs[Holder(name)]
        BY <2>1, HolderIs
    <2>3. /\ defs' = [s \in Spaces |-> defs'[s]]
          /\ defs'[Holder(name)] = Without(defs[Holder(name)], name)
          /\ \A s \in Spaces \ {Holder(name)} : defs'[s] = defs[s]
        BY <1>2, <2>1, <2>2 DEF IsClear, IsNamespace
    <2>4. /\ IsClear(names, defs')
          /\ Bodies(defs', Spaces) = {d \in Bodies(defs, Spaces) : d.name # name}
        BY <1>2, <2>2, <2>3, RemovedIs
    <2>5. DOMAIN names \ {name} = DOMAIN names
        BY <1>4
    <2>6. names = Without(names, name)
        BY <1>2, <2>5 DEF Without
    <2> QED BY <1>1, <2>1, <2>4, <2>6
<1> QED BY <1>3, <1>4

LEMMA UndefKeeps == ShellInv /\ Undef => ShellInv'
<1> SUFFICES ASSUME ShellInv, Undef PROVE ShellInv'
    OBVIOUS
<1>1. PICK name \in DOMAIN names \cup Defined(defs) :
        /\ dropped' = dropped \cup {name}
        /\ names' = Without(names, name)
        /\ IsClear(names', defs')
        /\ Bodies(defs', Spaces) = {d \in Bodies(defs, Spaces) : d.name # name}
    BY UndefIs
<1>2. running = "prompt" /\ running' = "prompt" /\ UNCHANGED <<user, loaded, torn>>
    BY DEF Undef, Return
<1>3. NamesInv'
    BY <1>1, <1>2 DEF ShellInv, NamesInv, Without
<1>4. LoadedInv'
    BY <1>1, <1>2 DEF ShellInv, LoadedInv, IsDeclared, VisibleLoaded, VisibleDefs
<1> QED BY <1>2, <1>3, <1>4, OutsideIncludes

-----------------------------------------------------------------------------
(* An include line: its splice. *)

LEMMA IncludeLineKeeps == ShellInv /\ IncludeLine => ShellInv'
<1> SUFFICES ASSUME ShellInv, IncludeLine PROVE ShellInv'
    OBVIOUS
<1>1. PICK spelling \in user.spellings : source' = <<[kind |-> "include", spelling |-> spelling]>>
    BY DEF IncludeLine
<1>2. /\ running = "prompt" /\ running' = "including"
      /\ snapshot' = [defs |-> defs, loaded |-> loaded] /\ before' = loaded
      /\ stack' = Splicing!Entries(source', NoOrigin)
      /\ result' = <<>> /\ outcome' = "splicing"
      /\ UNCHANGED <<user, names, defs, loaded, dropped, torn>>
    BY DEF IncludeLine, namespace
<1>3. spelling \in Spellings /\ user \in Users
    BY <1>1, UsersAreUsers DEF ShellInv, NamesInv
<1> DEFINE item == [kind |-> "include", spelling |-> spelling]
<1>4. item \in Items /\ item.kind = "include" /\ item.spelling = spelling
    BY <1>3 DEF Items
<1>5. stack' \in Seq(EntrySet) /\ ItemsOf(stack') = {item}
    <2>1. stack' = [i \in 1..1 |-> [item |-> item, origin |-> NoOrigin]]
        BY <1>1, <1>2 DEF Splicing!Entries, Splicing!Entry
    <2> HIDE DEF item
    <2>2. [item |-> item, origin |-> NoOrigin] \in EntrySet
        BY <1>4 DEF EntrySet
    <2>3. stack' \in Seq(EntrySet) /\ Len(stack') = 1
        BY <2>1, <2>2, IsASeq, LenProperties
    <2>4. stack'[1].item = item
        BY <2>1
    <2> QED BY <2>3, <2>4 DEF ItemsOf
<1>6. result' \in Seq(EntrySet) /\ ItemsOf(result') = {}
    <2>1. Len(<<>>) = 0 /\ 1..0 = {}
        OBVIOUS
    <2> QED BY <1>2, <2>1, EmptySeq DEF ItemsOf
<1>7. NamesInv'
    BY <1>2 DEF ShellInv, NamesInv
<1>8. SnapshotInv'
    BY <1>2, <1>7 DEF SnapshotInv, NamesInv
<1>9. SpliceInv'
    BY <1>2, <1>4, <1>5, <1>6 DEF SpliceInv, Stacked, Spliced, DeclarationKinds
<1>10. QueueInv'
    BY <1>2 DEF QueueInv
<1>11. LoadedInv'
    BY <1>2 DEF ShellInv, LoadedInv, IsDeclared, VisibleLoaded, VisibleDefs
<1>12. ReachInv'
    <2>1. ASSUME NEW files \in SUBSET DOMAIN Text, Leads(user, files)
          PROVE  Resolve[spelling] \in files \cup {NotFound}
        BY <1>1, <2>1 DEF Leads
    <2> QED BY <1>2, <1>4, <1>5, <2>1 DEF ReachInv, Stacked
<1> QED BY <1>7, <1>8, <1>9, <1>10, <1>11, <1>12 DEF ShellInv

\* What the head of the stack is.
LEMMA HeadIs ==
    ASSUME ShellInv, running = "including", stack # <<>>
    PROVE  /\ Tail(stack) \in Seq(EntrySet) /\ Head(stack) \in EntrySet
           /\ Stacked = {Head(stack).item} \cup ItemsOf(Tail(stack))
           /\ Head(stack).item \in Items \cup {Splicing!IncludeEnd}
           /\ Head(stack).item # Splicing!IncludeEnd => IsItem(Head(stack).item)
<1>1. stack \in Seq(EntrySet)
    BY DEF ShellInv, SpliceInv
<1>2. /\ Tail(stack) \in Seq(EntrySet) /\ Head(stack) \in EntrySet
      /\ Stacked = {Head(stack).item} \cup ItemsOf(Tail(stack))
    BY <1>1, ItemsOfTail DEF Stacked
<1>3. Head(stack).item \in Items \cup {Splicing!IncludeEnd}
    BY <1>2 DEF EntrySet
<1> QED BY <1>2, <1>3, ItemIs

\* What every step of a splice leaves alone, and what is left to show of it.
LEMMA SpliceKeeps ==
    ASSUME ShellInv, Splice, outcome' # "done",
           loaded' \subseteq DOMAIN Text, IsFiniteSet(loaded'), loaded \subseteq loaded',
           SpliceInv', ReachInv'
    PROVE  ShellInv'
<1>1. /\ running = "including" /\ running' = "including" /\ outcome = "splicing"
      /\ UNCHANGED <<user, names, defs, snapshot, before, dropped, torn>>
    BY DEF Splice, Splicing!Next, Splicing!EndFile, Splicing!EmitDeclaration,
           Splicing!IncludeNotFound, Splicing!IncludeCycle, Splicing!IncludeAgain,
           Splicing!LoadFile, Splicing!Finish, Splicing!AtInclude, Splicing!AtEntry
<1>2. NamesInv'
    BY <1>1 DEF ShellInv, NamesInv
<1>3. SnapshotInv'
    BY <1>1 DEF ShellInv, SnapshotInv
<1>4. LoadedInv'
    BY <1>1 DEF ShellInv, LoadedInv, IsDeclared, VisibleLoaded, VisibleDefs
<1>5. QueueInv'
    BY DEF QueueInv
<1> QED BY <1>2, <1>3, <1>4, <1>5 DEF ShellInv

\* What the invariant says while a splice goes on.
LEMMA SpliceIs ==
    ASSUME ShellInv, Splice
    PROVE  /\ running = "including" /\ running' = "including" /\ outcome = "splicing"
           /\ UNCHANGED <<user, names, defs, snapshot, before, dropped, torn>>
           /\ stack \in Seq(EntrySet) /\ result \in Seq(EntrySet)
           /\ loaded \subseteq DOMAIN Text /\ IsFiniteSet(loaded) /\ before \subseteq loaded
           /\ \A file \in loaded \ before :
                 /\ Text[file] # Unreadable
                 /\ \A i \in 1..Len(Text[file]) : IsItem(Text[file][i]) /\ IsPlaced(Text[file][i])
           /\ \A item \in Stacked \cup Spliced :
                 item.kind \in DeclarationKinds =>
                     \E file \in loaded \ before : item \in DeclarationsIn(file)
           /\ \A item \in Spliced : item.kind \in DeclarationKinds
<1>1. /\ running = "including" /\ running' = "including" /\ outcome = "splicing"
      /\ UNCHANGED <<user, names, defs, snapshot, before, dropped, torn>>
    BY DEF Splice, Splicing!Next, Splicing!EndFile, Splicing!EmitDeclaration,
           Splicing!IncludeNotFound, Splicing!IncludeCycle, Splicing!IncludeAgain,
           Splicing!LoadFile, Splicing!Finish, Splicing!AtInclude, Splicing!AtEntry
<1>2. loaded \subseteq DOMAIN Text
    BY DEF ShellInv, LoadedInv
<1> QED BY <1>1, <1>2, FilesHoldItems DEF ShellInv, SpliceInv, SnapshotInv, LoadedInv

LEMMA EndFileKeeps == ShellInv /\ Splice /\ Splicing!EndFile => ShellInv'
<1> SUFFICES ASSUME ShellInv, Splice, Splicing!EndFile PROVE ShellInv'
    OBVIOUS
<1>1. /\ stack # <<>> /\ Head(stack).item = Splicing!IncludeEnd /\ stack' = Tail(stack)
      /\ UNCHANGED <<loaded, result, outcome>>
    BY DEF Splicing!EndFile, Splicing!AtEntry, Splicing!Item, Splicing!Pop
<1>2. /\ stack' \in Seq(EntrySet) /\ Stacked = {Splicing!IncludeEnd} \cup Stacked'
      /\ Spliced' = Spliced
    BY <1>1, SpliceIs, HeadIs DEF Stacked, Spliced
<1>3. \A item : IsItem(item) /\ IsPlaced(item) => IsPlaced(item)'
    <2>1. \A item : IsItem(item) => item # Splicing!IncludeEnd
        BY DEF IsItem, DeclarationKinds, Splicing!IncludeEnd
    <2> QED BY <1>1, <1>2, <2>1 DEF IsPlaced
<1>4. SpliceInv'
    BY <1>1, <1>2, <1>3, SpliceIs DEF SpliceInv
<1>5. ReachInv'
    BY <1>1, <1>2, SpliceIs DEF ShellInv, ReachInv
<1>6. outcome' # "done"
    BY <1>1, SpliceIs
<1> QED BY <1>1, <1>4, <1>5, <1>6, SpliceIs, SpliceKeeps

LEMMA EmitDeclarationKeeps == ShellInv /\ Splice /\ Splicing!EmitDeclaration => ShellInv'
<1> SUFFICES ASSUME ShellInv, Splice, Splicing!EmitDeclaration PROVE ShellInv'
    OBVIOUS
<1> DEFINE d == Head(stack).item
<1>1. /\ stack # <<>> /\ d # Splicing!IncludeEnd /\ d.kind # "include"
      /\ stack' = Tail(stack) /\ result' = Append(result, Head(stack))
      /\ UNCHANGED <<loaded, outcome>>
    BY DEF Splicing!EmitDeclaration, Splicing!AtEntry, Splicing!Item, Splicing!Pop
<1>2. d.kind \in DeclarationKinds /\ Head(stack) \in EntrySet
    BY <1>1, SpliceIs, HeadIs DEF IsItem
<1>3. stack' \in Seq(EntrySet) /\ Stacked = {d} \cup Stacked'
    BY <1>1, SpliceIs, HeadIs DEF Stacked
<1>4. result' \in Seq(EntrySet) /\ Spliced' = Spliced \cup {d}
    BY <1>1, <1>2, SpliceIs, ItemsOfAppend DEF Spliced
<1> HIDE DEF d
<1>5. \A item : IsPlaced(item) => IsPlaced(item)'
    <2>1. ASSUME NEW item, IsPlaced(item) PROVE IsPlaced(item)'
        <3>1. CASE item \in Stacked /\ item # d
            BY <1>3, <3>1 DEF IsPlaced
        <3>2. CASE item = d
            BY <1>1, <1>4, <3>2 DEF IsPlaced, d
        <3>3. CASE item \notin Stacked
            BY <1>1, <1>4, <2>1, <3>3 DEF IsPlaced
        <3> QED BY <3>1, <3>2, <3>3
    <2> QED BY <2>1
<1>6. SpliceInv'
    BY <1>1, <1>2, <1>3, <1>4, <1>5, SpliceIs DEF SpliceInv
<1>7. ReachInv'
    BY <1>1, <1>3, SpliceIs DEF ShellInv, ReachInv
<1>8. outcome' # "done"
    BY <1>1, SpliceIs
<1> QED BY <1>1, <1>6, <1>7, <1>8, SpliceIs, SpliceKeeps

\* An include that ends the splice, or that its file has been read for.
LEMMA IncludeKeeps ==
    ASSUME ShellInv, Splice, Splicing!AtInclude, stack' = Tail(stack),
           UNCHANGED <<loaded, result>>,
           \/ outcome' = outcome /\ Splicing!Named \in loaded
           \/ outcome' \notin {"splicing", "done"}
    PROVE  ShellInv'
<1> DEFINE item == Head(stack).item
<1>1. stack # <<>> /\ item.kind = "include"
    BY DEF Splicing!AtInclude, Splicing!AtEntry, Splicing!Item
<1>2. stack' \in Seq(EntrySet) /\ Stacked = {item} \cup Stacked' /\ Spliced' = Spliced
    BY <1>1, SpliceIs, HeadIs DEF Stacked, Spliced
<1>3. SpliceInv'
    <2>1. CASE outcome' \notin {"splicing", "done"}
        BY <1>2, <2>1, SpliceIs DEF SpliceInv
    <2>2. CASE outcome' = outcome /\ Splicing!Named \in loaded
        <3>1. Resolve[item.spelling] \in loaded
            BY <2>2 DEF Splicing!Named, Splicing!Item
        <3> HIDE DEF item
        <3>2. \A i : IsPlaced(i) => IsPlaced(i)'
            BY <1>1, <1>2, <3>1 DEF IsPlaced
        <3> QED BY <1>2, <2>2, <3>2, SpliceIs DEF SpliceInv
    <2> QED BY <2>1, <2>2
<1>4. ReachInv'
    BY <1>2, SpliceIs DEF ShellInv, ReachInv
<1>5. outcome' # "done"
    BY SpliceIs
<1> QED BY <1>3, <1>4, <1>5, SpliceIs, SpliceKeeps

LEMMA LoadFileKeeps == ShellInv /\ Splice /\ Splicing!LoadFile => ShellInv'
<1> SUFFICES ASSUME ShellInv, Splice, Splicing!LoadFile PROVE ShellInv'
    OBVIOUS
<1> DEFINE item == Head(stack).item
           file == Resolve[item.spelling]
<1>1. /\ stack # <<>> /\ item.kind = "include"
      /\ file \notin loaded /\ file # NotFound
      /\ loaded' = loaded \cup {file} /\ result' = result
      /\ IF Text[file] = Unreadable
         THEN outcome' = "bad_file" /\ stack' = Tail(stack)
         ELSE /\ stack' = Splicing!Entries(Text[file], item.spelling)
                            \o <<Splicing!Entry(Splicing!IncludeEnd, NoOrigin)>> \o Tail(stack)
              /\ outcome' = outcome
    BY DEF Splicing!LoadFile, Splicing!AtInclude, Splicing!AtEntry, Splicing!Named,
           Splicing!Item, Splicing!Pop
<1>2. /\ Tail(stack) \in Seq(EntrySet)
      /\ Stacked = {item} \cup ItemsOf(Tail(stack)) /\ Spliced' = Spliced
      /\ item.spelling \in Spellings
    <2>1. item # Splicing!IncludeEnd
        <3>1. item.kind = "include"
            BY <1>1
        <3> HIDE DEF item
        <3> QED BY <3>1 DEF Splicing!IncludeEnd
    <2>2. running = "including"
        BY SpliceIs
    <2>3. /\ Tail(stack) \in Seq(EntrySet)
          /\ Stacked = {item} \cup ItemsOf(Tail(stack)) /\ IsItem(item)
        BY <1>1, <2>1, <2>2, HeadIs
    <2>4. item.spelling \in Spellings
        BY <1>1, <2>3 DEF IsItem
    <2>5. Spliced' = Spliced
        BY <1>1 DEF Spliced
    <2> QED BY <2>3, <2>4, <2>5
<1>3. file \in DOMAIN Text
    BY <1>1, <1>2, FilesHoldItems
<1> HIDE DEF item, file
<1>4. loaded' \subseteq DOMAIN Text /\ IsFiniteSet(loaded') /\ loaded \subseteq loaded'
    BY <1>1, <1>3, SpliceIs, FS_AddElement
<1>5. \A files \in SUBSET DOMAIN Text :
          Leads(user, files) => file \in files /\ loaded' \ before' \subseteq files
    <2>1. ASSUME NEW files \in SUBSET DOMAIN Text, Leads(user, files)
          PROVE  file \in files /\ loaded \ before \subseteq files
        BY <1>1, <1>2, <2>1, SpliceIs DEF ShellInv, ReachInv, file
    <2> QED BY <1>1, <2>1, SpliceIs
<1>6. CASE Text[file] = Unreadable
    <2>1. outcome' \notin {"splicing", "done"} /\ stack' \in Seq(EntrySet) /\ Stacked' \subseteq Stacked
        BY <1>1, <1>2, <1>6 DEF Stacked
    <2>2. SpliceInv'
        BY <1>1, <2>1, SpliceIs DEF SpliceInv
    <2>3. ReachInv'
        BY <1>5, <2>1, SpliceIs DEF ShellInv, ReachInv
    <2>4. outcome' # "done"
        BY <2>1
    <2> QED BY <1>4, <2>2, <2>3, <2>4, SpliceKeeps
<1>7. CASE Text[file] # Unreadable
    <2> DEFINE texts == {Text[file][i] : i \in 1..Len(Text[file])}
               mark == Splicing!Entry(Splicing!IncludeEnd, NoOrigin)
    <2>1. /\ stack' \in Seq(EntrySet)
          /\ Stacked' = texts \cup {Splicing!IncludeEnd} \cup ItemsOf(Tail(stack))
        <3> DEFINE es == Splicing!Entries(Text[file], item.spelling)
        <3>1. es \in Seq(EntrySet) /\ ItemsOf(es) = texts
            BY <1>2, <1>3, <1>7, EntriesAre
        <3>2. <<mark>> \in Seq(EntrySet) /\ ItemsOf(<<mark>>) = {Splicing!IncludeEnd}
            <4>1. mark \in EntrySet /\ mark.item = Splicing!IncludeEnd
                BY DEF EntrySet, Splicing!Entry
            <4> HIDE DEF mark
            <4>2. <<mark>> \in Seq(EntrySet) /\ Len(<<mark>>) = 1 /\ <<mark>>[1] = mark
                BY <4>1
            <4> QED BY <4>1, <4>2 DEF ItemsOf
        <3>3. stack' = es \o <<mark>> \o Tail(stack)
            BY <1>1, <1>7
        <3> HIDE DEF es, mark, texts
        <3>4. es \o <<mark>> \in Seq(EntrySet) /\ ItemsOf(es \o <<mark>>) = texts \cup {Splicing!IncludeEnd}
            BY <3>1, <3>2, ItemsOfConcat
        <3>5. /\ es \o <<mark>> \o Tail(stack) \in Seq(EntrySet)
              /\ ItemsOf(es \o <<mark>> \o Tail(stack))
                   = ItemsOf(es \o <<mark>>) \cup ItemsOf(Tail(stack))
            BY <1>2, <3>4, ItemsOfConcat
        <3> QED BY <3>3, <3>4, <3>5 DEF Stacked
    <2>2. outcome' = "splicing"
        BY <1>1, <1>7, SpliceIs
    <2>3. loaded' \ before' = (loaded \ before) \cup {file}
        BY <1>1, SpliceIs
    <2>4. \A i : IsPlaced(i) => IsPlaced(i)'
        BY <1>1, <1>2, <2>1 DEF IsPlaced, file
    <2>5. \A i \in texts : IsPlaced(i)'
        BY <2>1 DEF IsPlaced
    <2>6. ASSUME NEW i \in Stacked' \cup Spliced', i.kind \in DeclarationKinds
          PROVE  \E f \in loaded' \ before' : i \in DeclarationsIn(f)
        <3>1. CASE i \in texts
            <4>1. i.kind # "include"
                BY <2>6 DEF DeclarationKinds
            <4> QED BY <2>3, <3>1, <4>1 DEF DeclarationsIn
        <3>2. CASE i \in Stacked \cup Spliced
            BY <2>3, <2>6, <3>2, SpliceIs
        <3>3. i # Splicing!IncludeEnd
            BY <2>6 DEF DeclarationKinds, Splicing!IncludeEnd
        <3> QED BY <1>2, <2>1, <3>1, <3>2, <3>3
    <2>7. SpliceInv'
        <3>1. \A f \in loaded' \ before' :
                 Text[f] # Unreadable /\ \A i \in 1..Len(Text[f]) : IsPlaced(Text[f][i])'
            BY <1>7, <2>3, <2>4, <2>5, SpliceIs
        <3> QED BY <1>1, <1>2, <2>1, <2>2, <2>6, <3>1, SpliceIs DEF SpliceInv
    <2>8. ReachInv'
        <3>1. ASSUME NEW files \in SUBSET DOMAIN Text, Leads(user, files),
                     NEW i \in Stacked', i.kind = "include"
              PROVE  Resolve[i.spelling] \in files \cup {NotFound}
            <4>1. CASE i \in texts
                BY <1>5, <1>7, <3>1, <4>1 DEF Leads
            <4>2. CASE i \in Stacked
                BY <3>1, <4>2, SpliceIs DEF ShellInv, ReachInv
            <4>3. i # Splicing!IncludeEnd
                BY <3>1 DEF Splicing!IncludeEnd
            <4> QED BY <1>2, <2>1, <4>1, <4>2, <4>3
        <3> QED BY <1>5, <3>1, SpliceIs DEF ReachInv
    <2>9. outcome' # "done"
        BY <2>2
    <2> QED BY <1>4, <2>7, <2>8, <2>9, SpliceKeeps
<1> QED BY <1>6, <1>7

\* The declarations of a finished splice are queued: none is added yet.
LEMMA FinishKeeps == ShellInv /\ Splice /\ Splicing!Finish => ShellInv'
<1> SUFFICES ASSUME ShellInv, Splice, Splicing!Finish PROVE ShellInv'
    OBVIOUS
<1>1. /\ stack = <<>> /\ outcome' = "done" /\ queue' = result
      /\ UNCHANGED <<stack, loaded, result>>
    BY DEF Splicing!Finish, Splice
<1>2. NamesInv'
    BY SpliceIs DEF ShellInv, NamesInv
<1>3. SnapshotInv'
    BY <1>1, SpliceIs DEF ShellInv, SnapshotInv
<1>4. SpliceInv'
    <2>1. Stacked' = Stacked /\ Spliced' = Spliced /\ \A i : IsPlaced(i) => IsPlaced(i)'
        BY <1>1 DEF Stacked, Spliced, IsPlaced
    <2> QED BY <1>1, <2>1, SpliceIs DEF SpliceInv
<1>5. QueueInv'
    <2>1. defs = snapshot.defs
        BY SpliceIs DEF ShellInv, SnapshotInv
    <2>2. Len(result) \in Nat /\ SubSeq(result, 1, Len(result)) = result
        BY SpliceIs, LenProperties, SubSeqFull
    <2>3. 0 \in 0..Len(result')
        BY <1>1, <2>2
    <2>4. queue' = SubSeq(result', 0 + 1, Len(result'))
        BY <1>1, <2>2
    <2>5. Bodies(defs', Spaces) = Bodies(snapshot.defs', Spaces) \cup {result'[k].item : k \in 1..0}
        BY <2>1, SpliceIs
    <2>6. IsAdded(0)'
        BY <2>4, <2>5 DEF IsAdded
    <2> QED BY <2>3, <2>6 DEF QueueInv
<1>6. LoadedInv'
    BY <1>1, SpliceIs DEF ShellInv, LoadedInv, IsDeclared, VisibleLoaded, VisibleDefs
<1>7. ReachInv'
    <2>1. Stacked' = Stacked
        BY <1>1 DEF Stacked
    <2> QED BY <1>1, <2>1, SpliceIs DEF ShellInv, ReachInv
<1> QED BY <1>2, <1>3, <1>4, <1>5, <1>6, <1>7 DEF ShellInv

LEMMA SpliceStepKeeps == ShellInv /\ Splice => ShellInv'
<1> SUFFICES ASSUME ShellInv, Splice PROVE ShellInv'
    OBVIOUS
<1>1. CASE Splicing!EndFile
    BY <1>1, EndFileKeeps
<1>2. CASE Splicing!EmitDeclaration
    BY <1>2, EmitDeclarationKeeps
<1>3. CASE Splicing!IncludeNotFound
    <2>1. /\ Splicing!AtInclude /\ stack' = Tail(stack) /\ outcome' = "not_found"
          /\ UNCHANGED <<loaded, result>>
        BY <1>3 DEF Splicing!IncludeNotFound, Splicing!Pop
    <2> QED BY <2>1, IncludeKeeps
<1>4. CASE Splicing!IncludeCycle
    <2>1. /\ Splicing!AtInclude /\ stack' = Tail(stack) /\ outcome' = "cycle"
          /\ UNCHANGED <<loaded, result>>
        BY <1>4 DEF Splicing!IncludeCycle, Splicing!Pop
    <2> QED BY <2>1, IncludeKeeps
<1>5. CASE Splicing!IncludeAgain
    <2>1. /\ Splicing!AtInclude /\ stack' = Tail(stack) /\ outcome' = outcome
          /\ Splicing!Named \in loaded
          /\ UNCHANGED <<loaded, result>>
        BY <1>5 DEF Splicing!IncludeAgain, Splicing!Pop
    <2> QED BY <2>1, IncludeKeeps
<1>6. CASE Splicing!LoadFile
    BY <1>6, LoadFileKeeps
<1>7. CASE Splicing!Finish
    BY <1>7, FinishKeeps
<1> QED BY <1>1, <1>2, <1>3, <1>4, <1>5, <1>6, <1>7 DEF Splice, Splicing!Next

-----------------------------------------------------------------------------
(* An include line: its declarations. *)

\* What the handler of a CompileError leaves.
LEMMA RestoreKeeps ==
    ASSUME ShellInv, running = "including", running' # "including", Restore,
           UNCHANGED <<user, names, dropped>>, torn => torn'
    PROVE  ShellInv'
<1>1. /\ defs' = snapshot.defs /\ loaded' = snapshot.loaded
      /\ snapshot.loaded = before /\ before \subseteq loaded /\ IsClear(names, snapshot.defs)
    BY DEF Restore, ShellInv, SnapshotInv
<1>2. NamesInv'
    BY <1>1 DEF ShellInv, NamesInv
<1>3. IsFiniteSet(loaded')
    BY <1>1, FS_Subset DEF ShellInv, LoadedInv
<1>4. LoadedInv'
    BY <1>1, <1>3 DEF ShellInv, LoadedInv, IsDeclared, VisibleLoaded, VisibleDefs
<1> QED BY <1>2, <1>4, OutsideIncludes

\* What a line that is cut short leaves: as it was, or torn.
LEMMA CutShortKeeps ==
    ASSUME ShellInv, running = "including", running' # "including",
           UNCHANGED <<user, names, defs, loaded, dropped>>,
           torn' = (torn \/ HalfApplied)
    PROVE  ShellInv'
<1>1. NamesInv'
    BY DEF ShellInv, NamesInv
<1>2. ASSUME ~torn' PROVE IsDeclared(VisibleLoaded, VisibleDefs)'
    <2>1. ~torn /\ [defs |-> defs, loaded |-> loaded] = snapshot
        BY <1>2 DEF HalfApplied
    <2>2. defs = snapshot.defs /\ loaded = snapshot.loaded
        BY <2>1
    <2> QED BY <2>1, <2>2 DEF ShellInv, LoadedInv, IsDeclared, VisibleLoaded, VisibleDefs
<1>3. LoadedInv'
    BY <1>2 DEF ShellInv, LoadedInv
<1> QED BY <1>1, <1>3, OutsideIncludes

LEMMA SpliceFailedKeeps == ShellInv /\ SpliceFailed => ShellInv'
BY RestoreKeeps DEF SpliceFailed, Return

\* The next declaration of the queue.
LEMMA QueueIs ==
    ASSUME ShellInv, running = "including", outcome = "done", queue # <<>>
    PROVE  \E m \in 0..Len(result) :
              /\ IsAdded(m) /\ m + 1 \in 1..Len(result) /\ m \in Nat /\ Len(result) \in Nat
              /\ Head(queue) = result[m + 1]
              /\ Tail(queue) = SubSeq(result, m + 2, Len(result))
              /\ Head(queue).item \in Spliced
              /\ Head(queue).item.kind \in DeclarationKinds
              /\ \E file \in loaded \ before : Head(queue).item \in DeclarationsIn(file)
<1>1. result \in Seq(EntrySet)
    BY DEF ShellInv, SpliceInv
<1>2. Len(result) \in Nat
    BY <1>1, LenProperties
<1>3. PICK m \in 0..Len(result) : IsAdded(m)
    BY DEF ShellInv, QueueInv
<1>4. m \in Nat /\ queue = SubSeq(result, m + 1, Len(result))
    BY <1>2, <1>3 DEF IsAdded
<1>5. m + 1 \in 1..Len(result)
    <2>1. ASSUME m = Len(result) PROVE FALSE
        BY <1>1, <1>2, <1>4, <2>1, SubSeqEmpty
    <2> QED BY <1>2, <1>3, <1>4, <2>1
<1>6. Head(queue) = result[m + 1] /\ Tail(queue) = SubSeq(result, m + 2, Len(result))
    BY <1>1, <1>2, <1>4, <1>5, HeadTailOfSubSeq
<1>7. Head(queue).item \in Spliced
    BY <1>5, <1>6 DEF Spliced, ItemsOf
<1> QED BY <1>2, <1>3, <1>4, <1>5, <1>6, <1>7 DEF ShellInv, SpliceInv

\* One more declaration is in.
LEMMA AddOneKeeps ==
    ASSUME ShellInv, AddNext, AddError(defs, Head(queue).item, DOMAIN names) = "none"
    PROVE  ShellInv'
<1> DEFINE d == Head(queue).item
<1>1. /\ running = "including" /\ outcome = "done" /\ queue # <<>>
      /\ defs' = Added(defs, d) /\ queue' = Tail(queue)
      /\ UNCHANGED <<user, names, loaded, running, snapshot, before, stack, result, outcome, dropped, torn>>
    BY DEF AddNext, splice
<1>2. PICK m \in 0..Len(result) :
        /\ IsAdded(m) /\ m + 1 \in 1..Len(result) /\ m \in Nat /\ Len(result) \in Nat
        /\ Head(queue) = result[m + 1]
        /\ Tail(queue) = SubSeq(result, m + 2, Len(result))
        /\ d.kind \in DeclarationKinds
    BY <1>1, QueueIs
<1>3. Claims(defs, d, DOMAIN names) /\ IsClear(names, defs)
    BY DEF AddError, ShellInv, NamesInv
<1> HIDE DEF d
<1>4. /\ IsClear(names, defs') /\ d.name \notin Defined(defs)
      /\ Bodies(defs', Spaces) = Bodies(defs, Spaces) \cup {d}
    BY <1>1, <1>2, <1>3, AddedIs
<1>5. NamesInv'
    BY <1>1, <1>4 DEF ShellInv, NamesInv
<1>6. SnapshotInv'
    BY <1>1, <1>4 DEF ShellInv, SnapshotInv
<1>7. SpliceInv'
    <2>1. Stacked' = Stacked /\ Spliced' = Spliced /\ \A i : IsPlaced(i) => IsPlaced(i)'
        BY <1>1 DEF Stacked, Spliced, IsPlaced
    <2> QED BY <1>1, <2>1 DEF ShellInv, SpliceInv
<1>8. IsAdded(m + 1)'
    <2>1. queue' = SubSeq(result', (m + 1) + 1, Len(result'))
        BY <1>1, <1>2
    <2>2. result[m + 1].item = d
        BY <1>2 DEF d
    <2>3. Bodies(defs', Spaces) = Bodies(snapshot.defs', Spaces) \cup {result'[k].item : k \in 1..m + 1}
        <3>1. {result[k].item : k \in 1..m + 1} = {result[k].item : k \in 1..m} \cup {d}
            <4>1. \A k \in 1..m + 1 : k = m + 1 \/ k \in 1..m
                BY <1>2
            <4>2. 1..m \subseteq 1..m + 1 /\ m + 1 \in 1..m + 1
                BY <1>2
            <4> QED BY <2>2, <4>1, <4>2
        <3>2. Bodies(defs, Spaces) = Bodies(snapshot.defs, Spaces) \cup {result[k].item : k \in 1..m}
            BY <1>2 DEF IsAdded
        <3>3. Bodies(defs', Spaces) = Bodies(snapshot.defs, Spaces) \cup {result[k].item : k \in 1..m + 1}
            <4> DEFINE old == {result[k].item : k \in 1..m}
                       new == {result[k].item : k \in 1..m + 1}
            <4>1. new = old \cup {d} /\ Bodies(defs, Spaces) = Bodies(snapshot.defs, Spaces) \cup old
                BY <3>1, <3>2
            <4> HIDE DEF old, new, d
            <4>2. Bodies(defs', Spaces) = Bodies(snapshot.defs, Spaces) \cup new
                BY <1>4, <4>1
            <4> QED BY <4>2 DEF new
        <3>4. result' = result /\ snapshot' = snapshot
            BY <1>1
        <3> QED BY <3>3, <3>4
    <2>4. \A i \in 1..m : result[i].item.name \in Defined(defs)
        <3>1. \A i \in 1..m : result[i].item \in Bodies(defs, Spaces)
            BY <1>2 DEF IsAdded
        <3> QED BY <1>3, <3>1, BodiesAre DEF IsClear
    <2>5. Defined(snapshot.defs) \subseteq Defined(defs)
        BY <1>1, <1>3, BodiesAre DEF ShellInv, SnapshotInv, IsClear
    <2>6. \A i \in 1..m + 1 : i = m + 1 \/ i \in 1..m
        BY <1>2
    <2>7. \A i, j \in 1..m + 1 : result[i].item.name = result[j].item.name => i = j
        BY <1>2, <1>4, <2>2, <2>4, <2>6 DEF IsAdded
    <2>8. \A i \in 1..m + 1 : result[i].item.name \notin Defined(snapshot.defs)
        BY <1>2, <1>4, <2>2, <2>5, <2>6 DEF IsAdded
    <2> QED BY <1>1, <2>1, <2>3, <2>7, <2>8 DEF IsAdded
<1>9. QueueInv'
    BY <1>1, <1>2, <1>8 DEF QueueInv
<1>10. LoadedInv'
    BY <1>1 DEF ShellInv, LoadedInv, IsDeclared, VisibleLoaded, VisibleDefs
<1>11. ReachInv'
    BY <1>1 DEF ShellInv, ReachInv, Stacked
<1> QED BY <1>5, <1>6, <1>7, <1>9, <1>10, <1>11 DEF ShellInv

LEMMA AddNextKeeps == ShellInv /\ AddNext => ShellInv'
<1> SUFFICES ASSUME ShellInv, AddNext PROVE ShellInv'
    OBVIOUS
<1> DEFINE error == AddError(defs, Head(queue).item, DOMAIN names)
<1>1. CASE error = "none"
    BY <1>1, AddOneKeeps
<1>2. CASE error = "CompileError"
    <2>1. /\ running = "including" /\ running' = "prompt" /\ Restore
          /\ UNCHANGED <<user, names, dropped>>
        BY <1>2 DEF AddNext, Return
    <2>2. torn => torn'
        BY DEF AddNext, splice
    <2> QED BY <2>1, <2>2, RestoreKeeps
<1>3. CASE error \notin {"none", "CompileError"}
    <2>1. /\ running = "including" /\ running' = "prompt"
          /\ torn' = (torn \/ HalfApplied)
          /\ UNCHANGED <<user, names, defs, loaded, dropped>>
        BY <1>3 DEF AddNext, Return
    <2> QED BY <2>1, CutShortKeeps
<1> QED BY <1>1, <1>2, <1>3

\* All that a finished include line read is declared.
LEMMA FinishedIs ==
    ASSUME ShellInv, IncludeDone
    PROVE  /\ Bodies(defs, Spaces) = Bodies(snapshot.defs, Spaces) \cup Spliced
           /\ IsAdded(Len(result)) /\ Len(result) \in Nat
           /\ Stacked = {}
<1>1. running = "including" /\ outcome = "done" /\ queue = <<>>
    BY DEF IncludeDone
<1>2. result \in Seq(EntrySet) /\ stack = <<>>
    BY <1>1 DEF ShellInv, SpliceInv
<1>3. Len(result) \in Nat
    BY <1>2, LenProperties
<1>4. PICK m \in 0..Len(result) : IsAdded(m)
    BY <1>1 DEF ShellInv, QueueInv
<1>5. m = Len(result)
    <2>1. ASSUME m < Len(result) PROVE FALSE
        <3>1. m + 1 \in 1..Len(result) /\ m + 1 <= Len(result) /\ m + 1 \in Nat
            BY <1>3, <1>4, <2>1
        <3>2. Len(SubSeq(result, m + 1, Len(result))) = Len(result) - (m + 1) + 1
            BY <1>2, <1>3, <3>1, SubSeqProperties
        <3>3. Len(queue) = 0
            BY <1>1
        <3> QED BY <1>3, <1>4, <3>1, <3>2, <3>3 DEF IsAdded
    <2> QED BY <1>3, <1>4, <2>1
<1>6. Stacked = {}
    <2>1. 1..Len(stack) = {}
        BY <1>2
    <2> QED BY <2>1 DEF Stacked, ItemsOf
<1> QED BY <1>3, <1>4, <1>5, <1>6 DEF IsAdded, Spliced, ItemsOf

LEMMA IncludeDoneKeeps == ShellInv /\ IncludeDone => ShellInv'
<1> SUFFICES ASSUME ShellInv, IncludeDone PROVE ShellInv'
    OBVIOUS
<1>1. /\ running = "including" /\ running' = "prompt" /\ outcome = "done"
      /\ UNCHANGED <<user, names, defs, loaded, dropped, torn>>
    BY DEF IncludeDone, Return, namespace
<1>2. NamesInv'
    BY <1>1 DEF ShellInv, NamesInv
<1>3. ASSUME ~torn PROVE IsDeclared(loaded, defs)
    <2>1. ASSUME NEW file \in loaded, NEW d \in DeclarationsIn(file)
          PROVE  d.name \in dropped \/ d \in Bodies(defs, Spaces)
        <3>1. CASE file \in before
            <4>1. snapshot.loaded = before /\ Bodies(snapshot.defs, Spaces) \subseteq Bodies(defs, Spaces)
                BY <1>1 DEF ShellInv, SnapshotInv
            <4>2. IsDeclared(before, snapshot.defs)
                BY <1>1, <1>3, <4>1 DEF ShellInv, LoadedInv, VisibleLoaded, VisibleDefs
            <4> QED BY <2>1, <3>1, <4>1, <4>2 DEF IsDeclared
        <3>2. CASE file \notin before
            <4>1. IsPlaced(d)
                BY <1>1, <2>1, <3>2 DEF ShellInv, SpliceInv, DeclarationsIn
            <4>2. d.kind # "include"
                BY <2>1 DEF DeclarationsIn
            <4> QED BY <4>1, <4>2, FinishedIs DEF IsPlaced
        <3> QED BY <3>1, <3>2
    <2> QED BY <2>1 DEF IsDeclared
<1>4. LoadedInv'
    BY <1>1, <1>3 DEF ShellInv, LoadedInv, IsDeclared, VisibleLoaded, VisibleDefs
<1> QED BY <1>1, <1>2, <1>4, OutsideIncludes

LEMMA InterruptCommandKeeps == ShellInv /\ InterruptCommand => ShellInv'
<1> SUFFICES ASSUME ShellInv, InterruptCommand PROVE ShellInv'
    OBVIOUS
<1>1. /\ running # "prompt" /\ running' = "prompt"
      /\ torn' = (torn \/ (running = "including" /\ HalfApplied))
      /\ UNCHANGED <<user, names, defs, loaded, dropped>>
    BY DEF InterruptCommand, Return, namespace
<1>2. CASE running = "including"
    <2>1. torn' = (torn \/ HalfApplied)
        BY <1>1, <1>2
    <2> QED BY <1>1, <1>2, <2>1, CutShortKeeps
<1>3. CASE running # "including"
    <2>1. NamesInv'
        BY <1>1 DEF ShellInv, NamesInv
    <2>2. LoadedInv'
        BY <1>1, <1>3 DEF ShellInv, LoadedInv, IsDeclared, VisibleLoaded, VisibleDefs
    <2> QED BY <1>1, <2>1, <2>2, OutsideIncludes
<1> QED BY <1>2, <1>3

-----------------------------------------------------------------------------
(* The invariant. *)

\* The steps that have to do with contexts and debug sessions.
LEMMA OtherStepsKeep ==
    ASSUME ShellInv,
           \/ LoadContext \/ ContextLoaded \/ SelectInput
           \/ OpenSession \/ Step \/ ExecuteTask \/ AfterStepping \/ Abort \/ InterruptTask
    PROVE  /\ ShellInv'
           /\ UNCHANGED <<user, namespace, dropped, torn>>
           /\ running # "including" /\ running' # "including"
<1>1. /\ running # "including" /\ running' # "including"
      /\ UNCHANGED <<user, namespace, dropped, torn>>
    BY DEF LoadContext, ContextLoaded, SelectInput, OpenSession, Step, ExecuteTask,
           AfterStepping, Abort, InterruptTask, Return
<1> QED BY <1>1, SameNamespace

LEMMA ShellInvNext == ShellInv /\ [Next]_vars => ShellInv'
<1> SUFFICES ASSUME ShellInv, [Next]_vars PROVE ShellInv'
    OBVIOUS
<1>1. CASE DeclareLine
    BY <1>1, DeclareLineKeeps
<1>2. CASE Def
    BY <1>2, DefKeeps
<1>3. CASE Undef
    BY <1>3, UndefKeeps
<1>4. CASE IncludeLine
    BY <1>4, IncludeLineKeeps
<1>5. CASE Splice
    BY <1>5, SpliceStepKeeps
<1>6. CASE SpliceFailed
    BY <1>6, SpliceFailedKeeps
<1>7. CASE AddNext
    BY <1>7, AddNextKeeps
<1>8. CASE IncludeDone
    BY <1>8, IncludeDoneKeeps
<1>9. CASE InterruptCommand
    BY <1>9, InterruptCommandKeeps
<1>10. CASE UNCHANGED vars
    <2>1. /\ UNCHANGED <<user, names, defs, loaded, running, snapshot>>
          /\ UNCHANGED <<before, stack, result, outcome, queue, dropped, torn>>
        BY <1>10 DEF vars, namespace, include, splice
    <2>2. NamesInv' /\ SnapshotInv'
        BY <2>1 DEF ShellInv, NamesInv, SnapshotInv
    <2>3. Stacked' = Stacked /\ Spliced' = Spliced /\ \A i : IsPlaced(i) => IsPlaced(i)'
        BY <2>1 DEF Stacked, Spliced, IsPlaced
    <2>4. SpliceInv'
        BY <2>1, <2>3 DEF ShellInv, SpliceInv
    <2>5. QueueInv'
        BY <2>1 DEF ShellInv, QueueInv, IsAdded
    <2>6. LoadedInv' /\ ReachInv'
        BY <2>1, <2>3 DEF ShellInv, LoadedInv, IsDeclared, VisibleLoaded, VisibleDefs, ReachInv
    <2> QED BY <2>2, <2>4, <2>5, <2>6 DEF ShellInv
<1>11. CASE \/ LoadContext \/ ContextLoaded \/ SelectInput
            \/ OpenSession \/ Step \/ ExecuteTask \/ AfterStepping \/ Abort \/ InterruptTask
    BY <1>11, OtherStepsKeep
<1> QED BY <1>1, <1>2, <1>3, <1>4, <1>5, <1>6, <1>7, <1>8, <1>9, <1>10, <1>11
           DEF Next, Command, Continue

\* The invariant holds throughout a session.
THEOREM ShellInvariance == Spec => []ShellInv
BY ShellInvInit, ShellInvNext, PTL DEF Spec

\* One spelling never means two things (OneMeaning), whatever declarations,
\* bindings, include lines that fail half way, removals and interrupts a
\* session holds.
THEOREM OneMeaningHolds == Spec => []OneMeaning
<1>1. ShellInv => OneMeaning
    BY DEF ShellInv, NamesInv, IsClear, IsUnambiguous, OneMeaning
<1> QED BY <1>1, ShellInvariance, PTL

\* At the prompt every declaration of a file that counts as loaded is there
\* or was removed by undef (LoadedIsDeclared), so that a repeated include,
\* which is skipped, leaves nothing out.
THEOREM LoadedIsDeclaredHolds == Spec => []LoadedIsDeclared
<1>1. ShellInv => LoadedIsDeclared
    BY DEF ShellInv, LoadedInv, IsDeclared, VisibleLoaded, VisibleDefs, AtPrompt, LoadedIsDeclared
<1> QED BY <1>1, ShellInvariance, PTL

-----------------------------------------------------------------------------
(* Declarations stay. *)

\* What is taken back with a failed include line had come with it.
LEMMA TakenBackIsNew ==
    ASSUME ShellInv, running = "including", NEW d \in Bodies(defs, Spaces),
           d \notin Bodies(snapshot.defs, Spaces)
    PROVE  d.name \notin Defined(snapshot.defs)
<1>1. ASSUME NEW e \in Bodies(snapshot.defs, Spaces), e.name = d.name PROVE FALSE
    <2>1. e \in Bodies(defs, Spaces) /\ IsNamespace(defs) /\ IsUnambiguous(defs)
        BY <1>1 DEF ShellInv, SnapshotInv, NamesInv, IsClear
    <2>2. e = d
        BY <1>1, <2>1, OneBody
    <2> QED BY <1>1, <2>2
<1> QED BY <1>1, BodiesAre DEF ShellInv, SnapshotInv, IsClear

\* A declaration is never replaced, and goes only by its undef or with the
\* failed include line that had just brought it (DeclarationsStay).
THEOREM DeclarationsStayHolds == Spec => DeclarationsStay
<1> DEFINE Gone(d) == /\ d.name \notin Defined(defs')
                      /\ AtPrompt \/ d \notin Bodies(snapshot.defs, Spaces)
           Lost == Bodies(defs, Spaces) \ Bodies(defs', Spaces)
<1>1. ShellInv /\ [Next]_vars => [\A d \in Lost : Gone(d)]_vars
    <2> SUFFICES ASSUME ShellInv, Next, NEW d \in Lost PROVE Gone(d)
        OBVIOUS
    <2>1. ASSUME defs' = defs PROVE FALSE
        BY <2>1
    <2>2. CASE DeclareLine
        <3>1. PICK l \in user.lines :
                LET error == AddError(defs, l, DOMAIN names)
                IN  defs' = IF error = "none" THEN Added(defs, l) ELSE defs
            BY <2>2 DEF DeclareLine
        <3>2. AddError(defs, l, DOMAIN names) = "none" /\ defs' = Added(defs, l)
            BY <2>1, <3>1
        <3>3. /\ l.kind \in DeclarationKinds /\ IsClear(names, defs)
              /\ Claims(defs, l, DOMAIN names)
            BY <3>2, UsersAreUsers DEF AddError, ShellInv, NamesInv
        <3>4. Bodies(defs', Spaces) = Bodies(defs, Spaces) \cup {l}
            BY <3>2, <3>3, AddedIs
        <3> QED BY <3>4
    <2>3. CASE Undef
        <3>1. PICK name \in DOMAIN names \cup Defined(defs) :
                /\ IsClear(names', defs')
                /\ Bodies(defs', Spaces) = {e \in Bodies(defs, Spaces) : e.name # name}
            BY <2>3, UndefIs
        <3>2. d.name = name
            BY <3>1
        <3>3. d.name \notin Defined(defs')
            BY <3>1, <3>2, BodiesAre DEF IsClear
        <3> QED BY <2>3, <3>3 DEF Undef, AtPrompt
    <2>4. CASE defs' = snapshot.defs /\ running = "including"
        <3>1. d \notin Bodies(snapshot.defs, Spaces)
            BY <2>4
        <3> QED BY <2>4, <3>1, TakenBackIsNew
    <2>5. CASE AddNext /\ AddError(defs, Head(queue).item, DOMAIN names) = "none"
        <3> DEFINE a == Head(queue).item
        <3>1. /\ running = "including" /\ outcome = "done" /\ queue # <<>> /\ defs' = Added(defs, a)
            BY <2>5 DEF AddNext
        <3>2. a.kind \in DeclarationKinds /\ Claims(defs, a, DOMAIN names) /\ IsClear(names, defs)
            BY <2>5, <3>1, QueueIs DEF AddError, ShellInv, NamesInv
        <3> HIDE DEF a
        <3>3. Bodies(defs', Spaces) = Bodies(defs, Spaces) \cup {a}
            BY <3>1, <3>2, AddedIs
        <3> QED BY <3>3
    <2>6. CASE AddNext /\ AddError(defs, Head(queue).item, DOMAIN names) # "none"
        <3>1. running = "including" /\ (defs' = snapshot.defs \/ defs' = defs)
            BY <2>6 DEF AddNext, Restore
        <3> QED BY <2>1, <2>4, <3>1
    <2>7. CASE SpliceFailed
        <3>1. running = "including" /\ defs' = snapshot.defs
            BY <2>7 DEF SpliceFailed, Restore
        <3> QED BY <2>4, <3>1
    <2>8. CASE Def \/ IncludeLine \/ Splice \/ IncludeDone \/ InterruptCommand
        BY <2>1, <2>8 DEF Def, IncludeLine, Splice, IncludeDone, InterruptCommand, namespace
    <2>9. CASE \/ LoadContext \/ ContextLoaded \/ SelectInput
               \/ OpenSession \/ Step \/ ExecuteTask \/ AfterStepping \/ Abort \/ InterruptTask
        BY <2>1, <2>9, OtherStepsKeep DEF namespace
    <2> QED BY <2>2, <2>3, <2>5, <2>6, <2>7, <2>8, <2>9 DEF Next, Command, Continue
<1> QED BY <1>1, ShellInvariance, PTL DEF Spec, DeclarationsStay

-----------------------------------------------------------------------------
(* The namespace implements the atomic one. *)

\* A user whose includes lead to no constant that is nested too deeply.
NestsShallowly(u) ==
    \E files \in SUBSET DOMAIN Text :
        /\ Leads(u, files)
        /\ \A file \in files : \A d \in DeclarationsIn(file) :
              d.kind = "defconstant" => d.fault # "too_deep"

\* What is seen of a session that nobody interrupts.
LEMMA SeenIs ==
    ASSUME ~user.interrupts, user' = user
    PROVE  /\ Seen(names, <<>>) = names /\ Seen(names, <<>>)' = names'
           /\ Seen(Bodies(VisibleDefs, Spaces), {}) = Bodies(VisibleDefs, Spaces)
           /\ Seen(Bodies(VisibleDefs, Spaces), {})' = Bodies(VisibleDefs', Spaces)
           /\ Seen(VisibleLoaded, {}) = VisibleLoaded
           /\ Seen(VisibleLoaded, {})' = VisibleLoaded'
BY DEF Seen

\* Declarations are made at once: names all different and all new.
LEMMA AtomicDeclare ==
    ASSUME ShellInv, ~user.interrupts, user' = user, names' = names,
           NEW ds,
           \A d, e \in ds : d.name = e.name => d = e,
           \A d \in ds : d.name \notin Defined(VisibleDefs) \cup DOMAIN names,
           Bodies(VisibleDefs', Spaces) = Bodies(VisibleDefs, Spaces) \cup ds
    PROVE  Atomic!Declare(ds)
<1>1. IsNamespace(VisibleDefs)
    BY DEF ShellInv, NamesInv, SnapshotInv, IsClear, VisibleDefs
<1>2. Atomic!NamesOf(Bodies(VisibleDefs, Spaces)) = Defined(VisibleDefs)
    BY <1>1, BodiesAre DEF Atomic!NamesOf
<1>3. Atomic!NamesOf(ds) \cap (Defined(VisibleDefs) \cup DOMAIN names) = {}
    BY DEF Atomic!NamesOf
<1>4. Atomic!Claimable(ds)
    <2>1. /\ Seen(names, <<>>) = names
          /\ Seen(Bodies(VisibleDefs, Spaces), {}) = Bodies(VisibleDefs, Spaces)
        BY SeenIs
    <2> QED BY <1>2, <1>3, <2>1 DEF Atomic!Claimable
<1>5. /\ Seen(names, <<>>)' = Seen(names, <<>>)
      /\ Seen(Bodies(VisibleDefs, Spaces), {})' = Seen(Bodies(VisibleDefs, Spaces), {}) \cup ds
    BY SeenIs
<1> QED BY <1>4, <1>5 DEF Atomic!Declare

\* A command at the prompt shows at once.
LEMMA AtPromptIs ==
    ASSUME running # "including", running' # "including"
    PROVE  /\ VisibleDefs = defs /\ VisibleDefs' = defs'
           /\ VisibleLoaded = loaded /\ VisibleLoaded' = loaded'
BY DEF VisibleDefs, VisibleLoaded

AtomicVars == <<Seen(names, <<>>), Seen(Bodies(VisibleDefs, Spaces), {}), Seen(VisibleLoaded, {})>>

\* A step that shows nothing of what it does.
LEMMA StutterIs ==
    ASSUME user' = user, names' = names,
           Bodies(VisibleDefs', Spaces) = Bodies(VisibleDefs, Spaces), VisibleLoaded' = VisibleLoaded
    PROVE  UNCHANGED AtomicVars
BY DEF AtomicVars, Seen

LEMMA DeclareLineIsAtomic ==
    ASSUME ShellInv, ~user.interrupts, DeclareLine
    PROVE  Atomic!DeclareOne \/ UNCHANGED AtomicVars
<1>1. PICK d \in user.lines :
        LET error == AddError(defs, d, DOMAIN names)
        IN  defs' = IF error = "none" THEN Added(defs, d) ELSE defs
    BY DEF DeclareLine
<1>2. /\ running = "prompt" /\ running' = "prompt" /\ d.kind \in DeclarationKinds
      /\ UNCHANGED <<user, names, loaded>> /\ user \in Users
    BY UsersAreUsers DEF DeclareLine, Return, ShellInv, NamesInv
<1>3. CASE defs' = defs
    BY <1>2, <1>3, AtPromptIs, StutterIs
<1>4. CASE AddError(defs, d, DOMAIN names) = "none"
    <2>1. Claims(defs, d, DOMAIN names) /\ defs' = Added(defs, d) /\ IsClear(names, defs)
        BY <1>1, <1>4 DEF AddError, ShellInv, NamesInv
    <2>2. Bodies(defs', Spaces) = Bodies(defs, Spaces) \cup {d}
        BY <1>2, <2>1, AddedIs
    <2>3. d.name \notin Defined(defs) \cup DOMAIN names
        BY <2>1 DEF Claims
    <2>4. Atomic!Declare({d})
        BY <1>2, <2>2, <2>3, AtPromptIs, AtomicDeclare
    <2>5. d \in UNION {u.lines : u \in Users}
        BY <1>2
    <2>6. Seen(VisibleLoaded, {})' = Seen(VisibleLoaded, {})
        BY <1>2, AtPromptIs, SeenIs
    <2> QED BY <2>4, <2>5, <2>6 DEF Atomic!DeclareOne
<1> QED BY <1>1, <1>3, <1>4

LEMMA DefIsAtomic ==
    ASSUME ShellInv, ~user.interrupts, Def
    PROVE  Atomic!Bind \/ UNCHANGED AtomicVars
<1>1. PICK b \in Bindings : names' = IF Bindable(b) THEN Put(names, b) ELSE names
    BY DEF Def
<1>2. /\ running = "prompt" /\ running' = "prompt"
      /\ UNCHANGED <<user, defs, loaded>>
    BY DEF Def, Return
<1>3. CASE ~Bindable(b)
    BY <1>1, <1>2, <1>3, AtPromptIs, StutterIs
<1>4. CASE Bindable(b)
    <2>1. names' = [n \in DOMAIN names \cup {b.name} |-> IF n = b.name THEN b ELSE names[n]]
        <3>1. names' = Put(names, b)
            BY <1>1, <1>4
        <3> QED BY <3>1, Zenon DEF Put
    <2>2. b.name \notin Defined(defs) /\ IsNamespace(defs)
        BY <1>4 DEF Bindable, ShellInv, NamesInv, IsClear
    <2>3. Atomic!NamesOf(Bodies(defs, Spaces)) = Defined(defs)
        BY <2>2, BodiesAre DEF Atomic!NamesOf
    <2>4. /\ Seen(Bodies(VisibleDefs, Spaces), {}) = Bodies(defs, Spaces)
          /\ Seen(Bodies(VisibleDefs, Spaces), {})' = Bodies(defs, Spaces)
          /\ Seen(VisibleLoaded, {})' = Seen(VisibleLoaded, {})
          /\ Seen(names, <<>>) = names /\ Seen(names, <<>>)' = names'
        BY <1>2, AtPromptIs, SeenIs
    <2>5. b.name \notin Atomic!NamesOf(Bodies(defs, Spaces))
        BY <2>2, <2>3
    <2> QED BY <2>1, <2>4, <2>5, Zenon DEF Atomic!Bind
<1> QED BY <1>3, <1>4

LEMMA UndefIsAtomic ==
    ASSUME ShellInv, ~user.interrupts, Undef
    PROVE  Atomic!Remove
<1>1. PICK name \in DOMAIN names \cup Defined(defs) :
        /\ names' = Without(names, name)
        /\ Bodies(defs', Spaces) = {d \in Bodies(defs, Spaces) : d.name # name}
    BY UndefIs
<1>2. running = "prompt" /\ running' = "prompt" /\ UNCHANGED <<user, loaded>> /\ IsNamespace(defs)
    BY DEF Undef, Return, ShellInv, NamesInv, IsClear
<1>3. Atomic!NamesOf(Bodies(defs, Spaces)) = Defined(defs)
    BY <1>2, BodiesAre DEF Atomic!NamesOf
<1>4. /\ Seen(Bodies(VisibleDefs, Spaces), {}) = Bodies(defs, Spaces)
      /\ Seen(Bodies(VisibleDefs, Spaces), {})' = Bodies(defs', Spaces)
      /\ Seen(VisibleLoaded, {})' = Seen(VisibleLoaded, {})
      /\ Seen(names, <<>>) = names /\ Seen(names, <<>>)' = names'
    BY <1>2, AtPromptIs, SeenIs
<1>5. names' = [n \in DOMAIN names \ {name} |-> names[n]]
    BY <1>1 DEF Without
<1> QED BY <1>1, <1>3, <1>4, <1>5 DEF Atomic!Remove

\* The files of a finished include line are taken in whole.
LEMMA IncludeDoneIsAtomic ==
    ASSUME ShellInv, ~user.interrupts, IncludeDone
    PROVE  Atomic!TakeIn
<1> DEFINE files == loaded \ before
<1>1. /\ running = "including" /\ running' = "prompt" /\ outcome = "done"
      /\ UNCHANGED <<user, names, defs, loaded>>
    BY DEF IncludeDone, Return, namespace
<1>2. /\ VisibleDefs = snapshot.defs /\ VisibleDefs' = defs
      /\ VisibleLoaded = before /\ VisibleLoaded' = loaded
      /\ before \subseteq loaded /\ loaded \subseteq DOMAIN Text
    BY <1>1 DEF VisibleDefs, VisibleLoaded, ShellInv, SnapshotInv, LoadedInv
<1>3. /\ \A file \in files :
            Text[file] # Unreadable /\ \A i \in 1..Len(Text[file]) : IsPlaced(Text[file][i])
      /\ \A item \in Spliced :
            /\ item.kind \in DeclarationKinds
            /\ \E file \in files : item \in DeclarationsIn(file)
    BY <1>1 DEF ShellInv, SpliceInv
<1>4. files \in SUBSET {file \in DOMAIN Text \ Seen(VisibleLoaded, {}) : Text[file] # Unreadable}
    BY <1>1, <1>2, <1>3, SeenIs
<1>5. \A file \in files : Atomic!Included(file) \subseteq files \cup Seen(VisibleLoaded, {})
    <2>1. ASSUME NEW file \in files, NEW i \in 1..Len(Text[file]), Text[file][i].kind = "include"
          PROVE  Resolve[Text[file][i].spelling] \in loaded
        BY <1>3, <2>1, FinishedIs DEF IsPlaced
    <2>2. \A file \in files : Atomic!Included(file) \subseteq loaded
        BY <2>1 DEF Atomic!Included, Atomic!Items
    <2>3. loaded \subseteq files \cup Seen(VisibleLoaded, {})
        BY <1>1, <1>2, SeenIs
    <2> QED BY <2>2, <2>3
<1>6. UNION {Atomic!Declarations(file) : file \in files} = Spliced
    <2>1. \A file : Atomic!Declarations(file) = DeclarationsIn(file)
        BY DEF Atomic!Declarations, Atomic!Items, DeclarationsIn
    <2>2. ASSUME NEW file \in files, NEW d \in DeclarationsIn(file) PROVE d \in Spliced
        BY <1>3, <2>2, FinishedIs DEF DeclarationsIn, IsPlaced
    <2> QED BY <1>3, <2>1, <2>2
<1>7. \A d, e \in Spliced : d.name = e.name => d = e
    BY FinishedIs DEF Spliced, ItemsOf, IsAdded
<1>8. \A d \in Spliced : d.name \notin Defined(VisibleDefs) \cup DOMAIN names
    <2>1. \A d \in Spliced : d.name \notin Defined(snapshot.defs)
        BY FinishedIs DEF Spliced, ItemsOf, IsAdded
    <2>2. IsClear(names, defs)
        BY DEF ShellInv, NamesInv
    <2>3. \A d \in Spliced : d.name \in Defined(defs)
        BY <2>2, FinishedIs, BodiesAre DEF IsClear
    <2> QED BY <1>2, <2>1, <2>2, <2>3 DEF IsClear
<1>9. Bodies(VisibleDefs', Spaces) = Bodies(VisibleDefs, Spaces) \cup Spliced
    BY <1>2, FinishedIs
<1>10. Atomic!Declare(Spliced)
    BY <1>1, <1>7, <1>8, <1>9, AtomicDeclare
<1>11. Seen(VisibleLoaded, {})' = Seen(VisibleLoaded, {}) \cup files
    BY <1>1, <1>2, SeenIs
<1> HIDE DEF files
<1> QED BY <1>4, <1>5, <1>6, <1>10, <1>11 DEF Atomic!TakeIn

\* No declaration of a file that such a user reads is nested too deeply.
LEMMA NoneTooDeep ==
    ASSUME ShellInv, running = "including", outcome = "done", queue # <<>>, NestsShallowly(user)
    PROVE  AddError(defs, Head(queue).item, DOMAIN names) \in {"none", "CompileError"}
<1>1. PICK file \in loaded \ before : Head(queue).item \in DeclarationsIn(file)
    BY QueueIs
<1>2. PICK files \in SUBSET DOMAIN Text :
        /\ Leads(user, files)
        /\ \A f \in files : \A d \in DeclarationsIn(f) : d.kind = "defconstant" => d.fault # "too_deep"
    BY DEF NestsShallowly
<1>3. file \in files
    BY <1>1, <1>2 DEF ShellInv, ReachInv
<1> QED BY <1>1, <1>2, <1>3 DEF AddError

\* An include line that is under way shows nothing.
LEMMA IncludingIsHidden ==
    ASSUME ShellInv, ~user.interrupts, NestsShallowly(user),
           IncludeLine \/ Splice \/ SpliceFailed \/ AddNext
    PROVE  UNCHANGED AtomicVars
<1>1. CASE IncludeLine
    <2>1. /\ running = "prompt" /\ running' = "including"
          /\ snapshot' = [defs |-> defs, loaded |-> loaded] /\ UNCHANGED <<user, names>>
        BY <1>1 DEF IncludeLine, namespace
    <2>2. VisibleDefs' = VisibleDefs /\ VisibleLoaded' = VisibleLoaded
        BY <2>1 DEF VisibleDefs, VisibleLoaded
    <2> QED BY <2>1, <2>2, StutterIs
<1>2. CASE Splice
    <2>1. VisibleDefs' = VisibleDefs /\ VisibleLoaded' = VisibleLoaded /\ UNCHANGED <<user, names>>
        BY <1>2, SpliceIs DEF VisibleDefs, VisibleLoaded
    <2> QED BY <2>1, StutterIs
<1>3. ASSUME running = "including", running' = "prompt", Restore, UNCHANGED <<user, names>>
      PROVE  UNCHANGED AtomicVars
    <2>1. VisibleDefs' = VisibleDefs /\ VisibleLoaded' = VisibleLoaded
        BY <1>3 DEF VisibleDefs, VisibleLoaded, Restore
    <2> QED BY <1>3, <2>1, StutterIs
<1>4. CASE SpliceFailed
    BY <1>3, <1>4 DEF SpliceFailed, Return
<1>5. CASE AddNext
    <2>1. running = "including" /\ outcome = "done" /\ queue # <<>> /\ UNCHANGED <<user, names>>
        BY <1>5 DEF AddNext
    <2>2. CASE AddError(defs, Head(queue).item, DOMAIN names) = "none"
        <3>1. running' = running /\ snapshot' = snapshot
            BY <1>5, <2>2 DEF AddNext
        <3>2. VisibleDefs' = VisibleDefs /\ VisibleLoaded' = VisibleLoaded
            BY <2>1, <3>1 DEF VisibleDefs, VisibleLoaded
        <3> QED BY <2>1, <3>2, StutterIs
    <2>3. CASE AddError(defs, Head(queue).item, DOMAIN names) = "CompileError"
        <3>1. running' = "prompt" /\ Restore
            BY <1>5, <2>3 DEF AddNext, Return
        <3> QED BY <1>3, <2>1, <3>1
    <2> QED BY <2>1, <2>2, <2>3, NoneTooDeep
<1> QED BY <1>1, <1>2, <1>4, <1>5

\* Of a session that somebody interrupts nothing is seen.
LEMMA InterruptedIsHidden ==
    ASSUME user.interrupts, user' = user
    PROVE  UNCHANGED AtomicVars
BY DEF AtomicVars, Seen

LEMMA AtomicInit == Init => Atomic!Init
<1> SUFFICES ASSUME Init PROVE Atomic!Init
    OBVIOUS
<1>1. Bodies(VisibleDefs, Spaces) = {} /\ VisibleLoaded = {} /\ names = <<>>
    BY NothingIsClear DEF Init, VisibleDefs, VisibleLoaded
<1> QED BY <1>1 DEF Atomic!Init, Seen

LEMMA AtomicNext ==
    ASSUME \A u \in Users : ~u.interrupts => NestsShallowly(u), ShellInv, [Next]_vars
    PROVE  [Atomic!Next]_AtomicVars
<1>1. user \in Users /\ user' = user
    <2>1. CASE UNCHANGED vars
        BY <2>1 DEF vars, ShellInv, NamesInv
    <2>2. CASE Next
        <3>1. user' = user
            BY <2>2 DEF Next, Command, Continue, DeclareLine, Def, Undef, IncludeLine,
                LoadContext, SelectInput, OpenSession, Step, Abort, Splice, SpliceFailed, AddNext,
                IncludeDone, ContextLoaded, ExecuteTask, AfterStepping, InterruptTask, InterruptCommand
        <3> QED BY <3>1 DEF ShellInv, NamesInv
    <2> QED BY <2>1, <2>2
<1>2. CASE user.interrupts
    BY <1>1, <1>2, InterruptedIsHidden
<1>3. CASE ~user.interrupts
    <2>1. NestsShallowly(user)
        BY <1>1, <1>3
    <2>2. CASE UNCHANGED vars
        <3>1. UNCHANGED <<user, names, defs, loaded, running, snapshot>>
            BY <2>2 DEF vars, namespace, include
        <3>2. VisibleDefs' = VisibleDefs /\ VisibleLoaded' = VisibleLoaded
            BY <3>1 DEF VisibleDefs, VisibleLoaded
        <3> QED BY <3>1, <3>2, StutterIs
    <2>3. CASE DeclareLine
        BY <1>3, <2>3, DeclareLineIsAtomic DEF Atomic!Next
    <2>4. CASE Def
        BY <1>3, <2>4, DefIsAtomic DEF Atomic!Next
    <2>5. CASE Undef
        BY <1>3, <2>5, UndefIsAtomic DEF Atomic!Next
    <2>6. CASE IncludeDone
        BY <1>3, <2>6, IncludeDoneIsAtomic DEF Atomic!Next
    <2>7. CASE IncludeLine \/ Splice \/ SpliceFailed \/ AddNext
        BY <1>3, <2>1, <2>7, IncludingIsHidden
    <2>8. CASE \/ LoadContext \/ ContextLoaded \/ SelectInput
               \/ OpenSession \/ Step \/ ExecuteTask \/ AfterStepping \/ Abort
        <3>1. running # "including" /\ running' # "including" /\ UNCHANGED namespace
            BY <2>8, OtherStepsKeep
        <3> QED BY <1>1, <3>1, AtPromptIs, StutterIs DEF namespace
    <2>9. ~InterruptTask /\ ~InterruptCommand
        BY <1>3 DEF InterruptTask, InterruptCommand
    <2> QED BY <2>2, <2>3, <2>4, <2>5, <2>6, <2>7, <2>8, <2>9 DEF Next, Command, Continue
<1> QED BY <1>2, <1>3

\* The namespace implements the one of AtomicNamespace.tla (NamespaceIsAtomic):
\* an include line takes in its files with all that they include or does
\* nothing, and a name is claimed once, in every session whose includes
\* neither an interrupt nor Python's recursion limit cuts short.
THEOREM NamespaceImplementsAtomic ==
    ASSUME \A u \in Users : ~u.interrupts => NestsShallowly(u)
    PROVE  Spec => NamespaceIsAtomic
<1>1. ShellInv /\ [Next]_vars => [Atomic!Next]_AtomicVars
    BY AtomicNext
<1> QED BY <1>1, AtomicInit, ShellInvariance, PTL DEF Spec, NamespaceIsAtomic, Atomic!Spec, AtomicVars
=============================================================================
