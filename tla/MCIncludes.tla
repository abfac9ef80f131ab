----------------------------- MODULE MCIncludes -----------------------------
(***************************************************************************)
(* File systems of three files, each with no include, any one or one of a  *)
(* few pairs; a file has two spellings and one spelling is of nothing.     *)
(* And what an include means, which splicing must agree with.              *)
(***************************************************************************)
EXTENDS Includes, TLC

CONSTANTS f, g, h

MCSpellings == {"f", "g", "h", "alias", "missing"}
MCResolve ==
    [s \in MCSpellings |->
        CASE s = "f" -> f [] s = "g" -> g [] s = "h" -> h [] s = "alias" -> f [] s = "missing" -> NotFound]

Include(spelling) == [kind |-> "include", spelling |-> spelling]
Declares(file, n) == [kind |-> "defconstant", name |-> <<file, n>>]

\* What the text of a file may be.
TextsOf(file) ==
    {Unreadable, <<Declares(file, 1)>>}
      \cup {<<Include(s), Declares(file, 1)>> : s \in MCSpellings}
      \cup {<<Declares(file, 1), Include(s), Declares(file, 2)>> : s \in {"f", "g"}}
      \cup {<<Include(s), Declares(file, 1), Include(t)>> :
               <<s, t>> \in {<<"g", "h">>, <<"h", "g">>, <<"h", "f">>, <<"alias", "f">>}}
MCTexts ==
    {(f :> a) @@ (g :> b) @@ (h :> c) : a \in TextsOf(f), b \in TextsOf(g), c \in TextsOf(h)}

MCSources ==
    {<<Include("f")>>, <<Include("alias"), Declares(NoOrigin, 1), Include("f")>>,
     <<Declares(NoOrigin, 1), Include("g"), Include("h")>>}
MCScopes == {{}, {h}}
-----------------------------------------------------------------------------
(* What an include means: the text it names, read in place.                *)

Read(declarations, files, error) == [declarations |-> declarations, files |-> files, error |-> error]

\* Reading items that stand in the text named origin, while the files of
\* ancestors are open and those of files loaded.
RECURSIVE Reading(_, _, _, _)
Reading(items, origin, ancestors, files) ==
    IF items = <<>> THEN Read(<<>>, files, "done")
    ELSE LET item == Head(items)
             file == Resolve[item.spelling]
             inside == IF text[file] = Unreadable THEN Read(<<>>, files, "bad_file")
                       ELSE Reading(text[file], item.spelling,
                                    ancestors \cup {file}, files \cup {file})
             first == IF item.kind # "include" THEN Read(<<Entry(item, origin)>>, files, "done")
                      ELSE IF file = NotFound THEN Read(<<>>, files, "not_found")
                      ELSE IF file \in ancestors THEN Read(<<>>, files, "cycle")
                      ELSE IF file \in files THEN Read(<<>>, files, "done")
                      ELSE inside
             others == Reading(Tail(items), origin, ancestors, first.files)
         IN  IF first.error # "done" THEN first
             ELSE [others EXCEPT !.declarations = first.declarations \o @]

\* The splice is the text read in place, or the error that reading it meets
\* first.
AgreesWithReading ==
    outcome # "splicing" =>
        LET read == Reading(source, NoOrigin, {}, before)
        IN  /\ outcome = read.error
            /\ outcome = "done" => result = read.declarations /\ loaded = read.files
=============================================================================
