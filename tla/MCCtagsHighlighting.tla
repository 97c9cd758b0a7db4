------------------------- MODULE MCCtagsHighlighting -------------------------
EXTENDS CtagsHighlightingProperties

Letters(n, rank) == [size |-> n, chars |-> {"letter"}, reserved |-> FALSE, rank |-> rank]

\* Short words, one Vim reserves, one that can be a pattern only, and one that fills a line.
MCWord ==
  "fold" :> [Letters(4, 1) EXCEPT !.reserved = TRUE]
  @@ "item" :> Letters(4, 2)
  @@ "list" :> Letters(4, 3)
  @@ "much_too_long" :> [Letters(13, 4) EXCEPT !.chars = @ \cup {"_"}]
  @@ "~item" :> [Letters(5, 5) EXCEPT !.chars = @ \cup {"other"}]

Tag(word, ext, kind) == [word |-> word, ext |-> ext, kind |-> kind, const |-> FALSE]

\* Two structures, a constant, a prototype, a local variable and a destructor of C and C++,
\* a function of Python, an event of C#.
MCTags ==
  {Tag("item", "h", "s"), Tag("much_too_long", "h", "s"),
   [Tag("list", "c", "v") EXCEPT !.const = TRUE], Tag("list", "h", "p"),
   Tag("item", "c", "l"), Tag("~item", "cpp", "f"), Tag("fold", "py", "f"),
   Tag("item", "cs", "E")}

\* A reserved word that is a function and a method of Python.
MCReserved == {Tag("fold", "py", "f"), Tag("fold", "py", "m")}

\* The groups as in GetKindList(), those of Python as its dictionary has them.
MCOrder ==
  [l \in Languages |->
     IF l = "py" THEN <<"Function", "Member", "GlobalVariable", "Class", "Import">>
     ELSE SelectSeq(GroupsByName, LAMBDA g : g \in Values(KindList[l]))]

\* To begin with there is no event, destructor or prototype.
MCProjects == {{t \in MCTags : t.ext \notin {"cs", "cpp"} /\ t.kind # "p"}}

Command(only, dont, locals, matching, languages) ==
  [only |-> only, dontGenerate |-> dont, locals |-> locals, matches |-> matching,
   languages |-> languages]

\* :UpdateTypesFileOnly, once with the variable that has it make the tags all the same.
MCCommands == {Command(TRUE, "no", TRUE, TRUE, {}), Command(TRUE, "unset", FALSE, FALSE, {"c", "cs"})}

MCPlainProjects == {MCReserved}
MCPlain == {Command(FALSE, "unset", FALSE, FALSE, {})}
=============================================================================
