--------------------- MODULE CtagsHighlightingProperties ---------------------
(***************************************************************************)
(* What the types files and the colours of the buffers promise.            *)
(***************************************************************************)
EXTENDS CtagsHighlighting

Line == [type : {"clear", "keyword", "match", "cluster"}, groups : SUBSET Groups,
         words : Seq(DOMAIN Word)]

\* The types of the variables.
TypeOK ==
  /\ source \subseteq Tags
  /\ tags \subseteq Tags /\ read \subseteq Tags
  /\ types \in [Languages -> Seq(Line)]
  /\ pc \in {"idle", "ctags", "read", "truncate", "rewrite", "language", "pack", "match",
             "open", "write", "ended", "raised", "killed"}
  /\ li \in 1..Len(LanguageList) + 1
  /\ lines \in Seq(Line)
  /\ todo \subseteq Groups \X DOMAIN Word /\ matches \subseteq Groups \X DOMAIN Word
  /\ cur \in Seq(DOMAIN Word) /\ (cur # <<>> => group \in Groups)
  /\ hl \in [Languages -> SUBSET (Groups \X DOMAIN Word)]

-----------------------------------------------------------------------------
(* What a types file says, and what it should say.                         *)

ShownBy(l) == Shown(types[l])

\* A word may be shown as a keyword, or if it may be matched as a pattern.
Showable(w) ==
  \/ IsValidKeyword(w)
  \/ opt.matches /\ \E c \in PatternChars : c \notin Word[w].chars

\* The words of the tags that have a colour in language l.
Wanted(l, T) ==
  {<<GroupOf(l, t), t.word>> :
     t \in {t \in T : /\ t.ext \in Extensions[l]
                      /\ ~(l = "c" /\ t.kind = "p")
                      /\ GroupOf(l, t) = "LocalVariable" => opt.locals
                      /\ Showable(t.word)}}

Generated == ~opt.useExisting

\* When the script has come to its end, the file of every language asked for that has tags
\* holds their words and no others, in the groups of their kinds, and clears all groups it
\* may use first (local variables only if they were asked for): whatever earlier runs that
\* were killed, or failed to write, left on the disk.
FilesAsTagged ==
  pc = "ended" => \A l \in Languages :
    Selected(l) /\ Entries(l, tags) # {} =>
      /\ Shown(types[l]) = Wanted(l, tags)
      /\ types[l] # <<>> /\ types[l][1] = ClearLine(UsedTypes(l))

\* The same for the source files as they are, if the script has had ctags read them and
\* ctags has not failed, and there is a tag left of the language: without one the file is
\* not written, and keeps the words of code that was deleted.
FilesUpToDate ==
  pc = "ended" /\ Generated /\ ~failed => \A l \in Languages :
    Selected(l) /\ Entries(l, Found(source)) # {} => ShownBy(l) = Wanted(l, Found(source))

\* Up to the last one, no word is lost or written twice while the lines are filled.
NothingLost ==
  pc \in {"pack", "match"} =>
    LET current == {<<group, cur[i]>> : i \in DOMAIN cur}
    IN /\ Shown(lines) \cup current \cup matches \cup {e \in todo : Showable(e[2])} = Wanted(Lang, tags)
       /\ \A i, j \in DOMAIN lines : i # j => Items(lines[i]) \cap Items(lines[j]) = {}
       /\ \A i \in DOMAIN lines : Items(lines[i]) \cap (current \cup matches \cup todo) = {}
       /\ IsInjective(cur) /\ current \cap (matches \cup todo) = {}
       /\ matches \cap todo = {}

FileFits(file) ==
  \A i \in DOMAIN file : file[i].type = "keyword" =>
    /\ LineLength(file[i].words) >= LineLimit => Len(file[i].words) <= 1
    /\ file[i].words = <<>> /\ i < Len(file) =>
         LineLength(SubSeq(file[i + 1].words, 1, 1)) >= LineLimit

\* A line is shorter than LineLimit unless a single word makes it longer, and one without
\* a word comes before such a word only: Vim refuses the command without a keyword.
LinesFit == \A l \in Languages : FileFits(types[l])

\* h has at least the priority of g.
Outranks(h, g) ==
  \E a, b \in DOMAIN Priority : Priority[a] = h /\ Priority[b] = g /\ a <= b

\* Of the groups of a keyword Vim shows the one it has read last.  Of those in the list of
\* priorities this is the highest; those that are not in it come after all of them, and win.
\* Of words that become patterns nothing is said (see PatternsByPriority).
PriorityKept ==
  \A l \in Languages :
    \A i, j \in DOMAIN types[l] :
      \A g \in types[l][i].groups, h \in types[l][j].groups :
        /\ types[l][i].type = "keyword" /\ types[l][j].type = "keyword"
        /\ i < j /\ h \in ToSet(Priority)
        => Outranks(h, g)

-----------------------------------------------------------------------------
\* The files of the languages are written in their order: while one is changed those of
\* the languages before it are as the tags say, so that a run that ends early leaves
\* new files, one it was at work on, and old ones.
WrittenInOrder ==
  [][\A l \in Languages : types'[l] # types[l] =>
       \A k \in 1..Len(LanguageList) :
         /\ LanguageList[k] = l => k = li
         /\ k < li /\ Selected(LanguageList[k]) /\ Entries(LanguageList[k], tags) # {} =>
              Shown(types[LanguageList[k]]) = Wanted(LanguageList[k], tags)]_vars

NonLocal(items) == {item \in items : item[1] # "LocalVariable"}

Reads(l) == (Reload /\ l \in Opened) \/ EditFile(l)

\* A buffer that reads a file with a word in it shows the words of that file and of older
\* ones at most local variables, which stay when the file was written without them.  A file
\* without a word, emptied or cut off in the line that clears the groups, may leave it all
\* the words it had; no reading adds others than those of the file.
OldColoursCleared ==
  [][\A l \in Languages : Reads(l) =>
       /\ hl'[l] \subseteq hl[l] \cup ShownBy(l)
       /\ ShownBy(l) # {} => NonLocal(hl'[l]) = NonLocal(ShownBy(l))]_vars

\* Every update comes to an end and gives Vim back to the user.
UpdateEnds == (pc # "idle") ~> (pc = "idle")

-----------------------------------------------------------------------------
\* "Specified highest priority first" and "highest priority should be last!" (mktypes.py:322,
\* 330), of the words that become patterns, of which Vim shows the last as well.
PatternsByPriority ==
  \A l \in Languages :
    \A i, j \in DOMAIN types[l] :
      \A g \in types[l][i].groups, h \in types[l][j].groups :
        /\ types[l][i].type = "match" /\ types[l][j].type = "match"
        /\ types[l][i].words = types[l][j].words
        /\ i < j /\ {g, h} \subseteq ToSet(Priority)
        => Outranks(h, g)
=============================================================================
