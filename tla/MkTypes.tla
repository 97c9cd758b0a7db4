------------------------------ MODULE MkTypes ------------------------------
(***************************************************************************)
(* mktypes.py: from the source files to the file tags, by ctags, and from  *)
(* there to one types_<suffix>.vim for each language.  The files stay,     *)
(* whatever becomes of the process: it may be killed anywhere, and end by  *)
(* an exception wherever it opens or writes a file it is to change.        *)
(***************************************************************************)
EXTENDS MkTypesLanguages, Integers

CONSTANTS Tags,       \* what ctags can find: [word, ext, kind, const]
          Word,       \* of a word: its size, chars, whether it is reserved, its rank when sorted
          Starter,    \* the length of "syntax keyword" and a group
          LineLimit,  \* 512 in the code
          Order       \* of a language: its groups, in the order of a Python dictionary

ASSUME TagsAssumption == \A t \in Tags : t.word \in DOMAIN Word

\* CTagsImport is the one group that ctags_highlighting.vim does not define, and :syn clear
\* stops at a name it does not know: it is the last of its dictionary.
ASSUME OrderAssumption ==
  /\ \A l \in Languages : Order[l] \in Seq(Groups) /\ ToSet(Order[l]) = Values(KindList[l])
  /\ \A l \in Languages : "Import" \in ToSet(Order[l]) => Last(Order[l]) = "Import"

VARIABLES exists,   \* whether there is a file tags
          tags,     \* its lines
          types,    \* the lines of the types files; none if there is no such file
          pc,       \* where the script is
          opt,      \* its options
          failed,   \* the return code of ctags, which nobody reads
          read,     \* tagLines
          li,       \* the language at work
          todo,     \* the keywords that have not been looked at, with their groups
          group,    \* thisType
          cur,      \* the keywords of keycommand
          lines,    \* vimtypes_entries
          matches   \* matchEntries

files  == <<exists, tags, types>>
packing == <<todo, group, cur, lines, matches>>
scriptVars == <<files, pc, opt, failed, read, li, packing>>

Lang == LanguageList[li]
Selected(l) == opt.languages = {} \/ l \in opt.languages

-----------------------------------------------------------------------------
(* What a line of tags means for a language.                               *)

Matching(l, T) == {t \in T : t.ext \in Extensions[l]}

GroupOf(l, t) ==
  IF l = "c" /\ t.kind = "v" /\ t.const THEN "Constant" ELSE KindList[l][t.kind]

\* Mutant: the prototypes are kept.
Entries_Prototypes(l, T) == {<<GroupOf(l, t), t.word>> : t \in Matching(l, T)}

\* ctags_entries; the prototypes of C are left out.
Entries(l, T) ==
  {<<GroupOf(l, t), t.word>> : t \in {t \in Matching(l, T) : ~(l = "c" /\ t.kind = "p")}}

UsedTypes(l) ==
  Values(KindList[l]) \ (IF opt.locals THEN {} ELSE {"LocalVariable"})

\* A line of a types file.
ClearLine(gs) == [type |-> "clear", groups |-> gs, words |-> <<>>]
KeywordLine(g, ws) == [type |-> "keyword", groups |-> {g}, words |-> ws]
MatchLine(g, w) == [type |-> "match", groups |-> {g}, words |-> <<w>>]
ClusterLine(gs) == [type |-> "cluster", groups |-> gs, words |-> <<>>]

NoOptions == [useExisting |-> FALSE, locals |-> FALSE, matches |-> FALSE, languages |-> {}]

\* The variables of CreateTypesFile(), and those of the process, while there is none.
NothingPacked == todo = {} /\ group = "" /\ cur = <<>> /\ lines = <<>> /\ matches = {}
NoProcess == opt = NoOptions /\ failed = FALSE /\ read = {} /\ li = 1 /\ NothingPacked

ForgetPacking == todo' = {} /\ group' = "" /\ cur' = <<>> /\ lines' = <<>> /\ matches' = {}
ForgetProcess == opt' = NoOptions /\ failed' = FALSE /\ read' = {} /\ li' = 1 /\ ForgetPacking

-----------------------------------------------------------------------------
(* main() and CreateTagsFile().                                            *)

\* An existing file is used only if it exists.
Start(options) ==
  /\ pc = "idle"
  /\ opt' = [options EXCEPT !.useExisting = @ /\ exists]
  /\ pc' = IF options.useExisting /\ exists THEN "language" ELSE "ctags"
  /\ UNCHANGED <<files, failed, read, li, packing>>

\* The beginnings of a sorted file of tags.
TornTags(T) == {S \in SUBSET T : \A t \in S, u \in T \ S : Word[t.word].rank <= Word[u.word].rank}

\* ctags finds the tags of the languages asked for, local variables of C files on request.
Found(source) ==
  {t \in source : /\ \E l \in Languages : Selected(l) /\ t.ext \in Own(l)
                  /\ t.kind = "l" /\ t.ext = "c" => opt.locals}

RunCtags(source) ==
  /\ pc = "ctags"
  /\ \/ exists' = TRUE /\ tags' = Found(source) /\ failed' = FALSE
     \/ exists' = TRUE /\ tags' \in TornTags(Found(source)) /\ failed' = TRUE
     \/ UNCHANGED <<exists, tags>> /\ failed' = TRUE
  /\ pc' = "read"
  /\ UNCHANGED <<types, opt, read, li, packing>>

\* Mutant: the file is opened for writing before it is read.
ReadTags_Truncated ==
  /\ pc = "read"
  /\ exists
  /\ read' = {}
  /\ pc' = "truncate"
  /\ UNCHANGED <<files, opt, failed, li, packing>>

ReadTags ==
  /\ pc = "read"
  /\ exists
  /\ read' = tags
  /\ pc' = "truncate"
  /\ UNCHANGED <<files, opt, failed, li, packing>>

NoTagsFile ==
  /\ pc = "read"
  /\ ~exists
  /\ pc' = "raised"
  /\ UNCHANGED <<files, opt, failed, read, li, packing>>

\* The file is opened for the sorted lines ...
TruncateTags ==
  /\ pc = "truncate"
  /\ tags' = {}
  /\ pc' = "rewrite"
  /\ UNCHANGED <<exists, types, opt, failed, read, li, packing>>

\* ... and they are written.
RewriteTags ==
  /\ pc = "rewrite"
  /\ tags' = read
  /\ pc' = "language"
  /\ UNCHANGED <<exists, types, opt, failed, read, li, packing>>

\* Neither call is in a try block.
CannotRewrite ==
  /\ \/ pc = "truncate" /\ tags' = tags
     \/ pc = "rewrite" /\ tags' \in TornTags(read)
  /\ pc' = "raised"
  /\ UNCHANGED <<exists, types, opt, failed, read, li, packing>>

-----------------------------------------------------------------------------
(* CreateTypesFile() for the languages one after the other.                *)

AtLanguage == pc = "language" /\ li <= Len(LanguageList)

\* Mutant: a language is left out.
NextLanguage_Skips ==
  /\ li' = li + 2
  /\ UNCHANGED <<files, pc, opt, failed, read, packing>>

NextLanguage ==
  /\ li' = li + 1
  /\ UNCHANGED <<files, pc, opt, failed, read, packing>>

NotSelected ==
  /\ AtLanguage
  /\ ~Selected(Lang)
  /\ NextLanguage

KindsKnown(l, T) == \A t \in Matching(l, T) : t.kind \in DOMAIN KindList[l]

UnknownKind ==
  /\ AtLanguage
  /\ Selected(Lang)
  /\ ~KindsKnown(Lang, tags)
  /\ pc' = "raised"
  /\ UNCHANGED <<files, opt, failed, read, li, packing>>

\* "No tags found": the types file stays as it is.
NoTagsFound ==
  /\ AtLanguage
  /\ Selected(Lang)
  /\ KindsKnown(Lang, tags)
  /\ Entries(Lang, tags) = {}
  /\ NextLanguage

\* Mutant: only the groups that are written are cleared.
CollectEntries_ClearsFew ==
  /\ AtLanguage
  /\ Selected(Lang)
  /\ KindsKnown(Lang, tags)
  /\ Entries(Lang, tags) # {}
  /\ todo' = {e \in Entries(Lang, tags) : e[1] \in UsedTypes(Lang)}
  /\ lines' = <<ClearLine({e[1] : e \in todo'})>>
  /\ group' = ""
  /\ cur' = <<>>
  /\ matches' = {}
  /\ pc' = "pack"
  /\ UNCHANGED <<files, opt, failed, read, li>>

CollectEntries ==
  /\ AtLanguage
  /\ Selected(Lang)
  /\ KindsKnown(Lang, tags)
  /\ Entries(Lang, tags) # {}
  /\ todo' = {e \in Entries(Lang, tags) : e[1] \in UsedTypes(Lang)}
  /\ lines' = <<ClearLine(UsedTypes(Lang))>>
  /\ group' = ""
  /\ cur' = <<>>
  /\ matches' = {}
  /\ pc' = "pack"
  /\ UNCHANGED <<files, opt, failed, read, li>>

-----------------------------------------------------------------------------
(* The lines of the file: the groups in their order, and the keywords of a *)
(* group in theirs, as many on a line as fit.                              *)

Flushed == IF cur = <<>> THEN lines ELSE Append(lines, KeywordLine(group, cur))

OfGroup(g) == {e \in todo : e[1] = g}

NextGroup ==
  /\ pc = "pack"
  /\ OfGroup(group) = {}
  /\ \E e \in todo : /\ \A f \in todo : Place[e[1]] <= Place[f[1]]
                     /\ group' = e[1]
  /\ lines' = Flushed
  /\ cur' = <<>>
  /\ UNCHANGED <<files, pc, opt, failed, read, li, todo, matches>>

\* Keyword w is the next one of its group.
Take(w) ==
  /\ pc = "pack"
  /\ <<group, w>> \in todo
  /\ \A e \in OfGroup(group) : Word[w].rank <= Word[e[2]].rank
  /\ todo' = todo \ {<<group, w>>}

IsValidKeyword(w) == Word[w].chars \subseteq KeywordChars

\* A word Vim does not take for a keyword is left out or matched as a pattern, if a
\* delimiter is left for it.
AddInvalid(w) ==
  /\ Take(w)
  /\ ~IsValidKeyword(w)
  /\ matches' = IF opt.matches /\ ~(PatternChars \subseteq Word[w].chars)
                THEN matches \cup {<<group, w>>} ELSE matches
  /\ UNCHANGED <<files, pc, opt, failed, read, li, group, cur, lines>>

\* An argument of :syntax keyword cannot be a keyword.
AddReserved(w) ==
  /\ Take(w)
  /\ IsValidKeyword(w)
  /\ Word[w].reserved
  /\ matches' = matches \cup {<<group, w>>}
  /\ UNCHANGED <<files, pc, opt, failed, read, li, group, cur, lines>>

LineLength(ws) == FoldLeft(LAMBDA n, w : n + 1 + Word[w].size, Starter, ws)

\* Mutants: the word that does not fit is lost; the line is measured without it.
AddKeyword_Loses(w) ==
  /\ Take(w)
  /\ IsValidKeyword(w) /\ ~Word[w].reserved
  /\ IF LineLength(Append(cur, w)) >= LineLimit
     THEN lines' = Append(lines, KeywordLine(group, cur)) /\ cur' = <<>>
     ELSE lines' = lines /\ cur' = Append(cur, w)
  /\ UNCHANGED <<files, pc, opt, failed, read, li, group, matches>>

AddKeyword_TooLate(w) ==
  /\ Take(w)
  /\ IsValidKeyword(w) /\ ~Word[w].reserved
  /\ IF LineLength(cur) >= LineLimit
     THEN lines' = Append(lines, KeywordLine(group, cur)) /\ cur' = <<w>>
     ELSE lines' = lines /\ cur' = Append(cur, w)
  /\ UNCHANGED <<files, pc, opt, failed, read, li, group, matches>>

AddKeyword(w) ==
  /\ Take(w)
  /\ IsValidKeyword(w) /\ ~Word[w].reserved
  /\ IF LineLength(Append(cur, w)) >= LineLimit
     THEN lines' = Append(lines, KeywordLine(group, cur)) /\ cur' = <<w>>
     ELSE lines' = lines /\ cur' = Append(cur, w)
  /\ UNCHANGED <<files, pc, opt, failed, read, li, group, matches>>

\* Mutant: the last line is waited for when there is none.
LastLine_Waits ==
  /\ pc = "pack"
  /\ todo = {}
  /\ cur # <<>>
  /\ lines' = Flushed
  /\ cur' = <<>>
  /\ pc' = "match"
  /\ UNCHANGED <<files, opt, failed, read, li, todo, group, matches>>

LastLine ==
  /\ pc = "pack"
  /\ todo = {}
  /\ lines' = Flushed
  /\ cur' = <<>>
  /\ pc' = "match"
  /\ UNCHANGED <<files, opt, failed, read, li, todo, group, matches>>

\* The patterns follow, sorted as lines, which is by the names of their groups; the order
\* within a group is left open.
AddMatch ==
  /\ pc = "match"
  /\ \E m \in matches : /\ \A n \in matches : NameRank[m[1]] <= NameRank[n[1]]
                        /\ matches' = matches \ {m}
                        /\ lines' = Append(lines, MatchLine(m[1], m[2]))
  /\ UNCHANGED <<files, pc, opt, failed, read, li, todo, group, cur>>

\* The groups of C are made known to the bracket highlighter.
EndLines ==
  /\ pc = "match"
  /\ matches = {}
  /\ lines' = IF Lang = "c"
              THEN Append(lines, ClusterLine({e[1] : e \in Entries(Lang, tags)} \cap UsedTypes(Lang)))
              ELSE lines
  /\ pc' = "open"
  /\ UNCHANGED <<files, opt, failed, read, li, todo, group, cur, matches>>

-----------------------------------------------------------------------------
(* The file is opened, which empties it, and written.                      *)

OpenTypes ==
  /\ pc = "open"
  /\ types' = [types EXCEPT ![Lang] = <<>>]
  /\ pc' = "write"
  /\ UNCHANGED <<exists, tags, opt, failed, read, li, packing>>

\* Mutant: the script goes on with the next language.
CannotOpen_GoesOn ==
  /\ pc = "open"
  /\ pc' = "language"
  /\ ForgetPacking
  /\ li' = li + 1
  /\ UNCHANGED <<files, opt, failed, read>>

CannotOpen ==
  /\ pc = "open"
  /\ pc' = "raised"
  /\ ForgetPacking
  /\ UNCHANGED <<files, opt, failed, read, li>>

WriteTypes ==
  /\ pc = "write"
  /\ types' = [types EXCEPT ![Lang] = lines]
  /\ li' = li + 1
  /\ pc' = "language"
  /\ ForgetPacking
  /\ UNCHANGED <<exists, tags, opt, failed, read>>

\* What may be left of a line: of one with words its first word; of one that clears groups
\* those that came first, and of a name that was cut, where it is another group's name, that
\* group (only CTagsTypeComponent begins with one).
FirstWord(line) == [type |-> line.type, groups |-> line.groups, words |-> <<line.words[1]>>]

FirstGroups(l, k) ==
  LET whole == ToSet(SubSeq(Order[l], 1, k))
  IN {whole} \cup IF k < Len(Order[l]) /\ Order[l][k + 1] = "TypeComponent"
                  THEN {whole \cup {"Type"}} ELSE {}

TornLine(line) ==
  IF line.type = "clear"
  THEN {ClearLine(gs \cap line.groups) : gs \in UNION {FirstGroups(Lang, k) : k \in 0..Len(Order[Lang])}}
  ELSE {FirstWord(x) : x \in {x \in {line} : x.words # <<>>}}

\* The beginnings of a file, whose last line may be cut.
Torn(ls) ==
  {SubSeq(ls, 1, n) : n \in 0..Len(ls)} \cup
  UNION {{Append(SubSeq(ls, 1, n - 1), x) : x \in TornLine(ls[n])} : n \in 1..Len(ls)}

CannotWrite ==
  /\ pc = "write"
  /\ \E torn \in Torn(lines) : types' = [types EXCEPT ![Lang] = torn]
  /\ pc' = "raised"
  /\ ForgetPacking
  /\ UNCHANGED <<exists, tags, opt, failed, read, li>>

Done ==
  /\ pc = "language"
  /\ li > Len(LanguageList)
  /\ pc' = "ended"
  /\ UNCHANGED <<files, opt, failed, read, li, packing>>

Running == pc \notin {"idle", "ended", "raised", "killed"}

\* The process is killed, and ctags with it, and leaves what is on the disk by then.
Kill(source) ==
  /\ Running
  /\ \/ pc = "ctags" /\ exists' = TRUE /\ tags' \in TornTags(Found(source)) /\ types' = types
     \/ pc = "rewrite" /\ tags' \in TornTags(read) /\ UNCHANGED <<exists, types>>
     \/ pc = "write" /\ UNCHANGED <<exists, tags>>
        /\ \E torn \in Torn(lines) : types' = [types EXCEPT ![Lang] = torn]
     \/ UNCHANGED files
  /\ pc' = "killed"
  /\ ForgetProcess

Pack ==
  \/ NextGroup
  \/ \E w \in DOMAIN Word : AddInvalid(w) \/ AddReserved(w) \/ AddKeyword(w)
  \/ LastLine \/ AddMatch \/ EndLines

\* The steps of the script itself.
Script(source) ==
  \/ RunCtags(source) \/ ReadTags \/ NoTagsFile
  \/ TruncateTags \/ RewriteTags \/ CannotRewrite
  \/ NotSelected \/ UnknownKind \/ NoTagsFound \/ CollectEntries
  \/ Pack
  \/ OpenTypes \/ CannotOpen \/ WriteTypes \/ CannotWrite \/ Done
=============================================================================
