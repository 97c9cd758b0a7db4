----------------------- MODULE CtagsHighlightingProofs -----------------------
(***************************************************************************)
(* Theorems about the types files, for all tags, words and commands, every *)
(* length of a line and any number of updates.                             *)
(***************************************************************************)
EXTENDS CtagsHighlightingProperties, TLAPS, SequenceTheorems

-----------------------------------------------------------------------------
(* The tables.                                                             *)

LEMMA LanguageListOf ==
  /\ Len(LanguageList) = 8
  /\ \A k \in 1..8 : LanguageList[k] \in Languages
  /\ \A i, j \in 1..8 : LanguageList[i] = LanguageList[j] => i = j
  /\ \A l \in Languages : \E k \in 1..8 : LanguageList[k] = l
BY DEF LanguageList, Languages, ToSet

LEMMA ConstantIsOfC == "Constant" \in Values(KindList["c"]) /\ "c" \in Languages
BY DEF KindList, CKinds, Values, LanguageList, Languages, ToSet

LEMMA GroupsOfKinds == \A l \in Languages : Values(KindList[l]) \subseteq Groups
BY DEF Groups

LEMMA GroupIsOfLanguage ==
  ASSUME NEW l \in Languages, NEW T, KindsKnown(l, T), NEW t \in Matching(l, T)
  PROVE  GroupOf(l, t) \in Values(KindList[l])
BY ConstantIsOfC DEF GroupOf, KindsKnown, Values

LEMMA EntriesTyped ==
  ASSUME NEW l \in Languages, NEW T \in SUBSET Tags, KindsKnown(l, T)
  PROVE  Entries(l, T) \subseteq Values(KindList[l]) \X DOMAIN Word
BY GroupIsOfLanguage, TagsAssumption DEF Entries, Matching

LEMMA UsedTypesTyped ==
  ASSUME NEW l \in Languages
  PROVE  UsedTypes(l) \subseteq Groups
BY GroupsOfKinds DEF UsedTypes

(* The keywords to be packed are those wanted. *)
LEMMA EntriesWanted ==
  ASSUME NEW l \in Languages, NEW T, KindsKnown(l, T)
  PROVE  {e \in Entries(l, T) : e[1] \in UsedTypes(l) /\ Showable(e[2])} = Wanted(l, T)
<1>1. \A t \in Matching(l, T) :
        GroupOf(l, t) \in UsedTypes(l) <=> (GroupOf(l, t) = "LocalVariable" => opt.locals)
  BY GroupIsOfLanguage DEF UsedTypes
<1> QED
  BY <1>1 DEF Entries, Wanted, Matching

-----------------------------------------------------------------------------
(* Lines.                                                                  *)

LEMMA ShownAppend ==
  ASSUME NEW f \in Seq(Line), NEW x \in Line
  PROVE  Shown(Append(f, x)) = Shown(f) \cup Items(x)
<1>1. /\ DOMAIN Append(f, x) = DOMAIN f \cup {Len(f) + 1}
      /\ \A i \in DOMAIN f : Append(f, x)[i] = f[i]
      /\ Append(f, x)[Len(f) + 1] = x
  OBVIOUS
<1> QED
  BY <1>1 DEF Shown

LEMMA LinesTyped ==
  /\ \A gs \in SUBSET Groups : ClearLine(gs) \in Line /\ ClusterLine(gs) \in Line
  /\ \A g \in Groups, ws \in Seq(DOMAIN Word) : KeywordLine(g, ws) \in Line
  /\ \A g \in Groups, w \in DOMAIN Word : MatchLine(g, w) \in Line
BY DEF Line, ClearLine, ClusterLine, KeywordLine, MatchLine

LEMMA LineItems ==
  /\ \A gs : Items(ClearLine(gs)) = {} /\ Items(ClusterLine(gs)) = {}
  /\ \A g, ws : Items(KeywordLine(g, ws)) = {<<g, ws[i]>> : i \in DOMAIN ws}
  /\ \A g, w : Items(MatchLine(g, w)) = {<<g, w>>}
BY DEF Items, ClearLine, ClusterLine, KeywordLine, MatchLine

\* What a cut leaves of a line.
CutFrom(x, line) ==
  /\ x.type = line.type
  /\ x.groups \subseteq line.groups
  /\ line.type = "clear" => x.words = <<>>
  /\ line.type # "clear" => /\ x.groups = line.groups
                            /\ line.words # <<>> /\ x.words = <<line.words[1]>>

LEMMA TornLines ==
  ASSUME NEW line \in Line, NEW x \in TornLine(line)
  PROVE  x \in Line /\ CutFrom(x, line)
<1>1. line.groups \subseteq Groups /\ line.words \in Seq(DOMAIN Word)
  BY DEF Line
<1>2. CASE line.type = "clear"
  <2>1. PICK gs : x = ClearLine(gs \cap line.groups)
    BY <1>2 DEF TornLine
  <2>2. x.type = "clear" /\ x.groups = gs \cap line.groups /\ x.words = <<>>
    BY <2>1 DEF ClearLine
  <2>3. x \in Line
    BY <1>1, <2>1, LinesTyped
  <2> QED
    BY <1>2, <2>2, <2>3 DEF CutFrom
<1>3. CASE line.type # "clear"
  <2>1. line.words # <<>> /\ x = FirstWord(line)
    BY <1>3 DEF TornLine
  <2>2. <<line.words[1]>> \in Seq(DOMAIN Word)
    BY <1>1, <2>1
  <2>3. x \in Line
    BY <2>1, <2>2 DEF Line, FirstWord
  <2> QED
    BY <1>3, <2>1, <2>3 DEF CutFrom, FirstWord
<1> QED
  BY <1>2, <1>3

(* The lines of a file that was cut. *)
LEMMA TornFiles ==
  ASSUME NEW f \in Seq(Line), NEW t \in Torn(f)
  PROVE  /\ t \in Seq(Line)
         /\ \E n \in 0..Len(f) :
              /\ DOMAIN t = 1..n /\ Len(t) = n
              /\ \A i \in 1..n : /\ i \in DOMAIN f
                                 /\ t[i] = f[i] \/ (i = n /\ CutFrom(t[i], f[i]))
<1>1. CASE \E n \in 0..Len(f) : t = SubSeq(f, 1, n)
  <2> PICK n \in 0..Len(f) : t = SubSeq(f, 1, n)
    BY <1>1
  <2>1. /\ t \in Seq(Line) /\ DOMAIN t = 1..n /\ Len(t) = n
        /\ \A i \in 1..n : i \in DOMAIN f /\ t[i] = f[i]
    OBVIOUS
  <2> QED
    BY <2>1
<1>2. CASE \E n \in 1..Len(f) : \E x \in TornLine(f[n]) : t = Append(SubSeq(f, 1, n - 1), x)
  <2>1. PICK n \in 1..Len(f) : \E x \in TornLine(f[n]) : t = Append(SubSeq(f, 1, n - 1), x)
    BY <1>2
  <2>2. PICK x \in TornLine(f[n]) : t = Append(SubSeq(f, 1, n - 1), x)
    BY <2>1
  <2>3. f[n] \in Line /\ n \in DOMAIN f /\ n \in 0..Len(f)
    OBVIOUS
  <2>4. x \in Line /\ CutFrom(x, f[n])
    BY <2>3, TornLines
  <2>5. /\ SubSeq(f, 1, n - 1) \in Seq(Line) /\ Len(SubSeq(f, 1, n - 1)) = n - 1
        /\ \A i \in 1..n - 1 : SubSeq(f, 1, n - 1)[i] = f[i] /\ i \in DOMAIN f
    OBVIOUS
  <2>6. /\ t \in Seq(Line) /\ DOMAIN t = 1..n /\ Len(t) = n /\ t[n] = x
        /\ \A i \in 1..n - 1 : t[i] = f[i]
    BY <2>2, <2>4, <2>5
  <2>7. \A i \in 1..n : i = n \/ i \in 1..n - 1
    OBVIOUS
  <2> QED
    BY <2>3, <2>4, <2>5, <2>6, <2>7
<1> QED
  BY <1>1, <1>2 DEF Torn

-----------------------------------------------------------------------------
(* The types of the variables.                                             *)

(* What ClearedFrom leaves of the words known and of the file has groups. *)
LEMMA ReadTypesTyped ==
  ASSUME NEW known \in SUBSET (Groups \X DOMAIN Word), NEW f \in Seq(Line)
  PROVE  /\ ReadTypes(known, f) \subseteq known \cup Shown(f)
         /\ Shown(f) \subseteq Groups \X DOMAIN Word
<1>1. ReadTypes(known, f) \subseteq known \cup Shown(f)
  BY DEF ReadTypes, Shown
<1>2. ASSUME NEW i \in DOMAIN f PROVE Items(f[i]) \subseteq Groups \X DOMAIN Word
  <2>1. f[i] \in Line
    OBVIOUS
  <2>2. f[i].groups \subseteq Groups /\ f[i].words \in Seq(DOMAIN Word)
    BY <2>1 DEF Line
  <2>3. \A j \in DOMAIN f[i].words : f[i].words[j] \in DOMAIN Word
    BY <2>2
  <2> QED
    BY <2>2, <2>3 DEF Items
<1> QED
  BY <1>1, <1>2 DEF Shown

(* The keywords in hand give a line. *)
LEMMA Typed ==
  ASSUME TypeOK
  PROVE  /\ li \in 1..9 /\ tags \in SUBSET Tags /\ source \in SUBSET Tags
         /\ lines \in Seq(Line) /\ cur \in Seq(DOMAIN Word)
         /\ types \in [Languages -> Seq(Line)]
         /\ \A l \in Languages : types[l] \in Seq(Line)
         /\ hl \in [Languages -> SUBSET (Groups \X DOMAIN Word)]
         /\ \A l \in Languages : hl[l] \in SUBSET (Groups \X DOMAIN Word)
<1>1. li \in 1..9
  BY LanguageListOf DEF TypeOK
<1>2. types \in [Languages -> Seq(Line)] /\ hl \in [Languages -> SUBSET (Groups \X DOMAIN Word)]
  BY DEF TypeOK
<1> QED
  BY <1>1, <1>2 DEF TypeOK

LEMMA FlushedTyped ==
  ASSUME TypeOK
  PROVE  Flushed \in Seq(Line)
<1>1. CASE cur = <<>>
  BY <1>1 DEF TypeOK, Flushed
<1>2. CASE cur # <<>>
  <2>1. KeywordLine(group, cur) \in Line
    BY <1>2, LinesTyped DEF TypeOK
  <2> QED
    BY <2>1 DEF TypeOK, Flushed
<1> QED
  BY <1>1, <1>2

LEMMA LangTyped ==
  ASSUME TypeOK, li # 9
  PROVE  Lang \in Languages
<1>1. li \in 1..8
  BY LanguageListOf DEF TypeOK
<1> QED
  BY <1>1, LanguageListOf DEF Lang

(* The language at work is one of the list. *)
AtWork == pc \in {"pack", "match", "open", "write"} => li # 9

LEMMA TypeStart ==
  ASSUME TypeOK, NEW command \in Commands, Update(command)
  PROVE  TypeOK'
<1>1. /\ UNCHANGED <<source, exists, tags, types, read, li, lines, hl, todo, group, cur, matches>>
      /\ pc' \in {"language", "ctags"}
  BY DEF Update, Start, files, packing
<1> QED
  BY <1>1 DEF TypeOK

LEMMA TypeTags ==
  ASSUME TypeOK,
         \/ RunCtags(source) \/ ReadTags \/ NoTagsFile \/ TruncateTags \/ RewriteTags \/ CannotRewrite,
         UNCHANGED vimVars
  PROVE  TypeOK'
<1>1. UNCHANGED <<source, types, li, lines, hl, todo, group, cur, matches>>
  BY DEF vimVars, RunCtags, ReadTags, NoTagsFile, TruncateTags, RewriteTags, CannotRewrite, files, packing
<1>2. pc' \in {"read", "truncate", "raised", "rewrite", "language"}
  BY DEF RunCtags, ReadTags, NoTagsFile, TruncateTags, RewriteTags, CannotRewrite
<1>3. tags' \subseteq Tags /\ read' \subseteq Tags
  BY DEF TypeOK, RunCtags, ReadTags, NoTagsFile, TruncateTags, RewriteTags, CannotRewrite, files, Found, TornTags
<1> QED
  BY <1>1, <1>2, <1>3 DEF TypeOK

LEMMA TypeLanguage ==
  ASSUME TypeOK, NotSelected \/ UnknownKind \/ NoTagsFound \/ CollectEntries \/ Done,
         UNCHANGED vimVars
  PROVE  TypeOK'
<1>1. UNCHANGED <<source, tags, types, read, hl>>
  BY DEF vimVars, NotSelected, UnknownKind, NoTagsFound, CollectEntries, Done, NextLanguage, files
<1>2. CASE CollectEntries
  <2>1. Lang \in Languages
    <3>1. li <= 8
      BY <1>2, LanguageListOf DEF CollectEntries, AtLanguage
    <3> QED
      BY <3>1, LangTyped, Typed
  <2>2. /\ todo' \subseteq Entries(Lang, tags) /\ lines' = <<ClearLine(UsedTypes(Lang))>>
        /\ cur' = <<>> /\ matches' = {} /\ pc' = "pack" /\ li' = li
    BY <1>2 DEF CollectEntries
  <2>4. todo' \subseteq Groups \X DOMAIN Word
    <3>1. KindsKnown(Lang, tags) /\ tags \in SUBSET Tags
      BY <1>2 DEF CollectEntries, TypeOK
    <3>2. Entries(Lang, tags) \subseteq Values(KindList[Lang]) \X DOMAIN Word
      BY <3>1, <2>1, EntriesTyped
    <3> QED
      BY <2>1, <2>2, <3>2, GroupsOfKinds
  <2>3. lines' \in Seq(Line)
    <3>1. ClearLine(UsedTypes(Lang)) \in Line
      BY <2>1, UsedTypesTyped, LinesTyped
    <3> QED
      BY <2>2, <3>1
  <2> QED
    BY <1>1, <2>2, <2>3, <2>4 DEF TypeOK
<1>3. CASE NotSelected \/ NoTagsFound
  <2>1. li' \in 1..Len(LanguageList) + 1
    <3>1. li <= Len(LanguageList) /\ li' = li + 1
      BY <1>3 DEF NotSelected, NoTagsFound, AtLanguage, NextLanguage
    <3> QED
      BY <3>1, LanguageListOf DEF TypeOK
  <2>2. UNCHANGED <<pc, lines, todo, group, cur, matches>>
    BY <1>3 DEF NotSelected, NoTagsFound, NextLanguage, packing
  <2> QED
    BY <1>1, <2>1, <2>2 DEF TypeOK
<1>4. CASE UnknownKind \/ Done
  <2>1. UNCHANGED <<li, lines, todo, group, cur, matches>> /\ pc' \in {"raised", "ended"}
    BY <1>4 DEF UnknownKind, Done, packing
  <2> QED
    BY <1>1, <2>1 DEF TypeOK
<1> QED
  BY <1>2, <1>3, <1>4

LEMMA TypePack ==
  ASSUME TypeOK, AtWork, Pack, UNCHANGED vimVars
  PROVE  TypeOK'
<1>1. UNCHANGED <<source, tags, types, read, li, hl>>
  BY DEF vimVars, Pack, NextGroup, AddInvalid, AddReserved, AddKeyword, LastLine, AddMatch, EndLines, files
<1>2. CASE NextGroup \/ LastLine
  <2>1. lines' \in Seq(Line)
    BY <1>2, FlushedTyped DEF NextGroup, LastLine
  <2>2. cur' = <<>> /\ UNCHANGED <<todo, matches>> /\ pc' \in {"pack", "match"}
    BY <1>2 DEF NextGroup, LastLine
  <2> QED
    BY <1>1, <2>1, <2>2 DEF TypeOK
<1>3. ASSUME NEW w \in DOMAIN Word, AddInvalid(w) \/ AddReserved(w) PROVE TypeOK'
  <2>1. <<group, w>> \in Groups \X DOMAIN Word
    BY <1>3 DEF AddInvalid, AddReserved, Take, TypeOK
  <2>2. UNCHANGED <<pc, lines, group, cur>> /\ todo' \subseteq todo
        /\ matches' \subseteq matches \cup {<<group, w>>}
    BY <1>3 DEF AddInvalid, AddReserved, Take
  <2> QED
    BY <1>1, <2>1, <2>2 DEF TypeOK
<1>4. ASSUME NEW w \in DOMAIN Word, AddKeyword(w) PROVE TypeOK'
  <2>1. <<group, w>> \in Groups \X DOMAIN Word
    BY <1>4 DEF AddKeyword, Take, TypeOK
  <2>2. /\ UNCHANGED <<pc, group, matches>> /\ todo' \subseteq todo
        /\ \/ lines' = lines /\ cur' = Append(cur, w)
           \/ lines' = Append(lines, KeywordLine(group, cur)) /\ cur' = <<w>>
    BY <1>4 DEF AddKeyword, Take
  <2>3. KeywordLine(group, cur) \in Line
    BY <2>1, LinesTyped DEF TypeOK
  <2>4. lines' \in Seq(Line)
    <3>1. lines \in Seq(Line)
      BY Typed
    <3>2. Append(lines, KeywordLine(group, cur)) \in Seq(Line)
      BY <2>3, <3>1, AppendProperties
    <3> QED
      BY <2>2, <3>1, <3>2
  <2>5. cur' \in Seq(DOMAIN Word)
    <3>1. <<w>> \in Seq(DOMAIN Word)
      OBVIOUS
    <3>2. Append(cur, w) \in Seq(DOMAIN Word)
      BY Typed, AppendProperties
    <3> QED
      BY <2>2, <3>1, <3>2
  <2> QED
    BY <1>1, <2>1, <2>2, <2>4, <2>5 DEF TypeOK
<1>5. CASE AddMatch
  <2> PICK m \in matches : matches' = matches \ {m} /\ lines' = Append(lines, MatchLine(m[1], m[2]))
    BY <1>5 DEF AddMatch
  <2>1. MatchLine(m[1], m[2]) \in Line
    BY LinesTyped DEF TypeOK
  <2>2. lines' \in Seq(Line)
    BY <2>1 DEF TypeOK
  <2>3. UNCHANGED <<pc, todo, group, cur>>
    BY <1>5 DEF AddMatch
  <2> QED
    BY <1>1, <2>2, <2>3 DEF TypeOK
<1>6. CASE EndLines
  <2>1. ClusterLine({e[1] : e \in Entries(Lang, tags)} \cap UsedTypes(Lang)) \in Line
    <3>1. Lang \in Languages
      BY <1>6, LangTyped DEF AtWork, EndLines
    <3> QED
      BY <3>1, UsedTypesTyped, LinesTyped
  <2>2. lines' \in Seq(Line)
    BY <1>6, <2>1 DEF EndLines, TypeOK
  <2>3. UNCHANGED <<todo, group, cur, matches>> /\ pc' = "open"
    BY <1>6 DEF EndLines
  <2> QED
    BY <1>1, <2>2, <2>3 DEF TypeOK
<1> QED
  BY <1>2, <1>3, <1>4, <1>5, <1>6 DEF Pack

LEMMA TypeFile ==
  ASSUME TypeOK, AtWork, OpenTypes \/ CannotOpen \/ WriteTypes \/ CannotWrite, UNCHANGED vimVars
  PROVE  TypeOK'
<1>1. UNCHANGED <<source, tags, read, hl>>
  BY DEF vimVars, OpenTypes, CannotOpen, WriteTypes, CannotWrite, files
<1>2. types' \in [Languages -> Seq(Line)]
  <2>1. lines \in Seq(Line) /\ types \in [Languages -> Seq(Line)] /\ <<>> \in Seq(Line)
    BY Typed
  <2>2. \A torn \in Torn(lines) : torn \in Seq(Line)
    BY <2>1, TornFiles
  <2>3. /\ OpenTypes => types' = [types EXCEPT ![Lang] = <<>>]
        /\ CannotOpen => types' = types
        /\ WriteTypes => types' = [types EXCEPT ![Lang] = lines]
        /\ CannotWrite => \E torn \in Torn(lines) : types' = [types EXCEPT ![Lang] = torn]
    BY DEF OpenTypes, CannotOpen, WriteTypes, CannotWrite, files
  <2> QED
    BY <2>1, <2>2, <2>3
<1>3. pc \in {"open", "write"} /\ pc' \in {"write", "raised", "language"} /\ li' \in {li, li + 1}
  BY DEF OpenTypes, CannotOpen, WriteTypes, CannotWrite
<1>4. li' \in 1..Len(LanguageList) + 1
  BY <1>3, LanguageListOf DEF TypeOK, AtWork
<1>5. \/ UNCHANGED <<lines, todo, group, cur, matches>>
      \/ lines' = <<>> /\ todo' = {} /\ group' = "" /\ cur' = <<>> /\ matches' = {}
  BY DEF OpenTypes, CannotOpen, WriteTypes, CannotWrite, packing, ForgetPacking
<1>6. /\ lines' \in Seq(Line) /\ cur' \in Seq(DOMAIN Word) /\ (cur' # <<>> => group' \in Groups)
      /\ todo' \subseteq Groups \X DOMAIN Word /\ matches' \subseteq Groups \X DOMAIN Word
  <2>1. <<>> \in Seq(Line) /\ <<>> \in Seq(DOMAIN Word)
    OBVIOUS
  <2> QED
    BY <1>5, <2>1 DEF TypeOK
<1> QED
  BY <1>1, <1>2, <1>3, <1>4, <1>6 DEF TypeOK

LEMMA TypeVim ==
  ASSUME TypeOK, AtWork, Vim \/ ChangeSource \/ (Kill(source) /\ UNCHANGED vimVars)
  PROVE  TypeOK'
<1>1. CASE Kill(source) /\ UNCHANGED vimVars
  <2>1. types' \in [Languages -> Seq(Line)]
    <3>1. lines \in Seq(Line) /\ types \in [Languages -> Seq(Line)]
      BY DEF TypeOK
    <3>2. \A torn \in Torn(lines) : torn \in Seq(Line)
      BY <3>1, TornFiles
    <3>3. types' = types \/ \E torn \in Torn(lines) : types' = [types EXCEPT ![Lang] = torn]
      BY <1>1 DEF Kill, files
    <3> QED
      BY <3>1, <3>2, <3>3
  <2>2. tags' \subseteq Tags
    BY <1>1 DEF Kill, files, TypeOK, TornTags, Found
  <2>3. /\ UNCHANGED <<source, hl>> /\ pc' = "killed" /\ read' = {} /\ li' = 1
        /\ lines' = <<>> /\ todo' = {} /\ cur' = <<>> /\ matches' = {}
    BY <1>1 DEF Kill, ForgetProcess, ForgetPacking, vimVars
  <2>4. <<>> \in Seq(Line) /\ <<>> \in Seq(DOMAIN Word)
    OBVIOUS
  <2> QED
    <3>1. li' \in 1..Len(LanguageList) + 1
      BY <2>3, LanguageListOf
    <3> QED
      BY <2>1, <2>2, <2>3, <2>4, <3>1 DEF TypeOK
<1>2. CASE ChangeSource
  <2>1. UNCHANGED <<tags, types, read, pc, li, lines, hl, todo, group, cur, matches>>
        /\ source' \subseteq Tags
    BY <1>2 DEF ChangeSource, scriptVars, files, packing, TypeOK
  <2> QED
    BY <2>1 DEF TypeOK
<1>3. CASE Reload \/ Interrupted
  <2>1. /\ UNCHANGED <<source, tags, types>> /\ pc' = "idle"
        /\ read' = {} /\ li' = 1 /\ lines' = <<>> /\ todo' = {} /\ cur' = <<>> /\ matches' = {}
    BY <1>3 DEF Reload, Interrupted, files, vimVars, ForgetProcess, ForgetPacking
  <2>2. hl' \in [Languages -> SUBSET (Groups \X DOMAIN Word)]
    <3>1. \A l \in Languages : ReadTypes(hl[l], types[l]) \subseteq Groups \X DOMAIN Word
      <4> TAKE l \in Languages
      <4>1. types[l] \in Seq(Line) /\ hl[l] \in SUBSET (Groups \X DOMAIN Word)
        BY Typed
      <4> QED
        BY <4>1, ReadTypesTyped
    <3>2. hl' = hl \/ hl' = [l \in Languages |->
                           IF l \in Opened THEN ReadTypes(hl[l], types[l]) ELSE hl[l]]
      BY <1>3 DEF Reload, Interrupted, vimVars
    <3> QED
      BY <3>1, <3>2, Typed
  <2> QED
    BY <2>1, <2>2, LanguageListOf DEF TypeOK
<1>4. ASSUME NEW l \in Languages, EditFile(l) PROVE TypeOK'
  <2>1. UNCHANGED <<source, tags, types, read, pc, li, lines, todo, group, cur, matches>>
    BY <1>4 DEF EditFile, scriptVars, files, packing
  <2>2. hl' \in [Languages -> SUBSET (Groups \X DOMAIN Word)]
    <3>1. types[l] \in Seq(Line)
      BY Typed
    <3>2. ReadTypes({}, types[l]) \subseteq Groups \X DOMAIN Word
      <4>1. {} \in SUBSET (Groups \X DOMAIN Word)
        OBVIOUS
      <4> QED
        BY <3>1, <4>1, ReadTypesTyped
    <3>3. hl' = [hl EXCEPT ![l] = ReadTypes({}, types[l])]
      BY <1>4 DEF EditFile
    <3> QED
      BY <3>2, <3>3, Typed
  <2> QED
    BY <2>1, <2>2 DEF TypeOK
<1> QED
  BY <1>1, <1>2, <1>3, <1>4 DEF Vim

-----------------------------------------------------------------------------
(* NothingLost, with the parts it is about as parameters: no step of the   *)
(* loops loses a word or writes one twice.                                 *)

Balance(g, ls, ws, ms, td) ==
  LET current == {<<g, ws[i]>> : i \in DOMAIN ws}
  IN /\ Shown(ls) \cup current \cup ms \cup {e \in td : Showable(e[2])} = Wanted(Lang, tags)
     /\ \A i, j \in DOMAIN ls : i # j => Items(ls[i]) \cap Items(ls[j]) = {}
     /\ \A i \in DOMAIN ls : Items(ls[i]) \cap (current \cup ms \cup td) = {}
     /\ IsInjective(ws) /\ current \cap (ms \cup td) = {}
     /\ ms \cap td = {}

(* One more line, of words that are on no other line. *)
LEMMA OneMoreLine ==
  ASSUME NEW ls \in Seq(Line), NEW x \in Line, NEW Rest,
         \A i, j \in DOMAIN ls : i # j => Items(ls[i]) \cap Items(ls[j]) = {},
         \A i \in DOMAIN ls : Items(ls[i]) \cap (Items(x) \cup Rest) = {},
         Items(x) \cap Rest = {}
  PROVE  LET new == Append(ls, x) IN
         /\ \A i, j \in DOMAIN new : i # j => Items(new[i]) \cap Items(new[j]) = {}
         /\ \A i \in DOMAIN new : Items(new[i]) \cap Rest = {}
<1> DEFINE new == Append(ls, x)
<1>1. /\ DOMAIN new = DOMAIN ls \cup {Len(ls) + 1}
      /\ \A i \in DOMAIN ls : new[i] = ls[i]
      /\ new[Len(ls) + 1] = x
  OBVIOUS
<1> HIDE DEF new
<1>2. ASSUME NEW i \in DOMAIN new, NEW j \in DOMAIN new, i # j
      PROVE  Items(new[i]) \cap Items(new[j]) = {}
  <2>1. CASE i \in DOMAIN ls /\ j \in DOMAIN ls
    BY <1>1, <2>1, <1>2
  <2>2. CASE i = Len(ls) + 1 /\ j \in DOMAIN ls
    BY <1>1, <2>2
  <2>3. CASE j = Len(ls) + 1 /\ i \in DOMAIN ls
    BY <1>1, <2>3
  <2> QED
    BY <1>1, <1>2, <2>1, <2>2, <2>3
<1>3. ASSUME NEW i \in DOMAIN new PROVE Items(new[i]) \cap Rest = {}
  BY <1>1
<1> QED
  BY <1>2, <1>3 DEF new

LEMMA BalanceAdd ==
  ASSUME NEW g, NEW ls, NEW ws \in Seq(DOMAIN Word), NEW ms, NEW td, NEW w \in DOMAIN Word,
         Balance(g, ls, ws, ms, td), <<g, w>> \in td, Showable(w)
  PROVE  Balance(g, ls, Append(ws, w), ms, td \ {<<g, w>>})
<1> DEFINE new == Append(ws, w)
           current == {<<g, ws[i]>> : i \in DOMAIN ws}
<1>1. /\ DOMAIN new = DOMAIN ws \cup {Len(ws) + 1} /\ Len(ws) + 1 \notin DOMAIN ws
      /\ \A i \in DOMAIN ws : new[i] = ws[i]
      /\ new[Len(ws) + 1] = w
  OBVIOUS
<1> HIDE DEF new
<1>2. {<<g, new[i]>> : i \in DOMAIN new} = current \cup {<<g, w>>}
  BY <1>1
<1>3. \A i \in DOMAIN ws : ws[i] # w
  BY DEF Balance
<1>4. IsInjective(new)
  BY <1>1, <1>3 DEF Balance, IsInjective
<1>5. {e \in td : Showable(e[2])} = {e \in td \ {<<g, w>>} : Showable(e[2])} \cup {<<g, w>>}
  OBVIOUS
<1> QED
  BY <1>2, <1>4, <1>5 DEF Balance, new

LEMMA BalanceSkip ==
  ASSUME NEW g, NEW ls, NEW ws, NEW ms, NEW td, NEW w, NEW new,
         Balance(g, ls, ws, ms, td), <<g, w>> \in td,
         new = IF Showable(w) THEN ms \cup {<<g, w>>} ELSE ms
  PROVE  Balance(g, ls, ws, new, td \ {<<g, w>>})
<1>1. CASE Showable(w)
  <2>1. {e \in td : Showable(e[2])} = {e \in td \ {<<g, w>>} : Showable(e[2])} \cup {<<g, w>>}
    BY <1>1
  <2> QED
    BY <1>1, <2>1 DEF Balance
<1>2. CASE ~Showable(w)
  <2>1. {e \in td : Showable(e[2])} = {e \in td \ {<<g, w>>} : Showable(e[2])}
    BY <1>2
  <2> QED
    BY <1>2, <2>1 DEF Balance
<1> QED
  BY <1>1, <1>2

LEMMA BalanceFlush ==
  ASSUME NEW g \in Groups, NEW ls \in Seq(Line), NEW ws \in Seq(DOMAIN Word), NEW ms, NEW td, NEW h,
         Balance(g, ls, ws, ms, td)
  PROVE  Balance(h, Append(ls, KeywordLine(g, ws)), <<>>, ms, td)
<1> DEFINE x == KeywordLine(g, ws)
           current == {<<g, ws[i]>> : i \in DOMAIN ws}
<1>1. x \in Line /\ Items(x) = current
  BY LinesTyped, LineItems
<1> HIDE DEF x
<1>2. Shown(Append(ls, x)) = Shown(ls) \cup current
  BY <1>1, ShownAppend
<1>3. /\ \A i, j \in DOMAIN ls : i # j => Items(ls[i]) \cap Items(ls[j]) = {}
      /\ \A i \in DOMAIN ls : Items(ls[i]) \cap (Items(x) \cup (ms \cup td)) = {}
      /\ Items(x) \cap (ms \cup td) = {}
  BY <1>1 DEF Balance
<1>4. LET new == Append(ls, x) IN
         /\ \A i, j \in DOMAIN new : i # j => Items(new[i]) \cap Items(new[j]) = {}
         /\ \A i \in DOMAIN new : Items(new[i]) \cap (ms \cup td) = {}
  BY <1>1, <1>3, OneMoreLine
<1>5. {<<h, <<>>[i]>> : i \in DOMAIN <<>>} = {} /\ IsInjective(<<>>)
  BY DEF IsInjective
<1> QED
  BY <1>2, <1>4, <1>5 DEF Balance, x

LEMMA BalanceGroup ==
  ASSUME NEW g, NEW ls, NEW ms, NEW td, NEW h, Balance(g, ls, <<>>, ms, td)
  PROVE  Balance(h, ls, <<>>, ms, td)
<1>1. \A k : {<<k, <<>>[i]>> : i \in DOMAIN <<>>} = {}
  OBVIOUS
<1> QED
  BY <1>1 DEF Balance

LEMMA BalanceMatch ==
  ASSUME NEW g, NEW ls \in Seq(Line), NEW ms \in SUBSET (Groups \X DOMAIN Word), NEW td, NEW m \in ms,
         Balance(g, ls, <<>>, ms, td)
  PROVE  Balance(g, Append(ls, MatchLine(m[1], m[2])), <<>>, ms \ {m}, td)
<1> DEFINE x == MatchLine(m[1], m[2])
<1>1. x \in Line /\ Items(x) = {m}
  BY LinesTyped, LineItems
<1> HIDE DEF x
<1>2. Shown(Append(ls, x)) = Shown(ls) \cup {m}
  BY <1>1, ShownAppend
<1>3. {<<g, <<>>[i]>> : i \in DOMAIN <<>>} = {}
  OBVIOUS
<1>4. /\ \A i, j \in DOMAIN ls : i # j => Items(ls[i]) \cap Items(ls[j]) = {}
      /\ \A i \in DOMAIN ls : Items(ls[i]) \cap (Items(x) \cup ((ms \ {m}) \cup td)) = {}
      /\ Items(x) \cap ((ms \ {m}) \cup td) = {}
  BY <1>1, <1>3 DEF Balance
<1>5. LET new == Append(ls, x) IN
         /\ \A i, j \in DOMAIN new : i # j => Items(new[i]) \cap Items(new[j]) = {}
         /\ \A i \in DOMAIN new : Items(new[i]) \cap ((ms \ {m}) \cup td) = {}
  BY <1>1, <1>4, OneMoreLine
<1> QED
  BY <1>2, <1>3, <1>5 DEF Balance, x

-----------------------------------------------------------------------------
(* The invariant of the script.                                            *)

Working == pc \in {"pack", "match", "open", "write"}

\* The lines of the file at work.
LinesOK ==
  /\ pc \in {"pack", "match"} => Balance(group, lines, cur, matches, todo)
  /\ pc = "match" => todo = {} /\ cur = <<>>
  /\ Working => lines # <<>> /\ lines[1] = ClearLine(UsedTypes(Lang))
  /\ pc \in {"open", "write"} => Shown(lines) = Wanted(Lang, tags)

FreshFile(l) ==
  /\ Shown(types[l]) = Wanted(l, tags)
  /\ types[l] # <<>> /\ types[l][1] = ClearLine(UsedTypes(l))

\* The files of the languages before the one at work are written.
FreshSoFar ==
  /\ pc \in {"idle", "ctags", "read", "truncate", "rewrite"} => li = 1
  /\ pc = "ended" => li = 9
  /\ Working \/ pc \in {"language", "ended"} => \A k \in 1..8 :
       k < li /\ Selected(LanguageList[k]) /\ Entries(LanguageList[k], tags) # {} =>
         FreshFile(LanguageList[k])

\* What ctags has found is on its way, or in the file tags.
TagsOK ==
  ~failed => /\ pc = "read" => tags = Found(source)
             /\ pc \in {"truncate", "rewrite"} => read = Found(source)
             /\ (Working \/ pc \in {"language", "ended"}) /\ Generated => tags = Found(source)

IInv == TypeOK /\ AtWork /\ LinesOK /\ FreshSoFar /\ TagsOK

(* While tags, the options and the language stay nothing else is wanted. *)
LEMMA SameWanted ==
  ASSUME UNCHANGED <<tags, opt, li>>
  PROVE  /\ Lang' = Lang /\ UsedTypes(Lang)' = UsedTypes(Lang)
         /\ Wanted(Lang, tags)' = Wanted(Lang, tags)
         /\ \A w : Showable(w)' <=> Showable(w)
BY DEF Lang, UsedTypes, Wanted, Showable, GroupOf, IsValidKeyword

LEMMA SameBalance ==
  ASSUME UNCHANGED <<tags, opt, li>>,
         Balance(group', lines', cur', matches', todo')
  PROVE  Balance(group, lines, cur, matches, todo)'
BY SameWanted DEF Balance

LEMMA SameFresh ==
  ASSUME FreshSoFar, UNCHANGED <<tags, opt, li, types>>,
         pc' \notin {"idle", "ctags", "read", "truncate", "rewrite", "ended"},
         Working \/ pc = "language" \/ pc' \notin {"pack", "match", "open", "write", "language"}
  PROVE  FreshSoFar'
<1>1. \A l \in Languages : /\ Selected(l)' <=> Selected(l)
                           /\ Entries(l, tags)' = Entries(l, tags)
                           /\ FreshFile(l)' <=> FreshFile(l)
  BY DEF Selected, Entries, Matching, GroupOf, FreshFile, Wanted, Showable, IsValidKeyword, UsedTypes
<1> QED
  BY <1>1, LanguageListOf DEF FreshSoFar, Working

(* Every step of the loops keeps the lines as they should be. *)
LEMMA LinesPack ==
  ASSUME TypeOK, AtWork, LinesOK, Pack
  PROVE  LinesOK'
<1>1. UNCHANGED <<tags, opt, li>> /\ pc \in {"pack", "match"}
  BY DEF Pack, NextGroup, AddInvalid, AddReserved, AddKeyword, Take, LastLine, AddMatch, EndLines, files
<1>2. /\ lines \in Seq(Line) /\ cur \in Seq(DOMAIN Word) /\ (cur # <<>> => group \in Groups)
      /\ todo \subseteq Groups \X DOMAIN Word /\ matches \in SUBSET (Groups \X DOMAIN Word)
  BY DEF TypeOK
<1>3. /\ Balance(group, lines, cur, matches, todo)
      /\ lines # <<>> /\ lines[1] = ClearLine(UsedTypes(Lang))
      /\ pc = "match" => todo = {} /\ cur = <<>>
  BY <1>1 DEF LinesOK, Working
<1>4. \A h : Balance(h, Flushed, <<>>, matches, todo)
  <2> TAKE h
  <2>1. CASE cur = <<>>
    BY <2>1, <1>3, BalanceGroup DEF Flushed
  <2>2. CASE cur # <<>>
    BY <2>2, <1>2, <1>3, BalanceFlush DEF Flushed
  <2> QED
    BY <2>1, <2>2
<1>5. \A x \in Line : Append(lines, x) # <<>> /\ Append(lines, x)[1] = ClearLine(UsedTypes(Lang))
  BY <1>2, <1>3
<1>6. /\ cur # <<>> => KeywordLine(group, cur) \in Line
      /\ Flushed # <<>> /\ Flushed[1] = ClearLine(UsedTypes(Lang))
  <2>1. cur # <<>> => KeywordLine(group, cur) \in Line
    BY <1>2, LinesTyped
  <2> QED
    BY <1>3, <1>5, <2>1 DEF Flushed
<1>7. CASE NextGroup \/ LastLine
  <2>1. /\ lines' = Flushed /\ cur' = <<>> /\ UNCHANGED <<todo, matches>>
        /\ \/ pc' = "pack"
           \/ pc' = "match" /\ todo' = {}
    BY <1>7 DEF NextGroup, LastLine
  <2>2. Balance(group', lines', cur', matches', todo')
    BY <1>4, <2>1
  <2> QED
    BY <1>1, <1>6, <2>1, <2>2, SameBalance, SameWanted DEF LinesOK, Working
<1>8. ASSUME NEW w \in DOMAIN Word, AddInvalid(w) \/ AddReserved(w) PROVE LinesOK'
  <2>1. /\ pc = "pack" /\ <<group, w>> \in todo /\ todo' = todo \ {<<group, w>>}
        /\ UNCHANGED <<pc, lines, cur, group>>
        /\ matches' = IF Showable(w) THEN matches \cup {<<group, w>>} ELSE matches
    BY <1>8 DEF AddInvalid, AddReserved, Take, Showable
  <2>2. Balance(group', lines', cur', matches', todo')
    BY <1>3, <2>1, BalanceSkip
  <2> QED
    BY <1>1, <1>3, <2>1, <2>2, SameBalance, SameWanted DEF LinesOK, Working
<1>9. ASSUME NEW w \in DOMAIN Word, AddKeyword(w) PROVE LinesOK'
  <2>1. /\ pc = "pack" /\ <<group, w>> \in todo /\ todo' = todo \ {<<group, w>>}
        /\ UNCHANGED <<pc, group, matches>> /\ Showable(w)
        /\ \/ lines' = lines /\ cur' = Append(cur, w)
           \/ lines' = Append(lines, KeywordLine(group, cur)) /\ cur' = <<w>>
    BY <1>9 DEF AddKeyword, Take, Showable
  <2>2. group \in Groups
    BY <1>2, <2>1
  <2>3. CASE lines' = lines /\ cur' = Append(cur, w)
    <3>1. Balance(group', lines', cur', matches', todo')
      BY <1>2, <1>3, <2>1, <2>3, BalanceAdd
    <3> QED
      BY <1>1, <1>3, <2>1, <2>3, <3>1, SameBalance, SameWanted DEF LinesOK, Working
  <2>4. CASE lines' = Append(lines, KeywordLine(group, cur)) /\ cur' = <<w>>
    <3>1. Balance(group, lines', <<>>, matches, todo)
      BY <1>2, <1>3, <2>2, <2>4, BalanceFlush
    <3>2. Append(<<>>, w) = <<w>> /\ <<>> \in Seq(DOMAIN Word)
      OBVIOUS
    <3>3. Balance(group, lines', Append(<<>>, w), matches, todo \ {<<group, w>>})
      BY <2>1, <3>1, <3>2, BalanceAdd
    <3>4. Balance(group', lines', cur', matches', todo')
      BY <2>1, <2>4, <3>2, <3>3
    <3>5. KeywordLine(group, cur) \in Line
      BY <1>2, <2>2, LinesTyped
    <3> QED
      BY <1>1, <1>5, <2>1, <2>4, <3>4, <3>5, SameBalance, SameWanted DEF LinesOK, Working
  <2> QED
    BY <2>1, <2>3, <2>4
<1>10. CASE AddMatch
  <2> PICK m \in matches : matches' = matches \ {m} /\ lines' = Append(lines, MatchLine(m[1], m[2]))
    BY <1>10 DEF AddMatch
  <2>1. pc = "match" /\ UNCHANGED <<pc, todo, group, cur>>
    BY <1>10 DEF AddMatch
  <2>2. cur = <<>> /\ todo = {}
    BY <1>3, <2>1
  <2>3. Balance(group', lines', cur', matches', todo')
    BY <1>2, <1>3, <2>1, <2>2, BalanceMatch
  <2>4. MatchLine(m[1], m[2]) \in Line
    BY <1>2, LinesTyped
  <2> QED
    BY <1>1, <1>5, <2>1, <2>2, <2>3, <2>4, SameBalance, SameWanted DEF LinesOK, Working
<1>11. CASE EndLines
  <2>1. /\ pc = "match" /\ pc' = "open" /\ matches = {} /\ todo = {} /\ cur = <<>>
        /\ \/ lines' = lines
           \/ lines' = Append(lines, ClusterLine({e[1] : e \in Entries(Lang, tags)} \cap UsedTypes(Lang)))
    BY <1>3, <1>11 DEF EndLines
  <2>2. ClusterLine({e[1] : e \in Entries(Lang, tags)} \cap UsedTypes(Lang)) \in Line
    <3>1. li # 9
      BY <2>1 DEF AtWork
    <3>2. Lang \in Languages
      BY <3>1, LangTyped
    <3> QED
      BY <3>2, UsedTypesTyped, LinesTyped
  <2>3. Shown(lines) = Wanted(Lang, tags)
    <3>1. Balance(group, lines, <<>>, {}, {})
      BY <1>3, <2>1
    <3>2. {<<group, <<>>[i]>> : i \in DOMAIN <<>>} = {}
      OBVIOUS
    <3> QED
      BY <3>1, <3>2 DEF Balance
  <2>4. Shown(lines') = Wanted(Lang, tags)
    BY <1>2, <2>1, <2>2, <2>3, ShownAppend, LineItems
  <2>5. lines' # <<>> /\ lines'[1] = ClearLine(UsedTypes(Lang))
    BY <1>3, <1>5, <2>1, <2>2
  <2>6. Shown(lines)' = Shown(lines')
    BY DEF Shown, Items
  <2> QED
    BY <1>1, <2>1, <2>4, <2>5, <2>6, SameWanted DEF LinesOK, Working
<1> QED
  BY <1>7, <1>8, <1>9, <1>10, <1>11 DEF Pack

-----------------------------------------------------------------------------
(* The steps other than those of the loops.                                *)

LEMMA LinesIdle ==
  ASSUME pc' \notin {"pack", "match", "open", "write"}
  PROVE  LinesOK' /\ AtWork'
BY DEF LinesOK, AtWork, Working

(* At first all keywords are to be packed. *)
LEMMA LinesCollect ==
  ASSUME TypeOK, CollectEntries
  PROVE  LinesOK' /\ AtWork'
<1>1. /\ UNCHANGED <<tags, opt, li>> /\ pc' = "pack" /\ KindsKnown(Lang, tags)
      /\ todo' = {e \in Entries(Lang, tags) : e[1] \in UsedTypes(Lang)}
      /\ lines' = <<ClearLine(UsedTypes(Lang))>> /\ cur' = <<>> /\ matches' = {}
      /\ li <= 8
  BY LanguageListOf DEF CollectEntries, AtLanguage, files
<1>2. li # 9 /\ Lang \in Languages
  <2>1. li # 9
    BY <1>1
  <2> QED
    BY <2>1, LangTyped
<1>3. {e \in todo' : Showable(e[2])} = Wanted(Lang, tags)
  <2>1. {e \in todo' : Showable(e[2])}
          = {e \in Entries(Lang, tags) : e[1] \in UsedTypes(Lang) /\ Showable(e[2])}
    BY <1>1
  <2> QED
    BY <1>1, <1>2, <2>1, EntriesWanted
<1>4. /\ Shown(lines') = {} /\ lines' # <<>> /\ lines'[1] = ClearLine(UsedTypes(Lang))
      /\ DOMAIN lines' = {1} /\ Items(lines'[1]) = {}
  <2>1. DOMAIN lines' = {1} /\ lines'[1] = ClearLine(UsedTypes(Lang)) /\ lines' # <<>>
    BY <1>1
  <2>2. Items(lines'[1]) = {}
    BY <2>1, LineItems
  <2> QED
    BY <2>1, <2>2 DEF Shown
<1>5. Balance(group', lines', cur', matches', todo')
  <2>1. {<<group', <<>>[i]>> : i \in DOMAIN <<>>} = {} /\ IsInjective(<<>>)
    BY DEF IsInjective
  <2> QED
    BY <1>1, <1>3, <1>4, <2>1 DEF Balance
<1>6. Balance(group, lines, cur, matches, todo)'
  BY <1>1, <1>5, SameBalance
<1>7. (lines # <<>> /\ lines[1] = ClearLine(UsedTypes(Lang)))'
  BY <1>1, <1>4, SameWanted
<1> QED
  BY <1>1, <1>2, <1>6, <1>7 DEF LinesOK, AtWork, Working

LEMMA LinesOpen ==
  ASSUME LinesOK, AtWork, OpenTypes
  PROVE  LinesOK' /\ AtWork'
<1>1. pc = "open" /\ pc' = "write" /\ UNCHANGED <<tags, opt, li, lines>>
  BY DEF OpenTypes, packing
<1>2. Shown(lines)' = Shown(lines)
  BY <1>1 DEF Shown, Items
<1> QED
  BY <1>1, <1>2, SameWanted DEF LinesOK, AtWork, Working

(* A file is changed for the language at work only. *)
LEMMA OthersStay ==
  ASSUME TypeOK, AtWork, types' # types, Next
  PROVE  /\ Working /\ li \in 1..8 /\ Lang \in Languages
         /\ \A l \in Languages : l # Lang => types'[l] = types[l]
         /\ \A k \in 1..8 : k # li => LanguageList[k] # Lang /\ LanguageList[k] \in Languages
<1>1. \/ OpenTypes \/ WriteTypes \/ CannotWrite
      \/ pc = "write" /\ \E torn \in Torn(lines) : types' = [types EXCEPT ![Lang] = torn]
  BY DEF Next, Scripted, Script, RunCtags, ReadTags, NoTagsFile, TruncateTags, RewriteTags, CannotRewrite,
         NotSelected, UnknownKind, NoTagsFound, CollectEntries, NextLanguage, Pack, NextGroup,
         AddInvalid, AddReserved, AddKeyword, LastLine, AddMatch, EndLines, CannotOpen, Done,
         Kill, Vim, Reload, Interrupted, EditFile, Update, Start, ChangeSource, files, scriptVars
<1>2. pc \in {"open", "write"} /\ \E x : types' = [types EXCEPT ![Lang] = x]
  BY <1>1 DEF OpenTypes, WriteTypes, CannotWrite
<1>3. li # 9
  BY <1>2 DEF AtWork
<1>4. li \in 1..8 /\ Lang \in Languages
  BY <1>3, LangTyped, Typed
<1>5. \A l \in Languages : l # Lang => types'[l] = types[l]
  BY <1>2, Typed
<1> QED
  BY <1>2, <1>4, <1>5, LanguageListOf DEF Working, Lang

(* Before the languages, after them and without a process. *)
LEMMA FreshIdle ==
  ASSUME \/ pc' \in {"raised", "killed"}
         \/ li' = 1 /\ pc' \in {"idle", "ctags", "read", "truncate", "rewrite", "language"}
  PROVE  FreshSoFar'
BY LanguageListOf DEF FreshSoFar, Working

LEMMA FreshTags ==
  ASSUME FreshSoFar, RunCtags(source) \/ ReadTags \/ NoTagsFile \/ TruncateTags \/ RewriteTags \/ CannotRewrite
  PROVE  FreshSoFar'
<1>1. /\ pc \in {"ctags", "read", "truncate", "rewrite"} /\ li' = li
      /\ pc' \in {"read", "truncate", "rewrite", "language", "raised"}
  BY DEF RunCtags, ReadTags, NoTagsFile, TruncateTags, RewriteTags, CannotRewrite
<1>2. li = 1
  BY <1>1 DEF FreshSoFar
<1> QED
  BY <1>1, <1>2, FreshIdle

LEMMA FreshNext ==
  ASSUME TypeOK, FreshSoFar, NotSelected \/ NoTagsFound
  PROVE  FreshSoFar'
<1>1. /\ pc = "language" /\ UNCHANGED <<pc, tags, opt, types>> /\ li' = li + 1
      /\ ~Selected(Lang) \/ Entries(Lang, tags) = {}
  BY DEF NotSelected, NoTagsFound, AtLanguage, NextLanguage, files
<1>2. \A l \in Languages : /\ Selected(l)' <=> Selected(l)
                           /\ Entries(l, tags)' = Entries(l, tags)
                           /\ FreshFile(l)' <=> FreshFile(l)
  BY <1>1 DEF Selected, Entries, Matching, GroupOf, FreshFile, Wanted, Showable, IsValidKeyword, UsedTypes
<1>3. \A k \in 1..8 : k < li' => k < li \/ k = li
  BY <1>1, Typed
<1> QED
  BY <1>1, <1>2, <1>3, LanguageListOf DEF FreshSoFar, Working, Lang

LEMMA FreshDone ==
  ASSUME TypeOK, FreshSoFar, Done
  PROVE  FreshSoFar'
<1>1. pc = "language" /\ pc' = "ended" /\ UNCHANGED <<tags, opt, types, li>> /\ li = 9
  BY Typed, LanguageListOf DEF Done, files
<1>2. \A l \in Languages : /\ Selected(l)' <=> Selected(l)
                           /\ Entries(l, tags)' = Entries(l, tags)
                           /\ FreshFile(l)' <=> FreshFile(l)
  BY <1>1 DEF Selected, Entries, Matching, GroupOf, FreshFile, Wanted, Showable, IsValidKeyword, UsedTypes
<1> QED
  BY <1>1, <1>2, LanguageListOf DEF FreshSoFar, Working

(* The file that is written is the one of the lines. *)
LEMMA FreshWrite ==
  ASSUME TypeOK, AtWork, LinesOK, FreshSoFar, OpenTypes \/ WriteTypes
  PROVE  FreshSoFar'
<1>1. /\ pc \in {"open", "write"} /\ pc' \in {"write", "language"} /\ UNCHANGED <<tags, opt>>
      /\ \E x : types' = [types EXCEPT ![Lang] = x]
  BY DEF OpenTypes, WriteTypes
<1>2. li # 9 /\ li \in 1..8 /\ Lang \in Languages
  <2>1. li # 9
    BY <1>1 DEF AtWork
  <2> QED
    BY <2>1, LangTyped, Typed
<1>3. \A k \in 1..8 : k # li => LanguageList[k] # Lang /\ LanguageList[k] \in Languages
  BY <1>2, LanguageListOf DEF Lang
<1>4. \A l \in Languages : l # Lang => types'[l] = types[l]
  BY <1>1, Typed
<1>5. \A l \in Languages : /\ Selected(l)' <=> Selected(l)
                           /\ Entries(l, tags)' = Entries(l, tags)
  BY <1>1 DEF Selected, Entries, Matching, GroupOf
<1>6. \A l \in Languages : Wanted(l, tags)' = Wanted(l, tags) /\ UsedTypes(l)' = UsedTypes(l)
  BY <1>1 DEF Wanted, GroupOf, Showable, IsValidKeyword, UsedTypes
<1>7. \A l \in Languages : l # Lang => (FreshFile(l)' <=> FreshFile(l))
  <2> SUFFICES ASSUME NEW l \in Languages, l # Lang PROVE FreshFile(l)' <=> FreshFile(l)
    OBVIOUS
  <2>1. types'[l] = types[l]
    BY <1>4
  <2> QED
    BY <1>6, <2>1 DEF FreshFile, Shown, Items
<1>8. CASE OpenTypes
  <2>1. li' = li /\ pc' = "write"
    BY <1>8 DEF OpenTypes
  <2>2. \A k \in 1..8 : k < li => k # li
    BY <1>2
  <2>3. \A k \in 1..8 : k < li /\ Selected(LanguageList[k]) /\ Entries(LanguageList[k], tags) # {} =>
          FreshFile(LanguageList[k])
    BY <1>1 DEF FreshSoFar, Working
  <2> QED
    BY <1>3, <1>5, <1>7, <2>1, <2>2, <2>3 DEF FreshSoFar
<1>9. CASE WriteTypes
  <2>1. li' = li + 1 /\ pc = "write" /\ pc' = "language" /\ types' = [types EXCEPT ![Lang] = lines]
    BY <1>9 DEF WriteTypes
  <2>2. types'[Lang] = lines
    BY <1>2, <2>1, Typed
  <2>4. /\ Shown(lines) = Wanted(Lang, tags)
        /\ lines # <<>> /\ lines[1] = ClearLine(UsedTypes(Lang))
    BY <2>1 DEF LinesOK, Working
  <2>5. \A l \in Languages : l = Lang => FreshFile(l)'
    <3> SUFFICES ASSUME NEW l \in Languages, l = Lang PROVE FreshFile(l)'
      OBVIOUS
    <3>1. types'[l] = lines
      BY <2>2
    <3> QED
      BY <1>6, <2>4, <3>1 DEF FreshFile, Shown, Items
  <2>6. \A k \in 1..8 : k < li' => (k < li /\ k # li) \/ (k = li /\ LanguageList[k] = Lang)
    BY <1>2, <2>1 DEF Lang
  <2>7. \A k \in 1..8 : k < li /\ Selected(LanguageList[k]) /\ Entries(LanguageList[k], tags) # {} =>
          FreshFile(LanguageList[k])
    BY <1>1 DEF FreshSoFar, Working
  <2> QED
    BY <1>2, <1>3, <1>5, <1>7, <2>1, <2>5, <2>6, <2>7 DEF FreshSoFar
<1> QED
  BY <1>8, <1>9

-----------------------------------------------------------------------------
(* What ctags has found.                                                   *)

LEMMA SameFound ==
  ASSUME UNCHANGED <<opt, source>>
  PROVE  Found(source)' = Found(source) /\ (Generated' <=> Generated)
BY DEF Found, Selected, Generated

LEMMA TagsKept ==
  ASSUME TagsOK, UNCHANGED <<tags, read, opt, source, failed>>,
         \/ pc' = pc
         \/ /\ Working \/ pc = "language"
            /\ pc' \in {"pack", "match", "open", "write", "language", "ended"}
  PROVE  TagsOK'
BY SameFound DEF TagsOK, Working

LEMMA TagsIdle ==
  ASSUME pc' \in {"raised", "killed", "idle", "ctags"}
  PROVE  TagsOK'
BY DEF TagsOK, Working

LEMMA TagsRead ==
  ASSUME TagsOK, RunCtags(source) \/ ReadTags \/ NoTagsFile \/ TruncateTags \/ RewriteTags \/ CannotRewrite,
         UNCHANGED vimVars
  PROVE  TagsOK'
<1>1. UNCHANGED <<opt, source>>
  BY DEF vimVars, RunCtags, ReadTags, NoTagsFile, TruncateTags, RewriteTags, CannotRewrite
<1>2. CASE RunCtags(source)
  BY <1>1, <1>2, SameFound DEF RunCtags, TagsOK, Working
<1>3. CASE ReadTags
  BY <1>1, <1>3, SameFound DEF ReadTags, TagsOK, Working, files
<1>4. CASE NoTagsFile
  BY <1>4, TagsIdle DEF NoTagsFile
<1>5. CASE TruncateTags
  BY <1>1, <1>5, SameFound DEF TruncateTags, TagsOK, Working
<1>6. CASE RewriteTags
  BY <1>1, <1>6, SameFound DEF RewriteTags, TagsOK, Working
<1>7. CASE CannotRewrite
  BY <1>7, TagsIdle DEF CannotRewrite
<1> QED
  BY <1>2, <1>3, <1>4, <1>5, <1>6, <1>7

(* A file that was there already is not one that was generated. *)
LEMMA TagsStart ==
  ASSUME TagsOK, NEW command \in Commands, Update(command)
  PROVE  TagsOK'
<1>1. /\ pc' = IF UseExisting(command) /\ exists THEN "language" ELSE "ctags"
      /\ opt'.useExisting = (UseExisting(command) /\ exists)
  BY DEF Update, Start
<1>2. CASE UseExisting(command) /\ exists
  BY <1>1, <1>2 DEF TagsOK, Working, Generated
<1>3. CASE ~(UseExisting(command) /\ exists)
  BY <1>1, <1>3, TagsIdle
<1> QED
  BY <1>2, <1>3

-----------------------------------------------------------------------------
(* The invariant is inductive.                                             *)

LEMMA IInvInit == Init => IInv
<1> SUFFICES ASSUME Init PROVE IInv
  OBVIOUS
<1>1. TypeOK
  <2>1. <<>> \in Seq(Line) /\ <<>> \in Seq(DOMAIN Word) /\ 1 \in 1..Len(LanguageList) + 1
    BY LanguageListOf
  <2> QED
    BY <2>1, ProjectsAssumption DEF Init, NoProcess, NothingPacked, TypeOK
<1>2. AtWork /\ LinesOK /\ TagsOK /\ FreshSoFar
  BY DEF Init, NoProcess, NothingPacked, AtWork, LinesOK, TagsOK, FreshSoFar, Working
<1> QED
  BY <1>1, <1>2 DEF IInv

LEMMA IInvScript ==
  ASSUME IInv, Scripted
  PROVE  IInv'
<1> USE DEF IInv
<1>1. CASE RunCtags(source) \/ ReadTags \/ NoTagsFile \/ TruncateTags \/ RewriteTags \/ CannotRewrite
  <2>1. pc' \notin {"pack", "match", "open", "write"}
    BY <1>1 DEF RunCtags, ReadTags, NoTagsFile, TruncateTags, RewriteTags, CannotRewrite
  <2> QED
    BY <1>1, <2>1, TypeTags, LinesIdle, FreshTags, TagsRead DEF Scripted
<1>2. CASE NotSelected \/ NoTagsFound
  <2>1. pc = "language" /\ pc' = "language" /\ UNCHANGED <<tags, read, opt, source, failed>>
    BY <1>2 DEF Scripted, vimVars, NotSelected, NoTagsFound, AtLanguage, NextLanguage, files
  <2> QED
    BY <1>2, <2>1, TypeLanguage, LinesIdle, FreshNext, TagsKept DEF Scripted
<1>3. CASE UnknownKind
  <2>1. pc' = "raised"
    BY <1>3 DEF UnknownKind
  <2> QED
    BY <1>3, <2>1, TypeLanguage, LinesIdle, FreshIdle, TagsIdle DEF Scripted
<1>4. CASE CollectEntries
  <2>1. pc = "language" /\ pc' = "pack" /\ UNCHANGED <<tags, read, opt, source, failed, li, types>>
    BY <1>4 DEF Scripted, vimVars, CollectEntries, AtLanguage, files
  <2> QED
    BY <1>4, <2>1, TypeLanguage, LinesCollect, SameFresh, TagsKept DEF Scripted
<1>5. CASE Pack
  <2>1. /\ pc \in {"pack", "match"} /\ pc' \in {"pack", "match", "open"}
        /\ UNCHANGED <<tags, read, opt, source, failed, li, types>>
    BY <1>5 DEF Scripted, vimVars, Pack, NextGroup, AddInvalid, AddReserved, AddKeyword, Take,
                LastLine, AddMatch, EndLines, files
  <2>2. AtWork' /\ Working
    BY <2>1 DEF AtWork, Working
  <2> QED
    BY <1>5, <2>1, <2>2, TypePack, LinesPack, SameFresh, TagsKept DEF Scripted
<1>6. CASE OpenTypes
  <2>1. pc = "open" /\ pc' = "write" /\ UNCHANGED <<tags, read, opt, source, failed>> /\ Working
    BY <1>6 DEF Scripted, vimVars, OpenTypes, Working
  <2> QED
    BY <1>6, <2>1, TypeFile, LinesOpen, FreshWrite, TagsKept DEF Scripted
<1>7. CASE WriteTypes
  <2>1. pc = "write" /\ pc' = "language" /\ UNCHANGED <<tags, read, opt, source, failed>> /\ Working
    BY <1>7 DEF Scripted, vimVars, WriteTypes, Working
  <2> QED
    BY <1>7, <2>1, TypeFile, LinesIdle, FreshWrite, TagsKept DEF Scripted
<1>8. CASE CannotOpen \/ CannotWrite
  <2>1. pc' = "raised"
    BY <1>8 DEF CannotOpen, CannotWrite
  <2> QED
    BY <1>8, <2>1, TypeFile, LinesIdle, FreshIdle, TagsIdle DEF Scripted
<1>9. CASE Done
  <2>1. pc = "language" /\ pc' = "ended" /\ UNCHANGED <<tags, read, opt, source, failed>>
    BY <1>9 DEF Scripted, vimVars, Done, files
  <2> QED
    BY <1>9, <2>1, TypeLanguage, LinesIdle, FreshDone, TagsKept DEF Scripted
<1> QED
  BY <1>1, <1>2, <1>3, <1>4, <1>5, <1>6, <1>7, <1>8, <1>9 DEF Scripted, Script

LEMMA IInvVim ==
  ASSUME IInv, Vim \/ ChangeSource \/ (Kill(source) /\ UNCHANGED vimVars)
  PROVE  IInv'
<1> USE DEF IInv
<1>1. TypeOK'
  BY TypeVim
<1>2. CASE Reload \/ Interrupted
  <2>1. pc' = "idle" /\ li' = 1
    BY <1>2 DEF Reload, Interrupted, ForgetProcess
  <2> QED
    BY <1>1, <2>1, LinesIdle, FreshIdle, TagsIdle
<1>3. CASE ChangeSource \/ \E l \in Languages : EditFile(l)
  <2>1. pc = "idle" /\ pc' = "idle" /\ li' = li
    BY <1>3 DEF ChangeSource, EditFile, scriptVars
  <2>2. li = 1
    BY <2>1 DEF FreshSoFar
  <2> QED
    BY <1>1, <2>1, <2>2, LinesIdle, FreshIdle, TagsIdle
<1>4. CASE Kill(source)
  <2>1. pc' = "killed"
    BY <1>4 DEF Kill
  <2> QED
    BY <1>1, <2>1, LinesIdle, FreshIdle, TagsIdle
<1> QED
  BY <1>2, <1>3, <1>4 DEF Vim

LEMMA IInvUpdate ==
  ASSUME IInv, NEW command \in Commands, Update(command)
  PROVE  IInv'
<1> USE DEF IInv
<1>1. pc = "idle" /\ pc' \in {"ctags", "language"} /\ li' = li
  BY DEF Update, Start
<1>2. li = 1
  BY <1>1 DEF FreshSoFar
<1> QED
  BY <1>1, <1>2, TypeStart, LinesIdle, FreshIdle, TagsStart

LEMMA IInvStutter ==
  ASSUME IInv, UNCHANGED vars
  PROVE  IInv'
<1>1. UNCHANGED <<source, hl, exists, tags, types, pc, opt, failed, read, li, todo, group, cur, lines, matches>>
  BY DEF vars, vimVars, scriptVars, files, packing
<1>2. TypeOK' /\ AtWork'
  BY <1>1 DEF IInv, TypeOK, AtWork
<1>3. LinesOK'
  <2>1. Balance(group, lines, cur, matches, todo)' <=> Balance(group, lines, cur, matches, todo)
    BY <1>1, SameWanted DEF Balance
  <2>2. Shown(lines)' = Shown(lines)
    BY <1>1 DEF Shown, Items
  <2> QED
    BY <1>1, <2>1, <2>2, SameWanted DEF IInv, LinesOK, Working
<1>4. FreshSoFar'
  <2>1. \A l \in Languages : /\ Selected(l)' <=> Selected(l)
                             /\ Entries(l, tags)' = Entries(l, tags)
                             /\ FreshFile(l)' <=> FreshFile(l)
    BY <1>1 DEF Selected, Entries, Matching, GroupOf, FreshFile, Wanted, Showable, IsValidKeyword, UsedTypes
  <2> QED
    BY <1>1, <2>1, LanguageListOf DEF IInv, FreshSoFar, Working
<1>5. TagsOK'
  BY <1>1, TagsKept DEF IInv
<1> QED
  BY <1>2, <1>3, <1>4, <1>5 DEF IInv

LEMMA IInvNext == IInv /\ [Next]_vars => IInv'
<1> SUFFICES ASSUME IInv, [Next]_vars PROVE IInv'
  OBVIOUS
<1> QED
  BY IInvScript, IInvVim, IInvUpdate, IInvStutter DEF Next

LEMMA IInvAlways == Spec => []IInv
BY IInvInit, IInvNext, PTL DEF Spec

-----------------------------------------------------------------------------
(* The theorems.                                                           *)

\* The variables have their types, whatever becomes of the processes and the files.
THEOREM TypesAlways == Spec => []TypeOK
BY IInvAlways, PTL DEF IInv

\* While CreateTypesFile() fills the lines no word is lost, coloured twice or not wanted.
THEOREM NoWordIsLost == Spec => []NothingLost
<1>1. IInv => NothingLost
  BY DEF IInv, LinesOK, Balance, NothingLost
<1> QED
  BY <1>1, IInvAlways, PTL

LEMMA EndedAsTagged == IInv => FilesAsTagged
<1> SUFFICES ASSUME IInv, pc = "ended", NEW l \in Languages, Selected(l), Entries(l, tags) # {}
             PROVE  FreshFile(l)
  BY DEF FilesAsTagged, FreshFile
<1>1. PICK k \in 1..8 : LanguageList[k] = l
  BY LanguageListOf
<1>2. li = 9 /\ k < li
  BY DEF IInv, FreshSoFar
<1> QED
  BY <1>1, <1>2 DEF IInv, FreshSoFar

\* When mktypes.py has come to its end the types files hold the words of the file tags, in
\* the groups of their kinds, and clear the older ones: whatever earlier runs left behind.
THEOREM EndedFilesAreAsTagged == Spec => []FilesAsTagged
BY EndedAsTagged, IInvAlways, PTL

\* They hold what ctags finds in the sources if it was run for them and has not failed.
THEOREM EndedFilesAreUpToDate == Spec => []FilesUpToDate
<1>1. IInv => FilesUpToDate
  <2> SUFFICES ASSUME IInv, pc = "ended", Generated, ~failed, NEW l \in Languages,
                      Selected(l), Entries(l, Found(source)) # {}
               PROVE  ShownBy(l) = Wanted(l, Found(source))
    BY DEF FilesUpToDate
  <2>1. tags = Found(source)
    BY DEF IInv, TagsOK
  <2> QED
    BY <2>1, EndedAsTagged DEF FilesAsTagged, ShownBy
<1> QED
  BY <1>1, IInvAlways, PTL

\* While a types file is changed those of the languages before it are as the tags say.
THEOREM FilesAreWrittenInOrder == Spec => WrittenInOrder
<1> DEFINE Step == \A l \in Languages : types'[l] # types[l] =>
       \A k \in 1..Len(LanguageList) :
         /\ LanguageList[k] = l => k = li
         /\ k < li /\ Selected(LanguageList[k]) /\ Entries(LanguageList[k], tags) # {} =>
              Shown(types[LanguageList[k]]) = Wanted(LanguageList[k], tags)
<1>1. IInv /\ [Next]_vars => [Step]_vars
  <2> SUFFICES ASSUME IInv, Next, NEW l \in Languages, types'[l] # types[l],
                      NEW k \in 1..Len(LanguageList)
               PROVE  /\ LanguageList[k] = l => k = li
                      /\ k < li /\ Selected(LanguageList[k]) /\ Entries(LanguageList[k], tags) # {} =>
                           Shown(types[LanguageList[k]]) = Wanted(LanguageList[k], tags)
    OBVIOUS
  <2>1. types' # types /\ k \in 1..8
    BY LanguageListOf
  <2>2. /\ Working /\ li \in 1..8
        /\ \A m \in Languages : m # Lang => types'[m] = types[m]
        /\ \A i \in 1..8 : i # li => LanguageList[i] # Lang
    BY <2>1, OthersStay DEF IInv
  <2>3. l = Lang
    BY <2>2
  <2> QED
    BY <2>1, <2>2, <2>3 DEF IInv, FreshSoFar, FreshFile
<1> QED
  BY <1>1, IInvAlways, PTL DEF Spec, WrittenInOrder

-----------------------------------------------------------------------------
(* What a buffer shows after it has read a types file.                     *)

OwnGroups(l) == Values(KindList[l])

\* The first line of a file clears the groups of the language, no other line clears any.
ShapeOf(l, f) ==
  /\ f # <<>> => /\ f[1].type = "clear" /\ f[1].words = <<>>
                 /\ OwnGroups(l) \ {"LocalVariable"} \subseteq f[1].groups
  /\ \A i \in DOMAIN f : f[i].groups \subseteq OwnGroups(l)
  /\ \A i \in DOMAIN f : i # 1 => f[i].type # "clear"

\* Nothing but a part of such a line.
CutShort(l, f) ==
  Len(f) = 1 /\ f[1].type = "clear" /\ f[1].words = <<>> /\ f[1].groups \subseteq OwnGroups(l)

FileShape(l, f) == ShapeOf(l, f) \/ CutShort(l, f)

\* The groups of the files and the buffers are those of the language.
FilesOwned ==
  \A l \in Languages : /\ FileShape(l, types[l])
                       /\ \A item \in hl[l] : item[1] \in OwnGroups(l)

\* So are those of the lines at work.
LinesOwned ==
  Working => /\ ShapeOf(Lang, lines)
             /\ \A e \in todo \cup matches : e[1] \in OwnGroups(Lang)
             /\ cur # <<>> => group \in OwnGroups(Lang)

LEMMA ShapeAppend ==
  ASSUME NEW l, NEW f \in Seq(Line), f # <<>>, ShapeOf(l, f),
         NEW x \in Line, x.groups \subseteq OwnGroups(l), x.type # "clear"
  PROVE  ShapeOf(l, Append(f, x))
<1> DEFINE g == Append(f, x)
<1>1. /\ DOMAIN g = DOMAIN f \cup {Len(f) + 1}
      /\ \A i \in DOMAIN f : g[i] = f[i]
      /\ g[Len(f) + 1] = x
      /\ 1 \in DOMAIN f
  OBVIOUS
<1> HIDE DEF g
<1> QED
  BY <1>1 DEF ShapeOf, g

LEMMA ShapeTorn ==
  ASSUME NEW l, NEW f \in Seq(Line), ShapeOf(l, f), NEW t \in Torn(f)
  PROVE  FileShape(l, t)
<1>1. PICK n \in 0..Len(f) :
        /\ DOMAIN t = 1..n /\ Len(t) = n
        /\ \A i \in 1..n : i \in DOMAIN f /\ (t[i] = f[i] \/ (i = n /\ CutFrom(t[i], f[i])))
  BY TornFiles
<1>2. t \in Seq(Line)
  BY TornFiles
<1>3. \A i \in 1..n : t[i].type = f[i].type /\ t[i].groups \subseteq f[i].groups
  BY <1>1 DEF CutFrom
<1>4. \A i \in 1..n : t[i].groups \subseteq OwnGroups(l) /\ (i # 1 => t[i].type # "clear")
  BY <1>1, <1>3 DEF ShapeOf
<1>5. CASE n = 0
  BY <1>1, <1>5, <1>2 DEF FileShape, ShapeOf
<1>6. CASE n # 0 /\ t[1] = f[1]
  <2>1. f # <<>> /\ 1 \in 1..n
    BY <1>6
  <2> QED
    BY <1>1, <1>4, <1>6, <2>1 DEF FileShape, ShapeOf
<1>7. CASE n # 0 /\ t[1] # f[1]
  <2>1. f # <<>> /\ 1 \in 1..n
    BY <1>7
  <2>2. n = 1 /\ CutFrom(t[1], f[1])
    BY <1>1, <1>7, <2>1
  <2>3. t[1].type = "clear" /\ t[1].words = <<>>
    BY <2>1, <2>2 DEF ShapeOf, CutFrom
  <2> QED
    BY <1>1, <1>4, <2>2, <2>3 DEF FileShape, CutShort
<1> QED
  BY <1>5, <1>6, <1>7

(* Reading a whole file leaves its words and at most local variables. *)
LEMMA ReadWhole ==
  ASSUME NEW l \in Languages, NEW f \in Seq(Line), ShapeOf(l, f),
         NEW known, \A item \in known : item[1] \in OwnGroups(l)
  PROVE  f # <<>> => NonLocal(ReadTypes(known, f)) = NonLocal(Shown(f))
<1>1. ASSUME NEW i \in DOMAIN f, NEW g PROVE ~ClearedFrom(f, i + 1, g)
  <2>1. i \in Nat \ {0} /\ \A j \in DOMAIN f : j \in Nat
    OBVIOUS
  <2>2. \A j \in DOMAIN f : j >= i + 1 => j # 1
    BY <2>1
  <2> QED
    BY <2>2 DEF ClearedFrom, ShapeOf
<1>2. Shown(f) \subseteq ReadTypes(known, f)
  BY <1>1 DEF Shown, ReadTypes
<1>3. ASSUME f # <<>>, NEW item \in known, item[1] # "LocalVariable"
      PROVE  ClearedFrom(f, 1, item[1])
  <2>1. 1 \in DOMAIN f /\ 1 >= 1
    BY <1>3
  <2> QED
    BY <1>3, <2>1 DEF ClearedFrom, ShapeOf
<1> SUFFICES ASSUME f # <<>> PROVE NonLocal(ReadTypes(known, f)) = NonLocal(Shown(f))
  OBVIOUS
<1>4. \A item \in ReadTypes(known, f) : item[1] # "LocalVariable" => item \in Shown(f)
  BY <1>3 DEF ReadTypes, Shown
<1> QED
  BY <1>2, <1>4 DEF NonLocal

(* A file that was cut short, or emptied, has no words. *)
LEMMA ReadShape ==
  ASSUME NEW l \in Languages, NEW f \in Seq(Line), FileShape(l, f),
         NEW known, \A item \in known : item[1] \in OwnGroups(l)
  PROVE  /\ ReadTypes(known, f) \subseteq known \cup Shown(f)
         /\ \A item \in ReadTypes(known, f) : item[1] \in OwnGroups(l)
         /\ Shown(f) # {} => NonLocal(ReadTypes(known, f)) = NonLocal(Shown(f))
<1>1. ReadTypes(known, f) \subseteq known \cup Shown(f)
  BY DEF ReadTypes, Shown
<1>2. CASE ShapeOf(l, f)
  <2>1. \A item \in Shown(f) : item[1] \in OwnGroups(l)
    BY <1>2 DEF Shown, Items, ShapeOf
  <2>2. Shown(f) # {} => f # <<>>
    BY DEF Shown
  <2> QED
    BY <1>1, <1>2, <2>1, <2>2, ReadWhole
<1>3. CASE CutShort(l, f)
  <2>1. DOMAIN f = {1} /\ DOMAIN f[1].words = {}
    BY <1>3 DEF CutShort
  <2>2. Shown(f) = {}
    BY <2>1 DEF Shown, Items
  <2> QED
    BY <1>1, <2>2
<1> QED
  BY <1>2, <1>3 DEF FileShape

LEMMA UsedAreOwn ==
  ASSUME NEW l
  PROVE  UsedTypes(l) \subseteq OwnGroups(l) /\ OwnGroups(l) \ {"LocalVariable"} \subseteq UsedTypes(l)
BY DEF UsedTypes, OwnGroups

LEMMA OwnedCollect ==
  ASSUME IInv, CollectEntries
  PROVE  LinesOwned'
<1>1. /\ KindsKnown(Lang, tags) /\ Lang' = Lang /\ li <= 8
      /\ todo' = {e \in Entries(Lang, tags) : e[1] \in UsedTypes(Lang)}
      /\ lines' = <<ClearLine(UsedTypes(Lang))>> /\ cur' = <<>> /\ matches' = {}
  BY LanguageListOf, SameWanted DEF CollectEntries, AtLanguage, files
<1>2. \A e \in todo' : e[1] \in OwnGroups(Lang)
  BY <1>1, UsedAreOwn
<1>3. ShapeOf(Lang, lines')
  <2>1. DOMAIN lines' = {1} /\ lines'[1] = ClearLine(UsedTypes(Lang)) /\ lines' # <<>>
    BY <1>1
  <2> QED
    BY <2>1, UsedAreOwn DEF ShapeOf, ClearLine
<1> QED
  BY <1>1, <1>2, <1>3 DEF LinesOwned

LEMMA OwnedPack ==
  ASSUME IInv, LinesOwned, Pack
  PROVE  LinesOwned'
<1>1. Lang' = Lang /\ pc \in {"pack", "match"}
  BY SameWanted DEF Pack, NextGroup, AddInvalid, AddReserved, AddKeyword, Take, LastLine, AddMatch, EndLines, files
<1>2. /\ lines \in Seq(Line) /\ cur \in Seq(DOMAIN Word) /\ (cur # <<>> => group \in Groups)
      /\ todo \subseteq Groups \X DOMAIN Word /\ matches \in SUBSET (Groups \X DOMAIN Word)
  BY DEF IInv, TypeOK
<1>3. /\ ShapeOf(Lang, lines) /\ lines # <<>>
      /\ \A e \in todo \cup matches : e[1] \in OwnGroups(Lang)
      /\ cur # <<>> => group \in OwnGroups(Lang)
  BY <1>1 DEF IInv, LinesOK, LinesOwned, Working
<1>4. \A g \in OwnGroups(Lang) \cap Groups, ws \in Seq(DOMAIN Word) :
        ShapeOf(Lang, Append(lines, KeywordLine(g, ws)))
  <2> TAKE g \in OwnGroups(Lang) \cap Groups, ws \in Seq(DOMAIN Word)
  <2>1. KeywordLine(g, ws) \in Line
    BY LinesTyped
  <2>2. KeywordLine(g, ws).groups \subseteq OwnGroups(Lang) /\ KeywordLine(g, ws).type # "clear"
    BY DEF KeywordLine
  <2> QED
    BY <1>2, <1>3, <2>1, <2>2, ShapeAppend
<1>5. ShapeOf(Lang, Flushed)
  BY <1>2, <1>3, <1>4 DEF Flushed
<1>6. CASE NextGroup
  <2>1. PICK e \in todo : group' = e[1]
    BY <1>6 DEF NextGroup
  <2>2. lines' = Flushed /\ UNCHANGED <<todo, matches>>
    BY <1>6 DEF NextGroup
  <2> QED
    BY <1>1, <1>3, <1>5, <2>1, <2>2 DEF LinesOwned
<1>7. CASE LastLine
  <2>1. lines' = Flushed /\ cur' = <<>> /\ UNCHANGED <<todo, matches>>
    BY <1>7 DEF LastLine
  <2> QED
    BY <1>1, <1>3, <1>5, <2>1 DEF LinesOwned
<1>8. ASSUME NEW w \in DOMAIN Word, AddInvalid(w) \/ AddReserved(w) \/ AddKeyword(w)
      PROVE  LinesOwned'
  <2>1. <<group, w>> \in todo /\ todo' \subseteq todo /\ group' = group
        /\ matches' \subseteq matches \cup {<<group, w>>}
        /\ \/ lines' = lines
           \/ lines' = Append(lines, KeywordLine(group, cur))
    BY <1>8 DEF AddInvalid, AddReserved, AddKeyword, Take
  <2>2. group \in OwnGroups(Lang) \cap Groups
    <3>1. <<group, w>>[1] = group
      OBVIOUS
    <3> QED
      BY <1>2, <1>3, <2>1, <3>1
  <2>3. ShapeOf(Lang, lines')
    BY <1>2, <1>3, <1>4, <2>1, <2>2
  <2>4. \A e \in todo' \cup matches' : e[1] \in OwnGroups(Lang)
    <3>1. \A e \in todo' \cup matches' : e \in todo \cup matches \/ e = <<group, w>>
      BY <2>1
    <3> QED
      BY <1>3, <2>2, <3>1
  <2> QED
    BY <1>1, <2>1, <2>2, <2>3, <2>4 DEF LinesOwned
<1>9. CASE AddMatch
  <2>1. PICK m \in matches : matches' = matches \ {m} /\ lines' = Append(lines, MatchLine(m[1], m[2]))
    BY <1>9 DEF AddMatch
  <2>2. UNCHANGED <<todo, group, cur>>
    BY <1>9 DEF AddMatch
  <2>3. MatchLine(m[1], m[2]) \in Line
    BY <1>2, LinesTyped
  <2>4. MatchLine(m[1], m[2]).groups \subseteq OwnGroups(Lang) /\ MatchLine(m[1], m[2]).type # "clear"
    BY <1>3 DEF MatchLine
  <2>5. ShapeOf(Lang, lines')
    BY <1>2, <1>3, <2>1, <2>3, <2>4, ShapeAppend
  <2> QED
    BY <1>1, <1>3, <2>1, <2>2, <2>5 DEF LinesOwned
<1>10. CASE EndLines
  <2> DEFINE used == {e[1] : e \in Entries(Lang, tags)} \cap UsedTypes(Lang)
  <2>1. /\ \/ lines' = lines
           \/ lines' = Append(lines, ClusterLine(used))
        /\ UNCHANGED <<todo, group, cur, matches>>
    BY <1>10 DEF EndLines
  <2>2. used \subseteq OwnGroups(Lang) /\ used \subseteq Groups
    <3>1. li # 9
      BY <1>1 DEF IInv, AtWork
    <3>2. Lang \in Languages
      BY <3>1, LangTyped DEF IInv
    <3> QED
      BY <3>2, UsedTypesTyped, UsedAreOwn
  <2>3. ClusterLine(used) \in Line
    BY <2>2, LinesTyped
  <2>4. ClusterLine(used).groups \subseteq OwnGroups(Lang) /\ ClusterLine(used).type # "clear"
    BY <2>2 DEF ClusterLine
  <2>5. ShapeOf(Lang, lines')
    BY <1>2, <1>3, <2>1, <2>3, <2>4, ShapeAppend
  <2> QED
    BY <1>1, <1>3, <2>1, <2>5 DEF LinesOwned
<1> QED
  BY <1>6, <1>7, <1>8, <1>9, <1>10 DEF Pack

(* Every step keeps the lines at work as they should be. *)
LEMMA OwnedLines ==
  ASSUME IInv, LinesOwned, [Next]_vars
  PROVE  LinesOwned'
<1>1. CASE CollectEntries
  BY <1>1, OwnedCollect
<1>2. CASE Pack
  BY <1>2, OwnedPack
<1>3. CASE OpenTypes \/ UNCHANGED vars
  <2>1. Working' => Working
    BY <1>3 DEF OpenTypes, vars, scriptVars, Working
  <2>2. Lang' = Lang /\ UNCHANGED <<lines, todo, matches, cur, group>>
    BY <1>3 DEF OpenTypes, vars, scriptVars, files, packing, Lang
  <2> QED
    BY <2>1, <2>2 DEF LinesOwned
<1>4. CASE ~Working'
  BY <1>4 DEF LinesOwned
<1>5. Working' => CollectEntries \/ Pack \/ OpenTypes \/ UNCHANGED vars
  BY DEF Working, Next, Scripted, Script, RunCtags, ReadTags, NoTagsFile, TruncateTags, RewriteTags, CannotRewrite,
         NotSelected, UnknownKind, NoTagsFound, AtLanguage, NextLanguage, CannotOpen, WriteTypes,
         CannotWrite, Done, Kill, Vim, Reload, Interrupted, EditFile, Update, Start, ChangeSource,
         scriptVars
<1> QED
  BY <1>1, <1>2, <1>3, <1>4, <1>5

(* A file becomes empty, or what has been written of the lines by then. *)
LEMMA TypesSteps ==
  ASSUME TypeOK, AtWork, Next, types' # types, NEW l \in Languages
  PROVE  /\ Working
         /\ \/ l # Lang /\ types'[l] = types[l]
            \/ l = Lang /\ (types'[l] = <<>> \/ types'[l] \in Torn(lines) \cup {lines})
<1>1. /\ Working /\ Lang \in Languages
      /\ \A m \in Languages : m # Lang => types'[m] = types[m]
  BY OthersStay
<1>2. \/ types' = [types EXCEPT ![Lang] = <<>>]
      \/ \E torn \in Torn(lines) \cup {lines} : types' = [types EXCEPT ![Lang] = torn]
  BY DEF Next, Scripted, Script, RunCtags, ReadTags, NoTagsFile, TruncateTags, RewriteTags, CannotRewrite,
         NotSelected, UnknownKind, NoTagsFound, CollectEntries, NextLanguage, Pack, NextGroup,
         AddInvalid, AddReserved, AddKeyword, LastLine, AddMatch, EndLines, CannotOpen, Done,
         OpenTypes, WriteTypes, CannotWrite,
         Kill, Vim, Reload, Interrupted, EditFile, Update, Start, ChangeSource, files, scriptVars
<1> QED
  BY <1>1, <1>2, Typed

(* A buffer changes only when it reads its file. *)
LEMMA HighlightSteps ==
  ASSUME TypeOK, [Next]_vars, NEW l \in Languages
  PROVE  hl'[l] = hl[l] \/ hl'[l] = ReadTypes(hl[l], types[l]) \/ hl'[l] = ReadTypes({}, types[l])
<1>1. \/ hl' = hl
      \/ Reload
      \/ \E m \in Languages : EditFile(m)
  BY DEF Next, Scripted, Kill, Vim, Interrupted, Update, ChangeSource, vars, vimVars
<1>2. CASE Reload
  BY <1>2 DEF Reload
<1>3. ASSUME NEW m \in Languages, EditFile(m)
      PROVE  hl'[l] = hl[l] \/ hl'[l] = ReadTypes({}, types[l])
  BY <1>3, Typed DEF EditFile
<1> QED
  BY <1>1, <1>2, <1>3

(* A file and a buffer change to what has the groups of the language. *)
LEMMA OwnedFiles ==
  ASSUME IInv, FilesOwned, LinesOwned, [Next]_vars
  PROVE  FilesOwned'
<1> SUFFICES ASSUME NEW l \in Languages
             PROVE  FileShape(l, types'[l]) /\ \A item \in hl'[l] : item[1] \in OwnGroups(l)
  BY DEF FilesOwned
<1>1. /\ types[l] \in Seq(Line) /\ FileShape(l, types[l])
      /\ \A item \in hl[l] : item[1] \in OwnGroups(l)
  BY Typed DEF IInv, FilesOwned
<1>2. FileShape(l, types'[l])
  <2>1. CASE types' = types
    BY <1>1, <2>1
  <2>2. CASE types' # types
    <3>1. Next
      BY <2>2 DEF vars, scriptVars, files
    <3>2. /\ Working
          /\ \/ l # Lang /\ types'[l] = types[l]
             \/ l = Lang /\ (types'[l] = <<>> \/ types'[l] \in Torn(lines) \cup {lines})
      BY <2>2, <3>1, TypesSteps DEF IInv
    <3>3. FileShape(Lang, <<>>)
      <4>1. DOMAIN <<>> = {}
        OBVIOUS
      <4> QED
        BY <4>1 DEF FileShape, ShapeOf
    <3>4. \A torn \in Torn(lines) \cup {lines} : FileShape(Lang, torn)
      BY <3>2, ShapeTorn, Typed DEF IInv, LinesOwned, FileShape
    <3> QED
      BY <1>1, <3>2, <3>3, <3>4
  <2> QED
    BY <2>1, <2>2
<1>3. hl'[l] = hl[l] \/ hl'[l] = ReadTypes(hl[l], types[l]) \/ hl'[l] = ReadTypes({}, types[l])
  BY HighlightSteps DEF IInv
<1>4. \A item \in hl'[l] : item[1] \in OwnGroups(l)
  <2>1. \A item \in ReadTypes({}, types[l]) : item[1] \in OwnGroups(l)
    BY <1>1, ReadShape
  <2>2. \A item \in ReadTypes(hl[l], types[l]) : item[1] \in OwnGroups(l)
    BY <1>1, ReadShape
  <2> QED
    BY <1>1, <1>3, <2>1, <2>2
<1> QED
  BY <1>2, <1>4

LEMMA OwnedInit == Init => FilesOwned /\ LinesOwned
<1> SUFFICES ASSUME Init PROVE FilesOwned /\ LinesOwned
  OBVIOUS
<1>1. \A l \in Languages : types[l] = <<>> /\ hl[l] = {}
  BY DEF Init
<1>2. DOMAIN <<>> = {}
  OBVIOUS
<1>3. FilesOwned
  BY <1>1, <1>2 DEF FilesOwned, FileShape, ShapeOf
<1> QED
  BY <1>3 DEF Init, LinesOwned, Working

LEMMA OwnedAlways == Spec => [](IInv /\ FilesOwned /\ LinesOwned)
<1>1. IInv /\ FilesOwned /\ LinesOwned /\ [Next]_vars => (IInv /\ FilesOwned /\ LinesOwned)'
  BY IInvNext, OwnedLines, OwnedFiles
<1> QED
  BY <1>1, IInvInit, OwnedInit, PTL DEF Spec

\* A buffer that reads a types file with a word in it shows the words of that file and of
\* older files at most local variables, also when the file was cut off; no reading of a file
\* adds words it does not have.
THEOREM ReadingClearsOldColours == Spec => OldColoursCleared
<1> DEFINE Step == \A l \in Languages : Reads(l) =>
       /\ hl'[l] \subseteq hl[l] \cup ShownBy(l)
       /\ ShownBy(l) # {} => NonLocal(hl'[l]) = NonLocal(ShownBy(l))
<1>1. IInv /\ FilesOwned => Step
  <2> SUFFICES ASSUME IInv, FilesOwned, NEW l \in Languages, Reads(l)
               PROVE  /\ hl'[l] \subseteq hl[l] \cup ShownBy(l)
                      /\ ShownBy(l) # {} => NonLocal(hl'[l]) = NonLocal(ShownBy(l))
    OBVIOUS
  <2>1. /\ types[l] \in Seq(Line) /\ FileShape(l, types[l])
        /\ \A item \in hl[l] : item[1] \in OwnGroups(l)
    BY Typed DEF IInv, FilesOwned
  <2>2. hl'[l] = ReadTypes(hl[l], types[l]) \/ hl'[l] = ReadTypes({}, types[l])
    BY Typed DEF IInv, Reads, Reload, EditFile
  <2> QED
    BY <2>1, <2>2, ReadShape DEF ShownBy
<1> QED
  BY <1>1, OwnedAlways, PTL DEF Spec, OldColoursCleared

-----------------------------------------------------------------------------
(* The order of the groups in a types file.                                *)

LEMMA GroupsListed == Groups \subseteq ToSet(GroupsByName) /\ "" \notin Groups
<1>1. \A l \in Languages : Values(KindList[l]) \subseteq ToSet(GroupsByName)
  BY DEF Languages, LanguageList, ToSet, KindList, CKinds, JavaKinds, PerlKinds, PythonKinds,
         RubyKinds, VhdlKinds, PhpKinds, CSharpKinds, Values, GroupsByName
<1>2. "" \notin ToSet(GroupsByName)
  <2>1. ToSet(GroupsByName) =
          {"Class", "DefinedName", "Type", "Function", "EnumerationValue", "EnumeratorName",
           "Constant", "GlobalVariable", "Union", "Member", "Structure", "Component", "Entity",
           "EnumerationName", "Event", "Extern", "Field", "Format", "GlobalConstant", "Import",
           "Interface", "Label", "LocalVariable", "Method", "Module", "Namespace", "Package",
           "Property", "Prototype", "Record", "Singleton", "TypeComponent"}
    BY DEF ToSet, GroupsByName
  <2> QED
    BY <2>1, Zenon
<1> QED
  BY <1>1, <1>2 DEF Groups

(* The groups of the list come first, from the 11th place down, the others after them. *)
LEMMA Places ==
  /\ \A g \in Groups : g \in ToSet(Priority) =>
       \E a \in DOMAIN Priority : Priority[a] = g /\ Place[g] = 12 - a
  /\ \A g \in Groups : g \notin ToSet(Priority) => Place[g] \in Int /\ Place[g] > 11
  /\ DOMAIN Priority = 1..11
<1>1. DOMAIN Priority = 1..11 /\ Len(Priority) = 11
  BY DEF Priority
<1>2. ASSUME NEW g \in Groups, g \in ToSet(Priority)
      PROVE  \E a \in DOMAIN Priority : Priority[a] = g /\ Place[g] = 12 - a
  <2> DEFINE a == CHOOSE i \in DOMAIN Priority : Priority[i] = g
  <2>1. a \in DOMAIN Priority /\ Priority[a] = g
    BY <1>2 DEF ToSet
  <2>2. Place[g] = Len(Priority) + 1 - a
    BY <1>2 DEF Place
  <2> HIDE DEF a
  <2> QED
    BY <1>1, <2>1, <2>2
<1>3. ASSUME NEW g \in Groups, g \notin ToSet(Priority)
      PROVE  Place[g] \in Int /\ Place[g] > 11
  <2>1. \E i \in DOMAIN GroupsByName : GroupsByName[i] = g
    BY GroupsListed DEF ToSet
  <2>2. DOMAIN GroupsByName \subseteq Nat \ {0}
    BY DEF GroupsByName
  <2>3. NameRank[g] \in Nat \ {0}
    BY <2>1, <2>2 DEF NameRank
  <2>4. Place[g] = Len(Priority) + NameRank[g]
    BY <1>3 DEF Place
  <2> QED
    BY <1>1, <2>3, <2>4
<1> QED
  BY <1>1, <1>2, <1>3

LEMMA PlaceTyped == \A g \in Groups : Place[g] \in Int
<1>1. \A a \in 1..11 : 12 - a \in Int
  OBVIOUS
<1> QED
  BY <1>1, Places

(* A later place is a higher priority. *)
LEMMA PlaceOfPriority ==
  ASSUME NEW g \in Groups, NEW h \in Groups, h \in ToSet(Priority), Place[g] <= Place[h]
  PROVE  Outranks(h, g)
<1>1. PICK a \in 1..11 : Priority[a] = h /\ Place[h] = 12 - a
  BY Places
<1>2. g \in ToSet(Priority)
  BY <1>1, Places
<1>3. PICK b \in 1..11 : Priority[b] = g /\ Place[g] = 12 - b
  BY <1>2, Places
<1>4. a <= b
  BY <1>1, <1>3
<1> QED
  BY <1>1, <1>3, <1>4, Places DEF Outranks

\* The keyword lines of a file follow the places of their groups.
InOrder(f) ==
  \A i, j \in DOMAIN f : f[i].type = "keyword" /\ f[j].type = "keyword" /\ i < j =>
    \A g \in f[i].groups, h \in f[j].groups : Place[g] <= Place[h]

\* The keyword lines of f are of groups that come no later than g.
EndsBefore(f, g) == \A i \in DOMAIN f : f[i].type = "keyword" => \A h \in f[i].groups : Place[h] <= Place[g]

\* Files and lines are in order; the group at work comes after those on lines and before
\* those to come.
Ordered ==
  /\ \A l \in Languages : InOrder(types[l])
  /\ Working => InOrder(lines)
  /\ pc = "pack" =>
       /\ group \in Groups => EndsBefore(lines, group) /\ \A e \in todo : Place[group] <= Place[e[1]]
       /\ group \notin Groups => \A i \in DOMAIN lines : lines[i].type # "keyword"

LEMMA InOrderKeyword ==
  ASSUME NEW f \in Seq(Line), InOrder(f), NEW g \in Groups, NEW ws, EndsBefore(f, g)
  PROVE  InOrder(Append(f, KeywordLine(g, ws))) /\ EndsBefore(Append(f, KeywordLine(g, ws)), g)
<1> DEFINE x == KeywordLine(g, ws)
           a == Append(f, x)
<1>1. /\ DOMAIN a = DOMAIN f \cup {Len(f) + 1}
      /\ \A i \in DOMAIN f : a[i] = f[i] /\ i \in 1..Len(f)
      /\ a[Len(f) + 1] = x /\ Len(f) \in Nat
  OBVIOUS
<1>2. x.groups = {g} /\ Place[g] \in Int
  BY PlaceTyped DEF KeywordLine
<1> HIDE DEF a, x
<1>3. InOrder(a)
  <2> SUFFICES ASSUME NEW i \in DOMAIN a, NEW j \in DOMAIN a, i < j,
                      a[i].type = "keyword", a[j].type = "keyword",
                      NEW b \in a[i].groups, NEW c \in a[j].groups
               PROVE  Place[b] <= Place[c]
    BY DEF InOrder
  <2>1. i \in DOMAIN f
    BY <1>1
  <2> QED
    BY <1>1, <1>2, <2>1 DEF InOrder, EndsBefore
<1>4. EndsBefore(a, g)
  BY <1>1, <1>2 DEF EndsBefore
<1> QED
  BY <1>3, <1>4 DEF a, x

LEMMA InOrderOther ==
  ASSUME NEW f \in Seq(Line), InOrder(f), NEW x, x.type # "keyword"
  PROVE  InOrder(Append(f, x))
<1> DEFINE a == Append(f, x)
<1>1. /\ DOMAIN a = DOMAIN f \cup {Len(f) + 1}
      /\ \A i \in DOMAIN f : a[i] = f[i]
      /\ a[Len(f) + 1] = x
  OBVIOUS
<1> HIDE DEF a
<1> QED
  BY <1>1 DEF InOrder, a

LEMMA InOrderTorn ==
  ASSUME NEW f \in Seq(Line), InOrder(f), NEW t \in Torn(f)
  PROVE  InOrder(t)
<1>1. \A i \in DOMAIN t : i \in DOMAIN f /\ t[i].type = f[i].type /\ t[i].groups \subseteq f[i].groups
  BY TornFiles DEF CutFrom
<1> QED
  BY <1>1 DEF InOrder

LEMMA OrderedCollect ==
  ASSUME IInv, Ordered, CollectEntries
  PROVE  Ordered'
<1>1. types' = types /\ lines' = <<ClearLine(UsedTypes(Lang))>> /\ group' = ""
  BY DEF CollectEntries, files
<1>2. DOMAIN lines' = {1} /\ lines'[1].type # "keyword"
  <2>1. \A x : DOMAIN <<x>> = {1} /\ <<x>>[1] = x
    OBVIOUS
  <2>2. ClearLine(UsedTypes(Lang)).type = "clear"
    BY DEF ClearLine
  <2> QED
    BY <1>1, <2>1, <2>2
<1>3. InOrder(lines')
  BY <1>2 DEF InOrder
<1> QED
  BY <1>1, <1>2, <1>3, GroupsListed DEF Ordered

LEMMA OrderedPack ==
  ASSUME IInv, Ordered, Pack
  PROVE  Ordered'
<1>1. types' = types /\ pc \in {"pack", "match"}
  BY DEF Pack, NextGroup, AddInvalid, AddReserved, AddKeyword, Take, LastLine, AddMatch, EndLines, files
<1>2. /\ lines \in Seq(Line) /\ cur \in Seq(DOMAIN Word) /\ (cur # <<>> => group \in Groups)
      /\ todo \subseteq Groups \X DOMAIN Word
      /\ InOrder(lines) /\ \A l \in Languages : InOrder(types[l])
  BY <1>1 DEF IInv, TypeOK, Ordered, Working
<1>3. pc = "pack" /\ group \in Groups =>
        EndsBefore(lines, group) /\ \A e \in todo : Place[group] <= Place[e[1]]
  BY DEF Ordered
<1>4. pc = "pack" => /\ InOrder(Flushed)
                     /\ group \in Groups => EndsBefore(Flushed, group)
                     /\ group \notin Groups => \A i \in DOMAIN Flushed : Flushed[i].type # "keyword"
  BY <1>2, <1>3, InOrderKeyword DEF Flushed, Ordered
<1>5. CASE NextGroup
  <2>1. PICK e \in todo : group' = e[1] /\ \A f \in todo : Place[e[1]] <= Place[f[1]]
    BY <1>5 DEF NextGroup
  <2>2. pc = "pack" /\ lines' = Flushed /\ todo' = todo /\ e[1] \in Groups
    BY <1>2, <1>5, <2>1 DEF NextGroup
  <2>3. EndsBefore(Flushed, e[1])
    <3>1. CASE group \notin Groups
      BY <1>4, <2>2, <3>1 DEF EndsBefore
    <3>2. CASE group \in Groups
      <4>1. Place[group] <= Place[e[1]] /\ EndsBefore(Flushed, group)
        BY <1>3, <1>4, <2>2, <3>2
      <4>2. Flushed \in Seq(Line)
        BY FlushedTyped DEF IInv
      <4>3. \A i \in DOMAIN Flushed : Flushed[i].groups \subseteq Groups
        <5>1. \A i \in DOMAIN Flushed : Flushed[i] \in Line
          BY <4>2
        <5> QED
          BY <5>1 DEF Line
      <4> QED
        BY <2>2, <3>2, <4>1, <4>3, PlaceTyped DEF EndsBefore
    <3> QED
      BY <3>1, <3>2
  <2> QED
    BY <1>1, <1>2, <1>4, <2>1, <2>2, <2>3 DEF Ordered
<1>6. CASE LastLine
  <2>1. pc = "pack" /\ pc' = "match" /\ lines' = Flushed
    BY <1>6 DEF LastLine
  <2> QED
    BY <1>1, <1>2, <1>4, <2>1 DEF Ordered
<1>7. ASSUME NEW w \in DOMAIN Word, AddInvalid(w) \/ AddReserved(w) \/ AddKeyword(w)
      PROVE  Ordered'
  <2>1. /\ pc = "pack" /\ <<group, w>> \in todo /\ todo' \subseteq todo /\ group' = group
        /\ \/ lines' = lines
           \/ lines' = Append(lines, KeywordLine(group, cur))
    BY <1>7 DEF AddInvalid, AddReserved, AddKeyword, Take
  <2>2. group \in Groups
    BY <1>2, <2>1
  <2>3. InOrder(lines') /\ EndsBefore(lines', group)
    BY <1>2, <1>3, <2>1, <2>2, InOrderKeyword
  <2> QED
    BY <1>1, <1>2, <1>3, <2>1, <2>2, <2>3 DEF Ordered
<1>8. CASE AddMatch \/ EndLines
  <2>1. /\ pc = "match" /\ pc' \in {"match", "open"}
        /\ \/ lines' = lines
           \/ \E m \in matches : lines' = Append(lines, MatchLine(m[1], m[2]))
           \/ \E gs : lines' = Append(lines, ClusterLine(gs))
    BY <1>8 DEF AddMatch, EndLines
  <2>2. \A g, w : MatchLine(g, w).type # "keyword" /\ ClusterLine(g).type # "keyword"
    BY DEF MatchLine, ClusterLine
  <2>3. InOrder(lines')
    BY <1>2, <2>1, <2>2, InOrderOther
  <2> QED
    BY <1>1, <1>2, <2>1, <2>3 DEF Ordered
<1> QED
  BY <1>5, <1>6, <1>7, <1>8 DEF Pack

(* Any other step leaves the lines, or has no use for them. *)
LEMMA OtherSteps ==
  ASSUME Next, ~CollectEntries, ~Pack
  PROVE  pc' \notin {"pack", "match"} /\ (Working' => Working /\ lines' = lines)
BY DEF Working, Next, Scripted, Script, RunCtags, ReadTags, NoTagsFile, TruncateTags,
       RewriteTags, CannotRewrite, NotSelected, UnknownKind, NoTagsFound, AtLanguage, NextLanguage, OpenTypes,
       CannotOpen, WriteTypes, CannotWrite, Done, Kill, Vim, Reload, Interrupted, EditFile,
       Update, Start, ChangeSource, scriptVars, packing

LEMMA OrderedNext ==
  ASSUME IInv, Ordered, [Next]_vars
  PROVE  Ordered'
<1>1. CASE CollectEntries
  BY <1>1, OrderedCollect
<1>2. CASE Pack
  BY <1>2, OrderedPack
<1>3. CASE UNCHANGED vars
  BY <1>3 DEF vars, scriptVars, files, packing, Ordered, Working
<1>4. CASE Next /\ ~CollectEntries /\ ~Pack
  <2>1. pc' # "pack" /\ (Working' => Working /\ lines' = lines)
    BY <1>4, OtherSteps
  <2>2. \A l \in Languages : InOrder(types'[l])
    <3> TAKE l \in Languages
    <3>1. InOrder(types[l])
      BY DEF Ordered
    <3>2. CASE types' # types
      <4>1. Working /\ \/ types'[l] = types[l]
                       \/ types'[l] = <<>>
                       \/ types'[l] \in Torn(lines) \cup {lines}
        BY <1>4, <3>2, TypesSteps DEF IInv
      <4>2. lines \in Seq(Line) /\ InOrder(lines)
        BY <4>1 DEF IInv, TypeOK, Ordered
      <4>3. InOrder(<<>>)
        <5>1. DOMAIN <<>> = {}
          OBVIOUS
        <5> QED
          BY <5>1 DEF InOrder
      <4> QED
        BY <3>1, <4>1, <4>2, <4>3, InOrderTorn
    <3> QED
      BY <3>1, <3>2
  <2> QED
    BY <2>1, <2>2 DEF Ordered
<1> QED
  BY <1>1, <1>2, <1>3, <1>4

\* Of the keyword lines of a types file the one of the group with the highest priority comes
\* last, so that Vim shows it, unless there is one of a group without a priority; the
\* patterns are in another order.  So it is whatever became of the process.
THEOREM PriorityIsKept == Spec => []PriorityKept
<1>1. Init => Ordered
  <2> SUFFICES ASSUME Init PROVE Ordered
    OBVIOUS
  <2>1. DOMAIN <<>> = {} /\ \A l \in Languages : types[l] = <<>>
    BY DEF Init
  <2> QED
    BY <2>1 DEF Init, Ordered, InOrder, Working
<1>2. IInv /\ Ordered => PriorityKept
  <2> SUFFICES ASSUME IInv, Ordered, NEW l \in Languages,
                      NEW i \in DOMAIN types[l], NEW j \in DOMAIN types[l],
                      NEW g \in types[l][i].groups, NEW h \in types[l][j].groups,
                      types[l][i].type = "keyword", types[l][j].type = "keyword",
                      h \in ToSet(Priority), i < j
               PROVE  Outranks(h, g)
    BY DEF PriorityKept
  <2>1. types[l] \in Seq(Line)
    BY Typed DEF IInv
  <2>2. types[l][i] \in Line /\ types[l][j] \in Line
    BY <2>1
  <2>3. g \in Groups /\ h \in Groups
    BY <2>2 DEF Line
  <2>4. Place[g] <= Place[h]
    BY DEF Ordered, InOrder
  <2> QED
    BY <2>3, <2>4, PlaceOfPriority
<1>3. IInv /\ Ordered /\ [Next]_vars => (IInv /\ Ordered)'
  BY IInvNext, OrderedNext
<1> QED
  BY <1>1, <1>2, <1>3, IInvInit, PTL DEF Spec

-----------------------------------------------------------------------------
(* The length of the lines.                                                *)

\* The last line has no keyword.
EndsEmpty(f) == f # <<>> /\ f[Len(f)].type = "keyword" /\ f[Len(f)].words = <<>>

\* The keywords at work fit on a line, and the first of them does not after an empty line.
CurrentFits ==
  /\ LineLength(cur) >= LineLimit => Len(cur) <= 1
  /\ EndsEmpty(lines) => cur # <<>> /\ LineLength(SubSeq(cur, 1, 1)) >= LineLimit

AllFit ==
  /\ \A l \in Languages : FileFits(types[l])
  /\ Working => FileFits(lines)
  /\ pc = "pack" => CurrentFits
  /\ pc = "match" => ~EndsEmpty(lines)

LEMMA OneElement == \A w : Len(<<w>>) = 1 /\ Append(<<>>, w) = <<w>> /\ <<w>> # <<>>
OBVIOUS

LEMMA FirstElement ==
  ASSUME NEW S, NEW s \in Seq(S), s # <<>>
  PROVE  SubSeq(s, 1, 1) = <<s[1]>>
<1> DEFINE a == SubSeq(s, 1, 1)
           b == <<s[1]>>
<1>1. a \in Seq(S) /\ Len(a) = 1 /\ a[1] = s[1] /\ s[1] \in S
  OBVIOUS
<1>2. b \in Seq(S) /\ Len(b) = 1 /\ b[1] = s[1]
  BY <1>1
<1> HIDE DEF a, b
<1>3. \A i \in 1..Len(a) : a[i] = b[i]
  BY <1>1, <1>2
<1>4. a = b
  BY <1>1, <1>2, <1>3, SeqEqual
<1> QED
  BY <1>4 DEF a, b

LEMMA FirstOfOne ==
  ASSUME NEW w
  PROVE  SubSeq(<<w>>, 1, 1) = <<w>> /\ Len(<<w>>) <= 1
<1>1. <<w>> \in Seq({w}) /\ <<w>> # <<>> /\ <<w>>[1] = w
  OBVIOUS
<1>2. SubSeq(<<w>>, 1, 1) = <<w>>
  BY <1>1, FirstElement
<1>3. Len(<<w>>) <= 1
  OBVIOUS
<1> QED
  BY <1>2, <1>3

LEMMA FitsAppend ==
  ASSUME NEW f \in Seq(Line), FileFits(f), NEW x,
         x.type = "keyword" => (LineLength(x.words) >= LineLimit => Len(x.words) <= 1),
         EndsEmpty(f) => LineLength(SubSeq(x.words, 1, 1)) >= LineLimit
  PROVE  /\ FileFits(Append(f, x))
         /\ EndsEmpty(Append(f, x)) <=> x.type = "keyword" /\ x.words = <<>>
<1> DEFINE a == Append(f, x)
<1>1. /\ DOMAIN a = 1..Len(f) + 1 /\ DOMAIN f = 1..Len(f)
      /\ \A i \in 1..Len(f) : a[i] = f[i]
      /\ a[Len(f) + 1] = x /\ Len(a) = Len(f) + 1 /\ Len(f) \in Nat /\ a # <<>>
      /\ f = <<>> => Len(f) = 0
  OBVIOUS
<1> HIDE DEF a
<1>2. FileFits(a)
  <2> SUFFICES ASSUME NEW i \in DOMAIN a, a[i].type = "keyword"
               PROVE  /\ LineLength(a[i].words) >= LineLimit => Len(a[i].words) <= 1
                      /\ a[i].words = <<>> /\ i < Len(a) =>
                           LineLength(SubSeq(a[i + 1].words, 1, 1)) >= LineLimit
    BY DEF FileFits
  <2>1. CASE i = Len(f) + 1
    BY <1>1, <2>1
  <2>2. CASE i = Len(f) /\ i # Len(f) + 1
    <3>1. i \in 1..Len(f) + 1 /\ Len(f) \in Nat
      BY <1>1
    <3>2. i \in 1..Len(f) /\ Len(f) # 0
      BY <2>2, <3>1
    <3>3. i \in DOMAIN f /\ f # <<>> /\ a[i] = f[i] /\ a[i + 1] = x
      BY <1>1, <2>2, <3>2
    <3> QED
      BY <2>2, <3>3 DEF FileFits, EndsEmpty
  <2>3. CASE i \in 1..Len(f) - 1
    <3>1. i \in DOMAIN f /\ a[i] = f[i] /\ a[i + 1] = f[i + 1] /\ i < Len(f)
      BY <1>1, <2>3
    <3> QED
      BY <3>1 DEF FileFits
  <2> QED
    BY <1>1, <2>1, <2>2, <2>3
<1>3. EndsEmpty(a) <=> x.type = "keyword" /\ x.words = <<>>
  BY <1>1 DEF EndsEmpty
<1> QED
  BY <1>2, <1>3 DEF a

LEMMA FitsTorn ==
  ASSUME NEW l, NEW f \in Seq(Line), FileFits(f), ShapeOf(l, f), NEW t \in Torn(f)
  PROVE  FileFits(t)
<1>1. PICK n \in 0..Len(f) :
        /\ DOMAIN t = 1..n /\ Len(t) = n
        /\ \A i \in 1..n : i \in DOMAIN f /\ (t[i] = f[i] \/ (i = n /\ CutFrom(t[i], f[i])))
  BY TornFiles
<1>2. \A i \in 1..n : i < n => t[i] = f[i] /\ i + 1 \in 1..n /\ i < Len(f)
  BY <1>1
<1>3. ASSUME NEW i \in 1..n, f[i].type # "clear"
      PROVE  SubSeq(t[i].words, 1, 1) = SubSeq(f[i].words, 1, 1)
  <2>1. CASE t[i] = f[i]
    BY <2>1
  <2>2. CASE CutFrom(t[i], f[i])
    <3>1. f[i] \in Line
      BY <1>1
    <3>2. f[i].words \in Seq(DOMAIN Word) /\ f[i].words # <<>> /\ t[i].words = <<f[i].words[1]>>
      BY <1>3, <2>2, <3>1 DEF Line, CutFrom
    <3>3. SubSeq(f[i].words, 1, 1) = <<f[i].words[1]>>
      BY <3>2, FirstElement
    <3> QED
      BY <3>2, <3>3, FirstOfOne, Zenon
  <2> QED
    BY <1>1, <2>1, <2>2
<1> SUFFICES ASSUME NEW i \in 1..n, t[i].type = "keyword"
             PROVE  /\ LineLength(t[i].words) >= LineLimit => Len(t[i].words) <= 1
                    /\ t[i].words = <<>> /\ i < n =>
                         LineLength(SubSeq(t[i + 1].words, 1, 1)) >= LineLimit
  BY <1>1 DEF FileFits
<1>4. CASE t[i] = f[i]
  <2>1. LineLength(t[i].words) >= LineLimit => Len(t[i].words) <= 1
    BY <1>1, <1>4 DEF FileFits
  <2>2. ASSUME t[i].words = <<>>, i < n
        PROVE  LineLength(SubSeq(t[i + 1].words, 1, 1)) >= LineLimit
    <3>1. i + 1 \in 1..n /\ i < Len(f) /\ i \in DOMAIN f
      BY <1>1, <1>2, <2>2
    <3>2. i + 1 # 1 /\ i + 1 \in DOMAIN f
      BY <1>1, <3>1
    <3>3. f[i + 1].type # "clear"
      BY <3>2 DEF ShapeOf
    <3>4. LineLength(SubSeq(f[i + 1].words, 1, 1)) >= LineLimit
      BY <1>4, <2>2, <3>1 DEF FileFits
    <3>5. SubSeq(t[i + 1].words, 1, 1) = SubSeq(f[i + 1].words, 1, 1)
      BY <1>3, <3>1, <3>3
    <3> QED
      BY <3>4, <3>5
  <2> QED
    BY <2>1, <2>2
<1>5. CASE t[i] # f[i]
  <2>1. i = n /\ CutFrom(t[i], f[i])
    BY <1>1, <1>5
  <2>2. t[i].words = <<f[i].words[1]>>
    BY <2>1, <1>1 DEF CutFrom
  <2>3. Len(t[i].words) <= 1 /\ t[i].words # <<>>
    BY <2>2, FirstOfOne, OneElement, Zenon
  <2> QED
    BY <2>3
<1> QED
  BY <1>4, <1>5

LEMMA FitPack ==
  ASSUME IInv, AllFit, Pack
  PROVE  AllFit'
<1>1. types' = types /\ pc \in {"pack", "match"}
  BY DEF Pack, NextGroup, AddInvalid, AddReserved, AddKeyword, Take, LastLine, AddMatch, EndLines, files
<1>2. /\ lines \in Seq(Line) /\ cur \in Seq(DOMAIN Word)
      /\ FileFits(lines) /\ \A l \in Languages : FileFits(types[l])
      /\ pc = "pack" => CurrentFits
      /\ pc = "match" => ~EndsEmpty(lines)
  BY <1>1 DEF IInv, TypeOK, AllFit, Working
<1>3. \A g, ws : KeywordLine(g, ws).words = ws /\ KeywordLine(g, ws).type = "keyword"
  BY DEF KeywordLine
<1>4. pc = "pack" => FileFits(Append(lines, KeywordLine(group, cur)))
                     /\ (EndsEmpty(Append(lines, KeywordLine(group, cur))) <=> cur = <<>>)
  BY <1>2, <1>3, FitsAppend DEF CurrentFits
<1>5. pc = "pack" => FileFits(Flushed) /\ ~EndsEmpty(Flushed)
  BY <1>2, <1>4 DEF Flushed, CurrentFits
<1>6. Len(<<>>) = 0
  OBVIOUS
<1>7. CASE NextGroup \/ LastLine
  <2>1. pc = "pack" /\ pc' \in {"pack", "match"} /\ lines' = Flushed /\ cur' = <<>>
    BY <1>7 DEF NextGroup, LastLine
  <2> QED
    BY <1>1, <1>2, <1>5, <1>6, <2>1 DEF AllFit, CurrentFits
<1>8. ASSUME NEW w \in DOMAIN Word, AddInvalid(w) \/ AddReserved(w)
      PROVE  AllFit'
  BY <1>1, <1>2, <1>8 DEF AddInvalid, AddReserved, Take, AllFit, CurrentFits
<1>9. ASSUME NEW w \in DOMAIN Word, AddKeyword(w)
      PROVE  AllFit'
  <2>1. pc = "pack" /\ pc' = "pack"
    BY <1>9 DEF AddKeyword, Take
  <2>2. CASE LineLength(Append(cur, w)) >= LineLimit
    <3>1. lines' = Append(lines, KeywordLine(group, cur)) /\ cur' = <<w>>
      BY <1>9, <2>2 DEF AddKeyword
    <3>2. /\ Len(<<w>>) <= 1 /\ <<w>> # <<>> /\ SubSeq(<<w>>, 1, 1) = <<w>>
          /\ Append(<<>>, w) = <<w>>
      BY OneElement, FirstOfOne
    <3>3. FileFits(lines') /\ (EndsEmpty(lines') => cur = <<>>)
      BY <1>4, <2>1, <3>1
    <3>4. EndsEmpty(lines') => LineLength(SubSeq(<<w>>, 1, 1)) >= LineLimit
      BY <2>2, <3>2, <3>3
    <3>5. CurrentFits'
      BY <3>1, <3>2, <3>4 DEF CurrentFits
    <3> QED
      BY <1>1, <1>2, <2>1, <3>3, <3>5 DEF AllFit
  <2>3. CASE ~(LineLength(Append(cur, w)) >= LineLimit)
    <3>1. lines' = lines /\ cur' = Append(cur, w)
      BY <1>9, <2>3 DEF AddKeyword
    <3>2. cur # <<>> => SubSeq(Append(cur, w), 1, 1) = SubSeq(cur, 1, 1)
      BY <1>2
    <3>3. Append(cur, w) # <<>>
      BY <1>2
    <3> QED
      BY <1>1, <1>2, <2>1, <2>3, <3>1, <3>2, <3>3 DEF AllFit, CurrentFits
  <2> QED
    BY <2>2, <2>3
<1>10. CASE AddMatch \/ EndLines
  <2>1. /\ pc = "match" /\ pc' \in {"match", "open"}
        /\ \/ lines' = lines
           \/ \E m \in matches : lines' = Append(lines, MatchLine(m[1], m[2]))
           \/ \E gs : lines' = Append(lines, ClusterLine(gs))
    BY <1>10 DEF AddMatch, EndLines
  <2>2. \A g, w : MatchLine(g, w).type # "keyword" /\ ClusterLine(g).type # "keyword"
    BY DEF MatchLine, ClusterLine
  <2>3. FileFits(lines') /\ ~EndsEmpty(lines')
    BY <1>2, <2>1, <2>2, FitsAppend
  <2> QED
    BY <1>1, <1>2, <2>1, <2>3 DEF AllFit
<1> QED
  BY <1>7, <1>8, <1>9, <1>10 DEF Pack

LEMMA FitNext ==
  ASSUME IInv, LinesOwned, AllFit, [Next]_vars
  PROVE  AllFit'
<1>1. CASE CollectEntries
  <2>1. types' = types /\ pc' = "pack" /\ lines' = <<ClearLine(UsedTypes(Lang))>> /\ cur' = <<>>
    BY <1>1 DEF CollectEntries, files
  <2>2. ClearLine(UsedTypes(Lang)).type = "clear"
    BY DEF ClearLine
  <2>3. \A x : DOMAIN <<x>> = {1} /\ <<x>>[1] = x /\ Len(<<x>>) = 1
    OBVIOUS
  <2>4. Len(<<>>) = 0
    OBVIOUS
  <2> QED
    BY <2>1, <2>2, <2>3, <2>4 DEF AllFit, FileFits, CurrentFits, EndsEmpty
<1>2. CASE Pack
  BY <1>2, FitPack
<1>3. CASE UNCHANGED vars
  BY <1>3 DEF vars, scriptVars, files, packing, AllFit, Working, CurrentFits
<1>4. CASE Next /\ ~CollectEntries /\ ~Pack
  <2>1. pc' \notin {"pack", "match"} /\ (Working' => Working /\ lines' = lines)
    BY <1>4, OtherSteps
  <2>2. \A l \in Languages : FileFits(types'[l])
    <3> TAKE l \in Languages
    <3>1. FileFits(types[l])
      BY DEF AllFit
    <3>2. CASE types' # types
      <4>1. Working /\ \/ types'[l] = types[l]
                       \/ types'[l] = <<>>
                       \/ types'[l] \in Torn(lines) \cup {lines}
        BY <1>4, <3>2, TypesSteps DEF IInv
      <4>2. lines \in Seq(Line) /\ FileFits(lines) /\ ShapeOf(Lang, lines)
        BY <4>1 DEF IInv, TypeOK, AllFit, LinesOwned
      <4>3. FileFits(<<>>)
        <5>1. DOMAIN <<>> = {}
          OBVIOUS
        <5> QED
          BY <5>1 DEF FileFits
      <4> QED
        BY <3>1, <4>1, <4>2, <4>3, FitsTorn
    <3> QED
      BY <3>1, <3>2
  <2> QED
    BY <2>1, <2>2 DEF AllFit
<1> QED
  BY <1>1, <1>2, <1>3, <1>4

\* A line of a types file is shorter than LineLimit unless its only word makes it longer,
\* and a line without a keyword comes before such a word only.
THEOREM LinesAlwaysFit == Spec => []LinesFit
<1>1. Init => AllFit
  <2> SUFFICES ASSUME Init PROVE AllFit
    OBVIOUS
  <2>1. DOMAIN <<>> = {} /\ \A l \in Languages : types[l] = <<>>
    BY DEF Init
  <2> QED
    BY <2>1 DEF Init, AllFit, FileFits, Working
<1>2. AllFit => LinesFit
  BY DEF AllFit, LinesFit
<1>3. IInv /\ LinesOwned /\ AllFit /\ [Next]_vars => AllFit'
  BY FitNext
<1> QED
  BY <1>1, <1>2, <1>3, OwnedAlways, PTL DEF Spec
=============================================================================
