--------------------------- MODULE MkTypesLanguages ---------------------------
(***************************************************************************)
(* The tables of mktypes.py.  A language is named by the suffix of its     *)
(* types file (types_c.vim, types_py.vim ...), a highlighting group by its *)
(* name without the CTags in front.                                        *)
(***************************************************************************)
EXTENDS Sequences, SequencesExt

\* full_language_list of main(), the order in which the types files are written.
LanguageList == <<"c", "java", "pl", "py", "ruby", "vhdl", "php", "cs">>
Languages == ToSet(LanguageList)

\* The extensions of source files that the expression of the language matches: the one for
\* C, [ch]\w*, takes the C# files as well.
Extensions ==
  [c |-> {"c", "cc", "cp", "cpp", "cxx", "h", "hh", "hp", "hpp", "hxx", "cs"},
   java |-> {"java"}, pl |-> {"pl", "pm"}, py |-> {"py", "pyw"}, ruby |-> {"rb"},
   vhdl |-> {"vhd", "vhdl"}, php |-> {"php"}, cs |-> {"cs"}]

\* The files ctags reads for a language.
Own(l) == IF l = "c" THEN Extensions["c"] \ Extensions["cs"] ELSE Extensions[l]

\* What Vim takes for the characters of a keyword: @,48-57,_,192-255 for every language.
KeywordChars == {"letter", "digit", "_", "latin"}

\* One of them delimits the pattern of a :syntax match.
PatternChars == {"/", "@", "#", "'", ":"}

CKinds == [c |-> "Class", d |-> "DefinedName", e |-> "EnumerationValue", f |-> "Function",
           g |-> "EnumeratorName", k |-> "Constant", l |-> "LocalVariable", m |-> "Member",
           n |-> "Namespace", p |-> "Function", s |-> "Structure", t |-> "Type",
           u |-> "Union", v |-> "GlobalVariable", x |-> "Extern"]

CSharpKinds == [c |-> "Class", d |-> "DefinedName", e |-> "EnumerationValue", E |-> "Event",
                f |-> "Field", g |-> "EnumerationName", i |-> "Interface",
                l |-> "LocalVariable", m |-> "Method", n |-> "Namespace", p |-> "Property",
                s |-> "Structure", t |-> "Type"]

JavaKinds == [c |-> "Class", e |-> "EnumerationValue", f |-> "Field", g |-> "EnumeratorName",
              i |-> "Interface", l |-> "LocalVariable", m |-> "Method", p |-> "Package"]

PerlKinds == [c |-> "GlobalConstant", f |-> "Format", l |-> "Label", p |-> "Package",
              s |-> "Function", d |-> "Function"]

PhpKinds == [c |-> "Class", i |-> "Interface", d |-> "GlobalConstant", f |-> "Function",
             v |-> "GlobalVariable", j |-> "Function"]

PythonKinds == [c |-> "Class", f |-> "Function", i |-> "Import", m |-> "Member",
                v |-> "GlobalVariable"]

RubyKinds == [c |-> "Class", f |-> "Method", m |-> "Module", F |-> "Singleton"]

VhdlKinds == [c |-> "GlobalConstant", t |-> "Type", T |-> "TypeComponent", r |-> "Record",
              e |-> "Entity", C |-> "Component", d |-> "Prototype", f |-> "Function",
              p |-> "Function", P |-> "Package", l |-> "LocalVariable"]

\* GetKindList(), the languages of full_language_list: the others cannot be asked for.
KindList == [c |-> CKinds, java |-> JavaKinds, pl |-> PerlKinds, py |-> PythonKinds,
             ruby |-> RubyKinds, vhdl |-> VhdlKinds, php |-> PhpKinds, cs |-> CSharpKinds]

Values(f) == {f[x] : x \in DOMAIN f}
Groups == UNION {Values(KindList[l]) : l \in Languages}

\* Specified highest priority first.
Priority == <<"Class", "DefinedName", "Type", "Function", "EnumerationValue", "EnumeratorName",
              "Constant", "GlobalVariable", "Union", "Member", "Structure">>

\* The groups in the order of their names.
GroupsByName ==
  <<"Class", "Component", "Constant", "DefinedName", "Entity", "EnumerationName",
    "EnumerationValue", "EnumeratorName", "Event", "Extern", "Field", "Format", "Function",
    "GlobalConstant", "GlobalVariable", "Import", "Interface", "Label", "LocalVariable",
    "Member", "Method", "Module", "Namespace", "Package", "Property", "Prototype", "Record",
    "Singleton", "Structure", "Type", "TypeComponent", "Union">>

NameRank == [g \in Groups |-> CHOOSE i \in DOMAIN GroupsByName : GroupsByName[i] = g]

\* Mutant: highest priority first.
Place_NotReversed ==
  [g \in Groups |->
     IF g \in ToSet(Priority) THEN CHOOSE i \in DOMAIN Priority : Priority[i] = g
     ELSE Len(Priority) + NameRank[g]]

\* The place of a group in a file: highest priority last, and those not listed behind.
Place ==
  [g \in Groups |->
     IF g \in ToSet(Priority) THEN Len(Priority) + 1 - (CHOOSE i \in DOMAIN Priority : Priority[i] = g)
     ELSE Len(Priority) + NameRank[g]]
=============================================================================
