------------------------------ MODULE Sparkup ------------------------------
(***************************************************************************)
(* The expansion of a sparkup abbreviation such as ul#nav>li.item-$*3 into *)
(* HTML: Parser, Token and Element of sparkup.py.                          *)
(*                                                                         *)
(* An abbreviation is a sequence of lexemes: the separators "<", ">" and   *)
(* "+", and words, the written elements between them.  What the regular    *)
(* expressions of Token._init_element find in a word w is Core[w].         *)
(***************************************************************************)
EXTENDS SparkupDialect, Integers, Sequences, SequencesExt

CONSTANTS Words,   \* the written elements; none of them holds a separator
          Core,    \* what is written in each of them
          Inputs   \* the abbreviations to expand

ASSUME CoreAssumption == \A w \in Words : Core[w].mult \in Nat
ASSUME WordAssumption == Words \cap {"<", ">", "+"} = {}

VARIABLES phase,    \* where Parser.load_string() and render() are
          str,      \* the lexemes that are not tokens yet
          around,   \* which of prefix and suffix have been found
          dialect,  \* the attribute dictionaries of the shortcuts, shared by their tokens
          tokens,   \* Parser.tokens
          pos,      \* the token at work
          ci,       \* which caret gets elements
          count,    \* elements created from this token
          local,    \* the ones of them under this caret
          elems,    \* all Element objects; elems[1] is the root
          caret,    \* Parser.caret, as indices of elems
          last,     \* Parser._last
          expandDivs, \* the option expand-divs
          out       \* the rendered lines

treeVars  == <<elems, caret, last>>
tokenVars == <<str, around, dialect, tokens>>
loopVars  == <<pos, ci, count, local>>
vars      == <<phase, tokenVars, loopVars, treeVars, expandDivs, out>>

Root == 1

RootElement ==
  [tok |-> 0, name |-> "", attrs |-> NoAttrs, text |-> "", tags |-> FALSE, expand |-> FALSE,
   count |-> 0, local |-> 0, depth |-> -1, parent |-> 0, children |-> <<>>]

Init ==
  /\ phase = "prefix"
  /\ str \in Inputs
  /\ around = {}
  /\ dialect = [s \in {s \in DOMAIN Shortcuts : Shortcuts[s].dict} |-> Shortcuts[s].attrs]
  /\ tokens = <<>>
  /\ pos = 1 /\ ci = 1 /\ count = 0 /\ local = 0
  /\ elems = <<RootElement>>
  /\ caret = <<Root>>
  /\ last = <<>>
  /\ expandDivs \in BOOLEAN
  /\ out = <<>>

-----------------------------------------------------------------------------
(* _tokenize(): tags around the abbreviation are put aside first.          *)

Closers(s) == {j \in 1..Len(s) : s[j] = ">"}

\* The end of a tag <...> s begins with, 0 if there is none.
PrefixEnd(s) ==
  IF s # <<>> /\ s[1] = "<" /\ Closers(s) # {} /\ Min(Closers(s)) >= 3 THEN Min(Closers(s)) ELSE 0

\* The beginning of a tag s ends with, as far left as it may be.
SuffixBegin(s) ==
  LET inside == Max({0} \cup (Closers(s) \ {Len(s)}))
      begins == {i \in inside + 1..Len(s) - 2 : s[i] = "<"}
  IN IF Len(s) \in Closers(s) /\ begins # {} THEN Min(begins) ELSE 0

StripPrefix ==
  /\ phase = "prefix"
  /\ PrefixEnd(str) # 0
  /\ str' = SubSeq(str, PrefixEnd(str) + 1, Len(str))
  /\ around' = around \cup {"prefix"}
  /\ UNCHANGED <<phase, dialect, tokens, loopVars, treeVars, expandDivs, out>>

PrefixDone ==
  /\ phase = "prefix"
  /\ PrefixEnd(str) = 0
  /\ phase' = "suffix"
  /\ UNCHANGED <<tokenVars, loopVars, treeVars, expandDivs, out>>

StripSuffix ==
  /\ phase = "suffix"
  /\ SuffixBegin(str) # 0
  /\ str' = SubSeq(str, 1, SuffixBegin(str) - 1)
  /\ around' = around \cup {"suffix"}
  /\ UNCHANGED <<phase, dialect, tokens, loopVars, treeVars, expandDivs, out>>

SuffixDone ==
  /\ phase = "suffix"
  /\ SuffixBegin(str) = 0
  /\ phase' = "split"
  /\ UNCHANGED <<tokenVars, loopVars, treeVars, expandDivs, out>>

-----------------------------------------------------------------------------
(* Token._init_element()                                                   *)

JoinClasses(old, new) == IF old = <<>> THEN new ELSE old \o <<" ">> \o new

\* What the expressions find in flags without a word before them.
NoWord == [name |-> "", attrs |-> NoAttrs, text |-> "", classes |-> <<>>, id |-> <<>>,
           mult |-> 1, bang |-> FALSE]

CoreOf(w) == IF w \in Words THEN Core[w] ELSE NoWord

\* The attributes, classes and id written in a word, put into a dictionary.
WithWritten(attrs, core) ==
  LET a == Override(core.attrs, attrs)
      old == IF "class" \in DOMAIN a THEN a["class"] ELSE <<>>
      b == IF core.classes = <<>> THEN a
           ELSE Override("class" :> JoinClasses(old, core.classes), a)
  IN IF core.id = <<>> THEN b ELSE Override("id" :> core.id, b)

Separator(type) ==
  [type |-> type, str |-> "", name |-> "", shared |-> "", attrs |-> NoAttrs, text |-> "", tags |-> FALSE,
   mult |-> 1, populate |-> FALSE, expand |-> FALSE]

\* A page shortcut returns before anything else in the word is looked at.
PageToken(w) == [Separator("element") EXCEPT !.str = w, !.tags = TRUE, !.expand = TRUE]

TagName(name) == IF name = "" THEN "div" ELSE name

\* A token whose shortcut has a dictionary uses that one, not a copy.
ElementToken(w, plus) ==
  LET core == CoreOf(w)
      name == Synonym(core.name)
      known == name \in DOMAIN Shortcuts
      shared == IF known /\ Shortcuts[name].dict THEN name ELSE ""
  IN IF known /\ Shortcuts[name].page THEN PageToken(w)
     ELSE [type |-> "element",
           str |-> w,
           name |-> IF known THEN Shortcuts[name].name ELSE TagName(name),
           shared |-> shared,
           attrs |-> IF shared = "" THEN WithWritten(NoAttrs, core) ELSE NoAttrs,
           text |-> IF core.text # "" \/ ~known THEN core.text ELSE Shortcuts[name].text,
           tags |-> known /\ Shortcuts[name].tags,
           mult |-> core.mult,
           populate |-> plus > 0,
           expand |-> core.bang]

\* The dictionaries of the dialect after that token.
DialectAfter(w) ==
  LET name == Synonym(CoreOf(w).name)
  IN IF name \in DOMAIN dialect THEN [dialect EXCEPT ![name] = WithWritten(@, CoreOf(w))] ELSE dialect

-----------------------------------------------------------------------------
(* The split at the separators: a "+" is one unless another one or the end *)
(* of the string follows; else it is a flag of the word before it.         *)

PlusesAt(s, i) ==
  CHOOSE n \in 0..Len(s) : /\ \A j \in i..i + n - 1 : j <= Len(s) /\ s[j] = "+"
                           /\ i + n > Len(s) \/ s[i + n] # "+"

FlagsAt(s, i) ==
  LET n == PlusesAt(s, i) IN IF n = 0 \/ i + n > Len(s) THEN n ELSE n - 1

Drop(n) == str' = SubSeq(str, n + 1, Len(str))

SplitSeparator ==
  /\ phase = "split"
  /\ str # <<>>
  /\ \/ str[1] = ">" /\ tokens' = Append(tokens, Separator("child"))
     \/ str[1] = "<" /\ tokens' = Append(tokens, Separator("parent"))
     \/ str[1] = "+" /\ FlagsAt(str, 1) < 2 /\ tokens' = Append(tokens, Separator("sibling"))
  /\ Drop(1)
  /\ UNCHANGED <<phase, around, dialect, loopVars, treeVars, expandDivs, out>>

SplitElement ==
  /\ phase = "split"
  /\ str # <<>>
  /\ \/ /\ str[1] \in Words
        /\ tokens' = Append(tokens, ElementToken(str[1], FlagsAt(str, 2)))
        /\ Drop(1 + FlagsAt(str, 2))
     \/ /\ str[1] = "+" /\ FlagsAt(str, 1) >= 2
        /\ tokens' = Append(tokens, ElementToken("+", FlagsAt(str, 1)))
        /\ Drop(FlagsAt(str, 1))
  /\ dialect' = DialectAfter(str[1])
  /\ UNCHANGED <<phase, around, loopVars, treeVars, expandDivs, out>>

\* _parse() moves a root with a prefix or a suffix one level down.
SplitDone ==
  /\ phase = "split"
  /\ str = <<>>
  /\ phase' = "parse"
  /\ elems' = IF around = {} THEN elems ELSE [elems EXCEPT ![Root].depth = @ + 1]
  /\ UNCHANGED <<tokenVars, loopVars, caret, last, expandDivs, out>>

-----------------------------------------------------------------------------
(* Element()                                                               *)

\* Parser.tokens[pos] gives the attributes of its shortcut as they are now.
AttrsOf(token) == IF token.shared = "" THEN token.attrs ELSE dialect[token.shared]

Substituted(value, c, l) ==
  [i \in DOMAIN value |->
     CASE value[i] = "&" -> ToString(c)
       [] value[i] = "$" -> ToString(l)
       [] OTHER -> value[i]]

Filled(name, attrs) == Override(attrs, RequiredOf(name))

\* Mutant: the depth of a default item is not set.
DefaultItem_NoDepth(name, parent, depth, children) ==
  [RootElement EXCEPT !.name = name, !.attrs = Filled(name, NoAttrs),
                      !.parent = parent, !.children = children]

\* An element _populate() adds.
DefaultItem(name, parent, depth, children) ==
  [RootElement EXCEPT !.name = name, !.attrs = Filled(name, NoAttrs),
                      !.parent = parent, !.depth = depth, !.children = children]

\* What _populate() adds to element n of that depth; DirectItems are its own children.
DefaultItems(name, n, depth) ==
  CASE name = "ul" -> <<DefaultItem("li", n, depth + 1, <<>>)>>
    [] name = "dl" -> <<DefaultItem("dt", n, depth + 1, <<>>), DefaultItem("dd", n, depth + 1, <<>>)>>
    [] name = "table" -> <<DefaultItem("tr", n, depth + 1, <<n + 2>>),
                           DefaultItem("td", n + 1, depth + 2, <<>>)>>
    [] OTHER -> <<>>

DirectItems(name, n) ==
  CASE name = "ul" -> <<n + 1>>
    [] name = "dl" -> <<n + 1, n + 2>>
    [] name = "table" -> <<n + 1>>
    [] OTHER -> <<>>

NewElement(token, parent, n, c, l) ==
  LET attrs == AttrsOf(token)
      numbered == [key \in DOMAIN attrs |-> Substituted(attrs[key], c, l)]
  IN [tok |-> pos, name |-> token.name, attrs |-> Filled(token.name, numbered),
      text |-> token.text, tags |-> token.tags, expand |-> token.expand,
      count |-> c, local |-> l,
      depth |-> elems[parent].depth + 1, parent |-> parent,
      children |-> IF token.populate THEN DirectItems(token.name, n) ELSE <<>>]

\* The heap of elements with the ones Element(token, parent) adds, child of its parent.
WithElement(token, parent, c, l) ==
  LET n == Len(elems) + 1
      new == NewElement(token, parent, n, c, l)
      items == IF token.populate THEN DefaultItems(token.name, n, new.depth) ELSE <<>>
  IN [elems EXCEPT ![parent].children = Append(@, n)] \o <<new>> \o items

-----------------------------------------------------------------------------
(* _parse(), one action per turn of its loops.                             *)

AtToken(type) == phase = "parse" /\ pos <= Len(tokens) /\ tokens[pos].type = type

\* Mutant: _last is not emptied.
BeginElement_KeepsLast ==
  /\ AtToken("element")
  /\ phase' = "element"
  /\ ci' = 1 /\ count' = 0 /\ local' = 0
  /\ UNCHANGED <<tokenVars, pos, treeVars, expandDivs, out>>

BeginElement ==
  /\ AtToken("element")
  /\ phase' = "element"
  /\ last' = <<>>
  /\ ci' = 1 /\ count' = 0 /\ local' = 0
  /\ UNCHANGED <<tokenVars, pos, elems, caret, expandDivs, out>>

\* Mutant: count and local_count are swapped.
AddElement_Swapped ==
  /\ phase = "element"
  /\ ci <= Len(caret)
  /\ local < tokens[pos].mult
  /\ count' = count + 1
  /\ local' = local + 1
  /\ elems' = WithElement(tokens[pos], caret[ci], local + 1, count + 1)
  /\ last' = Append(last, Len(elems) + 1)
  /\ UNCHANGED <<phase, tokenVars, pos, ci, caret, expandDivs, out>>

\* Mutant: the element takes the dictionary of its token without a copy.
AddElement_NoCopy ==
  /\ phase = "element"
  /\ ci <= Len(caret)
  /\ local < tokens[pos].mult
  /\ count' = count + 1
  /\ local' = local + 1
  /\ elems' = WithElement(tokens[pos], caret[ci], count + 1, local + 1)
  /\ tokens' = [tokens EXCEPT ![pos].attrs =
                   [key \in DOMAIN @ |-> Substituted(@[key], count + 1, local + 1)]]
  /\ last' = Append(last, Len(elems) + 1)
  /\ UNCHANGED <<phase, str, around, dialect, pos, ci, caret, expandDivs, out>>

AddElement ==
  /\ phase = "element"
  /\ ci <= Len(caret)
  /\ local < tokens[pos].mult
  /\ count' = count + 1
  /\ local' = local + 1
  /\ elems' = WithElement(tokens[pos], caret[ci], count + 1, local + 1)
  /\ last' = Append(last, Len(elems) + 1)
  /\ UNCHANGED <<phase, tokenVars, pos, ci, caret, expandDivs, out>>

\* Mutant: local_count is not reset.
NextCaret_KeepsLocal ==
  /\ phase = "element"
  /\ ci <= Len(caret)
  /\ local >= tokens[pos].mult
  /\ ci' = ci + 1
  /\ UNCHANGED <<phase, tokenVars, pos, count, local, treeVars, expandDivs, out>>

NextCaret ==
  /\ phase = "element"
  /\ ci <= Len(caret)
  /\ local >= tokens[pos].mult
  /\ ci' = ci + 1
  /\ local' = 0
  /\ UNCHANGED <<phase, tokenVars, pos, count, treeVars, expandDivs, out>>

\* Mutant: the loop skips a token.
EndElement_Skips ==
  /\ phase = "element"
  /\ ci > Len(caret)
  /\ phase' = "parse"
  /\ pos' = pos + 2
  /\ UNCHANGED <<tokenVars, ci, count, local, treeVars, expandDivs, out>>

EndElement ==
  /\ phase = "element"
  /\ ci > Len(caret)
  /\ phase' = "parse"
  /\ pos' = pos + 1
  /\ UNCHANGED <<tokenVars, ci, count, local, treeVars, expandDivs, out>>

Child ==
  /\ AtToken("child")
  /\ caret' = last
  /\ pos' = pos + 1
  /\ UNCHANGED <<phase, tokenVars, ci, count, local, elems, last, expandDivs, out>>

\* Mutant: the root is left as well.
Parent_LeavesRoot ==
  /\ AtToken("parent")
  /\ caret # <<>>
  /\ LET parent == elems[caret[1]].parent
     IN caret' = IF parent = 0 THEN <<>> ELSE <<parent>>
  /\ pos' = pos + 1
  /\ UNCHANGED <<phase, tokenVars, ci, count, local, elems, last, expandDivs, out>>

\* Only the first caret decides where "<" goes.
Parent ==
  /\ AtToken("parent")
  /\ caret # <<>>
  /\ LET parent == elems[caret[1]].parent
     IN caret' = IF parent = 0 THEN caret ELSE <<parent>>
  /\ pos' = pos + 1
  /\ UNCHANGED <<phase, tokenVars, ci, count, local, elems, last, expandDivs, out>>

\* caret[0] of an empty list: Router.parse() reports the error and renders nothing.
ParentFails ==
  /\ AtToken("parent")
  /\ caret = <<>>
  /\ phase' = "error"
  /\ UNCHANGED <<tokenVars, loopVars, treeVars, expandDivs, out>>

Sibling ==
  /\ AtToken("sibling")
  /\ pos' = pos + 1
  /\ UNCHANGED <<phase, tokenVars, ci, count, local, treeVars, expandDivs, out>>

-----------------------------------------------------------------------------
(* Element.render().  A line is its depth, its kind and its element; the   *)
(* children of an element come after it in elems.                          *)

Line(depth, kind, e) == [depth |-> depth, kind |-> kind, elem |-> e]

\* Mutant: the children do not make a block.
IsBlock_Childless(e) ==
  \/ elems[e].expand
  \/ e = Root
  \/ expandDivs /\ elems[e].name = "div"

IsBlock(e) ==
  \/ elems[e].children # <<>>
  \/ elems[e].expand
  \/ e = Root /\ around # {}
  \/ expandDivs /\ elems[e].name = "div"

HasTags(e) == elems[e].name # "" \/ elems[e].tags

Around(kind) == IF kind \in around THEN <<Line(elems[Root].depth, kind, Root)>> ELSE <<>>

\* The lines of a block, given the lines of its children one after the other.
BlockLines(e, body) ==
  LET depth == elems[e].depth
      inner == IF body = <<>> THEN <<Line(depth + 1, "blank", e)>> ELSE body
  IN IF e = Root /\ around # {} THEN Around("prefix") \o inner \o Around("suffix")
     ELSE IF HasTags(e) THEN <<Line(depth, "open", e)>> \o inner \o <<Line(depth, "close", e)>>
     ELSE inner

LeafLines(e) ==
  CASE elems[e].name \in ShortTags -> <<Line(elems[e].depth, "short", e)>>
    [] elems[e].name \notin ShortTags /\ HasTags(e) -> <<Line(elems[e].depth, "text", e)>>
    [] OTHER -> <<>>

Rendered ==
  LET lines[e \in 1..Len(elems)] ==
        LET children == elems[e].children
        IN IF IsBlock(e) THEN BlockLines(e, FlattenSeq([i \in 1..Len(children) |-> lines[children[i]]]))
           ELSE LeafLines(e)
  IN lines[Root]

Render ==
  /\ phase = "parse"
  /\ pos > Len(tokens)
  /\ phase' = "done"
  /\ out' = Rendered
  /\ UNCHANGED <<tokenVars, loopVars, treeVars, expandDivs>>

-----------------------------------------------------------------------------
Tokenize == StripPrefix \/ PrefixDone \/ StripSuffix \/ SuffixDone
            \/ SplitSeparator \/ SplitElement \/ SplitDone

Parse == BeginElement \/ AddElement \/ NextCaret \/ EndElement
         \/ Child \/ Parent \/ ParentFails \/ Sibling

Next == Tokenize \/ Parse \/ Render

Spec == Init /\ [][Next]_vars
=============================================================================
