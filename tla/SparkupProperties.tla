------------------------- MODULE SparkupProperties -------------------------
(***************************************************************************)
(* What the expansion of an abbreviation promises.                         *)
(***************************************************************************)
EXTENDS Sparkup

Ids == 1..Len(elems)
ElementTokens == {t \in 1..Len(tokens) : tokens[t].type = "element"}
Increasing(s) == \A i, j \in 1..Len(s) : i < j => s[i] < s[j]

\* The types of the parser's variables.
TypeOK ==
  /\ phase \in {"prefix", "suffix", "split", "parse", "element", "done", "error"}
  /\ around \subseteq {"prefix", "suffix"}
  /\ pos \in 1..Len(tokens) + 1
  /\ ci \in Nat /\ count \in Nat /\ local \in Nat
  /\ \A i \in 1..Len(caret) : caret[i] \in Ids
  /\ \A i \in 1..Len(last) : last[i] \in Ids

-----------------------------------------------------------------------------
(* The tree of elements is kept twice, by parent and by children lists.    *)

ParentsAreOlder ==
  /\ elems[Root].parent = 0
  /\ \A e \in Ids \ {Root} : elems[e].parent \in 1..e - 1

ChildrenMatchParents ==
  /\ \A p \in Ids : \A i \in 1..Len(elems[p].children) :
       /\ elems[p].children[i] \in Ids
       /\ elems[elems[p].children[i]].parent = p
  /\ \A e \in Ids \ {Root} : \E i \in 1..Len(elems[elems[e].parent].children) :
       elems[elems[e].parent].children[i] = e

ChildrenInOrder == \A p \in Ids : Increasing(elems[p].children)

DepthsMatch == \A e \in Ids \ {Root} : elems[e].depth = elems[elems[e].parent].depth + 1

\* Element.parent, Element.children and Element.depth, which the constructor, append()
\* and _populate() set one by one, describe one tree: every element is once in the list
\* of its parent, in the order of creation, and one level below it.
TreeSound == ParentsAreOlder /\ ChildrenMatchParents /\ ChildrenInOrder /\ DepthsMatch

\* The carets are different elements of one depth, in the order of creation, and so are
\* the elements added last: "<" after several carets, which looks at the first only,
\* leaves for the level all of them are on.
CaretsLevel ==
  /\ Increasing(caret) /\ Increasing(last)
  /\ \A i, j \in 1..Len(caret) : elems[caret[i]].depth = elems[caret[j]].depth
  /\ \A i, j \in 1..Len(last) : elems[last[i]].depth = elems[last[j]].depth

-----------------------------------------------------------------------------
(* How many elements a token gives, computed from the tokens alone.        *)

CaretsAfter(token, before) ==
  CASE token.type = "child" -> before.added
    [] token.type = "parent" -> 1
    [] OTHER -> before.carets

AddedAfter(token, before) ==
  IF token.type = "element" THEN before.carets * token.mult ELSE before.added

\* The carets and the elements added last when t tokens have been parsed.
SizesAfter[t \in 0..Len(tokens)] ==
  IF t = 0 THEN [carets |-> 1, added |-> 0]
  ELSE [carets |-> CaretsAfter(tokens[t], SizesAfter[t - 1]),
        added |-> AddedAfter(tokens[t], SizesAfter[t - 1])]

Created(t) == {e \in Ids : elems[e].tok = t}

\* Elements are created "as many as the multiplier specifies, multiplied by how many
\* carets we have" (_parse()), none is lost and none is created twice.
CreatedAsSpecified ==
  \A t \in ElementTokens : t < pos =>
    Cardinality(Created(t)) = SizesAfter[t - 1].carets * tokens[t].mult

IsPage(w) ==
  LET name == Synonym(CoreOf(w).name)
  IN name \in DOMAIN Shortcuts /\ Shortcuts[name].page

\* An element shows what is written in its word, or what the words of its shortcut have
\* left in the dictionary of the shortcut, with the numbers of this element and not of
\* one that was created before it.
AttributesAsWritten ==
  \A e \in Ids : elems[e].tok # 0 =>
    LET token == tokens[elems[e].tok]
        written == IF token.shared # "" THEN dialect[token.shared]
                   ELSE IF IsPage(token.str) THEN NoAttrs
                   ELSE WithWritten(NoAttrs, CoreOf(token.str))
    IN elems[e].attrs = Filled(token.name, [key \in DOMAIN written |->
                          Substituted(written[key], elems[e].count, elems[e].local)])

-----------------------------------------------------------------------------
(* Reading the page back, with the stack of the tags that are open.        *)

ReadLine(reader, line) ==
  LET top == reader.stack[Len(reader.stack)]
      nesting == Len(reader.stack) - (IF around = {} THEN 2 ELSE 1)
      inside == elems[line.elem].parent = top /\ line.depth = nesting + 1
  IN CASE line.kind = "open" ->
            [reader EXCEPT !.ok = @ /\ inside, !.stack = Append(@, line.elem), !.seen = Append(@, line.elem)]
       [] line.kind = "close" ->
            [reader EXCEPT !.ok = @ /\ line.elem = top /\ top # Root /\ line.depth = nesting,
                           !.stack = SubSeq(@, 1, Len(@) - 1)]
       [] line.kind \in {"text", "short"} ->
            [reader EXCEPT !.ok = @ /\ inside, !.seen = Append(@, line.elem)]
       [] line.kind = "blank" -> [reader EXCEPT !.ok = @ /\ line.elem = top]
       [] OTHER -> [reader EXCEPT !.ok = @ /\ top = Root]

\* The reader at the end of the page.
Page ==
  LET reader[i \in 0..Len(out)] ==
        IF i = 0 THEN [ok |-> TRUE, stack |-> <<Root>>, seen |-> <<>>]
        ELSE ReadLine(reader[i - 1], out[i])
  IN reader[Len(out)]

\* The & numbers of the elements of a token run from 1 through the rendered page without
\* a gap, the $ numbers run from 1 in every parent, whatever the nesting in between.
OutputNumbered ==
  phase = "done" =>
    LET seen == Page.seen
        Elem(i) == elems[seen[i]]
        SameToken(i) == {j \in 1..i : Elem(j).tok = Elem(i).tok}
    IN \A i \in 1..Len(seen) : Elem(i).tok # 0 =>
         /\ Elem(i).count = Cardinality(SameToken(i))
         /\ Elem(i).local = Cardinality({j \in SameToken(i) : Elem(j).parent = Elem(i).parent})

\* The rendered page is balanced, indented by its nesting, and reading it back gives the
\* tree of the parser: every element is shown once, inside of its parent, in order.
PageReadsBack ==
  phase = "done" =>
    LET page == Page
        seen == page.seen
    IN /\ page.ok
       /\ page.stack = <<Root>>
       /\ Len(seen) = Len(elems) - 1
       /\ ToSet(seen) = Ids \ {Root}
       /\ \A i, j \in 1..Len(seen) :
            elems[seen[i]].parent = elems[seen[j]].parent /\ i < j => seen[i] < seen[j]

-----------------------------------------------------------------------------
Childless(i) == tokens[i].type = "child" /\ \A t \in ElementTokens : t > i

\* A parse error has one of two causes: a multiplier 0, or a ">" before any element.
ErrorsExplained ==
  phase = "error" => \/ \E t \in ElementTokens : tokens[t].mult = 0
                     \/ \E i \in 1..Len(tokens) : Childless(i)

\* Once there is no caret the rest of the abbreviation adds nothing: the parser never
\* finds a place again.
LostForGood == [][caret = <<>> => caret' = <<>> /\ elems' = elems]_vars

\* The page only grows, by new elements behind the children of a caret: no element is
\* moved, renamed or renumbered; the root alone is put one level down before there are
\* others.
GrowsOnly ==
  [][/\ Len(elems') >= Len(elems)
     /\ \A e \in Ids : /\ elems'[e] = [elems[e] EXCEPT !.children = elems'[e].children,
                                                       !.depth = elems'[e].depth]
                       /\ IsPrefix(elems[e].children, elems'[e].children)
                       /\ elems'[e].depth # elems[e].depth => elems = <<RootElement>>]_vars
=============================================================================
