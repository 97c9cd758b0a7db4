--------------------------- MODULE SparkupProofs ---------------------------
(***************************************************************************)
(* Theorems about the expansion, for all words, abbreviations and          *)
(* multipliers.                                                            *)
(***************************************************************************)
EXTENDS SparkupProperties, TLAPS, SequenceTheorems, FiniteSetTheorems, Induction

-----------------------------------------------------------------------------
(* The heap of elements.                                                   *)

\* An element has these fields and no others.
IsElement(r) ==
  r = [field \in {"tok", "name", "attrs", "text", "tags", "expand", "count", "local", "depth",
                  "parent", "children"} |-> r[field]]

HeapOK ==
  /\ \E S : elems \in Seq(S)
  /\ Len(elems) >= 1
  /\ \A e \in Ids : /\ IsElement(elems[e])
                    /\ elems[e].depth \in Int
                    /\ elems[e].children \in Seq(Nat)

\* The elements from the n-th on are a new one and its default items.
NewItems(h, n) ==
  \/ Len(h) = n /\ h[n].children = <<>>
  \/ /\ Len(h) = n + 1 /\ h[n].children = <<n + 1>>
     /\ h[n + 1].parent = n /\ h[n + 1].depth = h[n].depth + 1 /\ h[n + 1].children = <<>>
  \/ /\ Len(h) = n + 2 /\ h[n].children = <<n + 1, n + 2>>
     /\ h[n + 1].parent = n /\ h[n + 1].depth = h[n].depth + 1 /\ h[n + 1].children = <<>>
     /\ h[n + 2].parent = n /\ h[n + 2].depth = h[n].depth + 1 /\ h[n + 2].children = <<>>
  \/ /\ Len(h) = n + 2 /\ h[n].children = <<n + 1>>
     /\ h[n + 1].parent = n /\ h[n + 1].depth = h[n].depth + 1 /\ h[n + 1].children = <<n + 2>>
     /\ h[n + 2].parent = n + 1 /\ h[n + 2].depth = h[n].depth + 2 /\ h[n + 2].children = <<>>

\* An element that _populate() has made.
NoToken(r) == r.tok = 0 /\ r.name # ""

\* What Element(token, parent) makes of the heap.
Grown(h, parent) ==
  LET n == Len(elems) + 1
  IN /\ \E S : h \in Seq(S)
     /\ NewItems(h, n)
     /\ \A e \in 1..Len(h) : IsElement(h[e])
     /\ \A e \in Ids \ {parent} : h[e] = elems[e]
     /\ h[parent] = [elems[parent] EXCEPT !.children = Append(@, n)]
     /\ h[n].parent = parent /\ h[n].depth = elems[parent].depth + 1
     /\ \A e \in n + 1..Len(h) : NoToken(h[e])

LEMMA WithChildren ==
  ASSUME NEW r, IsElement(r), NEW c
  PROVE  LET x == [r EXCEPT !.children = c]
         IN /\ IsElement(x) /\ x.children = c
            /\ x.tok = r.tok /\ x.parent = r.parent /\ x.depth = r.depth
            /\ x.attrs = r.attrs /\ x.count = r.count /\ x.local = r.local
            /\ x.name = r.name /\ x.tags = r.tags
            /\ x = [r EXCEPT !.children = x.children, !.depth = x.depth]
BY DEF IsElement

LEMMA SameElement ==
  ASSUME NEW r, IsElement(r)
  PROVE  r = [r EXCEPT !.children = r.children, !.depth = r.depth]
BY DEF IsElement

LEMMA DefaultItemFields ==
  ASSUME NEW name, NEW parent, NEW depth, NEW children
  PROVE  LET x == DefaultItem(name, parent, depth, children)
         IN /\ IsElement(x) /\ x.tok = 0 /\ x.name = name
            /\ x.parent = parent /\ x.depth = depth /\ x.children = children
BY DEF DefaultItem, RootElement, IsElement

LEMMA ItemNames == \A name \in {"li", "dt", "dd", "tr", "td"} : name # ""
BY Zenon

LEMMA NewElementFields ==
  ASSUME NEW token, NEW parent, NEW n, NEW c, NEW l
  PROVE  LET x == NewElement(token, parent, n, c, l)
         IN /\ IsElement(x) /\ x.parent = parent /\ x.depth = elems[parent].depth + 1
            /\ x.name = token.name /\ x.tags = token.tags
            /\ x.children = IF token.populate THEN DirectItems(token.name, n) ELSE <<>>
BY DEF NewElement, IsElement

LEMMA Concatenated ==
  ASSUME NEW S, NEW s \in Seq(S), NEW T, NEW x \in T, NEW t \in Seq(T)
  PROVE  LET h == s \o <<x>> \o t
         IN /\ h \in Seq(S \cup T) /\ Len(h) = Len(s) + 1 + Len(t)
            /\ \A i \in 1..Len(s) : h[i] = s[i]
            /\ h[Len(s) + 1] = x
            /\ \A i \in 1..Len(t) : h[Len(s) + 1 + i] = t[i]
<1>1. s \in Seq(S \cup T) /\ <<x>> \in Seq(S \cup T) /\ t \in Seq(S \cup T)
  OBVIOUS
<1> DEFINE a == s \o <<x>>
<1>2. /\ a \in Seq(S \cup T) /\ Len(a) = Len(s) + 1
      /\ \A i \in 1..Len(s) : a[i] = s[i]
      /\ a[Len(s) + 1] = x
  BY <1>1
<1> HIDE DEF a
<1>3. /\ a \o t \in Seq(S \cup T) /\ Len(a \o t) = Len(a) + Len(t)
      /\ \A i \in 1..Len(a) : (a \o t)[i] = a[i]
      /\ \A i \in 1..Len(t) : (a \o t)[Len(a) + i] = t[i]
  BY <1>1, <1>2
<1>4. \A i \in 1..Len(s) : i \in 1..Len(a)
  BY <1>2
<1>5. Len(s) + 1 \in 1..Len(a)
  BY <1>2
<1>6. /\ \A i \in 1..Len(s) : (a \o t)[i] = s[i]
      /\ (a \o t)[Len(s) + 1] = x
      /\ \A i \in 1..Len(t) : (a \o t)[Len(s) + 1 + i] = t[i]
      /\ Len(a \o t) = Len(s) + 1 + Len(t)
  BY <1>2, <1>3, <1>4, <1>5
<1> QED
  BY <1>3, <1>6 DEF a

(* An element of every name has default items that fit. *)
LEMMA ItemsGrow ==
  ASSUME HeapOK, NEW token, NEW parent \in Ids, NEW c, NEW l
  PROVE  LET h == WithElement(token, parent, c, l)
         IN /\ Grown(h, parent)
            /\ h[Len(elems) + 1] = NewElement(token, parent, Len(elems) + 1, c, l)
<1> DEFINE n == Len(elems) + 1
           new == NewElement(token, parent, n, c, l)
           items == IF token.populate THEN DefaultItems(token.name, n, new.depth) ELSE <<>>
           base == [elems EXCEPT ![parent].children = Append(@, n)]
           h == WithElement(token, parent, c, l)
<1> SUFFICES Grown(h, parent) /\ h[n] = new
  OBVIOUS
<1>1. h = base \o <<new>> \o items
  BY DEF WithElement
<1>2. PICK S : elems \in Seq(S)
  BY DEF HeapOK
<1>3. /\ parent \in 1..Len(elems) /\ Len(elems) \in Nat /\ n \in Nat
      /\ \E B : base \in Seq(B)
      /\ Len(base) = Len(elems)
      /\ base[parent] = [elems[parent] EXCEPT !.children = Append(@, n)]
      /\ \A e \in Ids \ {parent} : base[e] = elems[e]
  <2> DEFINE changed == [elems[parent] EXCEPT !.children = Append(@, n)]
  <2>1. parent \in 1..Len(elems) /\ Len(elems) \in Nat
    BY <1>2 DEF Ids
  <2>2. base = [elems EXCEPT ![parent] = changed]
    OBVIOUS
  <2> HIDE DEF changed, base
  <2>3. elems \in Seq(S \cup {changed}) /\ changed \in S \cup {changed}
    BY <1>2
  <2>4. base \in Seq(S \cup {changed})
    BY <2>1, <2>2, <2>3
  <2>5. Len(base) = Len(elems) /\ base[parent] = changed /\ \A e \in Ids \ {parent} : base[e] = elems[e]
    BY <1>2, <2>1, <2>2 DEF Ids
  <2> QED
    BY <2>1, <2>4, <2>5 DEF changed
<1>4. /\ IsElement(new) /\ new.parent = parent /\ new.depth = elems[parent].depth + 1
      /\ new.children = IF token.populate THEN DirectItems(token.name, n) ELSE <<>>
  BY NewElementFields
<1>5. new.depth \in Int
  BY <1>4 DEF HeapOK
<1> HIDE DEF new, items, base, h
<1>6. \A e \in Ids : IsElement(base[e])
  <2>1. \A e \in Ids : IsElement(elems[e])
    BY DEF HeapOK
  <2>2. IsElement([elems[parent] EXCEPT !.children = Append(@, n)])
    BY <2>1, WithChildren
  <2> QED
    BY <1>3, <2>1, <2>2
<1>7. ASSUME NEW T, new \in T, items \in Seq(T), \A i \in 1..Len(items) : IsElement(items[i]) /\ NoToken(items[i])
      PROVE  /\ Len(h) = n + Len(items) /\ h[n] = new
             /\ \A i \in 1..Len(items) : h[n + i] = items[i]
             /\ NewItems(h, n) => Grown(h, parent)
  <2>1. /\ \E U : h \in Seq(U)
        /\ Len(h) = n + Len(items) /\ Len(items) \in Nat
        /\ \A e \in Ids : h[e] = base[e]
        /\ h[n] = new /\ \A i \in 1..Len(items) : h[n + i] = items[i]
    <3>1. PICK B : base \in Seq(B)
      BY <1>3
    <3>2. /\ h \in Seq(B \cup T) /\ Len(h) = Len(base) + 1 + Len(items)
          /\ \A i \in 1..Len(base) : h[i] = base[i]
          /\ h[Len(base) + 1] = new
          /\ \A i \in 1..Len(items) : h[Len(base) + 1 + i] = items[i]
      BY <1>1, <1>7, <3>1, Concatenated
    <3>3. Len(items) \in Nat
      BY <1>7
    <3> QED
      BY <1>3, <3>2, <3>3 DEF Ids
  <2>3. ASSUME NEW e \in 1..Len(h) PROVE IsElement(h[e])
    <3>1. e \in Ids \/ e = n \/ e - n \in 1..Len(items)
      <4>1. Len(h) = Len(elems) + 1 + Len(items) /\ Len(items) \in Nat /\ Len(elems) \in Nat
        BY <1>3, <2>1
      <4> QED
        BY <4>1 DEF Ids
    <3>2. CASE e \in Ids
      BY <1>6, <2>1, <3>2
    <3>3. CASE e = n
      BY <1>4, <2>1, <3>3
    <3>4. CASE e - n \in 1..Len(items)
      <4>1. e = n + (e - n)
        BY <1>3
      <4> QED
        BY <1>7, <2>1, <3>4, <4>1
    <3> QED
      BY <3>1, <3>2, <3>3, <3>4
  <2>4. ASSUME NEW e \in n + 1..Len(h) PROVE NoToken(h[e])
    <3>1. e - n \in 1..Len(items) /\ e = n + (e - n)
      BY <1>3, <2>1
    <3> QED
      BY <1>7, <2>1, <3>1
  <2> QED
    BY <1>3, <1>4, <2>1, <2>3, <2>4 DEF Grown
<1>8. CASE ~token.populate \/ token.name \notin {"ul", "dl", "table"}
  <2>1. items = <<>> /\ new.children = <<>>
    BY <1>4, <1>8 DEF items, DefaultItems, DirectItems
  <2>2. items \in Seq({new}) /\ Len(items) = 0
    BY <2>1
  <2>3. \A i \in 1..Len(items) : IsElement(items[i]) /\ NoToken(items[i])
    BY <2>2
  <2>4. (NewItems(h, n) => Grown(h, parent)) /\ Len(h) = n + Len(items) /\ h[n] = new
    BY <1>7, <2>2, <2>3
  <2>5. Len(h) = n
    BY <1>3, <2>2, <2>4
  <2> QED
    BY <2>1, <2>4, <2>5 DEF NewItems
<1>9. CASE token.populate /\ token.name = "ul"
  <2> DEFINE x == DefaultItem("li", n, new.depth + 1, <<>>)
  <2>1. items = <<x>> /\ new.children = <<n + 1>>
    BY <1>4, <1>9 DEF items, DefaultItems, DirectItems
  <2>2. IsElement(x) /\ x.tok = 0 /\ x.name = "li" /\ x.parent = n /\ x.depth = new.depth + 1 /\ x.children = <<>>
    BY DefaultItemFields
  <2> HIDE DEF x
  <2>3. NoToken(x)
    BY <2>2, ItemNames, Zenon DEF NoToken
  <2>4. items \in Seq({new, x}) /\ Len(items) = 1 /\ items[1] = x
    BY <2>1
  <2>5. (NewItems(h, n) => Grown(h, parent)) /\ Len(h) = n + 1 /\ h[n] = new /\ h[n + 1] = x
    BY <1>7, <2>2, <2>3, <2>4
  <2> QED
    BY <2>1, <2>2, <2>5 DEF NewItems
<1>10. CASE token.populate /\ token.name = "dl"
  <2> DEFINE x == DefaultItem("dt", n, new.depth + 1, <<>>)
             y == DefaultItem("dd", n, new.depth + 1, <<>>)
  <2>1. items = <<x, y>> /\ new.children = <<n + 1, n + 2>>
    BY <1>4, <1>10 DEF items, DefaultItems, DirectItems
  <2>2. /\ IsElement(x) /\ x.tok = 0 /\ x.name = "dt" /\ x.parent = n /\ x.depth = new.depth + 1 /\ x.children = <<>>
        /\ IsElement(y) /\ y.tok = 0 /\ y.name = "dd" /\ y.parent = n /\ y.depth = new.depth + 1 /\ y.children = <<>>
    BY DefaultItemFields
  <2> HIDE DEF x, y
  <2>3. NoToken(x) /\ NoToken(y)
    BY <2>2, ItemNames, Zenon DEF NoToken
  <2>4. items \in Seq({new, x, y}) /\ Len(items) = 2 /\ items[1] = x /\ items[2] = y
    BY <2>1
  <2>5. /\ NewItems(h, n) => Grown(h, parent)
        /\ Len(h) = n + 2 /\ h[n] = new /\ h[n + 1] = x /\ h[n + 2] = y
    BY <1>7, <2>2, <2>3, <2>4
  <2> QED
    BY <2>1, <2>2, <2>5 DEF NewItems
<1>11. CASE token.populate /\ token.name = "table"
  <2> DEFINE x == DefaultItem("tr", n, new.depth + 1, <<n + 2>>)
             y == DefaultItem("td", n + 1, new.depth + 2, <<>>)
  <2>1. items = <<x, y>> /\ new.children = <<n + 1>>
    BY <1>4, <1>11 DEF items, DefaultItems, DirectItems
  <2>2. /\ IsElement(x) /\ x.tok = 0 /\ x.name = "tr" /\ x.parent = n /\ x.depth = new.depth + 1 /\ x.children = <<n + 2>>
        /\ IsElement(y) /\ y.tok = 0 /\ y.name = "td" /\ y.parent = n + 1 /\ y.depth = new.depth + 2 /\ y.children = <<>>
    BY DefaultItemFields
  <2> HIDE DEF x, y
  <2>3. NoToken(x) /\ NoToken(y)
    BY <2>2, ItemNames, Zenon DEF NoToken
  <2>4. items \in Seq({new, x, y}) /\ Len(items) = 2 /\ items[1] = x /\ items[2] = y
    BY <2>1
  <2>5. /\ NewItems(h, n) => Grown(h, parent)
        /\ Len(h) = n + 2 /\ h[n] = new /\ h[n + 1] = x /\ h[n + 2] = y
    BY <1>7, <2>2, <2>3, <2>4
  <2> QED
    BY <2>1, <2>2, <2>5 DEF NewItems
<1> QED
  BY <1>8, <1>9, <1>10, <1>11

LEMMA NoChild == <<>> \in Seq(Nat) /\ Len(<<>>) = 0 /\ Increasing(<<>>)
BY DEF Increasing

LEMMA OneChild ==
  ASSUME NEW a \in Nat
  PROVE  <<a>> \in Seq(Nat) /\ Len(<<a>>) = 1 /\ <<a>>[1] = a /\ Increasing(<<a>>)
BY DEF Increasing

LEMMA TwoChildren ==
  ASSUME NEW a \in Nat, NEW b \in Nat, a < b
  PROVE  /\ <<a, b>> \in Seq(Nat) /\ Len(<<a, b>>) = 2
         /\ <<a, b>>[1] = a /\ <<a, b>>[2] = b
         /\ Increasing(<<a, b>>)
<1>1. <<a, b>> \in Seq(Nat) /\ Len(<<a, b>>) = 2 /\ <<a, b>>[1] = a /\ <<a, b>>[2] = b
  OBVIOUS
<1>2. \A i, j \in 1..2 : i < j => i = 1 /\ j = 2
  OBVIOUS
<1> QED
  BY <1>1, <1>2 DEF Increasing

\* The children of a new element are new, and it is their parent.
NodeOK(h, n, p) ==
  /\ h[p].depth \in Int /\ h[p].children \in Seq(Nat) /\ Increasing(h[p].children)
  /\ \A i \in 1..Len(h[p].children) : /\ h[p].children[i] \in n + 1..Len(h)
                                      /\ h[h[p].children[i]].parent = p

\* A default item is in the list of its parent, one level below it.
LinkOK(h, n, e) ==
  /\ h[e].parent \in n..e - 1
  /\ h[e].depth = h[h[e].parent].depth + 1
  /\ \E i \in 1..Len(h[h[e].parent].children) : h[h[e].parent].children[i] = e

\* Among themselves the new elements make a tree.
NewTree(h, n) ==
  /\ Len(h) \in Nat /\ n <= Len(h)
  /\ \A e \in n..Len(h) : h[e].depth >= h[n].depth
  /\ \A p \in n..Len(h) : NodeOK(h, n, p)
  /\ \A e \in n + 1..Len(h) : LinkOK(h, n, e)

LEMMA LeafOK ==
  ASSUME NEW h, NEW n, NEW p, h[p].depth \in Int, h[p].children = <<>>
  PROVE  NodeOK(h, n, p)
<1>1. 1..0 = {}
  OBVIOUS
<1> QED
  BY <1>1, NoChild DEF NodeOK

LEMMA ParentOfOne ==
  ASSUME NEW h, NEW n \in Nat, NEW p \in Nat, NEW a \in n + 1..Len(h), Len(h) \in Nat,
         h[p].depth \in Int, h[p].children = <<a>>, h[a].parent = p, h[a].depth = h[p].depth + 1,
         p \in n..a - 1
  PROVE  NodeOK(h, n, p) /\ LinkOK(h, n, a)
<1>1. a \in Nat /\ 1..1 = {1}
  OBVIOUS
<1>2. h[p].children \in Seq(Nat) /\ Len(h[p].children) = 1 /\ h[p].children[1] = a /\ Increasing(h[p].children)
  BY <1>1, OneChild
<1> QED
  BY <1>1, <1>2 DEF NodeOK, LinkOK

LEMMA ParentOfTwo ==
  ASSUME NEW h, NEW n \in Nat, NEW p \in Nat, NEW a \in n + 1..Len(h), NEW b \in n + 1..Len(h),
         Len(h) \in Nat, a < b,
         h[p].depth \in Int, h[p].children = <<a, b>>, p \in n..a - 1,
         h[a].parent = p, h[a].depth = h[p].depth + 1,
         h[b].parent = p, h[b].depth = h[p].depth + 1
  PROVE  NodeOK(h, n, p) /\ LinkOK(h, n, a) /\ LinkOK(h, n, b)
<1>1. a \in Nat /\ b \in Nat /\ 1..2 = {1, 2} /\ p \in n..b - 1
  OBVIOUS
<1>2. /\ h[p].children \in Seq(Nat) /\ Len(h[p].children) = 2 /\ Increasing(h[p].children)
      /\ h[p].children[1] = a /\ h[p].children[2] = b
  BY <1>1, TwoChildren
<1> QED
  BY <1>1, <1>2 DEF NodeOK, LinkOK

LEMMA NewItemsTree ==
  ASSUME NEW n \in Nat, NEW h, h[n].depth \in Int, NewItems(h, n)
  PROVE  NewTree(h, n)
<1>1. CASE Len(h) = n /\ h[n].children = <<>>
  <2>1. n..Len(h) = {n} /\ n + 1..Len(h) = {}
    BY <1>1
  <2>2. NodeOK(h, n, n)
    BY <1>1, LeafOK
  <2> QED
    BY <1>1, <2>1, <2>2 DEF NewTree
<1>2. CASE /\ Len(h) = n + 1 /\ h[n].children = <<n + 1>>
           /\ h[n + 1].parent = n /\ h[n + 1].depth = h[n].depth + 1 /\ h[n + 1].children = <<>>
  <2>1. n..Len(h) = {n, n + 1} /\ n + 1..Len(h) = {n + 1} /\ n \in n..(n + 1) - 1
    BY <1>2
  <2>2. NodeOK(h, n, n + 1)
    BY <1>2, LeafOK
  <2>3. NodeOK(h, n, n) /\ LinkOK(h, n, n + 1)
    BY <1>2, <2>1, ParentOfOne
  <2> QED
    BY <1>2, <2>1, <2>2, <2>3 DEF NewTree
<1>3. CASE /\ Len(h) = n + 2 /\ h[n].children = <<n + 1, n + 2>>
           /\ h[n + 1].parent = n /\ h[n + 1].depth = h[n].depth + 1 /\ h[n + 1].children = <<>>
           /\ h[n + 2].parent = n /\ h[n + 2].depth = h[n].depth + 1 /\ h[n + 2].children = <<>>
  <2>1. /\ n..Len(h) = {n, n + 1, n + 2} /\ n + 1..Len(h) = {n + 1, n + 2}
        /\ n \in n..(n + 1) - 1
    BY <1>3
  <2>2. NodeOK(h, n, n + 1) /\ NodeOK(h, n, n + 2)
    BY <1>3, LeafOK
  <2> DEFINE a == n + 1
             b == n + 2
  <2>3. /\ a \in n + 1..Len(h) /\ b \in n + 1..Len(h) /\ Len(h) \in Nat /\ a < b /\ n \in n..a - 1
        /\ h[n].depth \in Int /\ h[n].children = <<a, b>>
        /\ h[a].parent = n /\ h[a].depth = h[n].depth + 1
        /\ h[b].parent = n /\ h[b].depth = h[n].depth + 1
    BY <1>3
  <2> HIDE DEF a, b
  <2>4. NodeOK(h, n, n) /\ LinkOK(h, n, a) /\ LinkOK(h, n, b)
    BY <2>3, ParentOfTwo
  <2> QED
    BY <1>3, <2>1, <2>2, <2>4 DEF NewTree, a, b
<1>4. CASE /\ Len(h) = n + 2 /\ h[n].children = <<n + 1>>
           /\ h[n + 1].parent = n /\ h[n + 1].depth = h[n].depth + 1 /\ h[n + 1].children = <<n + 2>>
           /\ h[n + 2].parent = n + 1 /\ h[n + 2].depth = h[n].depth + 2 /\ h[n + 2].children = <<>>
  <2>1. /\ n..Len(h) = {n, n + 1, n + 2} /\ n + 1..Len(h) = {n + 1, n + 2}
        /\ n \in n..(n + 1) - 1 /\ n + 1 \in n..(n + 2) - 1
    BY <1>4
  <2>2. h[n + 1].depth \in Int /\ h[n + 2].depth = h[n + 1].depth + 1 /\ h[n + 2].depth \in Int
    BY <1>4
  <2>3. NodeOK(h, n, n + 2)
    BY <1>4, <2>2, LeafOK
  <2> DEFINE a == n + 1
             b == n + 2
  <2>4. /\ a \in n + 1..Len(h) /\ b \in n + 1..Len(h) /\ Len(h) \in Nat /\ a \in Nat
        /\ n \in n..a - 1 /\ a \in n..b - 1
        /\ h[n].depth \in Int /\ h[n].children = <<a>> /\ h[a].parent = n /\ h[a].depth = h[n].depth + 1
        /\ h[a].depth \in Int /\ h[a].children = <<b>> /\ h[b].parent = a /\ h[b].depth = h[a].depth + 1
    BY <1>4, <2>2
  <2> HIDE DEF a, b
  <2>5. NodeOK(h, n, n) /\ LinkOK(h, n, a)
    BY <2>4, ParentOfOne
  <2>6. NodeOK(h, n, a) /\ LinkOK(h, n, b)
    BY <2>4, ParentOfOne
  <2> QED
    BY <1>4, <2>1, <2>3, <2>5, <2>6 DEF NewTree, a, b
<1> QED
  BY <1>1, <1>2, <1>3, <1>4 DEF NewItems

-----------------------------------------------------------------------------
(* The tree after an element was added.                                    *)

LEMMA Prefixed ==
  ASSUME NEW s \in Seq(Nat), NEW n \in Nat
  PROVE  IsPrefix(s, s) /\ IsPrefix(s, Append(s, n))
<1> DEFINE t == Append(s, n)
<1>1. t \in Seq(Nat) /\ Len(t) = Len(s) + 1 /\ Len(s) \in Nat /\ \A i \in 1..Len(s) : t[i] = s[i]
  OBVIOUS
<1> HIDE DEF t
<1>2. SubSeq(s, 1, Len(s)) = s
  OBVIOUS
<1>3. SubSeq(t, 1, Len(s)) = s
  BY <1>1
<1> QED
  BY <1>1, <1>2, <1>3 DEF IsPrefix, t

LEMMA OneMoreChild ==
  ASSUME NEW s \in Seq(Nat), NEW n \in Nat, Increasing(s), \A i \in 1..Len(s) : s[i] < n
  PROVE  LET t == Append(s, n)
         IN /\ t \in Seq(Nat) /\ Len(t) = Len(s) + 1 /\ t[Len(s) + 1] = n
            /\ \A i \in 1..Len(s) : t[i] = s[i]
            /\ Increasing(t)
<1> DEFINE t == Append(s, n)
<1>1. /\ t \in Seq(Nat) /\ Len(t) = Len(s) + 1 /\ Len(s) \in Nat
      /\ t[Len(s) + 1] = n /\ \A i \in 1..Len(s) : t[i] = s[i]
  OBVIOUS
<1> HIDE DEF t
<1>2. ASSUME NEW i \in 1..Len(t), NEW j \in 1..Len(t), i < j
      PROVE  t[i] < t[j]
  <2>1. i \in 1..Len(s) /\ t[i] = s[i]
    BY <1>1, <1>2
  <2>2. CASE j = Len(s) + 1
    BY <1>1, <2>1, <2>2
  <2>3. CASE j \in 1..Len(s)
    BY <1>1, <1>2, <2>1, <2>3 DEF Increasing
  <2> QED
    BY <1>1, <2>2, <2>3
<1> QED
  BY <1>1, <1>2 DEF t, Increasing

\* What stays of an element when others are added.
KeptElement(e) ==
  /\ elems'[e].parent = elems[e].parent
  /\ elems'[e].depth = elems[e].depth
  /\ elems'[e].tok = elems[e].tok
  /\ elems'[e].name = elems[e].name
  /\ elems'[e].tags = elems[e].tags
  /\ elems'[e].attrs = elems[e].attrs
  /\ elems'[e].count = elems[e].count
  /\ elems'[e].local = elems[e].local
  /\ elems'[e] = [elems[e] EXCEPT !.children = elems'[e].children, !.depth = elems'[e].depth]
  /\ IsPrefix(elems[e].children, elems'[e].children)

LEMMA ElementsKept ==
  ASSUME HeapOK, NEW parent \in Ids, Grown(elems', parent)
  PROVE  \A e \in Ids : KeptElement(e)
<1> DEFINE n == Len(elems) + 1
<1>1. TAKE e \in Ids
<1>2. /\ IsElement(elems[e]) /\ elems[e].children \in Seq(Nat) /\ n \in Nat
      /\ IsPrefix(elems[e].children, elems[e].children)
      /\ IsPrefix(elems[e].children, Append(elems[e].children, n))
  <2>1. IsElement(elems[e]) /\ elems[e].children \in Seq(Nat) /\ n \in Nat
    BY DEF HeapOK, Ids
  <2> QED
    BY <2>1, Prefixed
<1>3. CASE e # parent
  <2>1. elems'[e] = elems[e]
    BY <1>3 DEF Grown
  <2> QED
    BY <1>2, <2>1, SameElement DEF KeptElement
<1>4. CASE e = parent
  <2>1. elems'[e] = [elems[e] EXCEPT !.children = Append(@, n)]
    BY <1>4 DEF Grown
  <2> HIDE DEF n
  <2>2. elems'[e] = [elems[e] EXCEPT !.children = Append(elems[e].children, n)]
    BY <2>1
  <2> DEFINE r == elems[e]
             c == Append(elems[e].children, n)
             x == elems'[e]
  <2>3. x = [r EXCEPT !.children = c] /\ IsElement(r)
    BY <1>2, <2>2
  <2> HIDE DEF r, c, x
  <2>4. /\ x.children = c /\ x.tok = r.tok /\ x.parent = r.parent /\ x.depth = r.depth
        /\ x.attrs = r.attrs /\ x.count = r.count /\ x.local = r.local
        /\ x.name = r.name /\ x.tags = r.tags
        /\ x = [r EXCEPT !.children = x.children, !.depth = x.depth]
    BY <2>3 DEF IsElement
  <2>5. IsPrefix(r.children, x.children)
    BY <1>2, <2>4, Zenon DEF r, c
  <2> QED
    BY <2>4, <2>5, Zenon DEF KeptElement, r, x
<1> QED
  BY <1>3, <1>4

LEMMA Appended ==
  ASSUME NEW h, NEW p, NEW n, NEW r, IsElement(r), h[p] = [r EXCEPT !.children = Append(@, n)]
  PROVE  h[p].children = Append(r.children, n)
<1> DEFINE c == Append(r.children, n)
<1>1. h[p] = [r EXCEPT !.children = c]
  OBVIOUS
<1> HIDE DEF c
<1>2. h[p].children = c
  BY <1>1 DEF IsElement
<1> QED
  BY <1>2 DEF c

(* The tree stays one, and what it was made of stays in place. *)
LEMMA TreeGrows ==
  ASSUME HeapOK, TreeSound, NEW parent \in Ids, Grown(elems', parent)
  PROVE  /\ HeapOK' /\ TreeSound'
         /\ Len(elems') \in Nat /\ Len(elems') > Len(elems)
         /\ \A e \in Ids : KeptElement(e)
         /\ \A e \in Ids' \ Ids : elems'[e].depth > elems[parent].depth
<1> DEFINE n == Len(elems) + 1
           h == elems'
<1>1. \A e \in Ids : KeptElement(e)
  BY ElementsKept
<1>2. /\ Len(elems) \in Nat /\ n \in Nat /\ n >= 2 /\ n - 1 = Len(elems)
      /\ 1 \in Ids /\ parent \in Nat /\ parent <= n - 1 /\ n \notin Ids
  BY DEF HeapOK, Ids
<1>3. /\ h[n].depth \in Int /\ h[n].parent = parent
      /\ h[n].depth = elems[parent].depth + 1 /\ NewItems(h, n)
  BY DEF Grown, HeapOK
<1>4. NewTree(h, n)
  BY <1>2, <1>3, NewItemsTree
<1>5. Len(h) \in Nat /\ n <= Len(h)
  BY <1>4 DEF NewTree
<1>6. /\ Ids' = Ids \cup n..Len(h) /\ Ids \subseteq Ids'
      /\ \A e \in Ids' : e \in Ids \/ e = n \/ e \in n + 1..Len(h)
      /\ n + 1..Len(h) \subseteq Ids' /\ n \in Ids'
  BY <1>2, <1>5 DEF Ids
<1> DEFINE s == elems[parent].children
<1>7. /\ s \in Seq(Nat) /\ Increasing(s)
      /\ \A i \in 1..Len(s) : s[i] \in Ids /\ elems[s[i]].parent = parent /\ s[i] < n
  BY <1>2 DEF HeapOK, TreeSound, ChildrenInOrder, ChildrenMatchParents, Ids
<1>8. /\ h[parent].children = Append(s, n)
  BY Appended DEF Grown, HeapOK
<1> HIDE DEF s
<1>9. /\ h[parent].children \in Seq(Nat) /\ Increasing(h[parent].children)
      /\ Len(h[parent].children) = Len(s) + 1 /\ Len(s) \in Nat
      /\ h[parent].children[Len(s) + 1] = n
      /\ \A i \in 1..Len(s) : h[parent].children[i] = s[i]
  <2> DEFINE t == h[parent].children
             N == n
  <2> HIDE DEF N
  <2>1. /\ s \in Seq(Nat) /\ N \in Nat /\ Increasing(s) /\ \A i \in 1..Len(s) : s[i] < N
        /\ t = Append(s, N) /\ Len(s) \in Nat
    BY <1>2, <1>7, <1>8 DEF N
  <2> HIDE DEF t
  <2>2. /\ t \in Seq(Nat) /\ Len(t) = Len(s) + 1 /\ t[Len(s) + 1] = N
        /\ \A i \in 1..Len(s) : t[i] = s[i]
        /\ Increasing(t)
    BY <2>1, OneMoreChild
  <2> QED
    BY <2>1, <2>2 DEF t, N
<1>10. /\ \A e \in Ids \ {parent} : h[e].children = elems[e].children
       /\ \A e \in Ids : h[e].parent = elems[e].parent /\ h[e].depth = elems[e].depth
  BY <1>1 DEF Grown, KeptElement
<1>11. /\ \A p \in n..Len(h) : NodeOK(h, n, p)
       /\ \A e \in n + 1..Len(h) : LinkOK(h, n, e)
  BY <1>4 DEF NewTree
<1>12. HeapOK'
  <2>1. \A e \in Ids' : IsElement(h[e])
    BY DEF Grown, Ids
  <2>2. \A e \in Ids' : h[e].depth \in Int /\ h[e].children \in Seq(Nat)
    BY <1>6, <1>9, <1>10, <1>11 DEF HeapOK, NodeOK
  <2> QED
    BY <1>5, <1>2, <2>1, <2>2 DEF HeapOK, Grown
<1>13. ParentsAreOlder'
  <2>1. elems[1].parent = 0 /\ \A e \in Ids \ {1} : elems[e].parent \in 1..e - 1
    BY DEF TreeSound, ParentsAreOlder, Root
  <2>2. ASSUME NEW e \in Ids' \ {1} PROVE h[e].parent \in 1..e - 1
    <3>1. CASE e \in Ids
      BY <1>10, <2>1, <3>1
    <3>2. CASE e = n
      BY <1>2, <1>3, <3>2 DEF Ids
    <3>3. CASE e \in n + 1..Len(h)
      <4>1. h[e].parent \in n..e - 1
        BY <1>11, <3>3 DEF LinkOK
      <4> QED
        BY <1>2, <3>3, <4>1
    <3> QED
      BY <1>6, <3>1, <3>2, <3>3
  <2>3. h[1].parent = 0
    BY <1>2, <1>10, <2>1
  <2> QED
    BY <2>2, <2>3 DEF ParentsAreOlder, Root
<1>14. ASSUME NEW p \in Ids', NEW i \in 1..Len(h[p].children)
       PROVE  h[p].children[i] \in Ids' /\ h[h[p].children[i]].parent = p
  <2>1. CASE p \in Ids \ {parent}
    <3>1. h[p].children[i] \in Ids /\ elems[h[p].children[i]].parent = p
      BY <1>10, <1>14, <2>1 DEF TreeSound, ChildrenMatchParents
    <3> QED
      BY <1>6, <1>10, <3>1
  <2>2. CASE p = parent /\ i \in 1..Len(s)
    <3>1. h[p].children[i] \in Ids /\ elems[h[p].children[i]].parent = p
      BY <1>7, <1>9, <2>2
    <3> QED
      BY <1>6, <1>10, <3>1
  <2>3. CASE p = parent /\ i = Len(s) + 1
    BY <1>3, <1>6, <1>9, <2>3
  <2>4. CASE p \in n..Len(h)
    <3>1. h[p].children[i] \in n + 1..Len(h) /\ h[h[p].children[i]].parent = p
      BY <1>11, <1>14, <2>4 DEF NodeOK
    <3> QED
      BY <1>6, <3>1
  <2>5. p = parent => i \in 1..Len(s) \/ i = Len(s) + 1
    BY <1>9, <1>14
  <2> QED
    BY <1>6, <2>1, <2>2, <2>3, <2>4, <2>5
<1>15. ASSUME NEW e \in Ids' \ {1}
       PROVE  \E i \in 1..Len(h[h[e].parent].children) : h[h[e].parent].children[i] = e
  <2>1. CASE e \in Ids
    <3> DEFINE q == elems[e].parent
    <3>1. q \in Ids
      BY <1>2, <1>15, <2>1 DEF TreeSound, ParentsAreOlder, Root, Ids
    <3>2. PICK i \in 1..Len(elems[q].children) : elems[q].children[i] = e
      BY <1>15, <2>1 DEF TreeSound, ChildrenMatchParents, Root
    <3>3. h[e].parent = q
      BY <1>10, <2>1
    <3> HIDE DEF q
    <3>4. CASE q # parent
      BY <1>10, <3>1, <3>2, <3>3, <3>4
    <3>5. CASE q = parent
      <4>1. i \in 1..Len(s) /\ s[i] = e
        BY <3>2, <3>5 DEF s
      <4>2. i \in 1..Len(h[parent].children) /\ h[parent].children[i] = e
        BY <1>9, <4>1
      <4> QED
        BY <3>3, <3>5, <4>2
    <3> QED
      BY <3>4, <3>5
  <2>2. CASE e = n
    <3>1. Len(s) + 1 \in 1..Len(h[parent].children)
      BY <1>9
    <3> QED
      BY <1>3, <1>9, <2>2, <3>1
  <2>3. CASE e \in n + 1..Len(h)
    BY <1>11, <2>3 DEF LinkOK
  <2> QED
    BY <1>6, <2>1, <2>2, <2>3
<1>16. ChildrenMatchParents'
  BY <1>14, <1>15 DEF ChildrenMatchParents, Root
<1>17. ChildrenInOrder'
  <2>1. \A p \in Ids : Increasing(elems[p].children)
    BY DEF TreeSound, ChildrenInOrder
  <2>2. ASSUME NEW p \in Ids' PROVE Increasing(h[p].children)
    <3>1. CASE p \in Ids \ {parent}
      <4>1. h[p].children = elems[p].children /\ Increasing(elems[p].children)
        BY <1>10, <2>1, <3>1
      <4> QED
        BY <4>1, Zenon
    <3>2. CASE p = parent
      BY <1>9, <3>2
    <3>3. CASE p \in n..Len(h)
      BY <1>11, <3>3 DEF NodeOK
    <3> QED
      BY <1>6, <3>1, <3>2, <3>3
  <2> QED
    BY <2>2 DEF ChildrenInOrder, Increasing
<1>18. DepthsMatch'
  <2>1. ASSUME NEW e \in Ids' \ {1} PROVE h[e].depth = h[h[e].parent].depth + 1
    <3>1. CASE e \in Ids
      <4>1. elems[e].parent \in Ids /\ elems[e].depth = elems[elems[e].parent].depth + 1
        BY <1>2, <2>1, <3>1 DEF TreeSound, ParentsAreOlder, DepthsMatch, Root, Ids
      <4> QED
        BY <1>10, <3>1, <4>1
    <3>2. CASE e = n
      BY <1>3, <1>10, <3>2
    <3>3. CASE e \in n + 1..Len(h)
      BY <1>11, <3>3 DEF LinkOK
    <3> QED
      BY <1>6, <3>1, <3>2, <3>3
  <2> QED
    BY <2>1 DEF DepthsMatch, Root
<1>19. \A e \in Ids' \ Ids : h[e].depth > elems[parent].depth
  <2>1. ASSUME NEW e \in n..Len(h) PROVE h[e].depth > elems[parent].depth
    <3>1. h[e].depth >= h[n].depth
      BY <1>4 DEF NewTree
    <3>2. h[e].depth \in Int /\ elems[parent].depth \in Int
      BY <1>11 DEF NodeOK, HeapOK
    <3> QED
      BY <1>3, <3>1, <3>2
  <2> QED
    BY <1>6, <2>1
<1> QED
  BY <1>1, <1>2, <1>5, <1>12, <1>13, <1>16, <1>17, <1>18, <1>19 DEF TreeSound

-----------------------------------------------------------------------------
(* The inductive invariant.                                                *)

TokensOK ==
  /\ \E S : tokens \in Seq(S)
  /\ \A t \in 1..Len(tokens) : tokens[t].mult \in Nat

\* Before the tokens are parsed there is the root only.
NothingYet ==
  phase \in {"prefix", "suffix", "split"} =>
    pos = 1 /\ elems = <<RootElement>> /\ caret = <<Root>> /\ last = <<>>

AtElement == phase = "element" => pos <= Len(tokens) /\ tokens[pos].type = "element"

\* Without a caret nothing is ever added again.
ListsOK == /\ caret \in Seq(Nat) /\ last \in Seq(Nat) /\ ci >= 1
           /\ caret = <<>> => last = <<>>

\* The elements of the token at work are below the carets.
LevelBelow ==
  phase = "element" => \A i \in 1..Len(last), j \in 1..Len(caret) :
    elems[last[i]].depth = elems[caret[j]].depth + 1

Explained == \/ \E t \in ElementTokens : tokens[t].mult = 0
             \/ \E i \in 1..Len(tokens) : Childless(i)

\* Why there may be no caret, and no element to become one.
EmptyExplained ==
  /\ caret = <<>> => Explained
  /\ phase = "parse" /\ last = <<>> => Explained \/ \A t \in ElementTokens : t >= pos
  /\ phase = "element" /\ last = <<>> =>
       caret = <<>> \/ tokens[pos].mult = 0 \/ (ci = 1 /\ local = 0)

IInv == /\ TypeOK /\ TokensOK /\ HeapOK /\ TreeSound
        /\ NothingYet /\ AtElement /\ ListsOK
        /\ CaretsLevel /\ LevelBelow /\ EmptyExplained /\ ErrorsExplained

LEMMA LoneRoot ==
  ASSUME NEW r, IsElement(r), r.depth \in Int, r.children = <<>>, r.parent = 0, elems = <<r>>
  PROVE  HeapOK /\ TreeSound /\ Ids = {1}
<1>1. Len(elems) = 1 /\ elems[1] = r /\ elems \in Seq({r}) /\ Ids = {1} /\ 1..0 = {}
  BY DEF Ids
<1>2. HeapOK
  <2>1. \E S : elems \in Seq(S)
    BY <1>1, Zenon
  <2>2. IsElement(elems[1]) /\ elems[1].depth \in Int /\ elems[1].children \in Seq(Nat)
    BY <1>1, NoChild
  <2> QED
    BY <1>1, <2>1, <2>2 DEF HeapOK
<1>3. TreeSound
  BY <1>1, NoChild DEF TreeSound, ParentsAreOlder, ChildrenMatchParents, ChildrenInOrder,
                       DepthsMatch, Root
<1> QED
  BY <1>1, <1>2, <1>3

LEMMA LoneRootAfter ==
  ASSUME NEW r, IsElement(r), r.depth \in Int, r.children = <<>>, r.parent = 0, elems' = <<r>>
  PROVE  HeapOK' /\ TreeSound' /\ Ids' = {1}
<1>1. Len(elems') = 1 /\ elems'[1] = r /\ elems' \in Seq({r}) /\ Ids' = {1} /\ 1..0 = {}
  BY DEF Ids
<1>2. HeapOK'
  <2>1. \E S : elems' \in Seq(S)
    BY <1>1, Zenon
  <2>2. IsElement(elems'[1]) /\ elems'[1].depth \in Int /\ elems'[1].children \in Seq(Nat)
    BY <1>1, NoChild
  <2> QED
    BY <1>1, <2>1, <2>2 DEF HeapOK
<1>3. TreeSound'
  BY <1>1, NoChild DEF TreeSound, ParentsAreOlder, ChildrenMatchParents, ChildrenInOrder,
                       DepthsMatch, Root
<1> QED
  BY <1>1, <1>2, <1>3

LEMMA RootFields ==
  /\ IsElement(RootElement)
  /\ RootElement.depth = -1 /\ RootElement.children = <<>> /\ RootElement.parent = 0
BY DEF RootElement, IsElement

LEMMA OneCaret ==
  ASSUME NEW a \in Nat
  PROVE  /\ <<a>> \in Seq(Nat) /\ Len(<<a>>) = 1 /\ <<a>>[1] = a /\ Increasing(<<a>>)
         /\ <<a>> # <<>>
         /\ \A i \in 1..Len(<<a>>) : <<a>>[i] = a
<1>1. Len(<<a>>) = 1 /\ <<a>>[1] = a /\ 1..1 = {1}
  OBVIOUS
<1> QED
  BY <1>1, OneChild

LEMMA InitIInv == Init => IInv
<1> SUFFICES ASSUME Init PROVE IInv
  OBVIOUS
<1>1. HeapOK /\ TreeSound /\ Ids = {1}
  BY LoneRoot, RootFields DEF Init
<1>2. /\ caret = <<1>> /\ caret \in Seq(Nat) /\ caret # <<>> /\ Len(caret) = 1 /\ Increasing(caret)
      /\ \A i \in 1..Len(caret) : caret[i] = 1
  <2>1. caret = <<1>>
    BY DEF Init, Root
  <2> QED
    BY <2>1, OneCaret
<1>3. last = <<>> /\ last \in Seq(Nat) /\ Len(last) = 0 /\ Increasing(last) /\ 1..0 = {}
  BY NoChild DEF Init
<1>4. tokens = <<>> /\ tokens \in Seq({}) /\ Len(tokens) = 0
  BY DEF Init
<1>5. /\ phase = "prefix" /\ around = {} /\ pos = 1 /\ ci = 1 /\ count = 0 /\ local = 0
      /\ elems = <<RootElement>> /\ caret = <<Root>>
  BY DEF Init
<1>6. TypeOK
  BY <1>1, <1>2, <1>3, <1>4, <1>5 DEF TypeOK
<1>7. TokensOK
  BY <1>4 DEF TokensOK
<1>8. NothingYet /\ AtElement /\ ListsOK
  BY <1>2, <1>3, <1>5 DEF NothingYet, AtElement, ListsOK
<1>9. CaretsLevel
  BY <1>2, <1>3 DEF CaretsLevel
<1>10. LevelBelow /\ EmptyExplained /\ ErrorsExplained
  BY <1>2, <1>5 DEF LevelBelow, EmptyExplained, ErrorsExplained
<1> QED
  BY <1>1, <1>6, <1>7, <1>8, <1>9, <1>10 DEF IInv

-----------------------------------------------------------------------------
(* Every action keeps the invariant.                                       *)

\* What holds of elements, carets and last ones stays with them.
LEMMA TreeStays ==
  ASSUME IInv, UNCHANGED treeVars
  PROVE  /\ HeapOK' /\ TreeSound' /\ CaretsLevel' /\ Ids' = Ids
         /\ \A e \in Ids : /\ elems'[e] = [elems[e] EXCEPT !.children = elems'[e].children,
                                                           !.depth = elems'[e].depth]
                           /\ IsPrefix(elems[e].children, elems'[e].children)
<1>1. elems' = elems /\ caret' = caret /\ last' = last
  BY DEF treeVars
<1>2. HeapOK /\ TreeSound /\ CaretsLevel
  BY DEF IInv
<1>3. HeapOK' /\ Ids' = Ids
  BY <1>1, <1>2, Zenon DEF HeapOK, Ids
<1>4. TreeSound'
  BY <1>1, <1>2, <1>3, Zenon DEF TreeSound, ParentsAreOlder, ChildrenMatchParents,
                                 ChildrenInOrder, DepthsMatch
<1>5. CaretsLevel'
  BY <1>1, <1>2, Zenon DEF CaretsLevel
<1>6. ASSUME NEW e \in Ids
      PROVE  /\ elems[e] = [elems[e] EXCEPT !.children = elems[e].children,
                                            !.depth = elems[e].depth]
             /\ IsPrefix(elems[e].children, elems[e].children)
  <2>1. IsElement(elems[e]) /\ elems[e].children \in Seq(Nat)
    BY <1>2 DEF HeapOK
  <2> QED
    BY <2>1, SameElement, Prefixed
<1> QED
  BY <1>1, <1>2, <1>3, <1>4, <1>5, <1>6

\* The steps before the parser.
LEMMA EarlySteps ==
  ASSUME IInv, phase \in {"prefix", "suffix", "split"}, phase' \in {"prefix", "suffix", "split"},
         UNCHANGED <<loopVars, treeVars>>, around' \subseteq {"prefix", "suffix"}, TokensOK'
  PROVE  IInv'
<1>1. /\ HeapOK' /\ TreeSound' /\ CaretsLevel' /\ Ids' = Ids
  BY TreeStays
<1>2. /\ elems' = elems /\ caret' = caret /\ last' = last /\ pos' = pos /\ ci' = ci
      /\ count' = count /\ local' = local
  BY DEF treeVars, loopVars
<1>3. TypeOK /\ NothingYet /\ ListsOK
  BY DEF IInv
<1>4. pos = 1 /\ caret = <<1>> /\ caret # <<>> /\ Len(tokens') \in Nat
  <2>1. pos = 1 /\ caret = <<1>>
    BY <1>3 DEF NothingYet, Root
  <2> QED
    BY <2>1, OneCaret DEF TokensOK
<1>5. TypeOK'
  BY <1>1, <1>2, <1>3, <1>4 DEF TypeOK
<1>6. NothingYet' /\ AtElement' /\ ListsOK'
  BY <1>2, <1>3 DEF NothingYet, AtElement, ListsOK
<1>7. LevelBelow' /\ EmptyExplained' /\ ErrorsExplained'
  BY <1>2, <1>4 DEF LevelBelow, EmptyExplained, ErrorsExplained
<1> QED
  BY <1>1, <1>5, <1>6, <1>7 DEF IInv

LEMMA StrippingKeeps ==
  IInv /\ (StripPrefix \/ PrefixDone \/ StripSuffix \/ SuffixDone) => IInv'
<1> SUFFICES ASSUME IInv, StripPrefix \/ PrefixDone \/ StripSuffix \/ SuffixDone PROVE IInv'
  OBVIOUS
<1>1. /\ phase \in {"prefix", "suffix", "split"} /\ phase' \in {"prefix", "suffix", "split"}
      /\ UNCHANGED <<loopVars, treeVars, tokens>>
  BY DEF StripPrefix, PrefixDone, StripSuffix, SuffixDone, tokenVars
<1>2. around' \subseteq {"prefix", "suffix"}
  <2>1. around' = around \/ around' = around \cup {"prefix"} \/ around' = around \cup {"suffix"}
    BY DEF StripPrefix, PrefixDone, StripSuffix, SuffixDone, tokenVars
  <2>2. around \subseteq {"prefix", "suffix"}
    BY DEF IInv, TypeOK
  <2> QED
    BY <2>1, <2>2
<1>3. TokensOK'
  BY <1>1, Zenon DEF IInv, TokensOK
<1> QED
  BY <1>1, <1>2, <1>3, EarlySteps

LEMMA OneMoreToken ==
  ASSUME TokensOK, NEW token, token.mult \in Nat, tokens' = Append(tokens, token)
  PROVE  TokensOK'
<1>1. PICK S : tokens \in Seq(S)
  BY DEF TokensOK
<1>2. tokens \in Seq(S \cup {token}) /\ token \in S \cup {token}
  BY <1>1
<1>3. /\ tokens' \in Seq(S \cup {token}) /\ Len(tokens') = Len(tokens) + 1 /\ Len(tokens) \in Nat
      /\ tokens'[Len(tokens) + 1] = token
      /\ \A i \in 1..Len(tokens) : tokens'[i] = tokens[i]
  BY <1>2
<1>4. \A i \in 1..Len(tokens') : i = Len(tokens) + 1 \/ i \in 1..Len(tokens)
  BY <1>3
<1> QED
  BY <1>3, <1>4 DEF TokensOK

LEMMA Multipliers ==
  /\ \A type : Separator(type).mult \in Nat
  /\ \A w, plus : ElementToken(w, plus).mult \in Nat
<1>1. \A type : Separator(type).mult = 1
  BY DEF Separator
<1>2. \A w : PageToken(w).mult = 1
  BY DEF PageToken, Separator
<1>3. \A w : CoreOf(w).mult \in Nat
  BY CoreAssumption DEF CoreOf, NoWord
<1>4. ASSUME NEW w, NEW plus PROVE ElementToken(w, plus).mult \in Nat
  <2>1. ElementToken(w, plus).mult \in {PageToken(w).mult, CoreOf(w).mult}
    BY DEF ElementToken
  <2> QED
    BY <1>2, <1>3, <2>1
<1> QED
  BY <1>1, <1>4

LEMMA SplittingKeeps == IInv /\ (SplitSeparator \/ SplitElement) => IInv'
<1> SUFFICES ASSUME IInv, SplitSeparator \/ SplitElement PROVE IInv'
  OBVIOUS
<1>1. /\ phase = "split" /\ phase' = phase /\ UNCHANGED <<loopVars, treeVars>> /\ around' = around
  BY DEF SplitSeparator, SplitElement
<1>2. TokensOK'
  <2>1. \/ \E type : tokens' = Append(tokens, Separator(type))
        \/ \E w, plus : tokens' = Append(tokens, ElementToken(w, plus))
    BY Zenon DEF SplitSeparator, SplitElement
  <2>2. TokensOK
    BY DEF IInv
  <2> QED
    BY <2>1, <2>2, OneMoreToken, Multipliers
<1>3. around' \subseteq {"prefix", "suffix"}
  BY <1>1 DEF IInv, TypeOK
<1> QED
  BY <1>1, <1>2, <1>3, EarlySteps

LEMMA TokensStay ==
  ASSUME IInv, UNCHANGED tokens
  PROVE  TokensOK' /\ (Explained' <=> Explained) /\ ElementTokens' = ElementTokens
<1>1. tokens' = tokens /\ TokensOK
  BY DEF IInv
<1>2. TokensOK'
  BY <1>1, Zenon DEF TokensOK
<1>3. ElementTokens' = ElementTokens
  BY <1>1, Zenon DEF ElementTokens
<1>4. Explained' <=> Explained
  BY <1>1, <1>3, Zenon DEF Explained, Childless
<1> QED
  BY <1>2, <1>3, <1>4

LEMMA SplitDoneKeeps == IInv /\ SplitDone => IInv' /\ elems = <<RootElement>>
<1> SUFFICES ASSUME IInv, SplitDone PROVE IInv' /\ elems = <<RootElement>>
  OBVIOUS
<1>1. /\ phase = "split" /\ phase' = "parse" /\ tokens' = tokens /\ around' = around
      /\ pos' = pos /\ ci' = ci /\ count' = count /\ local' = local
      /\ caret' = caret /\ last' = last
      /\ elems' = IF around = {} THEN elems ELSE [elems EXCEPT ![1].depth = @ + 1]
  BY DEF SplitDone, tokenVars, loopVars, Root
<1>2. pos = 1 /\ elems = <<RootElement>> /\ caret = <<1>> /\ last = <<>>
  BY <1>1 DEF IInv, NothingYet, Root
<1> DEFINE moved == [RootElement EXCEPT !.depth = @ + 1]
<1>3. IsElement(moved) /\ moved.depth \in Int /\ moved.children = <<>> /\ moved.parent = 0
  <2> DEFINE r == RootElement
             depth == r.depth + 1
  <2>1. IsElement(r) /\ r.depth \in Int /\ r.children = <<>> /\ r.parent = 0 /\ depth \in Int
    BY RootFields
  <2>2. moved = [r EXCEPT !.depth = depth]
    OBVIOUS
  <2> HIDE DEF r, depth, moved
  <2> QED
    BY <2>1, <2>2 DEF IsElement
<1>4. elems' = <<RootElement>> \/ elems' = <<moved>>
  <2> DEFINE r == RootElement
  <2>1. elems = <<r>>
    BY <1>2
  <2> HIDE DEF r
  <2>2. [elems EXCEPT ![1].depth = @ + 1] = <<[r EXCEPT !.depth = @ + 1]>>
    BY <2>1
  <2> QED
    BY <1>1, <1>2, <2>2 DEF r
<1> HIDE DEF moved
<1>5. HeapOK' /\ TreeSound' /\ Ids' = {1}
  <2>1. RootElement.depth \in Int
    BY RootFields
  <2> QED
    BY <1>3, <1>4, <2>1, RootFields, LoneRootAfter
<1>6. /\ caret' = <<1>> /\ last' = <<>>
      /\ caret' \in Seq(Nat) /\ Len(caret') = 1 /\ Increasing(caret') /\ caret' # <<>>
      /\ \A i \in 1..Len(caret') : caret'[i] = 1
      /\ last' \in Seq(Nat) /\ Len(last') = 0 /\ Increasing(last') /\ 1..0 = {}
  BY <1>1, <1>2, OneCaret, NoChild
<1>7. TokensOK' /\ Len(tokens') \in Nat /\ \A t \in ElementTokens' : t >= 1
  <2>1. TokensOK'
    BY <1>1, TokensStay
  <2> QED
    BY <2>1 DEF TokensOK, ElementTokens
<1>8. TypeOK'
  <2>1. ci' \in Nat /\ count' \in Nat /\ local' \in Nat /\ around' \subseteq {"prefix", "suffix"}
    BY <1>1 DEF IInv, TypeOK
  <2> QED
    BY <1>1, <1>2, <1>5, <1>6, <1>7, <2>1 DEF TypeOK
<1>9. CaretsLevel'
  BY <1>6 DEF CaretsLevel, Increasing
<1>10. NothingYet' /\ AtElement' /\ ListsOK'
  BY <1>1, <1>6 DEF NothingYet, AtElement, ListsOK, IInv
<1>11. LevelBelow' /\ EmptyExplained' /\ ErrorsExplained'
  BY <1>1, <1>2, <1>6, <1>7 DEF LevelBelow, EmptyExplained, ErrorsExplained
<1> QED
  BY <1>2, <1>5, <1>7, <1>8, <1>9, <1>10, <1>11 DEF IInv

\* What is the same in all steps of the parser.
LEMMA ParserSteps ==
  ASSUME IInv, UNCHANGED tokenVars, phase \in {"parse", "element"},
         phase' \in {"parse", "element", "error", "done"}
  PROVE  /\ TokensOK' /\ Len(tokens') \in Nat /\ tokens' = tokens
         /\ around' \subseteq {"prefix", "suffix"}
         /\ NothingYet'
         /\ (Explained' <=> Explained) /\ ElementTokens' = ElementTokens
<1>1. tokens' = tokens /\ around' = around
  BY DEF tokenVars
<1>2. around' \subseteq {"prefix", "suffix"}
  BY <1>1 DEF IInv, TypeOK
<1>3. TokensOK' /\ (Explained' <=> Explained) /\ ElementTokens' = ElementTokens
  BY <1>1, TokensStay
<1> QED
  BY <1>1, <1>2, <1>3 DEF TokensOK, NothingYet

LEMMA BeginElementKeeps == IInv /\ BeginElement => IInv'
<1> SUFFICES ASSUME IInv, BeginElement PROVE IInv'
  OBVIOUS
<1>1. /\ phase = "parse" /\ phase' = "element" /\ pos <= Len(tokens) /\ tokens[pos].type = "element"
      /\ last' = <<>> /\ ci' = 1 /\ count' = 0 /\ local' = 0
      /\ UNCHANGED tokenVars /\ pos' = pos /\ elems' = elems /\ caret' = caret
  BY DEF BeginElement, AtToken
<1>2. /\ TokensOK' /\ Len(tokens') \in Nat /\ tokens' = tokens
      /\ around' \subseteq {"prefix", "suffix"} /\ NothingYet'
      /\ (Explained' <=> Explained) /\ ElementTokens' = ElementTokens
  BY <1>1, ParserSteps
<1>3. last' \in Seq(Nat) /\ Len(last') = 0 /\ Increasing(last') /\ 1..0 = {}
  BY <1>1, NoChild
<1>4. HeapOK' /\ TreeSound' /\ Ids' = Ids
  BY <1>1, Zenon DEF IInv, HeapOK, TreeSound, ParentsAreOlder, ChildrenMatchParents, ChildrenInOrder,
                     DepthsMatch, Ids
<1>5. TypeOK' /\ ListsOK' /\ AtElement'
  BY <1>1, <1>2, <1>3, <1>4 DEF IInv, TypeOK, ListsOK, AtElement
<1>6. CaretsLevel'
  BY <1>1, <1>3 DEF IInv, CaretsLevel, Increasing
<1>7. LevelBelow' /\ EmptyExplained' /\ ErrorsExplained'
  BY <1>1, <1>2, <1>3 DEF IInv, LevelBelow, EmptyExplained, ErrorsExplained
<1> QED
  BY <1>2, <1>4, <1>5, <1>6, <1>7 DEF IInv

LEMMA NextCaretKeeps == IInv /\ NextCaret => IInv'
<1> SUFFICES ASSUME IInv, NextCaret PROVE IInv'
  OBVIOUS
<1>1. /\ phase = "element" /\ phase' = phase /\ ci' = ci + 1 /\ local' = 0 /\ local >= tokens[pos].mult
      /\ UNCHANGED tokenVars /\ pos' = pos /\ count' = count /\ UNCHANGED treeVars
  BY DEF NextCaret
<1>2. /\ TokensOK' /\ Len(tokens') \in Nat /\ tokens' = tokens
      /\ around' \subseteq {"prefix", "suffix"} /\ NothingYet'
      /\ (Explained' <=> Explained) /\ ElementTokens' = ElementTokens
  BY <1>1, ParserSteps
<1>3. elems' = elems /\ caret' = caret /\ last' = last
  BY <1>1 DEF treeVars
<1>4. HeapOK' /\ TreeSound' /\ CaretsLevel' /\ Ids' = Ids
  BY <1>1, TreeStays
<1>5. TypeOK' /\ ListsOK' /\ AtElement'
  BY <1>1, <1>2, <1>3, <1>4 DEF IInv, TypeOK, ListsOK, AtElement
<1>6. LevelBelow' /\ ErrorsExplained'
  BY <1>1, <1>3 DEF IInv, LevelBelow, ErrorsExplained
<1>7. EmptyExplained'
  <2>1. tokens[pos].mult \in Nat /\ local \in Nat
    BY <1>1 DEF IInv, TypeOK, TokensOK, AtElement
  <2>2. last = <<>> => caret = <<>> \/ tokens[pos].mult = 0
    BY <1>1, <2>1 DEF IInv, EmptyExplained
  <2> QED
    BY <1>1, <1>2, <1>3, <2>2 DEF IInv, EmptyExplained
<1> QED
  BY <1>2, <1>4, <1>5, <1>6, <1>7 DEF IInv

LEMMA EndElementKeeps == IInv /\ EndElement => IInv'
<1> SUFFICES ASSUME IInv, EndElement PROVE IInv'
  OBVIOUS
<1>1. /\ phase = "element" /\ phase' = "parse" /\ pos' = pos + 1 /\ ci > Len(caret)
      /\ UNCHANGED tokenVars /\ ci' = ci /\ count' = count /\ local' = local /\ UNCHANGED treeVars
  BY DEF EndElement
<1>2. /\ TokensOK' /\ Len(tokens') \in Nat /\ tokens' = tokens
      /\ around' \subseteq {"prefix", "suffix"} /\ NothingYet'
      /\ (Explained' <=> Explained) /\ ElementTokens' = ElementTokens
  BY <1>1, ParserSteps
<1>3. elems' = elems /\ caret' = caret /\ last' = last
  BY <1>1 DEF treeVars
<1>4. HeapOK' /\ TreeSound' /\ CaretsLevel' /\ Ids' = Ids
  BY <1>1, TreeStays
<1>5. pos \in 1..Len(tokens) /\ tokens[pos].type = "element"
  BY <1>1, <1>2 DEF IInv, TypeOK, AtElement
<1>6. TypeOK' /\ ListsOK' /\ AtElement'
  BY <1>1, <1>2, <1>3, <1>4, <1>5 DEF IInv, TypeOK, ListsOK, AtElement
<1>7. LevelBelow' /\ ErrorsExplained'
  BY <1>1 DEF LevelBelow, ErrorsExplained
<1>8. EmptyExplained'
  <2>1. pos \in ElementTokens
    BY <1>5 DEF ElementTokens
  <2>2. ASSUME last = <<>> PROVE Explained
    <3>1. CASE caret = <<>>
      BY <3>1 DEF IInv, EmptyExplained
    <3>2. CASE tokens[pos].mult = 0
      BY <2>1, <3>2 DEF Explained
    <3>3. CASE ci = 1
      <4>1. Len(caret) = 0 /\ caret \in Seq(Nat)
        BY <1>1, <3>3 DEF IInv, ListsOK
      <4>2. caret = <<>>
        BY <4>1
      <4> QED
        BY <3>1, <4>2
    <3> QED
      BY <1>1, <2>2, <3>1, <3>2, <3>3 DEF IInv, EmptyExplained
  <2> QED
    BY <1>1, <1>2, <1>3, <2>2 DEF IInv, EmptyExplained
<1> QED
  BY <1>2, <1>4, <1>6, <1>7, <1>8 DEF IInv

LEMMA AddElementGrows ==
  ASSUME IInv, AddElement
  PROVE  caret[ci] \in Ids /\ Grown(elems', caret[ci])
<1>1. /\ ci <= Len(caret) /\ elems' = WithElement(tokens[pos], caret[ci], count + 1, local + 1)
  BY DEF AddElement
<1>2. HeapOK /\ caret[ci] \in Ids
  BY <1>1 DEF IInv, TypeOK, ListsOK
<1>3. Grown(WithElement(tokens[pos], caret[ci], count + 1, local + 1), caret[ci])
  BY <1>2, ItemsGrow
<1> QED
  BY <1>1, <1>2, <1>3, Zenon

LEMMA AddElementKeeps == IInv /\ AddElement => IInv'
<1> SUFFICES ASSUME IInv, AddElement PROVE IInv'
  OBVIOUS
<1> DEFINE n == Len(elems) + 1
           parent == caret[ci]
<1>1. /\ phase = "element" /\ phase' = phase /\ ci <= Len(caret)
      /\ count' = count + 1 /\ local' = local + 1 /\ last' = Append(last, n)
      /\ UNCHANGED tokenVars /\ pos' = pos /\ ci' = ci /\ caret' = caret
  BY DEF AddElement
<1>2. parent \in Ids /\ Grown(elems', parent)
  BY AddElementGrows
<1>3. /\ HeapOK' /\ TreeSound'
      /\ Len(elems') \in Nat /\ Len(elems') > Len(elems)
      /\ \A e \in Ids : elems'[e].depth = elems[e].depth
  BY <1>2, TreeGrows DEF IInv, KeptElement
<1>4. /\ TokensOK' /\ Len(tokens') \in Nat /\ tokens' = tokens
      /\ around' \subseteq {"prefix", "suffix"} /\ NothingYet'
      /\ (Explained' <=> Explained) /\ ElementTokens' = ElementTokens
  BY <1>1, ParserSteps
<1>5. /\ Len(elems) \in Nat /\ n \in Nat /\ n \notin Ids /\ n \in Ids' /\ Ids \subseteq Ids'
      /\ \A e \in Ids : e \in Nat /\ e < n
  BY <1>3 DEF IInv, HeapOK, Ids
<1>6. /\ last \in Seq(Nat) /\ caret \in Seq(Nat) /\ ci >= 1 /\ ci \in Nat
      /\ Increasing(last) /\ \A i \in 1..Len(last) : last[i] \in Ids
      /\ \A i \in 1..Len(caret) : caret[i] \in Ids
      /\ ci \in 1..Len(caret)
  BY <1>1 DEF IInv, ListsOK, CaretsLevel, TypeOK
<1> HIDE DEF n
<1>7. /\ last' \in Seq(Nat) /\ Len(last') = Len(last) + 1 /\ last'[Len(last) + 1] = n
      /\ \A i \in 1..Len(last) : last'[i] = last[i]
      /\ Increasing(last') /\ Len(last) \in Nat
  BY <1>1, <1>5, <1>6, OneMoreChild
<1>8. last' # <<>> /\ caret # <<>>
  BY <1>6, <1>7
<1>9. \A i \in 1..Len(last') : i \in 1..Len(last) \/ i = Len(last) + 1
  BY <1>7
<1>10. TypeOK'
  <2>1. \A i \in 1..Len(last') : last'[i] \in Ids'
    BY <1>5, <1>6, <1>7, <1>9
  <2>2. \A i \in 1..Len(caret') : caret'[i] \in Ids'
    BY <1>1, <1>5, <1>6
  <2>3. count' \in Nat /\ local' \in Nat
    BY <1>1 DEF IInv, TypeOK
  <2>4. phase' = "element" /\ pos' \in 1..Len(tokens') + 1 /\ ci' \in Nat
    BY <1>1, <1>4 DEF IInv, TypeOK
  <2> QED
    BY <1>4, <2>1, <2>2, <2>3, <2>4 DEF TypeOK
<1>11. AtElement' /\ ListsOK'
  BY <1>1, <1>4, <1>6, <1>7, <1>8 DEF IInv, AtElement, ListsOK
<1>12. elems'[n].depth = elems[parent].depth + 1
  BY <1>2 DEF Grown, n
<1>13. LevelBelow'
  <2>1. ASSUME NEW i \in 1..Len(last'), NEW j \in 1..Len(caret)
        PROVE  elems'[last'[i]].depth = elems'[caret[j]].depth + 1
    <3>1. elems'[caret[j]].depth = elems[caret[j]].depth
      BY <1>3, <1>6
    <3>2. CASE i \in 1..Len(last)
      <4>1. elems[last[i]].depth = elems[caret[j]].depth + 1
        BY <1>1, <3>2 DEF IInv, LevelBelow
      <4>2. last[i] \in Ids /\ last'[i] = last[i]
        BY <1>6, <1>7, <3>2
      <4> QED
        BY <1>3, <3>1, <4>1, <4>2
    <3>3. CASE i = Len(last) + 1
      <4>1. elems[parent].depth = elems[caret[j]].depth
        BY <1>6 DEF IInv, CaretsLevel
      <4> QED
        BY <1>7, <1>12, <3>1, <3>3, <4>1
    <3> QED
      BY <1>9, <3>2, <3>3
  <2> QED
    BY <1>1, <2>1 DEF LevelBelow
<1>14. CaretsLevel'
  <2>1. \A i, j \in 1..Len(caret) : elems'[caret[i]].depth = elems'[caret[j]].depth
    BY <1>3, <1>6 DEF IInv, CaretsLevel
  <2>2. \A i, j \in 1..Len(last') : elems'[last'[i]].depth = elems'[last'[j]].depth
    BY <1>1, <1>6, <1>13 DEF LevelBelow
  <2>3. Increasing(caret)
    BY DEF IInv, CaretsLevel
  <2> QED
    BY <1>1, <1>7, <2>1, <2>2, <2>3 DEF CaretsLevel
<1>15. EmptyExplained' /\ ErrorsExplained'
  BY <1>1, <1>8 DEF EmptyExplained, ErrorsExplained
<1> QED
  BY <1>3, <1>4, <1>10, <1>11, <1>13, <1>14, <1>15 DEF IInv

LEMMA ParentKeeps == IInv /\ Parent => IInv'
<1> SUFFICES ASSUME IInv, Parent PROVE IInv'
  OBVIOUS
<1> DEFINE parent == elems[caret[1]].parent
<1>1. /\ phase = "parse" /\ phase' = phase /\ pos <= Len(tokens) /\ tokens[pos].type = "parent"
      /\ caret # <<>> /\ caret' = IF parent = 0 THEN caret ELSE <<parent>>
      /\ pos' = pos + 1
      /\ UNCHANGED tokenVars /\ ci' = ci /\ count' = count /\ local' = local
      /\ elems' = elems /\ last' = last
  BY DEF Parent, AtToken
<1>2. /\ TokensOK' /\ Len(tokens') \in Nat /\ tokens' = tokens
      /\ around' \subseteq {"prefix", "suffix"} /\ NothingYet'
      /\ (Explained' <=> Explained) /\ ElementTokens' = ElementTokens
  BY <1>1, ParserSteps
<1>3. HeapOK' /\ TreeSound' /\ Ids' = Ids
  BY <1>1, Zenon DEF IInv, HeapOK, TreeSound, ParentsAreOlder, ChildrenMatchParents, ChildrenInOrder,
                     DepthsMatch, Ids
<1>4. caret[1] \in Ids
  <2>1. Len(caret) >= 1 /\ Len(caret) \in Nat
    BY <1>1 DEF IInv, ListsOK
  <2> QED
    BY <2>1 DEF IInv, TypeOK
<1>5. parent # 0 => parent \in Ids /\ parent \in Nat
  BY <1>4 DEF IInv, HeapOK, TreeSound, ParentsAreOlder, Root, Ids
<1> HIDE DEF parent
<1>6. /\ caret' \in Seq(Nat) /\ caret' # <<>> /\ Increasing(caret')
      /\ \A i \in 1..Len(caret') : caret'[i] \in Ids
      /\ \A i, j \in 1..Len(caret') : elems[caret'[i]].depth = elems[caret'[j]].depth
  <2>1. CASE parent = 0
    <3>1. caret' = caret
      BY <1>1, <2>1
    <3> QED
      BY <1>1, <3>1 DEF IInv, ListsOK, TypeOK, CaretsLevel
  <2>2. CASE parent # 0
    <3>1. caret' = <<parent>> /\ parent \in Nat /\ parent \in Ids
      BY <1>1, <1>5, <2>2
    <3>2. /\ caret' \in Seq(Nat) /\ Increasing(caret') /\ caret' # <<>>
          /\ \A i \in 1..Len(caret') : caret'[i] = parent
      BY <3>1, OneCaret
    <3> QED
      BY <3>1, <3>2
  <2> QED
    BY <2>1, <2>2
<1>7. TypeOK' /\ ListsOK' /\ AtElement'
  BY <1>1, <1>2, <1>3, <1>6 DEF IInv, TypeOK, ListsOK, AtElement
<1>8. CaretsLevel'
  BY <1>1, <1>6 DEF IInv, CaretsLevel
<1>9. LevelBelow' /\ ErrorsExplained'
  BY <1>1 DEF LevelBelow, ErrorsExplained
<1>10. EmptyExplained'
  <2>1. pos \in Nat /\ pos \notin ElementTokens /\ \A t \in ElementTokens : t \in Nat
    BY <1>1 DEF IInv, TypeOK, ElementTokens
  <2>2. last = <<>> => Explained \/ \A t \in ElementTokens : t >= pos
    BY <1>1 DEF IInv, EmptyExplained
  <2>3. last = <<>> => Explained \/ \A t \in ElementTokens : t >= pos + 1
    BY <2>1, <2>2
  <2> QED
    BY <1>1, <1>2, <1>6, <2>3 DEF EmptyExplained
<1> QED
  BY <1>2, <1>3, <1>7, <1>8, <1>9, <1>10 DEF IInv

LEMMA ChildKeeps == IInv /\ Child => IInv'
<1> SUFFICES ASSUME IInv, Child PROVE IInv'
  OBVIOUS
<1>1. /\ phase = "parse" /\ phase' = phase /\ pos <= Len(tokens) /\ tokens[pos].type = "child"
      /\ caret' = last /\ pos' = pos + 1
      /\ UNCHANGED tokenVars /\ ci' = ci /\ count' = count /\ local' = local
      /\ elems' = elems /\ last' = last
  BY DEF Child, AtToken
<1>2. /\ TokensOK' /\ Len(tokens') \in Nat /\ tokens' = tokens
      /\ around' \subseteq {"prefix", "suffix"} /\ NothingYet'
      /\ (Explained' <=> Explained) /\ ElementTokens' = ElementTokens
  BY <1>1, ParserSteps
<1>3. HeapOK' /\ TreeSound' /\ Ids' = Ids
  BY <1>1, Zenon DEF IInv, HeapOK, TreeSound, ParentsAreOlder, ChildrenMatchParents, ChildrenInOrder,
                     DepthsMatch, Ids
<1>4. TypeOK' /\ ListsOK' /\ AtElement'
  BY <1>1, <1>2, <1>3 DEF IInv, TypeOK, ListsOK, AtElement
<1>5. CaretsLevel'
  BY <1>1 DEF IInv, CaretsLevel
<1>6. LevelBelow' /\ ErrorsExplained'
  BY <1>1 DEF LevelBelow, ErrorsExplained
<1>7. EmptyExplained'
  <2>1. pos \in 1..Len(tokens) /\ pos \notin ElementTokens
    BY <1>1, <1>2 DEF IInv, TypeOK, ElementTokens
  <2>2. ASSUME last = <<>> PROVE Explained
    <3>1. CASE \A t \in ElementTokens : t >= pos
      <4>1. \A t \in ElementTokens : t > pos
        BY <2>1, <3>1 DEF ElementTokens
      <4>2. Childless(pos)
        BY <1>1, <4>1 DEF Childless
      <4> QED
        BY <2>1, <4>2 DEF Explained
    <3> QED
      BY <1>1, <2>2, <3>1 DEF IInv, EmptyExplained
  <2> QED
    BY <1>1, <1>2, <2>2 DEF EmptyExplained
<1> QED
  BY <1>2, <1>3, <1>4, <1>5, <1>6, <1>7 DEF IInv

LEMMA ParentFailsKeeps == IInv /\ ParentFails => IInv'
<1> SUFFICES ASSUME IInv, ParentFails PROVE IInv'
  OBVIOUS
<1>1. /\ phase = "parse" /\ phase' = "error" /\ caret = <<>>
      /\ UNCHANGED tokenVars /\ UNCHANGED loopVars /\ UNCHANGED treeVars
  BY DEF ParentFails, AtToken
<1>2. /\ TokensOK' /\ Len(tokens') \in Nat /\ tokens' = tokens
      /\ around' \subseteq {"prefix", "suffix"} /\ NothingYet'
      /\ (Explained' <=> Explained) /\ ElementTokens' = ElementTokens
  BY <1>1, ParserSteps
<1>3. elems' = elems /\ caret' = caret /\ last' = last /\ pos' = pos /\ ci' = ci /\ count' = count /\ local' = local
  BY <1>1 DEF treeVars, loopVars
<1>4. HeapOK' /\ TreeSound' /\ CaretsLevel' /\ Ids' = Ids
  BY <1>1, TreeStays
<1>5. TypeOK' /\ ListsOK' /\ AtElement'
  BY <1>1, <1>2, <1>3, <1>4 DEF IInv, TypeOK, ListsOK, AtElement
<1>6. Explained
  BY <1>1 DEF IInv, EmptyExplained
<1>7. ErrorsExplained'
  <2>1. Explained'
    BY <1>2, <1>6
  <2> QED
    BY <2>1 DEF ErrorsExplained, Explained
<1>8. LevelBelow' /\ EmptyExplained'
  BY <1>1, <1>2, <1>6 DEF LevelBelow, EmptyExplained
<1> QED
  BY <1>2, <1>4, <1>5, <1>7, <1>8 DEF IInv

LEMMA SiblingAndRenderKeep == IInv /\ (Sibling \/ Render) => IInv'
<1> SUFFICES ASSUME IInv, Sibling \/ Render PROVE IInv'
  OBVIOUS
<1>1. /\ phase = "parse"
      /\ \/ phase' = "parse" /\ pos <= Len(tokens) /\ tokens[pos].type = "sibling" /\ pos' = pos + 1
         \/ phase' = "done" /\ pos' = pos
      /\ UNCHANGED tokenVars /\ ci' = ci /\ count' = count /\ local' = local /\ UNCHANGED treeVars
  BY DEF Sibling, Render, AtToken, loopVars
<1>2. /\ TokensOK' /\ Len(tokens') \in Nat /\ tokens' = tokens
      /\ around' \subseteq {"prefix", "suffix"} /\ NothingYet'
      /\ (Explained' <=> Explained) /\ ElementTokens' = ElementTokens
  BY <1>1, ParserSteps
<1>3. elems' = elems /\ caret' = caret /\ last' = last
  BY <1>1 DEF treeVars
<1>4. HeapOK' /\ TreeSound' /\ CaretsLevel' /\ Ids' = Ids
  BY <1>1, TreeStays
<1>5. TypeOK' /\ ListsOK' /\ AtElement'
  BY <1>1, <1>2, <1>3, <1>4 DEF IInv, TypeOK, ListsOK, AtElement
<1>6. LevelBelow' /\ ErrorsExplained'
  BY <1>1 DEF LevelBelow, ErrorsExplained
<1>7. EmptyExplained'
  <2>1. phase' = "parse" => pos \in Nat /\ pos \notin ElementTokens /\ pos' = pos + 1
    BY <1>1 DEF IInv, TypeOK, ElementTokens
  <2>2. \A t \in ElementTokens : t \in Nat
    BY DEF ElementTokens
  <2>3. /\ caret = <<>> => Explained
        /\ last = <<>> => Explained \/ \A t \in ElementTokens : t >= pos
    BY <1>1 DEF IInv, EmptyExplained
  <2>4. phase' = "parse" /\ last = <<>> => Explained \/ \A t \in ElementTokens : t >= pos'
    BY <2>1, <2>2, <2>3
  <2> QED
    BY <1>1, <1>2, <1>3, <2>3, <2>4 DEF EmptyExplained
<1> QED
  BY <1>2, <1>4, <1>5, <1>6, <1>7 DEF IInv

-----------------------------------------------------------------------------
(* The theorems.                                                           *)

LEMMA IInvInvariant == Spec => []IInv
<1>1. Init => IInv
  BY InitIInv
<1>2. IInv /\ [Next]_vars => IInv'
  <2> SUFFICES ASSUME IInv, [Next]_vars PROVE IInv'
    OBVIOUS
  <2>1. CASE Tokenize
    BY <2>1, StrippingKeeps, SplittingKeeps, SplitDoneKeeps DEF Tokenize
  <2>2. CASE Parse
    BY <2>2, BeginElementKeeps, AddElementKeeps, NextCaretKeeps, EndElementKeeps, ChildKeeps,
       ParentKeeps, ParentFailsKeeps, SiblingAndRenderKeep DEF Parse
  <2>3. CASE Render
    BY <2>3, SiblingAndRenderKeep
  <2>4. CASE UNCHANGED vars
    <3>1. /\ phase' = phase /\ around' = around /\ tokens' = tokens /\ elems' = elems
          /\ caret' = caret /\ last' = last /\ pos' = pos /\ ci' = ci /\ count' = count /\ local' = local
      BY <2>4 DEF vars, tokenVars, loopVars, treeVars
    <3>2. HeapOK' /\ TreeSound' /\ CaretsLevel' /\ Ids' = Ids
      BY <3>1, TreeStays DEF treeVars
    <3>3. TokensOK' /\ (Explained' <=> Explained) /\ ElementTokens' = ElementTokens
      BY <3>1, TokensStay
    <3>4. TypeOK' /\ NothingYet' /\ AtElement' /\ ListsOK'
      BY <3>1, <3>2 DEF IInv, TypeOK, NothingYet, AtElement, ListsOK
    <3>5. LevelBelow' /\ EmptyExplained'
      BY <3>1, <3>3 DEF IInv, LevelBelow, EmptyExplained
    <3>6. ErrorsExplained'
      BY <3>1, <3>3, Zenon DEF IInv, ErrorsExplained, Explained
    <3> QED
      BY <3>2, <3>3, <3>4, <3>5, <3>6 DEF IInv
  <2> QED
    BY <2>1, <2>2, <2>3, <2>4 DEF Next
<1> QED
  BY <1>1, <1>2, PTL DEF Spec

\* The positions in the lists of the parser are those of tokens and elements.
THEOREM TypeCorrect == Spec => []TypeOK
<1>1. IInv => TypeOK
  BY DEF IInv
<1> QED
  BY <1>1, IInvInvariant, PTL

\* Parents, children lists and depths, set one by one in four functions of sparkup.py,
\* describe one tree after every step, for all abbreviations and multipliers.
THEOREM OneTree == Spec => []TreeSound
<1>1. IInv => TreeSound
  BY DEF IInv
<1> QED
  BY <1>1, IInvInvariant, PTL

\* The carets are elements of one depth: "<" may look at the first of them only.
THEOREM CaretsAreLevel == Spec => []CaretsLevel
<1>1. IInv => CaretsLevel
  BY DEF IInv
<1> QED
  BY <1>1, IInvInvariant, PTL

\* An expansion fails for a multiplier 0 or a ">" before any element and for nothing else.
THEOREM ErrorsAreExplained == Spec => []ErrorsExplained
<1>1. IInv => ErrorsExplained
  BY DEF IInv
<1> QED
  BY <1>1, IInvInvariant, PTL

\* A parser without a caret adds nothing any more, whatever is left of the abbreviation.
THEOREM NothingIsAddedLater == Spec => LostForGood
<1>1. IInv /\ [Next]_vars => [caret = <<>> => caret' = <<>> /\ elems' = elems]_vars
  <2> SUFFICES ASSUME IInv, Next, caret = <<>>
               PROVE  caret' = <<>> /\ elems' = elems
    OBVIOUS
  <2>1. ListsOK /\ NothingYet /\ <<1>> # <<>> /\ Len(caret) = 0
    BY DEF IInv
  <2>2. phase \notin {"prefix", "suffix", "split"}
    BY <2>1 DEF NothingYet, Root
  <2>3. ~AddElement /\ ~Parent /\ last = <<>> /\ ~Tokenize
    BY <2>1, <2>2 DEF AddElement, Parent, ListsOK, Tokenize, StripPrefix, PrefixDone, StripSuffix,
                      SuffixDone, SplitSeparator, SplitElement, SplitDone, IInv, TypeOK
  <2> QED
    BY <2>3 DEF Next, Parse, Render, BeginElement, NextCaret, EndElement, Child, ParentFails,
                Sibling, treeVars
<1> QED
  BY <1>1, IInvInvariant, PTL DEF Spec, LostForGood

\* Elements are added behind the children of a caret; no element that is there is moved,
\* renamed or numbered anew.
THEOREM TheTreeOnlyGrows == Spec => GrowsOnly
<1> DEFINE Kept(e) == /\ elems'[e] = [elems[e] EXCEPT !.children = elems'[e].children,
                                                      !.depth = elems'[e].depth]
                      /\ IsPrefix(elems[e].children, elems'[e].children)
                      /\ elems'[e].depth # elems[e].depth => elems = <<RootElement>>
           Grows == Len(elems') >= Len(elems) /\ \A e \in Ids : Kept(e)
<1>1. IInv /\ [Next]_vars => [Grows]_vars
  <2> SUFFICES ASSUME IInv, Next PROVE Grows
    OBVIOUS
  <2>1. Len(elems) \in Nat
    BY DEF IInv, HeapOK
  <2>3. CASE UNCHANGED elems
    <3>1. ASSUME NEW e \in Ids PROVE Kept(e)
      <4>1. IsElement(elems[e]) /\ elems[e].children \in Seq(Nat)
        BY DEF IInv, HeapOK
      <4>2. /\ elems[e] = [elems[e] EXCEPT !.children = elems[e].children, !.depth = elems[e].depth]
            /\ IsPrefix(elems[e].children, elems[e].children)
        BY <4>1, SameElement, Prefixed
      <4> QED
        BY <2>3, <4>2, Zenon
    <3>2. Len(elems') >= Len(elems)
      BY <2>1, <2>3
    <3> HIDE DEF Kept
    <3> QED
      BY <3>1, <3>2
  <2>4. CASE AddElement
    <3>1. /\ Len(elems') \in Nat /\ Len(elems') > Len(elems)
          /\ \A e \in Ids : KeptElement(e)
      BY <2>4, AddElementGrows, TreeGrows DEF IInv
    <3>2. ASSUME NEW e \in Ids PROVE Kept(e)
      <4>1. KeptElement(e)
        BY <3>1
      <4> QED
        BY <4>1, Zenon DEF KeptElement
    <3>3. Len(elems') >= Len(elems)
      BY <2>1, <3>1
    <3> HIDE DEF Kept
    <3> QED
      BY <3>2, <3>3
  <2>5. CASE SplitDone
    <3>1. elems = <<RootElement>>
      BY <2>5, SplitDoneKeeps
    <3>2. PICK d : elems' = elems \/ elems' = [elems EXCEPT ![1].depth = d]
      BY <2>5 DEF SplitDone, Root
    <3>3. Ids = {1} /\ IsElement(elems[1]) /\ elems[1].children \in Seq(Nat) /\ 1 \in DOMAIN elems
          /\ \E S : elems \in Seq(S)
      BY <3>1 DEF IInv, HeapOK, Ids
    <3>4. CASE elems' = [elems EXCEPT ![1].depth = d]
      <4>1. elems'[1] = [elems[1] EXCEPT !.depth = d] /\ Len(elems') = Len(elems)
        BY <3>3, <3>4
      <4> DEFINE r == elems[1]
                 x == elems'[1]
      <4>2. x = [r EXCEPT !.depth = d] /\ IsElement(r)
        BY <3>3, <4>1
      <4> HIDE DEF r, x
      <4>3. x = [r EXCEPT !.children = x.children, !.depth = x.depth] /\ x.children = r.children
        BY <4>2 DEF IsElement
      <4>4. IsPrefix(elems[1].children, elems[1].children)
        BY <3>3, Prefixed
      <4>5. IsPrefix(elems[1].children, elems'[1].children)
        BY <4>3, <4>4, Zenon DEF r, x
      <4>6. Kept(1)
        BY <3>1, <4>3, <4>5, Zenon DEF r, x
      <4>7. Len(elems') >= Len(elems)
        BY <2>1, <4>1
      <4> HIDE DEF Kept
      <4> QED
        BY <3>3, <4>6, <4>7
    <3> QED
      BY <2>3, <3>2, <3>4
  <2>6. Next => AddElement \/ SplitDone \/ UNCHANGED elems
    BY DEF Next, Tokenize, Parse, Render, StripPrefix, PrefixDone, StripSuffix, SuffixDone,
           SplitSeparator, SplitElement, BeginElement, NextCaret, EndElement, Child, Parent,
           ParentFails, Sibling, treeVars
  <2> QED
    BY <2>3, <2>4, <2>5, <2>6
<1> QED
  BY <1>1, IInvInvariant, PTL DEF Spec, GrowsOnly

-----------------------------------------------------------------------------
(* Attributes: what a token holds, and what its elements made of it.       *)

WrittenIn(w) == IF IsPage(w) THEN NoAttrs ELSE WithWritten(NoAttrs, CoreOf(w))

TokenWritten(token) ==
  token.type = "element" /\ token.shared = "" => token.attrs = WrittenIn(token.str)

Numbered(attrs, c, l) == [key \in DOMAIN attrs |-> Substituted(attrs[key], c, l)]

ElementNumbered(e) ==
  elems[e].tok # 0 =>
    /\ elems[e].tok \in ElementTokens
    /\ elems[e].attrs = Filled(tokens[elems[e].tok].name,
                               Numbered(AttrsOf(tokens[elems[e].tok]), elems[e].count, elems[e].local))

AttrsInv == /\ \A t \in 1..Len(tokens) : TokenWritten(tokens[t])
            /\ \A e \in Ids : ElementNumbered(e)

LEMMA SeparatorWritten == \A type : type # "element" => TokenWritten(Separator(type))
BY DEF TokenWritten, Separator

LEMMA PageFields ==
  ASSUME NEW w
  PROVE  PageToken(w).str = w /\ PageToken(w).attrs = NoAttrs
BY DEF PageToken, Separator

LEMMA ElementWritten == \A w, plus : TokenWritten(ElementToken(w, plus))
<1> SUFFICES ASSUME NEW w, NEW plus PROVE TokenWritten(ElementToken(w, plus))
  OBVIOUS
<1>1. CASE IsPage(w)
  <2>1. ElementToken(w, plus) = PageToken(w)
    BY <1>1 DEF ElementToken, IsPage
  <2> QED
    BY <1>1, <2>1, PageFields DEF TokenWritten, WrittenIn
<1>2. CASE ~IsPage(w)
  <2> DEFINE token == ElementToken(w, plus)
  <2>1. token.str = w
    BY <1>2 DEF ElementToken, IsPage
  <2>2. token.attrs = IF token.shared = "" THEN WithWritten(NoAttrs, CoreOf(w)) ELSE NoAttrs
    BY <1>2 DEF ElementToken, IsPage
  <2> HIDE DEF token
  <2>3. TokenWritten(token)
    BY <1>2, <2>1, <2>2 DEF TokenWritten, WrittenIn
  <2> QED
    BY <2>3 DEF token
<1> QED
  BY <1>1, <1>2

LEMMA NewTokenWritten ==
  ASSUME IInv, AttrsInv, SplitSeparator \/ SplitElement
  PROVE  \A t \in 1..Len(tokens') : TokenWritten(tokens'[t])
<1>1. PICK token : TokenWritten(token) /\ tokens' = Append(tokens, token)
  <2>1. CASE SplitSeparator
    <3>1. PICK type \in {"child", "parent", "sibling"} : tokens' = Append(tokens, Separator(type))
      BY <2>1 DEF SplitSeparator
    <3>2. TokenWritten(Separator(type))
      BY SeparatorWritten
    <3> QED
      BY <3>1, <3>2, Zenon
  <2>2. CASE SplitElement
    <3>1. PICK w, plus : tokens' = Append(tokens, ElementToken(w, plus))
      BY <2>2, Zenon DEF SplitElement
    <3> QED
      BY <3>1, ElementWritten, Zenon
  <2> QED
    BY <2>1, <2>2
<1>2. PICK S : tokens \in Seq(S)
  BY DEF IInv, TokensOK
<1>3. tokens \in Seq(S \cup {token}) /\ token \in S \cup {token}
  BY <1>2
<1>4. /\ Len(tokens') = Len(tokens) + 1 /\ Len(tokens) \in Nat
      /\ tokens'[Len(tokens) + 1] = token
      /\ \A i \in 1..Len(tokens) : tokens'[i] = tokens[i]
  BY <1>1, <1>3
<1>5. ASSUME NEW t \in 1..Len(tokens') PROVE TokenWritten(tokens'[t])
  <2>1. CASE t \in 1..Len(tokens)
    <3>1. tokens'[t] = tokens[t] /\ TokenWritten(tokens[t])
      BY <1>4, <2>1 DEF AttrsInv
    <3> QED
      BY <3>1, Zenon
  <2>2. CASE t = Len(tokens) + 1
    BY <1>1, <1>4, <2>2, Zenon
  <2> QED
    BY <1>4, <2>1, <2>2
<1> QED
  BY <1>5

\* Elements and tokens are made by four actions.
LEMMA Makers ==
  Next => \/ SplitSeparator \/ SplitElement \/ SplitDone \/ AddElement
          \/ UNCHANGED <<tokens, dialect, elems>>
BY DEF Next, Tokenize, Parse, Render, StripPrefix, PrefixDone, StripSuffix, SuffixDone,
       BeginElement, NextCaret, EndElement, Child, Parent, ParentFails, Sibling, treeVars, tokenVars

LEMMA AttrsStay ==
  ASSUME UNCHANGED <<tokens, dialect, elems>>, AttrsInv
  PROVE  AttrsInv'
BY Zenon DEF AttrsInv, ElementNumbered, ElementTokens, AttrsOf, Ids

LEMMA RootOnly ==
  ASSUME NEW h, h = <<RootElement>>
  PROVE  1..Len(h) = {1} /\ h[1] = RootElement /\ h[1].tok = 0
<1>1. Len(h) = 1 /\ h[1] = RootElement
  OBVIOUS
<1>2. RootElement.tok = 0
  BY DEF RootElement
<1> QED
  BY <1>1, <1>2

LEMMA SplitDoneRoot ==
  ASSUME IInv, SplitDone
  PROVE  \A e \in Ids' : e = 1 /\ elems'[e].tok = 0
<1>1. phase = "split" /\ tokens' = tokens
  BY DEF SplitDone, tokenVars
<1>2. /\ elems = <<RootElement>> /\ Root = 1
      /\ elems' = elems \/ elems' = [elems EXCEPT ![1].depth = @ + 1]
  BY <1>1 DEF SplitDone, IInv, NothingYet, Root
<1>3. 1..Len(elems) = {1} /\ elems[1].tok = 0 /\ IsElement(elems[1])
      /\ \E S : elems \in Seq(S)
  BY <1>2, RootOnly DEF IInv, HeapOK, Ids
<1>4. CASE elems' = elems
  BY <1>3, <1>4 DEF Ids
<1>5. CASE elems' = [elems EXCEPT ![1].depth = @ + 1]
  <2> DEFINE r == elems[1]
             d == elems[1].depth + 1
  <2>1. elems' = [elems EXCEPT ![1] = [r EXCEPT !.depth = d]] /\ IsElement(r) /\ r.tok = 0
    BY <1>3, <1>5
  <2> HIDE DEF r, d
  <2>2. [r EXCEPT !.depth = d].tok = 0
    BY <2>1 DEF IsElement
  <2>3. Len(elems') = Len(elems) /\ elems'[1] = [r EXCEPT !.depth = d]
    BY <1>3, <2>1
  <2> QED
    BY <1>3, <2>2, <2>3 DEF Ids
<1> QED
  BY <1>2, <1>4, <1>5

LEMMA NewElementAttrs ==
  ASSUME NEW token, NEW parent, NEW n, NEW c, NEW l
  PROVE  LET x == NewElement(token, parent, n, c, l)
         IN /\ x.tok = pos /\ x.count = c /\ x.local = l
            /\ x.attrs = Filled(token.name, Numbered(AttrsOf(token), c, l))
BY DEF NewElement, Numbered

LEMMA AddedAttrs ==
  ASSUME IInv, AttrsInv, AddElement
  PROVE  AttrsInv'
<1> DEFINE n == Len(elems) + 1
<1>1. /\ tokens' = tokens /\ dialect' = dialect
      /\ ci <= Len(caret) /\ phase = "element"
      /\ elems' = WithElement(tokens[pos], caret[ci], count + 1, local + 1)
  BY DEF AddElement, tokenVars
<1>2. /\ caret[ci] \in Ids /\ Grown(elems', caret[ci])
  BY AddElementGrows
<1>3. /\ Len(elems) \in Nat /\ Len(elems') \in Nat /\ Len(elems') > Len(elems)
      /\ \A e \in Ids : KeptElement(e)
  BY <1>2, TreeGrows DEF IInv, HeapOK
<1>4. elems'[n] = NewElement(tokens[pos], caret[ci], n, count + 1, local + 1)
  <2>1. WithElement(tokens[pos], caret[ci], count + 1, local + 1)[n]
          = NewElement(tokens[pos], caret[ci], n, count + 1, local + 1)
    BY <1>2, ItemsGrow DEF IInv
  <2> QED
    BY <1>1, <2>1, Zenon
<1>5. /\ elems'[n].tok = pos
      /\ elems'[n].attrs = Filled(tokens[pos].name,
                                  Numbered(AttrsOf(tokens[pos]), elems'[n].count, elems'[n].local))
  <2> DEFINE c == count + 1
             l == local + 1
             x == NewElement(tokens[pos], caret[ci], n, c, l)
  <2>1. /\ x.tok = pos /\ x.count = c /\ x.local = l
        /\ x.attrs = Filled(tokens[pos].name, Numbered(AttrsOf(tokens[pos]), c, l))
    BY NewElementAttrs
  <2>2. elems'[n] = x
    BY <1>4
  <2> HIDE DEF x, c, l
  <2> QED
    BY <2>1, <2>2, Zenon
<1>6. pos \in ElementTokens
  BY <1>1 DEF IInv, AtElement, TypeOK, ElementTokens
<1>7. ElementTokens' = ElementTokens /\ \A token : AttrsOf(token)' = AttrsOf(token)
  BY <1>1, Zenon DEF ElementTokens, AttrsOf
<1>8. ASSUME NEW e \in Ids' PROVE ElementNumbered(e)'
  <2>1. CASE e \in Ids
    <3>1. ElementNumbered(e) /\ KeptElement(e)
      BY <1>3, <2>1 DEF AttrsInv
    <3> QED
      BY <1>1, <1>7, <3>1, Zenon DEF ElementNumbered, KeptElement, AttrsOf
  <2>2. CASE e = n
    BY <1>1, <1>5, <1>6, <1>7, <2>2, Zenon DEF ElementNumbered, AttrsOf
  <2>3. CASE e \in n + 1..Len(elems')
    <3>1. elems'[e].tok = 0
      BY <1>2, <2>3 DEF Grown, NoToken
    <3> QED
      BY <3>1 DEF ElementNumbered
  <2>4. e \in Ids \/ e = n \/ e \in n + 1..Len(elems')
    BY <1>3 DEF Ids
  <2> QED
    BY <2>1, <2>2, <2>3, <2>4
<1>9. \A t \in 1..Len(tokens') : TokenWritten(tokens'[t])
  BY <1>1, Zenon DEF AttrsInv
<1> QED
  BY <1>8, <1>9 DEF AttrsInv

LEMMA AttrsKept == IInv /\ AttrsInv /\ [Next]_vars => AttrsInv'
<1> SUFFICES ASSUME IInv, AttrsInv, [Next]_vars PROVE AttrsInv'
  OBVIOUS
<1>1. CASE SplitSeparator \/ SplitElement
  <2>1. phase = "split" /\ elems' = elems
    BY <1>1 DEF SplitSeparator, SplitElement, treeVars
  <2>2. elems' = <<RootElement>>
    BY <2>1 DEF IInv, NothingYet
  <2>3. \A e \in Ids' : elems'[e].tok = 0
    BY <2>2, RootOnly DEF Ids
  <2>4. \A e \in Ids' : ElementNumbered(e)'
    BY <2>3 DEF ElementNumbered
  <2> QED
    BY <1>1, <2>4, NewTokenWritten DEF AttrsInv
<1>2. CASE SplitDone
  <2>1. tokens' = tokens
    BY <1>2 DEF SplitDone, tokenVars
  <2>2. \A e \in Ids' : ElementNumbered(e)'
    BY <1>2, SplitDoneRoot DEF ElementNumbered
  <2>3. \A t \in 1..Len(tokens') : TokenWritten(tokens'[t])
    BY <2>1, Zenon DEF AttrsInv
  <2> QED
    BY <2>2, <2>3 DEF AttrsInv
<1>3. CASE AddElement
  BY <1>3, AddedAttrs
<1>4. CASE UNCHANGED <<tokens, dialect, elems>>
  BY <1>4, AttrsStay
<1>5. CASE UNCHANGED vars
  <2>1. UNCHANGED <<tokens, dialect, elems>>
    BY <1>5 DEF vars, tokenVars, treeVars
  <2> QED
    BY <2>1, AttrsStay
<1> QED
  BY <1>1, <1>2, <1>3, <1>4, <1>5, Makers

\* Every element shows what its word says, or what the words of its shortcut have left in
\* the dictionary of the dialect, with its own numbers.
THEOREM AttributesAreAsWritten == Spec => []AttributesAsWritten
<1>1. Init => AttrsInv
  <2> SUFFICES ASSUME Init PROVE AttrsInv
    OBVIOUS
  <2>1. tokens = <<>> /\ Len(tokens) = 0 /\ 1..0 = {} /\ elems = <<RootElement>>
    BY DEF Init
  <2>2. \A e \in Ids : elems[e].tok = 0
    BY <2>1, RootOnly DEF Ids
  <2> QED
    BY <2>1, <2>2 DEF AttrsInv, ElementNumbered
<1>2. AttrsInv => AttributesAsWritten
  <2> SUFFICES ASSUME AttrsInv, NEW e \in Ids, elems[e].tok # 0
               PROVE  LET token == tokens[elems[e].tok]
                          written == IF token.shared # "" THEN dialect[token.shared]
                                     ELSE IF IsPage(token.str) THEN NoAttrs
                                     ELSE WithWritten(NoAttrs, CoreOf(token.str))
                      IN elems[e].attrs = Filled(token.name, [key \in DOMAIN written |->
                           Substituted(written[key], elems[e].count, elems[e].local)])
    BY DEF AttributesAsWritten
  <2> DEFINE token == tokens[elems[e].tok]
             written == IF token.shared # "" THEN dialect[token.shared]
                        ELSE IF IsPage(token.str) THEN NoAttrs
                        ELSE WithWritten(NoAttrs, CoreOf(token.str))
  <2>1. /\ elems[e].tok \in 1..Len(tokens) /\ token.type = "element" /\ TokenWritten(token)
        /\ elems[e].attrs = Filled(token.name, Numbered(AttrsOf(token), elems[e].count, elems[e].local))
    BY DEF AttrsInv, ElementNumbered, ElementTokens
  <2> HIDE DEF token
  <2>2. AttrsOf(token) = written
    BY <2>1, Zenon DEF AttrsOf, TokenWritten, WrittenIn
  <2> HIDE DEF written
  <2>3. elems[e].attrs = Filled(token.name, [key \in DOMAIN written |->
                           Substituted(written[key], elems[e].count, elems[e].local)])
    BY <2>1, <2>2, Zenon DEF Numbered
  <2> QED
    BY <2>3, Zenon DEF token, written
<1> QED
  BY <1>1, <1>2, AttrsKept, IInvInvariant, PTL DEF Spec

-----------------------------------------------------------------------------
(* How many elements there are: SizesAfter, which looks at the tokens only, *)
(* against the lists of the parser.  That the recursive function exists is  *)
(* an invariant itself, because tokens come one after the other.            *)

SizesExist ==
  \E f : f = [t \in 0..Len(tokens) |->
                IF t = 0 THEN [carets |-> 1, added |-> 0]
                ELSE [carets |-> CaretsAfter(tokens[t], f[t - 1]),
                      added |-> AddedAfter(tokens[t], f[t - 1])]]

LEMMA SizesUnfold ==
  ASSUME SizesExist, Len(tokens) \in Nat
  PROVE  /\ SizesAfter[0].carets = 1 /\ SizesAfter[0].added = 0
         /\ \A t \in 1..Len(tokens) :
              /\ SizesAfter[t].carets = CaretsAfter(tokens[t], SizesAfter[t - 1])
              /\ SizesAfter[t].added = AddedAfter(tokens[t], SizesAfter[t - 1])
<1>1. SizesAfter = [t \in 0..Len(tokens) |->
                      IF t = 0 THEN [carets |-> 1, added |-> 0]
                      ELSE [carets |-> CaretsAfter(tokens[t], SizesAfter[t - 1]),
                            added |-> AddedAfter(tokens[t], SizesAfter[t - 1])]]
  BY Zenon DEF SizesExist, SizesAfter
<1> DEFINE s == SizesAfter
<1> HIDE DEF s
<1>2. s = [t \in 0..Len(tokens) |-> IF t = 0 THEN [carets |-> 1, added |-> 0]
                                    ELSE [carets |-> CaretsAfter(tokens[t], s[t - 1]),
                                          added |-> AddedAfter(tokens[t], s[t - 1])]]
  BY <1>1, Zenon DEF s
<1>3. s[0].carets = 1 /\ s[0].added = 0
  BY <1>2
<1>4. ASSUME NEW t \in 1..Len(tokens)
      PROVE  /\ s[t].carets = CaretsAfter(tokens[t], s[t - 1])
             /\ s[t].added = AddedAfter(tokens[t], s[t - 1])
  BY <1>2
<1> QED
  BY <1>3, <1>4, Zenon DEF s

LEMMA SizesExtended ==
  ASSUME TokensOK, SizesExist, NEW token, tokens' = Append(tokens, token)
  PROVE  SizesExist'
<1> DEFINE n == Len(tokens)
           zero == [carets |-> 1, added |-> 0]
           After(x, before) == [carets |-> CaretsAfter(x, before), added |-> AddedAfter(x, before)]
<1>1. PICK f : f = [t \in 0..n |-> IF t = 0 THEN zero ELSE After(tokens[t], f[t - 1])]
  BY Zenon DEF SizesExist
<1>2. /\ n \in Nat /\ Len(tokens') = n + 1 /\ tokens'[n + 1] = token
      /\ \A t \in 1..n : tokens'[t] = tokens[t]
  BY DEF TokensOK
<1> DEFINE g == [t \in 0..n + 1 |-> IF t = n + 1 THEN After(token, f[n]) ELSE f[t]]
           body(t) == IF t = 0 THEN zero ELSE After(tokens'[t], g[t - 1])
<1> HIDE DEF zero, After, n
<1>3. ASSUME NEW t \in 0..n + 1 PROVE g[t] = body(t)
  <2>1. CASE t = 0
    BY <1>1, <1>2, <2>1
  <2>2. CASE t = n + 1
    <3>1. g[t - 1] = f[n] /\ t # 0 /\ g[t] = After(token, f[n])
      BY <1>2, <2>2
    <3> QED
      BY <1>2, <2>2, <3>1, Zenon
  <2>3. CASE t \in 1..n
    <3>1. g[t - 1] = f[t - 1] /\ g[t] = f[t] /\ t # 0 /\ t \in 0..n
      BY <1>2, <2>3
    <3>2. f[t] = After(tokens[t], f[t - 1])
      BY <1>1, <3>1
    <3>3. tokens'[t] = tokens[t]
      BY <1>2, <2>3
    <3> QED
      BY <3>1, <3>2, <3>3, Zenon
  <2> QED
    BY <1>2, <2>1, <2>2, <2>3
<1>4. g = [t \in 0..n + 1 |-> body(t)]
  <2> DEFINE h == [t \in 0..n + 1 |-> body(t)]
  <2> HIDE DEF body
  <2>1. \A t \in 0..n + 1 : g[t] = h[t]
    BY <1>3
  <2>2. DOMAIN g = DOMAIN h
    OBVIOUS
  <2> QED
    BY <1>3, <2>1, <2>2
<1>5. \E x : x = [t \in 0..n + 1 |-> IF t = 0 THEN zero ELSE After(tokens'[t], x[t - 1])]
  <2> HIDE DEF g
  <2> QED
    BY <1>4, Zenon
<1>6. Len(tokens') = n + 1
  BY <1>2
<1> QED
  BY <1>5, <1>6, Zenon DEF SizesExist, zero, After

LEMMA SizesStay ==
  ASSUME UNCHANGED tokens
  PROVE  (SizesExist => SizesExist') /\ SizesAfter' = SizesAfter
BY Zenon DEF SizesExist, SizesAfter

LEMMA SizesKept == IInv /\ SizesExist /\ [Next]_vars => SizesExist'
<1> SUFFICES ASSUME IInv, SizesExist, [Next]_vars PROVE SizesExist'
  OBVIOUS
<1>1. CASE SplitSeparator \/ SplitElement
  <2>1. \E token : tokens' = Append(tokens, token)
    BY <1>1, Zenon DEF SplitSeparator, SplitElement
  <2> QED
    BY <2>1, SizesExtended DEF IInv
<1>2. CASE UNCHANGED tokens
  BY <1>2, SizesStay
<1>3. SplitDone \/ AddElement \/ UNCHANGED vars => UNCHANGED tokens
  BY DEF SplitDone, AddElement, tokenVars, vars
<1> QED
  BY <1>1, <1>2, <1>3, Makers

\* "<" keeps several carets only on the root, which is alone on its level.
RootOnTop == \A e \in Ids \ {1} : elems[e].depth > elems[1].depth

\* The lists of the parser have the sizes the tokens give.
Counted ==
  phase \notin {"prefix", "suffix", "split"} =>
    /\ Len(caret) = SizesAfter[pos - 1].carets
    /\ phase # "element" => Len(last) = SizesAfter[pos - 1].added
    /\ phase = "element" =>
         /\ Len(last) = (ci - 1) * tokens[pos].mult + local
         /\ local <= tokens[pos].mult /\ ci <= Len(caret) + 1
         /\ ci > Len(caret) => local = 0

\* The elements of the tokens that are done, and of the one at work.
CreatedSoFar ==
  /\ \A e \in Ids : /\ elems[e].tok \in Nat /\ elems[e].tok <= pos
                    /\ phase # "element" => elems[e].tok < pos
  /\ \A t \in ElementTokens : t < pos =>
       Cardinality(Created(t)) = SizesAfter[t - 1].carets * tokens[t].mult
  /\ \A t \in ElementTokens : phase = "element" /\ t = pos => Cardinality(Created(t)) = Len(last)

SizesInv == SizesExist /\ RootOnTop /\ Counted /\ CreatedSoFar

LEMMA CreatedFinite == Len(elems) \in Nat => \A t : IsFiniteSet(Created(t)) /\ Cardinality(Created(t)) \in Nat
<1> SUFFICES ASSUME Len(elems) \in Nat, NEW t
             PROVE  IsFiniteSet(Created(t)) /\ Cardinality(Created(t)) \in Nat
  OBVIOUS
<1>1. IsFiniteSet(1..Len(elems))
  BY FS_Interval
<1>2. IsFiniteSet(Created(t))
  BY <1>1, FS_Subset DEF Created, Ids
<1> QED
  BY <1>2, FS_CardinalityType

\* In the steps that add no element and leave the token at work.
LEMMA CreatedStays ==
  ASSUME UNCHANGED <<elems, tokens>>
  PROVE  /\ Ids' = Ids /\ ElementTokens' = ElementTokens /\ (RootOnTop => RootOnTop')
         /\ \A t : Created(t)' = Created(t)
         /\ SizesAfter' = SizesAfter
BY SizesStay, Zenon DEF Ids, ElementTokens, RootOnTop, Created

\* Before the parser: there is no token at work and only the root.
LEMMA EarlySizes ==
  ASSUME IInv, SizesInv, StripPrefix \/ PrefixDone \/ StripSuffix \/ SuffixDone
                         \/ SplitSeparator \/ SplitElement, SizesExist'
  PROVE  SizesInv'
<1>1. /\ phase \in {"prefix", "suffix", "split"} /\ phase' \in {"prefix", "suffix", "split"}
      /\ UNCHANGED <<loopVars, treeVars>>
  BY DEF StripPrefix, PrefixDone, StripSuffix, SuffixDone, SplitSeparator, SplitElement
<1>2. elems' = elems /\ pos' = pos /\ pos = 1 /\ elems' = <<RootElement>>
  BY <1>1 DEF treeVars, loopVars, IInv, NothingYet
<1>3. \A e \in Ids' : e = 1 /\ elems'[e].tok = 0
  BY <1>2, RootOnly DEF Ids
<1>4. \A t \in ElementTokens' : ~ t < pos'
  BY <1>2 DEF ElementTokens
<1> QED
  BY <1>1, <1>2, <1>3, <1>4 DEF SizesInv, RootOnTop, Counted, CreatedSoFar

LEMMA SplitDoneSizes == IInv /\ SizesInv /\ SplitDone => SizesInv'
<1> SUFFICES ASSUME IInv, SizesInv, SplitDone PROVE SizesInv'
  OBVIOUS
<1>1. /\ phase = "split" /\ phase' = "parse" /\ tokens' = tokens /\ pos' = pos
      /\ caret' = caret /\ last' = last
  BY DEF SplitDone, tokenVars, loopVars
<1>2. pos = 1 /\ caret = <<1>> /\ last = <<>> /\ Len(<<1>>) = 1 /\ Len(<<>>) = 0
  BY <1>1 DEF IInv, NothingYet, Root
<1>3. SizesExist' /\ SizesAfter' = SizesAfter
  BY <1>1, SizesStay DEF SizesInv
<1>4. SizesAfter[0].carets = 1 /\ SizesAfter[0].added = 0
  <2>1. Len(tokens) \in Nat
    BY DEF IInv, TokensOK
  <2> QED
    BY <2>1, SizesUnfold DEF SizesInv
<1>5. Counted'
  <2>1. pos' - 1 = 0
    BY <1>1, <1>2
  <2>2. Len(caret') = SizesAfter'[pos' - 1].carets /\ Len(last') = SizesAfter'[pos' - 1].added
    BY <1>1, <1>2, <1>3, <1>4, <2>1
  <2> QED
    BY <1>1, <2>2 DEF Counted
<1>6. \A t \in ElementTokens' : ~ t < pos'
  BY <1>1, <1>2 DEF ElementTokens
<1>7. \A e \in Ids' : e = 1 /\ elems'[e].tok = 0
  BY SplitDoneRoot
<1>8. RootOnTop'
  BY <1>7 DEF RootOnTop
<1>9. CreatedSoFar'
  BY <1>1, <1>2, <1>6, <1>7 DEF CreatedSoFar
<1> QED
  BY <1>3, <1>5, <1>8, <1>9 DEF SizesInv

LEMMA OneTimesMore == \A k, m \in Nat : k * m + m = (k + 1) * m
OBVIOUS

LEMMA BeginElementSizes == IInv /\ SizesInv /\ BeginElement => SizesInv'
<1> SUFFICES ASSUME IInv, SizesInv, BeginElement PROVE SizesInv'
  OBVIOUS
<1>1. /\ phase = "parse" /\ phase' = "element"
      /\ last' = <<>> /\ ci' = 1 /\ local' = 0 /\ tokens' = tokens
      /\ pos' = pos /\ elems' = elems /\ caret' = caret
  BY DEF BeginElement, AtToken, tokenVars
<1>2. /\ Ids' = Ids /\ ElementTokens' = ElementTokens /\ RootOnTop'
      /\ \A t : Created(t)' = Created(t)
      /\ SizesAfter' = SizesAfter /\ SizesExist'
  BY <1>1, CreatedStays, SizesStay DEF SizesInv
<1>3. /\ pos \in 1..Len(tokens) /\ tokens[pos].mult \in Nat /\ Len(caret) \in Nat
  BY DEF IInv, TypeOK, TokensOK, ListsOK, BeginElement, AtToken
<1>4. Counted'
  <2>1. Len(caret) = SizesAfter[pos - 1].carets
    BY <1>1 DEF SizesInv, Counted
  <2>2. Len(last') = 0 /\ (ci' - 1) * tokens[pos].mult + local' = 0
    BY <1>1, <1>3
  <2> QED
    BY <1>1, <1>2, <1>3, <2>1, <2>2 DEF Counted
<1>5. CreatedSoFar'
  <2>1. \A e \in Ids : elems[e].tok \in Nat /\ elems[e].tok < pos
    BY <1>1 DEF SizesInv, CreatedSoFar
  <2>2. \A t : t = pos => Created(t) = {}
    BY <1>3, <2>1 DEF Created
  <2>3. \A t : t = pos => Cardinality(Created(t)) = 0
    BY <2>2, FS_EmptySet
  <2>4. Len(last') = 0
    BY <1>1
  <2>5. \A t \in ElementTokens : t < pos =>
          Cardinality(Created(t)) = SizesAfter[t - 1].carets * tokens[t].mult
    BY DEF SizesInv, CreatedSoFar
  <2>6. \A e \in Ids' : elems'[e].tok \in Nat /\ elems'[e].tok <= pos'
    BY <1>1, <1>2, <1>3, <2>1
  <2>7. \A t \in ElementTokens' : t < pos' =>
          Cardinality(Created(t)') = SizesAfter'[t - 1].carets * tokens'[t].mult
    BY <1>1, <1>2, <2>5
  <2>8. \A t : t = pos' => Cardinality(Created(t)') = Len(last')
    BY <1>1, <1>2, <2>3, <2>4
  <2> QED
    BY <1>1, <2>6, <2>7, <2>8 DEF CreatedSoFar
<1> QED
  BY <1>2, <1>4, <1>5 DEF SizesInv

LEMMA AddElementSizes == IInv /\ SizesInv /\ AddElement => SizesInv'
<1> SUFFICES ASSUME IInv, SizesInv, AddElement PROVE SizesInv'
  OBVIOUS
<1> DEFINE n == Len(elems) + 1
           parent == caret[ci]
<1>1. /\ phase = "element" /\ phase' = "element" /\ ci <= Len(caret) /\ ci' = ci
      /\ local < tokens[pos].mult /\ local' = local + 1 /\ last' = Append(last, n)
      /\ tokens' = tokens /\ pos' = pos /\ caret' = caret
      /\ elems' = WithElement(tokens[pos], parent, count + 1, local + 1)
  BY DEF AddElement, tokenVars
<1>2. parent \in Ids /\ Grown(elems', parent)
  BY AddElementGrows
<1>3. /\ Len(elems) \in Nat /\ Len(elems') \in Nat /\ Len(elems') > Len(elems)
      /\ \A e \in Ids : KeptElement(e)
      /\ \A e \in Ids' \ Ids : elems'[e].depth > elems[parent].depth
  BY <1>2, TreeGrows DEF IInv, HeapOK
<1>4. elems'[n].tok = pos
  <2> DEFINE x == NewElement(tokens[pos], parent, n, count + 1, local + 1)
  <2>1. WithElement(tokens[pos], parent, count + 1, local + 1)[n] = x
    BY <1>2, ItemsGrow DEF IInv
  <2>2. elems'[n] = x
    BY <1>1, <2>1, Zenon
  <2>3. x.tok = pos
    BY NewElementAttrs
  <2> HIDE DEF x
  <2> QED
    BY <2>2, <2>3
<1>5. \A e \in n + 1..Len(elems') : elems'[e].tok = 0
  BY <1>2 DEF Grown, NoToken
<1>6. SizesExist' /\ SizesAfter' = SizesAfter /\ ElementTokens' = ElementTokens
  BY <1>1, SizesStay, Zenon DEF SizesInv, ElementTokens
<1>7. /\ pos \in ElementTokens /\ pos \in Nat /\ pos >= 1
      /\ tokens[pos].mult \in Nat /\ Len(last) \in Nat /\ Len(last') = Len(last) + 1
      /\ local \in Nat /\ ci \in Nat /\ ci >= 1 /\ Len(caret) \in Nat
  BY <1>1 DEF IInv, TypeOK, TokensOK, ListsOK, AtElement, ElementTokens
<1>8. /\ Ids \subseteq Ids' /\ n \in Ids' /\ n \notin Ids /\ 1 \in Ids
      /\ \A e \in Ids' : e \in Ids \/ e = n \/ e \in n + 1..Len(elems')
  BY <1>3 DEF Ids, IInv, HeapOK
<1>9. \A e \in Ids : elems'[e].tok = elems[e].tok /\ elems'[e].depth = elems[e].depth
  BY <1>3 DEF KeptElement
<1> HIDE DEF n, parent
<1>10. RootOnTop'
  <2>1. elems[parent].depth \in Int /\ elems[1].depth \in Int /\ elems[parent].depth >= elems[1].depth
    BY <1>2, <1>8 DEF SizesInv, RootOnTop, IInv, HeapOK
  <2>2. \A e \in Ids' : elems'[e].depth \in Int
    BY <1>2, TreeGrows DEF IInv, HeapOK
  <2>3. ASSUME NEW e \in Ids' \ {1} PROVE elems'[e].depth > elems[1].depth
    <3>1. CASE e \in Ids
      BY <1>9, <3>1 DEF SizesInv, RootOnTop
    <3>2. CASE e \notin Ids
      BY <1>3, <2>1, <2>2, <3>2
    <3> QED
      BY <3>1, <3>2
  <2>4. elems'[1].depth = elems[1].depth
    BY <1>8, <1>9
  <2> QED
    BY <2>3, <2>4 DEF RootOnTop
<1>11. Counted'
  <2>1. /\ Len(caret) = SizesAfter[pos - 1].carets
        /\ Len(last) = (ci - 1) * tokens[pos].mult + local /\ ci <= Len(caret) + 1
    BY <1>1 DEF SizesInv, Counted
  <2> DEFINE before == (ci - 1) * tokens[pos].mult
  <2>2. before \in Int
    BY <1>7
  <2> HIDE DEF before
  <2>3. Len(last') = before + local' /\ local' <= tokens[pos].mult
    BY <1>1, <1>7, <2>1, <2>2 DEF before
  <2>4. ~ ci > Len(caret)
    BY <1>1, <1>7
  <2> QED
    BY <1>1, <1>6, <2>1, <2>3, <2>4 DEF Counted, before
<1>12. \A t \in ElementTokens : t # pos => Created(t)' = Created(t)
  <2> SUFFICES ASSUME NEW t \in ElementTokens, t # pos PROVE Created(t)' = Created(t)
    OBVIOUS
  <2>1. t # 0
    BY DEF ElementTokens
  <2>2. \A e \in Ids' : elems'[e].tok = t => e \in Ids
    BY <1>4, <1>5, <1>8, <2>1
  <2> QED
    BY <1>8, <1>9, <2>2 DEF Created
<1>13. \A t : t = pos => Created(t)' = Created(t) \cup {n} /\ n \notin Created(t)
  <2> SUFFICES ASSUME NEW t, t = pos PROVE Created(t)' = Created(t) \cup {n} /\ n \notin Created(t)
    OBVIOUS
  <2>1. \A e \in Ids' : elems'[e].tok = t => e \in Ids \/ e = n
    BY <1>5, <1>7, <1>8
  <2>2. elems'[n].tok = t
    BY <1>4
  <2> QED
    BY <1>8, <1>9, <2>1, <2>2 DEF Created
<1>14. CreatedSoFar'
  <2>1. \A e \in Ids' : elems'[e].tok \in Nat /\ elems'[e].tok <= pos'
    <3>1. \A e \in Ids : elems[e].tok \in Nat /\ elems[e].tok <= pos
      BY DEF SizesInv, CreatedSoFar
    <3> QED
      BY <1>1, <1>4, <1>5, <1>7, <1>8, <1>9, <3>1
  <2>2. \A t \in ElementTokens' : t < pos' =>
          Cardinality(Created(t)') = SizesAfter'[t - 1].carets * tokens'[t].mult
    <3>1. \A t \in ElementTokens : t < pos =>
            Cardinality(Created(t)) = SizesAfter[t - 1].carets * tokens[t].mult
      BY DEF SizesInv, CreatedSoFar
    <3>2. \A t \in ElementTokens : t < pos => Created(t)' = Created(t)
      BY <1>7, <1>12
    <3> QED
      BY <1>1, <1>6, <3>1, <3>2
  <2>3. ASSUME NEW t \in ElementTokens', t = pos' PROVE Cardinality(Created(t)') = Len(last')
    <3>1. t = pos /\ t \in ElementTokens
      BY <1>1, <1>6, <2>3
    <3>2. Cardinality(Created(t)) = Len(last)
      BY <1>1, <3>1 DEF SizesInv, CreatedSoFar
    <3>3. IsFiniteSet(Created(t))
      BY <1>3, CreatedFinite
    <3>4. Cardinality(Created(t) \cup {n}) = Cardinality(Created(t)) + 1
      BY <1>13, <3>1, <3>3, FS_AddElement
    <3> QED
      BY <1>7, <1>13, <3>1, <3>2, <3>4
  <2> QED
    BY <1>1, <2>1, <2>2, <2>3 DEF CreatedSoFar
<1> QED
  BY <1>6, <1>10, <1>11, <1>14 DEF SizesInv

LEMMA NextCaretSizes == IInv /\ SizesInv /\ NextCaret => SizesInv'
<1> SUFFICES ASSUME IInv, SizesInv, NextCaret PROVE SizesInv'
  OBVIOUS
<1>1. /\ phase = "element" /\ phase' = "element" /\ ci <= Len(caret) /\ local >= tokens[pos].mult
      /\ ci' = ci + 1 /\ local' = 0 /\ tokens' = tokens
      /\ pos' = pos /\ elems' = elems /\ caret' = caret /\ last' = last
  BY DEF NextCaret, tokenVars, treeVars
<1>2. /\ Ids' = Ids /\ ElementTokens' = ElementTokens /\ RootOnTop'
      /\ \A t : Created(t)' = Created(t)
      /\ SizesAfter' = SizesAfter /\ SizesExist'
  BY <1>1, CreatedStays, SizesStay DEF SizesInv
<1>3. /\ tokens[pos].mult \in Nat /\ Len(caret) \in Nat /\ ci \in Nat /\ ci >= 1 /\ local \in Nat
  BY <1>1 DEF IInv, TypeOK, TokensOK, ListsOK, AtElement
<1>4. Counted'
  <2>1. /\ Len(caret) = SizesAfter[pos - 1].carets
        /\ Len(last) = (ci - 1) * tokens[pos].mult + local /\ local <= tokens[pos].mult
    BY <1>1 DEF SizesInv, Counted
  <2>2. local = tokens[pos].mult /\ ci - 1 \in Nat /\ (ci - 1) + 1 = ci
    BY <1>1, <1>3, <2>1
  <2>3. (ci - 1) * tokens[pos].mult + tokens[pos].mult = ci * tokens[pos].mult
    BY <1>3, <2>2, OneTimesMore, Zenon
  <2>4. ci * tokens[pos].mult \in Int
    BY <1>3
  <2> DEFINE k == ci * tokens[pos].mult
  <2>5. Len(last') = k /\ k \in Int
    BY <1>1, <2>1, <2>2, <2>3, <2>4, Zenon
  <2>6. k = (ci' - 1) * tokens[pos].mult
    <3>1. ci' - 1 = ci
      BY <1>1, <1>3
    <3> QED
      BY <3>1, Zenon
  <2> HIDE DEF k
  <2>7. Len(last') = k + local'
    BY <1>1, <2>5
  <2>8. ci' <= Len(caret) + 1 /\ local' <= tokens[pos].mult
    BY <1>1, <1>3
  <2> QED
    BY <1>1, <1>2, <2>1, <2>6, <2>7, <2>8 DEF Counted
<1>5. CreatedSoFar'
  BY <1>1, <1>2 DEF SizesInv, CreatedSoFar
<1> QED
  BY <1>2, <1>4, <1>5 DEF SizesInv

\* The steps that go to the next token, which leave the elements.
LEMMA TokenSteps ==
  ASSUME IInv, SizesInv, pos <= Len(tokens), UNCHANGED <<tokens, elems, last>>,
         phase' = "parse", pos' = pos + 1,
         Len(caret') = CaretsAfter(tokens[pos], SizesAfter[pos - 1]),
         Len(last) = AddedAfter(tokens[pos], SizesAfter[pos - 1]),
         pos \in ElementTokens =>
           Cardinality(Created(pos)) = SizesAfter[pos - 1].carets * tokens[pos].mult
  PROVE  SizesInv'
<1>1. /\ Ids' = Ids /\ ElementTokens' = ElementTokens /\ RootOnTop'
      /\ \A t : Created(t)' = Created(t)
      /\ SizesAfter' = SizesAfter /\ SizesExist'
  BY CreatedStays, SizesStay DEF SizesInv
<1>2. pos \in 1..Len(tokens) /\ pos' - 1 = pos
  BY DEF IInv, TypeOK, TokensOK
<1>3. /\ SizesAfter[pos].carets = CaretsAfter(tokens[pos], SizesAfter[pos - 1])
      /\ SizesAfter[pos].added = AddedAfter(tokens[pos], SizesAfter[pos - 1])
  <2>1. Len(tokens) \in Nat /\ SizesExist
    BY DEF IInv, TokensOK, SizesInv
  <2> QED
    BY <1>2, <2>1, SizesUnfold
<1>4. Counted'
  <2>1. Len(caret') = SizesAfter'[pos' - 1].carets
    BY <1>1, <1>2, <1>3
  <2>2. Len(last') = SizesAfter'[pos' - 1].added
    BY <1>1, <1>2, <1>3
  <2> QED
    BY <2>1, <2>2 DEF Counted
<1>5. CreatedSoFar'
  <2>1. \A e \in Ids : elems[e].tok \in Nat /\ elems[e].tok <= pos
    BY DEF SizesInv, CreatedSoFar
  <2>2. \A e \in Ids' : elems'[e].tok \in Nat /\ elems'[e].tok <= pos' /\ elems'[e].tok < pos'
    BY <1>1, <1>2, <2>1
  <2>3. \A t \in ElementTokens : t = pos =>
          Cardinality(Created(t)) = SizesAfter[t - 1].carets * tokens[t].mult
    OBVIOUS
  <2>4. \A t \in ElementTokens : t < pos =>
          Cardinality(Created(t)) = SizesAfter[t - 1].carets * tokens[t].mult
    BY DEF SizesInv, CreatedSoFar
  <2>5. \A t \in ElementTokens' : t < pos' => t < pos \/ t = pos
    BY <1>1, <1>2 DEF ElementTokens
  <2>6. \A t \in ElementTokens' : t < pos' =>
          Cardinality(Created(t)') = SizesAfter'[t - 1].carets * tokens'[t].mult
    BY <1>1, <2>3, <2>4, <2>5
  <2> QED
    BY <2>2, <2>6 DEF CreatedSoFar
<1> QED
  BY <1>1, <1>4, <1>5 DEF SizesInv

LEMMA EndElementSizes == IInv /\ SizesInv /\ EndElement => SizesInv'
<1> SUFFICES ASSUME IInv, SizesInv, EndElement PROVE SizesInv'
  OBVIOUS
<1>1. /\ phase = "element" /\ phase' = "parse" /\ ci > Len(caret) /\ tokens' = tokens
      /\ pos' = pos + 1 /\ elems' = elems /\ caret' = caret /\ last' = last
  BY DEF EndElement, tokenVars, treeVars
<1>2. /\ pos \in ElementTokens /\ pos <= Len(tokens) /\ tokens[pos].type = "element"
      /\ tokens[pos].mult \in Nat /\ Len(caret) \in Nat /\ ci \in Nat
  BY <1>1 DEF IInv, TypeOK, TokensOK, ListsOK, AtElement, ElementTokens
<1>3. /\ Len(caret) = SizesAfter[pos - 1].carets
      /\ Len(last) = (ci - 1) * tokens[pos].mult + local
      /\ local = 0 /\ ci <= Len(caret) + 1
  BY <1>1 DEF SizesInv, Counted
<1>4. Len(last) = SizesAfter[pos - 1].carets * tokens[pos].mult
  <2>1. ci - 1 = Len(caret)
    BY <1>1, <1>2, <1>3
  <2> DEFINE k == Len(caret) * tokens[pos].mult
  <2>2. k \in Int
    BY <1>2
  <2>3. Len(last) = k + 0
    BY <1>3, <2>1, Zenon
  <2>4. k = SizesAfter[pos - 1].carets * tokens[pos].mult
    BY <1>3, Zenon
  <2> HIDE DEF k
  <2> QED
    BY <2>2, <2>3, <2>4
<1>5. Cardinality(Created(pos)) = Len(last)
  BY <1>1, <1>2 DEF SizesInv, CreatedSoFar
<1>6. /\ CaretsAfter(tokens[pos], SizesAfter[pos - 1]) = SizesAfter[pos - 1].carets
      /\ AddedAfter(tokens[pos], SizesAfter[pos - 1]) = SizesAfter[pos - 1].carets * tokens[pos].mult
  BY <1>2, Zenon DEF CaretsAfter, AddedAfter
<1> QED
  BY <1>1, <1>2, <1>3, <1>4, <1>5, <1>6, TokenSteps

LEMMA CaretStepSizes == IInv /\ SizesInv /\ (Child \/ Parent \/ Sibling) => SizesInv'
<1> SUFFICES ASSUME IInv, SizesInv, Child \/ Parent \/ Sibling PROVE SizesInv'
  OBVIOUS
<1>1. /\ phase = "parse" /\ phase' = "parse" /\ pos <= Len(tokens) /\ tokens' = tokens
      /\ pos' = pos + 1 /\ elems' = elems /\ last' = last
  BY DEF Child, Parent, Sibling, AtToken, tokenVars, treeVars
<1>2. /\ Len(caret) = SizesAfter[pos - 1].carets
      /\ Len(last) = SizesAfter[pos - 1].added
  BY <1>1 DEF SizesInv, Counted
<1>3. tokens[pos].type \in {"child", "parent", "sibling"}
  BY DEF Child, Parent, Sibling, AtToken
<1>4. pos \notin ElementTokens
  BY <1>3 DEF ElementTokens
<1>5. Len(last) = AddedAfter(tokens[pos], SizesAfter[pos - 1])
  BY <1>2, <1>3 DEF AddedAfter
<1>6. Len(caret') = CaretsAfter(tokens[pos], SizesAfter[pos - 1])
  <2>1. CASE Child
    BY <1>2, <2>1 DEF Child, AtToken, CaretsAfter
  <2>2. CASE Sibling
    BY <1>2, <2>2 DEF Sibling, AtToken, CaretsAfter, treeVars
  <2>3. CASE Parent
    <3>1. /\ tokens[pos].type = "parent" /\ caret # <<>>
          /\ caret' = IF elems[caret[1]].parent = 0 THEN caret ELSE <<elems[caret[1]].parent>>
      BY <2>3 DEF Parent, AtToken
    <3>2. Len(caret') = 1
      <4>1. /\ Len(caret) \in Nat /\ Len(caret) >= 1
            /\ \A i \in 1..Len(caret) : caret[i] \in Ids
        BY <3>1 DEF IInv, ListsOK, TypeOK
      <4>2. CASE elems[caret[1]].parent = 0
        <5>1. caret[1] = 1
          <6>1. caret[1] \in Ids
            BY <4>1
          <6> QED
            BY <4>2, <6>1 DEF IInv, TreeSound, ParentsAreOlder, Root
        <5>2. ASSUME Len(caret) >= 2 PROVE FALSE
          <6>1. 1 \in 1..Len(caret) /\ 2 \in 1..Len(caret) /\ caret[2] \in Ids
            BY <4>1, <5>2
          <6>2. caret[1] < caret[2] /\ elems[caret[1]].depth = elems[caret[2]].depth
            BY <6>1 DEF IInv, CaretsLevel, Increasing
          <6>3. caret[2] \in Ids \ {1} /\ elems[1].depth \in Int
            BY <5>1, <6>1, <6>2 DEF IInv, HeapOK, Ids
          <6>4. elems[caret[2]].depth > elems[1].depth
            BY <6>3 DEF SizesInv, RootOnTop
          <6> QED
            BY <5>1, <6>2, <6>3, <6>4
        <5>3. Len(caret) = 1
          <6> DEFINE k == Len(caret)
          <6>1. k \in Nat /\ k >= 1 /\ ~ k >= 2
            BY <4>1, <5>2
          <6> HIDE DEF k
          <6>2. k = 1
            BY <6>1
          <6> QED
            BY <6>2 DEF k
        <5>4. caret' = caret
          BY <3>1, <4>2, Zenon
        <5> QED
          BY <5>3, <5>4
      <4>3. CASE elems[caret[1]].parent # 0
        <5> DEFINE parent == elems[caret[1]].parent
        <5>1. caret' = <<parent>>
          BY <3>1, <4>3
        <5> HIDE DEF parent
        <5> QED
          BY <5>1
      <4> QED
        BY <4>2, <4>3
    <3> QED
      BY <3>1, <3>2 DEF CaretsAfter
  <2> QED
    BY <2>1, <2>2, <2>3
<1> QED
  BY <1>1, <1>4, <1>5, <1>6, TokenSteps

LEMMA EndSizes == IInv /\ SizesInv /\ (ParentFails \/ Render \/ UNCHANGED vars) => SizesInv'
<1> SUFFICES ASSUME IInv, SizesInv, ParentFails \/ Render \/ UNCHANGED vars PROVE SizesInv'
  OBVIOUS
<1>1. /\ \/ phase = "parse" /\ phase' \in {"error", "done"}
         \/ phase' = phase
      /\ tokens' = tokens /\ pos' = pos /\ elems' = elems /\ caret' = caret /\ last' = last
      /\ ci' = ci /\ local' = local
  BY DEF ParentFails, Render, AtToken, vars, tokenVars, treeVars, loopVars
<1>2. /\ Ids' = Ids /\ ElementTokens' = ElementTokens /\ RootOnTop'
      /\ \A t : Created(t)' = Created(t)
      /\ SizesAfter' = SizesAfter /\ SizesExist'
  BY <1>1, CreatedStays, SizesStay DEF SizesInv
<1>3. Counted'
  BY <1>1, <1>2 DEF SizesInv, Counted
<1>4. CreatedSoFar'
  BY <1>1, <1>2 DEF SizesInv, CreatedSoFar
<1> QED
  BY <1>2, <1>3, <1>4 DEF SizesInv

LEMMA SizesInvKept == IInv /\ SizesInv /\ [Next]_vars => SizesInv'
<1> SUFFICES ASSUME IInv, SizesInv, [Next]_vars PROVE SizesInv'
  OBVIOUS
<1>1. SizesExist'
  BY SizesKept DEF SizesInv
<1>2. CASE Tokenize
  BY <1>1, <1>2, EarlySizes, SplitDoneSizes DEF Tokenize
<1>3. CASE Parse
  BY <1>3, BeginElementSizes, AddElementSizes, NextCaretSizes, EndElementSizes, CaretStepSizes, EndSizes
     DEF Parse
<1>4. CASE Render \/ UNCHANGED vars
  BY <1>4, EndSizes
<1> QED
  BY <1>2, <1>3, <1>4 DEF Next

LEMMA SizesInvHolds == Spec => []SizesInv
<1>1. Init => SizesInv
  <2> SUFFICES ASSUME Init PROVE SizesInv
    OBVIOUS
  <2>1. /\ tokens = <<>> /\ Len(tokens) = 0 /\ 1..0 = {} /\ elems = <<RootElement>>
        /\ phase = "prefix" /\ pos = 1
    BY DEF Init
  <2>2. \A e \in Ids : e = 1 /\ elems[e].tok = 0
    BY <2>1, RootOnly DEF Ids
  <2>3. ElementTokens = {}
    BY <2>1 DEF ElementTokens
  <2>4. SizesExist
    <3> DEFINE zero == [carets |-> 1, added |-> 0]
               f == [t \in 0..0 |-> zero]
    <3>1. f = [t \in 0..Len(tokens) |->
                 IF t = 0 THEN zero
                 ELSE [carets |-> CaretsAfter(tokens[t], f[t - 1]),
                       added |-> AddedAfter(tokens[t], f[t - 1])]]
      <4> HIDE DEF zero
      <4>1. \A t \in 0..0 : t = 0
        OBVIOUS
      <4> QED
        BY <2>1, <4>1
    <3> HIDE DEF f
    <3> QED
      BY <3>1, Zenon DEF SizesExist
  <2> QED
    BY <2>1, <2>2, <2>3, <2>4 DEF SizesInv, RootOnTop, Counted, CreatedSoFar
<1> QED
  BY <1>1, SizesInvKept, IInvInvariant, PTL DEF Spec

\* Every token gives as many elements as its multiplier says for every caret there is:
\* none is lost and none is made twice, whatever is nested in what.
THEOREM AsManyAsSpecified == Spec => []CreatedAsSpecified
<1>1. SizesInv => CreatedAsSpecified
  BY DEF SizesInv, CreatedSoFar, CreatedAsSpecified
<1> QED
  BY <1>1, SizesInvHolds, PTL

-----------------------------------------------------------------------------
(* Reading lines one after the other.                                      *)

\* The readers before, between and after the lines.
Readers(f, reader, ls) ==
  f = [i \in 0..Len(ls) |-> IF i = 0 THEN reader ELSE ReadLine(f[i - 1], ls[i])]

Reads(reader, ls, end) == \E f : Readers(f, reader, ls) /\ f[Len(ls)] = end

LEMMA ReadersFacts ==
  ASSUME NEW f, NEW reader, NEW ls, Len(ls) \in Nat, Readers(f, reader, ls)
  PROVE  /\ f = [i \in 0..Len(ls) |-> f[i]]
         /\ f[0] = reader
         /\ \A i \in 1..Len(ls) : f[i] = ReadLine(f[i - 1], ls[i])
<1> DEFINE L == Len(ls)
           Value(i) == IF i = 0 THEN reader ELSE ReadLine(f[i - 1], ls[i])
<1>1. f = [i \in 0..L |-> Value(i)]
  BY Zenon DEF Readers
<1>2. L \in Nat
  OBVIOUS
<1>3. \A i \in 1..L : Value(i) = ReadLine(f[i - 1], ls[i])
  OBVIOUS
<1>4. Value(0) = reader
  OBVIOUS
<1> HIDE DEF L, Value
<1>5. \A i \in 0..L : f[i] = Value(i)
  BY <1>1
<1>6. 0 \in 0..L /\ \A i \in 1..L : i \in 0..L
  BY <1>2
<1>7. f = [i \in 0..L |-> f[i]]
  BY <1>1
<1> QED
  BY <1>3, <1>4, <1>5, <1>6, <1>7 DEF L

LEMMA ReadersAre ==
  ASSUME NEW f, NEW reader, NEW ls, Len(ls) \in Nat,
         f = [i \in 0..Len(ls) |-> f[i]], f[0] = reader,
         \A i \in 1..Len(ls) : f[i] = ReadLine(f[i - 1], ls[i])
  PROVE  Readers(f, reader, ls)
<1> DEFINE L == Len(ls)
           Value(i) == IF i = 0 THEN reader ELSE ReadLine(f[i - 1], ls[i])
<1>2. L \in Nat /\ f = [i \in 0..L |-> f[i]]
  OBVIOUS
<1>3. \A i \in 1..L : Value(i) = f[i]
  OBVIOUS
<1>4. Value(0) = f[0]
  OBVIOUS
<1>5. f = [i \in 0..L |-> Value(i)]
  <2> HIDE DEF L, Value
  <2>1. \A i \in 0..L : i = 0 \/ i \in 1..L
    BY <1>2
  <2>2. \A i \in 0..L : f[i] = Value(i)
    BY <1>3, <1>4, <2>1
  <2> QED
    BY <1>2, <2>2
<1> QED
  BY <1>5, Zenon DEF Readers

LEMMA ReadsNothing == \A reader : Reads(reader, <<>>, reader)
<1> SUFFICES ASSUME NEW reader PROVE Reads(reader, <<>>, reader)
  OBVIOUS
<1> DEFINE f == [i \in 0..0 |-> reader]
<1>1. f[0] = reader /\ f = [i \in 0..0 |-> f[i]] /\ Len(<<>>) = 0 /\ 1..0 = {}
  OBVIOUS
<1> HIDE DEF f
<1>2. Readers(f, reader, <<>>)
  BY <1>1, ReadersAre
<1> QED
  BY <1>1, <1>2, Zenon DEF Reads

LEMMA ReadsOne == \A reader, line : Reads(reader, <<line>>, ReadLine(reader, line))
<1> SUFFICES ASSUME NEW reader, NEW line PROVE Reads(reader, <<line>>, ReadLine(reader, line))
  OBVIOUS
<1> DEFINE ls == <<line>>
           end == ReadLine(reader, line)
<1>1. Len(ls) = 1 /\ ls[1] = line
  OBVIOUS
<1> HIDE DEF ls, end
<1> DEFINE f == [i \in 0..1 |-> IF i = 0 THEN reader ELSE end]
<1>2. f[0] = reader /\ f[1] = end /\ f = [i \in 0..1 |-> f[i]] /\ \A i \in 1..1 : i = 1 /\ i - 1 = 0
  OBVIOUS
<1> HIDE DEF f
<1>3. f[1] = ReadLine(f[0], ls[1])
  BY <1>1, <1>2 DEF end
<1>4. Readers(f, reader, ls)
  <2>1. \A i \in 1..Len(ls) : f[i] = ReadLine(f[i - 1], ls[i])
    BY <1>1, <1>2, <1>3
  <2> QED
    BY <1>1, <1>2, <2>1, ReadersAre
<1> QED
  BY <1>1, <1>2, <1>4, Zenon DEF Reads, ls, end

\* What is read after other lines.
LEMMA ReadsBoth ==
  ASSUME NEW S, NEW ls \in Seq(S), NEW ks \in Seq(S), NEW reader, NEW middle, NEW end,
         Reads(reader, ls, middle), Reads(middle, ks, end)
  PROVE  Reads(reader, ls \o ks, end)
<1> DEFINE L == Len(ls)
           K == Len(ks)
           all == ls \o ks
<1>1. L \in Nat /\ K \in Nat
  OBVIOUS
<1>2. /\ Len(all) = L + K
      /\ \A i \in 1..L : all[i] = ls[i]
      /\ \A i \in 1..K : all[L + i] = ks[i]
  OBVIOUS
<1>3. PICK f : Readers(f, reader, ls) /\ f[L] = middle
  BY Zenon DEF Reads
<1>4. PICK g : Readers(g, middle, ks) /\ g[K] = end
  BY Zenon DEF Reads
<1>5. f[0] = reader /\ \A i \in 1..L : f[i] = ReadLine(f[i - 1], ls[i])
  BY <1>1, <1>3, ReadersFacts
<1>6. g[0] = middle /\ \A i \in 1..K : g[i] = ReadLine(g[i - 1], ks[i])
  BY <1>1, <1>4, ReadersFacts
<1> HIDE DEF L, K, all
<1> DEFINE h == [i \in 0..L + K |-> IF i <= L THEN f[i] ELSE g[i - L]]
<1>7. /\ h = [i \in 0..L + K |-> h[i]]
      /\ \A i \in 0..L : h[i] = f[i]
      /\ \A i \in 1..K : h[L + i] = g[i]
  BY <1>1
<1>8. \A i \in 0..K : h[L + i] = g[i]
  <2>1. L \in 0..L /\ L + 0 = L /\ \A i \in 0..K : i = 0 \/ i \in 1..K
    BY <1>1
  <2>2. h[L + 0] = g[0]
    BY <1>3, <1>6, <1>7, <2>1
  <2> HIDE DEF h
  <2> QED
    BY <1>7, <2>1, <2>2
<1> HIDE DEF h
<1>9. \A i \in 1..L + K : h[i] = ReadLine(h[i - 1], all[i])
  <2> SUFFICES ASSUME NEW i \in 1..L + K PROVE h[i] = ReadLine(h[i - 1], all[i])
    OBVIOUS
  <2>1. CASE i <= L
    <3>1. i \in 1..L /\ i \in 0..L /\ i - 1 \in 0..L
      BY <1>1, <2>1
    <3>2. h[i] = f[i] /\ h[i - 1] = f[i - 1] /\ all[i] = ls[i] /\ f[i] = ReadLine(f[i - 1], ls[i])
      BY <1>2, <1>5, <1>7, <3>1
    <3> QED
      BY <3>2
  <2>2. CASE i > L
    <3>1. PICK k \in 1..K : i = L + k
      <4>1. i - L \in 1..K /\ i = L + (i - L)
        BY <1>1, <2>2
      <4> QED
        BY <4>1
    <3>2. k \in 0..K /\ k - 1 \in 0..K /\ i - 1 = L + (k - 1)
      BY <1>1, <3>1
    <3>3. h[i] = g[k] /\ h[i - 1] = g[k - 1] /\ all[i] = ks[k] /\ g[k] = ReadLine(g[k - 1], ks[k])
      BY <1>2, <1>6, <1>8, <3>1, <3>2
    <3> QED
      BY <3>3
  <2> QED
    BY <1>1, <2>1, <2>2
<1>10. h[0] = reader /\ h[L + K] = end
  <2>1. 0 \in 0..L /\ K \in 0..K
    BY <1>1
  <2> QED
    BY <1>4, <1>5, <1>7, <1>8, <2>1
<1>11. Readers(h, reader, all)
  BY <1>1, <1>2, <1>7, <1>9, <1>10, ReadersAre
<1> QED
  BY <1>2, <1>10, <1>11, Zenon DEF Reads, all

LEMMA ReadsUnique ==
  ASSUME NEW reader, NEW ls, Len(ls) \in Nat,
         NEW f, Readers(f, reader, ls), NEW g, Readers(g, reader, ls)
  PROVE  f[Len(ls)] = g[Len(ls)]
<1> DEFINE L == Len(ls)
           S == {n \in Nat : n <= L => f[n] = g[n]}
<1>1. f[0] = reader /\ \A i \in 1..L : f[i] = ReadLine(f[i - 1], ls[i])
  BY ReadersFacts
<1>2. g[0] = reader /\ \A i \in 1..L : g[i] = ReadLine(g[i - 1], ls[i])
  BY ReadersFacts
<1>3. L \in Nat
  OBVIOUS
<1> HIDE DEF L
<1>4. 0 \in S
  BY <1>1, <1>2
<1>5. ASSUME NEW n \in Nat, n \in S PROVE n + 1 \in S
  <2>1. CASE n + 1 <= L
    <3>1. n + 1 \in 1..L /\ (n + 1) - 1 = n /\ n <= L
      BY <1>3, <2>1
    <3>2. f[n] = g[n]
      BY <1>5, <3>1
    <3>3. f[n + 1] = ReadLine(f[n], ls[n + 1]) /\ g[n + 1] = ReadLine(g[n], ls[n + 1])
      BY <1>1, <1>2, <3>1
    <3> QED
      BY <3>2, <3>3
  <2> QED
    BY <2>1
<1> HIDE DEF S
<1>6. \A n \in Nat : n \in S
  BY <1>4, <1>5, NatSetInduction
<1> QED
  BY <1>3, <1>6 DEF S, L

NothingRead == [ok |-> TRUE, stack |-> <<Root>>, seen |-> <<>>]

\* The page is read as any reading of its lines says.
LEMMA PageIs ==
  ASSUME NEW end, Len(out) \in Nat, Reads(NothingRead, out, end)
  PROVE  Page = end
<1> DEFINE IsReader(f) == f = [i \in 0..Len(out) |->
               IF i = 0 THEN NothingRead ELSE ReadLine(f[i - 1], out[i])]
           chosen == CHOOSE f : IsReader(f)
<1>1. PICK f : Readers(f, NothingRead, out) /\ f[Len(out)] = end
  BY Zenon DEF Reads
<1>2. IsReader(f)
  BY <1>1, Zenon DEF Readers
<1>3. IsReader(chosen)
  BY <1>2, Zenon
<1>4. Readers(chosen, NothingRead, out)
  BY <1>3, Zenon DEF Readers
<1>5. chosen[Len(out)] = f[Len(out)]
  BY <1>1, <1>4, ReadsUnique
<1>6. Page = chosen[Len(out)]
  BY Zenon DEF Page, NothingRead
<1> QED
  BY <1>1, <1>5, <1>6

-----------------------------------------------------------------------------
(* The elements of a part of the page, in the order in which it shows them.*)

Up(e) == elems[e].parent
Depth(e) == elems[e].depth

LEMMA TreeFacts ==
  ASSUME IInv
  PROVE  /\ Len(elems) \in Nat /\ Ids \subseteq Nat /\ 1 \in Ids /\ Root = 1
         /\ \A e \in Ids : e >= 1 /\ Depth(e) \in Int /\ elems[e].children \in Seq(Nat)
         /\ \A e \in Ids \ {1} : Up(e) \in Ids /\ Up(e) < e /\ Depth(e) = Depth(Up(e)) + 1
         /\ Up(1) = 0
<1>1. Len(elems) \in Nat /\ Len(elems) >= 1 /\ Root = 1
  BY DEF IInv, HeapOK, Root
<1>2. Ids \subseteq Nat /\ 1 \in Ids /\ \A e \in Ids : e >= 1
  BY <1>1 DEF Ids
<1>3. \A e \in Ids : Depth(e) \in Int /\ elems[e].children \in Seq(Nat)
  BY DEF IInv, HeapOK, Depth
<1>4. \A e \in Ids \ {1} : Up(e) \in 1..e - 1 /\ Depth(e) = Depth(Up(e)) + 1
  BY DEF IInv, TreeSound, ParentsAreOlder, DepthsMatch, Root, Up, Depth
<1>5. \A e \in Ids \ {1} : Up(e) \in Ids /\ Up(e) < e
  BY <1>1, <1>4 DEF Ids
<1>6. Up(1) = 0
  BY DEF IInv, TreeSound, ParentsAreOlder, Root, Up
<1> QED
  BY <1>1, <1>2, <1>3, <1>4, <1>5, <1>6

\* s has all that is below the children of p in F, every element once and after its
\* parent.
Below(s, p, F) ==
  /\ s \in Seq(Ids)
  /\ \A i, j \in 1..Len(s) : s[i] = s[j] => i = j
  /\ \A i \in 1..Len(s) : s[i] > p /\ Depth(s[i]) > Depth(p)
  /\ \A i \in 1..Len(s) : \/ Up(s[i]) = p /\ s[i] \in F
                          \/ \E j \in 1..Len(s) : j < i /\ Up(s[i]) = s[j]
  /\ \A c \in F : \E i \in 1..Len(s) : s[i] = c
  /\ \A i \in 1..Len(s), x \in Ids : Up(x) = s[i] => \E j \in 1..Len(s) : s[j] = x

\* Brothers come in the order of their creation, and all children of an element before
\* whatever follows it on its level or above.
PageOrder(s) ==
  /\ \A i, j \in 1..Len(s) : Up(s[i]) = Up(s[j]) /\ i < j => s[i] < s[j]
  /\ \A i, j, k \in 1..Len(s) : i < j /\ Depth(s[j]) <= Depth(s[i]) /\ Up(s[k]) = s[i] => k < j

Forest(s, p, F) == Below(s, p, F) /\ PageOrder(s)

LEMMA NoForest == \A p : Forest(<<>>, p, {})
<1>1. <<>> \in Seq(Ids) /\ Len(<<>>) = 0 /\ 1..0 = {}
  OBVIOUS
<1> QED
  BY <1>1 DEF Forest, Below, PageOrder

\* What is below different children of p are different elements.
LEMMA Apart ==
  ASSUME IInv, NEW p \in Ids, NEW F, NEW c \in Ids, \A x \in F : x < c,
         NEW s, Below(s, p, F), NEW t, Below(t, p, {c})
  PROVE  \A i \in 1..Len(s), j \in 1..Len(t) : s[i] # t[j]
<1>1. /\ Ids \subseteq Nat /\ \A e \in Ids : e >= 1
      /\ \A e \in Ids \ {1} : Up(e) < e
  BY TreeFacts
<1> DEFINE Common == {x \in Ids : /\ \E i \in 1..Len(s) : s[i] = x
                                  /\ \E j \in 1..Len(t) : t[j] = x}
<1>2. ASSUME Common # {} PROVE FALSE
  <2>1. PICK x \in Common : \A y \in Common : x <= y
    <3>1. Common \subseteq Nat
      BY <1>1
    <3> QED
      BY <1>2, <3>1, LeastNatural
  <2>2. PICK i \in 1..Len(s), j \in 1..Len(t) : s[i] = x /\ t[j] = x
    BY <2>1
  <2>3. x \in Ids /\ x > p /\ p \in Nat /\ p >= 1
    BY <1>1, <2>1, <2>2 DEF Below
  <2>4. Up(x) < x
    BY <1>1, <2>3
  <2>5. CASE Up(x) = p
    <3>1. x = c
      BY <2>2, <2>5, <1>1 DEF Below
    <3>2. x \in F
      BY <2>2, <2>5, <1>1 DEF Below
    <3> QED
      BY <1>1, <3>1, <3>2
  <2>6. CASE Up(x) # p
    <3>1. \E k \in 1..Len(s) : s[k] = Up(x)
      BY <2>2, <2>6 DEF Below
    <3>2. \E k \in 1..Len(t) : t[k] = Up(x)
      BY <2>2, <2>6 DEF Below
    <3>3. Up(x) \in Ids
      BY <3>1 DEF Below
    <3>4. Up(x) \in Common
      BY <3>1, <3>2, <3>3
    <3> HIDE DEF Common
    <3>5. x <= Up(x)
      BY <2>1, <3>4
    <3>6. x \in Nat /\ Up(x) \in Nat
      BY <1>1, <2>3, <3>3
    <3> QED
      BY <2>4, <3>5, <3>6
  <2> QED
    BY <2>5, <2>6
<1>3. \A i \in 1..Len(s) : s[i] \in Ids
  BY DEF Below
<1> QED
  BY <1>2, <1>3

LEMMA NoForeignParent ==
  ASSUME IInv, NEW p \in Ids, NEW F, NEW c \in Ids, \A x \in F : x < c,
         NEW s, Below(s, p, F), NEW t, Below(t, p, {c})
  PROVE  \A i \in 1..Len(s), j \in 1..Len(t) : Up(s[i]) # t[j] /\ Up(t[j]) # s[i]
<1>1. \A i \in 1..Len(s), j \in 1..Len(t) : s[i] # t[j]
  BY Apart
<1>2. Ids \subseteq Nat
  BY TreeFacts
<1>3. /\ \A i \in 1..Len(s) : s[i] \in Ids /\ s[i] > p
      /\ \A i \in 1..Len(t) : t[i] \in Ids /\ t[i] > p
  BY DEF Below
<1>4. \A i \in 1..Len(s) : Up(s[i]) = p \/ \E j \in 1..Len(s) : Up(s[i]) = s[j]
  BY DEF Below
<1>5. \A i \in 1..Len(t) : Up(t[i]) = p \/ \E j \in 1..Len(t) : Up(t[i]) = t[j]
  BY DEF Below
<1> QED
  BY <1>1, <1>2, <1>3, <1>4, <1>5

\* One element after the other of two sequences.
LEMMA Appending ==
  ASSUME NEW S, NEW s \in Seq(S), NEW t \in Seq(S)
  PROVE  /\ s \o t \in Seq(S) /\ Len(s \o t) = Len(s) + Len(t)
         /\ Len(s) \in Nat /\ Len(t) \in Nat
         /\ \A i \in 1..Len(s) : i \in 1..Len(s \o t) /\ (s \o t)[i] = s[i]
         /\ \A i \in 1..Len(t) : Len(s) + i \in 1..Len(s \o t) /\ (s \o t)[Len(s) + i] = t[i]
         /\ \A k \in 1..Len(s \o t) : \/ k \in 1..Len(s)
                                      \/ \E i \in 1..Len(t) : k = Len(s) + i
<1>1. /\ s \o t \in Seq(S) /\ Len(s \o t) = Len(s) + Len(t)
      /\ Len(s) \in Nat /\ Len(t) \in Nat
      /\ \A i \in 1..Len(s) : (s \o t)[i] = s[i]
      /\ \A i \in 1..Len(t) : (s \o t)[Len(s) + i] = t[i]
  OBVIOUS
<1> DEFINE n == Len(s)
           m == Len(t)
<1>2. n \in Nat /\ m \in Nat
  OBVIOUS
<1> HIDE DEF n, m
<1>3. \A i \in 1..n : i \in 1..n + m
  BY <1>2
<1>4. \A i \in 1..m : n + i \in 1..n + m
  BY <1>2
<1>5. \A k \in 1..n + m : k \in 1..n \/ \E i \in 1..m : k = n + i
  <2> SUFFICES ASSUME NEW k \in 1..n + m, k \notin 1..n PROVE \E i \in 1..m : k = n + i
    OBVIOUS
  <2>1. k - n \in 1..m /\ k = n + (k - n)
    BY <1>2
  <2> QED
    BY <2>1
<1> QED
  BY <1>1, <1>3, <1>4, <1>5 DEF n, m

LEMMA BelowJoined ==
  ASSUME IInv, NEW p \in Ids, NEW F, NEW c \in Ids, \A x \in F : x < c,
         NEW s, Below(s, p, F), NEW t, Below(t, p, {c})
  PROVE  Below(s \o t, p, F \cup {c})
<1> DEFINE u == s \o t
           n == Len(s)
<1>1. s \in Seq(Ids) /\ t \in Seq(Ids)
  BY DEF Below
<1>2. /\ u \in Seq(Ids)
      /\ n \in Nat
      /\ \A i \in 1..n : i \in 1..Len(u) /\ u[i] = s[i]
      /\ \A i \in 1..Len(t) : n + i \in 1..Len(u) /\ u[n + i] = t[i]
      /\ \A k \in 1..Len(u) : k \in 1..n \/ \E i \in 1..Len(t) : k = n + i
  BY <1>1, Appending, SMTT(40)
<1>3. \A i \in 1..n, j \in 1..Len(t) : s[i] # t[j]
  BY Apart
<1> HIDE DEF u
<1>4. ASSUME NEW i \in 1..Len(u), NEW j \in 1..Len(u), u[i] = u[j] PROVE i = j
  <2>1. CASE i \in 1..n
    <3>1. j \in 1..n
      BY <1>2, <1>3, <1>4, <2>1
    <3> QED
      BY <1>2, <1>4, <2>1, <3>1 DEF Below
  <2>2. CASE i \notin 1..n
    <3>1. PICK a \in 1..Len(t) : i = n + a
      BY <1>2, <2>2
    <3>2. j \notin 1..n
      BY <1>2, <1>3, <1>4, <3>1
    <3>3. PICK b \in 1..Len(t) : j = n + b
      BY <1>2, <3>2
    <3>4. t[a] = t[b]
      BY <1>2, <1>4, <3>1, <3>3
    <3> QED
      BY <3>1, <3>3, <3>4 DEF Below
  <2> QED
    BY <2>1, <2>2
<1>5. ASSUME NEW i \in 1..Len(u) PROVE u[i] > p /\ Depth(u[i]) > Depth(p)
  <2>1. CASE i \in 1..n
    BY <1>2, <2>1 DEF Below
  <2>2. ASSUME NEW a \in 1..Len(t), i = n + a PROVE u[i] > p /\ Depth(u[i]) > Depth(p)
    BY <1>2, <2>2 DEF Below
  <2> QED
    BY <1>2, <2>1, <2>2
<1>6. ASSUME NEW i \in 1..Len(u)
      PROVE  \/ Up(u[i]) = p /\ u[i] \in F \cup {c}
             \/ \E j \in 1..Len(u) : j < i /\ Up(u[i]) = u[j]
  <2>1. CASE i \in 1..n
    <3>1. \/ Up(s[i]) = p /\ s[i] \in F
          \/ \E j \in 1..n : j < i /\ Up(s[i]) = s[j]
      BY <2>1 DEF Below
    <3> QED
      BY <1>2, <2>1, <3>1
  <2>2. ASSUME NEW a \in 1..Len(t), i = n + a
        PROVE  \/ Up(u[i]) = p /\ u[i] \in F \cup {c}
               \/ \E j \in 1..Len(u) : j < i /\ Up(u[i]) = u[j]
    <3>1. \/ Up(t[a]) = p /\ t[a] \in {c}
          \/ \E j \in 1..Len(t) : j < a /\ Up(t[a]) = t[j]
      BY DEF Below
    <3>2. CASE Up(t[a]) = p /\ t[a] \in {c}
      BY <1>2, <2>2, <3>2
    <3>3. ASSUME NEW j \in 1..Len(t), j < a, Up(t[a]) = t[j]
          PROVE  \E k \in 1..Len(u) : k < i /\ Up(u[i]) = u[k]
      <4>1. n + j < n + a
        BY <1>2, <3>3
      <4>2. n + j \in 1..Len(u) /\ u[n + j] = t[j] /\ u[n + a] = t[a]
        BY <1>2
      <4> QED
        BY <2>2, <3>3, <4>1, <4>2
    <3> QED
      BY <3>1, <3>2, <3>3
  <2> QED
    BY <1>2, <2>1, <2>2
<1>7. ASSUME NEW x \in F \cup {c} PROVE \E i \in 1..Len(u) : u[i] = x
  <2>1. CASE x \in F
    <3>1. PICK i \in 1..n : s[i] = x
      BY <2>1 DEF Below
    <3> QED
      BY <1>2, <3>1
  <2>2. CASE x = c
    <3>1. PICK i \in 1..Len(t) : t[i] = c
      BY DEF Below
    <3> QED
      BY <1>2, <2>2, <3>1
  <2> QED
    BY <2>1, <2>2
<1>8. ASSUME NEW i \in 1..Len(u), NEW x \in Ids, Up(x) = u[i] PROVE \E j \in 1..Len(u) : u[j] = x
  <2>1. CASE i \in 1..n
    <3>1. PICK j \in 1..n : s[j] = x
      BY <1>2, <1>8, <2>1 DEF Below
    <3> QED
      BY <1>2, <3>1
  <2>2. ASSUME NEW a \in 1..Len(t), i = n + a PROVE \E j \in 1..Len(u) : u[j] = x
    <3>1. PICK j \in 1..Len(t) : t[j] = x
      BY <1>2, <1>8, <2>2 DEF Below
    <3> QED
      BY <1>2, <3>1
  <2> QED
    BY <1>2, <2>1, <2>2
<1>9. Below(u, p, F \cup {c})
  BY <1>2, <1>4, <1>5, <1>6, <1>7, <1>8 DEF Below
<1> QED
  BY <1>9 DEF u

LEMMA Joined ==
  ASSUME IInv, NEW p \in Ids, NEW F, NEW c \in Ids, \A x \in F : x < c,
         NEW s, Forest(s, p, F), NEW t, Forest(t, p, {c})
  PROVE  Forest(s \o t, p, F \cup {c})
<1> DEFINE u == s \o t
           n == Len(s)
<1>0. Below(s, p, F) /\ Below(t, p, {c}) /\ PageOrder(s) /\ PageOrder(t)
  BY DEF Forest
<1>1. s \in Seq(Ids) /\ t \in Seq(Ids)
  BY <1>0 DEF Below
<1>2. /\ n \in Nat
      /\ \A i \in 1..n : i \in 1..Len(u) /\ u[i] = s[i]
      /\ \A i \in 1..Len(t) : n + i \in 1..Len(u) /\ u[n + i] = t[i]
      /\ \A k \in 1..Len(u) : k \in 1..n \/ \E i \in 1..Len(t) : k = n + i
  BY <1>1, Appending
<1>3. \A i \in 1..n, j \in 1..Len(t) : Up(s[i]) # t[j] /\ Up(t[j]) # s[i]
  BY <1>0, NoForeignParent
<1>4. Ids \subseteq Nat
  BY TreeFacts
<1>5. Below(u, p, F \cup {c})
  BY <1>0, BelowJoined
<1> HIDE DEF u
<1>6. ASSUME NEW i \in 1..Len(u), NEW j \in 1..Len(u), Up(u[i]) = Up(u[j]), i < j PROVE u[i] < u[j]
  <2>1. CASE i \in 1..n /\ j \in 1..n
    BY <1>0, <1>2, <1>6, <2>1 DEF PageOrder
  <2>2. ASSUME i \in 1..n, NEW b \in 1..Len(t), j = n + b PROVE u[i] < u[j]
    <3>1. Up(s[i]) = Up(t[b])
      BY <1>2, <1>6, <2>2
    <3>2. Up(t[b]) = p /\ t[b] = c
      <4>1. \A k \in 1..Len(t) : t[k] # Up(s[i])
        BY <1>3, <2>2
      <4> QED
        BY <1>0, <3>1, <4>1 DEF Below
    <3>3. s[i] \in F
      <4>1. \A k \in 1..n : s[k] # p
        <5>1. \A k \in 1..n : s[k] \in Ids /\ s[k] > p
          BY <1>0, <1>1 DEF Below
        <5> QED
          BY <1>4, <5>1
      <4> QED
        BY <1>0, <2>2, <3>1, <3>2, <4>1 DEF Below
    <3> QED
      BY <1>2, <2>2, <3>2, <3>3
  <2>3. ASSUME NEW a \in 1..Len(t), i = n + a PROVE u[i] < u[j]
    <3>1. PICK b \in 1..Len(t) : j = n + b
      <4>1. j \notin 1..n
        BY <1>2, <1>6, <2>3
      <4> QED
        BY <1>2, <4>1
    <3>2. a < b
      BY <1>1, <1>2, <1>6, <2>3, <3>1
    <3>3. Up(t[a]) = Up(t[b])
      BY <1>2, <1>6, <2>3, <3>1
    <3>4. t[a] < t[b]
      BY <1>0, <3>2, <3>3 DEF PageOrder
    <3> QED
      BY <1>2, <2>3, <3>1, <3>4
  <2> QED
    BY <1>2, <2>1, <2>2, <2>3
<1>7. ASSUME NEW i \in 1..Len(u), NEW j \in 1..Len(u), NEW k \in 1..Len(u),
             i < j, Depth(u[j]) <= Depth(u[i]), Up(u[k]) = u[i]
      PROVE  k < j
  <2>1. CASE i \in 1..n
    <3>1. k \in 1..n
      BY <1>2, <1>3, <1>7, <2>1
    <3>2. CASE j \in 1..n
      BY <1>0, <1>2, <1>7, <2>1, <3>1, <3>2 DEF PageOrder
    <3>3. ASSUME NEW b \in 1..Len(t), j = n + b PROVE k < j
      BY <1>1, <1>2, <3>1, <3>3
    <3> QED
      BY <1>2, <3>2, <3>3
  <2>2. ASSUME NEW a \in 1..Len(t), i = n + a PROVE k < j
    <3>1. PICK b \in 1..Len(t) : j = n + b
      <4>1. j \notin 1..n
        BY <1>2, <1>7, <2>2
      <4> QED
        BY <1>2, <4>1
    <3>2. k \notin 1..n
      BY <1>2, <1>3, <1>7, <2>2
    <3>3. PICK d \in 1..Len(t) : k = n + d
      BY <1>2, <3>2
    <3>4. a < b
      BY <1>1, <1>2, <1>7, <2>2, <3>1
    <3>5. Depth(t[b]) <= Depth(t[a]) /\ Up(t[d]) = t[a]
      BY <1>2, <1>7, <2>2, <3>1, <3>3
    <3>6. d < b
      BY <1>0, <3>4, <3>5 DEF PageOrder
    <3> QED
      BY <1>1, <1>2, <3>1, <3>3, <3>6
  <2> QED
    BY <1>2, <2>1, <2>2
<1>8. PageOrder(u)
  BY <1>6, <1>7 DEF PageOrder
<1> QED
  BY <1>5, <1>8 DEF Forest, u

LEMMA Planted ==
  ASSUME IInv, NEW e \in Ids \ {1}, NEW t, Forest(t, e, {x \in Ids : Up(x) = e})
  PROVE  Forest(<<e>> \o t, Up(e), {e})
<1> DEFINE u == <<e>> \o t
           p == Up(e)
<1>0. Below(t, e, {x \in Ids : Up(x) = e}) /\ PageOrder(t)
  BY DEF Forest
<1>1. t \in Seq(Ids) /\ <<e>> \in Seq(Ids) /\ Len(<<e>>) = 1 /\ <<e>>[1] = e
  BY <1>0 DEF Below
<1>2. /\ u \in Seq(Ids)
      /\ 1 \in 1..Len(u) /\ u[1] = e
      /\ \A i \in 1..Len(t) : 1 + i \in 1..Len(u) /\ u[1 + i] = t[i]
      /\ \A k \in 1..Len(u) : k = 1 \/ \E i \in 1..Len(t) : k = 1 + i
  <2>1. 1..1 = {1}
    OBVIOUS
  <2> QED
    BY <1>1, <2>1, Appending
<1>3. /\ Ids \subseteq Nat /\ p \in Ids /\ p < e /\ Depth(e) = Depth(p) + 1
      /\ \A x \in Ids : Depth(x) \in Int
  BY TreeFacts
<1>4. \A i \in 1..Len(t) : i \in Nat /\ t[i] \in Ids /\ t[i] \in Nat /\ t[i] > e /\ Depth(t[i]) > Depth(e)
  <2>1. \A i \in 1..Len(t) : i \in Nat /\ t[i] \in Ids
    BY <1>1
  <2> QED
    BY <1>0, <1>3, <2>1 DEF Below
<1>5. e \in Nat /\ p \in Nat /\ Depth(e) \in Int /\ Depth(p) \in Int /\ \A i \in 1..Len(t) : Depth(t[i]) \in Int
  BY <1>3, <1>4
<1> HIDE DEF u, p
<1>6. ASSUME NEW i \in 1..Len(u), NEW j \in 1..Len(u), u[i] = u[j] PROVE i = j
  <2>1. ASSUME NEW a \in 1..Len(t), i = 1 + a PROVE i = j
    <3>1. j # 1
      BY <1>2, <1>4, <1>5, <1>6, <2>1
    <3>2. PICK b \in 1..Len(t) : j = 1 + b
      BY <1>2, <3>1
    <3>3. t[a] = t[b]
      BY <1>2, <1>6, <2>1, <3>2
    <3> QED
      BY <1>0, <2>1, <3>2, <3>3 DEF Below
  <2>2. CASE i = 1
    <3>1. \A b \in 1..Len(t) : j # 1 + b
      BY <1>2, <1>4, <1>5, <1>6, <2>2
    <3> QED
      BY <1>2, <2>2, <3>1
  <2> QED
    BY <1>2, <2>1, <2>2
<1>7. ASSUME NEW i \in 1..Len(u) PROVE u[i] > p /\ Depth(u[i]) > Depth(p)
  <2>1. CASE i = 1
    BY <1>2, <1>3, <1>5, <2>1
  <2>2. ASSUME NEW a \in 1..Len(t), i = 1 + a PROVE u[i] > p /\ Depth(u[i]) > Depth(p)
    <3>1. u[i] = t[a] /\ t[a] > e /\ Depth(t[a]) > Depth(e) /\ t[a] \in Nat /\ Depth(t[a]) \in Int
      BY <1>2, <1>4, <1>5, <2>2
    <3> HIDE DEF Depth
    <3> QED
      BY <1>3, <1>5, <3>1
  <2> QED
    BY <1>2, <2>1, <2>2
<1>8. ASSUME NEW i \in 1..Len(u)
      PROVE  \/ Up(u[i]) = p /\ u[i] \in {e}
             \/ \E j \in 1..Len(u) : j < i /\ Up(u[i]) = u[j]
  <2>1. CASE i = 1
    BY <1>2, <2>1 DEF p
  <2>2. ASSUME NEW a \in 1..Len(t), i = 1 + a
        PROVE  \E j \in 1..Len(u) : j < i /\ Up(u[i]) = u[j]
    <3>1. \/ Up(t[a]) = e
          \/ \E j \in 1..Len(t) : j < a /\ Up(t[a]) = t[j]
      BY <1>0 DEF Below
    <3>2. CASE Up(t[a]) = e
      BY <1>2, <1>4, <2>2, <3>2
    <3>3. ASSUME NEW j \in 1..Len(t), j < a, Up(t[a]) = t[j]
          PROVE  \E k \in 1..Len(u) : k < i /\ Up(u[i]) = u[k]
      <4>1. 1 + j < 1 + a
        BY <3>3
      <4>2. 1 + j \in 1..Len(u) /\ u[1 + j] = t[j] /\ u[1 + a] = t[a]
        BY <1>2
      <4> QED
        BY <2>2, <3>3, <4>1, <4>2
    <3> QED
      BY <3>1, <3>2, <3>3
  <2> QED
    BY <1>2, <2>1, <2>2
<1>9. \A x \in {e} : \E i \in 1..Len(u) : u[i] = x
  BY <1>2
<1>10. ASSUME NEW i \in 1..Len(u), NEW x \in Ids, Up(x) = u[i] PROVE \E j \in 1..Len(u) : u[j] = x
  <2>1. \E j \in 1..Len(t) : t[j] = x
    <3>1. CASE i = 1
      BY <1>0, <1>2, <1>10, <3>1 DEF Below
    <3>2. ASSUME NEW a \in 1..Len(t), i = 1 + a PROVE \E j \in 1..Len(t) : t[j] = x
      BY <1>0, <1>2, <1>10, <3>2 DEF Below
    <3> QED
      BY <1>2, <3>1, <3>2
  <2> QED
    BY <1>2, <2>1
<1>11. Below(u, p, {e})
  BY <1>2, <1>6, <1>7, <1>8, <1>9, <1>10 DEF Below
<1>12. \A a \in 1..Len(t) : Up(t[a]) # p
  <2> SUFFICES ASSUME NEW a \in 1..Len(t) PROVE Up(t[a]) # p
    OBVIOUS
  <2>1. Up(t[a]) = e \/ \E j \in 1..Len(t) : Up(t[a]) = t[j]
    BY <1>0 DEF Below
  <2> QED
    BY <1>3, <1>4, <1>5, <2>1
<1>13. ASSUME NEW i \in 1..Len(u), NEW j \in 1..Len(u), Up(u[i]) = Up(u[j]), i < j PROVE u[i] < u[j]
  <2>1. PICK b \in 1..Len(t) : j = 1 + b
    BY <1>2, <1>13
  <2>2. i # 1
    BY <1>2, <1>12, <1>13, <2>1 DEF p
  <2>3. PICK a \in 1..Len(t) : i = 1 + a
    BY <1>2, <2>2
  <2>4. a < b /\ Up(t[a]) = Up(t[b])
    BY <1>2, <1>13, <2>1, <2>3
  <2> QED
    BY <1>0, <1>2, <2>1, <2>3, <2>4 DEF PageOrder
<1>14. ASSUME NEW i \in 1..Len(u), NEW j \in 1..Len(u), NEW k \in 1..Len(u),
              i < j, Depth(u[j]) <= Depth(u[i]), Up(u[k]) = u[i]
       PROVE  k < j
  <2>1. PICK b \in 1..Len(t) : j = 1 + b
    BY <1>2, <1>14
  <2>2. i # 1
    BY <1>2, <1>4, <1>5, <1>14, <2>1
  <2>3. PICK a \in 1..Len(t) : i = 1 + a
    BY <1>2, <2>2
  <2>4. CASE k = 1
    BY <2>1, <2>4
  <2>5. ASSUME NEW d \in 1..Len(t), k = 1 + d PROVE k < j
    <3>1. a < b /\ Depth(t[b]) <= Depth(t[a]) /\ Up(t[d]) = t[a]
      BY <1>2, <1>14, <2>1, <2>3, <2>5
    <3>2. d < b
      BY <1>0, <3>1 DEF PageOrder
    <3> QED
      BY <2>1, <2>5, <3>2
  <2> QED
    BY <1>2, <2>4, <2>5
<1>15. PageOrder(u)
  BY <1>13, <1>14 DEF PageOrder
<1> QED
  BY <1>11, <1>15 DEF Forest, u, p

Reader(stack, seen) == [ok |-> TRUE, stack |-> stack, seen |-> seen]

Top(stack) == stack[Len(stack)]
Nesting(stack) == Len(stack) - (IF around = {} THEN 2 ELSE 1)

IsReader(r) == r = [field \in {"ok", "stack", "seen"} |-> r[field]]

LEMMA SameReader ==
  ASSUME NEW r, IsReader(r), NEW q, IsReader(q), r.ok = q.ok, r.stack = q.stack, r.seen = q.seen
  PROVE  r = q
BY DEF IsReader

Changed(r, x, y, z) == [r EXCEPT !.ok = x, !.stack = y, !.seen = z]
NewStack(r, x, y) == [r EXCEPT !.ok = x, !.stack = y]
NewSeen(r, x, z) == [r EXCEPT !.ok = x, !.seen = z]
NewOk(r, x) == [r EXCEPT !.ok = x]

LEMMA ChangedReader ==
  ASSUME NEW r, IsReader(r), NEW x, NEW y, NEW z
  PROVE  /\ IsReader(Changed(r, x, y, z)) /\ Changed(r, x, y, z).ok = x
         /\ Changed(r, x, y, z).stack = y /\ Changed(r, x, y, z).seen = z
         /\ IsReader(NewStack(r, x, y)) /\ NewStack(r, x, y).ok = x
         /\ NewStack(r, x, y).stack = y /\ NewStack(r, x, y).seen = r.seen
         /\ IsReader(NewSeen(r, x, z)) /\ NewSeen(r, x, z).ok = x
         /\ NewSeen(r, x, z).stack = r.stack /\ NewSeen(r, x, z).seen = z
         /\ IsReader(NewOk(r, x)) /\ NewOk(r, x).ok = x
         /\ NewOk(r, x).stack = r.stack /\ NewOk(r, x).seen = r.seen
BY DEF IsReader, Changed, NewStack, NewSeen, NewOk

LEMMA LiteralReader ==
  ASSUME NEW x, NEW y, NEW z
  PROVE  IsReader([ok |-> x, stack |-> y, seen |-> z])
BY DEF IsReader

LEMMA ReaderFields ==
  \A stack, seen : /\ Reader(stack, seen).ok = TRUE
                   /\ Reader(stack, seen).stack = stack
                   /\ Reader(stack, seen).seen = seen
BY Zenon DEF Reader

LEMMA ReaderIsReader == \A stack, seen : IsReader(Reader(stack, seen))
BY LiteralReader, Zenon DEF Reader

LEMMA ReaderChanged ==
  ASSUME NEW stack, NEW seen, NEW ok, NEW y, NEW z
  PROVE  LET r == Reader(stack, seen)
         IN /\ ok = Reader(y, z).ok => Changed(r, ok, y, z) = Reader(y, z)
            /\ ok = Reader(y, seen).ok => NewStack(r, ok, y) = Reader(y, seen)
            /\ ok = Reader(stack, z).ok => NewSeen(r, ok, z) = Reader(stack, z)
            /\ ok = Reader(stack, seen).ok => NewOk(r, ok) = Reader(stack, seen)
<1> DEFINE r == Reader(stack, seen)
<1>1. IsReader(r) /\ r.stack = stack /\ r.seen = seen
  BY ReaderIsReader, ReaderFields, Zenon
<1>2. IsReader(Reader(y, z)) /\ Reader(y, z).stack = y /\ Reader(y, z).seen = z
  BY ReaderIsReader, ReaderFields, Zenon
<1>3. IsReader(Reader(y, seen)) /\ Reader(y, seen).stack = y /\ Reader(y, seen).seen = seen
  BY ReaderIsReader, ReaderFields, Zenon
<1>4. IsReader(Reader(stack, z)) /\ Reader(stack, z).stack = stack /\ Reader(stack, z).seen = z
  BY ReaderIsReader, ReaderFields, Zenon
<1> HIDE DEF r
<1>5. ASSUME ok = Reader(y, z).ok PROVE Changed(r, ok, y, z) = Reader(y, z)
  <2>1. IsReader(Changed(r, ok, y, z)) /\ Changed(r, ok, y, z).ok = ok
    BY <1>1, ChangedReader
  <2>2. Changed(r, ok, y, z).stack = y /\ Changed(r, ok, y, z).seen = z
    BY <1>1, ChangedReader
  <2> QED
    BY <1>2, <1>5, <2>1, <2>2, SameReader
<1>6. ASSUME ok = Reader(y, seen).ok PROVE NewStack(r, ok, y) = Reader(y, seen)
  <2>1. IsReader(NewStack(r, ok, y)) /\ NewStack(r, ok, y).ok = ok
    BY <1>1, ChangedReader
  <2>2. NewStack(r, ok, y).stack = y /\ NewStack(r, ok, y).seen = seen
    BY <1>1, ChangedReader
  <2> QED
    BY <1>3, <1>6, <2>1, <2>2, SameReader
<1>7. ASSUME ok = Reader(stack, z).ok PROVE NewSeen(r, ok, z) = Reader(stack, z)
  <2>1. IsReader(NewSeen(r, ok, z)) /\ NewSeen(r, ok, z).ok = ok
    BY <1>1, ChangedReader
  <2>2. NewSeen(r, ok, z).stack = stack /\ NewSeen(r, ok, z).seen = z
    BY <1>1, ChangedReader
  <2> QED
    BY <1>4, <1>7, <2>1, <2>2, SameReader
<1>8. ASSUME ok = r.ok PROVE NewOk(r, ok) = r
  <2>1. IsReader(NewOk(r, ok)) /\ NewOk(r, ok).ok = ok
    BY <1>1, ChangedReader
  <2>2. NewOk(r, ok).stack = r.stack /\ NewOk(r, ok).seen = r.seen
    BY <1>1, ChangedReader
  <2> QED
    BY <1>1, <1>8, <2>1, <2>2, SameReader
<1> QED
  BY <1>5, <1>6, <1>7, <1>8, Zenon DEF r

LEMMA OpenRead ==
  ASSUME NEW stack, NEW seen, NEW e, NEW d, Up(e) = Top(stack), d = Nesting(stack) + 1
  PROVE  ReadLine(Reader(stack, seen), Line(d, "open", e)) = Reader(Append(stack, e), Append(seen, e))
<1> DEFINE r == Reader(stack, seen)
           line == Line(d, "open", e)
           ok == r.ok /\ Up(e) = Top(stack) /\ d = Nesting(stack) + 1
           y == Append(stack, e)
           z == Append(seen, e)
<1>1. r.ok /\ r.stack = stack /\ r.seen = seen
  BY ReaderFields, Zenon
<1>2. line.kind = "open" /\ line.elem = e /\ line.depth = d
  BY Zenon DEF Line
<1> HIDE DEF line
<1>3. ReadLine(r, line) = Changed(r, ok, y, z)
  BY <1>1, <1>2, Zenon DEF ReadLine, Up, Top, Nesting, Changed
<1>4. ok = Reader(y, z).ok
  BY <1>1, ReaderFields, Zenon
<1> HIDE DEF ok, y, z
<1>5. Changed(r, ok, y, z) = Reader(y, z)
  BY <1>4, ReaderChanged
<1> QED
  BY <1>3, <1>5, Zenon DEF line, y, z

LEMMA CloseRead ==
  ASSUME NEW stack, NEW seen, NEW e, NEW d, e = Top(stack), e # Root, d = Nesting(stack)
  PROVE  ReadLine(Reader(stack, seen), Line(d, "close", e))
           = Reader(SubSeq(stack, 1, Len(stack) - 1), seen)
<1> DEFINE r == Reader(stack, seen)
           line == Line(d, "close", e)
           ok == r.ok /\ e = Top(stack) /\ Top(stack) # Root /\ d = Nesting(stack)
           y == SubSeq(stack, 1, Len(stack) - 1)
<1>1. r.ok /\ r.stack = stack /\ r.seen = seen
  BY ReaderFields, Zenon
<1>2. line.kind = "close" /\ line.kind # "open" /\ line.elem = e /\ line.depth = d
  BY DEF Line
<1> HIDE DEF line
<1>3. ReadLine(r, line) = NewStack(r, ok, y)
  BY <1>1, <1>2, Zenon DEF ReadLine, Up, Top, Nesting, NewStack
<1>4. ok = Reader(y, seen).ok
  BY <1>1, ReaderFields, Zenon
<1> HIDE DEF ok, y
<1>5. NewStack(r, ok, y) = Reader(y, seen)
  BY <1>4, ReaderChanged
<1> QED
  BY <1>3, <1>5, Zenon DEF line, y

LEMMA LeafRead ==
  ASSUME NEW stack, NEW seen, NEW e, NEW d, Up(e) = Top(stack), d = Nesting(stack) + 1,
         NEW kind \in {"text", "short"}
  PROVE  ReadLine(Reader(stack, seen), Line(d, kind, e)) = Reader(stack, Append(seen, e))
<1> DEFINE r == Reader(stack, seen)
           line == Line(d, kind, e)
           ok == r.ok /\ Up(e) = Top(stack) /\ d = Nesting(stack) + 1
           z == Append(seen, e)
<1>1. r.ok /\ r.stack = stack /\ r.seen = seen
  BY ReaderFields, Zenon
<1>2. /\ line.kind \in {"text", "short"} /\ line.kind # "open" /\ line.kind # "close"
      /\ line.elem = e /\ line.depth = d
  BY DEF Line
<1> HIDE DEF line
<1>3. ReadLine(r, line) = NewSeen(r, ok, z)
  BY <1>1, <1>2, Zenon DEF ReadLine, Up, Top, Nesting, NewSeen
<1>4. ok = Reader(stack, z).ok
  BY <1>1, ReaderFields, Zenon
<1> HIDE DEF ok, z
<1>5. NewSeen(r, ok, z) = Reader(stack, z)
  BY <1>4, ReaderChanged
<1> QED
  BY <1>3, <1>5, Zenon DEF line, z

LEMMA BlankRead ==
  ASSUME NEW stack, NEW seen, NEW e, NEW d, e = Top(stack)
  PROVE  ReadLine(Reader(stack, seen), Line(d, "blank", e)) = Reader(stack, seen)
<1> DEFINE r == Reader(stack, seen)
           line == Line(d, "blank", e)
           ok == r.ok /\ e = Top(stack)
<1>1. r.ok /\ r.stack = stack /\ r.seen = seen
  BY ReaderFields, Zenon
<1>2. /\ line.kind = "blank" /\ line.kind \notin {"text", "short"} /\ line.kind # "open" /\ line.kind # "close"
      /\ line.elem = e
  BY DEF Line
<1> HIDE DEF line
<1>3. ReadLine(r, line) = NewOk(r, ok)
  BY <1>1, <1>2, Zenon DEF ReadLine, Up, Top, Nesting, NewOk
<1>4. ok = Reader(stack, seen).ok
  BY <1>1, ReaderFields, Zenon
<1> HIDE DEF ok
<1>5. NewOk(r, ok) = r
  BY <1>4, ReaderChanged
<1> QED
  BY <1>3, <1>5, Zenon DEF line

LEMMA AroundRead ==
  ASSUME NEW stack, NEW seen, NEW d, NEW e, NEW kind \in {"prefix", "suffix"}, Top(stack) = Root
  PROVE  ReadLine(Reader(stack, seen), Line(d, kind, e)) = Reader(stack, seen)
<1> DEFINE r == Reader(stack, seen)
           line == Line(d, kind, e)
           ok == r.ok /\ Top(stack) = Root
<1>1. r.ok /\ r.stack = stack /\ r.seen = seen
  BY ReaderFields, Zenon
<1>2. line.kind # "blank" /\ line.kind \notin {"text", "short"} /\ line.kind # "open" /\ line.kind # "close"
  BY DEF Line
<1> HIDE DEF line
<1>3. ReadLine(r, line) = NewOk(r, ok)
  BY <1>1, <1>2, Zenon DEF ReadLine, Up, Top, Nesting, NewOk
<1>4. ok = Reader(stack, seen).ok
  BY <1>1, ReaderFields, Zenon
<1> HIDE DEF ok
<1>5. NewOk(r, ok) = r
  BY <1>4, ReaderChanged
<1> QED
  BY <1>3, <1>5, Zenon DEF line

Lines == [depth : Int, kind : {"open", "close", "text", "short", "blank", "prefix", "suffix"}, elem : Ids]

LEMMA LineType ==
  ASSUME NEW d \in Int, NEW e \in Ids,
         NEW kind \in {"open", "close", "text", "short", "blank", "prefix", "suffix"}
  PROVE  Line(d, kind, e) \in Lines /\ <<Line(d, kind, e)>> \in Seq(Lines)
<1>1. Line(d, kind, e) \in Lines
  BY DEF Line, Lines
<1> QED
  BY <1>1

At(stack, p) == stack \in Seq(Ids) /\ stack # <<>> /\ Top(stack) = p /\ Nesting(stack) = Depth(p)

\* Lines that show the elements s, to a reader who is in p.
Shows(ls, p, s) ==
  /\ ls \in Seq(Lines) /\ s \in Seq(Ids)
  /\ \A stack, seen : At(stack, p) /\ seen \in Seq(Ids) =>
       Reads(Reader(stack, seen), ls, Reader(stack, seen \o s))

LEMMA ShowsNothing == \A p : Shows(<<>>, p, <<>>)
<1> SUFFICES ASSUME NEW p PROVE Shows(<<>>, p, <<>>)
  OBVIOUS
<1>1. <<>> \in Seq(Lines) /\ <<>> \in Seq(Ids)
  OBVIOUS
<1>2. ASSUME NEW stack, NEW seen, seen \in Seq(Ids)
      PROVE  Reads(Reader(stack, seen), <<>>, Reader(stack, seen \o <<>>))
  <2>1. seen \o <<>> = seen
    BY <1>2
  <2> QED
    BY <2>1, ReadsNothing, Zenon
<1> QED
  BY <1>1, <1>2, Zenon DEF Shows

LEMMA ShowsBoth ==
  ASSUME NEW p, NEW ls, NEW s, Shows(ls, p, s), NEW ks, NEW t, Shows(ks, p, t)
  PROVE  Shows(ls \o ks, p, s \o t)
<1>1. ls \in Seq(Lines) /\ s \in Seq(Ids) /\ ks \in Seq(Lines) /\ t \in Seq(Ids)
  BY Zenon DEF Shows
<1>2. ls \o ks \in Seq(Lines) /\ s \o t \in Seq(Ids)
  BY <1>1
<1>3. ASSUME NEW stack, NEW seen, At(stack, p), seen \in Seq(Ids)
      PROVE  Reads(Reader(stack, seen), ls \o ks, Reader(stack, seen \o (s \o t)))
  <2> DEFINE more == seen \o s
  <2>1. more \in Seq(Ids)
    BY <1>1, <1>3
  <2>2. Reads(Reader(stack, seen), ls, Reader(stack, more))
    BY <1>3, Zenon DEF Shows
  <2> HIDE DEF more
  <2>3. Reads(Reader(stack, more), ks, Reader(stack, more \o t))
    BY <1>3, <2>1, Zenon DEF Shows
  <2>4. Reads(Reader(stack, seen), ls \o ks, Reader(stack, more \o t))
    BY <1>1, <2>2, <2>3, ReadsBoth
  <2>5. more \o t = seen \o (s \o t)
    BY <1>1, <1>3, ConcatAssociative DEF more
  <2> QED
    BY <2>4, <2>5, Zenon
<1> QED
  BY <1>2, <1>3, Zenon DEF Shows

LEMMA ShowsLeaf ==
  ASSUME IInv, NEW e \in Ids \ {1}, NEW kind \in {"text", "short"}
  PROVE  Shows(<<Line(Depth(e), kind, e)>>, Up(e), <<e>>)
<1> DEFINE d == Depth(e)
<1>1. e \in Ids /\ d \in Int /\ d = Depth(Up(e)) + 1
  BY TreeFacts
<1>2. <<Line(d, kind, e)>> \in Seq(Lines) /\ <<e>> \in Seq(Ids)
  BY <1>1, LineType
<1> HIDE DEF d
<1>3. ASSUME NEW stack, NEW seen, At(stack, Up(e)), seen \in Seq(Ids)
      PROVE  Reads(Reader(stack, seen), <<Line(d, kind, e)>>, Reader(stack, seen \o <<e>>))
  <2>1. Up(e) = Top(stack) /\ d = Nesting(stack) + 1
    BY <1>1, <1>3, Zenon DEF At
  <2>2. ReadLine(Reader(stack, seen), Line(d, kind, e)) = Reader(stack, Append(seen, e))
    BY <2>1, LeafRead
  <2>3. Append(seen, e) = seen \o <<e>>
    BY <1>1, <1>3
  <2> QED
    BY <2>2, <2>3, ReadsOne, Zenon
<1> QED
  BY <1>2, <1>3, Zenon DEF Shows, d

LEMMA ShowsBlank ==
  ASSUME IInv, NEW e \in Ids, NEW d \in Int
  PROVE  Shows(<<Line(d, "blank", e)>>, e, <<>>)
<1>1. <<Line(d, "blank", e)>> \in Seq(Lines) /\ <<>> \in Seq(Ids)
  BY LineType
<1>2. ASSUME NEW stack, NEW seen, At(stack, e), seen \in Seq(Ids)
      PROVE  Reads(Reader(stack, seen), <<Line(d, "blank", e)>>, Reader(stack, seen \o <<>>))
  <2>1. e = Top(stack)
    BY <1>2, Zenon DEF At
  <2>2. ReadLine(Reader(stack, seen), Line(d, "blank", e)) = Reader(stack, seen)
    BY <2>1, BlankRead
  <2>3. seen \o <<>> = seen
    BY <1>2
  <2> QED
    BY <2>2, <2>3, ReadsOne, Zenon
<1> QED
  BY <1>1, <1>2, Zenon DEF Shows

LEMMA ShowsAround ==
  ASSUME IInv, NEW kind \in {"prefix", "suffix"}
  PROVE  Shows(Around(kind), Root, <<>>)
<1> DEFINE d == elems[Root].depth
           ls == <<Line(d, kind, Root)>>
<1>1. Root \in Ids /\ d \in Int
  BY TreeFacts DEF Depth
<1>2. ls \in Seq(Lines) /\ <<>> \in Seq(Ids)
  BY <1>1, LineType
<1> HIDE DEF d
<1>3. ASSUME NEW stack, NEW seen, At(stack, Root), seen \in Seq(Ids)
      PROVE  Reads(Reader(stack, seen), ls, Reader(stack, seen \o <<>>))
  <2>1. Top(stack) = Root
    BY <1>3, Zenon DEF At
  <2>2. ReadLine(Reader(stack, seen), Line(d, kind, Root)) = Reader(stack, seen)
    BY <2>1, AroundRead
  <2>3. seen \o <<>> = seen
    BY <1>3
  <2> QED
    BY <2>2, <2>3, ReadsOne, Zenon
<1>4. Shows(ls, Root, <<>>)
  BY <1>2, <1>3, Zenon DEF Shows
<1>5. CASE kind \in around
  BY <1>4, <1>5, Zenon DEF Around, d
<1>6. CASE kind \notin around
  BY <1>6, ShowsNothing, Zenon DEF Around
<1> QED
  BY <1>5, <1>6

LEMMA ShowsBlock ==
  ASSUME IInv, NEW e \in Ids \ {1}, NEW ls, NEW s, Shows(ls, e, s)
  PROVE  Shows(<<Line(Depth(e), "open", e)>> \o ls \o <<Line(Depth(e), "close", e)>>, Up(e), <<e>> \o s)
<1> DEFINE d == Depth(e)
           first == <<Line(d, "open", e)>>
           end == <<Line(d, "close", e)>>
<1>1. e \in Ids /\ e # Root /\ d \in Int /\ d = Depth(Up(e)) + 1
  BY TreeFacts
<1>2. first \in Seq(Lines) /\ end \in Seq(Lines)
  BY <1>1, LineType
<1>3. ls \in Seq(Lines) /\ s \in Seq(Ids)
  BY Zenon DEF Shows
<1> HIDE DEF d
<1>4. first \o ls \in Seq(Lines) /\ first \o ls \o end \in Seq(Lines) /\ <<e>> \o s \in Seq(Ids)
  <2> HIDE DEF first, end
  <2> QED
    BY <1>1, <1>2, <1>3
<1>5. ASSUME NEW stack, NEW seen, At(stack, Up(e)), seen \in Seq(Ids)
      PROVE  Reads(Reader(stack, seen), first \o ls \o end, Reader(stack, seen \o (<<e>> \o s)))
  <2> DEFINE inside == Append(stack, e)
             more == Append(seen, e)
  <2>1. Up(e) = Top(stack) /\ d = Nesting(stack) + 1 /\ Nesting(stack) = Depth(Up(e)) /\ stack \in Seq(Ids)
    BY <1>1, <1>5, Zenon DEF At
  <2>2. Reads(Reader(stack, seen), first, Reader(inside, more))
    <3>1. ReadLine(Reader(stack, seen), Line(d, "open", e)) = Reader(inside, more)
      BY <2>1, OpenRead
    <3> QED
      BY <3>1, ReadsOne, Zenon
  <2>3. /\ inside \in Seq(Ids) /\ inside # <<>> /\ Len(inside) = Len(stack) + 1 /\ inside[Len(inside)] = e
        /\ SubSeq(inside, 1, Len(inside) - 1) = stack /\ more \in Seq(Ids)
    BY <1>1, <1>5, <2>1
  <2>4. Nesting(inside) = d
    BY <2>1, <2>3 DEF Nesting
  <2>5. At(inside, e)
    BY <2>3, <2>4, Zenon DEF At, Top, d
  <2> HIDE DEF inside, more, first, end
  <2>6. Reads(Reader(inside, more), ls, Reader(inside, more \o s))
    BY <2>3, <2>5, Zenon DEF Shows
  <2>7. Reads(Reader(inside, more \o s), end, Reader(stack, more \o s))
    <3>1. e = Top(inside)
      BY <2>5, Zenon DEF At
    <3>2. ReadLine(Reader(inside, more \o s), Line(d, "close", e))
            = Reader(SubSeq(inside, 1, Len(inside) - 1), more \o s)
      BY <1>1, <2>4, <3>1, CloseRead
    <3> QED
      BY <2>3, <3>2, ReadsOne, Zenon DEF end
  <2>8. Reads(Reader(stack, seen), first \o ls, Reader(inside, more \o s))
    BY <1>2, <1>3, <2>2, <2>6, ReadsBoth
  <2>9. Reads(Reader(stack, seen), first \o ls \o end, Reader(stack, more \o s))
    BY <1>2, <1>4, <2>7, <2>8, ReadsBoth
  <2>10. more \o s = seen \o (<<e>> \o s)
    <3>1. more = seen \o <<e>> /\ <<e>> \in Seq(Ids)
      BY <1>1, <1>5 DEF more
    <3> QED
      BY <1>3, <1>5, <3>1, ConcatAssociative
  <2> QED
    BY <2>9, <2>10, Zenon
<1> QED
  BY <1>4, <1>5, Zenon DEF Shows, d

Tagged(r) == r.name # "" \/ r.tags

\* Every element but the root has tags; how deep the root is.
TagsInv ==
  /\ \A t \in ElementTokens : Tagged(tokens[t])
  /\ elems[Root].name = "" /\ ~elems[Root].tags
  /\ \A e \in Ids \ {Root} : Tagged(elems[e])
  /\ phase \notin {"prefix", "suffix", "split"} =>
       elems[Root].depth = IF around = {} THEN -1 ELSE 0

Parts(f, e) == [i \in 1..Len(elems[e].children) |-> f[elems[e].children[i]]]

Body(f, e) == IF IsBlock(e) THEN BlockLines(e, FlattenSeq(Parts(f, e))) ELSE LeafLines(e)

LinesOfAll(f) == f = [e \in Ids |-> f[e]] /\ \A e \in Ids : f[e] = Body(f, e)

LEMMA ChildrenAre ==
  ASSUME IInv, NEW e \in Ids
  PROVE  LET ch == elems[e].children
         IN /\ ch \in Seq(Nat) /\ Len(ch) \in Nat
            /\ \A i \in 1..Len(ch) : ch[i] \in Ids \ {1} /\ Up(ch[i]) = e /\ ch[i] > e
            /\ \A i, j \in 1..Len(ch) : i < j => ch[i] < ch[j]
            /\ \A x \in Ids : Up(x) = e => \E i \in 1..Len(ch) : ch[i] = x
<1> DEFINE ch == elems[e].children
<1>1. /\ Ids \subseteq Nat /\ Root = 1 /\ e >= 1 /\ ch \in Seq(Nat)
      /\ \A x \in Ids \ {1} : Up(x) < x
      /\ Up(1) = 0
  BY TreeFacts
<1>2. Len(ch) \in Nat
  BY <1>1
<1>3. \A i \in 1..Len(ch) : ch[i] \in Ids /\ Up(ch[i]) = e
  BY DEF IInv, TreeSound, ChildrenMatchParents, Up
<1>4. \A i \in 1..Len(ch) : ch[i] \in Ids \ {1} /\ ch[i] > e
  BY <1>1, <1>3
<1>5. \A i, j \in 1..Len(ch) : i < j => ch[i] < ch[j]
  BY DEF IInv, TreeSound, ChildrenInOrder, Increasing
<1>6. ASSUME NEW x \in Ids, Up(x) = e PROVE \E i \in 1..Len(ch) : ch[i] = x
  <2>1. x \in Ids \ {Root}
    BY <1>1, <1>6
  <2> QED
    BY <1>6, <2>1 DEF IInv, TreeSound, ChildrenMatchParents, Up
<1> QED
  BY <1>1, <1>2, <1>3, <1>4, <1>5, <1>6

\* The lines of an element depend on the lines of its children only.
LEMMA SameBody ==
  ASSUME NEW e, NEW f, NEW g, \A i \in 1..Len(elems[e].children) : f[elems[e].children[i]] = g[elems[e].children[i]]
  PROVE  Body(f, e) = Body(g, e)
<1>1. Parts(f, e) = Parts(g, e)
  BY DEF Parts
<1> QED
  BY <1>1, Zenon DEF Body

LEMMA LinesExist ==
  ASSUME IInv
  PROVE  \E f : LinesOfAll(f)
<1> DEFINE n == Len(elems)
           Right(f, k) == f = [e \in Ids |-> f[e]] /\ \A e \in Ids : e > n - k => f[e] = Body(f, e)
           S == {k \in Nat : k <= n => \E f : Right(f, k)}
<1>1. n \in Nat /\ Ids \subseteq Nat /\ \A e \in Ids : e <= n /\ e >= 1
  BY TreeFacts DEF Ids
<1>2. 0 \in S
  <2> DEFINE f == [e \in Ids |-> <<>>]
  <2>1. f = [e \in Ids |-> f[e]]
    OBVIOUS
  <2>2. \A e \in Ids : ~(e > n - 0)
    BY <1>1
  <2>3. Right(f, 0)
    BY <2>1, <2>2, Zenon
  <2> QED
    BY <2>3, Zenon
<1>3. ASSUME NEW k \in Nat, k \in S PROVE k + 1 \in S
  <2>0. k + 1 \in Nat
    OBVIOUS
  <2> HIDE DEF n
  <2> SUFFICES ASSUME k + 1 <= n PROVE \E f : Right(f, k + 1)
    BY <2>0, Zenon
  <2>1. k <= n /\ n - k \in 1..n
    BY <1>1
  <2>2. PICK f : Right(f, k)
    BY <1>3, <2>1, Zenon
  <2> DEFINE e == n - k
             b == Body(f, e)
             g == [f EXCEPT ![e] = b]
  <2>3. e \in Ids
    BY <2>1 DEF n, Ids
  <2> HIDE DEF b, e
  <2>4. g = [x \in Ids |-> g[x]] /\ g[e] = b /\ \A x \in Ids : x # e => g[x] = f[x]
    BY <2>2, <2>3
  <2> HIDE DEF g
  <2>5. \A x \in Ids : x >= e => Body(g, x) = Body(f, x)
    <3> SUFFICES ASSUME NEW x \in Ids, x >= e PROVE Body(g, x) = Body(f, x)
      OBVIOUS
    <3>1. \A i \in 1..Len(elems[x].children) : elems[x].children[i] \in Ids /\ elems[x].children[i] > x
      BY ChildrenAre
    <3>2. \A i \in 1..Len(elems[x].children) : elems[x].children[i] # e
      BY <1>1, <2>3, <3>1
    <3>3. \A i \in 1..Len(elems[x].children) : g[elems[x].children[i]] = f[elems[x].children[i]]
      BY <2>4, <3>1, <3>2
    <3> QED
      BY <3>3, SameBody
  <2>6. ASSUME NEW x \in Ids, x > n - (k + 1) PROVE g[x] = Body(g, x)
    <3>1. x = e \/ (x # e /\ x > n - k)
      BY <1>1, <2>6 DEF e
    <3>2. x >= e
      BY <1>1, <2>6 DEF e
    <3>3. CASE x = e
      BY <2>4, <2>5, <3>2, <3>3, Zenon DEF b
    <3>4. CASE x # e /\ x > n - k
      <4>1. f[x] = Body(f, x)
        BY <2>2, <3>4, Zenon
      <4> QED
        BY <2>4, <2>5, <3>2, <3>4, <4>1, Zenon
    <3> QED
      BY <3>1, <3>3, <3>4
  <2>7. Right(g, k + 1)
    BY <2>4, <2>6, Zenon
  <2> QED
    BY <2>7, Zenon
<1> HIDE DEF S
<1>4. \A k \in Nat : k \in S
  BY <1>2, <1>3, NatSetInduction
<1>5. PICK f : Right(f, n)
  <2>1. n <= n /\ n \in S
    BY <1>1, <1>4
  <2> QED
    BY <2>1, Zenon DEF S
<1>6. \A e \in Ids : e > n - n
  BY <1>1
<1>7. LinesOfAll(f)
  BY <1>5, <1>6, Zenon DEF LinesOfAll
<1> QED
  BY <1>7, Zenon

LEMMA RenderedIs ==
  ASSUME IInv
  PROVE  \E f : LinesOfAll(f) /\ Rendered = f[Root]
<1> DEFINE IsLines(f) == f = [e \in 1..Len(elems) |->
             IF IsBlock(e) THEN BlockLines(e, FlattenSeq([i \in 1..Len(elems[e].children) |-> f[elems[e].children[i]]]))
             ELSE LeafLines(e)]
           chosen == CHOOSE f : IsLines(f)
<1>1. \A f : IsLines(f) <=> f = [e \in Ids |-> Body(f, e)]
  BY Zenon DEF Ids, Body, Parts
<1>2. PICK f : LinesOfAll(f)
  BY LinesExist
<1>3. f = [e \in Ids |-> Body(f, e)]
  <2>1. f = [e \in Ids |-> f[e]] /\ \A e \in Ids : f[e] = Body(f, e)
    BY <1>2, Zenon DEF LinesOfAll
  <2> QED
    BY <2>1
<1>4. IsLines(f)
  BY <1>1, <1>3, Zenon
<1>5. IsLines(chosen)
  BY <1>4, Zenon
<1>6. chosen = [e \in Ids |-> Body(chosen, e)]
  BY <1>1, <1>5, Zenon
<1>7. Rendered = chosen[Root]
  BY Zenon DEF Rendered
<1> HIDE DEF chosen
<1>8. LinesOfAll(chosen)
  <2>1. \A e \in Ids : chosen[e] = Body(chosen, e)
    BY <1>6
  <2>2. chosen = [e \in Ids |-> chosen[e]]
    BY <1>6
  <2> QED
    BY <2>1, <2>2, Zenon DEF LinesOfAll
<1> QED
  BY <1>7, <1>8, Zenon

\* The lines of the children of e, given that each of them is shown.
LEMMA ChildrenShown ==
  ASSUME IInv, NEW e \in Ids, NEW f,
         \A x \in Ids : Up(x) = e => \E s : Forest(s, e, {x}) /\ Shows(f[x], e, s)
  PROVE  \E s : /\ Forest(s, e, {x \in Ids : Up(x) = e})
                /\ Shows(FlattenSeq(Parts(f, e)), e, s)
<1> DEFINE ch == elems[e].children
           n == Len(ch)
           ss == Parts(f, e)
           First(m) == {ch[i] : i \in 1..m}
           Good(g, m) == \E s : Forest(s, e, First(m)) /\ Shows(g[m], e, s)
<1>1. /\ n \in Nat
      /\ \A i \in 1..n : ch[i] \in Ids /\ Up(ch[i]) = e
      /\ \A i, j \in 1..n : i < j => ch[i] < ch[j]
      /\ \A x \in Ids : Up(x) = e => \E i \in 1..n : ch[i] = x
  BY ChildrenAre
<1>2. ss = [i \in 1..n |-> f[ch[i]]]
  BY DEF Parts
<1>3. \A i \in 1..n : f[ch[i]] \in Seq(Lines)
  BY <1>1, Zenon DEF Shows
<1> HIDE DEF ch, n, ss
<1>4. ss \in Seq(Seq(Lines)) /\ Len(ss) = n /\ \A i \in 1..n : ss[i] = f[ch[i]]
  <2>1. ss \in [1..n -> Seq(Lines)]
    BY <1>2, <1>3
  <2>2. ss \in Seq(Seq(Lines))
    BY <1>1, <2>1, SeqDef
  <2> QED
    BY <1>1, <1>2, <2>1, <2>2
<1>5. PICK g : Concatenates(g, ss, Lines)
  BY <1>4, PrefixesExist
<1>6. FlattenSeq(ss) = g[n]
  BY <1>4, <1>5, FlattenByPrefixes
<1>7. g[0] = <<>> /\ \A i \in 1..n : g[i] = g[i - 1] \o f[ch[i]]
  BY <1>4, <1>5, Zenon DEF Concatenates
<1> DEFINE S == {m \in Nat : m <= n => Good(g, m)}
<1>8. 0 \in S
  <2>1. First(0) = {}
    OBVIOUS
  <2>2. Forest(<<>>, e, First(0)) /\ Shows(g[0], e, <<>>)
    BY <1>7, <2>1, NoForest, ShowsNothing, Zenon
  <2> QED
    BY <2>2, Zenon
<1>9. ASSUME NEW m \in Nat, m \in S PROVE m + 1 \in S
  <2>0. m + 1 \in Nat
    OBVIOUS
  <2> SUFFICES ASSUME m + 1 <= n PROVE Good(g, m + 1)
    BY <2>0, Zenon
  <2>1. m <= n /\ m + 1 \in 1..n /\ (m + 1) - 1 = m /\ \A i \in 1..m : i \in 1..n /\ i < m + 1
    BY <1>1
  <2>2. PICK s : Forest(s, e, First(m)) /\ Shows(g[m], e, s)
    BY <1>9, <2>1, Zenon
  <2> DEFINE c == ch[m + 1]
  <2>3. c \in Ids /\ Up(c) = e
    BY <1>1, <2>1
  <2>4. PICK t : Forest(t, e, {c}) /\ Shows(f[c], e, t)
    BY <2>3, Zenon
  <2>5. \A x \in First(m) : x < c
    BY <1>1, <2>1
  <2>6. First(m + 1) = First(m) \cup {c}
    <3>1. 1..m + 1 = (1..m) \cup {m + 1}
      OBVIOUS
    <3> QED
      BY <3>1
  <2>7. g[m + 1] = g[m] \o f[c]
    BY <1>7, <2>1
  <2> HIDE DEF First, c
  <2>8. Forest(s \o t, e, First(m) \cup {c})
    BY <2>2, <2>3, <2>4, <2>5, Joined
  <2>9. Shows(g[m] \o f[c], e, s \o t)
    BY <2>2, <2>4, ShowsBoth
  <2> QED
    BY <2>6, <2>7, <2>8, <2>9, Zenon
<1> HIDE DEF S
<1>10. \A m \in Nat : m \in S
  BY <1>8, <1>9, NatSetInduction
<1>11. Good(g, n)
  <2>1. n <= n /\ n \in S
    BY <1>1, <1>10
  <2> QED
    BY <2>1, Zenon DEF S
<1>12. First(n) = {x \in Ids : Up(x) = e}
  BY <1>1
<1> QED
  BY <1>6, <1>11, <1>12, Zenon DEF ss

LEMMA Childless0 ==
  ASSUME IInv, NEW e \in Ids, ~IsBlock(e)
  PROVE  Forest(<<>>, e, {x \in Ids : Up(x) = e})
<1>1. elems[e].children = <<>>
  BY DEF IsBlock
<1>2. {x \in Ids : Up(x) = e} = {}
  <2>1. Len(<<>>) = 0 /\ 1..0 = {}
    OBVIOUS
  <2>2. \A x \in Ids : Up(x) = e => \E i \in 1..Len(elems[e].children) : elems[e].children[i] = x
    BY ChildrenAre
  <2> QED
    BY <1>1, <2>1, <2>2
<1> QED
  BY <1>2, NoForest, Zenon

\* A block without lines gets an empty one.
LEMMA InnerShown ==
  ASSUME IInv, NEW e \in Ids, NEW body, NEW s, Shows(body, e, s)
  PROVE  Shows(IF body = <<>> THEN <<Line(elems[e].depth + 1, "blank", e)>> ELSE body, e, s)
<1> DEFINE blank == <<Line(Depth(e) + 1, "blank", e)>>
<1>1. CASE body = <<>>
  <2>1. Shows(blank, e, <<>>)
    <3>1. Depth(e) + 1 \in Int
      BY TreeFacts
    <3> QED
      BY <3>1, ShowsBlank
  <2> HIDE DEF blank
  <2>2. Shows(blank \o <<>>, e, <<>> \o s)
    BY <1>1, <2>1, ShowsBoth
  <2>3. blank \o <<>> = blank /\ <<>> \o s = s
    <3>1. blank \in Seq(Lines) /\ s \in Seq(Ids)
      BY <2>1, Zenon DEF Shows
    <3> QED
      BY <3>1
  <2> QED
    BY <1>1, <2>2, <2>3, Zenon DEF blank, Depth
<1>2. CASE body # <<>>
  BY <1>2, Zenon
<1> QED
  BY <1>1, <1>2, Zenon

\* An element whose children are shown is shown.
LEMMA ElementShown ==
  ASSUME IInv, TagsInv, NEW e \in Ids \ {1}, NEW f, f[e] = Body(f, e),
         \A x \in Ids : Up(x) = e => \E s : Forest(s, e, {x}) /\ Shows(f[x], e, s)
  PROVE  \E s : Forest(s, Up(e), {e}) /\ Shows(f[e], Up(e), s)
<1>1. e \in Ids /\ e # Root /\ Depth(e) \in Int /\ Depth(e) + 1 \in Int
  BY TreeFacts
<1>2. HasTags(e)
  BY <1>1 DEF TagsInv, HasTags, Tagged
<1>3. CASE IsBlock(e)
  <2> DEFINE body == FlattenSeq(Parts(f, e))
             inner == IF body = <<>> THEN <<Line(elems[e].depth + 1, "blank", e)>> ELSE body
  <2>1. PICK s : Forest(s, e, {x \in Ids : Up(x) = e}) /\ Shows(body, e, s)
    BY <1>1, ChildrenShown
  <2>2. f[e] = <<Line(Depth(e), "open", e)>> \o inner \o <<Line(Depth(e), "close", e)>>
    BY <1>1, <1>2, <1>3, Zenon DEF Body, BlockLines, Depth
  <2>3. Shows(inner, e, s)
    <3> HIDE DEF body
    <3> QED
      BY <1>1, <2>1, InnerShown
  <2> HIDE DEF inner, body
  <2>4. Forest(<<e>> \o s, Up(e), {e})
    BY <2>1, Planted
  <2>5. Shows(<<Line(Depth(e), "open", e)>> \o inner \o <<Line(Depth(e), "close", e)>>, Up(e), <<e>> \o s)
    BY <2>3, ShowsBlock
  <2> QED
    BY <2>2, <2>4, <2>5, Zenon
<1>4. CASE ~IsBlock(e)
  <2>1. Forest(<<>>, e, {x \in Ids : Up(x) = e})
    BY <1>1, <1>4, Childless0
  <2>2. Forest(<<e>> \o <<>>, Up(e), {e})
    BY <2>1, Planted
  <2>3. <<e>> \o <<>> = <<e>>
    OBVIOUS
  <2>4. f[e] = LeafLines(e)
    BY <1>4, Zenon DEF Body
  <2>5. \E kind \in {"text", "short"} : f[e] = <<Line(Depth(e), kind, e)>>
    <3>1. CASE elems[e].name \in ShortTags
      BY <2>4, <3>1, Zenon DEF LeafLines, Depth
    <3>2. CASE elems[e].name \notin ShortTags
      BY <1>2, <2>4, <3>2, Zenon DEF LeafLines, Depth
    <3> QED
      BY <3>1, <3>2
  <2>6. Shows(f[e], Up(e), <<e>>)
    BY <2>5, ShowsLeaf
  <2> QED
    BY <2>2, <2>3, <2>6, Zenon
<1> QED
  BY <1>3, <1>4

LEMMA AllShown ==
  ASSUME IInv, TagsInv, NEW f, LinesOfAll(f)
  PROVE  \A e \in Ids \ {1} : \E s : Forest(s, Up(e), {e}) /\ Shows(f[e], Up(e), s)
<1> DEFINE n == Len(elems)
           Shown(e) == \E s : Forest(s, Up(e), {e}) /\ Shows(f[e], Up(e), s)
           S == {k \in Nat : \A e \in Ids \ {1} : e > n - k => Shown(e)}
<1>1. /\ n \in Nat /\ Ids \subseteq Nat /\ 1 \in Ids /\ Up(1) = 0
      /\ \A e \in Ids : e <= n /\ e >= 1
      /\ \A e \in Ids \ {1} : Up(e) < e
  BY TreeFacts DEF Ids
<1>2. 0 \in S
  <2>1. \A e \in Ids : ~(e > n - 0)
    BY <1>1
  <2> HIDE DEF Shown
  <2> QED
    BY <2>1
<1>3. ASSUME NEW k \in Nat, k \in S PROVE k + 1 \in S
  <2>0. k + 1 \in Nat
    OBVIOUS
  <2> SUFFICES ASSUME NEW e \in Ids \ {1}, e > n - (k + 1) PROVE Shown(e)
    BY <2>0, Zenon
  <2>1. ASSUME NEW x \in Ids, Up(x) = e PROVE \E s : Forest(s, e, {x}) /\ Shows(f[x], e, s)
    <3>1. x # 1
      BY <1>1, <2>1
    <3>2. x > e /\ e \in Nat /\ x \in Nat
      BY <1>1, <2>1, <3>1
    <3>3. x > n - k
      <4> HIDE DEF n
      <4> QED
        BY <1>1, <3>2
    <3>4. Shown(x)
      BY <1>3, <3>1, <3>3, Zenon
    <3> QED
      BY <2>1, <3>4, Zenon
  <2>2. f[e] = Body(f, e)
    BY Zenon DEF LinesOfAll
  <2>3. \E s : Forest(s, Up(e), {e}) /\ Shows(f[e], Up(e), s)
    BY <2>1, <2>2, ElementShown
  <2> QED
    BY <2>3, Zenon
<1> HIDE DEF S
<1>4. \A k \in Nat : k \in S
  BY <1>2, <1>3, NatSetInduction
<1>5. n \in S
  BY <1>1, <1>4
<1>6. \A e \in Ids : e > n - n
  BY <1>1
<1> QED
  BY <1>5, <1>6, Zenon DEF S

LEMMA RootShown ==
  ASSUME IInv, TagsInv, NEW f, LinesOfAll(f)
  PROVE  \E s : Forest(s, Root, {x \in Ids : Up(x) = Root}) /\ Shows(f[Root], Root, s)
<1>1. Root = 1 /\ Root \in Ids /\ Depth(Root) \in Int /\ Depth(Root) + 1 \in Int /\ Up(1) = 0
  BY TreeFacts
<1>2. f[Root] = Body(f, Root)
  BY <1>1, Zenon DEF LinesOfAll
<1>3. \A x \in Ids : Up(x) = Root => \E s : Forest(s, Root, {x}) /\ Shows(f[x], Root, s)
  <2> SUFFICES ASSUME NEW x \in Ids, Up(x) = Root PROVE \E s : Forest(s, Root, {x}) /\ Shows(f[x], Root, s)
    OBVIOUS
  <2>1. x \in Ids \ {1}
    BY <1>1
  <2>2. \E s : Forest(s, Up(x), {x}) /\ Shows(f[x], Up(x), s)
    BY <2>1, AllShown
  <2> QED
    BY <2>2, Zenon
<1>4. ~HasTags(Root) /\ elems[Root].name \notin ShortTags
  BY DEF TagsInv, HasTags, ShortTags
<1>5. CASE IsBlock(Root)
  <2> DEFINE body == FlattenSeq(Parts(f, Root))
             inner == IF body = <<>> THEN <<Line(elems[Root].depth + 1, "blank", Root)>> ELSE body
  <2>1. PICK s : Forest(s, Root, {x \in Ids : Up(x) = Root}) /\ Shows(body, Root, s)
    BY <1>1, <1>3, ChildrenShown
  <2>2. Shows(inner, Root, s)
    <3> HIDE DEF body
    <3> QED
      BY <1>1, <2>1, InnerShown
  <2>3. CASE around # {}
    <3>1. f[Root] = Around("prefix") \o inner \o Around("suffix")
      BY <1>2, <1>5, <2>3, Zenon DEF Body, BlockLines
    <3> HIDE DEF inner, body
    <3>2. Shows(Around("prefix"), Root, <<>>) /\ Shows(Around("suffix"), Root, <<>>)
      BY ShowsAround
    <3>3. Shows(Around("prefix") \o inner, Root, <<>> \o s)
      BY <2>2, <3>2, ShowsBoth
    <3>4. Shows(Around("prefix") \o inner \o Around("suffix"), Root, (<<>> \o s) \o <<>>)
      BY <3>2, <3>3, ShowsBoth
    <3>5. (<<>> \o s) \o <<>> = s
      <4>1. s \in Seq(Ids)
        BY <2>2, Zenon DEF Shows
      <4> QED
        BY <4>1
    <3> QED
      BY <2>1, <3>1, <3>4, <3>5, Zenon
  <2>4. CASE around = {}
    <3>1. f[Root] = inner
      BY <1>2, <1>4, <1>5, <2>4, Zenon DEF Body, BlockLines
    <3> QED
      BY <2>1, <2>2, <3>1, Zenon
  <2> QED
    BY <2>3, <2>4
<1>6. CASE ~IsBlock(Root)
  <2>1. Forest(<<>>, Root, {x \in Ids : Up(x) = Root})
    BY <1>1, <1>6, Childless0
  <2>2. f[Root] = <<>>
    BY <1>2, <1>4, <1>6, Zenon DEF Body, LeafLines
  <2> QED
    BY <2>1, <2>2, ShowsNothing, Zenon
<1> QED
  BY <1>5, <1>6

\* The page of a finished parser shows the forest below the root.
RenderedInv == phase = "done" => \E f : LinesOfAll(f) /\ out = f[Root]

LEMMA PageShown ==
  ASSUME IInv, TagsInv, RenderedInv, phase = "done"
  PROVE  \E s : Page = Reader(<<Root>>, s) /\ Forest(s, Root, {x \in Ids : Up(x) = Root})
<1>1. PICK f : LinesOfAll(f) /\ out = f[Root]
  BY DEF RenderedInv
<1>2. PICK s : Forest(s, Root, {x \in Ids : Up(x) = Root}) /\ Shows(out, Root, s)
  BY <1>1, RootShown, Zenon
<1> DEFINE stack == <<Root>>
<1>3. At(stack, Root)
  <2>1. Root \in Ids /\ stack \in Seq(Ids) /\ stack # <<>> /\ Len(stack) = 1 /\ stack[1] = Root
    BY TreeFacts
  <2>2. Depth(Root) = IF around = {} THEN -1 ELSE 0
    BY DEF TagsInv, Depth
  <2> HIDE DEF stack
  <2>3. Nesting(stack) = Depth(Root)
    BY <2>1, <2>2 DEF Nesting
  <2> QED
    BY <2>1, <2>3 DEF At, Top
<1>4. Reads(Reader(stack, <<>>), out, Reader(stack, <<>> \o s))
  <2>1. <<>> \in Seq(Ids)
    OBVIOUS
  <2> HIDE DEF stack
  <2> QED
    BY <1>2, <1>3, <2>1, Zenon DEF Shows
<1>5. <<>> \o s = s /\ Len(out) \in Nat
  <2>1. s \in Seq(Ids) /\ out \in Seq(Lines)
    BY <1>2, Zenon DEF Shows
  <2> QED
    BY <2>1
<1>6. Reader(stack, <<>>) = NothingRead
  BY Zenon DEF Reader, NothingRead
<1> HIDE DEF stack
<1>7. Reads(NothingRead, out, Reader(stack, s))
  BY <1>4, <1>5, <1>6, Zenon
<1>8. Page = Reader(stack, s)
  BY <1>5, <1>7, PageIs
<1> QED
  BY <1>2, <1>8, Zenon DEF stack

LEMMA WholeForest ==
  ASSUME IInv, NEW s, Forest(s, Root, {x \in Ids : Up(x) = Root})
  PROVE  /\ s \in Seq(Ids \ {1})
         /\ \A x \in Ids \ {1} : \E i \in 1..Len(s) : s[i] = x
         /\ \A i, j \in 1..Len(s) : s[i] = s[j] => i = j
<1>0. Below(s, Root, {x \in Ids : Up(x) = Root})
  BY DEF Forest
<1>1. Root = 1 /\ Ids \subseteq Nat /\ \A x \in Ids \ {1} : Up(x) \in Ids /\ Up(x) < x
  BY TreeFacts
<1>2. s \in Seq(Ids) /\ \A i \in 1..Len(s) : s[i] \in Ids /\ s[i] > 1
  BY <1>0, <1>1 DEF Below
<1>3. s \in Seq(Ids \ {1})
  <2>1. \A i \in 1..Len(s) : s[i] \in Ids \ {1}
    BY <1>1, <1>2
  <2> QED
    BY <1>2, <2>1, SeqDef
<1> DEFINE Missing == {x \in Ids \ {1} : \A i \in 1..Len(s) : s[i] # x}
<1>4. ASSUME Missing # {} PROVE FALSE
  <2>1. PICK x \in Missing : \A y \in Missing : x <= y
    <3>1. Missing \subseteq Nat
      BY <1>1
    <3> HIDE DEF Missing
    <3> QED
      BY <1>4, <3>1, LeastNatural
  <2>2. x \in Ids \ {1} /\ Up(x) \in Ids /\ Up(x) < x /\ x \in Nat /\ Up(x) \in Nat
    BY <1>1, <2>1
  <2>3. Up(x) \notin Missing
    <3> HIDE DEF Missing
    <3> QED
      BY <2>1, <2>2
  <2>4. CASE Up(x) = Root
    <3>1. \E i \in 1..Len(s) : s[i] = x
      BY <1>0, <2>2, <2>4 DEF Below
    <3> QED
      BY <2>1, <3>1
  <2>5. CASE Up(x) # Root
    <3>1. PICK i \in 1..Len(s) : s[i] = Up(x)
      BY <1>1, <2>2, <2>3, <2>5
    <3>2. \E j \in 1..Len(s) : s[j] = x
      BY <1>0, <2>2, <3>1 DEF Below
    <3> QED
      BY <2>1, <3>2
  <2> QED
    BY <2>4, <2>5
<1>5. \A x \in Ids \ {1} : \E i \in 1..Len(s) : s[i] = x
  BY <1>4
<1> QED
  BY <1>0, <1>3, <1>5 DEF Below

LEMMA SameSize ==
  ASSUME NEW S, IsFiniteSet(S), NEW T, NEW f \in [S -> T],
         \A x, y \in S : f[x] = f[y] => x = y, \A z \in T : \E x \in S : f[x] = z
  PROVE  Cardinality(T) = Cardinality(S)
<1>1. f \in Injection(S, T)
  BY DEF Injection, IsInjective
<1>2. f \in Surjection(S, T)
  BY DEF Surjection
<1>3. ExistsBijection(S, T)
  BY <1>1, <1>2, Zenon DEF Bijection, ExistsBijection
<1> QED
  BY <1>3, FS_Bijection

\* A sequence with every member of a finite set once is as long as the set is large.
LEMMA OnceEach ==
  ASSUME NEW S, IsFiniteSet(S), NEW s \in Seq(S),
         \A x \in S : \E i \in 1..Len(s) : s[i] = x,
         \A i, j \in 1..Len(s) : s[i] = s[j] => i = j
  PROVE  Len(s) = Cardinality(S) /\ ToSet(s) = S
<1>1. Len(s) \in Nat /\ s \in [1..Len(s) -> S]
  OBVIOUS
<1>3. IsFiniteSet(1..Len(s)) /\ Cardinality(1..Len(s)) = Len(s)
  BY <1>1, FS_Interval
<1>4. Cardinality(1..Len(s)) = Cardinality(S)
  BY <1>1, <1>3, SameSize
<1>5. ToSet(s) = S
  BY <1>1 DEF ToSet
<1> QED
  BY <1>3, <1>4, <1>5

LEMMA ReadsBack == IInv /\ TagsInv /\ RenderedInv => PageReadsBack
<1> SUFFICES ASSUME IInv, TagsInv, RenderedInv, phase = "done"
             PROVE  /\ Page.ok
                    /\ Page.stack = <<Root>>
                    /\ Len(Page.seen) = Len(elems) - 1
                    /\ ToSet(Page.seen) = Ids \ {Root}
                    /\ \A i, j \in 1..Len(Page.seen) :
                         elems[Page.seen[i]].parent = elems[Page.seen[j]].parent /\ i < j => Page.seen[i] < Page.seen[j]
  BY Zenon DEF PageReadsBack
<1>1. PICK s : Page = Reader(<<Root>>, s) /\ Forest(s, Root, {x \in Ids : Up(x) = Root})
  BY PageShown
<1>2. Page.ok /\ Page.stack = <<Root>> /\ Page.seen = s
  BY <1>1, ReaderFields, Zenon
<1>3. /\ s \in Seq(Ids \ {1})
      /\ \A x \in Ids \ {1} : \E i \in 1..Len(s) : s[i] = x
      /\ \A i, j \in 1..Len(s) : s[i] = s[j] => i = j
  BY <1>1, WholeForest
<1>4. IsFiniteSet(Ids \ {1}) /\ Cardinality(Ids \ {1}) = Len(elems) - 1 /\ Root = 1
  <2>1. Len(elems) \in Nat /\ 1 \in Ids /\ Root = 1
    BY TreeFacts
  <2>2. IsFiniteSet(Ids) /\ Cardinality(Ids) = Len(elems)
    BY <2>1, FS_Interval DEF Ids
  <2>3. IsFiniteSet(Ids \ {1}) /\ Cardinality(Ids \ {1}) = Cardinality(Ids) - 1
    BY <2>1, <2>2, FS_RemoveElement
  <2> QED
    BY <2>1, <2>2, <2>3
<1>5. Len(s) = Len(elems) - 1 /\ ToSet(s) = Ids \ {1}
  BY <1>3, <1>4, OnceEach
<1>6. \A i, j \in 1..Len(s) : Up(s[i]) = Up(s[j]) /\ i < j => s[i] < s[j]
  BY <1>1 DEF Forest, PageOrder
<1> QED
  BY <1>2, <1>4, <1>5, <1>6, Zenon DEF Up

Tok(e) == elems[e].tok

SameTok(x) == {y \in Ids : Tok(y) = Tok(x) /\ y <= x}

\* The numbers of an element say which of its token it is.
NumberedSoFar ==
  \A x \in Ids : Tok(x) # 0 =>
    /\ elems[x].count = Cardinality(SameTok(x))
    /\ elems[x].local = Cardinality({y \in SameTok(x) : Up(y) = Up(x)})

\* The elements of a token are brothers, or their parents are elements of one token and
\* in the same order.
TokensInOrder ==
  \A x, y \in Ids : x < y /\ Tok(x) = Tok(y) /\ Tok(x) # 0 =>
    /\ Depth(x) = Depth(y)
    /\ \/ Up(x) = Up(y)
       \/ Up(x) < Up(y) /\ Tok(Up(x)) = Tok(Up(y)) /\ Tok(Up(x)) # 0

RootWithoutToken == Tok(Root) = 0

\* The elements of a token are shown in the order of their creation.
LEMMA ShownInOrder ==
  ASSUME IInv, RootWithoutToken, TokensInOrder,
         NEW s, Forest(s, Root, {x \in Ids : Up(x) = Root})
  PROVE  \A i, j \in 1..Len(s) : Tok(s[i]) = Tok(s[j]) /\ Tok(s[i]) # 0 /\ s[i] < s[j] => i < j
<1>1. Root = 1 /\ Ids \subseteq Nat /\ \A x \in Ids \ {1} : Up(x) \in Ids /\ Up(x) < x
  BY TreeFacts
<1>2. /\ s \in Seq(Ids \ {1})
      /\ \A x \in Ids \ {1} : \E i \in 1..Len(s) : s[i] = x
      /\ \A i, j \in 1..Len(s) : s[i] = s[j] => i = j
  BY WholeForest
<1>3. /\ \A i, j \in 1..Len(s) : Up(s[i]) = Up(s[j]) /\ i < j => s[i] < s[j]
      /\ \A i, j, k \in 1..Len(s) : i < j /\ Depth(s[j]) <= Depth(s[i]) /\ Up(s[k]) = s[i] => k < j
      /\ \A i \in 1..Len(s) : Up(s[i]) = Root \/ \E j \in 1..Len(s) : j < i /\ Up(s[i]) = s[j]
  BY DEF Forest, PageOrder, Below
<1>4. \A i \in 1..Len(s) : s[i] \in Ids \ {1} /\ i \in Nat
  BY <1>2
<1> DEFINE Wrong(y) == \E i, j \in 1..Len(s) : /\ Tok(s[i]) = Tok(s[j]) /\ Tok(s[i]) # 0
                                               /\ s[i] < s[j] /\ s[j] = y /\ ~(i < j)
           Bad == {y \in Ids : Wrong(y)}
<1>5. ASSUME Bad # {} PROVE FALSE
  <2>1. PICK y \in Bad : \A z \in Bad : y <= z
    <3>1. Bad \subseteq Nat
      BY <1>1
    <3> HIDE DEF Bad
    <3> QED
      BY <1>5, <3>1, LeastNatural
  <2>2. PICK i \in 1..Len(s), j \in 1..Len(s) :
          Tok(s[i]) = Tok(s[j]) /\ Tok(s[i]) # 0 /\ s[i] < s[j] /\ s[j] = y /\ ~(i < j)
    BY <2>1
  <2>3. s[i] \in Ids \ {1} /\ s[j] \in Ids \ {1} /\ i \in Nat /\ j \in Nat /\ s[i] \in Nat /\ s[j] \in Nat
    BY <1>1, <1>4
  <2>4. j < i
    BY <2>2, <2>3
  <2>5. /\ Depth(s[i]) = Depth(s[j])
        /\ \/ Up(s[i]) = Up(s[j])
           \/ Up(s[i]) < Up(s[j]) /\ Tok(Up(s[i])) = Tok(Up(s[j])) /\ Tok(Up(s[i])) # 0
    BY <2>2, <2>3 DEF TokensInOrder
  <2>6. CASE Up(s[i]) = Up(s[j])
    <3>1. s[j] < s[i]
      BY <1>3, <2>4, <2>6
    <3> QED
      BY <2>2, <2>3, <3>1
  <2>7. CASE Up(s[i]) < Up(s[j]) /\ Tok(Up(s[i])) = Tok(Up(s[j])) /\ Tok(Up(s[i])) # 0
    <3> DEFINE p == Up(s[i])
               q == Up(s[j])
    <3>1. p \in Ids /\ q \in Ids /\ q < s[j] /\ p < q /\ Tok(p) = Tok(q) /\ Tok(p) # 0
      BY <1>1, <2>3, <2>7
    <3>2. p # 1 /\ q # 1
      BY <1>1, <3>1 DEF RootWithoutToken
    <3>3. PICK k \in 1..Len(s) : s[k] = p
      BY <1>2, <3>1, <3>2
    <3>4. PICK l \in 1..Len(s) : s[l] = q /\ l < j
      BY <1>1, <1>3, <3>2
    <3>5. k < l
      <4>1. q \notin Bad
        <5>1. q \in Nat /\ q < y /\ y \in Nat
          BY <1>1, <2>2, <2>3, <3>1
        <5> HIDE DEF Bad, q
        <5> QED
          BY <2>1, <5>1
      <4> HIDE DEF p, q
      <4> QED
        BY <3>1, <3>3, <3>4, <4>1
    <3>6. Depth(q) <= Depth(p)
      <4>1. Depth(p) = Depth(q)
        BY <3>1 DEF TokensInOrder
      <4>2. Depth(p) \in Int
        BY <3>1, TreeFacts
      <4> HIDE DEF p, q
      <4> QED
        BY <4>1, <4>2
    <3>7. i < l
      BY <1>3, <3>3, <3>4, <3>5, <3>6
    <3>8. i < j
      BY <1>4, <3>4, <3>7
    <3> QED
      BY <2>2, <3>8
  <2> QED
    BY <2>5, <2>6, <2>7
<1> SUFFICES ASSUME NEW i \in 1..Len(s), NEW j \in 1..Len(s),
                    Tok(s[i]) = Tok(s[j]), Tok(s[i]) # 0, s[i] < s[j]
             PROVE  i < j
  OBVIOUS
<1>6. ASSUME ~(i < j) PROVE FALSE
  <2>1. s[j] \in Ids /\ Wrong(s[j])
    BY <1>4, <1>6
  <2>2. s[j] \in Bad
    BY <2>1, Zenon
  <2> HIDE DEF Bad
  <2> QED
    BY <1>5, <2>2
<1> QED
  BY <1>6

LEMMA NumbersShown ==
  IInv /\ TagsInv /\ RenderedInv /\ RootWithoutToken /\ TokensInOrder /\ NumberedSoFar => OutputNumbered
<1> SUFFICES ASSUME IInv, TagsInv, RenderedInv, RootWithoutToken, TokensInOrder, NumberedSoFar,
                    phase = "done"
             PROVE  OutputNumbered
  BY Zenon DEF OutputNumbered
<1>1. PICK s : Page = Reader(<<Root>>, s) /\ Forest(s, Root, {x \in Ids : Up(x) = Root})
  BY PageShown
<1>2. Page.seen = s
  BY <1>1, ReaderFields, Zenon
<1>3. /\ s \in Seq(Ids \ {1})
      /\ \A x \in Ids \ {1} : \E i \in 1..Len(s) : s[i] = x
      /\ \A i, j \in 1..Len(s) : s[i] = s[j] => i = j
  BY <1>1, WholeForest
<1>4. \A i, j \in 1..Len(s) : Tok(s[i]) = Tok(s[j]) /\ Tok(s[i]) # 0 /\ s[i] < s[j] => i < j
  BY <1>1, ShownInOrder
<1>5. Root = 1 /\ Ids \subseteq Nat
  BY TreeFacts
<1>6. \A i \in 1..Len(s) : s[i] \in Ids \ {1} /\ i \in Nat /\ s[i] \in Nat
  <2>1. \A i \in 1..Len(s) : s[i] \in Ids \ {1} /\ i \in Nat
    BY <1>3
  <2> QED
    BY <1>5, <2>1
<1>7. ASSUME NEW i \in 1..Len(s), Tok(s[i]) # 0
      PROVE  LET same == {j \in 1..i : Tok(s[j]) = Tok(s[i])}
             IN /\ elems[s[i]].count = Cardinality(same)
                /\ elems[s[i]].local = Cardinality({j \in same : Up(s[j]) = Up(s[i])})
  <2> DEFINE same == {j \in 1..i : Tok(s[j]) = Tok(s[i])}
             x == s[i]
             near == {j \in same : Up(s[j]) = Up(x)}
             f == [j \in same |-> s[j]]
             g == [j \in near |-> s[j]]
             locals == {y \in SameTok(x) : Up(y) = Up(x)}
  <2>1. \A j \in 1..i : j \in 1..Len(s) /\ j <= i
    BY <1>3, <1>6
  <2>2. IsFiniteSet(same) /\ IsFiniteSet(near)
    <3>1. IsFiniteSet(1..i)
      BY <1>6, FS_Interval
    <3>2. same \subseteq 1..i /\ near \subseteq 1..i
      OBVIOUS
    <3> QED
      BY <3>1, <3>2, FS_Subset
  <2>3. \A j \in same : s[j] \in SameTok(x)
    <3> SUFFICES ASSUME NEW j \in same PROVE s[j] <= x
      BY <1>6, <2>1 DEF SameTok
    <3>1. j \in 1..Len(s) /\ j <= i /\ Tok(s[j]) = Tok(s[i]) /\ Tok(s[j]) # 0
      BY <1>7, <2>1
    <3>2. ~(s[i] < s[j])
      BY <1>4, <1>6, <1>7, <3>1
    <3> QED
      BY <1>6, <3>1, <3>2
  <2>4. \A y \in SameTok(x) : \E j \in same : s[j] = y
    <3> SUFFICES ASSUME NEW y \in SameTok(x) PROVE \E j \in same : s[j] = y
      OBVIOUS
    <3>1. y \in Ids /\ Tok(y) = Tok(s[i]) /\ y <= s[i]
      BY DEF SameTok
    <3>2. y # 1
      BY <1>5, <1>7, <3>1 DEF RootWithoutToken
    <3>3. PICK j \in 1..Len(s) : s[j] = y
      BY <1>3, <3>1, <3>2
    <3>4. j <= i
      <4>1. CASE y = s[i]
        BY <1>3, <1>6, <3>3, <4>1
      <4>2. CASE y # s[i]
        <5>1. s[j] < s[i]
          BY <1>6, <3>1, <3>3, <4>2
        <5>2. j < i
          BY <1>4, <1>7, <3>1, <3>3, <5>1
        <5> QED
          BY <1>6, <5>2
      <4> QED
        BY <4>1, <4>2
    <3>5. j \in 1..i
      BY <1>6, <3>4
    <3> QED
      BY <3>1, <3>3, <3>5
  <2>5. \A j, k \in same : s[j] = s[k] => j = k
    BY <1>3, <2>1
  <2>6. Cardinality(SameTok(x)) = Cardinality(same)
    <3>1. f \in [same -> SameTok(x)] /\ \A j \in same : f[j] = s[j]
      BY <2>3
    <3> HIDE DEF f, same, x
    <3> QED
      BY <2>2, <2>4, <2>5, <3>1, SameSize
  <2>7. Cardinality(locals) = Cardinality(near)
    <3>1. g \in [near -> locals] /\ \A j \in near : g[j] = s[j]
      BY <2>3
    <3>2. \A y \in locals : \E j \in near : s[j] = y
      BY <2>4
    <3>3. \A j, k \in near : s[j] = s[k] => j = k
      BY <2>5
    <3> HIDE DEF g, near, locals
    <3> QED
      BY <2>2, <3>1, <3>2, <3>3, SameSize
  <2>8. elems[x].count = Cardinality(SameTok(x)) /\ elems[x].local = Cardinality(locals)
    BY <1>6, <1>7 DEF NumberedSoFar
  <2> QED
    BY <2>6, <2>7, <2>8, Zenon
<1> QED
  BY <1>2, <1>7, Zenon DEF OutputNumbered, Tok, Up

-----------------------------------------------------------------------------
(* Every element but the root has tags.                                    *)

LEMMA LinesStay ==
  ASSUME elems' = elems, around' = around, expandDivs' = expandDivs, NEW f, LinesOfAll(f)
  PROVE  LinesOfAll(f)'
<1>1. \A e : IsBlock(e)' <=> IsBlock(e)
  BY Zenon DEF IsBlock, Root
<1>2. \A e, body : BlockLines(e, body)' = BlockLines(e, body)
  BY Zenon DEF BlockLines, Root, Around, HasTags, Line
<1>3. \A e : LeafLines(e)' = LeafLines(e)
  BY Zenon DEF LeafLines, HasTags, Line
<1>4. \A e : Parts(f, e)' = Parts(f, e)
  BY Zenon DEF Parts
<1>5. \A e : Body(f, e)' = Body(f, e)
  BY <1>1, <1>2, <1>3, <1>4 DEF Body
<1>6. Ids' = Ids
  BY DEF Ids
<1> QED
  BY <1>5, <1>6 DEF LinesOfAll

LEMMA RenderedKept == IInv /\ RenderedInv /\ [Next]_vars => RenderedInv'
<1> SUFFICES ASSUME IInv, RenderedInv, [Next]_vars, phase' = "done"
             PROVE  \E f : LinesOfAll(f)' /\ out' = f[Root]
  BY Zenon DEF RenderedInv, Root
<1>1. /\ Render \/ (phase = "done" /\ out' = out)
      /\ elems' = elems /\ around' = around /\ expandDivs' = expandDivs
  BY DEF Next, Tokenize, Parse, Render, StripPrefix, PrefixDone, StripSuffix, SuffixDone, SplitSeparator,
         SplitElement, SplitDone, AtToken, BeginElement, AddElement, NextCaret, EndElement, Child, Parent,
         ParentFails, Sibling, vars, tokenVars, treeVars
<1>2. PICK f : LinesOfAll(f) /\ out' = f[Root]
  <2>1. CASE Render
    BY <2>1, RenderedIs DEF Render
  <2>2. CASE phase = "done" /\ out' = out
    BY <2>2, Zenon DEF RenderedInv
  <2> QED
    BY <1>1, <2>1, <2>2
<1> QED
  BY <1>1, <1>2, LinesStay, Zenon

LEMMA EntriesTagged ==
  /\ \A page : Tagged(Markup(page))
  /\ \A attrs : Tagged(Named("input", attrs)) /\ Tagged(Named("script", attrs)) /\ Tagged(Named("link", attrs))
                /\ Tagged(Named("meta", attrs)) /\ Tagged(Named("form", attrs))
  /\ \A text : Tagged(Inline("script", text))
<1>1. \A page : Tagged(Markup(page))
  BY Zenon DEF Markup, Tagged
<1>2. \A name, attrs, text : name # "" => Tagged(Named(name, attrs)) /\ Tagged(Inline(name, text))
  BY Zenon DEF Named, Inline, Tagged
<1>3. \A name \in {"input", "script", "link", "meta", "form"} : name # ""
  BY Zenon
<1> QED
  BY <1>1, <1>2, <1>3, Zenon

LEMMA RowsTagged == \A row \in ShortcutTable : Tagged(row[2])
<1>1. \A class, type : Tagged(InputField(class, type))
  BY EntriesTagged, Zenon DEF InputField
<1>2. \A content : Tagged(Meta(content))
  BY EntriesTagged, Zenon DEF Meta
<1>3. \A method : Tagged(Form(method))
  BY EntriesTagged, Zenon DEF Form
<1>4. \A a, b : Tagged(b) => Tagged(<<a, b>>[2])
  OBVIOUS
<1> QED
  BY <1>1, <1>2, <1>3, <1>4, EntriesTagged, ZenonT(60) DEF ShortcutTable

LEMMA ShortcutsTagged == \A name \in DOMAIN Shortcuts : Tagged(Shortcuts[name])
<1> SUFFICES ASSUME NEW name \in DOMAIN Shortcuts PROVE Tagged(Shortcuts[name])
  OBVIOUS
<1> DEFINE row == CHOOSE row \in ShortcutTable : name \in row[1]
<1>1. \E r \in ShortcutTable : name \in r[1]
  BY Zenon DEF Shortcuts
<1>2. row \in ShortcutTable
  BY <1>1, Zenon
<1>3. Shortcuts[name] = row[2]
  BY Zenon DEF Shortcuts
<1> QED
  BY <1>2, <1>3, RowsTagged, Zenon

LEMMA ElementTagged == \A w, plus : Tagged(ElementToken(w, plus))
<1> SUFFICES ASSUME NEW w, NEW plus PROVE Tagged(ElementToken(w, plus))
  OBVIOUS
<1> DEFINE name == Synonym(CoreOf(w).name)
           token == ElementToken(w, plus)
<1>1. CASE name \in DOMAIN Shortcuts /\ Shortcuts[name].page
  <2>1. token = PageToken(w)
    BY <1>1, Zenon DEF ElementToken
  <2>2. PageToken(w).tags
    BY Zenon DEF PageToken, Separator
  <2> QED
    BY <2>1, <2>2, Zenon DEF Tagged
<1>2. CASE name \in DOMAIN Shortcuts /\ ~Shortcuts[name].page
  <2>1. token.name = Shortcuts[name].name
    BY <1>2 DEF ElementToken
  <2>2. token.tags <=> Shortcuts[name].tags
    BY <1>2, Zenon DEF ElementToken
  <2> QED
    BY <1>2, <2>1, <2>2, ShortcutsTagged, Zenon DEF Tagged
<1>3. CASE name \notin DOMAIN Shortcuts
  <2>1. token.name = TagName(name)
    BY <1>3 DEF ElementToken
  <2>2. TagName(name) # ""
    BY Zenon DEF TagName
  <2> QED
    BY <2>1, <2>2, Zenon DEF Tagged
<1> QED
  BY <1>1, <1>2, <1>3

LEMMA NewTokenTagged ==
  ASSUME IInv, TagsInv, SplitSeparator \/ SplitElement
  PROVE  \A t \in ElementTokens' : Tagged(tokens'[t])
<1> DEFINE Fine(token) == token.type = "element" => Tagged(token)
<1>1. PICK token : Fine(token) /\ tokens' = Append(tokens, token)
  <2>1. CASE SplitSeparator
    <3>1. PICK type \in {"child", "parent", "sibling"} : tokens' = Append(tokens, Separator(type))
      BY <2>1 DEF SplitSeparator
    <3>2. Separator(type).type # "element"
      BY <3>1 DEF Separator
    <3> QED
      BY <3>1, <3>2, Zenon
  <2>2. CASE SplitElement
    <3>1. PICK w, plus : tokens' = Append(tokens, ElementToken(w, plus))
      BY <2>2, Zenon DEF SplitElement
    <3> QED
      BY <3>1, ElementTagged, Zenon
  <2> QED
    BY <2>1, <2>2
<1> HIDE DEF Fine
<1>2. PICK S : tokens \in Seq(S)
  BY DEF IInv, TokensOK
<1>3. tokens \in Seq(S \cup {token}) /\ token \in S \cup {token}
  BY <1>2
<1>4. /\ Len(tokens') = Len(tokens) + 1 /\ Len(tokens) \in Nat
      /\ tokens'[Len(tokens) + 1] = token
      /\ \A i \in 1..Len(tokens) : tokens'[i] = tokens[i]
  BY <1>1, <1>3
<1>5. ASSUME NEW t \in 1..Len(tokens'), tokens'[t].type = "element" PROVE Tagged(tokens'[t])
  <2>1. CASE t \in 1..Len(tokens)
    <3>1. tokens'[t] = tokens[t]
      BY <1>4, <2>1
    <3>2. tokens[t].type = "element"
      BY <1>5, <3>1, Zenon
    <3>3. Tagged(tokens[t])
      BY <2>1, <3>2, Zenon DEF TagsInv, ElementTokens
    <3> QED
      BY <3>1, <3>3, Zenon
  <2>2. CASE t = Len(tokens) + 1
    BY <1>1, <1>4, <1>5, <2>2, Zenon DEF Fine
  <2> QED
    BY <1>4, <2>1, <2>2
<1> QED
  BY <1>5 DEF ElementTokens

\* The root: it has neither a name nor tags, and no token has made it.
RootPlain == elems[Root].name = "" /\ ~elems[Root].tags /\ elems[Root].tok = 0

LEMMA RootElementPlain ==
  RootElement.name = "" /\ ~RootElement.tags /\ RootElement.tok = 0 /\ RootElement.depth = -1
<1>1. RootElement.name = "" /\ RootElement.tok = 0 /\ RootElement.depth = -1
  BY DEF RootElement
<1>2. ~RootElement.tags
  BY Zenon DEF RootElement
<1> QED
  BY <1>1, <1>2

LEMMA RootAlone ==
  ASSUME NEW h, h = <<RootElement>>
  PROVE  /\ 1..Len(h) = {1} /\ h[1].name = "" /\ ~h[1].tags /\ h[1].tok = 0 /\ h[1].depth = -1
<1>1. 1..Len(h) = {1} /\ h[1] = RootElement
  BY RootOnly
<1> QED
  BY <1>1, RootElementPlain, Zenon

\* The root of a page with a prefix or a suffix is one level deeper.
LEMMA SplitDoneTags ==
  ASSUME IInv, SplitDone
  PROVE  /\ Ids' = {1} /\ RootPlain'
         /\ elems'[Root].depth = IF around = {} THEN -1 ELSE 0
<1>1. phase = "split"
  BY DEF SplitDone
<1>2. /\ elems = <<RootElement>> /\ Root = 1
      /\ elems' = IF around = {} THEN elems ELSE [elems EXCEPT ![1].depth = @ + 1]
  BY <1>1 DEF SplitDone, IInv, NothingYet, Root
<1>3. /\ 1..Len(elems) = {1} /\ elems[1].name = "" /\ ~elems[1].tags /\ elems[1].tok = 0 /\ elems[1].depth = -1
  BY <1>2, RootAlone
<1>4. IsElement(elems[1]) /\ \E S : elems \in Seq(S)
  BY <1>3 DEF IInv, HeapOK, Ids
<1>5. CASE around = {}
  BY <1>2, <1>3, <1>5, Zenon DEF Ids, RootPlain
<1>6. CASE around # {}
  <2> DEFINE r == elems[1]
             d == elems[1].depth + 1
             x == [r EXCEPT !.depth = d]
  <2>0. elems' = [elems EXCEPT ![1].depth = @ + 1]
    BY <1>2, <1>6
  <2>1. elems' = [elems EXCEPT ![1] = x] /\ IsElement(r) /\ d = 0
    <3>1. elems' = [elems EXCEPT ![1] = x]
      BY <2>0
    <3>2. d = 0
      <4>1. elems[1].depth = -1
        BY <1>3
      <4> QED
        BY <4>1
    <3> QED
      BY <1>4, <3>1, <3>2
  <2>2. Len(elems') = Len(elems) /\ elems'[1] = x
    <3> HIDE DEF x
    <3>1. PICK S : elems \in Seq(S)
      BY <1>4
    <3>2. elems \in Seq(S \cup {x})
      BY <3>1
    <3>3. 1 \in 1..Len(elems)
      BY <1>3, Zenon
    <3> QED
      BY <2>1, <3>2, <3>3
  <2> HIDE DEF d
  <2>3. x.name = r.name /\ x.tok = r.tok /\ x.depth = d /\ (x.tags = r.tags)
    <3> HIDE DEF r
    <3> QED
      BY <2>1 DEF IsElement
  <2> HIDE DEF x
  <2> QED
    BY <1>2, <1>3, <1>6, <2>1, <2>2, <2>3, Zenon DEF Ids, RootPlain
<1> QED
  BY <1>5, <1>6

LEMMA NewElementTagged ==
  ASSUME IInv, TagsInv, AddElement
  PROVE  LET n == Len(elems) + 1
         IN /\ elems'[n] = NewElement(tokens[pos], caret[ci], n, count + 1, local + 1)
            /\ Tagged(elems'[n])
<1> DEFINE n == Len(elems) + 1
           x == NewElement(tokens[pos], caret[ci], n, count + 1, local + 1)
<1>1. caret[ci] \in Ids
  BY AddElementGrows
<1>2. WithElement(tokens[pos], caret[ci], count + 1, local + 1)[n] = x
  BY <1>1, ItemsGrow DEF IInv
<1>3. elems' = WithElement(tokens[pos], caret[ci], count + 1, local + 1)
  BY DEF AddElement
<1>4. elems'[n] = x
  BY <1>2, <1>3, Zenon
<1>5. x.name = tokens[pos].name /\ x.tags = tokens[pos].tags
  BY NewElementFields
<1>6. Tagged(tokens[pos])
  <2>1. pos \in ElementTokens
    BY DEF AddElement, IInv, AtElement, TypeOK, ElementTokens
  <2> QED
    BY <2>1, Zenon DEF TagsInv
<1> HIDE DEF x
<1>7. Tagged(x)
  BY <1>5, <1>6, Zenon DEF Tagged
<1> QED
  BY <1>4, <1>7, Zenon DEF x

LEMMA AddElementTags ==
  ASSUME IInv, TagsInv, RootPlain, AddElement
  PROVE  /\ RootPlain' /\ elems'[Root].depth = elems[Root].depth
         /\ \A e \in Ids' \ {Root} : Tagged(elems'[e])
<1> DEFINE n == Len(elems) + 1
<1>1. caret[ci] \in Ids /\ Grown(elems', caret[ci])
  BY AddElementGrows
<1>2. /\ Len(elems) \in Nat /\ Len(elems') \in Nat /\ Len(elems') > Len(elems)
      /\ \A e \in Ids : KeptElement(e)
  BY <1>1, TreeGrows DEF IInv, HeapOK
<1>3. 1 \in Ids /\ Root = 1
  BY TreeFacts
<1>4. KeptElement(Root)
  BY <1>2, <1>3
<1>5. RootPlain' /\ elems'[Root].depth = elems[Root].depth
  BY <1>4, Zenon DEF KeptElement, RootPlain, Root
<1>6. ASSUME NEW e \in Ids' \ {Root} PROVE Tagged(elems'[e])
  <2>1. CASE e \in Ids
    <3>1. KeptElement(e) /\ Tagged(elems[e])
      BY <1>2, <1>6, <2>1, Zenon DEF TagsInv
    <3> QED
      BY <3>1, Zenon DEF KeptElement, Tagged
  <2>2. CASE e = n
    BY <2>2, NewElementTagged, Zenon
  <2>3. CASE e \in n + 1..Len(elems')
    BY <1>1, <2>3, Zenon DEF Grown, NoToken, Tagged
  <2>4. e \in Ids \/ e = n \/ e \in n + 1..Len(elems')
    BY <1>2 DEF Ids
  <2> QED
    BY <2>1, <2>2, <2>3, <2>4
<1> QED
  BY <1>5, <1>6

LEMMA TagsKept == IInv /\ TagsInv /\ RootPlain /\ [Next]_vars => TagsInv' /\ RootPlain'
<1> SUFFICES ASSUME IInv, TagsInv, RootPlain, [Next]_vars PROVE TagsInv' /\ RootPlain'
  OBVIOUS
<1> DEFINE early == phase \in {"prefix", "suffix", "split"}
           Elements == /\ RootPlain' /\ \A e \in Ids' \ {Root} : Tagged(elems'[e])
                       /\ phase' \notin {"prefix", "suffix", "split"} =>
                            elems'[Root].depth = IF around' = {} THEN -1 ELSE 0
<1>1. SUFFICES (\A t \in ElementTokens' : Tagged(tokens'[t])) /\ Elements
  BY Zenon DEF TagsInv, RootPlain, Root
<1>2. CASE StripPrefix \/ PrefixDone \/ StripSuffix \/ SuffixDone \/ SplitSeparator \/ SplitElement
  <2>1. phase' \in {"prefix", "suffix", "split"} /\ elems' = elems
    BY <1>2 DEF StripPrefix, PrefixDone, StripSuffix, SuffixDone, SplitSeparator, SplitElement, treeVars
  <2>2. Ids' = Ids
    BY <2>1 DEF Ids
  <2>3. Elements
    BY <2>1, <2>2, Zenon DEF TagsInv, RootPlain, Root
  <2>4. CASE SplitSeparator \/ SplitElement
    BY <2>3, <2>4, NewTokenTagged
  <2>5. CASE StripPrefix \/ PrefixDone \/ StripSuffix \/ SuffixDone
    <3>1. tokens' = tokens
      BY <2>5 DEF StripPrefix, PrefixDone, StripSuffix, SuffixDone, tokenVars
    <3>2. \A t \in ElementTokens' : Tagged(tokens'[t])
      BY <3>1, Zenon DEF TagsInv, ElementTokens
    <3> QED
      BY <2>3, <3>2
  <2> QED
    BY <1>2, <2>4, <2>5
<1>3. CASE SplitDone \/ AddElement
  <2>1. tokens' = tokens /\ around' = around
    BY <1>3 DEF SplitDone, AddElement, tokenVars
  <2>2. \A t \in ElementTokens' : Tagged(tokens'[t])
    BY <2>1, Zenon DEF TagsInv, ElementTokens
  <2>3. CASE SplitDone
    <3>1. Root = 1
      BY DEF Root
    <3> QED
      BY <2>1, <2>2, <2>3, <3>1, SplitDoneTags
  <2>4. CASE AddElement
    <3>1. phase = "element"
      BY <2>4 DEF AddElement
    <3>2. elems[Root].depth = IF around = {} THEN -1 ELSE 0
      BY <3>1 DEF TagsInv
    <3> QED
      BY <2>1, <2>2, <2>4, <3>2, AddElementTags
  <2> QED
    BY <1>3, <2>3, <2>4
<1>4. CASE BeginElement \/ NextCaret \/ EndElement \/ Child \/ Parent \/ ParentFails \/ Sibling \/ Render
           \/ UNCHANGED vars
  <2>1. /\ tokens' = tokens /\ around' = around /\ elems' = elems
        /\ phase' \notin {"prefix", "suffix", "split"} => phase \notin {"prefix", "suffix", "split"}
    BY <1>4 DEF BeginElement, NextCaret, EndElement, Child, Parent, ParentFails, Sibling, Render, AtToken,
                vars, tokenVars, treeVars
  <2>2. \A t \in ElementTokens' : Tagged(tokens'[t])
    BY <2>1, Zenon DEF TagsInv, ElementTokens
  <2>3. Ids' = Ids
    BY <2>1 DEF Ids
  <2>4. Elements
    BY <2>1, <2>3, Zenon DEF TagsInv, RootPlain, Root
  <2> QED
    BY <2>2, <2>4
<1> QED
  BY <1>2, <1>3, <1>4 DEF Next, Tokenize, Parse

PageInv == TagsInv /\ RootPlain /\ RenderedInv

LEMMA PageInvHolds == Spec => []PageInv
<1>1. Init => PageInv
  <2> SUFFICES ASSUME Init PROVE PageInv
    OBVIOUS
  <2>1. /\ tokens = <<>> /\ Len(tokens) = 0 /\ 1..0 = {} /\ elems = <<RootElement>> /\ phase = "prefix" /\ Root = 1
    BY DEF Init, Root
  <2>2. /\ 1..Len(elems) = {1} /\ elems[1].name = "" /\ ~elems[1].tags /\ elems[1].tok = 0
    BY <2>1, RootAlone
  <2>3. RootPlain
    BY <2>1, <2>2, Zenon DEF RootPlain
  <2>4. ElementTokens = {}
    BY <2>1 DEF ElementTokens
  <2>5. Ids \ {Root} = {}
    BY <2>1, <2>2 DEF Ids
  <2>6. TagsInv
    BY <2>1, <2>3, <2>4, <2>5, Zenon DEF TagsInv, RootPlain
  <2> QED
    BY <2>1, <2>3, <2>6 DEF PageInv, RenderedInv
<1>2. IInv /\ PageInv /\ [Next]_vars => PageInv'
  BY TagsKept, RenderedKept DEF PageInv
<1> QED
  BY <1>1, <1>2, IInvInvariant, PTL DEF Spec

\* The page is balanced and indented by its nesting, and reading it back gives the tree of
\* the parser: every element once, inside of its parent, brothers in order.
THEOREM ThePageReadsBack == Spec => []PageReadsBack
<1>1. IInv /\ PageInv => PageReadsBack
  BY ReadsBack DEF PageInv
<1> QED
  BY <1>1, PageInvHolds, IInvInvariant, PTL

-----------------------------------------------------------------------------
(* The numbers & and $ of the elements.                                    *)

\* If these are several elements one token has made them.
OneToken(s) == \A i, j \in 1..Len(s) : s[i] # s[j] => Tok(s[i]) = Tok(s[j]) /\ Tok(s[i]) # 0

ChildrenMade(p) == {x \in Created(pos) : Up(x) = p}

\* The token at work: how many elements there are of it, under the carets so far and
\* under the one that gets elements now.
AtWork ==
  phase = "element" =>
    /\ \A i \in 1..Len(last) : Tok(last[i]) = pos
    /\ count = Cardinality(Created(pos))
    /\ \A x \in Created(pos) : \E j \in 1..Len(caret) : j <= ci /\ Up(x) = caret[j]
    /\ ci <= Len(caret) => local = Cardinality(ChildrenMade(caret[ci]))

NumbersInv == NumberedSoFar /\ TokensInOrder /\ OneToken(caret) /\ OneToken(last) /\ AtWork

\* As long as there is the root only.
LEMMA NoNumbers ==
  ASSUME Ids' = {1}, Tok(1)' = 0, phase' # "element", caret' = <<Root>>, last' = <<>>
  PROVE  NumbersInv'
<1>1. \A x \in Ids' : Tok(x)' = 0
  BY DEF Tok
<1>2. NumberedSoFar' /\ TokensInOrder'
  BY <1>1 DEF NumberedSoFar, TokensInOrder
<1>3. OneToken(caret)'
  <2>1. Len(caret') = 1 /\ \A i \in 1..Len(caret') : caret'[i] = 1
    BY OneCaret DEF Root
  <2> QED
    BY <2>1 DEF OneToken
<1>4. OneToken(last)'
  <2>1. 1..Len(last') = {}
    OBVIOUS
  <2> QED
    BY <2>1 DEF OneToken
<1> QED
  BY <1>2, <1>3, <1>4 DEF NumbersInv, AtWork

LEMMA EarlyNumbers ==
  ASSUME IInv, StripPrefix \/ PrefixDone \/ StripSuffix \/ SuffixDone \/ SplitSeparator \/ SplitElement \/ SplitDone
  PROVE  NumbersInv'
<1>1. /\ phase \in {"prefix", "suffix", "split"} /\ phase' # "element" /\ caret' = caret /\ last' = last
  BY DEF StripPrefix, PrefixDone, StripSuffix, SuffixDone, SplitSeparator, SplitElement, SplitDone, treeVars
<1>2. elems = <<RootElement>> /\ caret = <<1>> /\ last = <<>>
  BY <1>1 DEF IInv, NothingYet, Root
<1>3. Ids' = {1} /\ Tok(1)' = 0
  <2>1. CASE SplitDone
    BY <2>1, SplitDoneTags DEF RootPlain, Tok, Root
  <2>2. CASE ~SplitDone
    <3>1. elems' = <<RootElement>>
      BY <1>2, <2>2 DEF StripPrefix, PrefixDone, StripSuffix, SuffixDone, SplitSeparator, SplitElement, treeVars
    <3>2. 1..Len(elems') = {1} /\ elems'[1].tok = 0
      BY <3>1, RootAlone
    <3> QED
      BY <3>2 DEF Ids, Tok
  <2> QED
    BY <2>1, <2>2
<1> QED
  BY <1>1, <1>2, <1>3, NoNumbers DEF Root

\* What the steps that add no element leave.
LEMMA NumbersStay ==
  ASSUME elems' = elems
  PROVE  /\ Ids' = Ids /\ (NumberedSoFar => NumberedSoFar') /\ (TokensInOrder => TokensInOrder')
         /\ \A x : Tok(x)' = Tok(x) /\ Up(x)' = Up(x)
         /\ \A t : Created(t)' = Created(t)
         /\ \A s : OneToken(s)' <=> OneToken(s)
<1>1. Ids' = Ids /\ \A x : Tok(x)' = Tok(x) /\ Up(x)' = Up(x) /\ Depth(x)' = Depth(x)
  BY Zenon DEF Ids, Tok, Up, Depth
<1>2. NumberedSoFar => NumberedSoFar'
  BY Zenon DEF NumberedSoFar, SameTok, Tok, Up, Ids
<1>3. TokensInOrder => TokensInOrder'
  BY Zenon DEF TokensInOrder, Tok, Up, Depth, Ids
<1>4. \A t : Created(t)' = Created(t)
  BY Zenon DEF Created, Ids
<1>5. \A s : OneToken(s)' <=> OneToken(s)
  BY Zenon DEF OneToken, Tok
<1> QED
  BY <1>1, <1>2, <1>3, <1>4, <1>5

LEMMA BeginElementNumbers == IInv /\ SizesInv /\ NumbersInv /\ BeginElement => NumbersInv'
<1> SUFFICES ASSUME IInv, SizesInv, NumbersInv, BeginElement PROVE NumbersInv'
  OBVIOUS
<1>1. /\ phase = "parse" /\ last' = <<>> /\ ci' = 1 /\ count' = 0 /\ local' = 0
      /\ pos' = pos /\ elems' = elems /\ caret' = caret
  BY DEF BeginElement, AtToken
<1>2. /\ NumberedSoFar' /\ TokensInOrder' /\ Ids' = Ids
      /\ \A t : Created(t)' = Created(t)
      /\ \A s : OneToken(s)' <=> OneToken(s)
  BY <1>1, NumbersStay DEF NumbersInv
<1>3. OneToken(caret)'
  BY <1>1, <1>2, Zenon DEF NumbersInv, OneToken, Tok
<1>4. 1..Len(last') = {}
  BY <1>1
<1>5. Created(pos)' = {}
  <2>1. \A e \in Ids : elems[e].tok \in Nat /\ elems[e].tok < pos
    BY <1>1 DEF SizesInv, CreatedSoFar
  <2>2. pos \in Nat
    BY DEF IInv, TypeOK
  <2> QED
    BY <1>1, <2>1, <2>2 DEF Created, Ids
<1>6. OneToken(last)'
  BY <1>4 DEF OneToken
<1>7. AtWork'
  <2>1. \A p : ChildrenMade(p)' = {}
    BY <1>5 DEF ChildrenMade
  <2>2. Cardinality({}) = 0
    BY FS_EmptySet
  <2>3. count' = Cardinality(Created(pos)') /\ \A p : local' = Cardinality(ChildrenMade(p)')
    BY <1>1, <1>5, <2>1, <2>2
  <2> QED
    BY <1>4, <1>5, <2>3 DEF AtWork
<1> QED
  BY <1>2, <1>3, <1>6, <1>7 DEF NumbersInv

LEMMA NextCaretNumbers == IInv /\ SizesInv /\ NumbersInv /\ NextCaret => NumbersInv'
<1> SUFFICES ASSUME IInv, SizesInv, NumbersInv, NextCaret PROVE NumbersInv'
  OBVIOUS
<1>1. /\ phase = "element" /\ ci <= Len(caret) /\ ci' = ci + 1 /\ local' = 0
      /\ count' = count /\ pos' = pos /\ elems' = elems /\ caret' = caret /\ last' = last
  BY DEF NextCaret, treeVars
<1>2. /\ NumberedSoFar' /\ TokensInOrder' /\ Ids' = Ids
      /\ \A x : Tok(x)' = Tok(x) /\ Up(x)' = Up(x)
      /\ \A t : Created(t)' = Created(t)
  BY <1>1, NumbersStay DEF NumbersInv
<1>3. OneToken(caret)' /\ OneToken(last)'
  BY <1>1, Zenon DEF NumbersInv, OneToken, Tok
<1>4. /\ \A i \in 1..Len(last) : Tok(last[i]) = pos
      /\ count = Cardinality(Created(pos))
      /\ \A x \in Created(pos) : \E j \in 1..Len(caret) : j <= ci /\ Up(x) = caret[j]
  BY <1>1 DEF NumbersInv, AtWork
<1>5. /\ ci \in Nat /\ ci >= 1 /\ Len(caret) \in Nat /\ \A j \in 1..Len(caret) : caret[j] \in Nat
      /\ \A i, j \in 1..Len(caret) : i < j => caret[i] < caret[j]
  BY DEF IInv, TypeOK, ListsOK, CaretsLevel, Increasing
<1>6. Created(pos)' = Created(pos)
  BY <1>1, Zenon DEF Created, Ids
<1>7. ci' <= Len(caret) => local' = Cardinality({x \in Created(pos)' : Up(x)' = caret'[ci']})
  <2> SUFFICES ASSUME ci' <= Len(caret) PROVE {x \in Created(pos)' : Up(x)' = caret'[ci']} = {}
    BY <1>1, FS_EmptySet
  <2>1. \A x \in Created(pos) : Up(x) # caret[ci + 1]
    <3> SUFFICES ASSUME NEW x \in Created(pos) PROVE Up(x) # caret[ci + 1]
      OBVIOUS
    <3>1. PICK j \in 1..Len(caret) : j <= ci /\ Up(x) = caret[j]
      BY <1>4
    <3>2. ci + 1 \in 1..Len(caret) /\ j < ci + 1
      BY <1>1, <1>5, <3>1
    <3>3. caret[j] < caret[ci + 1] /\ caret[j] \in Nat /\ caret[ci + 1] \in Nat
      BY <1>5, <3>2
    <3> QED
      BY <3>1, <3>3
  <2>2. caret'[ci'] = caret[ci + 1]
    BY <1>1
  <2> QED
    BY <1>2, <1>6, <2>1, <2>2
<1>8. AtWork'
  <2>1. \A x \in Created(pos) : \E j \in 1..Len(caret) : j <= ci' /\ Up(x) = caret[j]
    BY <1>1, <1>4, <1>5
  <2>2. caret' = caret
    BY <1>1
  <2> QED
    BY <1>1, <1>2, <1>4, <1>6, <1>7, <2>1 DEF AtWork, ChildrenMade
<1> QED
  BY <1>2, <1>3, <1>8 DEF NumbersInv

\* The steps outside of the loop over the carets.
LEMMA ListNumbers ==
  ASSUME IInv, NumbersInv, elems' = elems, last' = last, phase' # "element",
         caret' = caret \/ caret' = last \/ \E p \in Nat : caret' = <<p>>
  PROVE  NumbersInv'
<1>1. NumberedSoFar' /\ TokensInOrder' /\ OneToken(last)'
  BY NumbersStay, Zenon DEF NumbersInv, OneToken, Tok
<1>2. OneToken(caret)'
  <2>1. CASE caret' = caret
    BY <2>1, Zenon DEF NumbersInv, OneToken, Tok
  <2>2. CASE caret' = last
    BY <2>2, Zenon DEF NumbersInv, OneToken, Tok
  <2>3. CASE \E p \in Nat : caret' = <<p>>
    <3>1. PICK p \in Nat : caret' = <<p>>
      BY <2>3
    <3>2. \A i \in 1..Len(caret') : caret'[i] = p
      BY <3>1, OneCaret
    <3> QED
      BY <3>2 DEF OneToken
  <2> QED
    BY <2>1, <2>2, <2>3
<1> QED
  BY <1>1, <1>2 DEF NumbersInv, AtWork

LEMMA ListStepNumbers ==
  ASSUME IInv, NumbersInv, EndElement \/ Child \/ Parent \/ ParentFails \/ Sibling \/ Render
  PROVE  NumbersInv'
<1>1. elems' = elems /\ last' = last /\ phase' # "element"
  BY DEF EndElement, Child, Parent, ParentFails, Sibling, Render, AtToken, treeVars
<1>2. caret' = caret \/ caret' = last \/ \E p \in Nat : caret' = <<p>>
  <2>1. CASE Parent
    <3> DEFINE p == elems[caret[1]].parent
    <3>1. caret # <<>> /\ caret' = IF p = 0 THEN caret ELSE <<p>>
      BY <2>1 DEF Parent
    <3>2. caret[1] \in Ids
      <4>1. Len(caret) >= 1 /\ Len(caret) \in Nat
        BY <3>1 DEF IInv, ListsOK
      <4> QED
        BY <4>1 DEF IInv, TypeOK
    <3>3. p \in Nat
      <4>1. Up(caret[1]) \in Nat
        BY <3>2, TreeFacts
      <4> QED
        BY <4>1 DEF Up
    <3> QED
      BY <3>1, <3>3
  <2>2. CASE EndElement \/ Child \/ ParentFails \/ Sibling \/ Render
    BY <2>2 DEF EndElement, Child, ParentFails, Sibling, Render, treeVars
  <2> QED
    BY <2>1, <2>2
<1> QED
  BY <1>1, <1>2, ListNumbers

LEMMA StutterNumbers == NumbersInv /\ UNCHANGED vars => NumbersInv'
<1> SUFFICES ASSUME NumbersInv, UNCHANGED vars PROVE NumbersInv'
  OBVIOUS
<1>1. /\ elems' = elems /\ caret' = caret /\ last' = last /\ phase' = phase /\ pos' = pos /\ ci' = ci
      /\ count' = count /\ local' = local
  BY DEF vars, treeVars, loopVars
<1>2. NumberedSoFar' /\ TokensInOrder' /\ OneToken(last)' /\ OneToken(caret)'
  BY <1>1, NumbersStay, Zenon DEF NumbersInv, OneToken, Tok
<1>3. AtWork'
  BY <1>1, Zenon DEF NumbersInv, AtWork, ChildrenMade, Created, Ids, Tok, Up
<1> QED
  BY <1>2, <1>3 DEF NumbersInv

\* The new element, the ones that were there, and the default items, which no token made.
LEMMA AddedNumbers ==
  ASSUME IInv, TagsInv, AddElement
  PROVE  \E n, parent :
            /\ n = Len(elems) + 1 /\ parent = caret[ci]
            /\ Len(elems) \in Nat /\ Ids \subseteq Ids' /\ n \in Ids' /\ n \notin Ids /\ Ids' \subseteq Nat
            /\ \A e \in Ids : e < n
            /\ \A e \in Ids : /\ Tok(e)' = Tok(e) /\ Up(e)' = Up(e) /\ Depth(e)' = Depth(e)
                              /\ elems'[e].count = elems[e].count /\ elems'[e].local = elems[e].local
            /\ Tok(n)' = pos /\ Up(n)' = parent /\ Depth(n)' = Depth(parent) + 1
            /\ elems'[n].count = count + 1 /\ elems'[n].local = local + 1
            /\ \A e \in Ids' \ Ids : e # n => Tok(e)' = 0 /\ e > n
<1>0. PICK n, parent : n = Len(elems) + 1 /\ parent = caret[ci]
  OBVIOUS
<1>1. caret[ci] \in Ids /\ Grown(elems', parent)
  BY <1>0, AddElementGrows
<1>2. /\ Len(elems) \in Nat /\ Len(elems') \in Nat /\ Len(elems') > Len(elems)
      /\ \A e \in Ids : KeptElement(e)
  BY <1>0, <1>1, TreeGrows DEF IInv, HeapOK
<1>3. \A e \in Ids : /\ Tok(e)' = Tok(e) /\ Up(e)' = Up(e) /\ Depth(e)' = Depth(e)
                     /\ elems'[e].count = elems[e].count /\ elems'[e].local = elems[e].local
  BY <1>2, Zenon DEF KeptElement, Tok, Up, Depth
<1>4. /\ elems'[n].tok = pos /\ elems'[n].count = count + 1 /\ elems'[n].local = local + 1
  <2> DEFINE c == count + 1
             l == local + 1
             x == NewElement(tokens[pos], parent, n, c, l)
  <2>1. x.tok = pos /\ x.count = c /\ x.local = l
    BY NewElementAttrs
  <2>2. elems'[n] = x
    BY <1>0, NewElementTagged
  <2> HIDE DEF x, c, l
  <2>3. elems'[n].tok = pos /\ elems'[n].count = c /\ elems'[n].local = l
    BY <2>1, <2>2, Zenon
  <2> QED
    BY <2>3 DEF c, l
<1>5. elems'[n].parent = parent /\ elems'[n].depth = elems[parent].depth + 1
  BY <1>0, <1>1 DEF Grown
<1>6. Tok(n)' = pos /\ Up(n)' = parent /\ Depth(n)' = Depth(parent) + 1
  BY <1>4, <1>5 DEF Tok, Up, Depth
<1>7. /\ Ids \subseteq Ids' /\ n \in Ids' /\ n \notin Ids /\ Ids' \subseteq Nat
      /\ \A e \in Ids : e < n
      /\ \A e \in Ids' \ Ids : e # n => e \in n + 1..Len(elems')
  BY <1>0, <1>2 DEF Ids
<1>8. \A e \in n + 1..Len(elems') : Tok(e)' = 0 /\ e > n
  <2>1. \A e \in n + 1..Len(elems') : elems'[e].tok = 0
    BY <1>0, <1>1 DEF Grown, NoToken
  <2>2. \A e \in n + 1..Len(elems') : e > n
    BY <1>0, <1>2
  <2> QED
    BY <2>1, <2>2 DEF Tok
<1> QED
  BY <1>0, <1>2, <1>3, <1>4, <1>6, <1>7, <1>8, Zenon

LEMMA AddElementNumbers == IInv /\ TagsInv /\ RootPlain /\ SizesInv /\ NumbersInv /\ AddElement => NumbersInv'
<1> SUFFICES ASSUME IInv, TagsInv, RootPlain, SizesInv, NumbersInv, AddElement PROVE NumbersInv'
  OBVIOUS
<1>0. PICK n, parent :
      /\ n = Len(elems) + 1 /\ parent = caret[ci]
      /\ Len(elems) \in Nat /\ Ids \subseteq Ids' /\ n \in Ids' /\ n \notin Ids /\ Ids' \subseteq Nat
      /\ \A e \in Ids : e < n
      /\ \A e \in Ids : /\ Tok(e)' = Tok(e) /\ Up(e)' = Up(e) /\ Depth(e)' = Depth(e)
                        /\ elems'[e].count = elems[e].count /\ elems'[e].local = elems[e].local
      /\ Tok(n)' = pos /\ Up(n)' = parent /\ Depth(n)' = Depth(parent) + 1
      /\ elems'[n].count = count + 1 /\ elems'[n].local = local + 1
      /\ \A e \in Ids' \ Ids : e # n => Tok(e)' = 0 /\ e > n
  BY AddedNumbers, Zenon
<1> DEFINE made == Created(pos)
           here == ChildrenMade(parent)
<1>1. /\ phase = "element" /\ ci <= Len(caret) /\ ci' = ci
      /\ count' = count + 1 /\ local' = local + 1 /\ last' = Append(last, n)
      /\ pos' = pos /\ caret' = caret
  BY <1>0 DEF AddElement
<1>2. /\ Len(elems) \in Nat /\ Ids \subseteq Ids' /\ n \in Ids' /\ n \notin Ids /\ Ids' \subseteq Nat
      /\ \A e \in Ids : e < n
      /\ \A e \in Ids : /\ Tok(e)' = Tok(e) /\ Up(e)' = Up(e) /\ Depth(e)' = Depth(e)
                        /\ elems'[e].count = elems[e].count /\ elems'[e].local = elems[e].local
      /\ Tok(n)' = pos /\ Up(n)' = parent /\ Depth(n)' = Depth(parent) + 1
      /\ elems'[n].count = count + 1 /\ elems'[n].local = local + 1
      /\ \A e \in Ids' \ Ids : e # n => Tok(e)' = 0 /\ e > n
  BY <1>0, Zenon
<1>3. /\ pos \in Nat /\ pos # 0 /\ ci \in 1..Len(caret) /\ Len(caret) \in Nat
      /\ \A i \in 1..Len(caret) : caret[i] \in Ids
      /\ last \in Seq(Nat) /\ \A i \in 1..Len(last) : last[i] \in Ids
      /\ \A i, j \in 1..Len(caret) : i < j => caret[i] < caret[j]
      /\ \A i, j \in 1..Len(caret) : Depth(caret[i]) = Depth(caret[j])
  BY <1>1 DEF IInv, TypeOK, ListsOK, CaretsLevel, Increasing, Depth
<1>4. /\ parent = caret[ci] /\ parent \in Ids /\ Root = 1 /\ Ids \subseteq Nat
      /\ \A e \in Ids \ {1} : Up(e) \in Ids /\ Depth(e) = Depth(Up(e)) + 1
  BY <1>0, <1>3, TreeFacts
<1>5. /\ \A i \in 1..Len(last) : Tok(last[i]) = pos
      /\ count = Cardinality(made)
      /\ \A x \in made : \E j \in 1..Len(caret) : j <= ci /\ Up(x) = caret[j]
      /\ local = Cardinality(here)
  BY <1>1, <1>4 DEF NumbersInv, AtWork
<1>6. made = {x \in Ids : Tok(x) = pos} /\ here = {x \in Ids : Tok(x) = pos /\ Up(x) = parent}
  BY DEF Created, ChildrenMade, Tok
<1>7. /\ IsFiniteSet(made) /\ IsFiniteSet(here)
      /\ Cardinality(made \cup {n}) = count + 1 /\ Cardinality(here \cup {n}) = local + 1
  <2>1. IsFiniteSet(made)
    BY <1>2, CreatedFinite
  <2>2. here \subseteq made /\ n \notin made
    BY <1>2, <1>6
  <2>3. IsFiniteSet(here)
    BY <2>1, <2>2, FS_Subset
  <2> HIDE DEF made, here
  <2>4. Cardinality(made \cup {n}) = Cardinality(made) + 1 /\ Cardinality(here \cup {n}) = Cardinality(here) + 1
    BY <2>1, <2>2, <2>3, FS_AddElement
  <2> QED
    BY <1>5, <2>1, <2>3, <2>4
<1> HIDE DEF made, here
<1>8. Created(pos)' = made \cup {n}
  <2>1. {x \in Ids' : Tok(x)' = pos} = made \cup {n}
    BY <1>2, <1>3, <1>6
  <2>2. Created(pos)' = {x \in Ids' : Tok(x)' = pos}
    BY <1>1 DEF Created, Tok
  <2> QED
    BY <2>1, <2>2
<1>9. {x \in made \cup {n} : Up(x)' = parent} = here \cup {n}
  BY <1>2, <1>6
<1>10. NumberedSoFar'
  <2> SUFFICES ASSUME NEW x \in Ids', Tok(x)' # 0
               PROVE  /\ elems'[x].count = Cardinality({y \in Ids' : Tok(y)' = Tok(x)' /\ y <= x})
                      /\ elems'[x].local = Cardinality({y \in Ids' : Tok(y)' = Tok(x)' /\ y <= x /\ Up(y)' = Up(x)'})
    <3>1. \A x \in Ids' : /\ SameTok(x)' = {y \in Ids' : Tok(y)' = Tok(x)' /\ y <= x}
                          /\ {y \in SameTok(x)' : Up(y)' = Up(x)'}
                               = {y \in Ids' : Tok(y)' = Tok(x)' /\ y <= x /\ Up(y)' = Up(x)'}
      BY DEF SameTok
    <3> QED
      BY <3>1, Zenon DEF NumberedSoFar
  <2> DEFINE before == {y \in Ids' : Tok(y)' = Tok(x)' /\ y <= x}
             brothers == {y \in Ids' : Tok(y)' = Tok(x)' /\ y <= x /\ Up(y)' = Up(x)'}
  <2>1. CASE x \in Ids
    <3>0. /\ Tok(x)' = Tok(x) /\ Up(x)' = Up(x)
          /\ \A y \in Ids' : y <= x => y \in Ids
          /\ \A y \in Ids : y \in Ids' /\ Tok(y)' = Tok(y) /\ Up(y)' = Up(y)
      BY <1>2, <1>4, <2>1
    <3>1. before = SameTok(x)
      BY <3>0 DEF SameTok
    <3>2. brothers = {y \in SameTok(x) : Up(y) = Up(x)}
      BY <3>0 DEF SameTok
    <3>3. Tok(x) # 0
      BY <1>2, <2>1
    <3>4. elems[x].count = Cardinality(SameTok(x))
          /\ elems[x].local = Cardinality({y \in SameTok(x) : Up(y) = Up(x)})
      BY <2>1, <3>3, Zenon DEF NumbersInv, NumberedSoFar
    <3> HIDE DEF before, brothers
    <3>5. elems'[x].count = Cardinality(before) /\ elems'[x].local = Cardinality(brothers)
      BY <1>2, <2>1, <3>1, <3>2, <3>4, Zenon
    <3> QED
      BY <3>5, Zenon DEF before, brothers
  <2>2. CASE x = n
    <3>0. /\ Tok(x)' = pos /\ Up(x)' = parent
          /\ \A y \in Ids' : y <= n => y \in Ids \/ y = n
          /\ \A y \in Ids : y \in Ids' /\ y <= n /\ Tok(y)' = Tok(y) /\ Up(y)' = Up(y)
          /\ n \in Ids' /\ n <= n
      BY <1>2, <1>3, <1>4, <2>2
    <3>1. before = made \cup {n}
      BY <1>6, <2>2, <3>0
    <3>2. brothers = here \cup {n}
      BY <1>6, <2>2, <3>0
    <3> HIDE DEF before, brothers
    <3>3. elems'[x].count = Cardinality(before) /\ elems'[x].local = Cardinality(brothers)
      BY <1>2, <1>7, <2>2, <3>1, <3>2
    <3> QED
      BY <3>3, Zenon DEF before, brothers
  <2> QED
    BY <1>2, <2>1, <2>2
<1>11. TokensInOrder'
  <2> SUFFICES ASSUME NEW x \in Ids', NEW y \in Ids', x < y, Tok(x)' = Tok(y)', Tok(x)' # 0
               PROVE  /\ Depth(x)' = Depth(y)'
                      /\ \/ Up(x)' = Up(y)'
                         \/ Up(x)' < Up(y)' /\ elems'[Up(x)'].tok = elems'[Up(y)'].tok /\ elems'[Up(x)'].tok # 0
    BY DEF TokensInOrder, Tok, Up, Depth
  <2>1. x \in Ids
    BY <1>2
  <2>2. x # 1 /\ Up(x) \in Ids /\ Up(x)' = Up(x) /\ Depth(x)' = Depth(x) /\ Tok(x) # 0
    <3>1. Tok(x) # 0 /\ Up(x)' = Up(x) /\ Depth(x)' = Depth(x)
      BY <1>2, <2>1
    <3>2. Tok(1) = 0
      BY <1>4 DEF RootPlain, Tok
    <3> QED
      BY <1>4, <2>1, <3>1, <3>2
  <2>3. CASE y \in Ids
    <3>1. /\ Depth(x) = Depth(y)
          /\ \/ Up(x) = Up(y)
             \/ Up(x) < Up(y) /\ Tok(Up(x)) = Tok(Up(y)) /\ Tok(Up(x)) # 0
      BY <1>2, <2>1, <2>3 DEF NumbersInv, TokensInOrder
    <3>2. y # 1 /\ Up(y) \in Ids /\ Up(y)' = Up(y) /\ Depth(y)' = Depth(y)
      <4>1. Tok(1) = 0
        BY <1>4 DEF RootPlain, Tok
      <4> QED
        BY <1>2, <1>4, <2>3, <4>1
    <3>3. elems'[Up(x)].tok = Tok(Up(x)) /\ elems'[Up(y)].tok = Tok(Up(y))
      BY <1>2, <2>2, <3>2 DEF Tok
    <3> QED
      BY <2>2, <3>1, <3>2, <3>3
  <2>4. CASE y = n
    <3>1. x \in made
      BY <1>2, <1>6, <2>1, <2>4
    <3>2. PICK j \in 1..Len(caret) : j <= ci /\ Up(x) = caret[j]
      BY <1>5, <3>1
    <3>3. Depth(x)' = Depth(y)'
      <4>1. Depth(caret[j]) = Depth(parent)
        BY <1>3, <1>4
      <4> QED
        BY <1>2, <1>4, <2>1, <2>2, <2>4, <3>2, <4>1
    <3>4. CASE j = ci
      BY <1>2, <1>4, <2>2, <2>4, <3>2, <3>3, <3>4
    <3>5. CASE j < ci
      <4>1. caret[j] < parent /\ caret[j] \in Ids
        BY <1>3, <1>4, <3>5
      <4>2. caret[j] # caret[ci]
        BY <1>4, <4>1
      <4>3. Tok(caret[j]) = Tok(parent) /\ Tok(caret[j]) # 0
        BY <1>3, <1>4, <4>2 DEF NumbersInv, OneToken
      <4>4. elems'[caret[j]].tok = Tok(caret[j]) /\ elems'[parent].tok = Tok(parent)
        BY <1>2, <1>4, <4>1 DEF Tok
      <4> QED
        BY <1>2, <2>2, <2>4, <3>2, <3>3, <4>1, <4>3, <4>4
    <3> QED
      BY <1>3, <3>2, <3>4, <3>5
  <2>5. y \in Ids \/ y = n
    BY <1>2
  <2> QED
    BY <2>3, <2>4, <2>5
<1>12. OneToken(caret)'
  <2>1. \A i \in 1..Len(caret) : elems'[caret[i]].tok = Tok(caret[i])
    BY <1>2, <1>3 DEF Tok
  <2>2. \A i, j \in 1..Len(caret) : caret[i] # caret[j] => Tok(caret[i]) = Tok(caret[j]) /\ Tok(caret[i]) # 0
    BY Zenon DEF NumbersInv, OneToken
  <2> QED
    BY <1>1, <2>1, <2>2 DEF OneToken, Tok
<1>13. \A i \in 1..Len(last') : elems'[last'[i]].tok = pos
  <2>1. /\ Len(last') = Len(last) + 1 /\ Len(last) \in Nat /\ last'[Len(last) + 1] = n
        /\ \A i \in 1..Len(last) : last'[i] = last[i]
    BY <1>0, <1>1, <1>2, <1>3
  <2>2. elems'[n].tok = pos
    BY <1>2 DEF Tok
  <2>3. \A i \in 1..Len(last) : elems'[last[i]].tok = pos
    BY <1>2, <1>3, <1>5 DEF Tok
  <2> QED
    BY <2>1, <2>2, <2>3
<1>14. OneToken(last)'
  BY <1>3, <1>13 DEF OneToken, Tok
<1>15. AtWork'
  <2>1. \A x \in made \cup {n} : \E j \in 1..Len(caret) : j <= ci /\ Up(x)' = caret[j]
    <3>1. \A x \in made : x \in Ids
      BY <1>6
    <3>2. Up(n)' = caret[ci] /\ ci <= ci
      BY <1>2, <1>3, <1>4
    <3> QED
      BY <1>2, <1>3, <1>5, <3>1, <3>2
  <2>2. local' = Cardinality({x \in made \cup {n} : Up(x)' = parent})
    BY <1>1, <1>7, <1>9
  <2>3. /\ \A i \in 1..Len(last') : Tok(last[i])' = pos'
        /\ count' = Cardinality(Created(pos)')
        /\ \A x \in Created(pos)' : \E j \in 1..Len(caret') : j <= ci' /\ Up(x)' = caret'[j]
        /\ local' = Cardinality({x \in Created(pos)' : Up(x)' = caret'[ci']})
    BY <1>1, <1>4, <1>7, <1>8, <1>9, <1>13, <2>1, <2>2 DEF Tok
  <2> QED
    BY <2>3 DEF AtWork, ChildrenMade, Tok
<1> QED
  BY <1>10, <1>11, <1>12, <1>14, <1>15 DEF NumbersInv

LEMMA NumbersKept == IInv /\ PageInv /\ SizesInv /\ NumbersInv /\ [Next]_vars => NumbersInv'
BY EarlyNumbers, BeginElementNumbers, AddElementNumbers, NextCaretNumbers, ListStepNumbers, StutterNumbers
   DEF Next, Tokenize, Parse, PageInv

LEMMA NumbersInvHolds == Spec => []NumbersInv
<1>1. Init => NumbersInv
  <2> SUFFICES ASSUME Init PROVE NumbersInv
    OBVIOUS
  <2>1. elems = <<RootElement>> /\ caret = <<1>> /\ last = <<>> /\ phase = "prefix"
    BY DEF Init, Root
  <2>2. 1..Len(elems) = {1} /\ elems[1].tok = 0
    BY <2>1, RootAlone
  <2>3. NumberedSoFar /\ TokensInOrder
    BY <2>2 DEF NumberedSoFar, TokensInOrder, Ids, Tok
  <2>4. OneToken(caret)
    <3>1. \A i \in 1..Len(caret) : caret[i] = 1
      BY <2>1, OneCaret
    <3> QED
      BY <3>1 DEF OneToken
  <2>5. OneToken(last)
    <3>1. 1..Len(last) = {}
      BY <2>1
    <3> QED
      BY <3>1 DEF OneToken
  <2> QED
    BY <2>1, <2>3, <2>4, <2>5 DEF NumbersInv, AtWork
<1> QED
  BY <1>1, NumbersKept, PageInvHolds, SizesInvHolds, IInvInvariant, PTL DEF Spec

\* The & numbers of the elements of a token count them through the whole page, as it is
\* read, and the $ numbers through each parent, whatever the nesting in between.
THEOREM NumbersAreAsSpecified == Spec => []OutputNumbered
<1>1. IInv /\ PageInv /\ NumbersInv => OutputNumbered
  BY NumbersShown DEF PageInv, NumbersInv, RootPlain, RootWithoutToken, Tok
<1> QED
  BY <1>1, NumbersInvHolds, PageInvHolds, IInvInvariant, PTL
=============================================================================
