----------------------------- MODULE MCSparkup -----------------------------
EXTENDS SparkupProperties

CONSTANTS MCFrequent,      \* the words of the longer abbreviations
          MaxLexemes,      \* their length
          MaxLexemesOfAll  \* the length of the abbreviations of all words

Written(name, mult) == [NoWord EXCEPT !.name = name, !.mult = mult]

\* A word of every kind: numbered and multiplied, populated, with the dictionary of a
\* shortcut, a page, the multiplier 0, a short tag, an expanded one.
MCCore ==
  "ul*2"     :> Written("ul", 2)
  @@ "b.x$&*2"  :> [Written("b", 2) EXCEPT !.classes = <<"x", "$", "&">>]
  @@ "dl"       :> Written("dl", 1)
  @@ "table"    :> Written("table", 1)
  @@ "text.big" :> [Written("text", 1) EXCEPT !.classes = <<"big">>]
  @@ "input:t#i&*2" :> [Written("input:t", 2) EXCEPT !.id = <<"i", "&">>]
  @@ "html5"    :> Written("html5", 1)
  @@ "cc:ie.x!" :> [Written("cc:ie", 1) EXCEPT !.classes = <<"x">>, !.bang = TRUE]
  @@ "p*0"      :> Written("p", 0)
  @@ "br{x}"    :> [Written("br", 1) EXCEPT !.text = "x"]
  @@ "!"        :> [Written("", 1) EXCEPT !.bang = TRUE]
  @@ "[a=&]"    :> [Written("", 1) EXCEPT !.attrs = [a |-> <<"&">>]]

MCWords == DOMAIN MCCore

\* The sequences of words and separators without two words next to each other.
Abbreviations(words, max) ==
  {s \in UNION {[1..n -> words \cup {"<", ">", "+"}] : n \in 1..max} :
     \A i \in 1..Len(s) - 1 : ~(s[i] \in words /\ s[i + 1] \in words)}

MCInputs == Abbreviations(MCFrequent, MaxLexemes) \cup Abbreviations(MCWords, MaxLexemesOfAll)
=============================================================================
