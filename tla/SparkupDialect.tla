--------------------------- MODULE SparkupDialect ---------------------------
(***************************************************************************)
(* HtmlDialect of sparkup.py: the tables the expansion of an abbreviation  *)
(* looks names up in.  The value of an attribute is a sequence of pieces,  *)
(* because only the pieces "&" and "$" of it are ever looked at; long      *)
(* constant texts (doctypes, addresses) are one piece.                     *)
(***************************************************************************)
EXTENDS TLC

NoAttrs == [key \in {} |-> <<>>]

\* f overrides g, as assigning the keys of f in the dictionary g does.
Override(f, g) ==
  [key \in DOMAIN f \cup DOMAIN g |-> IF key \in DOMAIN f THEN f[key] ELSE g[key]]

-----------------------------------------------------------------------------
(* Shortcuts: the fields setattr() gives to a token.  dict tells that the  *)
(* entry has an attribute dictionary, tags that it has tags of its own.    *)

Markup(page) ==
  [name |-> "", dict |-> FALSE, attrs |-> NoAttrs, text |-> "", tags |-> TRUE, page |-> page]

Named(name, attrs) ==
  [name |-> name, dict |-> TRUE, attrs |-> attrs, text |-> "", tags |-> FALSE, page |-> FALSE]

InputField(class, type) ==
  Named("input", [class |-> class, type |-> type, name |-> <<>>, value |-> <<>>])

\* A script that is written in the page and has no dictionary.
Inline(name, text) ==
  [name |-> name, dict |-> FALSE, attrs |-> NoAttrs, text |-> text, tags |-> FALSE, page |-> FALSE]

LinkTo(rel, type, more) == Override(more, [rel |-> rel, type |-> type, href |-> <<>>])

Meta(content) ==
  Named("meta", "http-equiv" :> <<"X-UA-Compatible">> @@ "content" :> content)

Form(method) == Named("form", [method |-> method])

Pages == {"html:4t", "html:4s", "html:xt", "html:xs", "html:xxs", "html:5"}

\* The names that have the same entry, and the entry.
ShortcutTable ==
  { <<{"cc:ie", "cc:ie6", "cc:ie7", "cc:noie"}, Markup(FALSE)>>,
    <<Pages, Markup(TRUE)>>,
    <<{"input:button"}, InputField(<<"button">>, <<"button">>)>>,
    <<{"input:password"}, InputField(<<"text", " ", "password">>, <<"password">>)>>,
    <<{"input:radio"}, InputField(<<"radio">>, <<"radio">>)>>,
    <<{"input:checkbox"}, InputField(<<"checkbox">>, <<"checkbox">>)>>,
    <<{"input:file"}, InputField(<<"file">>, <<"file">>)>>,
    <<{"input:text"}, InputField(<<"text">>, <<"text">>)>>,
    <<{"input:submit"}, Named("input", [class |-> <<"submit">>, type |-> <<"submit">>, value |-> <<>>])>>,
    <<{"input:hidden"}, Named("input", [type |-> <<"hidden">>, name |-> <<>>, value |-> <<>>])>>,
    <<{"script:src"}, Named("script", [src |-> <<>>])>>,
    <<{"script:jquery"}, Named("script", [src |-> <<"jquery.min.js">>])>>,
    <<{"script:jsapi"}, Named("script", [src |-> <<"jsapi">>])>>,
    <<{"script:jsapix"}, Inline("script", "google.load")>>,
    <<{"link:css"}, Named("link", LinkTo(<<"stylesheet">>, <<"text/css">>, [media |-> <<"all">>]))>>,
    <<{"link:print"}, Named("link", LinkTo(<<"stylesheet">>, <<"text/css">>, [media |-> <<"print">>]))>>,
    <<{"link:favicon"}, Named("link", LinkTo(<<"shortcut icon">>, <<"image/x-icon">>, NoAttrs))>>,
    <<{"link:touch"}, Named("link", [rel |-> <<"apple-touch-icon">>, href |-> <<>>])>>,
    <<{"link:rss"}, Named("link", LinkTo(<<"alternate">>, <<"application/rss+xml">>, [title |-> <<"RSS">>]))>>,
    <<{"link:atom"}, Named("link", LinkTo(<<"alternate">>, <<"application/atom+xml">>, [title |-> <<"Atom">>]))>>,
    <<{"meta:ie7"}, Meta(<<"IE=7">>)>>,
    <<{"meta:ie8"}, Meta(<<"IE=8">>)>>,
    <<{"form:get", "form:g"}, Form(<<"get">>)>>,
    <<{"form:post", "form:p"}, Form(<<"post">>)>> }

Shortcuts ==
  [name \in UNION {row[1] : row \in ShortcutTable} |->
     (CHOOSE row \in ShortcutTable : name \in row[1])[2]]

-----------------------------------------------------------------------------
SynonymTable ==
  { <<{"checkbox", "check", "input:c"}, "input:checkbox">>,
    <<{"button", "input:b"}, "input:button">>,
    <<{"input:h", "hidden"}, "input:hidden">>,
    <<{"submit", "input:s"}, "input:submit">>,
    <<{"radio", "input:r"}, "input:radio">>,
    <<{"text", "input:t"}, "input:text">>,
    <<{"passwd", "password", "pw"}, "input:password">>,
    <<{"linkcss", "csss", "css:src", "csssrc"}, "link:css">>,
    <<{"scriptsrc", "jss", "js:src", "jssrc"}, "script:src">>,
    <<{"jquery"}, "script:jquery">>,
    <<{"jsapi"}, "script:jsapi">>,
    <<{"html5"}, "html:5">>,
    <<{"html4", "html4s"}, "html:4s">>,
    <<{"html4t"}, "html:4t">>,
    <<{"xhtml", "xhtml11"}, "html:xxs">>,
    <<{"xhtmlt"}, "html:xt">>,
    <<{"xhtmls"}, "html:xs">>,
    <<{"opt"}, "option">>,
    <<{"st"}, "strong">>,
    <<{"css"}, "style">>,
    <<{"js"}, "script">> }

Synonym(name) ==
  IF \E row \in SynonymTable : name \in row[1]
    THEN (CHOOSE row \in SynonymTable : name \in row[1])[2]
    ELSE name

-----------------------------------------------------------------------------
ShortTags ==
  {"area", "base", "basefont", "br", "embed", "hr", "input", "img", "link", "param", "meta"}

Empty(keys) == [key \in keys |-> <<>>]

Required ==
  [name \in {"abbr", "acronym"} |-> Empty({"title"})]
  @@ [name \in {"a", "base"} |-> Empty({"href"})]
  @@ [name \in {"select", "textarea"} |-> Empty({"name"})]
  @@ "bdo"    :> Empty({"dir"})
  @@ "link"   :> [rel |-> <<"stylesheet">>, href |-> <<>>]
  @@ "style"  :> [type |-> <<"text/css">>]
  @@ "script" :> [type |-> <<"text/javascript">>]
  @@ "img"    :> Empty({"src", "alt"})
  @@ "iframe" :> [src |-> <<>>, frameborder |-> <<"0">>]
  @@ "embed"  :> Empty({"src", "type"})
  @@ "object" :> Empty({"data", "type"})
  @@ "param"  :> Empty({"name", "value"})
  @@ "form"   :> [action |-> <<>>, method |-> <<"post">>]
  @@ "table"  :> [cellspacing |-> <<"0">>]
  @@ "input"  :> Empty({"type", "name", "value"})
  @@ "area"   :> Empty({"shape", "coords", "href", "alt"})
  @@ "option" :> Empty({"value"})
  @@ "meta"   :> Empty({"content"})

RequiredOf(name) == IF name \in DOMAIN Required THEN Required[name] ELSE NoAttrs
=============================================================================
