--------------------------- MODULE MCMappingsFile ---------------------------
(***************************************************************************)
(* A small instance of MappingsFile.  Documents are written as trees and   *)
(* rendered to texts here, so that what the parser makes of a text is      *)
(* compared with the tree it was rendered from.                            *)
(***************************************************************************)
EXTENDS MappingsFile

MCNodes == 1..21
MCCells == 1..7

Atoms ==
  { "domains", "records", "Records", "wildcards", "subdomains", "priority",
    "value", "A", "a", "AAAA", "NS", "MX", "mx", "CNAME", "TXT", "SRV", "d", "e", "s", "1",
    "2", "mail", "long", "huge", "e-acute", "clef", "newline", "*.", ".", "(null)" }

MCLower ==
  [a \in Atoms |-> CASE a = "A" -> "a" [] a = "MX" -> "mx" [] a = "Records" -> "records"
                     [] OTHER -> a]

MCLength ==
  [a \in Atoms |-> CASE a = "long" -> 50 [] a = "huge" -> 90
                     [] a \in {"MX", "mx", "NS", "e-acute", "*."} -> 2
                     [] a \in {"AAAA", "mail", "clef"} -> 4 [] OTHER -> 1]

\* NS, TXT and CNAME fall in one bucket however often it is split.
MCHash(k) ==
  CASE k.type = <<"A">> -> IF k.scope = "base" THEN 0 ELSE IF k.scope = "wildcard" THEN 2 ELSE 5
    [] k.type = <<"AAAA">> -> 1
    [] k.type = <<"MX">> -> 4
    [] OTHER -> 3

(***************************************************************************)
(* Documents.                                                              *)
(***************************************************************************)
Str(s) == [type |-> "String", str |-> s, num |-> 0, members |-> <<>>]
Num(n) == [type |-> "Number", str |-> NULL, num |-> n, members |-> <<>>]
Yes == [type |-> "True", str |-> NULL, num |-> 1, members |-> <<>>]
No == [type |-> "False", str |-> NULL, num |-> 0, members |-> <<>>]
Null == [type |-> "NULL", str |-> NULL, num |-> 0, members |-> <<>>]
M(name, value) == [name |-> name, value |-> value]
Obj(members) == [type |-> "Object", str |-> NULL, num |-> 0, members |-> members]
Arr(elements) ==
  [ type |-> "Array", str |-> NULL, num |-> 0,
    members |-> [i \in 1..Len(elements) |-> M(NULL, elements[i])] ]

Run(bytes, a) == [kind |-> "run", bytes |-> bytes, code |-> 0, atom |-> a]
Esc(a) == [kind |-> "escape", bytes |-> 2, code |-> 0, atom |-> a]
Uni(code, a) == [kind |-> "u", bytes |-> 6, code |-> code, atom |-> a]

\* How an atom is written in a string; the clef is beyond the 16 bits of \u.
Units(a) ==
  CASE a = "newline" -> <<Esc(a)>>
    [] a = "e-acute" -> <<Uni(233, a)>>
    [] a = "clef" -> <<Uni(55348, a), Uni(56606, a)>>
    [] OTHER -> <<Run(Length[a], a)>>

T(kind) == [kind |-> kind]
Text(units) == [kind |-> "string", units |-> units]
Number(n) == [kind |-> "number", num |-> n]

RECURSIVE AllUnits(_), Render(_), Commas(_, _)
AllUnits(s) == IF s = <<>> THEN <<>> ELSE Units(Head(s)) \o AllUnits(Tail(s))

\* The number IntMax stands for one that is too large.
Render(d) ==
  CASE d.type = "String" -> <<Text(AllUnits(d.str))>>
    [] d.type = "Number" -> <<Number(IF d.num = IntMax THEN 10 * IntMax ELSE d.num)>>
    [] d.type = "True" -> <<T("true")>> [] d.type = "False" -> <<T("false")>>
    [] d.type = "NULL" -> <<T("null")>>
    [] d.type = "Array" -> <<T("[")>> \o Commas(d.members, FALSE) \o <<T("]")>>
    [] d.type = "Object" -> <<T("{")>> \o Commas(d.members, TRUE) \o <<T("}")>>

Commas(ms, named) ==
  IF ms = <<>> THEN <<>>
  ELSE (IF named THEN <<Text(AllUnits(Head(ms).name)), T(":")>> ELSE <<>>)
         \o Render(Head(ms).value)
         \o (IF Len(ms) = 1 THEN <<>> ELSE <<T(",")>> \o Commas(Tail(ms), named))

Domain(d) == Obj(<<M(<<"domains">>, Obj(<<M(<<"d">>, d)>>))>>)
Base(types) == Domain(Obj(<<M(<<"records">>, Obj(types))>>))
List(s) == Arr(<<Str(<<s>>)>>)
Mail(n) == Obj(<<M(<<"priority">>, Num(n)), M(<<"value">>, Str(<<"mail">>))>>)

Shipped ==
  Domain(Obj(<< M(<<"records">>, Obj(<< M(<<"A">>, Arr(<<Str(<<"1">>), Str(<<"2">>)>>)),
                                        M(<<"MX">>, Arr(<<Mail(10)>>)) >>)),
                M(<<"wildcards">>, Obj(<<M(<<"records">>, Obj(<<M(<<"A">>, List("1"))>>))>>)),
                M(<<"subdomains">>,
                  Obj(<<M(<<"s">>, Obj(<<M(<<"records">>, Obj(<<M(<<"A">>, List("2"))>>))>>))>>)) >>))

Small == Base(<<M(<<"A">>, List("1"))>>)

\* Lower-case types as in README.md, and a record of type TXT.
Documented ==
  Base(<<M(<<"a">>, List("1")), M(<<"mx">>, Arr(<<Mail(10)>>)), M(<<"TXT">>, List("e"))>>)

Documents ==
  { Shipped, Documented, Small, Base(<<>>), Obj(<<>>), Arr(<<>>), Null, Str(<<"domains">>),
    Arr(<<Small>>),
    Obj(<<M(<<"domains">>, List("d"))>>),
    \* conflicts, and a CNAME on its own
    Base(<<M(<<"CNAME">>, List("e")), M(<<"A">>, List("1"))>>),
    Base(<<M(<<"CNAME">>, List("e"))>>),
    Obj(<<M(<<"domains">>,
           Obj(<< M(<<"e">>, Obj(<<M(<<"records">>, Obj(<<M(<<"A">>, List("1"))>>))>>)),
                  M(<<"d">>, Obj(<<M(<<"records">>, Obj(<<M(<<"A">>, List("1")),
                                                         M(<<"CNAME">>, List("e"))>>))>>)) >>))>>),
    \* names that are repeated, or differ in case only
    Base(<<M(<<"A">>, List("1")), M(<<"a">>, List("2")), M(<<"TXT">>, List("long"))>>),
    Base(<<M(<<"a">>, Obj(<<>>)), M(<<"A">>, List("1"))>>),
    Base(<<M(<<"A">>, List("1")), M(<<"A">>, List("2"))>>),
    Domain(Obj(<<M(<<"Records">>, Obj(<<M(<<"A">>, List("1"))>>)),
                 M(<<"records">>, Obj(<<M(<<"AAAA">>, List("1"))>>))>>)),
    \* preferences
    Base(<<M(<<"MX">>, Arr(<<Mail(0), Mail(65535), Mail(70000)>>))>>),
    Base(<<M(<<"MX">>, Arr(<<Mail(-1), Mail(IntMax), Str(<<"mail">>)>>))>>),
    \* values that are none, next to one that is
    Base(<<M(<<"A">>, Arr(<<>>)), M(<<"AAAA">>, Arr(<<Num(1)>>)), M(<<"NS">>, List("e")),
           M(<<"TXT">>, Arr(<<Str(<<"1">>), Yes>>)), M(<<"MX">>, Arr(<<Obj(<<>>)>>))>>),
    Base(<<M(<<"A">>, Obj(<<M(<<"value">>, Str(<<"1">>))>>)), M(<<"NS">>, Str(<<"e">>))>>),
    Base(<<M(<<"A">>, Arr(<<Mail(1)>>)), M(<<"MX">>, Arr(<<Obj(<<M(<<"value">>, No)>>)>>))>>),
    \* lists where there should be objects
    Domain(Obj(<<M(<<"records">>, Arr(<<List("1")>>)),
                 M(<<"subdomains">>, Arr(<<Obj(<<M(<<"records">>,
                                         Obj(<<M(<<"A">>, List("1"))>>))>>)>>))>>)),
    Domain(Str(<<"records">>)),
    \* many records, and long ones
    Base(<<M(<<"A">>, List("1")), M(<<"AAAA">>, List("1")), M(<<"MX">>, List("1")),
           M(<<"NS">>, List("1")), M(<<"TXT">>, List("1")), M(<<"a">>, List("1"))>>),
    Base(<<M(<<"TXT">>, Arr(<<Str(<<"long">>), Str(<<"long">>)>>)), M(<<"A">>, List("1"))>>),
    Base(<<M(<<"TXT">>, List("huge")), M(<<"A">>, List("1"))>>),
    \* escapes
    Base(<<M(<<"TXT">>, Arr(<<Str(<<"e-acute", "clef", "1", "newline">>)>>)),
           M(<<"clef">>, List("e-acute"))>>) }

(***************************************************************************)
(* Files.                                                                  *)
(***************************************************************************)
Nul == T("nul")
File(t, doc) == [text |-> t \o <<Nul>>, doc |-> doc]

Spaced(t) == [i \in 1..(2 * Len(t) + 1) |-> IF i % 2 = 1 THEN T("space") ELSE t[i \div 2]]

\* A string of the document, with units that are no string, or end early.
WithString(units, doc) ==
  File(<<T("["), Text(units), T("]")>>, doc)

Strings ==
  { WithString(<<Uni(56606, "1")>>, NULL),
    WithString(<<Run(1, "1"), Uni(55348, "1")>>, NULL),
    WithString(<<Uni(55348, "1"), Uni(55348, "1")>>, NULL),
    WithString(<<Uni(55348, "1"), Run(1, "1"), Uni(56606, "1")>>, NULL),
    WithString(<<[kind |-> "cut", bytes |-> 3, code |-> 0, atom |-> "1"]>>, NULL),
    WithString(<<Esc("newline"), [kind |-> "bad", bytes |-> 2, code |-> 0, atom |-> "1"]>>, NULL),
    WithString(<<Run(1, "1"), Uni(0, "1"), Run(1, "2")>>, Arr(<<Str(<<"1">>)>>)),
    WithString(<<>>, Arr(<<Str(<<>>)>>)) }

Deep(n) == [i \in 1..(2 * n) |-> IF i <= n THEN T("[") ELSE T("]")]

Nested == LET in[n \in 1..NestingLimit] == IF n = 1 THEN Arr(<<>>) ELSE Arr(<<in[n - 1]>>)
          IN in[NestingLimit]

\* Every proper prefix of a text, cut between two tokens or in a string.
Cut(t) ==
  {File(SubSeq(t, 1, i), NULL) : i \in 0..(Len(t) - 1)}
    \cup {File(SubSeq(t, 1, i) \o <<T("quote")>>, NULL) :
            i \in {j \in 0..(Len(t) - 1) : t[j + 1].kind = "string"}}

\* All short texts, on their own, in a list and in a member; the document of
\* one is what it begins with.
Tokens == {T(k) : k \in {"[", "]", "{", "}", ",", ":", "space"}}
            \cup {Text(<<Run(1, "1")>>), Number(1)}
Contexts == {<<>>, <<T("[")>>, <<T("{"), Text(<<Run(1, "1")>>), T(":")>>}
ShortTexts ==
  {context \o t : context \in Contexts, t \in UNION {[1..n -> Tokens] : n \in 1..3}}
Leaves == {Num(1), Str(<<"1">>), Arr(<<>>), Obj(<<>>)}
ShortDocuments ==
  Leaves \cup {Arr(<<d>>) : d \in Leaves} \cup {Obj(<<M(<<"1">>, d)>>) : d \in Leaves}
Begins(t, w) == Len(w) <= Len(t) /\ SubSeq(t, 1, Len(w)) = w
ShortFile(t) ==
  LET dense == SelectSeq(t, LAMBDA x : x.kind # "space")
      docs == {d \in ShortDocuments : Begins(dense, Render(d))} IN
  File(t, IF docs = {} THEN NULL ELSE CHOOSE d \in docs : TRUE)

Plain == {File(Render(d), d) : d \in Documents}

AllFiles ==
  Plain \cup Strings \cup Cut(Render(Small)) \cup {ShortFile(t) : t \in ShortTexts}
    \cup { [text |-> <<>>, doc |-> NULL],
           File(Spaced(Render(Small)), Small),
           File(<<T("bom")>> \o Spaced(Render(Small)), Small),
           File(<<T("bom")>>, NULL), File(<<T("space"), T("bom")>>, NULL),
           File(Render(Small) \o <<T("junk")>>, Small),
           File(Deep(NestingLimit), Nested),
           File(Deep(NestingLimit + 1), NULL),
           File(<<T("["), T("["), T("]"), T(","), T("["), T("{"), T("}"), T("]"), T("]")>>,
                Arr(<<Arr(<<>>), Arr(<<Obj(<<>>)>>)>>)) }

\* A run of blanks is one token.
MCFiles ==
  {f \in AllFiles :
     \A i \in 1..(Len(f.text) - 1) : f.text[i].kind # "space" \/ f.text[i + 1].kind # "space"}

MCDocumentedFiles == {File(Render(Documented), Documented)}

MCReloadFiles == {File(Render(Small), Small), File(SubSeq(Render(Small), 1, 12), NULL)}

Key(type) == [scope |-> "base", domain |-> <<"d">>, type |-> <<type>>]

MCAddRequests ==
  { [key |-> Key("A"), value |-> [pref |-> NULL, str |-> <<"2">>]],
    [key |-> Key("MX"), value |-> [pref |-> 10, str |-> <<"mail">>]],
    [key |-> Key("MX"), value |-> [pref |-> NULL, str |-> <<"mail">>]] }

MCDeleteKeys == {Key("A"), Key("MX")}
=============================================================================
