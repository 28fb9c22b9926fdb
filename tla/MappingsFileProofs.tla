-------------------------- MODULE MappingsFileProofs --------------------------
(***************************************************************************)
(* Proofs about MappingsFile, for every set of files, every finite set of  *)
(* nodes and every choice of the other constants.                          *)
(*                                                                         *)
(* The text: the parser stays within it, counts the depth of nesting       *)
(* rightly, and writes its strings within their output.                    *)
(*                                                                         *)
(* The cJSON nodes: whatever fails while a file is parsed or a record is   *)
(* added, every node has one owner that will delete it, none is left when  *)
(* nothing holds on to one, and the lists of nodes are linked as           *)
(* add_item_to_array relies on.  The allocated nodes are a forest: next    *)
(* and child form binary trees, one for each pointer of the program that   *)
(* holds on to nodes.  Which tree a node is in is its tag, which the code  *)
(* does not keep: NodesInv says that there is a way to give tags.  What    *)
(* the steps do to a forest (a new tree of one node, a tree hung below or  *)
(* behind a node of another one, a tree cut down by cJSON_Delete) is       *)
(* proved first, of any forest; then of the heap, whose prev pointers come *)
(* into it; then of the program.                                           *)
(***************************************************************************)
EXTENDS MappingsFile, UtHashProofs

Parsing == {"value", "element", "name", "after"}

Opening == {"[", "{"}

Frames ==
  [ kind : Opening, item : Nodes \cup {NULL}, head : Nodes \cup {NULL},
    current : Nodes \cup {NULL} ]

(***************************************************************************)
(* What holds between the steps of the parser and those of the rest of the *)
(* program: nothing but ParseStep and ReadFile moves the parser.           *)
(***************************************************************************)
ParserIdle == at \in Steps /\ (phase # "parse" => at = "done")

TextTerminated ==
  /\ Len(text) \in Nat
  /\ \A i \in 1..Len(text) : (text[i].kind = "nul") <=> (i = Len(text))

OffsetInText ==
  /\ at = "start" => Len(text) > 1
  /\ at \in {"value", "name", "after"} => offset \in 1..Len(text)
  /\ at = "element" => offset \in 1..(Len(text) - 1)

TextInv == ParserIdle /\ TextTerminated /\ OffsetInText

\* A step of the program that leaves the parser alone, which is not at work.
Quiet == at = "done" /\ UNCHANGED <<text, offset, at, depth, stack, item>>

\* A token that is not the NUL is not the last one.
LEMMA NotLast ==
  ASSUME TextTerminated, NEW i \in Int, Kind(i) # "nul", Kind(i) # "none"
  PROVE  i \in 1..(Len(text) - 1) /\ i + 1 \in 1..Len(text)
BY DEF TextTerminated, Kind

\* Blanks are skipped inside the text.
LEMMA SkipInText ==
  ASSUME TextTerminated, NEW i \in 1..Len(text)
  PROVE  SkipWhitespace(i) \in i..Len(text)
<1>1. CASE Kind(i) = "space" BY <1>1, NotLast DEF SkipWhitespace, TextTerminated
<1>2. CASE Kind(i) # "space" BY <1>2 DEF SkipWhitespace, TextTerminated
<1>3. QED BY <1>1, <1>2

LEMMA StartInText ==
  ASSUME TextTerminated, Len(text) > 1
  PROVE  SkipWhitespace(SkipBom) \in 1..Len(text)
<1>1. SkipBom \in 1..Len(text) BY DEF SkipBom, TextTerminated
<1>2. SkipWhitespace(SkipBom) \in SkipBom..Len(text) BY <1>1, SkipInText
<1>3. QED BY <1>1, <1>2 DEF TextTerminated

LEMMA ParseKeepsText ==
  ASSUME TextInv, Parse, phase = "parse", phase' = phase
  PROVE  TextInv'
<1> USE DEF TextInv, ParserIdle, OffsetInText, Steps, Go
<1>a. text' = text BY DEF Parse, StartParse, ParseLeaf, ParseString, ParseNothing, Open,
                          Element, Name, EndText, More, Unwind
<1>b. TextTerminated' BY <1>a DEF TextTerminated
<1>c. Len(text) \in Nat BY DEF TextTerminated
<1>1. CASE StartParse BY <1>1, <1>a, <1>b, StartInText DEF StartParse
<1>2. CASE ParseLeaf
  <2>1. offset + 1 \in 1..Len(text) BY <1>2, NotLast DEF ParseLeaf
  <2>2. QED BY <1>2, <1>a, <1>b, <2>1 DEF ParseLeaf
<1>3. CASE ParseString
  <2>1. offset + 1 \in 1..Len(text) BY <1>3, NotLast DEF ParseString
  <2>2. QED BY <1>3, <1>a, <1>b, <2>1 DEF ParseString
<1>4. CASE ParseNothing BY <1>4, <1>a, <1>b DEF ParseNothing
<1>5. CASE Open
  <2> DEFINE o == SkipWhitespace(offset + 1)
  <2>1. offset \in 1..Len(text) /\ offset \in Int /\ Kind(offset) \notin {"nul", "none"}
    <3>1. at = "value" /\ Kind(offset) \in {"[", "{"} BY <1>5 DEF Open
    <3>2. Kind(offset) \notin {"nul", "none"} BY <3>1
    <3>3. offset \in 1..Len(text) BY <3>1
    <3>4. QED BY <1>c, <3>2, <3>3
  <2>2. offset + 1 \in 1..Len(text) BY <2>1, NotLast
  <2>3. o \in 2..Len(text)
    <3>1. o \in (offset + 1)..Len(text) BY <2>2, SkipInText
    <3>2. QED BY <1>c, <2>1, <3>1
  <2>4. ASSUME Kind(o) = Closer(Kind(offset)) PROVE o + 1 \in 1..Len(text)
    <3>1. o \in Int BY <1>c, <2>3
    <3>2. Kind(o) \notin {"nul", "none"} BY <2>4 DEF Closer
    <3>3. QED BY <3>1, <3>2, NotLast
  <2>5. o - 1 \in 1..(Len(text) - 1) BY <1>c, <2>3
  <2>6. \/ at' = "fail" /\ offset' = offset
        \/ at' = "after" /\ offset' = o + 1 /\ Kind(o) = Closer(Kind(offset))
        \/ at' = "element" /\ offset' = o - 1
        BY <1>5 DEF Open
  <2>7. QED BY <1>a, <1>b, <2>4, <2>5, <2>6
<1>6. CASE Element
  <2>1. SkipWhitespace(offset + 1) \in 1..Len(text)
    <3>1. offset \in 1..(Len(text) - 1) BY <1>6 DEF Element
    <3>2. offset + 1 \in 1..Len(text) BY <1>c, <3>1
    <3>3. QED BY <1>c, <3>2, SkipInText
  <2>2. \/ offset' = SkipWhitespace(offset + 1) /\ at' \in {"name", "value"}
        \/ at' = "fail"
        BY <1>6 DEF Element
  <2>3. QED BY <1>a, <1>b, <2>1, <2>2
<1>7. CASE Name
  <2> DEFINE colon == SkipWhitespace(offset + 1)
  <2>1. \/ at' = "fail"
        \/ /\ at' = "value" /\ Kind(offset) = "string" /\ Kind(colon) = ":"
           /\ offset' = SkipWhitespace(colon + 1)
        BY <1>7 DEF Name
  <2>2. ASSUME Kind(offset) = "string", Kind(colon) = ":"
        PROVE  SkipWhitespace(colon + 1) \in 1..Len(text)
    <3>1. offset + 1 \in 1..Len(text) BY <1>7, <2>2, NotLast DEF Name
    <3>2. colon \in 1..Len(text) BY <1>c, <3>1, SkipInText
    <3>3. colon + 1 \in 1..Len(text) BY <2>2, <3>2, NotLast
    <3>4. QED BY <1>c, <3>3, SkipInText
  <2>3. QED BY <1>a, <1>b, <2>1, <2>2
<1>8. CASE EndText BY <1>8, <1>a, <1>b DEF EndText
<1>9. CASE More
  <2> DEFINE o == SkipWhitespace(offset)
  <2>1. o \in 1..Len(text) /\ o \in Int
    <3>1. offset \in 1..Len(text) BY <1>9 DEF More
    <3>2. QED BY <1>c, <3>1, SkipInText
  <2>2. \/ at' = "element" /\ offset' = o /\ Kind(o) = ","
        \/ at' = "after" /\ offset' = o + 1 /\ Kind(o) = Closer(stack[1].kind)
        \/ at' = "fail"
        BY <1>9 DEF More
  <2>3. ASSUME Kind(o) \in {",", Closer(stack[1].kind)}
        PROVE  o \in 1..(Len(text) - 1) /\ o + 1 \in 1..Len(text)
    <3>1. Kind(o) \notin {"nul", "none"} BY <2>3 DEF Closer
    <3>2. QED BY <2>1, <3>1, NotLast
  <2>4. QED BY <1>a, <1>b, <2>2, <2>3
<1>10. CASE Unwind BY <1>10, <1>a, <1>b DEF Unwind
<1>11. QED BY <1>1, <1>2, <1>3, <1>4, <1>5, <1>6, <1>7, <1>8, <1>9, <1>10 DEF Parse
\* What the rest of the program does to the parser: it gives it a text, lets
\* it work, throws its text away, or leaves it alone.
LEMMA ProgramSteps ==
  ASSUME ParserIdle, [Next]_vars
  PROVE  \/ \E f \in Files : ReadFile(f)
         \/ ParseStep
         \/ ReturnFromLoad
         \/ Quiet
         \/ UNCHANGED <<text, offset, at, depth, stack, item, phase>>
<1> USE DEF ParserIdle, Quiet, jsonVars, Command
<1>1. CASE CheckSchema BY <1>1 DEF CheckSchema
<1>2. CASE LoadRecord BY <1>2 DEF LoadRecord
<1>3. CASE EndLoad BY <1>3 DEF EndLoad
<1>4. ASSUME NEW r \in AddRequests, BeginAdd(r) PROVE Quiet BY <1>4 DEF BeginAdd
<1>5. CASE CreateValue BY <1>5 DEF CreateValue
<1>6. CASE AddMember BY <1>6 DEF AddMember
<1>7. CASE AppendValue BY <1>7 DEF AppendValue
<1>8. CASE StoreValue BY <1>8 DEF StoreValue
<1>9. ASSUME NEW k \in DeleteKeys, DeleteRecord(k) PROVE Quiet BY <1>9 DEF DeleteRecord
<1>10. CASE BeginList BY <1>10 DEF BeginList
<1>11. CASE ListChunk BY <1>11 DEF ListChunk
<1>12. CASE EndList BY <1>12 DEF EndList
<1>13. CASE BeginReload BY <1>13 DEF BeginReload
<1>14. CASE BeginCleanup BY <1>14 DEF BeginCleanup
<1>15. CASE ClearRecord BY <1>15 DEF ClearRecord
<1>16. CASE EndClear BY <1>16 DEF EndClear
<1>17. CASE UNCHANGED vars BY <1>17 DEF vars
<1>18. CASE Terminated BY <1>17, <1>18 DEF Terminated
<1>19. QED
  BY <1>1, <1>2, <1>3, <1>4, <1>5, <1>6, <1>7, <1>8, <1>9, <1>10, <1>11, <1>12, <1>13,
     <1>14, <1>15, <1>16, <1>17, <1>18
  DEF Next, Load

(***************************************************************************)
(* The text.                                                               *)
(***************************************************************************)
LEMMA TextInit == Init => TextInv
<1> SUFFICES ASSUME Init PROVE TextInv OBVIOUS
<1>1. text = <<>> /\ at = "done" BY DEF Init
<1>2. Len(text) = 0 BY <1>1
<1>3. QED BY <1>1, <1>2 DEF TextInv, ParserIdle, TextTerminated, OffsetInText, Steps

LEMMA TextStep == TextInv /\ [Next]_vars => TextInv'
<1> SUFFICES ASSUME TextInv, [Next]_vars PROVE TextInv' OBVIOUS
<1> USE DEF TextInv, ParserIdle, OffsetInText, TextTerminated, Steps
<1>1. ASSUME NEW f \in Files, ReadFile(f) PROVE TextInv'
  <2>1. CASE text' = f.text /\ at' = "start" /\ phase' = "parse" /\ Len(f.text) > 1
    <3>1. Len(f.text) \in Nat
          /\ \A i \in 1..Len(f.text) : (f.text[i].kind = "nul") <=> (i = Len(f.text))
          BY FilesAssumption
    <3>2. QED BY <2>1, <3>1
  <2>2. CASE UNCHANGED <<text, at, offset>> /\ at = "done" BY <2>2
  <2>3. QED BY <1>1, <2>1, <2>2 DEF ReadFile, Enter
<1>2. CASE ParseStep
  <2>1. Parse /\ phase = "parse" /\ phase' = phase BY <1>2 DEF ParseStep
  <2>2. QED BY <2>1, ParseKeepsText
<1>3. CASE ReturnFromLoad
  <2>1. text' = <<>> /\ at' = "done" BY <1>3 DEF ReturnFromLoad
  <2>2. Len(text') = 0 BY <2>1
  <2>3. QED BY <2>1, <2>2
<1>4. CASE Quiet BY <1>4 DEF Quiet
<1>5. CASE UNCHANGED <<text, offset, at, depth, stack, item, phase>> BY <1>5
<1>6. QED BY <1>1, <1>2, <1>3, <1>4, <1>5, ProgramSteps

\* The parser of cJSON reads no byte past the NUL of the file's text, and its
\* tests for the end of the buffer at the start of a list are never true.
THEOREM ParserStaysInText == Spec => []InText
<1>1. TextInv => InText
  <2> SUFFICES ASSUME TextInv, at \in Parsing PROVE offset \in 1..Len(text)
      BY DEF InText, Parsing
  <2>1. Len(text) \in Nat BY DEF TextInv, TextTerminated
  <2>2. CASE at = "element" BY <2>1, <2>2 DEF TextInv, OffsetInText
  <2>3. QED BY <2>2 DEF TextInv, OffsetInText, Parsing
<1>2. QED BY <1>1, TextInit, TextStep, PTL DEF Spec

(***************************************************************************)
(* The depth.                                                              *)
(***************************************************************************)
DepthInv ==
  /\ ParserIdle
  /\ item \in Nodes \cup {NULL}
  /\ stack \in Seq(Frames)
  /\ at \in Parsing => depth = Len(stack) /\ depth <= NestingLimit

LEMMA FreshNode == Free # {} => Fresh \in Nodes
BY DEF Free, Fresh

\* The frame on top after a new element was linked in.
LEMMA TopFrame ==
  ASSUME stack \in Seq(Frames), NEW n \in Nodes
  PROVE  LET s == [stack EXCEPT ![1].current = n, ![1].head = IF @ = NULL THEN n ELSE @] IN
         s \in Seq(Frames) /\ Len(s) = Len(stack)
<1> DEFINE s == [stack EXCEPT ![1].current = n, ![1].head = IF @ = NULL THEN n ELSE @]
<1>1. Len(stack) \in Nat /\ stack \in [1..Len(stack) -> Frames] BY LenProperties
<1>2. s \in [1..Len(stack) -> Frames] BY <1>1, ZenonT(40) DEF Frames
<1> HIDE DEF s
<1>3. s \in Seq(Frames) /\ Len(s) = Len(stack) BY <1>1, <1>2
<1>4. QED BY <1>3 DEF s

LEMMA ParseKeepsDepth ==
  ASSUME DepthInv, Parse, phase = "parse", phase' = phase
  PROVE  DepthInv'
<1> USE DEF DepthInv, ParserIdle, Parsing, Steps, Go
<1>a. Len(stack) \in Nat BY LenProperties
<1>1. CASE StartParse
  <2>1. stack' = <<>> /\ depth' = 0 BY <1>1 DEF StartParse
  <2>2. item' \in Nodes \cup {NULL} /\ at' \in {"value", "done"}
        BY <1>1, FreshNode DEF StartParse
  <2>3. stack' \in Seq(Frames) /\ Len(stack') = 0 BY <2>1, EmptySeq
  <2>4. QED BY <2>1, <2>2, <2>3, JsonAssumption
<1>2. CASE ParseLeaf BY <1>2 DEF ParseLeaf
<1>3. CASE ParseString BY <1>3 DEF ParseString
<1>4. CASE ParseNothing BY <1>4 DEF ParseNothing
<1>5. CASE Open
  <2>1. depth = Len(stack) /\ depth <= NestingLimit BY <1>5 DEF Open
  <2>2. item' = item BY <1>5 DEF Open
  <2>3. CASE UNCHANGED <<depth, stack>> /\ at' \in {"fail", "after"} BY <2>1, <2>2, <2>3
  <2>4. ASSUME depth < NestingLimit, depth' = depth + 1, at' = "element",
               stack' = <<[ kind |-> Kind(offset), item |-> item, head |-> NULL,
                            current |-> NULL ]>> \o stack
        PROVE  DepthInv'
    <3> DEFINE frame == [kind |-> Kind(offset), item |-> item, head |-> NULL, current |-> NULL]
    <3>1. Kind(offset) \in Opening BY <1>5 DEF Open, Opening
    <3>2. frame \in Frames BY <3>1 DEF Frames
    <3>3. stack' \in Seq(Frames) /\ Len(stack') = 1 + Len(stack)
      <4> HIDE DEF frame
      <4>1. stack' = <<frame>> \o stack BY <2>4 DEF frame
      <4>2. <<frame>> \in Seq(Frames) /\ Len(<<frame>>) = 1 BY <3>2
      <4>3. QED BY <4>1, <4>2, <1>a, ConcatProperties
    <3>4. QED BY <1>a, <2>1, <2>2, <2>4, <3>3, JsonAssumption
  <2>5. QED BY <1>5, <2>3, <2>4 DEF Open
<1>6. CASE Element
  <2>1. depth' = depth BY <1>6 DEF Element
  <2>2. CASE UNCHANGED <<stack, item>> /\ at' = "fail" BY <2>2
  <2>3. ASSUME Free # {}, item' = Fresh, at' \in {"name", "value"},
               stack' = [stack EXCEPT ![1].current = Fresh,
                                      ![1].head = IF @ = NULL THEN Fresh ELSE @]
        PROVE  DepthInv'
    <3>1. Fresh \in Nodes BY <2>3, FreshNode
    <3>2. stack' \in Seq(Frames) /\ Len(stack') = Len(stack) BY <2>3, <3>1, TopFrame
    <3>3. depth = Len(stack) /\ depth <= NestingLimit BY <1>6 DEF Element
    <3>4. QED BY <2>1, <2>3, <3>1, <3>2, <3>3
  <2>4. QED BY <1>6, <2>2, <2>3 DEF Element
<1>7. CASE Name BY <1>7 DEF Name
<1>8. CASE EndText BY <1>8 DEF EndText
<1>9. CASE More
  <2>1. depth = Len(stack) /\ depth <= NestingLimit /\ stack # <<>> BY <1>9 DEF More
  <2>2. CASE UNCHANGED <<depth, stack, item>> /\ at' \in {"element", "fail"} BY <2>1, <2>2
  <2>3. ASSUME depth' = depth - 1, stack' = Tail(stack), item' = stack[1].item, at' = "after"
        PROVE  DepthInv'
    <3>1. stack' \in Seq(Frames) /\ Len(stack') = Len(stack) - 1
          BY <2>1, <2>3, HeadTailProperties
    <3>2. Head(stack) \in Frames /\ stack[1] = Head(stack) BY <2>1, HeadTailProperties
    <3>3. stack[1].item \in Nodes \cup {NULL} BY <3>2 DEF Frames
    <3>4. QED BY <1>a, <2>1, <2>3, <3>1, <3>3, JsonAssumption
  <2>4. QED BY <1>9, <2>2, <2>3 DEF More
<1>10. CASE Unwind
  <2>1. at' \in {"fail", "done"} /\ item' = item /\ (stack' = stack \/ (stack # <<>> /\ stack' = Tail(stack)))
        BY <1>10 DEF Unwind
  <2>2. stack' \in Seq(Frames) BY <2>1, HeadTailProperties
  <2>3. QED BY <2>1, <2>2
<1>11. QED BY <1>1, <1>2, <1>3, <1>4, <1>5, <1>6, <1>7, <1>8, <1>9, <1>10 DEF Parse

LEMMA DepthInit == Init => DepthInv
<1> SUFFICES ASSUME Init PROVE DepthInv OBVIOUS
<1>1. stack = <<>> /\ item = NULL /\ at = "done" BY DEF Init
<1>2. QED BY <1>1, EmptySeq DEF DepthInv, ParserIdle, Steps, Parsing

LEMMA DepthStep == DepthInv /\ [Next]_vars => DepthInv'
<1> SUFFICES ASSUME DepthInv, [Next]_vars PROVE DepthInv' OBVIOUS
<1> USE DEF DepthInv, ParserIdle, Parsing, Steps
<1>1. ASSUME NEW f \in Files, ReadFile(f) PROVE DepthInv'
      BY <1>1 DEF ReadFile, Enter
<1>2. CASE ParseStep
  <2>1. Parse /\ phase = "parse" /\ phase' = phase BY <1>2 DEF ParseStep
  <2>2. QED BY <2>1, ParseKeepsDepth
<1>3. CASE ReturnFromLoad BY <1>3 DEF ReturnFromLoad
<1>4. CASE Quiet BY <1>4 DEF Quiet
<1>5. CASE UNCHANGED <<text, offset, at, depth, stack, item, phase>> BY <1>5
<1>6. QED BY <1>1, <1>2, <1>3, <1>4, <1>5, ProgramSteps

\* depth is the number of lists that are open, on every path through
\* parse_array and parse_object, and never more than CJSON_NESTING_LIMIT.
THEOREM DepthCounts == Spec => []DepthIsNesting
<1>1. DepthInv => DepthIsNesting BY DEF DepthInv, DepthIsNesting, Parsing
<1>2. QED BY <1>1, DepthInit, DepthStep, PTL DEF Spec

(***************************************************************************)
(* The strings of the text: what the second pass of parse_string writes,   *)
(* against what the first one counted.                                     *)
(***************************************************************************)
\* What the second pass does at unit i.
Taken(units, i) ==
  CASE units[i].kind = "run" -> [units |-> 1, bytes |-> units[i].bytes]
    [] units[i].kind = "escape" -> [units |-> 1, bytes |-> 1]
    [] units[i].kind = "u" -> Literal(units, i)
    [] OTHER -> [units |-> 0, bytes |-> 0]

\* The bytes of unit i in the first pass, its backslash taken off.
Counted(units, i) == units[i].bytes - (IF units[i].kind = "run" THEN 0 ELSE 1)

LEMMA UnitKinds ==
  ASSUME NEW u, IsUnit(u)
  PROVE  /\ u.bytes \in Nat
         /\ u.kind # "run" => u.bytes # 0
         /\ u.kind = "escape" => u.bytes = 2
         /\ u.kind = "u" => u.bytes = 6
<1>1. CASE u.kind = "run" /\ u.bytes \in Nat
  BY <1>1
<1>2. CASE u.kind = "escape" /\ u.bytes = 2
  BY <1>2
<1>3. CASE u.kind = "u" /\ u.bytes = 6
  BY <1>3
<1>4. CASE u.kind \in {"bad", "cut"} /\ u.bytes \in Nat \ {0}
  BY <1>4
<1> QED BY <1>1, <1>2, <1>3, <1>4 DEF IsUnit

\* A unit, or two, write no more than was counted.
LEMMA TakenFits ==
  ASSUME NEW units, IsString(units), NEW i \in 1..Len(units)
  PROVE  /\ Counted(units, i) \in Nat
         /\ Taken(units, i).bytes \in Nat
         /\ \/ Taken(units, i).units = 0
            \/ Taken(units, i).units = 1 /\ Taken(units, i).bytes <= Counted(units, i)
            \/ /\ Taken(units, i).units = 2 /\ i + 1 \in 1..Len(units)
               /\ Taken(units, i).bytes <= Counted(units, i)
<1> DEFINE u == units[i]
<1>1. IsUnit(u) /\ u.bytes \in Nat
  BY UnitKinds DEF IsString
<1>2. CASE u.kind = "run"
  BY <1>1, <1>2 DEF IsUnit, Taken, Counted
<1>3. CASE u.kind = "escape"
  BY <1>1, <1>3, UnitKinds DEF Taken, Counted
<1>4. CASE u.kind \in {"bad", "cut"}
  <2>1. u.bytes \in Nat \ {0}
    BY <1>1, <1>4, UnitKinds
  <2>2. Taken(units, i) = [units |-> 0, bytes |-> 0]
    BY <1>4 DEF Taken
  <2>3. Counted(units, i) = u.bytes - 1
    BY <1>4 DEF Counted
  <2> QED BY <2>1, <2>2, <2>3
<1>5. CASE u.kind = "u"
  <2>1. u.bytes = 6 /\ Counted(units, i) = 5
    BY <1>1, <1>5, UnitKinds DEF Counted
  <2>2. Taken(units, i) = Literal(units, i)
    BY <1>5 DEF Taken
  <2>3. \A c : Utf8Length(c) \in 1..4
    BY DEF Utf8Length
  <2>4. Len(units) \in Nat
    BY DEF IsString
  <2>5. \/ Literal(units, i).units = 0 /\ Literal(units, i).bytes = 0
        \/ Literal(units, i).units = 1 /\ Literal(units, i).bytes \in 1..4
        \/ Literal(units, i).units = 2 /\ i < Len(units) /\ Literal(units, i).bytes \in 1..4
    BY <2>3 DEF Literal
  <2> HIDE DEF u
  <2>6. i < Len(units) => i + 1 \in 1..Len(units)
    BY <2>4
  <2> QED BY <2>1, <2>2, <2>5, <2>6
<1> QED BY <1>1, <1>2, <1>3, <1>4, <1>5 DEF IsUnit

\* The room for the first units, and for the quote.
Room(w, units) == w[0] = 1 /\ \A i \in 1..Len(units) : w[i] = w[i - 1] + Counted(units, i)

LEMMA AllocationLengthIs ==
  ASSUME NEW units, IsString(units)
  PROVE  \E w \in [0..Len(units) -> Nat] : Room(w, units) /\ AllocationLength(units) = w[Len(units)]
<1>0. PICK L \in Nat : L = Len(units)
  BY DEF IsString
<1> DEFINE step == [p \in (1..L) \X Nat |-> p[2] + Counted(units, p[1])]
           sum == [p \in (1..L) \X Nat |-> p[2] + units[p[1]].bytes]
           bytes == CHOOSE g : g = [i \in 0..L |-> IF i = 0 THEN 1 ELSE g[i - 1] + units[i].bytes]
           E(n) == {i \in 1..n : units[i].kind # "run"}
<1>1. \A i \in 1..L : Counted(units, i) \in Nat /\ units[i].bytes \in Nat
  BY <1>0, TakenFits, UnitKinds DEF IsString
<1>2. step \in [(1..L) \X Nat -> Nat]
  BY <1>1
<1>3. sum \in [(1..L) \X Nat -> Nat]
  BY <1>1
<1>4. PICK w \in [0..L -> Nat] : Recursive(w, L, 1, step)
  <2> HIDE DEF step
  <2>1. 1 \in Nat
    OBVIOUS
  <2> QED BY <1>2, <2>1, RecursiveFunction
<1>5. PICK b \in [0..L -> Nat] : Recursive(b, L, 1, sum)
  <2> HIDE DEF sum
  <2>1. 1 \in Nat
    OBVIOUS
  <2> QED BY <1>3, <2>1, RecursiveFunction
<1>6. w[0] = 1 /\ \A i \in 1..L : w[i] = w[i - 1] + Counted(units, i)
  <2>1. \A i \in 1..L : <<i, w[i - 1]>> \in (1..L) \X Nat
    OBVIOUS
  <2> QED BY <1>4, <2>1 DEF Recursive
<1>7. b[0] = 1 /\ \A i \in 1..L : b[i] = b[i - 1] + units[i].bytes
  <2>1. \A i \in 1..L : <<i, b[i - 1]>> \in (1..L) \X Nat
    OBVIOUS
  <2> QED BY <1>5, <2>1 DEF Recursive
<1>8. b = [i \in 0..L |-> IF i = 0 THEN 1 ELSE b[i - 1] + units[i].bytes]
  BY <1>7
<1>9. bytes = [i \in 0..L |-> IF i = 0 THEN 1 ELSE bytes[i - 1] + units[i].bytes]
  BY <1>8, Zenon
<1>10. AllocationLength(units) = bytes[L] - Cardinality(E(L))
  BY <1>0, Zenon DEF AllocationLength, Escapes
<1> HIDE DEF bytes, step, sum, E
<1> DEFINE S == {n \in 0..L : /\ bytes[n] = b[n] /\ IsFiniteSet(E(n)) /\ Cardinality(E(n)) \in Nat
                              /\ b[n] = w[n] + Cardinality(E(n))}
<1>11. 0 \in S
  <2>1. E(0) = {}
    BY DEF E
  <2>2. IsFiniteSet(E(0)) /\ Cardinality(E(0)) = 0
    BY <2>1, FS_EmptySet
  <2> QED BY <1>6, <1>7, <1>9, <2>2
<1>12. ASSUME NEW n \in 1..L, n - 1 \in S PROVE n \in S
  <2>1. n - 1 \in 0..L /\ n \in 0..L
    OBVIOUS
  <2>2. PICK c \in Nat : c = Cardinality(E(n - 1))
    BY <1>12
  <2>3. /\ bytes[n - 1] = b[n - 1] /\ IsFiniteSet(E(n - 1)) /\ b[n - 1] = w[n - 1] + c
        /\ w[n - 1] \in Nat /\ units[n].bytes \in Nat /\ Counted(units, n) \in Nat
    BY <1>1, <1>12, <2>1, <2>2
  <2>4. b[n] = b[n - 1] + units[n].bytes /\ bytes[n] = b[n] /\ w[n] = w[n - 1] + Counted(units, n)
    BY <1>6, <1>7, <1>9, <2>1, <2>3
  <2>5. \/ E(n) = E(n - 1) /\ Counted(units, n) = units[n].bytes
        \/ /\ E(n) = E(n - 1) \cup {n} /\ n \notin E(n - 1)
           /\ Counted(units, n) = units[n].bytes - 1
    <3>1. CASE units[n].kind = "run"
      <4>1. E(n) = E(n - 1)
        BY <3>1 DEF E
      <4> QED BY <2>3, <3>1, <4>1 DEF Counted
    <3>2. CASE units[n].kind # "run"
      <4>1. E(n) = E(n - 1) \cup {n} /\ n \notin E(n - 1)
        BY <3>2 DEF E
      <4> QED BY <3>2, <4>1 DEF Counted
    <3> QED BY <3>1, <3>2
  <2>6. CASE E(n) = E(n - 1) /\ Counted(units, n) = units[n].bytes
    <3>1. b[n] = w[n] + c /\ Cardinality(E(n)) = c /\ IsFiniteSet(E(n))
      BY <2>2, <2>3, <2>4, <2>6, SMTT(30)
    <3> QED BY <2>1, <2>4, <3>1
  <2>7. CASE /\ E(n) = E(n - 1) \cup {n} /\ n \notin E(n - 1)
             /\ Counted(units, n) = units[n].bytes - 1
    <3>1. IsFiniteSet(E(n)) /\ Cardinality(E(n)) = c + 1
      <4>1. PICK T : T = E(n - 1)
        OBVIOUS
      <4>2. IsFiniteSet(T \cup {n}) /\ Cardinality(T \cup {n}) = Cardinality(T) + 1
        BY <2>3, <2>7, <4>1, FS_AddElement
      <4> QED BY <2>2, <2>7, <4>1, <4>2
    <3>2. b[n] = w[n] + (c + 1)
      <4>1. PICK x \in Nat, y \in Nat : x = w[n - 1] /\ y = units[n].bytes
        BY <2>3
      <4>2. b[n] = x + c + y /\ w[n] = x + (y - 1)
        BY <2>2, <2>3, <2>4, <2>7, <4>1
      <4>3. x + c + y = x + (y - 1) + (c + 1)
        OBVIOUS
      <4> QED BY <4>2, <4>3
    <3> QED BY <2>1, <2>4, <3>1, <3>2
  <2> QED BY <2>5, <2>6, <2>7
<1> HIDE DEF S
<1>13. \A n \in 0..L : n \in S
  BY <1>11, <1>12, RangeInduction
<1>14. AllocationLength(units) = w[L]
  <2>1. L \in 0..L
    OBVIOUS
  <2> QED BY <1>10, <1>13, <2>1 DEF S
<1> QED BY <1>0, <1>6, <1>14 DEF Room

End == [ok |-> TRUE, bytes |-> 0, str |-> <<>>]
Bad == [ok |-> FALSE, bytes |-> 0, str |-> <<>>]

\* The result at unit i, from what follows at the units after it.
ResultAt(units, i, rest) ==
  IF Taken(units, i).units = 0 THEN Bad
  ELSE [ ok |-> rest.ok, bytes |-> Taken(units, i).bytes + rest.bytes,
         str |-> IF units[i].kind = "u" /\ units[i].code = 0 THEN <<>>
                 ELSE <<units[i].atom>> \o rest.str ]

Results(units) == [ok : BOOLEAN, bytes : Nat, str : Seq({units[i].atom : i \in 1..Len(units)})]

LEMMA ResultType ==
  ASSUME NEW units, IsString(units), NEW i \in 1..Len(units), NEW rest \in Results(units)
  PROVE  ResultAt(units, i, rest) \in Results(units)
<1> DEFINE Atom == {units[k].atom : k \in 1..Len(units)}
           n == Taken(units, i).bytes
           str == IF units[i].kind = "u" /\ units[i].code = 0 THEN <<>>
                  ELSE <<units[i].atom>> \o rest.str
<1>1. n \in Nat /\ rest.bytes \in Nat /\ rest.ok \in BOOLEAN /\ rest.str \in Seq(Atom)
  BY TakenFits DEF Results
<1>2. <<>> \in Seq(Atom) /\ units[i].atom \in Atom
  BY EmptySeq
<1>3. <<units[i].atom>> \o rest.str \in Seq(Atom)
  <2> HIDE DEF Atom
  <2>1. <<units[i].atom>> \in Seq(Atom)
    BY <1>2
  <2> QED BY <1>1, <2>1, ConcatProperties
<1>4. str \in Seq(Atom)
  BY <1>2, <1>3
<1>5. CASE Taken(units, i).units = 0
  BY <1>2, <1>5 DEF ResultAt, Bad, Results
<1>6. CASE Taken(units, i).units # 0
  <2>1. ResultAt(units, i, rest) = [ok |-> rest.ok, bytes |-> n + rest.bytes, str |-> str]
    BY <1>6 DEF ResultAt
  <2> HIDE DEF str, n
  <2>2. n + rest.bytes \in Nat
    BY <1>1
  <2> HIDE DEF Atom
  <2>3. Results(units) = [ok : BOOLEAN, bytes : Nat, str : Seq(Atom)]
    BY DEF Results, Atom
  <2> QED BY <1>1, <1>4, <2>1, <2>2, <2>3
<1> QED BY <1>5, <1>6

\* g gives the result of the rest of a string, from each of its units on.
From(g, units) ==
  /\ g[Len(units) + 1] = End
  /\ \A i \in 1..Len(units) : g[i] = ResultAt(units, i, g[i + Taken(units, i).units])

LEMMA FromExists ==
  ASSUME NEW units, IsString(units)
  PROVE  \E g \in [1..Len(units) + 1 -> Results(units)] : From(g, units)
<1>0. PICK L \in Nat : L = Len(units)
  BY DEF IsString
<1> DEFINE R == Results(units)
           pick(i, pair) == IF Taken(units, i).units = 2 THEN pair[2] ELSE pair[1]
           step == [p \in (1..L) \X (R \X R) |->
                      <<ResultAt(units, L + 1 - p[1], pick(L + 1 - p[1], p[2])), p[2][1]>>]
<1>1. End \in R
  BY EmptySeq DEF End, Results
<1>2. step \in [(1..L) \X (R \X R) -> R \X R]
  <2> SUFFICES ASSUME NEW k \in 1..L, NEW pair \in R \X R
               PROVE  <<ResultAt(units, L + 1 - k, pick(L + 1 - k, pair)), pair[1]>> \in R \X R
    OBVIOUS
  <2>1. L + 1 - k \in 1..Len(units) /\ pick(L + 1 - k, pair) \in R
    BY <1>0
  <2>2. ResultAt(units, L + 1 - k, pick(L + 1 - k, pair)) \in R
    BY <2>1, ResultType
  <2> QED BY <2>2
<1>3. PICK f \in [0..L -> R \X R] : Recursive(f, L, <<End, End>>, step)
  <2> HIDE DEF step, R
  <2>1. <<End, End>> \in R \X R
    BY <1>1
  <2> QED BY <1>2, <2>1, RecursiveFunction
<1>4. /\ f[0] = <<End, End>>
      /\ \A k \in 1..L : f[k] = <<ResultAt(units, L + 1 - k, pick(L + 1 - k, f[k - 1])), f[k - 1][1]>>
  <2> HIDE DEF pick
  <2>1. \A k \in 1..L : <<k, f[k - 1]>> \in (1..L) \X (R \X R)
    OBVIOUS
  <2> QED BY <1>3, <2>1 DEF Recursive
<1> DEFINE g == [i \in 1..L + 1 |-> f[L + 1 - i][1]]
<1>5. g \in [1..L + 1 -> R]
  <2>1. \A i \in 1..L + 1 : L + 1 - i \in 0..L
    OBVIOUS
  <2> HIDE DEF R
  <2> QED BY <2>1
<1>6. g[L + 1] = End
  BY <1>4
<1>7. \A k \in 1..L : f[k - 1][2] = IF k = 1 THEN End ELSE f[k - 2][1]
  <2> TAKE k \in 1..L
  <2>1. CASE k = 1
    BY <1>4, <2>1
  <2>2. CASE k # 1
    <3>1. k - 1 \in 1..L /\ (k - 1) - 1 = k - 2
      BY <2>2
    <3>2. f[k - 1] = <<ResultAt(units, L + 1 - (k - 1), pick(L + 1 - (k - 1), f[(k - 1) - 1])), f[(k - 1) - 1][1]>>
      BY <1>4, <3>1
    <3> HIDE DEF pick
    <3> QED BY <2>2, <3>1, <3>2
  <2> QED BY <2>1, <2>2
<1>8. ASSUME NEW i \in 1..L PROVE g[i] = ResultAt(units, i, g[i + Taken(units, i).units])
  <2>1. PICK k \in 1..L : k = L + 1 - i
    OBVIOUS
  <2>2. L + 1 - k = i /\ i \in 1..L + 1
    BY <2>1
  <2>3. g[i] = ResultAt(units, i, pick(i, f[k - 1]))
    <3>1. f[k] = <<ResultAt(units, i, pick(i, f[k - 1])), f[k - 1][1]>>
      BY <1>4, <2>2
    <3> HIDE DEF pick
    <3> QED BY <2>1, <2>2, <3>1
  <2>4. CASE Taken(units, i).units = 0
    BY <2>3, <2>4 DEF ResultAt
  <2>5. CASE Taken(units, i).units = 1
    <3>1. i + 1 \in 1..L + 1 /\ L + 1 - (i + 1) = k - 1
      BY <2>1
    <3>2. g[i + 1] = f[k - 1][1]
      BY <3>1
    <3> QED BY <2>3, <2>5, <3>2
  <2>6. CASE Taken(units, i).units = 2 /\ i + 1 \in 1..L
    <3>1. i + 2 \in 1..L + 1 /\ L + 1 - (i + 2) = k - 2 /\ k # 1
      BY <2>1, <2>6
    <3>2. g[i + 2] = f[k - 2][1]
      BY <3>1
    <3>3. f[k - 1][2] = f[k - 2][1]
      BY <1>7, <3>1
    <3> QED BY <2>3, <2>6, <3>2, <3>3
  <2> QED BY <1>0, <2>4, <2>5, <2>6, TakenFits
<1> HIDE DEF g, R
<1>9. From(g, units)
  BY <1>0, <1>6, <1>8 DEF From
<1> QED BY <1>0, <1>5, <1>9 DEF R

LEMMA UnescapeIs ==
  ASSUME NEW units, IsString(units)
  PROVE  \E g \in [1..Len(units) + 1 -> Results(units)] : From(g, units) /\ Unescape(units) = g[1]
<1>0. PICK L \in Nat : L = Len(units)
  BY DEF IsString
<1>1. PICK h \in [1..L + 1 -> Results(units)] : From(h, units)
  BY <1>0, FromExists
<1> DEFINE from == CHOOSE g : g = [i \in 1..(Len(units) + 1) |->
                     IF i > Len(units) THEN End ELSE ResultAt(units, i, g[i + Taken(units, i).units])]
<1>2. h = [i \in 1..(Len(units) + 1) |->
             IF i > Len(units) THEN End ELSE ResultAt(units, i, h[i + Taken(units, i).units])]
  <2>1. \A i \in 1..L + 1 : h[i] = IF i > L THEN End ELSE ResultAt(units, i, h[i + Taken(units, i).units])
    BY <1>0, <1>1 DEF From
  <2> QED BY <1>0, <1>1, <2>1
<1>3. from = [i \in 1..(Len(units) + 1) |->
             IF i > Len(units) THEN End ELSE ResultAt(units, i, from[i + Taken(units, i).units])]
  BY <1>2, Zenon
<1>4. Unescape(units) = from[1]
  BY Zenon DEF Unescape, ResultAt, Taken, End, Bad
<1> HIDE DEF from
<1> DEFINE S == {k \in 0..L : \A m \in 0..k : from[L + 1 - m] = h[L + 1 - m]}
<1>5. 0 \in S
  <2>1. from[L + 1] = End /\ h[L + 1] = End
    BY <1>0, <1>1, <1>3 DEF From
  <2> QED BY <2>1
<1>6. ASSUME NEW k \in 1..L, k - 1 \in S PROVE k \in S
  <2>1. ASSUME NEW m \in 0..k - 1 PROVE from[L + 1 - m] = h[L + 1 - m]
    BY <1>6
  <2> DEFINE i == L + 1 - k
  <2>2. i \in 1..L /\ i \in 1..L + 1 /\ ~(i > L)
    OBVIOUS
  <2> HIDE DEF i, S
  <2>3. /\ from[i] = ResultAt(units, i, from[i + Taken(units, i).units])
        /\ h[i] = ResultAt(units, i, h[i + Taken(units, i).units])
    BY <1>0, <1>1, <1>3, <2>2 DEF From
  <2>4. ASSUME Taken(units, i).units = 0 PROVE from[i] = h[i]
    BY <2>3, <2>4 DEF ResultAt
  <2>5. ASSUME Taken(units, i).units = 1 PROVE from[i] = h[i]
    <3>1. i + 1 = L + 1 - (k - 1) /\ k - 1 \in 0..k - 1
      BY DEF i
    <3>2. from[i + 1] = h[i + 1]
      BY <2>1, <3>1
    <3> QED BY <2>3, <2>5, <3>2
  <2>6. ASSUME Taken(units, i).units = 2, i + 1 \in 1..L PROVE from[i] = h[i]
    <3>1. i + 2 = L + 1 - (k - 2) /\ k - 2 \in 0..k - 1
      BY <2>6 DEF i
    <3>2. from[i + 2] = h[i + 2]
      BY <2>1, <3>1
    <3> QED BY <2>3, <2>6, <3>2
  <2>7. from[L + 1 - k] = h[L + 1 - k]
    BY <1>0, <2>2, <2>4, <2>5, <2>6, TakenFits DEF i
  <2>8. \A m \in 0..k : from[L + 1 - m] = h[L + 1 - m]
    <3> TAKE m \in 0..k
    <3>1. m = k \/ m \in 0..k - 1
      OBVIOUS
    <3> QED BY <2>1, <2>7, <3>1
  <2> QED BY <2>8 DEF S
<1> HIDE DEF S
<1>7. \A k \in 0..L : k \in S
  BY <1>5, <1>6, RangeInduction
<1>8. from[1] = h[1]
  <2>1. L \in S /\ L \in 0..L /\ L + 1 - L = 1
    BY <1>7
  <2> QED BY <2>1 DEF S
<1> QED BY <1>0, <1>1, <1>4, <1>8

LEMMA StringFits ==
  ASSUME NEW units, IsString(units)
  PROVE  Unescape(units).bytes <= AllocationLength(units)
<1>0. PICK L \in Nat : L = Len(units)
  BY DEF IsString
<1>1. PICK g \in [1..L + 1 -> Results(units)] : From(g, units) /\ Unescape(units) = g[1]
  BY <1>0, UnescapeIs
<1>2. PICK w \in [0..L -> Nat] : Room(w, units) /\ AllocationLength(units) = w[L]
  BY <1>0, AllocationLengthIs
<1>3. \A i \in 1..L : w[i] = w[i - 1] + Counted(units, i) /\ Counted(units, i) \in Nat
  BY <1>0, <1>2, TakenFits DEF Room
<1>4. \A i \in 1..L + 1 : g[i].bytes \in Nat
  BY <1>1 DEF Results
<1> DEFINE Bounded(i) == g[i].bytes + w[i - 1] <= w[L]
           S == {k \in 0..L : \A m \in 0..k : Bounded(L + 1 - m)}
<1>5. 0 \in S
  <2>1. g[L + 1].bytes = 0 /\ w[L] \in Nat /\ (L + 1) - 1 = L
    BY <1>0, <1>1 DEF From, End
  <2> QED BY <2>1
<1>6. ASSUME NEW k \in 1..L, k - 1 \in S PROVE k \in S
  <2>1. ASSUME NEW m \in 0..k - 1 PROVE Bounded(L + 1 - m)
    BY <1>6
  <2> DEFINE i == L + 1 - k
             t == Taken(units, i)
  <2>2. i \in 1..L /\ i \in 1..L + 1 /\ i + 1 \in 1..L + 1 /\ i - 1 \in 0..L /\ i \in 1..Len(units)
    BY <1>0
  <2>3. i + 1 = L + 1 - (k - 1) /\ k - 1 \in 0..k - 1 /\ (i + 1) - 1 = i
    OBVIOUS
  <2> HIDE DEF S, i
  <2>4. g[i] = ResultAt(units, i, g[i + t.units])
    BY <1>0, <1>1, <2>2 DEF From
  <2>5. PICK x \in Nat, y \in Nat, z \in Nat, last \in Nat :
          x = w[i - 1] /\ y = Counted(units, i) /\ z = t.bytes /\ last = w[L]
    <3>1. w[i - 1] \in Nat /\ w[L] \in Nat
      BY <2>2
    <3>2. Counted(units, i) \in Nat /\ t.bytes \in Nat
      BY <2>2, TakenFits
    <3> QED BY <3>1, <3>2
  <2>6. w[i] = x + y
    BY <1>3, <2>2, <2>5
  <2>7. PICK n \in Nat : n = g[i + 1].bytes /\ n + (x + y) <= last
    <3>1. g[i + 1].bytes + w[i] <= w[L]
      BY <2>1, <2>3
    <3> QED BY <1>4, <2>2, <2>5, <2>6, <3>1
  <2>8. PICK b \in Nat : b = g[i].bytes
    BY <1>4, <2>2
  <2>9. b + x <= last
    <3>1. CASE t.units = 0
      <4>1. b = 0
        BY <2>4, <2>8, <3>1 DEF ResultAt, Bad
      <4> QED BY <2>7, <4>1
    <3>2. CASE t.units = 1 /\ t.bytes <= Counted(units, i)
      <4>1. b = z + n
        BY <2>4, <2>5, <2>7, <2>8, <3>2 DEF ResultAt
      <4>2. z <= y
        BY <2>5, <3>2
      <4>3. \A p, q, r, o, l \in Nat : p <= q /\ r + (o + q) <= l => (p + r) + o <= l
        OBVIOUS
      <4>4. (z + n) + x <= last
        BY <2>7, <4>2, <4>3
      <4> QED BY <4>1, <4>4
    <3>3. CASE t.units = 2 /\ i + 1 \in 1..Len(units) /\ t.bytes <= Counted(units, i)
      <4>1. i + 2 \in 1..L + 1 /\ i + 2 = L + 1 - (k - 2) /\ k - 2 \in 0..k - 1 /\ (i + 2) - 1 = i + 1
            /\ i + 1 \in 1..L /\ (i + 1) - 1 = i
        BY <1>0, <3>3 DEF i
      <4>2. PICK m \in Nat : m = g[i + 2].bytes
        BY <1>4, <4>1
      <4>3. PICK c \in Nat : c = Counted(units, i + 1)
        BY <1>3, <4>1
      <4>4. w[i + 1] = (x + y) + c
        BY <1>3, <2>6, <4>1, <4>3
      <4>5. m + w[i + 1] <= last
        <5>1. Bounded(i + 2)
          BY <2>1, <4>1
        <5> QED BY <2>5, <4>1, <4>2, <5>1
      <4>6. b = z + m
        BY <2>4, <2>5, <2>8, <3>3, <4>2 DEF ResultAt
      <4>7. z <= y
        BY <2>5, <3>3
      <4>8. m + ((x + y) + c) <= last
        BY <4>4, <4>5
      <4> HIDE DEF t
      <4> QED BY <4>6, <4>7, <4>8
    <3> QED BY <1>0, <2>2, <3>1, <3>2, <3>3, TakenFits
  <2>10. Bounded(i)
    BY <2>5, <2>8, <2>9
  <2>11. \A m \in 0..k : Bounded(L + 1 - m)
    <3> TAKE m \in 0..k
    <3>1. m = k \/ m \in 0..k - 1
      OBVIOUS
    <3>2. CASE m = k
      BY <2>10, <3>2 DEF i
    <3> HIDE DEF Bounded
    <3> QED BY <2>1, <3>1, <3>2
  <2> HIDE DEF Bounded
  <2> QED BY <2>11 DEF S
<1> HIDE DEF S
<1>7. \A k \in 0..L : k \in S
  BY <1>5, <1>6, RangeInduction
<1>8. Bounded(1)
  <2>1. L \in S /\ L \in 0..L /\ L + 1 - L = 1
    BY <1>7
  <2> HIDE DEF Bounded
  <2> QED BY <2>1 DEF S
<1>9. PICK b \in Nat, last \in Nat, x \in Nat : b = g[1].bytes /\ last = w[L] /\ x = w[0] /\ b + x <= last
  <2>1. 1 \in 1..L + 1 /\ 0 \in 0..L /\ L \in 0..L /\ 1 - 1 = 0
    OBVIOUS
  <2> QED BY <1>4, <1>8, <2>1
<1>10. b <= last
  BY <1>9
<1> QED BY <1>1, <1>2, <1>9, <1>10

Strings ==
  \A i \in 1..Len(text) : text[i].kind = "string" => IsString(text[i].units)

StringsInv == ParserIdle /\ Strings

LEMMA StringsStep == StringsInv /\ [Next]_vars => StringsInv'
<1> SUFFICES ASSUME StringsInv, [Next]_vars PROVE StringsInv'
  OBVIOUS
<1> USE DEF StringsInv, ParserIdle, Strings
<1>1. ASSUME NEW f \in Files, ReadFile(f) PROVE StringsInv'
  <2>1. \/ text' = f.text /\ at' = "start" /\ phase' = "parse"
        \/ UNCHANGED <<text, at>> /\ at = "done"
    BY <1>1 DEF ReadFile, Enter
  <2>2. \A i \in 1..Len(f.text) : f.text[i].kind = "string" => IsString(f.text[i].units)
    BY FilesAssumption
  <2>3. ParserIdle'
    BY <2>1 DEF Steps
  <2> QED BY <2>1, <2>2, <2>3
<1>2. CASE ParseStep
  <2>1. Parse /\ phase = "parse" /\ phase' = phase
    BY <1>2 DEF ParseStep
  <2>2. text' = text /\ at' \in Steps
    BY <2>1 DEF Parse, StartParse, ParseLeaf, ParseString, ParseNothing, Open, Element, Name,
                EndText, More, Unwind, Go, Steps
  <2> QED BY <2>1, <2>2
<1>3. CASE ReturnFromLoad
  <2>1. text' = <<>> /\ at' = "done"
    BY <1>3 DEF ReturnFromLoad
  <2>2. Len(text') = 0
    BY <2>1
  <2>3. Strings'
    BY <2>2
  <2>4. ParserIdle'
    BY <2>1 DEF Steps
  <2> QED BY <2>3, <2>4
<1>4. CASE Quiet
  BY <1>4 DEF Quiet, Steps
<1>5. CASE UNCHANGED <<text, offset, at, depth, stack, item, phase>>
  BY <1>5
<1> QED BY <1>1, <1>2, <1>3, <1>4, <1>5, ProgramSteps

\* Whatever escapes the strings of a file hold, well-formed or not, parse_string
\* writes no further than the output it allocated after its first pass.  The one
\* case the units of a string leave out is another escape that begins among the
\* four bytes after a \u.
THEOREM StringsFitTheirOutput == Spec => []OutputFits
<1>1. Init => StringsInv
  <2> SUFFICES ASSUME Init PROVE StringsInv
    OBVIOUS
  <2>1. text = <<>> /\ at = "done"
    BY DEF Init
  <2>2. Len(text) = 0
    BY <2>1
  <2> QED BY <2>1, <2>2 DEF StringsInv, ParserIdle, Strings, Steps
<1>2. StringsInv => OutputFits
  <2> SUFFICES ASSUME StringsInv, NEW i \in 1..Len(text), Kind(i) = "string"
               PROVE  Unescape(text[i].units).bytes <= AllocationLength(text[i].units)
    BY DEF OutputFits
  <2>1. IsString(text[i].units)
    BY DEF Kind, StringsInv, Strings
  <2> QED BY <2>1, StringFits
<1> QED BY <1>1, <1>2, StringsStep, PTL DEF Spec

(***************************************************************************)
(* The nodes.                                                              *)
(***************************************************************************)

(***************************************************************************)
(* Forests: U is a set of nodes, nx and ch their pointers.                 *)
(***************************************************************************)
\* No pointer leaves the forest, and no two of them lead to one node.
Shape(U, nx, ch) ==
  /\ NULL \notin U
  /\ \A x \in U : nx[x] \in U \cup {NULL} /\ ch[x] \in U \cup {NULL}
  /\ \A x, y \in U : nx[x] = nx[y] => x = y \/ nx[x] = NULL
  /\ \A x, y \in U : ch[x] = ch[y] => x = y \/ ch[x] = NULL
  /\ \A x, y \in U : nx[x] = ch[y] => nx[x] = NULL

\* A member of S that no member of S points to; one that points to none.
Sourced(S, nx, ch) == \E x \in S : \A y \in S : nx[y] # x /\ ch[y] # x
Ending(S, nx, ch) == \E x \in S : nx[x] \notin S /\ ch[x] \notin S

\* No circles, neither against the pointers nor along them.
Grounded(U, nx, ch) ==
  \A S \in SUBSET U : S # {} => Sourced(S, nx, ch) /\ Ending(S, nx, ch)

\* Holder k of the forest points to top[k], to which no node points; every
\* node is pointed to by a node, or by the holder that is its tag.
Rooted(U, nx, ch, top, tag) ==
  /\ \A k \in Int : top[k] \in U \cup {NULL}
  /\ \A k \in Int : top[k] # NULL =>
       tag[top[k]] = k /\ \A x \in U : nx[x] # top[k] /\ ch[x] # top[k]
  /\ \A x \in U : /\ tag[x] \in Int
                  /\ nx[x] # NULL => tag[nx[x]] = tag[x]
                  /\ ch[x] # NULL => tag[ch[x]] = tag[x]
  /\ \A x \in U : x = top[tag[x]] \/ \E y \in U : nx[y] = x \/ ch[y] = x

Forest(U, nx, ch, top, tag) ==
  Shape(U, nx, ch) /\ Grounded(U, nx, ch) /\ Rooted(U, nx, ch, top, tag)

\* f and g are the same on U; f is never p on U; the tags t have become k.
Agree(U, f, g) == \A x \in U : f[x] = g[x]
Avoids(U, f, p) == \A x \in U : f[x] # p
Retagged(U, tag2, tag, t, k) == \A x \in U : tag2[x] = IF tag[x] = t THEN k ELSE tag[x]

\* Next and child play the same part in a forest.
LEMMA SwapForest ==
  ASSUME NEW U, NEW nx, NEW ch, NEW top, NEW tag, Forest(U, nx, ch, top, tag)
  PROVE  Forest(U, ch, nx, top, tag)
<1>1. Shape(U, ch, nx) BY DEF Forest, Shape
<1>2. Grounded(U, ch, nx) BY DEF Forest, Grounded, Sourced, Ending
<1>3. Rooted(U, ch, nx, top, tag) BY DEF Forest, Rooted
<1> QED BY <1>1, <1>2, <1>3 DEF Forest

\* A forest is one by what its pointers are on its nodes.
LEMMA KeepForest ==
  ASSUME NEW U, NEW nx, NEW ch, NEW top, NEW tag, Forest(U, nx, ch, top, tag),
         NEW nx2, NEW ch2, NEW top2, Agree(U, nx2, nx), Agree(U, ch2, ch), Agree(Int, top2, top)
  PROVE  Forest(U, nx2, ch2, top2, tag)
<1>1. Shape(U, nx2, ch2) BY DEF Forest, Shape, Agree
<1>2. Grounded(U, nx2, ch2)
  <2> SUFFICES ASSUME NEW S \in SUBSET U, S # {} PROVE Sourced(S, nx2, ch2) /\ Ending(S, nx2, ch2)
    BY DEF Grounded
  <2>1. Sourced(S, nx, ch) /\ Ending(S, nx, ch) BY DEF Forest, Grounded
  <2> QED BY <2>1 DEF Sourced, Ending, Agree
<1>3. Rooted(U, nx2, ch2, top2, tag) BY DEF Forest, Rooted, Agree
<1> QED BY <1>1, <1>2, <1>3 DEF Forest

\* A new node with no pointers makes no circle.
LEMMA GrownGround ==
  ASSUME NEW U, NEW nx, NEW ch, Grounded(U, nx, ch), Shape(U, nx, ch),
         NEW n, n \notin U, n # NULL, NEW nx2, NEW ch2,
         Agree(U, nx2, nx), Agree(U, ch2, ch), nx2[n] = NULL, ch2[n] = NULL
  PROVE  Grounded(U \cup {n}, nx2, ch2)
<1> SUFFICES ASSUME NEW S \in SUBSET (U \cup {n}), S # {}
             PROVE  Sourced(S, nx2, ch2) /\ Ending(S, nx2, ch2)
  BY DEF Grounded
<1>0. NULL \notin S /\ \A x \in U : nx[x] # n /\ ch[x] # n BY DEF Shape
<1>1. CASE S = {n}
  BY <1>0, <1>1 DEF Sourced, Ending
<1>2. CASE S # {n}
  <2> DEFINE T == S \ {n}
  <2>1. T \in SUBSET U /\ T # {} BY <1>2
  <2>2. Sourced(T, nx, ch) /\ Ending(T, nx, ch) BY <2>1 DEF Grounded
  <2>3. Sourced(S, nx2, ch2)
    <3>1. PICK x \in T : \A y \in T : nx[y] # x /\ ch[y] # x BY <2>2 DEF Sourced
    <3>2. \A y \in S : nx2[y] # x /\ ch2[y] # x
      <4> TAKE y \in S
      <4>1. x # n /\ x \in U /\ x # NULL BY <2>1, <1>0
      <4>2. CASE y = n BY <4>1, <4>2
      <4>3. CASE y # n
        <5>1. y \in T /\ y \in U BY <4>3, <2>1
        <5> QED BY <5>1, <3>1, <4>1 DEF Agree
      <4> QED BY <4>2, <4>3
    <3> QED BY <3>2 DEF Sourced
  <2>4. Ending(S, nx2, ch2)
    <3>1. CASE n \in S BY <3>1, <1>0 DEF Ending
    <3>2. CASE n \notin S
      <4>1. T = S BY <3>2
      <4>2. PICK x \in S : nx[x] \notin S /\ ch[x] \notin S BY <2>2, <4>1 DEF Ending
      <4>3. x \in U BY <2>1, <4>1
      <4>4. nx2[x] \notin S /\ ch2[x] \notin S BY <4>2, <4>3, <3>2 DEF Agree
      <4> QED BY <4>4 DEF Ending
    <3> QED BY <3>1, <3>2
  <2> QED BY <2>3, <2>4
<1> QED BY <1>1, <1>2

\* A new node, and the holder it is the tree of.
LEMMA NewTree ==
  ASSUME NEW U, NEW nx, NEW ch, NEW top, NEW tag, Forest(U, nx, ch, top, tag),
         NEW n, n \notin U, n # NULL, NEW t \in Int, top[t] = NULL,
         NEW nx2, NEW ch2, NEW top2, NEW tag2,
         Agree(U, nx2, nx), Agree(U, ch2, ch), Agree(U, tag2, tag), Agree(Int \ {t}, top2, top),
         nx2[n] = NULL, ch2[n] = NULL, tag2[n] = t, top2[t] = n
  PROVE  Forest(U \cup {n}, nx2, ch2, top2, tag2)
<1>1. Shape(U \cup {n}, nx2, ch2) BY DEF Forest, Shape, Agree
<1>2. Grounded(U \cup {n}, nx2, ch2) BY GrownGround DEF Forest, Agree
<1>3. Rooted(U \cup {n}, nx2, ch2, top2, tag2)
  <2>0. NULL \notin U BY DEF Forest, Shape
  <2>9. \A x \in U : nx[x] # n /\ ch[x] # n BY DEF Forest, Shape
  <2>1. \A k \in Int : top2[k] \in U \cup {n} \cup {NULL} BY DEF Forest, Rooted, Agree
  <2>2. ASSUME NEW k \in Int, top2[k] # NULL
        PROVE  tag2[top2[k]] = k /\ \A x \in U \cup {n} : nx2[x] # top2[k] /\ ch2[x] # top2[k]
    <3>1. CASE k = t BY <3>1, <2>2, <2>9 DEF Agree
    <3>2. CASE k # t
      <4>1. top2[k] = top[k] /\ top[k] \in U BY <3>2, <2>2 DEF Agree, Forest, Rooted
      <4>2. tag[top[k]] = k /\ \A x \in U : nx[x] # top[k] /\ ch[x] # top[k]
        BY <4>1, <2>2 DEF Forest, Rooted
      <4> QED BY <4>1, <4>2, <2>2 DEF Agree
    <3> QED BY <3>1, <3>2
  <2>3. ASSUME NEW x \in U \cup {n}
        PROVE  /\ tag2[x] \in Int
               /\ nx2[x] # NULL => tag2[nx2[x]] = tag2[x]
               /\ ch2[x] # NULL => tag2[ch2[x]] = tag2[x]
    <3>1. CASE x = n BY <3>1
    <3>2. CASE x \in U
      <4>1. /\ tag[x] \in Int
            /\ nx[x] # NULL => tag[nx[x]] = tag[x] /\ nx[x] \in U
            /\ ch[x] # NULL => tag[ch[x]] = tag[x] /\ ch[x] \in U
        BY <3>2 DEF Forest, Rooted, Shape
      <4> QED BY <3>2, <4>1 DEF Agree
    <3> QED BY <3>1, <3>2
  <2>4. ASSUME NEW x \in U \cup {n}
        PROVE  x = top2[tag2[x]] \/ \E y \in U \cup {n} : nx2[y] = x \/ ch2[y] = x
    <3>1. CASE x = n BY <3>1
    <3>2. CASE x \in U
      <4>1. tag[x] \in Int /\ (x = top[tag[x]] \/ \E y \in U : nx[y] = x \/ ch[y] = x)
        BY <3>2 DEF Forest, Rooted
      <4>2. CASE x = top[tag[x]]
        <5>1. tag[x] # t BY <4>2, <2>0, <3>2
        <5> QED BY <5>1, <4>1, <4>2, <3>2 DEF Agree
      <4>3. CASE \E y \in U : nx[y] = x \/ ch[y] = x BY <4>3 DEF Agree
      <4> QED BY <4>1, <4>2, <4>3
    <3> QED BY <3>1, <3>2
  <2> QED BY <2>1, <2>2, <2>3, <2>4 DEF Rooted
<1> QED BY <1>1, <1>2, <1>3 DEF Forest

\* Tree t becomes the child of m.
LEMMA GraftTree ==
  ASSUME NEW U, NEW nx, NEW ch, NEW top, NEW tag, Forest(U, nx, ch, top, tag),
         NEW t \in Int, NEW m \in U, tag[m] # t, ch[m] = NULL,
         NEW nx2, NEW ch2, NEW top2, NEW tag2,
         Agree(U, nx2, nx), Agree(U \ {m}, ch2, ch), Agree(Int \ {t}, top2, top),
         Retagged(U, tag2, tag, t, tag[m]),
         ch2[m] = top[t], top2[t] = NULL
  PROVE  Forest(U, nx2, ch2, top2, tag2)
<1> DEFINE r == top[t]
<1>0. NULL \notin U /\ r \in U \cup {NULL}
      /\ (r # NULL => tag[r] = t /\ \A x \in U : nx[x] # r /\ ch[x] # r)
  BY DEF Forest, Shape, Rooted
<1>9. \A x \in U : /\ nx2[x] = nx[x] /\ (x # m => ch2[x] = ch[x])
                   /\ nx[x] \in U \cup {NULL} /\ ch[x] \in U \cup {NULL}
  BY DEF Forest, Shape, Agree
<1>8. ch2[m] = r OBVIOUS
<1>7. \A x \in U : tag2[x] = IF tag[x] = t THEN tag[m] ELSE tag[x]
  BY DEF Retagged
<1> HIDE DEF r
<1>1. Shape(U, nx2, ch2)
  <2>1. \A x \in U : nx2[x] \in U \cup {NULL} /\ ch2[x] \in U \cup {NULL}
    BY <1>0, <1>8, <1>9
  <2>2. \A x, y \in U : nx2[x] = nx2[y] => x = y \/ nx2[x] = NULL
    BY <1>9 DEF Forest, Shape
  <2>3. \A x, y \in U : ch2[x] = ch2[y] => x = y \/ ch2[x] = NULL
    BY <1>0, <1>8, <1>9 DEF Forest, Shape
  <2>4. \A x, y \in U : nx2[x] = ch2[y] => nx2[x] = NULL
    BY <1>0, <1>8, <1>9 DEF Forest, Shape
  <2> QED BY <1>0, <2>1, <2>2, <2>3, <2>4 DEF Shape
<1>2. Grounded(U, nx2, ch2)
  <2> SUFFICES ASSUME NEW S \in SUBSET U, S # {} PROVE Sourced(S, nx2, ch2) /\ Ending(S, nx2, ch2)
    BY DEF Grounded
  <2> DEFINE In == {x \in S : tag[x] = t}
             Out == {x \in S : tag[x] # t}
  <2>1. \A x \in U : /\ nx[x] # NULL => tag[nx[x]] = tag[x]
                     /\ ch[x] # NULL => tag[ch[x]] = tag[x]
    BY DEF Forest, Rooted
  <2>2. Sourced(S, nx2, ch2)
    <3>1. CASE Out # {}
      <4>1. PICK x \in Out : \A y \in Out : nx[y] # x /\ ch[y] # x
        <5>1. Out \in SUBSET U OBVIOUS
        <5>2. Sourced(Out, nx, ch) BY <3>1, <5>1 DEF Forest, Grounded
        <5> QED BY <5>2 DEF Sourced
      <4>2. x \in U /\ x # NULL /\ tag[x] # t /\ x \in S BY <1>0
      <4>3. ASSUME NEW y \in S PROVE nx2[y] # x /\ ch2[y] # x
        <5>1. CASE y \in Out BY <5>1, <4>1, <4>2, <1>0, <1>8, <1>9
        <5>2. CASE y \notin Out
          <6>1. tag[y] = t /\ y # m /\ y \in U BY <5>2
          <6> QED BY <6>1, <2>1, <4>2, <1>9
        <5> QED BY <5>1, <5>2
      <4> QED BY <4>2, <4>3 DEF Sourced
    <3>2. CASE Out = {}
      <4>1. \A y \in S : tag[y] = t /\ y # m /\ y \in U BY <3>2
      <4>2. PICK x \in S : \A y \in S : nx[y] # x /\ ch[y] # x
        BY DEF Forest, Grounded, Sourced
      <4>3. \A y \in S : nx2[y] # x /\ ch2[y] # x BY <4>1, <4>2, <1>9
      <4> QED BY <4>3 DEF Sourced
    <3> QED BY <3>1, <3>2
  <2>3. Ending(S, nx2, ch2)
    <3>1. CASE In # {}
      <4>1. PICK x \in In : nx[x] \notin In /\ ch[x] \notin In
        <5>1. In \in SUBSET U OBVIOUS
        <5>2. Ending(In, nx, ch) BY <3>1, <5>1 DEF Forest, Grounded
        <5> QED BY <5>2 DEF Ending
      <4>2. x \in S /\ x \in U /\ tag[x] = t /\ x # m BY <4>1
      <4>3. nx2[x] \notin S /\ ch2[x] \notin S
        <5>1. nx2[x] = nx[x] /\ ch2[x] = ch[x] BY <4>2, <1>9
        <5>2. nx[x] \in S => nx[x] \in In BY <2>1, <4>2, <1>0
        <5>3. ch[x] \in S => ch[x] \in In BY <2>1, <4>2, <1>0
        <5> QED BY <5>1, <5>2, <5>3, <4>1
      <4> QED BY <4>2, <4>3 DEF Ending
    <3>2. CASE In = {}
      <4>1. r \notin S BY <3>2, <1>0
      <4>2. PICK x \in S : nx[x] \notin S /\ ch[x] \notin S
        BY DEF Forest, Grounded, Ending
      <4>3. nx2[x] \notin S /\ ch2[x] \notin S BY <4>1, <4>2, <1>8, <1>9
      <4> QED BY <4>3 DEF Ending
    <3> QED BY <3>1, <3>2
  <2> QED BY <2>2, <2>3
<1>3. Rooted(U, nx2, ch2, top2, tag2)
  <2>1. \A k \in Int : top2[k] \in U \cup {NULL} BY DEF Forest, Rooted, Agree
  <2>2. ASSUME NEW k \in Int, top2[k] # NULL
        PROVE  tag2[top2[k]] = k /\ \A x \in U : nx2[x] # top2[k] /\ ch2[x] # top2[k]
    <3>1. k # t /\ top2[k] = top[k] /\ top[k] \in U BY <2>2 DEF Agree, Forest, Rooted
    <3>2. tag[top[k]] = k /\ \A x \in U : nx[x] # top[k] /\ ch[x] # top[k]
        BY <3>1, <2>2 DEF Forest, Rooted
    <3>3. top[k] # r BY <3>1, <3>2, <1>0
    <3> QED BY <3>1, <3>2, <3>3, <1>7, <1>8, <1>9
  <2>3. ASSUME NEW x \in U
        PROVE  /\ tag2[x] \in Int
               /\ nx2[x] # NULL => tag2[nx2[x]] = tag2[x]
               /\ ch2[x] # NULL => tag2[ch2[x]] = tag2[x]
    <3>1. /\ tag[x] \in Int /\ tag[m] \in Int
          /\ nx[x] # NULL => tag[nx[x]] = tag[x] /\ nx[x] \in U
          /\ ch[x] # NULL => tag[ch[x]] = tag[x] /\ ch[x] \in U
      BY DEF Forest, Rooted, Shape
    <3>2. CASE x # m BY <3>1, <3>2, <1>7, <1>9
    <3>3. CASE x = m BY <3>1, <3>3, <1>0, <1>7, <1>8, <1>9
    <3> QED BY <3>2, <3>3
  <2>4. ASSUME NEW x \in U
        PROVE  x = top2[tag2[x]] \/ \E y \in U : nx2[y] = x \/ ch2[y] = x
    <3>1. tag[x] \in Int /\ (x = top[tag[x]] \/ \E y \in U : nx[y] = x \/ ch[y] = x)
      BY DEF Forest, Rooted
    <3>2. CASE x = top[tag[x]] /\ tag[x] # t BY <3>1, <3>2, <1>7 DEF Agree
    <3>3. CASE x = top[tag[x]] /\ tag[x] = t BY <3>3, <1>8 DEF r
    <3>4. ASSUME NEW y \in U, nx[y] = x \/ ch[y] = x
          PROVE  nx2[y] = x \/ ch2[y] = x
      BY <3>4, <1>0, <1>9
    <3> QED BY <3>1, <3>2, <3>3, <3>4
  <2> QED BY <2>1, <2>2, <2>3, <2>4 DEF Rooted
<1> QED BY <1>1, <1>2, <1>3 DEF Forest

\* The pointers of D lead to D.
Closed(D, nx, ch) == \A x \in D : nx[x] \in D \cup {NULL} /\ ch[x] \in D \cup {NULL}

\* D is what can be reached from r.
Reached(D, r, U, nx, ch) ==
  /\ D \in SUBSET U /\ r \in D /\ Closed(D, nx, ch)
  /\ \A C \in SUBSET U : r \in C /\ Closed(C, nx, ch) => D \subseteq C

\* A tree that is cut down leaves a forest, and was what bore its tag.
LEMMA PruneTree ==
  ASSUME NEW U, NEW nx, NEW ch, NEW top, NEW tag, Forest(U, nx, ch, top, tag),
         NEW t \in Int, NEW D, Reached(D, top[t], U, nx, ch), top[t] # NULL,
         NEW nx2, NEW ch2, NEW top2,
         Agree(U \ D, nx2, nx), Agree(U \ D, ch2, ch), Agree(Int \ {t}, top2, top), top2[t] = NULL
  PROVE  /\ Forest(U \ D, nx2, ch2, top2, tag)
         /\ \A x \in D : tag[x] = t
<1> DEFINE r == top[t]
<1>0. /\ NULL \notin U /\ D \subseteq U /\ r \in D /\ r \in U
      /\ tag[r] = t /\ \A x \in U : nx[x] # r /\ ch[x] # r
  BY DEF Forest, Shape, Rooted, Reached
<1>1. \A x \in D : nx[x] \in D \cup {NULL} /\ ch[x] \in D \cup {NULL}
  BY DEF Reached, Closed
<1>2. \A C \in SUBSET U : r \in C /\ Closed(C, nx, ch) => D \subseteq C
  BY DEF Reached
<1>3. \A x \in U : /\ nx[x] \in U \cup {NULL} /\ ch[x] \in U \cup {NULL}
                   /\ nx[x] # NULL => tag[nx[x]] = tag[x]
                   /\ ch[x] # NULL => tag[ch[x]] = tag[x]
  BY DEF Forest, Shape, Rooted
<1>4. \A x \in U \ D : nx2[x] = nx[x] /\ ch2[x] = ch[x]
  BY DEF Agree
<1>20. \A k \in Int : k # t => top2[k] = top[k]
  BY DEF Agree
<1>21. top2[t] = NULL /\ r = top[t]
  OBVIOUS
<1> HIDE DEF r
<1>5. \A x \in D : tag[x] = t
  <2> DEFINE C == {x \in U : tag[x] = t}
  <2>1. C \in SUBSET U /\ r \in C BY <1>0
  <2>2. Closed(C, nx, ch) BY <1>3 DEF Closed
  <2>3. D \subseteq C BY <2>1, <2>2, <1>2
  <2> QED BY <2>3
<1>6. ASSUME NEW x \in D, x # r PROVE \E y \in D : nx[y] = x \/ ch[y] = x
  <2> SUFFICES ASSUME \A y \in D : nx[y] # x /\ ch[y] # x PROVE FALSE
    OBVIOUS
  <2> DEFINE C == D \ {x}
  <2>1. C \in SUBSET U /\ r \in C BY <1>0, <1>6
  <2>2. Closed(C, nx, ch) BY <1>1 DEF Closed
  <2>3. D \subseteq C BY <2>1, <2>2, <1>2
  <2> QED BY <2>3
<1>7. ASSUME NEW x \in U \ D PROVE nx[x] \notin D /\ ch[x] \notin D
  <2>1. ASSUME NEW y \in D, nx[x] = y \/ ch[x] = y PROVE FALSE
    <3>1. y # r /\ y # NULL BY <1>0, <2>1
    <3>2. PICK z \in D : nx[z] = y \/ ch[z] = y BY <3>1, <1>6
    <3>3. z \in U /\ z # x BY <1>0
    <3> QED BY <2>1, <3>1, <3>2, <3>3 DEF Forest, Shape
  <2> QED BY <2>1
<1>8. Shape(U \ D, nx2, ch2)
  <2>1. \A x \in U \ D : nx2[x] \in (U \ D) \cup {NULL} /\ ch2[x] \in (U \ D) \cup {NULL}
    BY <1>3, <1>4, <1>7
  <2>2. \A x, y \in U \ D : nx2[x] = nx2[y] => x = y \/ nx2[x] = NULL
    BY <1>4 DEF Forest, Shape
  <2>3. \A x, y \in U \ D : ch2[x] = ch2[y] => x = y \/ ch2[x] = NULL
    BY <1>4 DEF Forest, Shape
  <2>4. \A x, y \in U \ D : nx2[x] = ch2[y] => nx2[x] = NULL
    BY <1>4 DEF Forest, Shape
  <2> QED BY <1>0, <2>1, <2>2, <2>3, <2>4 DEF Shape
<1>9. Grounded(U \ D, nx2, ch2)
  <2> SUFFICES ASSUME NEW S \in SUBSET (U \ D), S # {}
               PROVE  Sourced(S, nx2, ch2) /\ Ending(S, nx2, ch2)
    BY DEF Grounded
  <2>1. Sourced(S, nx, ch) /\ Ending(S, nx, ch) BY DEF Forest, Grounded
  <2>2. \A x \in S : nx2[x] = nx[x] /\ ch2[x] = ch[x] BY <1>4
  <2> QED BY <2>1, <2>2 DEF Sourced, Ending
<1>10. Rooted(U \ D, nx2, ch2, top2, tag)
  <2>1. ASSUME NEW k \in Int, top2[k] # NULL
        PROVE  /\ k # t /\ top2[k] = top[k] /\ top[k] \in U \ D /\ tag[top[k]] = k
               /\ \A x \in U : nx[x] # top[k] /\ ch[x] # top[k]
    <3>1. k # t /\ top2[k] = top[k] BY <1>20, <1>21, <2>1
    <3>2. top[k] \in U /\ tag[top[k]] = k /\ \A x \in U : nx[x] # top[k] /\ ch[x] # top[k]
      BY <3>1, <2>1 DEF Forest, Rooted
    <3> QED BY <3>1, <3>2, <1>5
  <2>2. \A k \in Int : top2[k] \in (U \ D) \cup {NULL} BY <2>1
  <2>3. \A k \in Int : top2[k] # NULL =>
           tag[top2[k]] = k /\ \A x \in U \ D : nx2[x] # top2[k] /\ ch2[x] # top2[k]
    BY <2>1, <1>4
  <2>4. \A x \in U \ D : /\ tag[x] \in Int
                         /\ nx2[x] # NULL => tag[nx2[x]] = tag[x]
                         /\ ch2[x] # NULL => tag[ch2[x]] = tag[x]
    BY <1>3, <1>4 DEF Forest, Rooted
  <2>5. ASSUME NEW x \in U \ D
        PROVE  x = top2[tag[x]] \/ \E y \in U \ D : nx2[y] = x \/ ch2[y] = x
    <3>1. tag[x] \in Int /\ (x = top[tag[x]] \/ \E y \in U : nx[y] = x \/ ch[y] = x)
      BY DEF Forest, Rooted
    <3>2. CASE x = top[tag[x]]
      <4>1. tag[x] # t BY <3>2, <1>0, <1>21
      <4> QED BY <3>1, <3>2, <4>1, <1>20
    <3>3. ASSUME NEW y \in U, nx[y] = x \/ ch[y] = x
          PROVE  y \in U \ D /\ (nx2[y] = x \/ ch2[y] = x)
      <4>1. y \notin D BY <3>3, <1>0, <1>1
      <4> QED BY <4>1, <3>3, <1>4
    <3> QED BY <3>1, <3>2, <3>3
  <2> QED BY <2>2, <2>3, <2>4, <2>5 DEF Rooted
<1> QED BY <1>5, <1>8, <1>9, <1>10 DEF Forest

\* A node that nothing holds on to does not exist.
LEMMA NoTreesNoNodes ==
  ASSUME NEW U, NEW nx, NEW ch, NEW top, NEW tag, Forest(U, nx, ch, top, tag),
         \A k \in Int : top[k] = NULL
  PROVE  U = {}
<1> SUFFICES ASSUME U # {} PROVE FALSE
  OBVIOUS
<1>1. Sourced(U, nx, ch) BY DEF Forest, Grounded
<1>2. PICK x \in U : \A y \in U : nx[y] # x /\ ch[y] # x BY <1>1 DEF Sourced
<1>3. tag[x] \in Int /\ x = top[tag[x]] /\ x # NULL BY <1>2 DEF Forest, Rooted, Shape
<1> QED BY <1>3

\* z is the last of the nodes met along nx from c on.
LastFrom(U, nx, c, z) ==
  /\ z \in U /\ nx[z] = NULL
  /\ \A C \in SUBSET U : c \in C /\ (\A x \in C : nx[x] \in C \cup {NULL}) => z \in C

\* The links prev lead back, and from the first child to the last.
Chained(U, nx, ch, pv) ==
  /\ \A x \in U : nx[x] # NULL => pv[nx[x]] = x
  /\ \A m \in U : ch[m] # NULL => LastFrom(U, nx, ch[m], pv[ch[m]])

\* The last of a list is in the tree of the others.
LEMMA LastTag ==
  ASSUME NEW U, NEW nx, NEW ch, NEW top, NEW tag, Forest(U, nx, ch, top, tag),
         NEW c \in U, NEW z, LastFrom(U, nx, c, z)
  PROVE  tag[z] = tag[c]
<1> DEFINE C == {x \in U : tag[x] = tag[c]}
<1>1. C \in SUBSET U /\ c \in C /\ \A x \in C : nx[x] \in C \cup {NULL}
  BY DEF Forest, Shape, Rooted
<1>2. z \in C BY <1>1 DEF LastFrom
<1> QED BY <1>2

\* A node with no next is the last of its list.
LEMMA LastAlone ==
  ASSUME NEW U, NEW nx, NEW c \in U, nx[c] = NULL
  PROVE  LastFrom(U, nx, c, c)
BY DEF LastFrom

\* More nodes leave a list its last one.
LEMMA LastKept ==
  ASSUME NEW U, NEW nx, NEW V, NEW nx2, U \subseteq V, NULL \notin U, Agree(U, nx2, nx),
         \A x \in U : nx[x] \in U \cup {NULL},
         NEW c \in U, NEW z, LastFrom(U, nx, c, z)
  PROVE  LastFrom(V, nx2, c, z)
<1>1. z \in V /\ nx2[z] = NULL BY DEF LastFrom, Agree
<1>2. ASSUME NEW C \in SUBSET V, c \in C, \A x \in C : nx2[x] \in C \cup {NULL} PROVE z \in C
  <2>1. C \cap U \in SUBSET U /\ c \in C \cap U BY <1>2
  <2>2. \A x \in C \cap U : nx[x] \in (C \cap U) \cup {NULL} BY <1>2 DEF Agree
  <2> QED BY <2>1, <2>2 DEF LastFrom
<1> QED BY <1>1, <1>2 DEF LastFrom

\* A list that is cut off the rest keeps its last node.
LEMMA LastLeft ==
  ASSUME NEW U, NEW nx, NEW V, NEW nx2, V \subseteq U, NULL \notin U, Agree(V, nx2, nx),
         \A x \in V : nx[x] \in V \cup {NULL},
         NEW c \in V, NEW z, LastFrom(U, nx, c, z)
  PROVE  LastFrom(V, nx2, c, z)
<1>1. z \in V BY DEF LastFrom
<1>2. nx2[z] = NULL BY <1>1 DEF LastFrom, Agree
<1>3. ASSUME NEW C \in SUBSET V, c \in C, \A x \in C : nx2[x] \in C \cup {NULL} PROVE z \in C
  <2>1. C \in SUBSET U /\ \A x \in C : nx[x] \in C \cup {NULL} BY <1>3 DEF Agree
  <2> QED BY <2>1, <1>3 DEF LastFrom
<1> QED BY <1>1, <1>2, <1>3 DEF LastFrom

\* What every set that has c and is closed under nx has.
Along(U, nx, c) ==
  {x \in U : \A C \in SUBSET U : c \in C /\ (\A y \in C : nx[y] \in C \cup {NULL}) => x \in C}

\* What can be reached along nx is closed under it, and is reached.
LEMMA AlongFacts ==
  ASSUME NEW U, NEW nx, \A x \in U : nx[x] \in U \cup {NULL}, NEW c \in U
  PROVE  /\ Along(U, nx, c) \in SUBSET U /\ c \in Along(U, nx, c)
         /\ \A x \in Along(U, nx, c) : nx[x] \in Along(U, nx, c) \cup {NULL}
         /\ \A x \in Along(U, nx, c) : x # c => \E y \in Along(U, nx, c) : nx[y] = x
<1> DEFINE A == Along(U, nx, c)
<1>1. A \in SUBSET U /\ c \in A BY DEF Along
<1>2. ASSUME NEW x \in A, nx[x] # NULL PROVE nx[x] \in A
  <2>1. nx[x] \in U BY <1>1, <1>2
  <2>2. ASSUME NEW C \in SUBSET U, c \in C, \A y \in C : nx[y] \in C \cup {NULL}
        PROVE  nx[x] \in C
    <3>1. x \in C BY <2>2 DEF Along
    <3> QED BY <3>1, <2>2, <1>2
  <2> QED BY <2>1, <2>2 DEF Along
<1>3. ASSUME NEW x \in A, x # c PROVE \E y \in A : nx[y] = x
  <2> SUFFICES ASSUME \A y \in A : nx[y] # x PROVE FALSE
    OBVIOUS
  <2> DEFINE C == A \ {x}
  <2>1. C \in SUBSET U /\ c \in C BY <1>1, <1>3
  <2>2. \A y \in C : nx[y] \in C \cup {NULL} BY <1>2
  <2>3. x \in C BY <2>1, <2>2 DEF Along
  <2> QED BY <2>3
<1> QED BY <1>1, <1>2, <1>3

\* Two lists that end in one node are one list.
LEMMA SameLast ==
  ASSUME NEW U, NEW nx, NEW ch, Shape(U, nx, ch), Grounded(U, nx, ch),
         NEW a \in U, NEW b \in U, NEW z,
         Avoids(U, nx, a), Avoids(U, nx, b),
         LastFrom(U, nx, a, z), LastFrom(U, nx, b, z)
  PROVE  a = b
<1> SUFFICES ASSUME a # b PROVE FALSE
  OBVIOUS
<1> DEFINE A == Along(U, nx, a)
           B == Along(U, nx, b)
           S == A \cap B
<1>0. NULL \notin U /\ \A x \in U : nx[x] \in U \cup {NULL} BY DEF Shape
<1>10. \A c \in U :
         /\ Along(U, nx, c) \in SUBSET U /\ c \in Along(U, nx, c)
         /\ \A x \in Along(U, nx, c) : nx[x] \in Along(U, nx, c) \cup {NULL}
         /\ \A x \in Along(U, nx, c) : x # c => \E y \in Along(U, nx, c) : nx[y] = x
  BY <1>0, AlongFacts
<1>1. /\ A \in SUBSET U /\ a \in A /\ (\A x \in A : nx[x] \in A \cup {NULL})
      /\ \A x \in A : x # a => \E y \in A : nx[y] = x
  BY <1>10
<1>2. /\ B \in SUBSET U /\ b \in B /\ (\A x \in B : nx[x] \in B \cup {NULL})
      /\ \A x \in B : x # b => \E y \in B : nx[y] = x
  BY <1>10
<1> HIDE DEF A, B
<1>3. z \in S BY <1>1, <1>2 DEF LastFrom
<1>4. S \in SUBSET U /\ S # {} BY <1>1, <1>3
<1>5. PICK x \in S : \A y \in S : nx[y] # x BY <1>4 DEF Grounded, Sourced
<1>6. x \in U /\ x # NULL BY <1>0, <1>4
<1>7. CASE x # a /\ x # b
  <2>1. PICK y \in A : nx[y] = x BY <1>1, <1>7
  <2>2. PICK w \in B : nx[w] = x BY <1>2, <1>7
  <2>3. y = w BY <2>1, <2>2, <1>1, <1>2, <1>6 DEF Shape
  <2> QED BY <2>1, <2>2, <2>3, <1>5
<1>8. CASE x = a
  <2>1. PICK w \in B : nx[w] = x BY <1>2, <1>8
  <2> QED BY <2>1, <1>2, <1>8 DEF Avoids
<1>9. CASE x = b
  <2>1. PICK w \in A : nx[w] = x BY <1>1, <1>9
  <2> QED BY <2>1, <1>1, <1>9 DEF Avoids
<1> QED BY <1>7, <1>8, <1>9

\* A new node with no pointers leaves the links prev in order.
LEMMA NewChained ==
  ASSUME NEW U, NEW nx, NEW ch, NEW pv, Shape(U, nx, ch), Chained(U, nx, ch, pv),
         NEW n, n \notin U, n # NULL, NEW nx2, NEW ch2, NEW pv2,
         Agree(U, nx2, nx), Agree(U, ch2, ch), Agree(U, pv2, pv), nx2[n] = NULL, ch2[n] = NULL
  PROVE  Chained(U \cup {n}, nx2, ch2, pv2)
<1>1. ASSUME NEW x \in U \cup {n}, nx2[x] # NULL PROVE pv2[nx2[x]] = x
  <2>1. x \in U /\ nx2[x] = nx[x] /\ nx[x] \in U BY <1>1 DEF Agree, Shape
  <2> QED BY <1>1, <2>1 DEF Agree, Chained
<1>2. ASSUME NEW m \in U \cup {n}, ch2[m] # NULL
      PROVE  LastFrom(U \cup {n}, nx2, ch2[m], pv2[ch2[m]])
  <2>1. m \in U /\ ch2[m] = ch[m] /\ ch[m] \in U BY <1>2 DEF Agree, Shape
  <2>2. LastFrom(U, nx, ch[m], pv[ch[m]]) /\ pv2[ch[m]] = pv[ch[m]]
    BY <1>2, <2>1 DEF Chained, Agree
  <2>3. U \subseteq U \cup {n} /\ NULL \notin U /\ \A x \in U : nx[x] \in U \cup {NULL}
    BY DEF Shape
  <2>4. LastFrom(U \cup {n}, nx2, ch[m], pv[ch[m]]) BY <2>1, <2>2, <2>3, LastKept
  <2> QED BY <2>1, <2>2, <2>4
<1> QED BY <1>1, <1>2 DEF Chained

\* So does a list that becomes the children of m, if its first knows its last.
LEMMA ChildChained ==
  ASSUME NEW U, NEW nx, NEW ch, NEW pv, Shape(U, nx, ch), Chained(U, nx, ch, pv),
         NEW m \in U, ch[m] = NULL, NEW r \in U, Avoids(U, nx, r), Avoids(U, ch, r),
         NEW nx2, NEW ch2, NEW pv2,
         Agree(U, nx2, nx), Agree(U \ {m}, ch2, ch), Agree(U \ {r}, pv2, pv),
         ch2[m] = r, LastFrom(U, nx, r, pv2[r])
  PROVE  Chained(U, nx2, ch2, pv2)
<1>0. NULL \notin U /\ \A x \in U : nx[x] \in U \cup {NULL} /\ ch[x] \in U \cup {NULL}
  BY DEF Shape
<1>1. ASSUME NEW x \in U, nx2[x] # NULL PROVE pv2[nx2[x]] = x
  <2>1. nx2[x] = nx[x] /\ nx[x] \in U \ {r} BY <1>1, <1>0 DEF Agree, Avoids
  <2> QED BY <1>1, <2>1 DEF Agree, Chained
<1>2. ASSUME NEW a \in U, ch2[a] # NULL
      PROVE  LastFrom(U, nx2, ch2[a], pv2[ch2[a]])
  <2>1. LastFrom(U, nx, ch2[a], pv2[ch2[a]]) /\ ch2[a] \in U
    <3>1. CASE a = m BY <3>1
    <3>2. CASE a # m
      <4>1. ch2[a] = ch[a] /\ ch[a] \in U \ {r} BY <3>2, <1>2, <1>0 DEF Agree, Avoids
      <4> QED BY <4>1, <1>2 DEF Chained, Agree
    <3> QED BY <3>1, <3>2
  <2> QED BY <2>1, <1>0, LastKept
<1> QED BY <1>1, <1>2 DEF Chained

\* So does a node r put after c, the last one of the list from f on, if f then
\* knows it as its last, or is nobody's child; other lists end where they did.
LEMMA NextChained ==
  ASSUME NEW U, NEW nx, NEW ch, NEW pv, Shape(U, nx, ch), Grounded(U, nx, ch),
         Chained(U, nx, ch, pv),
         NEW f \in U, NEW c \in U, LastFrom(U, nx, f, c), Avoids(U, nx, f),
         NEW r \in U, r # c, nx[r] = NULL, Avoids(U, nx, r), Avoids(U, ch, r),
         NEW nx2, NEW ch2, NEW pv2,
         Agree(U \ {c}, nx2, nx), Agree(U, ch2, ch), Agree(U \ {r, f}, pv2, pv),
         nx2[c] = r, pv2[r] = c,
         pv2[f] = r \/ (pv2[f] = pv[f] /\ Avoids(U, ch, f))
  PROVE  /\ Chained(U, nx2, ch2, pv2)
         /\ LastFrom(U, nx2, f, r)
         /\ \A b \in U : \A z : b # f /\ Avoids(U, nx, b) /\ LastFrom(U, nx, b, z)
              => LastFrom(U, nx2, b, z)
<1>0. /\ NULL \notin U /\ \A x \in U : nx[x] \in U \cup {NULL} /\ ch[x] \in U \cup {NULL}
      /\ nx[c] = NULL /\ c # NULL /\ r # NULL
  BY DEF Shape, LastFrom
<1>1. \A x \in U : x # c => nx2[x] = nx[x]
  BY DEF Agree
<1>2. ASSUME NEW C \in SUBSET U, \A x \in C : nx2[x] \in C \cup {NULL}
      PROVE  \A x \in C : nx[x] \in C \cup {NULL}
  <2> TAKE x \in C
  <2>1. CASE x = c BY <2>1, <1>0
  <2>2. CASE x # c BY <2>2, <1>1, <1>2
  <2> QED BY <2>1, <2>2
<1>3. LastFrom(U, nx2, f, r)
  <2>1. nx2[r] = NULL BY <1>1
  <2>2. ASSUME NEW C \in SUBSET U, f \in C, \A x \in C : nx2[x] \in C \cup {NULL} PROVE r \in C
    <3>1. c \in C BY <2>2, <1>2 DEF LastFrom
    <3> QED BY <3>1, <2>2, <1>0
  <2> QED BY <2>1, <2>2 DEF LastFrom
<1>4. ASSUME NEW b \in U, NEW z, b # f, Avoids(U, nx, b), LastFrom(U, nx, b, z)
      PROVE  LastFrom(U, nx2, b, z)
  <2>1. z # c
    BY <1>4, SameLast
  <2>2. z \in U /\ nx2[z] = NULL BY <2>1, <1>1, <1>4 DEF LastFrom
  <2>3. ASSUME NEW C \in SUBSET U, b \in C, \A x \in C : nx2[x] \in C \cup {NULL} PROVE z \in C
    BY <2>3, <1>2, <1>4 DEF LastFrom
  <2> QED BY <2>2, <2>3 DEF LastFrom
<1>5. f # r
  <2> SUFFICES ASSUME f = r PROVE FALSE
    OBVIOUS
  <2>1. {r} \in SUBSET U /\ f \in {r} /\ \A x \in {r} : nx[x] \in {r} \cup {NULL}
    OBVIOUS
  <2>2. c \in {r} BY <2>1 DEF LastFrom
  <2> QED BY <2>2
<1>6. ASSUME NEW x \in U, nx2[x] # NULL PROVE pv2[nx2[x]] = x
  <2>1. CASE x = c BY <2>1
  <2>2. CASE x # c
    <3>1. nx2[x] = nx[x] /\ nx[x] \in U \ {r, f} BY <2>2, <1>1, <1>6, <1>0 DEF Avoids
    <3> QED BY <1>6, <3>1 DEF Agree, Chained
  <2> QED BY <2>1, <2>2
<1>7. ASSUME NEW a \in U, ch2[a] # NULL
      PROVE  LastFrom(U, nx2, ch2[a], pv2[ch2[a]])
  <2>1. ch2[a] = ch[a] /\ ch[a] \in U /\ ch[a] # r BY <1>7, <1>0 DEF Agree, Avoids
  <2>2. CASE ch[a] = f BY <2>1, <2>2, <1>3 DEF Avoids
  <2>3. CASE ch[a] # f
    <3>1. LastFrom(U, nx, ch[a], pv[ch[a]]) BY <1>7, <2>1 DEF Chained
    <3>2. pv2[ch[a]] = pv[ch[a]] BY <2>1, <2>3 DEF Agree
    <3>3. Avoids(U, nx, ch[a]) BY <2>1, <1>0 DEF Shape, Avoids
    <3>4. LastFrom(U, nx2, ch[a], pv[ch[a]]) BY <2>1, <2>3, <3>1, <3>3, <1>4
    <3> QED BY <2>1, <3>2, <3>4
  <2> QED BY <2>2, <2>3
<1>8. Chained(U, nx2, ch2, pv2) BY <1>6, <1>7 DEF Chained
<1> QED BY <1>3, <1>4, <1>8

\* So does taking out nodes that no node left points to.
LEMMA PruneChained ==
  ASSUME NEW U, NEW nx, NEW ch, NEW pv, Shape(U, nx, ch), Chained(U, nx, ch, pv),
         NEW V, V \subseteq U, NEW nx2, NEW ch2, NEW pv2,
         Agree(V, nx2, nx), Agree(V, ch2, ch), Agree(V, pv2, pv), Shape(V, nx2, ch2)
  PROVE  /\ Chained(V, nx2, ch2, pv2)
         /\ \A b \in V : \A z : LastFrom(U, nx, b, z) => LastFrom(V, nx2, b, z)
<1>0. /\ NULL \notin U /\ \A x \in V : nx[x] \in V \cup {NULL} /\ ch[x] \in V \cup {NULL}
      /\ \A x \in V : nx2[x] = nx[x] /\ ch2[x] = ch[x] /\ pv2[x] = pv[x]
  BY DEF Shape, Agree
<1>1. ASSUME NEW b \in V, NEW z, LastFrom(U, nx, b, z) PROVE LastFrom(V, nx2, b, z)
  BY <1>0, <1>1, LastLeft
<1>2. \A x \in V : nx2[x] # NULL => pv2[nx2[x]] = x
  BY <1>0 DEF Chained
<1>3. ASSUME NEW m \in V, ch2[m] # NULL PROVE LastFrom(V, nx2, ch2[m], pv2[ch2[m]])
  <2>1. ch2[m] = ch[m] /\ ch[m] \in V /\ pv2[ch[m]] = pv[ch[m]] BY <1>0, <1>3
  <2>2. LastFrom(U, nx, ch[m], pv[ch[m]]) BY <1>3, <2>1 DEF Chained
  <2> QED BY <2>1, <2>2, <1>1
<1> QED BY <1>1, <1>2, <1>3 DEF Chained

\* The last child of a node is another node.
LEMMA LastIsBelow ==
  ASSUME NEW U, NEW nx, NEW ch, Shape(U, nx, ch), Grounded(U, nx, ch),
         NEW m \in U, ch[m] # NULL, NEW z, LastFrom(U, nx, ch[m], z)
  PROVE  z # m
<1> SUFFICES ASSUME z = m PROVE FALSE
  OBVIOUS
<1> DEFINE A == Along(U, nx, ch[m])
<1>0. ch[m] \in U /\ NULL \notin U /\ \A x \in U : nx[x] \in U \cup {NULL} BY DEF Shape
<1>10. \A c \in U :
         /\ Along(U, nx, c) \in SUBSET U /\ c \in Along(U, nx, c)
         /\ \A x \in Along(U, nx, c) : nx[x] \in Along(U, nx, c) \cup {NULL}
         /\ \A x \in Along(U, nx, c) : x # c => \E y \in Along(U, nx, c) : nx[y] = x
  BY <1>0, AlongFacts
<1>1. /\ A \in SUBSET U /\ ch[m] \in A /\ (\A x \in A : nx[x] \in A \cup {NULL})
      /\ \A x \in A : x # ch[m] => \E y \in A : nx[y] = x
  BY <1>0, <1>10
<1> HIDE DEF A
<1>2. m \in A BY <1>1 DEF LastFrom
<1>3. PICK x \in A : \A y \in A : nx[y] # x /\ ch[y] # x BY <1>1 DEF Grounded, Sourced
<1> QED BY <1>1, <1>2, <1>3

\* No node has the tag of a holder that points nowhere.
LEMMA TagHasTree ==
  ASSUME NEW U, NEW nx, NEW ch, NEW top, NEW tag, Forest(U, nx, ch, top, tag),
         NEW t \in Int, top[t] = NULL
  PROVE  \A x \in U : tag[x] # t
<1> DEFINE S == {x \in U : tag[x] = t}
<1> SUFFICES ASSUME S # {} PROVE FALSE
  OBVIOUS
<1>1. S \in SUBSET U OBVIOUS
<1>2. PICK x \in S : \A y \in S : nx[y] # x /\ ch[y] # x
  BY <1>1 DEF Forest, Grounded, Sourced
<1>3. x \in U /\ tag[x] = t /\ x # NULL BY DEF Forest, Shape
<1>4. PICK y \in U : nx[y] = x \/ ch[y] = x BY <1>3 DEF Forest, Rooted
<1>5. tag[y] = t BY <1>3, <1>4 DEF Forest, Rooted
<1> QED BY <1>2, <1>4, <1>5

(***************************************************************************)
(* The heap as a forest.                                                   *)
(***************************************************************************)
\* The pointers of the nodes of a heap.
Nexts(h) == [n \in DOMAIN h |-> h[n].next]
Firsts(h) == [n \in DOMAIN h |-> h[n].child]
Prevs(h) == [n \in DOMAIN h |-> h[n].prev]

\* The recursion of cJSON_Delete.
Under(h, u) ==
  u = [c \in Nodes \cup {NULL} |->
         IF c \notin DOMAIN h THEN {} ELSE {c} \cup u[h[c].next] \cup u[h[c].child]]

Meeting(h, c) ==
  {x \in DOMAIN h : \A C \in SUBSET DOMAIN h :
     c \in C /\ Closed(C, Nexts(h), Firsts(h)) => x \in C}

\* The recursion of cJSON_Delete comes to an end in a forest of any shape.
LEMMA UnderExists ==
  ASSUME NEW h, DOMAIN h \subseteq Nodes, NULL \notin Nodes,
         Shape(DOMAIN h, Nexts(h), Firsts(h))
  PROVE  \E u : Under(h, u)
<1> DEFINE U == DOMAIN h
           nx == Nexts(h)
           ch == Firsts(h)
           u == [c \in Nodes \cup {NULL} |-> IF c \in U THEN Meeting(h, c) ELSE {}]
<1>1. \A c \in U : nx[c] = h[c].next /\ ch[c] = h[c].child
                   /\ nx[c] \in U \cup {NULL} /\ ch[c] \in U \cup {NULL}
  BY DEF Nexts, Firsts, Shape
<1>2. U \subseteq Nodes /\ NULL \notin U
  OBVIOUS
<1>3. \A c \in U : u[c] = Meeting(h, c)
  BY <1>2
<1>4. u[NULL] = {}
  BY <1>2
<1>5. \A c, x : x \in Meeting(h, c) <=>
        x \in U /\ \A C \in SUBSET U : c \in C /\ Closed(C, nx, ch) => x \in C
  BY DEF Meeting
<1> HIDE DEF u, nx, ch, U
<1>6. ASSUME NEW c \in U
      PROVE  u[c] = {c} \cup u[nx[c]] \cup u[ch[c]]
  <2> DEFINE D == {c} \cup u[nx[c]] \cup u[ch[c]]
  <2>1. ASSUME NEW d \in {nx[c], ch[c]}
        PROVE  u[d] \subseteq Meeting(h, c) /\ (d # NULL => d \in u[d])
               /\ u[d] \subseteq U /\ Closed(u[d], nx, ch)
    <3>1. CASE d = NULL BY <3>1, <1>4 DEF Closed
    <3>2. CASE d # NULL
      <4>1. d \in U /\ u[d] = Meeting(h, d) BY <3>2, <1>1, <1>3
      <4>2. d \in Meeting(h, d) /\ Meeting(h, d) \subseteq U BY <4>1, <1>5
      <4>3. ASSUME NEW x \in Meeting(h, d) PROVE x \in Meeting(h, c)
        <5>1. ASSUME NEW C \in SUBSET U, c \in C, Closed(C, nx, ch) PROVE x \in C
          <6>1. d \in C BY <5>1, <3>2 DEF Closed
          <6> QED BY <6>1, <5>1, <4>3, <1>5
        <5> QED BY <5>1, <4>3, <1>5
      <4>4. ASSUME NEW x \in Meeting(h, d), NEW e \in {nx[x], ch[x]}
            PROVE  e \in Meeting(h, d) \cup {NULL}
        <5>1. x \in U /\ e \in U \cup {NULL} BY <4>2, <1>1
        <5>2. ASSUME NEW C \in SUBSET U, d \in C, Closed(C, nx, ch), e # NULL PROVE e \in C
          <6>1. x \in C BY <5>2, <1>5
          <6> QED BY <6>1, <5>2 DEF Closed
        <5> QED BY <5>1, <5>2, <1>5
      <4>5. Closed(Meeting(h, d), nx, ch) BY <4>4 DEF Closed
      <4> QED BY <4>1, <4>2, <4>3, <4>5
    <3> QED BY <3>1, <3>2
  <2>2. c \in Meeting(h, c) BY <1>5
  <2>3. D \subseteq Meeting(h, c) BY <2>1, <2>2
  <2>4. D \in SUBSET U /\ c \in D BY <2>1
  <2>5. Closed(D, nx, ch)
    <3>1. ASSUME NEW x \in D PROVE nx[x] \in D \cup {NULL} /\ ch[x] \in D \cup {NULL}
      <4>1. CASE x = c BY <4>1, <2>1
      <4>2. CASE x \in u[nx[c]] BY <4>2, <2>1 DEF Closed
      <4>3. CASE x \in u[ch[c]] BY <4>3, <2>1 DEF Closed
      <4> QED BY <4>1, <4>2, <4>3
    <3> QED BY <3>1 DEF Closed
  <2> HIDE DEF D
  <2>6. Meeting(h, c) \subseteq D
    BY <2>4, <2>5, <1>5
  <2>7. u[c] = D BY <2>3, <2>6, <1>3
  <2> QED BY <2>7 DEF D
<1>7. \A c \in Nodes \cup {NULL} :
        u[c] = IF c \notin DOMAIN h THEN {} ELSE {c} \cup u[h[c].next] \cup u[h[c].child]
  <2> TAKE c \in Nodes \cup {NULL}
  <2>1. CASE c \in U BY <2>1, <1>1, <1>6 DEF U
  <2>2. CASE c \notin U
    <3>1. u[c] = {} BY <2>2 DEF u
    <3> QED BY <3>1, <2>2 DEF U
  <2> QED BY <2>1, <2>2
<1>8. u = [c \in Nodes \cup {NULL} |-> u[c]]
  BY DEF u
<1>9. u = [c \in Nodes \cup {NULL} |->
        IF c \notin DOMAIN h THEN {} ELSE {c} \cup u[h[c].next] \cup u[h[c].child]]
  BY <1>7, <1>8
<1> QED BY <1>9 DEF Under

\* Any solution gives, for a node of a forest, what it reaches.
LEMMA UnderReaches ==
  ASSUME NEW h, DOMAIN h \subseteq Nodes, NULL \notin Nodes,
         Shape(DOMAIN h, Nexts(h), Firsts(h)), Grounded(DOMAIN h, Nexts(h), Firsts(h)),
         NEW u, Under(h, u), NEW r \in DOMAIN h
  PROVE  Reached(u[r], r, DOMAIN h, Nexts(h), Firsts(h))
<1> DEFINE U == DOMAIN h
           nx == Nexts(h)
           ch == Firsts(h)
<1>1. \A c \in U : nx[c] = h[c].next /\ ch[c] = h[c].child
                   /\ nx[c] \in U \cup {NULL} /\ ch[c] \in U \cup {NULL}
  BY DEF Nexts, Firsts, Shape
<1>2. U \subseteq Nodes /\ NULL \notin U
  OBVIOUS
<1>3. \A c \in Nodes \cup {NULL} :
        u[c] = IF c \notin U THEN {} ELSE {c} \cup u[h[c].next] \cup u[h[c].child]
  <2> DEFINE body(c) == IF c \notin U THEN {} ELSE {c} \cup u[h[c].next] \cup u[h[c].child]
  <2>1. u = [c \in Nodes \cup {NULL} |-> body(c)] BY DEF Under
  <2> HIDE DEF body
  <2>2. \A c \in Nodes \cup {NULL} : u[c] = body(c) BY <2>1
  <2> QED BY <2>2 DEF body
<1>4. u[NULL] = {} BY <1>2, <1>3
<1>5. \A c \in U : u[c] = {c} \cup u[nx[c]] \cup u[ch[c]]
  BY <1>1, <1>2, <1>3
<1>6. \A S \in SUBSET U : S # {} => \E x \in S : nx[x] \notin S /\ ch[x] \notin S
  BY DEF Grounded, Ending
<1> HIDE DEF U, nx, ch
<1>7. \A c \in U : u[c] \subseteq U /\ Closed(u[c], nx, ch)
  <2> DEFINE B == {c \in U : ~ (u[c] \subseteq U /\ Closed(u[c], nx, ch))}
  <2> SUFFICES ASSUME B # {} PROVE FALSE
    OBVIOUS
  <2>1. PICK x \in B : nx[x] \notin B /\ ch[x] \notin B
    <3>1. B \in SUBSET U OBVIOUS
    <3> HIDE DEF B
    <3> QED BY <3>1, <1>6
  <2>2. ASSUME NEW d \in {nx[x], ch[x]}
        PROVE  u[d] \subseteq U /\ Closed(u[d], nx, ch) /\ (d # NULL => d \in u[d])
    <3>1. CASE d = NULL BY <3>1, <1>4 DEF Closed
    <3>2. CASE d # NULL
      <4>1. d \in U /\ d \notin B BY <3>2, <2>1, <1>1
      <4> QED BY <4>1, <1>5
    <3> QED BY <3>1, <3>2
  <2>3. u[x] = {x} \cup u[nx[x]] \cup u[ch[x]] BY <1>5
  <2>4. u[x] \subseteq U BY <2>2, <2>3
  <2>5. Closed(u[x], nx, ch)
    <3>1. ASSUME NEW y \in u[x] PROVE nx[y] \in u[x] \cup {NULL} /\ ch[y] \in u[x] \cup {NULL}
      <4>1. CASE y = x BY <4>1, <2>2, <2>3
      <4>2. CASE y \in u[nx[x]] BY <4>2, <2>2, <2>3 DEF Closed
      <4>3. CASE y \in u[ch[x]] BY <4>3, <2>2, <2>3 DEF Closed
      <4> QED BY <4>1, <4>2, <4>3, <2>3
    <3> QED BY <3>1 DEF Closed
  <2> QED BY <2>4, <2>5
<1>8. ASSUME NEW C \in SUBSET U, Closed(C, nx, ch)
      PROVE  \A c \in C : u[c] \subseteq C
  <2> DEFINE B == {c \in C : ~ (u[c] \subseteq C)}
  <2> SUFFICES ASSUME B # {} PROVE FALSE
    OBVIOUS
  <2>1. PICK x \in B : nx[x] \notin B /\ ch[x] \notin B
    <3>1. B \in SUBSET U BY <1>8
    <3> HIDE DEF B
    <3> QED BY <3>1, <1>6
  <2>2. ASSUME NEW d \in {nx[x], ch[x]} PROVE u[d] \subseteq C
    <3>1. d \in C \cup {NULL} BY <1>8 DEF Closed
    <3> QED BY <3>1, <2>1, <1>4
  <2>3. u[x] = {x} \cup u[nx[x]] \cup u[ch[x]] BY <1>5
  <2> QED BY <2>2, <2>3
<1>9. r \in U /\ r \in u[r] BY <1>5 DEF U
<1> QED BY <1>7, <1>8, <1>9 DEF Reached, U, nx, ch

\* g is what is left of h without nodes of tag t.
Spared(h, g, tag, t) ==
  /\ DOMAIN g \subseteq DOMAIN h /\ \A x \in DOMAIN g : g[x] = h[x]
  /\ \A x \in DOMAIN h : tag[x] # t => x \in DOMAIN g

\* cJSON_Delete of what a top points to.
LEMMA DeletedTree ==
  ASSUME NEW h, DOMAIN h \subseteq Nodes, NULL \notin Nodes, NEW top, NEW tag,
         Forest(DOMAIN h, Nexts(h), Firsts(h), top, tag),
         NEW t \in Int, NEW top2, Agree(Int \ {t}, top2, top), top2[t] = NULL,
         NEW g, g = Deleted(h, top[t])
  PROVE  Forest(DOMAIN g, Nexts(g), Firsts(g), top2, tag) /\ Spared(h, g, tag, t)
<1> DEFINE u == CHOOSE v : Under(h, v)
           D == u[top[t]]
<1>1. g = Restrict(h, DOMAIN h \ D)
  BY Zenon DEF Deleted, Under
<1>2. Under(h, u)
  <2>1. \E v : Under(h, v) BY UnderExists DEF Forest
  <2> QED BY <2>1
<1>3. top[t] \in DOMAIN h \cup {NULL}
  BY DEF Forest, Rooted
<1> HIDE DEF u
<1>4. DOMAIN g = DOMAIN h \ D /\ \A x \in DOMAIN g : g[x] = h[x]
  BY <1>1 DEF Restrict
<1>5. Agree(DOMAIN h \ D, Nexts(g), Nexts(h)) /\ Agree(DOMAIN h \ D, Firsts(g), Firsts(h))
  BY <1>4 DEF Agree, Nexts, Firsts
<1>8. Under(h, u) => D = u[top[t]]
  OBVIOUS
<1> HIDE DEF D
<1>6. CASE top[t] = NULL
  <2>1. D = {}
    BY <1>2, <1>6, <1>8 DEF Under
  <2>2. DOMAIN g = DOMAIN h BY <2>1, <1>4
  <2>3. Agree(Int, top2, top) BY <1>6 DEF Agree
  <2>4. Agree(DOMAIN h, Nexts(g), Nexts(h)) /\ Agree(DOMAIN h, Firsts(g), Firsts(h))
    BY <2>1, <1>5
  <2>5. Forest(DOMAIN h, Nexts(g), Firsts(g), top2, tag)
    BY <2>3, <2>4, KeepForest
  <2> QED BY <2>2, <2>5, <1>4 DEF Spared
<1>7. CASE top[t] # NULL
  <2>1. Reached(D, top[t], DOMAIN h, Nexts(h), Firsts(h))
    BY <1>2, <1>3, <1>7, <1>8, UnderReaches DEF Forest
  <2>2. Forest(DOMAIN h \ D, Nexts(g), Firsts(g), top2, tag) /\ \A x \in D : tag[x] = t
    <3> DEFINE U == DOMAIN h
               nx == Nexts(h)
               ch == Firsts(h)
               nx2 == Nexts(g)
               ch2 == Firsts(g)
    <3>1. /\ Forest(U, nx, ch, top, tag) /\ Reached(D, top[t], U, nx, ch)
          /\ Agree(U \ D, nx2, nx) /\ Agree(U \ D, ch2, ch)
      BY <2>1, <1>5
    <3> HIDE DEF U, nx, ch, nx2, ch2
    <3>2. Forest(U \ D, nx2, ch2, top2, tag)
      BY <3>1, <1>7, PruneTree
    <3>3. \A x \in D : tag[x] = t
      BY <3>1, <1>7, PruneTree
    <3> QED BY <3>2, <3>3 DEF U, nx2, ch2
  <2> QED BY <2>2, <1>4, <1>7 DEF Spared
<1> QED BY <1>6, <1>7

\* The fields of a node.
NodeFields == {"type", "valuestring", "valueint", "string", "next", "prev", "child"}

\* The nodes of h are a forest, with prev as add_item_to_array relies on.
Sound(h, top, tag) ==
  /\ DOMAIN h \subseteq Nodes
  /\ \A n \in DOMAIN h : DOMAIN h[n] = NodeFields
  /\ Forest(DOMAIN h, Nexts(h), Firsts(h), top, tag)
  /\ Chained(DOMAIN h, Nexts(h), Firsts(h), Prevs(h))

\* The node a value goes into: in the tree k, and without children.
ItemPlaced(h, x, tag, k) == x \in DOMAIN h /\ h[x].child = NULL /\ tag[x] = k

\* The list from b on ends with z.
Ends(h, b, z) == LastFrom(DOMAIN h, Nexts(h), b, z)

\* A heap is sound by the pointers of its nodes.
LEMMA KeepSound ==
  ASSUME NEW h, NEW top, NEW tag, Sound(h, top, tag), NEW top2, Agree(Int, top2, top),
         NEW g, DOMAIN g = DOMAIN h,
         \A x \in DOMAIN h :
           /\ DOMAIN g[x] = DOMAIN h[x]
           /\ g[x].next = h[x].next /\ g[x].child = h[x].child /\ g[x].prev = h[x].prev
  PROVE  Sound(g, top2, tag) /\ \A b, z : Ends(h, b, z) => Ends(g, b, z)
<1>1. Nexts(g) = Nexts(h) /\ Firsts(g) = Firsts(h) /\ Prevs(g) = Prevs(h)
  BY DEF Nexts, Firsts, Prevs
<1>2. Forest(DOMAIN h, Nexts(h), Firsts(h), top2, tag)
  BY KeepForest DEF Sound, Agree
<1> QED BY <1>1, <1>2 DEF Sound, Ends

\* A node without a next or a child.
Bare(node) == DOMAIN node = NodeFields /\ node.next = NULL /\ node.child = NULL

\* Holder t takes n, and had none.
Takes(top, top2, t, n) == Agree(Int \ {t}, top2, top) /\ top[t] = NULL /\ top2[t] = n

\* The lists of h end in g where they do in h.
GrowsEnds(h, g) == \A b \in DOMAIN h : \A z : Ends(h, b, z) => Ends(g, b, z)

\* A node is allocated for a holder.
LEMMA NewSound ==
  ASSUME NEW h, NEW top, NEW tag, Sound(h, top, tag), NULL \notin Nodes,
         NEW n \in Nodes, n \notin DOMAIN h,
         NEW node, Bare(node), NEW t \in Int, NEW top2, Takes(top, top2, t, n),
         NEW g, g = Put(h, n, node)
  PROVE  \E tag2 :
           /\ Sound(g, top2, tag2) /\ Agree(DOMAIN h, tag2, tag) /\ tag2[n] = t
           /\ Ends(g, n, n) /\ GrowsEnds(h, g)
<1> DEFINE U == DOMAIN h
           tag2 == [x \in U \cup {n} |-> IF x = n THEN t ELSE tag[x]]
<1>0. /\ U \subseteq Nodes /\ NULL \notin U /\ n # NULL
      /\ \A x \in U : DOMAIN h[x] = NodeFields
      /\ Shape(U, Nexts(h), Firsts(h)) /\ Forest(U, Nexts(h), Firsts(h), top, tag)
      /\ Chained(U, Nexts(h), Firsts(h), Prevs(h))
  BY DEF Sound, Forest
<1>9. /\ DOMAIN node = NodeFields /\ node.next = NULL /\ node.child = NULL
      /\ Agree(Int \ {t}, top2, top) /\ top[t] = NULL /\ top2[t] = n
  BY DEF Bare, Takes
<1>1. DOMAIN g = U \cup {n} /\ g[n] = node /\ \A x \in U : g[x] = h[x]
  BY DEF Put
<1>2. /\ Agree(U, Nexts(g), Nexts(h)) /\ Agree(U, Firsts(g), Firsts(h)) /\ Agree(U, Prevs(g), Prevs(h))
      /\ Nexts(g)[n] = NULL /\ Firsts(g)[n] = NULL
  BY <1>1, <1>9 DEF Agree, Nexts, Firsts, Prevs
<1>3. Agree(U, tag2, tag) /\ tag2[n] = t
  BY DEF Agree
<1> HIDE DEF tag2
<1>4. Forest(U \cup {n}, Nexts(g), Firsts(g), top2, tag2)
  BY <1>0, <1>2, <1>3, <1>9, NewTree
<1>5. Chained(U \cup {n}, Nexts(g), Firsts(g), Prevs(g))
  BY <1>0, <1>2, NewChained
<1>6. Sound(g, top2, tag2)
  BY <1>0, <1>1, <1>4, <1>5, <1>9 DEF Sound
<1>7. Ends(g, n, n)
  BY <1>1, <1>2, LastAlone DEF Ends
<1>8. ASSUME NEW b \in U, NEW z, Ends(h, b, z) PROVE Ends(g, b, z)
  <2>1. /\ U \subseteq U \cup {n} /\ \A x \in U : Nexts(h)[x] \in U \cup {NULL}
        /\ LastFrom(U, Nexts(h), b, z)
    BY <1>0, <1>8 DEF Shape, Ends
  <2>2. LastFrom(U \cup {n}, Nexts(g), b, z)
    BY <1>0, <1>2, <2>1, LastKept
  <2> QED BY <1>1, <2>2 DEF Ends
<1> QED BY <1>3, <1>6, <1>7, <1>8 DEF GrowsEnds

\* In g node r comes after c, the last one of the list from f on.
Followed(h, g, f, c, r) ==
  /\ DOMAIN g = DOMAIN h
  /\ \A x \in DOMAIN h :
       /\ DOMAIN g[x] = DOMAIN h[x] /\ g[x].child = h[x].child
       /\ g[x].next = IF x = c THEN r ELSE h[x].next
       /\ x \notin {r, f} => g[x].prev = h[x].prev
  /\ g[r].prev = c
  /\ g[f].prev = r \/ (g[f].prev = h[f].prev /\ Avoids(DOMAIN h, Firsts(h), f))

\* A list other than the one from f on ends in g where it does in h.
KeepsEnds(h, g, f) ==
  \A b \in DOMAIN h : \A z : b # f /\ Avoids(DOMAIN h, Nexts(h), b) /\ Ends(h, b, z) => Ends(g, b, z)

\* Nodes of other trees than t keep their tag.
KeepsTags(h, tag2, tag, t) == \A x \in DOMAIN h : tag[x] # t => tag2[x] = tag[x]

\* In g the list from r on is the list of children of m.
Adopted(h, g, m, r) ==
  /\ DOMAIN g = DOMAIN h
  /\ \A x \in DOMAIN h :
       /\ DOMAIN g[x] = DOMAIN h[x] /\ g[x].next = h[x].next
       /\ g[x].child = IF x = m THEN r ELSE h[x].child
       /\ x # r => g[x].prev = h[x].prev
  /\ r # NULL => Ends(h, r, g[r].prev)

\* Tree r = top[t] can go after c, the last of the list from f on.
Joins(h, top, tag, t, r, f, c) ==
  /\ r = top[t] /\ r # NULL /\ h[r].next = NULL
  /\ f \in DOMAIN h /\ c \in DOMAIN h /\ Ends(h, f, c) /\ tag[c] # t
  /\ Avoids(DOMAIN h, Nexts(h), f)

\* Tree r, a list of one node, goes after c, the last of the list from f on.
LEMMA NextSound ==
  ASSUME NEW h, NEW top, NEW tag, Sound(h, top, tag),
         NEW t \in Int, NEW r, NEW f, NEW c, Joins(h, top, tag, t, r, f, c),
         NEW top2, Agree(Int \ {t}, top2, top), top2[t] = NULL,
         NEW g, Followed(h, g, f, c, r)
  PROVE  \E tag2 :
           /\ Sound(g, top2, tag2) /\ Ends(g, f, r) /\ tag2[r] = tag[c]
           /\ KeepsTags(h, tag2, tag, t) /\ KeepsEnds(h, g, f)
<1> DEFINE U == DOMAIN h
           nx == Nexts(h)
           ch == Firsts(h)
           pv == Prevs(h)
           nx2 == Nexts(g)
           ch2 == Firsts(g)
           pv2 == Prevs(g)
           tag2 == [x \in U |-> IF tag[x] = t THEN tag[c] ELSE tag[x]]
<1>0. /\ U \subseteq Nodes /\ \A x \in U : DOMAIN h[x] = NodeFields
      /\ Shape(U, nx, ch) /\ Grounded(U, nx, ch) /\ Forest(U, nx, ch, top, tag) /\ Chained(U, nx, ch, pv)
  BY DEF Sound, Forest
<1>a. /\ r = top[t] /\ r # NULL /\ h[r].next = NULL
      /\ f \in U /\ c \in U /\ Ends(h, f, c) /\ tag[c] # t /\ Avoids(U, nx, f)
  BY DEF Joins
<1>1. \A x \in U : nx[x] = h[x].next /\ ch[x] = h[x].child /\ pv[x] = h[x].prev
  BY DEF Nexts, Firsts, Prevs
<1>2. DOMAIN g = U /\ \A x \in U : nx2[x] = g[x].next /\ ch2[x] = g[x].child /\ pv2[x] = g[x].prev
  BY DEF Followed, Nexts, Firsts, Prevs
<1>3. r \in U /\ tag[r] = t /\ Avoids(U, nx, r) /\ Avoids(U, ch, r)
  BY <1>a, <1>0 DEF Forest, Rooted, Avoids
<1>4. r # c /\ nx[c] = NULL /\ nx[r] = NULL /\ LastFrom(U, nx, f, c)
  BY <1>a, <1>1, <1>3 DEF Ends, LastFrom
<1>5. Retagged(U, tag2, tag, t, tag[c])
  BY DEF Retagged
<1>6. Avoids(U, nx, f)
  BY <1>a
<1> HIDE DEF nx, ch, pv, nx2, ch2, pv2, tag2
<1>7. /\ Agree(U \ {c}, nx2, nx) /\ Agree(U, ch2, ch) /\ Agree(U \ {r, f}, pv2, pv)
      /\ nx2[c] = r /\ pv2[r] = c
      /\ pv2[f] = r \/ (pv2[f] = pv[f] /\ Avoids(U, ch, f))
  BY <1>a, <1>1, <1>2, <1>3 DEF Agree, ch, Followed
<1>8. Forest(U, nx2, ch2, top2, tag2)
  <2>1. Forest(U, ch, nx, top, tag) BY <1>0, SwapForest
  <2>2. Forest(U, ch2, nx2, top2, tag2)
    <3>1. nx2[c] = top[t] BY <1>a, <1>7
    <3> QED BY <1>a, <2>1, <1>4, <1>5, <1>7, <3>1, GraftTree
  <2> QED BY <2>2, SwapForest
<1>9. /\ Chained(U, nx2, ch2, pv2) /\ LastFrom(U, nx2, f, r)
      /\ \A b \in U : \A z : b # f /\ Avoids(U, nx, b) /\ LastFrom(U, nx, b, z)
           => LastFrom(U, nx2, b, z)
  BY <1>a, <1>0, <1>3, <1>4, <1>6, <1>7, NextChained
<1>10. Sound(g, top2, tag2)
  BY <1>0, <1>2, <1>8, <1>9 DEF Sound, Followed, nx2, ch2, pv2
<1>11. Ends(g, f, r) /\ \A b \in U : \A z : b # f /\ Avoids(U, Nexts(h), b) /\ Ends(h, b, z)
                => Ends(g, b, z)
  BY <1>2, <1>9 DEF Ends, nx, nx2
<1>12. tag2[r] = tag[c] /\ \A x \in U : tag[x] # t => tag2[x] = tag[x]
  BY <1>a, <1>3, <1>5 DEF Retagged
<1>13. KeepsEnds(h, g, f)
  BY <1>11 DEF KeepsEnds
<1>14. KeepsTags(h, tag2, tag, t)
  BY <1>12 DEF KeepsTags
<1> QED BY <1>10, <1>11, <1>12, <1>13, <1>14

\* Holder t gives up r.
Gives(top, top2, t, r) == Agree(Int \ {t}, top2, top) /\ top[t] = r /\ top2[t] = NULL

\* Every list of h ends in g where it does in h.
AllEnds(h, g) == \A b, z : Ends(h, b, z) => Ends(g, b, z)

\* Tree r = top[t] becomes the children of m, which had none.
LEMMA ChildSound ==
  ASSUME NEW h, NEW top, NEW tag, Sound(h, top, tag),
         NEW t \in Int, NEW r, NEW top2, Gives(top, top2, t, r),
         NEW m, ItemPlaced(h, m, tag, tag[m]), tag[m] # t,
         NEW g, Adopted(h, g, m, r)
  PROVE  \E tag2 :
           /\ Sound(g, top2, tag2)
           /\ Retagged(DOMAIN h, tag2, tag, t, tag[m]) /\ AllEnds(h, g)
<1> DEFINE U == DOMAIN h
           nx == Nexts(h)
           ch == Firsts(h)
           pv == Prevs(h)
           nx2 == Nexts(g)
           ch2 == Firsts(g)
           pv2 == Prevs(g)
           tag2 == [x \in U |-> IF tag[x] = t THEN tag[m] ELSE tag[x]]
<1>0. /\ U \subseteq Nodes /\ \A x \in U : DOMAIN h[x] = NodeFields
      /\ Shape(U, nx, ch) /\ Forest(U, nx, ch, top, tag) /\ Chained(U, nx, ch, pv)
  BY DEF Sound, Forest
<1>3. /\ Agree(Int \ {t}, top2, top) /\ top[t] = r /\ top2[t] = NULL
      /\ m \in U /\ h[m].child = NULL
  BY DEF Gives, ItemPlaced
<1>1. \A x \in U : nx[x] = h[x].next /\ ch[x] = h[x].child /\ pv[x] = h[x].prev
  BY DEF Nexts, Firsts, Prevs
<1>2. DOMAIN g = U /\ \A x \in U : nx2[x] = g[x].next /\ ch2[x] = g[x].child /\ pv2[x] = g[x].prev
  BY DEF Adopted, Nexts, Firsts, Prevs
<1>5. Retagged(U, tag2, tag, t, tag[m])
  BY DEF Retagged
<1>6. nx2 = nx
  BY DEF Adopted, Nexts
<1> HIDE DEF nx, ch, pv, nx2, ch2, pv2, tag2
<1>7. /\ Agree(U, nx2, nx) /\ Agree(U \ {m}, ch2, ch) /\ Agree(U \ {r}, pv2, pv)
      /\ ch[m] = NULL /\ ch2[m] = r
  BY <1>1, <1>2, <1>3 DEF Agree, Adopted
<1>8. Forest(U, nx2, ch2, top2, tag2)
  BY <1>0, <1>3, <1>5, <1>7, GraftTree
<1>9. Chained(U, nx2, ch2, pv2)
  <2>1. CASE r = NULL
    <3>1. \A x \in U : ch2[x] = ch[x] /\ nx2[x] = nx[x] /\ pv2[x] = pv[x] /\ nx[x] \in U \cup {NULL}
                       /\ ch[x] \in U \cup {NULL}
      BY <2>1, <1>0, <1>1, <1>2, <1>7 DEF Agree, Shape, Adopted
    <3> QED BY <3>1, <1>0, <1>6 DEF Chained
  <2>2. CASE r # NULL
    <3>1. r \in U /\ Avoids(U, nx, r) /\ Avoids(U, ch, r)
      BY <1>0, <1>3, <2>2 DEF Forest, Rooted, Avoids
    <3>2. LastFrom(U, nx, r, pv2[r]) BY <2>2, <3>1, <1>2 DEF Ends, nx, Adopted
    <3> QED BY <1>0, <1>3, <1>7, <3>1, <3>2, ChildChained
  <2> QED BY <2>1, <2>2
<1>10. Sound(g, top2, tag2)
  BY <1>0, <1>2, <1>8, <1>9 DEF Sound, Adopted, nx2, ch2, pv2
<1>11. AllEnds(h, g)
  BY <1>2, <1>6 DEF AllEnds, Ends, nx, nx2
<1> QED BY <1>5, <1>10, <1>11

\* cJSON_Delete of what a holder gives up.
LEMMA DeletedSound ==
  ASSUME NEW h, NEW top, NEW tag, Sound(h, top, tag), NULL \notin Nodes,
         NEW t \in Int, NEW r, NEW top2, Gives(top, top2, t, r),
         NEW g, g = Deleted(h, r)
  PROVE  Sound(g, top2, tag) /\ Spared(h, g, tag, t)
<1>2. Agree(Int \ {t}, top2, top) /\ top[t] = r /\ top2[t] = NULL /\ g = Deleted(h, top[t])
  BY DEF Gives
<1>0. DOMAIN h \subseteq Nodes /\ Forest(DOMAIN h, Nexts(h), Firsts(h), top, tag)
  BY DEF Sound
<1>10. Forest(DOMAIN g, Nexts(g), Firsts(g), top2, tag) /\ Spared(h, g, tag, t)
  BY <1>0, <1>2, DeletedTree
<1>1. /\ Forest(DOMAIN g, Nexts(g), Firsts(g), top2, tag)
      /\ DOMAIN g \subseteq DOMAIN h /\ \A x \in DOMAIN g : g[x] = h[x]
  BY <1>10 DEF Spared
<1>5. /\ Agree(DOMAIN g, Nexts(g), Nexts(h)) /\ Agree(DOMAIN g, Firsts(g), Firsts(h))
      /\ Agree(DOMAIN g, Prevs(g), Prevs(h))
  BY <1>1 DEF Agree, Nexts, Firsts, Prevs
<1>3. Chained(DOMAIN g, Nexts(g), Firsts(g), Prevs(g))
  <2>1. Shape(DOMAIN h, Nexts(h), Firsts(h)) /\ Chained(DOMAIN h, Nexts(h), Firsts(h), Prevs(h))
        /\ Shape(DOMAIN g, Nexts(g), Firsts(g))
    BY <1>1 DEF Sound, Forest
  <2> QED BY <1>1, <1>5, <2>1, PruneChained
<1>4. Sound(g, top2, tag)
  BY <1>1, <1>3 DEF Sound
<1> QED BY <1>4, <1>10

\* Holder k points to f.
Holds(top, k, f) == top[k] = f /\ f # NULL

\* What Element makes of the heap: n is new, and comes after c.
WithElement(h, n, c) ==
  [x \in DOMAIN h \cup {n} |->
     IF x = n THEN [Blank EXCEPT !.prev = c]
     ELSE IF x = c THEN [h[x] EXCEPT !.next = n] ELSE h[x]]

\* A new element after c, the last one of the list that starts at f.
LEMMA ElementSound ==
  ASSUME NEW h, NEW top, NEW tag, Sound(h, top, tag), NULL \notin Nodes,
         NEW k \in Int, NEW f, Holds(top, k, f), NEW c, Ends(h, f, c),
         NEW t \in Int, top[t] = NULL, k # t,
         NEW n \in Nodes, n \notin DOMAIN h,
         NEW g, g = WithElement(h, n, c)
  PROVE  \E tag2 :
           /\ Sound(g, top, tag2) /\ Agree(DOMAIN h, tag2, tag) /\ tag2[n] = k
           /\ Ends(g, f, n) /\ KeepsEnds(h, g, f)
<1> DEFINE node == [Blank EXCEPT !.prev = c]
<1>a. PICK h1 : h1 = Put(h, n, node)
  OBVIOUS
<1>b. PICK top1 : top1 = [j \in Int |-> IF j = t THEN n ELSE top[j]]
  OBVIOUS
<1>0. top[t] = NULL OBVIOUS
<1>1. /\ DOMAIN node = NodeFields /\ node.next = NULL /\ node.child = NULL /\ node.prev = c
  BY DEF NodeFields, Blank
<1>2. DOMAIN h1 = DOMAIN h \cup {n} /\ h1[n] = node /\ \A x \in DOMAIN h : h1[x] = h[x]
  BY <1>a DEF Put
<1>3. Agree(Int \ {t}, top1, top) /\ Agree(Int \ {t}, top, top1) /\ top1[t] = n
  BY <1>b DEF Agree
<1>31. f \in DOMAIN h /\ tag[f] = k /\ c \in DOMAIN h /\ NULL \notin DOMAIN h
       /\ Forest(DOMAIN h, Nexts(h), Firsts(h), top, tag)
       /\ Shape(DOMAIN h, Nexts(h), Firsts(h))
       /\ \A x \in DOMAIN h : DOMAIN h[x] = NodeFields
  BY DEF Sound, Forest, Rooted, Ends, LastFrom, Holds
<1>32. tag[c] = k
  BY <1>31, LastTag DEF Ends
<1>33. \A x \in DOMAIN h : tag[x] # t
  BY <1>0, <1>31, TagHasTree
<1>4. /\ DOMAIN g = DOMAIN h1
      /\ \A x \in DOMAIN h \cup {n} :
           g[x] = IF x = n THEN node ELSE IF x = c THEN [h[x] EXCEPT !.next = n] ELSE h[x]
  BY <1>2 DEF WithElement
<1> HIDE DEF node
<1>5. PICK tag1 :
        /\ Sound(h1, top1, tag1) /\ Agree(DOMAIN h, tag1, tag) /\ tag1[n] = t
        /\ Ends(h1, n, n) /\ GrowsEnds(h, h1)
  <2>1. Bare(node) /\ Takes(top, top1, t, n)
    BY <1>0, <1>1, <1>3 DEF Bare, Takes
  <2> QED BY <1>a, <2>1, NewSound
<1>6. \A x \in DOMAIN h1 :
        /\ DOMAIN g[x] = DOMAIN h1[x] /\ g[x].child = h1[x].child /\ g[x].prev = h1[x].prev
        /\ g[x].next = IF x = c THEN n ELSE h1[x].next
  <2> TAKE x \in DOMAIN h1
  <2>1. CASE x = n
    <3>1. g[x] = node /\ h1[x] = node /\ x # c BY <2>1, <1>2, <1>4, <1>31
    <3> QED BY <2>1, <3>1, <1>1
  <2>2. CASE x = c
    <3>1. g[x] = [h[x] EXCEPT !.next = n] /\ h1[x] = h[x] /\ x # n
      BY <2>2, <1>2, <1>4, <1>31
    <3>2. DOMAIN h[x] = NodeFields BY <2>2, <1>31
    <3> QED BY <2>2, <3>1, <3>2 DEF NodeFields
  <2>3. CASE x # n /\ x # c BY <2>3, <1>2, <1>4, <1>31
  <2> QED BY <2>1, <2>2, <2>3
<1>7. \A b \in DOMAIN h : Avoids(DOMAIN h, Nexts(h), b) => Avoids(DOMAIN h1, Nexts(h1), b)
  BY <1>1, <1>2, <1>31 DEF Avoids, Nexts
<1>8. Avoids(DOMAIN h, Nexts(h), f) /\ Avoids(DOMAIN h1, Firsts(h1), f)
  BY <1>1, <1>2, <1>31 DEF Avoids, Nexts, Firsts, Forest, Rooted, Holds
<1>9. Followed(h1, g, f, c, n)
  <2>1. f \in DOMAIN h1 /\ g[f].prev = h1[f].prev BY <1>2, <1>6, <1>31
  <2>2. g[n].prev = c BY <1>1, <1>4
  <2> HIDE DEF Avoids
  <2> QED BY <2>1, <2>2, <1>4, <1>6, <1>8 DEF Followed
<1>10. tag1[c] # t /\ tag1[c] = k /\ Ends(h1, f, c) /\ h1[n].next = NULL
       /\ n = top1[t] /\ n # NULL /\ f \in DOMAIN h1 /\ c \in DOMAIN h1
       /\ Avoids(DOMAIN h1, Nexts(h1), f)
  BY <1>1, <1>2, <1>3, <1>5, <1>7, <1>8, <1>31, <1>32 DEF Agree, GrowsEnds
<1>15. Joins(h1, top1, tag1, t, n, f, c)
  BY <1>10 DEF Joins
<1>16. Sound(h1, top1, tag1) /\ Agree(Int \ {t}, top, top1) /\ top[t] = NULL
  BY <1>0, <1>3, <1>5
<1>11. PICK tag2 :
         /\ Sound(g, top, tag2) /\ Ends(g, f, n) /\ tag2[n] = tag1[c]
         /\ KeepsTags(h1, tag2, tag1, t) /\ KeepsEnds(h1, g, f)
  BY <1>16, <1>9, <1>15, NextSound
<1>12. Agree(DOMAIN h, tag2, tag)
  BY <1>2, <1>5, <1>11, <1>33 DEF Agree, KeepsTags
<1>13. KeepsEnds(h, g, f)
  BY <1>2, <1>5, <1>7, <1>11 DEF KeepsEnds, GrowsEnds
<1> QED BY <1>10, <1>11, <1>12, <1>13

\* add_item_to_array, of a node that has no next.
LEMMA AppendSound ==
  ASSUME NEW h, NEW top, NEW tag, Sound(h, top, tag), NULL \notin Nodes,
         NEW array \in DOMAIN h, NEW t \in Int, NEW new, NEW top2, Gives(top, top2, t, new),
         new # NULL, h[new].next = NULL, tag[array] # t,
         NEW g, g = AddItemToArray(h, array, new)
  PROVE  /\ DOMAIN g = DOMAIN h /\ g[array].next = h[array].next
         /\ \E tag2 : Sound(g, top2, tag2) /\ KeepsTags(h, tag2, tag, t)
<1> DEFINE first == h[array].child
           last == h[first].prev
<1>0. /\ \A x \in DOMAIN h : DOMAIN h[x] = NodeFields
      /\ Forest(DOMAIN h, Nexts(h), Firsts(h), top, tag)
      /\ Shape(DOMAIN h, Nexts(h), Firsts(h)) /\ Grounded(DOMAIN h, Nexts(h), Firsts(h))
      /\ Chained(DOMAIN h, Nexts(h), Firsts(h), Prevs(h))
      /\ NULL \notin DOMAIN h
  BY DEF Sound, Forest
<1>6. Agree(Int \ {t}, top2, top) /\ top[t] = new /\ top2[t] = NULL
  BY DEF Gives
<1>1. /\ new \in DOMAIN h /\ tag[new] = t
      /\ Avoids(DOMAIN h, Nexts(h), new) /\ Avoids(DOMAIN h, Firsts(h), new)
  BY <1>0, <1>6 DEF Rooted, Forest, Avoids
<1>2. \A x \in DOMAIN h : Nexts(h)[x] = h[x].next /\ Firsts(h)[x] = h[x].child /\ Prevs(h)[x] = h[x].prev
  BY DEF Nexts, Firsts, Prevs
<1>3. first \in DOMAIN h \cup {NULL}
  BY <1>0, <1>2 DEF Shape
<1> HIDE DEF first, last
<1>4. CASE first = NULL
  <2>1. g = [h EXCEPT ![array].child = new, ![new].prev = new, ![new].next = NULL]
    BY <1>4 DEF AddItemToArray, first
  <2>2. DOMAIN g = DOMAIN h /\ \A x \in DOMAIN h :
           /\ DOMAIN g[x] = DOMAIN h[x] /\ g[x].next = h[x].next
           /\ g[x].child = IF x = array THEN new ELSE h[x].child
           /\ x # new => g[x].prev = h[x].prev
           /\ x = new => g[x].prev = new
    BY <2>1, <1>0, <1>1 DEF NodeFields
  <2>3. Ends(h, new, new)
    BY <1>1, <1>2, LastAlone DEF Ends
  <2>4. Adopted(h, g, array, new)
    BY <2>2, <2>3, <1>1 DEF Adopted
  <2>5. ItemPlaced(h, array, tag, tag[array]) BY <1>4 DEF first, ItemPlaced
  <2>6. PICK tag2 : Sound(g, top2, tag2) /\ Retagged(DOMAIN h, tag2, tag, t, tag[array])
    BY <2>4, <2>5, ChildSound
  <2>7. KeepsTags(h, tag2, tag, t)
    BY <2>6 DEF Retagged, KeepsTags
  <2> QED BY <2>2, <2>6, <2>7
<1>5. CASE first # NULL
  <2>1. first \in DOMAIN h /\ Ends(h, first, last)
    BY <1>0, <1>2, <1>3, <1>5 DEF Chained, Ends, first, last
  <2>2. last \in DOMAIN h /\ last # NULL /\ h[last].next = NULL
    BY <2>1, <1>0, <1>2 DEF Ends, LastFrom
  <2>3. g = [h EXCEPT ![last].next = new, ![new].prev = last, ![first].prev = new]
    BY <1>5, <2>2 DEF AddItemToArray, first, last
  <2>4. first # new /\ Avoids(DOMAIN h, Nexts(h), first)
    BY <1>0, <1>1, <1>2, <1>5, <2>1 DEF Avoids, first, Shape
  <2>5. tag[first] = tag[array]
    BY <1>0, <1>2, <1>5 DEF Forest, Rooted, first
  <2>6. tag[last] = tag[array]
    BY <1>0, <2>1, <2>5, LastTag DEF Ends
  <2>7. last # array
    BY <1>0, <1>2, <1>5, <2>1, LastIsBelow DEF Ends, first
  <2>8. DOMAIN g = DOMAIN h /\ \A x \in DOMAIN h :
           /\ DOMAIN g[x] = DOMAIN h[x] /\ g[x].child = h[x].child
           /\ g[x].next = IF x = last THEN new ELSE h[x].next
           /\ x \notin {new, first} => g[x].prev = h[x].prev
           /\ x = new => g[x].prev = last
           /\ x = first => g[x].prev = new
    BY <2>3, <2>4, <1>0 DEF NodeFields
  <2>9. Followed(h, g, first, last, new)
    BY <2>8, <2>1, <1>1 DEF Followed
  <2>11. Joins(h, top, tag, t, new, first, last)
    BY <1>6, <2>1, <2>2, <2>4, <2>6 DEF Joins
  <2>10. PICK tag2 : Sound(g, top2, tag2) /\ KeepsTags(h, tag2, tag, t)
    BY <1>6, <2>9, <2>11, NextSound
  <2> QED BY <2>7, <2>8, <2>10
<1> QED BY <1>4, <1>5

(***************************************************************************)
(* The nodes of the program.                                               *)
(***************************************************************************)
\* What holds on to nodes: root at 0, add_single_record's array and value at
\* -1 and -2, and each open list, counted from the outermost one, from 1 on.
TopsOf(s, r, v, j) ==
  [k \in Int |-> IF k = 0 THEN r ELSE IF k = -1 THEN v ELSE IF k = -2 THEN j
                 ELSE IF k \in 1..Len(s) THEN s[Len(s) + 1 - k].head ELSE NULL]

\* The holders of the present state.
Tops == TopsOf(stack, root, values, json_value)

\* A list under construction: its item is to get it as its children, in the
\* tree of the list around it; head and current are its ends.
FramePlaced(h, f, tag, k) ==
  /\ ItemPlaced(h, f.item, tag, k)
  /\ (f.head = NULL) <=> (f.current = NULL)
  /\ f.head # NULL => Ends(h, f.head, f.current)

\* All of the lists under construction.
FramesPlaced(h, s, tag) == \A i \in 1..Len(s) : FramePlaced(h, s[i], tag, Len(s) - i)

\* Where everything the parser points to is, when tag says which tree is which.
Placed(tag) ==
  /\ Sound(heap, Tops, tag)
  /\ at \in Parsing => FramesPlaced(heap, stack, tag)
  /\ at \in {"value", "name"} => ItemPlaced(heap, item, tag, Len(stack))

\* The phases of add_single_record with a value not yet in the array; with an array.
Filling == {"add_priority", "add_exchange", "add_append"}
Adding == Filling \cup {"add_value", "add_store"}

\* Which of the holders are in use when.
HoldersInUse ==
  /\ at \in {"start", "done"} => stack = <<>>
  /\ at \in {"element", "name"} => stack # <<>>
  /\ at = "start" => root = NULL
  /\ root # NULL => phase \in {"parse", "load", "aborted"}
  /\ values # NULL => phase \in Adding \cup {"aborted"}
  /\ json_value # NULL => phase \in Filling \cup {"aborted"}
  /\ phase \in Adding => values # NULL
  /\ phase \in Filling => json_value # NULL /\ heap[json_value].next = NULL

\* The invariant of the nodes.
NodesInv == HoldersInUse /\ \E tag : Placed(tag)

\* The holders, one by one.
LEMMA TopsAre ==
  ASSUME NEW s \in Seq(Frames), NEW r, NEW v, NEW j, NEW T, T = TopsOf(s, r, v, j)
  PROVE  /\ T[0] = r /\ T[-1] = v /\ T[-2] = j /\ T[-3] = NULL
         /\ \A k \in 1..Len(s) : T[k] = s[Len(s) + 1 - k].head
         /\ \A k \in Int : k > Len(s) \/ k < -2 => T[k] = NULL
<1>1. Len(s) \in Nat
  BY LenProperties
<1> QED BY <1>1 DEF TopsOf

\* A list just begun holds nothing yet.
LEMMA PushTops ==
  ASSUME NEW s \in Seq(Frames), NEW r, NEW v, NEW j, NEW f \in Frames, f.head = NULL
  PROVE  Agree(Int, TopsOf(<<f>> \o s, r, v, j), TopsOf(s, r, v, j))
<1>1. Len(s) \in Nat /\ Len(<<f>> \o s) = Len(s) + 1
      /\ \A i \in 1..Len(s) : (<<f>> \o s)[i + 1] = s[i]
  BY LenProperties, ConcatProperties
<1>2. (<<f>> \o s)[1] = f
  BY ConcatProperties
<1>a. PICK l \in Nat : l = Len(s)
  BY <1>1
<1>b. PICK u : u = <<f>> \o s
  OBVIOUS
<1>3. l = Len(s) /\ u = <<f>> \o s
  BY <1>a, <1>b
<1>4. \A k \in 1..l : u[(l + 1) + 1 - k] = s[l + 1 - k]
  <2> TAKE k \in 1..l
  <2>1. l + 1 - k \in 1..l /\ (l + 1 - k) + 1 = (l + 1) + 1 - k
    OBVIOUS
  <2> QED BY <1>1, <1>3, <2>1
<1>5. u[(l + 1) + 1 - (l + 1)] = f
  BY <1>2, <1>3
<1> QED
  <2> SUFFICES ASSUME NEW k \in Int PROVE TopsOf(u, r, v, j)[k] = TopsOf(s, r, v, j)[k]
    BY <1>3 DEF Agree
  <2>1. Len(u) = l + 1 BY <1>1, <1>3
  <2>2. CASE k \in 1..l BY <1>3, <1>4, <2>1, <2>2 DEF TopsOf
  <2>3. CASE k = l + 1 BY <1>3, <1>5, <2>1, <2>3 DEF TopsOf
  <2>4. CASE k \notin 1..l + 1 BY <1>3, <2>1, <2>4 DEF TopsOf
  <2> QED BY <2>2, <2>3, <2>4

\* A list that is done with no longer holds its head.
LEMMA PopTops ==
  ASSUME NEW s \in Seq(Frames), s # <<>>, NEW r, NEW v, NEW j
  PROVE  /\ Agree(Int \ {Len(s)}, TopsOf(Tail(s), r, v, j), TopsOf(s, r, v, j))
         /\ TopsOf(Tail(s), r, v, j)[Len(s)] = NULL
         /\ TopsOf(s, r, v, j)[Len(s)] = s[1].head
<1>1. Len(s) \in Nat \ {0} /\ Len(Tail(s)) = Len(s) - 1
      /\ \A i \in 1..Len(s) - 1 : Tail(s)[i] = s[i + 1]
  BY HeadTailProperties, EmptySeq, LenProperties
<1>a. PICK l \in Nat \ {0} : l = Len(s)
  BY <1>1
<1>b. PICK u : u = Tail(s)
  OBVIOUS
<1>2. l = Len(s) /\ u = Tail(s)
  BY <1>a, <1>b
<1>3. \A k \in 1..l - 1 : u[(l - 1) + 1 - k] = s[l + 1 - k]
  <2> TAKE k \in 1..l - 1
  <2>1. l - k \in 1..l - 1 /\ (l - k) + 1 = l + 1 - k /\ (l - 1) + 1 - k = l - k
    OBVIOUS
  <2> QED BY <1>1, <1>2, <2>1
<1>4. Len(u) = l - 1 BY <1>1, <1>2
<1>5. ASSUME NEW k \in Int, k # l PROVE TopsOf(u, r, v, j)[k] = TopsOf(s, r, v, j)[k]
  <2>1. CASE k \in 1..l - 1 BY <1>2, <1>3, <1>4, <2>1 DEF TopsOf
  <2>2. CASE k \notin 1..l BY <1>2, <1>4, <2>2 DEF TopsOf
  <2> QED BY <1>5, <2>1, <2>2
<1>6. TopsOf(u, r, v, j)[l] = NULL BY <1>4 DEF TopsOf
<1>7. TopsOf(s, r, v, j)[l] = s[l + 1 - l].head BY <1>2 DEF TopsOf
<1> QED BY <1>2, <1>5, <1>6, <1>7 DEF Agree

\* What Element makes of the stack.
WithTop(s, n) == [s EXCEPT ![1].current = n, ![1].head = IF @ = NULL THEN n ELSE @]

\* Only the frame on top has changed.
OnTopOnly(s, s2, n) ==
  /\ Len(s2) = Len(s) /\ \A i \in 1..Len(s) : i # 1 => s2[i] = s[i]
  /\ s2[1].item = s[1].item /\ s2[1].current = n
  /\ s2[1].head = IF s[1].head = NULL THEN n ELSE s[1].head

\* A new element changes the frame on top only.
LEMMA ElementFrames ==
  ASSUME NEW s \in Seq(Frames), s # <<>>, NEW n \in Nodes, NULL \notin Nodes
  PROVE  OnTopOnly(s, WithTop(s, n), n)
<1> DEFINE e == [s EXCEPT ![1].current = n, ![1].head = IF @ = NULL THEN n ELSE @]
<1>1. Len(s) \in Nat \ {0} /\ s \in [1..Len(s) -> Frames]
  BY EmptySeq, LenProperties
<1>2. Len(e) = Len(s)
  <2>1. e \in [1..Len(s) -> Frames] BY <1>1, ZenonT(40) DEF Frames
  <2> HIDE DEF e
  <2> QED BY <1>1, <2>1
<1>3. 1 \in 1..Len(s) /\ s[1] \in Frames
  BY <1>1
<1>4. /\ \A i \in 1..Len(s) : i # 1 => e[i] = s[i]
      /\ e[1] = [s[1] EXCEPT !.current = n, !.head = IF s[1].head = NULL THEN n ELSE s[1].head]
  BY <1>1, <1>3
<1> HIDE DEF e
<1>5. e[1].item = s[1].item /\ e[1].current = n
      /\ e[1].head = IF s[1].head = NULL THEN n ELSE s[1].head
  BY <1>3, <1>4 DEF Frames
<1>6. OnTopOnly(s, e, n)
  BY <1>2, <1>4, <1>5 DEF OnTopOnly
<1> QED BY <1>6 DEF WithTop, e

\* Only the list on top may hold another node.
LEMMA ElementTops ==
  ASSUME NEW s \in Seq(Frames), s # <<>>, NEW n, NEW s2, OnTopOnly(s, s2, n),
         NEW r, NEW v, NEW j
  PROVE  /\ Agree(Int \ {Len(s)}, TopsOf(s2, r, v, j), TopsOf(s, r, v, j))
         /\ TopsOf(s2, r, v, j)[Len(s)] = s2[1].head
         /\ TopsOf(s, r, v, j)[Len(s)] = s[1].head
<1>1. PICK l \in Nat \ {0} : l = Len(s)
  BY EmptySeq, LenProperties
<1>2. Len(s2) = l /\ \A i \in 1..l : i # 1 => s2[i] = s[i]
  BY <1>1 DEF OnTopOnly
<1>3. ASSUME NEW k \in Int, k # l PROVE TopsOf(s2, r, v, j)[k] = TopsOf(s, r, v, j)[k]
  <2>1. CASE k \in 1..l
    <3>1. l + 1 - k \in 1..l /\ l + 1 - k # 1 BY <1>3, <2>1
    <3>2. s2[l + 1 - k] = s[l + 1 - k] BY <1>2, <3>1
    <3>3. TopsOf(s2, r, v, j)[k] = s2[l + 1 - k].head BY <1>2, <2>1 DEF TopsOf
    <3>4. TopsOf(s, r, v, j)[k] = s[l + 1 - k].head BY <1>1, <2>1 DEF TopsOf
    <3> QED BY <3>2, <3>3, <3>4
  <2>2. CASE k \notin 1..l BY <1>1, <1>2, <2>2 DEF TopsOf
  <2> QED BY <2>1, <2>2
<1>4. l + 1 - l = 1 OBVIOUS
<1>5. TopsOf(s2, r, v, j)[l] = s2[l + 1 - l].head /\ TopsOf(s, r, v, j)[l] = s[l + 1 - l].head
  BY <1>1, <1>2 DEF TopsOf
<1>6. Agree(Int \ {Len(s)}, TopsOf(s2, r, v, j), TopsOf(s, r, v, j))
  BY <1>1, <1>3 DEF Agree
<1> QED BY <1>1, <1>4, <1>5, <1>6

\* What a step leaves alone when it only fills in a node.
SameLinks(h, g) ==
  /\ DOMAIN g = DOMAIN h
  /\ \A x \in DOMAIN h :
       /\ DOMAIN g[x] = DOMAIN h[x]
       /\ g[x].next = h[x].next /\ g[x].child = h[x].child /\ g[x].prev = h[x].prev

\* Filling in a node changes nothing of this.
LEMMA FilledIn ==
  ASSUME NEW h, NEW top, NEW tag, Sound(h, top, tag), NEW top2, Agree(Int, top2, top),
         NEW g, SameLinks(h, g)
  PROVE  /\ Sound(g, top2, tag)
         /\ \A s : FramesPlaced(h, s, tag) => FramesPlaced(g, s, tag)
         /\ \A x, k : ItemPlaced(h, x, tag, k) => ItemPlaced(g, x, tag, k)
<1>1. DOMAIN g = DOMAIN h /\ \A x \in DOMAIN h :
        /\ DOMAIN g[x] = DOMAIN h[x]
        /\ g[x].next = h[x].next /\ g[x].child = h[x].child /\ g[x].prev = h[x].prev
  BY DEF SameLinks
<1>2. Sound(g, top2, tag) /\ \A b, z : Ends(h, b, z) => Ends(g, b, z)
  BY <1>1, KeepSound
<1>3. \A x, k : ItemPlaced(h, x, tag, k) => ItemPlaced(g, x, tag, k)
  BY <1>1 DEF ItemPlaced
<1>4. \A f, k : FramePlaced(h, f, tag, k) => FramePlaced(g, f, tag, k)
  BY <1>2, <1>3 DEF FramePlaced
<1> QED BY <1>2, <1>3, <1>4 DEF FramesPlaced

\* What is allocated was free.
LEMMA FreshIs == Free # {} => Fresh \in Nodes /\ Fresh \notin DOMAIN heap
BY DEF Free, Fresh

\* cJSON_Parse allocates the root.
LEMMA StartNodes ==
  ASSUME DepthInv, NodesInv, StartParse, phase = "parse", UNCHANGED <<phase, values, json_value>>
  PROVE  NodesInv'
<1>1. PICK tag : Placed(tag)
  BY DEF NodesInv
<1>2. at = "start" /\ stack = <<>> /\ stack' = <<>> /\ root = NULL /\ values = NULL /\ json_value = NULL
  BY DEF StartParse, NodesInv, HoldersInUse, Adding, Filling
<1>3. stack \in Seq(Frames) /\ Len(stack) = 0
  BY <1>2 DEF DepthInv
<1>4. ASSUME Free # {}, heap' = Put(heap, Fresh, Blank), root' = Fresh, item' = Fresh, at' = "value"
      PROVE  NodesInv'
  <2>1. PICK n : n = Fresh /\ n \in Nodes /\ n \notin DOMAIN heap
    BY <1>4, FreshIs
  <2>2. Tops[0] = NULL /\ Tops'[0] = n /\ Agree(Int \ {0}, Tops', Tops)
    BY <1>2, <1>3, <1>4, <2>1, TopsAre DEF Tops, TopsOf, Agree
  <2>3. PICK node : node = Blank /\ DOMAIN node = NodeFields /\ node.next = NULL /\ node.child = NULL
    <3>1. DOMAIN Blank = NodeFields /\ Blank.next = NULL /\ Blank.child = NULL
      BY DEF Blank, NodeFields
    <3> QED BY <3>1
  <2>4. heap' = Put(heap, n, node) /\ Sound(heap, Tops, tag) /\ NULL \notin Nodes /\ 0 \in Int
    BY <1>1, <1>4, <2>1, <2>3, JsonAssumption DEF Placed
  <2>5. PICK tag2 : Sound(heap', Tops', tag2) /\ tag2[n] = 0
    <3>1. Bare(node) /\ Takes(Tops, Tops', 0, n)
      BY <2>2, <2>3 DEF Bare, Takes
    <3> QED BY <2>1, <2>4, <3>1, NewSound
  <2>6. ItemPlaced(heap', item', tag2, Len(stack'))
    BY <1>2, <1>3, <1>4, <2>1, <2>3, <2>4, <2>5 DEF ItemPlaced, Put
  <2>7. FramesPlaced(heap', stack', tag2)
    BY <1>2, <1>3 DEF FramesPlaced
  <2>8. Placed(tag2)'
    BY <2>5, <2>6, <2>7 DEF Placed
  <2>9. HoldersInUse'
    BY <1>2, <1>4 DEF HoldersInUse, Adding, Filling
  <2> QED BY <2>8, <2>9 DEF NodesInv
<1>5. ASSUME root' = NULL, at' = "done", UNCHANGED heap PROVE NodesInv'
  <2>1. Tops' = Tops
    BY <1>2, <1>5 DEF Tops
  <2>2. Placed(tag)'
    BY <1>1, <1>5, <2>1 DEF Placed, Parsing
  <2>3. HoldersInUse'
    BY <1>2, <1>5 DEF HoldersInUse, Adding, Filling
  <2> QED BY <2>2, <2>3 DEF NodesInv
<1> QED BY <1>4, <1>5 DEF StartParse, Go

\* The steps that fill in the node the value or name is for.
LEMMA FillNodes ==
  ASSUME DepthInv, NodesInv, ParseLeaf \/ ParseString \/ ParseNothing \/ Name \/ EndText,
         phase = "parse", UNCHANGED <<phase, values, json_value>>
  PROVE  NodesInv'
<1>1. PICK tag : Placed(tag)
  BY DEF NodesInv
<1>2. UNCHANGED <<stack, item, root>> /\ values = NULL /\ json_value = NULL
  BY DEF ParseLeaf, ParseString, ParseNothing, Name, EndText, NodesInv, HoldersInUse, Adding, Filling
<1>3. Tops' = Tops
  BY <1>2 DEF Tops
<1>4. at \in Parsing /\ (at' \in {"value", "name"} => at \in {"value", "name"})
      /\ at' \in {"value", "after", "fail", "done"} /\ (at' = "done" => stack = <<>>)
  BY DEF ParseLeaf, ParseString, ParseNothing, Name, EndText, Parsing, Go
<1>5. SameLinks(heap, heap')
  <2>1. CASE heap' = heap BY <2>1 DEF SameLinks
  <2>2. CASE heap' # heap
    <3>1. at \in {"value", "name"} BY <2>2 DEF ParseLeaf, ParseString, ParseNothing, Name, EndText
    <3>2. item \in DOMAIN heap /\ \A x \in DOMAIN heap : DOMAIN heap[x] = NodeFields
      BY <1>1, <3>1 DEF Placed, ItemPlaced, Sound
    <3>3. ASSUME NEW a, NEW b, heap' = [heap EXCEPT ![item].type = a, ![item].valueint = b]
          PROVE  SameLinks(heap, heap')
      BY <3>2, <3>3 DEF SameLinks, NodeFields
    <3>4. ASSUME NEW a, NEW b, heap' = [heap EXCEPT ![item].type = a, ![item].valuestring = b]
          PROVE  SameLinks(heap, heap')
      BY <3>2, <3>4 DEF SameLinks, NodeFields
    <3>5. ASSUME NEW a, NEW b, heap' = [heap EXCEPT ![item].type = a, ![item].string = b]
          PROVE  SameLinks(heap, heap')
      BY <3>2, <3>5 DEF SameLinks, NodeFields
    <3> QED BY <2>2, <3>3, <3>4, <3>5 DEF ParseLeaf, ParseString, ParseNothing, Name, EndText
  <2> QED BY <2>1, <2>2
<1>6. Sound(heap, Tops, tag) /\ Agree(Int, Tops', Tops)
  BY <1>1, <1>3 DEF Placed, Agree
<1>7. /\ Sound(heap', Tops', tag)
      /\ \A s : FramesPlaced(heap, s, tag) => FramesPlaced(heap', s, tag)
      /\ \A x, k : ItemPlaced(heap, x, tag, k) => ItemPlaced(heap', x, tag, k)
  BY <1>5, <1>6, FilledIn
<1>8. Placed(tag)'
  BY <1>1, <1>2, <1>4, <1>7 DEF Placed, Parsing
<1>9. HoldersInUse'
  BY <1>2, <1>4 DEF HoldersInUse, Adding, Filling, NodesInv
<1> QED BY <1>8, <1>9 DEF NodesInv

\* A list is opened: empty, refused or begun.
LEMMA OpenNodes ==
  ASSUME DepthInv, NodesInv, Open, phase = "parse", UNCHANGED <<phase, values, json_value>>
  PROVE  NodesInv'
<1>1. PICK tag : Placed(tag)
  BY DEF NodesInv
<1>2. UNCHANGED <<item, root>> /\ values = NULL /\ json_value = NULL /\ at = "value"
  BY DEF Open, NodesInv, HoldersInUse, Adding, Filling
<1>3. /\ Sound(heap, Tops, tag) /\ FramesPlaced(heap, stack, tag)
      /\ ItemPlaced(heap, item, tag, Len(stack))
      /\ stack \in Seq(Frames) /\ item \in Nodes \cup {NULL}
  BY <1>1, <1>2 DEF Placed, Parsing, DepthInv
<1>4. ASSUME UNCHANGED stack, at' \in {"fail", "after"}, SameLinks(heap, heap') PROVE NodesInv'
  <2>1. Tops' = Tops
    BY <1>2, <1>4 DEF Tops
  <2>2. Agree(Int, Tops', Tops)
    BY <2>1 DEF Agree
  <2>3. Sound(heap', Tops', tag) /\ \A s : FramesPlaced(heap, s, tag) => FramesPlaced(heap', s, tag)
    BY <1>3, <1>4, <2>2, FilledIn
  <2>4. Placed(tag)'
    BY <1>3, <1>4, <2>3 DEF Placed, Parsing
  <2>5. HoldersInUse'
    BY <1>2, <1>4 DEF HoldersInUse, Adding, Filling, NodesInv
  <2> QED BY <2>4, <2>5 DEF NodesInv
<1>5. ASSUME NEW f, f = [kind |-> Kind(offset), item |-> item, head |-> NULL, current |-> NULL],
             Kind(offset) \in Opening, stack' = <<f>> \o stack, at' = "element", UNCHANGED heap
      PROVE  NodesInv'
  <2>1. f \in Frames /\ f.item = item /\ f.head = NULL /\ f.current = NULL
    BY <1>3, <1>5 DEF Frames
  <2>2. Agree(Int, Tops', Tops)
    BY <1>2, <1>3, <1>5, <2>1, PushTops DEF Tops
  <2>3. SameLinks(heap, heap')
    BY <1>5 DEF SameLinks
  <2>4. Sound(heap', Tops', tag)
    BY <1>3, <2>2, <2>3, FilledIn
  <2>5. /\ Len(stack) \in Nat /\ Len(stack') = Len(stack) + 1 /\ stack'[1] = f
        /\ \A i \in 1..Len(stack) : stack'[i + 1] = stack[i]
    BY <1>3, <1>5, <2>1, LenProperties, ConcatProperties
  <2>6. FramesPlaced(heap', stack', tag)
    <3> SUFFICES ASSUME NEW i \in 1..Len(stack')
                 PROVE  FramePlaced(heap, stack'[i], tag, Len(stack') - i)
      BY <1>5 DEF FramesPlaced
    <3>1. CASE i = 1
      <4>1. Len(stack') - i = Len(stack) BY <2>5, <3>1
      <4> QED BY <1>3, <2>1, <2>5, <3>1, <4>1 DEF FramePlaced
    <3>2. CASE i # 1
      <4>1. i - 1 \in 1..Len(stack) /\ (i - 1) + 1 = i /\ Len(stack') - i = Len(stack) - (i - 1)
        BY <2>5, <3>2
      <4>2. stack'[i] = stack[i - 1] BY <2>5, <4>1
      <4>3. FramePlaced(heap, stack[i - 1], tag, Len(stack) - (i - 1)) BY <1>3, <4>1 DEF FramesPlaced
      <4> QED BY <4>1, <4>2, <4>3
    <3> QED BY <3>1, <3>2
  <2>7. Placed(tag)'
    BY <1>5, <2>4, <2>6 DEF Placed
  <2>8. HoldersInUse'
    BY <1>2, <1>5 DEF HoldersInUse, Adding, Filling, NodesInv
  <2> QED BY <2>7, <2>8 DEF NodesInv
<1>6. ASSUME UNCHANGED heap PROVE SameLinks(heap, heap')
  BY <1>6 DEF SameLinks
<1>7. ASSUME NEW a, heap' = [heap EXCEPT ![item].type = a] PROVE SameLinks(heap, heap')
  <2>1. item \in DOMAIN heap /\ \A x \in DOMAIN heap : DOMAIN heap[x] = NodeFields
    BY <1>3 DEF ItemPlaced, Sound
  <2> QED BY <1>7, <2>1 DEF SameLinks, NodeFields
<1> QED BY <1>4, <1>5, <1>6, <1>7 DEF Open, Go, Opening

\* The head of the list on top is known, and those of the others are others.
LEMMA FrameHeads ==
  ASSUME NEW s \in Seq(Frames), NEW r, NEW v, NEW j, NEW h, NEW tag,
         Sound(h, TopsOf(s, r, v, j), tag), NEW i \in 1..Len(s), s[i].head # NULL
  PROVE  /\ s[i].head \in DOMAIN h /\ tag[s[i].head] = Len(s) + 1 - i
         /\ Avoids(DOMAIN h, Nexts(h), s[i].head)
<1>1. PICK k \in Int : k = Len(s) + 1 - i /\ k \in 1..Len(s) /\ Len(s) + 1 - k = i
  <2>1. PICK l \in Nat : l = Len(s)
    BY LenProperties
  <2>2. i \in 1..l
    BY <2>1
  <2>3. l + 1 - i \in Int /\ l + 1 - i \in 1..l /\ l + 1 - (l + 1 - i) = i
    BY <2>2
  <2> QED BY <2>1, <2>3
<1>2. TopsOf(s, r, v, j)[k] = s[i].head
  BY <1>1, TopsAre
<1> QED BY <1>1, <1>2 DEF Sound, Forest, Rooted, Avoids

\* The loops of parse_array and parse_object allocate a node.
LEMMA ElementNodes ==
  ASSUME DepthInv, NodesInv, Element, phase = "parse", UNCHANGED <<phase, values, json_value>>,
         stack # <<>>
  PROVE  NodesInv'
<1>1. PICK tag : Placed(tag)
  BY DEF NodesInv
<1>2. UNCHANGED root /\ values = NULL /\ json_value = NULL /\ at = "element"
  BY DEF Element, NodesInv, HoldersInUse, Adding, Filling
<1>3. /\ Sound(heap, Tops, tag) /\ FramesPlaced(heap, stack, tag) /\ stack \in Seq(Frames)
      /\ NULL \notin Nodes
  BY <1>1, <1>2, JsonAssumption DEF Placed, Parsing, DepthInv
<1>4. ASSUME UNCHANGED <<heap, stack>>, at' = "fail" PROVE NodesInv'
  <2>1. Tops' = Tops
    BY <1>2, <1>4 DEF Tops
  <2>2. Placed(tag)'
    BY <1>3, <1>4, <2>1 DEF Placed, Parsing
  <2>3. HoldersInUse'
    BY <1>2, <1>4 DEF HoldersInUse, Adding, Filling, NodesInv
  <2> QED BY <2>2, <2>3 DEF NodesInv
<1>5. ASSUME NEW n \in Nodes, n \notin DOMAIN heap, heap' = WithElement(heap, n, stack[1].current),
             stack' = WithTop(stack, n), item' = n, at' \in {"name", "value"}
      PROVE  NodesInv'
  <2> DEFINE c == stack[1].current
             f == stack[1].head
             l == Len(stack)
  <2>1. /\ Len(stack') = l /\ \A i \in 1..l : i # 1 => stack'[i] = stack[i]
        /\ stack'[1].item = stack[1].item /\ stack'[1].current = n
        /\ stack'[1].head = IF f = NULL THEN n ELSE f
        /\ Agree(Int \ {l}, Tops', Tops) /\ Tops'[l] = stack'[1].head /\ Tops[l] = f
    <3>1. OnTopOnly(stack, stack', n)
      BY <1>3, <1>5, ElementFrames
    <3>2. Tops' = TopsOf(stack', root, values, json_value) /\ Tops = TopsOf(stack, root, values, json_value)
      BY <1>2 DEF Tops
    <3>3. /\ Agree(Int \ {Len(stack)}, Tops', Tops)
          /\ Tops'[Len(stack)] = stack'[1].head /\ Tops[Len(stack)] = stack[1].head
      BY <1>3, <3>1, <3>2, ElementTops
    <3> QED BY <3>1, <3>3 DEF OnTopOnly
  <2>2. l \in Nat \ {0} /\ l \in Int /\ 1 \in 1..l
    BY <1>3, EmptySeq, LenProperties
  <2>3. FramePlaced(heap, stack[1], tag, l - 1)
    BY <1>3, <2>2 DEF FramesPlaced
  <2>4. n # NULL /\ stack[1].item \in DOMAIN heap
    BY <1>3, <1>5, <2>3 DEF FramePlaced, ItemPlaced
  <2>5. /\ DOMAIN heap' = DOMAIN heap \cup {n} /\ heap'[n].child = NULL
        /\ \A x \in DOMAIN heap : heap'[x].child = heap[x].child
    <3>1. DOMAIN heap' = DOMAIN heap \cup {n} /\ heap'[n] = [Blank EXCEPT !.prev = c]
          /\ \A x \in DOMAIN heap : heap'[x] = IF x = c THEN [heap[x] EXCEPT !.next = n] ELSE heap[x]
      BY <1>5 DEF WithElement
    <3>2. heap'[n].child = NULL BY <3>1 DEF Blank
    <3>3. \A x \in DOMAIN heap : DOMAIN heap[x] = NodeFields BY <1>3 DEF Sound
    <3>4. ASSUME NEW x \in DOMAIN heap PROVE [heap[x] EXCEPT !.next = n].child = heap[x].child
      BY <3>3 DEF NodeFields
    <3> HIDE DEF c
    <3> QED BY <3>1, <3>2, <3>4
  <2>6. \E tag2 : /\ Sound(heap', Tops', tag2) /\ Agree(DOMAIN heap, tag2, tag) /\ tag2[n] = l
                  /\ Ends(heap', stack'[1].head, n) /\ KeepsEnds(heap, heap', f)
    <3>1. CASE f = NULL
      <4>1. c = NULL BY <2>3, <3>1 DEF FramePlaced
      <4>2. PICK node : node = [Blank EXCEPT !.prev = NULL] /\ Bare(node)
        <5>1. DOMAIN [Blank EXCEPT !.prev = NULL] = NodeFields
              /\ [Blank EXCEPT !.prev = NULL].next = NULL /\ [Blank EXCEPT !.prev = NULL].child = NULL
          BY DEF Blank, NodeFields
        <5> QED BY <5>1 DEF Bare
      <4>3. heap' = Put(heap, n, node)
        <5>1. \A x \in DOMAIN heap : x # NULL BY <1>3 DEF Sound
        <5> QED BY <1>5, <4>1, <4>2, <5>1 DEF WithElement, Put
      <4>4. Tops[l] = NULL /\ Tops'[l] = n /\ Agree(Int \ {l}, Tops', Tops)
        BY <2>1, <3>1
      <4>a. PICK t \in Int : t = l
        BY <2>2
      <4>b. PICK T, T2 : T = Tops /\ T2 = Tops'
        OBVIOUS
      <4>5. t = l /\ T = Tops /\ T2 = Tops'
        BY <4>a, <4>b
      <4>6. \E tag2 : /\ Sound(heap', T2, tag2) /\ Agree(DOMAIN heap, tag2, tag) /\ tag2[n] = t
                      /\ Ends(heap', n, n) /\ GrowsEnds(heap, heap')
        <5>1. Sound(heap, T, tag) /\ Takes(T, T2, t, n)
          BY <1>3, <4>4, <4>5 DEF Takes
        <5> HIDE DEF l
        <5> QED BY <1>3, <1>5, <4>2, <4>3, <5>1, NewSound
      <4> QED BY <2>1, <3>1, <4>5, <4>6 DEF KeepsEnds, GrowsEnds
    <3>2. CASE f # NULL
      <4>1. Tops' = Tops
        <5>1. \A k \in Int : Tops'[k] = Tops[k] BY <2>1, <3>2 DEF Agree
        <5> QED BY <5>1 DEF Tops, TopsOf
      <4>2. Holds(Tops, l, f) BY <2>1, <3>2 DEF Holds
      <4>3. Ends(heap, f, c) BY <2>3, <3>2 DEF FramePlaced
      <4>4. PICK t \in Int : t = -3 OBVIOUS
      <4>5. Tops[t] = NULL /\ l # t BY <1>3, <2>2, <4>4, TopsAre DEF Tops
      <4>6. PICK T : T = Tops OBVIOUS
      <4>7. \E tag2 : /\ Sound(heap', T, tag2) /\ Agree(DOMAIN heap, tag2, tag) /\ tag2[n] = l
                      /\ Ends(heap', f, n) /\ KeepsEnds(heap, heap', f)
        <5>1. Sound(heap, T, tag) /\ Holds(T, l, f) /\ T[t] = NULL
          BY <1>3, <4>2, <4>5, <4>6
        <5> HIDE DEF l, f, c
        <5>2. heap' = WithElement(heap, n, c) BY <1>5 DEF c
        <5> QED BY <1>3, <1>5, <2>2, <4>3, <4>5, <5>1, <5>2, ElementSound
      <4> QED BY <2>1, <3>2, <4>1, <4>6, <4>7
    <3> QED BY <3>1, <3>2
  <2>7. PICK tag2 : /\ Sound(heap', Tops', tag2) /\ Agree(DOMAIN heap, tag2, tag) /\ tag2[n] = l
                    /\ Ends(heap', stack'[1].head, n) /\ KeepsEnds(heap, heap', f)
    BY <2>6
  <2>8. FramesPlaced(heap', stack', tag2)
    <3> SUFFICES ASSUME NEW i \in 1..l PROVE FramePlaced(heap', stack'[i], tag2, l - i)
      BY <2>1 DEF FramesPlaced
    <3>1. FramePlaced(heap, stack[i], tag, l - i)
      BY <1>3 DEF FramesPlaced
    <3>2. CASE i = 1
      <4>1. ItemPlaced(heap', stack'[1].item, tag2, l - 1)
        BY <2>1, <2>3, <2>5, <2>7 DEF FramePlaced, ItemPlaced, Agree
      <4>2. stack'[1].head # NULL /\ stack'[1].current # NULL
        BY <2>1, <2>4
      <4> QED BY <2>1, <2>7, <3>2, <4>1, <4>2 DEF FramePlaced
    <3>3. CASE i # 1
      <4>1. stack'[i] = stack[i] BY <2>1, <3>3
      <4>2. ItemPlaced(heap', stack[i].item, tag2, l - i)
        BY <2>5, <2>7, <3>1 DEF FramePlaced, ItemPlaced, Agree
      <4>3. ASSUME stack[i].head # NULL PROVE Ends(heap', stack[i].head, stack[i].current)
        <5>1. /\ stack[i].head \in DOMAIN heap /\ tag[stack[i].head] = l + 1 - i
              /\ Avoids(DOMAIN heap, Nexts(heap), stack[i].head)
          BY <1>3, <4>3, FrameHeads DEF Tops
        <5>2. stack[i].head # f
          <6>1. CASE f = NULL BY <4>3, <6>1
          <6>2. CASE f # NULL
            <7>1. tag[f] = l + 1 - 1 BY <1>3, <2>2, <6>2, FrameHeads DEF Tops
            <7>2. l + 1 - i # l + 1 - 1 BY <2>2, <3>3
            <7> QED BY <5>1, <7>1, <7>2
          <6> QED BY <6>1, <6>2
        <5>3. Ends(heap, stack[i].head, stack[i].current) BY <3>1, <4>3 DEF FramePlaced
        <5> QED BY <2>7, <5>1, <5>2, <5>3 DEF KeepsEnds
      <4> QED BY <3>1, <4>1, <4>2, <4>3 DEF FramePlaced
    <3> QED BY <3>2, <3>3
  <2>9. ItemPlaced(heap', item', tag2, Len(stack'))
    BY <1>5, <2>1, <2>5, <2>7 DEF ItemPlaced
  <2>10. Placed(tag2)'
    BY <2>7, <2>8, <2>9 DEF Placed
  <2>11. HoldersInUse'
    <3>1. stack' # <<>> BY <2>1, <2>2
    <3> QED BY <1>2, <1>5, <3>1 DEF HoldersInUse, Adding, Filling, NodesInv
  <2> QED BY <2>10, <2>11 DEF NodesInv
<1>6. ASSUME Free # {},
             heap' = [n \in DOMAIN heap \cup {Fresh} |->
                      IF n = Fresh THEN [Blank EXCEPT !.prev = stack[1].current]
                      ELSE IF n = stack[1].current THEN [heap[n] EXCEPT !.next = Fresh]
                      ELSE heap[n]],
             stack' = [stack EXCEPT ![1].current = Fresh, ![1].head = IF @ = NULL THEN Fresh ELSE @],
             item' = Fresh, at' \in {"name", "value"}
      PROVE  NodesInv'
  <2>1. PICK n : n = Fresh /\ n \in Nodes /\ n \notin DOMAIN heap
    BY <1>6, FreshIs
  <2>2. heap' = WithElement(heap, n, stack[1].current) /\ stack' = WithTop(stack, n)
        /\ item' = n
    BY <1>6, <2>1 DEF WithElement, WithTop
  <2> QED BY <1>5, <1>6, <2>1, <2>2
<1> QED
  <2>1. \/ Free # {} /\ heap' # heap
        \/ Free # {} /\ at' \in {"name", "value"}
        \/ UNCHANGED <<heap, stack>> /\ at' = "fail"
    BY DEF Element, Go
  <2> QED BY <1>4, <1>6, <2>1 DEF Element, Go

\* The end of a list, whose nodes become the children of its item.
LEMMA MoreNodes ==
  ASSUME DepthInv, NodesInv, More, phase = "parse", UNCHANGED <<phase, values, json_value>>
  PROVE  NodesInv'
<1>1. PICK tag : Placed(tag)
  BY DEF NodesInv
<1>2. UNCHANGED root /\ values = NULL /\ json_value = NULL /\ at = "after" /\ stack # <<>>
  BY DEF More, NodesInv, HoldersInUse, Adding, Filling
<1>3. /\ Sound(heap, Tops, tag) /\ FramesPlaced(heap, stack, tag) /\ stack \in Seq(Frames)
      /\ NULL \notin Nodes
  BY <1>1, <1>2, JsonAssumption DEF Placed, Parsing, DepthInv
<1>4. ASSUME UNCHANGED <<heap, stack>>, at' \in {"element", "fail"} PROVE NodesInv'
  <2>1. Tops' = Tops
    BY <1>2, <1>4 DEF Tops
  <2>2. Placed(tag)'
    BY <1>3, <1>4, <2>1 DEF Placed, Parsing
  <2>3. HoldersInUse'
    BY <1>2, <1>4 DEF HoldersInUse, Adding, Filling, NodesInv
  <2> QED BY <2>2, <2>3 DEF NodesInv
<1>5. ASSUME NEW a,
             heap' = [heap EXCEPT ![stack[1].head].prev = stack[1].current,
                                  ![stack[1].item].type = a,
                                  ![stack[1].item].child = stack[1].head],
             stack' = Tail(stack), at' = "after"
      PROVE  NodesInv'
  <2>a. PICK l \in Nat \ {0} : l = Len(stack)
    BY <1>2, <1>3, EmptySeq, LenProperties
  <2>b. PICK m, r, c : m = stack[1].item /\ r = stack[1].head /\ c = stack[1].current
    OBVIOUS
  <2>1. l = Len(stack) /\ m = stack[1].item /\ r = stack[1].head /\ c = stack[1].current
    BY <2>a, <2>b
  <2>2. /\ Len(stack') = l - 1 /\ \A i \in 1..l - 1 : stack'[i] = stack[i + 1]
        /\ l \in Int /\ 1 \in 1..l
    <3>1. stack \in Seq(Frames) /\ stack # <<>> /\ stack' = Tail(stack)
      BY <1>2, <1>3, <1>5
    <3>2. /\ Len(Tail(stack)) = Len(stack) - 1
          /\ \A i \in 1..Len(stack) - 1 : Tail(stack)[i] = stack[i + 1]
      BY <3>1, HeadTailProperties
    <3> QED BY <2>a, <3>1, <3>2
  <2>3. FramePlaced(heap, stack[1], tag, l - 1)
    BY <1>3, <2>1, <2>2 DEF FramesPlaced
  <2>4. /\ m \in DOMAIN heap /\ tag[m] = l - 1 /\ ItemPlaced(heap, m, tag, l - 1)
        /\ r # NULL => Ends(heap, r, c)
    BY <2>1, <2>3 DEF FramePlaced, ItemPlaced
  <2>5. Gives(Tops, Tops', l, r)
    <3>1. Tops' = TopsOf(Tail(stack), root, values, json_value)
          /\ Tops = TopsOf(stack, root, values, json_value)
      BY <1>2, <1>5 DEF Tops
    <3> QED BY <1>2, <1>3, <2>1, <3>1, PopTops DEF Gives
  <2>6. r # NULL => r \in DOMAIN heap /\ tag[r] = l /\ r # m
    <3>1. ASSUME r # NULL PROVE r \in DOMAIN heap /\ tag[r] = l + 1 - 1
      BY <1>3, <2>1, <2>2, <3>1, FrameHeads DEF Tops
    <3> QED BY <2>4, <3>1
  <2>7. heap' = [heap EXCEPT ![r].prev = c, ![m].type = a, ![m].child = r]
    BY <1>5, <2>1
  <2>8. \A x \in DOMAIN heap : DOMAIN heap[x] = NodeFields
    BY <1>3 DEF Sound
  <2>9. DOMAIN heap' = DOMAIN heap /\ \A x \in DOMAIN heap :
           /\ DOMAIN heap'[x] = DOMAIN heap[x] /\ heap'[x].next = heap[x].next
           /\ heap'[x].child = IF x = m THEN r ELSE heap[x].child
           /\ heap'[x].prev = IF x = r THEN c ELSE heap[x].prev
    <3>1. DOMAIN heap' = DOMAIN heap BY <2>7
    <3>2. ASSUME NEW x \in DOMAIN heap
          PROVE  heap'[x] = IF x = m /\ x = r THEN [heap[x] EXCEPT !.prev = c, !.type = a, !.child = r]
                            ELSE IF x = m THEN [heap[x] EXCEPT !.type = a, !.child = r]
                            ELSE IF x = r THEN [heap[x] EXCEPT !.prev = c]
                            ELSE heap[x]
      BY <2>4, <2>7
    <3>3. ASSUME NEW x \in DOMAIN heap
          PROVE  /\ DOMAIN heap'[x] = DOMAIN heap[x] /\ heap'[x].next = heap[x].next
                 /\ heap'[x].child = IF x = m THEN r ELSE heap[x].child
                 /\ heap'[x].prev = IF x = r THEN c ELSE heap[x].prev
      BY <2>8, <3>2 DEF NodeFields
    <3> QED BY <3>1, <3>3
  <2>10. Adopted(heap, heap', m, r)
    BY <2>4, <2>6, <2>9 DEF Adopted
  <2>11. PICK tag2 : /\ Sound(heap', Tops', tag2)
                     /\ Retagged(DOMAIN heap, tag2, tag, l, tag[m]) /\ AllEnds(heap, heap')
    <3>1. PICK t \in Int : t = l BY <2>2
    <3>2. ItemPlaced(heap, m, tag, tag[m]) /\ tag[m] # t /\ Gives(Tops, Tops', t, r)
      BY <2>4, <2>5, <3>1
    <3>3. \E tag2 : /\ Sound(heap', Tops', tag2)
                    /\ Retagged(DOMAIN heap, tag2, tag, t, tag[m]) /\ AllEnds(heap, heap')
      BY <1>3, <2>10, <3>2, ChildSound
    <3> QED BY <3>1, <3>3
  <2>12. FramesPlaced(heap', stack', tag2)
    <3> SUFFICES ASSUME NEW i \in 1..l - 1 PROVE FramePlaced(heap', stack'[i], tag2, (l - 1) - i)
      BY <2>2 DEF FramesPlaced
    <3>1. i + 1 \in 1..l /\ l - (i + 1) = (l - 1) - i /\ (l - 1) - i # l - 1 /\ (l - 1) - i # l
      BY <2>2
    <3>2. FramePlaced(heap, stack[i + 1], tag, (l - 1) - i)
      BY <1>3, <2>1, <3>1 DEF FramesPlaced
    <3>3. PICK f, k : f = stack[i + 1] /\ stack'[i] = f /\ k = (l - 1) - i
      BY <2>2
    <3>4. k # l - 1 /\ k # l /\ FramePlaced(heap, f, tag, k) BY <3>1, <3>2, <3>3
    <3>5. f.item \in DOMAIN heap /\ heap[f.item].child = NULL /\ tag[f.item] = k
      BY <3>4 DEF FramePlaced, ItemPlaced
    <3>6. f.item # m /\ tag2[f.item] = k
      BY <2>4, <2>11, <3>4, <3>5 DEF Retagged
    <3>7. ItemPlaced(heap', f.item, tag2, k)
      BY <2>9, <3>5, <3>6 DEF ItemPlaced
    <3>8. FramePlaced(heap', f, tag2, k)
      BY <2>11, <3>4, <3>7 DEF FramePlaced, AllEnds
    <3> QED BY <3>3, <3>8
  <2>13. Placed(tag2)'
    BY <1>5, <2>11, <2>12 DEF Placed
  <2>14. HoldersInUse'
    BY <1>2, <1>5 DEF HoldersInUse, Adding, Filling, NodesInv
  <2> QED BY <2>13, <2>14 DEF NodesInv
<1>6. \/ UNCHANGED <<heap, stack>> /\ at' \in {"element", "fail"}
      \/ /\ heap' = [heap EXCEPT ![stack[1].head].prev = stack[1].current,
                                  ![stack[1].item].type = TypeOf(stack[1].kind),
                                  ![stack[1].item].child = stack[1].head]
         /\ stack' = Tail(stack) /\ at' = "after"
  BY DEF More, Go
<1> QED BY <1>4, <1>5, <1>6

\* The fail labels delete one list after the other, and the root.
LEMMA UnwindNodes ==
  ASSUME DepthInv, NodesInv, Unwind, phase = "parse", UNCHANGED <<phase, values, json_value>>
  PROVE  NodesInv'
<1>1. PICK tag : Placed(tag)
  BY DEF NodesInv
<1>2. values = NULL /\ json_value = NULL /\ at = "fail"
  BY DEF Unwind, NodesInv, HoldersInUse, Adding, Filling
<1>3. Sound(heap, Tops, tag) /\ stack \in Seq(Frames) /\ NULL \notin Nodes
  BY <1>1, JsonAssumption DEF Placed, DepthInv
<1>4. ASSUME NEW t \in Int, NEW r, Gives(Tops, Tops', t, r), heap' = Deleted(heap, r),
             at' \in {"fail", "done"}
      PROVE  Placed(tag)'
  <2>1. Sound(heap', Tops', tag)
    BY <1>3, <1>4, DeletedSound
  <2> QED BY <1>4, <2>1 DEF Placed, Parsing
<1>5. CASE stack # <<>>
  <2>1. heap' = Deleted(heap, stack[1].head) /\ stack' = Tail(stack) /\ root' = root /\ at' = "fail"
    BY <1>2, <1>5 DEF Unwind
  <2>a. PICK l \in Int : l = Len(stack)
    BY <1>3, LenProperties
  <2>b. PICK r : r = stack[1].head
    OBVIOUS
  <2>2. l = Len(stack) /\ r = stack[1].head
    BY <2>a, <2>b
  <2>3. Tops' = TopsOf(Tail(stack), root, values, json_value)
        /\ Tops = TopsOf(stack, root, values, json_value)
    BY <2>1 DEF Tops
  <2>4. Gives(Tops, Tops', l, r)
    BY <1>3, <1>5, <2>2, <2>3, PopTops DEF Gives
  <2>5. Placed(tag)'
    BY <1>4, <2>1, <2>2, <2>4
  <2>6. HoldersInUse'
    BY <1>2, <2>1 DEF HoldersInUse, Adding, Filling, NodesInv
  <2> QED BY <2>5, <2>6 DEF NodesInv
<1>6. CASE stack = <<>>
  <2>1. heap' = Deleted(heap, root) /\ stack' = stack /\ root' = NULL /\ at' = "done"
    BY <1>6 DEF Unwind, Go
  <2>2. Gives(Tops, Tops', 0, root)
    BY <2>1 DEF Gives, Tops, TopsOf, Agree
  <2>3. Placed(tag)'
    BY <1>4, <2>1, <2>2
  <2>4. HoldersInUse'
    BY <1>2, <1>6, <2>1 DEF HoldersInUse, Adding, Filling, NodesInv
  <2> QED BY <2>3, <2>4 DEF NodesInv
<1> QED BY <1>5, <1>6

\* The parser keeps the nodes in order.
LEMMA ParseKeepsNodes ==
  ASSUME DepthInv, NodesInv, Parse, phase = "parse", UNCHANGED <<phase, values, json_value>>
  PROVE  NodesInv'
<1>1. Element => stack # <<>>
  BY DEF Element, NodesInv, HoldersInUse
<1> QED BY <1>1, StartNodes, FillNodes, OpenNodes, ElementNodes, MoreNodes, UnwindNodes DEF Parse

\* What a holder points to is a node of its tree.
LEMMA HolderHas ==
  ASSUME NEW h, NEW top, NEW tag, Sound(h, top, tag), NEW k \in Int, top[k] # NULL
  PROVE  top[k] \in DOMAIN h /\ tag[top[k]] = k
BY DEF Sound, Forest, Rooted

\* While no text is parsed the holders are the three of the program.
LEMMA OutsideParse ==
  ASSUME DepthInv, NodesInv, phase # "parse"
  PROVE  /\ at = "done" /\ stack = <<>>
         /\ Tops[0] = root /\ Tops[-1] = values /\ Tops[-2] = json_value /\ Tops[-3] = NULL
         /\ \E tag : Sound(heap, Tops, tag)
<1>1. at = "done" /\ stack = <<>>
  BY DEF DepthInv, ParserIdle, NodesInv, HoldersInUse
<1>2. Tops[0] = root /\ Tops[-1] = values /\ Tops[-2] = json_value /\ Tops[-3] = NULL
  BY <1>1 DEF Tops, TopsOf
<1> QED BY <1>1, <1>2 DEF NodesInv, Placed

\* Outside the parser the heap has to be sound, and no more.
LEMMA StaysSound ==
  ASSUME NEW tag, Sound(heap', Tops', tag), at' = "done", HoldersInUse'
  PROVE  NodesInv'
BY DEF NodesInv, Placed, Parsing

\* cJSON_Delete of root, when it is done with.
LEMMA RootNodes ==
  ASSUME DepthInv, NodesInv, phase # "parse" \/ at = "done", heap' = Deleted(heap, root), root' = NULL,
         UNCHANGED <<stack, at, values, json_value>>, HoldersInUse'
  PROVE  NodesInv'
<1>1. at = "done" /\ stack = <<>>
  BY DEF DepthInv, ParserIdle, NodesInv, HoldersInUse
<1>2. PICK tag : Sound(heap, Tops, tag)
  BY DEF NodesInv, Placed
<1>3. Gives(Tops, Tops', 0, root)
  BY <1>1 DEF Gives, Tops, TopsOf, Agree
<1>4. Sound(heap', Tops', tag)
  BY <1>2, <1>3, JsonAssumption, DeletedSound
<1> QED BY <1>1, <1>4, StaysSound

\* A new node for a holder that has none.
LEMMA CreateNodes ==
  ASSUME DepthInv, NodesInv, phase # "parse", NEW t \in Int, NEW node, Bare(node),
         Free # {}, heap' = Put(heap, Fresh, node), Takes(Tops, Tops', t, Fresh),
         UNCHANGED at, HoldersInUse'
  PROVE  NodesInv'
<1>1. PICK n : n = Fresh /\ n \in Nodes /\ n \notin DOMAIN heap
  BY FreshIs
<1>2. PICK tag : Sound(heap, Tops, tag)
  BY OutsideParse
<1>3. heap' = Put(heap, n, node) /\ Takes(Tops, Tops', t, n) /\ NULL \notin Nodes
  BY <1>1, JsonAssumption
<1>4. \E tag2 : Sound(heap', Tops', tag2)
  BY <1>1, <1>2, <1>3, NewSound
<1>5. at' = "done"
  BY OutsideParse
<1> QED BY <1>4, <1>5, StaysSound

\* Each return of add_single_record deletes what was built.
LEMMA ReturnNodes ==
  ASSUME DepthInv, NodesInv, phase # "parse", ReturnFromAdd, UNCHANGED <<stack, root, at>>,
         root = NULL
  PROVE  NodesInv'
<1>1. /\ heap' = Deleted(Deleted(heap, json_value), values)
      /\ values' = NULL /\ json_value' = NULL /\ phase' = "ready"
  BY DEF ReturnFromAdd, Enter
<1>2. PICK tag : Sound(heap, Tops, tag)
  BY OutsideParse
<1>3. at = "done" /\ stack = <<>>
  BY OutsideParse
<1>4. PICK h, T : h = Deleted(heap, json_value) /\ T = TopsOf(stack, root, values, NULL)
  OBVIOUS
<1>5. Gives(Tops, T, -2, json_value)
  BY <1>3, <1>4 DEF Gives, Tops, TopsOf, Agree
<1>6. Sound(h, T, tag)
  BY <1>2, <1>4, <1>5, JsonAssumption, DeletedSound
<1>7. Gives(T, Tops', -1, values)
  BY <1>1, <1>3, <1>4 DEF Gives, Tops, TopsOf, Agree
<1>8. heap' = Deleted(h, values)
  BY <1>1, <1>4
<1>9. Sound(heap', Tops', tag)
  BY <1>6, <1>7, <1>8, JsonAssumption, DeletedSound
<1>10. HoldersInUse'
  BY <1>1, <1>3 DEF HoldersInUse, Adding, Filling
<1> QED BY <1>3, <1>9, <1>10, StaysSound

\* A member of the value of an MX record.
LEMMA MemberNodes ==
  ASSUME DepthInv, NodesInv, phase \in Filling, NEW node, Bare(node), NEW name, Free # {},
         heap' = AddItemToObject(Put(heap, Fresh, node), json_value, name, Fresh),
         UNCHANGED <<stack, root, at, values, json_value>>, phase' \in Filling
  PROVE  NodesInv'
<1>1. PICK n : n = Fresh /\ n \in Nodes /\ n \notin DOMAIN heap
  BY FreshIs
<1>2. PICK tag : Sound(heap, Tops, tag)
  BY OutsideParse DEF Filling
<1>3. /\ at = "done" /\ Tops[-2] = json_value /\ Tops[-3] = NULL /\ Tops' = Tops
      /\ NULL \notin Nodes /\ root = NULL
  BY OutsideParse, JsonAssumption DEF Filling, Tops, NodesInv, HoldersInUse
<1>4. /\ json_value # NULL /\ heap[json_value].next = NULL
      /\ json_value \in DOMAIN heap /\ tag[json_value] = -2
  BY <1>2, <1>3, HolderHas DEF NodesInv, HoldersInUse
<1>a. PICK t \in Int : t = -3
  OBVIOUS
<1>5. PICK T : T = [k \in Int |-> IF k = t THEN n ELSE Tops[k]]
  OBVIOUS
<1>6. Takes(Tops, T, t, n) /\ Gives(T, Tops, t, n)
  BY <1>a, <1>3, <1>5 DEF Takes, Gives, Agree
<1>7. PICK h1 : h1 = Put(heap, n, node)
  OBVIOUS
<1>8. PICK tag1 : Sound(h1, T, tag1) /\ Agree(DOMAIN heap, tag1, tag) /\ tag1[n] = t
  BY <1>1, <1>2, <1>3, <1>6, <1>7, NewSound
<1>9. PICK h2 : h2 = [h1 EXCEPT ![n].string = name]
  OBVIOUS
<1>10. /\ DOMAIN h1 = DOMAIN heap \cup {n} /\ h1[n] = node /\ \A x \in DOMAIN heap : h1[x] = heap[x]
       /\ DOMAIN node = NodeFields /\ node.next = NULL
  <2>1. DOMAIN h1 = DOMAIN heap \cup {n} /\ h1[n] = node
    BY <1>7 DEF Put
  <2>2. \A x \in DOMAIN heap : h1[x] = heap[x]
    BY <1>1, <1>7 DEF Put
  <2>3. DOMAIN node = NodeFields /\ node.next = NULL
    BY DEF Bare
  <2> QED BY <2>1, <2>2, <2>3
<1>11. SameLinks(h1, h2) /\ h2[n].next = NULL /\ h2[json_value].next = NULL
       /\ n \in DOMAIN h2 /\ json_value \in DOMAIN h2
  <2>1. DOMAIN h2 = DOMAIN h1 /\ \A x \in DOMAIN h1 : x # n => h2[x] = h1[x]
    BY <1>9
  <2>2. h2[n] = [node EXCEPT !.string = name] BY <1>9, <1>10
  <2>3. /\ DOMAIN h2[n] = DOMAIN node /\ h2[n].next = node.next /\ h2[n].child = node.child
        /\ h2[n].prev = node.prev
    BY <2>2, <1>10 DEF NodeFields
  <2> QED BY <2>1, <2>3, <1>1, <1>4, <1>10 DEF SameLinks
<1>12. Sound(h2, T, tag1)
  <2>1. Agree(Int, T, T) BY DEF Agree
  <2> QED BY <1>8, <1>11, <2>1, FilledIn
<1>13. PICK g : g = heap' /\ g = AddItemToArray(h2, json_value, n)
  BY <1>1, <1>7, <1>9 DEF AddItemToObject
<1>14. tag1[json_value] # t /\ n # NULL
  BY <1>a, <1>1, <1>3, <1>4, <1>8 DEF Agree
<1>15. /\ g[json_value].next = h2[json_value].next
       /\ \E tag2 : Sound(g, Tops, tag2) /\ KeepsTags(h2, tag2, tag1, t)
  BY <1>3, <1>6, <1>11, <1>12, <1>13, <1>14, AppendSound
<1>16. HoldersInUse'
  BY <1>3, <1>4, <1>11, <1>13, <1>15 DEF HoldersInUse, NodesInv, Adding, Filling
<1> QED BY <1>3, <1>13, <1>15, <1>16, StaysSound

\* The value goes into the array.
LEMMA AppendNodes ==
  ASSUME DepthInv, NodesInv, AppendValue
  PROVE  NodesInv'
<1>1. /\ phase = "add_append" /\ heap' = AddItemToArray(heap, values, json_value)
      /\ json_value' = NULL /\ phase' = "add_store" /\ UNCHANGED <<stack, root, at, values>>
  BY DEF AppendValue, Enter
<1>2. PICK tag : Sound(heap, Tops, tag)
  BY <1>1, OutsideParse
<1>3. /\ at = "done" /\ stack = <<>> /\ Tops[-2] = json_value /\ Tops[-1] = values
      /\ NULL \notin Nodes /\ root = NULL
  BY <1>1, OutsideParse, JsonAssumption DEF NodesInv, HoldersInUse
<1>4. /\ json_value # NULL /\ heap[json_value].next = NULL /\ values # NULL
      /\ values \in DOMAIN heap /\ tag[values] = -1
  BY <1>1, <1>2, <1>3, HolderHas DEF NodesInv, HoldersInUse, Adding, Filling
<1>a. PICK t \in Int : t = -2
  OBVIOUS
<1>b. PICK n, a : n = json_value /\ a = values
  OBVIOUS
<1>5. t = -2 /\ n = json_value /\ a = values
  BY <1>a, <1>b
<1>6. Gives(Tops, Tops', t, n)
  BY <1>1, <1>3, <1>5 DEF Gives, Tops, TopsOf, Agree
<1>7. heap' = AddItemToArray(heap, a, n) /\ tag[a] # t /\ a \in DOMAIN heap /\ n # NULL
      /\ heap[n].next = NULL
  BY <1>1, <1>4, <1>5
<1>8. \E tag2 : Sound(heap', Tops', tag2) /\ KeepsTags(heap, tag2, tag, t)
  BY <1>2, <1>3, <1>6, <1>7, AppendSound
<1>9. HoldersInUse'
  BY <1>1, <1>3, <1>4 DEF HoldersInUse, Adding, Filling
<1> QED BY <1>1, <1>3, <1>8, <1>9, StaysSound

\* There are no nodes at first.
LEMMA NodesInit == Init => NodesInv
<1> SUFFICES ASSUME Init PROVE NodesInv
  OBVIOUS
<1>1. /\ stack = <<>> /\ heap = <<>> /\ root = NULL /\ values = NULL /\ json_value = NULL
      /\ at = "done" /\ phase = "open"
  BY DEF Init
<1>2. DOMAIN heap = {}
  BY <1>1
<1>3. \A k \in Int : Tops[k] = NULL
  BY <1>1 DEF Tops, TopsOf
<1>4. PICK tag : tag = [x \in {} |-> 0]
  OBVIOUS
<1>5. Sound(heap, Tops, tag)
  BY <1>2, <1>3 DEF Sound, Forest, Shape, Grounded, Rooted, Chained
<1>6. HoldersInUse
  BY <1>1 DEF HoldersInUse, Adding, Filling
<1> QED BY <1>1, <1>5, <1>6 DEF NodesInv, Placed, Parsing

\* The steps outside cJSON that touch no node.
QuietPhase ==
  \/ phase' = phase
  \/ phase' = "aborted"
  \/ phase \notin Adding \cup {"aborted"} /\ root = NULL /\ phase' \notin Adding

\* They keep the invariant.
LEMMA QuietNodes ==
  ASSUME DepthInv, NodesInv, phase # "parse", UNCHANGED <<heap, stack, root, values, json_value>>,
         at' = at \/ (phase = "open" /\ at' = "start"), QuietPhase
  PROVE  NodesInv'
<1>1. /\ at = "done" /\ stack = <<>> /\ (phase = "open" => root = NULL)
      /\ HoldersInUse
  BY OutsideParse DEF NodesInv, HoldersInUse
<1>2. HoldersInUse'
  <2>1. CASE phase' = phase BY <1>1, <2>1 DEF HoldersInUse, Adding, Filling
  <2>2. CASE phase' = "aborted" BY <1>1, <2>2 DEF HoldersInUse, Adding, Filling
  <2>3. CASE phase \notin Adding \cup {"aborted"} /\ root = NULL /\ phase' \notin Adding
    <3>1. values = NULL /\ json_value = NULL
      BY <1>1, <2>3 DEF HoldersInUse, Adding
    <3> QED BY <1>1, <2>3, <3>1 DEF HoldersInUse, Adding
  <2> QED BY <2>1, <2>2, <2>3 DEF QuietPhase
<1>3. Tops' = Tops
  BY DEF Tops
<1>4. PICK tag : Sound(heap, Tops, tag)
  BY OutsideParse
<1>5. Sound(heap', Tops', tag) /\ stack' = <<>> /\ at' \in {"done", "start"}
  BY <1>1, <1>3, <1>4
<1>6. Placed(tag)'
  BY <1>5 DEF Placed, Parsing
<1> QED BY <1>2, <1>6 DEF NodesInv

\* Every step keeps the invariant.
LEMMA NodesStep == DepthInv /\ NodesInv /\ [Next]_vars => NodesInv'
<1> SUFFICES ASSUME DepthInv, NodesInv, [Next]_vars PROVE NodesInv'
  OBVIOUS
<1> USE DEF Enter
<1>1. HoldersInUse BY DEF NodesInv
<1>2. ASSUME NEW f \in Files, ReadFile(f) PROVE NodesInv'
  <2>1. /\ phase = "open" /\ phase' \in {"parse", "failed"} /\ at' \in {at, "start"}
        /\ UNCHANGED <<heap, stack, root, values, json_value>>
    BY <1>2 DEF ReadFile, addVars
  <2>2. root = NULL BY <1>1, <2>1 DEF HoldersInUse
  <2>3. QuietPhase BY <2>1, <2>2 DEF QuietPhase, Adding, Filling
  <2> QED BY <2>1, <2>3, QuietNodes
<1>3. CASE ParseStep
  <2>1. phase = "parse" /\ Parse /\ UNCHANGED <<phase, values, json_value>>
    BY <1>3 DEF ParseStep, addVars
  <2> QED BY <2>1, ParseKeepsNodes
<1>4. CASE CheckSchema
  <2>1. phase = "parse" /\ at = "done" /\ UNCHANGED <<stack, at, values, json_value>>
    BY <1>4 DEF CheckSchema, addVars
  <2>2. stack = <<>> /\ values = NULL /\ json_value = NULL
    BY <1>1, <2>1 DEF HoldersInUse, Adding, Filling
  <2>3. CASE phase' = "load" /\ UNCHANGED <<heap, root>>
    <3>1. Tops' = Tops BY <2>1, <2>3 DEF Tops
    <3>2. PICK tag : Sound(heap, Tops, tag) BY DEF NodesInv, Placed
    <3>3. Sound(heap', Tops', tag) /\ at' = "done" BY <2>1, <2>3, <3>1, <3>2
    <3>4. HoldersInUse' BY <2>1, <2>2, <2>3 DEF HoldersInUse, Adding, Filling
    <3> QED BY <3>3, <3>4, StaysSound
  <2>4. CASE phase' = "failed" /\ heap' = Deleted(heap, root) /\ root' = NULL
    <3>1. HoldersInUse' BY <2>1, <2>2, <2>4 DEF HoldersInUse, Adding, Filling
    <3> QED BY <2>1, <2>4, <3>1, RootNodes
  <2> QED BY <1>4, <2>3, <2>4 DEF CheckSchema
<1>5. CASE LoadRecord
  <2>1. /\ phase = "load" /\ phase' \in {"load", "aborted"}
        /\ UNCHANGED <<heap, stack, root, values, json_value, at>>
    BY <1>5 DEF LoadRecord, HashFatal, addVars, jsonVars
  <2>2. QuietPhase BY <2>1 DEF QuietPhase
  <2> QED BY <2>1, <2>2, QuietNodes
<1>6. CASE EndLoad
  <2>1. /\ phase = "load" /\ phase' \in {"loaded", "failed"}
        /\ heap' = Deleted(heap, root) /\ root' = NULL
        /\ UNCHANGED <<stack, at, values, json_value>>
    BY <1>6 DEF EndLoad, addVars
  <2>2. at = "done" /\ stack = <<>> BY <2>1, OutsideParse
  <2>3. HoldersInUse' BY <1>1, <2>1, <2>2 DEF HoldersInUse, Adding, Filling
  <2> QED BY <2>1, <2>3, RootNodes
<1>7. CASE ReturnFromLoad
  <2>1. /\ phase \in {"loaded", "failed"} /\ phase' \in {"ready", "cleanup"}
        /\ UNCHANGED <<heap, stack, root, at, values, json_value>>
    BY <1>7 DEF ReturnFromLoad, addVars
  <2>2. root = NULL BY <1>1, <2>1 DEF HoldersInUse
  <2>3. QuietPhase BY <2>1, <2>2 DEF QuietPhase, Adding, Filling
  <2> QED BY <2>1, <2>3, QuietNodes
<1>8. ASSUME NEW r \in AddRequests, BeginAdd(r) PROVE NodesInv'
  <2>1. phase = "ready" /\ UNCHANGED <<stack, root, at, json_value>>
    BY <1>8 DEF BeginAdd, Command
  <2>2. root = NULL /\ values = NULL /\ json_value = NULL
    BY <1>1, <2>1 DEF HoldersInUse, Adding, Filling
  <2>3. CASE Free # {} /\ heap' = CreateArray(heap, Fresh) /\ values' = Fresh /\ phase' = "add_value"
    <3>1. at = "done" /\ stack = <<>> BY <2>1, OutsideParse
    <3>2. PICK t \in Int : t = -1
      OBVIOUS
    <3>0. PICK node : node = [Blank EXCEPT !.type = "Array"]
      OBVIOUS
    <3>3. Takes(Tops, Tops', t, Fresh)
      BY <2>1, <2>2, <2>3, <3>1, <3>2 DEF Takes, Tops, TopsOf, Agree
    <3>4. Bare(node)
      BY <3>0 DEF Bare, Blank, NodeFields
    <3>5. heap' = Put(heap, Fresh, node)
      BY <2>3, <3>0 DEF CreateArray
    <3>6. Fresh # NULL BY <2>3, FreshIs, JsonAssumption
    <3>7. HoldersInUse'
      BY <2>1, <2>2, <2>3, <3>1, <3>6 DEF HoldersInUse, Adding, Filling
    <3> QED BY <2>1, <2>3, <3>3, <3>4, <3>5, <3>7, CreateNodes
  <2>4. CASE UNCHANGED <<heap, values, phase>>
    <3>1. QuietPhase BY <2>4 DEF QuietPhase
    <3> QED BY <2>1, <2>4, <3>1, QuietNodes
  <2> QED BY <1>8, <2>3, <2>4 DEF BeginAdd
<1>9. CASE CreateValue
  <2>1. phase = "add_value" /\ UNCHANGED <<stack, root, at>>
    BY <1>9 DEF CreateValue
  <2>2. root = NULL /\ values # NULL /\ json_value = NULL
    BY <1>1, <2>1 DEF HoldersInUse, Adding, Filling
  <2>3. CASE ReturnFromAdd
    BY <2>1, <2>2, <2>3, ReturnNodes
  <2>4. ASSUME NEW node, Bare(node), heap' = Put(heap, Fresh, node), phase' \in {"add_priority", "add_append"},
               Free # {}, json_value' = Fresh, UNCHANGED values
        PROVE  NodesInv'
    <3>1. at = "done" /\ stack = <<>> BY <2>1, OutsideParse
    <3>2. PICK t \in Int : t = -2
      OBVIOUS
    <3>3. Takes(Tops, Tops', t, Fresh)
      BY <2>1, <2>2, <2>4, <3>1, <3>2 DEF Takes, Tops, TopsOf, Agree
    <3>6. Fresh # NULL BY <2>4, FreshIs, JsonAssumption
    <3>7. heap'[Fresh].next = NULL
      BY <2>4 DEF Put, Bare
    <3>8. HoldersInUse'
      BY <2>1, <2>2, <2>4, <3>1, <3>6, <3>7 DEF HoldersInUse, Adding, Filling
    <3> QED BY <2>1, <2>4, <3>3, <3>8, CreateNodes
  <2>5. ASSUME Free # {}, json_value' = Fresh, UNCHANGED values,
               heap' = CreateObject(heap, Fresh), phase' = "add_priority"
        PROVE  NodesInv'
    <3>1. PICK node : node = [Blank EXCEPT !.type = "Object"]
      OBVIOUS
    <3>2. Bare(node) /\ heap' = Put(heap, Fresh, node)
      BY <2>5, <3>1 DEF CreateObject, Bare, Blank, NodeFields
    <3> QED BY <2>4, <2>5, <3>2
  <2>6. ASSUME Free # {}, json_value' = Fresh, UNCHANGED values,
               heap' = CreateString(heap, Fresh, request.value.str), phase' = "add_append"
        PROVE  NodesInv'
    <3>1. PICK node : node = [Blank EXCEPT !.type = "String", !.valuestring = request.value.str]
      OBVIOUS
    <3>2. Bare(node) /\ heap' = Put(heap, Fresh, node)
      BY <2>6, <3>1 DEF CreateString, Bare, Blank, NodeFields
    <3> QED BY <2>4, <2>6, <3>2
  <2> QED BY <1>9, <2>3, <2>5, <2>6 DEF CreateValue
<1>10. CASE AddMember
  <2>1. phase \in {"add_priority", "add_exchange"} /\ UNCHANGED <<stack, root, at>>
    BY <1>10 DEF AddMember
  <2>2. root = NULL /\ phase \in Filling
    BY <1>1, <2>1 DEF HoldersInUse, Filling
  <2>3. CASE ReturnFromAdd
    BY <2>1, <2>2, <2>3, ReturnNodes
  <2>4. ASSUME NEW node, Bare(node), NEW name, phase' \in {"add_exchange", "add_append"}, Free # {},
               heap' = AddItemToObject(Put(heap, Fresh, node), json_value, name, Fresh),
               UNCHANGED <<values, json_value>>
        PROVE  NodesInv'
    <3>1. phase' \in Filling BY <2>4 DEF Filling
    <3> QED BY <2>1, <2>2, <2>4, <3>1, MemberNodes
  <2>5. ASSUME Free # {}, UNCHANGED <<values, json_value>>, phase' = "add_exchange",
               heap' = AddItemToObject(CreateNumber(heap, Fresh, request.value.pref),
                                       json_value, <<"priority">>, Fresh)
        PROVE  NodesInv'
    <3>1. PICK node : node = [Blank EXCEPT !.type = "Number", !.valueint = Saturated(request.value.pref)]
      OBVIOUS
    <3>2. Bare(node) /\ CreateNumber(heap, Fresh, request.value.pref) = Put(heap, Fresh, node)
      BY <3>1 DEF CreateNumber, Bare, Blank, NodeFields
    <3> QED BY <2>4, <2>5, <3>2
  <2>6. ASSUME Free # {}, UNCHANGED <<values, json_value>>, phase' = "add_append",
               heap' = AddItemToObject(CreateString(heap, Fresh, request.value.str),
                                       json_value, <<"value">>, Fresh)
        PROVE  NodesInv'
    <3>1. PICK node : node = [Blank EXCEPT !.type = "String", !.valuestring = request.value.str]
      OBVIOUS
    <3>2. Bare(node) /\ CreateString(heap, Fresh, request.value.str) = Put(heap, Fresh, node)
      BY <3>1 DEF CreateString, Bare, Blank, NodeFields
    <3> QED BY <2>4, <2>6, <3>2
  <2> QED BY <1>10, <2>3, <2>5, <2>6 DEF AddMember
<1>11. CASE AppendValue
  BY <1>11, AppendNodes
<1>12. CASE StoreValue
  <2>1. phase = "add_store" /\ UNCHANGED <<stack, root, at>>
    BY <1>12 DEF StoreValue
  <2>2. root = NULL
    BY <1>1, <2>1 DEF HoldersInUse
  <2>3. CASE ReturnFromAdd
    BY <2>1, <2>2, <2>3, ReturnNodes
  <2>4. CASE phase' = "aborted" /\ UNCHANGED <<heap, values, json_value>>
    <3>1. QuietPhase BY <2>4 DEF QuietPhase
    <3> QED BY <2>1, <2>4, <3>1, QuietNodes
  <2> QED BY <1>12, <2>3, <2>4 DEF StoreValue, HashFatal, addVars
<1>13. CASE /\ UNCHANGED <<heap, stack, root, values, json_value, at>>
            /\ phase \in {"ready", "list", "clear", "cleanup"}
            /\ phase' \in {"ready", "list", "clear", "cleanup", "open", "ended"}
  <2>1. root = NULL BY <1>1, <1>13 DEF HoldersInUse
  <2>2. QuietPhase BY <1>13, <2>1 DEF QuietPhase, Adding, Filling
  <2> QED BY <1>13, <2>2, QuietNodes
<1>14. CASE UNCHANGED vars
  <2>1. UNCHANGED <<heap, stack, item, root, at, values, json_value, phase>>
    BY <1>14 DEF vars, jsonVars, addVars
  <2>2. HoldersInUse' BY <1>1, <2>1 DEF HoldersInUse
  <2>3. PICK tag : Placed(tag) BY DEF NodesInv
  <2>4. Tops' = Tops BY <2>1 DEF Tops
  <2>5. Placed(tag)' BY <2>1, <2>3, <2>4 DEF Placed
  <2> QED BY <2>2, <2>5 DEF NodesInv
<1>15. ASSUME NEW k \in DeleteKeys, DeleteRecord(k) PROVE NodesInv'
  BY <1>13, <1>15 DEF DeleteRecord, Command, jsonVars, addVars
<1>16. ASSUME BeginList \/ ListChunk \/ EndList PROVE NodesInv'
  BY <1>13, <1>16 DEF BeginList, ListChunk, EndList, Command, jsonVars, addVars
<1>17. ASSUME BeginReload \/ BeginCleanup \/ ClearRecord \/ EndClear PROVE NodesInv'
  BY <1>13, <1>17 DEF BeginReload, BeginCleanup, ClearRecord, EndClear, Command, jsonVars, addVars
<1> QED
  BY <1>2, <1>3, <1>4, <1>5, <1>6, <1>7, <1>8, <1>9, <1>10, <1>11, <1>12, <1>14, <1>15, <1>16, <1>17
  DEF Next, Load, Terminated

(***************************************************************************)
(* Who deletes a node.                                                     *)
(***************************************************************************)
Hands == <<root, values, json_value>>

\* The frames, and the hands, that point to n.
Heads(n) == {i \in 1..Len(stack) : stack[i].head = n}
Held(n) == {i \in 1..Len(Hands) : Hands[i] = n}

\* A node that no holder points to is in no frame and no hand.
LEMMA HeldByNone ==
  ASSUME stack \in Seq(Frames), NEW n, \A k \in Int : Tops[k] # n
  PROVE  Heads(n) = {} /\ Held(n) = {}
<1>1. /\ Tops[0] = root /\ Tops[-1] = values /\ Tops[-2] = json_value /\ Len(stack) \in Nat
      /\ \A k \in 1..Len(stack) : Tops[k] = stack[Len(stack) + 1 - k].head
  BY TopsAre, LenProperties DEF Tops
<1>2. ASSUME NEW i \in 1..Len(stack), stack[i].head = n PROVE FALSE
  <2>1. PICK k \in 1..Len(stack) : k = Len(stack) + 1 - i /\ Len(stack) + 1 - k = i
    BY <1>1
  <2>2. Tops[k] = stack[i].head BY <1>1, <2>1
  <2> QED BY <1>2, <2>2
<1>3. root # n /\ values # n /\ json_value # n
  BY <1>1
<1>4. Len(Hands) = 3 /\ Hands[1] = root /\ Hands[2] = values /\ Hands[3] = json_value
  BY DEF Hands
<1>5. Held(n) = {} BY <1>3, <1>4 DEF Held
<1> QED BY <1>2, <1>5 DEF Heads

\* A node that one holder points to is in one of them.
LEMMA HeldByOne ==
  ASSUME stack \in Seq(Frames), NEW n, n # NULL, NEW k \in Int, Tops[k] = n,
         \A j \in Int : Tops[j] = n => j = k
  PROVE  \/ Heads(n) = {} /\ \E i : Held(n) = {i}
         \/ Held(n) = {} /\ \E i : Heads(n) = {i}
<1>1. /\ Tops[0] = root /\ Tops[-1] = values /\ Tops[-2] = json_value /\ Len(stack) \in Nat
      /\ \A j \in 1..Len(stack) : Tops[j] = stack[Len(stack) + 1 - j].head
      /\ \A j \in Int : j > Len(stack) \/ j < -2 => Tops[j] = NULL
  BY TopsAre, LenProperties DEF Tops
<1>2. PICK l \in Nat : l = Len(stack)
  BY <1>1
<1>3. \A i \in 1..l : stack[i].head = n => l + 1 - i = k
  <2> SUFFICES ASSUME NEW i \in 1..l, stack[i].head = n PROVE l + 1 - i = k
    OBVIOUS
  <2>1. PICK j \in 1..l : j = l + 1 - i /\ l + 1 - j = i
    OBVIOUS
  <2>2. Tops[j] = stack[i].head BY <1>1, <1>2, <2>1
  <2> QED BY <2>1, <2>2
<1>4. Len(Hands) = 3 /\ Hands[1] = root /\ Hands[2] = values /\ Hands[3] = json_value
  BY DEF Hands
<1>5. (root = n => k = 0) /\ (values = n => k = -1) /\ (json_value = n => k = -2)
  BY <1>1
<1>6. CASE k \in 1..l
  <2>1. Held(n) = {} BY <1>4, <1>5, <1>6 DEF Held
  <2>2. PICK i \in 1..l : i = l + 1 - k
    BY <1>6
  <2>3. stack[i].head = n BY <1>1, <1>2, <1>6, <2>2
  <2>4. \A j \in 1..l : stack[j].head = n => j = i BY <1>3, <1>6, <2>2
  <2>5. Heads(n) = {i} BY <1>2, <2>3, <2>4 DEF Heads
  <2> QED BY <2>1, <2>5
<1>7. CASE k \notin 1..l
  <2>1. Heads(n) = {}
    <3>1. \A i \in 1..l : l + 1 - i \in 1..l
      OBVIOUS
    <3> QED BY <1>2, <1>3, <1>7, <3>1 DEF Heads
  <2>2. k = 0 \/ k = -1 \/ k = -2 BY <1>1, <1>2, <1>7
  <2>3. CASE k = 0
    <3>1. Held(n) = {1} BY <1>1, <1>4, <1>5, <2>3 DEF Held
    <3> QED BY <2>1, <3>1
  <2>4. CASE k = -1
    <3>1. Held(n) = {2} BY <1>1, <1>4, <1>5, <2>4 DEF Held
    <3> QED BY <2>1, <3>1
  <2>5. CASE k = -2
    <3>1. Held(n) = {3} BY <1>1, <1>4, <1>5, <2>5 DEF Held
    <3> QED BY <2>1, <3>1
  <2> QED BY <2>2, <2>3, <2>4, <2>5
<1> QED BY <1>6, <1>7

\* A node in use has one owner, a free one none.
LEMMA OneOwner ==
  ASSUME DepthInv, NodesInv, NEW n \in Nodes
  PROVE  Owners(n, Hands) = IF n \in DOMAIN heap THEN 1 ELSE 0
<1> DEFINE U == DOMAIN heap
           Before == {m \in U : heap[m].next = n}
           Above == {m \in U : heap[m].child = n}
<1>1. PICK tag : Sound(heap, Tops, tag)
  BY DEF NodesInv, Placed
<1>2. /\ Shape(U, Nexts(heap), Firsts(heap)) /\ Rooted(U, Nexts(heap), Firsts(heap), Tops, tag)
      /\ \A m \in U : Nexts(heap)[m] = heap[m].next /\ Firsts(heap)[m] = heap[m].child
  BY <1>1 DEF Sound, Forest, Nexts, Firsts
<1>3. n # NULL /\ stack \in Seq(Frames)
  BY JsonAssumption DEF DepthInv
<1>4. Owners(n, Hands) = Cardinality(Before) + Cardinality(Above)
                         + Cardinality(Heads(n)) + Cardinality(Held(n))
  BY DEF Owners, Heads, Held
<1>5. Cardinality({}) = 0 /\ \A x : Cardinality({x}) = 1
  BY FS_EmptySet, FS_Singleton
<1>6. CASE n \notin U
  <2>1. Before = {} /\ Above = {} BY <1>2, <1>3, <1>6 DEF Shape
  <2>2. \A k \in Int : Tops[k] # n BY <1>2, <1>3, <1>6 DEF Rooted
  <2>3. Heads(n) = {} /\ Held(n) = {} BY <1>3, <2>2, HeldByNone
  <2> HIDE DEF Before, Above
  <2> QED BY <1>4, <1>5, <1>6, <2>1, <2>3
<1>7. ASSUME n \in U, NEW m \in U, heap[m].next = n \/ heap[m].child = n
      PROVE  Owners(n, Hands) = 1
  <2>1. \A k \in Int : Tops[k] # n BY <1>2, <1>3, <1>7 DEF Rooted
  <2>2. Heads(n) = {} /\ Held(n) = {} BY <1>3, <2>1, HeldByNone
  <2>3. \/ Before = {m} /\ Above = {}
        \/ Above = {m} /\ Before = {}
    BY <1>2, <1>3, <1>7 DEF Shape
  <2>4. \/ Cardinality(Before) = 1 /\ Cardinality(Above) = 0
        \/ Cardinality(Above) = 1 /\ Cardinality(Before) = 0
    <3> HIDE DEF Before, Above
    <3> QED BY <1>5, <2>3, Zenon
  <2>5. Cardinality(Heads(n)) = 0 /\ Cardinality(Held(n)) = 0
    BY <1>5, <2>2, Zenon
  <2> HIDE DEF Before, Above
  <2> QED BY <1>4, <2>4, <2>5
<1>8. CASE n \in U /\ \A m \in U : heap[m].next # n /\ heap[m].child # n
  <2>1. Before = {} /\ Above = {} BY <1>8
  <2>2. tag[n] \in Int /\ Tops[tag[n]] = n BY <1>2, <1>8 DEF Rooted
  <2>3. \A j \in Int : Tops[j] = n => j = tag[n] BY <1>2, <1>3 DEF Rooted
  <2>4. \/ Heads(n) = {} /\ \E i : Held(n) = {i}
        \/ Held(n) = {} /\ \E i : Heads(n) = {i}
    BY <1>3, <2>2, <2>3, HeldByOne
  <2>5. \/ Cardinality(Heads(n)) = 0 /\ Cardinality(Held(n)) = 1
        \/ Cardinality(Held(n)) = 0 /\ Cardinality(Heads(n)) = 1
    BY <1>5, <2>4, Zenon
  <2>6. Cardinality(Before) = 0 /\ Cardinality(Above) = 0
    <3> HIDE DEF Before, Above
    <3> QED BY <1>5, <2>1, Zenon
  <2> HIDE DEF Before, Above
  <2> QED BY <1>4, <1>8, <2>5, <2>6
<1> QED BY <1>6, <1>7, <1>8

\* Nothing holds on to a node, so that there is none.
LEMMA NoneLeft ==
  ASSUME DepthInv, NodesInv, phase \in {"open", "ready", "clear", "list", "cleanup", "ended"}
  PROVE  DOMAIN heap = {}
<1>1. /\ stack = <<>> /\ root = NULL /\ values = NULL /\ json_value = NULL
  BY OutsideParse DEF NodesInv, HoldersInUse, Adding, Filling
<1>2. PICK tag : Forest(DOMAIN heap, Nexts(heap), Firsts(heap), Tops, tag)
  BY DEF NodesInv, Placed, Sound
<1>3. \A k \in Int : Tops[k] = NULL
  BY <1>1 DEF Tops, TopsOf
<1> QED BY <1>2, <1>3, NoTreesNoNodes

\* What is allocated is a node.
LEMMA HeapOfNodes == NodesInv => DOMAIN heap \subseteq Nodes
BY DEF NodesInv, Placed, Sound

\* What the theorems use.
LEMMA NodesInvariant == Spec => [](DepthInv /\ NodesInv)
<1>1. Init => DepthInv /\ NodesInv
  BY DepthInit, NodesInit
<1>2. DepthInv /\ NodesInv /\ [Next]_vars => (DepthInv /\ NodesInv)'
  BY DepthStep, NodesStep
<1> QED BY <1>1, <1>2, PTL DEF Spec

\* Whatever fails, every node in use is pointed to once, by a node or by what
\* will delete it, no free one is, and when neither a load nor an ADD is under
\* way no node is left (cJSON_Delete on every path of loadDNSMappings,
\* add_single_record and the fail labels of the parser).
THEOREM NodesHaveOneOwner == Spec => []NodesOwned
<1>1. DepthInv /\ NodesInv => NodesOwned
  <2> SUFFICES ASSUME DepthInv, NodesInv PROVE NodesOwned
    OBVIOUS
  <2>1. OwnedOnce(Hands)
    BY OneOwner DEF OwnedOnce
  <2> QED BY <2>1, NoneLeft DEF NodesOwned, Hands
<1> QED BY <1>1, NodesInvariant, PTL

(***************************************************************************)
(* What a walk ends with.                                                  *)
(***************************************************************************)
\* s follows the links nxt from c on, to where there is no cell or for n steps.
Follows(s, n, c, D, nxt) ==
  /\ s \in Seq(D) /\ s # <<>> /\ s[1] = c
  /\ \A i \in 1..Len(s) - 1 : nxt[s[i]] = s[i + 1]
  /\ Len(s) = n + 1 \/ nxt[s[Len(s)]] \notin D

\* One step more.
LEMMA FollowsOn ==
  ASSUME NEW D, NEW nxt, NEW n \in Nat, NEW c \in D, nxt[c] \in D,
         NEW s, Follows(s, n, nxt[c], D, nxt)
  PROVE  Follows(<<c>> \o s, n + 1, c, D, nxt)
<1>1. PICK l \in Nat \ {0} : l = Len(s)
  BY EmptySeq, LenProperties DEF Follows
<1>2. PICK u : u = <<c>> \o s
  OBVIOUS
<1>3. /\ u \in Seq(D) /\ Len(u) = l + 1 /\ u[1] = c
      /\ \A i \in 1..l : u[i + 1] = s[i]
  <2>1. s \in Seq(D) /\ <<c>> \in Seq(D) /\ Len(<<c>>) = 1 /\ <<c>>[1] = c
    BY DEF Follows
  <2>2. /\ u \in Seq(D) /\ Len(u) = 1 + l
        /\ \A i \in 1..1 + l : u[i] = IF i <= 1 THEN <<c>>[i] ELSE s[i - 1]
    BY <1>1, <1>2, <2>1, ConcatProperties
  <2>3. u[1] = c
    <3>1. 1 \in 1..1 + l /\ 1 <= 1 BY <1>1
    <3> QED BY <2>1, <2>2, <3>1
  <2>4. ASSUME NEW i \in 1..l PROVE u[i + 1] = s[i]
    <3>1. i + 1 \in 1..1 + l /\ ~(i + 1 <= 1) /\ (i + 1) - 1 = i
      OBVIOUS
    <3> QED BY <2>2, <3>1
  <2> QED BY <2>2, <2>3, <2>4
<1>4. ASSUME NEW i \in 1..l PROVE nxt[u[i]] = u[i + 1]
  <2>1. CASE i = 1
    <3>1. 1 \in 1..l
      OBVIOUS
    <3>2. u[1 + 1] = s[1] BY <1>3, <3>1
    <3> QED BY <1>3, <2>1, <3>2 DEF Follows
  <2>2. CASE i # 1
    <3>1. i - 1 \in 1..l /\ i - 1 \in 1..l - 1 /\ (i - 1) + 1 = i
      BY <2>2
    <3>2. u[i] = s[i - 1] /\ u[i + 1] = s[i] BY <1>3, <3>1
    <3>3. nxt[s[i - 1]] = s[i] BY <1>1, <3>1 DEF Follows
    <3> QED BY <3>2, <3>3
  <2> QED BY <2>1, <2>2
<1>5. Len(u) = (n + 1) + 1 \/ nxt[u[Len(u)]] \notin D
  <2>1. u[l + 1] = s[l] BY <1>1, <1>3
  <2>2. l = n + 1 \/ nxt[s[l]] \notin D BY <1>1 DEF Follows
  <2> QED BY <1>3, <2>1, <2>2
<1>6. u # <<>> /\ Len(u) - 1 = l
  BY <1>3, EmptySeq
<1>7. Follows(u, n + 1, c, D, nxt)
  BY <1>3, <1>4, <1>5, <1>6 DEF Follows
<1> QED BY <1>2, <1>7

\* A walk over n cells follows the links for n steps, or to the end.
LEMMA WalkFollows ==
  ASSUME NEW nxt, IsFiniteSet(DOMAIN nxt), NEW first \in DOMAIN nxt
  PROVE  Follows(Walk(first, nxt), Cardinality(DOMAIN nxt), first, DOMAIN nxt, nxt)
<1>a. PICK D : D = DOMAIN nxt
  OBVIOUS
<1>b. PICK most \in Nat : most = Cardinality(D)
  BY <1>a, FS_CardinalityType
<1>0. D = DOMAIN nxt /\ most = Cardinality(D)
  BY <1>a, <1>b
<1>1. PICK f : WalksFrom(f, nxt, most) /\ Walk(first, nxt) = f[most][first]
  BY <1>0, WalkFrom
<1> DEFINE T == {n \in 0..most : \A c \in D : Follows(f[n][c], n, c, D, nxt)}
<1>2. ASSUME NEW c \in D, NEW n \in 0..most, n = 0 \/ nxt[c] \notin D
      PROVE  Follows(f[n][c], n, c, D, nxt)
  <2>1. f[n][c] = <<c>> \o <<>>
    BY <1>0, <1>1, <1>2 DEF WalksFrom
  <2>2. <<c>> \in Seq(D) /\ Len(<<c>>) = 1 /\ <<c>>[1] = c
    OBVIOUS
  <2>3. <<c>> \o <<>> = <<c>>
    BY <2>2, ConcatEmptySeq
  <2>4. Follows(<<c>>, n, c, D, nxt)
    BY <1>2, <2>2, EmptySeq DEF Follows
  <2> QED BY <2>1, <2>3, <2>4
<1>3. 0 \in T
  BY <1>2
<1>4. ASSUME NEW n \in 1..most, n - 1 \in T PROVE n \in T
  <2>1. n \in 0..most /\ n # 0 /\ n - 1 \in Nat /\ (n - 1) + 1 = n
    OBVIOUS
  <2> SUFFICES ASSUME NEW c \in D PROVE Follows(f[n][c], n, c, D, nxt)
    BY <2>1
  <2>2. CASE nxt[c] \notin D BY <1>2, <2>1, <2>2
  <2>3. CASE nxt[c] \in D
    <3>1. f[n][c] = <<c>> \o f[n - 1][nxt[c]]
      BY <1>0, <1>1, <2>1, <2>3 DEF WalksFrom
    <3>a. PICK s : s = f[n - 1][nxt[c]]
      OBVIOUS
    <3>b. PICK m \in Nat : m = n - 1
      BY <2>1
    <3>2. s = f[n - 1][nxt[c]] /\ m = n - 1
      BY <3>a, <3>b
    <3>3. Follows(s, m, nxt[c], D, nxt)
      BY <1>4, <2>3, <3>2
    <3>4. Follows(<<c>> \o s, m + 1, c, D, nxt)
      BY <2>3, <3>3, FollowsOn
    <3> QED BY <2>1, <3>1, <3>2, <3>4
  <2> QED BY <2>2, <2>3
<1> HIDE DEF T
<1>5. most \in T
  <2>1. most \in 0..most
    OBVIOUS
  <2> QED BY <1>3, <1>4, <2>1, RangeInduction
<1>6. Follows(f[most][first], most, first, D, nxt)
  BY <1>0, <1>5 DEF T
<1> QED BY <1>0, <1>1, <1>6

\* A walk for more steps than there are cells; cells that all have a cell before.
TooLong(s, D, nxt) ==
  /\ s \in Seq(D) /\ Len(s) = Cardinality(D) + 1
  /\ \A i \in 1..Len(s) - 1 : nxt[s[i]] = s[i + 1]

Circle(S, nxt) == S # {} /\ \A x \in S : \E y \in S : nxt[y] = x

\* A walk that goes on for more steps than there are cells is in a circle.
LEMMA LongIsCircle ==
  ASSUME NEW D, IsFiniteSet(D), NEW nxt, NEW s, TooLong(s, D, nxt)
  PROVE  \E S \in SUBSET D : Circle(S, nxt)
<1>0. /\ s \in Seq(D) /\ Len(s) = Cardinality(D) + 1
      /\ \A i \in 1..Len(s) - 1 : nxt[s[i]] = s[i + 1]
  BY DEF TooLong
<1>1. PICK l \in Nat : l = Len(s) /\ l = Cardinality(D) + 1
  BY <1>0, LenProperties
<1>2. IsFiniteSet(1..l) /\ Cardinality(1..l) = l /\ Cardinality(D) < l
  <2>1. Cardinality(D) \in Nat BY FS_CardinalityType
  <2>2. IsFiniteSet(1..l) /\ Cardinality(1..l) = l - 1 + 1
    <3>1. 1 \in Int /\ l \in Int /\ 1 <= l BY <1>1, <2>1
    <3> QED BY <3>1, FS_Interval
  <2> QED BY <1>1, <2>1, <2>2
<1>3. s \in [1..l -> D]
  BY <1>0, <1>1, LenProperties
<1>4. \E i, j \in 1..l : i # j /\ s[i] = s[j]
  BY <1>2, <1>3, FS_PigeonHole
<1>5. PICK i \in 1..l, j \in 1..l : i < j /\ s[i] = s[j]
  BY <1>4
<1> DEFINE S == {s[k] : k \in (i + 1)..j}
<1>6. S \in SUBSET D
  BY <1>3
<1>7. s[j] \in S
  BY <1>5
<1>8. ASSUME NEW x \in S PROVE \E y \in S : nxt[y] = x
  <2>1. PICK k \in (i + 1)..j : x = s[k]
    OBVIOUS
  <2>2. k - 1 \in 1..l - 1 /\ (k - 1) + 1 = k
    OBVIOUS
  <2>3. nxt[s[k - 1]] = x
    BY <1>0, <1>1, <2>1, <2>2
  <2>4. s[k - 1] \in S
    <3>1. CASE k = i + 1 BY <1>5, <1>7, <3>1
    <3>2. CASE k # i + 1
      <4>1. k - 1 \in (i + 1)..j BY <3>2
      <4> QED BY <4>1
    <3> QED BY <3>1, <3>2
  <2> QED BY <2>3, <2>4
<1> HIDE DEF S
<1>9. Circle(S, nxt)
  BY <1>7, <1>8 DEF Circle
<1> QED BY <1>6, <1>9

\* In a forest a walk ends with the last node of its list.
LEMMA WalkEnds ==
  ASSUME NEW U, IsFiniteSet(U), NEW nxt, DOMAIN nxt = U, NEW ch, NEW c \in U, NEW z,
         Shape(U, nxt, ch), Grounded(U, nxt, ch), LastFrom(U, nxt, c, z)
  PROVE  LET w == Walk(c, nxt) IN w[Len(w)] = z
<1>1. PICK w : w = Walk(c, nxt)
  OBVIOUS
<1>2. Follows(w, Cardinality(U), c, U, nxt)
  BY <1>1, WalkFollows
<1>3. PICK l \in Nat \ {0} : l = Len(w)
  BY <1>2, EmptySeq, LenProperties DEF Follows
<1>4. w \in [1..l -> U] /\ w[1] = c /\ \A i \in 1..l - 1 : nxt[w[i]] = w[i + 1]
  BY <1>2, <1>3, LenProperties DEF Follows
<1>5. nxt[w[l]] \notin U
  <2> SUFFICES ASSUME l = Cardinality(U) + 1 PROVE FALSE
    BY <1>2, <1>3 DEF Follows
  <2>1. TooLong(w, U, nxt)
    BY <1>2, <1>3 DEF Follows, TooLong
  <2>2. PICK S \in SUBSET U : Circle(S, nxt)
    BY <2>1, LongIsCircle
  <2>3. Sourced(S, nxt, ch)
    BY <2>2 DEF Grounded, Circle
  <2> QED BY <2>2, <2>3 DEF Sourced, Circle
<1> DEFINE C == {w[i] : i \in 1..l}
<1>6. C \in SUBSET U /\ c \in C
  BY <1>4
<1>7. ASSUME NEW x \in C PROVE nxt[x] \in C \cup {NULL}
  <2>1. PICK i \in 1..l : x = w[i]
    OBVIOUS
  <2>2. CASE i = l
    <3>1. x \in U BY <1>6
    <3> QED BY <1>5, <2>1, <2>2, <3>1 DEF Shape
  <2>3. CASE i # l
    <3>1. i \in 1..l - 1 /\ i + 1 \in 1..l BY <2>3
    <3>2. nxt[x] = w[i + 1] BY <1>4, <2>1, <3>1
    <3> QED BY <3>1, <3>2
  <2> QED BY <2>2, <2>3
<1>8. z \in C
  <2> HIDE DEF C
  <2> QED BY <1>6, <1>7 DEF LastFrom
<1>9. PICK i \in 1..l : z = w[i]
  BY <1>8
<1>10. i = l
  <2> SUFFICES ASSUME i # l PROVE FALSE
    OBVIOUS
  <2>1. i \in 1..l - 1 /\ i + 1 \in 1..l
    OBVIOUS
  <2>2. nxt[z] = w[i + 1] /\ w[i + 1] \in U
    BY <1>4, <1>9, <2>1
  <2> QED BY <2>2 DEF LastFrom, Shape
<1> QED BY <1>1, <1>3, <1>9, <1>10

\* Next and prev of the nodes of a list agree, and the prev of a first child is
\* the last node of the list of children, where add_item_to_array appends.
THEOREM ListsStayLinked == Spec => []ListsLinked
<1>1. DepthInv /\ NodesInv => ListsLinked
  <2> SUFFICES ASSUME DepthInv, NodesInv, NEW n \in DOMAIN heap
               PROVE  /\ heap[n].next # NULL => heap[heap[n].next].prev = n
                      /\ heap[n].child # NULL =>
                           LET w == Children(n) IN heap[heap[n].child].prev = w[Len(w)]
    BY DEF ListsLinked
  <2>1. PICK tag : Sound(heap, Tops, tag)
    BY DEF NodesInv, Placed
  <2>2. PICK U, nxt, ch, pv : U = DOMAIN heap /\ nxt = Nexts(heap) /\ ch = Firsts(heap) /\ pv = Prevs(heap)
    OBVIOUS
  <2>3. /\ DOMAIN nxt = U
        /\ \A m \in U : nxt[m] = heap[m].next /\ ch[m] = heap[m].child /\ pv[m] = heap[m].prev
    BY <2>2 DEF Nexts, Firsts, Prevs
  <2>4. Shape(U, nxt, ch) /\ Grounded(U, nxt, ch) /\ Chained(U, nxt, ch, pv) /\ U \subseteq Nodes
    BY <2>1, <2>2 DEF Sound, Forest
  <2>5. IsFiniteSet(U)
    BY <2>4, JsonAssumption, FS_Subset
  <2>6. ASSUME heap[n].next # NULL PROVE heap[heap[n].next].prev = n
    <3>1. nxt[n] \in U /\ pv[nxt[n]] = n BY <2>2, <2>3, <2>4, <2>6 DEF Shape, Chained
    <3> QED BY <2>2, <2>3, <3>1
  <2>7. ASSUME heap[n].child # NULL
        PROVE  LET w == Children(n) IN heap[heap[n].child].prev = w[Len(w)]
    <3>1. PICK c : c = heap[n].child
      OBVIOUS
    <3>2. c \in U /\ LastFrom(U, nxt, c, pv[c])
      BY <2>2, <2>3, <2>4, <2>7, <3>1 DEF Shape, Chained
    <3>3. PICK z : z = pv[c] /\ LastFrom(U, nxt, c, z)
      BY <3>2
    <3>4. PICK w : w = Walk(c, nxt) /\ w[Len(w)] = z
      BY <2>3, <2>4, <2>5, <3>2, <3>3, WalkEnds
    <3>5. n # NULL
      BY <2>2, <2>4 DEF Shape
    <3>6. Children(n) = w
      BY <2>2, <3>1, <3>4, <3>5 DEF Children, Siblings, Nexts
    <3> QED BY <2>2, <2>3, <3>1, <3>2, <3>3, <3>4, <3>6
  <2> QED BY <2>6, <2>7
<1> QED BY <1>1, NodesInvariant, PTL
=============================================================================
