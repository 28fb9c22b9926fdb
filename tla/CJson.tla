------------------------------- MODULE CJson -------------------------------
(***************************************************************************)
(* The parts of src/lib/cJSON/cJSON.c that dns_server.c uses: cJSON_Parse  *)
(* as a machine with an explicit stack for the recursion of parse_value,   *)
(* parse_array and parse_object; the functions that look things up in a    *)
(* tree, build one and delete one, as operators on the heap of its nodes.  *)
(*                                                                         *)
(* A text is a sequence of tokens.  A run of blanks is one token, and so   *)
(* is a string, which keeps the structure of its escapes; the last token,  *)
(* and no other, is the terminating NUL, which the parser takes for a blank*)
(* like any byte up to 32.  What starts no token is "junk", a string with  *)
(* no closing quote is "quote" and takes up the rest of the text.  Numbers *)
(* are integers; a C string is a sequence of atoms, equal strings being    *)
(* equal sequences.  The four bytes after \u are taken not to be the start *)
(* of another escape.  The strings of a node live and die with it.         *)
(***************************************************************************)
EXTENDS LinkedLists, Functions

CONSTANTS
  Nodes,         \* addresses of cJSON nodes
  NestingLimit,  \* CJSON_NESTING_LIMIT
  IntMax,        \* INT_MAX
  Lower,         \* tolower, on the atoms of strings
  MaxFailures    \* bound on failing allocations

ASSUME JsonAssumption ==
  /\ NestingLimit \in Nat
  /\ IntMax \in Nat
  /\ MaxFailures \in Nat
  /\ NULL \notin Nodes /\ IsFiniteSet(Nodes)

VARIABLES
  text,      \* content of the parse_buffer
  offset,    \* its offset, from 1
  depth,     \* its depth
  heap,      \* node -> its fields, for the nodes allocated
  stack,     \* the calls of parse_array and parse_object under way
  item,      \* the node the next value is for
  root,      \* what cJSON_Parse allocated, and returns
  at,        \* what the parser does next
  failures   \* allocations that have failed

jsonVars == <<text, offset, depth, heap, stack, item, root, at>>

Steps == {"start", "value", "element", "name", "after", "fail", "done"}

(***************************************************************************)
(* Nodes and lists of them.                                                *)
(***************************************************************************)
\* cJSON_New_Item: all zero.
Blank ==
  [ type |-> "Invalid", valuestring |-> NULL, valueint |-> 0, string |-> NULL,
    next |-> NULL, prev |-> NULL, child |-> NULL ]

Free == Nodes \ DOMAIN heap

\* Node n is allocated, and filled in.
Put(h, n, node) == [c \in DOMAIN h \cup {n} |-> IF c = n THEN node ELSE h[c]]

\* An allocation fails.
Failure == failures < MaxFailures /\ failures' = failures + 1

Fresh == CHOOSE n \in Free : TRUE

Siblings(h, n) == Walk(n, [c \in DOMAIN h |-> h[c].next])

\* The loop of cJSON_ArrayForEach.
Children(n) == IF n = NULL THEN <<>> ELSE Siblings(heap, heap[n].child)

\* cJSON_Delete: n, those after it, and all below them.
Deleted(h, n) ==
  LET under[c \in Nodes \cup {NULL}] ==
        IF c \notin DOMAIN h THEN {}
        ELSE {c} \cup under[h[c].next] \cup under[h[c].child]
  IN  Restrict(h, DOMAIN h \ under[n])

\* case_insensitive_strcmp; a null pointer equals nothing.
LowerCase(s) == [i \in 1..Len(s) |-> Lower[s[i]]]
SameName(s, t) == s # NULL /\ t # NULL /\ LowerCase(s) = LowerCase(t)

GetArraySize(n) == Len(Children(n))

\* get_array_item: walks on from the first, as far as the list goes.
GetArrayItem(n, i) == IF i < GetArraySize(n) THEN Children(n)[i + 1] ELSE NULL

\* get_object_item: the first of that name.
GetObjectItem(n, name) ==
  LET w == Children(n)
      match == {i \in 1..Len(w) : SameName(heap[w[i]].string, name)} IN
  IF match = {} THEN NULL ELSE w[CHOOSE i \in match : \A j \in match : i <= j]

\* Mutant: the first node's prev stays as it is.
AddItemToArrayForward(h, array, new) ==
  LET first == h[array].child IN
  IF first = NULL
  THEN [h EXCEPT ![array].child = new, ![new].prev = new, ![new].next = NULL]
  ELSE IF h[first].prev = NULL THEN h
  ELSE [h EXCEPT ![h[first].prev].next = new, ![new].prev = h[first].prev]

\* add_item_to_array: the first node's prev is the last one; without one
\* nothing is added, and the caller is told that it was.
AddItemToArray(h, array, new) ==
  LET first == h[array].child IN
  IF first = NULL
  THEN [h EXCEPT ![array].child = new, ![new].prev = new, ![new].next = NULL]
  ELSE IF h[first].prev = NULL THEN h
  ELSE [h EXCEPT ![h[first].prev].next = new, ![new].prev = h[first].prev,
                 ![first].prev = new]

\* add_item_to_object, when the copy of the name could be allocated.
AddItemToObject(h, object, name, new) ==
  AddItemToArray([h EXCEPT ![new].string = name], object, new)

\* Mutant: only the lower end is looked at.
SaturatedBelow(n) == IF n <= -IntMax - 1 THEN -IntMax - 1 ELSE n

\* What valueint holds of a number: it stops at the ends of int.
Saturated(n) ==
  IF n >= IntMax THEN IntMax ELSE IF n <= -IntMax - 1 THEN -IntMax - 1 ELSE n

CreateArray(h, n) == Put(h, n, [Blank EXCEPT !.type = "Array"])
CreateObject(h, n) == Put(h, n, [Blank EXCEPT !.type = "Object"])
CreateNumber(h, n, num) ==
  Put(h, n, [Blank EXCEPT !.type = "Number", !.valueint = Saturated(num)])
CreateString(h, n, s) == Put(h, n, [Blank EXCEPT !.type = "String", !.valuestring = s])

(***************************************************************************)
(* Strings.  A string token is a sequence of units: a "run" of bytes as    *)
(* they are, an "escape" of two bytes for one, a "bad" escape, a \u with   *)
(* its code (0 if its digits are none), and a \u "cut" off by the quote.   *)
(***************************************************************************)
IsUnit(u) ==
  \/ u.kind = "run" /\ u.bytes \in Nat
  \/ u.kind = "escape" /\ u.bytes = 2
  \/ u.kind = "u" /\ u.bytes = 6
  \/ u.kind \in {"bad", "cut"} /\ u.bytes \in Nat \ {0}

IsString(units) == Len(units) \in Nat /\ \A i \in 1..Len(units) : IsUnit(units[i])

Escapes(units) == {i \in 1..Len(units) : units[i].kind # "run"}

\* Mutant: a \u is counted as the one byte of what it stands for.
AllocationLengthAscii(units) ==
  LET bytes[i \in 0..Len(units)] ==
        IF i = 0 THEN 1
        ELSE bytes[i - 1] + (IF units[i].kind = "run" THEN units[i].bytes ELSE 1)
  IN  bytes[Len(units)]

\* The first pass of parse_string: bytes up to the closing quote, from the
\* opening one on, less one for each backslash.
AllocationLength(units) ==
  LET bytes[i \in 0..Len(units)] ==
        IF i = 0 THEN 1 ELSE bytes[i - 1] + units[i].bytes
  IN  bytes[Len(units)] - Cardinality(Escapes(units))

HighSurrogate(c) == c \in 55296..56319
LowSurrogate(c) == c \in 56320..57343

Utf8Length(codepoint) ==
  IF codepoint < 128 THEN 1 ELSE IF codepoint < 2048 THEN 2
  ELSE IF codepoint < 65536 THEN 3 ELSE 4

\* utf16_literal_to_utf8 at unit i: how many units it takes, 0 if none will
\* do, and how many bytes it writes.
Literal(units, i) ==
  LET code == units[i].code
      paired == /\ i < Len(units)
                /\ units[i + 1].kind = "u"
                /\ LowSurrogate(units[i + 1].code) IN
  IF LowSurrogate(code) \/ (HighSurrogate(code) /\ ~paired) THEN [units |-> 0, bytes |-> 0]
  ELSE IF HighSurrogate(code)
  THEN [ units |-> 2,
         bytes |-> Utf8Length(65536 + (code % 1024) * 1024 + (units[i + 1].code % 1024)) ]
  ELSE [units |-> 1, bytes |-> Utf8Length(code)]

\* The second pass: is the string well-formed, how many bytes were written
\* when it ended or failed, and the C string they are: up to the first NUL.
Unescape(units) ==
  LET from[i \in 1..(Len(units) + 1)] ==
        IF i > Len(units) THEN [ok |-> TRUE, bytes |-> 0, str |-> <<>>]
        ELSE LET u == units[i]
                 step == CASE u.kind = "run" -> [units |-> 1, bytes |-> u.bytes]
                           [] u.kind = "escape" -> [units |-> 1, bytes |-> 1]
                           [] u.kind = "u" -> Literal(units, i)
                           [] OTHER -> [units |-> 0, bytes |-> 0]
                 rest == from[i + step.units] IN
             IF step.units = 0 THEN [ok |-> FALSE, bytes |-> 0, str |-> <<>>]
             ELSE [ ok |-> rest.ok,
                    bytes |-> step.bytes + rest.bytes,
                    str |-> IF u.kind = "u" /\ u.code = 0 THEN <<>>
                            ELSE <<u.atom>> \o rest.str ]
  IN  from[1]

(***************************************************************************)
(* The parser.                                                             *)
(***************************************************************************)
\* can_access_at_index and the byte there.
Kind(i) == IF i \in 1..Len(text) THEN text[i].kind ELSE "none"

\* Mutant: the step back onto the NUL is missing.
SkipWhitespacePastEnd(i) == IF Kind(i) \in {"space", "nul"} THEN i + 1 ELSE i

\* buffer_skip_whitespace.  The NUL is a blank too: having gone past it the
\* code steps back onto it.
SkipWhitespace(i) == IF Kind(i) = "space" THEN i + 1 ELSE i

\* skip_utf8_bom: with at least one byte between it and the NUL.
SkipBom == IF Kind(1) = "bom" /\ Len(text) > 2 THEN 2 ELSE 1

Closer(kind) == IF kind = "[" THEN "]" ELSE "}"
TypeOf(kind) ==
  CASE kind = "[" -> "Array" [] kind = "{" -> "Object" [] kind = "null" -> "NULL"
    [] kind = "false" -> "False" [] kind = "true" -> "True" [] OTHER -> "Number"

Go(step) == at' = step

\* cJSON_ParseWithLengthOpts
StartParse ==
  /\ at = "start"
  /\ stack' = <<>> /\ depth' = 0
  /\ \/ /\ Free # {}
        /\ heap' = Put(heap, Fresh, Blank)
        /\ root' = Fresh /\ item' = Fresh
        /\ offset' = SkipWhitespace(SkipBom)
        /\ Go("value")
        /\ UNCHANGED failures
     \/ /\ Failure
        /\ root' = NULL /\ item' = NULL /\ offset' = 1
        /\ Go("done")
        /\ UNCHANGED heap
  /\ UNCHANGED text

\* parse_value on a literal, or parse_number
ParseLeaf ==
  /\ at = "value"
  /\ Kind(offset) \in {"null", "false", "true", "number"}
  /\ heap' = [heap EXCEPT
       ![item].type = TypeOf(Kind(offset)),
       ![item].valueint = CASE Kind(offset) = "number" -> Saturated(text[offset].num)
                            [] Kind(offset) = "true" -> 1
                            [] OTHER -> 0]
  /\ offset' = offset + 1
  /\ Go("after")
  /\ UNCHANGED <<text, depth, stack, item, root, failures>>

\* The output could not be allocated, or the string is none.
StringFails ==
  \/ Kind(offset) = "string" /\ Failure
  \/ /\ Kind(offset) = "string" => ~Unescape(text[offset].units).ok
     /\ UNCHANGED failures

\* parse_value on a string
ParseString ==
  /\ at = "value"
  /\ Kind(offset) = "string"
  /\ \/ LET out == Unescape(text[offset].units) IN
        /\ out.ok
        /\ heap' = [heap EXCEPT ![item].type = "String", ![item].valuestring = out.str]
        /\ offset' = offset + 1
        /\ Go("after")
        /\ UNCHANGED failures
     \/ /\ StringFails
        /\ Go("fail")
        /\ UNCHANGED <<heap, offset>>
  /\ UNCHANGED <<text, depth, stack, item, root>>

\* parse_value on anything else
ParseNothing ==
  /\ at = "value"
  /\ Kind(offset) \notin {"null", "false", "true", "number", "string", "[", "{"}
  /\ Go("fail")
  /\ UNCHANGED <<text, offset, depth, heap, stack, item, root, failures>>

\* Mutant: an empty list returns from before the depth is restored.
OpenDeeper ==
  LET kind == Kind(offset)
      o == SkipWhitespace(offset + 1)
      empty == Kind(o) = Closer(kind) IN
  /\ at = "value"
  /\ kind \in {"[", "{"} /\ depth < NestingLimit
  /\ depth' = depth + 1
  /\ offset' = IF empty THEN o + 1 ELSE o - 1
  /\ IF empty
     THEN /\ heap' = [heap EXCEPT ![item].type = TypeOf(kind)]
          /\ Go("after") /\ UNCHANGED stack
     ELSE /\ stack' = <<[kind |-> kind, item |-> item, head |-> NULL, current |-> NULL]>> \o stack
          /\ Go("element") /\ UNCHANGED heap
  /\ UNCHANGED <<text, item, root, failures>>

\* parse_array and parse_object up to their loop.  The test for the end of
\* the buffer there is never true, see InText.
Open ==
  LET kind == Kind(offset)
      o == SkipWhitespace(offset + 1) IN
  /\ at = "value"
  /\ kind \in {"[", "{"}
  /\ \/ /\ depth >= NestingLimit
        /\ Go("fail")
        /\ UNCHANGED <<offset, depth, heap, stack>>
     \/ /\ depth < NestingLimit
        /\ Kind(o) = Closer(kind)
        /\ heap' = [heap EXCEPT ![item].type = TypeOf(kind)]
        /\ offset' = o + 1
        /\ Go("after")
        /\ UNCHANGED <<depth, stack>>
     \/ /\ depth < NestingLimit
        /\ Kind(o) # Closer(kind)
        /\ depth' = depth + 1
        /\ offset' = o - 1
        /\ stack' = <<[kind |-> kind, item |-> item, head |-> NULL, current |-> NULL]>> \o stack
        /\ Go("element")
        /\ UNCHANGED heap
  /\ UNCHANGED <<text, item, root, failures>>

\* Their loop: a new node at the end of the list, for a value or for a name.
Element ==
  LET frame == stack[1]
      new == Fresh IN
  /\ at = "element"
  /\ \/ /\ Free # {}
        /\ heap' = [n \in DOMAIN heap \cup {new} |->
                      IF n = new THEN [Blank EXCEPT !.prev = frame.current]
                      ELSE IF n = frame.current THEN [heap[n] EXCEPT !.next = new]
                      ELSE heap[n]]
        /\ stack' = [stack EXCEPT ![1].current = new,
                                  ![1].head = IF @ = NULL THEN new ELSE @]
        /\ item' = new
        /\ offset' = SkipWhitespace(offset + 1)
        /\ Go(IF frame.kind = "{" THEN "name" ELSE "value")
        /\ UNCHANGED failures
     \/ /\ Failure
        /\ Go("fail")
        /\ UNCHANGED <<heap, stack, item, offset>>
  /\ UNCHANGED <<text, depth, root>>

\* parse_object: the name of a member and the colon after it.
Name ==
  LET colon == SkipWhitespace(offset + 1) IN
  /\ at = "name"
  /\ \/ /\ Kind(offset) = "string"
        /\ Unescape(text[offset].units).ok
        /\ heap' = [heap EXCEPT ![item].type = "String",
                                ![item].string = Unescape(text[offset].units).str]
        /\ IF Kind(colon) = ":"
           THEN offset' = SkipWhitespace(colon + 1) /\ Go("value")
           ELSE offset' = colon /\ Go("fail")
        /\ UNCHANGED failures
     \/ /\ StringFails
        /\ Go("fail")
        /\ UNCHANGED <<heap, offset>>
  /\ UNCHANGED <<text, depth, stack, item, root>>

\* The end of the text's value: what follows it is not looked at.
EndText ==
  /\ at = "after" /\ stack = <<>>
  /\ Go("done")
  /\ UNCHANGED <<text, offset, depth, heap, stack, item, root, failures>>

\* The end of an element: a comma and the next one, or the end of the list.
More ==
  LET frame == stack[1]
      o == SkipWhitespace(offset) IN
  /\ at = "after" /\ stack # <<>>
  /\ \/ /\ Kind(o) = ","
        /\ Go("element")
        /\ UNCHANGED <<depth, heap, stack, item>> /\ offset' = o
     \/ /\ Kind(o) = Closer(frame.kind)
        /\ depth' = depth - 1
        /\ heap' = [heap EXCEPT ![frame.head].prev = frame.current,
                                ![frame.item].type = TypeOf(frame.kind),
                                ![frame.item].child = frame.head]
        /\ offset' = o + 1
        /\ stack' = Tail(stack)
        /\ item' = frame.item
        /\ Go("after")
     \/ /\ Kind(o) \notin {",", Closer(frame.kind)}
        /\ offset' = o
        /\ Go("fail")
        /\ UNCHANGED <<depth, heap, stack, item>>
  /\ UNCHANGED <<text, root, failures>>

\* The fail labels: each call deletes its list, the outermost one the root.
Unwind ==
  /\ at = "fail"
  /\ IF stack # <<>>
     THEN /\ heap' = Deleted(heap, stack[1].head)
          /\ stack' = Tail(stack)
          /\ UNCHANGED <<root, at>>
     ELSE /\ heap' = Deleted(heap, root)
          /\ root' = NULL
          /\ Go("done")
          /\ UNCHANGED stack
  /\ UNCHANGED <<text, offset, depth, item, failures>>

Parse ==
  \/ StartParse \/ ParseLeaf \/ ParseString \/ ParseNothing \/ Open
  \/ Element \/ Name \/ EndText \/ More \/ Unwind

(***************************************************************************)
(* Properties.                                                             *)
(***************************************************************************)
\* The value a node stands for, without addresses.
Tree(n) ==
  LET of[c \in DOMAIN heap] ==
        [ type |-> heap[c].type, str |-> heap[c].valuestring, num |-> heap[c].valueint,
          members |-> LET w == Children(c) IN
            [i \in 1..Len(w) |-> [name |-> heap[w[i]].string, value |-> of[w[i]]]] ]
  IN  of[n]

\* The parser reads no byte past the NUL: wherever it looks at the text, or
\* steps over a bracket, comma or colon and looks again, it is still in it.
InText == at \in {"value", "element", "name", "after"} => offset \in 1..Len(text)

\* depth counts the lists that are open, on every path that goes on parsing,
\* so that the limit refuses just the texts nested more deeply.
DepthIsNesting ==
  at \in {"value", "element", "name", "after"} =>
    depth = Len(stack) /\ depth <= NestingLimit

\* What parse_string writes, and the NUL after it, fit the length it asked
\* for before it knew what the escapes stand for.
OutputFits ==
  \A i \in 1..Len(text) :
    Kind(i) = "string" =>
      Unescape(text[i].units).bytes <= AllocationLength(text[i].units)

\* The nodes of a list point back to their predecessor, and the first one of
\* a list that has an owner to the last, which add_item_to_array relies on.
ListsLinked ==
  \A n \in DOMAIN heap :
    /\ heap[n].next # NULL => heap[heap[n].next].prev = n
    /\ heap[n].child # NULL =>
         LET w == Children(n) IN heap[heap[n].child].prev = w[Len(w)]

\* How often a node is pointed to by those that will delete it.
Owners(n, hands) ==
    Cardinality({m \in DOMAIN heap : heap[m].next = n})
  + Cardinality({m \in DOMAIN heap : heap[m].child = n})
  + Cardinality({i \in 1..Len(stack) : stack[i].head = n})
  + Cardinality({i \in 1..Len(hands) : hands[i] = n})

\* Every allocated node is deleted by one owner, and no free one by any.
OwnedOnce(hands) ==
  \A n \in Nodes : Owners(n, hands) = IF n \in DOMAIN heap THEN 1 ELSE 0
============================================================================
