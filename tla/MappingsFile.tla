---------------------------- MODULE MappingsFile ----------------------------
(***************************************************************************)
(* From the text of the mappings file to the table of records, and the     *)
(* management commands on that table, down to its data structures:         *)
(* loadDNSMappings, add_single_record, delete_record, get_records_list and *)
(* handle_reload_command of src/src/dns_server.c on top of the JSON parser *)
(* (CJson), the hash table (UtHash) and the list buffer (ListBuffer).      *)
(*                                                                         *)
(* One thread at a time: that is what dns_records_mutex is for, and what   *)
(* RecordStore is about.  A key is the triple its string is printed from,  *)
(* so that scopes, domains and types with an underscore are taken not to   *)
(* make equal strings of different triples; a value of an MX record is     *)
(* its preference and the rest.  Domains and values are shorter than the   *)
(* fixed buffers (512 and 256 bytes) they are printed into.                *)
(***************************************************************************)
EXTENDS CJson, UtHash, ListBuffer, SequencesExt

CONSTANTS
  Files,        \* states of the file: its text, and the document that is
  ReloadFiles,  \* those RELOAD may find
  AddRequests,  \* parameters of ADD: scope, domain, type, value
  DeleteKeys,   \* parameters of DELETE
  Length,       \* bytes of an atom
  MaxCommands   \* bound on management commands

\* What ReadFile may rely on: a text is nothing, when there is no file to be
\* read, or ends with its only NUL, and a string is made of units.  value.pref
\* is NULL in an AddRequest of a value that has none.
ASSUME FilesAssumption ==
  /\ ReloadFiles \subseteq Files
  /\ MaxCommands \in Nat
  /\ \A f \in Files :
       /\ Len(f.text) \in Nat
       /\ \A i \in 1..Len(f.text) :
            /\ (f.text[i].kind = "nul") <=> (i = Len(f.text))
            /\ f.text[i].kind = "string" => IsString(f.text[i].units)

VARIABLES
  phase,        \* where the program is
  serving,      \* has the file been loaded once?
  file,         \* the file being loaded, or NULL
  adds,         \* the calls of add_record_to_hash a document gives rise to
  next,         \* the one of them being made
  loaded,       \* does the load succeed?
  records,      \* cell -> the DNSRecord in it, for the cells in use
  table,        \* dns_records, as a table of UtHash
  iter,         \* el and tmp of a HASH_ITER under way
  request,      \* the ADD being handled, or NULL
  values,       \* add_single_record's array, or NULL
  json_value,   \* and the value not yet in it, or NULL
  buf_size, list_offset,  \* get_records_list's buffer
  chunk,        \* how much of the current record has been printed
  commands      \* management commands so far

loadVars == <<file, adds, next, loaded>>
tableVars == <<records, table>>
addVars == <<request, values, json_value>>
listVars == <<buf_size, list_offset, chunk>>
vars == <<jsonVars, failures, loadVars, tableVars, addVars, listVars,
          phase, serving, iter, commands>>

NoIter == [el |-> NULL, tmp |-> NULL]

Phases ==
  { "open", "parse", "load", "loaded", "failed", "ready", "clear", "list",
    "add_value", "add_priority", "add_exchange", "add_append", "add_store",
    "cleanup", "ended", "aborted" }

TypeOK ==
  /\ phase \in Phases /\ at \in Steps
  /\ serving \in BOOLEAN /\ loaded \in BOOLEAN
  /\ file = NULL \/ file \in Files
  /\ {root, item, values, json_value} \subseteq Nodes \cup {NULL}
  /\ DOMAIN heap \subseteq Nodes /\ DOMAIN records \subseteq Cells /\ DOMAIN table.hh \subseteq Cells
  /\ {table.head, table.tail, iter.el, iter.tmp} \subseteq Cells \cup {NULL}
  /\ depth \in Nat /\ failures \in 0..MaxFailures
  /\ next \in 1..(Len(adds) + 1) /\ commands \in 0..MaxCommands
  /\ iter.el # NULL => chunk \in 0..Len(records[iter.el].values)
  /\ request \in AddRequests \cup {NULL}

Init ==
  /\ text = <<>> /\ offset = 1 /\ depth = 0 /\ stack = <<>>
  /\ heap = <<>>
  /\ item = NULL /\ root = NULL /\ at = "done" /\ failures = 0
  /\ phase = "open" /\ serving = FALSE
  /\ file = NULL /\ adds = <<>> /\ next = 1 /\ loaded = FALSE
  /\ records = <<>> /\ table = EmptyTable /\ iter = NoIter
  /\ request = NULL /\ values = NULL /\ json_value = NULL
  /\ buf_size = 0 /\ list_offset = 0 /\ chunk = 0
  /\ commands = 0

Enter(p) == phase' = p

(***************************************************************************)
(* loadDNSMappings.                                                        *)
(***************************************************************************)
\* The file is opened, sized and read; its data is a copy of its own.
ReadFile(f) ==
  /\ phase = "open"
  /\ serving => f \in ReloadFiles
  /\ file' = f
  /\ \/ /\ Len(f.text) > 1
        /\ text' = f.text /\ at' = "start"
        /\ Enter("parse")
        /\ UNCHANGED failures
     \/ /\ IF Len(f.text) <= 1 THEN UNCHANGED failures ELSE Failure
        /\ Enter("failed")
        /\ UNCHANGED <<text, at>>
  /\ UNCHANGED <<offset, depth, heap, stack, item, root, adds, next, loaded,
                 tableVars, addVars, listVars, serving, iter, commands>>

ParseStep ==
  /\ phase = "parse"
  /\ Parse
  /\ UNCHANGED <<loadVars, tableVars, addVars, listVars, phase, serving, iter, commands>>

\* What the loop over the types of one "records" object adds: each type is
\* looked up again by its name.  A list has no names, and gives nothing.
TypeAdds(holder, scope, domain) ==
  LET types == GetObjectItem(holder, <<"records">>)
      w == Children(types)
      found(t) == GetObjectItem(types, heap[t].string) IN
  FlattenSeq([i \in 1..Len(w) |->
    IF found(w[i]) = NULL THEN <<>>
    ELSE <<[ key |-> [scope |-> scope, domain |-> domain, type |-> heap[w[i]].string],
             values |-> found(w[i]) ]>>])

\* printf's rendering of a name that may be missing.
Printed(s) == IF s = NULL THEN <<"(null)">> ELSE s

SubdomainAdds(domain, subs) ==
  FlattenSeq([i \in 1..Len(subs) |->
    TypeAdds(subs[i], "subdomain", Printed(heap[subs[i]].string) \o <<".">> \o domain)])

\* A domain: its own records, its wildcards, its subdomains.
BaseAdds(d) == TypeAdds(d, "base", heap[d].string)

DomainAdds(d) ==
  BaseAdds(d)
    \o TypeAdds(GetObjectItem(d, <<"wildcards">>), "wildcard", <<"*.">> \o heap[d].string)
    \o SubdomainAdds(heap[d].string, Children(GetObjectItem(d, <<"subdomains">>)))

\* has_cname && has_other_records
Conflict(d) ==
  LET types == {BaseAdds(d)[i].key.type : i \in 1..Len(BaseAdds(d))} IN
  <<"CNAME">> \in types /\ types # {<<"CNAME">>}

\* The loop over the domains, up to the records of the first in conflict.
FileAdds(domains) ==
  LET w == Children(domains) IN
  FlattenSeq([i \in 1..Len(w) |->
    IF \E j \in 1..(i - 1) : Conflict(w[j]) THEN <<>>
    ELSE IF Conflict(w[i]) THEN BaseAdds(w[i])
    ELSE DomainAdds(w[i])])

\* Back from cJSON_Parse: is there a document, with an object "domains"?
CheckSchema ==
  LET domains == GetObjectItem(root, <<"domains">>) IN
  /\ phase = "parse" /\ at = "done"
  /\ IF domains # NULL /\ heap[domains].type = "Object"
     THEN /\ adds' = FileAdds(domains)
          /\ loaded' = \A i \in 1..GetArraySize(domains) : ~Conflict(Children(domains)[i])
          /\ Enter("load")
          /\ UNCHANGED <<heap, root>>
     ELSE /\ heap' = Deleted(heap, root)
          /\ root' = NULL
          /\ Enter("failed")
          /\ UNCHANGED <<adds, loaded>>
  /\ UNCHANGED <<text, offset, depth, stack, item, at, failures, file, next,
                 tableVars, addVars, listVars, serving, iter, commands>>

\* One element of a list of values: of an MX record an object of a priority
\* and a value will do, of any record a string; NULL is neither.
Value(type, n) ==
  LET priority == GetObjectItem(n, <<"priority">>)
      value == GetObjectItem(n, <<"value">>) IN
  IF type = <<"MX">> /\ heap[n].type = "Object"
  THEN IF /\ priority # NULL /\ heap[priority].type = "Number"
          /\ value # NULL /\ heap[value].type = "String"
       THEN [pref |-> heap[priority].valueint, str |-> heap[value].valuestring]
       ELSE NULL
  ELSE IF heap[n].type = "String" THEN [pref |-> NULL, str |-> heap[n].valuestring]
  ELSE NULL

\* Mutant: a value that will not do is passed over.
ParseValuesSkipping(type, list) ==
  SelectSeq([i \in 1..GetArraySize(list) |-> Value(type, GetArrayItem(list, i - 1))],
            LAMBDA v : v # NULL)

\* parse_values_to_record: all of them, at least one, or none.
ParseValues(type, list) ==
  LET parsed == [i \in 1..GetArraySize(list) |-> Value(type, GetArrayItem(list, i - 1))] IN
  IF \E i \in 1..Len(parsed) : parsed[i] = NULL THEN <<>> ELSE parsed

FreeCell == CHOOSE c \in Cells : c \notin DOMAIN records

Replaced(k) ==
  LET old == HashFind(table, k) IN IF old = NULL THEN table ELSE HashDelete(table, old)

\* Mutant: the old record is taken out, but not freed.
AddRecordToHashKeeping(k, list) ==
  /\ ParseValues(k.type, list) # <<>> /\ DOMAIN records # Cells
  /\ table' = HashAdd(Replaced(k), FreeCell, k)
  /\ records' = [c \in DOMAIN records \cup {FreeCell} |->
                   IF c = FreeCell THEN [key |-> k, values |-> ParseValues(k.type, list)]
                   ELSE records[c]]
  /\ UNCHANGED failures

\* add_record_to_hash: the new record is complete before the old one of its
\* key is taken out and freed.
AddRecordToHash(k, list) ==
  LET new == [key |-> k, values |-> ParseValues(k.type, list)] IN
  /\ new.values # <<>> /\ DOMAIN records # Cells
  /\ table' = HashAdd(Replaced(k), FreeCell, k)
  /\ records' = [c \in (DOMAIN records \ {HashFind(table, k)}) \cup {FreeCell} |->
                   IF c = FreeCell THEN new ELSE records[c]]
  /\ UNCHANGED failures

\* A record whose values do not parse, or that could not be allocated, is
\* given up without a word to the caller.
GiveUpRecord(k, list) ==
  /\ IF ParseValues(k.type, list) = <<>> THEN UNCHANGED failures ELSE Failure
  /\ UNCHANGED tableVars

\* uthash_fatal ends the process.
HashFatal(k, list) ==
  /\ ParseValues(k.type, list) # <<>> /\ DOMAIN records # Cells
  /\ AddAllocates(Replaced(k), FreeCell, k)
  /\ Failure
  /\ Enter("aborted")

LoadRecord ==
  LET a == adds[next] IN
  /\ phase = "load" /\ next <= Len(adds)
  /\ \/ /\ AddRecordToHash(a.key, a.values) \/ GiveUpRecord(a.key, a.values)
        /\ next' = next + 1
        /\ UNCHANGED phase
     \/ HashFatal(a.key, a.values) /\ UNCHANGED <<tableVars, next>>
  /\ UNCHANGED <<jsonVars, file, adds, loaded, addVars, listVars, serving, iter, commands>>

\* Mutant: after a conflict the file is read again.
EndLoadRetrying ==
  /\ phase = "load" /\ next > Len(adds)
  /\ heap' = Deleted(heap, root)
  /\ root' = NULL /\ adds' = <<>> /\ next' = 1
  /\ Enter(IF loaded THEN "loaded" ELSE "open")
  /\ UNCHANGED <<text, offset, depth, stack, item, at, failures, file, loaded,
                 tableVars, addVars, listVars, serving, iter, commands>>

EndLoad ==
  /\ phase = "load" /\ next > Len(adds)
  /\ heap' = Deleted(heap, root)
  /\ root' = NULL
  /\ Enter(IF loaded THEN "loaded" ELSE "failed")
  /\ UNCHANGED <<text, offset, depth, stack, item, at, failures, loadVars,
                 tableVars, addVars, listVars, serving, iter, commands>>

\* main cleans up and ends when the first load fails; RELOAD only says so.
ReturnFromLoad ==
  /\ phase \in {"loaded", "failed"}
  /\ IF phase = "loaded" \/ serving
     THEN Enter("ready") /\ UNCHANGED iter
     ELSE Enter("cleanup") /\ iter' = IterFirst(table)
  /\ serving' = (serving \/ phase = "loaded")
  /\ text' = <<>> /\ offset' = 1 /\ item' = NULL /\ depth' = 0
  /\ file' = NULL /\ adds' = <<>> /\ next' = 1 /\ loaded' = FALSE
  /\ UNCHANGED <<heap, stack, root, at, failures, tableVars, addVars, listVars, commands>>

(***************************************************************************)
(* ADD: add_single_record builds the array a file would have held.  Each   *)
(* early return deletes what was built.                                    *)
(***************************************************************************)
Command == phase = "ready" /\ commands < MaxCommands /\ commands' = commands + 1

BeginAdd(r) ==
  /\ Command
  /\ \/ /\ Free # {}
        /\ heap' = CreateArray(heap, Fresh)
        /\ values' = Fresh
        /\ request' = r
        /\ Enter("add_value")
        /\ UNCHANGED failures
     \/ /\ Failure
        /\ UNCHANGED <<heap, values, request, phase>>
  /\ UNCHANGED <<text, offset, depth, stack, item, root, at, loadVars, tableVars,
                 json_value, listVars, serving, iter>>

\* Mutant: the value not yet in the array is forgotten.
ReturnFromAddLeaking ==
  /\ heap' = Deleted(heap, values)
  /\ values' = NULL /\ json_value' = NULL /\ request' = NULL
  /\ Enter("ready")

\* A return of -1 after deleting json_value, if there is one, and values.
ReturnFromAdd ==
  /\ heap' = Deleted(Deleted(heap, json_value), values)
  /\ values' = NULL /\ json_value' = NULL /\ request' = NULL
  /\ Enter("ready")

Malformed == request.key.type = <<"MX">> /\ request.value.pref = NULL

CreateValue ==
  /\ phase = "add_value"
  /\ \/ /\ ~Malformed /\ Free # {}
        /\ json_value' = Fresh
        /\ IF request.key.type = <<"MX">>
           THEN heap' = CreateObject(heap, Fresh) /\ Enter("add_priority")
           ELSE heap' = CreateString(heap, Fresh, request.value.str) /\ Enter("add_append")
        /\ UNCHANGED <<values, request, failures>>
     \/ /\ IF Malformed THEN UNCHANGED failures ELSE Failure
        /\ ReturnFromAdd
  /\ UNCHANGED <<text, offset, depth, stack, item, root, at, loadVars, tableVars,
                 listVars, serving, iter, commands>>

\* cJSON_AddNumberToObject, then cJSON_AddStringToObject: the node, and the
\* copy of its name, or nothing.
AddMember ==
  /\ phase \in {"add_priority", "add_exchange"}
  /\ \/ /\ Free # {}
        /\ IF phase = "add_priority"
           THEN /\ heap' = AddItemToObject(CreateNumber(heap, Fresh, request.value.pref),
                                           json_value, <<"priority">>, Fresh)
                /\ Enter("add_exchange")
           ELSE /\ heap' = AddItemToObject(CreateString(heap, Fresh, request.value.str),
                                           json_value, <<"value">>, Fresh)
                /\ Enter("add_append")
        /\ UNCHANGED <<values, json_value, request, failures>>
     \/ Failure /\ ReturnFromAdd
  /\ UNCHANGED <<text, offset, depth, stack, item, root, at, loadVars, tableVars,
                 listVars, serving, iter, commands>>

AppendValue ==
  /\ phase = "add_append"
  /\ heap' = AddItemToArray(heap, values, json_value)
  /\ json_value' = NULL
  /\ Enter("add_store")
  /\ UNCHANGED <<text, offset, depth, stack, item, root, at, failures, loadVars,
                 tableVars, values, request, listVars, serving, iter, commands>>

StoreValue ==
  /\ phase = "add_store"
  /\ \/ /\ \/ AddRecordToHash(request.key, values)
           \/ GiveUpRecord(request.key, values)
        /\ ReturnFromAdd
     \/ /\ HashFatal(request.key, values)
        /\ UNCHANGED <<heap, tableVars, addVars>>
  /\ UNCHANGED <<text, offset, depth, stack, item, root, at, loadVars, listVars,
                 serving, iter, commands>>

(***************************************************************************)
(* DELETE, LIST, RELOAD, and the end.                                      *)
(***************************************************************************)
\* delete_record, or, if its key string could not be allocated, nothing.
DeleteRecord(k) ==
  LET c == HashFind(table, k) IN
  /\ Command
  /\ \/ /\ table' = Replaced(k)
        /\ records' = Restrict(records, DOMAIN records \ {c})
        /\ UNCHANGED failures
     \/ Failure /\ UNCHANGED tableVars
  /\ UNCHANGED <<jsonVars, loadVars, addVars, listVars, phase, serving, iter>>

BeginList ==
  /\ Command
  /\ \/ /\ buf_size' = InitialSize
        /\ list_offset' = HeaderLength
        /\ iter' = IterFirst(table)
        /\ Enter("list")
        /\ UNCHANGED failures
     \/ /\ Failure
        /\ UNCHANGED <<buf_size, list_offset, iter, phase>>
  /\ UNCHANGED <<jsonVars, loadVars, tableVars, addVars, chunk, serving>>

\* Lengths: of a C string, of the head of a record's line, of a value and
\* what separates it from the next.
TextLength(s) ==
  LET sum[i \in 0..Len(s)] == IF i = 0 THEN 0 ELSE sum[i - 1] + Length[s[i]] IN sum[Len(s)]

HeadLength(r) == 26 + TextLength(r.key.domain) + TextLength(r.key.type)

Digits(n) ==
  LET d[m \in Nat] == IF m < 10 THEN 1 ELSE 1 + d[m \div 10] IN
  IF n < 0 THEN 1 + d[-n] ELSE d[n]

ValueLength(r, i) ==
    TextLength(r.values[i].str)
  + (IF r.values[i].pref = NULL THEN 0 ELSE Digits(r.values[i].pref) + 1)
  + (IF i < Len(r.values) THEN 2 ELSE 1)

ChunkLength(r, i) == IF i = 0 THEN HeadLength(r) ELSE ValueLength(r, i)

\* Mutant: the loop over the values goes on for one too many.
ListChunkBeyond ==
  LET r == records[iter.el]
      n == ChunkLength(r, chunk) IN
  /\ phase = "list" /\ iter.el # NULL
  /\ buf_size' = Grown(n, list_offset, buf_size)
  /\ list_offset' = list_offset + n
  /\ IF chunk <= Len(r.values)
     THEN chunk' = chunk + 1 /\ UNCHANGED iter
     ELSE chunk' = 0 /\ iter' = IterNext(table, iter)
  /\ UNCHANGED <<jsonVars, failures, loadVars, tableVars, addVars, phase, serving, commands>>

\* One snprintf of the loops of get_records_list; realloc may fail.
ListChunk ==
  LET r == records[iter.el]
      n == ChunkLength(r, chunk) IN
  /\ phase = "list" /\ iter.el # NULL
  /\ \/ /\ buf_size' = Grown(n, list_offset, buf_size)
        /\ list_offset' = list_offset + n
        /\ IF chunk < Len(r.values)
           THEN chunk' = chunk + 1 /\ UNCHANGED iter
           ELSE /\ chunk' = 0
                /\ iter' = IterNext(table, iter)
        /\ UNCHANGED <<phase, failures>>
     \/ /\ ~Fits(n, list_offset, buf_size) /\ Failure
        /\ buf_size' = 0 /\ list_offset' = 0 /\ chunk' = 0
        /\ iter' = NoIter
        /\ Enter("ready")
  /\ UNCHANGED <<jsonVars, loadVars, tableVars, addVars, serving, commands>>

EndList ==
  /\ phase = "list" /\ iter.el = NULL
  /\ buf_size' = 0 /\ list_offset' = 0
  /\ Enter("ready")
  /\ UNCHANGED <<jsonVars, failures, loadVars, tableVars, addVars, chunk, serving,
                 iter, commands>>

BeginReload ==
  /\ Command
  /\ iter' = IterFirst(table)
  /\ Enter("clear")
  /\ UNCHANGED <<jsonVars, failures, loadVars, tableVars, addVars, listVars, serving>>

\* main, after its loop
BeginCleanup ==
  /\ phase = "ready"
  /\ iter' = IterFirst(table)
  /\ Enter("cleanup")
  /\ UNCHANGED <<jsonVars, failures, loadVars, tableVars, addVars, listVars, serving,
                 commands>>

\* The loops of handle_reload_command and cleanup_dns_records: the element
\* is deleted and freed under the iteration.
ClearRecord ==
  /\ phase \in {"clear", "cleanup"} /\ iter.el # NULL
  /\ table' = HashDelete(table, iter.el)
  /\ records' = Restrict(records, DOMAIN records \ {iter.el})
  /\ iter' = IterNext(table', iter)
  /\ UNCHANGED <<jsonVars, failures, loadVars, addVars, listVars, phase, serving, commands>>

EndClear ==
  /\ phase \in {"clear", "cleanup"} /\ iter.el = NULL
  /\ Enter(IF phase = "clear" THEN "open" ELSE "ended")
  /\ UNCHANGED <<jsonVars, failures, loadVars, tableVars, addVars, listVars, serving,
                 iter, commands>>

Terminated == phase \in {"ended", "aborted"} /\ UNCHANGED vars

\* What follows the reading of the file.
Load == ParseStep \/ CheckSchema \/ LoadRecord \/ EndLoad \/ ReturnFromLoad

Next ==
  \/ \E f \in Files : ReadFile(f)
  \/ Load
  \/ \E r \in AddRequests : BeginAdd(r)
  \/ CreateValue \/ AddMember \/ AppendValue \/ StoreValue
  \/ \E k \in DeleteKeys : DeleteRecord(k)
  \/ BeginList \/ ListChunk \/ EndList
  \/ BeginReload \/ BeginCleanup \/ ClearRecord \/ EndClear
  \/ Terminated

Spec == Init /\ [][Next]_vars

\* With the file in memory a load waits for nothing: weak fairness of Load,
\* which is enabled when the program is loading, and then alone (the run
\* finds no deadlock), with that state predicate in the place of ENABLED.
Loading == phase \in {"parse", "load", "loaded", "failed"}

LiveSpec == Spec /\ ([]<>~Loading \/ []<><<Load>>_vars)

(***************************************************************************)
(* Properties.                                                             *)
(***************************************************************************)
\* What process_dns_query sends of a value: the preference is read as an
\* unsigned short.
WirePreference(v) == IF v.pref = NULL THEN NULL ELSE v.pref % 65536

\* The text of a document is parsed, and gives back that document; one that
\* is cut short, malformed or nested too deeply gives nothing, not a part.
ParsesItsDocument ==
  phase = "parse" /\ at = "done" =>
    /\ root # NULL => file.doc # NULL /\ Tree(root) = file.doc
    /\ file.doc # NULL /\ failures = 0 => root # NULL

\* What a document declares, read off it without nodes, cells or order: an
\* entry for every member of a "records" object, with no values where its
\* value is not a list of strings or, for mail exchanges, of objects of a
\* priority and a value.  Names of keys and types ignore case.
Missing == [type |-> "Missing", str |-> NULL, num |-> 0, members |-> <<>>]

Members(doc) == {doc.members[i] : i \in 1..Len(doc.members)}

Member(doc, name) ==
  LET match == {i \in 1..Len(doc.members) : SameName(doc.members[i].name, name)} IN
  IF match = {} THEN Missing
  ELSE doc.members[CHOOSE i \in match : \A j \in match : i <= j].value

DeclaredValue(type, v) ==
  IF SameName(type, <<"MX">>) /\ v.type = "Object"
  THEN [pref |-> Member(v, <<"priority">>).num, str |-> Member(v, <<"value">>).str]
  ELSE [pref |-> NULL, str |-> v.str]

Valid(type, v) ==
  \/ v.type = "String"
  \/ /\ SameName(type, <<"MX">>) /\ v.type = "Object"
     /\ Member(v, <<"priority">>).type = "Number"
     /\ Member(v, <<"value">>).type = "String"

DeclaredValues(type, list) ==
  IF \A m \in Members(list) : Valid(type, m.value)
  THEN [i \in 1..Len(list.members) |-> DeclaredValue(type, list.members[i].value)]
  ELSE <<>>

Holders(d) ==
  {[scope |-> "base", domain |-> d.name, doc |-> d.value]}
    \cup {[ scope |-> "wildcard", domain |-> <<"*.">> \o d.name,
            doc |-> Member(d.value, <<"wildcards">>) ]}
    \cup {[ scope |-> "subdomain", domain |-> Printed(s.name) \o <<".">> \o d.name,
            doc |-> s.value ] : s \in Members(Member(d.value, <<"subdomains">>))}

Declared(doc) ==
  LET holders == UNION {Holders(d) : d \in Members(Member(doc, <<"domains">>))}
      named(h) == {m \in Members(Member(h.doc, <<"records">>)) : m.name # NULL} IN
  UNION { { [ key |-> [scope |-> h.scope, domain |-> h.domain, type |-> m.name],
              values |-> DeclaredValues(m.name, m.value) ] : m \in named(h) } : h \in holders }

\* The same but for the case of the type.
Alike(k, l) ==
  k.scope = l.scope /\ k.domain = l.domain /\ SameName(k.type, l.type)

\* Is v sent as declared?  Nothing is said of a preference DNS has no room for.
SentAs(v, declared) ==
  /\ v.str = declared.str
  /\ (v.pref = NULL) = (declared.pref = NULL)
  /\ declared.pref # NULL /\ declared.pref \in 0..65535 => WirePreference(v) = declared.pref

HoldsAs(r, d) ==
  /\ Alike(r.key, d.key)
  /\ Len(r.values) = Len(d.values)
  /\ \A i \in 1..Len(d.values) : SentAs(r.values[i], d.values[i])

\* The types resolveRecord may be asked for by name, as parseDNSQuery spells
\* them; the documentation lists the same seven as supported record types.
QueryTypes == {<<"A">>, <<"AAAA">>, <<"NS">>, <<"CNAME">>, <<"MX">>, <<"TXT">>, <<"SRV">>}

\* Those process_dns_query has an encoding for; the others are NOTIMP.
Encoded == {<<"A">>, <<"AAAA">>, <<"CNAME">>, <<"NS">>, <<"MX">>}

\* What resolveRecord finds under the key of d, for a query of type t.
FoundAs(d, t) ==
  LET c == HashFind(table, [d.key EXCEPT !.type = t]) IN
  c # NULL /\ HoldsAs(records[c], d)

\* The entries with values that a document declares in just one way, whatever
\* other members are malformed, repeated or spelled alike.
Unambiguous(all) ==
  {d \in all : d.values # <<>> /\ \A e \in all : Alike(e.key, d.key) => e = d}

\* After a load, every record in the table is one the document declares; and
\* if no allocation failed a query finds what an unambiguous entry declares, if
\* its type is written the way parseDNSQuery spells it.  (A preference DNS has
\* no room for may change; see SentAs.)
DeclaredIsFound ==
  phase = "loaded" =>
    LET all == Declared(file.doc) IN
    /\ \A c \in DOMAIN records : \E d \in all : HoldsAs(records[c], d)
    /\ failures = 0 =>
         \A d \in Unambiguous(all) : d.key.type \in QueryTypes => FoundAs(d, d.key.type)

\* What the documentation says: types may be written in lower case, as in all
\* its examples (src/README.md:165-195), and records of each type it lists
\* (src/README.md:198-206) are served.
SupportedIsServed ==
  phase = "loaded" /\ failures = 0 =>
    \A d \in Unambiguous(Declared(file.doc)), t \in QueryTypes :
      SameName(d.key.type, t) => FoundAs(d, t) /\ t \in Encoded

\* Whatever fails on the way, every node has one owner that will delete it,
\* and none is left when no load and no ADD is under way.
NodesOwned ==
  /\ OwnedOnce(<<root, values, json_value>>)
  /\ phase \in {"open", "ready", "clear", "list", "cleanup", "ended"} => DOMAIN heap = {}

\* The cells in use are the elements of the table, under their own keys; the
\* table points to no record that was freed, and at the end none is left.
RecordsOwned ==
  /\ DOMAIN records = {AppOrder(table)[i] : i \in 1..Len(AppOrder(table))}
  /\ DOMAIN table.hh = DOMAIN records
  /\ \A c \in DOMAIN records : table.hh[c].key = records[c].key
  /\ phase = "ended" => DOMAIN records = {}

\* The links, counts and buckets of the table agree (HASH_FSCK), and every
\* element is found by its key, whichever buckets were split before.
TableSound == Fsck(table) /\ Findable(table)

\* To its users the table is a list of entries with distinct keys, in the
\* order they were last put in (OrderedMap).
Entries ==
  LET w == AppOrder(table) IN
  [i \in 1..Len(w) |-> [key |-> records[w[i]].key, value |-> records[w[i]].values]]

Map == INSTANCE OrderedMap WITH entries <- Entries

ImplementsOrderedMap == Map!Spec

\* HASH_ITER never stands on a freed element, not even when its body deletes
\* the one it stands on; and a loop that deletes leaves nothing behind.
IterAlive ==
  phase \in {"clear", "cleanup", "list"} =>
    IF iter.el = NULL
    THEN iter.tmp = NULL /\ (phase # "list" => table = EmptyTable)
    ELSE iter.el \in DOMAIN records /\ iter.tmp = NextOf(table, iter.el)

\* While no chunk is longer than the buffer was at first, all that LIST has
\* printed, its NUL too, lies inside the buffer: doubling once is enough.
ChunksFit ==
  \A c \in DOMAIN records :
    \A i \in 0..Len(records[c].values) : ChunkLength(records[c], i) \in 0..InitialSize

ListInBuffer == phase = "list" /\ ChunksFit => list_offset < buf_size

\* A load comes to an end, well or not, whatever the file holds: the program
\* serves, cleans up, or was ended by uthash.
LoadEnds == (phase = "parse") ~> (phase \in {"ready", "cleanup", "aborted"})
============================================================================
