# A TLA+ model of udp_dns_server_c

The server answers DNS queries over UDP from an in-memory table of records
loaded from a JSON file, and lets an operator change the table over a TCP
management port while it runs. Two threads share the table. This directory
models the program, checks the models with TLC and proves their main safety
properties with TLAPS. Source lines are those of `src/`; `PROJECT.json` maps
every definition to them.

## The system

| Part | Code | State | Operations |
|---|---|---|---|
| Record table | `dns_server.c` 4-196, 404-567 | `dns_records` (hash table of heap records), `dns_records_mutex` | create, parse, insert or replace, delete, list, clear, clean up |
| Mappings file | `dns_server.c` 198-337 | none of its own | `loadDNSMappings`, at start and for RELOAD |
| Name resolution | `dns_server.c` 339-402 | `strtok`'s static position | exact, subdomain, wildcard keys in turn |
| Query handling | `main.c` 53-282 | request and response buffers | parse, lock, resolve, encode answers, unlock, send |
| Messages | `dns_parser.c` | none | `parseDNSQuery`, `domainToDNSFormat` |
| Management thread | `dns_server.c` 614-792 | listening and client sockets, request buffer | accept, read, authenticate, ADD, DELETE, LIST, RELOAD |
| Main, signals | `main.c` 5-51, 284-375 | `running`, UDP socket | start-up, query loop, `handle_signal`, join, clean-up |
| Configuration, logging | `dns_server.c` 9-17, 569-612 | `config`, stdio | defaults, `log_message` |
| JSON library (vendored) | `lib/cJSON` | trees of nodes | parse, look up, build, delete |
| Hash table (vendored) | `lib/uthash` | two lists, buckets | find, add, delete, iterate, expand |

The threads interact through the table under `dns_records_mutex`, through
`running`, through `pthread_join`, and, unintentionally, through the static
state of `strtok`, `localtime` and stdio. Signals run `handle_signal` on the
stack of either thread.

What is hard here:

* **Pointers across the mutex.** `resolveRecord` hands out a pointer into the
  table which the answer loop reads while the other thread frees records.
* **Atomicity.** A replaced record is freed before the new one is inserted;
  RELOAD has two critical sections with the reading of the file between them.
* **Error paths.** Early returns under the mutex, half-built records, a load
  that fails after it has changed the table.
* **Blocking and shutdown.** accept, read and write block for as long as a
  client likes, select may be interrupted, and main joins the thread they are
  in.
* **Hidden sharing.** `strtok` is called by both threads, by one of them
  outside the mutex.
* **Limits.** Ten labels, a 512-byte response, a list buffer that doubles once.
* **Texts from outside.** The mappings file may be cut short, malformed or
  nested too deeply, and any allocation on the way may fail; the parser keeps
  its place, its nesting depth and the ownership of half-built lists by hand.
* **Intrusive data structures.** Records are on two doubly linked lists of
  uthash, whose buckets are split behind the program's back; loops delete the
  element they stand on; cJSON finds the end of a list through the first
  element's back pointer.

`PROJECT.json` lists them under "hazards", each at its line, with the
properties that cover it.

## Modules

| Module | What it is |
|---|---|
| `RecordStore` | the table, its heap and mutex, and the two threads as they use it |
| `AtomicStore` | what the table promises: queries and commands as single steps |
| `ServerLifecycle` | the two loops, their blocking calls, signals, clients, shutdown |
| `Tokenizer` | `strtok` as both threads call it: labels of names, words of requests |
| `DnsMessage` | one query from datagram to response, in positions and lengths |
| `LinkedLists` | walks over cells linked by pointers |
| `CJson` | the functions of cJSON the server calls, the parser as a machine with an explicit stack |
| `UtHash` | the macros of uthash the server uses, as operators on a table |
| `OrderedMap` | what the table promises: a map in the order of insertion |
| `ListBuffer` | the growing buffer of LIST |
| `MappingsFile` | from the text of the file to the table, and ADD, DELETE, LIST, RELOAD down to nodes, cells and links; composes the four modules above |
| `RecordStoreProofs`, `ServerLifecycleProofs`, `TokenizerProofs`, `DnsMessageProofs` | invariants and theorems; the first also that `RecordStore` implements `AtomicStore` |
| `UtHashProofs` | what each macro of uthash makes of a sound table, for any hash function and sizes |
| `MappingsFileProofs` | invariants and theorems about the parser of `MappingsFile`; forests of linked cells, and the same about the cJSON nodes |
| `MappingsTableProofs` | invariants and theorems about the table of `MappingsFile`, and that it implements `OrderedMap` |
| `NatRecursion` | recursive functions on the numbers have values, and what is true of the first fails at a least one |
| `MC*` | constants for TLC, and properties that only make sense for an instance |

### RecordStore

The heap is a function from cells to records, the table a function from keys to
cells, so that freeing and unlinking are different acts and a dangling or lost
pointer is a reachable state unless the code prevents it. `pc` has one label
for each stretch of code between two accesses to shared state. The functions of
`dns_server.c` are sequences of actions: `add_record_to_hash` is
`CreateRecord`, `ParseValues`, `ReplaceExisting`, `InsertRecord`, run by
`Loader` for both the file and ADD; each handler has its `...Lock` and
`...Unlock`. Loops over the table (`ListRecord`, `ClearRecord`,
`CleanupRecord`) take one record at a time in any order.

`AllocMayFail` turns failing malloc, strdup, asprintf on. `published`, a history
variable, is the table as of the last unlock; the refinement uses it.

`AtomicStore` has no mutex, heap or program counter. `Resolve`, `Execute`,
`ReloadClear` and `ReloadLoad` each look at or change the whole store at once.
`ImplementsAtomicStore` maps `store` to `published` and lets a response or
outcome appear when the concrete one is complete. RELOAD is two steps on
purpose: the empty table between them is visible to clients, as it is in the
code. Likewise a failed load leaves what it had added. The refinement shows that
nothing else is visible, not that these two are harmless. A stored record of an
unsupported type is answered NOTIMP there as in the code; that the documentation
promises more is among the findings.

### ServerLifecycle

A critical section of the table is one label here (`serve`, `work`); the module
is about what blocks. `eintr[t]` records that the call thread `t` is blocked in
was interrupted; `handler[t]` has the two steps of `handle_signal`. `conn[c]`
follows a management client, who may connect, send, read, or leave at any
point, and need not do any of it. A signal interrupts the call only if the
thread is blocked in it at that moment: both cases are allowed.

A write to a client that left between its request and the reply may find the
connection reset. `main.c` installs handlers for SIGINT and SIGTERM only, so the
SIGPIPE that write raises ends the process: `BrokenPipe`, after which `main` is
at `killed`. Whether the reset has arrived by then is open, so the write may also
succeed (`MgmtWrite`). `QueriesServed` therefore ends with the queries answered
or the process killed, and `RequestsServed` supposes that every client waits for
its reply (`Patient`).

### Tokenizer

A text is a sequence of delimiters and atoms. `olds` is the static pointer in
`strtok`. A call reads it (`ReadPosition`) and later scans, writes the NUL and
stores the new position (`Scan`). The wildcard keys are put together only after
the last call, from what the collected pointers refer to by then. `Meaning` and
`Parents` say what a request and a name mean without any of this. In
`RecordStore` the effect on a query is that `Lookups[q]` is a set of key lists;
the effect on a command is that any command may arrive.

### DnsMessage

`parseDNSQuery`, `domainToDNSFormat` and the answer loop over lengths, with the
buffer sizes of the code: 512, 256, 63. A name is the lengths of its labels.
`i`, `j`, `query_len`, `response_len` are the variables of the code; one turn
of each loop is an action. `answers` and `partial`, history variables, count
complete answers and heads left behind. What follows a name that did not fit
is read as a type: `ParseQuestion` then takes any. The module is sequential;
what the other thread may do meanwhile is `RecordStore`'s subject, which relies
on `FirstAnswerHasRoom` for its treatment of unsupported types.

The parser and the encoder were written with different limits (`j <
domain_size - 1` over a text, `offset + 1 + label_len >= max_size` over an
encoding). `ReadsWhatItWrites` says that every name that can be encoded is
parsed in full. When values are skipped or the response is full, `ancount`
stays at the number of values and TC stays 0; `WholeIfItFits` and
`CountRightIffComplete` say exactly when that happens.

### MappingsFile, CJson, UtHash, ListBuffer

`RecordStore` has two threads and takes the file as a list of adds and a record
as a cell. `MappingsFile` has one thread, as whoever holds the mutex is, and
takes neither for granted: it begins with the text of the file and ends with
the pointers of the table.

*Texts.* A text is a sequence of tokens ending in the NUL. A run of blanks is
one token, a string is one token that keeps what escapes it is made of and how
many bytes each takes, and a C string is a sequence of atoms. So positions in
the text are positions between tokens; inside a string, `Literal`, `Unescape`
and `AllocationLength` count units and bytes as the two passes of
`parse_string` do.

*The parser.* `StartParse` is `cJSON_ParseWithLengthOpts` up to `parse_value`;
`at` says what comes next: a value, an element, a name, what follows a value,
or the way out after an error. `parse_array` and `parse_object` differ only in
the name of a member, so `Open`, `Element` and `More` serve both, and `stack`
holds the locals of the calls under way (`item`, `head`, `current_item`).
`Unwind` is the `fail:` label of each of them in turn and at last of the root.

*Nodes* are cells of `heap`, whose domain is the set of those allocated: a node
that is deleted leaves it, and what still points to the node is found by
`NodesOwned`. The table of `UtHash` is a record of `head`, the `hh` handles of
the cells it holds, and the fields of `UT_hash_table`; `records` has the cells
in use, whether or not the table still holds them. Where all nodes or cells are
taken, an allocation fails. The operators of `UtHash` follow the macros
assignment by assignment, bucket expansion included (`Rehash` is one turn of its
inner loop).

*Program.* `phase` is the place in `loadDNSMappings`, `add_single_record`,
`get_records_list` or one of the two loops that empty the table. `FileAdds` is
the traversal of the document: the calls of `add_record_to_hash` in their
order, ending with the first domain in conflict. `TypeAdds` looks each type up
again by name, as the code does, so two spellings of a type both get the values
of the first. `ListChunk` is one snprintf, in bytes. Every malloc of the
program, cJSON or uthash may fail; what fails in uthash ends the process.

*What it is held to.* `ParsesItsDocument` compares the tree with the document
the text was made from. `DeclaredIsFound` compares the table with
`Declared(doc)`, which reads the entries off the document with sets, without
order, look-ups or error paths, and without minding the case of types. Every
record in the table must be declared; and of every entry declared in just one
way whose type is spelled as `parseDNSQuery` spells it (`QueryTypes`), the
values must be found under the key `resolveRecord` looks up (`FoundAs`), with the
preference `main.c` reads from them with `%hu`, if it fits 16 bits.
`SupportedIsServed` says what the documentation says: types in any case, and all
the seven it lists. It is violated. `OrderedMap` is the abstract specification of
the table: `Entries` reads the sequence of entries off the application-order
list, and every step must put one at the end or remove one.

The trace of a load shows some things the documentation does not say: text
after the document is ignored (`cJSON_Parse` does not require the end), and
`"(null)"` becomes a label when `subdomains` is a list.

## Runs

| Run | Instance | Shows |
|---|---|---|
| `record_memory` | 3 keys, 2 values, 4 cells, 2 queries, 3 files, allocations fail | types, mutex discipline, no dangling pointer, no leak, table frozen while answering |
| `record_atomic` | the same, allocations succeed | implements `AtomicStore`; a SUCCESS reply to ADD is true |
| `record_live` | 2 keys, 1 value, 2 cells, allocations fail | queries are answered and commands carried out even if a reply is never taken; shutdown completes when replies are |
| `record_cname` | A and CNAME key of one name | violated: see findings |
| `lifecycle_clients` | 2 clients, 2 datagrams, 1 signal to either thread, clients do as they like | connections are closed, queries are served or the process killed by SIGPIPE; requests are served if clients are polite and patient; a signal handled in main ends the process if they are polite |
| `lifecycle_hang` | the same, polite clients, signals to the management thread | violated: see findings |
| `tokens_alone` | 2 names, 3 requests, 2 labels kept | undisturbed calls cut names and requests as meant |
| `tokens_overlap` | the same | violated: see findings |
| `tokens_labels` | one name of three labels, two kept | violated: see findings |
| `message` | 5 types, short names, names of 253 to 257 bytes, a name that fills the datagram, each cut, exact or followed by more; up to 3 names or 32 addresses per record | positions stay in their buffers, encodable names are parsed, a record that fits goes out whole |
| `documents` | 2380 states of the file, 21 nodes, 7 cells, 2 buckets that split at 2 elements, 3 commands, 1 failing allocation | the parser stays in its text and gives back the document, declared records are found by queries, no node or record is lost, the table is sound and an ordered map, LIST stays in its buffer, a load ends |
| `documents_types` | one document: types `a` and `mx` in lower case, and `TXT` | violated: see findings |

Bounds. Three keys give a query with an exact and a wildcard candidate and one
of an unsupported type; two values tell a replaced record from its
predecessor, and one encodable from one that is not; four cells are one more
than the table can hold, so that a replacement has room and malloc can fail
only when `AllocMayFail` says so. The files have a key with two values, a
repeated key, a malformed entry, a conflict, and one cannot be read. Cells are
symmetric. In the liveness instance there are two cells: with both in the
table an add can only go the way of a failed allocation, which
`AllocMayFail` allows. One signal suffices to interrupt a call in any position;
a second only repeats it. Two clients are what it takes for one to wait behind
another. Two labels stand for the ten of `labels[]`: a name has as many, or one
more. In `message` the sizes are the code's own; the encoded names are chosen
so that two of them leave 15 bytes of the response, or 7, on either side of
the checks of 16 and 12 + n bytes, and 32 addresses or 17 IPv6 addresses fill
it as well.

The files of `documents` are: one document with base, wildcard and subdomain
records like the one shipped; documents with conflicts, with types repeated or
differing in case, preferences at and beyond both ends of 16 bits and of int,
values of the wrong kind beside good ones, lists where there should be objects,
and too many records for the buckets; every proper prefix of a document,
between tokens and inside strings; every text of one to three tokens, on its
own, in a list and in a member; strings with each kind of escape, good and bad;
nesting at the limit (7 here for 1000) and one beyond; blanks and byte order
marks. Hash values are chosen so that three types share a bucket at every size
and others part when it splits; with a threshold of 2 the table expands twice
and gives expansion up. Text lengths are such that a record makes the first
buffer of 64 bytes grow once, or makes a chunk that is longer than all of it.
RELOAD finds the file whole or cut short. `IntMax` is 100000, above all
preferences that are not meant to saturate. One failing allocation is enough:
every allocation after it may be the one.

Deadlock is checked except in `lifecycle_clients` and `lifecycle_hang`, where a
silent client, or an interrupted select, can really stop the process.

## Fairness

`RecordStore!LiveSpec`: each thread that can take a step takes one (weak
fairness of the thread's own actions), except that nothing is assumed of
`Reply`: the write of a reply comes back when the client lets it. A thread
waiting for the mutex gets it if it is free again and again (strong fairness of
the lock actions): a pthread mutex does not promise this, but between two
critical sections the other thread makes at least one system call that gives the
waiter a chance to run. Nothing is assumed about queries, commands, signals, or
when the management thread's select, accept or read comes back.
`QueryAnswered` and `CommandAnswered` (up to where the reply is due) need no
more. `ShutdownCompletes` needs that clients let each call come back, and says
so: `ClientsLetGo`, which is `WF_vars(Reply)` and `WF_vars(PollTimeout("mgmt"))`,
is its hypothesis.

`ServerLifecycle!LiveSpec` says the same of its threads, and that a handler
once entered runs to its end. Its actions that wait for a client are enabled
only when the client has done its part. `QueriesServed` holds under it alone.
`RequestsServed` and `ShutdownCompletes` carry their hypotheses about clients:
`Polite`, a client that has connected goes on (sends, reads, or leaves), since
the management thread has no time-out on a connection; for `RequestsServed` also
`[]Patient`, that none leaves before its reply; for `ShutdownCompletes` also that
no signal is handled in the management thread. `lifecycle_hang` shows that
politeness is not enough without the last.

`MappingsFile!LiveSpec` is weak fairness of `Load`: parsing, adding and
returning wait for nothing once the file is in memory. It is written with the
state predicate `Loading` in the place of `ENABLED <<Load>>_vars`, which is
the same set of states (in those phases `Load` is the only action there is, and
the run finds no deadlock) and cheaper to evaluate. Opening and reading the
file is not part of it.

## Findings

* **A CNAME beside other records is served** (`record_cname`). The load adds
  records before it checks (`dns_server.c` 257-285), a failed load keeps them,
  and ADD does not check.
* **Shutdown can hang** (`lifecycle_hang`). `management_thread` goes on from an
  interrupted select to a blocking accept (`dns_server.c` 741-749).
* **Commands and names can get mixed up** (`tokens_overlap`). `strtok` is used
  in both threads (`dns_server.c` 375-378, 615-638, 761-769).
* **Long names match the wrong wildcards** (`tokens_labels`). Labels after the
  tenth are dropped from the end of the name (`dns_server.c` 376).
* **Types in lower case are not served** (`documents_types`). Every example of
  the documentation writes `a`, `mx` and so on (`README.md` 165-250, 312). The
  code stores a record under the type as written, and looks up the upper-case
  type of the query (`dns_server.c` 348); a list of `mx` objects is dropped, as
  only `MX` may have objects (`dns_server.c` 139). The load, or the ADD, reports
  success. (In upper case the sample of `README.md` 165-195 would be refused, for
  the CNAME beside other records.)
* **TXT and SRV are not supported** (the same run). `README.md` 198-206 lists
  them; such a record is loaded and found, and the answer is NOTIMP (`main.c`
  258-270).

A client that leaves at the wrong moment can end the process by SIGPIPE
(`BrokenPipe`, from `main.c` 287-291). It has no run of its own: it is a step of
`lifecycle_clients`, which `QueriesServed` has to name as an outcome.

## Proofs

`RecordStoreProofs` proves, for every set of keys, values, cells, files and
queries, with or without failing allocations, `TypeOK`, `MutexDiscipline`,
`NoDanglingPointer`, `NoLeak` and `FrozenWhileAnswering`. The assumptions are
`StoreAssumption` (the constants have their types) and `NullAssumption` (NULL is
none of the values beside it). The inductive invariant `IInv` adds to them:

* `Lifecycle`: the management thread is not yet there while main loads, and no
  longer there when main cleans up. Without it two loads could share `adds` and
  `next`, and the mutex could be destroyed while held.
* `WriterOK`: the add under way is one of the list.
* `HandOK`: a thread holds a record exactly at the labels where the code has
  one; a record being built is not in the table; when it is inserted its key is
  free; the record main copies from is in the table.
* `RequestOK`: each handler has a command of its own kind.

`Alone`, that one thread in a critical section means the other is in none and
holds no record, is the lemma the argument turns on. There is one lemma per
thread (`LoaderStep`, `MainStep`, `MgmtStep`, `EnvironmentStep`), one step per
action. `FrozenWhileAnswering` then follows: a step that changes the table or
heap is made by a thread in a critical section, which main is in at that time.

The second part of `RecordStoreProofs` proves, for every choice of the constants in which
allocations do not fail, `ImplementsAtomicStore` and `AddSuccessStored`. (When
one fails, `add_record_to_hash` stores nothing and reports nothing, and ADD says
SUCCESS: both are false, and `record_memory` does not check them.) A step inside
a critical section must leave the abstract state alone, and the unlock must do
at once what the abstract operation does to the table last
published. `RInv` adds to `IInv` what links the two:

* `PublishedCurrent`: outside the sections that write, the table is as published.
* `WriteOK`: a load or ADD has laid its first `next - 1` entries over the
  published table (`Overlaid`), and the record in hand is the next one.
* `BatchOK`, `CommandOK`: the entries are those of a file, or of the command
  being handled.
* `DeleteOK`, `ListOK`, `QueryOK`: what DELETE, LIST and a query have read or
  copied so far is true of the published table. For a query: all keys before the
  one tried are absent, and the answers are the encodable ones among the first
  values.

`BatchIsOverlay` turns `Overlaid` into the abstract `Overlay` at the unlock,
`EncodedNext` is the step of the answer loop, and `HitIsFirst` says that the
record main copies from is that of the first key present. There is one lemma per
thread for `RInv`, and one per thread for the step of the refinement.

`ServerLifecycleProofs` proves `TypeOK` and `NoDescriptorLeak` for any number of
clients, signals and datagrams. They are inductive together: that a client is at
hand exactly from accept to close is part of `TypeOK`.

`TokenizerProofs` proves `TypeOK`, `UndisturbedCommand` and `UndisturbedName`
for any names, requests and token. `TypesInv` holds whatever the threads do to
each other: a pointer that `strtok` stored may point into the other thread's
text, but into no position that text has not got, and a thread is never about
to scan for a word it has no room for. `Kept` is what a thread can rely on as
long as no call of the other came between: behind the place where the next call
goes on the text is as it was (`TextKept`); the words found are runs of the text
as it was, ended by a NUL now (`WordsKept`); they are all the runs that start
before that place, in their order (`InOrder`, `LastKept`); and the words asked
for are those that the token and the command word ask for (`CallsMeant`). Begin
makes it true, `ScanKept` is the step of a call, and a call of the *other* thread
need not keep it, since it sets `disturbed`. At the end `WordStartIs` turns the
order of the words into the counting of starts that `Meaning` is stated with, and
`DottedIs` shows that labels put together with dots are the part of the name they
came from. `UndisturbedName` is proved under the hypothesis `NamesDotted`, which
the instance of the run satisfies: no dot is first, last or next to another. A
label of a datagram is any 63 bytes, dots included, and `parse_dns_query` does
not escape them; for such a name `strtok` drops the empty label, so the keys
tried are not all of what follows a dot.

`DnsMessageProofs` proves `TypeOK`, `InBounds` and `FirstAnswerHasRoom` for any
datagrams and records. `Parsing` says that while the name is read `i` is
`HeaderSize + j`, so the limit on `domain` is one on the position too;
`Question` that a question therefore has at most 260 bytes, and the response
272 before its first answer. `WholeIfItFits` and `CountRightIffComplete` follow
from `Answered`: `response_len` is the sum over the values before `next`, and
the heads that were left behind, and `answers` is the number of those that could
be encoded. `ReadsWhatItWrites` follows from `Reading`: at label `n` the parser
stands where the encoder has written the first `n - 1`.

Sums and walks are recursive functions. tlapm cannot use the library's induction
rules, but it needs none: `NatRecursion` proves from the least number principle
that such a function has the values its definition says, and what a property of
the first numbers comes to; an induction is then the set of numbers for which
the claim holds, with 0 in it and closed under successor.

`MappingsFileProofs` proves, for every file, `InText`, `DepthIsNesting` and
`OutputFits`. `TextInv` says that the text ends with its only NUL and that the
parser, where it stands on a bracket, comma, colon or in front of an element,
does not stand on that; `SkipInText` is then the lemma that skipping blanks
stays inside. `DepthInv` adds that what is on the stack was opened.
`StringFits` compares the two passes of `parse_string` from each unit on: what
the second writes is no more than the first has counted, less the backslashes.
It rests on `FilesAssumption`: the bytes of a unit are those its kind has, and
its text ends with its only NUL. Strings in which another escape begins among
the four bytes after a `\u` are not made of such units, so nothing is shown of
them.

Its second part proves `NodesOwned` and `ListsLinked`, for every file, any
finite set of nodes and whichever allocations fail. What is allocated is a
forest: `next` and `child` are the two branches of binary trees (`Shape`) that
have no circles (`Grounded`), and each tree hangs on one pointer of the program
(`Rooted`). Those pointers are `Tops`: `root`, `values`, `json_value`, and the
`head` of every list the parser has open. Which tree a node is in is its tag;
the code keeps no such thing, so `NodesInv` says that tags can be given. Without
them it could not be excluded that the list deleted at a `fail:` label hangs
below the root too. `NodesInv` adds where the parser's other pointers lead: the
item a list is for is in the tree of the list around it and has no children yet,
`current_item` is the last node from `head` on (`FramePlaced`); and which of the
three hands is empty when (`HoldersInUse`). All the program does to nodes comes
down to four changes of a forest, proved of any forest: a new tree of one node
(`NewTree`), a tree that becomes the children of a node, or goes behind the last
node of a list, of another tree (`GraftTree`), and a tree that is deleted
(`PruneTree`), which needs that the recursion of `cJSON_Delete` reaches just the
nodes with its tag (`UnderReaches`).

That a node has one owner is then read off `Shape` and `Rooted`, and that none
is left off `NoTreesNoNodes`. `Chained` says what the `prev` pointers are; "the
last of the list from c on" is there a node with no `next` that is in every set
which holds c and is closed under `next` (`LastFrom`), so that no numbering is
needed until the end: `WalkEnds` shows that a walk over a list really ends with
that node, because a walk of more steps than there are nodes would, by the
pigeonhole principle, be in a circle.

`UtHashProofs` treats the table. A doubly linked list is described by the
function that numbers its members (`ListOf`): it is linked in this order forth
and back. Pushing to the front, appending and unlinking are proved of such
lists (`ListPush`, `ListAppend`, `ListRemove`), and that a walk meets the
members in their order (`WalkIs`). `IsTable` says that a table is such a list in
the order of insertion (`Ordered`) and one for each bucket, which holds just the
elements whose hash value belongs there, and counts them (`Filled`), with
distinct keys. Each macro is shown to keep that: `RehashIs` moves one element
of a chain that is being walked, `ExpandBucketsIs` all of them; while they are
moved, the new buckets are `Filled` with those moved and the old chains still
linked. `HashAddIs`, `HashFindIs`, `HashDeleteIs` and `TableOfIs` are what the
program needs to know.

`MappingsTableProofs` puts that under the program. `TableStep` sorts its actions
into those that put a record, delete one, begin an iteration, go on with one, or
look on; `TableInv` is that of a table whose elements are the cells of
`records` under their own keys (`TableKept`) and of the place of an iteration
(`IterKept`: where the body deletes, it stands at the head of what is left).
From this follow `RecordsOwned`, `TableSound` and `IterAlive`, and every step
is shown to be one of `OrderedMap` or none (`ImplementsOrderedMap`). With
`ChunkInv`, how much of a record LIST has printed, and `DoublingIsEnough`, that
a chunk no longer than the first buffer fits after one doubling, `ListInBuffer`
follows too. `TypeOK` takes all of these invariants and `TypeInv`, which adds
the control and the load's place in the records it adds (`AddsInv`). That there
are finitely many of those, whatever the links of the nodes they are read off,
is `FileAddsLength`: a walk is no longer than there are nodes, and joining
finitely many sequences gives one (`FlattenType`). All of this is for any set
of files and requests, number of cells, `Threshold` and `InitialBuckets`, and
for any hash function whose values are numbers: that is the hypothesis
`HashesAreNumbers` of the six theorems, which an assumption of the module could
not state for all keys in a form TLC evaluates.

Only model-checked: all liveness (TLAPS has no ENABLED), and of `MappingsFile`
what is about the contents of the trees of nodes (`ParsesItsDocument`,
`DeclaredIsFound`), which would need a grammar of texts and an induction over
documents.

## Not modelled

* The contents of labels and addresses.
* The words of log lines, replies and of LIST (of which only lengths are).
* Names and values longer than the fixed buffers they are printed into
  (`wildcardDomain`, `fullSubdomain`: 512 bytes, `mx_record`: 256), which
  truncate; keys in which an underscore of a name makes the key strings of two
  records equal.
* Of JSON: numbers that are no integers or longer than 63 characters, the four
  bytes after `\u` being the beginning of another escape, the error position.
  Of cJSON: printing, minifying, comparing, duplicating, replacing, which the
  server never calls. Of uthash: sorting, selecting, ordered insertion, the
  Bloom filter; the hash function is a parameter.
* A request that arrives in pieces: the code takes the bytes of one read for
  the request, and nothing in the repository says what else should happen.
* In `RecordStore`, that uthash ends the process when it cannot allocate
  (`MappingsFile` has it) and that SIGPIPE may (`ServerLifecycle` has it); that a
  write by `strtok` into a stack frame that is gone may hit anything.
* `dns_mgtm.sh`, the Makefile.

## Plan

Done: `RecordStore` with `AtomicStore`, `ServerLifecycle`, `Tokenizer`,
`DnsMessage`, `MappingsFile` with `CJson`, `UtHash`, `ListBuffer` and
`OrderedMap`, and the proofs above. Left: a rule for requests that arrive in
pieces, once the program has one.
