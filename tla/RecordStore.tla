---------------------------- MODULE RecordStore ----------------------------
(***************************************************************************)
(* The record table dns_records of src/src/dns_server.c and the two        *)
(* threads that share it under dns_records_mutex: the main thread, which   *)
(* loads the mappings file, answers queries (process_dns_query in          *)
(* src/src/main.c) and cleans up, and the management thread, which runs    *)
(* the ADD, DELETE, LIST and RELOAD handlers.                              *)
(*                                                                         *)
(* The table maps a key to a heap cell holding a DNSRecord; cells are      *)
(* allocated and freed one call at a time, so that a thread holding a      *)
(* pointer while the other one frees the cell is a reachable state unless  *)
(* the mutex prevents it.  A step is what a thread does between two        *)
(* accesses to shared state.                                               *)
(*                                                                         *)
(* Abstracted: a key is a member of Keys, a value a member of Values, a    *)
(* mappings file the list of calls to add_record_to_hash it gives rise to, *)
(* the iteration order of HASH_ITER is arbitrary.  resolveRecord splits the*)
(* name with strtok, whose hidden position the management thread's calls   *)
(* share: Tokenizer shows what that does to the wildcard keys tried, here a*)
(* query has a set of key lists, of which one is tried.  LIST is taken to  *)
(* name the key of a record; the text printed leaves out its scope.  That  *)
(* uthash ends the process when an allocation of its own fails is left out.*)
(***************************************************************************)
EXTENDS Naturals, Sequences

CONSTANTS
  Keys,         \* the "<scope>_<domain>_<type>" strings of create_dns_record
  Values,       \* what one element of DNSRecord.values may hold
  Cells,        \* heap cells malloc may return for a DNSRecord
  Queries,      \* (domain, type) pairs parseDNSQuery may return
  Lookups,      \* Lookups[q]: the lists of keys resolveRecord may try for q
  Unsupported,  \* queries of a type the answer loop has no encoding for
  Encodable,    \* values the encoder of their type accepts
  Files,        \* states of the mappings file
  FileAdds,     \* FileAdds[f]: the records loadDNSMappings adds from f
  FileOutcome,  \* FileOutcome[f]: how loadDNSMappings ends on f
  AllocMayFail, \* may malloc, strdup, asprintf return an error?
  NULL

Threads == {"main", "mgmt"}

(***************************************************************************)
(* Values of the state.                                                    *)
(***************************************************************************)
Record == [key : Keys, values : Seq(Values)]

\* A call of add_record_to_hash; values that do not parse are <<>>.
AddRequest == [key : Keys, values : Seq(Values)]

AddCommand == [op : {"ADD"}, key : Keys, values : Seq(Values)]
DeleteCommand == [op : {"DELETE"}, key : Keys]
Command == AddCommand \cup DeleteCommand \cup [op : {"LIST", "RELOAD"}]

\* What the table holds, by key; no record is the empty list of values.
Store == [Keys -> Seq(Values)]

EmptyStore == [k \in Keys |-> <<>>]

Outcome == [ok : BOOLEAN, listing : Store]

Response ==
  [rcode : {"NOERROR", "NXDOMAIN", "NOTIMP"}, count : Nat, answers : Seq(Values)]

ASSUME StoreAssumption ==
  /\ Lookups \in [Queries -> SUBSET Seq(Keys)]
  /\ Unsupported \subseteq Queries
  /\ Encodable \subseteq Values
  /\ FileAdds \in [Files -> Seq(AddRequest)]
  /\ FileOutcome \in [Files -> {"loaded", "conflict", "unreadable"}]
  /\ AllocMayFail \in BOOLEAN

\* NULL is none of the values it stands beside.
ASSUME NullAssumption ==
  /\ NULL \notin Threads \cup {"destroyed"}
  /\ NULL \notin Cells /\ NULL \notin Queries
  /\ NULL \notin Record /\ NULL \notin Command
  /\ NULL \notin Outcome /\ NULL \notin Response

VARIABLES
  mutex,        \* dns_records_mutex: its holder, NULL, or "destroyed"
  dns_records,  \* the hash table: key -> cell of its record, or NULL
  heap,         \* cell -> the DNSRecord in it, or NULL if it is free
  running,      \* the flag handle_signal clears
  pc,           \* where each thread is
  hand,         \* the DNSRecord pointer a thread holds outside the table
  adds,         \* the add_record_to_hash calls of the load or ADD under way
  next,         \* the one of them being made
  loaded,       \* the result loadDNSMappings will return is 0
  command,      \* the management command being handled, or NULL
  outcome,      \* the reply decided for it, or NULL
  listing,      \* the buffer of get_records_list
  query,        \* the query being answered, or NULL
  keys,         \* the keys tried for it, in order
  pos,          \* loop index: next lookup, then next value
  response,     \* the response being built, or NULL
  published     \* history: contents of the table at the last unlock

storeVars == <<mutex, dns_records, heap, published>>
writerVars == <<adds, next, loaded>>
mgmtVars == <<command, outcome, listing>>
queryVars == <<query, keys, pos, response>>
vars == <<storeVars, writerVars, mgmtVars, queryVars, running, pc, hand>>

Contents ==
  [k \in Keys |-> IF dns_records[k] = NULL THEN <<>>
                  ELSE heap[dns_records[k]].values]

\* Places both threads can be at: the load of the file, the head of the loop.
SharedLabels ==
  { "open", "load_lock", "create", "parse_values", "replace", "insert",
    "load_unlock", "top", "poll" }

MainLabels ==
  SharedLabels \cup
  { "start", "query_lock", "lookup", "copy", "send", "send_locked",
    "query_unlock", "join", "cleanup_lock", "cleanup", "exited" }

MgmtLabels ==
  SharedLabels \cup
  { "unborn", "listen", "add_prepare", "add_lock", "add_unlock",
    "delete_lock", "delete", "delete_unlock", "list_lock", "list",
    "clear_lock", "clear", "reply", "done" }

TypeOK ==
  /\ mutex \in Threads \cup {NULL, "destroyed"}
  /\ dns_records \in [Keys -> Cells \cup {NULL}]
  /\ heap \in [Cells -> Record \cup {NULL}]
  /\ running \in BOOLEAN
  /\ pc \in [Threads -> MainLabels \cup MgmtLabels]
  /\ pc["main"] \in MainLabels /\ pc["mgmt"] \in MgmtLabels
  /\ hand \in [Threads -> Cells \cup {NULL}]
  /\ adds \in Seq(AddRequest)
  /\ next \in Nat
  /\ loaded \in BOOLEAN
  /\ command \in Command \cup {NULL}
  /\ outcome \in Outcome \cup {NULL}
  /\ listing \in Store
  /\ query \in Queries \cup {NULL}
  /\ keys \in Seq(Keys)
  /\ pos \in Nat \ {0}
  /\ response \in Response \cup {NULL}
  /\ published \in Store

(***************************************************************************)
(* main starts by loading the file into an empty table; the management     *)
(* thread does not exist yet.                                              *)
(***************************************************************************)
Init ==
  /\ mutex = NULL
  /\ dns_records = [k \in Keys |-> NULL]
  /\ heap = [c \in Cells |-> NULL]
  /\ running = TRUE
  /\ pc = [t \in Threads |-> IF t = "main" THEN "open" ELSE "unborn"]
  /\ hand = [t \in Threads |-> NULL]
  /\ adds = <<>> /\ next = 1 /\ loaded = FALSE
  /\ command = NULL /\ outcome = NULL /\ listing = EmptyStore
  /\ query = NULL /\ keys = <<>> /\ pos = 1 /\ response = NULL
  /\ published = EmptyStore

-----------------------------------------------------------------------------
(***************************************************************************)
(* Helpers: control flow, the mutex, and removing a record.                *)
(***************************************************************************)
Goto(t, from, to) ==
  /\ pc[t] = from
  /\ pc' = [pc EXCEPT ![t] = to]

\* pthread_mutex_lock: blocks until the mutex is free.
Lock(t) ==
  /\ mutex = NULL
  /\ mutex' = t
  /\ UNCHANGED <<dns_records, heap, published>>

\* pthread_mutex_unlock; what the table holds becomes visible to the others.
Unlock ==
  /\ mutex' = NULL
  /\ published' = Contents
  /\ UNCHANGED <<dns_records, heap>>

\* HASH_DEL of the record under k, then free of its fields and itself.
DropRecord(k) ==
  /\ dns_records' = [dns_records EXCEPT ![k] = NULL]
  /\ heap' = [heap EXCEPT ![dns_records[k]] = NULL]

Present(k) == dns_records[k] # NULL

Failure == [ok |-> FALSE, listing |-> EmptyStore]

Success == [ok |-> TRUE, listing |-> EmptyStore]

-----------------------------------------------------------------------------
(***************************************************************************)
(* loadDNSMappings, run by main before it serves and by the management     *)
(* thread for RELOAD, and add_record_to_hash, which it shares with ADD.    *)
(***************************************************************************)

\* fopen to the check of "domains"; whatever fails there fails the load.
\* The file may have been edited since it was last read.
ReadFile(t) ==
  \/ \E f \in Files :
       /\ FileOutcome[f] # "unreadable"
       /\ Goto(t, "open", "load_lock")
       /\ adds' = FileAdds[f]
       /\ next' = 1
       /\ loaded' = (FileOutcome[f] = "loaded")
       /\ UNCHANGED <<storeVars, mgmtVars, queryVars, running, hand>>
  \/ /\ AllocMayFail \/ \E f \in Files : FileOutcome[f] = "unreadable"
     /\ Goto(t, "open", IF t = "main" THEN "cleanup_lock" ELSE "reply")
     /\ outcome' = IF t = "main" THEN outcome ELSE Failure
     /\ UNCHANGED <<storeVars, writerVars, command, listing, queryVars, running, hand>>

LoadLock(t) ==
  /\ Goto(t, "load_lock", IF adds = <<>> THEN "load_unlock" ELSE "create")
  /\ Lock(t)
  /\ UNCHANGED <<writerVars, mgmtVars, queryVars, running, hand>>

\* add_record_to_hash returns nothing: its caller goes on to the next record
\* whether or not this one was stored.
NextAdd(t) ==
  /\ next' = next + 1
  /\ pc' = [pc EXCEPT ![t] =
              IF next < Len(adds) THEN "create"
              ELSE IF t = "mgmt" /\ command.op = "ADD" THEN "add_unlock"
              ELSE "load_unlock"]

\* create_dns_record: the record, its domain, type and key, no values yet.
CreateRecord(t) ==
  /\ pc[t] = "create"
  /\ \/ \E c \in Cells :
          /\ heap[c] = NULL
          /\ heap' = [heap EXCEPT ![c] = [key |-> adds[next].key, values |-> <<>>]]
          /\ hand' = [hand EXCEPT ![t] = c]
          /\ Goto(t, "create", "parse_values")
          /\ UNCHANGED next
     \/ /\ AllocMayFail
        /\ NextAdd(t)
        /\ UNCHANGED <<heap, hand>>
  /\ UNCHANGED <<mutex, dns_records, published, adds, loaded, mgmtVars, queryVars, running>>

\* Mutant: a value that cannot be parsed leaves the new record behind.
ParseValuesLeaking(t) ==
  /\ pc[t] = "parse_values"
  /\ IF adds[next].values # <<>>
     THEN /\ heap' = [heap EXCEPT ![hand[t]].values = adds[next].values]
          /\ Goto(t, "parse_values", "replace")
          /\ UNCHANGED <<hand, next>>
     ELSE /\ hand' = [hand EXCEPT ![t] = NULL]
          /\ NextAdd(t)
          /\ UNCHANGED heap
  /\ UNCHANGED <<mutex, dns_records, published, adds, loaded, mgmtVars, queryVars, running>>

\* parse_values_to_record; when it fails the record built so far is freed.
ParseValues(t) ==
  /\ pc[t] = "parse_values"
  /\ \/ /\ adds[next].values # <<>>
        /\ heap' = [heap EXCEPT ![hand[t]].values = adds[next].values]
        /\ Goto(t, "parse_values", "replace")
        /\ UNCHANGED <<hand, next>>
     \/ /\ adds[next].values = <<>> \/ AllocMayFail
        /\ heap' = [heap EXCEPT ![hand[t]] = NULL]
        /\ hand' = [hand EXCEPT ![t] = NULL]
        /\ NextAdd(t)
  /\ UNCHANGED <<mutex, dns_records, published, adds, loaded, mgmtVars, queryVars, running>>

\* Mutant: the mutex is given up between the removal of the old record and the
\* insertion of the new one.
ReplaceExistingUnlocked(t) ==
  /\ Goto(t, "replace", "insert")
  /\ LET k == heap[hand[t]].key
     IN IF Present(k) THEN DropRecord(k) ELSE UNCHANGED <<dns_records, heap>>
  /\ mutex' = NULL
  /\ published' = Contents'
  /\ UNCHANGED <<writerVars, mgmtVars, queryVars, running, hand>>

\* The record already stored under the key, if any, is unlinked and freed.
ReplaceExisting(t) ==
  /\ Goto(t, "replace", "insert")
  /\ LET k == heap[hand[t]].key
     IN IF Present(k) THEN DropRecord(k) ELSE UNCHANGED <<dns_records, heap>>
  /\ UNCHANGED <<mutex, published, writerVars, mgmtVars, queryVars, running, hand>>

InsertRecord(t) ==
  /\ pc[t] = "insert"
  /\ dns_records' = [dns_records EXCEPT ![heap[hand[t]].key] = hand[t]]
  /\ hand' = [hand EXCEPT ![t] = NULL]
  /\ NextAdd(t)
  /\ UNCHANGED <<mutex, heap, published, adds, loaded, mgmtVars, queryVars, running>>

\* Mutant: the early return on a conflict does not unlock.
LoadReturnLocked(t) ==
  /\ Goto(t, "load_unlock", IF t = "mgmt" THEN "reply"
                            ELSE IF loaded THEN "start" ELSE "cleanup_lock")
  /\ IF loaded THEN Unlock ELSE UNCHANGED storeVars
  /\ outcome' = IF t = "mgmt" THEN [Success EXCEPT !.ok = loaded] ELSE outcome
  /\ adds' = <<>> /\ next' = 1 /\ loaded' = FALSE
  /\ UNCHANGED <<command, listing, queryVars, running, hand>>

\* The unlock on the way out of loadDNSMappings, and its result.
LoadUnlock(t) ==
  /\ Goto(t, "load_unlock", IF t = "mgmt" THEN "reply"
                            ELSE IF loaded THEN "start" ELSE "cleanup_lock")
  /\ Unlock
  /\ outcome' = IF t = "mgmt" THEN [Success EXCEPT !.ok = loaded] ELSE outcome
  /\ adds' = <<>> /\ next' = 1 /\ loaded' = FALSE
  /\ UNCHANGED <<command, listing, queryVars, running, hand>>

-----------------------------------------------------------------------------
(***************************************************************************)
(* The main thread after the initial load: start-up, the query loop,       *)
(* shutdown.                                                               *)
(***************************************************************************)

\* init_dns_server and pthread_create.
Start ==
  /\ \/ /\ pc["main"] = "start"
        /\ pc' = [pc EXCEPT !["main"] = "top", !["mgmt"] = "listen"]
     \/ Goto("main", "start", "cleanup_lock")
  /\ UNCHANGED <<storeVars, writerVars, mgmtVars, queryVars, running, hand>>

\* Mutant: the management loop does not look at running.
LoopForever(t) ==
  /\ Goto(t, "top", IF running \/ t = "mgmt" THEN "poll" ELSE "join")
  /\ UNCHANGED <<storeVars, writerVars, mgmtVars, queryVars, running, hand>>

\* while (running) of both threads.
LoopTop(t) ==
  /\ Goto(t, "top", IF running THEN "poll" ELSE IF t = "main" THEN "join" ELSE "done")
  /\ UNCHANGED <<storeVars, writerVars, mgmtVars, queryVars, running, hand>>

\* select returns with nothing to do, or with a request that is refused
\* before it reaches the table.
PollTimeout(t) ==
  /\ Goto(t, "poll", "top")
  /\ UNCHANGED <<storeVars, writerVars, mgmtVars, queryVars, running, hand>>

ReceiveQuery(q) ==
  /\ Goto("main", "poll", "query_lock")
  /\ query' = q
  /\ UNCHANGED <<storeVars, writerVars, mgmtVars, keys, pos, response, running, hand>>

\* Mutant: the keys are counted from zero.
QueryLockFromZero ==
  /\ Goto("main", "query_lock", "lookup")
  /\ Lock("main")
  /\ keys' \in Lookups[query]
  /\ pos' = 0
  /\ UNCHANGED <<writerVars, mgmtVars, query, response, running, hand>>

QueryLock ==
  /\ Goto("main", "query_lock", "lookup")
  /\ Lock("main")
  /\ keys' \in Lookups[query]
  /\ pos' = 1
  /\ UNCHANGED <<writerVars, mgmtVars, query, response, running, hand>>

\* Mutant: the mutex is released as soon as the record is found.
ResolveRecordUnlocks ==
  /\ pc["main"] = "lookup"
  /\ \/ /\ pos <= Len(keys)
        /\ LET cell == dns_records[keys[pos]] IN
           IF cell # NULL
           THEN /\ hand' = [hand EXCEPT !["main"] = cell]
                /\ response' = [rcode   |-> "NOERROR",
                                count   |-> Len(heap[cell].values),
                                answers |-> <<>>]
                /\ pos' = 1
                /\ Goto("main", "lookup", "copy")
                /\ Unlock
           ELSE /\ pos' = pos + 1
                /\ UNCHANGED <<pc, hand, response, storeVars>>
     \/ /\ pos > Len(keys)
        /\ response' = [rcode |-> "NXDOMAIN", count |-> 0, answers |-> <<>>]
        /\ Goto("main", "lookup", "send_locked")
        /\ UNCHANGED <<hand, pos, storeVars>>
  /\ UNCHANGED <<writerVars, mgmtVars, query, keys, running>>

\* resolveRecord: the keys are tried in order; one whose key string cannot be
\* built is passed over.  A hit fixes ancount, whatever is encoded later.
ResolveRecord ==
  /\ pc["main"] = "lookup"
  /\ \/ /\ pos <= Len(keys)
        /\ LET cell == dns_records[keys[pos]] IN
           \/ /\ cell # NULL
              /\ hand' = [hand EXCEPT !["main"] = cell]
              /\ response' = [rcode   |-> "NOERROR",
                              count   |-> Len(heap[cell].values),
                              answers |-> <<>>]
              /\ pos' = 1
              /\ Goto("main", "lookup", "copy")
           \/ /\ cell = NULL \/ AllocMayFail
              /\ pos' = pos + 1
              /\ UNCHANGED <<pc, hand, response>>
     \/ /\ pos > Len(keys)
        /\ response' = [rcode |-> "NXDOMAIN", count |-> 0, answers |-> <<>>]
        /\ Goto("main", "lookup", "send_locked")
        /\ UNCHANGED <<hand, pos>>
  /\ UNCHANGED <<storeVars, writerVars, mgmtVars, query, keys, running>>

\* One turn of the answer loop: a value its encoder rejects is skipped, a type
\* without an encoder turns the reply into NOTIMP.
EncodeAnswer ==
  /\ pc["main"] = "copy"
  /\ pos <= Len(heap[hand["main"]].values)
  /\ IF query \in Unsupported
     THEN /\ response' = [rcode |-> "NOTIMP", count |-> 0, answers |-> <<>>]
          /\ hand' = [hand EXCEPT !["main"] = NULL]
          /\ Goto("main", "copy", "send_locked")
          /\ UNCHANGED pos
     ELSE /\ LET v == heap[hand["main"]].values[pos]
             IN response' = IF v \in Encodable
                            THEN [response EXCEPT !.answers = Append(@, v)]
                            ELSE response
          /\ pos' = pos + 1
          /\ UNCHANGED <<pc, hand>>
  /\ UNCHANGED <<storeVars, writerVars, mgmtVars, query, keys, running>>

\* The loop is over, or broken off because the response buffer is full, which
\* an unsupported type does not live to see (DnsMessage!FirstAnswerHasRoom); the
\* unlock comes before the sendto.
FinishAnswers ==
  /\ query \notin Unsupported
  /\ Goto("main", "copy", "send")
  /\ Unlock
  /\ hand' = [hand EXCEPT !["main"] = NULL]
  /\ UNCHANGED <<writerVars, mgmtVars, queryVars, running>>

\* sendto: after the unlock for an answer, before it for NXDOMAIN and NOTIMP.
Send ==
  /\ Goto("main", "send", "top") \/ Goto("main", "send_locked", "query_unlock")
  /\ query' = NULL /\ keys' = <<>> /\ pos' = 1 /\ response' = NULL
  /\ UNCHANGED <<storeVars, writerVars, mgmtVars, running, hand>>

\* Mutant: the early returns of process_dns_query do not unlock.
QueryReturnLocked ==
  /\ Goto("main", "query_unlock", "top")
  /\ UNCHANGED <<storeVars, writerVars, mgmtVars, queryVars, running, hand>>

QueryUnlock ==
  /\ Goto("main", "query_unlock", "top")
  /\ Unlock
  /\ UNCHANGED <<writerVars, mgmtVars, queryVars, running, hand>>

\* pthread_join of the management thread.
Join ==
  /\ pc["mgmt"] = "done"
  /\ Goto("main", "join", "cleanup_lock")
  /\ UNCHANGED <<storeVars, writerVars, mgmtVars, queryVars, running, hand>>

CleanupLock ==
  /\ Goto("main", "cleanup_lock", "cleanup")
  /\ Lock("main")
  /\ UNCHANGED <<writerVars, mgmtVars, queryVars, running, hand>>

\* One turn of the loop of cleanup_dns_records.
CleanupRecord(k) ==
  /\ pc["main"] = "cleanup"
  /\ Present(k)
  /\ DropRecord(k)
  /\ UNCHANGED <<mutex, published, writerVars, mgmtVars, queryVars, running, pc, hand>>

\* pthread_mutex_unlock, pthread_mutex_destroy; main returns.
CleanupUnlock ==
  /\ \A k \in Keys : ~ Present(k)
  /\ Goto("main", "cleanup", "exited")
  /\ mutex' = "destroyed"
  /\ published' = Contents
  /\ UNCHANGED <<dns_records, heap, writerVars, mgmtVars, queryVars, running, hand>>

-----------------------------------------------------------------------------
(***************************************************************************)
(* The management thread.                                                  *)
(***************************************************************************)

\* Up to listen(); if the socket cannot be set up the thread just ends.
Listen ==
  /\ Goto("mgmt", "listen", "top") \/ Goto("mgmt", "listen", "done")
  /\ UNCHANGED <<storeVars, writerVars, mgmtVars, queryVars, running, hand>>

\* accept, read and dispatch of an authenticated command with its parameters.
ReceiveCommand(c) ==
  /\ Goto("mgmt", "poll", CASE c.op = "ADD"    -> "add_prepare"
                            [] c.op = "DELETE" -> "delete_lock"
                            [] c.op = "LIST"   -> "list_lock"
                            [] c.op = "RELOAD" -> "clear_lock")
  /\ command' = c
  /\ UNCHANGED <<storeVars, writerVars, outcome, listing, queryVars, running, hand>>

\* Mutant: the text of an MX value is not looked at.
AddPrepareUnchecked ==
  /\ pc["mgmt"] = "add_prepare"
  /\ adds' = <<[key |-> command.key, values |-> command.values]>>
  /\ next' = 1
  /\ Goto("mgmt", "add_prepare", "add_lock")
  /\ UNCHANGED <<storeVars, loaded, command, outcome, listing, queryVars, running, hand>>

\* add_single_record up to the lock: the value becomes a one-element array; an
\* MX value that is not "<priority> <name>" (values empty) is refused.
AddPrepare ==
  /\ pc["mgmt"] = "add_prepare"
  /\ \/ /\ command.values # <<>>
        /\ adds' = <<[key |-> command.key, values |-> command.values]>>
        /\ next' = 1
        /\ Goto("mgmt", "add_prepare", "add_lock")
        /\ UNCHANGED outcome
     \/ /\ command.values = <<>> \/ AllocMayFail
        /\ outcome' = Failure
        /\ Goto("mgmt", "add_prepare", "reply")
        /\ UNCHANGED <<adds, next>>
  /\ UNCHANGED <<storeVars, loaded, command, listing, queryVars, running, hand>>

AddLock ==
  /\ Goto("mgmt", "add_lock", "create")
  /\ Lock("mgmt")
  /\ UNCHANGED <<writerVars, mgmtVars, queryVars, running, hand>>

\* add_single_record returns 0 whatever add_record_to_hash did.
AddUnlock ==
  /\ Goto("mgmt", "add_unlock", "reply")
  /\ Unlock
  /\ outcome' = Success
  /\ adds' = <<>> /\ next' = 1
  /\ UNCHANGED <<loaded, command, listing, queryVars, running, hand>>

\* Mutant: delete_record does not take the mutex.
DeleteUnguarded ==
  /\ Goto("mgmt", "delete_lock", "delete")
  /\ UNCHANGED <<storeVars, writerVars, mgmtVars, queryVars, running, hand>>

DeleteLock ==
  /\ Goto("mgmt", "delete_lock", "delete")
  /\ Lock("mgmt")
  /\ UNCHANGED <<writerVars, mgmtVars, queryVars, running, hand>>

\* delete_record: find, unlink, free; -1 if there is no such record or its key
\* string cannot be built.
DeleteRecord ==
  /\ Goto("mgmt", "delete", "delete_unlock")
  /\ \/ /\ Present(command.key)
        /\ DropRecord(command.key)
        /\ outcome' = Success
     \/ /\ ~ Present(command.key) \/ AllocMayFail
        /\ outcome' = Failure
        /\ UNCHANGED <<dns_records, heap>>
  /\ UNCHANGED <<mutex, published, writerVars, command, listing, queryVars, running, hand>>

DeleteUnlock ==
  /\ Goto("mgmt", "delete_unlock", "reply")
  /\ Unlock
  /\ UNCHANGED <<writerVars, mgmtVars, queryVars, running, hand>>

ListLock ==
  /\ Goto("mgmt", "list_lock", "list")
  /\ Lock("mgmt")
  /\ UNCHANGED <<writerVars, mgmtVars, queryVars, running, hand>>

\* One turn of the outer loop of get_records_list.
ListRecord(k) ==
  /\ pc["mgmt"] = "list"
  /\ Present(k)
  /\ listing[k] = <<>>
  /\ listing' = [listing EXCEPT ![k] = heap[dns_records[k]].values]
  /\ UNCHANGED <<storeVars, writerVars, command, outcome, queryVars, running, pc, hand>>

\* Mutant: get_records_list does not unlock when realloc fails.
ListReturnLocked ==
  /\ Goto("mgmt", "list", "reply")
  /\ \/ /\ \A k \in Keys : Present(k) => listing[k] # <<>>
        /\ outcome' = [ok |-> TRUE, listing |-> listing]
        /\ Unlock
     \/ /\ AllocMayFail
        /\ outcome' = Failure
        /\ UNCHANGED storeVars
  /\ listing' = EmptyStore
  /\ UNCHANGED <<writerVars, command, queryVars, running, hand>>

\* Every record has been printed, or the buffer could not grow.
ListUnlock ==
  /\ Goto("mgmt", "list", "reply")
  /\ Unlock
  /\ \/ /\ \A k \in Keys : Present(k) => listing[k] # <<>>
        /\ outcome' = [ok |-> TRUE, listing |-> listing]
     \/ /\ AllocMayFail
        /\ outcome' = Failure
  /\ listing' = EmptyStore
  /\ UNCHANGED <<writerVars, command, queryVars, running, hand>>

\* handle_reload_command empties the table in a critical section of its own;
\* the load that follows is another one.
ClearLock ==
  /\ Goto("mgmt", "clear_lock", "clear")
  /\ Lock("mgmt")
  /\ UNCHANGED <<writerVars, mgmtVars, queryVars, running, hand>>

ClearRecord(k) ==
  /\ pc["mgmt"] = "clear"
  /\ Present(k)
  /\ DropRecord(k)
  /\ UNCHANGED <<mutex, published, writerVars, mgmtVars, queryVars, running, pc, hand>>

ClearUnlock ==
  /\ \A k \in Keys : ~ Present(k)
  /\ Goto("mgmt", "clear", "open")
  /\ Unlock
  /\ UNCHANGED <<writerVars, mgmtVars, queryVars, running, hand>>

\* write of the reply, close of the connection.
Reply ==
  /\ Goto("mgmt", "reply", "top")
  /\ command' = NULL /\ outcome' = NULL
  /\ UNCHANGED <<storeVars, writerVars, listing, queryVars, running, hand>>

\* handle_signal, in whatever thread it runs.
Signal ==
  /\ running /\ pc["main"] # "exited"
  /\ running' = FALSE
  /\ UNCHANGED <<storeVars, writerVars, mgmtVars, queryVars, pc, hand>>

-----------------------------------------------------------------------------
Loader(t) ==
  \/ ReadFile(t) \/ LoadLock(t) \/ CreateRecord(t) \/ ParseValues(t)
  \/ ReplaceExisting(t) \/ InsertRecord(t) \/ LoadUnlock(t)

MainThread ==
  \/ Loader("main")
  \/ Start \/ LoopTop("main") \/ PollTimeout("main")
  \/ QueryLock \/ ResolveRecord \/ EncodeAnswer \/ FinishAnswers \/ Send \/ QueryUnlock
  \/ Join \/ CleanupLock \/ CleanupUnlock
  \/ \E k \in Keys : CleanupRecord(k)

MgmtThread ==
  \/ Loader("mgmt")
  \/ Listen \/ LoopTop("mgmt")
  \/ AddPrepare \/ AddLock \/ AddUnlock
  \/ DeleteLock \/ DeleteRecord \/ DeleteUnlock
  \/ ListLock \/ ListUnlock
  \/ ClearLock \/ ClearUnlock
  \/ \E k \in Keys : ListRecord(k) \/ ClearRecord(k)
  \/ Reply

\* What may arrive from outside: a datagram, a command with its parameters (an
\* ADD carries one value, or an MX text that does not parse), a signal.  When
\* the management thread leaves its select, accept or read without a command
\* is up to its clients too (ServerLifecycle).
Environment ==
  \/ PollTimeout("mgmt")
  \/ \E q \in Queries : ReceiveQuery(q)
  \/ \E k \in Keys :
       \/ \E v \in {<<>>} \cup {<<v>> : v \in Values} :
            ReceiveCommand([op |-> "ADD", key |-> k, values |-> v])
       \/ ReceiveCommand([op |-> "DELETE", key |-> k])
  \/ \E o \in {"LIST", "RELOAD"} : ReceiveCommand([op |-> o])
  \/ Signal

\* The process is gone.
Exited == pc["main"] = "exited" /\ UNCHANGED vars

Next == MainThread \/ MgmtThread \/ Environment \/ Exited

Spec == Init /\ [][Next]_vars

-----------------------------------------------------------------------------
(***************************************************************************)
(* Properties.                                                             *)
(***************************************************************************)

\* Where a thread is between its pthread_mutex_lock and pthread_mutex_unlock.
Critical ==
  { "create", "parse_values", "replace", "insert", "load_unlock", "add_unlock",
    "lookup", "copy", "send_locked", "query_unlock", "cleanup",
    "delete", "delete_unlock", "list", "clear" }

\* Where it holds a record that is not in the table yet.
Building == {"parse_values", "replace", "insert"}

\* A thread is between lock and unlock exactly when it holds the mutex, so the
\* two threads are never there together and every path out of a critical
\* section (the early returns of loadDNSMappings, delete_record,
\* get_records_list and process_dns_query) has released it.
MutexDiscipline == \A t \in Threads : pc[t] \in Critical <=> mutex = t

\* No pointer dangles: a record in the table is allocated, complete and stored
\* under its own key, and the record a thread holds (main reading its values
\* in process_dns_query, add_record_to_hash building it) has not been freed by
\* the other one.
NoDanglingPointer ==
  /\ \A k \in Keys : Present(k) =>
       /\ heap[dns_records[k]] # NULL
       /\ heap[dns_records[k]].key = k
       /\ heap[dns_records[k]].values # <<>>
  /\ \A t \in Threads : hand[t] # NULL => heap[hand[t]] # NULL

\* No record is lost: an allocated DNSRecord is in the table or in the hand of
\* the thread building it, on every error path too; after cleanup_dns_records
\* none is left.
NoLeak ==
  /\ \A c \in Cells : heap[c] # NULL =>
       \/ \E k \in Keys : dns_records[k] = c
       \/ \E t \in Threads : hand[t] = c /\ pc[t] \in Building
  /\ pc["main"] = "exited" => \A c \in Cells : heap[c] = NULL

\* A SUCCESS reply to ADD is true, although add_record_to_hash reports nothing:
\* the record is in the table, with the value that was sent.  It holds as long
\* as no allocation fails.
AddSuccessStored ==
  pc["mgmt"] = "reply" /\ command.op = "ADD" /\ outcome.ok
    => published[command.key] = command.values

\* While main resolves a name and copies the values of the record it found, no
\* step changes the table or any record: process_dns_query reads a record only
\* between its lock and its unlock.
FrozenWhileAnswering ==
  [][pc["main"] \in {"lookup", "copy"} => UNCHANGED <<dns_records, heap>>]_vars

\* The abstract specification this one implements: the table of an instant is
\* what the last unlock left, a query is resolved when its answer is complete,
\* a command has taken effect when its reply is due.
Atomic ==
  INSTANCE AtomicStore WITH
    phase    <- IF pc["mgmt"] = "unborn" /\ pc["main"] \notin {"start", "cleanup_lock", "cleanup", "exited"}
                THEN "boot" ELSE IF pc["main"] = "exited" THEN "down" ELSE "up",
    store    <- published,
    response <- IF pc["main"] \in {"send", "send_locked"} THEN response ELSE NULL,
    cleared  <- /\ command # NULL
                /\ command.op = "RELOAD"
                /\ pc["mgmt"] \notin {"clear_lock", "clear", "reply"},
    outcome  <- IF pc["mgmt"] = "reply" THEN outcome ELSE NULL

\* Queries, commands and the table behave as if each critical section were one
\* step: no client can tell that a replaced record is first unlinked and then
\* inserted, that RELOAD removes and adds records one by one, or that values
\* are copied one by one; and every reply tells what happened.
ImplementsAtomicStore == Atomic!Spec

-----------------------------------------------------------------------------
(***************************************************************************)
(* Liveness.  A thread that can take a step takes it; main's select        *)
(* returns after a second at most and its recvfrom does not block.  The    *)
(* write of a reply is the exception: it comes back when the management    *)
(* client lets it, so nothing is assumed of Reply, as nothing is of        *)
(* queries, commands and signals.  (That such a write may also kill the    *)
(* process is ServerLifecycle's BrokenPipe.)  A thread waiting for the     *)
(* mutex gets it if it is free again and again: between two critical       *)
(* sections the holder makes at least one system call (sendto, select,     *)
(* write, fopen), which is when the waiter runs.                           *)
(***************************************************************************)
Waiting(t) ==
  IF t = "main" THEN LoadLock(t) \/ QueryLock \/ CleanupLock
  ELSE LoadLock(t) \/ AddLock \/ DeleteLock \/ ListLock \/ ClearLock

Fairness ==
  /\ WF_vars(MainThread)
  /\ WF_vars(pc["mgmt"] # "reply" /\ MgmtThread)
  /\ \A t \in Threads : SF_vars(Waiting(t))

LiveSpec == Spec /\ Fairness

\* Every query that parses gets a response, whatever the management thread
\* does meanwhile, even if the write of a reply never comes back.
QueryAnswered == query # NULL ~> query = NULL

\* Every command accepted is carried out to the point where its reply is due,
\* however many queries come in.
CommandAnswered == command # NULL ~> pc["mgmt"] = "reply"

\* The management clients let every accept, read and write come back.
ClientsLetGo == WF_vars(Reply) /\ WF_vars(PollTimeout("mgmt"))

\* If they do, then once a signal has cleared running the management thread
\* ends after the command it is at, and main joins it and returns from
\* cleanup_dns_records: neither waits for a mutex the other one took with it.
ShutdownCompletes == ClientsLetGo => (~ running ~> pc["main"] = "exited")
=============================================================================
