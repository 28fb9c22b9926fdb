---------------------------- MODULE AtomicStore ----------------------------
(***************************************************************************)
(* What the record table promises its clients, without mutex, heap or      *)
(* program counters: a query is answered from the records of one instant,  *)
(* ADD, DELETE and LIST take effect, or fail without effect, in one        *)
(* instant, and RELOAD in two: the table is emptied, later the file is     *)
(* laid over it.  That queries find the table empty between the two, or    *)
(* left empty when the file cannot be read, is therefore permitted, as the *)
(* source documents neither.  RecordStore implements this specification    *)
(* when no allocation fails.                                               *)
(***************************************************************************)
EXTENDS Naturals, Sequences

CONSTANTS Keys, Values, Queries, Lookups, Unsupported, Encodable,
          Files, FileAdds, FileOutcome, NULL

VARIABLES
  phase,     \* "boot", "up" or "down"
  store,     \* key -> list of values, empty for no record
  query,     \* the query asked and not answered yet, or NULL
  response,  \* the answer determined for it, or NULL
  command,   \* the management command under way, or NULL
  cleared,   \* RELOAD has emptied the store and not loaded the file yet
  outcome    \* the reply determined for the command, or NULL

vars == <<phase, store, query, response, command, cleared, outcome>>

EmptyStore == [k \in Keys |-> <<>>]

Failure == [ok |-> FALSE, listing |-> EmptyStore]
Success == [ok |-> TRUE, listing |-> EmptyStore]

Init ==
  /\ phase = "boot"
  /\ store = EmptyStore
  /\ query = NULL /\ response = NULL
  /\ command = NULL /\ cleared = FALSE /\ outcome = NULL

-----------------------------------------------------------------------------
\* The last well-formed entry for a key wins; other keys keep their values.
Overlay(s, entries) ==
  [k \in Keys |->
     LET mine == {i \in DOMAIN entries : entries[i].key = k /\ entries[i].values # <<>>}
     IN IF mine = {} THEN s[k]
        ELSE entries[CHOOSE i \in mine : \A j \in mine : j <= i].values]

\* store' and the success of a load: the file is read, or it is unreadable and
\* nothing happens.  A file with a conflict is loaded up to the conflict.
Load(ok) ==
  \/ \E f \in Files :
       /\ FileOutcome[f] # "unreadable"
       /\ ok = (FileOutcome[f] = "loaded")
       /\ store' = Overlay(store, FileAdds[f])
  \/ /\ \E f \in Files : FileOutcome[f] = "unreadable"
     /\ ok = FALSE
     /\ UNCHANGED store

Boot ==
  /\ phase = "boot"
  /\ phase' = "up"
  /\ \E ok \in BOOLEAN : Load(ok)
  /\ UNCHANGED <<query, response, command, cleared, outcome>>

Down ==
  /\ phase = "up" /\ query = NULL /\ command = NULL
  /\ phase' = "down"
  /\ store' = EmptyStore
  /\ UNCHANGED <<query, response, command, cleared, outcome>>

-----------------------------------------------------------------------------
Ask(q) ==
  /\ phase = "up" /\ query = NULL
  /\ query' = q
  /\ UNCHANGED <<phase, store, response, command, cleared, outcome>>

\* as holds the encodable ones of the first n values, in their order.
EncodableAmong(kept, values, n) ==
  \E at \in [1 .. Len(kept) -> 1 .. n] :
    /\ \A i, j \in 1 .. Len(kept) : i < j => at[i] < at[j]
    /\ \A m \in 1 .. n : values[m] \in Encodable <=> \E i \in 1 .. Len(kept) : at[i] = m
    /\ \A i \in 1 .. Len(kept) : kept[i] = values[at[i]]

\* r is a response to q: the first key of the list that has a record decides,
\* its values are answered up to where the response buffer was full.  A record
\* of an unsupported type is answered NOTIMP, as the code does (src/src/main.c:
\* 258-270); which types the documentation promises is in MappingsFile's
\* SupportedIsServed.
Responds(r, q, keys) ==
  \/ /\ \A i \in DOMAIN keys : store[keys[i]] = <<>>
     /\ r = [rcode |-> "NXDOMAIN", count |-> 0, answers |-> <<>>]
  \/ \E i \in DOMAIN keys :
       LET values == store[keys[i]] IN
       /\ values # <<>>
       /\ \A j \in DOMAIN keys : j < i => store[keys[j]] = <<>>
       /\ IF q \in Unsupported
          THEN r = [rcode |-> "NOTIMP", count |-> 0, answers |-> <<>>]
          ELSE /\ r.rcode = "NOERROR" /\ r.count = Len(values)
               /\ \E n \in 0 .. Len(values) : EncodableAmong(r.answers, values, n)

Resolve ==
  /\ query # NULL /\ response = NULL /\ response' # NULL
  /\ \E keys \in Lookups[query] : Responds(response', query, keys)
  /\ UNCHANGED <<phase, store, query, command, cleared, outcome>>

Answer ==
  /\ response # NULL
  /\ query' = NULL /\ response' = NULL
  /\ UNCHANGED <<phase, store, command, cleared, outcome>>

-----------------------------------------------------------------------------
Accept(c) ==
  /\ phase = "up" /\ command = NULL
  /\ command' = c
  /\ UNCHANGED <<phase, store, query, response, cleared, outcome>>

Add ==
  /\ command.op = "ADD"
  /\ IF command.values = <<>>
     THEN outcome' = Failure /\ UNCHANGED store
     ELSE outcome' = Success /\ store' = [store EXCEPT ![command.key] = command.values]

Delete ==
  /\ command.op = "DELETE"
  /\ outcome' = IF store[command.key] = <<>> THEN Failure ELSE Success
  /\ store' = [store EXCEPT ![command.key] = <<>>]

List ==
  /\ command.op = "LIST"
  /\ outcome' = [ok |-> TRUE, listing |-> store]
  /\ UNCHANGED store

Execute ==
  /\ command # NULL /\ outcome = NULL
  /\ Add \/ Delete \/ List
  /\ UNCHANGED <<phase, query, response, command, cleared>>

ReloadClear ==
  /\ command # NULL /\ outcome = NULL /\ ~ cleared
  /\ command.op = "RELOAD"
  /\ cleared' = TRUE
  /\ store' = EmptyStore
  /\ UNCHANGED <<phase, query, response, command, outcome>>

ReloadLoad ==
  /\ cleared
  /\ cleared' = FALSE
  /\ \E ok \in BOOLEAN : Load(ok) /\ outcome' = [Success EXCEPT !.ok = ok]
  /\ UNCHANGED <<phase, query, response, command>>

Finish ==
  /\ outcome # NULL
  /\ command' = NULL /\ outcome' = NULL
  /\ UNCHANGED <<phase, store, query, response, cleared>>

Next ==
  \/ Boot \/ Down
  \/ \E q \in Queries : Ask(q)
  \/ Resolve \/ Answer
  \/ \E k \in Keys :
       \/ \E v \in {<<>>} \cup {<<v>> : v \in Values} :
            Accept([op |-> "ADD", key |-> k, values |-> v])
       \/ Accept([op |-> "DELETE", key |-> k])
  \/ \E o \in {"LIST", "RELOAD"} : Accept([op |-> o])
  \/ Execute \/ ReloadClear \/ ReloadLoad \/ Finish

Spec == Init /\ [][Next]_vars
=============================================================================
