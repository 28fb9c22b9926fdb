------------------------- MODULE RecordStoreProofs -------------------------
(***************************************************************************)
(* The safety properties of RecordStore, proved for every table, heap and  *)
(* mappings file, and then that it implements AtomicStore.                 *)
(*                                                                         *)
(* None of them is inductive alone.  That a record a thread holds is not   *)
(* freed by the other one follows from the mutex, but only together with   *)
(* where each thread may hold a record at all (HandOK); that two keys never*)
(* share a cell follows from each record being stored under its own key;   *)
(* and the fields adds and next are shared by the two loaders, so that a   *)
(* load depends on the management thread not existing while main loads     *)
(* (Lifecycle).  IInv is the conjunction of all this.                      *)
(***************************************************************************)
EXTENDS RecordStore, SequenceTheorems, TLAPS

Writing == {"create", "parse_values", "replace", "insert"}

\* The management thread exists only after main's load and is gone before
\* main cleans up.
Lifecycle ==
  /\ pc["main"] \in Writing \cup {"open", "load_lock", "load_unlock", "start"}
       => pc["mgmt"] = "unborn"
  /\ pc["main"] \in {"cleanup_lock", "cleanup", "exited"}
       => pc["mgmt"] \in {"unborn", "done"}

\* The add under way is one of the list.
WriterOK == \A t \in Threads :
  /\ pc[t] \in Writing => next \in 1 .. Len(adds)
  /\ pc[t] = "load_lock" => next = 1
  /\ pc[t] = "add_lock" => next = 1 /\ Len(adds) = 1

\* Who holds a record, and how it relates to the table.
HandOK ==
  /\ \A t \in Threads :
       /\ hand[t] # NULL <=> pc[t] \in Building \cup {"copy"}
       /\ pc[t] \in Building => \A k \in Keys : dns_records[k] # hand[t]
       /\ pc[t] \in {"replace", "insert"} => heap[hand[t]].values # <<>>
       /\ pc[t] = "insert" => ~ Present(heap[hand[t]].key)
  /\ pc["main"] = "copy" => \E k \in Keys : dns_records[k] = hand["main"]

\* What each handler knows of its command, and main of its query.
RequestOK ==
  /\ pc["mgmt"] = "add_prepare" => command \in AddCommand
  /\ pc["mgmt"] \in {"delete_lock", "delete"} => command \in DeleteCommand
  /\ pc["main"] \in {"query_lock", "lookup", "copy"} => query \in Queries
  /\ pc["main"] = "copy" => response \in Response

IInv ==
  /\ TypeOK
  /\ MutexDiscipline
  /\ NoDanglingPointer
  /\ NoLeak
  /\ Lifecycle
  /\ WriterOK
  /\ HandOK
  /\ RequestOK

-----------------------------------------------------------------------------
(***************************************************************************)
(* Names and abbreviations every step below looks into.                    *)
(***************************************************************************)
USE NullAssumption
USE DEF Threads, SharedLabels, MainLabels, MgmtLabels, Critical, Building, Writing,
        Goto, Present, storeVars, writerVars, mgmtVars, queryVars, vars

\* The replies without a listing, and the table's contents, are well formed.
LEMMA RepliesTyped == EmptyStore \in Store /\ Success \in Outcome /\ Failure \in Outcome
<1>1. EmptyStore \in Store
  BY DEF EmptyStore, Store
<1>. QED  BY <1>1 DEF Success, Failure, Outcome

LEMMA ContentsTyped == TypeOK /\ NoDanglingPointer => Contents \in Store
  BY DEF TypeOK, NoDanglingPointer, Contents, Store, Record

\* The initial state satisfies the invariant: nothing is allocated and main is
\* about to open the file.
LEMMA InitIInv == Init => IInv
<1>. SUFFICES ASSUME Init PROVE IInv
  OBVIOUS
<1>1. TypeOK
  <2>1. /\ pc \in [Threads -> MainLabels \cup MgmtLabels]
        /\ pc["main"] \in MainLabels /\ pc["mgmt"] \in MgmtLabels
    BY DEF Init
  <2>2. listing \in Store /\ published \in Store
    BY RepliesTyped DEF Init
  <2>3. adds \in Seq(AddRequest)
    BY EmptySeq DEF Init
  <2>4. mutex \in Threads \cup {NULL, "destroyed"} /\ running \in BOOLEAN /\ loaded \in BOOLEAN
    BY DEF Init
  <2>5. dns_records \in [Keys -> Cells \cup {NULL}] /\ heap \in [Cells -> Record \cup {NULL}]
    BY DEF Init
  <2>6. hand \in [Threads -> Cells \cup {NULL}]
    BY DEF Init
  <2>7. next \in Nat /\ pos \in Nat \ {0}
    BY DEF Init
  <2>. QED  BY <2>1, <2>2, <2>3, <2>4, <2>5, <2>6, <2>7 DEF Init, TypeOK
<1>2. MutexDiscipline /\ NoDanglingPointer /\ NoLeak
  BY DEF Init, MutexDiscipline, NoDanglingPointer, NoLeak
<1>3. Lifecycle /\ WriterOK /\ HandOK /\ RequestOK
  BY DEF Init, Lifecycle, WriterOK, HandOK, RequestOK
<1>. QED  BY <1>1, <1>2, <1>3 DEF IInv

\* While one thread is in a critical section the other is in none and holds no
\* record.
LEMMA Alone ==
  ASSUME IInv, NEW t \in Threads, pc[t] \in Critical
  PROVE  \A u \in Threads \ {t} : pc[u] \notin Critical /\ hand[u] = NULL
  BY DEF IInv, MutexDiscipline, HandOK, TypeOK

-----------------------------------------------------------------------------
\* The load, by either thread.
LEMMA LoaderStep ==
  ASSUME IInv, NEW t \in Threads, Loader(t)
  PROVE  IInv'
<1>. USE DEF IInv
<1>1. CASE ReadFile(t)
  <2>1. TypeOK'
    <3>1. \A f \in Files : FileAdds[f] \in Seq(AddRequest)
      BY StoreAssumption
    <3>2. loaded' \in BOOLEAN
      BY <1>1 DEF ReadFile, TypeOK
    <3>3. (adds' \in Seq(AddRequest) /\ next' \in Nat)
      BY <1>1, <3>1 DEF ReadFile, TypeOK
    <3>4. outcome' \in Outcome \cup {NULL}
      BY <1>1, RepliesTyped DEF ReadFile, TypeOK
    <3>5. pc' \in [Threads -> MainLabels \cup MgmtLabels]
      BY <1>1 DEF ReadFile, TypeOK
    <3>6. pc'["main"] \in MainLabels /\ pc'["mgmt"] \in MgmtLabels
      BY <1>1 DEF ReadFile, TypeOK
    <3>. QED  BY <1>1, <3>2, <3>3, <3>4, <3>5, <3>6 DEF ReadFile, TypeOK
  <2>2. (MutexDiscipline /\ NoDanglingPointer /\ NoLeak /\ Lifecycle)'
    BY <1>1 DEF ReadFile, TypeOK, MutexDiscipline, NoDanglingPointer, NoLeak, Lifecycle
  <2>3. (WriterOK /\ HandOK /\ RequestOK)'
    BY <1>1 DEF ReadFile, TypeOK, Lifecycle, WriterOK, HandOK, RequestOK
  <2>. QED  BY <2>1, <2>2, <2>3
<1>2. CASE LoadLock(t)
  BY <1>2 DEF LoadLock, Lock, TypeOK, MutexDiscipline, NoDanglingPointer, NoLeak,
              Lifecycle, WriterOK, HandOK, RequestOK
<1>3. CASE CreateRecord(t)
  <2>1. pc[t] \in Critical /\ next \in 1 .. Len(adds)
    BY <1>3 DEF CreateRecord, WriterOK
  <2>2. adds[next] \in AddRequest /\ Len(adds) \in Nat
    BY <2>1, ElementOfSeq, LenProperties DEF TypeOK
  <2>3. CASE /\ AllocMayFail
             /\ NextAdd(t)
             /\ UNCHANGED <<heap, hand>>
    <3>1. (TypeOK /\ MutexDiscipline)'
      BY <1>3, <2>1, <2>3 DEF CreateRecord, NextAdd, TypeOK, MutexDiscipline
    <3>2. (NoDanglingPointer /\ NoLeak /\ Lifecycle)'
      BY <1>3, <2>1, <2>3 DEF CreateRecord, NextAdd, TypeOK, NoDanglingPointer, NoLeak, Lifecycle
    <3>3. (WriterOK /\ HandOK /\ RequestOK)'
      BY <1>3, <2>1, <2>2, <2>3, Alone DEF CreateRecord, NextAdd, TypeOK, Lifecycle, WriterOK, HandOK, RequestOK
    <3>. QED  BY <3>1, <3>2, <3>3
  <2>4. CASE \E c \in Cells :
               /\ heap[c] = NULL
               /\ heap' = [heap EXCEPT ![c] = [key |-> adds[next].key, values |-> <<>>]]
               /\ hand' = [hand EXCEPT ![t] = c]
               /\ Goto(t, "create", "parse_values")
               /\ UNCHANGED next
    <3>1. PICK c \in Cells :
               /\ heap[c] = NULL
               /\ heap' = [heap EXCEPT ![c] = [key |-> adds[next].key, values |-> <<>>]]
               /\ hand' = [hand EXCEPT ![t] = c]
               /\ Goto(t, "create", "parse_values")
               /\ UNCHANGED next
      BY <2>4
    <3>2. [key |-> adds[next].key, values |-> <<>>] \in Record
      BY <2>2 DEF Record, AddRequest
    <3>3. \A k \in Keys : dns_records[k] # c
      BY <3>1 DEF NoDanglingPointer, TypeOK
    <3>4. (TypeOK /\ MutexDiscipline)'
      BY <1>3, <3>1, <3>2 DEF CreateRecord, TypeOK, MutexDiscipline
    <3>5. NoDanglingPointer'
      BY <1>3, <3>1, <3>2, <3>3 DEF CreateRecord, TypeOK, NoDanglingPointer
    <3>6. NoLeak'
      BY <1>3, <3>1, <3>3 DEF CreateRecord, TypeOK, NoLeak, Lifecycle
    <3>7. (Lifecycle /\ WriterOK /\ RequestOK)'
      BY <1>3, <3>1 DEF CreateRecord, TypeOK, Lifecycle, WriterOK, RequestOK
    <3>8. HandOK'
      BY <1>3, <2>1, <3>1, <3>3, Alone DEF CreateRecord, TypeOK, HandOK
    <3>. QED  BY <3>4, <3>5, <3>6, <3>7, <3>8
  <2>. QED  BY <1>3, <2>3, <2>4 DEF CreateRecord
<1>4. CASE ParseValues(t)
  <2>1. pc[t] \in Critical /\ next \in 1 .. Len(adds)
    BY <1>4 DEF ParseValues, WriterOK
  <2>2. adds[next] \in AddRequest /\ Len(adds) \in Nat
    BY <2>1, ElementOfSeq, LenProperties DEF TypeOK
  <2>3. /\ hand[t] \in Cells /\ heap[hand[t]] \in Record
        /\ \A k \in Keys : dns_records[k] # hand[t]
    BY <1>4 DEF ParseValues, HandOK, NoDanglingPointer, TypeOK
  <2>4. CASE /\ adds[next].values # <<>>
             /\ heap' = [heap EXCEPT ![hand[t]].values = adds[next].values]
             /\ Goto(t, "parse_values", "replace")
             /\ UNCHANGED <<hand, next>>
    <3>1. heap' \in [Cells -> Record \cup {NULL}] /\ heap'[hand[t]] \in Record
      BY <2>2, <2>3, <2>4 DEF TypeOK, Record, AddRequest
    <3>2. (TypeOK /\ MutexDiscipline)'
      BY <1>4, <2>4, <3>1 DEF ParseValues, TypeOK, MutexDiscipline
    <3>3. NoDanglingPointer'
      <4>1. /\ \A c \in Cells \ {hand[t]} : heap'[c] = heap[c]
            /\ heap'[hand[t]] # NULL
            /\ UNCHANGED <<dns_records, hand>>
        BY <1>4, <2>3, <2>4, <3>1 DEF ParseValues, TypeOK
      <4>2. \A k \in Keys : Present(k) =>
              dns_records[k] \in Cells \ {hand[t]} /\ heap'[dns_records[k]] = heap[dns_records[k]]
        BY <2>3, <4>1 DEF TypeOK
      <4>. QED  BY <4>1, <4>2 DEF TypeOK, NoDanglingPointer
    <3>6. NoLeak'
      BY <1>4, <2>3, <2>4, <3>1 DEF ParseValues, TypeOK, NoLeak
    <3>4. (Lifecycle /\ WriterOK /\ RequestOK)'
      BY <1>4, <2>4 DEF ParseValues, TypeOK, Lifecycle, WriterOK, RequestOK
    <3>5. HandOK'
      BY <1>4, <2>1, <2>3, <2>4, <3>1, Alone DEF ParseValues, TypeOK, HandOK
    <3>. QED  BY <3>2, <3>3, <3>4, <3>5, <3>6
  <2>5. CASE /\ heap' = [heap EXCEPT ![hand[t]] = NULL]
             /\ hand' = [hand EXCEPT ![t] = NULL]
             /\ NextAdd(t)
    <3>1. (TypeOK /\ MutexDiscipline)'
      BY <1>4, <2>1, <2>3, <2>5 DEF ParseValues, NextAdd, TypeOK, MutexDiscipline
    <3>2. NoDanglingPointer'
      BY <1>4, <2>1, <2>3, <2>5, Alone DEF ParseValues, NextAdd, TypeOK, NoDanglingPointer
    <3>3. (NoLeak /\ Lifecycle)'
      BY <1>4, <2>3, <2>5 DEF ParseValues, NextAdd, TypeOK, NoLeak, Lifecycle
    <3>4. (WriterOK /\ RequestOK)'
      BY <1>4, <2>1, <2>2, <2>5, Alone DEF ParseValues, NextAdd, TypeOK, Lifecycle, WriterOK, RequestOK
    <3>5. HandOK'
      BY <1>4, <2>1, <2>3, <2>5, Alone DEF ParseValues, NextAdd, TypeOK, HandOK
    <3>. QED  BY <3>1, <3>2, <3>3, <3>4, <3>5
  <2>. QED  BY <1>4, <2>4, <2>5 DEF ParseValues
<1>5. CASE ReplaceExisting(t)
  <2>. DEFINE k == heap[hand[t]].key
  <2>1. /\ pc[t] = "replace" /\ pc[t] \in Critical
        /\ hand[t] \in Cells /\ heap[hand[t]] \in Record /\ k \in Keys
        /\ \A j \in Keys : dns_records[j] # hand[t]
    BY <1>5 DEF ReplaceExisting, HandOK, NoDanglingPointer, TypeOK, Record
  <2>2. CASE ~ Present(k)
    BY <1>5, <2>1, <2>2, Alone DEF ReplaceExisting, TypeOK, MutexDiscipline, NoDanglingPointer,
       NoLeak, Lifecycle, WriterOK, HandOK, RequestOK
  <2>3. CASE Present(k)
    <3>1. /\ dns_records' = [dns_records EXCEPT ![k] = NULL]
          /\ heap' = [heap EXCEPT ![dns_records[k]] = NULL]
          /\ pc' = [pc EXCEPT ![t] = "insert"]
          /\ UNCHANGED <<mutex, published, writerVars, mgmtVars, queryVars, running, hand>>
      BY <1>5, <2>3 DEF ReplaceExisting, DropRecord
    <3>2. \A j \in Keys \ {k} : dns_records[j] = NULL \/ dns_records[j] # dns_records[k]
      BY <2>1, <2>3 DEF NoDanglingPointer
    <3>3. (TypeOK /\ MutexDiscipline)'
      <4>1. dns_records' \in [Keys -> Cells \cup {NULL}]
        BY <2>1, <3>1 DEF TypeOK
      <4>2. heap' \in [Cells -> Record \cup {NULL}]
        BY <2>1, <3>1 DEF TypeOK
      <4>3. TypeOK'
        BY <2>1, <3>1, <4>1, <4>2 DEF TypeOK
      <4>4. MutexDiscipline'
        BY <2>1, <3>1 DEF TypeOK, MutexDiscipline
      <4>. QED BY <4>3, <4>4
    <3>4. NoDanglingPointer'
      BY <2>1, <3>1, <3>2, Alone, SMTT(30) DEF TypeOK, NoDanglingPointer
    <3>5. (NoLeak /\ Lifecycle)'
      BY <2>1, <3>1, <3>2 DEF TypeOK, NoLeak, Lifecycle
    <3>6. (WriterOK /\ RequestOK)'
      BY <2>1, <3>1 DEF TypeOK, WriterOK, RequestOK
    <3>7. HandOK'
      BY <2>1, <3>1, Alone, ZenonT(40) DEF TypeOK, HandOK
    <3>. QED  BY <3>3, <3>4, <3>5, <3>6, <3>7
  <2>. QED  BY <2>2, <2>3
<1>6. CASE InsertRecord(t)
  <2>. DEFINE k == heap[hand[t]].key
  <2>1. /\ pc[t] = "insert" /\ pc[t] \in Critical
        /\ hand[t] \in Cells /\ heap[hand[t]] \in Record /\ k \in Keys
        /\ heap[hand[t]].values # <<>> /\ ~ Present(k)
        /\ next \in 1 .. Len(adds) /\ Len(adds) \in Nat
    BY <1>6, LenProperties DEF InsertRecord, HandOK, WriterOK, NoDanglingPointer, TypeOK, Record
  <2>2. (TypeOK /\ MutexDiscipline)'
    BY <1>6, <2>1 DEF InsertRecord, NextAdd, TypeOK, MutexDiscipline
  <2>3. (NoDanglingPointer /\ NoLeak /\ Lifecycle)'
    BY <1>6, <2>1 DEF InsertRecord, NextAdd, TypeOK, NoDanglingPointer, NoLeak, Lifecycle
  <2>4. (WriterOK /\ RequestOK)'
    BY <1>6, <2>1, Alone DEF InsertRecord, NextAdd, TypeOK, Lifecycle, WriterOK, RequestOK
  <2>5. HandOK'
    BY <1>6, <2>1, Alone DEF InsertRecord, NextAdd, TypeOK, HandOK
  <2>. QED  BY <2>2, <2>3, <2>4, <2>5
<1>7. CASE LoadUnlock(t)
  <2>1. pc[t] = "load_unlock" /\ pc[t] \in Critical
    BY <1>7 DEF LoadUnlock
  <2>2. [Success EXCEPT !.ok = loaded] \in Outcome
    BY RepliesTyped DEF Outcome, TypeOK
  <2>3. TypeOK'
    BY <1>7, <2>2, ContentsTyped, EmptySeq DEF LoadUnlock, Unlock, TypeOK
  <2>4. (MutexDiscipline /\ NoDanglingPointer /\ NoLeak /\ Lifecycle)'
    BY <1>7, <2>1 DEF LoadUnlock, Unlock, TypeOK, MutexDiscipline, NoDanglingPointer, NoLeak, Lifecycle
  <2>5. (WriterOK /\ HandOK /\ RequestOK)'
    BY <1>7, <2>1, Alone DEF LoadUnlock, Unlock, TypeOK, Lifecycle, WriterOK, HandOK, RequestOK
  <2>. QED  BY <2>3, <2>4, <2>5
<1>. QED  BY <1>1, <1>2, <1>3, <1>4, <1>5, <1>6, <1>7 DEF Loader

\* The rest of the main thread.
LEMMA MainStep ==
  ASSUME IInv, MainThread, ~ Loader("main")
  PROVE  IInv'
<1>. USE DEF IInv
<1>1. CASE Start \/ LoopTop("main") \/ PollTimeout("main") \/ Join
  BY <1>1 DEF Start, LoopTop, PollTimeout, Join, TypeOK, MutexDiscipline, NoDanglingPointer,
              NoLeak, Lifecycle, WriterOK, HandOK, RequestOK
<1>2. CASE QueryLock \/ CleanupLock
  <2>1. keys' \in Seq(Keys)
    BY <1>2, StoreAssumption DEF QueryLock, CleanupLock, TypeOK, RequestOK
  <2>2. (TypeOK /\ MutexDiscipline)'
    BY <1>2, <2>1 DEF QueryLock, CleanupLock, Lock, TypeOK, MutexDiscipline
  <2>3. (NoDanglingPointer /\ NoLeak /\ Lifecycle)'
    BY <1>2 DEF QueryLock, CleanupLock, Lock, TypeOK, NoDanglingPointer, NoLeak, Lifecycle
  <2>4. (WriterOK /\ HandOK /\ RequestOK)'
    BY <1>2 DEF QueryLock, CleanupLock, Lock, TypeOK, WriterOK, HandOK, RequestOK
  <2>. QED  BY <2>2, <2>3, <2>4
<1>3. CASE ResolveRecord
  <2>1. /\ pc["main"] = "lookup" /\ pc["main"] \in Critical
        /\ query \in Queries /\ keys \in Seq(Keys) /\ Len(keys) \in Nat
    BY <1>3, LenProperties DEF ResolveRecord, RequestOK, TypeOK
  <2>2. CASE /\ pos > Len(keys)
             /\ response' = [rcode |-> "NXDOMAIN", count |-> 0, answers |-> <<>>]
             /\ Goto("main", "lookup", "send_locked")
             /\ UNCHANGED <<hand, pos>>
    <3>1. response' \in Response
      BY <2>2, EmptySeq DEF Response
    <3>2. (TypeOK /\ MutexDiscipline)'
      BY <1>3, <2>2, <3>1 DEF ResolveRecord, TypeOK, MutexDiscipline
    <3>3. (NoDanglingPointer /\ NoLeak /\ Lifecycle)'
      BY <1>3, <2>2, SMTT(30) DEF ResolveRecord, TypeOK, NoDanglingPointer, NoLeak, Lifecycle
    <3>4. (WriterOK /\ HandOK /\ RequestOK)'
      BY <1>3, <2>2 DEF ResolveRecord, TypeOK, WriterOK, HandOK, RequestOK
    <3>. QED  BY <3>2, <3>3, <3>4
  <2>3. CASE pos <= Len(keys)
    <3>. DEFINE k == keys[pos]
                cell == dns_records[k]
    <3>1. k \in Keys
      BY <2>1, <2>3, ElementOfSeq DEF TypeOK
    <3>2. CASE /\ cell # NULL
               /\ hand' = [hand EXCEPT !["main"] = cell]
               /\ response' = [rcode   |-> "NOERROR",
                               count   |-> Len(heap[cell].values),
                               answers |-> <<>>]
               /\ pos' = 1
               /\ Goto("main", "lookup", "copy")
      <4>1. cell \in Cells /\ heap[cell] \in Record
        BY <3>1, <3>2 DEF TypeOK, NoDanglingPointer
      <4>2. response' \in Response
        BY <3>2, <4>1, LenProperties, EmptySeq DEF Response, Record
      <4>3. TypeOK'
        BY <1>3, <3>2, <4>1, <4>2 DEF ResolveRecord, TypeOK
      <4>4. (MutexDiscipline /\ NoDanglingPointer /\ NoLeak /\ Lifecycle)'
        BY <1>3, <3>1, <3>2, <4>1, SMTT(30) DEF ResolveRecord, TypeOK, MutexDiscipline, NoDanglingPointer,
                                      NoLeak, Lifecycle
      <4>5. WriterOK' /\ RequestOK'
        BY <1>3, <2>1, <3>2, <4>2 DEF ResolveRecord, TypeOK, WriterOK, RequestOK
      <4>6. HandOK'
        BY <1>3, <2>1, <3>1, <3>2, <4>1 DEF ResolveRecord, TypeOK, HandOK
      <4>. QED  BY <4>3, <4>4, <4>5, <4>6
    <3>3. CASE /\ pos' = pos + 1
               /\ UNCHANGED <<pc, hand, response>>
      BY <1>3, <3>3 DEF ResolveRecord, TypeOK, MutexDiscipline, NoDanglingPointer,
                        NoLeak, Lifecycle, WriterOK, HandOK, RequestOK
    <3>. QED  BY <1>3, <2>1, <2>3, <3>2, <3>3 DEF ResolveRecord, TypeOK
  <2>. QED  BY <1>3, <2>2, <2>3 DEF ResolveRecord
<1>4. CASE EncodeAnswer
  <2>1. /\ pc["main"] = "copy" /\ hand["main"] \in Cells /\ heap[hand["main"]] \in Record
        /\ response \in Response /\ query \in Queries
    BY <1>4 DEF EncodeAnswer, HandOK, RequestOK, NoDanglingPointer, TypeOK
  <2>2. CASE query \in Unsupported
    <3>1. /\ response' \in Response
          /\ hand' = [hand EXCEPT !["main"] = NULL]
          /\ pc' = [pc EXCEPT !["main"] = "send_locked"]
          /\ UNCHANGED <<storeVars, writerVars, mgmtVars, query, keys, running, pos>>
      <4>1. [rcode |-> "NOTIMP", count |-> 0, answers |-> <<>>] \in Response
        BY EmptySeq DEF Response
      <4>. QED  BY <1>4, <2>2, <4>1 DEF EncodeAnswer
    <3>2. (TypeOK /\ MutexDiscipline /\ NoDanglingPointer)'
      BY <2>1, <3>1 DEF TypeOK, MutexDiscipline, NoDanglingPointer
    <3>3. (NoLeak /\ Lifecycle)'
      BY <2>1, <3>1 DEF TypeOK, NoLeak, Lifecycle
    <3>4. (WriterOK /\ HandOK /\ RequestOK)'
      BY <2>1, <3>1 DEF TypeOK, WriterOK, HandOK, RequestOK
    <3>. QED  BY <3>2, <3>3, <3>4
  <2>3. CASE query \notin Unsupported
    <3>1. heap[hand["main"]].values[pos] \in Values
      <4>1. heap[hand["main"]].values \in Seq(Values)
        BY <2>1 DEF Record
      <4>2. pos \in 1 .. Len(heap[hand["main"]].values)
        BY <1>4, <4>1, LenProperties DEF EncodeAnswer, TypeOK
      <4>. QED  BY <4>1, <4>2, ElementOfSeq
    <3>2. \A v \in Values : [response EXCEPT !.answers = Append(@, v)] \in Response
      BY <2>1, AppendProperties DEF Response
    <3>3. /\ response' \in Response
          /\ pos' = pos + 1
          /\ UNCHANGED <<storeVars, writerVars, mgmtVars, query, keys, running, pc, hand>>
      BY <1>4, <2>1, <2>3, <3>1, <3>2 DEF EncodeAnswer
    <3>. QED
      BY <2>1, <3>3 DEF TypeOK, MutexDiscipline, NoDanglingPointer, NoLeak, Lifecycle,
                        WriterOK, HandOK, RequestOK
  <2>. QED  BY <2>2, <2>3
<1>5. CASE FinishAnswers
  <2>1. /\ pc["main"] = "copy" /\ pc["main"] \in Critical
        /\ pc' = [pc EXCEPT !["main"] = "send"]
        /\ mutex' = NULL /\ hand' = [hand EXCEPT !["main"] = NULL]
        /\ published' = Contents
        /\ UNCHANGED <<dns_records, heap, writerVars, mgmtVars, queryVars, running>>
    BY <1>5 DEF FinishAnswers, Unlock
  <2>2. TypeOK'
    BY <2>1, ContentsTyped DEF TypeOK
  <2>3. (MutexDiscipline /\ NoDanglingPointer)'
    BY <2>1 DEF TypeOK, MutexDiscipline, NoDanglingPointer
  <2>4. (NoLeak /\ Lifecycle)'
    BY <2>1, SMTT(30) DEF TypeOK, NoLeak, Lifecycle
  <2>5. (WriterOK /\ HandOK /\ RequestOK)'
    BY <2>1 DEF TypeOK, WriterOK, HandOK, RequestOK
  <2>. QED  BY <2>2, <2>3, <2>4, <2>5
<1>6. CASE Send
  <2>1. TypeOK' /\ MutexDiscipline' /\ NoDanglingPointer' /\ Lifecycle'
    BY <1>6 DEF Send, TypeOK, MutexDiscipline, NoDanglingPointer, Lifecycle
  <2>2. (NoLeak /\ WriterOK /\ HandOK /\ RequestOK)'
    BY <1>6 DEF Send, TypeOK, NoLeak, WriterOK, HandOK, RequestOK
  <2>. QED  BY <2>1, <2>2
<1>7. CASE QueryUnlock
  BY <1>7, ContentsTyped DEF QueryUnlock, Unlock, TypeOK, MutexDiscipline, NoDanglingPointer,
        NoLeak, Lifecycle, WriterOK, HandOK, RequestOK
<1>8. CASE CleanupUnlock
  BY <1>8, ContentsTyped DEF CleanupUnlock, TypeOK, MutexDiscipline, NoDanglingPointer,
        NoLeak, Lifecycle, WriterOK, HandOK, RequestOK
<1>9. ASSUME NEW k \in Keys, CleanupRecord(k)
      PROVE  IInv'
  BY <1>9, Alone DEF CleanupRecord, DropRecord, TypeOK, MutexDiscipline, NoDanglingPointer,
        NoLeak, Lifecycle, WriterOK, HandOK, RequestOK
<1>. QED  BY <1>1, <1>2, <1>3, <1>4, <1>5, <1>6, <1>7, <1>8, <1>9 DEF MainThread

\* The rest of the management thread.
LEMMA MgmtStep ==
  ASSUME IInv, MgmtThread, ~ Loader("mgmt")
  PROVE  IInv'
<1>. USE DEF IInv
<1>1. CASE Listen \/ LoopTop("mgmt") \/ Reply
  BY <1>1 DEF Listen, LoopTop, Reply, TypeOK, MutexDiscipline, NoDanglingPointer,
              NoLeak, Lifecycle, WriterOK, HandOK, RequestOK
<1>2. CASE AddPrepare
  <2>1. TypeOK'
    <3>1. [key |-> command.key, values |-> command.values] \in AddRequest
      BY <1>2 DEF AddPrepare, RequestOK, AddCommand, AddRequest
    <3>2. <<[key |-> command.key, values |-> command.values]>> \in Seq(AddRequest)
      BY <3>1
    <3>3. adds' \in Seq(AddRequest)
      BY <1>2, <3>2 DEF AddPrepare, TypeOK
    <3>4. next' \in Nat
      BY <1>2 DEF AddPrepare, TypeOK
    <3>5. outcome' \in Outcome \cup {NULL}
      BY <1>2, RepliesTyped DEF AddPrepare, TypeOK
    <3>. QED  BY <1>2, <3>3, <3>4, <3>5 DEF AddPrepare, TypeOK
  <2>2. (MutexDiscipline /\ NoDanglingPointer /\ NoLeak /\ Lifecycle)'
    BY <1>2 DEF AddPrepare, TypeOK, MutexDiscipline, NoDanglingPointer, NoLeak, Lifecycle
  <2>3. (WriterOK /\ HandOK /\ RequestOK)'
    BY <1>2 DEF AddPrepare, TypeOK, Lifecycle, WriterOK, HandOK, RequestOK
  <2>. QED  BY <2>1, <2>2, <2>3
<1>3. CASE AddLock \/ DeleteLock \/ ListLock \/ ClearLock
  <2>1. (TypeOK /\ MutexDiscipline)'
    BY <1>3 DEF AddLock, DeleteLock, ListLock, ClearLock, Lock, TypeOK, MutexDiscipline
  <2>2. (NoDanglingPointer /\ NoLeak /\ Lifecycle)'
    BY <1>3 DEF AddLock, DeleteLock, ListLock, ClearLock, Lock, TypeOK, NoDanglingPointer, NoLeak, Lifecycle
  <2>3. (WriterOK /\ RequestOK)'
    <3>1. CASE AddLock
      <4>1. /\ pc["mgmt"] = "add_lock"
            /\ pc' = [pc EXCEPT !["mgmt"] = "create"]
            /\ UNCHANGED <<writerVars, command, query, response>>
        BY <3>1 DEF AddLock
      <4>2. next = 1 /\ Len(adds) = 1
        BY <4>1 DEF WriterOK
      <4>3. WriterOK'
        BY <4>1, <4>2 DEF TypeOK, WriterOK
      <4>. QED  BY <4>1, <4>3 DEF TypeOK, RequestOK
    <3>2. CASE DeleteLock
      BY <3>2 DEF DeleteLock, Lock, TypeOK, WriterOK, RequestOK
    <3>3. CASE ListLock \/ ClearLock
      BY <3>3 DEF ListLock, ClearLock, Lock, TypeOK, WriterOK, RequestOK
    <3>. QED  BY <1>3, <3>1, <3>2, <3>3
  <2>4. HandOK'
    <3>1. pc' = [pc EXCEPT !["mgmt"] = pc'["mgmt"]]
          /\ {pc["mgmt"], pc'["mgmt"]} \cap (Building \cup {"copy"}) = {}
          /\ UNCHANGED <<hand, heap, dns_records>>
      BY <1>3 DEF AddLock, DeleteLock, ListLock, ClearLock, Lock, TypeOK
    <3>. QED  BY <3>1, ZenonT(40) DEF TypeOK, HandOK
  <2>. QED  BY <2>1, <2>2, <2>3, <2>4
<1>4. CASE AddUnlock \/ DeleteUnlock \/ ClearUnlock
  <2>1. TypeOK'
    <3>1. adds' \in Seq(AddRequest) /\ next' \in Nat
      <4>1. (adds' = <<>> /\ next' = 1) \/ UNCHANGED <<adds, next>>
        BY <1>4 DEF AddUnlock, DeleteUnlock, ClearUnlock
      <4>2. <<>> \in Seq(AddRequest)
        BY EmptySeq
      <4>3. CASE adds' = <<>> /\ next' = 1
        BY <4>2, <4>3
      <4>4. CASE UNCHANGED <<adds, next>>
        BY <4>4 DEF TypeOK
      <4>. QED  BY <4>1, <4>3, <4>4
    <3>2. outcome' \in Outcome \cup {NULL}
      BY <1>4, RepliesTyped DEF AddUnlock, DeleteUnlock, ClearUnlock, TypeOK
    <3>3. pc' \in [Threads -> MainLabels \cup MgmtLabels]
      BY <1>4 DEF AddUnlock, DeleteUnlock, ClearUnlock, TypeOK
    <3>. QED
      BY <1>4, <3>1, <3>2, <3>3, ContentsTyped DEF AddUnlock, DeleteUnlock, ClearUnlock, Unlock, TypeOK
  <2>2. (MutexDiscipline /\ NoDanglingPointer /\ NoLeak /\ Lifecycle)'
    BY <1>4 DEF AddUnlock, DeleteUnlock, ClearUnlock, Unlock, TypeOK, MutexDiscipline,
                NoDanglingPointer, NoLeak, Lifecycle
  <2>3. (WriterOK /\ HandOK /\ RequestOK)'
    BY <1>4 DEF AddUnlock, DeleteUnlock, ClearUnlock, Unlock, TypeOK, Lifecycle, WriterOK, HandOK, RequestOK
  <2>. QED  BY <2>1, <2>2, <2>3
<1>5. CASE DeleteRecord
  <2>1. /\ pc["mgmt"] = "delete" /\ pc["mgmt"] \in Critical /\ command.key \in Keys
        /\ pc' = [pc EXCEPT !["mgmt"] = "delete_unlock"]
        /\ outcome' \in Outcome
        /\ UNCHANGED <<mutex, published, writerVars, command, listing, queryVars, running, hand>>
    BY <1>5, RepliesTyped DEF DeleteRecord, RequestOK, DeleteCommand
  <2>2. CASE UNCHANGED <<dns_records, heap>>
    BY <2>1, <2>2 DEF TypeOK, MutexDiscipline, NoDanglingPointer, NoLeak, Lifecycle,
                      WriterOK, HandOK, RequestOK
  <2>3. CASE Present(command.key) /\ DropRecord(command.key)
    <3>1. TypeOK'
      BY <2>1, <2>3 DEF DropRecord, TypeOK
    <3>2. NoDanglingPointer'
      <4>1. \A j \in Keys \ {command.key} :
              dns_records[j] = NULL \/ dns_records[j] # dns_records[command.key]
        BY <2>1, <2>3 DEF NoDanglingPointer
      <4>2. hand["main"] = NULL /\ hand["mgmt"] = NULL
        BY <2>1, Alone DEF HandOK
      <4>. QED  BY <2>1, <2>3, <4>1, <4>2 DEF DropRecord, TypeOK, NoDanglingPointer
    <3>3. NoLeak'
      BY <2>1, <2>3 DEF DropRecord, TypeOK, NoLeak
    <3>5. (MutexDiscipline /\ Lifecycle)'
      BY <2>1, <2>3 DEF DropRecord, TypeOK, MutexDiscipline, Lifecycle
    <3>4. (WriterOK /\ HandOK /\ RequestOK)'
      BY <2>1, <2>3, Alone DEF DropRecord, TypeOK, WriterOK, HandOK, RequestOK
    <3>. QED  BY <3>1, <3>2, <3>3, <3>4, <3>5
  <2>. QED  BY <1>5, <2>2, <2>3 DEF DeleteRecord
<1>6. CASE ListUnlock
  <2>1. TypeOK'
    <3>1. [ok |-> TRUE, listing |-> listing] \in Outcome
      BY DEF TypeOK, Outcome
    <3>. QED  BY <1>6, <3>1, ContentsTyped, RepliesTyped DEF ListUnlock, Unlock, TypeOK
  <2>2. (MutexDiscipline /\ NoDanglingPointer /\ NoLeak /\ Lifecycle)'
    BY <1>6 DEF ListUnlock, Unlock, TypeOK, MutexDiscipline, NoDanglingPointer, NoLeak, Lifecycle
  <2>3. (WriterOK /\ HandOK /\ RequestOK)'
    BY <1>6 DEF ListUnlock, Unlock, TypeOK, WriterOK, HandOK, RequestOK
  <2>. QED  BY <2>1, <2>2, <2>3
<1>7. ASSUME NEW k \in Keys, ListRecord(k) \/ ClearRecord(k)
      PROVE  IInv'
  <2>1. CASE ListRecord(k)
    BY <1>7, <2>1, SMTT(30) DEF ListRecord, Store, Record, TypeOK, MutexDiscipline, NoDanglingPointer,
          NoLeak, Lifecycle, WriterOK, HandOK, RequestOK
  <2>2. CASE ClearRecord(k)
    BY <1>7, <2>2, Alone DEF ClearRecord, DropRecord, TypeOK, MutexDiscipline, NoDanglingPointer,
          NoLeak, Lifecycle, WriterOK, HandOK, RequestOK
  <2>. QED  BY <1>7, <2>1, <2>2
<1>. QED  BY <1>1, <1>2, <1>3, <1>4, <1>5, <1>6, <1>7 DEF MgmtThread

\* Arrivals of queries, commands and signals.
LEMMA EnvironmentStep ==
  ASSUME IInv, Environment
  PROVE  IInv'
<1>. USE DEF IInv
<1>1. CASE PollTimeout("mgmt")
  BY <1>1 DEF PollTimeout, TypeOK, MutexDiscipline, NoDanglingPointer,
              NoLeak, Lifecycle, WriterOK, HandOK, RequestOK
<1>2. ASSUME NEW q \in Queries, ReceiveQuery(q)
      PROVE  IInv'
  BY <1>2 DEF ReceiveQuery, TypeOK, MutexDiscipline, NoDanglingPointer,
              NoLeak, Lifecycle, WriterOK, HandOK, RequestOK
<1>3. ASSUME NEW k \in Keys, NEW v \in {<<>>} \cup {<<w>> : w \in Values},
             ReceiveCommand([op |-> "ADD", key |-> k, values |-> v])
      PROVE  IInv'
  <2>. DEFINE c == [op |-> "ADD", key |-> k, values |-> v]
  <2>1. c \in AddCommand /\ c \in Command /\ c.op = "ADD"
    <3>1. v \in Seq(Values)
      <4>1. CASE v = <<>>
        BY <4>1, EmptySeq
      <4>2. CASE \E w \in Values : v = <<w>>
        BY <4>2
      <4>. QED  BY <1>3, <4>1, <4>2
    <3>. QED  BY <3>1 DEF AddCommand, Command
  <2>2. command' = c /\ pc["mgmt"] = "poll" /\ pc' = [pc EXCEPT !["mgmt"] = "add_prepare"]
    BY <1>3, <2>1 DEF ReceiveCommand
  <2>. QED
    BY <1>3, <2>1, <2>2 DEF ReceiveCommand, TypeOK, MutexDiscipline, NoDanglingPointer,
              NoLeak, Lifecycle, WriterOK, HandOK, RequestOK
<1>4. ASSUME NEW k \in Keys, ReceiveCommand([op |-> "DELETE", key |-> k])
      PROVE  IInv'
  <2>1. [op |-> "DELETE", key |-> k] \in DeleteCommand
    BY <1>4 DEF DeleteCommand
  <2>. QED
    BY <1>4, <2>1 DEF ReceiveCommand, Command, TypeOK, MutexDiscipline, NoDanglingPointer,
              NoLeak, Lifecycle, WriterOK, HandOK, RequestOK
<1>5. ASSUME NEW o \in {"LIST", "RELOAD"}, ReceiveCommand([op |-> o])
      PROVE  IInv'
  <2>1. [op |-> o] \in Command
    BY <1>5 DEF Command
  <2>. QED
    BY <1>5, <2>1 DEF ReceiveCommand, TypeOK, MutexDiscipline, NoDanglingPointer,
              NoLeak, Lifecycle, WriterOK, HandOK, RequestOK
<1>6. CASE Signal
  <2>1. TypeOK'
    <3>1. running' \in BOOLEAN
      BY <1>6 DEF Signal
    <3>. QED  BY <1>6, <3>1 DEF Signal, TypeOK
  <2>2. (MutexDiscipline /\ NoDanglingPointer /\ NoLeak /\ Lifecycle)'
    BY <1>6 DEF Signal, MutexDiscipline, NoDanglingPointer, NoLeak, Lifecycle
  <2>3. (WriterOK /\ HandOK /\ RequestOK)'
    BY <1>6 DEF Signal, WriterOK, HandOK, RequestOK
  <2>. QED  BY <2>1, <2>2, <2>3
<1>. QED  BY <1>1, <1>2, <1>3, <1>4, <1>5, <1>6 DEF Environment

LEMMA StutterStep ==
  ASSUME IInv, UNCHANGED vars
  PROVE  IInv'
BY DEF IInv, TypeOK, MutexDiscipline, NoDanglingPointer, NoLeak, Lifecycle,
       WriterOK, HandOK, RequestOK, Contents

-----------------------------------------------------------------------------
\* IInv holds in every reachable state.
THEOREM Invariance == Spec => []IInv
<1>1. IInv /\ [Next]_vars => IInv'
  BY LoaderStep, MainStep, MgmtStep, EnvironmentStep, StutterStep DEF Next, Exited, MainThread, MgmtThread
<1>. QED  BY <1>1, InitIInv, PTL DEF Spec

\* Every variable keeps its type, whatever the table, the heap and the files.
THEOREM TypeCorrect == Spec => []TypeOK
BY Invariance, PTL DEF IInv

\* pthread_mutex_lock and pthread_mutex_unlock are paired on every path of
\* every handler, and never are both threads between them.
THEOREM MutexCorrect == Spec => []MutexDiscipline
BY Invariance, PTL DEF IInv

\* No thread ever reads or frees a DNSRecord the other one has freed.
THEOREM PointersValid == Spec => []NoDanglingPointer
BY Invariance, PTL DEF IInv

\* Every allocated DNSRecord stays reachable, and none outlives the cleanup.
THEOREM NothingLeaks == Spec => []NoLeak
BY Invariance, PTL DEF IInv

\* The record an answer is copied from does not change under the copy.
THEOREM AnswersFromFrozenTable == Spec => FrozenWhileAnswering
<1>1. ASSUME IInv, [Next]_vars, pc["main"] \in {"lookup", "copy"}
      PROVE  UNCHANGED <<dns_records, heap>>
  <2>1. pc["mgmt"] \notin Critical
    BY <1>1, Alone
  <2>2. CASE \E t \in Threads : Loader(t)
    BY <1>1, <2>1, <2>2 DEF Loader, ReadFile, LoadLock, Lock, CreateRecord, ParseValues,
       ReplaceExisting, InsertRecord, LoadUnlock
  <2>3. CASE MainThread
    BY <1>1, <2>2, <2>3 DEF MainThread, Start, LoopTop, PollTimeout, QueryLock, Lock, ResolveRecord,
       EncodeAnswer, FinishAnswers, Unlock, Send, QueryUnlock, Join, CleanupLock,
       CleanupRecord, CleanupUnlock
  <2>4. CASE MgmtThread
    BY <1>1, <2>1, <2>2, <2>4 DEF MgmtThread, Listen, LoopTop, AddPrepare, AddLock, Lock,
       AddUnlock, DeleteLock, DeleteRecord, DeleteUnlock, ListLock, ListRecord, ListUnlock,
       ClearLock, ClearRecord, ClearUnlock, Unlock, Reply
  <2>5. CASE Environment
    BY <2>5 DEF Environment, PollTimeout, ReceiveQuery, ReceiveCommand, Signal
  <2>. QED  BY <1>1, <2>3, <2>4, <2>5 DEF Next, Exited
<1>2. IInv /\ [Next]_vars
        => [pc["main"] \in {"lookup", "copy"} => UNCHANGED <<dns_records, heap>>]_vars
  BY <1>1
<1>. QED  BY <1>2, Invariance, PTL DEF Spec, FrozenWhileAnswering

(***************************************************************************)
(* RecordStore implements AtomicStore for every table, heap and mappings   *)
(* file, when no allocation fails.                                         *)
(*                                                                         *)
(* A query or a command takes effect at an unlock, so at each unlock the   *)
(* table must hold what the abstract step computes from the table of the   *)
(* last unlock.  RInv says so of the states in between: a load has laid    *)
(* the adds made so far over the published table (WriteOK), which came     *)
(* from a file or from the command (BatchOK); a reader finds the table as  *)
(* it was published (PublishedCurrent), and has passed over absent keys,   *)
(* or copied the encodable ones of the first values (QueryOK).             *)
(***************************************************************************)

\* Where the table may differ from what was last published.
Altering == Writing \cup {"load_unlock", "add_unlock", "clear", "delete_unlock", "cleanup"}

PublishedCurrent == (\A t \in Threads : pc[t] \notin Altering) => published = Contents

\* Entry i of the batch stores something under k.
Stores(i, k) == adds[i].key = k /\ adds[i].values # <<>>

\* Key k holds what the first n entries make of it.
Overlaid(k, n) ==
  \/ /\ \A i \in 1 .. n : ~ Stores(i, k)
     /\ Contents[k] = published[k]
  \/ \E i \in 1 .. n :
       /\ Stores(i, k)
       /\ \A j \in 1 .. n : Stores(j, k) => j <= i
       /\ Contents[k] = adds[i].values

WriteOK == \A t \in Threads :
  /\ pc[t] \in {"create", "parse_values", "replace"} => \A k \in Keys : Overlaid(k, next - 1)
  /\ pc[t] = "insert" => \A k \in Keys \ {adds[next].key} : Overlaid(k, next - 1)
  /\ pc[t] \in {"load_unlock", "add_unlock"} => \A k \in Keys : Overlaid(k, Len(adds))
  /\ pc[t] \in Building => heap[hand[t]].key = adds[next].key
  /\ pc[t] \in {"replace", "insert"} => heap[hand[t]].values = adds[next].values

\* The batch is that of an ADD command, or of a file.
Adding(t) == t = "mgmt" /\ command.op = "ADD"

BatchOK ==
  /\ \A t \in Threads :
       pc[t] \in Writing \cup {"load_lock", "load_unlock"} /\ ~ Adding(t) =>
         \E f \in Files : /\ FileOutcome[f] # "unreadable"
                          /\ adds = FileAdds[f]
                          /\ loaded = (FileOutcome[f] = "loaded")
  /\ pc["mgmt"] \in Writing \cup {"add_lock", "add_unlock"} /\ command.op = "ADD" =>
       /\ adds = <<[key |-> command.key, values |-> command.values]>>
       /\ command.values # <<>>

\* Where each command is handled, and that main serves with a management thread.
CommandOK ==
  /\ command = NULL <=> pc["mgmt"] \in {"unborn", "listen", "top", "poll", "done"}
  /\ pc["mgmt"] \in {"add_prepare", "add_lock", "add_unlock"} => command \in AddCommand
  /\ pc["mgmt"] \in Writing =>
       command \in AddCommand \/ command = [op |-> "RELOAD"]
  /\ pc["mgmt"] \in {"delete_lock", "delete", "delete_unlock"} => command \in DeleteCommand
  /\ pc["mgmt"] \in {"list_lock", "list"} => command = [op |-> "LIST"]
  /\ pc["mgmt"] \in {"clear_lock", "clear", "open", "load_lock", "load_unlock"} =>
       command = [op |-> "RELOAD"]
  /\ pc["mgmt"] = "reply" => outcome \in Outcome
  /\ pc["mgmt"] = "unborn" =>
       pc["main"] \in Writing \cup {"open", "load_lock", "load_unlock", "start",
                                    "cleanup_lock", "cleanup", "exited"}
  /\ pc["main"] = "add_unlock" => FALSE

DeleteOK ==
  pc["mgmt"] = "delete_unlock" =>
    /\ outcome = IF published[command.key] = <<>> THEN Failure ELSE Success
    /\ Contents = [published EXCEPT ![command.key] = <<>>]

ListOK ==
  /\ pc["mgmt"] # "list" => listing = EmptyStore
  /\ pc["mgmt"] = "list" => \A k \in Keys : listing[k] \in {<<>>, Contents[k]}

\* What main knows of the query it answers; hits are told by Contents.
QueryOK ==
  /\ query = NULL <=> pc["main"] \notin {"query_lock", "lookup", "copy", "send", "send_locked"}
  /\ pc["main"] \in {"send", "send_locked"} => response \in Response
  /\ pc["main"] \in {"lookup", "copy"} => keys \in Lookups[query]
  /\ pc["main"] = "lookup" => \A i \in DOMAIN keys : i < pos => Contents[keys[i]] = <<>>
  /\ pc["main"] = "copy" =>
       LET values == heap[hand["main"]].values IN
       /\ \E i \in DOMAIN keys :
            /\ dns_records[keys[i]] = hand["main"]
            /\ \A j \in DOMAIN keys : j < i => Contents[keys[j]] = <<>>
       /\ response.rcode = "NOERROR" /\ response.count = Len(values)
       /\ pos - 1 <= Len(values)
       /\ Atomic!EncodableAmong(response.answers, values, pos - 1)

RInv ==
  /\ PublishedCurrent
  /\ WriteOK
  /\ BatchOK
  /\ CommandOK
  /\ DeleteOK
  /\ ListOK
  /\ QueryOK
  /\ AddSuccessStored

-----------------------------------------------------------------------------
USE NullAssumption
USE DEF Threads, SharedLabels, MainLabels, MgmtLabels, Critical, Building, Writing, Altering,
        Goto, Present, storeVars, writerVars, mgmtVars, queryVars, vars

\* What the steps of a load, ADD or removal make of the table's contents.
LEMMA ContentsUntouched ==
  ASSUME IInv, UNCHANGED dns_records,
         \A k \in Keys : Present(k) => heap'[dns_records[k]] = heap[dns_records[k]]
  PROVE  Contents' = Contents
  BY DEF Contents

LEMMA ContentsDropped ==
  ASSUME IInv, NEW k \in Keys, Present(k), DropRecord(k)
  PROVE  /\ Contents' = [Contents EXCEPT ![k] = <<>>]
         /\ Contents'[k] = <<>>
         /\ \A j \in Keys \ {k} : Contents'[j] = Contents[j]
<1>1. \A j \in Keys \ {k} : dns_records[j] = NULL \/ dns_records[j] # dns_records[k]
  BY DEF IInv, NoDanglingPointer
<1>2. dns_records \in [Keys -> Cells \cup {NULL}] /\ heap \in [Cells -> Record \cup {NULL}]
  BY DEF IInv, TypeOK
<1>3. /\ dns_records' = [dns_records EXCEPT ![k] = NULL]
      /\ heap' = [heap EXCEPT ![dns_records[k]] = NULL]
  BY DEF DropRecord
<1>4. \A j \in Keys \ {k} : Contents'[j] = Contents[j]
  BY <1>1, <1>2, <1>3 DEF Contents
<1>5. Contents'[k] = <<>>
  BY <1>2, <1>3 DEF Contents
<1>. QED  BY <1>4, <1>5 DEF Contents

LEMMA ContentsInserted ==
  ASSUME IInv, NEW t \in Threads, InsertRecord(t)
  PROVE  /\ heap[hand[t]].key \in Keys
         /\ Contents'[heap[hand[t]].key] = heap[hand[t]].values
         /\ \A j \in Keys \ {heap[hand[t]].key} : Contents'[j] = Contents[j]
<1>1. /\ hand[t] \in Cells /\ heap[hand[t]] \in Record
      /\ dns_records \in [Keys -> Cells \cup {NULL}]
      /\ dns_records' = [dns_records EXCEPT ![heap[hand[t]].key] = hand[t]]
      /\ UNCHANGED heap
  BY DEF InsertRecord, IInv, HandOK, NoDanglingPointer, TypeOK
<1>2. heap[hand[t]].key \in Keys
  BY <1>1 DEF Record
<1>. QED  BY <1>1, <1>2 DEF Contents

LEMMA ContentsReplaced ==
  ASSUME IInv, NEW t \in Threads, ReplaceExisting(t)
  PROVE  /\ heap[hand[t]].key \in Keys
         /\ heap'[hand[t]] = heap[hand[t]]
         /\ \A j \in Keys \ {heap[hand[t]].key} : Contents'[j] = Contents[j]
<1>1. /\ hand[t] \in Cells /\ heap[hand[t]] \in Record
      /\ \A j \in Keys : dns_records[j] # hand[t]
  BY DEF ReplaceExisting, IInv, HandOK, NoDanglingPointer, TypeOK
<1>2. heap[hand[t]].key \in Keys
  BY <1>1 DEF Record
<1>3. CASE Present(heap[hand[t]].key)
  <2>1. DropRecord(heap[hand[t]].key)
    BY <1>3 DEF ReplaceExisting
  <2>2. heap'[hand[t]] = heap[hand[t]]
    BY <1>1, <1>2, <2>1 DEF DropRecord, IInv, TypeOK
  <2>. QED  BY <1>2, <1>3, <2>1, <2>2, ContentsDropped
<1>4. CASE ~ Present(heap[hand[t]].key)
  BY <1>2, <1>4 DEF ReplaceExisting, Contents
<1>. QED  BY <1>3, <1>4

\* Laying one more entry over the table.
LEMMA OverlaidNext ==
  ASSUME NEW n \in Nat, NEW k \in Keys, adds' = adds, published' = published, Overlaid(k, n),
         \/ ~ Stores(n + 1, k) /\ Contents'[k] = Contents[k]
         \/ Stores(n + 1, k) /\ Contents'[k] = adds[n + 1].values
  PROVE  Overlaid(k, n + 1)'
<1>1. CASE Stores(n + 1, k) /\ Contents'[k] = adds[n + 1].values
  BY <1>1 DEF Overlaid, Stores
<1>2. CASE ~ Stores(n + 1, k) /\ Contents'[k] = Contents[k]
  <2>1. \A i \in 1 .. n + 1 : i \in 1 .. n \/ i = n + 1
    OBVIOUS
  <2>. QED  BY <1>2, <2>1 DEF Overlaid, Stores
<1>. QED  BY <1>1, <1>2

\* No value has been copied when the record has been found.
LEMMA NoneEncoded ==
  ASSUME NEW values
  PROVE  Atomic!EncodableAmong(<<>>, values, 0)
<1>. DEFINE at == [i \in 1 .. 0 |-> 1]
<1>1. Len(<<>>) = 0 /\ at \in [1 .. 0 -> 1 .. 0]
  OBVIOUS
<1>2. \A i \in 1 .. 0 : FALSE
  OBVIOUS
<1>3. \E a \in [1 .. 0 -> 1 .. 0] : a = at
  BY <1>1
<1>. QED  BY <1>1, <1>2, <1>3, Zenon DEF Atomic!EncodableAmong

\* One more value has been looked at.
LEMMA EncodedNext ==
  ASSUME NEW kept \in Seq(Values), NEW values \in Seq(Values), NEW n \in Nat, n + 1 <= Len(values),
         Atomic!EncodableAmong(kept, values, n)
  PROVE  Atomic!EncodableAmong(
           IF values[n + 1] \in Encodable THEN Append(kept, values[n + 1]) ELSE kept, values, n + 1)
<1>1. Len(kept) \in Nat
  BY LenProperties
<1>2. PICK at \in [1 .. Len(kept) -> 1 .. n] :
        /\ \A i, j \in 1 .. Len(kept) : i < j => at[i] < at[j]
        /\ \A m \in 1 .. n : values[m] \in Encodable <=> \E i \in 1 .. Len(kept) : at[i] = m
        /\ \A i \in 1 .. Len(kept) : kept[i] = values[at[i]]
  BY DEF Atomic!EncodableAmong
<1>3. \A m \in 1 .. n + 1 : m \in 1 .. n \/ m = n + 1
  OBVIOUS
<1>4. CASE values[n + 1] \notin Encodable
  <2>1. at \in [1 .. Len(kept) -> 1 .. n + 1]
    BY <1>1, <1>2
  <2>2. \A m \in 1 .. n + 1 : values[m] \in Encodable <=> \E i \in 1 .. Len(kept) : at[i] = m
    BY <1>1, <1>2, <1>3, <1>4
  <2>3. Atomic!EncodableAmong(kept, values, n + 1)
    BY <1>2, <2>1, <2>2 DEF Atomic!EncodableAmong
  <2>. QED  BY <1>4, <2>3
<1>5. CASE values[n + 1] \in Encodable
  <2>1. values[n + 1] \in Values
    BY ElementOfSeq
  <2>2. PICK longer :
          /\ longer = Append(kept, values[n + 1])
          /\ Len(longer) = Len(kept) + 1
          /\ \A i \in 1 .. Len(kept) : longer[i] = kept[i]
          /\ longer[Len(kept) + 1] = values[n + 1]
    <3>1. /\ Len(Append(kept, values[n + 1])) = Len(kept) + 1
          /\ \A i \in 1 .. Len(kept) : Append(kept, values[n + 1])[i] = kept[i]
          /\ Append(kept, values[n + 1])[Len(kept) + 1] = values[n + 1]
      BY <1>1, <2>1, AppendProperties
    <3>. QED  BY <3>1
  <2>3. PICK more \in [1 .. Len(kept) + 1 -> 1 .. n + 1] :
          \A i \in 1 .. Len(kept) + 1 : more[i] = IF i <= Len(kept) THEN at[i] ELSE n + 1
    <3>1. [i \in 1 .. Len(kept) + 1 |-> IF i <= Len(kept) THEN at[i] ELSE n + 1]
            \in [1 .. Len(kept) + 1 -> 1 .. n + 1]
      BY <1>1, <1>2
    <3>. QED  BY <3>1
  <2>4. \A i \in 1 .. Len(longer) : i \in 1 .. Len(kept) \/ i = Len(kept) + 1
    BY <1>1, <2>2
  <2>5. /\ \A i \in 1 .. Len(kept) : more[i] = at[i] /\ at[i] \in 1 .. n
        /\ more[Len(kept) + 1] = n + 1
    <3>1. \A i \in 1 .. Len(kept) : i \in 1 .. Len(kept) + 1 /\ i <= Len(kept)
      BY <1>1
    <3>2. Len(kept) + 1 \in 1 .. Len(kept) + 1 /\ ~ (Len(kept) + 1 <= Len(kept))
      BY <1>1
    <3>. QED  BY <1>2, <2>3, <3>1, <3>2
  <2>6. \A i, j \in 1 .. Len(longer) : i < j => more[i] < more[j]
    BY <1>1, <1>2, <2>2, <2>4, <2>5
  <2>7. \A m \in 1 .. n + 1 : values[m] \in Encodable <=> \E i \in 1 .. Len(longer) : more[i] = m
    <3>1. ASSUME NEW m \in 1 .. n
          PROVE  values[m] \in Encodable <=> \E i \in 1 .. Len(longer) : more[i] = m
      <4>1. \A i \in 1 .. Len(longer) : more[i] = m <=> i \in 1 .. Len(kept) /\ at[i] = m
        BY <1>1, <2>2, <2>4, <2>5
      <4>2. \A i \in 1 .. Len(kept) : i \in 1 .. Len(longer)
        BY <1>1, <2>2
      <4>. QED  BY <1>2, <4>1, <4>2
    <3>2. Len(kept) + 1 \in 1 .. Len(longer)
      BY <1>1, <2>2
    <3>. QED  BY <1>3, <1>5, <2>5, <3>1, <3>2
  <2>8. \A i \in 1 .. Len(longer) : longer[i] = values[more[i]]
    BY <1>2, <2>2, <2>4, <2>5
  <2>9. Atomic!EncodableAmong(longer, values, n + 1)
    BY <2>2, <2>3, <2>6, <2>7, <2>8 DEF Atomic!EncodableAmong
  <2>. QED  BY <1>5, <2>2, <2>9
<1>. QED  BY <1>4, <1>5

\* What may be received is a command.
LEMMA EveryCommand ==
  /\ \A k \in Keys : \A v \in {<<>>} \cup {<<w>> : w \in Values} :
       [op |-> "ADD", key |-> k, values |-> v] \in Command
  /\ \A k \in Keys : [op |-> "DELETE", key |-> k] \in Command
  /\ \A o \in {"LIST", "RELOAD"} : [op |-> o] \in Command
<1>1. \A v \in {<<>>} \cup {<<w>> : w \in Values} : v \in Seq(Values)
  <2>1. \A w \in Values : <<w>> \in Seq(Values)
    OBVIOUS
  <2>. QED  BY <2>1, EmptySeq
<1>2. \A k \in Keys : \A v \in Seq(Values) : [op |-> "ADD", key |-> k, values |-> v] \in Command
  BY DEF Command, AddCommand
<1>3. \A k \in Keys : [op |-> "DELETE", key |-> k] \in Command
  BY DEF Command, DeleteCommand
<1>4. \A o \in {"LIST", "RELOAD"} : [op |-> o] \in Command
  BY DEF Command
<1>. QED  BY <1>1, <1>2, <1>3, <1>4

\* A step that leaves the table and the query alone, and main among the labels
\* of a query or outside them.
LEMMA QueryUntouched ==
  ASSUME QueryOK,
         UNCHANGED <<queryVars, dns_records, heap, hand, Contents>>,
         \/ pc'["main"] = pc["main"]
         \/ {pc["main"], pc'["main"]} \cap
              {"query_lock", "lookup", "copy", "send", "send_locked"} = {}
  PROVE  QueryOK'
<1>1. CASE pc'["main"] = pc["main"]
  BY <1>1 DEF QueryOK, queryVars
<1>2. CASE {pc["main"], pc'["main"]} \cap
             {"query_lock", "lookup", "copy", "send", "send_locked"} = {}
  BY <1>2 DEF QueryOK, queryVars
<1>. QED  BY <1>1, <1>2

\* The load, by either thread.
LEMMA LoaderKeepsRInv ==
  ASSUME ~ AllocMayFail, IInv, RInv, NEW t \in Threads, Loader(t)
  PROVE  RInv'
<1>. USE DEF IInv, RInv
<1>1. CASE ReadFile(t)
  <2>1. UNCHANGED <<dns_records, heap, published, Contents>>
    BY <1>1 DEF ReadFile, Contents
  <2>2. (PublishedCurrent /\ WriteOK)'
    BY <1>1, <2>1 DEF ReadFile, TypeOK, Lifecycle, PublishedCurrent, WriteOK
  <2>3. (BatchOK /\ CommandOK)'
    BY <1>1, <2>1, RepliesTyped DEF ReadFile, TypeOK, Lifecycle, BatchOK, CommandOK, Adding
  <2>4. (DeleteOK /\ ListOK /\ AddSuccessStored)'
    BY <1>1, <2>1 DEF ReadFile, TypeOK, Lifecycle, CommandOK, DeleteOK, ListOK, AddSuccessStored
  <2>5. QueryOK'
    <3>1. pc' = [pc EXCEPT ![t] = pc'[t]] /\ pc[t] = "open"
      BY <1>1 DEF ReadFile, Goto, TypeOK
    <3>2. t = "main" => pc'["main"] \in {"load_lock", "cleanup_lock"}
      BY <1>1 DEF ReadFile, Goto, TypeOK
    <3>3. \/ pc'["main"] = pc["main"]
          \/ {pc["main"], pc'["main"]} \cap
               {"query_lock", "lookup", "copy", "send", "send_locked"} = {}
      BY <3>1, <3>2 DEF TypeOK, Threads
    <3>4. UNCHANGED <<queryVars, hand>>
      BY <1>1 DEF ReadFile
    <3>. QED  BY <2>1, <3>3, <3>4, QueryUntouched
  <2>. QED  BY <2>2, <2>3, <2>4, <2>5
<1>2. CASE LoadLock(t)
  <2>1. UNCHANGED <<dns_records, heap, published, Contents, adds, next, loaded>>
    BY <1>2 DEF LoadLock, Lock, Contents
  <2>2. PublishedCurrent'
    BY <1>2, <2>1 DEF LoadLock, Lock, TypeOK, MutexDiscipline, PublishedCurrent
  <2>3. WriteOK'
    BY <1>2, <2>1 DEF LoadLock, Lock, TypeOK, MutexDiscipline, PublishedCurrent, WriterOK,
       WriteOK, Overlaid
  <2>4. (BatchOK /\ CommandOK)'
    BY <1>2, <2>1 DEF LoadLock, TypeOK, Lifecycle, BatchOK, CommandOK, Adding
  <2>5. (DeleteOK /\ ListOK /\ AddSuccessStored)'
    BY <1>2, <2>1 DEF LoadLock, TypeOK, Lifecycle, CommandOK, DeleteOK, ListOK, AddSuccessStored
  <2>6. QueryOK'
    BY <1>2, <2>1 DEF LoadLock, TypeOK, Lifecycle, QueryOK
  <2>. QED  BY <2>2, <2>3, <2>4, <2>5, <2>6
<1>3. CASE CreateRecord(t)
  <2>1. PICK c \in Cells :
               /\ heap[c] = NULL
               /\ heap' = [heap EXCEPT ![c] = [key |-> adds[next].key, values |-> <<>>]]
               /\ hand' = [hand EXCEPT ![t] = c]
               /\ pc[t] = "create" /\ pc' = [pc EXCEPT ![t] = "parse_values"]
               /\ UNCHANGED <<mutex, dns_records, published, adds, next, loaded, mgmtVars,
                  queryVars>>
    BY <1>3 DEF CreateRecord
  <2>2. UNCHANGED Contents
    <3>1. \A k \in Keys : Present(k) => dns_records[k] \in Cells \ {c}
      BY <2>1 DEF NoDanglingPointer, TypeOK
    <3>. QED  BY <2>1, <3>1, ContentsUntouched DEF TypeOK
  <2>3. \A u \in Threads \ {t} : pc[u] \notin Critical /\ hand[u] = NULL
    BY <2>1, Alone
  <2>4. PublishedCurrent'
    BY <2>1 DEF TypeOK, PublishedCurrent
  <2>5. WriteOK'
    BY <2>1, <2>2, <2>3 DEF TypeOK, WriteOK, Overlaid, Stores
  <2>6. (BatchOK /\ CommandOK)'
    BY <2>1 DEF TypeOK, BatchOK, CommandOK, Adding
  <2>7. (DeleteOK /\ ListOK /\ AddSuccessStored)'
    BY <2>1, <2>2 DEF TypeOK, DeleteOK, ListOK, AddSuccessStored
  <2>8. QueryOK'
    BY <2>1, <2>2, <2>3 DEF TypeOK, QueryOK
  <2>. QED  BY <2>4, <2>5, <2>6, <2>7, <2>8
<1>4. CASE ParseValues(t)
  <2>1. /\ pc[t] = "parse_values" /\ pc[t] \in Critical /\ next \in 1 .. Len(adds)
           /\ Len(adds) \in Nat
        /\ hand[t] \in Cells /\ heap[hand[t]] \in Record
        /\ \A k \in Keys : dns_records[k] # hand[t]
        /\ UNCHANGED <<mutex, dns_records, published, adds, loaded, mgmtVars, queryVars>>
    BY <1>4, LenProperties DEF ParseValues, WriterOK, HandOK, NoDanglingPointer, TypeOK
  <2>2. \A c \in Cells \ {hand[t]} : heap'[c] = heap[c]
    BY <1>4, <2>1 DEF ParseValues, TypeOK
  <2>3. UNCHANGED Contents
    BY <2>1, <2>2, ContentsUntouched DEF TypeOK
  <2>4. \A u \in Threads \ {t} : pc[u] \notin Critical /\ hand[u] = NULL
    BY <2>1, Alone
  <2>5. CASE /\ adds[next].values # <<>>
             /\ heap' = [heap EXCEPT ![hand[t]].values = adds[next].values]
             /\ Goto(t, "parse_values", "replace")
             /\ UNCHANGED <<hand, next>>
    <3>1. PublishedCurrent'
      BY <2>1, <2>5 DEF TypeOK, PublishedCurrent
    <3>2. heap'[hand[t]].key = heap[hand[t]].key /\ heap'[hand[t]].values = adds[next].values
      BY <2>1, <2>5 DEF TypeOK, Record
    <3>3. WriteOK'
      BY <2>1, <2>3, <2>4, <2>5, <3>2 DEF TypeOK, WriteOK, Overlaid, Stores
    <3>4. (BatchOK /\ CommandOK)'
      BY <2>1, <2>5 DEF TypeOK, BatchOK, CommandOK, Adding
    <3>5. (DeleteOK /\ ListOK /\ AddSuccessStored)'
      BY <2>1, <2>3, <2>5 DEF TypeOK, DeleteOK, ListOK, AddSuccessStored
    <3>6. QueryOK'
      BY <2>1, <2>3, <2>4, <2>5 DEF TypeOK, QueryOK
    <3>. QED  BY <3>1, <3>3, <3>4, <3>5, <3>6
  <2>6. CASE /\ adds[next].values = <<>>
             /\ hand' = [hand EXCEPT ![t] = NULL]
             /\ NextAdd(t)
    <3>0. PICK n \in Nat : n + 1 = next
      <4>1. next - 1 \in Nat /\ (next - 1) + 1 = next
        BY <2>1
      <4>. QED  BY <4>1
    <3>1. \A k \in Keys : Overlaid(k, n + 1)'
      <4>1. \A k \in Keys : Overlaid(k, n) /\ ~ Stores(n + 1, k)
        BY <2>1, <2>6, <3>0 DEF WriteOK, Stores
      <4>. QED  BY <2>1, <2>3, <4>1, OverlaidNext
    <3>2. PublishedCurrent'
      BY <2>1, <2>6 DEF NextAdd, TypeOK, PublishedCurrent
    <3>3. WriteOK'
      BY <2>1, <2>4, <2>6, <3>0, <3>1 DEF NextAdd, TypeOK, WriteOK
    <3>4. (BatchOK /\ CommandOK)'
      BY <2>1, <2>6 DEF NextAdd, TypeOK, Lifecycle, BatchOK, CommandOK, Adding, AddCommand
    <3>5. (DeleteOK /\ ListOK /\ AddSuccessStored)'
      BY <2>1, <2>3, <2>6 DEF NextAdd, TypeOK, DeleteOK, ListOK, AddSuccessStored
    <3>6. QueryOK'
      BY <2>1, <2>3, <2>4, <2>6 DEF NextAdd, TypeOK, QueryOK
    <3>. QED  BY <3>2, <3>3, <3>4, <3>5, <3>6
  <2>. QED  BY <1>4, <2>5, <2>6 DEF ParseValues
<1>5. CASE ReplaceExisting(t)
  <2>1. /\ pc[t] = "replace" /\ pc[t] \in Critical /\ pc' = [pc EXCEPT ![t] = "insert"]
        /\ UNCHANGED <<mutex, published, writerVars, mgmtVars, queryVars, hand>>
    BY <1>5 DEF ReplaceExisting
  <2>2. \A u \in Threads \ {t} : pc[u] \notin Critical /\ hand[u] = NULL
    BY <2>1, Alone
  <2>3. PublishedCurrent'
    BY <2>1 DEF TypeOK, PublishedCurrent
  <2>4. WriteOK'
    <3>1. /\ heap[hand[t]].key = adds[next].key /\ heap[hand[t]].values = adds[next].values
          /\ \A k \in Keys : Overlaid(k, next - 1)
      BY <2>1 DEF WriteOK
    <3>2. \A k \in Keys \ {adds[next].key} : Overlaid(k, next - 1)'
      BY <1>5, <2>1, <3>1, ContentsReplaced DEF Overlaid, Stores
    <3>3. heap'[hand'[t]].key = adds'[next'].key /\ heap'[hand'[t]].values = adds'[next'].values
      BY <1>5, <2>1, <3>1, ContentsReplaced
    <3>. QED  BY <2>1, <2>2, <3>2, <3>3 DEF TypeOK, WriteOK
  <2>5. (BatchOK /\ CommandOK)'
    BY <2>1 DEF TypeOK, BatchOK, CommandOK, Adding
  <2>6. (DeleteOK /\ ListOK /\ AddSuccessStored)'
    BY <2>1, <2>2 DEF TypeOK, DeleteOK, ListOK, AddSuccessStored
  <2>7. QueryOK'
    BY <2>1, <2>2 DEF TypeOK, QueryOK
  <2>. QED  BY <2>3, <2>4, <2>5, <2>6, <2>7
<1>6. CASE InsertRecord(t)
  <2>1. /\ pc[t] = "insert" /\ pc[t] \in Critical /\ next \in 1 .. Len(adds) /\ Len(adds) \in Nat
        /\ heap[hand[t]].values # <<>>
        /\ NextAdd(t)
        /\ UNCHANGED <<mutex, published, heap, adds, loaded, mgmtVars, queryVars>>
        /\ hand' = [hand EXCEPT ![t] = NULL]
    BY <1>6, LenProperties DEF InsertRecord, WriterOK, HandOK, TypeOK
  <2>2. \A u \in Threads \ {t} : pc[u] \notin Critical /\ hand[u] = NULL
    BY <2>1, Alone
  <2>0. PICK n \in Nat : n + 1 = next
    <3>1. next - 1 \in Nat /\ (next - 1) + 1 = next
      BY <2>1
    <3>. QED  BY <3>1
  <2>3. \A j \in Keys : Overlaid(j, n + 1)'
    <3>1. PICK k \in Keys : k = heap[hand[t]].key
      BY <1>6, ContentsInserted
    <3>2. /\ Stores(n + 1, k) /\ Contents'[k] = adds[n + 1].values
          /\ \A j \in Keys \ {k} : ~ Stores(n + 1, j)
      BY <1>6, <2>0, <2>1, <3>1, ContentsInserted DEF WriteOK, Stores
    <3>3. \A j \in Keys \ {k} : Overlaid(j, n) /\ Contents'[j] = Contents[j]
      BY <1>6, <2>0, <2>1, <3>1, <3>2, ContentsInserted DEF WriteOK, Stores
    <3>4. \A j \in Keys \ {k} : Overlaid(j, n + 1)'
      BY <2>1, <3>2, <3>3, OverlaidNext
    <3>5. Overlaid(k, n + 1)'
      BY <2>1, <3>2 DEF Overlaid, Stores
    <3>. QED  BY <3>4, <3>5
  <2>4. PublishedCurrent'
    BY <2>1 DEF NextAdd, TypeOK, PublishedCurrent
  <2>5. WriteOK'
    BY <2>0, <2>1, <2>2, <2>3 DEF NextAdd, TypeOK, WriteOK
  <2>6. (BatchOK /\ CommandOK)'
    BY <2>1 DEF NextAdd, TypeOK, Lifecycle, BatchOK, CommandOK, Adding, AddCommand
  <2>7. (DeleteOK /\ ListOK /\ AddSuccessStored)'
    BY <2>1, <2>2 DEF NextAdd, TypeOK, DeleteOK, ListOK, AddSuccessStored
  <2>8. QueryOK'
    BY <2>1, <2>2 DEF NextAdd, TypeOK, QueryOK
  <2>. QED  BY <2>4, <2>5, <2>6, <2>7, <2>8
<1>7. CASE LoadUnlock(t)
  <2>1. pc[t] = "load_unlock" /\ pc[t] \in Critical /\ UNCHANGED <<dns_records, heap, Contents>>
        /\ published' = Contents
    BY <1>7 DEF LoadUnlock, Unlock, Contents
  <2>2. \A u \in Threads \ {t} : pc[u] \notin Critical /\ hand[u] = NULL
    BY <2>1, Alone
  <2>3. (PublishedCurrent /\ WriteOK)'
    BY <1>7, <2>1, <2>2 DEF LoadUnlock, TypeOK, PublishedCurrent, WriteOK
  <2>4. (BatchOK /\ CommandOK)'
    <3>1. [Success EXCEPT !.ok = loaded] \in Outcome
      BY RepliesTyped DEF Outcome, TypeOK
    <3>. QED  BY <1>7, <2>1, <2>2, <3>1 DEF LoadUnlock, TypeOK, Lifecycle, BatchOK, CommandOK,
         Adding
  <2>5. (DeleteOK /\ ListOK /\ AddSuccessStored)'
    BY <1>7, <2>1, <2>2 DEF LoadUnlock, TypeOK, Lifecycle, CommandOK, DeleteOK, ListOK,
       AddSuccessStored
  <2>6. QueryOK'
    BY <1>7, <2>1, <2>2 DEF LoadUnlock, TypeOK, Lifecycle, QueryOK
  <2>. QED  BY <2>3, <2>4, <2>5, <2>6
<1>. QED  BY <1>1, <1>2, <1>3, <1>4, <1>5, <1>6, <1>7 DEF Loader

\* The rest of the main thread.
LEMMA MainKeepsRInv ==
  ASSUME ~ AllocMayFail, IInv, RInv, MainThread, ~ Loader("main")
  PROVE  RInv'
<1>. USE DEF IInv, RInv
<1>1. CASE Start \/ LoopTop("main") \/ PollTimeout("main") \/ Join
  <2>1. UNCHANGED <<storeVars, Contents, writerVars, mgmtVars, queryVars, hand>>
    BY <1>1 DEF Start, LoopTop, PollTimeout, Join, Contents
  <2>2. (PublishedCurrent /\ WriteOK /\ BatchOK /\ CommandOK)'
    BY <1>1, <2>1 DEF Start, LoopTop, PollTimeout, Join, TypeOK, Lifecycle, PublishedCurrent,
       WriteOK, Overlaid, Stores,
       BatchOK, Adding, CommandOK
  <2>3. (DeleteOK /\ ListOK /\ AddSuccessStored)'
    <3>1. /\ pc'["mgmt"] \in {"delete_unlock", "list"} => pc["mgmt"] = pc'["mgmt"]
          /\ pc["mgmt"] = "list" => pc'["mgmt"] = "list"
          /\ pc'["mgmt"] = "reply" => pc["mgmt"] = "reply"
      BY <1>1 DEF Start, LoopTop, PollTimeout, Join, TypeOK, Lifecycle
    <3>. QED  BY <2>1, <3>1 DEF DeleteOK, ListOK, AddSuccessStored
  <2>4. QueryOK'
    BY <1>1, <2>1 DEF Start, LoopTop, PollTimeout, Join, TypeOK, QueryOK
  <2>. QED  BY <2>2, <2>3, <2>4
<1>2. CASE QueryLock \/ CleanupLock
  <2>1. /\ UNCHANGED <<dns_records, heap, published, Contents, writerVars, mgmtVars, query,
           response, hand>>
        /\ \A t \in Threads : pc[t] \notin Critical
    BY <1>2 DEF QueryLock, CleanupLock, Lock, Contents, MutexDiscipline
  <2>2. (PublishedCurrent /\ WriteOK /\ BatchOK /\ CommandOK)'
    BY <1>2, <2>1 DEF QueryLock, CleanupLock, TypeOK, PublishedCurrent, WriteOK, Overlaid, Stores,
       BatchOK, Adding, CommandOK
  <2>3. (DeleteOK /\ ListOK /\ AddSuccessStored)'
    BY <1>2, <2>1 DEF QueryLock, CleanupLock, TypeOK, DeleteOK, ListOK, AddSuccessStored
  <2>4. QueryOK'
    <3>1. CASE QueryLock
      <4>1. keys' \in Lookups[query] /\ keys' \in Seq(Keys) /\ pos' = 1
        BY <3>1, StoreAssumption DEF QueryLock, RequestOK
      <4>. QED  BY <2>1, <3>1, <4>1 DEF QueryLock, TypeOK, QueryOK
    <3>2. CASE CleanupLock
      BY <2>1, <3>2 DEF CleanupLock, TypeOK, QueryOK
    <3>. QED  BY <1>2, <3>1, <3>2
  <2>. QED  BY <2>2, <2>3, <2>4
<1>3. CASE ResolveRecord
  <2>1. /\ pc["main"] = "lookup" /\ pc["main"] \in Critical
        /\ query \in Queries /\ keys \in Seq(Keys) /\ Len(keys) \in Nat
           /\ DOMAIN keys = 1 .. Len(keys)
        /\ UNCHANGED <<storeVars, Contents, writerVars, mgmtVars, query, keys>>
    BY <1>3, LenProperties DEF ResolveRecord, RequestOK, TypeOK, Contents
  <2>2. pc'["mgmt"] = pc["mgmt"] /\ pc["mgmt"] \notin Critical
        /\ pc' \in [Threads -> MainLabels \cup MgmtLabels]
        /\ pc'["main"] \in {"lookup", "copy", "send_locked"}
    BY <1>3, <2>1, Alone DEF ResolveRecord, TypeOK
  <2>3. (PublishedCurrent /\ WriteOK /\ BatchOK /\ CommandOK)'
    BY <2>1, <2>2 DEF TypeOK, PublishedCurrent, WriteOK, Overlaid, Stores, BatchOK, Adding,
       CommandOK
  <2>4. (DeleteOK /\ ListOK /\ AddSuccessStored)'
    BY <2>1, <2>2 DEF TypeOK, DeleteOK, ListOK, AddSuccessStored
  <2>5. QueryOK'
    <3>1. CASE pos > Len(keys)
      <4>1. /\ response' = [rcode |-> "NXDOMAIN", count |-> 0, answers |-> <<>>]
            /\ pc' = [pc EXCEPT !["main"] = "send_locked"]
        BY <1>3, <2>1, <3>1 DEF ResolveRecord, TypeOK
      <4>2. response' \in Response
        BY <4>1, EmptySeq DEF Response
      <4>. QED  BY <2>1, <4>1, <4>2 DEF TypeOK, QueryOK
    <3>2. CASE pos <= Len(keys)
      <4>1. pos \in 1 .. Len(keys) /\ keys[pos] \in Keys
        BY <2>1, <3>2, ElementOfSeq DEF TypeOK
      <4>2. CASE /\ dns_records[keys[pos]] # NULL
                 /\ hand' = [hand EXCEPT !["main"] = dns_records[keys[pos]]]
                 /\ response' = [rcode   |-> "NOERROR",
                                 count   |-> Len(heap[dns_records[keys[pos]]].values),
                                 answers |-> <<>>]
                 /\ pos' = 1
                 /\ pc' = [pc EXCEPT !["main"] = "copy"]
        <5>1. Atomic!EncodableAmong(response'.answers, heap'[hand'["main"]].values, pos' - 1)
          <6>1. response'.answers = <<>> /\ pos' - 1 = 0
            BY <4>2
          <6>. QED  BY <6>1, NoneEncoded
        <5>2. heap[dns_records[keys[pos]]] \in Record /\ hand'["main"] = dns_records[keys[pos]]
          BY <4>1, <4>2 DEF TypeOK, NoDanglingPointer
        <5>3. Len(heap[dns_records[keys[pos]]].values) \in Nat
          BY <5>2, LenProperties DEF Record
        <5>4. /\ dns_records'[keys'[pos]] = hand'["main"]
              /\ \A j \in DOMAIN keys' : j < pos => Contents'[keys'[j]] = <<>>
          BY <2>1, <4>2, <5>2 DEF QueryOK
        <5>5. /\ response'.rcode = "NOERROR" /\ response'.count = Len(heap'[hand'["main"]].values)
              /\ pos' - 1 <= Len(heap'[hand'["main"]].values)
          BY <2>1, <4>2, <5>2, <5>3
        <5>6. pc'["main"] = "copy" /\ query' # NULL /\ keys' \in Lookups[query']
          BY <2>1, <2>2, <4>2 DEF TypeOK, QueryOK
        <5>7. pos \in DOMAIN keys'
          BY <2>1, <4>1
        <5>. QED  BY <5>1, <5>4, <5>5, <5>6, <5>7 DEF QueryOK
      <4>3. CASE /\ dns_records[keys[pos]] = NULL
                 /\ pos' = pos + 1
                 /\ UNCHANGED <<pc, hand, response>>
        <5>1. Contents[keys[pos]] = <<>>
          BY <4>1, <4>3 DEF Contents
        <5>. QED  BY <2>1, <4>1, <4>3, <5>1 DEF TypeOK, QueryOK
      <4>. QED  BY <1>3, <2>1, <3>2, <4>2, <4>3 DEF ResolveRecord, TypeOK
    <3>. QED  BY <2>1, <3>1, <3>2 DEF TypeOK
  <2>. QED  BY <2>3, <2>4, <2>5
<1>4. CASE EncodeAnswer
  <2>. DEFINE cell == hand["main"]
              values == heap[cell].values
  <2>1. /\ pc["main"] = "copy" /\ pc["main"] \in Critical /\ hand["main"] \in Cells
        /\ heap[hand["main"]] \in Record /\ response \in Response /\ query \in Queries
        /\ UNCHANGED <<storeVars, Contents, writerVars, mgmtVars, query, keys>>
    BY <1>4 DEF EncodeAnswer, HandOK, RequestOK, NoDanglingPointer, TypeOK, Contents
  <2>2. pc'["mgmt"] = pc["mgmt"] /\ pc["mgmt"] \notin Critical /\ pc'["main"] \in {"copy",
        "send_locked"}
    BY <1>4, <2>1, Alone DEF EncodeAnswer, TypeOK
  <2>3. (PublishedCurrent /\ WriteOK /\ BatchOK /\ CommandOK)'
    BY <2>1, <2>2 DEF TypeOK, PublishedCurrent, WriteOK, Overlaid, Stores, BatchOK, Adding,
       CommandOK
  <2>4. (DeleteOK /\ ListOK /\ AddSuccessStored)'
    BY <2>1, <2>2 DEF TypeOK, DeleteOK, ListOK, AddSuccessStored
  <2>5. CASE query \in Unsupported
    <3>1. [rcode |-> "NOTIMP", count |-> 0, answers |-> <<>>] \in Response
      BY EmptySeq DEF Response
    <3>2. pc'["main"] = "send_locked" /\ response' \in Response
      BY <1>4, <2>1, <2>5, <3>1 DEF EncodeAnswer, TypeOK
    <3>3. QueryOK'
      BY <2>1, <3>2 DEF TypeOK, QueryOK
    <3>. QED  BY <2>3, <2>4, <3>3
  <2>6. CASE query \notin Unsupported
    <3>1. /\ pos <= Len(values)
          /\ response' = IF values[pos] \in Encodable
                         THEN [response EXCEPT !.answers = Append(@, values[pos])]
                         ELSE response
          /\ pos' = pos + 1
          /\ UNCHANGED <<pc, hand>>
      BY <1>4, <2>6 DEF EncodeAnswer
    <3>2. /\ values \in Seq(Values) /\ Len(values) \in Nat
          /\ response.answers \in Seq(Values)
          /\ pos \in Nat \ {0}
      BY <2>1, LenProperties DEF Record, Response, TypeOK
    <3>3. Atomic!EncodableAmong(response.answers, values, pos - 1)
      BY <2>1 DEF QueryOK
    <3>4. /\ response'.rcode = response.rcode /\ response'.count = response.count
          /\ response'.answers = IF values[pos] \in Encodable
                                 THEN Append(response.answers, values[pos])
                                 ELSE response.answers
      BY <2>1, <3>1 DEF Response
    <3>5. Atomic!EncodableAmong(response'.answers, values, pos)
      <4>1. pos - 1 \in Nat /\ (pos - 1) + 1 = pos
        BY <3>2
      <4>. QED  BY <3>1, <3>2, <3>3, <3>4, <4>1, EncodedNext
    <3>6. pos' - 1 = pos
      BY <3>1, <3>2
    <3>7. Atomic!EncodableAmong(response'.answers, heap'[hand'["main"]].values, pos' - 1)
      BY <2>1, <3>1, <3>5, <3>6
    <3>8. /\ \E i \in DOMAIN keys' :
               /\ dns_records'[keys'[i]] = hand'["main"]
               /\ \A j \in DOMAIN keys' : j < i => Contents'[keys'[j]] = <<>>
          /\ keys' \in Lookups[query'] /\ query' # NULL /\ pc'["main"] = "copy"
      BY <2>1, <3>1 DEF QueryOK
    <3>9. /\ response'.rcode = "NOERROR" /\ response'.count = Len(heap'[hand'["main"]].values)
          /\ pos' - 1 <= Len(heap'[hand'["main"]].values)
      BY <2>1, <3>1, <3>4, <3>6 DEF QueryOK
    <3>10. QueryOK'
      BY <3>7, <3>8, <3>9 DEF QueryOK
    <3>. QED  BY <2>3, <2>4, <3>10
  <2>. QED  BY <2>5, <2>6
<1>5. CASE FinishAnswers \/ QueryUnlock
  <2>1. /\ pc["main"] \in {"copy", "query_unlock"} /\ pc'["main"] \in {"send", "top"}
        /\ pc'["mgmt"] = pc["mgmt"]
        /\ published' = Contents
        /\ UNCHANGED <<dns_records, heap, Contents, writerVars, mgmtVars, queryVars>>
    BY <1>5 DEF FinishAnswers, QueryUnlock, Unlock, Contents, TypeOK
  <2>2. pc["mgmt"] \notin Critical /\ published' = published
    BY <2>1, Alone DEF PublishedCurrent
  <2>3. (PublishedCurrent /\ WriteOK /\ BatchOK /\ CommandOK)'
    BY <2>1, <2>2 DEF TypeOK, PublishedCurrent, WriteOK, Overlaid, Stores, BatchOK, Adding,
       CommandOK
  <2>4. (DeleteOK /\ ListOK /\ AddSuccessStored)'
    BY <2>1, <2>2 DEF TypeOK, DeleteOK, ListOK, AddSuccessStored
  <2>5. QueryOK'
    BY <1>5, <2>1, <2>2 DEF FinishAnswers, QueryUnlock, TypeOK, RequestOK, QueryOK
  <2>. QED  BY <2>3, <2>4, <2>5
<1>6. CASE Send
  <2>1. /\ pc["main"] \in {"send", "send_locked"} /\ pc'["main"] \in {"top", "query_unlock"}
        /\ pc'["mgmt"] = pc["mgmt"]
        /\ query' = NULL
        /\ UNCHANGED <<storeVars, Contents, writerVars, mgmtVars, hand>>
    BY <1>6 DEF Send, Contents, TypeOK
  <2>2. (PublishedCurrent /\ WriteOK /\ BatchOK /\ CommandOK)'
    BY <2>1 DEF TypeOK, PublishedCurrent, WriteOK, Overlaid, Stores, BatchOK, Adding, CommandOK
  <2>3. (DeleteOK /\ ListOK /\ AddSuccessStored)'
    BY <2>1 DEF TypeOK, DeleteOK, ListOK, AddSuccessStored
  <2>4. QueryOK'
    BY <2>1 DEF TypeOK, QueryOK
  <2>. QED  BY <2>2, <2>3, <2>4
<1>7. CASE CleanupUnlock \/ \E k \in Keys : CleanupRecord(k)
  <2>1. /\ pc["main"] = "cleanup" /\ pc'["main"] \in {"cleanup", "exited"}
        /\ pc'["mgmt"] = pc["mgmt"] /\ pc["mgmt"] \in {"unborn", "done"}
        /\ published' = IF pc'["main"] = "cleanup" THEN published ELSE Contents'
        /\ UNCHANGED <<writerVars, mgmtVars, queryVars, hand>>
    BY <1>7 DEF CleanupUnlock, CleanupRecord, Contents, TypeOK, Lifecycle
  <2>2. (PublishedCurrent /\ WriteOK /\ BatchOK /\ CommandOK)'
    BY <2>1 DEF TypeOK, PublishedCurrent, WriteOK, BatchOK, CommandOK
  <2>3. (DeleteOK /\ ListOK /\ AddSuccessStored)'
    BY <2>1 DEF TypeOK, DeleteOK, ListOK, AddSuccessStored
  <2>4. QueryOK'
    BY <2>1 DEF TypeOK, QueryOK
  <2>. QED  BY <2>2, <2>3, <2>4
<1>. QED  BY <1>1, <1>2, <1>3, <1>4, <1>5, <1>6, <1>7 DEF MainThread

\* The rest of the management thread.
LEMMA MgmtKeepsRInv ==
  ASSUME ~ AllocMayFail, IInv, RInv, MgmtThread, ~ Loader("mgmt")
  PROVE  RInv'
<1>. USE DEF IInv, RInv
<1>1. CASE Listen \/ LoopTop("mgmt") \/ Reply \/ AddPrepare
  <2>1. UNCHANGED <<storeVars, Contents, queryVars, hand, listing>> /\ pc'["main"] = pc["main"]
    BY <1>1 DEF Listen, LoopTop, Reply, AddPrepare, Contents, TypeOK
  <2>2. (PublishedCurrent /\ WriteOK)'
    BY <1>1, <2>1 DEF Listen, LoopTop, Reply, AddPrepare, TypeOK, Lifecycle, PublishedCurrent,
       WriteOK, Overlaid, Stores
  <2>3. BatchOK'
    BY <1>1, <2>1 DEF Listen, LoopTop, Reply, AddPrepare, TypeOK, Lifecycle, BatchOK, Adding,
       CommandOK, AddCommand
  <2>4. CommandOK'
    BY <1>1, <2>1, RepliesTyped DEF Listen, LoopTop, Reply, AddPrepare, TypeOK, CommandOK
  <2>5. (DeleteOK /\ ListOK /\ AddSuccessStored)'
    BY <1>1, <2>1 DEF Listen, LoopTop, Reply, AddPrepare, TypeOK, DeleteOK, ListOK,
       AddSuccessStored, Failure
  <2>6. QueryOK'
    BY <2>1 DEF QueryOK
  <2>. QED  BY <2>2, <2>3, <2>4, <2>5, <2>6
<1>2. CASE AddLock \/ DeleteLock \/ ListLock \/ ClearLock
  <2>1. /\ UNCHANGED <<dns_records, heap, published, Contents, writerVars, mgmtVars, queryVars,
           hand>>
        /\ pc'["main"] = pc["main"]
        /\ \A t \in Threads : pc[t] \notin Critical
    BY <1>2 DEF AddLock, DeleteLock, ListLock, ClearLock, Lock, Contents, MutexDiscipline, TypeOK
  <2>2. PublishedCurrent'
    BY <1>2, <2>1 DEF AddLock, DeleteLock, ListLock, ClearLock, TypeOK, PublishedCurrent
  <2>3. WriteOK'
    <3>1. CASE AddLock
      <4>1. next = 1 /\ pc'["mgmt"] = "create" /\ published = Contents
        BY <2>1, <3>1 DEF AddLock, TypeOK, WriterOK, PublishedCurrent
      <4>2. \A k \in Keys : Overlaid(k, 0)
        BY <4>1 DEF Overlaid
      <4>. QED  BY <2>1, <4>1, <4>2 DEF TypeOK, WriteOK, Overlaid, Stores
    <3>2. CASE DeleteLock \/ ListLock \/ ClearLock
      BY <2>1, <3>2 DEF DeleteLock, ListLock, ClearLock, TypeOK, WriteOK
    <3>. QED  BY <1>2, <3>1, <3>2
  <2>4. (BatchOK /\ CommandOK)'
    BY <1>2, <2>1 DEF AddLock, DeleteLock, ListLock, ClearLock, TypeOK, Lifecycle, BatchOK,
       Adding, CommandOK, AddCommand
  <2>5. (DeleteOK /\ ListOK /\ AddSuccessStored)'
    BY <1>2, <2>1 DEF AddLock, DeleteLock, ListLock, ClearLock, TypeOK, DeleteOK, ListOK,
       AddSuccessStored, EmptyStore
  <2>6. QueryOK'
    BY <2>1 DEF QueryOK
  <2>. QED  BY <2>2, <2>3, <2>4, <2>5, <2>6
<1>3. CASE AddUnlock \/ DeleteUnlock \/ ClearUnlock \/ ListUnlock
  <2>1. /\ pc["mgmt"] \in {"add_unlock", "delete_unlock", "clear",
           "list"} /\ pc["mgmt"] \in Critical
        /\ pc'["mgmt"] \in {"reply", "open"}
        /\ pc'["main"] = pc["main"] /\ pc["main"] \notin Critical
        /\ UNCHANGED <<dns_records, heap, Contents, queryVars, hand, command>>
        /\ published' = Contents
    BY <1>3, Alone DEF AddUnlock, DeleteUnlock, ClearUnlock, ListUnlock, Unlock, Contents, TypeOK
  <2>2. (PublishedCurrent /\ WriteOK)'
    BY <2>1 DEF PublishedCurrent, WriteOK
  <2>3. BatchOK'
    BY <1>3, <2>1 DEF AddUnlock, DeleteUnlock, ClearUnlock, ListUnlock, TypeOK, Lifecycle,
       BatchOK, Adding
  <2>4. CommandOK'
    <3>1. [ok |-> TRUE, listing |-> listing] \in Outcome
      BY DEF TypeOK, Outcome
    <3>2. pc'["mgmt"] = "reply" => outcome' \in Outcome
      BY <1>3, <2>1, <3>1, RepliesTyped DEF AddUnlock, DeleteUnlock, ClearUnlock, ListUnlock,
         DeleteOK, TypeOK
    <3>. QED  BY <1>3, <2>1, <3>2 DEF AddUnlock, DeleteUnlock, ClearUnlock, ListUnlock, TypeOK,
         Lifecycle, CommandOK
  <2>5. (DeleteOK /\ ListOK)'
    BY <1>3, <2>1 DEF AddUnlock, DeleteUnlock, ClearUnlock, ListUnlock, DeleteOK, ListOK
  <2>6. AddSuccessStored'
    <3>1. CASE AddUnlock
      <4>1. /\ pc["mgmt"] = "add_unlock" /\ command \in AddCommand
            /\ adds = <<[key |-> command.key, values |-> command.values]>>
            /\ command.values # <<>>
        BY <3>1 DEF AddUnlock, CommandOK, BatchOK, AddCommand
      <4>2. Overlaid(command.key, 1)
        BY <4>1 DEF WriteOK, AddCommand
      <4>3. Contents[command.key] = command.values
        BY <4>1, <4>2 DEF Overlaid, Stores
      <4>. QED  BY <2>1, <4>3 DEF AddSuccessStored
    <3>2. CASE DeleteUnlock \/ ClearUnlock \/ ListUnlock
      BY <2>1, <3>2 DEF DeleteUnlock, ClearUnlock, ListUnlock, CommandOK, DeleteCommand,
         AddSuccessStored
    <3>. QED  BY <1>3, <3>1, <3>2
  <2>7. QueryOK'
    BY <2>1 DEF QueryOK
  <2>. QED  BY <2>2, <2>3, <2>4, <2>5, <2>6, <2>7
<1>4. CASE DeleteRecord
  <2>1. /\ pc["mgmt"] = "delete" /\ pc["mgmt"] \in Critical /\ command.key \in Keys
        /\ pc' = [pc EXCEPT !["mgmt"] = "delete_unlock"]
        /\ UNCHANGED <<mutex, published, writerVars, command, listing, queryVars, hand>>
    BY <1>4 DEF DeleteRecord, RequestOK, DeleteCommand
  <2>2. pc["main"] \notin Critical /\ pc'["main"] = pc["main"] /\ pc'["mgmt"] = "delete_unlock"
        /\ published = Contents
    BY <2>1, Alone DEF TypeOK, PublishedCurrent
  <2>3. (PublishedCurrent /\ WriteOK /\ BatchOK /\ CommandOK)'
    BY <2>1, <2>2 DEF PublishedCurrent, WriteOK, BatchOK, Adding, CommandOK
  <2>4. DeleteOK'
    <3>1. CASE Present(command.key) /\ DropRecord(command.key) /\ outcome' = Success
      <4>1. Contents[command.key] # <<>>
        BY <2>1, <3>1 DEF Contents, NoDanglingPointer
      <4>. QED  BY <2>1, <2>2, <3>1, <4>1, ContentsDropped DEF DeleteOK
    <3>2. CASE ~ Present(command.key) /\ outcome' = Failure /\ UNCHANGED <<dns_records, heap>>
      <4>1. Contents[command.key] = <<>> /\ UNCHANGED Contents
        BY <2>1, <3>2 DEF Contents
      <4>2. published = [published EXCEPT ![command.key] = <<>>]
        BY <2>1, <2>2, <4>1 DEF TypeOK, Store
      <4>. QED  BY <2>1, <2>2, <3>2, <4>1, <4>2 DEF DeleteOK
    <3>. QED  BY <1>4, <3>1, <3>2 DEF DeleteRecord
  <2>5. (ListOK /\ AddSuccessStored)'
    BY <2>1, <2>2 DEF ListOK, AddSuccessStored
  <2>6. QueryOK'
    BY <2>1, <2>2 DEF QueryOK
  <2>. QED  BY <2>3, <2>4, <2>5, <2>6
<1>5. ASSUME NEW k \in Keys, ListRecord(k) \/ ClearRecord(k)
      PROVE  RInv'
  <2>1. /\ pc["mgmt"] \in {"list", "clear"} /\ pc["mgmt"] \in Critical
        /\ UNCHANGED <<mutex, published, writerVars, command, outcome, queryVars, hand, pc>>
    BY <1>5 DEF ListRecord, ClearRecord
  <2>2. pc["main"] \notin Critical
    BY <2>1, Alone DEF TypeOK
  <2>3. CASE ListRecord(k)
    <3>1. /\ UNCHANGED <<dns_records, heap, Contents>> /\ pc["mgmt"] = "list"
          /\ listing' = [listing EXCEPT ![k] = Contents[k]]
      BY <2>3 DEF ListRecord, Contents
    <3>2. ListOK'
      BY <2>1, <3>1 DEF ListOK, TypeOK, Store
    <3>3. (PublishedCurrent /\ WriteOK /\ BatchOK /\ CommandOK)'
      BY <2>1, <2>2, <3>1 DEF PublishedCurrent, WriteOK, BatchOK, Adding, CommandOK
    <3>4. (DeleteOK /\ AddSuccessStored /\ QueryOK)'
      BY <2>1, <2>2, <3>1 DEF DeleteOK, AddSuccessStored, QueryOK
    <3>. QED  BY <3>2, <3>3, <3>4
  <2>4. CASE ClearRecord(k)
    <3>1. pc["mgmt"] = "clear" /\ UNCHANGED listing
      BY <2>4 DEF ClearRecord
    <3>2. (PublishedCurrent /\ WriteOK /\ BatchOK /\ CommandOK)'
      BY <2>1, <2>2, <3>1 DEF PublishedCurrent, WriteOK, BatchOK, Adding, CommandOK
    <3>3. (DeleteOK /\ ListOK /\ AddSuccessStored /\ QueryOK)'
      BY <2>1, <2>2, <3>1 DEF DeleteOK, ListOK, AddSuccessStored, QueryOK
    <3>. QED  BY <3>2, <3>3
  <2>. QED  BY <1>5, <2>3, <2>4
<1>. QED  BY <1>1, <1>2, <1>3, <1>4, <1>5 DEF MgmtThread

\* Arrivals of queries, commands and signals, and no step at all.
LEMMA EnvironmentKeepsRInv ==
  ASSUME IInv, RInv, Environment
  PROVE  RInv'
<1>. USE DEF IInv, RInv
<1>1. CASE PollTimeout("mgmt") \/ Signal
  <2>1. /\ UNCHANGED <<storeVars, Contents, writerVars, mgmtVars, queryVars, hand>>
        /\ pc'["main"] = pc["main"]
        /\ \/ pc'["mgmt"] = pc["mgmt"]
           \/ pc["mgmt"] = "poll" /\ pc'["mgmt"] = "top"
    BY <1>1 DEF PollTimeout, Signal, Contents, TypeOK
  <2>2. (PublishedCurrent /\ WriteOK /\ BatchOK /\ CommandOK)'
    BY <2>1 DEF PublishedCurrent, WriteOK, Overlaid, Stores, BatchOK, Adding, CommandOK
  <2>3. (DeleteOK /\ ListOK /\ AddSuccessStored /\ QueryOK)'
    BY <2>1 DEF DeleteOK, ListOK, AddSuccessStored, QueryOK
  <2>. QED  BY <2>2, <2>3
<1>2. ASSUME NEW q \in Queries, ReceiveQuery(q)
      PROVE  RInv'
  <2>1. /\ UNCHANGED <<storeVars, Contents, writerVars, mgmtVars, keys, pos, response, hand>>
        /\ pc'["mgmt"] = pc["mgmt"] /\ pc["main"] = "poll" /\ pc'["main"] = "query_lock"
        /\ query' = q
    BY <1>2 DEF ReceiveQuery, Contents, TypeOK
  <2>2. (PublishedCurrent /\ WriteOK /\ BatchOK /\ CommandOK)'
    BY <2>1 DEF PublishedCurrent, WriteOK, Overlaid, Stores, BatchOK, Adding, CommandOK
  <2>3. (DeleteOK /\ ListOK /\ AddSuccessStored /\ QueryOK)'
    BY <2>1 DEF DeleteOK, ListOK, AddSuccessStored, QueryOK
  <2>. QED  BY <2>2, <2>3
<1>3. ASSUME NEW c \in Command, ReceiveCommand(c)
      PROVE  RInv'
  <2>1. /\ UNCHANGED <<storeVars, Contents, writerVars, outcome, listing, queryVars, hand>>
        /\ pc'["main"] = pc["main"] /\ pc["mgmt"] = "poll" /\ pc["main"] # "exited"
        /\ command' = c
        /\ \/ c.op = "ADD" /\ c \in AddCommand /\ pc'["mgmt"] = "add_prepare"
           \/ c.op = "DELETE" /\ c \in DeleteCommand /\ pc'["mgmt"] = "delete_lock"
           \/ c = [op |-> "LIST"] /\ pc'["mgmt"] = "list_lock"
           \/ c = [op |-> "RELOAD"] /\ pc'["mgmt"] = "clear_lock"
    <3>1. \/ c.op = "ADD" /\ c \in AddCommand
          \/ c.op = "DELETE" /\ c \in DeleteCommand
          \/ c = [op |-> "LIST"] /\ c.op = "LIST"
          \/ c = [op |-> "RELOAD"] /\ c.op = "RELOAD"
      BY <1>3 DEF Command, AddCommand, DeleteCommand
    <3>. QED  BY <1>3, <3>1 DEF ReceiveCommand, Contents, TypeOK, Lifecycle
  <2>2. (PublishedCurrent /\ WriteOK)'
    BY <2>1 DEF PublishedCurrent, WriteOK, Overlaid, Stores
  <2>3. (BatchOK /\ CommandOK)'
    BY <1>3, <2>1 DEF BatchOK, Adding, CommandOK, Lifecycle, TypeOK
  <2>4. (DeleteOK /\ ListOK /\ AddSuccessStored /\ QueryOK)'
    BY <2>1 DEF DeleteOK, ListOK, AddSuccessStored, QueryOK
  <2>. QED  BY <2>2, <2>3, <2>4
<1>. QED  BY <1>1, <1>2, <1>3, EveryCommand DEF Environment

LEMMA StutterKeepsRInv ==
  ASSUME RInv, UNCHANGED vars
  PROVE  RInv'
BY DEF RInv, PublishedCurrent, WriteOK, Overlaid, Stores, BatchOK, Adding, CommandOK, DeleteOK,
   ListOK,
       QueryOK, AddSuccessStored, Contents

LEMMA InitRInv == Init => RInv
BY EmptySeq DEF Init, RInv, PublishedCurrent, WriteOK, BatchOK, CommandOK, DeleteOK, ListOK,
       QueryOK, AddSuccessStored, Contents, EmptyStore

\* RInv holds in every reachable state when no allocation fails.
THEOREM RefinementInvariance ==
  ASSUME ~ AllocMayFail
  PROVE  Spec => [](IInv /\ RInv)
<1>1. IInv /\ RInv /\ [Next]_vars => RInv'
  BY LoaderKeepsRInv, MainKeepsRInv, MgmtKeepsRInv, EnvironmentKeepsRInv, StutterKeepsRInv
     DEF Next, Exited, MainThread, MgmtThread
<1>. QED  BY <1>1, InitRInv, Invariance, PTL DEF Spec

\* A record for which ADD reported success is in the published table.
THEOREM AddStored ==
  ASSUME ~ AllocMayFail
  PROVE  Spec => []AddSuccessStored
<1>1. RInv => AddSuccessStored
  BY DEF RInv
<1>. QED  BY <1>1, RefinementInvariance, PTL

-----------------------------------------------------------------------------
\* The largest member of a set of numbers is the one CHOOSE finds.
LEMMA LatestIsChosen ==
  ASSUME NEW S \in SUBSET Int, NEW i \in S, \A j \in S : j <= i
  PROVE  (CHOOSE m \in S : \A j \in S : j <= m) = i
<1>. DEFINE c == CHOOSE m \in S : \A j \in S : j <= m
<1>1. c \in S /\ \A j \in S : j <= c
  BY Zenon
<1>. HIDE DEF c
<1>2. c = i
  BY <1>1
<1>. QED  BY <1>2 DEF c

\* A batch laid over the table entry by entry is the abstract overlay.
LEMMA BatchIsOverlay ==
  ASSUME IInv, \A k \in Keys : Overlaid(k, Len(adds))
  PROVE  Contents = Atomic!Overlay(published, adds)
<1>1. /\ Len(adds) \in Nat /\ DOMAIN adds = 1 .. Len(adds)
      /\ Contents \in Store /\ published \in Store
  BY LenProperties, ContentsTyped DEF IInv, TypeOK
<1>2. ASSUME NEW k \in Keys
      PROVE  Contents[k] = Atomic!Overlay(published, adds)[k]
  <2>. DEFINE mine == {i \in DOMAIN adds : adds[i].key = k /\ adds[i].values # <<>>}
  <2>1. Atomic!Overlay(published, adds)[k] =
          IF mine = {} THEN published[k]
          ELSE adds[CHOOSE i \in mine : \A j \in mine : j <= i].values
    BY DEF Atomic!Overlay
  <2>2. mine \in SUBSET Int
    BY <1>1
  <2>3. CASE /\ \A i \in 1 .. Len(adds) : ~ Stores(i, k)
             /\ Contents[k] = published[k]
    <3>1. mine = {}
      BY <1>1, <2>3 DEF Stores
    <3>. QED  BY <2>1, <2>3, <3>1
  <2>4. ASSUME NEW i \in 1 .. Len(adds), Stores(i, k), Contents[k] = adds[i].values,
               \A j \in 1 .. Len(adds) : Stores(j, k) => j <= i
        PROVE  Contents[k] = Atomic!Overlay(published, adds)[k]
    <3>1. i \in mine /\ \A j \in mine : j <= i
      BY <1>1, <2>4 DEF Stores
    <3>. HIDE DEF mine
    <3>2. (CHOOSE m \in mine : \A j \in mine : j <= m) = i
      BY <2>2, <3>1, LatestIsChosen
    <3>. QED  BY <2>1, <2>4, <3>1, <3>2
  <2>. QED  BY <2>3, <2>4 DEF Overlaid
<1>3. Atomic!Overlay(published, adds) = [k \in Keys |-> Atomic!Overlay(published, adds)[k]]
  BY DEF Atomic!Overlay
<1>. QED  BY <1>1, <1>2, <1>3 DEF Store

\* The steps of a load: one of them is the abstract load.
LEMMA LoaderSimulates ==
  ASSUME ~ AllocMayFail, IInv, RInv, RInv', NEW t \in Threads, Loader(t)
  PROVE  [Atomic!Next]_Atomic!vars
<1>. USE DEF IInv, RInv
<1>1. CASE LoadLock(t)
  <2>1. UNCHANGED <<published, response, command, outcome, query>>
    BY <1>1 DEF LoadLock, Lock
  <2>2. pc["main"] \in Writing \cup {"load_lock",
        "load_unlock"} <=> pc'["main"] \in Writing \cup {"load_lock", "load_unlock"}
    BY <1>1 DEF LoadLock, TypeOK
  <2>3. UNCHANGED Atomic!vars
    BY <1>1, <2>1, <2>2 DEF LoadLock, TypeOK, Lifecycle, Atomic!vars
  <2>. QED BY <2>3
<1>2. CASE CreateRecord(t) \/ ParseValues(t) \/ ReplaceExisting(t) \/ InsertRecord(t)
  <2>1. UNCHANGED <<published, response, command, outcome, query>>
    BY <1>2 DEF CreateRecord, ParseValues, ReplaceExisting, InsertRecord
  <2>2. /\ pc[t] \in Writing /\ pc'[t] \in Writing \cup {"load_unlock", "add_unlock"}
        /\ \A u \in Threads \ {t} : pc'[u] = pc[u]
    BY <1>2 DEF CreateRecord, ParseValues, ReplaceExisting, InsertRecord, NextAdd, TypeOK
  <2>3. UNCHANGED Atomic!vars
    BY <2>1, <2>2 DEF TypeOK, Lifecycle, CommandOK, Atomic!vars
  <2>. QED  BY <2>3
<1>3. CASE ReadFile(t)
  <2>1. CASE pc' = [pc EXCEPT ![t] = "load_lock"]
    <3>1. UNCHANGED <<published, response, command, outcome, query>> /\ pc[t] = "open"
      BY <1>3, <2>1 DEF ReadFile, TypeOK
    <3>2. UNCHANGED Atomic!vars
      BY <2>1, <3>1 DEF TypeOK, Lifecycle, CommandOK, Atomic!vars
    <3>. QED  BY <3>2
  <2>2. CASE /\ \E f \in Files : FileOutcome[f] = "unreadable"
             /\ pc[t] = "open"
             /\ pc' = [pc EXCEPT ![t] = IF t = "main" THEN "cleanup_lock" ELSE "reply"]
             /\ outcome' = IF t = "main" THEN outcome ELSE Failure
             /\ UNCHANGED <<published, response, command, query>>
    <3>1. Atomic!Load(FALSE)
      BY <2>2 DEF Atomic!Load
    <3>2. CASE t = "main"
      <4>1. Atomic!Boot
        BY <2>2, <3>1, <3>2 DEF TypeOK, Lifecycle, CommandOK, Atomic!Boot
      <4>. QED  BY <4>1 DEF Atomic!Next
    <3>3. CASE t = "mgmt"
      <4>1. Failure = [Atomic!Success EXCEPT !.ok = FALSE]
        <5>1. Atomic!Success = Success
          BY DEF Success, EmptyStore, Atomic!Success, Atomic!EmptyStore
        <5>2. Success \in Outcome /\ Success.listing = EmptyStore
          BY RepliesTyped DEF Success
        <5>3. /\ [Success EXCEPT !.ok = FALSE] \in Outcome
              /\ [Success EXCEPT !.ok = FALSE].ok = FALSE
              /\ [Success EXCEPT !.ok = FALSE].listing = EmptyStore
          BY <5>2 DEF Outcome
        <5>4. Failure \in Outcome /\ Failure.ok = FALSE /\ Failure.listing = EmptyStore
          BY RepliesTyped DEF Failure
        <5>5. \A r, o \in Outcome : r.ok = o.ok /\ r.listing = o.listing => r = o
          BY DEF Outcome
        <5>. QED  BY <5>1, <5>3, <5>4, <5>5
      <4>2. Failure # NULL
        BY RepliesTyped
      <4>3. \E ok \in BOOLEAN : Atomic!Load(ok) /\ Failure = [Atomic!Success EXCEPT !.ok = ok]
        BY <3>1, <4>1
      <4>4. /\ pc["mgmt"] = "open" /\ pc'["mgmt"] = "reply" /\ outcome' = Failure
            /\ command = [op |-> "RELOAD"] /\ command # NULL /\ pc'["main"] = pc["main"]
            /\ pc["main"] \notin Writing \cup {"open", "load_lock", "load_unlock"}
        BY <2>2, <3>3 DEF TypeOK, CommandOK, Lifecycle
      <4>5. Atomic!ReloadLoad
        BY <2>2, <4>2, <4>3, <4>4 DEF Atomic!ReloadLoad
      <4>. QED  BY <4>5 DEF Atomic!Next
    <3>. QED  BY <3>2, <3>3
  <2>. QED  BY <1>3, <2>1, <2>2 DEF ReadFile
<1>4. CASE LoadUnlock(t)
  <2>1. /\ pc[t] = "load_unlock"
        /\ pc' = [pc EXCEPT ![t] = IF t = "mgmt" THEN "reply"
                                   ELSE IF loaded THEN "start" ELSE "cleanup_lock"]
        /\ published' = Contents
        /\ outcome' = IF t = "mgmt" THEN [Success EXCEPT !.ok = loaded] ELSE outcome
        /\ UNCHANGED <<response, command, query>>
    BY <1>4 DEF LoadUnlock, Unlock
  <2>2. loaded \in BOOLEAN /\ Atomic!Load(loaded)
    <3>1. published' = Atomic!Overlay(published, adds)
      BY <2>1, BatchIsOverlay DEF WriteOK
    <3>2. \E f \in Files : /\ FileOutcome[f] # "unreadable"
                           /\ adds = FileAdds[f]
                           /\ loaded = (FileOutcome[f] = "loaded")
      BY <2>1 DEF BatchOK, CommandOK, Adding
    <3>. QED  BY <3>1, <3>2 DEF TypeOK, Atomic!Load
  <2>3. CASE t = "main"
    <3>1. Atomic!Boot
      BY <2>1, <2>2, <2>3 DEF TypeOK, Lifecycle, CommandOK, Atomic!Boot
    <3>. QED  BY <3>1 DEF Atomic!Next
  <2>4. CASE t = "mgmt"
    <3>1. /\ [Success EXCEPT !.ok = loaded] = [Atomic!Success EXCEPT !.ok = loaded]
          /\ [Success EXCEPT !.ok = loaded] # NULL
      BY <2>2, RepliesTyped DEF Success, Outcome, Atomic!Success, Atomic!EmptyStore, EmptyStore
    <3>2. Atomic!ReloadLoad
      BY <2>1, <2>2, <2>4, <3>1 DEF TypeOK, Lifecycle, CommandOK, Atomic!ReloadLoad
    <3>. QED  BY <3>2 DEF Atomic!Next
  <2>. QED  BY <2>3, <2>4
<1>. QED  BY <1>1, <1>2, <1>3, <1>4 DEF Loader

\* The record main copies from is that of the first key that has one.
LEMMA HitIsFirst ==
  ASSUME IInv, RInv, pc["main"] = "copy", published = Contents
  PROVE  \E i \in DOMAIN keys :
           /\ published[keys[i]] = heap[hand["main"]].values
           /\ published[keys[i]] # <<>>
           /\ \A j \in DOMAIN keys : j < i => published[keys[j]] = <<>>
<1>1. PICK i \in DOMAIN keys :
        /\ dns_records[keys[i]] = hand["main"]
        /\ \A j \in DOMAIN keys : j < i => Contents[keys[j]] = <<>>
  BY DEF RInv, QueryOK
<1>2. keys[i] \in Keys /\ hand["main"] # NULL
  BY LenProperties, ElementOfSeq DEF IInv, TypeOK, HandOK
<1>3. Contents[keys[i]] = heap[hand["main"]].values /\ heap[hand["main"]].values # <<>>
  BY <1>1, <1>2 DEF Contents, IInv, NoDanglingPointer
<1>. QED  BY <1>1, <1>3

\* The rest of the main thread: a query is resolved when its answer is complete.
LEMMA MainSimulates ==
  ASSUME ~ AllocMayFail, IInv, RInv, IInv', RInv', MainThread, ~ Loader("main")
  PROVE  [Atomic!Next]_Atomic!vars
<1>. USE DEF IInv, RInv
<1>1. CASE Start \/ LoopTop("main") \/ PollTimeout("main") \/ Join \/ CleanupLock \/ QueryLock
             \/ \E k \in Keys : CleanupRecord(k)
  <2>1. UNCHANGED <<published, response, command, outcome, query>>
    BY <1>1 DEF Start, LoopTop, PollTimeout, Join, CleanupLock, QueryLock, CleanupRecord, Lock
  <2>2. /\ pc["main"] \in {"start", "top", "poll", "join", "cleanup_lock", "cleanup", "query_lock"}
        /\ pc'["main"] \in {"top", "poll", "join", "cleanup_lock", "cleanup", "lookup"}
        /\ \/ pc'["mgmt"] = pc["mgmt"]
           \/ pc["main"] = "start" /\ pc'["mgmt"] = "listen" /\ pc["mgmt"] = "unborn"
    BY <1>1 DEF Start, LoopTop, PollTimeout, Join, CleanupLock, QueryLock, CleanupRecord, TypeOK,
       Lifecycle
  <2>3. UNCHANGED Atomic!vars
    BY <2>1, <2>2 DEF TypeOK, Lifecycle, CommandOK, Atomic!vars
  <2>. QED  BY <2>3
<1>2. CASE QueryUnlock
  <2>1. /\ pc["main"] = "query_unlock" /\ pc'["main"] = "top" /\ pc'["mgmt"] = pc["mgmt"]
        /\ UNCHANGED <<published, response, command, outcome, query>>
    <3>1. pc["main"] = "query_unlock" /\ pc["mgmt"] \notin Critical
      BY <1>2, Alone DEF QueryUnlock
    <3>. QED  BY <1>2, <3>1 DEF QueryUnlock, Unlock, TypeOK, PublishedCurrent
  <2>2. UNCHANGED Atomic!vars
    BY <2>1 DEF CommandOK, Atomic!vars
  <2>. QED  BY <2>2
<1>3. CASE Send
  <2>1. CASE pc["main"] = "send" \/ pc["main"] = "send_locked"
    <3>1. /\ query' = NULL /\ response # NULL
          /\ pc'["main"] \in {"top",
             "query_unlock"} /\ pc'["mgmt"] = pc["mgmt"] /\ pc["mgmt"] # "unborn"
          /\ UNCHANGED <<published, command, outcome>>
      BY <1>3, <2>1 DEF Send, TypeOK, QueryOK, CommandOK
    <3>2. Atomic!Answer
      BY <2>1, <3>1 DEF Atomic!Answer
    <3>. QED  BY <3>2 DEF Atomic!Next
  <2>. QED  BY <1>3, <2>1 DEF Send
<1>4. CASE CleanupUnlock
  <2>1. /\ pc["main"] = "cleanup" /\ pc'["main"] = "exited" /\ pc'["mgmt"] = pc["mgmt"]
        /\ pc["mgmt"] \in {"unborn", "done"}
        /\ query = NULL /\ command = NULL
        /\ published' = EmptyStore
        /\ UNCHANGED <<response, command, outcome, query>>
    <3>1. Contents = EmptyStore
      BY <1>4 DEF CleanupUnlock, Contents, EmptyStore
    <3>. QED  BY <1>4, <3>1 DEF CleanupUnlock, TypeOK, Lifecycle, QueryOK, CommandOK
  <2>2. Atomic!Down
    BY <2>1 DEF EmptyStore, Atomic!EmptyStore, Atomic!Down
  <2>. QED  BY <2>2 DEF Atomic!Next
<1>5. CASE ResolveRecord
  <2>1. /\ pc["main"] = "lookup" /\ pc["main"] \in Critical /\ pc["mgmt"] \notin Critical
        /\ published = Contents
        /\ keys \in Lookups[query] /\ keys \in Seq(Keys) /\ Len(keys) \in Nat
           /\ DOMAIN keys = 1 .. Len(keys)
        /\ query # NULL
        /\ pc'["mgmt"] = pc["mgmt"] /\ pc["mgmt"] # "unborn"
        /\ UNCHANGED <<published, command, outcome, query>>
    BY <1>5, Alone, LenProperties DEF ResolveRecord, TypeOK, PublishedCurrent, QueryOK, CommandOK
  <2>2. CASE pos > Len(keys)
    <3>1. /\ response' = [rcode |-> "NXDOMAIN", count |-> 0, answers |-> <<>>]
          /\ pc'["main"] = "send_locked"
      BY <1>5, <2>1, <2>2 DEF ResolveRecord, TypeOK
    <3>2. \A i \in DOMAIN keys : published[keys[i]] = <<>>
      BY <2>1, <2>2 DEF QueryOK, TypeOK
    <3>3. Atomic!Responds(response', query, keys)
      BY <3>1, <3>2 DEF Atomic!Responds
    <3>4. response' # NULL
      BY <3>1 DEF QueryOK
    <3>5. Atomic!Resolve
      BY <2>1, <3>1, <3>3, <3>4 DEF Atomic!Resolve
    <3>. QED  BY <3>5 DEF Atomic!Next
  <2>3. CASE pos <= Len(keys)
    <3>1. pc'["main"] \in {"lookup", "copy"}
      BY <1>5, <2>1, <2>3 DEF ResolveRecord, TypeOK
    <3>2. UNCHANGED Atomic!vars
      BY <2>1, <3>1 DEF CommandOK, Atomic!vars
    <3>. QED  BY <3>2
  <2>. QED  BY <2>1, <2>2, <2>3 DEF TypeOK
<1>6. CASE EncodeAnswer
  <2>1. /\ pc["main"] = "copy" /\ pc["main"] \in Critical /\ pc["mgmt"] \notin Critical
        /\ published = Contents
        /\ keys \in Lookups[query] /\ keys \in Seq(Keys) /\ Len(keys) \in Nat
           /\ DOMAIN keys = 1 .. Len(keys)
        /\ query # NULL
        /\ pc'["mgmt"] = pc["mgmt"] /\ pc["mgmt"] # "unborn"
        /\ UNCHANGED <<published, command, outcome, query>>
    BY <1>6, Alone, LenProperties, SMTT(30) DEF EncodeAnswer, TypeOK, PublishedCurrent, QueryOK, CommandOK
  <2>2. CASE query \in Unsupported
    <3>1. /\ response' = [rcode |-> "NOTIMP", count |-> 0, answers |-> <<>>]
          /\ pc'["main"] = "send_locked"
      BY <1>6, <2>1, <2>2 DEF EncodeAnswer, TypeOK
    <3>2. PICK i \in DOMAIN keys :
            /\ published[keys[i]] # <<>>
            /\ \A j \in DOMAIN keys : j < i => published[keys[j]] = <<>>
      BY <2>1, HitIsFirst
    <3>3. Atomic!Responds(response', query, keys)
      BY <2>2, <3>1, <3>2 DEF Atomic!Responds
    <3>4. response' # NULL
      BY <3>1 DEF QueryOK
    <3>5. Atomic!Resolve
      BY <2>1, <3>1, <3>3, <3>4 DEF Atomic!Resolve
    <3>. QED  BY <3>5 DEF Atomic!Next
  <2>3. CASE query \notin Unsupported
    <3>1. pc'["main"] = "copy"
      BY <1>6, <2>1, <2>3 DEF EncodeAnswer
    <3>2. UNCHANGED Atomic!vars
      BY <2>1, <3>1 DEF CommandOK, Atomic!vars
    <3>. QED  BY <3>2
  <2>. QED  BY <2>2, <2>3
<1>7. CASE FinishAnswers
  <2>1. /\ pc["main"] = "copy" /\ pc["main"] \in Critical /\ pc["mgmt"] \notin Critical
        /\ published = Contents /\ published' = Contents
        /\ keys \in Lookups[query] /\ query # NULL /\ query \notin Unsupported
        /\ pc'["main"] = "send" /\ pc'["mgmt"] = pc["mgmt"] /\ pc["mgmt"] # "unborn"
        /\ UNCHANGED <<response, command, outcome, query>>
    BY <1>7, Alone DEF FinishAnswers, Unlock, TypeOK, PublishedCurrent, QueryOK, CommandOK
  <2>2. PICK i \in DOMAIN keys :
          /\ published[keys[i]] = heap[hand["main"]].values
          /\ published[keys[i]] # <<>>
          /\ \A j \in DOMAIN keys : j < i => published[keys[j]] = <<>>
    BY <2>1, HitIsFirst
  <2>3. /\ response.rcode = "NOERROR" /\ response.count = Len(published[keys[i]])
        /\ \E n \in 0 .. Len(published[keys[i]]) :
             Atomic!EncodableAmong(response.answers, published[keys[i]], n)
    <3>1. pos - 1 \in 0 .. Len(published[keys[i]])
      <4>1. pos \in Nat \ {0} /\ pos - 1 <= Len(published[keys[i]])
            /\ Len(published[keys[i]]) \in Nat
        <5>1. heap[hand["main"]] \in Record
          BY <2>1 DEF TypeOK, HandOK, NoDanglingPointer
        <5>2. Len(heap[hand["main"]].values) \in Nat
          BY <5>1, LenProperties DEF Record
        <5>. QED  BY <2>1, <2>2, <5>2 DEF TypeOK, QueryOK
      <4>. QED  BY <4>1
    <3>. QED  BY <2>1, <2>2, <3>1 DEF QueryOK
  <2>4. Atomic!Responds(response, query, keys)
    BY <2>1, <2>2, <2>3 DEF Atomic!Responds
  <2>5. response # NULL /\ UNCHANGED published
    BY <2>1 DEF RequestOK
  <2>6. Atomic!Resolve
    BY <2>1, <2>4, <2>5 DEF Atomic!Resolve
  <2>. QED  BY <2>6 DEF Atomic!Next
<1>. QED  BY <1>1, <1>2, <1>3, <1>4, <1>5, <1>6, <1>7 DEF MainThread

\* The rest of the management thread: a command takes effect at its unlock.
LEMMA MgmtSimulates ==
  ASSUME ~ AllocMayFail, IInv, RInv, IInv', RInv', MgmtThread, ~ Loader("mgmt")
  PROVE  [Atomic!Next]_Atomic!vars
<1>. USE DEF IInv, RInv
<1>0. Success = Atomic!Success /\ Failure = Atomic!Failure /\ Success # NULL /\ Failure # NULL
  BY RepliesTyped DEF Success, Failure, EmptyStore, Atomic!Success, Atomic!Failure,
     Atomic!EmptyStore
<1>1. CASE Listen \/ LoopTop("mgmt") \/ AddLock \/ DeleteLock \/ ListLock \/ ClearLock
           \/ DeleteRecord
             \/ \E k \in Keys : ListRecord(k) \/ ClearRecord(k)
  <2>1. UNCHANGED <<published, response, command, query>> /\ pc'["main"] = pc["main"]
    BY <1>1 DEF Listen, LoopTop, AddLock, DeleteLock, ListLock, ClearLock, DeleteRecord,
       ListRecord, ClearRecord,
       Lock, TypeOK
  <2>2. /\ pc["mgmt"] \in {"listen", "top", "add_lock", "delete_lock", "list_lock", "clear_lock",
           "delete",
                           "list", "clear"}
        /\ pc'["mgmt"] \in {"top", "done", "poll", "create", "delete", "list", "clear",
           "delete_unlock"}
        /\ pc'["mgmt"] = "create" => pc["mgmt"] = "add_lock"
    BY <1>1 DEF Listen, LoopTop, AddLock, DeleteLock, ListLock, ClearLock, DeleteRecord,
       ListRecord, ClearRecord,
       TypeOK
  <2>3. UNCHANGED Atomic!vars
    BY <2>1, <2>2 DEF CommandOK, AddCommand, DeleteCommand, Atomic!vars
  <2>. QED  BY <2>3
<1>2. CASE Reply
  <2>1. /\ pc["mgmt"] = "reply" /\ pc'["mgmt"] = "top" /\ pc'["main"] = pc["main"]
        /\ command' = NULL /\ outcome # NULL
        /\ UNCHANGED <<published, response, query>>
    BY <1>2 DEF Reply, TypeOK, CommandOK
  <2>2. Atomic!Finish
    BY <2>1 DEF Atomic!Finish
  <2>. QED  BY <2>2 DEF Atomic!Next
<1>3. CASE AddPrepare
  <2>1. /\ pc["mgmt"] = "add_prepare" /\ pc'["main"] = pc["main"]
        /\ command \in AddCommand /\ command # NULL
        /\ UNCHANGED <<published, response, command, query>>
    BY <1>3 DEF AddPrepare, TypeOK, CommandOK
  <2>2. CASE pc'["mgmt"] = "add_lock"
    <3>1. UNCHANGED Atomic!vars
      BY <2>1, <2>2 DEF AddCommand, Atomic!vars
    <3>. QED  BY <3>1
  <2>3. CASE command.values = <<>> /\ outcome' = Failure /\ pc'["mgmt"] = "reply"
    <3>1. Atomic!Add
      BY <1>0, <2>1, <2>3 DEF AddCommand, Atomic!Add
    <3>2. Atomic!Execute
      BY <2>1, <2>3, <3>1 DEF AddCommand, Atomic!Execute
    <3>. QED  BY <3>2 DEF Atomic!Next
  <2>. QED  BY <1>3, <2>2, <2>3 DEF AddPrepare, TypeOK
<1>4. CASE AddUnlock
  <2>1. /\ pc["mgmt"] = "add_unlock" /\ pc'["mgmt"] = "reply" /\ pc'["main"] = pc["main"]
        /\ command \in AddCommand /\ command # NULL /\ command.values # <<>>
        /\ adds = <<[key |-> command.key, values |-> command.values]>>
        /\ published' = Contents /\ outcome' = Success
        /\ UNCHANGED <<response, command, query>>
    BY <1>4 DEF AddUnlock, Unlock, TypeOK, CommandOK, BatchOK, AddCommand
  <2>2. \A k \in Keys : Overlaid(k, 1)
    BY <2>1 DEF WriteOK
  <2>3. Contents = [published EXCEPT ![command.key] = command.values]
    <3>1. Contents[command.key] = command.values
      BY <2>1, <2>2 DEF AddCommand, Overlaid, Stores
    <3>2. \A k \in Keys \ {command.key} : Contents[k] = published[k]
      BY <2>1, <2>2 DEF Overlaid, Stores
    <3>3. Contents \in Store /\ published \in Store
      BY ContentsTyped DEF TypeOK
    <3>. QED  BY <3>1, <3>2, <3>3 DEF Store
  <2>4. Atomic!Add
    BY <1>0, <2>1, <2>3 DEF AddCommand, Atomic!Add
  <2>5. Atomic!Execute
    BY <2>1, <2>4 DEF AddCommand, Atomic!Execute
  <2>. QED  BY <2>5 DEF Atomic!Next
<1>5. CASE DeleteUnlock
  <2>1. /\ pc["mgmt"] = "delete_unlock" /\ pc'["mgmt"] = "reply" /\ pc'["main"] = pc["main"]
        /\ command \in DeleteCommand /\ command # NULL
        /\ outcome = IF published[command.key] = <<>> THEN Failure ELSE Success
        /\ published' = [published EXCEPT ![command.key] = <<>>]
        /\ UNCHANGED <<response, command, outcome, query>>
    BY <1>5 DEF DeleteUnlock, Unlock, TypeOK, CommandOK, DeleteOK
  <2>2. Atomic!Delete
    BY <1>0, <2>1 DEF DeleteCommand, Atomic!Delete
  <2>3. Atomic!Execute
    BY <2>1, <2>2 DEF DeleteCommand, Atomic!Execute
  <2>. QED  BY <2>3 DEF Atomic!Next
<1>6. CASE ListUnlock
  <2>1. /\ pc["mgmt"] = "list" /\ pc["mgmt"] \in Critical /\ pc'["mgmt"] = "reply"
           /\ pc'["main"] = pc["main"]
        /\ command = [op |-> "LIST"] /\ command # NULL
        /\ \A k \in Keys : Present(k) => listing[k] # <<>>
        /\ outcome' = [ok |-> TRUE, listing |-> listing]
        /\ published' = Contents
        /\ UNCHANGED <<response, command, query>>
    BY <1>6 DEF ListUnlock, Unlock, TypeOK, CommandOK
  <2>2. published = Contents
    BY <2>1, Alone DEF PublishedCurrent
  <2>3. listing = Contents
    <3>1. \A k \in Keys : listing[k] = Contents[k]
      BY <2>1 DEF ListOK, Contents
    <3>2. listing \in Store /\ Contents \in Store
      BY ContentsTyped DEF TypeOK
    <3>. QED  BY <3>1, <3>2 DEF Store
  <2>4. [ok |-> TRUE, listing |-> listing] # NULL
    <3>1. [ok |-> TRUE, listing |-> listing] \in Outcome
      BY DEF TypeOK, Outcome
    <3>. QED  BY <3>1
  <2>5. Atomic!List
    BY <2>1, <2>2, <2>3 DEF Atomic!List
  <2>6. Atomic!Execute
    BY <2>1, <2>4, <2>5 DEF Atomic!Execute
  <2>. QED  BY <2>6 DEF Atomic!Next
<1>7. CASE ClearUnlock
  <2>1. /\ pc["mgmt"] = "clear" /\ pc'["mgmt"] = "open" /\ pc'["main"] = pc["main"]
        /\ command = [op |-> "RELOAD"] /\ command # NULL
        /\ published' = EmptyStore
        /\ UNCHANGED <<response, command, query>>
    <3>1. Contents = EmptyStore
      BY <1>7 DEF ClearUnlock, Contents, EmptyStore
    <3>. QED  BY <1>7, <3>1 DEF ClearUnlock, Unlock, TypeOK, CommandOK
  <2>2. Atomic!ReloadClear
    BY <2>1 DEF EmptyStore, Atomic!EmptyStore, Atomic!ReloadClear
  <2>. QED  BY <2>2 DEF Atomic!Next
<1>. QED  BY <1>1, <1>2, <1>3, <1>4, <1>5, <1>6, <1>7 DEF MgmtThread

\* Arrivals are the abstract Ask and Accept.
LEMMA EnvironmentSimulates ==
  ASSUME IInv, RInv, IInv', RInv', Environment
  PROVE  [Atomic!Next]_Atomic!vars
<1>. USE DEF IInv, RInv
<1>1. CASE PollTimeout("mgmt") \/ Signal
  <2>1. /\ UNCHANGED <<published, response, command, outcome, query>> /\ pc'["main"] = pc["main"]
        /\ \/ pc'["mgmt"] = pc["mgmt"]
           \/ pc["mgmt"] = "poll" /\ pc'["mgmt"] = "top"
    BY <1>1 DEF PollTimeout, Signal, TypeOK
  <2>2. UNCHANGED Atomic!vars
    BY <2>1 DEF CommandOK, Atomic!vars
  <2>. QED  BY <2>2
<1>2. ASSUME NEW q \in Queries, ReceiveQuery(q)
      PROVE  [Atomic!Next]_Atomic!vars
  <2>1. /\ pc["main"] = "poll" /\ pc'["main"] = "query_lock" /\ pc'["mgmt"] = pc["mgmt"]
        /\ pc["mgmt"] # "unborn" /\ query = NULL /\ query' = q
        /\ UNCHANGED <<published, response, command, outcome>>
    BY <1>2 DEF ReceiveQuery, TypeOK, QueryOK, CommandOK
  <2>2. Atomic!Ask(q)
    BY <2>1 DEF Atomic!Ask
  <2>. QED  BY <2>2 DEF Atomic!Next
<1>3. ASSUME NEW c \in Command, ReceiveCommand(c)
      PROVE  Atomic!Accept(c)
  <2>1. /\ pc["mgmt"] = "poll" /\ pc'["main"] = pc["main"] /\ pc["main"] # "exited"
        /\ pc'["mgmt"] \in {"add_prepare", "delete_lock", "list_lock", "clear_lock"}
        /\ c.op = "RELOAD" => pc'["mgmt"] = "clear_lock"
        /\ command = NULL /\ command' = c
        /\ UNCHANGED <<published, response, query>>
    <3>1. c.op \in {"ADD", "DELETE", "LIST", "RELOAD"}
      BY <1>3 DEF Command, AddCommand, DeleteCommand
    <3>. QED  BY <1>3, <3>1 DEF ReceiveCommand, TypeOK, Lifecycle, CommandOK
  <2>. QED  BY <2>1 DEF Atomic!Accept
<1>. QED  BY <1>1, <1>2, <1>3, EveryCommand DEF Environment, Atomic!Next

\* Without failing allocations the table, its mutex and its two threads
\* implement AtomicStore.
THEOREM Refinement ==
  ASSUME ~ AllocMayFail
  PROVE  Spec => ImplementsAtomicStore
<1>1. Init => Atomic!Init
  BY DEF Init, EmptyStore, Atomic!Init, Atomic!EmptyStore
<1>2. IInv /\ RInv /\ IInv' /\ RInv' /\ [Next]_vars => [Atomic!Next]_Atomic!vars
  <2>1. UNCHANGED vars => UNCHANGED Atomic!vars
    BY DEF Atomic!vars
  <2>. QED
    BY <2>1, LoaderSimulates, MainSimulates, MgmtSimulates, EnvironmentSimulates
       DEF Next, Exited, MainThread, MgmtThread
<1>. QED  BY <1>1, <1>2, RefinementInvariance, PTL DEF Spec, ImplementsAtomicStore, Atomic!Spec
=============================================================================
