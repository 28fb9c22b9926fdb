------------------------- MODULE MappingsTableProofs -------------------------
(***************************************************************************)
(* Proofs about the table of records of MappingsFile, for every set of     *)
(* files, every number of cells, every size of buckets and every hash      *)
(* function to numbers: the records in use are those of a sound table,     *)
(* which is an ordered map to its users; its iterations survive the        *)
(* deletion of the element they stand on; LIST stays within its buffer;    *)
(* all variables keep their types.                                         *)
(*                                                                         *)
(* The operators of the table are treated in UtHashProofs.  Here the       *)
(* actions of the program are sorted into what they do to the table        *)
(* (TableStep), and the invariant is that of a table (TableKept) with the  *)
(* place of an iteration under way (IterKept).                             *)
(***************************************************************************)
EXTENDS MappingsFileProofs

\* The table and the cells in use, whatever goes on.
TableKept ==
  /\ records = [c \in DOMAIN records |-> records[c]]
  /\ \E w : TableOf(table, w, DOMAIN records)
  /\ \A c \in DOMAIN records : table.hh[c].key = records[c].key

\* Where HASH_ITER stands: when the body deletes, at the head of the list.
IterKept ==
  /\ phase \in {"clear", "cleanup"} => iter = IterFirst(table)
  /\ phase = "list" => /\ iter.el \in DOMAIN records \cup {NULL}
                       /\ iter.tmp = NextOf(table, iter.el)
  /\ phase = "ended" => DOMAIN records = {}

TableInv == TableKept /\ IterKept

\* The list w, without old if that is one of its cells.
Left(v, w, A, old) ==
  \/ old = NULL /\ v = w
  \/ /\ old \in A
     /\ \E i \in 1..Len(w) : w[i] = old /\ v = Removed(w, Len(w), i)

\* Of the cells A, old and no other holds a record of the key k.
KeyIs(A, old, k) ==
  /\ old \in A => records[old].key = k
  /\ \A x \in A \ {old} : records[x].key # k

\* Taking out the record of a key, if there is one.
LEMMA ReplacedIs ==
  ASSUME HashesAreNumbers, TableKept, NEW w, TableOf(table, w, DOMAIN records), NEW k
  PROVE  LET A == DOMAIN records
             old == HashFind(table, k) IN
         /\ \/ old = NULL /\ Replaced(k) = table /\ A \ {old} = A
            \/ /\ old \in A /\ records[old].key = k
               /\ \E i \in 1..Len(w) : w[i] = old /\ TableOf(Replaced(k), Removed(w, Len(w), i), A \ {old})
         /\ \A x \in A \ {old} : Replaced(k).hh[x].key = records[x].key /\ records[x].key # k
<1> DEFINE A == DOMAIN records
           old == HashFind(table, k)
<1>1. /\ A \subseteq Cells /\ NULL \notin A
      /\ \A x \in A : table.hh[x].key = records[x].key
      /\ \A x, y \in A : table.hh[x].key = table.hh[y].key => x = y
  BY TableOfIs, CellsFinite DEF TableKept
<1>2. \/ old = NULL /\ \A x \in A : table.hh[x].key # k
      \/ old \in A /\ table.hh[old].key = k
  BY HashFindIs
<1> HIDE DEF old
<1>3. CASE old = NULL
  <2>1. Replaced(k) = table
    BY <1>3 DEF Replaced, old
  <2> QED BY <1>1, <1>2, <1>3, <2>1 DEF old
<1>4. CASE old \in A
  <2>1. Replaced(k) = HashDelete(table, old)
    BY <1>1, <1>4 DEF Replaced, old
  <2>2. /\ \E i \in 1..Len(w) : w[i] = old /\ TableOf(HashDelete(table, old), Removed(w, Len(w), i), A \ {old})
        /\ Remains(HashDelete(table, old), table, A, old)
    BY <1>4, HashDeleteIs
  <2>3. \A x \in A \ {old} : Replaced(k).hh[x].key = records[x].key
    BY <1>1, <2>1, <2>2 DEF Remains
  <2>4. \A x \in A \ {old} : records[x].key # k
    BY <1>1, <1>2, <1>4
  <2> QED BY <1>1, <1>2, <1>4, <2>1, <2>2, <2>3, <2>4 DEF old
<1> QED BY <1>2, <1>3, <1>4

\* While a cell is free, malloc finds one.
LEMMA FreeCellIs ==
  ASSUME DOMAIN records \subseteq Cells, DOMAIN records # Cells
  PROVE  FreeCell \in Cells \ DOMAIN records
BY DEF FreeCell

\* What add_record_to_hash does to the table.
LEMMA AddIs ==
  ASSUME HashesAreNumbers, TableKept, NEW w, TableOf(table, w, DOMAIN records), NEW k, NEW list,
         AddRecordToHash(k, list)
  PROVE  /\ TableKept'
         /\ LET A == DOMAIN records
                old == HashFind(table, k)
                new == [key |-> k, values |-> ParseValues(k.type, list)] IN
            /\ DOMAIN records' = (A \ {old}) \cup {FreeCell} /\ records'[FreeCell] = new
            /\ \A x \in A \ {old} : records'[x] = records[x]
            /\ KeyIs(A, old, k)
            /\ \E v : Left(v, w, A, old) /\ AppOrder(table') = Append(v, FreeCell)
<1> DEFINE A == DOMAIN records
           old == HashFind(table, k)
           c == FreeCell
           t == Replaced(k)
           new == [key |-> k, values |-> ParseValues(k.type, list)]
<1>1. A \subseteq Cells /\ A # Cells /\ NULL \notin Cells
  BY TableOfIs, CellsFinite DEF AddRecordToHash
<1>2. c \in Cells \ A
  BY <1>1, FreeCellIs
<1>3. /\ \/ old = NULL /\ t = table /\ A \ {old} = A
         \/ /\ old \in A /\ records[old].key = k
            /\ \E i \in 1..Len(w) : w[i] = old /\ TableOf(t, Removed(w, Len(w), i), A \ {old})
      /\ \A x \in A \ {old} : t.hh[x].key = records[x].key /\ records[x].key # k
  BY ReplacedIs
<1>4. /\ table' = HashAdd(t, c, k)
      /\ records' = [x \in (A \ {old}) \cup {c} |-> IF x = c THEN new ELSE records[x]]
  BY DEF AddRecordToHash
<1> HIDE DEF old, c, t
<1>5. /\ DOMAIN records' = (A \ {old}) \cup {c} /\ records'[c] = new
      /\ \A x \in A \ {old} : records'[x] = records[x]
  BY <1>2, <1>4
<1>6. ASSUME NEW v, TableOf(t, v, A \ {old})
      PROVE  TableKept' /\ AppOrder(table') = Append(v, c)
  <2> DEFINE B == A \ {old}
  <2>1. c \in Cells \ B /\ \A x \in B : t.hh[x].key # k
    BY <1>2, <1>3
  <2>2. /\ TableOf(table', Append(v, c), B \cup {c})
        /\ table'.hh[c].key = k /\ \A x \in B : table'.hh[x].key = t.hh[x].key
    <3> HIDE DEF B
    <3>1. TableOf(t, v, B)
      BY <1>6 DEF B
    <3>2. LET u == HashAdd(t, c, k) IN
          /\ TableOf(u, Append(v, c), B \cup {c})
          /\ u.hh[c].key = k /\ \A x \in B : u.hh[x].key = t.hh[x].key
      BY <2>1, <3>1, HashAddIs
    <3> QED BY <1>4, <3>2
  <2>3. AppOrder(table') = Append(v, c)
    <3> DEFINE z == Append(v, c)
               C == B \cup {c}
    <3>1. TableOf(table', z, C)
      BY <2>2
    <3> HIDE DEF z, C
    <3>2. AppOrder(table') = z
      BY <3>1, TableOfIs
    <3> QED BY <3>2 DEF z
  <2>4. \A x \in DOMAIN records' : table'.hh[x].key = records'[x].key
    BY <1>3, <1>5, <2>2
  <2>5. records' = [x \in DOMAIN records' |-> records'[x]]
    BY <1>4
  <2> QED BY <1>5, <2>2, <2>3, <2>4, <2>5 DEF TableKept
<1>7. KeyIs(A, old, k)
  BY <1>1, <1>3 DEF KeyIs
<1>8. CASE old = NULL /\ t = table /\ A \ {old} = A
  <2>1. Left(w, w, A, old) /\ TableKept' /\ AppOrder(table') = Append(w, c)
    BY <1>6, <1>8 DEF Left
  <2> QED BY <1>5, <1>7, <2>1 DEF c, old
<1>9. CASE /\ old \in A /\ records[old].key = k
           /\ \E i \in 1..Len(w) : w[i] = old /\ TableOf(t, Removed(w, Len(w), i), A \ {old})
  <2>1. PICK i \in 1..Len(w) : w[i] = old /\ TableOf(t, Removed(w, Len(w), i), A \ {old})
    BY <1>9
  <2> DEFINE v == Removed(w, Len(w), i)
  <2>2. Left(v, w, A, old)
    BY <1>9, <2>1 DEF Left
  <2>3. TableKept' /\ AppOrder(table') = Append(v, c)
    BY <1>6, <2>1
  <2> HIDE DEF v
  <2> QED BY <1>5, <1>7, <2>2, <2>3 DEF c, old
<1> QED BY <1>3, <1>8, <1>9

\* What taking an element out, and freeing its record, does to the table.
LEMMA RemoveIs ==
  ASSUME TableKept, NEW w, TableOf(table, w, DOMAIN records), NEW c \in DOMAIN records,
         table' = HashDelete(table, c), records' = Restrict(records, DOMAIN records \ {c})
  PROVE  /\ TableKept'
         /\ DOMAIN records' = DOMAIN records \ {c}
         /\ \A x \in DOMAIN records \ {c} : records'[x] = records[x]
         /\ \E i \in 1..Len(w) : w[i] = c /\ AppOrder(table') = Removed(w, Len(w), i)
         /\ c = table.head => table'.head = table.hh[c].next
<1> DEFINE A == DOMAIN records
<1>1. /\ DOMAIN records' = A \ {c}
      /\ \A x \in A \ {c} : records'[x] = records[x]
  BY DEF Restrict
<1>2. /\ \E i \in 1..Len(w) : w[i] = c /\ TableOf(table', Removed(w, Len(w), i), A \ {c})
      /\ Remains(table', table, A, c)
  BY HashDeleteIs
<1>3. PICK i \in 1..Len(w) : w[i] = c /\ TableOf(table', Removed(w, Len(w), i), A \ {c})
  BY <1>2
<1> DEFINE v == Removed(w, Len(w), i)
           B == A \ {c}
<1>4. TableOf(table', v, B) /\ B = DOMAIN records'
  BY <1>1, <1>3
<1>5. /\ \A x \in B : table'.hh[x].key = records[x].key
      /\ c = table.head => table'.head = table.hh[c].next
  BY <1>2 DEF Remains, TableKept
<1>6. \A x \in DOMAIN records' : table'.hh[x].key = records'[x].key
  BY <1>1, <1>5
<1> HIDE DEF v, B
<1>7. AppOrder(table') = v
  BY <1>4, TableOfIs
<1>8. TableKept'
  <2>1. records' = [x \in DOMAIN records' |-> records'[x]]
    BY DEF Restrict
  <2> QED BY <1>4, <1>6, <2>1 DEF TableKept
<1> QED BY <1>1, <1>3, <1>5, <1>7, <1>8 DEF v

\* What delete_record does to the table.
LEMMA DeleteIs ==
  ASSUME HashesAreNumbers, TableKept, NEW w, TableOf(table, w, DOMAIN records), NEW k,
         table' = Replaced(k), records' = Restrict(records, DOMAIN records \ {HashFind(table, k)})
  PROVE  /\ TableKept'
         /\ LET A == DOMAIN records
                old == HashFind(table, k) IN
            \/ old = NULL /\ table' = table /\ records' = records
            \/ /\ old \in A /\ records[old].key = k
               /\ DOMAIN records' = A \ {old}
               /\ \A x \in A \ {old} : records'[x] = records[x]
               /\ \E i \in 1..Len(w) : w[i] = old /\ AppOrder(table') = Removed(w, Len(w), i)
<1> DEFINE A == DOMAIN records
           old == HashFind(table, k)
<1>1. \/ old = NULL /\ table' = table /\ A \ {old} = A
      \/ old \in A /\ records[old].key = k
  BY ReplacedIs
<1>2. old \in A => old # NULL
  BY TableOfIs, CellsFinite
<1>3. old \in A => table' = HashDelete(table, old)
  BY <1>2 DEF Replaced
<1> HIDE DEF old
<1>4. CASE old = NULL /\ table' = table /\ A \ {old} = A
  <2>1. records' = [x \in A \ {old} |-> records[x]]
    BY DEF Restrict, old
  <2>2. records' = records
    BY <1>4, <2>1 DEF TableKept
  <2>3. TableKept'
    BY <1>4, <2>2 DEF TableKept
  <2> QED BY <1>4, <2>2, <2>3 DEF old
<1>5. CASE old \in A /\ records[old].key = k
  <2>1. records' = Restrict(records, A \ {old})
    BY DEF old
  <2> QED BY <1>3, <1>5, <2>1, RemoveIs DEF old
<1> QED BY <1>1, <1>4, <1>5

(***************************************************************************)
(* The table under the program.                                            *)
(***************************************************************************)
\* The steps, as the table and the iteration see them.
Elsewhere == phase \notin {"clear", "cleanup", "list", "ended"}

Bystands ==
  /\ UNCHANGED <<tableVars, iter, chunk>>
  /\ \/ phase' = phase
     \/ Elsewhere' /\ (phase = "list" => iter.el = NULL)

Begins ==
  /\ UNCHANGED <<tableVars, chunk>> /\ iter' = IterFirst(table)
  /\ phase # "list" /\ phase' \in {"clear", "cleanup", "list"}

Puts == UNCHANGED chunk /\ phase # "list" /\ Elsewhere' /\ \E k, list : AddRecordToHash(k, list)

Deletes(k) ==
  /\ table' = Replaced(k)
  /\ records' = Restrict(records, DOMAIN records \ {HashFind(table, k)})
  /\ UNCHANGED chunk /\ Elsewhere /\ phase' = phase

Lists ==
  /\ UNCHANGED tableVars /\ phase = "list" /\ iter.el # NULL
  /\ \/ /\ phase' = "list" /\ iter' = iter
        /\ chunk < Len(records[iter.el].values) /\ chunk' = chunk + 1
     \/ phase' = "list" /\ iter' = IterNext(table, iter) /\ chunk' = 0
     \/ Elsewhere' /\ chunk' = 0

Clears ==
  /\ phase \in {"clear", "cleanup"} /\ phase' = phase /\ iter.el # NULL
  /\ table' = HashDelete(table, iter.el)
  /\ records' = Restrict(records, DOMAIN records \ {iter.el})
  /\ iter' = IterNext(table', iter) /\ UNCHANGED chunk

Cleared ==
  /\ phase \in {"clear", "cleanup"} /\ phase' \in {"open", "ended"} /\ iter.el = NULL
  /\ UNCHANGED <<tableVars, iter, chunk>>

TableStep ==
  Bystands \/ Begins \/ Puts \/ (\E k : Deletes(k)) \/ Lists \/ Clears \/ Cleared

\* Every step of the program is one of these.
LEMMA StepOfTable == [Next]_vars => TableStep
<1> SUFFICES ASSUME [Next]_vars PROVE TableStep
  OBVIOUS
<1> USE DEF Elsewhere, Enter, Command, listVars
<1>1. CASE \E f \in Files : ReadFile(f)
  BY <1>1 DEF ReadFile, TableStep, Bystands
<1>2. CASE ParseStep
  BY <1>2 DEF ParseStep, TableStep, Bystands
<1>3. CASE CheckSchema
  BY <1>3 DEF CheckSchema, TableStep, Bystands
<1>4. CASE LoadRecord
  <2>1. CASE AddRecordToHash(adds[next].key, adds[next].values) /\ UNCHANGED phase
    BY <1>4, <2>1 DEF LoadRecord, TableStep, Puts
  <2>2. CASE UNCHANGED tableVars
    BY <1>4, <2>2 DEF LoadRecord, HashFatal, TableStep, Bystands
  <2> QED BY <1>4, <2>1, <2>2 DEF LoadRecord, GiveUpRecord, HashFatal
<1>5. CASE EndLoad
  BY <1>5 DEF EndLoad, TableStep, Bystands
<1>6. CASE ReturnFromLoad
  BY <1>6 DEF ReturnFromLoad, TableStep, Bystands, Begins
<1>7. CASE \E r \in AddRequests : BeginAdd(r)
  BY <1>7 DEF BeginAdd, TableStep, Bystands
<1>8. CASE CreateValue
  BY <1>8 DEF CreateValue, ReturnFromAdd, TableStep, Bystands
<1>9. CASE AddMember
  BY <1>9 DEF AddMember, ReturnFromAdd, TableStep, Bystands
<1>10. CASE AppendValue
  BY <1>10 DEF AppendValue, TableStep, Bystands
<1>11. CASE StoreValue
  <2>1. CASE AddRecordToHash(request.key, values) /\ ReturnFromAdd
    BY <1>11, <2>1 DEF StoreValue, ReturnFromAdd, TableStep, Puts
  <2>2. CASE UNCHANGED tableVars
    BY <1>11, <2>2 DEF StoreValue, ReturnFromAdd, HashFatal, TableStep, Bystands
  <2> QED BY <1>11, <2>1, <2>2 DEF StoreValue, GiveUpRecord
<1>12. CASE \E k \in DeleteKeys : DeleteRecord(k)
  <2>1. PICK k \in DeleteKeys : DeleteRecord(k)
    BY <1>12
  <2>2. CASE UNCHANGED tableVars
    BY <2>1, <2>2 DEF DeleteRecord, TableStep, Bystands
  <2>3. CASE /\ table' = Replaced(k)
             /\ records' = Restrict(records, DOMAIN records \ {HashFind(table, k)})
    <3>1. Deletes(k)
      BY <2>1, <2>3 DEF DeleteRecord, Command, Deletes
    <3> QED BY <3>1 DEF TableStep
  <2> QED BY <2>1, <2>2, <2>3 DEF DeleteRecord
<1>13. CASE BeginList
  BY <1>13 DEF BeginList, TableStep, Bystands, Begins
<1>14. CASE ListChunk
  BY <1>14 DEF ListChunk, TableStep, Lists
<1>15. CASE EndList
  BY <1>15 DEF EndList, TableStep, Bystands
<1>16. CASE BeginReload
  BY <1>16 DEF BeginReload, TableStep, Begins
<1>17. CASE BeginCleanup
  BY <1>17 DEF BeginCleanup, TableStep, Begins
<1>18. CASE ClearRecord
  BY <1>18 DEF ClearRecord, TableStep, Clears
<1>19. CASE EndClear
  BY <1>19 DEF EndClear, TableStep, Cleared
<1>20. CASE UNCHANGED vars
  BY <1>20 DEF vars, TableStep, Bystands
<1> QED BY <1>1, <1>2, <1>3, <1>4, <1>5, <1>6, <1>7, <1>8, <1>9, <1>10, <1>11, <1>12, <1>13,
           <1>14, <1>15, <1>16, <1>17, <1>18, <1>19, <1>20 DEF Next, Load, Terminated

\* An empty table is one.
LEMMA TableInit == Init => TableInv
<1>1. TableOf(EmptyTable, <<>>, {}) /\ DOMAIN EmptyTable.hh = {}
  BY EmptyTableIs DEF TableOf
<1>2. Init => records = [c \in {} |-> NULL] /\ table = EmptyTable /\ phase = "open"
  BY DEF Init
<1> HIDE DEF EmptyTable
<1>3. ASSUME records = [c \in {} |-> NULL], table = EmptyTable PROVE TableKept
  BY <1>1, <1>3 DEF TableKept
<1> QED BY <1>2, <1>3 DEF TableInv, IterKept

\* What the iteration needs to know of a table.
LEMMA HeadIs ==
  ASSUME TableKept
  PROVE  /\ NULL \notin DOMAIN records
         /\ table.head = NULL <=> DOMAIN records = {}
         /\ table.head \in DOMAIN records \cup {NULL}
         /\ \A c \in DOMAIN records \cup {NULL} : NextOf(table, c) \in DOMAIN records \cup {NULL}
         /\ DOMAIN records = {} => table = EmptyTable
<1>1. PICK w : TableOf(table, w, DOMAIN records)
  BY DEF TableKept
<1>2. NULL \notin DOMAIN records
  BY <1>1, TableOfIs, CellsFinite
<1> QED BY <1>1, <1>2, TableOfIs DEF NextOf

\* Whatever a step does to the table, it is one afterwards.
LEMMA TableStepKeeps ==
  ASSUME HashesAreNumbers, TableInv, TableStep
  PROVE  TableInv'
<1>1. TableKept /\ IterKept
  BY DEF TableInv
<1>2. PICK w : TableOf(table, w, DOMAIN records)
  BY <1>1 DEF TableKept
<1>3. UNCHANGED tableVars => TableKept'
  BY <1>1 DEF TableKept, tableVars
<1>4. CASE Bystands
  BY <1>1, <1>3, <1>4 DEF TableInv, IterKept, Bystands, Elsewhere, tableVars, IterFirst, NextOf
<1>5. CASE Begins
  <2>1. /\ iter'.el = table'.head /\ iter'.tmp = NextOf(table', table'.head)
        /\ iter' = IterFirst(table') /\ records' = records /\ table' = table
    BY <1>5 DEF Begins, tableVars, IterFirst
  <2>2. table'.head \in DOMAIN records' \cup {NULL}
    BY <1>1, <2>1, HeadIs
  <2> QED BY <1>3, <1>5, <2>1, <2>2 DEF TableInv, IterKept, Begins
<1>6. CASE Puts
  <2>1. PICK k, list : AddRecordToHash(k, list)
    BY <1>6 DEF Puts
  <2>2. TableKept'
    BY <1>1, <1>2, <2>1, AddIs
  <2> QED BY <1>6, <2>2 DEF TableInv, IterKept, Puts, Elsewhere
<1>7. CASE \E k : Deletes(k)
  <2>1. PICK k : Deletes(k)
    BY <1>7
  <2>2. TableKept'
    BY <1>1, <1>2, <2>1, DeleteIs DEF Deletes
  <2> QED BY <2>1, <2>2 DEF TableInv, IterKept, Deletes, Elsewhere
<1>8. CASE Lists
  <2>1. records' = records /\ table' = table
    BY <1>8 DEF Lists, tableVars
  <2>2. CASE Elsewhere'
    BY <1>3, <1>8, <2>2 DEF TableInv, IterKept, Lists, Elsewhere
  <2>3. CASE phase' = "list" /\ iter' = iter
    BY <1>1, <1>3, <1>8, <2>1, <2>3 DEF TableInv, IterKept, Lists
  <2>4. CASE phase' = "list" /\ iter' = IterNext(table, iter)
    <3>1. iter'.el = iter.tmp /\ iter'.tmp = NextOf(table', iter.tmp)
      BY <2>1, <2>4 DEF IterNext
    <3>2. iter.tmp \in DOMAIN records \cup {NULL}
      BY <1>1, <1>8, HeadIs DEF IterKept, Lists
    <3> QED BY <1>3, <1>8, <2>1, <2>4, <3>1, <3>2 DEF TableInv, IterKept, Lists
  <2> QED BY <1>8, <2>2, <2>3, <2>4 DEF Lists
<1>9. CASE Clears
  <2> DEFINE c == iter.el
  <2>1. iter = IterFirst(table) /\ c = table.head /\ c # NULL /\ iter.tmp = table.hh[c].next
    BY <1>1, <1>9 DEF Clears, IterKept, IterFirst, NextOf
  <2>2. c \in DOMAIN records
    BY <1>1, <2>1, HeadIs
  <2>3. TableKept' /\ table'.head = table.hh[c].next
    <3>1. table' = HashDelete(table, c) /\ records' = Restrict(records, DOMAIN records \ {c})
      BY <1>9 DEF Clears
    <3> HIDE DEF c
    <3> QED BY <1>1, <1>2, <2>1, <2>2, <3>1, RemoveIs
  <2>4. iter' = IterFirst(table')
    BY <1>9, <2>1, <2>3 DEF Clears, IterNext, IterFirst
  <2> QED BY <1>9, <2>3, <2>4 DEF TableInv, IterKept, Clears
<1>10. CASE Cleared
  <2>1. table.head = NULL /\ records' = records
    BY <1>1, <1>10 DEF Cleared, IterKept, IterFirst, tableVars
  <2>2. DOMAIN records' = {}
    BY <1>1, <2>1, HeadIs
  <2> QED BY <1>3, <1>10, <2>2 DEF TableInv, IterKept, Cleared
<1> QED BY <1>4, <1>5, <1>6, <1>7, <1>8, <1>9, <1>10 DEF TableStep

\* The invariant of the table.
LEMMA TableInvariant ==
  ASSUME HashesAreNumbers
  PROVE  Spec => []TableInv
<1>1. TableInv /\ [Next]_vars => TableInv'
  BY StepOfTable, TableStepKeeps
<1> QED BY <1>1, TableInit, PTL DEF Spec

(***************************************************************************)
(* LIST.                                                                   *)
(***************************************************************************)
\* How much of the record it stands on LIST has printed.
ChunkInv ==
  /\ \A c \in DOMAIN records : Len(records[c].values) \in Nat
  /\ chunk \in Nat
  /\ IF phase = "list" /\ iter.el # NULL
     THEN chunk <= Len(records[iter.el].values)
     ELSE chunk = 0

\* The children of a node are finitely many.
LEMMA ChildrenLength ==
  ASSUME DOMAIN heap \subseteq Nodes, NEW x
  PROVE  Len(Children(x)) \in Nat
<1> DEFINE nxt == [c \in DOMAIN heap |-> heap[c].next]
<1>1. DOMAIN nxt = DOMAIN heap /\ IsFiniteSet(DOMAIN heap)
  BY JsonAssumption, FS_Subset
<1> HIDE DEF nxt
<1>2. Walk(heap[x].child, nxt) \in Seq(DOMAIN heap)
  BY <1>1, WalkType
<1>3. Children(x) \in Seq(DOMAIN heap)
  BY <1>2, EmptySeq DEF Children, Siblings, nxt
<1> QED BY <1>3, LenProperties

\* So are the values of a record.
LEMMA ParseValuesType ==
  ASSUME DOMAIN heap \subseteq Nodes, NEW type, NEW list
  PROVE  Len(ParseValues(type, list)) \in Nat
<1>1. GetArraySize(list) \in Nat
  BY ChildrenLength DEF GetArraySize
<1> DEFINE n == GetArraySize(list)
           parsed == [i \in 1..n |-> Value(type, GetArrayItem(list, i - 1))]
           T == {parsed[i] : i \in 1..n}
<1>2. parsed \in Seq(T)
  <2>1. parsed \in [1..n -> T]
    OBVIOUS
  <2> HIDE DEF parsed, T, n
  <2> QED BY <1>1, <2>1 DEF n
<1>3. Len(parsed) \in Nat /\ Len(<<>>) = 0
  BY <1>2, LenProperties
<1>4. ParseValues(type, list) \in {<<>>, parsed}
  BY DEF ParseValues
<1> QED BY <1>3, <1>4

\* LIST counts up to the number of values, and begins again with the next record.
LEMMA ChunkStep ==
  ASSUME HashesAreNumbers, TableInv, ChunkInv, TableStep, DOMAIN heap \subseteq Nodes
  PROVE  ChunkInv'
<1>1. TableKept /\ IterKept
  BY DEF TableInv
<1>2. PICK w : TableOf(table, w, DOMAIN records)
  BY <1>1 DEF TableKept
<1>3. CASE Bystands
  BY <1>3 DEF ChunkInv, Bystands, Elsewhere, tableVars
<1>4. CASE Begins
  <2>1. chunk' = 0 /\ records' = records /\ iter'.el \in DOMAIN records \cup {NULL}
    BY <1>1, <1>4, HeadIs DEF ChunkInv, Begins, tableVars, IterFirst
  <2> QED BY <2>1 DEF ChunkInv
<1>5. CASE Puts
  <2>1. PICK k, list : AddRecordToHash(k, list)
    BY <1>5 DEF Puts
  <2> DEFINE A == DOMAIN records
             old == HashFind(table, k)
             c == FreeCell
             new == [key |-> k, values |-> ParseValues(k.type, list)]
  <2>2. /\ DOMAIN records' = (A \ {old}) \cup {c} /\ records'[c] = new
        /\ \A x \in A \ {old} : records'[x] = records[x]
    BY <1>1, <1>2, <2>1, AddIs
  <2>3. Len(new.values) \in Nat
    BY ParseValuesType
  <2> HIDE DEF old, c, new
  <2>4. \A x \in DOMAIN records' : Len(records'[x].values) \in Nat
    BY <2>2, <2>3 DEF ChunkInv
  <2> QED BY <1>5, <2>4 DEF ChunkInv, Puts, Elsewhere
<1>6. CASE \E k : Deletes(k)
  <2>1. PICK k : Deletes(k)
    BY <1>6
  <2>2. \A x \in DOMAIN records' : x \in DOMAIN records /\ records'[x] = records[x]
    BY <2>1 DEF Deletes, Restrict
  <2> QED BY <2>1, <2>2 DEF ChunkInv, Deletes, Elsewhere
<1>7. CASE Lists
  <2>1. records' = records /\ iter.el \in DOMAIN records
    BY <1>1, <1>7 DEF Lists, tableVars, IterKept
  <2>2. CASE phase' = "list" /\ iter' = iter
             /\ chunk < Len(records[iter.el].values) /\ chunk' = chunk + 1
    <3>1. chunk \in Nat /\ Len(records[iter.el].values) \in Nat
      BY <2>1 DEF ChunkInv
    <3>2. chunk' \in Nat /\ chunk' <= Len(records[iter.el].values)
      BY <2>2, <3>1
    <3> QED BY <1>7, <2>1, <2>2, <3>2 DEF ChunkInv, Lists
  <2>3. CASE phase' = "list" /\ iter' = IterNext(table, iter) /\ chunk' = 0
    <3>1. iter'.el \in DOMAIN records \cup {NULL}
      BY <1>1, <1>7, <2>1, <2>3, HeadIs DEF IterKept, IterNext, Lists
    <3> QED BY <2>1, <2>3, <3>1 DEF ChunkInv
  <2>4. CASE Elsewhere' /\ chunk' = 0
    BY <2>1, <2>4 DEF ChunkInv, Elsewhere
  <2> QED BY <1>7, <2>2, <2>3, <2>4 DEF Lists
<1>8. CASE Clears
  <2>1. \A x \in DOMAIN records' : x \in DOMAIN records /\ records'[x] = records[x]
    BY <1>8 DEF Clears, Restrict
  <2> QED BY <1>8, <2>1 DEF ChunkInv, Clears
<1>9. CASE Cleared
  BY <1>9 DEF ChunkInv, Cleared, tableVars
<1> QED BY <1>3, <1>4, <1>5, <1>6, <1>7, <1>8, <1>9 DEF TableStep

\* The invariant of the place in a record.
LEMMA ChunkInvariant ==
  ASSUME HashesAreNumbers
  PROVE  Spec => []ChunkInv
<1>1. Init => ChunkInv
  BY DEF Init, ChunkInv
<1>2. TableInv /\ NodesInv /\ ChunkInv /\ [Next]_vars => ChunkInv'
  BY StepOfTable, ChunkStep, HeapOfNodes
<1> QED BY <1>1, <1>2, TableInvariant, NodesInvariant, PTL DEF Spec

\* A chunk no longer than the first buffer fits after one doubling.
LEMMA DoublingIsEnough ==
  ASSUME NEW n \in 0..InitialSize, NEW o \in Nat, NEW size \in Nat,
         o < size, InitialSize <= size
  PROVE  /\ Grown(n, o, size) \in Nat
         /\ o + n < Grown(n, o, size)
         /\ InitialSize <= Grown(n, o, size)
BY BufferAssumption DEF Grown, Fits

ListInv ==
  phase = "list" /\ ChunksFit =>
    /\ list_offset \in Nat /\ buf_size \in Nat
    /\ list_offset < buf_size /\ InitialSize <= buf_size

\* Only LIST writes to its buffer.
LEMMA ListStep ==
  ASSUME ListInv, TableInv, ChunkInv, [Next]_vars
  PROVE  ListInv'
<1> SUFFICES ASSUME phase' = "list", ChunksFit'
             PROVE  /\ list_offset' \in Nat /\ buf_size' \in Nat
                    /\ list_offset' < buf_size' /\ InitialSize <= buf_size'
    BY DEF ListInv
<1> USE DEF Enter, Command
<1>1. CASE BeginList
  <2>1. buf_size' = InitialSize /\ list_offset' = HeaderLength BY <1>1 DEF BeginList
  <2>2. QED BY <2>1, BufferAssumption
<1>2. CASE ListChunk
  <2> DEFINE r == records[iter.el]
             n == ChunkLength(r, chunk)
  <2>1. phase = "list" /\ iter.el # NULL /\ records' = records
        /\ buf_size' = Grown(n, list_offset, buf_size) /\ list_offset' = list_offset + n
        BY <1>2 DEF ListChunk, tableVars
  <2>2. ChunksFit BY <2>1 DEF ChunksFit
  <2>3. list_offset \in Nat /\ buf_size \in Nat
        /\ list_offset < buf_size /\ InitialSize <= buf_size
        BY <2>1, <2>2 DEF ListInv
  <2>4. iter.el \in DOMAIN records
    BY <2>1 DEF TableInv, IterKept
  <2>5. Len(r.values) \in Nat /\ chunk \in 0..Len(r.values)
    <3>1. Len(r.values) \in Nat /\ chunk \in Nat /\ chunk <= Len(r.values)
      BY <2>1, <2>4 DEF ChunkInv
    <3> QED BY <3>1
  <2>6. n \in 0..InitialSize
    BY <2>2, <2>4, <2>5 DEF ChunksFit
  <2> HIDE DEF n
  <2>7. QED BY <2>1, <2>3, <2>6, DoublingIsEnough, BufferAssumption
<1>3. CASE UNCHANGED vars
  <2>1. phase' = phase /\ records' = records /\ list_offset' = list_offset
        /\ buf_size' = buf_size
        BY <1>3 DEF vars, tableVars, listVars
  <2>2. ChunksFit BY <2>1 DEF ChunksFit
  <2>3. QED BY <2>1, <2>2 DEF ListInv
<1>4. CASE Terminated BY <1>3, <1>4 DEF Terminated
<1>5. ASSUME NEW f \in Files, ReadFile(f) PROVE FALSE BY <1>5 DEF ReadFile
<1>6. CASE ParseStep BY <1>6 DEF ParseStep
<1>7. CASE CheckSchema BY <1>7 DEF CheckSchema
<1>8. CASE LoadRecord BY <1>8 DEF LoadRecord, HashFatal
<1>9. CASE EndLoad BY <1>9 DEF EndLoad
<1>10. CASE ReturnFromLoad BY <1>10 DEF ReturnFromLoad
<1>11. ASSUME NEW r \in AddRequests, BeginAdd(r) PROVE FALSE BY <1>11 DEF BeginAdd
<1>12. CASE CreateValue BY <1>12 DEF CreateValue, ReturnFromAdd
<1>13. CASE AddMember BY <1>13 DEF AddMember, ReturnFromAdd
<1>14. CASE AppendValue BY <1>14 DEF AppendValue
<1>15. CASE StoreValue BY <1>15 DEF StoreValue, ReturnFromAdd, HashFatal
<1>16. ASSUME NEW k \in DeleteKeys, DeleteRecord(k) PROVE FALSE BY <1>16 DEF DeleteRecord
<1>17. CASE EndList BY <1>17 DEF EndList
<1>18. CASE BeginReload BY <1>18 DEF BeginReload
<1>19. CASE BeginCleanup BY <1>19 DEF BeginCleanup
<1>20. CASE ClearRecord BY <1>20 DEF ClearRecord
<1>21. CASE EndClear BY <1>21 DEF EndClear
<1>22. QED
  BY <1>1, <1>2, <1>3, <1>4, <1>5, <1>6, <1>7, <1>8, <1>9, <1>10, <1>11, <1>12, <1>13,
     <1>14, <1>15, <1>16, <1>17, <1>18, <1>19, <1>20, <1>21
  DEF Next, Load

\* LIST prints inside its buffer, whatever the records and their number, if no
\* chunk is longer than the first buffer.
THEOREM ListStaysInBuffer ==
  ASSUME HashesAreNumbers
  PROVE  Spec => []ListInBuffer
<1>1. Init => ListInv
  BY DEF Init, ListInv
<1>2. ListInv /\ TableInv /\ ChunkInv /\ [Next]_vars => ListInv'
  BY ListStep
<1>3. ListInv => ListInBuffer
  BY DEF ListInv, ListInBuffer
<1> QED BY <1>1, <1>2, <1>3, TableInvariant, ChunkInvariant, PTL DEF Spec

\* The cells in use are those the table holds, under their own keys, and none
\* is in use at the end.
THEOREM TableHoldsRecords ==
  ASSUME HashesAreNumbers
  PROVE  Spec => []RecordsOwned
<1>1. TableInv => RecordsOwned
  <2> SUFFICES ASSUME TableInv PROVE RecordsOwned
    OBVIOUS
  <2>1. PICK w : TableOf(table, w, DOMAIN records)
    BY DEF TableInv, TableKept
  <2>2. AppOrder(table) = w /\ Enumerates(w, Len(w), DOMAIN records) /\ DOMAIN table.hh = DOMAIN records
    BY <2>1, TableOfIs
  <2>3. DOMAIN records = {AppOrder(table)[i] : i \in 1..Len(AppOrder(table))}
    <3> DEFINE A == DOMAIN records
    <3>1. A = {w[i] : i \in 1..Len(w)}
      <4>1. Enumerates(w, Len(w), A)
        BY <2>2
      <4> HIDE DEF A
      <4>2. \A c \in A : \E i \in 1..Len(w) : c = w[i]
        BY <4>1 DEF Enumerates
      <4>3. \A i \in 1..Len(w) : w[i] \in A
        BY <4>1 DEF Enumerates
      <4> QED BY <4>2, <4>3
    <3> QED BY <2>2, <3>1
  <2> QED BY <2>2, <2>3 DEF RecordsOwned, TableInv, TableKept, IterKept
<1> QED BY <1>1, TableInvariant, PTL

\* The links, counts and buckets of the table agree and every record is found
\* by its key, however often it was split.
THEOREM TableStaysSound ==
  ASSUME HashesAreNumbers
  PROVE  Spec => []TableSound
<1>1. TableInv => TableSound
  BY TableOfSound DEF TableInv, TableKept, TableSound
<1> QED BY <1>1, TableInvariant, PTL

\* Where HASH_ITER stands in a sound table.
LEMMA IterationAlive ==
  ASSUME TableInv
  PROVE  IterAlive
<1> SUFFICES ASSUME phase \in {"clear", "cleanup", "list"}
             PROVE  IF iter.el = NULL
                    THEN iter.tmp = NULL /\ (phase # "list" => table = EmptyTable)
                    ELSE iter.el \in DOMAIN records /\ iter.tmp = NextOf(table, iter.el)
  BY DEF IterAlive
<1>1. TableKept /\ IterKept
  BY DEF TableInv
<1>2. CASE phase = "list"
  BY <1>1, <1>2 DEF IterKept, NextOf
<1>3. CASE phase # "list"
  <2>1. iter.el = table.head /\ iter.tmp = NextOf(table, table.head)
    BY <1>1, <1>3 DEF IterKept, IterFirst
  <2> QED BY <1>1, <1>3, <2>1, HeadIs DEF NextOf
<1> QED BY <1>2, <1>3

\* HASH_ITER stands on an element of the table or is through with it, though
\* the body of the loop deletes the element.
THEOREM IterationStaysAlive ==
  ASSUME HashesAreNumbers
  PROVE  Spec => []IterAlive
BY IterationAlive, TableInvariant, PTL

(***************************************************************************)
(* The table as an ordered map.                                            *)
(***************************************************************************)
Entry(r, c) == [key |-> r[c].key, value |-> r[c].values]

EntriesOf(w, r) == [i \in 1..Len(w) |-> Entry(r, w[i])]

EntrySet(r, A) == {Entry(r, c) : c \in A}

\* The entries are those of the insertion order.
LEMMA EntriesAre ==
  /\ Entries = EntriesOf(AppOrder(table), records)
  /\ Entries' = EntriesOf(AppOrder(table'), records')
BY DEF Entries, EntriesOf, Entry

\* One entry for each cell.
LEMMA EntriesOfIs ==
  ASSUME NEW A, NEW w \in Seq(A), NEW r
  PROVE  /\ EntriesOf(w, r) \in Seq(EntrySet(r, A))
         /\ Len(EntriesOf(w, r)) = Len(w)
         /\ \A i \in 1..Len(w) : EntriesOf(w, r)[i] = Entry(r, w[i])
<1> DEFINE S == EntrySet(r, A)
           n == Len(w)
<1>1. n \in Nat /\ \A i \in 1..n : w[i] \in A
  BY LenProperties
<1>2. EntriesOf(w, r) \in [1..n -> S]
  BY <1>1 DEF EntriesOf, EntrySet
<1>3. DOMAIN EntriesOf(w, r) = 1..n /\ \A i \in 1..n : EntriesOf(w, r)[i] = Entry(r, w[i])
  BY DEF EntriesOf
<1> HIDE DEF S, n
<1>4. EntriesOf(w, r) \in Seq(S)
  BY <1>1, <1>2
<1>5. Len(EntriesOf(w, r)) = n
  BY <1>1, <1>3, <1>4, LenProperties
<1> QED BY <1>3, <1>4, <1>5 DEF S, n

\* Only the records of its cells matter.
LEMMA EntriesStay ==
  ASSUME NEW A, NEW w \in Seq(A), NEW r, NEW r2, \A c \in A : r2[c] = r[c]
  PROVE  EntriesOf(w, r2) = EntriesOf(w, r)
<1>1. \A i \in 1..Len(w) : Entry(r2, w[i]) = Entry(r, w[i])
  BY LenProperties DEF Entry
<1> QED BY <1>1 DEF EntriesOf

\* A cell at the end is an entry at the end.
LEMMA EntriesAppend ==
  ASSUME NEW A, NEW v \in Seq(A), NEW c, NEW r
  PROVE  EntriesOf(Append(v, c), r) = Append(EntriesOf(v, r), Entry(r, c))
<1> DEFINE B == A \cup {c}
           z == Append(v, c)
           n == Len(v)
           x == EntriesOf(v, r)
           e == Entry(r, c)
           y == EntriesOf(z, r)
           T == EntrySet(r, B)
<1>1. v \in Seq(B) /\ c \in B /\ n \in Nat
  BY LenProperties
<1>2. z \in Seq(B) /\ Len(z) = n + 1 /\ \A i \in 1..n + 1 : z[i] = IF i = n + 1 THEN c ELSE v[i]
  BY <1>1, AppendProperties
<1>3. /\ x \in Seq(T) /\ Len(x) = n /\ \A i \in 1..n : x[i] = Entry(r, v[i])
      /\ y \in Seq(T) /\ Len(y) = n + 1 /\ \A i \in 1..n + 1 : y[i] = Entry(r, z[i])
      /\ e \in T
  <2> HIDE DEF z, B
  <2>1. x \in Seq(T) /\ Len(x) = n /\ \A i \in 1..n : x[i] = Entry(r, v[i])
    BY <1>1, EntriesOfIs
  <2>2. y \in Seq(T) /\ Len(y) = Len(z) /\ \A i \in 1..Len(z) : y[i] = Entry(r, z[i])
    BY <1>2, EntriesOfIs
  <2>3. y \in Seq(T) /\ Len(y) = n + 1 /\ \A i \in 1..n + 1 : y[i] = Entry(r, z[i])
    BY <1>2, <2>2
  <2>4. e \in T
    BY <1>1 DEF EntrySet
  <2> QED BY <2>1, <2>3, <2>4
<1> HIDE DEF x, y, z, e, T, B
<1>4. Append(x, e) \in Seq(T) /\ Len(Append(x, e)) = n + 1
      /\ \A i \in 1..n + 1 : Append(x, e)[i] = IF i = n + 1 THEN e ELSE x[i]
  BY <1>3, AppendProperties
<1>5. \A i \in 1..n + 1 : Append(x, e)[i] = y[i]
  BY <1>1, <1>2, <1>3, <1>4 DEF e
<1>6. Append(x, e) = y
  BY <1>3, <1>4, <1>5, SeqEqual
<1> QED BY <1>6 DEF x, y, z, e

\* A list without one of its members.
LEMMA RemovedType ==
  ASSUME NEW A, NEW w \in Seq(A), NEW i \in 1..Len(w)
  PROVE  /\ Removed(w, Len(w), i) \in Seq(A)
         /\ Len(Removed(w, Len(w), i)) = Len(w) - 1
         /\ \A j \in 1..Len(w) - 1 :
              Removed(w, Len(w), i)[j] = IF j < i THEN w[j] ELSE w[j + 1]
<1> DEFINE n == Len(w)
           v == Removed(w, n, i)
<1>1. n \in Nat \ {0} /\ i \in 1..n /\ \A j \in 1..n : w[j] \in A
  BY LenProperties
<1>2. n - 1 \in Nat /\ \A j \in 1..n - 1 : j \in 1..n /\ j + 1 \in 1..n
  BY <1>1
<1> HIDE DEF n
<1>3. v \in [1..n - 1 -> A]
  BY <1>1, <1>2 DEF Removed
<1>4. \A j \in 1..n - 1 : v[j] = IF j < i THEN w[j] ELSE w[j + 1]
  BY DEF Removed
<1> HIDE DEF v
<1>5. v \in Seq(A)
  BY <1>2, <1>3
<1>6. Len(v) = n - 1
  BY <1>2, <1>3, <1>5, LenProperties
<1> QED BY <1>4, <1>5, <1>6 DEF n, v

\* Without the entry of a key at i, what is left are its other entries.
LEMMA WithoutIs ==
  ASSUME NEW A, NEW w \in Seq(A), Entries = EntriesOf(w, records), NEW i \in 1..Len(w), NEW k,
         \A j \in 1..Len(w) : records[w[j]].key = k <=> j = i
  PROVE  Map!Without(k) = EntriesOf(Removed(w, Len(w), i), records)
<1> DEFINE n == Len(w)
           es == Entries
           v == Removed(w, n, i)
           vs == EntriesOf(v, records)
           S == EntrySet(records, A)
           l == SubSeq(es, 1, i - 1)
           r == SubSeq(es, i + 1, n)
<1>1. n \in Nat /\ i \in 1..n
  BY LenProperties
<1>2. es \in Seq(S) /\ Len(es) = n /\ \A j \in 1..n : es[j] = Entry(records, w[j])
  BY EntriesOfIs
<1>3. v \in Seq(A) /\ Len(v) = n - 1 /\ \A j \in 1..n - 1 : v[j] = IF j < i THEN w[j] ELSE w[j + 1]
  BY RemovedType
<1>4. vs \in Seq(S) /\ Len(vs) = n - 1 /\ \A j \in 1..n - 1 : vs[j] = Entry(records, v[j])
  <2> HIDE DEF v
  <2>1. vs \in Seq(S) /\ Len(vs) = Len(v) /\ \A j \in 1..Len(v) : vs[j] = Entry(records, v[j])
    BY <1>3, EntriesOfIs
  <2> QED BY <1>3, <2>1
<1>5. ASSUME NEW j \in 1..n PROVE es[j].key = k <=> j = i
  <2>1. es[j] = Entry(records, w[j])
    BY <1>2
  <2>2. Entry(records, w[j]).key = records[w[j]].key
    BY DEF Entry
  <2> QED BY <2>1, <2>2
<1> HIDE DEF es, vs, v, S, n
<1>6. Map!Without(k) = l \o r
  <2>1. \E j \in 1..Len(es) : es[j].key = k
    BY <1>1, <1>2, <1>5
  <2>2. (CHOOSE j \in 1..Len(es) : es[j].key = k) = i
    BY <1>1, <1>2, <1>5
  <2> QED BY <1>2, <2>1, <2>2 DEF Map!Without, es
<1>7. /\ l \in Seq(S) /\ Len(l) = i - 1 /\ \A j \in 1..i - 1 : l[j] = es[j]
      /\ r \in Seq(S) /\ Len(r) = n - i /\ \A j \in 1..n - i : r[j] = es[i + j]
  <2>1. /\ l \in Seq(S)
        /\ Len(l) = IF 1 <= i - 1 THEN i - 1 - 1 + 1 ELSE 0
        /\ \A j \in 1..i - 1 - 1 + 1 : l[j] = es[1 + j - 1]
    BY <1>1, <1>2, SubSeqProperties
  <2>2. /\ r \in Seq(S)
        /\ Len(r) = IF i + 1 <= n THEN n - (i + 1) + 1 ELSE 0
        /\ \A j \in 1..n - (i + 1) + 1 : r[j] = es[i + 1 + j - 1]
    BY <1>1, <1>2, SubSeqProperties
  <2> HIDE DEF l, r
  <2> QED BY <1>1, <2>1, <2>2
<1> HIDE DEF l, r
<1>8. /\ l \o r \in Seq(S) /\ Len(l \o r) = n - 1
      /\ \A j \in 1..n - 1 : (l \o r)[j] = IF j < i THEN es[j] ELSE es[j + 1]
  <2>1. /\ l \o r \in Seq(S)
        /\ Len(l \o r) = Len(l) + Len(r)
        /\ \A j \in 1..Len(l) + Len(r) :
             (l \o r)[j] = IF j <= Len(l) THEN l[j] ELSE r[j - Len(l)]
    BY <1>7, ConcatProperties
  <2>2. Len(l) + Len(r) = n - 1
    BY <1>1, <1>7
  <2>3. ASSUME NEW j \in 1..n - 1 PROVE (l \o r)[j] = IF j < i THEN es[j] ELSE es[j + 1]
    <3>1. CASE j < i
      BY <1>1, <1>7, <2>1, <2>2, <3>1
    <3>2. CASE ~(j < i)
      <4>1. j - (i - 1) \in 1..n - i /\ i + (j - (i - 1)) = j + 1 /\ ~(j <= i - 1)
        BY <1>1, <3>2
      <4> QED BY <1>7, <2>1, <2>2, <3>2, <4>1
    <3> QED BY <3>1, <3>2
  <2> QED BY <2>1, <2>2, <2>3
<1>9. ASSUME NEW j \in 1..n - 1 PROVE (l \o r)[j] = vs[j]
  <2>1. j \in 1..n /\ j + 1 \in 1..n
    BY <1>1
  <2>2. vs[j] = Entry(records, IF j < i THEN w[j] ELSE w[j + 1])
    BY <1>3, <1>4
  <2>3. es[j] = Entry(records, w[j]) /\ es[j + 1] = Entry(records, w[j + 1])
    BY <1>2, <2>1
  <2> QED BY <1>8, <2>2, <2>3
<1>10. l \o r = vs
  BY <1>4, <1>8, <1>9, SeqEqual
<1> QED BY <1>6, <1>10 DEF vs, v, n

\* Taking out the entry of a key that is not there changes nothing.
LEMMA WithoutMissing ==
  ASSUME NEW A, NEW w \in Seq(A), Entries = EntriesOf(w, records), NEW k,
         \A c \in A : records[c].key # k
  PROVE  Map!Without(k) = EntriesOf(w, records)
<1>1. /\ Len(Entries) = Len(w)
      /\ \A i \in 1..Len(w) : Entries[i] = Entry(records, w[i]) /\ w[i] \in A
  BY EntriesOfIs, LenProperties
<1>2. \A i \in 1..Len(w) : Entry(records, w[i]).key = records[w[i]].key
  BY DEF Entry
<1>3. ~ \E i \in 1..Len(Entries) : Entries[i].key = k
  BY <1>1, <1>2
<1> QED BY <1>3 DEF Map!Without

\* What is left of the list is what is left of the map.
LEMMA LeftIs ==
  ASSUME NEW A, NEW w \in Seq(A), Enumerates(w, Len(w), A), NULL \notin A,
         Entries = EntriesOf(w, records), NEW old, NEW v, Left(v, w, A, old), NEW k,
         KeyIs(A, old, k)
  PROVE  v \in Seq(A \ {old}) /\ Map!Without(k) = EntriesOf(v, records)
<1>1. CASE old = NULL /\ v = w
  <2>1. A \ {old} = A
    BY <1>1
  <2> QED BY <1>1, <2>1, WithoutMissing DEF KeyIs
<1>2. CASE /\ old \in A
           /\ \E i \in 1..Len(w) : w[i] = old /\ v = Removed(w, Len(w), i)
  <2>1. PICK i \in 1..Len(w) : w[i] = old /\ v = Removed(w, Len(w), i)
    BY <1>2
  <2>2. \A j \in 1..Len(w) : w[j] \in A /\ (w[j] = old <=> j = i)
    BY <2>1 DEF Enumerates
  <2>3. \A j \in 1..Len(w) : records[w[j]].key = k <=> j = i
    BY <1>2, <2>1, <2>2 DEF KeyIs
  <2>4. Map!Without(k) = EntriesOf(v, records)
    BY <2>1, <2>3, WithoutIs
  <2>5. /\ v \in Seq(A) /\ Len(v) = Len(w) - 1 /\ Len(w) \in Nat
        /\ \A j \in 1..Len(w) - 1 : v[j] = IF j < i THEN w[j] ELSE w[j + 1]
    BY <2>1, RemovedType, LenProperties
  <2>6. \A j \in 1..Len(v) : v[j] \in A \ {old}
    <3> TAKE j \in 1..Len(v)
    <3>1. j \in 1..Len(w) - 1 /\ j \in 1..Len(w) /\ j + 1 \in 1..Len(w)
      BY <2>5
    <3>2. CASE j < i
      BY <2>2, <2>5, <3>1, <3>2
    <3>3. CASE ~(j < i)
      <4>1. j + 1 # i
        BY <3>1, <3>3
      <4> QED BY <2>2, <2>5, <3>1, <3>3, <4>1
    <3> QED BY <3>2, <3>3
  <2>7. v \in Seq(A \ {old})
    <3>1. v = [j \in 1..Len(v) |-> v[j]] /\ Len(v) \in Nat
      BY <2>5, LenProperties
    <3>2. v \in [1..Len(v) -> A \ {old}]
      BY <2>6, <3>1
    <3> QED BY <3>1, <3>2
  <2> QED BY <2>4, <2>7
<1> QED BY <1>1, <1>2 DEF Left

\* Every step is one of the ordered map, or none.
LEMMA TableStepMaps ==
  ASSUME HashesAreNumbers, TableInv, TableStep
  PROVE  [Map!Next]_Entries
<1>1. TableKept /\ IterKept
  BY DEF TableInv
<1>2. PICK w : TableOf(table, w, DOMAIN records)
  BY <1>1 DEF TableKept
<1> DEFINE A == DOMAIN records
<1>3. /\ w \in Seq(A) /\ Enumerates(w, Len(w), A) /\ NULL \notin A
      /\ Entries = EntriesOf(w, records)
      /\ \A c, d \in A : records[c].key = records[d].key => c = d
  BY <1>1, <1>2, TableOfIs, CellsFinite, EntriesAre DEF TableKept
<1> HIDE DEF A
<1>4. ASSUME UNCHANGED tableVars PROVE Entries' = Entries
  BY <1>4, EntriesAre DEF tableVars
<1>5. ASSUME NEW old \in A, Left(AppOrder(table'), w, A, old),
             \A x \in A \ {old} : records'[x] = records[x]
      PROVE  Map!Next
  <2> DEFINE k == records[old].key
             v == AppOrder(table')
  <2>1. v \in Seq(A \ {old}) /\ Map!Without(k) = EntriesOf(v, records)
    <3>1. KeyIs(A, old, k)
      BY <1>3 DEF KeyIs
    <3>2. Left(v, w, A, old)
      BY <1>5
    <3> HIDE DEF v, k
    <3> QED BY <1>3, <3>1, <3>2, LeftIs
  <2>2. Entries' = Map!Without(k)
    <3> HIDE DEF v, k
    <3>1. EntriesOf(v, records') = EntriesOf(v, records)
      BY <1>5, <2>1, EntriesStay
    <3> QED BY <2>1, <3>1, EntriesAre DEF v
  <2>3. \E i \in 1..Len(Entries) : Entries[i].key = k
    <3>1. PICK i \in 1..Len(w) : w[i] = old
      BY <1>3 DEF Enumerates
    <3>2. Len(Entries) = Len(w) /\ Entries[i] = Entry(records, w[i])
      BY <1>3, EntriesOfIs
    <3> QED BY <3>1, <3>2 DEF Entry
  <2> QED BY <2>2, <2>3 DEF Map!Next, Map!Remove
<1>6. CASE Bystands \/ Begins \/ Lists \/ Cleared
  BY <1>4, <1>6 DEF Bystands, Begins, Lists, Cleared
<1>7. CASE Puts
  <2>1. PICK k, list : AddRecordToHash(k, list)
    BY <1>7 DEF Puts
  <2> DEFINE old == HashFind(table, k)
             c == FreeCell
             new == [key |-> k, values |-> ParseValues(k.type, list)]
             e == Entry(records', c)
  <2>2. /\ records'[c] = new
        /\ \A x \in A \ {old} : records'[x] = records[x]
        /\ KeyIs(A, old, k)
    BY <1>1, <1>2, <2>1, AddIs DEF A
  <2>3. \E v : Left(v, w, A, old) /\ AppOrder(table') = Append(v, c)
    BY <1>1, <1>2, <2>1, AddIs DEF A
  <2> HIDE DEF old, c
  <2>4. PICK v : Left(v, w, A, old) /\ AppOrder(table') = Append(v, c)
    BY <2>3
  <2>5. v \in Seq(A \ {old}) /\ Map!Without(k) = EntriesOf(v, records)
    BY <1>3, <2>2, <2>4, LeftIs
  <2>6. Entries' = Append(Map!Without(k), e)
    <3>1. EntriesOf(v, records') = EntriesOf(v, records)
      <4> DEFINE B == A \ {old}
                 r == records'
      <4>1. v \in Seq(B) /\ \A x \in B : r[x] = records[x]
        BY <2>2, <2>5
      <4> HIDE DEF B, r
      <4>2. EntriesOf(v, r) = EntriesOf(v, records)
        BY <4>1, EntriesStay
      <4> QED BY <4>2 DEF r
    <3>2. EntriesOf(Append(v, c), records') = Append(EntriesOf(v, records'), e)
      BY <2>5, EntriesAppend
    <3> QED BY <2>4, <2>5, <3>1, <3>2, EntriesAre
  <2>7. e.key = k
    BY <2>2 DEF Entry
  <2> DEFINE x == Map!Without(k)
             S == EntrySet(records, A \ {old}) \cup {e}
  <2>8. x \in Seq(S) /\ e \in S
    <3> DEFINE T == EntrySet(records, A \ {old})
    <3>1. x \in Seq(T)
      BY <2>5, EntriesOfIs
    <3> HIDE DEF x, T, e
    <3>2. x \in Seq(T \cup {e})
      BY <3>1
    <3> QED BY <3>2 DEF T
  <2> HIDE DEF x, S, e
  <2>9. Entries' # <<>> /\ Entries'[Len(Entries')] = e
    <3>1. /\ Len(Append(x, e)) = Len(x) + 1 /\ Append(x, e)[Len(x) + 1] = e
          /\ Len(x) \in Nat
      BY <2>8, AppendProperties, LenProperties
    <3>2. Append(x, e) # <<>>
      BY <3>1, EmptySeq
    <3> QED BY <2>6, <3>1, <3>2 DEF x
  <2> QED BY <2>6, <2>7, <2>9 DEF Map!Next, Map!Put
<1>8. CASE \E k : Deletes(k)
  <2>1. PICK k : Deletes(k)
    BY <1>8
  <2> DEFINE old == HashFind(table, k)
  <2>2. \/ table' = table /\ records' = records
        \/ /\ old \in A
           /\ \A x \in A \ {old} : records'[x] = records[x]
           /\ \E i \in 1..Len(w) : w[i] = old /\ AppOrder(table') = Removed(w, Len(w), i)
    BY <1>1, <1>2, <2>1, DeleteIs DEF Deletes, A
  <2> HIDE DEF old
  <2> QED BY <1>4, <1>5, <2>2 DEF Left, tableVars
<1>9. CASE Clears
  <2> DEFINE c == iter.el
  <2>1. c \in A
    BY <1>1, <1>9, HeadIs DEF Clears, IterKept, IterFirst, A
  <2>2. table' = HashDelete(table, c) /\ records' = Restrict(records, A \ {c})
    BY <1>9 DEF Clears, A
  <2> HIDE DEF c
  <2>3. /\ \A x \in A \ {c} : records'[x] = records[x]
        /\ \E i \in 1..Len(w) : w[i] = c /\ AppOrder(table') = Removed(w, Len(w), i)
    BY <1>1, <1>2, <2>1, <2>2, RemoveIs DEF A
  <2> QED BY <1>5, <2>1, <2>3 DEF Left
<1> QED BY <1>6, <1>7, <1>8, <1>9 DEF TableStep

\* The hash table with its lists, buckets and expansions implements an
\* ordered map: its users cannot tell the two apart.
THEOREM TableIsOrderedMap ==
  ASSUME HashesAreNumbers
  PROVE  Spec => ImplementsOrderedMap
<1>1. Init => Map!Init
  <2>1. AppOrder(EmptyTable) = <<>>
    BY EmptyTableIs
  <2>2. Init => Entries = EntriesOf(<<>>, records)
    BY <2>1, EntriesAre DEF Init
  <2>3. EntriesOf(<<>>, records) = <<>>
    BY EmptySeq DEF EntriesOf
  <2> QED BY <2>2, <2>3 DEF Map!Init
<1>2. TableInv /\ [Next]_vars => [Map!Next]_Entries
  BY StepOfTable, TableStepMaps
<1> QED BY <1>1, <1>2, TableInvariant, PTL DEF Spec, ImplementsOrderedMap, Map!Spec

(***************************************************************************)
(* The types.  What a document adds is read off the nodes by recursion     *)
(* (FileAdds); that it is finite, so that the load has a place in it, rests *)
(* on the sequences it is joined from.  The rest is control.               *)
(***************************************************************************)
\* The parts of a sequence of sequences joined: a recursion over their number.
LEMMA FlattenType ==
  ASSUME NEW S, NEW p \in Seq(Seq(S))
  PROVE  FlattenSeq(p) \in Seq(S)
<1>1. PICK n \in Nat : n = Len(p)
  BY LenProperties
<1>2. \A k \in 1..n : p[k] \in Seq(S)
  BY <1>1, ElementOfSeq
<1>3. CASE n = 0
  <2>1. FlattenSeq(p) = p
    BY <1>1, <1>3 DEF FlattenSeq
  <2>2. p = <<>>
    BY <1>1, <1>3, EmptySeq
  <2> QED BY <2>1, <2>2, EmptySeq
<1>4. CASE n # 0
  <2> DEFINE flatten == CHOOSE g : g = [i \in 1..Len(p) |-> IF i = 1 THEN p[i] ELSE g[i - 1] \o p[i]]
             T == Seq(S)
             step == [q \in (1..n) \X T |-> q[2] \o p[q[1]]]
  <2>1. step \in [(1..n) \X T -> T]
    <3>1. \A q \in (1..n) \X T : q[2] \o p[q[1]] \in T
      BY <1>2, ConcatProperties
    <3> HIDE DEF T
    <3> QED BY <3>1
  <2>2. <<>> \in T
    BY EmptySeq
  <2>3. PICK f \in [0..n -> T] : Recursive(f, n, <<>>, step)
    <3> HIDE DEF step, T
    <3> QED BY <2>1, <2>2, RecursiveFunction
  <2>4. f[0] = <<>>
    BY <2>3 DEF Recursive
  <2>5. ASSUME NEW i \in 1..n PROVE f[i] = f[i - 1] \o p[i] /\ f[i - 1] \in T
    <3>1. i - 1 \in 0..n
      OBVIOUS
    <3>2. f[i - 1] \in T
      BY <3>1
    <3>3. f[i] = step[<<i, f[i - 1]>>]
      BY <2>3 DEF Recursive
    <3> HIDE DEF T
    <3>4. step[<<i, f[i - 1]>>] = f[i - 1] \o p[i]
      BY <3>2
    <3> QED BY <3>2, <3>3, <3>4
  <2>6. 1 \in 1..n /\ f[1] = p[1]
    <3>1. 1 \in 1..n
      BY <1>4
    <3>2. p[1] \in Seq(S)
      BY <1>2, <3>1
    <3> HIDE DEF T, step
    <3>3. f[1] = f[0] \o p[1]
      <4>1. \A i \in 1..n : \A j : j = i - 1 => f[i] = f[j] \o p[i]
        BY <2>5, Zenon
      <4>2. 0 = 1 - 1
        OBVIOUS
      <4> QED BY <3>1, <4>1, <4>2, Zenon
    <3>4. f[1] = <<>> \o p[1]
      BY <2>4, <3>3, Zenon
    <3> QED BY <3>1, <3>2, <3>4, ConcatEmptySeq
  <2> DEFINE g == [i \in 1..n |-> f[i]]
  <2>7. g = [i \in 1..n |-> IF i = 1 THEN p[i] ELSE g[i - 1] \o p[i]]
    <3>1. ASSUME NEW i \in 1..n PROVE g[i] = IF i = 1 THEN p[i] ELSE g[i - 1] \o p[i]
      <4>1. CASE i = 1
        BY <2>6, <4>1
      <4>2. CASE i # 1
        <5>1. i - 1 \in 1..n
          BY <4>2
        <5>2. g[i - 1] = f[i - 1] /\ g[i] = f[i]
          BY <5>1
        <5> QED BY <2>5, <4>2, <5>2
      <4> QED BY <4>1, <4>2
    <3>2. g = [i \in 1..n |-> g[i]]
      OBVIOUS
    <3> HIDE DEF g
    <3>3. [i \in 1..n |-> g[i]] = [i \in 1..n |-> IF i = 1 THEN p[i] ELSE g[i - 1] \o p[i]]
      BY <3>1
    <3> QED BY <3>2, <3>3
  <2>8. g = [i \in 1..Len(p) |-> IF i = 1 THEN p[i] ELSE g[i - 1] \o p[i]]
    <3> HIDE DEF g
    <3> QED BY <1>1, <2>7
  <2>9. flatten = [i \in 1..Len(p) |-> IF i = 1 THEN p[i] ELSE flatten[i - 1] \o p[i]]
    <3> HIDE DEF g
    <3> QED BY <2>8, Zenon
  <2>10. FlattenSeq(p) = flatten[n]
    <3>1. Len(p) # 0
      BY <1>1, <1>4
    <3>2. FlattenSeq(p) = flatten[Len(p)]
      BY <3>1, Zenon DEF FlattenSeq
    <3> HIDE DEF flatten
    <3> QED BY <1>1, <3>2
  <2> HIDE DEF flatten, g, T, step
  <2>11. ASSUME NEW i \in 1..n PROVE flatten[i] = IF i = 1 THEN p[i] ELSE flatten[i - 1] \o p[i]
    BY <1>1, <2>9
  <2> DEFINE F == {k \in 0..n : k # 0 => flatten[k] \in T}
  <2>12. ASSUME NEW k \in 1..n, k - 1 \in F PROVE k \in F
    <3>1. p[k] \in Seq(S) /\ flatten[k] = IF k = 1 THEN p[k] ELSE flatten[k - 1] \o p[k]
      BY <1>2, <2>11
    <3>2. CASE k = 1
      BY <3>1, <3>2 DEF T
    <3>3. CASE k # 1
      <4>1. flatten[k - 1] \in Seq(S)
        BY <2>12, <3>3 DEF T
      <4>2. flatten[k] \in Seq(S)
        BY <3>1, <3>3, <4>1, ConcatProperties
      <4> QED BY <4>2 DEF T
    <3> QED BY <3>2, <3>3
  <2>13. 0 \in F
    OBVIOUS
  <2> HIDE DEF F
  <2>14. \A k \in 0..n : k \in F
    BY <2>12, <2>13, RangeInduction
  <2>15. n \in F
    BY <2>14
  <2> QED BY <1>4, <2>10, <2>15 DEF F, T
<1> QED BY <1>3, <1>4

\* A sequence, whatever its elements are.
IsSeq(s) == \E S : s \in Seq(S)

\* It has a length.
LEMMA IsSeqLength ==
  ASSUME NEW s, IsSeq(s)
  PROVE  Len(s) \in Nat
BY LenProperties DEF IsSeq

\* The empty one and those of one element are such.
LEMMA ShortSeqs == IsSeq(<<>>) /\ \A x : IsSeq(<<x>>)
<1>1. IsSeq(<<>>)
  BY EmptySeq DEF IsSeq
<1>2. ASSUME NEW x PROVE IsSeq(<<x>>)
  <2>1. <<x>> \in Seq({x})
    OBVIOUS
  <2> QED BY <2>1 DEF IsSeq
<1> QED BY <1>1, <1>2

\* The elements of a sequence may be taken from a larger set.
LEMMA SeqOfUnion ==
  ASSUME NEW S, NEW T, S \subseteq T, NEW s \in Seq(S)
  PROVE  s \in Seq(T)
<1>1. Len(s) \in Nat /\ s \in [1..Len(s) -> S]
  BY LenProperties
<1>2. s \in [1..Len(s) -> T]
  BY <1>1
<1> QED BY <1>1, <1>2

\* So are two of them joined, and any number of them.
LEMMA ConcatIsSeq ==
  ASSUME NEW s, IsSeq(s), NEW t, IsSeq(t)
  PROVE  IsSeq(s \o t)
<1>1. PICK S : s \in Seq(S)
  BY DEF IsSeq
<1>2. PICK T : t \in Seq(T)
  BY DEF IsSeq
<1>3. s \in Seq(S \cup T) /\ t \in Seq(S \cup T)
  BY <1>1, <1>2, SeqOfUnion
<1>4. s \o t \in Seq(S \cup T)
  BY <1>3, ConcatProperties
<1> QED BY <1>4 DEF IsSeq

\* The first n values of g are sequences.
Parts(g, n) == \A i \in 1..n : IsSeq(g[i])

LEMMA FlattenIsSeq ==
  ASSUME NEW n \in Nat, NEW g, g = [i \in 1..n |-> g[i]], Parts(g, n)
  PROVE  IsSeq(FlattenSeq(g))
<1> DEFINE over(i) == CHOOSE S : g[i] \in Seq(S)
           S == UNION {over(i) : i \in 1..n}
<1>1. ASSUME NEW i \in 1..n PROVE g[i] \in Seq(S)
  <2>1. \E R : g[i] \in Seq(R)
    BY DEF Parts, IsSeq
  <2>2. g[i] \in Seq(over(i))
    BY <2>1
  <2>3. over(i) \subseteq S
    OBVIOUS
  <2> HIDE DEF over, S
  <2> QED BY <2>2, <2>3, SeqOfUnion
<1> HIDE DEF S
<1>2. g \in [1..n -> Seq(S)]
  BY <1>1
<1>3. g \in Seq(Seq(S))
  BY <1>2
<1> QED BY <1>3, FlattenType DEF IsSeq

\* What one "records" object adds, what a domain adds, and what a file adds.
LEMMA TypeAddsIsSeq ==
  ASSUME DOMAIN heap \subseteq Nodes, NEW holder, NEW scope, NEW domain
  PROVE  IsSeq(TypeAdds(holder, scope, domain))
<1> DEFINE types == GetObjectItem(holder, <<"records">>)
           w == Children(types)
           found(t) == GetObjectItem(types, heap[t].string)
           g == [i \in 1..Len(w) |->
                  IF found(w[i]) = NULL THEN <<>>
                  ELSE <<[ key |-> [scope |-> scope, domain |-> domain, type |-> heap[w[i]].string],
                           values |-> found(w[i]) ]>>]
<1>1. PICK n \in Nat : n = Len(w)
  BY ChildrenLength
<1>2. TypeAdds(holder, scope, domain) = FlattenSeq(g)
  BY Zenon DEF TypeAdds
<1> HIDE DEF types, w
<1>3. g = [i \in 1..n |-> g[i]]
  BY <1>1
<1>4. Parts(g, n)
  BY <1>1, ShortSeqs DEF Parts
<1> HIDE DEF g
<1> QED BY <1>2, <1>3, <1>4, FlattenIsSeq

LEMMA DomainAddsIsSeq ==
  ASSUME DOMAIN heap \subseteq Nodes, NEW d
  PROVE  IsSeq(BaseAdds(d)) /\ IsSeq(DomainAdds(d))
<1>1. IsSeq(BaseAdds(d))
  BY TypeAddsIsSeq DEF BaseAdds
<1>2. ASSUME NEW domain, NEW x PROVE IsSeq(SubdomainAdds(domain, Children(x)))
  <2> DEFINE subs == Children(x)
             g == [i \in 1..Len(subs) |->
                    TypeAdds(subs[i], "subdomain", Printed(heap[subs[i]].string) \o <<".">> \o domain)]
  <2>1. PICK n \in Nat : n = Len(subs)
    BY ChildrenLength
  <2>2. SubdomainAdds(domain, subs) = FlattenSeq(g)
    BY DEF SubdomainAdds
  <2> HIDE DEF subs
  <2>3. g = [i \in 1..n |-> g[i]]
    BY <2>1
  <2>4. Parts(g, n)
    BY <2>1, TypeAddsIsSeq DEF Parts
  <2> HIDE DEF g
  <2>5. IsSeq(FlattenSeq(g))
    BY <2>3, <2>4, FlattenIsSeq
  <2> QED BY <2>2, <2>5 DEF subs
<1> DEFINE wild == TypeAdds(GetObjectItem(d, <<"wildcards">>), "wildcard", <<"*.">> \o heap[d].string)
           subd == SubdomainAdds(heap[d].string, Children(GetObjectItem(d, <<"subdomains">>)))
<1>3. IsSeq(wild) /\ IsSeq(subd)
  BY <1>2, TypeAddsIsSeq
<1>4. DomainAdds(d) = BaseAdds(d) \o wild \o subd
  BY DEF DomainAdds
<1> HIDE DEF wild, subd
<1>5. IsSeq(BaseAdds(d) \o wild \o subd)
  BY <1>1, <1>3, ConcatIsSeq
<1> QED BY <1>1, <1>4, <1>5

LEMMA FileAddsLength ==
  ASSUME DOMAIN heap \subseteq Nodes, NEW domains
  PROVE  Len(FileAdds(domains)) \in Nat
<1> DEFINE w == Children(domains)
           g == [i \in 1..Len(w) |->
                  IF \E j \in 1..(i - 1) : Conflict(w[j]) THEN <<>>
                  ELSE IF Conflict(w[i]) THEN BaseAdds(w[i])
                  ELSE DomainAdds(w[i])]
<1>1. PICK n \in Nat : n = Len(w)
  BY ChildrenLength
<1>2. FileAdds(domains) = FlattenSeq(g)
  BY DEF FileAdds
<1> HIDE DEF w
<1>3. g = [i \in 1..n |-> g[i]]
  BY <1>1
<1>4. Parts(g, n)
  BY <1>1, ShortSeqs, DomainAddsIsSeq DEF Parts
<1> HIDE DEF g
<1> QED BY <1>2, <1>3, <1>4, FlattenIsSeq, IsSeqLength

\* A load is under way, or was ended by uthash_fatal.
InLoad == phase \in {"load", "loaded", "failed", "aborted"}

\* The calls of add_record_to_hash are taken in turn, from the first one on.
AddsInv ==
  /\ Len(adds) \in Nat /\ next \in 1..(Len(adds) + 1)
  /\ ~InLoad => next = 1

\* The bounded counters.
CountInv == failures \in 0..MaxFailures /\ commands \in 0..MaxCommands /\ depth \in Nat

\* The rest of the control, and no iteration outside of the loops.
ControlInv ==
  /\ phase \in Phases /\ serving \in BOOLEAN /\ loaded \in BOOLEAN
  /\ file = NULL \/ file \in Files
  /\ request \in AddRequests \cup {NULL}
  /\ phase \notin {"clear", "cleanup", "list"} => iter.el = NULL /\ iter.tmp = NULL

TypeInv == AddsInv /\ CountInv /\ ControlInv

\* An allocation that fails is counted, up to the bound.
LEMMA FailureCounts ==
  ASSUME failures \in 0..MaxFailures, Failure \/ UNCHANGED failures
  PROVE  failures' \in 0..MaxFailures
BY JsonAssumption DEF Failure

\* So is a command.
LEMMA CommandCounts ==
  ASSUME commands \in 0..MaxCommands, Command \/ UNCHANGED commands
  PROVE  commands' \in 0..MaxCommands
BY FilesAssumption DEF Command

\* No step of the parser fails twice.
LEMMA FailuresOfParse == Parse => (Failure \/ UNCHANGED failures)
BY DEF Parse, StartParse, ParseLeaf, ParseString, ParseNothing, Open, Element, Name, EndText,
       More, Unwind, StringFails

\* The depth goes down only where a list is open.
LEMMA ParseKeepsNatural ==
  ASSUME DepthInv, depth \in Nat, Parse
  PROVE  depth' \in Nat
<1>1. CASE depth' = depth
  BY <1>1
<1>2. CASE StartParse
  BY <1>2 DEF StartParse
<1>3. CASE Open
  <2>1. depth' = depth + 1 \/ depth' = depth
    BY <1>3, Zenon DEF Open
  <2> QED BY <2>1
<1>4. CASE More
  <2>1. depth = Len(stack) /\ stack # <<>> /\ stack \in Seq(Frames)
    BY <1>4 DEF More, DepthInv, Parsing
  <2>2. Len(stack) \in Nat /\ Len(stack) # 0
    BY <2>1, EmptySeq, LenProperties
  <2>3. depth' = depth - 1 \/ depth' = depth
    BY <1>4 DEF More
  <2> QED BY <2>1, <2>2, <2>3
<1> QED BY <1>1, <1>2, <1>3, <1>4
        DEF Parse, ParseLeaf, ParseString, ParseNothing, Element, Name, EndText, Unwind

\* What holds at first.
LEMMA TypeInit == Init => TypeInv
<1> SUFFICES ASSUME Init PROVE TypeInv
  OBVIOUS
<1>1. AddsInv
  <2>1. adds = <<>> /\ next = 1
    BY DEF Init
  <2>2. Len(adds) = 0
    BY <2>1
  <2> QED BY <2>1, <2>2 DEF AddsInv
<1>2. CountInv
  BY JsonAssumption, FilesAssumption DEF Init, CountInv
<1>3. ControlInv
  BY DEF Init, ControlInv, Phases, NoIter
<1> QED BY <1>1, <1>2, <1>3 DEF TypeInv

\* Every step counts its failures and its command.
LEMMA CountStep ==
  ASSUME DepthInv, CountInv, [Next]_vars
  PROVE  CountInv'
<1> USE DEF CountInv
<1>1. ASSUME Failure \/ UNCHANGED failures, Command \/ UNCHANGED commands, depth' \in Nat
      PROVE  CountInv'
  BY <1>1, FailureCounts, CommandCounts
<1> USE DEF jsonVars
<1>2. CASE \E f \in Files : ReadFile(f)
  BY <1>1, <1>2 DEF ReadFile
<1>3. CASE ParseStep
  BY <1>1, <1>3, FailuresOfParse, ParseKeepsNatural DEF ParseStep
<1>4. CASE CheckSchema
  BY <1>1, <1>4 DEF CheckSchema
<1>5. CASE LoadRecord
  BY <1>1, <1>5 DEF LoadRecord, AddRecordToHash, GiveUpRecord, HashFatal
<1>6. CASE EndLoad
  BY <1>1, <1>6 DEF EndLoad
<1>7. CASE ReturnFromLoad
  BY <1>1, <1>7 DEF ReturnFromLoad
<1>8. CASE \E r \in AddRequests : BeginAdd(r)
  BY <1>1, <1>8 DEF BeginAdd
<1>9. CASE CreateValue
  BY <1>1, <1>9 DEF CreateValue
<1>10. CASE AddMember
  BY <1>1, <1>10 DEF AddMember
<1>11. CASE AppendValue
  BY <1>1, <1>11 DEF AppendValue
<1>12. CASE StoreValue
  BY <1>1, <1>12 DEF StoreValue, AddRecordToHash, GiveUpRecord, HashFatal
<1>13. CASE \E k \in DeleteKeys : DeleteRecord(k)
  BY <1>1, <1>13 DEF DeleteRecord
<1>14. CASE BeginList
  BY <1>1, <1>14 DEF BeginList
<1>15. CASE ListChunk
  BY <1>1, <1>15 DEF ListChunk
<1>16. CASE EndList
  BY <1>1, <1>16 DEF EndList
<1>17. CASE BeginReload
  BY <1>1, <1>17 DEF BeginReload
<1>18. CASE BeginCleanup
  BY <1>1, <1>18 DEF BeginCleanup
<1>19. CASE ClearRecord
  BY <1>1, <1>19 DEF ClearRecord
<1>20. CASE EndClear
  BY <1>1, <1>20 DEF EndClear
<1>21. CASE UNCHANGED vars
  BY <1>1, <1>21 DEF vars
<1> QED BY <1>2, <1>3, <1>4, <1>5, <1>6, <1>7, <1>8, <1>9, <1>10, <1>11, <1>12, <1>13, <1>14,
           <1>15, <1>16, <1>17, <1>18, <1>19, <1>20, <1>21 DEF Next, Load, Terminated

\* Only a load touches the calls to be made, and it ends with none.
LEMMA AddsStep ==
  ASSUME AddsInv, DOMAIN heap \subseteq Nodes, [Next]_vars
  PROVE  AddsInv'
<1> USE DEF InLoad, loadVars, Enter
<1>1. ASSUME UNCHANGED <<adds, next>>, UNCHANGED phase \/ InLoad' \/ ~InLoad
      PROVE  AddsInv'
  BY <1>1 DEF AddsInv
<1> USE DEF Command
<1>2. CASE \E f \in Files : ReadFile(f)
  BY <1>1, <1>2 DEF ReadFile
<1>3. CASE ParseStep
  BY <1>1, <1>3 DEF ParseStep
<1>4. CASE CheckSchema
  <2>1. CASE UNCHANGED <<adds, next>>
    BY <1>1, <1>4, <2>1 DEF CheckSchema
  <2>2. CASE adds' = FileAdds(GetObjectItem(root, <<"domains">>))
    <3>1. Len(adds') \in Nat
      BY <2>2, FileAddsLength
    <3>2. next' = 1
      BY <1>4 DEF CheckSchema, AddsInv
    <3> QED BY <3>1, <3>2 DEF AddsInv
  <2> QED BY <1>4, <2>1, <2>2 DEF CheckSchema
<1>5. CASE LoadRecord
  <2>1. CASE UNCHANGED next
    BY <1>1, <1>5, <2>1 DEF LoadRecord, HashFatal
  <2>2. CASE next' = next + 1 /\ UNCHANGED phase
    BY <1>5, <2>2 DEF LoadRecord, AddsInv
  <2> QED BY <1>5, <2>1, <2>2 DEF LoadRecord
<1>6. CASE EndLoad
  BY <1>1, <1>6 DEF EndLoad
<1>7. CASE ReturnFromLoad
  <2>1. adds' = <<>> /\ next' = 1
    BY <1>7 DEF ReturnFromLoad
  <2>2. Len(adds') = 0
    BY <2>1
  <2> QED BY <2>1, <2>2 DEF AddsInv
<1>8. CASE \E r \in AddRequests : BeginAdd(r)
  BY <1>1, <1>8 DEF BeginAdd
<1>9. CASE CreateValue
  BY <1>1, <1>9 DEF CreateValue
<1>10. CASE AddMember
  BY <1>1, <1>10 DEF AddMember
<1>11. CASE AppendValue
  BY <1>1, <1>11 DEF AppendValue
<1>12. CASE StoreValue
  BY <1>1, <1>12 DEF StoreValue
<1>13. CASE \E k \in DeleteKeys : DeleteRecord(k)
  BY <1>1, <1>13 DEF DeleteRecord
<1>14. CASE BeginList
  BY <1>1, <1>14 DEF BeginList
<1>15. CASE ListChunk
  BY <1>1, <1>15 DEF ListChunk
<1>16. CASE EndList
  BY <1>1, <1>16 DEF EndList
<1>17. CASE BeginReload
  BY <1>1, <1>17 DEF BeginReload
<1>18. CASE BeginCleanup
  BY <1>1, <1>18 DEF BeginCleanup
<1>19. CASE ClearRecord
  BY <1>1, <1>19 DEF ClearRecord
<1>20. CASE EndClear
  BY <1>1, <1>20 DEF EndClear
<1>21. CASE UNCHANGED vars
  BY <1>1, <1>21 DEF vars
<1> QED BY <1>2, <1>3, <1>4, <1>5, <1>6, <1>7, <1>8, <1>9, <1>10, <1>11, <1>12, <1>13, <1>14,
           <1>15, <1>16, <1>17, <1>18, <1>19, <1>20, <1>21 DEF Next, Load, Terminated

\* An iteration that is over leaves nothing behind.
LEMMA ControlStep ==
  ASSUME ControlInv, IterAlive, [Next]_vars
  PROVE  ControlInv'
<1> USE DEF Enter, Phases
<1> DEFINE Loops == {"clear", "cleanup", "list"}
<1>1. ASSUME UNCHANGED <<serving, loaded, file, request, iter>>, phase' \in Phases,
             phase \in Loops /\ phase' \notin Loops => iter.el = NULL
      PROVE  ControlInv'
  BY <1>1 DEF ControlInv, IterAlive
<1> USE DEF loadVars, addVars, Command
<1>2. CASE \E f \in Files : ReadFile(f)
  BY <1>2 DEF ReadFile, ControlInv
<1>3. CASE ParseStep
  BY <1>1, <1>3 DEF ParseStep
<1>4. CASE CheckSchema
  <2>1. loaded' \in BOOLEAN
    BY <1>4 DEF CheckSchema, ControlInv
  <2> QED BY <1>4, <2>1 DEF CheckSchema, ControlInv
<1>5. CASE LoadRecord
  BY <1>1, <1>5 DEF LoadRecord, HashFatal
<1>6. CASE EndLoad
  BY <1>1, <1>6 DEF EndLoad
<1>7. CASE ReturnFromLoad
  <2>1. /\ phase' \in {"ready", "cleanup"} /\ (phase' = "ready" => iter' = iter)
        /\ phase \in {"loaded", "failed"}
    BY <1>7 DEF ReturnFromLoad
  <2>2. serving' \in BOOLEAN /\ loaded' = FALSE /\ file' = NULL /\ request' = request
    BY <1>7 DEF ReturnFromLoad
  <2> QED BY <2>1, <2>2 DEF ControlInv
<1>8. CASE \E r \in AddRequests : BeginAdd(r)
  BY <1>8 DEF BeginAdd, ControlInv
<1>9. CASE CreateValue
  BY <1>9 DEF CreateValue, ReturnFromAdd, ControlInv
<1>10. CASE AddMember
  BY <1>10 DEF AddMember, ReturnFromAdd, ControlInv
<1>11. CASE AppendValue
  BY <1>1, <1>11 DEF AppendValue
<1>12. CASE StoreValue
  BY <1>12 DEF StoreValue, ReturnFromAdd, HashFatal, ControlInv
<1>13. CASE \E k \in DeleteKeys : DeleteRecord(k)
  BY <1>1, <1>13 DEF DeleteRecord
<1>14. CASE BeginList
  BY <1>14 DEF BeginList, ControlInv
<1>15. CASE ListChunk
  BY <1>15 DEF ListChunk, ControlInv, NoIter
<1>16. CASE EndList
  BY <1>1, <1>16 DEF EndList
<1>17. CASE BeginReload
  BY <1>17 DEF BeginReload, ControlInv
<1>18. CASE BeginCleanup
  BY <1>18 DEF BeginCleanup, ControlInv
<1>19. CASE ClearRecord
  BY <1>19 DEF ClearRecord, ControlInv
<1>20. CASE EndClear
  BY <1>1, <1>20 DEF EndClear
<1>21. CASE UNCHANGED vars
  BY <1>21 DEF vars, ControlInv
<1> QED BY <1>2, <1>3, <1>4, <1>5, <1>6, <1>7, <1>8, <1>9, <1>10, <1>11, <1>12, <1>13, <1>14,
           <1>15, <1>16, <1>17, <1>18, <1>19, <1>20, <1>21 DEF Next, Load, Terminated

\* The holders of nodes hold nodes.
LEMMA HoldersType ==
  ASSUME DepthInv, NodesInv
  PROVE  {root, item, values, json_value} \subseteq Nodes \cup {NULL}
<1>1. PICK tag : Placed(tag)
  BY DEF NodesInv
<1>2. \A k \in Int : Tops[k] \in DOMAIN heap \cup {NULL}
  BY <1>1 DEF Placed, Sound, Forest, Rooted
<1>3. DOMAIN heap \subseteq Nodes
  BY HeapOfNodes
<1>4. Tops[0] = root /\ Tops[-1] = values /\ Tops[-2] = json_value
  BY TopsAre DEF DepthInv, Tops
<1>5. {root, values, json_value} \subseteq Nodes \cup {NULL}
  <2>1. Tops[0] \in Nodes \cup {NULL} /\ Tops[-1] \in Nodes \cup {NULL}
        /\ Tops[-2] \in Nodes \cup {NULL}
    BY <1>2, <1>3
  <2> QED BY <1>4, <2>1
<1> QED BY <1>5 DEF DepthInv

\* The table and its iteration point to cells.
LEMMA TableType ==
  ASSUME TableInv, ControlInv
  PROVE  /\ DOMAIN records \subseteq Cells /\ DOMAIN table.hh = DOMAIN records
         /\ {table.head, table.tail, iter.el, iter.tmp} \subseteq Cells \cup {NULL}
<1>1. TableKept /\ IterKept
  BY DEF TableInv
<1>2. PICK w : TableOf(table, w, DOMAIN records)
  BY <1>1 DEF TableKept
<1> DEFINE A == DOMAIN records
<1>3. /\ A \subseteq Cells /\ DOMAIN table.hh = A
      /\ \A c \in A : table.hh[c].next \in A \cup {NULL}
  BY <1>2, TableOfIs
<1>4. table.head \in A \cup {NULL}
  BY <1>1, HeadIs
<1>5. table.tail \in Cells \cup {NULL}
  <2>1. CASE table = EmptyTable
    BY <2>1 DEF EmptyTable
  <2>2. ASSUME NEW K, NEW m, IsTable(table, w, A, K, m) PROVE table.tail \in Cells \cup {NULL}
    <3>1. table \in Tables(A, K, m)
      BY <2>2 DEF IsTable
    <3> QED BY <3>1, TableFields DEF Pointers
  <2> QED BY <1>2, <2>1, <2>2 DEF TableOf
<1>6. \A c \in A \cup {NULL} : NextOf(table, c) \in A \cup {NULL}
  BY <1>3 DEF NextOf
<1>7. iter.el \in A \cup {NULL} /\ iter.tmp \in A \cup {NULL}
  <2>1. CASE phase \in {"clear", "cleanup"}
    BY <1>1, <1>4, <1>6, <2>1 DEF IterKept, IterFirst
  <2>2. CASE phase = "list"
    BY <1>1, <1>6, <2>2 DEF IterKept
  <2>3. CASE phase \notin {"clear", "cleanup", "list"}
    BY <2>3 DEF ControlInv
  <2> QED BY <2>1, <2>2, <2>3
<1> QED BY <1>3, <1>4, <1>5, <1>7

\* The variables keep their types, bounds and ranges: pointers are to nodes
\* and cells, the next record of a load is one of those to be added, LIST is
\* at a value of the record it prints.
THEOREM MappingsTypes ==
  ASSUME HashesAreNumbers
  PROVE  Spec => []TypeOK
<1>1. Init => TypeInv
  BY TypeInit
<1>2. DepthInv /\ NodesInv /\ TableInv /\ TypeInv /\ [Next]_vars => TypeInv'
  <2> SUFFICES ASSUME DepthInv, NodesInv, TableInv, TypeInv, [Next]_vars PROVE TypeInv'
    OBVIOUS
  <2> USE DEF TypeInv
  <2>1. CountInv'
    BY CountStep
  <2>2. AddsInv'
    BY AddsStep, HeapOfNodes
  <2>3. ControlInv'
    BY ControlStep, IterationAlive
  <2> QED BY <2>1, <2>2, <2>3
<1>3. DepthInv /\ NodesInv /\ TableInv /\ ChunkInv /\ TypeInv => TypeOK
  <2> SUFFICES ASSUME DepthInv, NodesInv, TableInv, ChunkInv, TypeInv PROVE TypeOK
    OBVIOUS
  <2>1. AddsInv /\ CountInv /\ ControlInv
    BY DEF TypeInv
  <2>2. phase \in Phases /\ at \in Steps /\ serving \in BOOLEAN /\ loaded \in BOOLEAN
        /\ (file = NULL \/ file \in Files) /\ request \in AddRequests \cup {NULL}
    BY <2>1 DEF ControlInv, DepthInv, ParserIdle
  <2>3. depth \in Nat /\ failures \in 0..MaxFailures /\ commands \in 0..MaxCommands
        /\ next \in 1..(Len(adds) + 1)
    BY <2>1 DEF CountInv, AddsInv
  <2>4. {root, item, values, json_value} \subseteq Nodes \cup {NULL} /\ DOMAIN heap \subseteq Nodes
    BY HoldersType, HeapOfNodes
  <2>5. /\ DOMAIN records \subseteq Cells /\ DOMAIN table.hh \subseteq Cells
        /\ {table.head, table.tail, iter.el, iter.tmp} \subseteq Cells \cup {NULL}
    BY <2>1, TableType
  <2>6. ASSUME iter.el # NULL PROVE chunk \in 0..Len(records[iter.el].values)
    <3>1. iter.el \in DOMAIN records
      BY <2>1, <2>6, IterationAlive DEF ControlInv, IterAlive
    <3>2. Len(records[iter.el].values) \in Nat /\ chunk \in Nat
          /\ chunk <= Len(records[iter.el].values)
      BY <2>6, <3>1 DEF ChunkInv
    <3> QED BY <3>2
  <2> QED BY <2>2, <2>3, <2>4, <2>5, <2>6 DEF TypeOK
<1> QED BY <1>1, <1>2, <1>3, NodesInvariant, TableInvariant, ChunkInvariant, PTL DEF Spec
==============================================================================
