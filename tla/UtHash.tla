------------------------------- MODULE UtHash -------------------------------
(***************************************************************************)
(* The macros of src/lib/uthash/uthash.h that dns_server.c uses, as        *)
(* operators from a table to a table.  A table is the head pointer of the  *)
(* program, the hash handles of its cells, and the UT_hash_table:          *)
(* every element is on two doubly linked lists, one of the table in order  *)
(* of insertion and one of its bucket.  Buckets are numbered from 0.       *)
(* A table of no elements has no UT_hash_table; its allocations end the    *)
(* process when they fail (uthash_fatal), which is the caller's action.    *)
(***************************************************************************)
EXTENDS LinkedLists, Functions

CONSTANTS
  Cells,           \* addresses of hash elements
  Hash(_),         \* HASH_JEN, on keys
  InitialBuckets,  \* HASH_INITIAL_NUM_BUCKETS
  Threshold        \* HASH_BKT_CAPACITY_THRESH

ASSUME HashAssumption ==
  /\ InitialBuckets \in Nat \ {0}
  /\ Threshold \in Nat \ {0}
  /\ NULL \notin Cells /\ IsFiniteSet(Cells)

NoBuckets(n) == [b \in 0..(n - 1) |-> [hh_head |-> NULL, count |-> 0, expand_mult |-> 0]]

EmptyTable ==
  [ head |-> NULL, hh |-> <<>>, tail |-> NULL,
    num_items |-> 0, buckets |-> NoBuckets(0), ineff_expands |-> 0, noexpand |-> FALSE ]

BucketOf(hashv, n) == hashv % n

NumBuckets(t) == Cardinality(DOMAIN t.buckets)

\* HASH_MAKE_TABLE: c, alone, as a table.
MakeTable(t, c) ==
  [t EXCEPT !.head = c, !.tail = c, !.num_items = 0, !.ineff_expands = 0,
            !.noexpand = FALSE, !.buckets = NoBuckets(InitialBuckets)]

\* HASH_APPEND_LIST
AppendList(t, c) ==
  [t EXCEPT !.hh[c].prev = t.tail, !.hh[t.tail].next = c, !.tail = c]

\* The two lists an element is on.
NextLinks(t) == [c \in DOMAIN t.hh |-> t.hh[c].next]
PrevLinks(t) == [c \in DOMAIN t.hh |-> t.hh[c].prev]
ChainNextLinks(t) == [c \in DOMAIN t.hh |-> t.hh[c].hh_next]
ChainPrevLinks(t) == [c \in DOMAIN t.hh |-> t.hh[c].hh_prev]

AppOrder(t) == Walk(t.head, NextLinks(t))
Chain(t, b) == Walk(t.buckets[b].hh_head, ChainNextLinks(t))

\* Puts c in front of the chain of bucket b, and counts it.
PushInBkt(t, b, c) ==
  LET first == t.buckets[b].hh_head IN
  [t EXCEPT !.buckets[b].hh_head = c,
            !.buckets[b].count = @ + 1,
            !.hh = [x \in DOMAIN @ |->
                      IF x = c THEN [@[x] EXCEPT !.hh_next = first, !.hh_prev = NULL]
                      ELSE IF x = first THEN [@[x] EXCEPT !.hh_prev = c]
                      ELSE @[x]]]

\* One turn of the loop of HASH_EXPAND_BUCKETS: c joins its new bucket.
Rehash(t, c, ideal) ==
  LET b == BucketOf(t.hh[c].hashv, NumBuckets(t))
      n == t.buckets[b].count + 1
      mult == t.buckets[b].expand_mult IN
  [PushInBkt(t, b, c) EXCEPT
     !.buckets[b].expand_mult = IF n > ideal /\ n > mult * ideal THEN mult + 1 ELSE mult]

\* The inner loop: the elements of an old chain, w, one by one.
RehashAll(t, w, ideal) ==
  LET turn[i \in 0..Len(w)] ==
        IF i = 0 THEN t ELSE Rehash(turn[i - 1], w[i], ideal)
  IN  turn[Len(w)]

\* Twice the buckets, each chain moved from its head on; expansion is given
\* up when it twice left more than half of the items past the ideal length.
ExpandBuckets(t) ==
  LET n == NumBuckets(t)
      ideal == (t.num_items + 2 * n - 1) \div (2 * n)
      move[b \in 0..n] ==
        IF b = 0 THEN [t EXCEPT !.buckets = NoBuckets(2 * n)]
        ELSE RehashAll(move[b - 1], Chain(t, b - 1), ideal)
      moved == move[n]
      nonideal ==
        { p \in (0..(2 * n - 1)) \X (1..t.num_items) :
            p[2] > ideal /\ p[2] <= moved.buckets[p[1]].count }
      ineff == IF Cardinality(nonideal) > t.num_items \div 2
               THEN t.ineff_expands + 1 ELSE 0
  IN  [moved EXCEPT !.ineff_expands = ineff,
                    !.noexpand = t.noexpand \/ ineff > 1]

\* The table with c in its bucket, and whether that fills the bucket.
InBucket(t, c) == PushInBkt(t, BucketOf(t.hh[c].hashv, NumBuckets(t)), c)

Crowded(t, c) ==
  LET b == t.buckets[BucketOf(t.hh[c].hashv, NumBuckets(t))] IN
  ~t.noexpand /\ b.count >= (b.expand_mult + 1) * Threshold

\* HASH_ADD_TO_TABLE with HASH_ADD_TO_BKT
AddToBkt(t, c) ==
  LET u == InBucket(t, c) IN IF Crowded(u, c) THEN ExpandBuckets(u) ELSE u

\* The part of HASH_ADD_KEYPTR before the buckets: handle and list.
Enlist(t, c, k) ==
  LET new == [ key |-> k, hashv |-> Hash(k), prev |-> NULL, next |-> NULL,
               hh_prev |-> NULL, hh_next |-> NULL ]
      u == [t EXCEPT !.hh = [x \in DOMAIN @ \cup {c} |-> IF x = c THEN new ELSE @[x]]]
      l == IF t.head = NULL THEN MakeTable(u, c) ELSE AppendList(u, c)
  IN  [l EXCEPT !.num_items = @ + 1]

HashAdd(t, c, k) == AddToBkt(Enlist(t, c, k), c)

\* Does HASH_ADD_KEYPTR allocate: a table, or more buckets?
AddAllocates(t, c, k) ==
  t.head = NULL \/ Crowded(InBucket(Enlist(t, c, k), c), c)

\* Mutant: the hash value decides.
HashFindByHash(t, k) ==
  IF t.head = NULL THEN NULL
  ELSE LET w == Chain(t, BucketOf(Hash(k), NumBuckets(t)))
           match == {i \in 1..Len(w) : t.hh[w[i]].hashv = Hash(k)}
       IN  IF match = {} THEN NULL
           ELSE w[CHOOSE i \in match : \A j \in match : i <= j]

\* HASH_FIND: the element with this key in the chain of its bucket.
HashFind(t, k) ==
  IF t.head = NULL THEN NULL
  ELSE LET w == Chain(t, BucketOf(Hash(k), NumBuckets(t)))
           match == { i \in 1..Len(w) : t.hh[w[i]].hashv = Hash(k) /\ t.hh[w[i]].key = k }
       IN  IF match = {} THEN NULL
           ELSE w[CHOOSE i \in match : \A j \in match : i <= j]

\* Mutant: the next of the chain is not told of its new predecessor.
DelInBktForward(t, c) ==
  LET b == BucketOf(t.hh[c].hashv, NumBuckets(t))
      n == t.hh[c].hh_next
      p == t.hh[c].hh_prev IN
  [t EXCEPT !.buckets[b].count = @ - 1,
            !.buckets[b].hh_head = IF @ = c THEN n ELSE @,
            !.hh = [x \in DOMAIN @ |-> IF x = p THEN [@[x] EXCEPT !.hh_next = n] ELSE @[x]]]

\* HASH_DEL_IN_BKT
DelInBkt(t, c) ==
  LET b == BucketOf(t.hh[c].hashv, NumBuckets(t))
      n == t.hh[c].hh_next
      p == t.hh[c].hh_prev IN
  [t EXCEPT !.buckets[b].count = @ - 1,
            !.buckets[b].hh_head = IF @ = c THEN n ELSE @,
            !.hh = [x \in DOMAIN @ |->
                      IF x = p THEN [@[x] EXCEPT !.hh_next = n]
                      ELSE IF x = n THEN [@[x] EXCEPT !.hh_prev = p]
                      ELSE @[x]]]

\* HASH_DELETE: off both lists; the last element takes the table with it.
HashDelete(t, c) ==
  LET n == t.hh[c].next
      p == t.hh[c].prev
      off == [t EXCEPT !.tail = IF @ = c THEN p ELSE @,
                       !.head = IF p = NULL THEN n ELSE @,
                       !.hh = [x \in DOMAIN @ |->
                                 IF x = p THEN [@[x] EXCEPT !.next = n]
                                 ELSE IF x = n THEN [@[x] EXCEPT !.prev = p]
                                 ELSE @[x]]]
  IN  IF n = NULL /\ p = NULL THEN EmptyTable
      ELSE [DelInBkt(off, c) EXCEPT !.num_items = @ - 1,
                                    !.hh = Restrict(@, DOMAIN @ \ {c})]

\* Mutant: the one to go to is not looked up again.
IterNextStale(t, it) == [el |-> it.tmp, tmp |-> it.tmp]

\* HASH_ITER: the element and the one to go to when it may be gone.
NextOf(t, c) == IF c = NULL THEN NULL ELSE t.hh[c].next
IterFirst(t) == [el |-> t.head, tmp |-> NextOf(t, t.head)]
IterNext(t, it) == [el |-> it.tmp, tmp |-> NextOf(t, it.tmp)]

(***************************************************************************)
(* What a table must be.                                                   *)
(***************************************************************************)
\* HASH_FSCK of uthash.h, its four comparisons, and the tail it leaves out.
Fsck(t) ==
  LET w == AppOrder(t)
      places == { p \in (DOMAIN t.buckets) \X (1..Cardinality(Cells)) :
                    p[2] <= Len(Chain(t, p[1])) }
  IN  t.head # NULL =>
        /\ \A b \in DOMAIN t.buckets :
             /\ LinkedBack(Chain(t, b), ChainPrevLinks(t), NULL)
             /\ t.buckets[b].count = Len(Chain(t, b))
        /\ Cardinality(places) = t.num_items
        /\ LinkedBack(w, PrevLinks(t), NULL)
        /\ Len(w) = t.num_items
        /\ t.tail = w[Len(w)]

\* Every element on the list is the one HASH_FIND gives for its key.
Findable(t) ==
  \A i \in 1..Len(AppOrder(t)) :
    HashFind(t, t.hh[AppOrder(t)[i]].key) = AppOrder(t)[i]
============================================================================
