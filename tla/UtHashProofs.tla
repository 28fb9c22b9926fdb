----------------------------- MODULE UtHashProofs -----------------------------
(***************************************************************************)
(* Proofs about the operators of UtHash, for any cells, hash function and  *)
(* bucket sizes: what each operation makes of a table that is one.         *)
(*                                                                         *)
(* A doubly linked list is described by the function w that numbers its    *)
(* members (ListOf); a table by the one of its insertion order (Ordered)   *)
(* and one for each bucket (Filled).  Linking, unlinking and walking are   *)
(* proved of such lists alone, then of PushInBkt, Rehash, ExpandBuckets,   *)
(* HashAdd, DelInBkt and HashDelete.                                       *)
(***************************************************************************)
EXTENDS UtHash, NatRecursion, FiniteSetTheorems, FunctionTheorems, SequenceTheorems, TLAPS

(***************************************************************************)
(* Lists, by the numbering of their members.                               *)
(***************************************************************************)
\* w lists the n members of A, each once.
Enumerates(w, n, A) ==
  /\ n \in Nat
  /\ w \in [1..n -> A]
  /\ \A i, j \in 1..n : w[i] = w[j] => i = j
  /\ \A c \in A : \E i \in 1..n : w[i] = c

\* They are linked in this order, forth and back.
Linked(w, n, first, nxt, prv) ==
  /\ first = IF n = 0 THEN NULL ELSE w[1]
  /\ \A i \in 1..n :
       /\ nxt[w[i]] = IF i = n THEN NULL ELSE w[i + 1]
       /\ prv[w[i]] = IF i = 1 THEN NULL ELSE w[i - 1]

ListOf(w, n, A, first, nxt, prv) == Enumerates(w, n, A) /\ Linked(w, n, first, nxt, prv)

\* What a list is depends on the links of its members only.
LEMMA ListKept ==
  ASSUME NEW w, NEW n, NEW A, NEW first, NEW nxt, NEW prv, NEW nxt2, NEW prv2,
         ListOf(w, n, A, first, nxt, prv),
         \A c \in A : nxt2[c] = nxt[c] /\ prv2[c] = prv[c]
  PROVE  ListOf(w, n, A, first, nxt2, prv2)
BY DEF ListOf, Enumerates, Linked

\* No members make a list.
LEMMA EmptyList ==
  ASSUME NEW nxt, NEW prv
  PROVE  \E w : ListOf(w, 0, {}, NULL, nxt, prv)
<1> DEFINE w == [i \in 1..0 |-> 0]
<1>1. ListOf(w, 0, {}, NULL, nxt, prv)
  BY DEF ListOf, Enumerates, Linked
<1> QED BY <1>1

\* The links nxt2 and prv2 put c in front of first.
PushLinks(A, c, first, nxt, prv, nxt2, prv2) ==
  /\ c \notin A /\ NULL \notin A
  /\ nxt2[c] = first /\ prv2[c] = NULL
  /\ \A x \in A : nxt2[x] = nxt[x] /\ prv2[x] = IF x = first THEN c ELSE prv[x]

\* A new member in front.
LEMMA ListPush ==
  ASSUME NEW w, NEW n, NEW A, NEW first, NEW nxt, NEW prv, NEW nxt2, NEW prv2, NEW c,
         ListOf(w, n, A, first, nxt, prv), PushLinks(A, c, first, nxt, prv, nxt2, prv2)
  PROVE  \E v : ListOf(v, n + 1, A \cup {c}, c, nxt2, prv2)
<1> USE DEF PushLinks
<1> DEFINE v == [i \in 1..n + 1 |-> IF i = 1 THEN c ELSE w[i - 1]]
<1>0. n \in Nat /\ w \in [1..n -> A]
  BY DEF ListOf, Enumerates
<1>1. v[1] = c /\ \A i \in 1..n : v[i + 1] = w[i] /\ i + 1 \in 1..n + 1
  BY <1>0
<1>2. v \in [1..n + 1 -> A \cup {c}]
  BY <1>0
<1>3. \A i \in 1..n + 1 : i = 1 \/ (i - 1 \in 1..n /\ i = (i - 1) + 1)
  BY <1>0
<1> HIDE DEF v
<1>4. Enumerates(v, n + 1, A \cup {c})
  <2>1. \A i, j \in 1..n + 1 : v[i] = v[j] => i = j
    <3>1. \A i \in 1..n : w[i] # c
      BY <1>0
    <3>2. \A i \in 1..n + 1 : i # 1 => i - 1 \in 1..n /\ v[i] = w[i - 1]
      BY <1>1, <1>3
    <3>3. \A i, j \in 1..n : w[i] = w[j] => i = j
      BY DEF ListOf, Enumerates
    <3> TAKE i, j \in 1..n + 1
    <3>4. CASE i = 1 \/ j = 1
      BY <1>1, <3>1, <3>2, <3>4
    <3>5. CASE i # 1 /\ j # 1
      <4>1. v[i] = v[j] => i - 1 = j - 1
        BY <3>2, <3>3, <3>5
      <4> QED BY <1>0, <4>1
    <3> QED BY <3>4, <3>5
  <2>2. ASSUME NEW x \in A \cup {c} PROVE \E i \in 1..n + 1 : v[i] = x
    <3>1. CASE x = c
      BY <1>0, <1>1, <3>1
    <3>2. CASE x \in A
      <4>1. PICK i \in 1..n : w[i] = x
        BY <3>2 DEF ListOf, Enumerates
      <4> QED BY <1>1, <4>1
    <3> QED BY <3>1, <3>2
  <2> QED BY <1>0, <1>2, <2>1, <2>2 DEF Enumerates
<1>5. Linked(v, n + 1, c, nxt2, prv2)
  <2>1. first = IF n = 0 THEN NULL ELSE w[1]
    BY DEF ListOf, Linked
  <2>2. nxt2[v[1]] = (IF 1 = n + 1 THEN NULL ELSE v[2]) /\ prv2[v[1]] = NULL
    <3>1. n # 0 => 1 \in 1..n /\ v[2] = w[1]
      BY <1>0, <1>1
    <3> QED BY <1>0, <1>1, <2>1, <3>1
  <2>3. ASSUME NEW i \in 1..n
        PROVE  /\ nxt2[v[i + 1]] = IF i + 1 = n + 1 THEN NULL ELSE v[i + 2]
               /\ prv2[v[i + 1]] = v[i]
    <3>1. nxt[w[i]] = (IF i = n THEN NULL ELSE w[i + 1]) /\ prv[w[i]] = (IF i = 1 THEN NULL ELSE w[i - 1])
      BY DEF ListOf, Linked
    <3>2. w[i] \in A /\ v[i + 1] = w[i]
      BY <1>0, <1>1
    <3>3. nxt2[w[i]] = nxt[w[i]] /\ prv2[w[i]] = IF w[i] = first THEN c ELSE prv[w[i]]
      BY <3>2
    <3>4. i # n => v[i + 2] = w[i + 1]
      <4>1. i # n => i + 1 \in 1..n /\ (i + 1) + 1 = i + 2
        BY <1>0
      <4> QED BY <1>1, <4>1
    <3>5. i # 1 => v[i] = w[i - 1]
      <4>1. i # 1 => i - 1 \in 1..n /\ (i - 1) + 1 = i
        BY <1>0
      <4> QED BY <1>1, <4>1
    <3>6. w[i] = first <=> i = 1
      <4>1. n # 0 /\ 1 \in 1..n
        BY <1>0
      <4> QED BY <2>1, <4>1 DEF ListOf, Enumerates
    <3>7. i + 1 = n + 1 <=> i = n
      BY <1>0
    <3> QED BY <1>1, <3>1, <3>2, <3>3, <3>4, <3>5, <3>6, <3>7
  <2>4. ASSUME NEW j \in 1..n + 1
        PROVE  /\ nxt2[v[j]] = IF j = n + 1 THEN NULL ELSE v[j + 1]
               /\ prv2[v[j]] = IF j = 1 THEN NULL ELSE v[j - 1]
    <3>1. CASE j = 1
      BY <2>2, <3>1
    <3>2. CASE j # 1
      <4>1. PICK i \in 1..n : j = i + 1 /\ j - 1 = i /\ j + 1 = i + 2
        BY <1>3, <3>2
      <4> QED BY <2>3, <3>2, <4>1
    <3> QED BY <3>1, <3>2
  <2>5. n + 1 # 0
    BY <1>0
  <2> QED BY <1>1, <2>4, <2>5 DEF Linked
<1> QED BY <1>4, <1>5 DEF ListOf

\* A new member at the end.
LEMMA ListAppend ==
  ASSUME NEW w, NEW n, NEW A, NEW first, NEW nxt, NEW prv, NEW nxt2, NEW prv2, NEW c,
         ListOf(w, n, A, first, nxt, prv), c \notin A, n # 0,
         nxt2[c] = NULL, prv2[c] = w[n],
         \A x \in A : prv2[x] = prv[x] /\ nxt2[x] = IF x = w[n] THEN c ELSE nxt[x]
  PROVE  LET v == [i \in 1..n + 1 |-> IF i = n + 1 THEN c ELSE w[i]] IN
         ListOf(v, n + 1, A \cup {c}, first, nxt2, prv2)
<1> DEFINE v == [i \in 1..n + 1 |-> IF i = n + 1 THEN c ELSE w[i]]
<1>0. n \in Nat /\ w \in [1..n -> A] /\ n \in 1..n /\ 1 \in 1..n /\ n + 1 # 0 /\ n + 1 # 1
  BY DEF ListOf, Enumerates
<1>1. v[n + 1] = c /\ \A i \in 1..n : v[i] = w[i] /\ i \in 1..n + 1 /\ i # n + 1
  BY <1>0
<1>2. v \in [1..n + 1 -> A \cup {c}]
  BY <1>0
<1>3. \A i \in 1..n + 1 : i = n + 1 \/ i \in 1..n
  BY <1>0
<1>9. n + 1 \in 1..n + 1 /\ (n + 1) - 1 = n
  BY <1>0
<1> HIDE DEF v
<1>4. Enumerates(v, n + 1, A \cup {c})
  <2>1. \A i, j \in 1..n + 1 : v[i] = v[j] => i = j
    <3>1. \A i \in 1..n : w[i] # c
      BY <1>0
    <3>3. \A i, j \in 1..n : w[i] = w[j] => i = j
      BY DEF ListOf, Enumerates
    <3> QED BY <1>1, <1>3, <3>1, <3>3
  <2>2. \A x \in A \cup {c} : \E i \in 1..n + 1 : v[i] = x
    <3>1. \A x \in A : \E i \in 1..n : w[i] = x
      BY DEF ListOf, Enumerates
    <3> QED BY <1>1, <1>9, <3>1
  <2> QED BY <1>0, <1>2, <2>1, <2>2 DEF Enumerates
<1>5. Linked(v, n + 1, first, nxt2, prv2)
  <2>1. first = v[1]
    BY <1>0, <1>1 DEF ListOf, Linked
  <2>2. nxt2[v[n + 1]] = NULL /\ prv2[v[n + 1]] = v[n]
    BY <1>0, <1>1
  <2>3. ASSUME NEW i \in 1..n
        PROVE  /\ nxt2[v[i]] = v[i + 1]
               /\ prv2[v[i]] = IF i = 1 THEN NULL ELSE v[i - 1]
    <3>1. nxt[w[i]] = (IF i = n THEN NULL ELSE w[i + 1]) /\ prv[w[i]] = (IF i = 1 THEN NULL ELSE w[i - 1])
      BY DEF ListOf, Linked
    <3>2. w[i] \in A /\ v[i] = w[i]
      BY <1>0, <1>1
    <3>3. w[i] = w[n] <=> i = n
      BY <1>0 DEF ListOf, Enumerates
    <3>4. i # n => i + 1 \in 1..n
      BY <1>0
    <3>5. i # 1 => i - 1 \in 1..n
      BY <1>0
    <3> QED BY <1>1, <3>1, <3>2, <3>3, <3>4, <3>5
  <2> QED BY <1>0, <1>1, <1>3, <1>9, <2>1, <2>2, <2>3 DEF Linked
<1> QED BY <1>4, <1>5 DEF ListOf, v

\* The member at place k taken out.
Removed(w, n, k) == [i \in 1..n - 1 |-> IF i < k THEN w[i] ELSE w[i + 1]]

\* The links nxt2 and prv2 pass c by.
TakesOut(A, c, nxt, prv, nxt2, prv2) ==
  \A x \in A : x # c =>
    /\ nxt2[x] = IF x = prv[c] THEN nxt[c] ELSE nxt[x]
    /\ prv2[x] = IF x = nxt[c] THEN prv[c] ELSE prv[x]

\* A list with its k-th member taken out.
LEMMA ListRemove ==
  ASSUME NEW w, NEW n, NEW A, NEW first, NEW nxt, NEW prv, NEW nxt2, NEW prv2, NEW k \in 1..n,
         NULL \notin A, ListOf(w, n, A, first, nxt, prv),
         TakesOut(A, w[k], nxt, prv, nxt2, prv2)
  PROVE  ListOf(Removed(w, n, k), n - 1, A \ {w[k]},
                IF prv[w[k]] = NULL THEN nxt[w[k]] ELSE first, nxt2, prv2)
<1> USE DEF TakesOut
<1> DEFINE v == Removed(w, n, k)
           B == A \ {w[k]}
           f == IF prv[w[k]] = NULL THEN nxt[w[k]] ELSE first
<1>0. n \in Nat /\ w \in [1..n -> A] /\ n - 1 \in Nat /\ k \in Nat /\ k # 0
  BY DEF ListOf, Enumerates
<1>1. \A i, j \in 1..n : w[i] = w[j] => i = j
  BY DEF ListOf, Enumerates
<1>2. /\ \A i \in 1..n - 1 : i < k => i \in 1..n /\ v[i] = w[i] /\ i # k
      /\ \A i \in 1..n - 1 : ~(i < k) => i + 1 \in 1..n /\ v[i] = w[i + 1] /\ i + 1 # k
      /\ v = [i \in 1..n - 1 |-> v[i]]
  BY <1>0 DEF Removed
<1>3. /\ nxt[w[k]] = IF k = n THEN NULL ELSE w[k + 1]
      /\ prv[w[k]] = IF k = 1 THEN NULL ELSE w[k - 1]
      /\ first = w[1]
  BY <1>0 DEF ListOf, Linked
<1>4. \A i \in 1..n :
        /\ nxt[w[i]] = IF i = n THEN NULL ELSE w[i + 1]
        /\ prv[w[i]] = IF i = 1 THEN NULL ELSE w[i - 1]
  BY DEF ListOf, Linked
<1> HIDE DEF v
<1>5. Enumerates(v, n - 1, B)
  <2>1. \A i \in 1..n - 1 : v[i] \in B
    BY <1>0, <1>1, <1>2
  <2>2. \A i, j \in 1..n - 1 : v[i] = v[j] => i = j
    <3> TAKE i, j \in 1..n - 1
    <3>1. i \in Nat /\ j \in Nat
      BY <1>0
    <3>2. CASE i < k /\ j < k
      BY <1>1, <1>2, <3>2
    <3>3. CASE ~(i < k) /\ ~(j < k)
      <4>1. v[i] = v[j] => i + 1 = j + 1
        BY <1>1, <1>2, <3>3
      <4> QED BY <3>1, <4>1
    <3>4. CASE i < k /\ ~(j < k)
      <4>1. i # j + 1
        BY <1>0, <3>1, <3>4
      <4> QED BY <1>1, <1>2, <3>4, <4>1
    <3>5. CASE ~(i < k) /\ j < k
      <4>1. i + 1 # j
        BY <1>0, <3>1, <3>5
      <4> QED BY <1>1, <1>2, <3>5, <4>1
    <3> QED BY <3>2, <3>3, <3>4, <3>5
  <2>3. ASSUME NEW x \in B PROVE \E i \in 1..n - 1 : v[i] = x
    <3>1. PICK i \in 1..n : w[i] = x
      BY DEF ListOf, Enumerates
    <3>2. i # k
      BY <3>1
    <3>3. CASE i < k
      <4>1. i \in 1..n - 1
        BY <1>0, <3>3
      <4> QED BY <1>2, <3>1, <3>3, <4>1
    <3>4. CASE ~(i < k)
      <4>1. i - 1 \in 1..n - 1 /\ ~(i - 1 < k) /\ (i - 1) + 1 = i
        BY <1>0, <3>2, <3>4
      <4> QED BY <1>2, <3>1, <4>1
    <3> QED BY <3>3, <3>4
  <2>4. v \in [1..n - 1 -> B]
    BY <1>2, <2>1
  <2> QED BY <1>0, <2>2, <2>3, <2>4 DEF Enumerates
<1>6. f = IF n - 1 = 0 THEN NULL ELSE v[1]
  <2>1. CASE n = 1
    <3>1. k = 1 /\ n - 1 = 0
      BY <1>0, <2>1
    <3> QED BY <1>3, <2>1, <3>1
  <2>2. CASE n # 1
    <3>1. 1 \in 1..n - 1 /\ n - 1 # 0 /\ 1 \in 1..n
      BY <1>0, <2>2
    <3>2. CASE k = 1
      <4>1. k # n /\ ~(1 < k)
        BY <2>2, <3>2
      <4>2. v[1] = w[2]
        BY <1>2, <3>1, <4>1
      <4> QED BY <1>3, <3>1, <3>2, <4>1, <4>2
    <3>3. CASE k # 1
      <4>1. 1 < k /\ k - 1 \in 1..n
        BY <1>0, <3>3
      <4>2. v[1] = w[1]
        BY <1>2, <3>1, <4>1
      <4>3. w[k - 1] # NULL
        BY <1>0, <4>1
      <4> QED BY <1>3, <3>1, <3>3, <4>2, <4>3
    <3> QED BY <3>2, <3>3
  <2> QED BY <2>1, <2>2
<1>7. ASSUME NEW i \in 1..n - 1
      PROVE  /\ nxt2[v[i]] = IF i = n - 1 THEN NULL ELSE v[i + 1]
             /\ prv2[v[i]] = IF i = 1 THEN NULL ELSE v[i - 1]
  <2>0. i \in Nat /\ i # 0
    BY <1>0
  <2>1. \A j \in 1..n : w[j] \in A
    BY <1>0
  <2>2. CASE i < k
    <3>1. i \in 1..n /\ v[i] = w[i] /\ i # k /\ w[i] # w[k]
      BY <1>1, <1>2, <2>2
    <3>2. nxt2[w[i]] = (IF w[i] = prv[w[k]] THEN nxt[w[k]] ELSE nxt[w[i]])
          /\ prv2[w[i]] = (IF w[i] = nxt[w[k]] THEN prv[w[k]] ELSE prv[w[i]])
      BY <2>1, <3>1
    <3>3. w[i] = prv[w[k]] <=> i = k - 1
      <4>1. k # 1 /\ k - 1 \in 1..n
        BY <1>0, <2>0, <2>2
      <4> QED BY <1>1, <1>3, <3>1, <4>1
    <3>4. w[i] # nxt[w[k]]
      <4>1. k # n => k + 1 \in 1..n /\ i # k + 1
        BY <1>0, <2>0, <2>2
      <4>2. w[i] # NULL
        BY <2>1, <3>1
      <4> QED BY <1>1, <1>3, <3>1, <4>1, <4>2
    <3>5. nxt2[v[i]] = IF i = n - 1 THEN NULL ELSE v[i + 1]
      <4>1. CASE i = k - 1
        <5>1. k = n <=> i = n - 1
          BY <1>0, <2>0, <4>1
        <5>2. i # n - 1 => i + 1 \in 1..n - 1 /\ ~(i + 1 < k) /\ (i + 1) + 1 = k + 1
          BY <1>0, <2>0, <4>1
        <5>3. i # n - 1 => v[i + 1] = w[k + 1]
          BY <1>2, <5>2
        <5> QED BY <1>3, <3>1, <3>2, <3>3, <4>1, <5>1, <5>3
      <4>2. CASE i # k - 1
        <5>1. i # n /\ i # n - 1 /\ i + 1 \in 1..n - 1 /\ i + 1 < k
          BY <1>0, <2>0, <2>2, <4>2
        <5>2. v[i + 1] = w[i + 1] /\ nxt[w[i]] = w[i + 1]
          BY <1>2, <1>4, <3>1, <5>1
        <5> QED BY <3>1, <3>2, <3>3, <4>2, <5>1, <5>2
      <4> QED BY <4>1, <4>2
    <3>6. prv2[v[i]] = IF i = 1 THEN NULL ELSE v[i - 1]
      <4>1. i # 1 => i - 1 \in 1..n - 1 /\ i - 1 < k
        BY <1>0, <2>0, <2>2
      <4>2. i # 1 => v[i - 1] = w[i - 1]
        BY <1>2, <4>1
      <4> QED BY <1>4, <3>1, <3>2, <3>4, <4>2
    <3> QED BY <3>5, <3>6
  <2>3. CASE ~(i < k)
    <3>1. i + 1 \in 1..n /\ v[i] = w[i + 1] /\ i + 1 # k /\ w[i + 1] # w[k]
      BY <1>1, <1>2, <2>3
    <3>2. nxt2[w[i + 1]] = (IF w[i + 1] = prv[w[k]] THEN nxt[w[k]] ELSE nxt[w[i + 1]])
          /\ prv2[w[i + 1]] = (IF w[i + 1] = nxt[w[k]] THEN prv[w[k]] ELSE prv[w[i + 1]])
      BY <2>1, <3>1
    <3>3. w[i + 1] # prv[w[k]]
      <4>1. k # 1 => k - 1 \in 1..n /\ i + 1 # k - 1
        BY <1>0, <2>0, <2>3
      <4>2. w[i + 1] # NULL
        BY <2>1, <3>1
      <4> QED BY <1>1, <1>3, <3>1, <4>1, <4>2
    <3>4. w[i + 1] = nxt[w[k]] <=> i = k
      <4>1. k # n /\ k + 1 \in 1..n
        BY <1>0, <2>0, <2>3
      <4>2. i + 1 = k + 1 <=> i = k
        BY <1>0, <2>0
      <4> QED BY <1>1, <1>3, <3>1, <4>1, <4>2
    <3>5. nxt2[v[i]] = IF i = n - 1 THEN NULL ELSE v[i + 1]
      <4>1. i + 1 = n <=> i = n - 1
        BY <1>0, <2>0
      <4>2. i # n - 1 => i + 1 \in 1..n - 1 /\ ~(i + 1 < k)
        BY <1>0, <2>0, <2>3
      <4>3. i # n - 1 => v[i + 1] = w[(i + 1) + 1]
        BY <1>2, <4>2
      <4> QED BY <1>4, <3>1, <3>2, <3>3, <4>1, <4>3
    <3>6. prv2[v[i]] = IF i = 1 THEN NULL ELSE v[i - 1]
      <4>1. CASE i = k
        <5>1. i # 1 => i - 1 \in 1..n - 1 /\ i - 1 < k
          BY <1>0, <2>0, <4>1
        <5>2. i # 1 => v[i - 1] = w[i - 1]
          BY <1>2, <5>1
        <5> QED BY <1>3, <3>1, <3>2, <3>4, <4>1, <5>2
      <4>2. CASE i # k
        <5>1. i # 1 /\ i + 1 # 1 /\ (i + 1) - 1 = i /\ i - 1 \in 1..n - 1 /\ ~(i - 1 < k) /\ (i - 1) + 1 = i
          BY <1>0, <2>0, <2>3, <4>2
        <5>2. v[i - 1] = w[i]
          BY <1>2, <5>1
        <5> QED BY <1>4, <3>1, <3>2, <3>4, <4>2, <5>1, <5>2
      <4> QED BY <4>1, <4>2
    <3> QED BY <3>5, <3>6
  <2> QED BY <2>2, <2>3
<1>8. Linked(v, n - 1, f, nxt2, prv2)
  BY <1>6, <1>7 DEF Linked
<1> QED BY <1>5, <1>8 DEF ListOf, v

(***************************************************************************)
(* Walk finds a list.                                                      *)
(***************************************************************************)
\* What Walk gives from every cell, with n cells after it at most.
WalksFrom(f, nxt, most) ==
  \A c \in DOMAIN nxt, n \in 0..most :
    f[n][c] = <<c>> \o (IF n = 0 \/ nxt[c] \notin DOMAIN nxt THEN <<>> ELSE f[n - 1][nxt[c]])

\* The recursion of a walk has a solution, which the walk is read off.
LEMMA WalkFrom ==
  ASSUME NEW nxt, IsFiniteSet(DOMAIN nxt), NEW first
  PROVE  \E f \in [0..Cardinality(DOMAIN nxt) -> [DOMAIN nxt -> Seq(DOMAIN nxt)]] :
           /\ WalksFrom(f, nxt, Cardinality(DOMAIN nxt))
           /\ Walk(first, nxt) = IF first \in DOMAIN nxt
                                 THEN f[Cardinality(DOMAIN nxt)][first] ELSE <<>>
<1> DEFINE D == DOMAIN nxt
<1>0. PICK most \in Nat : most = Cardinality(D)
  BY FS_CardinalityType
<1> DEFINE from == CHOOSE g : g = [n \in 0..Cardinality(D) |-> [c \in D |->
                     <<c>> \o (IF n = 0 \/ nxt[c] \notin D THEN <<>> ELSE g[n - 1][nxt[c]])]]
           Rows == [D -> Seq(D)]
           row0 == [c \in D |-> <<c>> \o <<>>]
           step == [p \in (1..most) \X Rows |->
                      [c \in D |-> <<c>> \o (IF nxt[c] \notin D THEN <<>> ELSE p[2][nxt[c]])]]
<1>1. \A c \in D, s \in Seq(D) : <<c>> \o s \in Seq(D)
  <2> TAKE c \in D, s \in Seq(D)
  <2>1. <<c>> \in Seq(D)
    OBVIOUS
  <2> QED BY <2>1, ConcatProperties
<1>2. <<>> \in Seq(D)
  BY EmptySeq
<1>3. row0 \in Rows
  <2> HIDE DEF D
  <2> QED BY <1>1, <1>2
<1>4. step \in [(1..most) \X Rows -> Rows]
  <2> HIDE DEF D
  <2> QED BY <1>1, <1>2
<1>5. PICK f \in [0..most -> Rows] : Recursive(f, most, row0, step)
  <2> HIDE DEF row0, step, Rows
  <2> QED BY <1>3, <1>4, RecursiveFunction
<1>6. ASSUME NEW n \in 0..most
      PROVE  f[n] = [c \in D |-> <<c>> \o (IF n = 0 \/ nxt[c] \notin D THEN <<>> ELSE f[n - 1][nxt[c]])]
  <2>1. CASE n = 0
    BY <1>5, <2>1 DEF Recursive
  <2>2. CASE n # 0
    <3>1. n \in 1..most /\ <<n, f[n - 1]>> \in (1..most) \X Rows
      BY <2>2
    <3>2. f[n] = step[<<n, f[n - 1]>>]
      BY <1>5, <3>1 DEF Recursive
    <3> HIDE DEF Rows, D
    <3> QED BY <2>2, <3>1, <3>2
  <2> QED BY <2>1, <2>2
<1>7. f = [n \in 0..Cardinality(D) |-> [c \in D |->
             <<c>> \o (IF n = 0 \/ nxt[c] \notin D THEN <<>> ELSE f[n - 1][nxt[c]])]]
  <2> HIDE DEF D
  <2> QED BY <1>0, <1>6
<1>8. from = [n \in 0..Cardinality(D) |-> [c \in D |->
             <<c>> \o (IF n = 0 \/ nxt[c] \notin D THEN <<>> ELSE from[n - 1][nxt[c]])]]
  BY <1>7, Zenon
<1>9. Walk(first, nxt) = IF first \in D THEN from[Cardinality(D)][first] ELSE <<>>
  BY Zenon DEF Walk
<1> HIDE DEF from
<1>10. \A n \in 0..most : from[n] = [c \in D |->
             <<c>> \o (IF n = 0 \/ nxt[c] \notin D THEN <<>> ELSE from[n - 1][nxt[c]])]
  BY <1>0, <1>8
<1> DEFINE T == {n \in 0..most : from[n] = f[n]}
<1>11. 0 \in T
  <2>1. 0 \in 0..most
    OBVIOUS
  <2>2. f[0] = [c \in D |-> <<c>> \o <<>>]
    BY <1>6, <2>1
  <2>3. from[0] = [c \in D |-> <<c>> \o <<>>]
    BY <1>10, <2>1
  <2> QED BY <2>1, <2>2, <2>3
<1>12. ASSUME NEW n \in 1..most, n - 1 \in T PROVE n \in T
  <2>1. n \in 0..most /\ n # 0
    OBVIOUS
  <2>2. from[n] = f[n]
    BY <1>6, <1>10, <1>12, <2>1, ZenonT(40)
  <2> QED BY <2>1, <2>2
<1> HIDE DEF T
<1>13. \A n \in 0..most : n \in T
  BY <1>11, <1>12, RangeInduction
<1>14. Walk(first, nxt) = IF first \in D THEN f[most][first] ELSE <<>>
  <2>1. most \in 0..most
    OBVIOUS
  <2> QED BY <1>0, <1>9, <1>13, <2>1 DEF T
<1>15. WalksFrom(f, nxt, most)
  BY <1>6 DEF WalksFrom
<1> QED BY <1>0, <1>5, <1>14, <1>15

\* Whatever the links, a walk meets members of their domain.
LEMMA WalkType ==
  ASSUME NEW nxt, IsFiniteSet(DOMAIN nxt), NEW first
  PROVE  Walk(first, nxt) \in Seq(DOMAIN nxt)
<1> DEFINE D == DOMAIN nxt
<1>0. PICK most \in Nat : most = Cardinality(D)
  BY FS_CardinalityType
<1> HIDE DEF D
<1>1. PICK f \in [0..most -> [D -> Seq(D)]] :
        Walk(first, nxt) = IF first \in D THEN f[most][first] ELSE <<>>
  BY <1>0, WalkFrom DEF D
<1>2. most \in 0..most /\ <<>> \in Seq(D)
  BY EmptySeq
<1>3. f[most] \in [D -> Seq(D)]
  BY <1>2
<1> QED BY <1>1, <1>2, <1>3 DEF D

\* A numbering counts its set.
LEMMA ListSize ==
  ASSUME NEW w, NEW n, NEW A, Enumerates(w, n, A)
  PROVE  IsFiniteSet(A) /\ Cardinality(A) = n
<1>1. w \in Bijection(1..n, A)
  BY Fun_IsBij DEF Enumerates
<1>2. ExistsBijection(1..n, A) /\ n \in Nat
  BY <1>1 DEF ExistsBijection, Enumerates
<1> QED BY <1>2, FS_NatBijection, FS_CountingElements

\* Walk finds the members of a list in their order.
LEMMA WalkIs ==
  ASSUME NEW w, NEW n, NEW A, NEW first, NEW nxt, NEW prv, ListOf(w, n, A, first, nxt, prv),
         IsFiniteSet(DOMAIN nxt), A \subseteq DOMAIN nxt, NULL \notin DOMAIN nxt
  PROVE  /\ Walk(first, nxt) = w
         /\ w \in Seq(A) /\ Len(w) = n /\ n <= Cardinality(DOMAIN nxt)
<1> DEFINE D == DOMAIN nxt
<1>0. n \in Nat /\ w \in [1..n -> A]
  BY DEF ListOf, Enumerates
<1>1. PICK most \in Nat : most = Cardinality(D) /\ n <= most
  <2>1. Cardinality(A) = n
    BY ListSize DEF ListOf
  <2> QED BY <2>1, FS_CardinalityType, FS_Subset
<1>2. w \in Seq(A) /\ Len(w) = n
  BY <1>0
<1>3. PICK f \in [0..most -> [D -> Seq(D)]] :
        /\ WalksFrom(f, nxt, most)
        /\ Walk(first, nxt) = IF first \in D THEN f[most][first] ELSE <<>>
  <2> HIDE DEF D
  <2> QED BY <1>1, WalkFrom DEF D
<1>4. CASE n = 0
  <2>1. first = NULL
    BY <1>4 DEF ListOf, Linked
  <2>2. w = <<>>
    BY <1>0, <1>2, <1>4
  <2> QED BY <1>1, <1>2, <1>3, <2>1, <2>2
<1>5. CASE n # 0
  <2> DEFINE part(k) == [j \in 1..k + 1 |-> w[(n - k - 1) + j]]
             T == {k \in 0..n - 1 : \A m \in 0..most : k <= m => f[m][w[n - k]] = part(k)}
  <2> HIDE DEF D
  <2>0. \A i \in 1..n : w[i] \in D
    BY <1>0 DEF D
  <2>1. 0 \in T
    <3>1. nxt[w[n]] \notin D /\ n \in 1..n
      BY <1>0, <1>5 DEF ListOf, Linked, D
    <3>2. part(0) = <<w[n]>>
      BY <1>0
    <3>3. \A m \in 0..most : f[m][w[n]] = <<w[n]>> \o <<>>
      BY <1>3, <2>0, <3>1 DEF WalksFrom, D
    <3>4. <<w[n]>> \in Seq(D)
      BY <2>0, <3>1
    <3>5. <<w[n]>> \o <<>> = <<w[n]>>
      BY <3>4, ConcatEmptySeq
    <3>6. 0 \in 0..n - 1 /\ n - 0 = n
      BY <1>0, <1>5
    <3> HIDE DEF part
    <3> QED BY <3>2, <3>3, <3>5, <3>6
  <2>2. ASSUME NEW k \in 1..n - 1, k - 1 \in T PROVE k \in T
    <3>1. /\ k \in 0..n - 1 /\ n - k \in 1..n /\ n - k # n /\ (n - k) + 1 \in 1..n
          /\ (n - k) + 1 = n - (k - 1)
      BY <1>0
    <3>2. nxt[w[n - k]] = w[(n - k) + 1]
      BY <3>1 DEF ListOf, Linked
    <3>3. ASSUME NEW m \in 0..most, k <= m PROVE f[m][w[n - k]] = part(k)
      <4>1. m # 0 /\ m - 1 \in 0..most /\ k - 1 <= m - 1
        BY <1>0, <3>3
      <4>2. f[m][w[n - k]] = <<w[n - k]>> \o f[m - 1][w[(n - k) + 1]]
        BY <1>3, <2>0, <3>1, <3>2, <4>1 DEF WalksFrom, D
      <4>3. f[m - 1][w[(n - k) + 1]] = part(k - 1)
        BY <2>2, <3>1, <4>1
      <4>4. part(k - 1) \in [1..k -> D]
        <5>1. \A j \in 1..k : (n - (k - 1) - 1) + j \in 1..n
          BY <1>0
        <5>2. (k - 1) + 1 = k
          OBVIOUS
        <5> QED BY <2>0, <5>1, <5>2
      <4>5. <<w[n - k]>> \in Seq(D) /\ part(k - 1) \in Seq(D) /\ Len(part(k - 1)) = k
        <5>1. w[n - k] \in D /\ k \in Nat
          BY <1>0, <2>0, <3>1
        <5> HIDE DEF part
        <5> QED BY <4>4, <5>1
      <4>6. <<w[n - k]>> \o part(k - 1) = part(k)
        <5> DEFINE s == <<w[n - k]>>
                   t == part(k - 1)
        <5>1. /\ s \o t \in Seq(D) /\ Len(s \o t) = 1 + k
              /\ \A i \in 1..1 + k : (s \o t)[i] = IF i <= 1 THEN s[i] ELSE t[i - 1]
          <6>1. Len(s) = 1
            OBVIOUS
          <6> HIDE DEF s, t
          <6> QED BY <4>5, <6>1, ConcatProperties DEF s, t
        <5>2. \A i \in 1..k + 1 : part(k)[i] = w[(n - k - 1) + i]
          OBVIOUS
        <5>3. \A i \in 1..k : t[i] = w[(n - (k - 1) - 1) + i]
          BY <4>4
        <5>4. part(k) = [i \in 1..k + 1 |-> part(k)[i]]
          OBVIOUS
        <5> HIDE DEF part
        <5>5. \A i \in 1..k + 1 : (s \o t)[i] = part(k)[i]
          <6> TAKE i \in 1..k + 1
          <6>1. CASE i = 1
            <7>1. (n - k - 1) + 1 = n - k
              BY <1>0
            <7>2. 1 \in 1..1 + k /\ 1 \in 1..k + 1
              OBVIOUS
            <7>3. (s \o t)[1] = w[n - k]
              BY <5>1, <7>2
            <7>4. part(k)[1] = w[n - k]
              BY <5>2, <7>1, <7>2
            <7> QED BY <6>1, <7>3, <7>4
          <6>2. CASE i # 1
            <7>1. i - 1 \in 1..k /\ (n - (k - 1) - 1) + (i - 1) = (n - k - 1) + i /\ i \in 1..1 + k
                  /\ ~(i <= 1)
              BY <1>0, <6>2
            <7>2. t[i - 1] = w[(n - k - 1) + i]
              BY <5>3, <7>1
            <7>3. (s \o t)[i] = t[i - 1]
              BY <5>1, <7>1
            <7> QED BY <5>2, <7>2, <7>3
          <6> QED BY <6>1, <6>2
        <5>6. s \o t = [i \in 1..k + 1 |-> (s \o t)[i]]
          <6>1. 1 + k = k + 1
            OBVIOUS
          <6> HIDE DEF s, t
          <6>2. s \o t \in [1..Len(s \o t) -> D]
            BY <5>1, LenProperties
          <6> QED BY <5>1, <6>1, <6>2
        <5> QED BY <5>4, <5>5, <5>6
      <4> HIDE DEF part
      <4> QED BY <4>2, <4>3, <4>6
    <3> HIDE DEF part
    <3> QED BY <3>1, <3>3
  <2> HIDE DEF T
  <2>3. \A k \in 0..n - 1 : k \in T
    <3>1. n - 1 \in Nat
      BY <1>0, <1>5
    <3> QED BY <2>1, <2>2, <3>1, RangeInduction
  <2>4. f[most][w[1]] = part(n - 1)
    <3>1. n - 1 \in 0..n - 1 /\ n - (n - 1) = 1 /\ most \in 0..most /\ n - 1 <= most
      BY <1>0, <1>1, <1>5
    <3> HIDE DEF part
    <3> QED BY <2>3, <3>1 DEF T
  <2>5. part(n - 1) = w
    <3>1. (n - 1) + 1 = n /\ \A j \in 1..n : (n - (n - 1) - 1) + j = j
      BY <1>0
    <3> QED BY <1>0, <3>1
  <2>6. first = w[1] /\ first \in D
    <3>1. first = w[1]
      BY <1>5 DEF ListOf, Linked
    <3> QED BY <1>0, <1>5, <2>0, <3>1
  <2> QED BY <1>1, <1>2, <1>3, <2>4, <2>5, <2>6 DEF D
<1> QED BY <1>4, <1>5

(***************************************************************************)
(* Tables, and an element joining its bucket.                              *)
(***************************************************************************)
Pointers == Cells \cup {NULL}

Handles(K) ==
  [ key : K, hashv : Nat, prev : Pointers, next : Pointers, hh_prev : Pointers,
    hh_next : Pointers ]

Bkts == [hh_head : Pointers, count : Nat, expand_mult : Nat]

\* Tables of the elements A, with keys in K, and m buckets.
Tables(A, K, m) ==
  [ head : Pointers, hh : [A -> Handles(K)], tail : Pointers, num_items : Nat,
    buckets : [0..(m - 1) -> Bkts], ineff_expands : Nat, noexpand : BOOLEAN ]

\* Those of D that belong in bucket b.
BucketMembers(t, D, m, b) == {c \in D : BucketOf(t.hh[c].hashv, m) = b}

ChainOf(t, w, D, m, b) ==
  ListOf(w, t.buckets[b].count, BucketMembers(t, D, m, b), t.buckets[b].hh_head,
         ChainNextLinks(t), ChainPrevLinks(t))

\* The buckets hold the elements of D, each in its own, and no others.
Filled(t, D, m) == \A b \in 0..(m - 1) : \E w : ChainOf(t, w, D, m, b)

\* What a change to the buckets leaves alone.
SameOrder(u, t, A) ==
  /\ u.head = t.head /\ u.tail = t.tail /\ u.num_items = t.num_items
  /\ \A x \in A : /\ u.hh[x].key = t.hh[x].key /\ u.hh[x].hashv = t.hh[x].hashv
                  /\ u.hh[x].next = t.hh[x].next /\ u.hh[x].prev = t.hh[x].prev

\* The fields of a table, one by one.
LEMMA TableFields ==
  ASSUME NEW A, NEW K, NEW m, NEW t \in Tables(A, K, m)
  PROVE  /\ t.head \in Pointers /\ t.tail \in Pointers /\ t.num_items \in Nat
         /\ t.hh \in [A -> Handles(K)] /\ DOMAIN t.hh = A
         /\ t.buckets \in [0..(m - 1) -> Bkts] /\ DOMAIN t.buckets = 0..(m - 1)
         /\ \A x \in A :
              /\ t.hh[x] \in Handles(K) /\ t.hh[x].key \in K /\ t.hh[x].hashv \in Nat
              /\ t.hh[x].next \in Pointers /\ t.hh[x].prev \in Pointers
              /\ t.hh[x].hh_next \in Pointers /\ t.hh[x].hh_prev \in Pointers
         /\ \A b \in 0..(m - 1) :
              /\ t.buckets[b] \in Bkts /\ t.buckets[b].hh_head \in Pointers
              /\ t.buckets[b].count \in Nat /\ t.buckets[b].expand_mult \in Nat
<1> USE DEF Tables
<1>1. t.hh \in [A -> Handles(K)] /\ t.buckets \in [0..(m - 1) -> Bkts]
  OBVIOUS
<1>2. \A x \in A : t.hh[x] \in Handles(K)
  BY <1>1
<1>3. \A b \in 0..(m - 1) : t.buckets[b] \in Bkts
  BY <1>1
<1> QED BY <1>1, <1>2, <1>3 DEF Handles, Bkts

\* The links of a table at one of its cells.
LEMMA LinkValues ==
  ASSUME NEW A, NEW K, NEW m, NEW t \in Tables(A, K, m)
  PROVE  /\ \A x \in A : /\ NextLinks(t)[x] = t.hh[x].next /\ PrevLinks(t)[x] = t.hh[x].prev
                         /\ ChainNextLinks(t)[x] = t.hh[x].hh_next
                         /\ ChainPrevLinks(t)[x] = t.hh[x].hh_prev
         /\ DOMAIN NextLinks(t) = A /\ DOMAIN PrevLinks(t) = A
         /\ DOMAIN ChainNextLinks(t) = A /\ DOMAIN ChainPrevLinks(t) = A
<1>1. DOMAIN t.hh = A
  BY TableFields
<1> QED BY <1>1 DEF NextLinks, PrevLinks, ChainNextLinks, ChainPrevLinks

\* The buckets are counted right.
LEMMA NumBucketsIs ==
  ASSUME NEW A, NEW K, NEW m \in Nat \ {0}, NEW t \in Tables(A, K, m)
  PROVE  NumBuckets(t) = m
<1>1. DOMAIN t.buckets = 0..(m - 1)
  BY TableFields
<1>2. Cardinality(0..(m - 1)) = m
  BY FS_Interval
<1> QED BY <1>1, <1>2 DEF NumBuckets

\* Every hash value has a bucket.
LEMMA BucketRange ==
  ASSUME NEW h \in Nat, NEW m \in Nat \ {0}
  PROVE  BucketOf(h, m) \in 0..(m - 1)
BY DEF BucketOf

\* u is t with c in front of the chain of bucket b.
JoinsChain(u, t, A, m, b, c) ==
  LET first == t.buckets[b].hh_head IN
  /\ \A x \in A :
       /\ u.hh[x].hh_next = IF x = c THEN first ELSE t.hh[x].hh_next
       /\ u.hh[x].hh_prev = IF x = c THEN NULL ELSE IF x = first THEN c ELSE t.hh[x].hh_prev
  /\ u.buckets[b].hh_head = c /\ u.buckets[b].count = t.buckets[b].count + 1
  /\ \A d \in 0..(m - 1) :
       d # b => /\ u.buckets[d].hh_head = t.buckets[d].hh_head
                /\ u.buckets[d].count = t.buckets[d].count

\* PushInBkt, field by field.
LEMMA PushIs ==
  ASSUME NEW A, NEW K, NEW m \in Nat \ {0}, NEW t \in Tables(A, K, m), A \subseteq Cells,
         NEW c \in A, NEW b \in 0..(m - 1)
  PROVE  /\ PushInBkt(t, b, c) \in Tables(A, K, m)
         /\ SameOrder(PushInBkt(t, b, c), t, A)
         /\ JoinsChain(PushInBkt(t, b, c), t, A, m, b, c)
<1> DEFINE u == PushInBkt(t, b, c)
           first == t.buckets[b].hh_head
           hh2 == [x \in A |-> IF x = c THEN [t.hh[x] EXCEPT !.hh_next = first, !.hh_prev = NULL]
                               ELSE IF x = first THEN [t.hh[x] EXCEPT !.hh_prev = c]
                               ELSE t.hh[x]]
           bkt == [t.buckets[b] EXCEPT !.hh_head = c, !.count = @ + 1]
           bkts2 == [t.buckets EXCEPT ![b] = bkt]
<1>1. u = [t EXCEPT !.buckets = bkts2, !.hh = hh2]
  <2>1. DOMAIN t.hh = A
    BY TableFields
  <2> QED BY <2>1 DEF PushInBkt, Tables, Bkts
<1>2. c \in Pointers /\ NULL \in Pointers /\ first \in Pointers
  BY TableFields DEF Pointers
<1>3. \A x \in A : t.hh[x] \in Handles(K)
  BY TableFields
<1>4. \A x \in A : hh2[x] \in Handles(K)
  BY <1>2, <1>3 DEF Handles
<1>5. hh2 \in [A -> Handles(K)]
  BY <1>4
<1>6. t.buckets \in [0..(m - 1) -> Bkts] /\ t.buckets[b] \in Bkts
  BY TableFields
<1>7. bkt \in Bkts /\ bkt.hh_head = c /\ bkt.count = t.buckets[b].count + 1
  <2>1. PICK old \in Bkts : old = t.buckets[b]
    BY <1>6
  <2>2. PICK n \in Nat : n = old.count
    BY DEF Bkts
  <2>3. n + 1 \in Nat
    OBVIOUS
  <2>4. bkt = [old EXCEPT !.hh_head = c, !.count = n + 1]
    BY <2>1, <2>2 DEF Bkts
  <2> HIDE DEF bkt
  <2> QED BY <1>2, <2>1, <2>2, <2>3, <2>4 DEF Bkts
<1> HIDE DEF bkt
<1>8. bkts2 \in [0..(m - 1) -> Bkts] /\ bkts2[b] = bkt /\ \A d \in 0..(m - 1) : d # b => bkts2[d] = t.buckets[d]
  BY <1>6, <1>7
<1>9. \A x \in A :
        /\ hh2[x].key = t.hh[x].key /\ hh2[x].hashv = t.hh[x].hashv
        /\ hh2[x].next = t.hh[x].next /\ hh2[x].prev = t.hh[x].prev
        /\ hh2[x].hh_next = IF x = c THEN first ELSE t.hh[x].hh_next
        /\ hh2[x].hh_prev = IF x = c THEN NULL ELSE IF x = first THEN c ELSE t.hh[x].hh_prev
  BY <1>3 DEF Handles
<1> HIDE DEF hh2, bkts2, bkt
<1>10. /\ u \in Tables(A, K, m) /\ u.hh = hh2 /\ u.buckets = bkts2 /\ u.head = t.head
       /\ u.tail = t.tail /\ u.num_items = t.num_items /\ u.ineff_expands = t.ineff_expands
       /\ u.noexpand = t.noexpand
  <2> HIDE DEF u
  <2> QED BY <1>1, <1>5, <1>8 DEF Tables
<1> QED BY <1>7, <1>8, <1>9, <1>10 DEF SameOrder, JoinsChain

\* An element joins the chain of its bucket.
LEMMA PushFills ==
  ASSUME NEW A, NEW K, NEW m \in Nat \ {0}, NEW t \in Tables(A, K, m), A \subseteq Cells,
         NULL \notin Cells, NEW D, D \subseteq A, NEW c \in A, c \notin D, Filled(t, D, m),
         NEW u \in Tables(A, K, m),
         SameOrder(u, t, A), NEW b \in 0..(m - 1), b = BucketOf(t.hh[c].hashv, m),
         JoinsChain(u, t, A, m, b, c)
  PROVE  Filled(u, D \cup {c}, m)
<1> DEFINE first == t.buckets[b].hh_head
<1>2. \A d : d # b => BucketMembers(u, D \cup {c}, m, d) = BucketMembers(t, D, m, d)
  BY DEF BucketMembers, SameOrder
<1>3. BucketMembers(u, D \cup {c}, m, b) = BucketMembers(t, D, m, b) \cup {c}
  BY DEF BucketMembers, SameOrder
<1>4. PICK v : ChainOf(t, v, D, m, b)
  BY DEF Filled
<1>5. \A d : BucketMembers(t, D, m, d) \subseteq A
  BY DEF BucketMembers
<1>6. first = NULL \/ first \in BucketMembers(t, D, m, b)
  <2> DEFINE n == t.buckets[b].count
             M == BucketMembers(t, D, m, b)
  <2>1. n \in Nat /\ v \in [1..n -> M] /\ first = IF n = 0 THEN NULL ELSE v[1]
    BY <1>4 DEF ChainOf, ListOf, Enumerates, Linked
  <2> HIDE DEF n, M, first
  <2>2. n = 0 \/ 1 \in 1..n
    BY <2>1
  <2>3. first = NULL \/ first \in M
    BY <2>1, <2>2
  <2> QED BY <2>3 DEF M
<1>7. \A x \in A :
        /\ ChainNextLinks(u)[x] = IF x = c THEN first ELSE ChainNextLinks(t)[x]
        /\ ChainPrevLinks(u)[x] = IF x = c THEN NULL ELSE IF x = first THEN c ELSE ChainPrevLinks(t)[x]
  BY LinkValues, SMTT(30) DEF JoinsChain
<1>8. \E w : ChainOf(u, w, D \cup {c}, m, b)
  <2>1. c \notin BucketMembers(t, D, m, b) /\ NULL \notin BucketMembers(t, D, m, b)
    BY DEF BucketMembers
  <2>2. /\ ListOf(v, t.buckets[b].count, BucketMembers(t, D, m, b), first, ChainNextLinks(t), ChainPrevLinks(t))
        /\ ChainNextLinks(u)[c] = first /\ ChainPrevLinks(u)[c] = NULL
        /\ \A x \in BucketMembers(t, D, m, b) :
             /\ ChainNextLinks(u)[x] = ChainNextLinks(t)[x]
             /\ ChainPrevLinks(u)[x] = IF x = first THEN c ELSE ChainPrevLinks(t)[x]
    BY <1>4, <1>5, <1>7, <2>1 DEF ChainOf
  <2>3. u.buckets[b].hh_head = c /\ u.buckets[b].count = t.buckets[b].count + 1
    BY DEF JoinsChain
  <2>4. PICK w : ListOf(w, t.buckets[b].count + 1, BucketMembers(t, D, m, b) \cup {c}, c, ChainNextLinks(u), ChainPrevLinks(u))
    <3> DEFINE n == t.buckets[b].count
               M == BucketMembers(t, D, m, b)
               nxt == ChainNextLinks(t)
               prv == ChainPrevLinks(t)
               nxt2 == ChainNextLinks(u)
               prv2 == ChainPrevLinks(u)
    <3>1. ListOf(v, n, M, first, nxt, prv) /\ PushLinks(M, c, first, nxt, prv, nxt2, prv2)
      BY <2>1, <2>2 DEF PushLinks
    <3> HIDE DEF n, M, nxt, prv, nxt2, prv2, first
    <3>2. \E w : ListOf(w, n + 1, M \cup {c}, c, nxt2, prv2)
      BY <3>1, ListPush
    <3> QED BY <3>2 DEF n, M, nxt2, prv2
  <2>5. ChainOf(u, w, D \cup {c}, m, b)
    BY <1>3, <2>3, <2>4 DEF ChainOf
  <2> QED BY <2>5
<1>9. ASSUME NEW d \in 0..(m - 1), d # b
      PROVE  \E w : ChainOf(u, w, D \cup {c}, m, d)
  <2>1. PICK w : ChainOf(t, w, D, m, d)
    BY DEF Filled
  <2>2. \A x \in BucketMembers(t, D, m, d) : x \in A /\ x # c /\ x # first
    <3>1. BucketMembers(t, D, m, d) \cap BucketMembers(t, D, m, b) = {}
      BY <1>9 DEF BucketMembers
    <3>2. NULL \notin BucketMembers(t, D, m, d) /\ c \notin BucketMembers(t, D, m, d)
      BY DEF BucketMembers
    <3> QED BY <1>5, <1>6, <3>1, <3>2
  <2>3. /\ ListOf(w, t.buckets[d].count, BucketMembers(t, D, m, d), t.buckets[d].hh_head, ChainNextLinks(t), ChainPrevLinks(t))
        /\ \A x \in BucketMembers(t, D, m, d) :
             /\ ChainNextLinks(u)[x] = ChainNextLinks(t)[x]
             /\ ChainPrevLinks(u)[x] = ChainPrevLinks(t)[x]
    BY <1>7, <2>1, <2>2 DEF ChainOf
  <2>4. ListOf(w, t.buckets[d].count, BucketMembers(t, D, m, d), t.buckets[d].hh_head, ChainNextLinks(u), ChainPrevLinks(u))
    BY <2>3, ListKept
  <2>5. u.buckets[d].hh_head = t.buckets[d].hh_head /\ u.buckets[d].count = t.buckets[d].count
    BY <1>9 DEF JoinsChain
  <2>6. ChainOf(u, w, D \cup {c}, m, d)
    BY <1>2, <1>9, <2>4, <2>5 DEF ChainOf
  <2> QED BY <2>6
<1> QED BY <1>8, <1>9 DEF Filled

\* A cell without a bucket gets into its own.
LEMMA InBucketIs ==
  ASSUME NEW A, NEW K, NEW m \in Nat \ {0}, NEW t \in Tables(A, K, m), A \subseteq Cells,
         NULL \notin Cells, NEW D, D \subseteq A, NEW c \in A, c \notin D, Filled(t, D, m)
  PROVE  /\ InBucket(t, c) \in Tables(A, K, m)
         /\ SameOrder(InBucket(t, c), t, A)
         /\ Filled(InBucket(t, c), D \cup {c}, m)
<1> DEFINE b == BucketOf(t.hh[c].hashv, m)
           u == PushInBkt(t, b, c)
<1>1. InBucket(t, c) = u
  BY NumBucketsIs DEF InBucket
<1>2. b \in 0..(m - 1)
  BY TableFields, BucketRange
<1>4. u \in Tables(A, K, m) /\ SameOrder(u, t, A) /\ JoinsChain(u, t, A, m, b, c)
  <2> HIDE DEF b
  <2> QED BY <1>2, PushIs
<1> HIDE DEF u
<1>5. Filled(u, D \cup {c}, m)
  BY <1>2, <1>4, PushFills
<1> QED BY <1>1, <1>4, <1>5

\* One turn of the inner loop moves one cell, and keeps the order.
LEMMA RehashIs ==
  ASSUME NEW A, NEW K, NEW m \in Nat \ {0}, NEW t \in Tables(A, K, m), A \subseteq Cells,
         NULL \notin Cells, NEW c \in A, NEW ideal
  PROVE  /\ Rehash(t, c, ideal) \in Tables(A, K, m)
         /\ SameOrder(Rehash(t, c, ideal), t, A)
         /\ \A D : D \subseteq A /\ c \notin D /\ Filled(t, D, m)
                     => Filled(Rehash(t, c, ideal), D \cup {c}, m)
<1> DEFINE b == BucketOf(t.hh[c].hashv, m)
           u == PushInBkt(t, b, c)
           n == t.buckets[b].count + 1
           mult == t.buckets[b].expand_mult
           grown == IF n > ideal /\ n > mult * ideal THEN mult + 1 ELSE mult
           r == [u EXCEPT !.buckets[b].expand_mult = grown]
<1>1. Rehash(t, c, ideal) = r
  BY NumBucketsIs DEF Rehash
<1>2. b \in 0..(m - 1)
  BY TableFields, BucketRange
<1>3. grown \in Nat
  <2>1. mult \in Nat
    BY <1>2, TableFields
  <2> QED BY <2>1
<1> HIDE DEF grown
<1>4. u \in Tables(A, K, m) /\ SameOrder(u, t, A) /\ JoinsChain(u, t, A, m, b, c)
  <2> HIDE DEF b
  <2> QED BY <1>2, PushIs
<1> HIDE DEF u
<1> DEFINE bkts == [u.buckets EXCEPT ![b].expand_mult = grown]
<1>5. /\ bkts \in [0..(m - 1) -> Bkts]
      /\ bkts[b].hh_head = u.buckets[b].hh_head /\ bkts[b].count = u.buckets[b].count
      /\ \A d \in 0..(m - 1) : d # b => bkts[d] = u.buckets[d]
  <2> HIDE DEF b
  <2>1. u.buckets \in [0..(m - 1) -> Bkts] /\ u.buckets[b] \in Bkts
    BY <1>2, <1>4, TableFields
  <2> QED BY <1>2, <1>3, <2>1 DEF Bkts
<1>6. r = [u EXCEPT !.buckets = bkts]
  BY <1>4 DEF Tables
<1> HIDE DEF r, bkts
<1>7. /\ r \in Tables(A, K, m) /\ r.buckets = bkts /\ r.hh = u.hh /\ r.head = u.head
      /\ r.tail = u.tail /\ r.num_items = u.num_items /\ r.ineff_expands = u.ineff_expands
      /\ r.noexpand = u.noexpand
  BY <1>4, <1>5, <1>6 DEF Tables
<1>8. SameOrder(r, t, A)
  BY <1>4, <1>7 DEF SameOrder
<1>9. ASSUME NEW D, D \subseteq A, c \notin D, Filled(t, D, m)
      PROVE  Filled(r, D \cup {c}, m)
  <2>1. JoinsChain(r, t, A, m, b, c)
    <3> HIDE DEF b
    <3> QED BY <1>4, <1>5, <1>7 DEF JoinsChain
  <2> QED BY <1>2, <1>7, <1>8, <1>9, <2>1, PushFills
<1> QED BY <1>1, <1>7, <1>8, <1>9

(***************************************************************************)
(* The elements of a chain move.                                           *)
(***************************************************************************)
LEMMA SameOrderTrans ==
  ASSUME NEW A, NEW t, NEW u, NEW v, SameOrder(u, t, A), SameOrder(v, u, A)
  PROVE  SameOrder(v, t, A)
BY DEF SameOrder

\* g gives the table after each turn of the inner loop.
RehashTurns(g, t, n, w, ideal) ==
  /\ g[0] = t
  /\ \A i \in 1..n : g[i] = Rehash(g[i - 1], w[i], ideal)

\* The inner loop as a sequence of turns.
LEMMA RehashAllTurns ==
  ASSUME NEW A, NEW K, NEW m \in Nat \ {0}, NEW t \in Tables(A, K, m), A \subseteq Cells,
         NULL \notin Cells, NEW ideal, NEW n \in Nat, NEW w \in [1..n -> A]
  PROVE  \E g : RehashTurns(g, t, n, w, ideal) /\ RehashAll(t, w, ideal) = g[n]
<1> DEFINE g == CHOOSE g : g = [i \in 0..Len(w) |-> IF i = 0 THEN t ELSE Rehash(g[i - 1], w[i], ideal)]
           S == Tables(A, K, m)
           step == [p \in (1..n) \X S |-> Rehash(p[2], w[p[1]], ideal)]
<1>0. Len(w) = n
  OBVIOUS
<1>1. step \in [(1..n) \X S -> S]
  BY RehashIs
<1>2. PICK f \in [0..n -> S] : Recursive(f, n, t, step)
  <2> HIDE DEF step, S
  <2>1. t \in S
    BY DEF S
  <2> QED BY <1>1, <2>1, RecursiveFunction
<1>3. ASSUME NEW i \in 0..n
      PROVE  f[i] = IF i = 0 THEN t ELSE Rehash(f[i - 1], w[i], ideal)
  <2>1. CASE i = 0
    BY <1>2, <2>1 DEF Recursive
  <2>2. CASE i # 0
    <3>1. i \in 1..n /\ <<i, f[i - 1]>> \in (1..n) \X S
      BY <2>2
    <3>2. f[i] = step[<<i, f[i - 1]>>]
      BY <1>2, <3>1 DEF Recursive
    <3> HIDE DEF S
    <3> QED BY <2>2, <3>1, <3>2
  <2> QED BY <2>1, <2>2
<1>4. f = [i \in 0..Len(w) |-> IF i = 0 THEN t ELSE Rehash(f[i - 1], w[i], ideal)]
  <2> HIDE DEF S
  <2> QED BY <1>0, <1>2, <1>3
<1>5. g = [i \in 0..Len(w) |-> IF i = 0 THEN t ELSE Rehash(g[i - 1], w[i], ideal)]
  BY <1>4, Zenon
<1>6. RehashAll(t, w, ideal) = g[Len(w)]
  BY Zenon DEF RehashAll
<1> HIDE DEF g
<1>7. g[0] = t
  <2>1. 0 \in 0..Len(w)
    BY <1>0
  <2> QED BY <1>5, <2>1
<1>8. ASSUME NEW i \in 1..n PROVE g[i] = Rehash(g[i - 1], w[i], ideal)
  <2>1. i \in 0..Len(w) /\ i # 0
    BY <1>0
  <2> QED BY <1>5, <2>1
<1> QED BY <1>0, <1>6, <1>7, <1>8 DEF RehashTurns

\* The members of a list, M, join those of D.
LEMMA RehashAllIs ==
  ASSUME NEW A, NEW K, NEW m \in Nat \ {0}, NEW t \in Tables(A, K, m), A \subseteq Cells,
         NULL \notin Cells, NEW ideal, NEW w, NEW n, NEW M, Enumerates(w, n, M),
         NEW D, D \cup M \subseteq A, D \cap M = {}, Filled(t, D, m)
  PROVE  /\ RehashAll(t, w, ideal) \in Tables(A, K, m)
         /\ SameOrder(RehashAll(t, w, ideal), t, A)
         /\ Filled(RehashAll(t, w, ideal), D \cup M, m)
<1>2. /\ n \in Nat /\ w \in [1..n -> A] /\ M = {w[i] : i \in 1..n}
      /\ \A i, j \in 1..n : w[i] = w[j] => i = j
      /\ \A i \in 1..n : w[i] \notin D
  BY DEF Enumerates
<1>0. PICK g : RehashTurns(g, t, n, w, ideal) /\ RehashAll(t, w, ideal) = g[n]
  BY <1>2, RehashAllTurns
<1>1. /\ g[0] = t
      /\ \A i \in 1..n : g[i] = Rehash(g[i - 1], w[i], ideal)
      /\ RehashAll(t, w, ideal) = g[n]
  BY <1>0 DEF RehashTurns
<1> DEFINE part(i) == D \cup {w[j] : j \in 1..i}
           Q == {i \in 0..n : /\ g[i] \in Tables(A, K, m)
                              /\ SameOrder(g[i], t, A)
                              /\ Filled(g[i], part(i), m)}
<1>3. 0 \in Q
  <2>1. part(0) = D
    BY <1>2
  <2>2. SameOrder(t, t, A)
    BY DEF SameOrder
  <2>3. 0 \in 0..n
    BY <1>2
  <2> HIDE DEF part
  <2> QED BY <1>1, <1>2, <2>1, <2>2, <2>3
<1>4. ASSUME NEW i \in 1..n, i - 1 \in Q PROVE i \in Q
  <2>1. part(i) = part(i - 1) \cup {w[i]}
    <3>1. \A j : j \in 1..i <=> j \in 1..(i - 1) \/ j = i
      BY <1>2
    <3> QED BY <1>2, <3>1
  <2>2. w[i] \in A /\ w[i] \notin part(i - 1)
    <3>1. \A j \in 1..(i - 1) : j \in 1..n /\ j # i
      BY <1>2
    <3> QED BY <1>2, <3>1
  <2>3. part(i - 1) \subseteq A
    <3>1. \A j \in 1..(i - 1) : j \in 1..n
      BY <1>2
    <3> QED BY <1>2, <3>1
  <2> HIDE DEF part
  <2>4. g[i - 1] \in Tables(A, K, m) /\ SameOrder(g[i - 1], t, A) /\ Filled(g[i - 1], part(i - 1), m)
    BY <1>4
  <2>5. g[i] = Rehash(g[i - 1], w[i], ideal)
    BY <1>1
  <2>6. g[i] \in Tables(A, K, m) /\ SameOrder(g[i], g[i - 1], A) /\ Filled(g[i], part(i - 1) \cup {w[i]}, m)
    BY <2>2, <2>3, <2>4, <2>5, RehashIs
  <2>7. SameOrder(g[i], t, A)
    BY <2>4, <2>6, SameOrderTrans
  <2>8. i \in 0..n
    BY <1>2
  <2> QED BY <2>1, <2>6, <2>7, <2>8
<1> HIDE DEF Q
<1>5. \A i \in 0..n : i \in Q
  BY <1>2, <1>3, <1>4, RangeInduction
<1>6. n \in Q
  BY <1>2, <1>5
<1> QED BY <1>1, <1>2, <1>6 DEF Q

\* What the inner loop returns.
LEMMA RehashAllType ==
  ASSUME NEW A, NEW K, NEW m \in Nat \ {0}, NEW t \in Tables(A, K, m), A \subseteq Cells,
         NULL \notin Cells, NEW ideal, NEW w \in Seq(A)
  PROVE  RehashAll(t, w, ideal) \in Tables(A, K, m)
<1>0. PICK n \in Nat : w \in [1..n -> A]
  BY LenProperties
<1>1. PICK g : RehashTurns(g, t, n, w, ideal) /\ RehashAll(t, w, ideal) = g[n]
  BY <1>0, RehashAllTurns
<1> DEFINE Q == {i \in 0..n : g[i] \in Tables(A, K, m)}
<1>2. 0 \in Q
  BY <1>1 DEF RehashTurns
<1>3. ASSUME NEW i \in 1..n, i - 1 \in Q PROVE i \in Q
  <2>1. g[i - 1] \in Tables(A, K, m) /\ w[i] \in A /\ g[i] = Rehash(g[i - 1], w[i], ideal)
    BY <1>0, <1>1, <1>3 DEF RehashTurns
  <2>2. g[i] \in Tables(A, K, m)
    BY <2>1, RehashIs
  <2> QED BY <2>2
<1> HIDE DEF Q
<1>4. \A i \in 0..n : i \in Q
  BY <1>2, <1>3, RangeInduction
<1>5. n \in Q
  BY <1>4
<1> QED BY <1>1, <1>5 DEF Q

\* The chain of a bucket is a sequence of its cells.
LEMMA ChainType ==
  ASSUME NEW A, NEW K, NEW m, NEW t \in Tables(A, K, m), IsFiniteSet(A), NEW b
  PROVE  Chain(t, b) \in Seq(A)
<1>1. DOMAIN ChainNextLinks(t) = A
  BY LinkValues
<1> QED BY <1>1, WalkType DEF Chain

\* The chain of a bucket lists its members.
LEMMA ChainIs ==
  ASSUME NEW A, NEW K, NEW m, NEW t \in Tables(A, K, m), IsFiniteSet(A), NULL \notin A,
         NEW b, NEW w, NEW D, D \subseteq A, ChainOf(t, w, D, m, b)
  PROVE  Chain(t, b) = w /\ w \in Seq(BucketMembers(t, D, m, b)) /\ Len(w) = t.buckets[b].count
<1>1. DOMAIN ChainNextLinks(t) = A
  BY LinkValues
<1>2. BucketMembers(t, D, m, b) \subseteq A
  BY DEF BucketMembers
<1> QED BY <1>1, <1>2, WalkIs DEF Chain, ChainOf

\* g gives the table after each turn of the outer loop.
MoveTurns(g, t, n, ideal) ==
  /\ g[0] = [t EXCEPT !.buckets = NoBuckets(2 * n)]
  /\ \A b \in 1..n : g[b] = RehashAll(g[b - 1], Chain(t, b - 1), ideal)

\* New buckets are empty.
LEMMA NoBucketsIs ==
  ASSUME NEW m \in Nat
  PROVE  /\ NoBuckets(m) \in [0..(m - 1) -> Bkts]
         /\ \A b \in 0..(m - 1) : NoBuckets(m)[b].hh_head = NULL /\ NoBuckets(m)[b].count = 0
BY DEF NoBuckets, Bkts, Pointers

\* The table with new buckets, before anything is moved to them.
LEMMA StartOfMove ==
  ASSUME NEW A, NEW K, NEW n \in Nat \ {0}, NEW t \in Tables(A, K, n)
  PROVE  LET u == [t EXCEPT !.buckets = NoBuckets(2 * n)] IN
         u \in Tables(A, K, 2 * n) /\ SameOrder(u, t, A) /\ Filled(u, {}, 2 * n)
<1> DEFINE bkts == NoBuckets(2 * n)
           u == [t EXCEPT !.buckets = bkts]
<1>0. PICK m \in Nat \ {0} : m = 2 * n
  OBVIOUS
<1>1. /\ bkts \in [0..(m - 1) -> Bkts]
      /\ \A b \in 0..(m - 1) : bkts[b].hh_head = NULL /\ bkts[b].count = 0
  BY <1>0, NoBucketsIs
<1> HIDE DEF bkts
<1>2. u \in Tables(A, K, m) /\ SameOrder(u, t, A) /\ u.buckets = bkts
  BY <1>1 DEF Tables, SameOrder
<1> HIDE DEF u
<1>3. Filled(u, {}, m)
  <2> SUFFICES ASSUME NEW b \in 0..(m - 1) PROVE \E w : ChainOf(u, w, {}, m, b)
    BY DEF Filled
  <2>1. BucketMembers(u, {}, m, b) = {}
    BY DEF BucketMembers
  <2>2. PICK w : ListOf(w, 0, {}, NULL, ChainNextLinks(u), ChainPrevLinks(u))
    BY EmptyList
  <2>3. u.buckets[b].hh_head = NULL /\ u.buckets[b].count = 0
    BY <1>1, <1>2
  <2> QED BY <2>1, <2>2, <2>3 DEF ChainOf
<1> QED BY <1>0, <1>2, <1>3 DEF u, bkts

\* u is what is left of them.
Expanded(u, g, t, n, ideal) ==
  /\ MoveTurns(g, t, n, ideal)
  /\ \E ineff \in Nat, gaveUp \in BOOLEAN :
       u = [g[n] EXCEPT !.ineff_expands = ineff, !.noexpand = gaveUp]

\* The outer loop as a sequence of turns, one per old bucket.
LEMMA ExpandTurns ==
  ASSUME NEW A, NEW K, NEW n \in Nat \ {0}, NEW t \in Tables(A, K, n), A \subseteq Cells,
         NULL \notin Cells, IsFiniteSet(Cells)
  PROVE  \E g, ideal : Expanded(ExpandBuckets(t), g, t, n, ideal)
<1> DEFINE N == NumBuckets(t)
           ideal == (t.num_items + 2 * N - 1) \div (2 * N)
           g == CHOOSE g : g = [b \in 0..N |->
                  IF b = 0 THEN [t EXCEPT !.buckets = NoBuckets(2 * N)]
                  ELSE RehashAll(g[b - 1], Chain(t, b - 1), ideal)]
           nonideal == { p \in (0..(2 * N - 1)) \X (1..t.num_items) :
                           p[2] > ideal /\ p[2] <= g[N].buckets[p[1]].count }
           ineff == IF Cardinality(nonideal) > t.num_items \div 2
                    THEN t.ineff_expands + 1 ELSE 0
           gaveUp == t.noexpand \/ ineff > 1
<1>0. N = n
  BY NumBucketsIs
<1>1. ExpandBuckets(t) = [g[N] EXCEPT !.ineff_expands = ineff, !.noexpand = gaveUp]
  BY Zenon DEF ExpandBuckets
<1>2. ineff \in Nat
  <2>1. t.ineff_expands \in Nat
    BY DEF Tables
  <2> HIDE DEF nonideal
  <2> QED BY <2>1
<1> HIDE DEF ineff
<1>3. gaveUp \in BOOLEAN
  BY DEF Tables
<1> HIDE DEF gaveUp, ideal
<1> DEFINE S == Tables(A, K, 2 * n)
           start == [t EXCEPT !.buckets = NoBuckets(2 * n)]
           step == [p \in (1..n) \X S |-> RehashAll(p[2], Chain(t, p[1] - 1), ideal)]
<1>4. start \in S
  BY StartOfMove
<1> HIDE DEF start, N
<1>5. step \in [(1..n) \X S -> S]
  <2> SUFFICES ASSUME NEW b \in 1..n, NEW s \in S
               PROVE  RehashAll(s, Chain(t, b - 1), ideal) \in S
    OBVIOUS
  <2>1. IsFiniteSet(A)
    BY FS_Subset
  <2>2. Chain(t, b - 1) \in Seq(A)
    BY <2>1, ChainType
  <2>3. 2 * n \in Nat \ {0}
    OBVIOUS
  <2> QED BY <2>2, <2>3, RehashAllType
<1>6. PICK f \in [0..n -> S] : Recursive(f, n, start, step)
  <2> HIDE DEF step, S
  <2> QED BY <1>4, <1>5, RecursiveFunction
<1>7. ASSUME NEW b \in 0..n
      PROVE  f[b] = IF b = 0 THEN start ELSE RehashAll(f[b - 1], Chain(t, b - 1), ideal)
  <2> HIDE DEF S
  <2>1. CASE b = 0
    BY <1>6, <2>1 DEF Recursive
  <2>2. CASE b # 0
    <3>1. b \in 1..n /\ <<b, f[b - 1]>> \in (1..n) \X S
      BY <2>2
    <3>2. f[b] = step[<<b, f[b - 1]>>]
      BY <1>6, <3>1 DEF Recursive
    <3> QED BY <2>2, <3>1, <3>2
  <2> QED BY <2>1, <2>2
<1>8. f = [b \in 0..N |-> IF b = 0 THEN [t EXCEPT !.buckets = NoBuckets(2 * N)]
                          ELSE RehashAll(f[b - 1], Chain(t, b - 1), ideal)]
  <2> HIDE DEF S, step
  <2> QED BY <1>0, <1>6, <1>7 DEF start
<1>9. g = [b \in 0..N |-> IF b = 0 THEN [t EXCEPT !.buckets = NoBuckets(2 * N)]
                          ELSE RehashAll(g[b - 1], Chain(t, b - 1), ideal)]
  BY <1>8, Zenon
<1> HIDE DEF g
<1>10. g[0] = start
  <2>1. 0 \in 0..N
    BY <1>0
  <2> QED BY <1>0, <1>9, <2>1 DEF start
<1>11. ASSUME NEW b \in 1..n PROVE g[b] = RehashAll(g[b - 1], Chain(t, b - 1), ideal)
  <2>1. b \in 0..N /\ b # 0
    BY <1>0
  <2> QED BY <1>9, <2>1
<1>12. MoveTurns(g, t, n, ideal)
  BY <1>10, <1>11 DEF MoveTurns, start
<1>13. ExpandBuckets(t) = [g[n] EXCEPT !.ineff_expands = ineff, !.noexpand = gaveUp]
  BY <1>0, <1>1
<1>14. Expanded(ExpandBuckets(t), g, t, n, ideal)
  BY <1>2, <1>3, <1>12, <1>13, Zenon DEF Expanded
<1> QED BY <1>14

\* Only the lists, the buckets' heads and their counts matter.
LEMMA FilledKept ==
  ASSUME NEW A, NEW K, NEW m \in Nat \ {0}, NEW t \in Tables(A, K, m), NEW ineff \in Nat,
         NEW gaveUp \in BOOLEAN, Filled(t, A, m)
  PROVE  LET u == [t EXCEPT !.ineff_expands = ineff, !.noexpand = gaveUp] IN
         u \in Tables(A, K, m) /\ SameOrder(u, t, A) /\ Filled(u, A, m)
<1> DEFINE u == [t EXCEPT !.ineff_expands = ineff, !.noexpand = gaveUp]
<1>1. u \in Tables(A, K, m) /\ u.hh = t.hh /\ u.buckets = t.buckets /\ SameOrder(u, t, A)
  BY DEF Tables, SameOrder
<1> HIDE DEF u
<1>2. ChainNextLinks(u) = ChainNextLinks(t) /\ ChainPrevLinks(u) = ChainPrevLinks(t)
  BY <1>1 DEF ChainNextLinks, ChainPrevLinks
<1>3. \A b : BucketMembers(u, A, m, b) = BucketMembers(t, A, m, b)
  BY <1>1 DEF BucketMembers
<1>4. Filled(u, A, m)
  <2> SUFFICES ASSUME NEW b \in 0..(m - 1) PROVE \E w : ChainOf(u, w, A, m, b)
    BY DEF Filled
  <2>1. PICK w : ChainOf(t, w, A, m, b)
    BY DEF Filled
  <2>2. ChainOf(u, w, A, m, b)
    BY <1>1, <1>2, <1>3, <2>1 DEF ChainOf
  <2> QED BY <2>2
<1> QED BY <1>1, <1>4 DEF u

\* Expansion moves every element to its new bucket.
LEMMA ExpandBucketsIs ==
  ASSUME NEW A, NEW K, NEW n \in Nat \ {0}, NEW t \in Tables(A, K, n), A \subseteq Cells,
         NULL \notin Cells, IsFiniteSet(Cells), Filled(t, A, n)
  PROVE  /\ ExpandBuckets(t) \in Tables(A, K, 2 * n)
         /\ SameOrder(ExpandBuckets(t), t, A)
         /\ Filled(ExpandBuckets(t), A, 2 * n)
<1>0. PICK m \in Nat \ {0} : m = 2 * n
  OBVIOUS
<1>10. PICK g, ideal : Expanded(ExpandBuckets(t), g, t, n, ideal)
  BY ExpandTurns
<1>1. PICK ineff \in Nat, gaveUp \in BOOLEAN :
        /\ MoveTurns(g, t, n, ideal)
        /\ ExpandBuckets(t) = [g[n] EXCEPT !.ineff_expands = ineff, !.noexpand = gaveUp]
  BY <1>10 DEF Expanded
<1> DEFINE old(c) == BucketOf(t.hh[c].hashv, n)
           done(b) == {c \in A : old(c) < b}
           Q == {b \in 0..n : /\ g[b] \in Tables(A, K, m)
                              /\ SameOrder(g[b], t, A)
                              /\ Filled(g[b], done(b), m)}
<1>2. \A c \in A : old(c) \in 0..(n - 1)
  BY TableFields, BucketRange
<1> HIDE DEF old
<1>3. 0 \in Q
  <2>1. g[0] \in Tables(A, K, m) /\ SameOrder(g[0], t, A) /\ Filled(g[0], {}, m)
    <3> DEFINE u == [t EXCEPT !.buckets = NoBuckets(2 * n)]
    <3>1. u \in Tables(A, K, 2 * n) /\ SameOrder(u, t, A) /\ Filled(u, {}, 2 * n)
      BY StartOfMove
    <3>2. g[0] = u
      BY <1>1 DEF MoveTurns
    <3> HIDE DEF u
    <3> QED BY <1>0, <3>1, <3>2
  <2>2. done(0) = {}
    BY <1>2
  <2>3. 0 \in 0..n
    OBVIOUS
  <2> HIDE DEF done
  <2> QED BY <2>1, <2>2, <2>3
<1>4. ASSUME NEW b \in 1..n, b - 1 \in Q PROVE b \in Q
  <2> DEFINE M == BucketMembers(t, A, n, b - 1)
  <2>1. done(b) = done(b - 1) \cup M
    <3>1. \A c \in A : old(c) < b <=> old(c) < b - 1 \/ old(c) = b - 1
      BY <1>2
    <3>2. M = {c \in A : old(c) = b - 1}
      BY DEF BucketMembers, old
    <3> HIDE DEF M
    <3> QED BY <3>1, <3>2
  <2>2. done(b - 1) \cap M = {} /\ M \subseteq A /\ done(b - 1) \subseteq A
    <3>1. \A c \in A : ~(old(c) < b - 1 /\ old(c) = b - 1)
      BY <1>2
    <3>2. M = {c \in A : old(c) = b - 1}
      BY DEF BucketMembers, old
    <3> HIDE DEF M
    <3> QED BY <3>1, <3>2
  <2> HIDE DEF done
  <2>3. g[b - 1] \in Tables(A, K, m) /\ SameOrder(g[b - 1], t, A) /\ Filled(g[b - 1], done(b - 1), m)
    BY <1>4
  <2>4. b - 1 \in 0..(n - 1)
    OBVIOUS
  <2>5. PICK w : ChainOf(t, w, A, n, b - 1)
    BY <2>4 DEF Filled
  <2>6. Chain(t, b - 1) = w
    <3>1. IsFiniteSet(A) /\ NULL \notin A
      BY FS_Subset
    <3> QED BY <2>5, <3>1, ChainIs
  <2>7. g[b] = RehashAll(g[b - 1], w, ideal)
    BY <1>1, <2>6 DEF MoveTurns
  <2>8. PICK k \in Nat : Enumerates(w, k, M)
    BY <2>5 DEF ChainOf, ListOf, Enumerates
  <2> HIDE DEF M
  <2>12. /\ g[b] \in Tables(A, K, m) /\ SameOrder(g[b], g[b - 1], A)
         /\ Filled(g[b], done(b - 1) \cup M, m)
    <3> DEFINE s == g[b - 1]
               D == done(b - 1)
    <3>1. s \in Tables(A, K, m) /\ Filled(s, D, m) /\ D \cup M \subseteq A /\ D \cap M = {}
      BY <2>2, <2>3
    <3> HIDE DEF s, D
    <3>2. /\ RehashAll(s, w, ideal) \in Tables(A, K, m) /\ SameOrder(RehashAll(s, w, ideal), s, A)
          /\ Filled(RehashAll(s, w, ideal), D \cup M, m)
      BY <2>8, <3>1, RehashAllIs
    <3> QED BY <2>7, <3>2 DEF s, D
  <2>13. SameOrder(g[b], t, A)
    BY <2>3, <2>12, SameOrderTrans
  <2>14. Filled(g[b], done(b), m)
    BY <2>1, <2>12
  <2>15. b \in 0..n
    OBVIOUS
  <2> QED BY <2>12, <2>13, <2>14, <2>15
<1>5. done(n) = A
  BY <1>2
<1> HIDE DEF Q, done
<1>6. n \in Q
  <2>1. \A b \in 0..n : b \in Q
    BY <1>3, <1>4, RangeInduction
  <2> QED BY <2>1
<1>7. g[n] \in Tables(A, K, m) /\ SameOrder(g[n], t, A) /\ Filled(g[n], A, m)
  BY <1>5, <1>6 DEF Q
<1> DEFINE u == [g[n] EXCEPT !.ineff_expands = ineff, !.noexpand = gaveUp]
<1>8. u \in Tables(A, K, m) /\ SameOrder(u, g[n], A) /\ Filled(u, A, m)
  BY <1>1, <1>7, FilledKept
<1>9. SameOrder(u, t, A)
  <2> HIDE DEF u
  <2> QED BY <1>7, <1>8, SameOrderTrans
<1> HIDE DEF u
<1>11. ExpandBuckets(t) = u
  BY <1>1 DEF u
<1> QED BY <1>0, <1>8, <1>9, <1>11

(***************************************************************************)
(* Tables in order, with keys that tell their elements apart.              *)
(***************************************************************************)
\* HASH_JEN gives an unsigned number for every key.
HashesAreNumbers == \A k : Hash(k) \in Nat

\* w is the order of the table, from its head to its tail.
Ordered(t, w, A) ==
  /\ t.num_items # 0
  /\ ListOf(w, t.num_items, A, t.head, NextLinks(t), PrevLinks(t))
  /\ t.tail = w[t.num_items]

KeysTell(t, A) ==
  \A c \in A : /\ t.hh[c].hashv = Hash(t.hh[c].key)
               /\ \A d \in A : t.hh[c].key = t.hh[d].key => c = d

\* A table of the elements A, in the order w, in m buckets.
IsTable(t, w, A, K, m) ==
  /\ A \subseteq Cells /\ m \in Nat \ {0}
  /\ t \in Tables(A, K, m)
  /\ Ordered(t, w, A)
  /\ Filled(t, A, m)
  /\ KeysTell(t, A)

\* Cells are finitely many, and NULL is none of them.
LEMMA CellsFinite ==
  ASSUME NEW A, A \subseteq Cells
  PROVE  IsFiniteSet(A) /\ NULL \notin A /\ NULL \notin Cells /\ IsFiniteSet(Cells)
BY HashAssumption, FS_Subset DEF HashAssumption

\* The insertion order of a table is the list it is.
LEMMA OrderIs ==
  ASSUME NEW t, NEW w, NEW A, NEW K, NEW m, IsTable(t, w, A, K, m)
  PROVE  /\ AppOrder(t) = w /\ w \in Seq(A) /\ Len(w) = t.num_items
         /\ t.head = w[1] /\ t.head \in A /\ t.num_items \in Nat \ {0}
<1>1. t \in Tables(A, K, m) /\ IsFiniteSet(A) /\ NULL \notin A /\ Ordered(t, w, A)
  BY CellsFinite DEF IsTable
<1>2. DOMAIN NextLinks(t) = A
  BY <1>1, LinkValues
<1>3. AppOrder(t) = w /\ w \in Seq(A) /\ Len(w) = t.num_items
  BY <1>1, <1>2, WalkIs DEF AppOrder, Ordered
<1>4. /\ t.num_items \in Nat /\ w \in [1..t.num_items -> A] /\ t.num_items # 0
      /\ t.head = IF t.num_items = 0 THEN NULL ELSE w[1]
  BY <1>1 DEF Ordered, ListOf, Enumerates, Linked
<1>5. 1 \in 1..t.num_items
  BY <1>4
<1> QED BY <1>3, <1>4, <1>5

\* HASH_FIND finds the element with the key, if there is one.
LEMMA FindIs ==
  ASSUME HashesAreNumbers,
         NEW t, NEW w, NEW A, NEW K, NEW m, IsTable(t, w, A, K, m), NEW k
  PROVE  \/ HashFind(t, k) = NULL /\ \A c \in A : t.hh[c].key # k
         \/ HashFind(t, k) \in A /\ t.hh[HashFind(t, k)].key = k
<1> DEFINE b == BucketOf(Hash(k), m)
           M == BucketMembers(t, A, m, b)
<1>1. /\ t \in Tables(A, K, m) /\ IsFiniteSet(A) /\ NULL \notin A /\ Filled(t, A, m)
      /\ KeysTell(t, A) /\ m \in Nat \ {0}
  BY CellsFinite DEF IsTable
<1>2. t.head # NULL
  BY <1>1, OrderIs
<1>3. b \in 0..(m - 1) /\ NumBuckets(t) = m
  BY <1>1, BucketRange, NumBucketsIs DEF HashesAreNumbers
<1>4. PICK v : ChainOf(t, v, A, m, b)
  BY <1>1, <1>3 DEF Filled
<1>5. Chain(t, b) = v /\ v \in Seq(M)
  BY <1>1, <1>4, ChainIs
<1>6. /\ Len(v) \in Nat /\ v \in [1..Len(v) -> M]
      /\ \A c \in M : \E i \in 1..Len(v) : v[i] = c
  <2>1. /\ v \in [1..t.buckets[b].count -> M] /\ t.buckets[b].count \in Nat
        /\ \A c \in M : \E i \in 1..t.buckets[b].count : v[i] = c
    BY <1>4 DEF ChainOf, ListOf, Enumerates
  <2> HIDE DEF M
  <2>2. Len(v) = t.buckets[b].count
    BY <2>1
  <2> QED BY <2>1, <2>2
<1> DEFINE match == {i \in 1..Len(v) : t.hh[v[i]].hashv = Hash(k) /\ t.hh[v[i]].key = k}
<1>7. HashFind(t, k) = IF match = {} THEN NULL ELSE v[CHOOSE i \in match : \A j \in match : i <= j]
  BY <1>2, <1>3, <1>5 DEF HashFind
<1>8. CASE match = {}
  <2>1. ASSUME NEW c \in A, t.hh[c].key = k PROVE FALSE
    <3>1. t.hh[c].hashv = Hash(k)
      BY <1>1, <2>1 DEF KeysTell
    <3>2. c \in M
      BY <3>1 DEF BucketMembers
    <3>3. PICK i \in 1..Len(v) : v[i] = c
      BY <1>6, <3>2
    <3>4. i \in match
      BY <2>1, <3>1, <3>3
    <3> QED BY <1>8, <3>4
  <2> HIDE DEF match
  <2> QED BY <1>7, <1>8, <2>1
<1>9. CASE match # {}
  <2> DEFINE i == CHOOSE i \in match : \A j \in match : i <= j
  <2>1. i \in match
    <3>1. match \subseteq Nat
      BY <1>6
    <3> HIDE DEF match
    <3> QED BY <1>9, <3>1, LeastNumber
  <2>2. HashFind(t, k) = v[i]
    <3> HIDE DEF match
    <3> QED BY <1>7, <1>9
  <2> HIDE DEF i
  <2>3. v[i] \in M /\ t.hh[v[i]].key = k
    <3> HIDE DEF M
    <3> QED BY <1>6, <2>1
  <2> QED BY <2>2, <2>3 DEF BucketMembers
<1> QED BY <1>8, <1>9

\* HASH_FIND finds every element of a table.
LEMMA FindableIs ==
  ASSUME HashesAreNumbers, NEW t, NEW w, NEW A, NEW K, NEW m, IsTable(t, w, A, K, m)
  PROVE  Findable(t)
<1>1. AppOrder(t) = w /\ w \in Seq(A)
  BY OrderIs
<1> SUFFICES ASSUME NEW i \in 1..Len(w) PROVE HashFind(t, t.hh[w[i]].key) = w[i]
  BY <1>1 DEF Findable
<1>2. w[i] \in A
  BY <1>1
<1> DEFINE k == t.hh[w[i]].key
<1>3. HashFind(t, k) \in A /\ t.hh[HashFind(t, k)].key = k
  <2> HIDE DEF k
  <2>1. \/ HashFind(t, k) = NULL /\ \A c \in A : t.hh[c].key # k
        \/ HashFind(t, k) \in A /\ t.hh[HashFind(t, k)].key = k
    BY FindIs
  <2> QED BY <1>2, <2>1 DEF k
<1>4. KeysTell(t, A)
  BY DEF IsTable
<1> QED BY <1>2, <1>3, <1>4 DEF KeysTell

(***************************************************************************)
(* The comparisons of HASH_FSCK.                                           *)
(***************************************************************************)
\* The chains of a table: each lists the members of its bucket.
LEMMA ChainsAre ==
  ASSUME NEW t, NEW w, NEW A, NEW K, NEW m, IsTable(t, w, A, K, m), NEW b \in 0..(m - 1)
  PROVE  /\ Len(Chain(t, b)) = t.buckets[b].count
         /\ Enumerates(Chain(t, b), Len(Chain(t, b)), BucketMembers(t, A, m, b))
         /\ LinkedBack(Chain(t, b), ChainPrevLinks(t), NULL)
<1>1. t \in Tables(A, K, m) /\ IsFiniteSet(A) /\ NULL \notin A /\ Filled(t, A, m)
  BY CellsFinite DEF IsTable
<1>2. PICK v : ChainOf(t, v, A, m, b)
  BY <1>1 DEF Filled
<1>3. Chain(t, b) = v /\ Len(v) = t.buckets[b].count
  BY <1>1, <1>2, ChainIs
<1> QED BY <1>2, <1>3 DEF ChainOf, ListOf, Linked, LinkedBack

\* A table passes HASH_FSCK.
LEMMA FsckIs ==
  ASSUME NEW t, NEW w, NEW A, NEW K, NEW m, IsTable(t, w, A, K, m)
  PROVE  Fsck(t)
<1> DEFINE places == { p \in (DOMAIN t.buckets) \X (1..Cardinality(Cells)) :
                         p[2] <= Len(Chain(t, p[1])) }
           at(p) == Chain(t, p[1])[p[2]]
           f == [p \in places |-> at(p)]
<1>1. /\ t \in Tables(A, K, m) /\ A \subseteq Cells /\ DOMAIN t.buckets = 0..(m - 1)
      /\ m \in Nat \ {0} /\ IsFiniteSet(Cells)
  BY CellsFinite, TableFields DEF IsTable
<1>2. AppOrder(t) = w /\ Len(w) = t.num_items /\ t.num_items \in Nat \ {0}
  BY OrderIs
<1>3. t.tail = w[t.num_items] /\ LinkedBack(w, PrevLinks(t), NULL)
  BY <1>2 DEF IsTable, Ordered, ListOf, Linked, LinkedBack
<1>4. \A b \in DOMAIN t.buckets :
        /\ LinkedBack(Chain(t, b), ChainPrevLinks(t), NULL)
        /\ t.buckets[b].count = Len(Chain(t, b))
  BY <1>1, ChainsAre
<1>5. Cardinality(A) = t.num_items /\ IsFiniteSet(A)
  <2>1. Enumerates(w, t.num_items, A)
    BY DEF IsTable, Ordered, ListOf
  <2> QED BY <2>1, ListSize
<1>6. Cardinality(places) = t.num_items
  <2>1. ASSUME NEW p \in places
        PROVE  /\ p[1] \in 0..(m - 1) /\ p[2] \in 1..Len(Chain(t, p[1])) /\ p = <<p[1], p[2]>>
               /\ at(p) \in BucketMembers(t, A, m, p[1])
    <3>1. /\ p[1] \in 0..(m - 1) /\ p[2] \in 1..Cardinality(Cells) /\ p = <<p[1], p[2]>>
          /\ p[2] <= Len(Chain(t, p[1]))
      BY <1>1
    <3>2. Enumerates(Chain(t, p[1]), Len(Chain(t, p[1])), BucketMembers(t, A, m, p[1]))
      BY <3>1, ChainsAre
    <3>3. Cardinality(Cells) \in Nat
      BY <1>1, FS_CardinalityType
    <3>4. p[2] \in 1..Len(Chain(t, p[1]))
      BY <3>1, <3>2, <3>3 DEF Enumerates
    <3> QED BY <3>1, <3>2, <3>4 DEF Enumerates
  <2>2. ASSUME NEW p \in places, NEW q \in places, at(p) = at(q) PROVE p = q
    <3>1. p[1] = q[1]
      BY <2>1, <2>2 DEF BucketMembers
    <3>2. p[2] = q[2]
      <4>1. Enumerates(Chain(t, p[1]), Len(Chain(t, p[1])), BucketMembers(t, A, m, p[1]))
        BY <2>1, ChainsAre
      <4> QED BY <2>1, <2>2, <3>1, <4>1 DEF Enumerates
    <3> QED BY <2>1, <3>1, <3>2
  <2>3. ASSUME NEW c \in A PROVE \E p \in places : at(p) = c
    <3> DEFINE b == BucketOf(t.hh[c].hashv, m)
               v == Chain(t, b)
    <3>1. b \in 0..(m - 1)
      BY <1>1, TableFields, BucketRange
    <3>2. c \in BucketMembers(t, A, m, b)
      BY DEF BucketMembers
    <3> HIDE DEF b
    <3>3. Enumerates(v, Len(v), BucketMembers(t, A, m, b))
      BY <3>1, ChainsAre
    <3>4. PICK i \in 1..Len(v) : v[i] = c
      BY <3>2, <3>3 DEF Enumerates
    <3>5. Len(v) <= Cardinality(Cells) /\ Len(v) \in Nat /\ Cardinality(Cells) \in Nat
      <4>1. Cardinality(BucketMembers(t, A, m, b)) = Len(v)
        BY <3>3, ListSize
      <4>2. BucketMembers(t, A, m, b) \subseteq Cells
        BY <1>1 DEF BucketMembers
      <4> QED BY <1>1, <3>3, <4>1, <4>2, FS_Subset, FS_CardinalityType DEF Enumerates
    <3> HIDE DEF v
    <3>6. i \in 1..Cardinality(Cells) /\ i <= Len(v)
      BY <3>5
    <3>7. <<b, i>> \in places
      BY <1>1, <3>1, <3>6 DEF v
    <3>8. at(<<b, i>>) = c
      BY <3>4 DEF v
    <3> QED BY <3>7, <3>8
  <2>4. f \in Bijection(places, A)
    <3>1. \A p \in places : at(p) \in A
      BY <2>1 DEF BucketMembers
    <3> HIDE DEF places, at
    <3>2. f \in [places -> A]
      BY <3>1
    <3>3. \A p, q \in places : f[p] = f[q] => p = q
      BY <2>2
    <3>4. \A c \in A : \E p \in places : f[p] = c
      BY <2>3
    <3> HIDE DEF f
    <3> QED BY <3>2, <3>3, <3>4, Fun_IsBij
  <2> HIDE DEF places, f
  <2>5. ExistsBijection(places, A)
    BY <2>4 DEF ExistsBijection
  <2>6. ExistsBijection(A, places)
    BY <2>5, Fun_ExistsBijSymmetric
  <2> QED BY <1>5, <2>6, FS_Bijection
<1> HIDE DEF places
<1> QED BY <1>2, <1>3, <1>4, <1>6 DEF Fsck, places

(***************************************************************************)
(* HASH_ADD.                                                               *)
(***************************************************************************)
\* A table of the elements A, in the order w, or of none.
TableOf(t, w, A) ==
  \/ t = EmptyTable /\ A = {} /\ w = <<>>
  \/ \E K, m : IsTable(t, w, A, K, m)

\* What leaves the links in insertion order and the keys alone keeps the order.
LEMMA OrderKept ==
  ASSUME NEW A, NEW K, NEW m, NEW t \in Tables(A, K, m), NEW L, NEW n, NEW u \in Tables(A, L, n),
         SameOrder(u, t, A), NEW w, Ordered(t, w, A), KeysTell(t, A)
  PROVE  Ordered(u, w, A) /\ KeysTell(u, A)
<1>1. KeysTell(u, A)
  BY DEF KeysTell, SameOrder
<1>2. \A x \in A : NextLinks(u)[x] = NextLinks(t)[x] /\ PrevLinks(u)[x] = PrevLinks(t)[x]
  BY LinkValues DEF SameOrder
<1>3. ListOf(w, t.num_items, A, t.head, NextLinks(u), PrevLinks(u))
  BY <1>2, ListKept DEF Ordered
<1> QED BY <1>1, <1>3 DEF Ordered, SameOrder

\* An element that is on the list, but in no bucket yet.
Enlisted(u, w, A, K, m, c) ==
  /\ A \subseteq Cells /\ m \in Nat \ {0} /\ c \in A
  /\ u \in Tables(A, K, m)
  /\ Ordered(u, w, A)
  /\ Filled(u, A \ {c}, m)
  /\ KeysTell(u, A)

NewHandle(k) ==
  [ key |-> k, hashv |-> Hash(k), prev |-> NULL, next |-> NULL,
    hh_prev |-> NULL, hh_next |-> NULL ]

\* The first element brings the table with it.
LEMMA EnlistFirst ==
  ASSUME HashesAreNumbers, NEW c \in Cells, NEW k
  PROVE  LET u == Enlist(EmptyTable, c, k) IN
         Enlisted(u, <<c>>, {c}, {k}, InitialBuckets, c) /\ u.hh[c].key = k
<1> DEFINE hh == [x \in {c} |-> NewHandle(k)]
           m == InitialBuckets
           alone == [EmptyTable EXCEPT !.hh = hh]
           made == MakeTable(alone, c)
           u == [made EXCEPT !.num_items = @ + 1]
<1>1. Enlist(EmptyTable, c, k) = u
  <2>1. DOMAIN EmptyTable.hh \cup {c} = {c} /\ EmptyTable.head = NULL
    BY DEF EmptyTable
  <2> QED BY <2>1 DEF Enlist, NewHandle
<1>2. m \in Nat \ {0} /\ c # NULL
  BY HashAssumption DEF HashAssumption
<1>3. NewHandle(k) \in Handles({k}) /\ hh[c] = NewHandle(k)
  BY DEF NewHandle, Handles, HashesAreNumbers, Pointers
<1>4. hh \in [{c} -> Handles({k})]
  BY <1>3
<1> HIDE DEF hh, m
<1>5. NoBuckets(m) \in [0..(m - 1) -> Bkts]
      /\ \A b \in 0..(m - 1) : NoBuckets(m)[b].hh_head = NULL /\ NoBuckets(m)[b].count = 0
  BY <1>2, NoBucketsIs
<1>6. /\ u \in Tables({c}, {k}, m) /\ u.hh = hh /\ u.buckets = NoBuckets(m) /\ u.head = c
      /\ u.tail = c /\ u.num_items = 1
  <2>1. alone \in Tables({c}, {k}, 0) /\ alone.hh = hh
    <3>1. NoBuckets(0) \in [0..(0 - 1) -> Bkts]
      BY NoBucketsIs
    <3> QED BY <1>4, <3>1 DEF EmptyTable, Tables, Pointers
  <2> HIDE DEF alone
  <2>2. /\ made \in Tables({c}, {k}, m) /\ made.hh = hh /\ made.buckets = NoBuckets(m)
        /\ made.head = c /\ made.tail = c /\ made.num_items = 0
    BY <1>5, <2>1 DEF MakeTable, Tables, Pointers, m
  <2> HIDE DEF made
  <2> QED BY <2>2 DEF Tables
<1> HIDE DEF u
<1>7. u.hh[c].key = k /\ u.hh[c].hashv = Hash(k) /\ u.hh[c].next = NULL /\ u.hh[c].prev = NULL
  BY <1>3, <1>6 DEF NewHandle
<1>8. KeysTell(u, {c})
  BY <1>7 DEF KeysTell
<1>9. Filled(u, {c} \ {c}, m)
  <2> SUFFICES ASSUME NEW b \in 0..(m - 1) PROVE \E w : ChainOf(u, w, {}, m, b)
    BY DEF Filled
  <2>1. BucketMembers(u, {}, m, b) = {}
    BY DEF BucketMembers
  <2>2. PICK w : ListOf(w, 0, {}, NULL, ChainNextLinks(u), ChainPrevLinks(u))
    BY EmptyList
  <2>3. u.buckets[b].hh_head = NULL /\ u.buckets[b].count = 0
    BY <1>5, <1>6
  <2> QED BY <2>1, <2>2, <2>3 DEF ChainOf
<1>10. Ordered(u, <<c>>, {c})
  <2>1. NextLinks(u)[c] = NULL /\ PrevLinks(u)[c] = NULL
    BY <1>6, <1>7, LinkValues
  <2>2. Linked(<<c>>, 1, c, NextLinks(u), PrevLinks(u))
    BY <2>1 DEF Linked
  <2>3. Enumerates(<<c>>, 1, {c})
    BY DEF Enumerates
  <2> QED BY <1>6, <2>2, <2>3 DEF Ordered, ListOf
<1> QED BY <1>1, <1>2, <1>6, <1>7, <1>8, <1>9, <1>10 DEF Enlisted, m

\* HASH_APPEND_LIST puts the new cell at the end of the order.
LEMMA AppendListIs ==
  ASSUME NEW t, NEW c
  PROVE  LET h == [t.hh EXCEPT ![c].prev = t.tail] IN
         AppendList(t, c) = [t EXCEPT !.hh = [h EXCEPT ![t.tail].next = c], !.tail = c]
BY DEF AppendList

\* Any other goes to the end of the list.
LEMMA EnlistIs ==
  ASSUME HashesAreNumbers, NEW t, NEW w, NEW A, NEW K, NEW m, IsTable(t, w, A, K, m),
         NEW c \in Cells \ A, NEW k, \A x \in A : t.hh[x].key # k
  PROVE  LET u == Enlist(t, c, k) IN
         /\ Enlisted(u, Append(w, c), A \cup {c}, K \cup {k}, m, c)
         /\ u.hh[c].key = k /\ \A x \in A : u.hh[x].key = t.hh[x].key
<1> DEFINE B == A \cup {c}
           L == K \cup {k}
           hh == [x \in B |-> IF x = c THEN [NewHandle(k) EXCEPT !.prev = t.tail]
                              ELSE IF x = t.tail THEN [t.hh[x] EXCEPT !.next = c]
                              ELSE t.hh[x]]
           u == [t EXCEPT !.hh = hh, !.tail = c, !.num_items = @ + 1]
<1>0. /\ t \in Tables(A, K, m) /\ A \subseteq Cells /\ m \in Nat \ {0} /\ NULL \notin Cells
      /\ KeysTell(t, A) /\ Filled(t, A, m) /\ Ordered(t, w, A)
  BY CellsFinite DEF IsTable
<1>1. /\ w \in Seq(A) /\ Len(w) = t.num_items /\ t.head \in A /\ t.num_items \in Nat \ {0}
  BY OrderIs
<1>2. /\ t.tail \in A /\ t.tail = w[t.num_items] /\ t.tail # c
  <2>1. t.num_items \in 1..Len(w) /\ t.tail = w[t.num_items]
    BY <1>0, <1>1 DEF Ordered
  <2> QED BY <1>1, <2>1
<1>3. Enlist(t, c, k) = u
  <2>1. t.head # NULL /\ DOMAIN t.hh = A
    BY <1>0, <1>1, TableFields
  <2>2. Enlist(t, c, k) =
          LET v == [t EXCEPT !.hh = [x \in B |-> IF x = c THEN NewHandle(k) ELSE t.hh[x]]]
          IN  [AppendList(v, c) EXCEPT !.num_items = @ + 1]
    BY <1>0, <2>1 DEF Enlist, NewHandle, Tables
  <2> DEFINE h1 == [x \in B |-> IF x = c THEN NewHandle(k) ELSE t.hh[x]]
             v == [t EXCEPT !.hh = h1]
  <2>3. [[h1 EXCEPT ![c].prev = t.tail] EXCEPT ![t.tail].next = c] = hh
    BY <1>2
  <2>4. v.hh = h1 /\ v.tail = t.tail
    BY <1>0 DEF Tables
  <2> HIDE DEF h1, hh
  <2>5. AppendList(v, c) = [v EXCEPT !.hh = hh, !.tail = c]
    BY <2>3, <2>4, AppendListIs
  <2> QED BY <1>0, <2>2, <2>5 DEF h1, Tables
<1>4. /\ NewHandle(k) \in Handles(L) /\ NewHandle(k).key = k /\ NewHandle(k).hashv = Hash(k)
      /\ NewHandle(k).next = NULL
  BY DEF NewHandle, Handles, HashesAreNumbers, Pointers
<1>5. \A x \in A : t.hh[x] \in Handles(K) /\ t.hh[x] \in Handles(L) /\ x \in Pointers /\ c \in Pointers
  BY <1>0, TableFields DEF Handles, Pointers
<1>6. \A x \in B :
        /\ hh[x] \in Handles(L)
        /\ hh[x].key = IF x = c THEN k ELSE t.hh[x].key
        /\ hh[x].hashv = IF x = c THEN Hash(k) ELSE t.hh[x].hashv
        /\ hh[x].prev = IF x = c THEN t.tail ELSE t.hh[x].prev
        /\ hh[x].next = IF x = c THEN NULL ELSE IF x = t.tail THEN c ELSE t.hh[x].next
        /\ x # c => hh[x].hh_next = t.hh[x].hh_next /\ hh[x].hh_prev = t.hh[x].hh_prev
  <2> TAKE x \in B
  <2>1. CASE x = c
    <3>1. hh[x] = [NewHandle(k) EXCEPT !.prev = t.tail] /\ t.tail \in Pointers
      BY <1>2, <1>5, <2>1
    <3> HIDE DEF hh
    <3> QED BY <1>4, <2>1, <3>1 DEF Handles
  <2>2. CASE x # c /\ x = t.tail
    <3>1. hh[x] = [t.hh[x] EXCEPT !.next = c]
      BY <2>2
    <3> HIDE DEF hh
    <3> QED BY <1>5, <2>2, <3>1 DEF Handles
  <2>3. CASE x # c /\ x # t.tail
    <3>1. hh[x] = t.hh[x]
      BY <2>3
    <3> HIDE DEF hh
    <3> QED BY <1>5, <2>3, <3>1 DEF Handles
  <2> QED BY <2>1, <2>2, <2>3
<1>7. hh \in [B -> Handles(L)]
  BY <1>6
<1> HIDE DEF hh
<1>8. /\ u \in Tables(B, L, m) /\ u.hh = hh /\ u.buckets = t.buckets /\ u.head = t.head
      /\ u.tail = c /\ u.num_items = t.num_items + 1
  <2>1. t.num_items + 1 \in Nat
    BY <1>1
  <2> QED BY <1>0, <1>7, <2>1 DEF Tables, Pointers
<1> HIDE DEF u
<1>9. KeysTell(u, B)
  BY <1>0, <1>6, <1>8 DEF KeysTell
<1>10. Filled(u, A, m)
  <2> SUFFICES ASSUME NEW b \in 0..(m - 1) PROVE \E v : ChainOf(u, v, A, m, b)
    BY DEF Filled
  <2>1. PICK v : ChainOf(t, v, A, m, b)
    BY <1>0 DEF Filled
  <2>2. BucketMembers(u, A, m, b) = BucketMembers(t, A, m, b)
    BY <1>6, <1>8 DEF BucketMembers
  <2>3. \A x \in BucketMembers(t, A, m, b) :
          ChainNextLinks(u)[x] = ChainNextLinks(t)[x] /\ ChainPrevLinks(u)[x] = ChainPrevLinks(t)[x]
    <3>1. \A x \in A : u.hh[x].hh_next = t.hh[x].hh_next /\ u.hh[x].hh_prev = t.hh[x].hh_prev
      BY <1>6, <1>8
    <3>2. \A x \in A : ChainNextLinks(u)[x] = u.hh[x].hh_next /\ ChainPrevLinks(u)[x] = u.hh[x].hh_prev
      BY <1>8, LinkValues
    <3>3. \A x \in A : ChainNextLinks(t)[x] = t.hh[x].hh_next /\ ChainPrevLinks(t)[x] = t.hh[x].hh_prev
      BY <1>0, LinkValues
    <3> QED BY <3>1, <3>2, <3>3 DEF BucketMembers
  <2>4. ChainOf(u, v, A, m, b)
    BY <1>8, <2>1, <2>2, <2>3, ListKept DEF ChainOf
  <2> QED BY <2>4
<1>11. Ordered(u, Append(w, c), B)
  <2> DEFINE n == t.num_items
             v == [i \in 1..n + 1 |-> IF i = n + 1 THEN c ELSE w[i]]
  <2>1. Append(w, c) = v
    <3>1. w \in Seq(B) /\ c \in B /\ n \in Nat /\ Len(w) = n
      BY <1>1
    <3> HIDE DEF B, n
    <3>2. Append(w, c) \in Seq(B) /\ Len(Append(w, c)) = n + 1
      BY <3>1, AppendProperties
    <3>3. \A i \in 1..n + 1 : Append(w, c)[i] = IF i = n + 1 THEN c ELSE w[i]
      BY <3>1, AppendProperties
    <3>4. Append(w, c) \in [1..n + 1 -> B]
      BY <3>2, LenProperties
    <3> QED BY <3>3, <3>4
  <2>2. /\ NextLinks(u)[c] = NULL /\ PrevLinks(u)[c] = w[n]
        /\ \A x \in A : /\ PrevLinks(u)[x] = PrevLinks(t)[x]
                        /\ NextLinks(u)[x] = IF x = w[n] THEN c ELSE NextLinks(t)[x]
    <3>1. \A x \in B : NextLinks(u)[x] = hh[x].next /\ PrevLinks(u)[x] = hh[x].prev
      BY <1>8, LinkValues
    <3>2. \A x \in A : NextLinks(t)[x] = t.hh[x].next /\ PrevLinks(t)[x] = t.hh[x].prev
      BY <1>0, LinkValues
    <3> QED BY <1>2, <1>6, <3>1, <3>2
  <2>3. ListOf(w, n, A, t.head, NextLinks(t), PrevLinks(t)) /\ n # 0 /\ c \notin A
    BY <1>0 DEF Ordered
  <2> HIDE DEF n
  <2>4. ListOf(v, n + 1, A \cup {c}, t.head, NextLinks(u), PrevLinks(u))
    BY <2>2, <2>3, ListAppend
  <2>5. v[n + 1] = c /\ n + 1 # 0
    BY <1>1 DEF n
  <2> HIDE DEF v
  <2> QED BY <1>8, <2>1, <2>4, <2>5 DEF Ordered, n
<1>12. B \ {c} = A /\ B \subseteq Cells
  BY <1>0
<1> QED BY <1>0, <1>3, <1>6, <1>8, <1>9, <1>10, <1>11, <1>12 DEF Enlisted

\* A listed cell gets into a bucket, with an expansion or without.
LEMMA AddToBktIs ==
  ASSUME NEW u, NEW w, NEW A, NEW K, NEW m, NEW c, Enlisted(u, w, A, K, m, c)
  PROVE  LET v == AddToBkt(u, c) IN
         /\ \E n : IsTable(v, w, A, K, n)
         /\ \A x \in A : v.hh[x].key = u.hh[x].key
<1> DEFINE v == InBucket(u, c)
           D == A \ {c}
<1>1. /\ A \subseteq Cells /\ m \in Nat \ {0} /\ c \in A /\ u \in Tables(A, K, m)
      /\ Ordered(u, w, A) /\ Filled(u, D, m) /\ KeysTell(u, A)
      /\ NULL \notin Cells /\ IsFiniteSet(Cells)
  BY CellsFinite DEF Enlisted
<1>2. D \subseteq A /\ c \notin D /\ D \cup {c} = A
  BY <1>1
<1> HIDE DEF D
<1>3. v \in Tables(A, K, m) /\ SameOrder(v, u, A) /\ Filled(v, A, m)
  BY <1>1, <1>2, InBucketIs
<1> HIDE DEF v
<1>4. Ordered(v, w, A) /\ KeysTell(v, A)
  BY <1>1, <1>3, OrderKept
<1>5. CASE Crowded(v, c)
  <2> DEFINE x == ExpandBuckets(v)
  <2>1. x \in Tables(A, K, 2 * m) /\ SameOrder(x, v, A) /\ Filled(x, A, 2 * m)
    BY <1>1, <1>3, ExpandBucketsIs
  <2> HIDE DEF x
  <2>2. Ordered(x, w, A) /\ KeysTell(x, A)
    BY <1>3, <1>4, <2>1, OrderKept
  <2>3. 2 * m \in Nat \ {0}
    BY <1>1
  <2>4. IsTable(x, w, A, K, 2 * m)
    BY <1>1, <2>1, <2>2, <2>3 DEF IsTable
  <2>5. AddToBkt(u, c) = x
    BY <1>5 DEF AddToBkt, x, v
  <2> QED BY <1>3, <2>1, <2>4, <2>5 DEF SameOrder
<1>6. CASE ~Crowded(v, c)
  <2>1. IsTable(v, w, A, K, m)
    BY <1>1, <1>3, <1>4 DEF IsTable
  <2>2. AddToBkt(u, c) = v
    BY <1>6 DEF AddToBkt, v
  <2> QED BY <1>3, <2>1, <2>2 DEF SameOrder
<1> QED BY <1>5, <1>6

\* HASH_ADD of an element with a key no other has.
LEMMA HashAddIs ==
  ASSUME HashesAreNumbers, NEW t, NEW w, NEW A, TableOf(t, w, A), NEW c \in Cells \ A,
         NEW k, \A x \in A : t.hh[x].key # k
  PROVE  LET u == HashAdd(t, c, k) IN
         /\ TableOf(u, Append(w, c), A \cup {c})
         /\ u.hh[c].key = k /\ \A x \in A : u.hh[x].key = t.hh[x].key
<1>1. CASE t = EmptyTable /\ A = {} /\ w = <<>>
  <2> DEFINE u == Enlist(EmptyTable, c, k)
  <2>1. Enlisted(u, <<c>>, {c}, {k}, InitialBuckets, c) /\ u.hh[c].key = k
    BY EnlistFirst
  <2> HIDE DEF u
  <2>2. /\ \E n : IsTable(AddToBkt(u, c), <<c>>, {c}, {k}, n)
        /\ AddToBkt(u, c).hh[c].key = k
    BY <2>1, AddToBktIs
  <2>3. HashAdd(t, c, k) = AddToBkt(u, c)
    BY <1>1 DEF HashAdd, u
  <2>4. Append(w, c) = <<c>> /\ A \cup {c} = {c}
    BY <1>1
  <2> QED BY <1>1, <2>2, <2>3, <2>4 DEF TableOf
<1>2. CASE \E K, m : IsTable(t, w, A, K, m)
  <2>1. PICK K, m : IsTable(t, w, A, K, m)
    BY <1>2
  <2> DEFINE u == Enlist(t, c, k)
             v == Append(w, c)
             B == A \cup {c}
  <2>2. /\ Enlisted(u, v, B, K \cup {k}, m, c)
        /\ u.hh[c].key = k /\ \A x \in A : u.hh[x].key = t.hh[x].key
    BY <2>1, EnlistIs
  <2> HIDE DEF u, v
  <2>3. /\ \E n : IsTable(AddToBkt(u, c), v, B, K \cup {k}, n)
        /\ \A x \in B : AddToBkt(u, c).hh[x].key = u.hh[x].key
    BY <2>2, AddToBktIs
  <2>4. HashAdd(t, c, k) = AddToBkt(u, c)
    BY DEF HashAdd, u
  <2> QED BY <2>2, <2>3, <2>4 DEF TableOf, v
<1> QED BY <1>1, <1>2 DEF TableOf

(***************************************************************************)
(* HASH_DELETE.                                                            *)
(***************************************************************************)
\* u is t with c taken off both of its lists.
Off(u, t, A, m, b, c) ==
  LET n == t.hh[c].next
      p == t.hh[c].prev
      hn == t.hh[c].hh_next
      hp == t.hh[c].hh_prev IN
  /\ u.head = IF p = NULL THEN n ELSE t.head
  /\ u.tail = IF t.tail = c THEN p ELSE t.tail
  /\ u.num_items = t.num_items - 1
  /\ \A x \in A \ {c} :
       /\ u.hh[x].key = t.hh[x].key /\ u.hh[x].hashv = t.hh[x].hashv
       /\ u.hh[x].next = IF x = p THEN n ELSE t.hh[x].next
       /\ u.hh[x].prev = IF x = n THEN p ELSE t.hh[x].prev
       /\ u.hh[x].hh_next = IF x = hp THEN hn ELSE t.hh[x].hh_next
       /\ u.hh[x].hh_prev = IF x = hn THEN hp ELSE t.hh[x].hh_prev
  /\ u.buckets[b].hh_head = IF t.buckets[b].hh_head = c THEN hn ELSE t.buckets[b].hh_head
  /\ u.buckets[b].count = t.buckets[b].count - 1
  /\ \A d \in 0..(m - 1) : d # b => u.buckets[d] = t.buckets[d]

\* DelInBkt, field by field.
OffChain(u, t, A, m, b, c) ==
  LET n == t.hh[c].hh_next
      p == t.hh[c].hh_prev IN
  /\ \A x \in A :
       /\ u.hh[x].key = t.hh[x].key /\ u.hh[x].hashv = t.hh[x].hashv
       /\ u.hh[x].next = t.hh[x].next /\ u.hh[x].prev = t.hh[x].prev
       /\ u.hh[x].hh_next = IF x = p THEN n ELSE t.hh[x].hh_next
       /\ u.hh[x].hh_prev = IF x = n THEN p ELSE t.hh[x].hh_prev
  /\ u.head = t.head /\ u.tail = t.tail /\ u.num_items = t.num_items
  /\ u.buckets[b].hh_head = IF t.buckets[b].hh_head = c THEN n ELSE t.buckets[b].hh_head
  /\ u.buckets[b].count = t.buckets[b].count - 1
  /\ \A d \in 0..(m - 1) : d # b => u.buckets[d] = t.buckets[d]

\* HASH_DEL_IN_BKT takes a cell out of its bucket.
LEMMA DelInBktIs ==
  ASSUME NEW A, NEW K, NEW m \in Nat \ {0}, NEW t \in Tables(A, K, m), NEW c \in A,
         NEW b \in 0..(m - 1), b = BucketOf(t.hh[c].hashv, m), t.buckets[b].count # 0,
         t.hh[c].hh_next \in A => t.hh[c].hh_next # t.hh[c].hh_prev
  PROVE  DelInBkt(t, c) \in Tables(A, K, m) /\ OffChain(DelInBkt(t, c), t, A, m, b, c)
<1> DEFINE n == t.hh[c].hh_next
           p == t.hh[c].hh_prev
           hh2 == [x \in A |-> IF x = p THEN [t.hh[x] EXCEPT !.hh_next = n]
                               ELSE IF x = n THEN [t.hh[x] EXCEPT !.hh_prev = p]
                               ELSE t.hh[x]]
           bkt == [t.buckets[b] EXCEPT !.count = @ - 1, !.hh_head = IF @ = c THEN n ELSE @]
           bkts == [t.buckets EXCEPT ![b] = bkt]
           u == DelInBkt(t, c)
<1>1. u = [t EXCEPT !.buckets = bkts, !.hh = hh2]
  <2>1. NumBuckets(t) = m /\ DOMAIN t.hh = A
    BY NumBucketsIs, TableFields
  <2> QED BY <2>1, ZenonT(40) DEF DelInBkt, Tables, Bkts
<1>2. (\A x \in A : t.hh[x] \in Handles(K)) /\ n \in Pointers /\ p \in Pointers
  BY TableFields
<1>20. n \in A => n # p
  OBVIOUS
<1> HIDE DEF n, p
<1>8. \A x \in A :
        /\ hh2[x] \in Handles(K)
        /\ hh2[x].key = t.hh[x].key /\ hh2[x].hashv = t.hh[x].hashv
        /\ hh2[x].next = t.hh[x].next /\ hh2[x].prev = t.hh[x].prev
        /\ hh2[x].hh_next = IF x = p THEN n ELSE t.hh[x].hh_next
        /\ hh2[x].hh_prev = IF x = n THEN p ELSE t.hh[x].hh_prev
  BY <1>2, <1>20 DEF Handles
<1>9. hh2 \in [A -> Handles(K)]
  BY <1>8
<1>6. bkt \in Bkts /\ bkt.count = t.buckets[b].count - 1
      /\ bkt.hh_head = IF t.buckets[b].hh_head = c THEN n ELSE t.buckets[b].hh_head
  <2>1. PICK old \in Bkts : old = t.buckets[b]
    BY TableFields
  <2>2. PICK k \in Nat : k = old.count /\ k # 0
    BY <2>1 DEF Bkts
  <2>3. k - 1 \in Nat
    BY <2>2
  <2>4. bkt = [old EXCEPT !.count = k - 1, !.hh_head = IF old.hh_head = c THEN n ELSE old.hh_head]
    BY <2>1, <2>2 DEF Bkts
  <2> HIDE DEF bkt
  <2> QED BY <1>2, <2>1, <2>2, <2>3, <2>4 DEF Bkts
<1>7. /\ bkts \in [0..(m - 1) -> Bkts] /\ bkts[b] = bkt
      /\ \A d \in 0..(m - 1) : d # b => bkts[d] = t.buckets[d]
  <2>1. t.buckets \in [0..(m - 1) -> Bkts]
    BY TableFields
  <2> HIDE DEF bkt
  <2> QED BY <1>6, <2>1
<1> HIDE DEF hh2, bkts, bkt, u
<1>11. /\ u \in Tables(A, K, m) /\ u.hh = hh2 /\ u.buckets = bkts
       /\ u.num_items = t.num_items /\ u.head = t.head /\ u.tail = t.tail
  BY <1>1, <1>7, <1>9 DEF Tables
<1>12. OffChain(u, t, A, m, b, c)
  <2>1. \A x \in A :
       /\ u.hh[x].key = t.hh[x].key /\ u.hh[x].hashv = t.hh[x].hashv
       /\ u.hh[x].next = t.hh[x].next /\ u.hh[x].prev = t.hh[x].prev
       /\ u.hh[x].hh_next = IF x = p THEN n ELSE t.hh[x].hh_next
       /\ u.hh[x].hh_prev = IF x = n THEN p ELSE t.hh[x].hh_prev
    BY <1>8, <1>11
  <2> QED BY <1>6, <1>7, <1>11, <2>1 DEF OffChain, n, p
<1> QED BY <1>11, <1>12 DEF u

\* HASH_DELETE, field by field, when others stay.
LEMMA DeleteFields ==
  ASSUME NEW A, NEW K, NEW m \in Nat \ {0}, NEW t \in Tables(A, K, m), NEW c \in A,
         NEW b \in 0..(m - 1), b = BucketOf(t.hh[c].hashv, m), t.buckets[b].count # 0,
         t.num_items # 0, ~(t.hh[c].next = NULL /\ t.hh[c].prev = NULL),
         t.hh[c].next \in A => t.hh[c].next # t.hh[c].prev,
         t.hh[c].hh_next \in A => t.hh[c].hh_next # t.hh[c].hh_prev
  PROVE  HashDelete(t, c) \in Tables(A \ {c}, K, m) /\ Off(HashDelete(t, c), t, A, m, b, c)
<1> DEFINE n == t.hh[c].next
           p == t.hh[c].prev
           hn == t.hh[c].hh_next
           hp == t.hh[c].hh_prev
           B == A \ {c}
           hh1 == [x \in A |-> IF x = p THEN [t.hh[x] EXCEPT !.next = n]
                               ELSE IF x = n THEN [t.hh[x] EXCEPT !.prev = p]
                               ELSE t.hh[x]]
           off == [t EXCEPT !.tail = IF @ = c THEN p ELSE @,
                            !.head = IF p = NULL THEN n ELSE @,
                            !.hh = hh1]
           del == DelInBkt(off, c)
           hh3 == [x \in B |-> del.hh[x]]
           u == [del EXCEPT !.num_items = @ - 1, !.hh = Restrict(@, DOMAIN @ \ {c})]
<1>1. HashDelete(t, c) = u
  <2>1. DOMAIN t.hh = A
    BY TableFields
  <2> QED BY <2>1 DEF HashDelete
<1>2. /\ \A x \in A : t.hh[x] \in Handles(K)
      /\ n \in Pointers /\ p \in Pointers /\ hn \in Pointers /\ hp \in Pointers
  BY TableFields
<1> HIDE DEF n, p, hn, hp
<1>20. (n \in A => n # p) /\ (hn \in A => hn # hp)
  BY DEF n, p, hn, hp
<1>3. \A x \in A :
        /\ hh1[x] \in Handles(K)
        /\ hh1[x].key = t.hh[x].key /\ hh1[x].hashv = t.hh[x].hashv
        /\ hh1[x].hh_next = t.hh[x].hh_next /\ hh1[x].hh_prev = t.hh[x].hh_prev
        /\ hh1[x].next = IF x = p THEN n ELSE t.hh[x].next
        /\ hh1[x].prev = IF x = n THEN p ELSE t.hh[x].prev
  BY <1>2, <1>20 DEF Handles
<1>4. hh1 \in [A -> Handles(K)] /\ DOMAIN hh1 = A
  BY <1>3
<1> HIDE DEF hh1
<1>5. /\ off \in Tables(A, K, m) /\ off.hh = hh1 /\ off.buckets = t.buckets
      /\ off.num_items = t.num_items
      /\ off.head = (IF p = NULL THEN n ELSE t.head)
      /\ off.tail = IF t.tail = c THEN p ELSE t.tail
  BY <1>2, <1>4 DEF Tables
<1> HIDE DEF off
<1>6. del \in Tables(A, K, m) /\ OffChain(del, off, A, m, b, c)
  <2>1. /\ off.hh[c].hashv = t.hh[c].hashv /\ off.hh[c].hh_next = hn /\ off.hh[c].hh_prev = hp
    BY <1>3, <1>5 DEF hn, hp
  <2>2. off.buckets[b].count # 0
    BY <1>5
  <2>3. off.hh[c].hh_next \in A => off.hh[c].hh_next # off.hh[c].hh_prev
    BY <1>20, <2>1
  <2> QED BY <1>5, <2>1, <2>2, <2>3, DelInBktIs
<1> HIDE DEF del
<1>8. /\ \A x \in A :
           /\ del.hh[x].key = hh1[x].key /\ del.hh[x].hashv = hh1[x].hashv
           /\ del.hh[x].next = hh1[x].next /\ del.hh[x].prev = hh1[x].prev
           /\ del.hh[x].hh_next = IF x = hp THEN hn ELSE hh1[x].hh_next
           /\ del.hh[x].hh_prev = IF x = hn THEN hp ELSE hh1[x].hh_prev
      /\ del.num_items = t.num_items /\ del.head = off.head /\ del.tail = off.tail
  <2>1. /\ off.hh[c].hh_next = hn /\ off.hh[c].hh_prev = hp
    BY <1>3, <1>5 DEF hn, hp
  <2> QED BY <1>5, <1>6, <2>1 DEF OffChain
<1>7. /\ del.buckets[b].hh_head = IF t.buckets[b].hh_head = c THEN hn ELSE t.buckets[b].hh_head
      /\ del.buckets[b].count = t.buckets[b].count - 1
      /\ \A d \in 0..(m - 1) : d # b => del.buckets[d] = t.buckets[d]
  <2>1. off.hh[c].hh_next = hn
    BY <1>3, <1>5 DEF hn
  <2> QED BY <1>5, <1>6, <2>1 DEF OffChain
<1>9. DOMAIN del.hh = A /\ \A x \in A : del.hh[x] \in Handles(K)
  BY <1>6, TableFields
<1>12. Restrict(del.hh, A \ {c}) = hh3
  BY <1>9 DEF Restrict
<1>13. hh3 \in [B -> Handles(K)] /\ \A x \in B : hh3[x] = del.hh[x]
  BY <1>9
<1> HIDE DEF hh3
<1>14. t.num_items - 1 \in Nat
  <2>1. PICK k \in Nat : k = t.num_items /\ k # 0
    BY TableFields
  <2> QED BY <2>1
<1>15. /\ u \in Tables(B, K, m) /\ u.hh = hh3 /\ u.buckets = del.buckets
       /\ u.num_items = t.num_items - 1 /\ u.head = off.head /\ u.tail = off.tail
  <2>1. u = [del EXCEPT !.num_items = t.num_items - 1, !.hh = hh3]
    BY <1>8, <1>9, <1>12
  <2> HIDE DEF u
  <2> QED BY <1>6, <1>8, <1>13, <1>14, <2>1 DEF Tables
<1> HIDE DEF u
<1>16. Off(u, t, A, m, b, c)
  <2>1. \A x \in B :
       /\ u.hh[x].key = t.hh[x].key /\ u.hh[x].hashv = t.hh[x].hashv
       /\ u.hh[x].next = IF x = p THEN n ELSE t.hh[x].next
       /\ u.hh[x].prev = IF x = n THEN p ELSE t.hh[x].prev
       /\ u.hh[x].hh_next = IF x = hp THEN hn ELSE t.hh[x].hh_next
       /\ u.hh[x].hh_prev = IF x = hn THEN hp ELSE t.hh[x].hh_prev
    BY <1>3, <1>8, <1>13, <1>15
  <2>2. /\ n = t.hh[c].next /\ p = t.hh[c].prev
        /\ hn = t.hh[c].hh_next /\ hp = t.hh[c].hh_prev /\ B = A \ {c}
    BY DEF n, p, hn, hp
  <2>3. /\ u.head = (IF p = NULL THEN n ELSE t.head)
        /\ u.tail = (IF t.tail = c THEN p ELSE t.tail)
        /\ u.num_items = t.num_items - 1
    BY <1>5, <1>15
  <2>4. /\ u.buckets[b].hh_head = IF t.buckets[b].hh_head = c THEN hn ELSE t.buckets[b].hh_head
        /\ u.buckets[b].count = t.buckets[b].count - 1
        /\ \A d \in 0..(m - 1) : d # b => u.buckets[d] = t.buckets[d]
    BY <1>7, <1>15
  <2> HIDE DEF B
  <2> QED BY <2>1, <2>2, <2>3, <2>4, ZenonT(40) DEF Off
<1> QED BY <1>1, <1>15, <1>16

\* The neighbours of the member at place k of a list.
LEMMA Neighbours ==
  ASSUME NEW w, NEW n, NEW A, NEW first, NEW nxt, NEW prv, ListOf(w, n, A, first, nxt, prv),
         NULL \notin A, NEW k \in 1..n
  PROVE  /\ n \in Nat /\ n # 0 /\ w[k] \in A
         /\ nxt[w[k]] \in A => nxt[w[k]] # prv[w[k]]
         /\ nxt[w[k]] = NULL <=> k = n
         /\ prv[w[k]] = NULL <=> k = 1
         /\ k # 1 => k - 1 \in 1..n /\ prv[w[k]] = w[k - 1]
         /\ first = w[1]
<1>1. /\ n \in Nat /\ w \in [1..n -> A]
      /\ \A i, j \in 1..n : w[i] = w[j] => i = j
      /\ first = IF n = 0 THEN NULL ELSE w[1]
      /\ nxt[w[k]] = IF k = n THEN NULL ELSE w[k + 1]
      /\ prv[w[k]] = IF k = 1 THEN NULL ELSE w[k - 1]
  BY DEF ListOf, Enumerates, Linked
<1>2. n # 0 /\ k \in Nat
  BY <1>1
<1>3. k # n => k + 1 \in 1..n
  BY <1>1
<1>4. k # 1 => k - 1 \in 1..n
  BY <1>1
<1>5. k + 1 # k - 1
  BY <1>2
<1> QED BY <1>1, <1>2, <1>3, <1>4, <1>5

\* The order without one cell, as HASH_DELETE links it.
LEMMA ListWithout ==
  ASSUME NEW w, NEW n, NEW A, NEW first, NEW nxt, NEW prv, NEW nxt2, NEW prv2, NEW k \in 1..n,
         NEW c, c = w[k], NULL \notin A, ListOf(w, n, A, first, nxt, prv),
         TakesOut(A, c, nxt, prv, nxt2, prv2)
  PROVE  ListOf(Removed(w, n, k), n - 1, A \ {c},
                IF prv[c] = NULL THEN nxt[c] ELSE first, nxt2, prv2)
BY ListRemove

\* The element at place i, c, is not the only one.
OneOfMany(t, w, i, c) ==
  /\ i \in 1..t.num_items /\ c = w[i]
  /\ ~(t.hh[c].next = NULL /\ t.hh[c].prev = NULL)

\* Then u is what the deletion of c leaves of t.
Remains(u, t, A, c) ==
  /\ \A x \in A \ {c} : u.hh[x].key = t.hh[x].key
  /\ c = t.head => u.head = t.hh[c].next

\* HASH_DELETE when others are left.
LEMMA DeleteOthersStay ==
  ASSUME NEW t, NEW w, NEW A, NEW K, NEW m, IsTable(t, w, A, K, m), NEW i, NEW c,
         OneOfMany(t, w, i, c)
  PROVE  /\ IsTable(HashDelete(t, c), Removed(w, t.num_items, i), A \ {c}, K, m)
         /\ Remains(HashDelete(t, c), t, A, c)
<1>0. i \in 1..t.num_items /\ c = w[i] /\ ~(t.hh[c].next = NULL /\ t.hh[c].prev = NULL)
  BY DEF OneOfMany
<1> DEFINE n == t.num_items
           b == BucketOf(t.hh[c].hashv, m)
           M == BucketMembers(t, A, m, b)
           u == HashDelete(t, c)
           B == A \ {c}
           v == Removed(w, n, i)
<1>1. /\ t \in Tables(A, K, m) /\ A \subseteq Cells /\ m \in Nat \ {0} /\ NULL \notin A
      /\ KeysTell(t, A) /\ Filled(t, A, m)
      /\ ListOf(w, n, A, t.head, NextLinks(t), PrevLinks(t)) /\ n # 0 /\ t.tail = w[n]
  BY CellsFinite DEF IsTable, Ordered
<1>2. \A x \in A : /\ NextLinks(t)[x] = t.hh[x].next /\ PrevLinks(t)[x] = t.hh[x].prev
                   /\ ChainNextLinks(t)[x] = t.hh[x].hh_next /\ ChainPrevLinks(t)[x] = t.hh[x].hh_prev
  BY <1>1, LinkValues
<1> HIDE DEF n
<1>3. i \in 1..n /\ c = w[i]
  BY <1>0 DEF n
<1>4. /\ n \in Nat /\ n # 0 /\ c \in A
      /\ t.hh[c].next \in A => t.hh[c].next # t.hh[c].prev
      /\ t.hh[c].next = NULL <=> i = n
      /\ t.hh[c].prev = NULL <=> i = 1
      /\ i # 1 => i - 1 \in 1..n /\ t.hh[c].prev = w[i - 1]
      /\ t.head = w[1]
  BY <1>1, <1>2, <1>3, Neighbours
<1>5. b \in 0..(m - 1) /\ c \in M /\ M \subseteq A
  BY <1>1, <1>4, TableFields, BucketRange DEF BucketMembers
<1> HIDE DEF M
<1>6. PICK x : ChainOf(t, x, A, m, b)
  BY <1>1, <1>5 DEF Filled
<1>7. ListOf(x, t.buckets[b].count, M, t.buckets[b].hh_head, ChainNextLinks(t), ChainPrevLinks(t))
  BY <1>6 DEF ChainOf, M
<1>8. PICK j \in 1..t.buckets[b].count : x[j] = c
  BY <1>5, <1>7 DEF ListOf, Enumerates
<1>9. /\ t.buckets[b].count \in Nat /\ t.buckets[b].count # 0
      /\ t.hh[c].hh_next \in M => t.hh[c].hh_next # t.hh[c].hh_prev
      /\ t.hh[c].hh_prev = NULL <=> j = 1
      /\ t.buckets[b].hh_head = x[1]
      /\ t.hh[c].hh_next \in M \cup {NULL}
  <2> DEFINE k == t.buckets[b].count
             nxt == ChainNextLinks(t)
             prv == ChainPrevLinks(t)
  <2>1. NULL \notin M /\ nxt[c] = t.hh[c].hh_next /\ prv[c] = t.hh[c].hh_prev
    BY <1>1, <1>2, <1>4, <1>5
  <2>2. nxt[x[j]] = (IF j = k THEN NULL ELSE x[j + 1]) /\ x \in [1..k -> M] /\ k \in Nat
    BY <1>7, <1>8 DEF ListOf, Linked, Enumerates
  <2>5. ListOf(x, k, M, t.buckets[b].hh_head, nxt, prv) /\ j \in 1..k
    BY <1>7, <1>8
  <2> HIDE DEF k, nxt, prv
  <2>3. j # k => j + 1 \in 1..k
    BY <2>2, <2>5
  <2>4. /\ k \in Nat /\ k # 0
        /\ nxt[x[j]] \in M => nxt[x[j]] # prv[x[j]]
        /\ prv[x[j]] = NULL <=> j = 1
        /\ t.buckets[b].hh_head = x[1]
    BY <2>1, <2>5, Neighbours
  <2>6. nxt[x[j]] \in M \cup {NULL}
    BY <2>2, <2>3
  <2> QED BY <1>8, <2>1, <2>4, <2>6 DEF k
<1>10. t.hh[c].hh_next \in A => t.hh[c].hh_next # t.hh[c].hh_prev
  BY <1>1, <1>9
<1> HIDE DEF b
<1>11. u \in Tables(B, K, m) /\ Off(u, t, A, m, b, c)
  BY <1>0, <1>1, <1>4, <1>5, <1>9, <1>10, DeleteFields DEF b, n
<1> HIDE DEF u, v
<1>12. /\ \A y \in B : /\ NextLinks(u)[y] = u.hh[y].next /\ PrevLinks(u)[y] = u.hh[y].prev
                       /\ ChainNextLinks(u)[y] = u.hh[y].hh_next /\ ChainPrevLinks(u)[y] = u.hh[y].hh_prev
  BY <1>11, LinkValues
<1>13. Ordered(u, v, B)
  <2>1. TakesOut(A, c, NextLinks(t), PrevLinks(t), NextLinks(u), PrevLinks(u))
    BY <1>2, <1>4, <1>11, <1>12 DEF TakesOut, Off
  <2>2. ListOf(v, n - 1, B, IF PrevLinks(t)[c] = NULL THEN NextLinks(t)[c] ELSE t.head,
               NextLinks(u), PrevLinks(u))
    <3> DEFINE nxt == NextLinks(t)
               prv == PrevLinks(t)
               nxt2 == NextLinks(u)
               prv2 == PrevLinks(u)
    <3>1. /\ TakesOut(A, c, nxt, prv, nxt2, prv2) /\ NULL \notin A
          /\ ListOf(w, n, A, t.head, nxt, prv) /\ i \in 1..n /\ c = w[i]
      BY <1>1, <1>3, <2>1
    <3> HIDE DEF nxt, prv, nxt2, prv2
    <3>2. ListOf(Removed(w, n, i), n - 1, A \ {c}, IF prv[c] = NULL THEN nxt[c] ELSE t.head, nxt2, prv2)
      BY <3>1, ListWithout
    <3> QED BY <3>2 DEF v, nxt, prv, nxt2, prv2
  <2>3. u.head = (IF PrevLinks(t)[c] = NULL THEN NextLinks(t)[c] ELSE t.head) /\ u.num_items = n - 1
    BY <1>2, <1>4, <1>11 DEF Off, n
  <2>4. n - 1 # 0
    BY <1>0, <1>3, <1>4
  <2>5. u.tail = v[n - 1]
    <3>1. n - 1 \in 1..n - 1 /\ (n - 1) + 1 = n
      BY <1>4, <2>4
    <3>2. v[n - 1] = IF n - 1 < i THEN w[n - 1] ELSE w[n]
      BY <3>1 DEF v, Removed
    <3>3. u.tail = IF w[n] = c THEN t.hh[c].prev ELSE w[n]
      BY <1>1, <1>11 DEF Off
    <3>4. w[n] = c <=> i = n
      <4>1. n \in 1..n
        BY <1>4
      <4> QED BY <1>1, <1>3, <4>1 DEF ListOf, Enumerates
    <3>5. n - 1 < i <=> i = n
      BY <1>3, <1>4
    <3>6. i = n => i # 1 /\ i - 1 = n - 1
      BY <1>4, <2>4
    <3> QED BY <1>4, <3>2, <3>3, <3>4, <3>5, <3>6
  <2> QED BY <2>2, <2>3, <2>4, <2>5 DEF Ordered
<1>14. KeysTell(u, B)
  BY <1>1, <1>11 DEF KeysTell, Off
<1>15. Filled(u, B, m)
  <2>0. \A d : BucketMembers(u, B, m, d) = BucketMembers(t, A, m, d) \ {c}
    BY <1>11 DEF BucketMembers, Off
  <2>1. \E y : ChainOf(u, y, B, m, b)
    <3>1. TakesOut(M, c, ChainNextLinks(t), ChainPrevLinks(t), ChainNextLinks(u), ChainPrevLinks(u))
      BY <1>2, <1>4, <1>5, <1>11, <1>12 DEF TakesOut, Off
    <3> DEFINE y == Removed(x, t.buckets[b].count, j)
    <3>2. ListOf(y, t.buckets[b].count - 1, M \ {c},
                 IF ChainPrevLinks(t)[c] = NULL THEN ChainNextLinks(t)[c] ELSE t.buckets[b].hh_head,
                 ChainNextLinks(u), ChainPrevLinks(u))
      <4>1. NULL \notin M
        BY <1>1, <1>5
      <4> DEFINE k == t.buckets[b].count
                 first == t.buckets[b].hh_head
                 nxt == ChainNextLinks(t)
                 prv == ChainPrevLinks(t)
                 nxt2 == ChainNextLinks(u)
                 prv2 == ChainPrevLinks(u)
      <4>2. /\ TakesOut(M, c, nxt, prv, nxt2, prv2) /\ NULL \notin M
            /\ ListOf(x, k, M, first, nxt, prv) /\ j \in 1..k /\ c = x[j]
        BY <1>7, <1>8, <3>1, <4>1
      <4> HIDE DEF k, first, nxt, prv, nxt2, prv2
      <4>3. ListOf(Removed(x, k, j), k - 1, M \ {c}, IF prv[c] = NULL THEN nxt[c] ELSE first, nxt2, prv2)
        BY <4>2, ListWithout
      <4> QED BY <4>3 DEF k, first, nxt, prv, nxt2, prv2
    <3>3. u.buckets[b].hh_head =
            (IF ChainPrevLinks(t)[c] = NULL THEN ChainNextLinks(t)[c] ELSE t.buckets[b].hh_head)
      <4>1. t.buckets[b].hh_head = c <=> j = 1
        <5>1. 1 \in 1..t.buckets[b].count
          BY <1>9
        <5> QED BY <1>7, <1>8, <1>9, <5>1 DEF ListOf, Enumerates
      <4> QED BY <1>2, <1>4, <1>9, <1>11, <4>1 DEF Off
    <3>4. u.buckets[b].count = t.buckets[b].count - 1
      BY <1>11 DEF Off
    <3> HIDE DEF y
    <3>5. ChainOf(u, y, B, m, b)
      BY <2>0, <3>2, <3>3, <3>4 DEF ChainOf, M
    <3> QED BY <3>5
  <2>2. ASSUME NEW d \in 0..(m - 1), d # b PROVE \E y : ChainOf(u, y, B, m, d)
    <3>1. PICK y : ChainOf(t, y, A, m, d)
      BY <1>1 DEF Filled
    <3> DEFINE N == BucketMembers(t, A, m, d)
    <3>2. c \notin N /\ N \subseteq B /\ N \cap M = {} /\ BucketMembers(u, B, m, d) = N
      BY <1>5, <2>0, <2>2 DEF BucketMembers, M, b
    <3>3. NULL \notin N
      BY <1>1 DEF BucketMembers
    <3> HIDE DEF N
    <3>4. \A z \in N : z # t.hh[c].hh_next
      BY <1>9, <3>2, <3>3
    <3>5. \A z \in N : z # t.hh[c].hh_prev
      <4>1. t.hh[c].hh_prev \in M \cup {NULL}
        <5>1. /\ ChainPrevLinks(t)[c] = IF j = 1 THEN NULL ELSE x[j - 1]
              /\ x \in [1..t.buckets[b].count -> M]
          BY <1>7, <1>8 DEF ListOf, Enumerates, Linked
        <5>2. j # 1 => j - 1 \in 1..t.buckets[b].count
          BY <1>9
        <5> QED BY <1>2, <1>4, <5>1, <5>2
      <4> QED BY <3>2, <3>3, <4>1
    <3>6. \A z \in N : ChainNextLinks(u)[z] = ChainNextLinks(t)[z] /\ ChainPrevLinks(u)[z] = ChainPrevLinks(t)[z]
      BY <1>2, <1>11, <1>12, <3>2, <3>4, <3>5 DEF Off
    <3>7. ListOf(y, t.buckets[d].count, N, t.buckets[d].hh_head, ChainNextLinks(u), ChainPrevLinks(u))
      BY <3>1, <3>6, ListKept DEF ChainOf, N
    <3>8. u.buckets[d] = t.buckets[d]
      BY <1>11, <2>2 DEF Off
    <3>9. ChainOf(u, y, B, m, d)
      BY <3>2, <3>7, <3>8 DEF ChainOf
    <3> QED BY <3>9
  <2> QED BY <2>1, <2>2 DEF Filled
<1>16. \A y \in A \ {c} : u.hh[y].key = t.hh[y].key
  BY <1>11 DEF Off
<1>17. c = t.head => u.head = t.hh[c].next
  <2>1. c = t.head => i = 1
    <3>1. 1 \in 1..n
      BY <1>4
    <3> QED BY <1>1, <1>3, <1>4, <3>1 DEF ListOf, Enumerates
  <2> QED BY <1>4, <1>11, <2>1 DEF Off
<1>18. B \subseteq Cells
  BY <1>1
<1>19. IsTable(u, v, B, K, m)
  BY <1>1, <1>11, <1>13, <1>14, <1>15, <1>18 DEF IsTable
<1> QED BY <1>16, <1>17, <1>19 DEF Remains, u, v, n

(***************************************************************************)
(* What a table of any number of elements is to its users.                 *)
(***************************************************************************)
LEMMA EmptyTableIs ==
  /\ EmptyTable.head = NULL /\ DOMAIN EmptyTable.hh = {}
  /\ AppOrder(EmptyTable) = <<>>
  /\ Fsck(EmptyTable) /\ Findable(EmptyTable)
<1>1. EmptyTable.head = NULL /\ DOMAIN EmptyTable.hh = {}
  BY DEF EmptyTable
<1>2. AppOrder(EmptyTable) = <<>>
  <2>1. DOMAIN NextLinks(EmptyTable) = {}
    BY <1>1 DEF NextLinks
  <2>2. IsFiniteSet(DOMAIN NextLinks(EmptyTable))
    BY <2>1, FS_EmptySet
  <2>3. AppOrder(EmptyTable) \in Seq({})
    BY <2>1, <2>2, WalkType DEF AppOrder
  <2> HIDE DEF AppOrder
  <2>4. \A s \in Seq({}) : s = <<>>
    <3> TAKE s \in Seq({})
    <3>1. s \in [1..Len(s) -> {}] /\ Len(s) \in Nat
      BY LenProperties
    <3>2. Len(s) = 0
      <4>1. Len(s) # 0 => 1 \in 1..Len(s)
        BY <3>1
      <4> QED BY <3>1, <4>1
    <3> QED BY <3>2, EmptySeq
  <2> QED BY <2>3, <2>4
<1>3. Fsck(EmptyTable)
  BY <1>1 DEF Fsck
<1>4. Findable(EmptyTable)
  BY <1>2 DEF Findable
<1> QED BY <1>1, <1>2, <1>3, <1>4

\* What a table of any number of elements is to its users.
LEMMA TableOfIs ==
  ASSUME NEW t, NEW w, NEW A, TableOf(t, w, A)
  PROVE  /\ A \subseteq Cells /\ DOMAIN t.hh = A
         /\ AppOrder(t) = w /\ w \in Seq(A) /\ Enumerates(w, Len(w), A)
         /\ t.head = NULL <=> A = {}
         /\ A # {} => t.head = w[1] /\ t.head \in A
         /\ \A c \in A : t.hh[c].next \in A \cup {NULL}
         /\ \A c, d \in A : t.hh[c].key = t.hh[d].key => c = d
         /\ A = {} => t = EmptyTable
<1>1. CASE t = EmptyTable /\ A = {} /\ w = <<>>
  <2>1. w \in Seq(A) /\ Len(w) = 0 /\ DOMAIN w = {}
    BY <1>1
  <2>2. Enumerates(w, Len(w), A)
    BY <1>1, <2>1 DEF Enumerates
  <2> QED BY <1>1, <2>1, <2>2, EmptyTableIs
<1>2. CASE \E K, m : IsTable(t, w, A, K, m)
  <2>1. PICK K, m : IsTable(t, w, A, K, m)
    BY <1>2
  <2>2. /\ t \in Tables(A, K, m) /\ A \subseteq Cells /\ NULL \notin A /\ KeysTell(t, A)
        /\ ListOf(w, t.num_items, A, t.head, NextLinks(t), PrevLinks(t))
    BY <2>1, CellsFinite DEF IsTable, Ordered
  <2>3. /\ AppOrder(t) = w /\ w \in Seq(A) /\ Len(w) = t.num_items
        /\ t.head = w[1] /\ t.head \in A /\ t.num_items \in Nat \ {0}
    BY <2>1, OrderIs
  <2>4. Enumerates(w, Len(w), A)
    BY <2>2, <2>3 DEF ListOf
  <2>5. \A c \in A : t.hh[c].next \in A \cup {NULL}
    <3> TAKE c \in A
    <3>1. PICK i \in 1..Len(w) : w[i] = c
      BY <2>4 DEF Enumerates
    <3>2. NextLinks(t)[c] = IF i = Len(w) THEN NULL ELSE w[i + 1]
      BY <2>2, <2>3, <3>1 DEF ListOf, Linked
    <3>3. i # Len(w) => i + 1 \in 1..Len(w)
      BY <2>3
    <3>4. NextLinks(t)[c] = t.hh[c].next
      BY <2>2, LinkValues
    <3> QED BY <2>3, <3>2, <3>3, <3>4
  <2>6. DOMAIN t.hh = A
    BY <2>2, TableFields
  <2> QED BY <2>2, <2>3, <2>4, <2>5, <2>6 DEF KeysTell
<1> QED BY <1>1, <1>2 DEF TableOf

\* HASH_FIND gives the element with the key, or NULL when there is none.
LEMMA HashFindIs ==
  ASSUME HashesAreNumbers, NEW t, NEW w, NEW A, TableOf(t, w, A), NEW k
  PROVE  \/ HashFind(t, k) = NULL /\ \A c \in A : t.hh[c].key # k
         \/ HashFind(t, k) \in A /\ t.hh[HashFind(t, k)].key = k
<1>1. CASE t = EmptyTable /\ A = {} /\ w = <<>>
  BY <1>1, EmptyTableIs DEF HashFind
<1>2. CASE \E K, m : IsTable(t, w, A, K, m)
  BY <1>2, FindIs
<1> QED BY <1>1, <1>2 DEF TableOf

\* A table is sound in the sense of the properties of UtHash.
LEMMA TableOfSound ==
  ASSUME HashesAreNumbers, NEW t, NEW w, NEW A, TableOf(t, w, A)
  PROVE  Fsck(t) /\ Findable(t)
<1>1. CASE t = EmptyTable
  BY <1>1, EmptyTableIs
<1>2. CASE \E K, m : IsTable(t, w, A, K, m)
  BY <1>2, FsckIs, FindableIs
<1> QED BY <1>1, <1>2 DEF TableOf

\* HASH_DELETE takes an element out of the order and leaves the rest.
LEMMA HashDeleteIs ==
  ASSUME NEW t, NEW w, NEW A, TableOf(t, w, A), NEW c \in A
  PROVE  LET u == HashDelete(t, c) IN
         /\ \E i \in 1..Len(w) : w[i] = c /\ TableOf(u, Removed(w, Len(w), i), A \ {c})
         /\ Remains(u, t, A, c)
<1>1. PICK K, m : IsTable(t, w, A, K, m)
  BY DEF TableOf
<1>2. /\ Len(w) = t.num_items /\ Enumerates(w, Len(w), A) /\ t \in Tables(A, K, m) /\ NULL \notin A
      /\ ListOf(w, Len(w), A, t.head, NextLinks(t), PrevLinks(t)) /\ Len(w) \in Nat
  <2>1. Len(w) = t.num_items /\ t.num_items \in Nat
    BY <1>1, OrderIs
  <2> QED BY <1>1, <2>1, CellsFinite DEF IsTable, Ordered, ListOf
<1>3. PICK i \in 1..Len(w) : w[i] = c
  BY <1>2 DEF Enumerates
<1>4. CASE t.hh[c].next = NULL /\ t.hh[c].prev = NULL
  <2>1. NextLinks(t)[w[i]] = NULL /\ PrevLinks(t)[w[i]] = NULL
    BY <1>2, <1>3, <1>4, LinkValues
  <2>2. i = Len(w) /\ i = 1
    BY <1>2, <2>1, Neighbours
  <2>3. A \ {c} = {}
    BY <1>2, <1>3, <2>2 DEF Enumerates
  <2>4. Removed(w, Len(w), i) = <<>>
    <3>1. Len(w) - 1 = 0
      BY <2>2
    <3>2. Removed(w, Len(w), i) = [j \in 1..0 |-> IF j < i THEN w[j] ELSE w[j + 1]]
      BY <3>1 DEF Removed
    <3>3. [j \in 1..0 |-> IF j < i THEN w[j] ELSE w[j + 1]] = <<>>
      OBVIOUS
    <3> QED BY <3>2, <3>3
  <2>5. HashDelete(t, c) = EmptyTable
    BY <1>4 DEF HashDelete
  <2>6. Remains(EmptyTable, t, A, c)
    BY <1>4, <2>3, EmptyTableIs DEF Remains
  <2> QED BY <1>3, <2>3, <2>4, <2>5, <2>6 DEF TableOf
<1>5. CASE ~(t.hh[c].next = NULL /\ t.hh[c].prev = NULL)
  <2> DEFINE u == HashDelete(t, c)
             v == Removed(w, t.num_items, i)
  <2>1. OneOfMany(t, w, i, c)
    BY <1>2, <1>3, <1>5 DEF OneOfMany
  <2>2. IsTable(u, v, A \ {c}, K, m) /\ Remains(u, t, A, c)
    BY <1>1, <2>1, DeleteOthersStay
  <2> HIDE DEF u, v
  <2>3. TableOf(u, v, A \ {c})
    BY <2>2 DEF TableOf
  <2>4. v = Removed(w, Len(w), i)
    BY <1>2 DEF v
  <2> QED BY <1>3, <2>2, <2>3, <2>4 DEF u
<1> QED BY <1>4, <1>5
===============================================================================
