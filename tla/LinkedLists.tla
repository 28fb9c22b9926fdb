---------------------------- MODULE LinkedLists ----------------------------
(***************************************************************************)
(* Lists of cells linked by a pointer, as cJSON and uthash build them.     *)
(***************************************************************************)
EXTENDS Integers, Sequences, FiniteSets

CONSTANT NULL

\* The cells met from first on along the links next, up to what is no cell,
\* or one more than there are cells if the links go round in a circle.
Walk(first, next) ==
  LET most == Cardinality(DOMAIN next)
      from[n \in 0..most] ==
        [c \in DOMAIN next |->
           <<c>> \o (IF n = 0 \/ next[c] \notin DOMAIN next THEN <<>> ELSE from[n - 1][next[c]])]
  IN  IF first \in DOMAIN next THEN from[most][first] ELSE <<>>

\* Do the links prev lead back over the list w, starting from before?
LinkedBack(w, prev, before) ==
  \A i \in 1..Len(w) : prev[w[i]] = IF i = 1 THEN before ELSE w[i - 1]
============================================================================
