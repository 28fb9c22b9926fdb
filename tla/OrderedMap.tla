----------------------------- MODULE OrderedMap -----------------------------
(***************************************************************************)
(* What the table of records promises, without cells, links or buckets: a  *)
(* list of entries with distinct keys, in the order in which they were     *)
(* last put, which is the order LIST shows them in.                        *)
(***************************************************************************)
EXTENDS Naturals, Sequences

VARIABLE entries  \* sequence of [key, value]

Without(k) ==
  IF \E i \in 1..Len(entries) : entries[i].key = k
  THEN LET i == CHOOSE i \in 1..Len(entries) : entries[i].key = k IN
       SubSeq(entries, 1, i - 1) \o SubSeq(entries, i + 1, Len(entries))
  ELSE entries

Init == entries = <<>>

\* A new value goes to the end, whether or not the key was there.
Put(e) == entries' = Append(Without(e.key), e)

Remove(k) == entries' = Without(k)

Next ==
  \/ entries' # <<>> /\ Put(entries'[Len(entries')])
  \/ \E i \in 1..Len(entries) : Remove(entries[i].key)

Spec == Init /\ [][Next]_entries
============================================================================
