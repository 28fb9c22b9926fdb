--------------------------- MODULE MCRecordStore ---------------------------
(***************************************************************************)
(* Instances of RecordStore for TLC: a name with an A and a TXT record of  *)
(* its own and a wildcard A record that also covers it.  The files: one    *)
(* with two values for a key; one that repeats a key, has a malformed      *)
(* entry and stops at a CNAME conflict; one that cannot be read.           *)
(***************************************************************************)
EXTENDS RecordStore, TLC

CONSTANTS baseA, wildA, baseTXT, baseCNAME,  \* keys
          v1, v2,                            \* values
          c1, c2, c3, c4,                    \* cells
          qA, qTXT,                          \* queries
          f1, f2, f3                         \* files

\* The wildcard is tried, or the labels it is made of have been lost.
MCLookups == qA :> {<<baseA, wildA>>, <<baseA>>} @@ qTXT :> {<<baseTXT>>}

MCFileAdds ==
  f1 :> << [key |-> baseA, values |-> <<v1, v2>>] >>
  @@ f2 :> << [key |-> wildA, values |-> <<v1>>],
              [key |-> baseTXT, values |-> <<>>],
              [key |-> wildA, values |-> <<v2>>] >>
  @@ f3 :> << >>

\* A smaller instance for liveness: no wildcard, one value.
MCLiveLookups == qA :> {<<baseA>>} @@ qTXT :> {<<baseTXT>>}

MCLiveAdds ==
  f1 :> << [key |-> baseA, values |-> <<v1>>], [key |-> baseTXT, values |-> <<v1>>] >>
  @@ f2 :> << [key |-> baseA, values |-> <<>>] >>
  @@ f3 :> << >>

MCFileOutcome == f1 :> "loaded" @@ f2 :> "conflict" @@ f3 :> "unreadable"

\* A name with both a CNAME and an A record, refused after both were added.
MCConflictLookups == qA :> {<<baseA>>}

MCConflictAdds ==
  f1 :> << [key |-> baseA, values |-> <<v1>>] >>
  @@ f2 :> << [key |-> baseCNAME, values |-> <<v2>>], [key |-> baseA, values |-> <<v1>>] >>

MCConflictOutcome == f1 :> "loaded" @@ f2 :> "conflict"

\* What loadDNSMappings calls a configuration error never governs an answer:
\* while queries are served, no name has a CNAME besides another record.
CnameExclusive ==
  pc["main"] = "copy" => published[baseCNAME] = <<>> \/ published[baseA] = <<>>

CellSymmetry == Permutations(Cells)
=============================================================================
