--------------------------- MODULE MCDnsMessage ---------------------------
(***************************************************************************)
(* Queries at the limits of the parser and of the response buffer.         *)
(***************************************************************************)
EXTENDS DnsMessage, SequencesExt

MCTypes == {"A", "AAAA", "CNAME", "MX", "TXT"}

\* Short names, a compression pointer (192), and names around the 254 bytes a
\* legal name may have and the 255 the code has room for, and one that fills
\* the datagram.
Names ==
  SeqOf({1, 9, 192}, 2)
    \cup {<<63, 63, 63, n>> : n \in 60 .. 63}
    \cup {<<63, 63, 63, n, 1>> : n \in 59 .. 62}
    \cup {<<63, 63, 63, 63, 63, 63, 63, 40>>}

QuestionEnd(labels) ==
  Terminator([labels |-> labels, type |-> "A", size |-> 0]) + 5

\* Cut inside the name, cut by a byte, exact, with an additional record.
Sizes(labels) ==
  {17, QuestionEnd(labels) - 6, QuestionEnd(labels) - 1, QuestionEnd(labels),
   QuestionEnd(labels) + 11} \cap 0 .. BufferSize

MCPackets ==
  UNION {[labels : {labels}, type : MCTypes, size : Sizes(labels)] : labels \in Names}

Good(labels) == [ok |-> TRUE, labels |-> labels]
Bad == [ok |-> FALSE, labels |-> <<1>>]

\* Three bytes; two of these and a question of 19 bytes leave 15 of 512, and
\* with one of 27 bytes they leave 7; the longest; with a trailing dot.
NameValues ==
  {Good(<<1>>), Good(<<63, 63, 63, 33>>), Good(<<63, 63, 63, 62>>), Good(<<1, 0>>)}

\* n addresses, one of them malformed if m <= n.
Addresses(n, m) == [k \in 1 .. n |-> IF k = m THEN Bad ELSE Good(<<1>>)]

MCRecords ==
  [t \in MCTypes |->
     IF t \in {"CNAME", "MX"} THEN SeqOf(NameValues, 3) \ {<<>>}
     ELSE {Addresses(n, m) : n \in {2, 17, 32}, m \in {2, 33}}]

=============================================================================
