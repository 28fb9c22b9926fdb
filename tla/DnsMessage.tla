---------------------------- MODULE DnsMessage ----------------------------
(***************************************************************************)
(* One query from datagram to response: parseDNSQuery and                  *)
(* domainToDNSFormat (src/src/dns_parser.c) and the buffers of             *)
(* process_dns_query (src/src/main.c).                                     *)
(*                                                                         *)
(* What is followed are positions and lengths, in bytes.  A name is the    *)
(* lengths of its labels.  A packet is a name, a type, and the number of   *)
(* bytes received, which may cut it short or go on behind it.  A value of  *)
(* a record says whether its text is well formed (an address, or a         *)
(* preference and a name), and its name if its type has one.               *)
(***************************************************************************)
EXTENDS Integers, Sequences

CONSTANTS
  Packets,   \* datagrams that may arrive
  Types,     \* query types
  Records,   \* Records[t]: the records a query of type t may find
  NULL

HeaderSize == 12        \* sizeof(DNSHeader)
BufferSize == 512       \* DEFAULT_BUFFER_SIZE
DomainSizeOfPacket == 512    \* Mutant: domain is as long as a datagram.
DomainSize == 256       \* sizeof(domain), sizeof(dns_format)
MaxLabel == 63
AnswerHead == 10        \* name pointer, type, class, ttl

Malformed == -1

Packet == [labels : Seq(1 .. 255), type : Types, size : 0 .. BufferSize]
\* A text has at least one label: of "", and behind a final dot, one of no bytes.
Value == [ok : BOOLEAN, labels : Seq(Nat) \ {<<>>}]

ASSUME MessageAssumption ==
  /\ Packets \subseteq Packet
  /\ Records \in [Types -> SUBSET (Seq(Value) \ {<<>>})]
  /\ NULL \notin Packet

VARIABLES
  packet,        \* the datagram, or NULL
  phase,         \* "idle", "parse", "header", "resolve", "answer", "send"
  i,             \* parseDNSQuery: position in the datagram
  j,             \* parseDNSQuery: position in domain
  label,         \* the label at i
  type,          \* queryType
  query_len,     \* bytes of the question
  response_len,  \* bytes of the response
  values,        \* the values of the record found
  next,          \* the value to be encoded
  ancount,       \* resHeader.ancount
  rcode,         \* resHeader.rcode
  answers,       \* history: complete answers in the response
  partial        \* history: answers begun and not completed

parseVars == <<packet, i, j, label, type, query_len>>
replyVars == <<response_len, values, next, ancount, rcode, answers, partial>>
vars == <<phase, parseVars, replyVars>>

Init ==
  /\ packet = NULL /\ phase = "idle"
  /\ i = HeaderSize /\ j = 0 /\ label = 1
  /\ type \in Types    \* not initialized
  /\ query_len = 0
  /\ response_len = 0 /\ values = <<>> /\ next = 1
  /\ ancount = 0 /\ rcode = "NOERROR" /\ answers = 0 /\ partial = 0

\* process_dns_query returns, and with it its locals are gone.
Return ==
  /\ packet' = NULL /\ phase' = "idle"
  /\ i' = HeaderSize /\ j' = 0 /\ label' = 1
  /\ type' = type /\ query_len' = 0
  /\ response_len' = 0 /\ values' = <<>> /\ next' = 1
  /\ ancount' = 0 /\ rcode' = "NOERROR" /\ answers' = 0 /\ partial' = 0

-----------------------------------------------------------------------------
(***************************************************************************)
(* recvfrom and parseDNSQuery.                                             *)
(***************************************************************************)
Least(a, b) == IF a <= b THEN a ELSE b

\* A datagram shorter than a header and the shortest question is dropped.
Receive(p) ==
  /\ phase = "idle"
  /\ p.size >= HeaderSize + 5
  /\ packet' = p
  /\ phase' = "parse"
  /\ UNCHANGED <<i, j, label, type, query_len, replyVars>>

\* buffer[i] is the length of a label: inside the datagram, not the final 0,
\* and there is room in domain.
AtLabel == i < packet.size /\ label <= Len(packet.labels) /\ j < DomainSize - 1

\* Mutant: room for one byte too few is left in domain.
ParseLabelShort ==
  /\ phase = "parse" /\ AtLabel
  /\ LET len == packet.labels[label]
         copied == Least(len, DomainSize - 3 - j)
     IN IF len > MaxLabel \/ i + 1 + len > packet.size THEN Return
        ELSE /\ i' = i + 1 + copied
             /\ j' = j + copied + 1
             /\ label' = label + 1
             /\ UNCHANGED <<phase, packet, type, query_len, replyVars>>

\* One turn of the outer loop: as much of the label as fits, and a dot.
ParseLabel ==
  /\ phase = "parse" /\ AtLabel
  /\ LET len == packet.labels[label]
         copied == Least(len, DomainSize - 2 - j)
     IN IF len > MaxLabel \/ i + 1 + len > packet.size THEN Return
        ELSE /\ i' = i + 1 + copied
             /\ j' = j + copied + 1
             /\ label' = label + 1
             /\ UNCHANGED <<phase, packet, type, query_len, replyVars>>

\* The position of the 0 that ends the name of a packet.
Terminator(p) ==
  LET after[n \in 0 .. Len(p.labels)] ==
        IF n = 0 THEN HeaderSize ELSE after[n - 1] + 1 + p.labels[n]
  IN after[Len(p.labels)]

\* Mutant: an empty name is let through.
ParseQuestionEmpty ==
  /\ phase = "parse" /\ ~ AtLabel
  /\ IF i + 5 > packet.size THEN Return
     ELSE /\ phase' = "header"
          /\ j' = j - 1
          /\ i' = i + 5
          /\ query_len' = i + 5 - HeaderSize
          /\ type' \in IF i = Terminator(packet) THEN {packet.type} ELSE Types
          /\ UNCHANGED <<packet, label, replyVars>>

\* Behind the loop: an empty name is refused, the byte at i is taken for the
\* end of the name, type and class follow it.  Inside a name that did not fit
\* they can be anything.
ParseQuestion ==
  /\ phase = "parse" /\ ~ AtLabel
  /\ IF j = 0 \/ i + 5 > packet.size THEN Return
     ELSE /\ phase' = "header"
          /\ j' = j - 1
          /\ i' = i + 5
          /\ query_len' = i + 5 - HeaderSize
          /\ type' \in IF i = Terminator(packet) THEN {packet.type} ELSE Types
          /\ UNCHANGED <<packet, label, replyVars>>

-----------------------------------------------------------------------------
(***************************************************************************)
(* process_dns_query.                                                      *)
(***************************************************************************)

\* Header and question are copied, if they fit.
CopyQuestion ==
  /\ phase = "header"
  /\ IF HeaderSize + query_len > BufferSize THEN Return
     ELSE /\ phase' = "resolve"
          /\ response_len' = HeaderSize + query_len
          /\ UNCHANGED <<parseVars, values, next, ancount, rcode, answers, partial>>

\* No record, or one; ancount is that of its values.
Resolve ==
  /\ phase = "resolve"
  /\ \/ /\ phase' = "send"
        /\ rcode' = "NXDOMAIN"
        /\ UNCHANGED <<values, ancount>>
     \/ \E r \in Records[type] :
          /\ phase' = "answer"
          /\ values' = r /\ ancount' = Len(r)
          /\ UNCHANGED rcode
  /\ UNCHANGED <<parseVars, response_len, next, answers, partial>>

\* The loop of domainToDNSFormat: the bytes the labels take, or Malformed.
LabelsLength(labels) ==
  LET offset[n \in 0 .. Len(labels)] ==
        IF n = 0 THEN 0
        ELSE IF \/ offset[n - 1] = Malformed
                \/ labels[n] \notin 1 .. MaxLabel
                \/ offset[n - 1] + 1 + labels[n] >= DomainSize
             THEN Malformed
             ELSE offset[n - 1] + 1 + labels[n]
  IN offset[Len(labels)]

\* The bytes of the encoded name, or Malformed: the labels and a 0, if it fits.
domainToDNSFormat(labels) ==
  IF LabelsLength(labels) \in 0 .. DomainSize - 1
  THEN LabelsLength(labels) + 1 ELSE Malformed

\* The types the answer loop has an encoding for.
NameTypes == {"CNAME", "NS", "MX"}
Supported == {"A", "AAAA"} \cup NameTypes

\* The bytes of a value's data, or Malformed.
DataLength(t, v) ==
  LET name == domainToDNSFormat(v.labels)
  IN IF ~ v.ok \/ (t \in NameTypes /\ name = Malformed) THEN Malformed
     ELSE CASE t = "A" -> 4
            [] t = "AAAA" -> 16
            [] t = "MX" -> 2 + name
            [] OTHER -> name

\* Mutant: the first ten bytes of an answer are written unchecked.
HeadFitsAlways == TRUE

\* The check before an answer is begun.
HeadFits == response_len + 16 <= BufferSize

\* Mutant: rdlength is counted twice.
DataFitsTwice(len) == response_len + AnswerHead + 4 + len <= BufferSize

\* The check before its rdlength and data, which are len bytes, are written.
DataFits(len) == response_len + AnswerHead + 2 + len <= BufferSize

\* Mutant: a value skipped is counted as complete.
EncodeAnswerCounting ==
  /\ phase = "answer" /\ next <= Len(values) /\ HeadFits /\ type \in Supported
  /\ LET len == DataLength(type, values[next])
     IN /\ len = Malformed \/ DataFits(len)
        /\ response_len' = response_len + AnswerHead + IF len = Malformed THEN 0 ELSE 2 + len
        /\ answers' = answers + 1
        /\ UNCHANGED partial
  /\ next' = next + 1
  /\ UNCHANGED <<phase, parseVars, values, ancount, rcode>>

\* One turn of the loop that goes on to the next value: the value is encoded,
\* or it is malformed and skipped, the head of its answer staying behind.
EncodeAnswer ==
  /\ phase = "answer" /\ next <= Len(values) /\ HeadFits /\ type \in Supported
  /\ LET len == DataLength(type, values[next])
     IN IF len = Malformed
        THEN /\ response_len' = response_len + AnswerHead
             /\ partial' = partial + 1
             /\ UNCHANGED answers
        ELSE /\ DataFits(len)
             /\ response_len' = response_len + AnswerHead + 2 + len
             /\ answers' = answers + 1
             /\ UNCHANGED partial
  /\ next' = next + 1
  /\ UNCHANGED <<phase, parseVars, values, ancount, rcode>>

\* break: no room for another answer, or for the data of the one begun.
BreakOff ==
  /\ phase = "answer" /\ next <= Len(values)
  /\ \/ /\ ~ HeadFits
        /\ UNCHANGED <<response_len, partial>>
     \/ /\ HeadFits /\ type \in Supported
        /\ DataLength(type, values[next]) # Malformed
        /\ ~ DataFits(DataLength(type, values[next]))
        /\ response_len' = response_len + AnswerHead
        /\ partial' = partial + 1
  /\ phase' = "send"
  /\ UNCHANGED <<parseVars, values, next, ancount, rcode, answers>>

\* A type without encoding: NOTIMP, with the head of an answer left behind.
NotImplemented ==
  /\ phase = "answer" /\ next <= Len(values) /\ HeadFits /\ type \notin Supported
  /\ phase' = "send"
  /\ response_len' = response_len + AnswerHead
  /\ partial' = partial + 1
  /\ rcode' = "NOTIMP" /\ ancount' = 0
  /\ UNCHANGED <<parseVars, values, next, answers>>

FinishAnswers ==
  /\ phase = "answer" /\ next > Len(values)
  /\ phase' = "send"
  /\ UNCHANGED <<parseVars, replyVars>>

Send == phase = "send" /\ Return

Next ==
  \/ \E p \in Packets : Receive(p)
  \/ ParseLabel \/ ParseQuestion \/ CopyQuestion \/ Resolve
  \/ EncodeAnswer \/ BreakOff \/ NotImplemented \/ FinishAnswers \/ Send

Spec == Init /\ [][Next]_vars

-----------------------------------------------------------------------------
(***************************************************************************)
(* Properties.                                                             *)
(***************************************************************************)

\* Every variable has its type; no position or length is negative.
TypeOK ==
  /\ packet \in Packets \cup {NULL}
  /\ phase \in {"idle", "parse", "header", "resolve", "answer", "send"}
  /\ i \in Nat /\ j \in Nat /\ label \in Nat /\ query_len \in Nat
  /\ type \in Types
  /\ response_len \in Nat
  /\ values \in Seq(Value) /\ next \in Nat
  /\ ancount \in Nat /\ rcode \in {"NOERROR", "NXDOMAIN", "NOTIMP"}
  /\ answers \in Nat /\ partial \in Nat

\* What is read lies in the bytes received, and what is written in the buffer
\* it is written to: the parser stays inside the datagram and domain[256],
\* the answer loop inside response[512], whatever mix of values it skips or
\* breaks off at.
InBounds ==
  /\ packet # NULL => i <= packet.size
  /\ j < DomainSize
  /\ response_len <= BufferSize

\* The answer loop never breaks off before its first answer: the parser reads
\* at most 260 bytes as question, although the check is made against 512.  So
\* a query that finds an unsupported type always gets NOTIMP.
FirstAnswerHasRoom ==
  phase = "answer" /\ next = 1 => response_len + 16 <= BufferSize

\* A datagram with a whole question in it.
Whole(p) == p.labels # <<>> /\ Terminator(p) + 5 <= p.size

\* Every name the encoder can write the parser reads, completely: a question
\* with such a name is not dropped, its length, its text and its type are the
\* ones sent.  The two functions have different limits in different units.
ReadsWhatItWrites ==
  [][LET name == domainToDNSFormat(packet.labels)
     IN phase = "parse" /\ phase' # "parse" /\ Whole(packet) /\ name # Malformed
        => /\ phase' = "header"
           /\ query_len' = name + 4
           /\ j' = name - 2
           /\ type' = packet.type]_vars

\* The length of a response with the answers of the first n values, and no
\* more, the malformed ones left out.
LengthWith(n) ==
  LET after[m \in 0 .. n] ==
        IF m = 0 THEN HeaderSize + query_len
        ELSE after[m - 1] + IF DataLength(type, values[m]) = Malformed THEN 0
                            ELSE AnswerHead + 2 + DataLength(type, values[m])
  IN after[n]

AllEncodable == \A n \in DOMAIN values : DataLength(type, values[n]) # Malformed

\* A record whose values can all be encoded and whose answers leave a byte
\* free goes out whole: ancount counts complete answers, with nothing between
\* them.  (At exactly 512 bytes an answer of 15 is refused: the check before
\* it asks for 16.)
WholeIfItFits ==
  /\ phase = "send" /\ rcode = "NOERROR"
  /\ AllEncodable /\ LengthWith(Len(values)) < BufferSize
  => answers = ancount /\ response_len = LengthWith(ancount)

\* Otherwise ancount, set before the loop, is too high, and a client that
\* walks that many answers leaves the message: the count is right exactly if
\* no value was skipped and the loop ran to its end.  Every byte sent is part
\* of a complete answer, or of one of the heads left behind.
CountRightIffComplete ==
  phase = "send" /\ rcode = "NOERROR"
  => /\ answers = ancount <=> AllEncodable /\ next > Len(values)
     /\ response_len = LengthWith(next - 1) + AnswerHead * partial

=============================================================================
