------------------------- MODULE DnsMessageProofs -------------------------
(***************************************************************************)
(* For every set of packets, types and records: positions and lengths stay *)
(* in their buffers, the count of the answers is what the loop makes it,   *)
(* and every name that can be encoded is read.                             *)
(***************************************************************************)
EXTENDS DnsMessage, SequenceTheorems, NatRecursion, TLAPS

\* The parser writes a byte of domain for every byte of the name it reads.
Parsing ==
  /\ label >= 1
  /\ phase = "idle" => packet = NULL /\ i = HeaderSize /\ j = 0 /\ label = 1 /\ response_len = 0
                       /\ answers = 0 /\ partial = 0 /\ next = 1 /\ values = <<>>
  /\ phase # "idle" => packet # NULL
  /\ phase = "parse" => i = HeaderSize + j 
  /\ phase # "idle" => packet.size <= BufferSize

\* The question that was read is short.
Question ==
  /\ query_len <= DomainSize + 4
  /\ phase \in {"parse", "header"} => response_len = 0 /\ next = 1
  /\ phase = "resolve" => response_len = HeaderSize + query_len /\ next = 1
  /\ phase = "answer" => next >= 1 /\ (next = 1 => response_len = HeaderSize + query_len)

IInv == TypeOK /\ InBounds /\ Parsing /\ Question

LEMMA PacketType ==
  ASSUME NEW p \in Packets
  PROVE  /\ p \in Packet
         /\ p # NULL
         /\ p.type \in Types
         /\ p.size \in 0 .. BufferSize
         /\ \A n \in 1 .. Len(p.labels) : p.labels[n] \in 1 .. 255
         /\ Len(p.labels) \in Nat
         /\ p.labels \in Seq(Nat)
         /\ p.size \in Nat
<1>1. p \in Packet /\ p # NULL
  BY MessageAssumption
<1>2. p.type \in Types /\ p.size \in 0 .. BufferSize /\ p.labels \in Seq(1 .. 255)
  BY <1>1 DEF Packet
<1>3. Len(p.labels) \in Nat /\ \A n \in 1 .. Len(p.labels) : p.labels[n] \in 1 .. 255
  BY <1>2, LenProperties, ElementOfSeq
<1>4. p.labels \in Seq(Nat)
  <2>1. 1 .. 255 \subseteq Nat
    OBVIOUS
  <2> QED BY <1>2, <2>1, SeqMonotonic
<1>5. \A n \in 0 .. BufferSize : n \in Nat
  BY DEF BufferSize
<1> QED BY <1>1, <1>2, <1>3, <1>4, <1>5

LEMMA LabelBytes == \A n \in 1 .. MaxLabel : n \in Nat /\ n >= 1 /\ n <= MaxLabel
BY DEF MaxLabel

\* An encoded name is never longer than the buffer it is encoded into.
LEMMA NameLength ==
  ASSUME NEW labels
  PROVE  domainToDNSFormat(labels) \in 1 .. DomainSize \cup {Malformed}
<1> QED BY DEF domainToDNSFormat, DomainSize, Malformed

LEMMA DataLengthType ==
  ASSUME NEW t, NEW v
  PROVE  DataLength(t, v) \in Nat \cup {Malformed}
<1> DEFINE name == domainToDNSFormat(v.labels)
<1>1. name \in 1 .. DomainSize \cup {Malformed}
  BY NameLength
<1>2. name \in Nat \cup {Malformed} /\ (name # Malformed => 2 + name \in Nat)
  BY <1>1 DEF DomainSize
<1>3. CASE ~ v.ok \/ (t \in NameTypes /\ name = Malformed)
  BY <1>3 DEF DataLength
<1>4. CASE ~ (~ v.ok \/ (t \in NameTypes /\ name = Malformed))
  <2> HIDE DEF name
  <2>1. DataLength(t, v) = CASE t = "A" -> 4 [] t = "AAAA" -> 16 [] t = "MX" -> 2 + name [] OTHER -> name
    BY <1>4 DEF DataLength, name
  <2>2. t = "MX" => name # Malformed
    BY <1>4 DEF NameTypes
  <2> QED BY <2>1, <2>2, <1>2
<1> QED BY <1>3, <1>4

LEMMA RecordsType ==
  ASSUME NEW t \in Types, NEW r \in Records[t]
  PROVE  r \in Seq(Value) /\ Len(r) \in Nat /\ r # <<>>
<1>1. r \in Seq(Value) \ {<<>>}
  BY MessageAssumption
<1> QED BY <1>1, LenProperties

LEMMA InitInvariant == Init => IInv
<1> SUFFICES ASSUME Init PROVE IInv
  OBVIOUS
<1>1. values \in Seq(Value)
  BY EmptySeq DEF Init
<1> QED BY <1>1 DEF Init, IInv, TypeOK, InBounds, Parsing, Question, HeaderSize, DomainSize, BufferSize

LEMMA ReturnInvariant == IInv /\ Return => IInv'
<1> SUFFICES ASSUME IInv, Return PROVE IInv'
  OBVIOUS
<1>1. values' \in Seq(Value)
  BY EmptySeq DEF Return
<1> QED BY <1>1 DEF Return, IInv, TypeOK, InBounds, Parsing, Question, HeaderSize, DomainSize, BufferSize

LEMMA ReceiveInvariant ==
  ASSUME NEW p \in Packets, IInv, Receive(p)
  PROVE  IInv'
<1>1. p \in Packet /\ p # NULL /\ p.size \in 0 .. BufferSize
  BY PacketType
<1>2. p.size >= HeaderSize + 5 /\ packet' = p /\ phase' = "parse" /\ phase = "idle"
  BY DEF Receive
<1>3. i = HeaderSize /\ j = 0 /\ response_len = 0 /\ next = 1
  BY <1>2 DEF IInv, Parsing
<1>4. UNCHANGED <<i, j, label, type, query_len>> /\ UNCHANGED replyVars
  BY DEF Receive
<1>5. /\ i' = i /\ j' = j /\ label' = label /\ type' = type /\ query_len' = query_len
      /\ response_len' = response_len /\ values' = values /\ next' = next
      /\ ancount' = ancount /\ rcode' = rcode /\ answers' = answers /\ partial' = partial
  BY <1>4 DEF replyVars
<1>6. TypeOK'
  BY <1>2, <1>5 DEF IInv, TypeOK
<1>7. InBounds'
  BY <1>1, <1>2, <1>3, <1>5 DEF InBounds, HeaderSize, DomainSize, BufferSize
<1>8. Parsing'
  BY <1>1, <1>2, <1>3, <1>5 DEF IInv, Parsing, HeaderSize
<1>9. Question'
  BY <1>2, <1>3, <1>5 DEF IInv, Question
<1> QED BY <1>6, <1>7, <1>8, <1>9 DEF IInv

LEMMA ParseLabelInvariant == IInv /\ ParseLabel => IInv'
<1> SUFFICES ASSUME IInv, ParseLabel PROVE IInv'
  OBVIOUS
<1> DEFINE len == packet.labels[label]
           copied == Least(len, DomainSize - 2 - j)
<1>1. packet \in Packets
  BY DEF IInv, TypeOK, Parsing, ParseLabel
<1>2. CASE Return
  BY <1>2, ReturnInvariant
<1>3. CASE /\ ~ (len > MaxLabel \/ i + 1 + len > packet.size)
           /\ i' = i + 1 + copied
           /\ j' = j + copied + 1
           /\ label' = label + 1
           /\ UNCHANGED <<phase, packet, type, query_len, replyVars>>
  <2>1. len \in 1 .. 255 /\ packet.size \in 0 .. BufferSize
    BY <1>1, PacketType DEF IInv, TypeOK, Parsing, ParseLabel, AtLabel
  <2> HIDE DEF len
  <2>2. ~ (i + 1 + len > packet.size) /\ packet' = packet
    BY <1>3
  <2>3. i \in Nat /\ j \in Nat /\ j < DomainSize - 1
    BY DEF ParseLabel, AtLabel, IInv, TypeOK
  <2>4. copied \in Nat /\ copied <= len /\ copied <= DomainSize - 2 - j
    BY <2>1, <2>3 DEF Least, DomainSize
  <2> HIDE DEF copied
  <2>5. i' \in Nat /\ i' <= packet'.size /\ j' \in Nat /\ j' < DomainSize
    BY <1>3, <2>1, <2>2, <2>3, <2>4 DEF DomainSize, BufferSize
  <2>6. phase = "parse" /\ i' = HeaderSize + j' /\ label' \in Nat
    BY <1>3, <2>3, <2>4 DEF ParseLabel, IInv, TypeOK, Parsing, HeaderSize
  <2> QED
    BY <1>3, <2>5, <2>6 DEF IInv, TypeOK, InBounds, Parsing, Question, replyVars
<1> QED BY <1>2, <1>3 DEF ParseLabel

LEMMA ParseQuestionInvariant == IInv /\ ParseQuestion => IInv'
<1> SUFFICES ASSUME IInv, ParseQuestion PROVE IInv'
  OBVIOUS
<1>1. packet \in Packets
  BY DEF IInv, TypeOK, Parsing, ParseQuestion
<1>2. CASE Return
  BY <1>2, ReturnInvariant
<1>3. CASE /\ ~ (j = 0 \/ i + 5 > packet.size)
           /\ phase' = "header"
           /\ j' = j - 1
           /\ i' = i + 5
           /\ query_len' = i + 5 - HeaderSize
           /\ type' \in IF i = Terminator(packet) THEN {packet.type} ELSE Types
           /\ UNCHANGED <<packet, label, replyVars>>
  <2>1. packet.size \in 0 .. BufferSize /\ packet.type \in Types
    BY <1>1, PacketType
  <2>2. type' \in Types
    BY <1>3, <2>1
  <2>3. i \in Nat /\ j \in Nat /\ i = HeaderSize + j /\ j < DomainSize
    BY DEF ParseQuestion, IInv, TypeOK, InBounds, Parsing
  <2>4. i' \in Nat /\ i' <= packet'.size /\ j' \in Nat /\ j' < DomainSize
    BY <1>3, <2>1, <2>3 DEF HeaderSize, DomainSize, BufferSize
  <2>5. query_len' \in Nat /\ query_len' <= DomainSize + 4
    BY <1>3, <2>3 DEF HeaderSize, DomainSize
  <2> QED
    BY <1>3, <2>2, <2>4, <2>5 DEF ParseQuestion, IInv, TypeOK, InBounds, Parsing, Question, replyVars
<1> QED BY <1>2, <1>3 DEF ParseQuestion

LEMMA CopyQuestionInvariant == IInv /\ CopyQuestion => IInv'
<1> SUFFICES ASSUME IInv, CopyQuestion PROVE IInv'
  OBVIOUS
<1>1. CASE Return
  BY <1>1, ReturnInvariant
<1>2. CASE ~ Return
  BY <1>2, SMTT(30) DEF CopyQuestion, parseVars, IInv, TypeOK, InBounds, Parsing, Question,
     HeaderSize, DomainSize, BufferSize
<1> QED BY <1>1, <1>2

LEMMA ResolveInvariant == IInv /\ Resolve => IInv'
<1> SUFFICES ASSUME IInv, Resolve PROVE IInv'
  OBVIOUS
<1>1. type \in Types
  BY DEF IInv, TypeOK
<1>2. values' \in Seq(Value) /\ ancount' \in Nat
  BY <1>1, RecordsType DEF Resolve, IInv, TypeOK
<1>3. rcode' \in {"NOERROR", "NXDOMAIN", "NOTIMP"} /\ phase' \in {"send", "answer"}
  BY DEF Resolve, IInv, TypeOK
<1> QED
  BY <1>2, <1>3 DEF Resolve, parseVars, IInv, TypeOK, InBounds, Parsing, Question

LEMMA AnswerInvariant ==
  ASSUME IInv, EncodeAnswer \/ BreakOff \/ NotImplemented
  PROVE  IInv'
<1>1. phase = "answer" /\ next \in Nat /\ next >= 1 /\ response_len \in Nat
      /\ answers \in Nat /\ partial \in Nat
  BY DEF EncodeAnswer, BreakOff, NotImplemented, IInv, TypeOK, Question
<1>2. UNCHANGED <<parseVars, values>>
  BY DEF EncodeAnswer, BreakOff, NotImplemented
<1>3. response_len' \in Nat /\ response_len' <= BufferSize
      /\ answers' \in Nat /\ partial' \in Nat
  <2>1. CASE EncodeAnswer
    <3> DEFINE len == DataLength(type, values[next])
    <3>1. len \in Nat \cup {Malformed}
      BY <2>1, DataLengthType DEF EncodeAnswer
    <3>2. IF len = Malformed
          THEN /\ response_len' = response_len + AnswerHead
               /\ partial' = partial + 1
               /\ UNCHANGED answers
          ELSE /\ DataFits(len)
               /\ response_len' = response_len + AnswerHead + 2 + len
               /\ answers' = answers + 1
               /\ UNCHANGED partial
      BY <2>1 DEF EncodeAnswer
    <3>3. HeadFits
      BY <2>1 DEF EncodeAnswer
    <3> HIDE DEF len
    <3> QED BY <1>1, <3>1, <3>2, <3>3 DEF HeadFits, DataFits, AnswerHead, BufferSize, Malformed
  <2>2. CASE BreakOff
    BY <1>1, <2>2 DEF BreakOff, HeadFits, AnswerHead, BufferSize, IInv, InBounds
  <2>3. CASE NotImplemented
    BY <1>1, <2>3 DEF NotImplemented, HeadFits, AnswerHead, BufferSize
  <2> QED BY <2>1, <2>2, <2>3
<1>4. phase' \in {"answer", "send"} /\ next' \in Nat /\ ancount' \in Nat
      /\ rcode' \in {"NOERROR", "NXDOMAIN", "NOTIMP"}
      /\ (phase' = "answer" => next' > 1)
  BY <1>1 DEF EncodeAnswer, BreakOff, NotImplemented, IInv, TypeOK
<1> QED
  BY <1>1, <1>2, <1>3, <1>4 DEF parseVars, IInv, TypeOK, InBounds, Parsing, Question

LEMMA StepInvariant == IInv /\ [Next]_vars => IInv'
<1> SUFFICES ASSUME IInv, [Next]_vars PROVE IInv'
  OBVIOUS
<1>1. CASE \E p \in Packets : Receive(p)
  BY <1>1, ReceiveInvariant
<1>2. CASE ParseLabel
  BY <1>2, ParseLabelInvariant
<1>3. CASE ParseQuestion
  BY <1>3, ParseQuestionInvariant
<1>4. CASE CopyQuestion
  BY <1>4, CopyQuestionInvariant
<1>5. CASE Resolve
  BY <1>5, ResolveInvariant
<1>6. CASE EncodeAnswer \/ BreakOff \/ NotImplemented
  BY <1>6, AnswerInvariant
<1>7. CASE FinishAnswers
  BY <1>7 DEF FinishAnswers, parseVars, replyVars, IInv, TypeOK, InBounds, Parsing, Question
<1>8. CASE Send
  BY <1>8, ReturnInvariant DEF Send
<1>9. CASE UNCHANGED vars
  BY <1>9 DEF vars, parseVars, replyVars, IInv, TypeOK, InBounds, Parsing, Question
<1> QED BY <1>1, <1>2, <1>3, <1>4, <1>5, <1>6, <1>7, <1>8, <1>9 DEF Next

\* Every variable keeps its type: no position and no length becomes negative.
THEOREM TypeCorrect == Spec => []TypeOK
<1>1. IInv => TypeOK
  BY DEF IInv
<1> QED BY <1>1, InitInvariant, StepInvariant, PTL DEF Spec

\* The parser reads only what was received and writes only into domain, the
\* answer loop writes only into response, for any datagrams and records.
THEOREM BuffersRespected == Spec => []InBounds
<1>1. IInv => InBounds
  BY DEF IInv
<1> QED BY <1>1, InitInvariant, StepInvariant, PTL DEF Spec

\* Whatever the question, the first answer can be begun.
THEOREM FirstAnswerFits == Spec => []FirstAnswerHasRoom
<1>1. IInv => FirstAnswerHasRoom
  BY DEF IInv, TypeOK, Question, FirstAnswerHasRoom, HeaderSize, DomainSize, BufferSize
<1> QED BY <1>1, InitInvariant, StepInvariant, PTL DEF Spec

-----------------------------------------------------------------------------
\* The bytes of the first labels of a name.
Bytes(f, labels) ==
  f[0] = 0 /\ \A n \in 1 .. Len(labels) : f[n] = f[n - 1] + 1 + labels[n]

\* Every name has such a count.
LEMMA BytesExist ==
  ASSUME NEW labels \in Seq(Nat)
  PROVE  \E f \in [0 .. Len(labels) -> Nat] : Bytes(f, labels)
<1>0. PICK L \in Nat : L = Len(labels)
  BY LenProperties
<1> DEFINE step == [p \in (1 .. L) \X Nat |-> p[2] + 1 + labels[p[1]]]
<1>1. \A n \in 1 .. L : labels[n] \in Nat
  BY <1>0, ElementOfSeq
<1>2. step \in [(1 .. L) \X Nat -> Nat]
  BY <1>1
<1>3. PICK f \in [0 .. L -> Nat] : Recursive(f, L, 0, step)
  <2> HIDE DEF step
  <2> QED BY <1>1, <1>2, RecursiveFunction
<1>4. \A k \in 1 .. L : <<k, f[k - 1]>> \in (1 .. L) \X Nat
  OBVIOUS
<1> QED BY <1>0, <1>3, <1>4 DEF Bytes, Recursive

\* The count never falls.
LEMMA BytesMonotone ==
  ASSUME NEW labels \in Seq(Nat), NEW f \in [0 .. Len(labels) -> Nat], Bytes(f, labels),
         NEW n \in 0 .. Len(labels)
  PROVE  f[n] <= f[Len(labels)]
<1>0. PICK L \in Nat : L = Len(labels)
  BY LenProperties
<1> DEFINE S == {k \in 0 .. L : \A m \in 0 .. k : f[m] <= f[k]}
<1>1. /\ \A m \in 1 .. L : labels[m] \in Nat /\ f[m] = f[m - 1] + 1 + labels[m]
      /\ f \in [0 .. L -> Nat] /\ n \in 0 .. L
  BY <1>0, ElementOfSeq DEF Bytes
<1>2. 0 \in S
  BY <1>1
<1>3. ASSUME NEW k \in 1 .. L, k - 1 \in S PROVE k \in S
  <2>1. f[k] = f[k - 1] + 1 + labels[k] /\ labels[k] \in Nat /\ f[k - 1] \in Nat
    BY <1>1, SMTT(30)
  <2>2. ASSUME NEW m \in 0 .. k PROVE f[m] <= f[k]
    <3>1. CASE m = k
      BY <1>1, <3>1
    <3>2. CASE m # k
      <4>1. m \in 0 .. k - 1 /\ f[m] \in Nat
        BY <1>1, <3>2, SMTT(30)
      <4>2. f[m] <= f[k - 1]
        BY <1>3, <4>1
      <4> QED BY <2>1, <4>1, <4>2
    <3> QED BY <3>1, <3>2
  <2> QED BY <2>2
<1> HIDE DEF S
<1>4. \A k \in 0 .. L : k \in S
  BY <1>2, <1>3, RangeInduction
<1> QED BY <1>0, <1>1, <1>4 DEF S

\* The 0 of a question stands behind the bytes of its labels.
LEMMA TerminatorIs ==
  ASSUME NEW p, p.labels \in Seq(Nat),
         NEW f \in [0 .. Len(p.labels) -> Nat], Bytes(f, p.labels)
  PROVE  Terminator(p) = HeaderSize + f[Len(p.labels)]
<1>0. PICK L \in Nat : L = Len(p.labels)
  BY LenProperties
<1> DEFINE F == [n \in 0 .. L |-> HeaderSize + f[n]]
           after == CHOOSE g : g = [n \in 0 .. L |-> IF n = 0 THEN HeaderSize
                                                     ELSE g[n - 1] + 1 + p.labels[n]]
<1>1. /\ \A n \in 1 .. L : p.labels[n] \in Nat /\ f[n] = f[n - 1] + 1 + p.labels[n]
      /\ f \in [0 .. L -> Nat] /\ f[0] = 0
  BY <1>0, ElementOfSeq DEF Bytes
<1>2. F = [n \in 0 .. L |-> IF n = 0 THEN HeaderSize ELSE F[n - 1] + 1 + p.labels[n]]
  <2>1. ASSUME NEW n \in 0 .. L, n # 0 PROVE F[n] = F[n - 1] + 1 + p.labels[n]
    <3>1. n \in 1 .. L /\ n - 1 \in 0 .. L /\ f[n - 1] \in Nat /\ p.labels[n] \in Nat
      BY <1>1, <2>1
    <3>2. F[n] = HeaderSize + f[n] /\ F[n - 1] = HeaderSize + f[n - 1]
      BY <3>1
    <3>3. f[n] = f[n - 1] + 1 + p.labels[n]
      BY <1>1, <3>1
    <3>4. \A a, b, c \in Nat : a = b + 1 + c => HeaderSize + a = HeaderSize + b + 1 + c
      BY DEF HeaderSize
    <3>5. HeaderSize + f[n] = HeaderSize + f[n - 1] + 1 + p.labels[n]
      <4>1. f[n] \in Nat
        BY <1>1, <3>1
      <4> QED BY <3>1, <3>3, <3>4, <4>1
    <3> HIDE DEF F
    <3> QED BY <3>2, <3>5
  <2>2. F[0] = HeaderSize
    BY <1>1 DEF HeaderSize
  <2> QED BY <2>1, <2>2
<1>3. after = [n \in 0 .. L |-> IF n = 0 THEN HeaderSize ELSE after[n - 1] + 1 + p.labels[n]]
  <2> HIDE DEF F
  <2> QED BY <1>2, Zenon
<1>4. Terminator(p) = after[L]
  BY <1>0, Zenon DEF Terminator
<1> HIDE DEF after, F
<1> DEFINE S == {n \in 0 .. L : after[n] = F[n]}
<1>5. 0 \in S
  BY <1>2, <1>3
<1>6. ASSUME NEW n \in 1 .. L, n - 1 \in S PROVE n \in S
  <2>1. after[n] = after[n - 1] + 1 + p.labels[n] /\ F[n] = F[n - 1] + 1 + p.labels[n]
    BY <1>2, <1>3, SMTT(30)
  <2> QED BY <1>6, <2>1
<1> HIDE DEF S
<1>7. \A n \in 0 .. L : n \in S
  BY <1>5, <1>6, RangeInduction
<1>8. after[L] = F[L]
  BY <1>7 DEF S
<1> QED BY <1>0, <1>4, <1>8 DEF F

\* A name that can be encoded has labels of 1 to 63 bytes, and fits.
LEMMA LabelsLengthIs ==
  ASSUME NEW labels \in Seq(Nat), NEW f \in [0 .. Len(labels) -> Nat], Bytes(f, labels),
         LabelsLength(labels) # Malformed
  PROVE  /\ LabelsLength(labels) = f[Len(labels)]
         /\ \A n \in 1 .. Len(labels) : labels[n] \in 1 .. MaxLabel /\ f[n] < DomainSize
<1>0. PICK L \in Nat : L = Len(labels)
  BY LenProperties
<1> DEFINE Bad(x, n) == \/ x = Malformed
                        \/ labels[n] \notin 1 .. MaxLabel
                        \/ x + 1 + labels[n] >= DomainSize
           Next1(x, n) == IF Bad(x, n) THEN Malformed ELSE x + 1 + labels[n]
           step == [p \in (1 .. L) \X Int |-> Next1(p[2], p[1])]
           offset == CHOOSE g : g = [n \in 0 .. L |-> IF n = 0 THEN 0 ELSE Next1(g[n - 1], n)]
<1>1. /\ \A n \in 1 .. L : labels[n] \in Nat /\ f[n] = f[n - 1] + 1 + labels[n]
      /\ f \in [0 .. L -> Nat] /\ f[0] = 0
  BY <1>0, ElementOfSeq DEF Bytes
<1>2. step \in [(1 .. L) \X Int -> Int]
  <2>1. \A x \in Int, n \in 1 .. L : Next1(x, n) \in Int
    <3> TAKE x \in Int, n \in 1 .. L
    <3>1. labels[n] \in Nat
      BY <1>1
    <3>2. x + 1 + labels[n] \in Int /\ Malformed \in Int
      BY <3>1 DEF Malformed
    <3> HIDE DEF Bad
    <3> QED BY <3>2
  <2> HIDE DEF Next1
  <2> QED BY <2>1
<1>3. PICK o \in [0 .. L -> Int] : Recursive(o, L, 0, step)
  <2> HIDE DEF step
  <2>1. 0 \in Int
    OBVIOUS
  <2> QED BY <1>2, <2>1, RecursiveFunction
<1>4. \A k \in 1 .. L : o[k] = Next1(o[k - 1], k)
  <2> HIDE DEF Next1
  <2>1. \A k \in 1 .. L : <<k, o[k - 1]>> \in (1 .. L) \X Int
    OBVIOUS
  <2> QED BY <1>3, <2>1 DEF Recursive
<1>5. o = [n \in 0 .. L |-> IF n = 0 THEN 0 ELSE Next1(o[n - 1], n)]
  <2> HIDE DEF Next1
  <2> QED BY <1>1, <1>3, <1>4 DEF Recursive
<1>6. offset = [n \in 0 .. L |-> IF n = 0 THEN 0 ELSE Next1(offset[n - 1], n)]
  BY <1>5, Zenon
<1>7. LabelsLength(labels) = offset[L]
  BY <1>0, Zenon DEF LabelsLength
<1> HIDE DEF offset, Next1
<1> DEFINE S == {n \in 0 .. L : offset[n] # Malformed =>
                   /\ offset[n] = f[n]
                   /\ \A k \in 1 .. n : labels[k] \in 1 .. MaxLabel /\ f[k] < DomainSize}
<1>8. 0 \in S
  BY <1>1, <1>6
<1>9. ASSUME NEW n \in 1 .. L, n - 1 \in S PROVE n \in S
  <2> SUFFICES ASSUME offset[n] # Malformed
               PROVE  /\ offset[n] = f[n]
                      /\ \A k \in 1 .. n : labels[k] \in 1 .. MaxLabel /\ f[k] < DomainSize
    OBVIOUS
  <2>1. offset[n] = Next1(offset[n - 1], n)
    BY <1>6
  <2>2. offset[n - 1] # Malformed /\ labels[n] \in 1 .. MaxLabel
        /\ offset[n - 1] + 1 + labels[n] < DomainSize
        /\ offset[n] = offset[n - 1] + 1 + labels[n]
    <3>0. n - 1 \in 0 .. L
      OBVIOUS
    <3>1. f[n - 1] \in Nat /\ labels[n] \in Nat
      BY <1>1, <3>0
    <3>2. offset[n - 1] # Malformed
      BY <2>1 DEF Next1
    <3>3. offset[n - 1] = f[n - 1]
      BY <1>9, <3>2
    <3> QED BY <2>1, <3>1, <3>2, <3>3, SMTT(30) DEF Next1, DomainSize
  <2>3. offset[n - 1] = f[n - 1]
        /\ \A k \in 1 .. n - 1 : labels[k] \in 1 .. MaxLabel /\ f[k] < DomainSize
    BY <1>9, <2>2
  <2>4. f[n] = offset[n] /\ f[n] < DomainSize
    BY <1>1, <2>2, <2>3
  <2> QED BY <2>2, <2>3, <2>4
<1> HIDE DEF S
<1>10. \A n \in 0 .. L : n \in S
  BY <1>8, <1>9, RangeInduction
<1>11. L \in S
  BY <1>10
<1> QED BY <1>0, <1>7, <1>11 DEF S

\* No answer has less than three bytes of data.
LEMMA ShortestData ==
  ASSUME NEW t \in Supported, NEW v \in Value, DataLength(t, v) # Malformed
  PROVE  DataLength(t, v) >= 3
<1> DEFINE name == domainToDNSFormat(v.labels)
<1>1. CASE t \in NameTypes
  <2>1. v.ok /\ name # Malformed
    BY <1>1 DEF DataLength
  <2>2. v.labels \in Seq(Nat) /\ v.labels # <<>>
    BY DEF Value
  <2>3. PICK L \in Nat : L = Len(v.labels) /\ L # 0
    BY <2>2, LenProperties, EmptySeq
  <2>4. PICK f \in [0 .. L -> Nat] : Bytes(f, v.labels)
    BY <2>2, <2>3, BytesExist
  <2>5. LabelsLength(v.labels) # Malformed /\ name = LabelsLength(v.labels) + 1
    <3>1. LabelsLength(v.labels) \in 0 .. DomainSize - 1 /\ name = LabelsLength(v.labels) + 1
      BY <2>1 DEF domainToDNSFormat
    <3>2. \A n \in 0 .. DomainSize - 1 : n # Malformed
      BY DEF DomainSize, Malformed
    <3> HIDE DEF name
    <3> QED BY <3>1, <3>2
  <2>6. LabelsLength(v.labels) = f[L] /\ v.labels[1] \in 1 .. MaxLabel
    BY <2>2, <2>3, <2>4, <2>5, LabelsLengthIs
  <2>7. f[1] <= f[L] /\ f[1] = 1 + v.labels[1]
    <3>1. 1 \in 0 .. Len(v.labels) /\ 1 \in 1 .. Len(v.labels) /\ v.labels[1] \in Nat
      BY <2>3, <2>6
    <3>2. f[1] <= f[L]
      BY <2>2, <2>3, <2>4, <3>1, BytesMonotone
    <3>3. f[0] = 0 /\ f[1] = f[1 - 1] + 1 + v.labels[1]
      BY <2>4, <3>1 DEF Bytes
    <3> QED BY <3>1, <3>2, <3>3
  <2>8. name >= 3 /\ name \in Nat
    <3>1. f[L] \in Nat /\ f[1] \in Nat /\ v.labels[1] \in Nat /\ v.labels[1] >= 1
      <4>1. L \in 0 .. L /\ 1 \in 0 .. L
        BY <2>3
      <4>2. \A n \in 1 .. MaxLabel : n \in Nat /\ n >= 1
        BY DEF MaxLabel
      <4> QED BY <2>4, <2>6, <4>1, <4>2
    <3>2. name = f[L] + 1
      BY <2>5, <2>6
    <3> HIDE DEF name
    <3> QED BY <2>7, <3>1, <3>2
  <2> HIDE DEF name
  <2>9. DataLength(t, v) \in {name, 2 + name}
    BY <1>1, <2>1 DEF DataLength, NameTypes, name
  <2> QED BY <2>8, <2>9
<1>2. CASE t \notin NameTypes
  BY <1>2 DEF DataLength, Supported, NameTypes
<1> QED BY <1>1, <1>2

\* What the answer of value m adds to the response, if it is encoded.
AnswerLength(m) ==
  IF DataLength(type, values[m]) = Malformed THEN 0
  ELSE AnswerHead + 2 + DataLength(type, values[m])

LEMMA AnswerLengthType == \A m : AnswerLength(m) \in Nat
BY DataLengthType DEF AnswerLength, AnswerHead

\* The lengths of the response with the answers of the first values.
Sums(f, n) ==
  f[0] = HeaderSize + query_len /\ \A m \in 1 .. n : f[m] = f[m - 1] + AnswerLength(m)

\* LengthWith is the last of these sums, and is what it adds up.
LEMMA LengthWithSums ==
  ASSUME NEW n \in Nat, NEW f \in [0 .. n -> Nat], Sums(f, n)
  PROVE  LengthWith(n) = f[n]
<1> DEFINE after == CHOOSE g : g = [m \in 0 .. n |-> IF m = 0 THEN HeaderSize + query_len
                                                      ELSE g[m - 1] + AnswerLength(m)]
<1>1. f = [m \in 0 .. n |-> IF m = 0 THEN HeaderSize + query_len ELSE f[m - 1] + AnswerLength(m)]
  BY DEF Sums
<1>2. after = [m \in 0 .. n |-> IF m = 0 THEN HeaderSize + query_len
                                ELSE after[m - 1] + AnswerLength(m)]
  BY <1>1, Zenon
<1>3. LengthWith(n) = after[n]
  BY Zenon DEF LengthWith, AnswerLength
<1> HIDE DEF after
<1> DEFINE Same == {m \in 0 .. n : after[m] = f[m]}
<1>4. 0 \in Same
  BY <1>2 DEF Sums
<1>5. ASSUME NEW m \in 1 .. n, m - 1 \in Same PROVE m \in Same
  <2>1. after[m] = after[m - 1] + AnswerLength(m)
    BY <1>2
  <2> QED BY <1>5, <2>1 DEF Sums
<1> HIDE DEF Same
<1>6. \A m \in 0 .. n : m \in Same
  BY <1>4, <1>5, RangeInduction
<1> QED BY <1>3, <1>6 DEF Same

LEMMA LengthWithStep ==
  ASSUME query_len \in Nat, NEW n \in Nat
  PROVE  /\ LengthWith(n) \in Nat
         /\ n = 0 => LengthWith(n) = HeaderSize + query_len
         /\ n # 0 => LengthWith(n) = LengthWith(n - 1) + AnswerLength(n)
<1> DEFINE step == [p \in (1 .. n) \X Nat |-> p[2] + AnswerLength(p[1])]
<1>1. step \in [(1 .. n) \X Nat -> Nat]
  BY AnswerLengthType
<1>2. HeaderSize + query_len \in Nat
  BY DEF HeaderSize
<1>3. PICK f \in [0 .. n -> Nat] : Recursive(f, n, HeaderSize + query_len, step)
  <2> HIDE DEF step
  <2> QED BY <1>1, <1>2, RecursiveFunction
<1>4. Sums(f, n)
  <2>1. \A k \in 1 .. n : <<k, f[k - 1]>> \in (1 .. n) \X Nat
    OBVIOUS
  <2> QED BY <1>3, <2>1 DEF Sums, Recursive
<1>5. LengthWith(n) = f[n]
  BY <1>4, LengthWithSums
<1>6. CASE n = 0
  BY <1>3, <1>5, <1>6 DEF Recursive
<1>7. CASE n # 0
  <2> DEFINE g == [k \in 0 .. n - 1 |-> f[k]]
  <2>1. n - 1 \in Nat /\ g \in [0 .. n - 1 -> Nat] /\ Sums(g, n - 1)
    BY <1>4, <1>7 DEF Sums
  <2> HIDE DEF g
  <2>2. LengthWith(n - 1) = g[n - 1]
    BY <2>1, LengthWithSums
  <2>3. g[n - 1] = f[n - 1]
    BY <1>7 DEF g
  <2> QED BY <1>4, <1>5, <1>7, <2>2, <2>3 DEF Sums
<1> QED BY <1>6, <1>7

\* More answers never make a response shorter.
LEMMA LengthWithMonotone ==
  ASSUME query_len \in Nat, NEW m \in Nat, NEW n \in Nat, m <= n
  PROVE  LengthWith(m) <= LengthWith(n)
<1> DEFINE S == {k \in Nat : LengthWith(m) <= LengthWith(m + k)}
<1>1. 0 \in S
  BY LengthWithStep
<1>2. ASSUME NEW k \in Nat, k \in S PROVE k + 1 \in S
  <2>1. LengthWith(m + (k + 1)) = LengthWith(m + k) + AnswerLength(m + (k + 1))
    BY LengthWithStep, (m + (k + 1)) - 1 = m + k, m + (k + 1) \in Nat \ {0}
  <2>2. LengthWith(m) \in Nat /\ LengthWith(m + k) \in Nat /\ AnswerLength(m + (k + 1)) \in Nat
    BY LengthWithStep, AnswerLengthType
  <2> QED BY <1>2, <2>1, <2>2
<1> HIDE DEF S
<1>3. \A k \in Nat : k \in S
  BY <1>1, <1>2, SetInduction
<1>4. n - m \in S /\ m + (n - m) = n
  BY <1>3
<1> QED BY <1>4 DEF S

\* The sum is about the question, the type and the values, and nothing else.
LEMMA LengthWithKept ==
  ASSUME type' = type, query_len' = query_len, values' = values, NEW n
  PROVE  LengthWith(n)' = LengthWith(n)
BY DEF LengthWith


LEMMA LengthWithNone ==
  ASSUME query_len' \in Nat
  PROVE  LengthWith(0)' = HeaderSize + query_len'
<1> DEFINE after == CHOOSE g : g = [m \in 0 .. 0 |-> IF m = 0 THEN HeaderSize + query_len'
                                                     ELSE g[m - 1] + AnswerLength(m)']
           f == [m \in 0 .. 0 |-> HeaderSize + query_len']
<1>1. f = [m \in 0 .. 0 |-> IF m = 0 THEN HeaderSize + query_len' ELSE f[m - 1] + AnswerLength(m)']
  OBVIOUS
<1>2. after = [m \in 0 .. 0 |-> IF m = 0 THEN HeaderSize + query_len'
                                ELSE after[m - 1] + AnswerLength(m)']
  <2> HIDE DEF f
  <2> QED BY <1>1, Zenon
<1>3. LengthWith(0)' = after[0]
  BY Zenon DEF LengthWith, AnswerLength
<1> HIDE DEF after
<1> QED BY <1>2, <1>3
-----------------------------------------------------------------------------
(***************************************************************************)
(* The answers.                                                            *)
(***************************************************************************)
Encodable(m) == DataLength(type, values[m]) # Malformed

\* What the turns of the answer loop have left in the response, whether it
\* goes on, has come to its end or was broken off.
Answered ==
  /\ phase \in {"idle", "parse", "header", "resolve"}
     => answers = 0 /\ partial = 0 /\ next = 1 /\ rcode = "NOERROR"
  /\ phase \in {"answer", "send"} /\ rcode = "NOERROR"
     => /\ next \in 1 .. Len(values) + 1 /\ ancount = Len(values)
        /\ answers <= next - 1
        /\ answers = next - 1 <=> \A m \in 1 .. next - 1 : Encodable(m)
        /\ response_len = LengthWith(next - 1) + AnswerHead * partial
  /\ phase = "answer"
     => rcode = "NOERROR" /\ partial = next - 1 - answers /\ (next > 1 => type \in Supported)
  /\ phase = "send" /\ rcode = "NOERROR" /\ next > Len(values) => partial = next - 1 - answers
  /\ phase = "send" /\ rcode = "NOERROR" /\ next <= Len(values) /\ AllEncodable
     => LengthWith(next) >= BufferSize

\* A question that could be encoded has been read up to a label.
Reading ==
  phase = "parse" /\ Whole(packet) /\ domainToDNSFormat(packet.labels) # Malformed
  => \A f \in [0 .. Len(packet.labels) -> Nat] :
       Bytes(f, packet.labels) => label \in 1 .. Len(packet.labels) + 1 /\ j = f[label - 1]

LEMMA InitAnswered == Init => Answered
BY DEF Init, Answered

LEMMA ReturnAnswered == Return => Answered'
BY DEF Return, Answered

\* A value that is skipped or encoded counts like the sum says.
LEMMA EncodeAnswerAnswered == IInv /\ Answered /\ EncodeAnswer => Answered'
<1> SUFFICES ASSUME IInv, Answered, EncodeAnswer PROVE Answered'
  OBVIOUS
<1>1. /\ phase = "answer" /\ phase' = "answer" /\ rcode = "NOERROR" /\ rcode' = rcode
      /\ ancount' = ancount /\ values' = values /\ type' = type /\ query_len' = query_len
      /\ type \in Supported /\ next' = next + 1
  BY DEF EncodeAnswer, Answered, parseVars
<1>2. PICK L \in Nat : L = Len(values)
  BY LenProperties DEF IInv, TypeOK
<1>3. next \in 1 .. L /\ answers \in Nat /\ partial \in Nat /\ response_len \in Nat /\ query_len \in Nat
  BY <1>1, <1>2 DEF EncodeAnswer, IInv, TypeOK, Question
<1>4. /\ ancount = L /\ answers <= next - 1 /\ partial = next - 1 - answers
      /\ answers = next - 1 <=> \A m \in 1 .. next - 1 : Encodable(m)
      /\ response_len = LengthWith(next - 1) + AnswerHead * partial
  BY <1>1, <1>2 DEF Answered
<1>5. LengthWith(next) = LengthWith(next - 1) + AnswerLength(next) /\ LengthWith(next - 1) \in Nat
  <2>1. next \in Nat /\ next - 1 \in Nat /\ next # 0
    BY <1>3
  <2> QED BY <2>1, <1>3, LengthWithStep
<1>6. LengthWith(next - 1)' = LengthWith(next)
  <2>1. \A n : LengthWith(n)' = LengthWith(n)
    BY <1>1, LengthWithKept
  <2>2. next' - 1 = next
    BY <1>1, <1>3
  <2> QED BY <2>1, <2>2
<1>7. \A m : Encodable(m)' = Encodable(m)
  BY <1>1 DEF Encodable
<1>8. (\A m \in 1 .. next : Encodable(m)) <=> Encodable(next) /\ (\A m \in 1 .. next - 1 : Encodable(m))
  <2>1. 1 .. next = (1 .. next - 1) \cup {next}
    BY <1>3
  <2> QED BY <2>1
<1>9. /\ answers' <= next /\ partial' = next - answers'
      /\ answers' = next <=> \A m \in 1 .. next : Encodable(m)
      /\ response_len' = LengthWith(next) + AnswerHead * partial'
  <2> DEFINE len == DataLength(type, values[next])
  <2>1. len \in Nat \cup {Malformed} /\ (Encodable(next) <=> len # Malformed)
    BY DataLengthType DEF Encodable
  <2>2. AnswerLength(next) = IF len = Malformed THEN 0 ELSE AnswerHead + 2 + len
    BY DEF AnswerLength
  <2>3. IF len = Malformed
        THEN /\ response_len' = response_len + AnswerHead
             /\ partial' = partial + 1
             /\ answers' = answers
        ELSE /\ response_len' = response_len + AnswerHead + 2 + len
             /\ answers' = answers + 1
             /\ partial' = partial
    BY DEF EncodeAnswer
  <2> HIDE DEF len
  <2>4. CASE len = Malformed
    BY <2>1, <2>2, <2>3, <2>4, <1>3, <1>4, <1>5, <1>8 DEF AnswerHead
  <2>5. CASE len # Malformed
    BY <2>1, <2>2, <2>3, <2>5, <1>3, <1>4, <1>5, <1>8 DEF AnswerHead
  <2> QED BY <2>4, <2>5
<1>10. next' \in 1 .. Len(values') + 1 /\ next' - 1 = next
  BY <1>1, <1>2, <1>3
<1> QED BY <1>1, <1>2, <1>4, <1>6, <1>7, <1>9, <1>10 DEF Answered

\* The loop stops only where another answer would not fit.
LEMMA BreakOffAnswered == IInv /\ Answered /\ BreakOff => Answered'
<1> SUFFICES ASSUME IInv, Answered, BreakOff PROVE Answered'
  OBVIOUS
<1>1. /\ phase = "answer" /\ phase' = "send" /\ rcode = "NOERROR" /\ rcode' = rcode
      /\ ancount' = ancount /\ values' = values /\ type' = type /\ query_len' = query_len
      /\ next' = next /\ answers' = answers
  BY DEF BreakOff, Answered, parseVars
<1>2. PICK L \in Nat : L = Len(values)
  BY LenProperties DEF IInv, TypeOK
<1>3. next \in 1 .. L /\ answers \in Nat /\ partial \in Nat /\ response_len \in Nat /\ query_len \in Nat
      /\ values \in Seq(Value)
  BY <1>1, <1>2 DEF BreakOff, IInv, TypeOK, Question
<1>4. /\ ancount = L /\ answers <= next - 1 /\ partial = next - 1 - answers
      /\ answers = next - 1 <=> \A m \in 1 .. next - 1 : Encodable(m)
      /\ response_len = LengthWith(next - 1) + AnswerHead * partial
  BY <1>1, <1>2 DEF Answered
<1>5. /\ LengthWith(next) = LengthWith(next - 1) + AnswerLength(next)
      /\ LengthWith(next - 1) \in Nat /\ LengthWith(next) \in Nat
  <2>1. next \in Nat /\ next - 1 \in Nat /\ next # 0
    BY <1>3
  <2> QED BY <2>1, <1>3, LengthWithStep
<1>6. LengthWith(next - 1)' = LengthWith(next - 1) /\ LengthWith(next)' = LengthWith(next)
  <2>1. \A n : LengthWith(n)' = LengthWith(n)
    BY <1>1, LengthWithKept
  <2>2. next' - 1 = next - 1
    BY <1>1, <1>3
  <2> QED BY <1>1, <2>1, <2>2
<1>7. (\A m : Encodable(m)' = Encodable(m)) /\ AllEncodable' = AllEncodable
  BY <1>1 DEF Encodable, AllEncodable
<1>8. response_len' = LengthWith(next - 1) + AnswerHead * partial' /\ partial' \in Nat
  BY <1>3, <1>4, <1>5 DEF BreakOff, AnswerHead
<1>9. ASSUME AllEncodable PROVE LengthWith(next) >= BufferSize
  <2> DEFINE len == DataLength(type, values[next])
  <2>1. len # Malformed /\ (\A m \in 1 .. next - 1 : Encodable(m)) /\ values[next] \in Value
    BY <1>2, <1>3, <1>9, ElementOfSeq DEF AllEncodable, Encodable
  <2>2. partial = 0 /\ response_len = LengthWith(next - 1)
    BY <1>3, <1>4, <1>5, <2>1 DEF AnswerHead
  <2>3. AnswerLength(next) = AnswerHead + 2 + len
    BY <2>1 DEF AnswerLength
  <2>4. len \in Nat
    BY <2>1, DataLengthType
  <2>5. CASE ~ HeadFits
    <3>1. type \in Supported
      <4>1. next # 1
        BY <2>2, <2>5, <1>1 DEF HeadFits, IInv, Question, HeaderSize, DomainSize, BufferSize, TypeOK
      <4> QED BY <4>1, <1>1, <1>3 DEF Answered
    <3>2. len >= 3
      BY <2>1, <3>1, ShortestData
    <3> HIDE DEF len
    <3> QED BY <1>3, <1>5, <2>2, <2>3, <2>4, <2>5, <3>2 DEF HeadFits, AnswerHead, BufferSize
  <2>6. CASE HeadFits
    <3>1. ~ DataFits(len)
      BY <2>6 DEF BreakOff
    <3> HIDE DEF len
    <3> QED BY <1>3, <1>5, <2>2, <2>3, <2>4, <3>1 DEF DataFits, AnswerHead, BufferSize
  <2> QED BY <2>5, <2>6
<1>10. next' \in 1 .. Len(values') + 1 /\ ~ (next' > Len(values')) /\ next' - 1 = next - 1
  BY <1>1, <1>2, <1>3
<1>11. answers' <= next' - 1 /\ (answers' = next' - 1 <=> \A m \in 1 .. next' - 1 : Encodable(m)')
  BY <1>1, <1>4, <1>7
<1> QED BY <1>1, <1>2, <1>4, <1>6, <1>7, <1>8, <1>9, <1>10, <1>11 DEF Answered

LEMMA ResolveAnswered == IInv /\ Answered /\ Resolve => Answered'
<1> SUFFICES ASSUME IInv, Answered, Resolve PROVE Answered'
  OBVIOUS
<1>1. /\ answers' = 0 /\ partial' = 0 /\ next' = 1 /\ response_len' = HeaderSize + query_len'
      /\ query_len' \in Nat /\ type' = type /\ rcode = "NOERROR"
  BY DEF Resolve, Answered, IInv, TypeOK, Question, parseVars
<1>2. CASE rcode' = "NXDOMAIN" /\ phase' = "send"
  BY <1>2 DEF Answered
<1>3. ASSUME NEW r \in Records[type], phase' = "answer", values' = r, ancount' = Len(r), rcode' = rcode
      PROVE  Answered'
  <2>1. type \in Types
    BY DEF IInv, TypeOK
  <2>2. PICK L \in Nat : L = Len(r)
    BY <2>1, RecordsType
  <2>3. LengthWith(next - 1)' = HeaderSize + query_len'
    <3>1. \A n : n = 0 => LengthWith(n)' = HeaderSize + query_len'
      <4>1. LengthWith(0)' = HeaderSize + query_len'
        BY <1>1, LengthWithNone
      <4> QED BY <4>1
    <3> QED BY <1>1, <3>1
  <2>4. next' \in 1 .. Len(values') + 1 /\ ~ (next' > 1) /\ 1 .. next' - 1 = {} /\ next' - 1 = 0
    BY <1>1, <1>3, <2>2
  <2>5. response_len' = LengthWith(next - 1)' + AnswerHead * partial'
    BY <1>1, <2>3 DEF AnswerHead, HeaderSize
  <2> QED BY <1>1, <1>3, <2>2, <2>4, <2>5 DEF Answered
<1> QED BY <1>1, <1>2, <1>3 DEF Resolve

LEMMA FinishAnswersAnswered == IInv /\ Answered /\ FinishAnswers => Answered'
<1> SUFFICES ASSUME IInv, Answered, FinishAnswers PROVE Answered'
  OBVIOUS
<1>1. /\ phase = "answer" /\ phase' = "send" /\ next > Len(values) /\ type' = type
      /\ query_len' = query_len /\ response_len' = response_len /\ values' = values
      /\ next' = next /\ ancount' = ancount /\ rcode' = rcode /\ answers' = answers /\ partial' = partial
  BY DEF FinishAnswers, parseVars, replyVars
<1>2. LengthWith(next - 1)' = LengthWith(next - 1)
  <2>1. \A n : LengthWith(n)' = LengthWith(n)
    BY <1>1, LengthWithKept
  <2> QED BY <1>1, <2>1
<1>3. \A m : Encodable(m)' = Encodable(m)
  BY <1>1 DEF Encodable
<1>4. next \in Nat /\ Len(values) \in Nat
  BY LenProperties DEF IInv, TypeOK
<1>5. ~ (next' <= Len(values'))
  BY <1>1, <1>4
<1> QED BY <1>1, <1>2, <1>3, <1>5 DEF Answered

LEMMA StutterAnswered == Answered /\ UNCHANGED vars => Answered'
<1> SUFFICES ASSUME Answered, UNCHANGED vars PROVE Answered'
  OBVIOUS
<1>1. /\ phase' = phase /\ type' = type /\ query_len' = query_len /\ response_len' = response_len
      /\ values' = values /\ next' = next /\ ancount' = ancount /\ rcode' = rcode
      /\ answers' = answers /\ partial' = partial
  BY DEF vars, parseVars, replyVars
<1>2. LengthWith(next - 1)' = LengthWith(next - 1) /\ LengthWith(next)' = LengthWith(next)
  <2>1. \A n : LengthWith(n)' = LengthWith(n)
    BY <1>1, LengthWithKept
  <2> QED BY <1>1, <2>1
<1>3. (\A m : Encodable(m)' = Encodable(m)) /\ AllEncodable' = AllEncodable
  BY <1>1 DEF Encodable, AllEncodable
<1> QED BY <1>1, <1>2, <1>3 DEF Answered

LEMMA AnsweredStep == IInv /\ Answered /\ [Next]_vars => Answered'
<1> SUFFICES ASSUME IInv, Answered, [Next]_vars PROVE Answered'
  OBVIOUS
<1>1. CASE \E p \in Packets : Receive(p)
  BY <1>1 DEF Receive, replyVars, Answered
<1>2. CASE ParseLabel \/ ParseQuestion \/ CopyQuestion
  <2>1. CASE Return
    BY <2>1, ReturnAnswered
  <2>2. CASE ~ Return
    <3>1. /\ phase \in {"parse", "header"} /\ phase' \in {"parse", "header", "resolve"}
          /\ answers' = answers /\ partial' = partial /\ next' = next /\ rcode' = rcode
      BY <1>2, <2>2 DEF ParseLabel, ParseQuestion, CopyQuestion, replyVars
    <3> QED BY <3>1 DEF Answered
  <2> QED BY <2>1, <2>2
<1>3. CASE Resolve
  BY <1>3, ResolveAnswered
<1>4. CASE EncodeAnswer
  BY <1>4, EncodeAnswerAnswered
<1>5. CASE BreakOff
  BY <1>5, BreakOffAnswered
<1>6. CASE NotImplemented
  BY <1>6 DEF NotImplemented, Answered
<1>7. CASE FinishAnswers
  BY <1>7, FinishAnswersAnswered
<1>8. CASE Send
  BY <1>8, ReturnAnswered DEF Send
<1>9. CASE UNCHANGED vars
  BY <1>9, StutterAnswered
<1> QED BY <1>1, <1>2, <1>3, <1>4, <1>5, <1>6, <1>7, <1>8, <1>9 DEF Next

\* A record that can be encoded and fits goes out whole, whatever the record.
THEOREM WholeRecords == Spec => []WholeIfItFits
<1>1. IInv /\ Answered => WholeIfItFits
  <2> SUFFICES ASSUME IInv, Answered, phase = "send", rcode = "NOERROR",
                      AllEncodable, LengthWith(Len(values)) < BufferSize
               PROVE  answers = ancount /\ response_len = LengthWith(ancount)
    BY DEF WholeIfItFits
  <2>1. PICK L \in Nat : L = Len(values)
    BY LenProperties DEF IInv, TypeOK
  <2>2. /\ next \in 1 .. L + 1 /\ ancount = L /\ answers \in Nat /\ partial \in Nat /\ query_len \in Nat
        /\ response_len = LengthWith(next - 1) + AnswerHead * partial
        /\ answers = next - 1 <=> \A m \in 1 .. next - 1 : Encodable(m)
    BY <2>1 DEF Answered, IInv, TypeOK
  <2>3. LengthWith(L) \in Nat /\ LengthWith(next) \in Nat
    BY <2>1, <2>2, LengthWithStep
  <2>4. next > L
    <3> SUFFICES ASSUME next <= L PROVE FALSE
      BY <2>2
    <3>1. LengthWith(next) >= BufferSize
      BY <2>1 DEF Answered
    <3>2. LengthWith(next) <= LengthWith(L)
      BY <2>1, <2>2, LengthWithMonotone
    <3> QED BY <2>1, <2>3, <3>1, <3>2 DEF BufferSize
  <2>5. next - 1 = L /\ partial = L - answers
    BY <2>1, <2>2, <2>4 DEF Answered
  <2>6. \A m \in 1 .. L : Encodable(m)
    BY <2>1 DEF AllEncodable, Encodable, IInv, TypeOK
  <2>7. answers = L /\ partial = 0
    BY <2>2, <2>5, <2>6
  <2> QED BY <2>2, <2>3, <2>5, <2>7 DEF AnswerHead
<1> QED BY <1>1, InitInvariant, StepInvariant, InitAnswered, AnsweredStep, PTL DEF Spec

\* ancount is the number of complete answers only if none was skipped and the
\* loop came to its end; the rest of the bytes are heads, whatever the record.
THEOREM CountRight == Spec => []CountRightIffComplete
<1>1. IInv /\ Answered => CountRightIffComplete
  <2> SUFFICES ASSUME IInv, Answered, phase = "send", rcode = "NOERROR"
               PROVE  /\ answers = ancount <=> AllEncodable /\ next > Len(values)
                      /\ response_len = LengthWith(next - 1) + AnswerHead * partial
    BY DEF CountRightIffComplete
  <2>1. PICK L \in Nat : L = Len(values)
    BY LenProperties DEF IInv, TypeOK
  <2>2. /\ next \in 1 .. L + 1 /\ ancount = L /\ answers \in Nat /\ answers <= next - 1
        /\ response_len = LengthWith(next - 1) + AnswerHead * partial
        /\ answers = next - 1 <=> \A m \in 1 .. next - 1 : Encodable(m)
    BY <2>1 DEF Answered, IInv, TypeOK
  <2>3. AllEncodable <=> \A m \in 1 .. L : Encodable(m)
    BY <2>1 DEF AllEncodable, Encodable, IInv, TypeOK
  <2>4. ASSUME answers = ancount PROVE AllEncodable /\ next > L
    <3>1. next - 1 = L /\ answers = next - 1
      BY <2>2, <2>4
    <3> QED BY <2>2, <2>3, <3>1
  <2>5. ASSUME AllEncodable, next > L PROVE answers = ancount
    <3>1. next - 1 = L
      BY <2>2, <2>5
    <3> QED BY <2>2, <2>3, <2>5, <3>1
  <2> QED BY <2>1, <2>2, <2>4, <2>5
<1> QED BY <1>1, InitInvariant, StepInvariant, InitAnswered, AnsweredStep, PTL DEF Spec

-----------------------------------------------------------------------------
(***************************************************************************)
(* The parser reads what the encoder writes.                               *)
(***************************************************************************)

\* Where the parser is in the question of a name that can be encoded: at its
\* end, or at a label of 1 to 63 bytes for which there is room.
LEMMA AtLabelOrEnd ==
  ASSUME NEW f \in [0 .. Len(packet.labels) -> Nat], Bytes(f, packet.labels), packet \in Packets,
         IInv, Reading, phase = "parse", Whole(packet), domainToDNSFormat(packet.labels) # Malformed
  PROVE  /\ domainToDNSFormat(packet.labels) = f[Len(packet.labels)] + 1
         /\ f[Len(packet.labels)] >= 2
         /\ i = HeaderSize + f[label - 1] /\ j = f[label - 1]
         /\ Terminator(packet) = HeaderSize + f[Len(packet.labels)]
         /\ \/ label = Len(packet.labels) + 1 /\ ~ AtLabel
            \/ /\ label \in 1 .. Len(packet.labels) /\ AtLabel
               /\ f[label] = j + 1 + packet.labels[label]
               /\ f[label] <= f[Len(packet.labels)] /\ f[label] < DomainSize
               /\ packet.labels[label] \in 1 .. MaxLabel
<1>1. packet.labels \in Seq(Nat) /\ packet.labels # <<>>
  BY PacketType DEF Whole
<1>2. PICK L \in Nat : L = Len(packet.labels) /\ L # 0
  BY <1>1, LenProperties, EmptySeq
<1>3. LabelsLength(packet.labels) \in 0 .. DomainSize - 1
      /\ domainToDNSFormat(packet.labels) = LabelsLength(packet.labels) + 1
  BY DEF domainToDNSFormat
<1>4. LabelsLength(packet.labels) # Malformed
  <2>1. \A n \in 0 .. DomainSize - 1 : n # Malformed
    BY DEF DomainSize, Malformed
  <2> QED BY <1>3, <2>1
<1>5. /\ LabelsLength(packet.labels) = f[L]
      /\ \A n \in 1 .. L : packet.labels[n] \in 1 .. MaxLabel /\ f[n] < DomainSize
  BY <1>1, <1>2, <1>4, LabelsLengthIs
<1>6. \A n \in 0 .. L : f[n] <= f[L]
  BY <1>1, <1>2, BytesMonotone
<1>7. f[0] = 0 /\ \A n \in 1 .. L : f[n] = f[n - 1] + 1 + packet.labels[n]
  BY <1>2 DEF Bytes
<1>8. Terminator(packet) = HeaderSize + f[L]
  BY <1>1, <1>2, TerminatorIs
<1>9. f[L] \in Nat /\ f[L] >= 2
  <2>1. 1 \in 0 .. L /\ 1 \in 1 .. L /\ L \in 0 .. L /\ 1 - 1 = 0
    BY <1>2
  <2>2. packet.labels[1] \in Nat /\ packet.labels[1] >= 1
    BY <1>5, <2>1, LabelBytes
  <2>3. f[1] = f[0] + 1 + packet.labels[1] /\ f[1] <= f[L]
    BY <1>6, <1>7, <2>1
  <2>4. f[1] \in Nat /\ f[L] \in Nat /\ f[0] = 0
    BY <1>2, <1>7, <2>1
  <2> QED BY <2>2, <2>3, <2>4
<1>10. label \in 1 .. L + 1 /\ j = f[label - 1] /\ i = HeaderSize + j
  BY <1>2 DEF Reading, IInv, Parsing
<1>11. CASE label = L + 1
  BY <1>2, <1>3, <1>5, <1>8, <1>9, <1>10, <1>11 DEF AtLabel
<1>12. CASE label \in 1 .. L
  <2>1. /\ f[label] = j + 1 + packet.labels[label] /\ f[label] <= f[L] /\ f[label] < DomainSize
        /\ packet.labels[label] \in 1 .. MaxLabel /\ j \in Nat
    <3>1. label \in 0 .. L /\ label - 1 \in 0 .. L
      BY <1>12
    <3> QED BY <1>2, <1>5, <1>6, <1>7, <1>10, <1>12, <3>1
  <2>2. packet.size \in Nat /\ HeaderSize + f[L] + 5 <= packet.size
    BY <1>8, PacketType DEF Whole
  <2>3. AtLabel
    <3>1. f[label] \in Nat /\ packet.labels[label] \in Nat /\ packet.labels[label] >= 1
      BY <1>2, <1>12, <2>1, LabelBytes
    <3>2. j < f[label] - 1 /\ i < packet.size
      <4>1. PICK b \in Nat : b = packet.labels[label] /\ b >= 1
        BY <3>1
      <4>2. PICK e \in Nat : e = f[label] /\ e = j + 1 + b /\ e <= f[L]
        BY <2>1, <3>1, <4>1
      <4>3. PICK last \in Nat : last = f[L] /\ HeaderSize + last + 5 <= packet.size
        BY <1>9, <2>2
      <4>4. i = HeaderSize + j /\ j \in Nat /\ packet.size \in Nat
        BY <1>10, <2>1, <2>2
      <4>5. j < e - 1
        BY <4>1, <4>2, <4>4
      <4>6. e <= last
        BY <4>2, <4>3
      <4>7. i < packet.size
        BY <4>3, <4>4, <4>5, <4>6 DEF HeaderSize
      <4> QED BY <4>2, <4>5, <4>7
    <3>3. j < DomainSize - 1
      BY <2>1, <3>1, <3>2 DEF DomainSize
    <3>4. label <= L
      BY <1>2, <1>12
    <3> QED BY <1>2, <3>2, <3>3, <3>4 DEF AtLabel
  <2> QED BY <1>2, <1>3, <1>5, <1>8, <1>9, <1>10, <1>12, <2>1, <2>3
<1> QED BY <1>10, <1>11, <1>12

LEMMA ParseLabelReading == IInv /\ Reading /\ ParseLabel => Reading'
<1> SUFFICES ASSUME IInv, Reading, ParseLabel, phase' = "parse", Whole(packet'),
                    domainToDNSFormat(packet'.labels) # Malformed,
                    NEW f \in [0 .. Len(packet'.labels) -> Nat], Bytes(f, packet'.labels)
             PROVE  label' \in 1 .. Len(packet'.labels) + 1 /\ j' = f[label' - 1]
  BY DEF Reading
<1> DEFINE len == packet.labels[label]
           copied == Least(len, DomainSize - 2 - j)
<1>1. packet' = packet /\ phase = "parse" /\ AtLabel /\ j' = j + copied + 1 /\ label' = label + 1
  BY DEF ParseLabel, Return
<1>2. packet \in Packets
  BY <1>1 DEF IInv, TypeOK, Parsing
<1>3. /\ label \in 1 .. Len(packet.labels) /\ f[label] = j + 1 + len
      /\ f[label] < DomainSize /\ len \in 1 .. MaxLabel
  BY <1>1, <1>2, AtLabelOrEnd
<1>4. Len(packet.labels) \in Nat /\ j \in Nat
  BY <1>2, PacketType DEF IInv, TypeOK
<1> HIDE DEF len
<1>5. copied = len
  BY <1>3, <1>4 DEF Least, DomainSize, MaxLabel
<1>6. label' - 1 = label /\ label' \in 1 .. Len(packet.labels) + 1
  BY <1>1, <1>3, <1>4
<1> HIDE DEF copied
<1> QED BY <1>1, <1>3, <1>4, <1>5, <1>6 DEF MaxLabel

LEMMA InitReading == Init => Reading
BY DEF Init, Reading

LEMMA ReadingStep == IInv /\ Reading /\ [Next]_vars => Reading'
<1> SUFFICES ASSUME IInv, Reading, [Next]_vars PROVE Reading'
  OBVIOUS
<1>1. CASE \E p \in Packets : Receive(p)
  <2>1. PICK p \in Packets : Receive(p)
    BY <1>1
  <2>2. packet' = p /\ label' = label /\ j' = 0 /\ phase = "idle"
    BY <2>1 DEF Receive, IInv, Parsing
  <2>3. Len(p.labels) \in Nat
    BY PacketType
  <2>4. \A f : Bytes(f, p.labels) => f[1 - 1] = 0
    BY DEF Bytes
  <2>5. label' = 1
    BY <2>1 DEF Receive, IInv, Parsing
  <2> QED BY <2>2, <2>3, <2>4, <2>5 DEF Reading
<1>2. CASE ParseLabel
  BY <1>2, ParseLabelReading
<1>3. CASE UNCHANGED vars
  BY <1>3 DEF vars, parseVars, Reading, Whole
<1>4. CASE phase' # "parse"
  BY <1>4 DEF Reading
<1>5. ParseQuestion \/ CopyQuestion \/ Resolve \/ EncodeAnswer \/ BreakOff \/ NotImplemented
      \/ FinishAnswers \/ Send => phase' # "parse" \/ EncodeAnswer
  BY DEF ParseQuestion, CopyQuestion, Resolve, BreakOff, NotImplemented, FinishAnswers, Send, Return
<1>6. EncodeAnswer => phase' # "parse"
  BY DEF EncodeAnswer
<1> QED BY <1>1, <1>2, <1>3, <1>4, <1>5, <1>6 DEF Next

\* Every name the encoder can write is read completely by the parser, whatever
\* the name, if the datagram holds the whole question.
THEOREM ReadsEveryEncodedName == Spec => ReadsWhatItWrites
<1> DEFINE name == domainToDNSFormat(packet.labels)
           Read == phase = "parse" /\ phase' # "parse" /\ Whole(packet) /\ name # Malformed
                   => /\ phase' = "header"
                      /\ query_len' = name + 4
                      /\ j' = name - 2
                      /\ type' = packet.type
<1>1. IInv /\ Reading /\ [Next]_vars => [Read]_vars
  <2> SUFFICES ASSUME IInv, Reading, Next, phase = "parse", phase' # "parse", Whole(packet), name # Malformed
               PROVE  /\ phase' = "header" /\ query_len' = name + 4
                      /\ j' = name - 2 /\ type' = packet.type
    BY DEF vars
  <2>1. packet \in Packets /\ packet.labels \in Seq(Nat) /\ packet.size \in Nat
    <3>1. packet \in Packets
      BY DEF IInv, TypeOK, Parsing
    <3> QED BY <3>1, PacketType
  <2>2. PICK f \in [0 .. Len(packet.labels) -> Nat] : Bytes(f, packet.labels)
    BY <2>1, BytesExist
  <2>3. ParseLabel \/ ParseQuestion
    BY DEF Next, Receive, CopyQuestion, Resolve, EncodeAnswer, BreakOff, NotImplemented,
       FinishAnswers, Send
  <2>4. /\ name = f[Len(packet.labels)] + 1 /\ f[Len(packet.labels)] >= 2
         /\ i = HeaderSize + f[label - 1] /\ j = f[label - 1]
         /\ Terminator(packet) = HeaderSize + f[Len(packet.labels)]
         /\ \/ label = Len(packet.labels) + 1 /\ ~ AtLabel
            \/ /\ label \in 1 .. Len(packet.labels) /\ AtLabel
               /\ f[label] = j + 1 + packet.labels[label]
               /\ f[label] <= f[Len(packet.labels)] /\ f[label] < DomainSize
               /\ packet.labels[label] \in 1 .. MaxLabel
    BY <2>1, <2>2, AtLabelOrEnd
  <2>5. PICK L \in Nat : L = Len(packet.labels) /\ f[L] \in Nat /\ j \in Nat
    <3>1. Len(packet.labels) \in Nat /\ j \in Nat
      BY <2>1, PacketType DEF IInv, TypeOK
    <3> QED BY <3>1
  <2>6. HeaderSize + f[L] + 5 <= packet.size
    BY <2>4, <2>5 DEF Whole
  <2> HIDE DEF name
  <2>7. ~ ParseLabel
    <3> SUFFICES ASSUME ParseLabel PROVE FALSE
      OBVIOUS
    <3>1. packet.labels[label] > MaxLabel \/ i + 1 + packet.labels[label] > packet.size
      BY DEF ParseLabel
    <3>2. /\ AtLabel /\ f[label] = j + 1 + packet.labels[label] /\ f[label] <= f[L]
          /\ packet.labels[label] \in 1 .. MaxLabel /\ i = HeaderSize + j
      BY <2>4, <2>5 DEF ParseLabel
    <3>3. packet.labels[label] \in Nat /\ packet.labels[label] <= MaxLabel
      BY <3>2, LabelBytes
    <3>4. i + 1 + packet.labels[label] > packet.size
      BY <3>1, <3>3 DEF MaxLabel
    <3> QED BY <2>1, <2>5, <2>6, <3>2, <3>3, <3>4, SMTT(30) DEF HeaderSize
  <2>8. CASE ParseQuestion
    <3>1. ~ AtLabel /\ label - 1 = L
      BY <2>4, <2>5, <2>8 DEF ParseQuestion
    <3>2. j = f[L] /\ i = Terminator(packet) /\ i = HeaderSize + j /\ name = j + 1 /\ j >= 2
      BY <2>4, <2>5, <3>1
    <3>3. ~ (j = 0 \/ i + 5 > packet.size)
      BY <2>1, <2>5, <2>6, <3>2, SMTT(30) DEF HeaderSize
    <3>4. phase' = "header" /\ j' = j - 1 /\ query_len' = i + 5 - HeaderSize /\ type' \in {packet.type}
      BY <2>8, <3>2, <3>3 DEF ParseQuestion
    <3>5. \A n, p \in Nat : p = HeaderSize + n => p + 5 - HeaderSize = n + 1 + 4
      BY DEF HeaderSize
    <3>6. \A n \in Nat : n - 1 = n + 1 - 2
      OBVIOUS
    <3>7. j \in Nat /\ i \in Nat
      BY <2>5, <3>2 DEF HeaderSize
    <3>8. query_len' = name + 4
      BY <3>2, <3>4, <3>5, <3>7
    <3>9. j' = name - 2
      BY <3>2, <3>4, <3>6, <3>7
    <3> QED BY <3>4, <3>8, <3>9
  <2> QED BY <2>3, <2>7, <2>8
<1>2. Spec => [][Read]_vars
  BY <1>1, InitInvariant, StepInvariant, InitReading, ReadingStep, PTL DEF Spec
<1> QED BY <1>2 DEF ReadsWhatItWrites

=============================================================================
