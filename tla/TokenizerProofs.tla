-------------------------- MODULE TokenizerProofs --------------------------
(***************************************************************************)
(* The properties of Tokenizer, proved for any names, requests and token.  *)
(***************************************************************************)
EXTENDS Tokenizer, SequenceTheorems, FiniteSetTheorems, FunctionTheorems, NatRecursion, TLAPS

(***************************************************************************)
(* Scanning.                                                               *)
(***************************************************************************)
Chars == {NUL} \cup UNION {ToSet(s) : s \in Names \cup Requests}

LEMMA NulIsChar == NUL \in Chars
BY Zenon DEF Chars

LEMMA TextsAreStrings ==
  ASSUME NEW s \in Names \cup Requests
  PROVE  /\ s \in Seq(Chars) /\ Len(s) \in Nat
         /\ \A i \in 1 .. Len(s) : s[i] # NUL
         /\ 0 .. Len(s) \subseteq Lengths
<1>1. s \in Seq(ToSet(s) \ {NUL})
  BY TokenizerAssumption
<1>2. ToSet(s) \ {NUL} \subseteq Chars
  BY DEF Chars
<1>. QED  BY <1>1, <1>2 DEF Lengths

LEMMA LengthsDown ==
  ASSUME NEW n \in Lengths
  PROVE  n \in Nat /\ 0 .. n \subseteq Lengths
<1>1. CASE n = 0
  BY <1>1 DEF Lengths
<1>2. CASE n # 0
  <2>1. PICK s \in Names \cup Requests : n \in 0 .. Len(s)
    BY <1>2 DEF Lengths
  <2>2. Len(s) \in Nat /\ 0 .. Len(s) \subseteq Lengths
    BY TextsAreStrings
  <2>. QED  BY <2>1, <2>2
<1>. QED  BY <1>1, <1>2

\* A set of numbers has a Min, and it is a least member.
LEMMA MinIs ==
  ASSUME NEW S \in SUBSET Nat, S # {}
  PROVE  /\ Min(S) \in S
         /\ \A n \in S : Min(S) <= n
         /\ \A m \in S : (\A n \in S : m <= n) => m = Min(S)
<1>1. \E m \in S : \A n \in S : m <= n
  BY LeastNumber
<1>2. Min(S) \in S /\ \A n \in S : Min(S) <= n
  BY <1>1 DEF Min
<1>3. ASSUME NEW m \in S, \A n \in S : m <= n PROVE m = Min(S)
  <2>1. m <= Min(S) /\ Min(S) <= m /\ m \in Nat /\ Min(S) \in Nat
    BY <1>2, <1>3
  <2>. QED  BY <2>1
<1>. QED  BY <1>2, <1>3

\* strcspn stops at the first character among stops, at the latest behind the text.
LEMMA FirstInIs ==
  ASSUME NEW s \in Seq(Chars), NEW i \in Nat \ {0}, NEW stops, NUL \in stops
  PROVE  /\ FirstIn(s, i, stops) \in Nat /\ FirstIn(s, i, stops) >= i
         /\ FirstIn(s, i, stops) <= Len(s) + 1 \/ FirstIn(s, i, stops) = i
         /\ At(s, FirstIn(s, i, stops)) \in stops
         /\ \A k \in i .. FirstIn(s, i, stops) - 1 : At(s, k) \notin stops
<1> DEFINE S == {j \in i .. i + Len(s) + 1 : At(s, j) \in stops}
           m == IF i <= Len(s) THEN Len(s) + 1 ELSE i
<1>1. Len(s) \in Nat
  OBVIOUS
<1>2. m \in i .. i + Len(s) + 1 /\ At(s, m) = NUL
  BY <1>1 DEF At
<1>3. m \in S /\ S \in SUBSET Nat
  BY <1>1, <1>2
<1>4. FirstIn(s, i, stops) = Min(S)
  BY DEF FirstIn
<1> HIDE DEF S
<1>5. FirstIn(s, i, stops) \in S /\ \A n \in S : FirstIn(s, i, stops) <= n
  BY <1>3, <1>4, MinIs
<1>6. FirstIn(s, i, stops) <= m
  BY <1>3, <1>5
<1>. QED  BY <1>1, <1>5, <1>6 DEF S

LEMMA FirstNotInIs ==
  ASSUME NEW s \in Seq(Chars), NEW i \in Nat \ {0}, NEW passed, NUL \notin passed
  PROVE  /\ FirstNotIn(s, i, passed) \in Nat /\ FirstNotIn(s, i, passed) >= i
         /\ FirstNotIn(s, i, passed) <= Len(s) + 1 \/ FirstNotIn(s, i, passed) = i
         /\ At(s, FirstNotIn(s, i, passed)) \notin passed
         /\ \A k \in i .. FirstNotIn(s, i, passed) - 1 : At(s, k) \in passed
<1> DEFINE S == {j \in i .. i + Len(s) + 1 : At(s, j) \notin passed}
           m == IF i <= Len(s) THEN Len(s) + 1 ELSE i
<1>1. Len(s) \in Nat
  OBVIOUS
<1>2. m \in i .. i + Len(s) + 1 /\ At(s, m) = NUL
  BY <1>1 DEF At
<1>3. m \in S /\ S \in SUBSET Nat
  BY <1>1, <1>2
<1>4. FirstNotIn(s, i, passed) = Min(S)
  BY DEF FirstNotIn
<1> HIDE DEF S
<1>5. FirstNotIn(s, i, passed) \in S /\ \A n \in S : FirstNotIn(s, i, passed) <= n
  BY <1>3, <1>4, MinIs
<1>6. FirstNotIn(s, i, passed) <= m
  BY <1>3, <1>5
<1>. QED  BY <1>1, <1>5, <1>6 DEF S

(***************************************************************************)
(* Types.                                                                  *)
(***************************************************************************)
Positions == [of : Threads, at : {n + 1 : n \in Lengths}]

\* The most words a thread asks for: labels[] and one more, or those of ADD.
Limit(t) == IF t = "main" THEN MaxLabels + 1 ELSE 6

Typed ==
  /\ text \in [Threads -> Seq(Chars)]
  /\ \A t \in Threads : Len(text[t]) \in Lengths
  /\ asked \in [Threads -> Names \cup Requests \cup {NULL}]
  /\ asked["main"] \in Names \cup {NULL} /\ asked["mgmt"] \in Requests \cup {NULL}
  /\ words \in [Threads -> Seq(Pointer \cup {NULL})]
  /\ from \in [Threads -> Positions \cup {NULL}]
  /\ olds \in Positions \cup {NULL}
  /\ outcome = [t \in Threads |-> outcome[t]]
  /\ disturbed \in [Threads -> BOOLEAN]

\* A thread that has nothing to cut has no words; one that is about to scan is
\* at work and has room for another word.
AtWork ==
  \A t \in Threads :
    /\ asked[t] = NULL => words[t] = <<>> /\ outcome[t] = NULL
    /\ Len(words[t]) <= Limit(t)
    /\ from[t] # NULL => Working(t) /\ Len(words[t]) < Limit(t)

TypesInv == Typed /\ AtWork

LEMMA TypesImplyTypeOK == TypesInv => TypeOK
<1> SUFFICES ASSUME TypesInv PROVE TypeOK
  OBVIOUS
<1> USE DEF TypesInv, Typed, AtWork
<1>1. "main" \in Threads /\ "mgmt" \in Threads /\ \A t \in Threads : t = "main" \/ t = "mgmt"
  BY DEF Threads
<1>2. ASSUME NEW t \in Threads, NEW p \in {from[t], olds} \ {NULL}
      PROVE  p.of \in Threads /\ p.at - 1 \in Lengths
  <2>1. p \in Positions
    OBVIOUS
  <2>2. PICK n \in Lengths : p.at = n + 1
    BY <2>1 DEF Positions
  <2>3. n \in Nat
    BY LengthsDown
  <2>. QED  BY <2>1, <2>2, <2>3 DEF Positions
<1>3. ASSUME NEW t \in Threads, NEW i \in DOMAIN words[t]
      PROVE  words[t][i] \in Pointer \cup {NULL}
  OBVIOUS
<1>. QED  BY <1>1, <1>2, <1>3 DEF TypeOK, Limit

LEMMA InitTypes == Init => TypesInv
<1> SUFFICES ASSUME Init PROVE TypesInv
  OBVIOUS
<1>1. <<>> \in Seq(Chars) /\ <<>> \in Seq(Pointer \cup {NULL}) /\ Len(<<>>) = 0
  OBVIOUS
<1>2. 0 \in Lengths
  BY DEF Lengths
<1>3. \A t \in Threads : Limit(t) \in Nat \ {0}
  BY TokenizerAssumption DEF Limit
<1>4. Typed
  BY <1>1, <1>2 DEF Init, Typed, Threads
<1>5. AtWork
  <2> SUFFICES ASSUME NEW t \in Threads
               PROVE  words[t] = <<>> /\ outcome[t] = NULL /\ from[t] = NULL /\ 0 <= Limit(t)
    BY <1>1 DEF AtWork
  <2>. QED  BY <1>3 DEF Init
<1>. QED  BY <1>4, <1>5 DEF TypesInv

LEMMA BeginTypes ==
  ASSUME TypesInv, NEW t \in Threads, NEW s,
         t = "main" => s \in Names, t = "mgmt" => s \in Requests, Begin(t, s)
  PROVE  TypesInv'
<1> USE DEF TypesInv
<1>1. s \in Names \cup Requests /\ s \in Seq(Chars) /\ Len(s) \in Lengths /\ s # NULL
  <2>1. s \in Names \cup Requests
    BY DEF Threads
  <2>2. s \in Seq(Chars) /\ Len(s) \in Nat /\ 0 .. Len(s) \subseteq Lengths
    BY <2>1, TextsAreStrings
  <2>. QED  BY <2>1, <2>2, NullAssumption
<1>2. [of |-> t, at |-> 1] \in Positions /\ [of |-> t, at |-> 1] # NULL
  <2>1. 0 \in Lengths /\ 1 = 0 + 1
    BY DEF Lengths
  <2>. QED  BY <2>1, NullAssumption DEF Positions
<1>3. Typed'
  BY <1>1, <1>2 DEF Begin, Typed, Threads
<1>4. ASSUME NEW u \in Threads
      PROVE  /\ asked[u]' = NULL => words[u]' = <<>> /\ outcome[u]' = NULL
             /\ Len(words[u]') <= Limit(u)
             /\ from[u]' # NULL => Working(u)' /\ Len(words[u]') < Limit(u)
  <2>1. CASE u = t
    <3>1. words[t] = <<>> /\ outcome[t] = NULL /\ asked'[t] = s /\ words' = words /\ outcome' = outcome
      BY DEF Begin, AtWork, Typed
    <3>2. Limit(t) \in Nat \ {0}
      BY TokenizerAssumption DEF Limit
    <3>. QED  BY <1>1, <2>1, <3>1, <3>2 DEF Working
  <2>2. CASE u # t
    BY <2>2 DEF Begin, AtWork, Typed, Working
  <2>. QED  BY <2>1, <2>2
<1>5. AtWork'
  BY <1>4 DEF AtWork, Limit
<1>. QED  BY <1>3, <1>5

\* Where a call of strtok finds a word, and where that ends.
Start(t) == FirstNotIn(text[from[t].of], from[t].at, Delimiters(t))

End(t) == FirstIn(text[from[t].of], Start(t), Delimiters(t) \cup {NUL})

LEMMA ScanInText ==
  ASSUME Typed, NEW t \in Threads, from[t] # NULL
  PROVE  /\ from[t].of \in Threads /\ from[t].at \in Nat \ {0} /\ from[t].at - 1 \in Lengths
         /\ text[from[t].of] \in Seq(Chars)
         /\ Start(t) \in Nat \ {0} /\ End(t) \in Nat \ {0}
         /\ from[t].at <= Start(t) /\ Start(t) <= End(t)
         /\ End(t) <= Len(text[from[t].of]) + 1 \/ End(t) = from[t].at
         /\ At(text[from[t].of], Start(t)) \notin Delimiters(t)
         /\ \A k \in from[t].at .. Start(t) - 1 : At(text[from[t].of], k) \in Delimiters(t)
         /\ At(text[from[t].of], End(t)) \in Delimiters(t) \cup {NUL}
         /\ \A k \in Start(t) .. End(t) - 1 : At(text[from[t].of], k) \notin Delimiters(t) \cup {NUL}
<1> DEFINE b == from[t].of
           i == from[t].at
<1>1. from[t] \in Positions
  BY DEF Typed
<1>2. PICK n \in Lengths : i = n + 1
  BY <1>1 DEF Positions
<1>3. n \in Nat
  BY LengthsDown
<1>4. b \in Threads /\ i \in Nat \ {0} /\ i - 1 \in Lengths
  BY <1>1, <1>2, <1>3 DEF Positions
<1>5. text[b] \in Seq(Chars)
  BY <1>4 DEF Typed
<1>6. NUL \notin Delimiters(t)
  BY DEF Delimiters, Whitespace, NUL
<1> HIDE DEF b, i
<1>7. /\ Start(t) \in Nat /\ Start(t) >= i
      /\ Start(t) <= Len(text[b]) + 1 \/ Start(t) = i
      /\ At(text[b], Start(t)) \notin Delimiters(t)
      /\ \A k \in i .. Start(t) - 1 : At(text[b], k) \in Delimiters(t)
  BY <1>4, <1>5, <1>6, FirstNotInIs DEF Start, b, i
<1>8. Start(t) \in Nat \ {0}
  BY <1>4, <1>7
<1>9. /\ End(t) \in Nat /\ End(t) >= Start(t)
      /\ End(t) <= Len(text[b]) + 1 \/ End(t) = Start(t)
      /\ At(text[b], End(t)) \in Delimiters(t) \cup {NUL}
      /\ \A k \in Start(t) .. End(t) - 1 : At(text[b], k) \notin Delimiters(t) \cup {NUL}
  BY <1>5, <1>8, FirstInIs DEF End, b
<1>10. End(t) \in Nat \ {0} /\ (End(t) <= Len(text[b]) + 1 \/ End(t) = i)
  BY <1>7, <1>8, <1>9
<1>. QED  BY <1>4, <1>5, <1>7, <1>8, <1>9, <1>10 DEF b, i

\* A step of strtok, in these terms.
LEMMA ScanSays ==
  ASSUME Typed, NEW t \in Threads, Scan(t)
  PROVE  LET b == from[t].of
             ended == At(text[b], End(t)) = NUL
         IN  /\ Working(t) /\ from[t] # NULL
             /\ words' = [words EXCEPT ![t] = Append(@,
                             IF Start(t) = End(t) THEN NULL ELSE [of |-> b, at |-> Start(t)])]
             /\ text' = IF ended THEN text ELSE [text EXCEPT ![b][End(t)] = NUL]
             /\ olds' = [of |-> b, at |-> IF ended THEN End(t) ELSE End(t) + 1]
             /\ from' = [from EXCEPT ![t] = NULL]
             /\ disturbed' = [disturbed EXCEPT ![Other(t)] = TRUE]
             /\ UNCHANGED <<asked, outcome>>
BY Zenon DEF Scan, Start, End

LEMMA ScanTypes ==
  ASSUME TypesInv, NEW t \in Threads, Scan(t)
  PROVE  TypesInv'
<1> DEFINE b == from[t].of
           s == text[b]
           word == IF Start(t) = End(t) THEN NULL ELSE [of |-> b, at |-> Start(t)]
           ended == At(s, End(t)) = NUL
           place == IF ended THEN End(t) ELSE End(t) + 1
<1>1. Typed /\ AtWork
  BY DEF TypesInv
<1>2. /\ Working(t) /\ from[t] # NULL
      /\ words' = [words EXCEPT ![t] = Append(@, word)]
      /\ text' = IF ended THEN text ELSE [text EXCEPT ![b][End(t)] = NUL]
      /\ olds' = [of |-> b, at |-> place]
      /\ from' = [from EXCEPT ![t] = NULL]
      /\ disturbed' = [disturbed EXCEPT ![Other(t)] = TRUE]
      /\ UNCHANGED <<asked, outcome>>
  BY <1>1, ScanSays
<1>3. /\ b \in Threads /\ from[t].at \in Nat \ {0} /\ from[t].at - 1 \in Lengths
      /\ s \in Seq(Chars)
      /\ Start(t) \in Nat \ {0} /\ End(t) \in Nat \ {0}
      /\ from[t].at <= Start(t) /\ Start(t) <= End(t)
      /\ End(t) <= Len(s) + 1 \/ End(t) = from[t].at
  BY <1>1, <1>2, ScanInText
<1>4. Len(s) \in Lengths /\ Len(s) \in Nat /\ 0 .. Len(s) \subseteq Lengths
  BY <1>1, <1>3, LengthsDown DEF Typed
<1> HIDE DEF b, s
<1>5. ~ ended => End(t) \in 1 .. Len(s)
  BY <1>3, <1>4 DEF At
<1>6. word \in Pointer \cup {NULL}
  <2> SUFFICES ASSUME Start(t) # End(t) PROVE Start(t) \in Lengths \ {0}
    BY <1>3 DEF Pointer
  <2>1. Start(t) < End(t) /\ Start(t) <= Len(s)
    BY <1>3, <1>4
  <2>. QED  BY <1>3, <1>4, <2>1
<1>7. [of |-> b, at |-> place] \in Positions
  <2>1. place - 1 \in Lengths
    BY <1>3, <1>4, <1>5
  <2>2. place = (place - 1) + 1
    BY <1>3
  <2>. QED  BY <1>3, <2>1, <2>2 DEF Positions
<1>8. text' \in [Threads -> Seq(Chars)] /\ \A u \in Threads : Len(text'[u]) = Len(text[u])
  <2>1. CASE ended
    BY <1>1, <1>2, <2>1 DEF Typed
  <2>2. CASE ~ ended
    <3>1. NUL \in Chars
      BY NulIsChar
    <3>2. [s EXCEPT ![End(t)] = NUL] \in Seq(Chars) /\ Len([s EXCEPT ![End(t)] = NUL]) = Len(s)
      BY <1>3, <1>5, <2>2, <3>1
    <3>3. text' = [text EXCEPT ![b] = [s EXCEPT ![End(t)] = NUL]]
      BY <1>2, <2>2 DEF s
    <3>. QED  BY <1>1, <1>3, <3>2, <3>3 DEF Typed, s
  <2>. QED  BY <2>1, <2>2
<1>9. words' \in [Threads -> Seq(Pointer \cup {NULL})] /\ Len(words'[t]) = Len(words[t]) + 1
  <2>1. words[t] \in Seq(Pointer \cup {NULL}) /\ words \in [Threads -> Seq(Pointer \cup {NULL})]
    BY <1>1 DEF Typed
  <2> HIDE DEF word
  <2>2. Append(words[t], word) \in Seq(Pointer \cup {NULL})
        /\ Len(Append(words[t], word)) = Len(words[t]) + 1
    BY <1>6, <2>1
  <2>. QED  BY <1>2, <2>1, <2>2
<1>10. Typed'
  <2> HIDE DEF word, place, ended
  <2>. QED  BY <1>1, <1>2, <1>7, <1>8, <1>9 DEF Typed, Threads
<1>11. ASSUME NEW u \in Threads
       PROVE  /\ asked[u]' = NULL => words[u]' = <<>> /\ outcome[u]' = NULL
              /\ Len(words[u]') <= Limit(u)
              /\ from[u]' # NULL => Working(u)' /\ Len(words[u]') < Limit(u)
  <2> HIDE DEF word, place, ended
  <2>1. CASE u = t
    <3>1. asked[t] # NULL /\ asked' = asked /\ from'[t] = NULL
      BY <1>1, <1>2 DEF Working, Typed
    <3>2. Len(words[t]) < Limit(t) /\ Len(words[t]) \in Nat /\ Limit(t) \in Nat
      BY <1>1, <1>2, TokenizerAssumption DEF AtWork, Limit, Typed
    <3>. QED  BY <1>9, <2>1, <3>1, <3>2
  <2>2. CASE u # t
    BY <1>1, <1>2, <2>2 DEF AtWork, Typed, Working
  <2>. QED  BY <2>1, <2>2
<1>12. AtWork'
  BY <1>11 DEF AtWork, Limit
<1>. QED  BY <1>10, <1>12 DEF TypesInv

LEMMA OtherTypes ==
  ASSUME TypesInv,
         \/ TryWildcards \/ RunCommand \/ UNCHANGED vars
         \/ \E t \in Threads : ReadPosition(t) \/ Finish(t)
  PROVE  TypesInv'
<1>0. Typed /\ AtWork
  BY DEF TypesInv
<1>1. ASSUME NEW t \in Threads, ReadPosition(t) PROVE TypesInv'
  <2>1. Len(words[t]) < Limit(t)
    <3>1. CallsLeft(t) /\ Len(words[t]) \in Nat /\ MaxLabels \in Nat
      BY <1>0, <1>1, TokenizerAssumption DEF ReadPosition, Typed
    <3>2. CASE t = "main"
      <4>1. words[t] = <<>> => Len(words[t]) = 0
        OBVIOUS
      <4>2. words[t] = <<>> \/ Len(words[t]) <= MaxLabels
        BY <3>1, <3>2 DEF CallsLeft
      <4>. QED  BY <3>1, <3>2, <4>1, <4>2 DEF Limit
    <3>3. CASE t # "main"
      <4>1. t = "mgmt" /\ Wanted \in {1, 2, 5, 6}
        BY <3>3 DEF Threads, Wanted
      <4>. QED  BY <3>1, <4>1 DEF CallsLeft, Limit
    <3>. QED  BY <3>2, <3>3
  <2>2. Typed'
    BY <1>0, <1>1 DEF ReadPosition, Typed
  <2>3. AtWork'
    <3> SUFFICES ASSUME NEW u \in Threads
        PROVE  /\ asked[u]' = NULL => words[u]' = <<>> /\ outcome[u]' = NULL
               /\ Len(words[u]') <= Limit(u)
               /\ from[u]' # NULL => Working(u)' /\ Len(words[u]') < Limit(u)
      BY DEF AtWork, Limit
    <3>. QED  BY <1>0, <1>1, <2>1 DEF ReadPosition, Typed, AtWork, Working
  <2>. QED  BY <2>2, <2>3 DEF TypesInv
<1>2. ASSUME NEW t \in Threads, Finish(t) PROVE TypesInv'
  <2>1. <<>> \in Seq(Chars) /\ <<>> \in Seq(Pointer \cup {NULL}) /\ Len(<<>>) = 0 /\ 0 \in Lengths
    BY DEF Lengths
  <2>2. text' \in [Threads -> Seq(Chars)] /\ \A u \in Threads : Len(text'[u]) \in Lengths
    <3>1. text' = text \/ text' = [text EXCEPT ![t] = <<>>]
      BY <1>2 DEF Finish
    <3>. QED  BY <1>0, <2>1, <3>1 DEF Typed
  <2>3. Typed'
    <3>1. /\ asked' = [asked EXCEPT ![t] = NULL] /\ words' = [words EXCEPT ![t] = <<>>]
          /\ outcome' = [outcome EXCEPT ![t] = NULL] /\ UNCHANGED <<from, olds, disturbed>>
      BY <1>2 DEF Finish
    <3>. QED  BY <1>0, <2>1, <2>2, <3>1 DEF Typed, Threads
  <2>4. Limit(t) \in Nat \ {0}
    BY TokenizerAssumption DEF Limit
  <2>5. from[t] = NULL
    BY <1>0, <1>2 DEF Finish, AtWork, Working
  <2>6. AtWork'
    <3> SUFFICES ASSUME NEW u \in Threads
        PROVE  /\ asked[u]' = NULL => words[u]' = <<>> /\ outcome[u]' = NULL
               /\ Len(words[u]') <= Limit(u)
               /\ from[u]' # NULL => Working(u)' /\ Len(words[u]') < Limit(u)
      BY DEF AtWork, Limit
    <3>1. CASE u = t
      BY <1>0, <1>2, <2>1, <2>4, <2>5, <3>1 DEF Finish, Typed
    <3>2. CASE u # t
      BY <1>0, <1>2, <3>2 DEF Finish, Typed, AtWork, Working
    <3>. QED  BY <3>1, <3>2
  <2>. QED  BY <2>3, <2>6 DEF TypesInv
<1>3. ASSUME NEW t \in Threads, NEW x, asked[t] # NULL, from[t] = NULL,
             outcome' = [outcome EXCEPT ![t] = x],
             UNCHANGED <<text, asked, words, from, olds, disturbed>>
      PROVE  TypesInv'
  <2>1. Typed'
    BY <1>0, <1>3 DEF Typed
  <2>2. AtWork'
    <3> SUFFICES ASSUME NEW u \in Threads
        PROVE  /\ asked[u]' = NULL => words[u]' = <<>> /\ outcome[u]' = NULL
               /\ Len(words[u]') <= Limit(u)
               /\ from[u]' # NULL => Working(u)' /\ Len(words[u]') < Limit(u)
      BY DEF AtWork, Limit
    <3>1. CASE u = t
      BY <1>0, <1>3, <3>1 DEF Typed, AtWork
    <3>2. CASE u # t
      BY <1>0, <1>3, <3>2 DEF Typed, AtWork, Working
    <3>. QED  BY <3>1, <3>2
  <2>. QED  BY <2>1, <2>2 DEF TypesInv
<1>4. "main" \in Threads /\ "mgmt" \in Threads
  BY DEF Threads
<1>5. CASE TryWildcards
  BY <1>3, <1>4, <1>5, Zenon DEF TryWildcards, Working
<1>6. CASE RunCommand
  BY <1>3, <1>4, <1>6, Zenon DEF RunCommand, Working
<1>7. CASE UNCHANGED vars
  BY <1>0, <1>7 DEF vars, TypesInv, Typed, AtWork, Working, Limit
<1>. QED  BY <1>1, <1>2, <1>5, <1>6, <1>7

LEMMA NextTypes == TypesInv /\ [Next]_vars => TypesInv'
<1> SUFFICES ASSUME TypesInv, [Next]_vars PROVE TypesInv'
  OBVIOUS
<1>1. "main" \in Threads /\ "mgmt" \in Threads
  BY DEF Threads
<1>2. ASSUME NEW s \in Names, Begin("main", s) PROVE TypesInv'
  <2>1. ("main" = "main" => s \in Names) /\ ("main" = "mgmt" => s \in Requests)
    OBVIOUS
  <2>. QED  BY <1>1, <1>2, <2>1, BeginTypes
<1>3. ASSUME NEW s \in Requests, Begin("mgmt", s) PROVE TypesInv'
  <2>1. ("mgmt" = "main" => s \in Names) /\ ("mgmt" = "mgmt" => s \in Requests)
    OBVIOUS
  <2>. QED  BY <1>1, <1>3, <2>1, BeginTypes
<1>. QED  BY <1>2, <1>3, ScanTypes, OtherTypes DEF Next

\* Every word starts within a text, there are no more of them than there is
\* room for, and strtok's position is one within or just behind a text.
THEOREM TypeCorrect == Spec => []TypeOK
<1>1. Init => TypesInv
  BY InitTypes
<1>2. TypesInv /\ [Next]_vars => TypesInv'
  BY NextTypes
<1>3. TypesInv => TypeOK
  BY TypesImplyTypeOK
<1>. QED  BY <1>1, <1>2, <1>3, PTL DEF Spec

(***************************************************************************)
(* What calls of t that the other thread's do not come between have done.  *)
(***************************************************************************)
Undisturbed(t) == asked[t] # NULL /\ ~ disturbed[t]

\* The characters the nth call of t stops at.
Stops(t, n) == IF t = "main" THEN {"."} ELSE IF n = 6 THEN {"\n"} ELSE Whitespace

\* All words but the value of ADD are cut by the same characters.
Regular(t, n) == t = "main" \/ n <= 5

\* Where the next call goes on.
Place(t) == IF words[t] = <<>> THEN 1 ELSE olds.at

\* From there on nothing is cut yet.
TextKept(t) ==
  /\ Len(text[t]) = Len(asked[t])
  /\ Place(t) \in 1 .. Len(asked[t]) + 1
  /\ IF words[t] = <<>> THEN from[t] = [of |-> t, at |-> 1]
                        ELSE olds = [of |-> t, at |-> olds.at] /\ from[t] \in {NULL, olds}
  /\ \A i \in Place(t) .. Len(asked[t]) : text[t][i] = asked[t][i]

WordEnd(t, n) == RunEnd(asked[t], words[t][n].at, Stops(t, n))

\* The nth word is a run of the text as it was, and ends where that does.
WordKept(t, n) ==
  /\ words[t][n] = [of |-> t, at |-> words[t][n].at]
  /\ words[t][n].at \in 1 .. Len(asked[t])
  /\ asked[t][words[t][n].at] \notin Stops(t, n)
  /\ \A i \in words[t][n].at .. WordEnd(t, n) : text[t][i] = asked[t][i]
  /\ WordEnd(t, n) = Len(asked[t]) \/ text[t][WordEnd(t, n) + 1] = NUL
  /\ WordEnd(t, n) < Place(t)

WordsKept(t) == \A n \in 1 .. Len(words[t]) : words[t][n] # NULL => WordKept(t, n)

Starts(t) == RunStarts(asked[t], Stops(t, 1))

\* Where the first n words start.
Found(t, n) == {words[t][j].at : j \in {k \in 1 .. n : words[t][k] # NULL}}

\* The words are the runs of the text, in their order, and NULL after the last.
InOrder(t) ==
  \A n \in 1 .. Len(words[t]) : Regular(t, n) =>
    IF words[t][n] = NULL
    THEN Starts(t) = Found(t, n - 1)
    ELSE /\ words[t][n].at \in Starts(t)
         /\ {i \in Starts(t) : i < words[t][n].at} = Found(t, n - 1)
         /\ \A j \in 1 .. n : words[t][j] # NULL

\* The runs found are those before the place the next call goes on, which is
\* behind the delimiter that ended the last of them.
LastKept(t) ==
  LET n == Len(words[t]) IN
  /\ Regular(t, n) => {i \in Starts(t) : i < Place(t)} = Found(t, n)
  /\ n > 0 => Place(t) = IF words[t][n] = NULL \/ WordEnd(t, n) = Len(asked[t])
                         THEN Len(asked[t]) + 1 ELSE WordEnd(t, n) + 2

\* The value of ADD starts with the first of what is left of the line.
Left(t) == {i \in WordEnd(t, 5) + 2 .. Len(asked[t]) : asked[t][i] # "\n"}

ValueKept(t) ==
  t = "mgmt" /\ Len(words[t]) >= 6 /\ words[t][5] # NULL =>
    IF words[t][6] = NULL THEN Left(t) = {}
    ELSE words[t][6].at \in Left(t) /\ \A i \in Left(t) : words[t][6].at <= i

\* The calls made, or begun, are those the words found so far ask for.
Called(t) == IF from[t] = NULL THEN Len(words[t]) ELSE Len(words[t]) + 1

WordIs(t, n, w) == words[t][n] # NULL /\ Run(asked[t], words[t][n].at, Stops(t, n)) = w

CallsMeant(t) ==
  t = "mgmt" =>
    /\ Called(t) >= 2 => WordIs(t, 1, <<auth_token>>)
    /\ Called(t) >= 3 => WordIs(t, 2, <<"ADD">>) \/ WordIs(t, 2, <<"DELETE">>)
    /\ Called(t) >= 6 => WordIs(t, 2, <<"ADD">>)

Kept(t) ==
  TextKept(t) /\ WordsKept(t) /\ InOrder(t) /\ LastKept(t) /\ ValueKept(t) /\ CallsMeant(t)

KeptInv == \A t \in Threads : Undisturbed(t) => Kept(t)

LEMMA RunEndIs ==
  ASSUME NEW s \in Seq(Chars), NEW i \in 1 .. Len(s), NEW stops, s[i] \notin stops
  PROVE  /\ RunEnd(s, i, stops) \in i .. Len(s)
         /\ \A k \in i .. RunEnd(s, i, stops) : s[k] \notin stops
         /\ RunEnd(s, i, stops) = Len(s) \/ s[RunEnd(s, i, stops) + 1] \in stops
         /\ \A j \in i .. Len(s) :
              (\A k \in i .. j : s[k] \notin stops) /\ (j = Len(s) \/ s[j + 1] \in stops)
                => j = RunEnd(s, i, stops)
<1> DEFINE P(j) == (\A k \in i .. j : s[k] \notin stops) /\ (j = Len(s) \/ s[j + 1] \in stops)
           T == {j \in i .. Len(s) : j = Len(s) \/ s[j + 1] \in stops}
<1>1. Len(s) \in Nat
  OBVIOUS
<1>2. Len(s) \in T /\ T \in SUBSET Nat
  BY <1>1
<1>3. PICK m \in T : \A n \in T : m <= n
  BY <1>2, LeastNumber
<1>4. m \in i .. Len(s) /\ P(m)
  <2>1. ASSUME NEW k \in i .. m, s[k] \in stops PROVE FALSE
    <3>1. k # i /\ k - 1 \in i .. Len(s) /\ (k - 1) + 1 = k /\ k \in Int /\ m \in Int
      BY <1>1, <2>1
    <3>2. k - 1 \in T
      BY <2>1, <3>1
    <3>3. m <= k - 1
      BY <1>3, <3>2
    <3>. QED  BY <3>1, <3>3
  <2>. QED  BY <2>1
<1> HIDE DEF T
<1>5. RunEnd(s, i, stops) = CHOOSE j \in i .. Len(s) : P(j)
  BY DEF RunEnd
<1>6. RunEnd(s, i, stops) \in i .. Len(s) /\ P(RunEnd(s, i, stops))
  <2> HIDE DEF P
  <2>. QED  BY <1>4, <1>5
<1>7. ASSUME NEW j \in i .. Len(s), P(j), NEW m2 \in i .. Len(s), P(m2), j < m2 PROVE FALSE
  <2>1. j + 1 \in i .. m2 /\ j # Len(s)
    BY <1>1, <1>7
  <2>. QED  BY <1>7, <2>1
<1>8. ASSUME NEW j \in i .. Len(s), P(j) PROVE j = RunEnd(s, i, stops)
  <2> DEFINE e == RunEnd(s, i, stops)
  <2> HIDE DEF P, e
  <2>1. ~ (j < e) /\ ~ (e < j) /\ e \in i .. Len(s)
    BY <1>6, <1>7, <1>8 DEF e
  <2>2. j = e
    BY <2>1
  <2>. QED  BY <2>2 DEF e
<1>. QED  BY <1>6, <1>8

LEMMA SameSubSeq ==
  ASSUME NEW s \in Seq(Chars), NEW r \in Seq(Chars), NEW i \in Nat \ {0}, NEW j \in Nat,
         j <= Len(s), j <= Len(r), \A k \in i .. j : s[k] = r[k]
  PROVE  SubSeq(s, i, j) = SubSeq(r, i, j)
<1>1. SubSeq(s, i, j) = [k \in 1 .. j - i + 1 |-> s[i + k - 1]]
      /\ SubSeq(r, i, j) = [k \in 1 .. j - i + 1 |-> r[i + k - 1]]
  OBVIOUS
<1>2. \A k \in 1 .. j - i + 1 : i + k - 1 \in i .. j
  OBVIOUS
<1>3. [k \in 1 .. j - i + 1 |-> s[i + k - 1]] = [k \in 1 .. j - i + 1 |-> r[i + k - 1]]
  BY <1>2
<1>. QED  BY <1>1, <1>3

LEMMA AskedString ==
  ASSUME TypesInv, NEW t \in Threads, Undisturbed(t)
  PROVE  /\ asked[t] \in Seq(Chars) /\ Len(asked[t]) \in Nat
         /\ \A i \in 1 .. Len(asked[t]) : asked[t][i] # NUL
         /\ text[t] \in Seq(Chars) /\ words[t] \in Seq(Pointer \cup {NULL})
<1>1. asked[t] \in Names \cup Requests
  BY DEF TypesInv, Typed, Undisturbed
<1>. QED  BY <1>1, TextsAreStrings DEF TypesInv, Typed

LEMMA WordEndIs ==
  ASSUME TypesInv, NEW t \in Threads, Undisturbed(t), NEW n \in 1 .. Len(words[t]), WordKept(t, n)
  PROVE  LET s == asked[t]
             e == WordEnd(t, n)
             a == words[t][n].at
         IN  /\ e \in a .. Len(s) /\ a \in 1 .. Len(s) /\ a \in Nat /\ e \in Nat
             /\ \A k \in a .. e : s[k] \notin Stops(t, n)
             /\ e = Len(s) \/ s[e + 1] \in Stops(t, n)
<1>1. /\ asked[t] \in Seq(Chars) /\ Len(asked[t]) \in Nat
  BY AskedString
<1>2. words[t][n].at \in 1 .. Len(asked[t]) /\ asked[t][words[t][n].at] \notin Stops(t, n)
  BY DEF WordKept
<1> DEFINE s == asked[t]
           e == WordEnd(t, n)
           a == words[t][n].at
<1>3. /\ e \in a .. Len(s)
      /\ \A k \in a .. e : s[k] \notin Stops(t, n)
      /\ e = Len(s) \/ s[e + 1] \in Stops(t, n)
  BY <1>1, <1>2, RunEndIs DEF WordEnd
<1>4. a \in Nat /\ e \in Nat
  BY <1>1, <1>2, <1>3
<1>. QED  BY <1>2, <1>3, <1>4

\* A word that was kept reads as the run of the text.
LEMMA KeptReads ==
  ASSUME TypesInv, NEW t \in Threads, Undisturbed(t), TextKept(t),
         NEW n \in 1 .. Len(words[t]), WordKept(t, n)
  PROVE  StringAt(words[t][n]) = Run(asked[t], words[t][n].at, Stops(t, n))
<1> DEFINE s == asked[t]
           r == text[t]
           a == words[t][n].at
           e == WordEnd(t, n)
           f == FirstIn(r, a, {NUL})
<1>1. s \in Seq(Chars) /\ r \in Seq(Chars) /\ Len(s) \in Nat /\ Len(r) = Len(s)
      /\ \A i \in 1 .. Len(s) : s[i] # NUL
  BY AskedString DEF TextKept
<1>2. e \in a .. Len(s) /\ a \in 1 .. Len(s) /\ a \in Nat /\ e \in Nat
  BY WordEndIs
<1>3. (\A i \in a .. e : r[i] = s[i]) /\ (e = Len(s) \/ r[e + 1] = NUL) /\ words[t][n].of = t
  BY DEF WordKept
<1> HIDE DEF s, r, a, e
<1>4. /\ f \in Nat /\ f >= a
      /\ f <= Len(r) + 1 \/ f = a
      /\ At(r, f) \in {NUL}
      /\ \A k \in a .. f - 1 : At(r, k) \notin {NUL}
  <2>1. a \in Nat \ {0} /\ NUL \in {NUL}
    BY <1>1, <1>2
  <2>. QED  BY <1>1, <2>1, FirstInIs
<1> HIDE DEF f
<1>5. At(r, e + 1) = NUL
  BY <1>1, <1>2, <1>3 DEF At
<1>6. \A k \in a .. e : At(r, k) # NUL
  BY <1>1, <1>2, <1>3 DEF At
<1>7. f = e + 1
  <2>1. ~ (f <= e)
    <3>1. f <= e => f \in a .. e
      BY <1>2, <1>4
    <3>. QED  BY <1>4, <1>6, <3>1
  <2>2. ~ (f > e + 1)
    <3>1. f > e + 1 => e + 1 \in a .. f - 1
      BY <1>2, <1>4
    <3>. QED  BY <1>4, <1>5, <3>1
  <2>. QED  BY <1>2, <1>4, <2>1, <2>2
<1>8. StringAt(words[t][n]) = SubSeq(r, a, f - 1)
  BY <1>3 DEF StringAt, r, a, f
<1>9. f - 1 = e
  BY <1>2, <1>7
<1>10. SubSeq(r, a, e) = SubSeq(s, a, e)
  BY <1>1, <1>2, <1>3, SameSubSeq
<1>11. Run(s, a, Stops(t, n)) = SubSeq(s, a, e)
  BY DEF Run, WordEnd, s, a, e
<1>. QED  BY <1>8, <1>9, <1>10, <1>11 DEF s, a

(***************************************************************************)
(* Steps that leave the text and the words of t alone.                     *)
(***************************************************************************)
LEMMA WordsStay ==
  ASSUME NEW t \in Threads, asked'[t] = asked[t], words'[t] = words[t], text'[t] = text[t],
         words[t] = <<>> \/ olds' = olds,
         WordsKept(t), InOrder(t), LastKept(t), ValueKept(t)
  PROVE  Place(t)' = Place(t) /\ WordsKept(t)' /\ InOrder(t)' /\ LastKept(t)' /\ ValueKept(t)'
<1>1. Place(t)' = Place(t)
  BY DEF Place
<1>2. \A n : WordEnd(t, n)' = WordEnd(t, n)
  BY Zenon DEF WordEnd, Stops
<1>3. \A n : (WordKept(t, n) => WordKept(t, n)')
  BY <1>1, <1>2 DEF WordKept, Stops
<1>4. Starts(t)' = Starts(t) /\ \A n : Found(t, n)' = Found(t, n)
  BY Zenon DEF Starts, Stops, Found
<1>5. WordsKept(t)'
  BY <1>3 DEF WordsKept
<1>6. InOrder(t)'
  BY <1>4 DEF InOrder, Regular
<1>7. LastKept(t)'
  BY <1>1, <1>2, <1>4 DEF LastKept, Regular
<1>8. Left(t)' = Left(t)
  BY <1>2 DEF Left
<1>9. ValueKept(t)'
  BY <1>8 DEF ValueKept
<1>. QED  BY <1>1, <1>5, <1>6, <1>7, <1>9

LEMMA KeptStays ==
  ASSUME NEW t \in Threads, Kept(t), asked'[t] = asked[t], words'[t] = words[t], text'[t] = text[t],
         from'[t] = from[t], words[t] = <<>> \/ olds' = olds
  PROVE  Kept(t)'
<1>1. Place(t)' = Place(t) /\ WordsKept(t)' /\ InOrder(t)' /\ LastKept(t)' /\ ValueKept(t)'
  BY WordsStay DEF Kept
<1>2. TextKept(t)'
  BY <1>1 DEF Kept, TextKept
<1>3. Called(t)' = Called(t) /\ \A n, w : WordIs(t, n, w)' = WordIs(t, n, w)
  BY Zenon DEF Called, WordIs, Stops
<1>4. CallsMeant(t)'
  BY <1>3 DEF Kept, CallsMeant
<1>. QED  BY <1>1, <1>2, <1>4 DEF Kept

LEMMA BeginKept ==
  ASSUME TypesInv, NEW t \in Threads, NEW s \in Names \cup Requests, Begin(t, s)
  PROVE  Kept(t)'
<1>1. /\ words'[t] = <<>> /\ asked'[t] = s /\ text'[t] = s /\ from'[t] = [of |-> t, at |-> 1]
  BY DEF Begin, TypesInv, Typed, AtWork
<1>2. Len(s) \in Nat
  BY TextsAreStrings
<1>3. Place(t)' = 1 /\ Len(words[t])' = 0
  BY <1>1 DEF Place
<1>4. TextKept(t)'
  BY <1>1, <1>2, <1>3 DEF TextKept
<1>5. WordsKept(t)' /\ InOrder(t)' /\ ValueKept(t)'
  BY <1>3 DEF WordsKept, InOrder, ValueKept
<1>6. LastKept(t)'
  <2>1. \A i \in Starts(t)' : i \in Nat \ {0}
    BY <1>1, <1>2, TextsAreStrings DEF Starts, RunStarts
  <2>2. {i \in Starts(t)' : i < Place(t)'} = {}
    BY <1>3, <2>1
  <2>3. Found(t, 0)' = {}
    BY DEF Found
  <2>. QED  BY <1>3, <2>2, <2>3 DEF LastKept
<1>7. CallsMeant(t)'
  <2>1. Called(t)' <= 1
    BY <1>3 DEF Called
  <2>. QED  BY <1>3, <2>1 DEF CallsMeant, Called
<1>. QED  BY <1>4, <1>5, <1>6, <1>7 DEF Kept

\* What Wanted says of a request whose words were kept.
LEMMA WantedIs ==
  ASSUME TypesInv, Undisturbed("mgmt"), Kept("mgmt"), words["mgmt"] # <<>>
  PROVE  /\ Wanted \in {1, 2, 5, 6}
         /\ Wanted = 1 <=> ~ WordIs("mgmt", 1, <<auth_token>>)
         /\ Len(words["mgmt"]) = 1 => Wanted \in {1, 2}
         /\ Len(words["mgmt"]) >= 2 =>
              /\ Wanted = 6 <=> WordIs("mgmt", 1, <<auth_token>>) /\ WordIs("mgmt", 2, <<"ADD">>)
              /\ Wanted = 5 <=> WordIs("mgmt", 1, <<auth_token>>) /\ WordIs("mgmt", 2, <<"DELETE">>)
<1> DEFINE t == "mgmt"
           authentic == words[t][1] # NULL /\ StringAt(words[t][1]) = <<auth_token>>
<1>1. t \in Threads /\ words[t] \in Seq(Pointer \cup {NULL}) /\ Len(words[t]) \in Nat
  BY DEF TypesInv, Typed, Threads
<1>2. Len(words[t]) >= 1
  BY <1>1
<1>3. ASSUME NEW n \in 1 .. Len(words[t]), words[t][n] # NULL
      PROVE  StringAt(words[t][n]) = Run(asked[t], words[t][n].at, Stops(t, n))
  BY <1>1, <1>3, KeptReads DEF Kept, WordsKept
<1>4. authentic <=> WordIs(t, 1, <<auth_token>>)
  BY <1>1, <1>2, <1>3 DEF WordIs
<1>5. ASSUME Len(words[t]) >= 2, NEW w \in {<<"ADD">>, <<"DELETE">>}
      PROVE  Command = w <=> WordIs(t, 2, w)
  <2>1. 2 \in 1 .. Len(words[t])
    BY <1>1, <1>5
  <2>2. CASE words[t][2] = NULL
    BY <2>2 DEF Command, WordIs
  <2>3. CASE words[t][2] # NULL
    <3>1. Command = Run(asked[t], words[t][2].at, Stops(t, 2))
      BY <1>3, <2>1, <2>3 DEF Command
    <3>. QED  BY <2>3, <3>1 DEF WordIs
  <2>. QED  BY <2>2, <2>3
<1>6. CASE ~ authentic
  <2>1. Wanted = 1
    BY <1>6, Zenon DEF Wanted
  <2>. QED  BY <1>4, <1>6, <2>1
<1>7. CASE authentic /\ Len(words[t]) = 1
  <2>1. Wanted = 2
    BY <1>7 DEF Wanted
  <2>. QED  BY <1>1, <1>4, <1>7, <2>1
<1>8. CASE authentic /\ Len(words[t]) # 1
  <2>1. Wanted = IF Command = <<"ADD">> THEN 6 ELSE IF Command = <<"DELETE">> THEN 5 ELSE 2
    BY <1>8 DEF Wanted
  <2>2. Len(words[t]) >= 2 /\ <<"ADD">> # <<"DELETE">>
    BY <1>1, <1>2, <1>8
  <2>3. (Command = <<"ADD">> <=> WordIs(t, 2, <<"ADD">>))
        /\ (Command = <<"DELETE">> <=> WordIs(t, 2, <<"DELETE">>))
    BY <1>5, <2>2
  <2>. QED  BY <1>1, <1>4, <1>8, <2>1, <2>2, <2>3
<1>. QED  BY <1>6, <1>7, <1>8

LEMMA ReadPositionKept ==
  ASSUME TypesInv, NEW t \in Threads, Undisturbed(t), Kept(t), ReadPosition(t)
  PROVE  Kept(t)'
<1>1. /\ from[t] = NULL /\ CallsLeft(t) /\ from'[t] = olds
      /\ UNCHANGED <<text, asked, words, olds>>
  BY DEF ReadPosition, TypesInv, Typed
<1>2. words[t] # <<>>
  <2>1. [of |-> t, at |-> 1] # NULL
    BY NullAssumption
  <2>. QED  BY <1>1, <2>1 DEF Kept, TextKept
<1>3. Place(t)' = Place(t) /\ WordsKept(t)' /\ InOrder(t)' /\ LastKept(t)' /\ ValueKept(t)'
  BY <1>1, WordsStay DEF Kept
<1>4. TextKept(t)'
  BY <1>1, <1>2, <1>3 DEF Kept, TextKept
<1>5. CallsMeant(t)'
  <2> SUFFICES ASSUME t = "mgmt" PROVE CallsMeant(t)'
    BY DEF CallsMeant
  <2>1. \A n, w : WordIs(t, n, w)' = WordIs(t, n, w)
    BY <1>1, Zenon DEF WordIs, Stops
  <2>2. Len(words[t]) \in Nat /\ Len(words[t]) >= 1
    BY <1>2 DEF TypesInv, Typed
  <2>3. Called(t)' <= Len(words[t]) + 1 /\ Called(t)' \in Nat
    BY <1>1, <2>2 DEF Called
  <2>4. Len(words[t]) < Wanted
    BY <1>1 DEF CallsLeft
  <2>5. /\ Wanted \in {1, 2, 5, 6}
        /\ Wanted = 1 <=> ~ WordIs(t, 1, <<auth_token>>)
        /\ Len(words[t]) = 1 => Wanted \in {1, 2}
        /\ Len(words[t]) >= 2 =>
             /\ Wanted = 6 <=> WordIs(t, 1, <<auth_token>>) /\ WordIs(t, 2, <<"ADD">>)
             /\ Wanted = 5 <=> WordIs(t, 1, <<auth_token>>) /\ WordIs(t, 2, <<"DELETE">>)
    BY <1>2, WantedIs
  <2>6. WordIs(t, 1, <<auth_token>>)
    BY <2>2, <2>4, <2>5
  <2>7. Called(t)' >= 3 => WordIs(t, 2, <<"ADD">>) \/ WordIs(t, 2, <<"DELETE">>)
    BY <2>2, <2>3, <2>4, <2>5
  <2>8. Called(t)' >= 6 => WordIs(t, 2, <<"ADD">>)
    BY <2>2, <2>3, <2>4, <2>5
  <2>. QED  BY <2>1, <2>6, <2>7, <2>8 DEF CallsMeant
<1>. QED  BY <1>3, <1>4, <1>5 DEF Kept

(***************************************************************************)
(* A call of t itself.                                                     *)
(***************************************************************************)
\* Scanning from p finds a run from a to e - 1, or, at the end, nothing.
Finds(s, p, stops, a, e) ==
  /\ a \in p .. Len(s) + 1 /\ e \in a .. Len(s) + 1
  /\ \A i \in p .. a - 1 : s[i] \in stops
  /\ \A i \in a .. e - 1 : s[i] \notin stops
  /\ IF a = Len(s) + 1 THEN e = a ELSE a < e
  /\ e <= Len(s) => s[e] \in stops

\* t has found that, and cut it off.
Cut(t, a, e) ==
  LET s == asked[t] IN
  /\ a \in 1 .. Len(s) + 1 /\ e \in 1 .. Len(s) + 1
  /\ Finds(s, Place(t), Stops(t, Len(words[t]) + 1), a, e)
  /\ words'[t] = Append(words[t], IF a = Len(s) + 1 THEN NULL ELSE [of |-> t, at |-> a])
  /\ text'[t] = IF e = Len(s) + 1 THEN text[t] ELSE [text[t] EXCEPT ![e] = NUL]
  /\ olds' = [of |-> t, at |-> IF e = Len(s) + 1 THEN e ELSE e + 1]
  /\ from[t] # NULL /\ from'[t] = NULL /\ asked'[t] = s

LEMMA CleanScan ==
  ASSUME TypesInv, NEW t \in Threads, Scan(t), Undisturbed(t), TextKept(t)
  PROVE  \E a, e : Cut(t, a, e)
<1> DEFINE s == asked[t]
           r == text[t]
           n == Len(words[t])
           D == Delimiters(t)
           p == Place(t)
           a == Start(t)
           e == End(t)
<1>1. Typed /\ AtWork
  BY DEF TypesInv
<1>2. /\ Working(t) /\ from[t] # NULL
      /\ words' = [words EXCEPT ![t] = Append(@, IF a = e THEN NULL ELSE [of |-> from[t].of, at |-> a])]
      /\ text' = IF At(text[from[t].of], e) = NUL THEN text
                 ELSE [text EXCEPT ![from[t].of][e] = NUL]
      /\ olds' = [of |-> from[t].of, at |-> IF At(text[from[t].of], e) = NUL THEN e ELSE e + 1]
      /\ from' = [from EXCEPT ![t] = NULL]
      /\ UNCHANGED <<asked, outcome>>
  BY <1>1, ScanSays
<1>3. from[t].of = t /\ from[t].at = p
  BY <1>2 DEF TextKept, Place
<1>4. /\ p \in Nat \ {0}
      /\ a \in Nat \ {0} /\ e \in Nat \ {0}
      /\ p <= a /\ a <= e
      /\ e <= Len(r) + 1 \/ e = p
      /\ At(r, a) \notin D
      /\ \A k \in p .. a - 1 : At(r, k) \in D
      /\ At(r, e) \in D \cup {NUL}
      /\ \A k \in a .. e - 1 : At(r, k) \notin D \cup {NUL}
  BY <1>1, <1>2, <1>3, ScanInText
<1>5. /\ s \in Seq(Chars) /\ r \in Seq(Chars) /\ Len(s) \in Nat /\ Len(r) = Len(s)
      /\ \A i \in 1 .. Len(s) : s[i] # NUL
      /\ p \in 1 .. Len(s) + 1 /\ \A i \in p .. Len(s) : r[i] = s[i]
  BY AskedString DEF TextKept
<1>6. D = Stops(t, n + 1)
  <2>1. n \in Nat
    BY <1>1 DEF Typed
  <2> HIDE DEF D, n
  <2>2. (n = 5 => n + 1 = 6) /\ (n + 1 = 6 => n = 5)
    BY <2>1
  <2>3. D = IF t = "main" THEN {"."} ELSE IF n = 5 THEN {"\n"} ELSE Whitespace
    BY Zenon DEF Delimiters, D, n
  <2>. QED  BY <2>2, <2>3 DEF Stops, n
<1>7. NUL \notin D
  BY DEF Delimiters, Whitespace, NUL
<1> HIDE DEF s, r, p, a, e, D
<1>8. \A i \in p .. Len(s) : At(r, i) = s[i] /\ s[i] # NUL
  BY <1>5 DEF At
<1>9. a \in p .. Len(s) + 1 /\ e \in a .. Len(s) + 1 /\ a \in 1 .. Len(s) + 1 /\ e \in 1 .. Len(s) + 1
  BY <1>4, <1>5
<1>10. At(r, e) = NUL <=> e = Len(s) + 1
  BY <1>4, <1>5, <1>8, <1>9 DEF At
<1>11. IF a = Len(s) + 1 THEN e = a ELSE a < e
  <2>1. CASE a = Len(s) + 1
    BY <1>5, <1>9, <2>1
  <2>2. CASE a # Len(s) + 1
    <3>1. a \in p .. Len(s)
      BY <1>5, <1>9, <2>2
    <3>2. At(r, a) # NUL /\ At(r, a) \notin D
      BY <1>4, <1>8, <3>1
    <3>3. a # e
      BY <1>4, <3>2
    <3>. QED  BY <1>4, <2>2, <3>3
  <2>. QED  BY <2>1, <2>2
<1>12. \A i \in p .. a - 1 : s[i] \in D
  BY <1>4, <1>5, <1>8, <1>9
<1>13. \A i \in a .. e - 1 : s[i] \notin D
  BY <1>4, <1>5, <1>8, <1>9
<1>14. e <= Len(s) => s[e] \in D
  <2> SUFFICES ASSUME e <= Len(s) PROVE s[e] \in D
    OBVIOUS
  <2>1. e \in p .. Len(s)
    BY <1>4, <1>5, <1>9
  <2>. QED  BY <1>4, <1>8, <2>1
<1>15. Finds(s, p, D, a, e)
  BY <1>9, <1>11, <1>12, <1>13, <1>14 DEF Finds
<1>16. a = e <=> a = Len(s) + 1
  BY <1>4, <1>5, <1>11
<1>17. words'[t] = Append(words[t], IF a = Len(s) + 1 THEN NULL ELSE [of |-> t, at |-> a])
  BY <1>1, <1>2, <1>3, <1>16 DEF Typed
<1>18. text'[t] = IF e = Len(s) + 1 THEN text[t] ELSE [text[t] EXCEPT ![e] = NUL]
  BY <1>1, <1>2, <1>3, <1>10 DEF Typed, r
<1>19. olds' = [of |-> t, at |-> IF e = Len(s) + 1 THEN e ELSE e + 1]
  BY <1>2, <1>3, <1>10 DEF r
<1>20. from[t] # NULL /\ from'[t] = NULL /\ asked'[t] = s
  BY <1>1, <1>2 DEF Typed, s
<1>21. Cut(t, a, e)
  BY <1>6, <1>9, <1>15, <1>17, <1>18, <1>19, <1>20 DEF Cut, s, p, D
<1>. QED  BY <1>21

\* What the call finds is the run that starts next, and is the last before the
\* new place.
LEMMA NextRun ==
  ASSUME NEW s \in Seq(Chars), NEW p \in 1 .. Len(s) + 1, NEW D, NEW a, NEW e,
         Finds(s, p, D, a, e), p = 1 \/ p = Len(s) + 1 \/ s[p - 1] \in D
  PROVE  LET q == IF e = Len(s) + 1 THEN e ELSE e + 1
             W == RunStarts(s, D)
         IN  /\ a = Len(s) + 1 => W = {i \in W : i < p} /\ {i \in W : i < q} = W /\ q = Len(s) + 1
             /\ a # Len(s) + 1 => /\ a \in W
                                  /\ {i \in W : i < a} = {i \in W : i < p}
                                  /\ {i \in W : i < q} = {i \in W : i < p} \cup {a}
<1> DEFINE W == RunStarts(s, D)
           q == IF e = Len(s) + 1 THEN e ELSE e + 1
<1>1. /\ Len(s) \in Nat /\ a \in p .. Len(s) + 1 /\ e \in a .. Len(s) + 1
      /\ \A i \in p .. a - 1 : s[i] \in D
      /\ \A i \in a .. e - 1 : s[i] \notin D
      /\ IF a = Len(s) + 1 THEN e = a ELSE a < e
      /\ e <= Len(s) => s[e] \in D
  BY DEF Finds
<1>2. \A i \in W : i \in 1 .. Len(s) /\ i \in Int /\ s[i] \notin D /\ (i = 1 \/ s[i - 1] \in D)
  BY <1>1 DEF RunStarts
<1>3. \A i \in 1 .. Len(s) : s[i] \notin D /\ (i = 1 \/ s[i - 1] \in D) => i \in W
  BY <1>1 DEF RunStarts
<1> HIDE DEF W
<1>4. \A i \in W : i < a => i < p
  BY <1>1, <1>2
<1>5. a # Len(s) + 1 => a \in W
  <2> SUFFICES ASSUME a # Len(s) + 1 PROVE a \in W
    OBVIOUS
  <2>1. a \in 1 .. Len(s) /\ s[a] \notin D
    BY <1>1
  <2>2. CASE a = p
    BY <1>1, <1>3, <2>1, <2>2
  <2>3. CASE a # p
    <3>1. a - 1 \in p .. a - 1
      BY <1>1, <2>3
    <3>. QED  BY <1>1, <1>3, <2>1, <3>1
  <2>. QED  BY <2>2, <2>3
<1>6. \A i \in W : i < q /\ a # Len(s) + 1 => i < p \/ i = a
  <2> SUFFICES ASSUME NEW i \in W, i < q, a # Len(s) + 1, i > a PROVE FALSE
    BY <1>1, <1>2, <1>4
  <2>1. i # 1 /\ i - 1 \in Int /\ s[i - 1] \in D /\ s[i] \notin D
    BY <1>1, <1>2
  <2>2. i - 1 \in a .. e - 1 \/ i = e + 1
    BY <1>1, <1>2, <2>1
  <2>3. i # e + 1
    BY <1>1, <1>2
  <2>. QED  BY <1>1, <2>1, <2>2, <2>3
<1>7. a # Len(s) + 1 => p < q /\ a < q /\ p <= a
  BY <1>1
<1>8. a = Len(s) + 1 => q = Len(s) + 1 /\ \A i \in W : i < a /\ i < q
  BY <1>1, <1>2
<1>. QED  BY <1>1, <1>2, <1>4, <1>5, <1>6, <1>7, <1>8 DEF W

LEMMA CutSays ==
  ASSUME TypesInv, NEW t \in Threads, Undisturbed(t), Kept(t), NEW a, NEW e, Cut(t, a, e),
         NEW n, n = Len(words[t])
  PROVE  LET s == asked[t]
             D == Stops(t, n + 1)
         IN  /\ n \in Nat /\ Len(words[t])' = n + 1
             /\ \A j \in 1 .. n : words'[t][j] = words[t][j]
             /\ words'[t][n + 1] = IF a = Len(s) + 1 THEN NULL ELSE [of |-> t, at |-> a]
             /\ [of |-> t, at |-> a] # NULL
             /\ Place(t)' = (IF e = Len(s) + 1 THEN e ELSE e + 1)
             /\ Place(t)' \in 1 .. Len(s) + 1 /\ Place(t) <= e
             /\ Place(t) \in 1 .. Len(s) + 1
             /\ \A j \in 1 .. n : words[t][j] # NULL => WordEnd(t, j)' = WordEnd(t, j)
             /\ a # Len(s) + 1 =>
                  /\ WordEnd(t, n + 1)' = e - 1
                  /\ a \in 1 .. Len(s) /\ s[a] \notin D /\ e - 1 \in a .. Len(s)
             /\ a = Len(s) + 1 => e = a
             /\ text'[t] \in Seq(Chars) /\ Len(text'[t]) = Len(s)
             /\ \A i \in 1 .. Len(s) : text'[t][i] = IF i = e THEN NUL ELSE text[t][i]
<1> DEFINE s == asked[t]
           D == Stops(t, n + 1)
<1>1. /\ s \in Seq(Chars) /\ Len(s) \in Nat
      /\ text[t] \in Seq(Chars) /\ Len(text[t]) = Len(s) /\ words[t] \in Seq(Pointer \cup {NULL})
  BY AskedString DEF Kept, TextKept
<1>2. /\ a \in 1 .. Len(s) + 1 /\ e \in 1 .. Len(s) + 1
      /\ Finds(s, Place(t), D, a, e)
      /\ words'[t] = Append(words[t], IF a = Len(s) + 1 THEN NULL ELSE [of |-> t, at |-> a])
      /\ text'[t] = IF e = Len(s) + 1 THEN text[t] ELSE [text[t] EXCEPT ![e] = NUL]
      /\ olds' = [of |-> t, at |-> IF e = Len(s) + 1 THEN e ELSE e + 1]
      /\ asked'[t] = s
  BY DEF Cut
<1>3. [of |-> t, at |-> a] # NULL
  <2>1. a \in Nat
    BY <1>1, <1>2
  <2>. QED  BY <2>1, NullAssumption
<1>4. /\ n \in Nat /\ Len(words'[t]) = n + 1
      /\ \A j \in 1 .. n : words'[t][j] = words[t][j]
      /\ words'[t][n + 1] = IF a = Len(s) + 1 THEN NULL ELSE [of |-> t, at |-> a]
  BY <1>1, <1>2
<1>5. words'[t] # <<>>
  BY <1>4
<1>6. Place(t)' = (IF e = Len(s) + 1 THEN e ELSE e + 1)
  BY <1>2, <1>5 DEF Place
<1>7. /\ Place(t)' \in 1 .. Len(s) + 1 /\ Place(t) \in 1 .. Len(s) + 1
  BY <1>1, <1>2, <1>6 DEF Kept, TextKept
<1>8. /\ a \in Place(t) .. Len(s) + 1 /\ e \in a .. Len(s) + 1
      /\ \A i \in a .. e - 1 : s[i] \notin D
      /\ IF a = Len(s) + 1 THEN e = a ELSE a < e
      /\ e <= Len(s) => s[e] \in D
  BY <1>2 DEF Finds
<1>9. Place(t) <= e
  BY <1>1, <1>7, <1>8
<1>10. \A j \in 1 .. n : words[t][j] # NULL => WordEnd(t, j)' = WordEnd(t, j)
  BY <1>2, <1>4 DEF WordEnd, Stops
<1>11. ASSUME a # Len(s) + 1
       PROVE  WordEnd(t, n + 1)' = e - 1 /\ a \in 1 .. Len(s) /\ s[a] \notin D /\ e - 1 \in a .. Len(s)
  <2>1. a \in 1 .. Len(s) /\ e - 1 \in a .. Len(s)
    BY <1>1, <1>2, <1>8, <1>11
  <2>2. s[a] \notin D
    BY <1>1, <1>8, <2>1
  <2>3. e - 1 = Len(s) \/ s[(e - 1) + 1] \in D
    <3>1. e \in Int /\ (e - 1) + 1 = e /\ (e <= Len(s) \/ e - 1 = Len(s))
      BY <1>1, <1>2
    <3>. QED  BY <1>8, <3>1
  <2>4. \A i \in a .. e - 1 : s[i] \notin D
    BY <1>8
  <2> HIDE DEF s, D
  <2>5. e - 1 = RunEnd(s, a, D)
    BY <1>1, <2>1, <2>2, <2>3, <2>4, RunEndIs
  <2>6. words'[t][n + 1].at = a
    BY <1>4, <1>11
  <2>7. WordEnd(t, n + 1)' = RunEnd(s, a, D)
    BY <1>2, <2>6 DEF WordEnd, Stops, s, D
  <2>. QED  BY <2>1, <2>2, <2>5, <2>7
<1>12. /\ text'[t] \in Seq(Chars) /\ Len(text'[t]) = Len(s)
       /\ \A i \in 1 .. Len(s) : text'[t][i] = IF i = e THEN NUL ELSE text[t][i]
  <2>1. CASE e = Len(s) + 1
    BY <1>1, <1>2, <2>1
  <2>2. CASE e # Len(s) + 1
    <3> DEFINE r == text[t]
    <3>1. e \in 1 .. Len(s)
      BY <1>1, <1>2, <2>2
    <3>2. text'[t] = [r EXCEPT ![e] = NUL] /\ r \in Seq(Chars) /\ Len(r) = Len(s)
      BY <1>1, <1>2, <2>2
    <3> HIDE DEF r, s
    <3>3. [r EXCEPT ![e] = NUL] \in Seq(Chars) /\ Len([r EXCEPT ![e] = NUL]) = Len(r)
      BY <3>1, <3>2, NulIsChar
    <3>4. \A i \in 1 .. Len(s) : [r EXCEPT ![e] = NUL][i] = IF i = e THEN NUL ELSE r[i]
      BY <3>1, <3>2
    <3>. QED  BY <3>2, <3>3, <3>4 DEF r
  <2>. QED  BY <2>1, <2>2
<1>. QED  BY <1>3, <1>4, <1>6, <1>7, <1>8, <1>9, <1>10, <1>11, <1>12

LEMMA CutText ==
  ASSUME TypesInv, NEW t \in Threads, Undisturbed(t), Kept(t), NEW a, NEW e, Cut(t, a, e),
         NEW n, n = Len(words[t])
  PROVE  TextKept(t)' /\ WordsKept(t)'
<1> DEFINE s == asked[t]
           D == Stops(t, n + 1)
           q == Place(t)'
<1>1. /\ n \in Nat /\ Len(words[t])' = n + 1
      /\ \A j \in 1 .. n : words'[t][j] = words[t][j]
      /\ words'[t][n + 1] = IF a = Len(s) + 1 THEN NULL ELSE [of |-> t, at |-> a]
      /\ q = (IF e = Len(s) + 1 THEN e ELSE e + 1)
      /\ q \in 1 .. Len(s) + 1 /\ Place(t) <= e /\ Place(t) \in 1 .. Len(s) + 1
      /\ \A j \in 1 .. n : words[t][j] # NULL => WordEnd(t, j)' = WordEnd(t, j)
      /\ a # Len(s) + 1 =>
           /\ WordEnd(t, n + 1)' = e - 1
           /\ a \in 1 .. Len(s) /\ s[a] \notin D /\ e - 1 \in a .. Len(s)
      /\ text'[t] \in Seq(Chars) /\ Len(text'[t]) = Len(s)
      /\ \A i \in 1 .. Len(s) : text'[t][i] = IF i = e THEN NUL ELSE text[t][i]
  BY CutSays
<1>2. /\ asked'[t] = s /\ from'[t] = NULL /\ a \in 1 .. Len(s) + 1 /\ e \in 1 .. Len(s) + 1
      /\ olds' = [of |-> t, at |-> IF e = Len(s) + 1 THEN e ELSE e + 1]
      /\ a >= Place(t) /\ a <= e
  <2>1. Len(s) \in Nat
    BY AskedString
  <2>. QED  BY <1>1, <2>1 DEF Cut, Finds
<1>3. /\ Len(s) \in Nat /\ \A i \in 1 .. Len(s) : s[i] # NUL
      /\ \A i \in Place(t) .. Len(s) : text[t][i] = s[i]
  BY AskedString DEF Kept, TextKept
<1> HIDE DEF s, D
<1>4. TextKept(t)'
  <2>1. words'[t] # <<>>
    BY <1>1
  <2>2. \A i \in q .. Len(s) : text'[t][i] = s[i]
    <3> SUFFICES ASSUME NEW i \in q .. Len(s) PROVE text'[t][i] = s[i]
      OBVIOUS
    <3>1. i # e /\ i \in 1 .. Len(s) /\ i \in Place(t) .. Len(s)
      BY <1>1, <1>2, <1>3
    <3>. QED  BY <1>1, <1>3, <3>1
  <2>. QED  BY <1>1, <1>2, <2>1, <2>2 DEF TextKept, s
<1>5. ASSUME NEW j \in 1 .. n, words[t][j] # NULL PROVE WordKept(t, j)'
  <2>1. /\ words[t][j] = [of |-> t, at |-> words[t][j].at]
        /\ words[t][j].at \in 1 .. Len(s)
        /\ s[words[t][j].at] \notin Stops(t, j)
        /\ \A i \in words[t][j].at .. WordEnd(t, j) : text[t][i] = s[i]
        /\ WordEnd(t, j) = Len(s) \/ text[t][WordEnd(t, j) + 1] = NUL
        /\ WordEnd(t, j) < Place(t)
    BY <1>5 DEF Kept, WordsKept, WordKept, s
  <2>2. WordEnd(t, j) \in words[t][j].at .. Len(s) /\ WordEnd(t, j) \in Nat /\ words[t][j].at \in Nat
    <3>1. WordKept(t, j)
      BY <1>5 DEF Kept, WordsKept
    <3>. QED  BY <3>1, WordEndIs DEF s
  <2>3. words'[t][j] = words[t][j] /\ WordEnd(t, j)' = WordEnd(t, j)
    BY <1>1, <1>5
  <2>4. \A i \in words[t][j].at .. WordEnd(t, j) : text'[t][i] = s[i]
    <3> SUFFICES ASSUME NEW i \in words[t][j].at .. WordEnd(t, j) PROVE text'[t][i] = s[i]
      OBVIOUS
    <3>1. i \in 1 .. Len(s) /\ i <= WordEnd(t, j) /\ i \in Int
      BY <1>3, <2>1, <2>2
    <3>2. i # e
      BY <1>1, <1>2, <1>3, <2>1, <2>2, <3>1
    <3>. QED  BY <1>1, <2>1, <3>1, <3>2
  <2>5. WordEnd(t, j) = Len(s) \/ text'[t][WordEnd(t, j) + 1] = NUL
    <3>1. WordEnd(t, j) # Len(s) => WordEnd(t, j) + 1 \in 1 .. Len(s)
      BY <1>3, <2>2
    <3>. QED  BY <1>1, <2>1, <3>1
  <2>6. WordEnd(t, j) < q
    BY <1>1, <1>2, <1>3, <2>1, <2>2
  <2>. QED  BY <1>2, <2>1, <2>3, <2>4, <2>5, <2>6 DEF WordKept, Stops
<1>6. ASSUME a # Len(s) + 1 PROVE WordKept(t, n + 1)'
  <2>1. words'[t][n + 1] = [of |-> t, at |-> a] /\ words'[t][n + 1].at = a
    BY <1>1, <1>6
  <2>2. WordEnd(t, n + 1)' = e - 1 /\ a \in 1 .. Len(s) /\ s[a] \notin D /\ e - 1 \in a .. Len(s)
    BY <1>1, <1>6
  <2>3. \A i \in a .. e - 1 : text'[t][i] = s[i]
    <3> SUFFICES ASSUME NEW i \in a .. e - 1 PROVE text'[t][i] = s[i]
      OBVIOUS
    <3>1. i \in 1 .. Len(s) /\ i # e /\ i \in Place(t) .. Len(s)
      BY <1>1, <1>2, <1>3
    <3>. QED  BY <1>1, <1>3, <3>1
  <2>4. e - 1 = Len(s) \/ text'[t][(e - 1) + 1] = NUL
    <3>1. e \in Int /\ (e - 1) + 1 = e /\ (e \in 1 .. Len(s) \/ e - 1 = Len(s))
      BY <1>2, <1>3
    <3>. QED  BY <1>1, <3>1
  <2>5. e - 1 < q
    BY <1>1, <1>2, <1>3
  <2>6. D = Stops(t, n + 1)'
    BY DEF D, Stops
  <2>. QED  BY <1>2, <2>1, <2>2, <2>3, <2>4, <2>5, <2>6 DEF WordKept, Stops
<1>7. WordsKept(t)'
  <2> SUFFICES ASSUME NEW j \in 1 .. n + 1, words'[t][j] # NULL PROVE WordKept(t, j)'
    BY <1>1 DEF WordsKept
  <2>1. CASE j \in 1 .. n
    BY <1>1, <1>5, <2>1
  <2>2. CASE j = n + 1
    BY <1>1, <1>6, <2>2
  <2>. QED  BY <1>1, <2>1, <2>2
<1>. QED  BY <1>4, <1>7

LEMMA RegularStops ==
  ASSUME NEW t \in Threads, NEW n \in Nat \ {0}, Regular(t, n)
  PROVE  Stops(t, n) = Stops(t, 1)
<1>1. t # "main" => n <= 5 /\ n # 6
  BY DEF Regular
<1>. QED  BY <1>1 DEF Stops

LEMMA CutOrder ==
  ASSUME TypesInv, NEW t \in Threads, Undisturbed(t), Kept(t), NEW a, NEW e, Cut(t, a, e),
         NEW n, n = Len(words[t])
  PROVE  InOrder(t)' /\ LastKept(t)'
<1> DEFINE s == asked[t]
           D == Stops(t, n + 1)
           p == Place(t)
           q == Place(t)'
           W == Starts(t)
<1>1. /\ n \in Nat /\ Len(words[t])' = n + 1
      /\ \A j \in 1 .. n : words'[t][j] = words[t][j]
      /\ words'[t][n + 1] = IF a = Len(s) + 1 THEN NULL ELSE [of |-> t, at |-> a]
      /\ [of |-> t, at |-> a] # NULL
      /\ q = (IF e = Len(s) + 1 THEN e ELSE e + 1)
      /\ p \in 1 .. Len(s) + 1
      /\ a # Len(s) + 1 => WordEnd(t, n + 1)' = e - 1 /\ e - 1 \in a .. Len(s)
      /\ a = Len(s) + 1 => e = a
  BY CutSays
<1>2. asked'[t] = s /\ Finds(s, p, D, a, e)
  BY DEF Cut
<1>3. s \in Seq(Chars) /\ Len(s) \in Nat
  BY AskedString
<1>4. InOrder(t) /\ LastKept(t)
  BY DEF Kept
<1>5. Starts(t)' = W
  BY <1>2 DEF Starts, Stops
<1>6. ASSUME NEW j \in 0 .. n PROVE Found(t, j)' = Found(t, j)
  <2>1. \A k \in 1 .. j : words'[t][k] = words[t][k]
    BY <1>1
  <2>. QED  BY <2>1 DEF Found
<1>7. Found(t, n + 1)' = Found(t, n) \cup (IF a = Len(s) + 1 THEN {} ELSE {a})
  <2>1. \A k : k \in 1 .. n + 1 <=> k \in 1 .. n \/ k = n + 1
    BY <1>1
  <2>2. \A x : x \in Found(t, n) <=> \E j \in 1 .. n : words[t][j] # NULL /\ x = words[t][j].at
    BY DEF Found
  <2>3. \A x : x \in Found(t, n + 1)' <=>
          \E j \in 1 .. n + 1 : words'[t][j] # NULL /\ x = words'[t][j].at
    BY DEF Found
  <2>4. \A x : x \in Found(t, n + 1)' <=>
          x \in Found(t, n) \/ (words'[t][n + 1] # NULL /\ x = words'[t][n + 1].at)
    <3>1. \A j \in 1 .. n : words'[t][j] = words[t][j]
      BY <1>1
    <3>2. ASSUME NEW x, x \in Found(t, n + 1)', x \notin Found(t, n)
          PROVE  words'[t][n + 1] # NULL /\ x = words'[t][n + 1].at
      <4>1. PICK j \in 1 .. n + 1 : words'[t][j] # NULL /\ x = words'[t][j].at
        BY <2>3, <3>2
      <4>2. j \notin 1 .. n
        BY <2>2, <3>1, <3>2, <4>1
      <4>. QED  BY <2>1, <4>1, <4>2
    <3>3. ASSUME NEW x \in Found(t, n) PROVE x \in Found(t, n + 1)'
      <4>1. PICK j \in 1 .. n : words[t][j] # NULL /\ x = words[t][j].at
        BY <2>2
      <4>2. j \in 1 .. n + 1 /\ words'[t][j] = words[t][j]
        BY <2>1, <3>1
      <4>. QED  BY <2>3, <4>1, <4>2
    <3>4. ASSUME words'[t][n + 1] # NULL PROVE words'[t][n + 1].at \in Found(t, n + 1)'
      BY <2>1, <2>3, <3>4
    <3>. QED  BY <3>2, <3>3, <3>4
  <2>. QED  BY <1>1, <2>4
<1>8. ASSUME Regular(t, n + 1)
      PROVE  /\ Regular(t, n) /\ W = RunStarts(s, D)
             /\ p = 1 \/ p = Len(s) + 1 \/ s[p - 1] \in D
  <2>1. Regular(t, n)
    BY <1>1, <1>8 DEF Regular
  <2>2. D = Stops(t, 1)
    BY <1>1, <1>8, RegularStops
  <2>3. CASE n = 0
    <3>1. p = 1
      <4>1. words[t] = <<>>
        BY <2>3, AskedString, EmptySeq
      <4>. QED  BY <4>1 DEF Place
    <3>. QED  BY <2>1, <2>2, <3>1 DEF Starts
  <2>4. CASE n # 0 /\ p # Len(s) + 1
    <3>1. n \in 1 .. n /\ words[t][n] # NULL /\ p = WordEnd(t, n) + 2 /\ WordEnd(t, n) # Len(s)
      BY <1>1, <1>4, <2>4 DEF LastKept
    <3>2. WordKept(t, n)
      BY <3>1 DEF Kept, WordsKept
    <3>3. WordEnd(t, n) \in Nat /\ s[WordEnd(t, n) + 1] \in Stops(t, n)
      BY <3>1, <3>2, WordEndIs
    <3>4. p - 1 = WordEnd(t, n) + 1
      BY <3>1, <3>3
    <3>5. Stops(t, n) = D
      BY <1>1, <2>1, <2>2, <2>4, RegularStops
    <3>. QED  BY <2>1, <2>2, <3>3, <3>4, <3>5 DEF Starts
  <2>. QED  BY <2>1, <2>2, <2>3, <2>4 DEF Starts
<1> HIDE DEF s, D, p, q
<1>9. ASSUME Regular(t, n + 1)
      PROVE  /\ {i \in W : i < p} = Found(t, n)
             /\ a = Len(s) + 1 => W = {i \in W : i < p} /\ {i \in W : i < q} = W
             /\ a # Len(s) + 1 => /\ a \in W
                                  /\ {i \in W : i < a} = {i \in W : i < p}
                                  /\ {i \in W : i < q} = {i \in W : i < p} \cup {a}
  <2>1. {i \in W : i < p} = Found(t, n)
    BY <1>4, <1>8, <1>9 DEF LastKept, p
  <2>2. W = RunStarts(s, D)
    BY <1>8, <1>9
  <2>. QED  BY <1>1, <1>2, <1>3, <1>8, <1>9, <2>1, <2>2, NextRun
<1>10. ASSUME NEW j \in 1 .. n, Regular(t, j)
       PROVE  IF words'[t][j] = NULL
              THEN W = Found(t, j - 1)'
              ELSE /\ words'[t][j].at \in W
                   /\ {i \in W : i < words'[t][j].at} = Found(t, j - 1)'
                   /\ \A k \in 1 .. j : words'[t][k] # NULL
  <2>1. words'[t][j] = words[t][j] /\ \A k \in 1 .. j : words'[t][k] = words[t][k]
    BY <1>1
  <2>2. j - 1 \in 0 .. n
    BY <1>1
  <2>3. Found(t, j - 1)' = Found(t, j - 1)
    BY <1>6, <2>2
  <2>. QED  BY <1>4, <1>10, <2>1, <2>3 DEF InOrder
<1>11. ASSUME Regular(t, n + 1)
       PROVE  IF words'[t][n + 1] = NULL
              THEN W = Found(t, n)'
              ELSE /\ words'[t][n + 1].at \in W
                   /\ {i \in W : i < words'[t][n + 1].at} = Found(t, n)'
                   /\ \A k \in 1 .. n + 1 : words'[t][k] # NULL
  <2>1. Found(t, n)' = Found(t, n)
    BY <1>1, <1>6
  <2>2. CASE a = Len(s) + 1
    BY <1>1, <1>9, <1>11, <2>1, <2>2
  <2>3. CASE a # Len(s) + 1
    <3>1. words'[t][n + 1].at = a /\ words'[t][n + 1] # NULL
      BY <1>1, <2>3
    <3>2. \A k \in 1 .. n : words'[t][k] # NULL
      <4>1. CASE n = 0
        BY <4>1
      <4>2. CASE n # 0
        <5>1. p # Len(s) + 1
          BY <1>2, <1>3, <2>3 DEF Finds
        <5>2. words[t][n] # NULL
          BY <1>1, <1>4, <4>2, <5>1 DEF LastKept, p, s
        <5>3. Regular(t, n) /\ n \in 1 .. n
          BY <1>1, <1>8, <1>11, <4>2
        <5>. QED  BY <1>1, <1>4, <5>2, <5>3 DEF InOrder
      <4>. QED  BY <4>1, <4>2
    <3>3. \A k \in 1 .. n + 1 : words'[t][k] # NULL
      <4>1. \A k \in 1 .. n + 1 : k \in 1 .. n \/ k = n + 1
        BY <1>1
      <4>. QED  BY <3>1, <3>2, <4>1
    <3>4. a \in W /\ {i \in W : i < a} = Found(t, n)'
      BY <1>9, <1>11, <2>1, <2>3
    <3>. QED  BY <3>1, <3>3, <3>4
  <2>. QED  BY <2>2, <2>3
<1>12. InOrder(t)'
  <2> SUFFICES ASSUME NEW j \in 1 .. n + 1, Regular(t, j)
               PROVE  IF words'[t][j] = NULL
                      THEN W = Found(t, j - 1)'
                      ELSE /\ words'[t][j].at \in W
                           /\ {i \in W : i < words'[t][j].at} = Found(t, j - 1)'
                           /\ \A k \in 1 .. j : words'[t][k] # NULL
    BY <1>1, <1>5, Zenon DEF InOrder, Regular
  <2>1. CASE j \in 1 .. n
    BY <1>10, <2>1
  <2>2. CASE j = n + 1
    <3>1. j - 1 = n
      BY <1>1, <2>2
    <3>. QED  BY <1>11, <2>2, <3>1
  <2>3. j \in 1 .. n \/ j = n + 1
    BY <1>1
  <2>. QED  BY <2>1, <2>2, <2>3
<1>13. Regular(t, n + 1) => {i \in W : i < q} = Found(t, n + 1)'
  BY <1>7, <1>9
<1>14. q = IF words'[t][n + 1] = NULL \/ WordEnd(t, n + 1)' = Len(s) THEN Len(s) + 1
           ELSE WordEnd(t, n + 1)' + 2
  <2>1. CASE a = Len(s) + 1
    BY <1>1, <2>1
  <2>2. CASE a # Len(s) + 1
    <3>1. WordEnd(t, n + 1)' = e - 1 /\ e - 1 \in a .. Len(s) /\ words'[t][n + 1] # NULL
      BY <1>1, <2>2
    <3>2. a \in Int /\ e \in Int
      BY <1>2, <1>3, <3>1 DEF Finds, p, Cut
    <3>. QED  BY <1>1, <1>3, <3>1, <3>2
  <2>. QED  BY <2>1, <2>2
<1>15. LastKept(t)'
  <2>1. n + 1 > 0
    BY <1>1
  <2>. QED  BY <1>1, <1>2, <1>5, <1>13, <1>14, <2>1 DEF LastKept, Regular, q, s
<1>. QED  BY <1>12, <1>15

LEMMA OnlySix == \A n \in Nat : n + 1 >= 6 /\ n < 6 => n = 5 /\ n + 1 = 6
  OBVIOUS

LEMMA CutValue ==
  ASSUME TypesInv, NEW t \in Threads, Undisturbed(t), Kept(t), NEW a, NEW e, Cut(t, a, e),
         NEW n, n = Len(words[t])
  PROVE  ValueKept(t)' /\ CallsMeant(t)'
<1> DEFINE s == asked[t]
           p == Place(t)
<1>1. /\ n \in Nat /\ Len(words[t])' = n + 1
      /\ \A j \in 1 .. n : words'[t][j] = words[t][j]
      /\ words'[t][n + 1] = IF a = Len(s) + 1 THEN NULL ELSE [of |-> t, at |-> a]
      /\ [of |-> t, at |-> a] # NULL
      /\ p \in 1 .. Len(s) + 1
      /\ \A j \in 1 .. n : words[t][j] # NULL => WordEnd(t, j)' = WordEnd(t, j)
  BY CutSays
<1>2. asked'[t] = s /\ Finds(s, p, Stops(t, n + 1), a, e) /\ from[t] # NULL /\ from'[t] = NULL
  BY DEF Cut
<1>3. Len(s) \in Nat
  BY AskedString
<1>4. ValueKept(t)'
  <2> SUFFICES ASSUME t = "mgmt", n + 1 >= 6, words'[t][5] # NULL
               PROVE  IF words'[t][6] = NULL THEN Left(t)' = {}
                      ELSE words'[t][6].at \in Left(t)' /\ \A i \in Left(t)' : words'[t][6].at <= i
    BY <1>1 DEF ValueKept
  <2>1. n = 5 /\ n + 1 = 6
    <3>1. Len(words[t]) < 6
      BY <1>2 DEF TypesInv, AtWork, Limit
    <3>2. n < 6
      BY <3>1
    <3>3. n \in Nat
      BY <1>1
    <3>. QED  BY <3>2, <3>3, OnlySix, Zenon
  <2>2. words'[t][5] = words[t][5] /\ WordEnd(t, 5)' = WordEnd(t, 5) /\ words[t][5] # NULL
    BY <1>1, <2>1
  <2>3. WordKept(t, 5)
    BY <1>1, <2>1, <2>2 DEF Kept, WordsKept
  <2>4. WordEnd(t, 5) \in Nat /\ WordEnd(t, 5) <= Len(s)
    BY <1>1, <1>3, <2>1, <2>3, WordEndIs
  <2>5. p = IF WordEnd(t, 5) = Len(s) THEN Len(s) + 1 ELSE WordEnd(t, 5) + 2
    <3>1. Len(words[t]) = 5
      BY <2>1
    <3>2. LastKept(t)
      BY DEF Kept
    <3>3. 5 > 0 => p = IF words[t][5] = NULL \/ WordEnd(t, 5) = Len(s) THEN Len(s) + 1
                       ELSE WordEnd(t, 5) + 2
      BY <3>1, <3>2, Zenon DEF LastKept
    <3>. QED  BY <2>2, <3>3
  <2> HIDE DEF p
  <2>6. \A i : i \in WordEnd(t, 5) + 2 .. Len(s) <=> i \in p .. Len(s)
    BY <1>3, <2>4, <2>5
  <2>7. Left(t)' = {i \in p .. Len(s) : s[i] # "\n"}
    BY <1>2, <2>2, <2>6 DEF Left
  <2>8. Stops(t, n + 1) = {"\n"}
    BY <2>1 DEF Stops
  <2>9. /\ a \in p .. Len(s) + 1
        /\ \A i \in p .. a - 1 : s[i] \in {"\n"}
        /\ a # Len(s) + 1 => s[a] \notin {"\n"}
    BY <1>1, <1>2, <1>3, <2>8 DEF Finds
  <2>10. \A i \in p .. Len(s) : s[i] # "\n" => a <= i
    BY <1>1, <1>3, <2>9
  <2>11. words'[t][6] = IF a = Len(s) + 1 THEN NULL ELSE [of |-> t, at |-> a]
    BY <1>1, <2>1
  <2>12. CASE a = Len(s) + 1
    BY <1>1, <1>3, <2>7, <2>10, <2>11, <2>12
  <2>13. CASE a # Len(s) + 1
    <3>1. a \in p .. Len(s) /\ s[a] # "\n"
      BY <1>1, <1>3, <2>9, <2>13
    <3>2. words'[t][6].at = a /\ words'[t][6] # NULL
      BY <1>1, <2>11, <2>13
    <3>. QED  BY <2>7, <2>10, <3>1, <3>2
  <2>. QED  BY <2>12, <2>13
<1>5. CallsMeant(t)'
  <2> SUFFICES ASSUME t = "mgmt" PROVE CallsMeant(t)'
    BY DEF CallsMeant
  <2>1. Called(t)' = n + 1 /\ Called(t) = n + 1
    BY <1>1, <1>2 DEF Called
  <2>2. ASSUME NEW j \in 1 .. n, NEW w, WordIs(t, j, w) PROVE WordIs(t, j, w)'
    BY <1>1, <1>2, <2>2 DEF WordIs, Stops
  <2>3. /\ n + 1 >= 2 => WordIs(t, 1, <<auth_token>>)
        /\ n + 1 >= 3 => WordIs(t, 2, <<"ADD">>) \/ WordIs(t, 2, <<"DELETE">>)
        /\ n + 1 >= 6 => WordIs(t, 2, <<"ADD">>)
    BY <2>1 DEF Kept, CallsMeant
  <2>4. (n + 1 >= 2 => 1 \in 1 .. n) /\ (n + 1 >= 3 => 2 \in 1 .. n) /\ (n + 1 >= 6 => 2 \in 1 .. n)
    BY <1>1
  <2>. QED  BY <2>1, <2>2, <2>3, <2>4 DEF CallsMeant
<1>. QED  BY <1>4, <1>5

LEMMA ScanKept ==
  ASSUME TypesInv, NEW t \in Threads, Undisturbed(t), Kept(t), Scan(t)
  PROVE  Kept(t)'
<1>1. TextKept(t)
  BY DEF Kept
<1>2. PICK a, e : Cut(t, a, e)
  BY <1>1, CleanScan
<1> DEFINE N == {k \in Nat : k = Len(words[t])}
<1>3. Len(words[t]) \in Nat
  BY DEF TypesInv, Typed
<1>4. PICK n \in Nat : n = Len(words[t])
  BY <1>3
<1>5. TextKept(t)' /\ WordsKept(t)'
  BY <1>2, <1>4, CutText
<1>6. InOrder(t)' /\ LastKept(t)'
  BY <1>2, <1>4, CutOrder
<1>7. ValueKept(t)' /\ CallsMeant(t)'
  BY <1>2, <1>4, CutValue
<1>. QED  BY <1>5, <1>6, <1>7 DEF Kept

LEMMA InitKept == Init => KeptInv
BY DEF Init, KeptInv, Undisturbed

LEMMA NextKept == TypesInv /\ KeptInv /\ [Next]_vars => KeptInv'
<1> SUFFICES ASSUME TypesInv, KeptInv, [Next]_vars, NEW t \in Threads, Undisturbed(t)'
             PROVE  Kept(t)'
  BY DEF KeptInv
<1>0. Typed /\ AtWork /\ \A u \in Threads : u = "main" \/ u = "mgmt"
  BY DEF TypesInv, Threads
<1>1. \A u \in Threads : Undisturbed(u) => Kept(u)
  BY DEF KeptInv
<1>2. ASSUME NEW u \in Threads, NEW s \in Names \cup Requests, Begin(u, s) PROVE Kept(t)'
  <2>1. CASE u = t
    BY <1>2, <2>1, BeginKept
  <2>2. CASE u # t
    <3>1. /\ asked'[t] = asked[t] /\ words'[t] = words[t] /\ text'[t] = text[t]
          /\ from'[t] = from[t] /\ olds' = olds /\ disturbed'[t] = disturbed[t]
      BY <1>0, <1>2, <2>2 DEF Begin, Typed
    <3>2. Undisturbed(t)
      BY <3>1 DEF Undisturbed
    <3>. QED  BY <1>1, <3>1, <3>2, KeptStays
  <2>. QED  BY <2>1, <2>2
<1>3. ASSUME NEW u \in Threads, ReadPosition(u) PROVE Kept(t)'
  <2>1. asked' = asked /\ disturbed' = disturbed /\ words' = words /\ text' = text /\ olds' = olds
        /\ from' = [from EXCEPT ![u] = olds]
    BY <1>3 DEF ReadPosition
  <2>2. Undisturbed(t) /\ Kept(t)
    BY <1>1, <2>1 DEF Undisturbed
  <2>3. CASE u = t
    BY <1>3, <2>2, <2>3, ReadPositionKept
  <2>4. CASE u # t
    <3>1. from'[t] = from[t]
      BY <1>0, <2>1, <2>4 DEF Typed
    <3>. QED  BY <2>1, <2>2, <3>1, KeptStays
  <2>. QED  BY <2>3, <2>4
<1>4. ASSUME NEW u \in Threads, Scan(u) PROVE Kept(t)'
  <2>1. asked' = asked /\ disturbed' = [disturbed EXCEPT ![Other(u)] = TRUE]
    BY <1>4 DEF Scan
  <2>2. CASE u = t
    <3>1. disturbed[t] => disturbed'[t]
      BY <1>0, <2>1 DEF Typed
    <3>2. Undisturbed(t) /\ Kept(t)
      BY <1>1, <2>1, <3>1 DEF Undisturbed
    <3>. QED  BY <1>4, <2>2, <3>2, ScanKept
  <2>3. CASE u # t
    <3>1. Other(u) = t
      BY <1>0, <2>3 DEF Other, Threads
    <3>2. disturbed'[t]
      BY <1>0, <2>1, <3>1 DEF Typed
    <3>. QED  BY <3>2 DEF Undisturbed
  <2>. QED  BY <2>2, <2>3
<1>5. ASSUME NEW u \in Threads, Finish(u) PROVE Kept(t)'
  <2>1. /\ asked' = [asked EXCEPT ![u] = NULL] /\ words' = [words EXCEPT ![u] = <<>>]
        /\ text' = text \/ text' = [text EXCEPT ![u] = <<>>]
        /\ UNCHANGED <<from, olds, disturbed>>
    BY <1>5 DEF Finish
  <2>2. CASE u = t
    BY <1>0, <2>1, <2>2 DEF Undisturbed, Typed
  <2>3. CASE u # t
    <3>1. asked'[t] = asked[t] /\ words'[t] = words[t] /\ text'[t] = text[t]
      BY <1>0, <2>1, <2>3 DEF Typed
    <3>2. Undisturbed(t) /\ Kept(t)
      BY <1>1, <2>1, <3>1 DEF Undisturbed
    <3>. QED  BY <2>1, <3>1, <3>2, KeptStays
  <2>. QED  BY <2>2, <2>3
<1>6. ASSUME UNCHANGED <<text, asked, words, from, olds, disturbed>> PROVE Kept(t)'
  <2>1. Undisturbed(t) /\ Kept(t)
    BY <1>1, <1>6 DEF Undisturbed
  <2>. QED  BY <1>6, <2>1, KeptStays
<1>7. CASE TryWildcards
  BY <1>6, <1>7 DEF TryWildcards
<1>8. CASE RunCommand
  BY <1>6, <1>8 DEF RunCommand
<1>9. CASE UNCHANGED vars
  BY <1>6, <1>9 DEF vars
<1>10. "main" \in Threads /\ "mgmt" \in Threads
  BY DEF Threads
<1>11. ASSUME NEW s \in Names, Begin("main", s) PROVE Kept(t)'
  BY <1>2, <1>10, <1>11
<1>12. ASSUME NEW s \in Requests, Begin("mgmt", s) PROVE Kept(t)'
  BY <1>2, <1>10, <1>12
<1>. QED  BY <1>3, <1>4, <1>5, <1>7, <1>8, <1>9, <1>11, <1>12 DEF Next

(***************************************************************************)
(* How many words there are, and which is the nth.                         *)
(***************************************************************************)
LEMMA StartsFinite ==
  ASSUME TypesInv, NEW t \in Threads, Undisturbed(t)
  PROVE  /\ Starts(t) \in SUBSET Nat /\ IsFiniteSet(Starts(t)) /\ Cardinality(Starts(t)) \in Nat
         /\ \A T \in SUBSET Starts(t) : IsFiniteSet(T) /\ Cardinality(T) \in Nat
                                        /\ Cardinality(T) <= Cardinality(Starts(t))
<1>1. Len(asked[t]) \in Nat /\ asked[t] \in Seq(Chars)
  BY AskedString
<1>2. Starts(t) \in SUBSET (1 .. Len(asked[t]))
  BY <1>1 DEF Starts, RunStarts
<1>3. IsFiniteSet(1 .. Len(asked[t]))
  BY <1>1, FS_Interval
<1>4. IsFiniteSet(Starts(t))
  BY <1>2, <1>3, FS_Subset
<1>5. ASSUME NEW T \in SUBSET Starts(t)
      PROVE  IsFiniteSet(T) /\ Cardinality(T) \in Nat /\ Cardinality(T) <= Cardinality(Starts(t))
  <2>1. IsFiniteSet(T) /\ Cardinality(T) <= Cardinality(Starts(t))
    BY <1>4, FS_Subset
  <2>. QED  BY <2>1, FS_CardinalityType
<1>. QED  BY <1>1, <1>2, <1>4, <1>5, FS_CardinalityType

LEMMA FoundCount ==
  ASSUME TypesInv, NEW t \in Threads, Undisturbed(t), Kept(t), NEW n \in 0 .. Len(words[t]),
         Regular(t, n), \A j \in 1 .. n : words[t][j] # NULL
  PROVE  Found(t, n) \in SUBSET Starts(t) /\ Cardinality(Found(t, n)) = n
<1> DEFINE S == {k \in 0 .. n : Found(t, k) \in SUBSET Starts(t) /\ Cardinality(Found(t, k)) = k}
<1>0. n \in Nat /\ Len(words[t]) \in Nat
  BY DEF TypesInv, Typed
<1>1. 0 \in S
  <2>1. Found(t, 0) = {}
    BY DEF Found
  <2>2. Cardinality({}) = 0 /\ 0 \in 0 .. n
    BY <1>0, FS_EmptySet
  <2>. QED  BY <2>1, <2>2
<1>2. ASSUME NEW k \in 1 .. n, k - 1 \in S PROVE k \in S
  <2>1. Found(t, k - 1) \in SUBSET Starts(t) /\ Cardinality(Found(t, k - 1)) = k - 1
    BY <1>2
  <2>2. k \in 1 .. Len(words[t]) /\ Regular(t, k) /\ words[t][k] # NULL
    BY <1>0 DEF Regular
  <2>3. words[t][k].at \in Starts(t) /\ {i \in Starts(t) : i < words[t][k].at} = Found(t, k - 1)
    BY <2>2 DEF Kept, InOrder
  <2>4. words[t][k].at \notin Found(t, k - 1)
    BY <2>3, StartsFinite
  <2>5. Found(t, k) = Found(t, k - 1) \cup {words[t][k].at}
    <3>1. \A x : x \in Found(t, k) <=> \E j \in 1 .. k : x = words[t][j].at
      BY <1>0 DEF Found
    <3>2. \A x : x \in Found(t, k - 1) <=> \E j \in 1 .. k - 1 : x = words[t][j].at
      BY <1>0 DEF Found
    <3>3. \A j : j \in 1 .. k <=> j \in 1 .. k - 1 \/ j = k
      BY <1>0
    <3>. QED  BY <3>1, <3>2, <3>3
  <2>6. IsFiniteSet(Found(t, k - 1))
    BY <2>1, StartsFinite
  <2>7. Cardinality(Found(t, k)) = (k - 1) + 1
    <3> DEFINE F == Found(t, k - 1)
               x == words[t][k].at
    <3>1. IsFiniteSet(F) /\ x \notin F /\ Cardinality(F) = k - 1 /\ Found(t, k) = F \cup {x}
      BY <2>1, <2>4, <2>5, <2>6
    <3> HIDE DEF F, x
    <3>2. Cardinality(F \cup {x}) = Cardinality(F) + 1
      BY <3>1, FS_AddElement
    <3>. QED  BY <3>1, <3>2
  <2>8. Found(t, k) \in SUBSET Starts(t)
    BY <2>1, <2>3, <2>5
  <2>9. (k - 1) + 1 = k /\ k \in 0 .. n
    BY <1>0
  <2>. QED  BY <2>7, <2>8, <2>9
<1> HIDE DEF S
<1>3. \A k \in 0 .. n : k \in S
  BY <1>0, <1>1, <1>2, RangeInduction
<1>4. n \in S
  BY <1>0, <1>3
<1>. QED  BY <1>4 DEF S

LEMMA WordCount ==
  ASSUME TypesInv, NEW t \in Threads, Undisturbed(t), Kept(t), NEW n \in 1 .. Len(words[t]),
         Regular(t, n)
  PROVE  IF words[t][n] = NULL
         THEN Cardinality(Starts(t)) < n
         ELSE /\ words[t][n].at \in Starts(t)
              /\ Cardinality({i \in Starts(t) : i < words[t][n].at}) = n - 1
              /\ Cardinality(Starts(t)) >= n
<1>0. n \in Nat /\ Len(words[t]) \in Nat
  BY DEF TypesInv, Typed
<1>1. CASE words[t][n] # NULL
  <2>1. words[t][n].at \in Starts(t) /\ {i \in Starts(t) : i < words[t][n].at} = Found(t, n - 1)
        /\ \A j \in 1 .. n : words[t][j] # NULL
    BY <1>1 DEF Kept, InOrder
  <2>2. n - 1 \in 0 .. Len(words[t]) /\ Regular(t, n - 1) /\ n \in 0 .. Len(words[t])
        /\ \A j \in 1 .. n - 1 : words[t][j] # NULL
    BY <1>0, <2>1 DEF Regular
  <2>3. Cardinality(Found(t, n - 1)) = n - 1
    BY <2>2, FoundCount
  <2>4. Found(t, n) \in SUBSET Starts(t) /\ Cardinality(Found(t, n)) = n
    BY <2>1, <2>2, FoundCount
  <2>5. Cardinality(Starts(t)) >= n
    BY <1>0, <2>4, StartsFinite
  <2>. QED  BY <1>1, <2>1, <2>3, <2>5
<1>2. CASE words[t][n] = NULL
  <2> DEFINE M == {j \in 1 .. n : words[t][j] = NULL}
  <2>1. M \in SUBSET Nat /\ n \in M
    BY <1>0, <1>2
  <2>2. PICK m \in M : \A j \in M : m <= j
    BY <2>1, LeastNumber
  <2>3. m \in 1 .. n /\ words[t][m] = NULL /\ m \in 1 .. Len(words[t])
    BY <1>0, <2>2
  <2>4. ASSUME NEW j \in 1 .. m - 1 PROVE words[t][j] # NULL
    <3>1. j \in 1 .. n /\ ~ (m <= j)
      BY <1>0, <2>3
    <3>. QED  BY <2>2, <3>1
  <2>5. Regular(t, m) /\ Regular(t, m - 1) /\ m - 1 \in 0 .. Len(words[t])
    BY <1>0, <2>3 DEF Regular
  <2>6. Starts(t) = Found(t, m - 1)
    BY <2>3, <2>5 DEF Kept, InOrder
  <2>7. Cardinality(Found(t, m - 1)) = m - 1
    BY <2>4, <2>5, FoundCount
  <2>8. Cardinality(Starts(t)) = m - 1 /\ m - 1 < n
    BY <1>0, <2>3, <2>6, <2>7
  <2>. QED  BY <1>2, <2>8
<1>. QED  BY <1>1, <1>2

\* Two starts with as many before them are the same.
LEMMA SameRank ==
  ASSUME NEW S \in SUBSET Nat, IsFiniteSet(S), NEW i \in S, NEW k \in S,
         Cardinality({j \in S : j < i}) = Cardinality({j \in S : j < k})
  PROVE  i = k
<1>1. ASSUME NEW x \in S, NEW y \in S, x < y,
             Cardinality({j \in S : j < x}) = Cardinality({j \in S : j < y})
      PROVE  FALSE
  <2>1. IsFiniteSet({j \in S : j < y})
    BY FS_Subset
  <2>2. {j \in S : j < x} \in SUBSET {j \in S : j < y}
    <3>1. x \in Nat /\ y \in Nat /\ \A j \in S : j \in Nat
      OBVIOUS
    <3>2. \A j \in S : j < x => j < y
      BY <1>1, <3>1
    <3>. QED  BY <3>2
  <2>3. {j \in S : j < y} = {j \in S : j < x}
    BY <1>1, <2>1, <2>2, FS_Subset
  <2>4. x \in {j \in S : j < y} /\ x \notin {j \in S : j < x}
    BY <1>1
  <2>. QED  BY <2>3, <2>4
<1>2. i \in Nat /\ k \in Nat /\ ~ (i < k) /\ ~ (k < i)
  BY <1>1
<1>. QED  BY <1>2

LEMMA WordStartIs ==
  ASSUME TypesInv, Undisturbed("mgmt"), Kept("mgmt"), NEW n \in 1 .. Len(words["mgmt"]),
         n <= 5, words["mgmt"][n] # NULL
  PROVE  WordStart(asked["mgmt"], n) = words["mgmt"][n].at
<1> DEFINE t == "mgmt"
           S == Starts(t)
           a == words[t][n].at
<1>1. t \in Threads /\ Regular(t, n)
  BY DEF Threads, Regular
<1>2. a \in S /\ Cardinality({i \in S : i < a}) = n - 1
  BY <1>1, WordCount
<1>3. S \in SUBSET Nat /\ IsFiniteSet(S)
  BY <1>1, StartsFinite
<1>4. S = RunStarts(asked[t], Whitespace)
  BY DEF Starts, Stops
<1>5. WordStart(asked[t], n) = CHOOSE i \in S : Cardinality({j \in S : j < i}) = n - 1
  BY <1>4 DEF WordStart
<1> HIDE DEF S, a
<1>6. PICK k \in S : k = WordStart(asked[t], n) /\ Cardinality({j \in S : j < k}) = n - 1
  BY <1>2, <1>5
<1>7. k = a
  BY <1>2, <1>3, <1>6, SameRank
<1>. QED  BY <1>6, <1>7 DEF a

(***************************************************************************)
(* The command run is the one meant.                                       *)
(***************************************************************************)
LEMMA Tuples ==
  ASSUME NEW g
  PROVE  /\ [i \in 1 .. 1 |-> g[i]] = <<g[1]>>
         /\ [i \in 1 .. 4 |-> g[i]] \o <<>> = [i \in 1 .. 4 |-> g[i]]
         /\ [i \in 1 .. 4 |-> g[i]] \o <<g[5]>> = [i \in 1 .. 5 |-> g[i]]
<1> DEFINE f == [i \in 1 .. 4 |-> g[i]]
           S == {g[i] : i \in 1 .. 5}
<1>1. f \in Seq(S) /\ Len(f) = 4 /\ <<g[5]>> \in Seq(S) /\ <<>> \in Seq(S)
  <2>1. f \in [1 .. 4 -> S]
    OBVIOUS
  <2>2. g[5] \in S
    OBVIOUS
  <2>. QED  BY <2>1, <2>2
<1>2. \A i \in 1 .. 4 : f[i] = g[i]
  OBVIOUS
<1>3. f \o <<>> = f
  BY <1>1, ConcatEmptySeq
<1>4. f \o <<g[5]>> = [i \in 1 .. 5 |-> g[i]]
  <2> DEFINE h == f \o <<g[5]>>
  <2>1. h \in Seq(S) /\ Len(h) = 5 /\ (\A i \in 1 .. 4 : h[i] = f[i]) /\ h[5] = g[5]
    BY <1>1, ConcatProperties
  <2> HIDE DEF h, f
  <2>2. DOMAIN h = 1 .. 5 /\ h = [i \in DOMAIN h |-> h[i]]
    BY <2>1
  <2>3. \A i \in 1 .. 5 : h[i] = g[i]
    BY <1>2, <2>1
  <2>. QED  BY <2>2, <2>3 DEF h
<1>. QED  BY <1>3, <1>4

LEMMA CommandMeant ==
  ASSUME TypesInv, Undisturbed("mgmt"), Kept("mgmt"), RunCommand
  PROVE  outcome'["mgmt"] = Meaning(asked["mgmt"])
<1> DEFINE t == "mgmt"
           s == asked[t]
           ws == words[t]
           n == Len(ws)
           count == Cardinality(RunStarts(s, Whitespace))
           word(k) == Run(s, WordStart(s, k), Whitespace)
           left == {i \in RunEnd(s, WordStart(s, 5), Whitespace) + 2 .. Len(s) : s[i] # "\n"}
           g == [i \in 1 .. 5 |-> StringAt(ws[i + 1])]
<1>1. /\ t \in Threads /\ ws \in Seq(Pointer \cup {NULL}) /\ n \in Nat /\ n <= 6
      /\ from[t] = NULL /\ ~ CallsLeft(t)
  <2>1. t \in Threads /\ from[t] = NULL /\ ~ CallsLeft(t)
    BY DEF RunCommand, Threads
  <2>2. words[t] \in Seq(Pointer \cup {NULL}) /\ Len(words[t]) <= Limit(t)
    BY <2>1 DEF TypesInv, Typed, AtWork
  <2>4. n \in Nat
    BY <2>2
  <2>3. Limit(t) = 6
    BY DEF Limit
  <2>. QED  BY <2>1, <2>2, <2>3, <2>4
<1>2. ws # <<>> /\ n >= 1
  <2>1. [of |-> t, at |-> 1] # NULL
    BY <1>1, NullAssumption
  <2>. QED  BY <1>1, <2>1 DEF Kept, TextKept
<1>3. /\ Wanted \in {1, 2, 5, 6}
      /\ Wanted = 1 <=> ~ WordIs(t, 1, <<auth_token>>)
      /\ n = 1 => Wanted \in {1, 2}
      /\ n >= 2 =>
           /\ Wanted = 6 <=> WordIs(t, 1, <<auth_token>>) /\ WordIs(t, 2, <<"ADD">>)
           /\ Wanted = 5 <=> WordIs(t, 1, <<auth_token>>) /\ WordIs(t, 2, <<"DELETE">>)
  BY <1>2, WantedIs
<1>4. n >= Wanted
  BY <1>1, <1>3 DEF CallsLeft
<1>5. outcome'[t] = IF Wanted = 1 THEN <<"refused">>
                    ELSE IF ws[2] = NULL THEN <<"no command">>
                    ELSE IF \E i \in 3 .. n : ws[i] = NULL THEN <<"missing parameters">>
                    ELSE [i \in 1 .. n - 1 |-> StringAt(ws[i + 1])]
  BY <1>1 DEF RunCommand, TypesInv, Typed
<1>6. Meaning(s) =
        IF count = 0 \/ word(1) # <<auth_token>> THEN <<"refused">>
        ELSE IF count = 1 THEN <<"no command">>
        ELSE IF word(2) \notin {<<"ADD">>, <<"DELETE">>} THEN <<word(2)>>
        ELSE IF count < 5 \/ (word(2) = <<"ADD">> /\ left = {}) THEN <<"missing parameters">>
        ELSE [k \in 1 .. 4 |-> word(k + 1)]
               \o IF word(2) = <<"ADD">> THEN <<Run(s, Min(left), {"\n"})>> ELSE <<>>
  BY Zenon DEF Meaning
<1>7. Starts(t) = RunStarts(s, Whitespace) /\ count \in Nat
  BY <1>1, StartsFinite DEF Starts, Stops
<1>8. ASSUME NEW k \in 1 .. n, k <= 5
      PROVE  IF ws[k] = NULL THEN count < k
             ELSE /\ count >= k
                  /\ WordStart(s, k) = ws[k].at /\ WordKept(t, k)
                  /\ StringAt(ws[k]) = word(k)
                  /\ \A w : WordIs(t, k, w) <=> word(k) = w
                  /\ \A j \in 1 .. k : ws[j] # NULL
  <2>1. Regular(t, k) /\ Stops(t, k) = Whitespace
    BY <1>8 DEF Regular, Stops
  <2>2. CASE ws[k] = NULL
    BY <1>1, <1>7, <1>8, <2>1, <2>2, WordCount
  <2>3. CASE ws[k] # NULL
    <3>1. count >= k
      BY <1>1, <1>7, <1>8, <2>1, <2>3, WordCount
    <3>2. WordStart(s, k) = ws[k].at
      BY <1>8, <2>3, WordStartIs
    <3>3. TextKept(t) /\ WordKept(t, k) /\ InOrder(t)
      BY <1>8, <2>3 DEF Kept, WordsKept
    <3>4. StringAt(ws[k]) = Run(s, ws[k].at, Stops(t, k))
      BY <1>1, <1>8, <3>3, KeptReads
    <3>5. \A j \in 1 .. k : ws[j] # NULL
      BY <1>8, <2>1, <2>3, <3>3 DEF InOrder
    <3>6. \A w : WordIs(t, k, w) <=> word(k) = w
      BY <2>1, <2>3, <3>2 DEF WordIs
    <3>. QED  BY <2>1, <2>3, <3>1, <3>2, <3>3, <3>4, <3>5, <3>6
  <2>. QED  BY <2>2, <2>3
<1> HIDE DEF count, word, left, n
<1>9. CASE Wanted = 1
  <2>1. ~ WordIs(t, 1, <<auth_token>>) /\ 1 \in 1 .. n
    BY <1>1, <1>2, <1>3, <1>9
  <2>2. CASE ws[1] = NULL
    <3>1. count = 0
      BY <1>7, <1>8, <2>1, <2>2
    <3>. QED  BY <1>5, <1>6, <1>9, <3>1
  <2>3. CASE ws[1] # NULL
    <3>1. word(1) # <<auth_token>>
      BY <1>8, <2>1, <2>3
    <3>. QED  BY <1>5, <1>6, <1>9, <3>1
  <2>. QED  BY <2>2, <2>3
<1>10. ASSUME Wanted # 1
       PROVE  n >= 2 /\ count # 0 /\ word(1) = <<auth_token>> /\ WordIs(t, 1, <<auth_token>>)
              /\ 1 \in 1 .. n /\ 2 \in 1 .. n
  <2>1. WordIs(t, 1, <<auth_token>>) /\ 1 \in 1 .. n
    BY <1>1, <1>2, <1>3, <1>10
  <2>2. ws[1] # NULL
    BY <2>1 DEF WordIs
  <2>3. word(1) = <<auth_token>> /\ count >= 1
    BY <1>8, <2>1, <2>2
  <2>4. n # 1
    BY <1>3, <1>4, <1>10
  <2>5. n >= 2 /\ 2 \in 1 .. n
    BY <1>1, <1>2, <2>4
  <2>. QED  BY <1>7, <2>1, <2>3, <2>5
<1>11. CASE Wanted # 1 /\ ws[2] = NULL
  <2>1. count < 2
    BY <1>8, <1>10, <1>11
  <2>2. count = 1
    BY <1>7, <1>10, <1>11, <2>1
  <2>. QED  BY <1>5, <1>6, <1>10, <1>11, <2>2
<1>12. ASSUME Wanted # 1, ws[2] # NULL
       PROVE  /\ count >= 2 /\ count # 1 /\ StringAt(ws[2]) = word(2)
              /\ \A w : WordIs(t, 2, w) <=> word(2) = w
              /\ n >= 3 => word(2) = <<"ADD">> \/ word(2) = <<"DELETE">>
              /\ n >= 6 => word(2) = <<"ADD">>
  <2>1. 2 \in 1 .. n
    BY <1>10, <1>12
  <2>2. count >= 2 /\ StringAt(ws[2]) = word(2) /\ \A w : WordIs(t, 2, w) <=> word(2) = w
    BY <1>8, <1>12, <2>1
  <2>3. Called(t) = n
    BY <1>1 DEF n, Called
  <2>4. /\ n >= 3 => WordIs(t, 2, <<"ADD">>) \/ WordIs(t, 2, <<"DELETE">>)
        /\ n >= 6 => WordIs(t, 2, <<"ADD">>)
    BY <2>3 DEF Kept, CallsMeant
  <2>. QED  BY <1>7, <2>2, <2>4
<1>13. CASE Wanted # 1 /\ ws[2] # NULL /\ word(2) \notin {<<"ADD">>, <<"DELETE">>}
  <2>1. ~ (n >= 3)
    BY <1>12, <1>13
  <2>2. n = 2
    BY <1>1, <1>10, <1>13, <2>1
  <2>3. outcome'[t] = [i \in 1 .. n - 1 |-> StringAt(ws[i + 1])]
    BY <1>5, <1>13, <2>2
  <2>4. [i \in 1 .. n - 1 |-> StringAt(ws[i + 1])] = [i \in 1 .. 1 |-> g[i]]
    BY <2>2
  <2>5. g[1] = word(2)
    BY <1>12, <1>13
  <2> HIDE DEF g
  <2>6. outcome'[t] = <<word(2)>>
    BY <2>3, <2>4, <2>5, Tuples
  <2>. QED  BY <1>6, <1>10, <1>12, <1>13, <2>6
<1>14. ASSUME Wanted # 1, ws[2] # NULL, n >= 5, ws[5] # NULL
       PROVE  /\ [k \in 1 .. 4 |-> word(k + 1)] = [k \in 1 .. 4 |-> g[k]]
              /\ count >= 5 /\ \A i \in 3 .. 5 : ws[i] # NULL
  <2>1. 5 \in 1 .. n
    BY <1>1, <1>14
  <2>2. count >= 5 /\ \A j \in 1 .. 5 : ws[j] # NULL
    BY <1>8, <1>14, <2>1
  <2>3. ASSUME NEW k \in 1 .. 4 PROVE word(k + 1) = g[k]
    <3>1. k + 1 \in 1 .. n /\ k + 1 <= 5 /\ k + 1 \in 1 .. 5 /\ k \in 1 .. 5
      BY <1>1, <1>14
    <3>2. StringAt(ws[k + 1]) = word(k + 1)
      BY <1>8, <2>2, <3>1
    <3>. QED  BY <3>1, <3>2
  <2>. QED  BY <2>2, <2>3
<1>15. CASE Wanted # 1 /\ ws[2] # NULL /\ word(2) = <<"DELETE">>
  <2>0. word(2) # <<"ADD">>
    BY <1>15
  <2>1. Wanted = 5
    BY <1>3, <1>10, <1>12, <1>15
  <2>2. ~ (n >= 6) /\ n >= 5
    BY <1>4, <1>12, <1>15, <2>0, <2>1
  <2>3. n = 5
    BY <1>1, <2>2
  <2>4. CASE ws[5] = NULL
    <3>1. 5 \in 1 .. n /\ 5 <= 5 /\ 5 \in 3 .. n
      BY <2>3
    <3>2. count < 5
      BY <1>8, <2>4, <3>1
    <3>3. outcome'[t] = <<"missing parameters">>
      BY <1>5, <1>15, <2>4, <3>1
    <3>. QED  BY <1>6, <1>10, <1>12, <1>15, <3>2, <3>3
  <2>5. CASE ws[5] # NULL
    <3>1. /\ [k \in 1 .. 4 |-> word(k + 1)] = [k \in 1 .. 4 |-> g[k]]
          /\ count >= 5 /\ \A i \in 3 .. 5 : ws[i] # NULL
      BY <1>14, <1>15, <2>2, <2>5
    <3>2. ~ \E i \in 3 .. n : ws[i] = NULL
      BY <2>3, <3>1
    <3>3. outcome'[t] = [i \in 1 .. n - 1 |-> StringAt(ws[i + 1])]
      BY <1>5, <1>15, <3>2
    <3>4. [i \in 1 .. n - 1 |-> StringAt(ws[i + 1])] = [i \in 1 .. 4 |-> g[i]]
      BY <2>3
    <3>5. ~ (count < 5)
      BY <1>7, <3>1
    <3>6. Meaning(s) = [k \in 1 .. 4 |-> word(k + 1)] \o <<>>
      BY <1>6, <1>10, <1>12, <1>15, <2>0, <3>5
    <3> HIDE DEF g
    <3>. QED  BY <3>1, <3>3, <3>4, <3>6, Tuples
  <2>. QED  BY <2>4, <2>5
<1>16. CASE Wanted # 1 /\ ws[2] # NULL /\ word(2) = <<"ADD">>
  <2>1. Wanted = 6
    BY <1>3, <1>10, <1>12, <1>16
  <2>2. n = 6
    BY <1>1, <1>4, <2>1
  <2>3. CASE ws[5] = NULL
    <3>1. 5 \in 1 .. n /\ 5 <= 5 /\ 5 \in 3 .. n
      BY <2>2
    <3>2. count < 5
      BY <1>8, <2>3, <3>1
    <3>3. outcome'[t] = <<"missing parameters">>
      BY <1>5, <1>16, <2>3, <3>1
    <3>. QED  BY <1>6, <1>10, <1>12, <1>16, <3>2, <3>3
  <2>4. CASE ws[5] # NULL
    <3>1. /\ [k \in 1 .. 4 |-> word(k + 1)] = [k \in 1 .. 4 |-> g[k]]
          /\ count >= 5 /\ \A i \in 3 .. 5 : ws[i] # NULL
      BY <1>14, <1>16, <2>2, <2>4
    <3>2. 5 \in 1 .. n /\ 6 \in 1 .. n /\ 6 \in 3 .. n /\ n >= 6
      BY <2>2
    <3>3. WordStart(s, 5) = ws[5].at
      BY <1>8, <2>4, <3>2
    <3>4. left = Left(t)
      BY <3>3 DEF left, Left, WordEnd, Stops
    <3>5. IF ws[6] = NULL THEN left = {}
          ELSE ws[6].at \in left /\ \A i \in left : ws[6].at <= i
      BY <2>4, <3>2, <3>4 DEF n, Kept, ValueKept
    <3>6. left \in SUBSET Nat
      <4>1. WordKept(t, 5)
        BY <1>8, <2>4, <3>2
      <4>2. WordEnd(t, 5) \in Nat
        BY <1>1, <3>2, <4>1, WordEndIs DEF n
      <4>3. Len(s) \in Nat
        BY <1>1, AskedString
      <4>. QED  BY <3>4, <4>2, <4>3 DEF Left
    <3>7. ~ (count < 5)
      BY <1>7, <3>1
    <3>8. CASE ws[6] = NULL
      <4>1. outcome'[t] = <<"missing parameters">>
        BY <1>5, <1>16, <3>2, <3>8
      <4>. QED  BY <1>6, <1>10, <1>12, <1>16, <3>5, <3>8, <4>1
    <3>9. CASE ws[6] # NULL
      <4>1. ~ \E i \in 3 .. n : ws[i] = NULL
        <5>1. \A i \in 3 .. 6 : i \in 3 .. 5 \/ i = 6
          OBVIOUS
        <5>. QED  BY <2>2, <3>1, <3>9, <5>1
      <4>2. outcome'[t] = [i \in 1 .. n - 1 |-> StringAt(ws[i + 1])]
        BY <1>5, <1>16, <4>1
      <4>3. [i \in 1 .. n - 1 |-> StringAt(ws[i + 1])] = [i \in 1 .. 5 |-> g[i]]
        BY <2>2
      <4>4. g[5] = StringAt(ws[6])
        OBVIOUS
      <4>5. TextKept(t) /\ WordKept(t, 6)
        BY <3>2, <3>9 DEF n, Kept, WordsKept
      <4>6. StringAt(ws[6]) = Run(s, ws[6].at, Stops(t, 6))
        BY <1>1, <3>2, <4>5, KeptReads DEF n
      <4>7. Stops(t, 6) = {"\n"}
        BY DEF Stops
      <4>8. ws[6].at = Min(left) /\ left # {}
        BY <3>5, <3>6, <3>9, MinIs
      <4>9. g[5] = Run(s, Min(left), {"\n"})
        BY <4>4, <4>6, <4>7, <4>8
      <4>10. Meaning(s) = [k \in 1 .. 4 |-> word(k + 1)] \o <<Run(s, Min(left), {"\n"})>>
        BY <1>6, <1>10, <1>12, <1>16, <3>7, <4>8
      <4> HIDE DEF g
      <4>. QED  BY <3>1, <4>2, <4>3, <4>9, <4>10, Tuples
    <3>. QED  BY <3>8, <3>9
  <2>. QED  BY <2>3, <2>4
<1>17. Wanted = 1 \/ ws[2] = NULL \/ word(2) \notin {<<"ADD">>, <<"DELETE">>}
       \/ word(2) = <<"DELETE">> \/ word(2) = <<"ADD">>
  OBVIOUS
<1>. QED  BY <1>9, <1>11, <1>13, <1>15, <1>16, <1>17

(***************************************************************************)
(* What a thread has done with words no call of the other came between.    *)
(***************************************************************************)
\* Only RunCommand gives the management thread an outcome.
LEMMA CommandOutcome ==
  ASSUME TypesInv, Next, outcome'["mgmt"] # NULL
  PROVE  \/ RunCommand
         \/ outcome'["mgmt"] = outcome["mgmt"]
            /\ asked'["mgmt"] = asked["mgmt"]
            /\ (disturbed["mgmt"] => disturbed'["mgmt"])
<1> DEFINE Same == /\ outcome'["mgmt"] = outcome["mgmt"]
                   /\ asked'["mgmt"] = asked["mgmt"]
                   /\ (disturbed["mgmt"] => disturbed'["mgmt"])
<1>1. /\ asked \in [Threads -> Names \cup Requests \cup {NULL}] /\ "mgmt" \in Threads
      /\ outcome = [t \in Threads |-> outcome[t]] /\ disturbed \in [Threads -> BOOLEAN]
      /\ "main" \in Threads /\ \A t \in Threads : t = "main" \/ t = "mgmt"
  BY DEF TypesInv, Typed, Threads
<1>2. ASSUME NEW s \in Names, Begin("main", s) PROVE Same
  BY <1>1, <1>2 DEF Begin
<1>3. ASSUME NEW s \in Requests, Begin("mgmt", s) PROVE Same
  <2>1. outcome["mgmt"] = NULL /\ outcome' = outcome
    BY <1>1, <1>3 DEF Begin, TypesInv, AtWork
  <2>. QED  BY <2>1
<1>4. ASSUME NEW t \in Threads, ReadPosition(t) PROVE Same
  BY <1>4 DEF ReadPosition
<1>5. ASSUME NEW t \in Threads, Scan(t) PROVE Same
  <2>1. outcome' = outcome /\ asked' = asked /\ disturbed' = [disturbed EXCEPT ![Other(t)] = TRUE]
    BY <1>5 DEF Scan
  <2>2. disturbed["mgmt"] => disturbed'["mgmt"]
    BY <1>1, <2>1
  <2>. QED  BY <2>1, <2>2
<1>6. ASSUME NEW t \in Threads, Finish(t) PROVE Same
  <2>1. outcome' = [outcome EXCEPT ![t] = NULL] /\ asked' = [asked EXCEPT ![t] = NULL]
        /\ disturbed' = disturbed
    BY <1>6 DEF Finish
  <2>2. t # "mgmt"
    BY <1>1, <2>1
  <2>. QED  BY <1>1, <2>1, <2>2
<1>7. CASE TryWildcards
  BY <1>1, <1>7 DEF TryWildcards
<1>. QED  BY <1>2, <1>3, <1>4, <1>5, <1>6, <1>7 DEF Next

\* The command run by a management thread whose calls of strtok no call of
\* resolveRecord came between is the one the request asks for, with its parameters.
THEOREM CommandIsMeant == Spec => []UndisturbedCommand
<1> DEFINE Inv == TypesInv /\ KeptInv /\ UndisturbedCommand
<1>1. Init => Inv
  <2> SUFFICES ASSUME Init PROVE Inv
    OBVIOUS
  <2>1. TypesInv /\ KeptInv
    BY InitTypes, InitKept
  <2>2. outcome["mgmt"] = NULL
    BY DEF Init, Threads
  <2>. QED  BY <2>1, <2>2 DEF UndisturbedCommand
<1>2. Inv /\ [Next]_vars => Inv'
  <2> SUFFICES ASSUME Inv, [Next]_vars PROVE Inv'
    OBVIOUS
  <2>1. TypesInv' /\ KeptInv'
    BY NextTypes, NextKept
  <2>2. ASSUME outcome'["mgmt"] # NULL, ~ disturbed'["mgmt"]
        PROVE  outcome'["mgmt"] = Meaning(asked'["mgmt"])
    <3>1. CASE UNCHANGED vars
      BY <2>2, <3>1 DEF vars, UndisturbedCommand
    <3>2. CASE Next /\ RunCommand
      <4>1. asked' = asked /\ disturbed' = disturbed /\ Working("mgmt")
        BY <3>2 DEF RunCommand
      <4>2. Undisturbed("mgmt") /\ "mgmt" \in Threads
        BY <2>2, <4>1 DEF Undisturbed, Working, Threads
      <4>3. Kept("mgmt")
        BY <4>2 DEF KeptInv
      <4>. QED  BY <3>2, <4>1, <4>2, <4>3, CommandMeant
    <3>3. CASE Next /\ ~ RunCommand
      <4>1. outcome'["mgmt"] = outcome["mgmt"] /\ asked'["mgmt"] = asked["mgmt"]
            /\ (disturbed["mgmt"] => disturbed'["mgmt"])
        BY <2>2, <3>3, CommandOutcome
      <4>. QED  BY <2>2, <4>1 DEF UndisturbedCommand
    <3>. QED  BY <3>1, <3>2, <3>3
  <2>3. UndisturbedCommand'
    BY <2>2 DEF UndisturbedCommand
  <2>. QED  BY <2>1, <2>3
<1>3. Inv => UndisturbedCommand
  OBVIOUS
<1>. QED  BY <1>1, <1>2, <1>3, PTL DEF Spec

(***************************************************************************)
(* Labels put together again.                                              *)
(***************************************************************************)
\* A label behind a dot continues the part of the name that ends before the dot.
LEMMA CutJoin ==
  ASSUME NEW s \in Seq(Chars), NEW a \in 1 .. Len(s), NEW e \in a .. Len(s), NEW f \in e + 2 .. Len(s),
         s[e + 1] = "."
  PROVE  SubSeq(s, a, e) \o (<<".">> \o SubSeq(s, e + 2, f)) = SubSeq(s, a, f)
<1>1. Len(s) \in Nat /\ a \in Nat /\ e \in Nat /\ f \in Nat
  OBVIOUS
<1>2. SubSeq(s, e + 1, e + 1) = <<".">>
  <2>1. SubSeq(s, e + 1, e + 1) = [k \in 1 .. 1 |-> s[e + 1 + k - 1]]
    BY <1>1
  <2>2. \A k \in 1 .. 1 : s[e + 1 + k - 1] = "."
    BY <1>1
  <2>3. <<".">> = [k \in 1 .. 1 |-> "."]
    OBVIOUS
  <2>. QED  BY <2>1, <2>2, <2>3
<1>3. SubSeq(s, e + 1, e + 1) \o SubSeq(s, e + 2, f) = SubSeq(s, e + 1, f)
  <2>1. e + 1 \in 1 .. Len(s) + 1 /\ e + 1 \in (e + 1) - 1 .. Len(s) /\ f \in e + 1 .. Len(s)
    BY <1>1
  <2>2. SubSeq(s, e + 1, e + 1) \o SubSeq(s, (e + 1) + 1, f) = SubSeq(s, e + 1, f)
    BY <2>1, ConcatAdjacentSubSeq
  <2>3. (e + 1) + 1 = e + 2
    BY <1>1
  <2>. QED  BY <2>2, <2>3
<1>4. SubSeq(s, a, e) \o SubSeq(s, e + 1, f) = SubSeq(s, a, f)
  <2>1. a \in 1 .. Len(s) + 1 /\ e \in a - 1 .. Len(s) /\ f \in e .. Len(s)
    BY <1>1
  <2>. QED  BY <2>1, ConcatAdjacentSubSeq
<1>. QED  BY <1>2, <1>3, <1>4

\* The m labels are the parts of s from A[j] to E[j], with a dot between them.
Follow(labels, m, s, A, E) ==
  /\ s \in Seq(Chars) /\ m \in Nat \ {0} /\ labels = [j \in 1 .. m |-> labels[j]]
  /\ \A j \in 1 .. m : /\ A[j] \in 1 .. Len(s) /\ E[j] \in A[j] .. Len(s)
                        /\ labels[j] = SubSeq(s, A[j], E[j])
  /\ \A j \in 1 .. m - 1 : A[j + 1] = E[j] + 2 /\ s[E[j] + 1] = "."

\* Labels that follow each other in a name, put together, are that part of it.
LEMMA DottedIs ==
  ASSUME NEW labels, NEW m, NEW s, NEW A, NEW E, Follow(labels, m, s, A, E)
  PROVE  Dotted(labels) = SubSeq(s, A[1], E[m])
<1>0. /\ s \in Seq(Chars) /\ m \in Nat \ {0} /\ labels = [j \in 1 .. m |-> labels[j]]
      /\ \A j \in 1 .. m : /\ A[j] \in 1 .. Len(s) /\ E[j] \in A[j] .. Len(s)
                            /\ labels[j] = SubSeq(s, A[j], E[j])
      /\ \A j \in 1 .. m - 1 : A[j + 1] = E[j] + 2 /\ s[E[j] + 1] = "."
  BY DEF Follow
<1> USE <1>0
<1> DEFINE F == [j \in DOMAIN labels |-> IF j = 1 THEN labels[j] ELSE <<".">> \o labels[j]]
           flatten == CHOOSE g : g = [i \in 1 .. Len(F) |-> IF i = 1 THEN F[i] ELSE g[i - 1] \o F[i]]
           h == [i \in 1 .. m |-> SubSeq(s, A[1], E[i])]
<1>1. DOMAIN labels = 1 .. m /\ F = [j \in 1 .. m |-> F[j]]
  <2>1. DOMAIN labels = 1 .. m
    OBVIOUS
  <2>. QED  BY <2>1
<1>2. Len(F) = m
  <2>1. DOMAIN F = 1 .. m
    BY <1>1
  <2> HIDE DEF F
  <2>. QED  BY <1>1, <2>1
<1>3. Dotted(labels) = flatten[Len(F)]
  <2>1. Len(F) # 0
    BY <1>2
  <2>. QED  BY <2>1, Zenon DEF Dotted, FlattenSeq
<1>4. F[1] = labels[1] /\ \A j \in 2 .. m : F[j] = <<".">> \o labels[j]
  BY <1>1
<1> HIDE DEF F
<1>5. ASSUME NEW i \in 1 .. m PROVE h[i] = IF i = 1 THEN F[i] ELSE h[i - 1] \o F[i]
  <2>1. CASE i = 1
    BY <1>4, <2>1
  <2>2. CASE i # 1
    <3>1. i - 1 \in 1 .. m - 1 /\ i - 1 \in 1 .. m /\ (i - 1) + 1 = i /\ i \in 2 .. m
      BY <2>2
    <3>2. A[i] = E[i - 1] + 2 /\ s[E[i - 1] + 1] = "."
      BY <3>1
    <3>3. /\ A[i] \in 1 .. Len(s) /\ E[i] \in A[i] .. Len(s) /\ labels[i] = SubSeq(s, A[i], E[i])
          /\ A[i - 1] \in 1 .. Len(s) /\ E[i - 1] \in A[i - 1] .. Len(s)
          /\ A[1] \in 1 .. Len(s) /\ E[1] \in A[1] .. Len(s)
      <4>1. 1 \in 1 .. m
        OBVIOUS
      <4>. QED  BY <3>1, <4>1, Zenon
    <3>4. A[1] <= E[i - 1]
      <4> DEFINE T == {j \in 0 .. m : j = 0 \/ A[1] <= E[j]}
      <4>1. 0 \in T
        OBVIOUS
      <4>2. ASSUME NEW j \in 1 .. m, j - 1 \in T PROVE j \in T
        <5>1. CASE j = 1
          BY <3>3, <5>1
        <5>2. CASE j # 1
          <6>1. j - 1 \in 1 .. m - 1 /\ j - 1 \in 1 .. m /\ (j - 1) + 1 = j /\ j - 1 # 0
            BY <5>2
          <6>2. A[j] = E[j - 1] + 2 /\ A[j] \in 1 .. Len(s) /\ E[j] \in A[j] .. Len(s)
            BY <6>1
          <6>3. A[j - 1] \in 1 .. Len(s) /\ E[j - 1] \in A[j - 1] .. Len(s)
            BY <6>1
          <6>4. A[1] <= E[j - 1]
            BY <4>2, <6>1
          <6>5. A[1] <= E[j]
            <7>1. A[1] \in Nat /\ E[j - 1] \in Nat /\ A[j] \in Nat /\ E[j] \in Nat /\ A[j] <= E[j]
              <8>1. \A n \in Nat : \A x \in 1 .. n : \A y \in x .. n : x \in Nat /\ y \in Nat /\ x <= y
                OBVIOUS
              <8>2. Len(s) \in Nat
                OBVIOUS
              <8>. QED  BY <3>3, <6>2, <6>3, <8>1, <8>2, Zenon
            <7>. QED  BY <6>2, <6>4, <7>1
          <6>. QED  BY <6>5
        <5>. QED  BY <5>1, <5>2
      <4> HIDE DEF T
      <4>3. \A j \in 0 .. m : j \in T
        BY <4>1, <4>2, RangeInduction
      <4>4. i - 1 \in T
        BY <3>1, <4>3
      <4>. QED  BY <3>1, <4>4 DEF T
    <3>5. SubSeq(s, A[1], E[i - 1]) \o (<<".">> \o SubSeq(s, E[i - 1] + 2, E[i])) = SubSeq(s, A[1], E[i])
      <4>1. E[i - 1] \in A[1] .. Len(s) /\ E[i] \in E[i - 1] + 2 .. Len(s)
        BY <3>2, <3>3, <3>4
      <4>. QED  BY <3>2, <3>3, <4>1, CutJoin
    <3>6. F[i] = <<".">> \o SubSeq(s, E[i - 1] + 2, E[i])
      BY <1>4, <3>1, <3>2, <3>3
    <3>7. h[i] = SubSeq(s, A[1], E[i]) /\ h[i - 1] = SubSeq(s, A[1], E[i - 1])
      BY <3>1
    <3> HIDE DEF h
    <3>. QED  BY <2>2, <3>5, <3>6, <3>7
  <2>. QED  BY <2>1, <2>2
<1>6. h = [i \in 1 .. m |-> h[i]]
  OBVIOUS
<1> HIDE DEF h
<1>7. h = [i \in 1 .. Len(F) |-> IF i = 1 THEN F[i] ELSE h[i - 1] \o F[i]]
  BY <1>2, <1>5, <1>6
<1>8. flatten = [i \in 1 .. Len(F) |-> IF i = 1 THEN F[i] ELSE flatten[i - 1] \o F[i]]
  BY <1>7, Zenon
<1> HIDE DEF flatten
<1>9. \A i \in 1 .. m : flatten[i] = IF i = 1 THEN F[i] ELSE flatten[i - 1] \o F[i]
  BY <1>2, <1>8
<1> DEFINE T == {i \in 0 .. m : i = 0 \/ flatten[i] = h[i]}
<1>10. 0 \in T
  OBVIOUS
<1>11. ASSUME NEW i \in 1 .. m, i - 1 \in T PROVE i \in T
  <2>1. CASE i = 1
    BY <1>5, <1>9, <2>1
  <2>2. CASE i # 1
    <3>1. i - 1 # 0 /\ i \in 0 .. m
      BY <2>2
    <3>2. flatten[i - 1] = h[i - 1]
      BY <1>11, <3>1
    <3>3. flatten[i] = h[i]
      BY <1>5, <1>9, <2>2, <3>2
    <3>. QED  BY <3>1, <3>3
  <2>. QED  BY <2>1, <2>2
<1> HIDE DEF T
<1>12. \A i \in 0 .. m : i \in T
  BY <1>10, <1>11, RangeInduction
<1>13. flatten[m] = h[m]
  <2>1. m \in T
    BY <1>12
  <2>. QED  BY <2>1 DEF T
<1>14. h[m] = SubSeq(s, A[1], E[m])
  <2>1. m \in 1 .. m
    OBVIOUS
  <2>. QED  BY <2>1, Zenon DEF h
<1>. QED  BY <1>2, <1>3, <1>13, <1>14

(***************************************************************************)
(* The labels of a name.  A label may hold any byte, a dot included; the   *)
(* names below are those whose labels hold none, so that no dot is first,  *)
(* last or next to another.                                                *)
(***************************************************************************)
LabelsDotted(s) ==
  \A i \in DOMAIN s : s[i] = "." => i > 1 /\ i < Len(s) /\ s[i + 1] # "."

NamesDotted == \A s \in Names : LabelsDotted(s)

\* In such a name a label starts at the front and behind each dot.
LEMMA NameStarts ==
  ASSUME TypesInv, Undisturbed("main"), LabelsDotted(asked["main"])
  PROVE  LET s == asked["main"]  S == Starts("main") IN
         /\ \A i \in 1 .. Len(s) : s[i] = "." => i + 1 \in S
         /\ \A j \in S : j \in 1 .. Len(s) /\ s[j] # "."
                         /\ (j # 1 => j - 1 \in 1 .. Len(s) /\ s[j - 1] = ".")
         /\ Len(s) > 0 => 1 \in S
<1> DEFINE s == asked["main"]
           S == Starts("main")
<1>1. s \in Seq(Chars) /\ Len(s) \in Nat /\ DOMAIN s = 1 .. Len(s)
  <2>1. "main" \in Threads
    BY DEF Threads
  <2>2. s \in Seq(Chars)
    BY <2>1, AskedString
  <2>. QED  BY <2>2
<1>2. \A j : j \in S <=> j \in 1 .. Len(s) /\ s[j] # "." /\ (j = 1 \/ s[j - 1] = ".")
  BY <1>1 DEF Starts, RunStarts, Stops
<1>3. \A i \in 1 .. Len(s) : s[i] = "." => i > 1 /\ i < Len(s) /\ s[i + 1] # "."
  BY <1>1 DEF LabelsDotted
<1> HIDE DEF s, S
<1>4. ASSUME NEW i \in 1 .. Len(s), s[i] = "." PROVE i + 1 \in S
  <2>1. i + 1 \in 1 .. Len(s) /\ s[i + 1] # "." /\ (i + 1) - 1 = i
    BY <1>1, <1>3, <1>4
  <2>. QED  BY <1>2, <1>4, <2>1
<1>5. ASSUME NEW j \in S
      PROVE  j \in 1 .. Len(s) /\ s[j] # "." /\ (j # 1 => j - 1 \in 1 .. Len(s) /\ s[j - 1] = ".")
  <2>1. j \in 1 .. Len(s) /\ s[j] # "." /\ (j = 1 \/ s[j - 1] = ".")
    BY <1>2
  <2>2. j # 1 => j - 1 \in 1 .. Len(s)
    BY <1>1, <2>1
  <2>. QED  BY <2>1, <2>2
<1>6. ASSUME Len(s) > 0 PROVE 1 \in S
  <2>1. 1 \in 1 .. Len(s)
    BY <1>1, <1>6
  <2>2. s[1] # "."
    BY <1>3, <2>1
  <2>. QED  BY <1>2, <2>1, <2>2
<1>. QED  BY <1>4, <1>5, <1>6 DEF s, S

\* The parents of a name are what starts with a label that is not its first.
LEMMA ParentsByStart ==
  ASSUME TypesInv, Undisturbed("main"), LabelsDotted(asked["main"])
  PROVE  LET s == asked["main"]  S == Starts("main") IN
         /\ Parents(s) = {SubSeq(s, a, Len(s)) : a \in S \ {1}}
         /\ IsFiniteSet(Parents(s)) /\ Cardinality(Parents(s)) \in Nat
         /\ Cardinality(S) <= Cardinality(Parents(s)) + 1
<1> DEFINE s == asked["main"]
           S == Starts("main")
           P == Parents(s)
<1>1. s \in Seq(Chars) /\ Len(s) \in Nat /\ DOMAIN s = 1 .. Len(s) /\ "main" \in Threads
  <2>1. "main" \in Threads
    BY DEF Threads
  <2>2. s \in Seq(Chars)
    BY <2>1, AskedString
  <2>. QED  BY <2>1, <2>2
<1>2. S \in SUBSET Nat /\ IsFiniteSet(S) /\ Cardinality(S) \in Nat
  BY <1>1, StartsFinite
<1>3. /\ \A i \in 1 .. Len(s) : s[i] = "." => i + 1 \in S
      /\ \A j \in S : j \in 1 .. Len(s) /\ (j # 1 => j - 1 \in 1 .. Len(s) /\ s[j - 1] = ".")
  BY NameStarts
<1>4. P = {SubSeq(s, i + 1, Len(s)) : i \in {j \in 1 .. Len(s) : s[j] = "."}}
  BY <1>1 DEF Parents
<1> HIDE DEF s, S, P
<1>5. P = {SubSeq(s, a, Len(s)) : a \in S \ {1}}
  <2>1. ASSUME NEW i \in 1 .. Len(s), s[i] = "." PROVE i + 1 \in S \ {1}
    BY <1>1, <1>3, <2>1
  <2>2. ASSUME NEW a \in S \ {1}
        PROVE  \E i \in 1 .. Len(s) : s[i] = "." /\ SubSeq(s, i + 1, Len(s)) = SubSeq(s, a, Len(s))
    <3>1. a - 1 \in 1 .. Len(s) /\ s[a - 1] = "." /\ (a - 1) + 1 = a
      BY <1>2, <1>3
    <3>. QED  BY <3>1
  <2>3. P \subseteq {SubSeq(s, a, Len(s)) : a \in S \ {1}}
    BY <1>4, <2>1
  <2>4. {SubSeq(s, a, Len(s)) : a \in S \ {1}} \subseteq P
    BY <1>4, <2>2
  <2>. QED  BY <2>3, <2>4
<1>6. IsFiniteSet(S \ {1}) /\ Cardinality(S) <= Cardinality(S \ {1}) + 1 /\ Cardinality(S \ {1}) \in Nat
  <2>1. IsFiniteSet(S \ {1})
        /\ Cardinality(S \ {1}) = IF 1 \in S THEN Cardinality(S) - 1 ELSE Cardinality(S)
    BY <1>2, FS_RemoveElement
  <2>2. Cardinality(S \ {1}) \in Nat
    BY <2>1, FS_CardinalityType
  <2>. QED  BY <1>2, <2>1, <2>2
<1>7. ASSUME NEW a \in S PROVE Len(SubSeq(s, a, Len(s))) = Len(s) - a + 1
  <2>1. a \in 1 .. Len(s)
    BY <1>3
  <2>. QED  BY <1>1, <2>1
<1> DEFINE f == [p \in P |-> Len(s) - Len(p) + 1]
           g == [a \in S \ {1} |-> SubSeq(s, a, Len(s))]
<1>8. g \in Surjection(S \ {1}, P)
  <2>1. g \in [S \ {1} -> P]
    BY <1>5
  <2>2. \A p \in P : \E a \in S \ {1} : g[a] = p
    BY <1>5
  <2> HIDE DEF g
  <2>. QED  BY <2>1, <2>2, Fun_IsSurj
<1>9. f \in Surjection(P, S \ {1})
  <2>1. ASSUME NEW a \in S \ {1}
        PROVE  SubSeq(s, a, Len(s)) \in P /\ f[SubSeq(s, a, Len(s))] = a
    <3>1. SubSeq(s, a, Len(s)) \in P
      BY <1>5
    <3>2. Len(s) - (Len(s) - a + 1) + 1 = a
      BY <1>1, <1>2
    <3>. QED  BY <1>7, <3>1, <3>2
  <2>2. \A p \in P : \E a \in S \ {1} : p = SubSeq(s, a, Len(s))
    BY <1>5
  <2>3. f \in [P -> S \ {1}]
    <3>1. \A p \in P : f[p] \in S \ {1}
      BY <2>1, <2>2
    <3>. QED  BY <3>1
  <2> HIDE DEF f
  <2>4. \A a \in S \ {1} : \E p \in P : f[p] = a
    BY <2>1
  <2>. QED  BY <2>3, <2>4, Fun_IsSurj
<1> HIDE DEF f, g
<1>10. IsFiniteSet(P)
  BY <1>6, <1>8, FS_Surjection
<1>11. Cardinality(S \ {1}) <= Cardinality(P) /\ Cardinality(P) \in Nat
  BY <1>9, <1>10, FS_Surjection, FS_CardinalityType
<1>12. Cardinality(S) <= Cardinality(P) + 1
  BY <1>2, <1>6, <1>11
<1>. QED  BY <1>5, <1>10, <1>11, <1>12 DEF s, S, P

\* The labels found are the name's, one behind the other, to the end of the
\* name if there is no other.
LEMMA LabelsFollow ==
  ASSUME TypesInv, Undisturbed("main"), Kept("main"), LabelsDotted(asked["main"]),
         NEW n \in 1 .. Len(words["main"]), \A j \in 1 .. n : words["main"][j] # NULL,
         Starts("main") = Found("main", n)
  PROVE  LET s == asked["main"]
             at(j) == words["main"][j].at
             e(j) == WordEnd("main", j)
         IN  /\ \A j \in 1 .. n : at(j) \in 1 .. Len(s) /\ e(j) \in at(j) .. Len(s)
             /\ \A j \in 1 .. n - 1 : at(j + 1) = e(j) + 2 /\ s[e(j) + 1] = "."
             /\ e(n) = Len(s)
             /\ at(1) = 1
             /\ Starts("main") = {at(j) : j \in 1 .. n}
             /\ \A j \in 2 .. n : at(j) # 1
<1> DEFINE t == "main"
           s == asked[t]
           S == Starts(t)
           at(j) == words[t][j].at
           e(j) == WordEnd(t, j)
<1>0. t \in Threads /\ n \in Nat /\ Len(words[t]) \in Nat /\ s \in Seq(Chars) /\ Len(s) \in Nat
  <2>1. t \in Threads
    BY DEF Threads
  <2>. QED  BY <2>1, AskedString
<1>1. ASSUME NEW j \in 1 .. n
      PROVE  /\ at(j) \in 1 .. Len(s) /\ at(j) \in Nat /\ e(j) \in at(j) .. Len(s) /\ e(j) \in Nat
             /\ \A k \in at(j) .. e(j) : s[k] # "."
             /\ e(j) = Len(s) \/ s[e(j) + 1] = "."
             /\ at(j) \in S /\ {i \in S : i < at(j)} = Found(t, j - 1)
  <2>1. j \in 1 .. Len(words[t]) /\ words[t][j] # NULL
    BY <1>0
  <2>2. WordKept(t, j)
    BY <2>1 DEF Kept, WordsKept
  <2>3. Stops(t, j) = {"."} /\ Regular(t, j)
    BY DEF Stops, Regular
  <2>4. /\ e(j) \in at(j) .. Len(s) /\ at(j) \in 1 .. Len(s) /\ at(j) \in Nat /\ e(j) \in Nat
        /\ \A k \in at(j) .. e(j) : s[k] \notin {"."}
        /\ e(j) = Len(s) \/ s[e(j) + 1] \in {"."}
    BY <1>0, <2>1, <2>2, <2>3, WordEndIs
  <2>5. at(j) \in S /\ {i \in S : i < at(j)} = Found(t, j - 1)
    BY <2>1, <2>3 DEF Kept, InOrder
  <2>. QED  BY <2>4, <2>5
<1>2. /\ \A i \in 1 .. Len(s) : s[i] = "." => i + 1 \in S
      /\ \A j \in S : j \in 1 .. Len(s) /\ s[j] # "."
                      /\ (j # 1 => j - 1 \in 1 .. Len(s) /\ s[j - 1] = ".")
      /\ Len(s) > 0 => 1 \in S
  BY NameStarts
<1>3. \A k \in 0 .. n : \A x : x \in Found(t, k) <=> \E j \in 1 .. k : x = at(j)
  <2>1. \A k \in 0 .. n : \A j \in 1 .. k : j \in 1 .. n
    BY <1>0
  <2>. QED  BY <2>1 DEF Found
<1>4. S = {at(j) : j \in 1 .. n}
  <2>1. n \in 0 .. n
    BY <1>0
  <2>. QED  BY <1>3, <2>1
<1> HIDE DEF s, S, at, e
<1>5. ASSUME NEW j \in 1 .. n, NEW k \in 1 .. n, j < k PROVE at(j) < at(k)
  <2>1. k - 1 \in 0 .. n /\ j \in 1 .. k - 1
    BY <1>0, <1>5
  <2>2. at(j) \in Found(t, k - 1)
    BY <1>3, <2>1
  <2>. QED  BY <1>1, <2>2
<1>6. ASSUME NEW j \in 1 .. n, e(j) # Len(s) PROVE s[e(j) + 1] = "." /\ e(j) + 2 \in S
  <2>1. s[e(j) + 1] = "." /\ e(j) + 1 \in 1 .. Len(s) /\ (e(j) + 1) + 1 = e(j) + 2
    BY <1>0, <1>1, <1>6
  <2>. QED  BY <1>2, <2>1
<1>7. ASSUME NEW j \in 1 .. n, NEW x \in S, at(j) < x PROVE e(j) # Len(s) /\ e(j) + 2 <= x
  <2>1. x \in 1 .. Len(s) /\ x - 1 \in 1 .. Len(s) /\ s[x - 1] = "."
    <3>1. x # 1 /\ x \in 1 .. Len(s)
      BY <1>1, <1>2, <1>7
    <3>. QED  BY <1>2, <3>1
  <2>2. ~ (x - 1 \in at(j) .. e(j))
    BY <1>1, <2>1
  <2>3. at(j) <= x - 1
    BY <1>1, <1>7, <2>1
  <2>4. e(j) < x - 1
    BY <1>0, <1>1, <2>1, <2>2, <2>3
  <2>. QED  BY <1>0, <1>1, <2>1, <2>4
<1>8. ASSUME NEW j \in 1 .. n - 1 PROVE at(j + 1) = e(j) + 2 /\ s[e(j) + 1] = "."
  <2>1. j \in 1 .. n /\ j + 1 \in 1 .. n /\ j < j + 1 /\ (j + 1) - 1 = j /\ j \in 0 .. n
    BY <1>0
  <2>2. at(j + 1) \in S /\ at(j) < at(j + 1)
    BY <1>1, <1>5, <2>1
  <2>3. e(j) # Len(s) /\ e(j) + 2 <= at(j + 1)
    BY <1>7, <2>1, <2>2
  <2>4. s[e(j) + 1] = "." /\ e(j) + 2 \in S
    BY <1>6, <2>1, <2>3
  <2>5. ASSUME e(j) + 2 < at(j + 1) PROVE FALSE
    <3>1. e(j) + 2 \in Found(t, j)
      BY <1>1, <2>1, <2>4, <2>5
    <3>2. PICK k \in 1 .. j : e(j) + 2 = at(k)
      BY <1>3, <2>1, <3>1
    <3>3. k \in 1 .. n /\ (k = j \/ k < j)
      BY <1>0, <2>1
    <3>4. at(k) <= at(j)
      BY <1>1, <1>5, <2>1, <3>3
    <3>. QED  BY <1>1, <2>1, <3>2, <3>3, <3>4
  <2>6. at(j + 1) \in Nat /\ e(j) \in Nat
    BY <1>1, <2>1
  <2>. QED  BY <2>3, <2>4, <2>5, <2>6
<1>9. e(n) = Len(s)
  <2> SUFFICES ASSUME e(n) # Len(s) PROVE FALSE
    OBVIOUS
  <2>0. n \in 1 .. n
    BY <1>0
  <2>1. e(n) + 2 \in S
    BY <1>6, <2>0
  <2>2. PICK k \in 1 .. n : e(n) + 2 = at(k)
    BY <1>4, <2>1
  <2>3. k = n \/ k < n
    BY <1>0
  <2>4. at(k) <= at(n)
    BY <1>1, <1>5, <2>0, <2>3
  <2>. QED  BY <1>1, <2>0, <2>2, <2>4
<1>10. at(1) = 1
  <2>1. 1 \in 1 .. n
    BY <1>0
  <2>2. 1 \in S
    BY <1>0, <1>1, <1>2, <2>1
  <2>3. PICK k \in 1 .. n : 1 = at(k)
    BY <1>4, <2>2
  <2>4. k = 1 \/ 1 < k
    BY <1>0
  <2>5. at(1) <= at(k)
    BY <1>1, <1>5, <2>1, <2>3, <2>4
  <2>. QED  BY <1>0, <1>1, <2>1, <2>3, <2>5
<1>11. ASSUME NEW j \in 2 .. n PROVE at(j) # 1
  <2>1. 1 \in 1 .. n /\ j \in 1 .. n /\ 1 < j
    BY <1>0
  <2>2. at(1) < at(j)
    BY <1>5, <2>1
  <2>. QED  BY <1>10, <2>2
<1>. QED  BY <1>1, <1>4, <1>8, <1>9, <1>10, <1>11 DEF s, S, at, e

\* resolveRecord asks for no word behind the last.
LabelsInv == \A j \in 1 .. Called("main") - 1 : words["main"][j] # NULL

LEMMA NextLabels ==
  ASSUME TypesInv, LabelsInv, [Next]_vars
  PROVE  LabelsInv'
<1> DEFINE t == "main"
<1>1. /\ t \in Threads /\ words \in [Threads -> Seq(Pointer \cup {NULL})]
      /\ words[t] \in Seq(Pointer \cup {NULL}) /\ Len(words[t]) \in Nat
      /\ from \in [Threads -> Positions \cup {NULL}] /\ \A u \in Threads : u = "main" \/ u = "mgmt"
  <2>1. t \in Threads /\ \A u \in Threads : u = "main" \/ u = "mgmt"
    BY DEF Threads
  <2>2. words[t] \in Seq(Pointer \cup {NULL})
    BY <2>1 DEF TypesInv, Typed
  <2>. QED  BY <2>1, <2>2 DEF TypesInv, Typed
<1>2. ASSUME words'[t] = words[t], from'[t] = from[t] PROVE LabelsInv'
  BY <1>2 DEF LabelsInv, Called
<1>3. ASSUME words'[t] = <<>> PROVE LabelsInv'
  <2>1. Called(t)' - 1 \in {-1, 0}
    BY <1>3 DEF Called
  <2>2. 1 .. Called(t)' - 1 = {}
    BY <2>1
  <2>. QED  BY <2>2 DEF LabelsInv
<1>4. ASSUME NEW q \in Names, Begin(t, q) PROVE LabelsInv'
  <2>1. words[t] = <<>> /\ words' = words
    BY <1>1, <1>4 DEF Begin, TypesInv, AtWork
  <2>. QED  BY <1>3, <2>1
<1>5. ASSUME NEW q \in Requests, Begin("mgmt", q) PROVE LabelsInv'
  BY <1>1, <1>2, <1>5 DEF Begin
<1>6. ASSUME NEW u \in Threads, ReadPosition(u) PROVE LabelsInv'
  <2>1. CASE u # t
    BY <1>1, <1>2, <1>6, <2>1 DEF ReadPosition
  <2>2. CASE u = t
    <3>1. words' = words /\ from[t] = NULL /\ CallsLeft(t)
      BY <1>6, <2>2 DEF ReadPosition
    <3>2. CASE words[t] = <<>>
      BY <1>3, <3>1, <3>2
    <3>3. CASE words[t] # <<>>
      <4>1. words[t][Len(words[t])] # NULL
        BY <3>1, <3>3 DEF CallsLeft, Last
      <4>2. \A j \in 1 .. Len(words[t]) - 1 : words[t][j] # NULL
        BY <3>1 DEF LabelsInv, Called
      <4>3. \A j \in 1 .. Len(words[t]) : words[t][j] # NULL
        <5>1. \A j \in 1 .. Len(words[t]) : j = Len(words[t]) \/ j \in 1 .. Len(words[t]) - 1
          BY <1>1
        <5>. QED  BY <4>1, <4>2, <5>1
      <4>4. Called(t)' \in {Len(words[t]), Len(words[t]) + 1}
        BY <3>1 DEF Called
      <4>5. \A j \in 1 .. Called(t)' - 1 : j \in 1 .. Len(words[t])
        BY <1>1, <4>4
      <4>. QED  BY <3>1, <4>3, <4>5 DEF LabelsInv
    <3>. QED  BY <3>2, <3>3
  <2>. QED  BY <2>1, <2>2
<1>7. ASSUME NEW u \in Threads, Scan(u) PROVE LabelsInv'
  <2>1. from' = [from EXCEPT ![u] = NULL] /\ from[u] # NULL
    BY <1>7 DEF Scan
  <2>2. PICK p : words' = [words EXCEPT ![u] = Append(@, p)]
    <3>1. Typed
      BY DEF TypesInv
    <3>. QED  BY <1>7, <3>1, ScanSays
  <2>3. CASE u # t
    BY <1>1, <1>2, <2>1, <2>2, <2>3
  <2>4. CASE u = t
    <3>1. words'[t] = Append(words[t], p) /\ from'[t] = NULL /\ from[t] # NULL
      BY <1>1, <2>1, <2>2, <2>4
    <3>2. words[t] \in Seq(Pointer \cup {NULL, p}) /\ p \in Pointer \cup {NULL, p}
      BY <1>1, SeqMonotonic
    <3>3. Len(words'[t]) = Len(words[t]) + 1 /\ \A j \in 1 .. Len(words[t]) : words'[t][j] = words[t][j]
      BY <3>1, <3>2, AppendProperties
    <3>4. Called(t) - 1 = Len(words[t]) /\ Called(t)' - 1 = Len(words[t])
      BY <1>1, <3>1, <3>3 DEF Called
    <3>. QED  BY <3>3, <3>4 DEF LabelsInv
  <2>. QED  BY <2>3, <2>4
<1>8. ASSUME NEW u \in Threads, Finish(u) PROVE LabelsInv'
  <2>1. CASE u # t
    BY <1>1, <1>2, <1>8, <2>1 DEF Finish
  <2>2. CASE u = t
    BY <1>1, <1>3, <1>8, <2>2 DEF Finish
  <2>. QED  BY <2>1, <2>2
<1>9. CASE TryWildcards
  BY <1>2, <1>9 DEF TryWildcards
<1>10. CASE RunCommand
  BY <1>2, <1>10 DEF RunCommand
<1>11. CASE UNCHANGED vars
  BY <1>2, <1>11 DEF vars
<1>. QED  BY <1>4, <1>5, <1>6, <1>7, <1>8, <1>9, <1>10, <1>11 DEF Next

\* The keys made of the labels are the parents of the name.
LEMMA KeysMeant ==
  ASSUME TypesInv, Undisturbed("main"), Kept("main"), LabelsInv, LabelsDotted(asked["main"]), TryWildcards,
         Cardinality(Parents(asked["main"])) < MaxLabels
  PROVE  outcome'["main"] = Parents(asked["main"])
<1> DEFINE t == "main"
           s == asked[t]
           ws == words[t]
           n == LabelCount
           labels == [i \in 1 .. n |-> StringAt(ws[i])]
           S == Starts(t)
           at(j) == ws[j].at
           e(j) == WordEnd(t, j)
           Suffix(i) == Dotted(SubSeq(labels, i, n))
<1>1. t \in Threads /\ from[t] = NULL /\ ~ CallsLeft(t) /\ MaxLabels \in Nat \ {0}
  BY TokenizerAssumption DEF TryWildcards, Threads
<1>2. ws \in Seq(Pointer \cup {NULL}) /\ s \in Seq(Chars) /\ Len(s) \in Nat /\ Len(ws) <= MaxLabels + 1
  <2>1. ws \in Seq(Pointer \cup {NULL}) /\ s \in Seq(Chars) /\ Len(s) \in Nat
    BY <1>1, AskedString
  <2>2. Len(words[t]) <= Limit(t)
    BY <1>1 DEF TypesInv, AtWork
  <2>. QED  BY <2>1, <2>2 DEF Limit
<1>3. ws # <<>> /\ Len(ws) \in Nat /\ Len(ws) >= 1
  <2>1. [of |-> t, at |-> 1] # NULL
    BY <1>1, NullAssumption
  <2>. QED  BY <1>1, <1>2, <2>1 DEF Kept, TextKept
<1>4. ws[Len(ws)] = NULL \/ Len(ws) > MaxLabels
  <2>1. Last(ws) = ws[Len(ws)]
    BY DEF Last
  <2>. QED  BY <1>1, <1>3, <2>1 DEF CallsLeft
<1>5. n = Len(ws) - 1 /\ n \in Nat /\ n + 1 = Len(ws) /\ Len(ws) \in 1 .. Len(ws)
  BY <1>3 DEF LabelCount
<1>6. ws[Len(ws)] = NULL
  <2> SUFFICES ASSUME ws[Len(ws)] # NULL PROVE FALSE
    OBVIOUS
  <2>1. Cardinality(S) >= Len(ws)
    BY <1>1, <1>5, WordCount DEF Regular
  <2>2. Cardinality(S) <= Cardinality(Parents(s)) + 1 /\ Cardinality(Parents(s)) \in Nat
    BY ParentsByStart
  <2>3. Cardinality(S) \in Nat
    BY <1>1, StartsFinite
  <2>. QED  BY <1>1, <1>3, <1>4, <2>1, <2>2, <2>3
<1>7. S = Found(t, n)
  <2>1. Regular(t, Len(ws))
    BY DEF Regular
  <2>. QED  BY <1>5, <1>6, <2>1 DEF Kept, InOrder
<1>8. outcome'[t] = {Suffix(i) : i \in 2 .. n}
  <2>1. /\ outcome' = [outcome EXCEPT ![t] = WildcardKeys(labels)]
        /\ outcome = [u \in Threads |-> outcome[u]]
    BY DEF TryWildcards, TypesInv, Typed
  <2>2. Len(labels) = n
    BY <1>5
  <2>. QED  BY <1>1, <2>1, <2>2 DEF WildcardKeys
<1>9. Parents(s) = {SubSeq(s, a, Len(s)) : a \in S \ {1}}
  BY ParentsByStart
<1>10. CASE n = 0
  <2>1. S = {}
    BY <1>7, <1>10 DEF Found
  <2>2. Parents(s) = {}
    BY <1>9, <2>1
  <2>. QED  BY <1>8, <1>10, <2>2
<1>11. CASE n # 0
  <2>1. n \in 1 .. Len(ws)
    <3>1. \A k \in Nat : k # 0 => k \in 1 .. k + 1
      OBVIOUS
    <3>. QED  BY <1>5, <1>11, <3>1, Zenon
  <2>2. \A j \in 1 .. n : ws[j] # NULL
    BY <1>1, <1>5 DEF LabelsInv, Called
  <2>3. /\ \A j \in 1 .. n : at(j) \in 1 .. Len(s) /\ e(j) \in at(j) .. Len(s)
        /\ \A j \in 1 .. n - 1 : at(j + 1) = e(j) + 2 /\ s[e(j) + 1] = "."
        /\ e(n) = Len(s)
        /\ at(1) = 1
        /\ S = {at(j) : j \in 1 .. n}
        /\ \A j \in 2 .. n : at(j) # 1
    BY <1>7, <2>1, <2>2, LabelsFollow
  <2>4. ASSUME NEW j \in 1 .. n PROVE labels[j] = SubSeq(s, at(j), e(j))
    <3>1. j \in 1 .. Len(ws) /\ ws[j] # NULL
      BY <1>5, <2>2
    <3>2. TextKept(t) /\ WordKept(t, j)
      BY <3>1 DEF Kept, WordsKept
    <3>3. StringAt(ws[j]) = SubSeq(s, at(j), e(j))
      BY <1>1, <3>1, <3>2, KeptReads DEF Run, WordEnd
    <3>. QED  BY <3>3
  <2>5. ASSUME NEW i \in 2 .. n PROVE Suffix(i) = SubSeq(s, at(i), Len(s))
    <3> DEFINE m == n - i + 1
               part == SubSeq(labels, i, n)
               A == [j \in 1 .. m |-> at(i + j - 1)]
               E == [j \in 1 .. m |-> e(i + j - 1)]
    <3>1. m \in Nat \ {0} /\ i \in Nat /\ (i + m) - 1 = n /\ (i + 1) - 1 = i
          /\ 1 \in 1 .. m /\ m \in 1 .. m
      BY <1>5
    <3>2. part = [j \in 1 .. m |-> labels[i + j - 1]]
      <4> DEFINE Labels == {labels[j] : j \in 1 .. n}
      <4>1. labels = [j \in 1 .. n |-> labels[j]] /\ i \in 2 .. n
        OBVIOUS
      <4> HIDE DEF labels, n
      <4>2. labels \in [1 .. n -> Labels]
        BY <4>1
      <4>3. labels \in Seq(Labels) /\ n <= Len(labels)
        BY <1>5, <4>2, <4>1
      <4> HIDE DEF Labels
      <4>4. n \in Nat /\ i \in Nat \ {0}
        BY <1>5, <4>1
      <4>. QED  BY <4>3, <4>4
    <3>8. s \in Seq(Chars)
      BY <1>2
    <3> HIDE DEF labels, at, e, s, n
    <3>3. part = [j \in 1 .. m |-> part[j]]
      BY <3>2
    <3>4. ASSUME NEW j \in 1 .. m
          PROVE  /\ A[j] \in 1 .. Len(s) /\ E[j] \in A[j] .. Len(s)
                 /\ part[j] = SubSeq(s, A[j], E[j])
      <4>1. i + j - 1 \in 1 .. n
        BY <1>5, <3>1
      <4>2. A[j] = at(i + j - 1) /\ E[j] = e(i + j - 1) /\ part[j] = labels[i + j - 1]
        BY <3>2
      <4> HIDE DEF A, E, part, m
      <4>. QED  BY <2>3, <2>4, <4>1, <4>2
    <3>5. ASSUME NEW j \in 1 .. m - 1 PROVE A[j + 1] = E[j] + 2 /\ s[E[j] + 1] = "."
      <4>1. i + j - 1 \in 1 .. n - 1 /\ i + (j + 1) - 1 = (i + j - 1) + 1 /\ j \in 1 .. m /\ j + 1 \in 1 .. m
        BY <1>5, <3>1
      <4>2. A[j + 1] = at((i + j - 1) + 1) /\ E[j] = e(i + j - 1)
        BY <4>1
      <4> HIDE DEF A, E, m
      <4>. QED  BY <2>3, <4>1, <4>2
    <3>6. A[1] = at(i) /\ E[m] = e(n)
      BY <3>1
    <3> HIDE DEF A, E, m, part
    <3>7. Dotted(part) = SubSeq(s, A[1], E[m])
      <4>1. Follow(part, m, s, A, E)
        BY <3>1, <3>3, <3>4, <3>5, <3>8 DEF Follow
      <4>. QED  BY <4>1, DottedIs
    <3>. QED  BY <2>3, <3>6, <3>7 DEF part
  <2> HIDE DEF n, at, e, Suffix
  <2>6. S \ {1} = {at(i) : i \in 2 .. n}
    <3>1. \A j \in 1 .. n : j = 1 \/ j \in 2 .. n
      BY <1>5
    <3>2. \A j \in 2 .. n : j \in 1 .. n
      BY <1>5
    <3>. QED  BY <2>3, <3>1, <3>2
  <2>7. Parents(s) = {SubSeq(s, at(i), Len(s)) : i \in 2 .. n}
    BY <1>9, <2>6
  <2>. QED  BY <1>8, <2>5, <2>7
<1>. QED  BY <1>10, <1>11

\* Only TryWildcards gives the main thread an outcome.
LEMMA NameOutcome ==
  ASSUME TypesInv, Next, outcome'["main"] # NULL
  PROVE  \/ TryWildcards
         \/ outcome'["main"] = outcome["main"]
            /\ asked'["main"] = asked["main"]
            /\ (disturbed["main"] => disturbed'["main"])
<1> DEFINE Same == /\ outcome'["main"] = outcome["main"]
                   /\ asked'["main"] = asked["main"]
                   /\ (disturbed["main"] => disturbed'["main"])
<1>1. /\ asked \in [Threads -> Names \cup Requests \cup {NULL}] /\ "mgmt" \in Threads
      /\ outcome = [t \in Threads |-> outcome[t]] /\ disturbed \in [Threads -> BOOLEAN]
      /\ "main" \in Threads /\ \A t \in Threads : t = "main" \/ t = "mgmt"
  BY DEF TypesInv, Typed, Threads
<1>2. ASSUME NEW s \in Requests, Begin("mgmt", s) PROVE Same
  BY <1>1, <1>2 DEF Begin
<1>3. ASSUME NEW s \in Names, Begin("main", s) PROVE Same
  <2>1. outcome["main"] = NULL /\ outcome' = outcome
    BY <1>1, <1>3 DEF Begin, TypesInv, AtWork
  <2>. QED  BY <2>1
<1>4. ASSUME NEW t \in Threads, ReadPosition(t) PROVE Same
  BY <1>4 DEF ReadPosition
<1>5. ASSUME NEW t \in Threads, Scan(t) PROVE Same
  <2>1. outcome' = outcome /\ asked' = asked /\ disturbed' = [disturbed EXCEPT ![Other(t)] = TRUE]
    BY <1>5 DEF Scan
  <2>2. disturbed["main"] => disturbed'["main"]
    BY <1>1, <2>1
  <2>. QED  BY <2>1, <2>2
<1>6. ASSUME NEW t \in Threads, Finish(t) PROVE Same
  <2>1. outcome' = [outcome EXCEPT ![t] = NULL] /\ asked' = [asked EXCEPT ![t] = NULL]
        /\ disturbed' = disturbed
    BY <1>6 DEF Finish
  <2>2. t # "main"
    BY <1>1, <2>1
  <2>. QED  BY <1>1, <2>1, <2>2
<1>7. CASE RunCommand
  BY <1>1, <1>7 DEF RunCommand
<1>. QED  BY <1>2, <1>3, <1>4, <1>5, <1>6, <1>7 DEF Next

\* The wildcard keys tried for a name whose calls of strtok no call of the
\* management thread came between are the parents of the name, if no label
\* holds a dot.
THEOREM KeysAreParents == NamesDotted /\ Spec => []UndisturbedName
<1> SUFFICES ASSUME NamesDotted PROVE Spec => []UndisturbedName
  OBVIOUS
<1> DEFINE Inv == TypesInv /\ KeptInv /\ LabelsInv /\ UndisturbedName
<1>1. Init => Inv
  <2> SUFFICES ASSUME Init PROVE Inv
    OBVIOUS
  <2>1. TypesInv /\ KeptInv
    BY InitTypes, InitKept
  <2>2. outcome["main"] = NULL /\ words["main"] = <<>>
    BY DEF Init, Threads
  <2>3. 1 .. Called("main") - 1 = {}
    <3>1. Called("main") - 1 \in {-1, 0}
      BY <2>2 DEF Called
    <3>. QED  BY <3>1
  <2>. QED  BY <2>1, <2>2, <2>3 DEF UndisturbedName, LabelsInv
<1>2. Inv /\ [Next]_vars => Inv'
  <2> SUFFICES ASSUME Inv, [Next]_vars PROVE Inv'
    OBVIOUS
  <2>1. TypesInv' /\ KeptInv' /\ LabelsInv'
    BY NextTypes, NextKept, NextLabels
  <2>2. ASSUME NEW name \in Names, asked'["main"] = name, outcome'["main"] # NULL,
               ~ disturbed'["main"], Cardinality(Parents(name)) < MaxLabels
        PROVE  outcome'["main"] = Parents(name)
    <3>1. CASE UNCHANGED vars
      BY <2>2, <3>1 DEF vars, UndisturbedName
    <3>2. CASE Next /\ TryWildcards
      <4>1. asked' = asked /\ disturbed' = disturbed /\ Working("main")
        BY <3>2 DEF TryWildcards
      <4>2. Undisturbed("main") /\ "main" \in Threads /\ asked["main"] = name
        BY <2>2, <4>1 DEF Undisturbed, Working, Threads
      <4>3. Kept("main") /\ LabelsDotted(asked["main"])
        BY <4>2 DEF KeptInv, NamesDotted
      <4>. QED  BY <2>2, <3>2, <4>2, <4>3, KeysMeant
    <3>3. CASE Next /\ ~ TryWildcards
      <4>1. outcome'["main"] = outcome["main"] /\ asked'["main"] = asked["main"]
            /\ (disturbed["main"] => disturbed'["main"])
        BY <2>2, <3>3, NameOutcome
      <4>. QED  BY <2>2, <4>1 DEF UndisturbedName
    <3>. QED  BY <3>1, <3>2, <3>3
  <2>3. UndisturbedName'
    BY <2>2 DEF UndisturbedName
  <2>. QED  BY <2>1, <2>3
<1>3. Inv => UndisturbedName
  OBVIOUS
<1>. QED  BY <1>1, <1>2, <1>3, PTL DEF Spec
=============================================================================
