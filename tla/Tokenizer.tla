----------------------------- MODULE Tokenizer -----------------------------
(***************************************************************************)
(* How the two threads cut text into words.  resolveRecord, in the main    *)
(* thread, cuts the name asked for into labels to build the wildcard keys; *)
(* the management thread cuts a request into token, command and parameters.*)
(* Both use strtok, which remembers in one static pointer where the next   *)
(* call continues and overwrites the delimiter it stopped at: main calls it*)
(* under dns_records_mutex, the management thread under no lock.           *)
(*                                                                         *)
(* A text is a sequence of delimiters and of atoms, each standing for a run*)
(* of other characters.  A call reads the pointer in one step, and scans   *)
(* and stores the pointer in another.                                      *)
(***************************************************************************)
EXTENDS Naturals, Sequences, FiniteSetsExt, SequencesExt

CONSTANTS
  Names,       \* names asked for that have no record of their own
  Requests,    \* what management clients send
  auth_token,  \* config.auth_token, an atom
  MaxLabels,   \* size of labels[] in resolveRecord: 10
  NULL

Threads == {"main", "mgmt"}
NUL == "NUL"
Whitespace == {" ", "\t", "\n"}

ASSUME TokenizerAssumption ==
  /\ MaxLabels \in Nat \ {0}
  /\ \A s \in Names \cup Requests : s \in Seq(ToSet(s) \ {NUL})
  /\ auth_token \notin Whitespace \cup {NUL, "."}

ASSUME NullAssumption == NULL \notin Names \cup Requests \cup [of : Threads, at : Nat]

VARIABLES
  text,      \* text[t]: domain_copy of main, buffer of the management thread
  asked,     \* asked[t]: the name or request text[t] was filled with, or NULL
  words,     \* words[t]: pointers strtok has returned to t
  from,      \* from[t]: where the call of t will scan, NULL if it has yet to look
  olds,      \* the static pointer of strtok
  outcome,   \* outcome[t]: wildcard keys tried, or the command run, or NULL
  disturbed  \* history: the other thread called strtok since t began

vars == <<text, asked, words, from, olds, outcome, disturbed>>

Other(t) == CHOOSE u \in Threads : u # t

-----------------------------------------------------------------------------
(***************************************************************************)
(* C strings: a pointer is a text and a position in it.                    *)
(***************************************************************************)
At(s, i) == IF i <= Len(s) THEN s[i] ELSE NUL

\* The first position from i on whose character is among stops, or is not.
FirstIn(s, i, stops) == Min({j \in i .. i + Len(s) + 1 : At(s, j) \in stops})

FirstNotIn(s, i, passed) == Min({j \in i .. i + Len(s) + 1 : At(s, j) \notin passed})

\* The string a pointer stands for, at the time it is read.
StringAt(p) == SubSeq(text[p.of], p.at, FirstIn(text[p.of], p.at, {NUL}) - 1)

-----------------------------------------------------------------------------
(***************************************************************************)
(* The calls each thread makes.                                            *)
(***************************************************************************)
Working(t) == asked[t] # NULL /\ outcome[t] = NULL

\* The command word; commands are told apart by strcasecmp.
Command == IF words["mgmt"][2] = NULL THEN <<>> ELSE StringAt(words["mgmt"][2])

\* How many words the management thread asks strtok for: the token; if it is
\* right the command; the parameters of the command.
Wanted ==
  LET authentic == words["mgmt"][1] # NULL /\ StringAt(words["mgmt"][1]) = <<auth_token>>
  IN CASE words["mgmt"] = <<>>                    -> 1
       [] words["mgmt"] # <<>> /\ ~ authentic     -> 1
       [] Len(words["mgmt"]) = 1 /\ authentic     -> 2
       [] OTHER -> CASE Command = <<"ADD">>    -> 6
                     [] Command = <<"DELETE">> -> 5
                     [] OTHER                  -> 2

\* Mutant: the loop does not look at label_count.
CallsLeftUnbounded(t) ==
  IF t = "main"
  THEN words[t] = <<>> \/ Last(words[t]) # NULL
  ELSE Len(words[t]) < Wanted

\* resolveRecord calls once more after labels[] is full, and drops the word.
CallsLeft(t) ==
  IF t = "main"
  THEN words[t] = <<>> \/ (Last(words[t]) # NULL /\ Len(words[t]) <= MaxLabels)
  ELSE Len(words[t]) < Wanted

\* Mutant: the value is cut at blanks like the other parameters.
BlankDelimiters(t) == IF t = "main" THEN {"."} ELSE Whitespace

\* The value of an ADD, its fourth parameter, goes up to the end of the line.
Delimiters(t) ==
  IF t = "main" THEN {"."} ELSE IF Len(words[t]) = 5 THEN {"\n"} ELSE Whitespace

-----------------------------------------------------------------------------
Init ==
  /\ text = [t \in Threads |-> <<>>]
  /\ asked = [t \in Threads |-> NULL]
  /\ words = [t \in Threads |-> <<>>]
  /\ from = [t \in Threads |-> NULL]
  /\ olds = NULL
  /\ outcome = [t \in Threads |-> NULL]
  /\ disturbed = [t \in Threads |-> FALSE]

\* The text is copied or read; the first call scans it from its start.
Begin(t, s) ==
  /\ asked[t] = NULL
  /\ text' = [text EXCEPT ![t] = s]
  /\ asked' = [asked EXCEPT ![t] = s]
  /\ from' = [from EXCEPT ![t] = [of |-> t, at |-> 1]]
  /\ disturbed' = [disturbed EXCEPT ![t] = FALSE]
  /\ UNCHANGED <<words, olds, outcome>>

\* strtok(NULL, ...) looks where the last call, of whatever thread, stopped.
ReadPosition(t) ==
  /\ Working(t) /\ from[t] = NULL /\ CallsLeft(t)
  /\ from' = [from EXCEPT ![t] = olds]
  /\ UNCHANGED <<text, asked, words, olds, outcome, disturbed>>

\* Skips delimiters, ends the word found with a NUL, remembers the rest.
Scan(t) ==
  /\ Working(t) /\ from[t] # NULL
  /\ LET b     == from[t].of
         start == FirstNotIn(text[b], from[t].at, Delimiters(t))
         end   == FirstIn(text[b], start, Delimiters(t) \cup {NUL})
         ended == At(text[b], end) = NUL
     IN /\ words' = [words EXCEPT ![t] =
                       Append(@, IF start = end THEN NULL ELSE [of |-> b, at |-> start])]
        /\ text' = IF ended THEN text ELSE [text EXCEPT ![b][end] = NUL]
        /\ olds' = [of |-> b, at |-> IF ended THEN end ELSE end + 1]
  /\ from' = [from EXCEPT ![t] = NULL]
  /\ disturbed' = [disturbed EXCEPT ![Other(t)] = TRUE]
  /\ UNCHANGED <<asked, outcome>>

Dotted(labels) ==
  FlattenSeq([j \in DOMAIN labels |-> IF j = 1 THEN labels[j] ELSE <<".">> \o labels[j]])

\* Mutant: the keys start with the whole name.
WildcardKeysFromFirst(labels) ==
  {Dotted(SubSeq(labels, i, Len(labels))) : i \in 1 .. Len(labels)}

\* What resolveRecord puts behind "*.": every suffix but the whole.
WildcardKeys(labels) ==
  {Dotted(SubSeq(labels, i, Len(labels))) : i \in 2 .. Len(labels)}

\* label_count: what the last call returned is NULL, or a label too many.
LabelCount == Len(words["main"]) - 1

\* The keys are put together from what the labels point to by then.
TryWildcards ==
  /\ Working("main") /\ from["main"] = NULL /\ ~ CallsLeft("main")
  /\ LET labels == [i \in 1 .. LabelCount |-> StringAt(words["main"][i])]
     IN outcome' = [outcome EXCEPT !["main"] = WildcardKeys(labels)]
  /\ UNCHANGED <<text, asked, words, from, olds, disturbed>>

\* The reply, or the call of add_single_record, delete_record and so on.
RunCommand ==
  /\ Working("mgmt") /\ from["mgmt"] = NULL /\ ~ CallsLeft("mgmt")
  /\ LET ws == words["mgmt"]
     IN outcome' = [outcome EXCEPT !["mgmt"] =
          IF Wanted = 1 THEN <<"refused">>
          ELSE IF ws[2] = NULL THEN <<"no command">>
          ELSE IF \E i \in 3 .. Len(ws) : ws[i] = NULL THEN <<"missing parameters">>
          ELSE [i \in 1 .. Len(ws) - 1 |-> StringAt(ws[i + 1])]]
  /\ UNCHANGED <<text, asked, words, from, olds, disturbed>>

\* resolveRecord has returned, or the connection is closed.  domain_copy was on
\* the stack: what is left there may be gone by the time anyone looks.
Finish(t) ==
  /\ outcome[t] # NULL
  /\ outcome' = [outcome EXCEPT ![t] = NULL]
  /\ asked' = [asked EXCEPT ![t] = NULL]
  /\ words' = [words EXCEPT ![t] = <<>>]
  /\ text' = text \/ (t = "main" /\ text' = [text EXCEPT ![t] = <<>>])
  /\ UNCHANGED <<from, olds, disturbed>>

Next ==
  \/ \E s \in Names : Begin("main", s)
  \/ \E s \in Requests : Begin("mgmt", s)
  \/ \E t \in Threads : ReadPosition(t) \/ Scan(t) \/ Finish(t)
  \/ TryWildcards \/ RunCommand

Spec == Init /\ [][Next]_vars

-----------------------------------------------------------------------------
(***************************************************************************)
(* What the texts mean, whatever cuts them up.                             *)
(***************************************************************************)
\* The positions and lengths there are.
Lengths == {0} \cup UNION {0 .. Len(s) : s \in Names \cup Requests}

\* The parents of a name: what follows each of its dots.
Parents(name) == {SubSeq(name, i + 1, Len(name)) : i \in {j \in DOMAIN name : name[j] = "."}}

\* The starts of the maximal runs free of stops, where a run ends, and the run.
RunStarts(s, stops) ==
  {i \in DOMAIN s : s[i] \notin stops /\ (i = 1 \/ s[i - 1] \in stops)}

RunEnd(s, i, stops) == CHOOSE j \in i .. Len(s) :
  /\ \A k \in i .. j : s[k] \notin stops
  /\ j = Len(s) \/ s[j + 1] \in stops

Run(s, i, stops) == SubSeq(s, i, RunEnd(s, i, stops))

\* Where the nth word of a request starts: n - 1 words start before.
WordStart(s, n) == CHOOSE i \in RunStarts(s, Whitespace) :
  Cardinality({j \in RunStarts(s, Whitespace) : j < i}) = n - 1

\* "<auth_token> <command> <parameters...>", the value of ADD being what the
\* line has left after the blank behind the scope, or the next line.
Meaning(s) ==
  LET count == Cardinality(RunStarts(s, Whitespace))
      word(n) == Run(s, WordStart(s, n), Whitespace)
      left == {i \in RunEnd(s, WordStart(s, 5), Whitespace) + 2 .. Len(s) : s[i] # "\n"}
  IN IF count = 0 \/ word(1) # <<auth_token>> THEN <<"refused">>
     ELSE IF count = 1 THEN <<"no command">>
     ELSE IF word(2) \notin {<<"ADD">>, <<"DELETE">>} THEN <<word(2)>>
     ELSE IF count < 5 \/ (word(2) = <<"ADD">> /\ left = {}) THEN <<"missing parameters">>
     ELSE [n \in 1 .. 4 |-> word(n + 1)]
            \o IF word(2) = <<"ADD">> THEN <<Run(s, Min(left), {"\n"})>> ELSE <<>>

(***************************************************************************)
(* Properties.                                                             *)
(***************************************************************************)
Pointer == [of : Threads, at : Lengths \ {0}]

TypeOK ==
  /\ \A t \in Threads :
       /\ Len(text[t]) \in Lengths
       /\ asked[t] \in (IF t = "main" THEN Names ELSE Requests) \cup {NULL}
       /\ \A i \in DOMAIN words[t] : words[t][i] \in Pointer \cup {NULL}
       /\ Len(words[t]) <= IF t = "main" THEN MaxLabels + 1 ELSE 6
       /\ \A p \in {from[t], olds} \ {NULL} : p.of \in Threads /\ p.at - 1 \in Lengths
  /\ disturbed \in [Threads -> BOOLEAN]

\* Calls that no call of the other thread comes between: the wildcard keys
\* tried for a name of at most MaxLabels labels are its parents, all of them.
UndisturbedName ==
  \A name \in Names :
    asked["main"] = name /\ outcome["main"] # NULL /\ ~ disturbed["main"]
        /\ Cardinality(Parents(name)) < MaxLabels
      => outcome["main"] = Parents(name)

\* Calls that no call of the other thread comes between: the command run is the
\* one that was sent, with its parameters.
UndisturbedCommand ==
  outcome["mgmt"] # NULL /\ ~ disturbed["mgmt"] => outcome["mgmt"] = Meaning(asked["mgmt"])

\* "add <domain> <type> <scope> <value> - add a new dns record": the command run
\* is the one that was sent, whatever is being resolved meanwhile.
CommandAsSent == outcome["mgmt"] # NULL => outcome["mgmt"] = Meaning(asked["mgmt"])

\* "wildcard domain records (*.domain)": a wildcard tried for a name is a
\* wildcard of a domain the name is in.
WildcardsCoverName == outcome["main"] # NULL => outcome["main"] \subseteq Parents(asked["main"])
=============================================================================
