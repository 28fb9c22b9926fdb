-------------------------- MODULE ServerLifecycle --------------------------
(***************************************************************************)
(* The two threads of the server as their sockets, signals and shutdown    *)
(* see them: the query loop of main (src/src/main.c) and the accept loop   *)
(* of management_thread (src/src/dns_server.c).                            *)
(*                                                                         *)
(* The record table is RecordStore's; here a critical section is the time a*)
(* thread holds the mutex.  What matters is which calls block: select      *)
(* returns after a second, recvfrom and sendto on the UDP socket never     *)
(* block (O_NONBLOCK), accept, read and write on the management side block *)
(* for as long as the client likes, and all of them return EINTR when the  *)
(* handler of a signal ran in the thread (sigaction without SA_RESTART).   *)
(* main sets up handlers for SIGINT and SIGTERM only: a write to a client  *)
(* that is no longer there may raise SIGPIPE, which ends the process.      *)
(***************************************************************************)
EXTENDS Naturals, Sequences

CONSTANTS
  Clients,       \* management clients; each connects once
  Requests,      \* Requests[c]: "command", or "refused" for a bad token
  SignalTargets, \* threads the kernel may run handle_signal in
  MaxSignals,    \* bound on the signals that arrive
  MaxDatagrams,  \* bound on the datagrams that arrive
  NULL

Threads == {"main", "mgmt"}

ASSUME LifecycleAssumption ==
  /\ Requests \in [Clients -> {"command", "refused"}]
  /\ SignalTargets \subseteq Threads
  /\ MaxSignals \in Nat /\ MaxDatagrams \in Nat
  /\ NULL \notin Clients \cup Threads

VARIABLES
  running,   \* the flag both loops look at
  main,      \* where main is
  mgmt,      \* where management_thread is
  mutex,     \* holder of dns_records_mutex, or NULL
  handler,   \* handler[t]: where handle_signal is on the stack of t
  eintr,     \* eintr[t]: the call t is blocked in has been interrupted
  signals,   \* signals that have arrived
  inbox,     \* datagrams in the UDP socket
  arrived,   \* datagrams that have arrived
  conn,      \* state of each client's connection, as the client drives it
  backlog,   \* connections not accepted yet
  current,   \* the client whose connection is client_fd, or NULL
  accepted   \* clients whose connection has been accepted

signalVars == <<handler, eintr, signals>>
udpVars == <<inbox, arrived>>
clientVars == <<conn, backlog>>
fdVars == <<current, accepted>>
vars == <<running, main, mgmt, mutex, signalVars, udpVars, clientVars, fdVars>>

\* main has returned, or the process was ended by SIGPIPE.
Ended == {"exited", "killed"}

MainLabels ==
  {"top", "select", "recv", "lock", "serve", "join", "cleanup"} \cup Ended

MgmtLabels ==
  {"top", "select", "accept", "read", "dispatch", "lock", "work", "write", "close", "done"}

\* Not connected; connected and silent; has sent its request; is reading the
\* reply; closed its side before or after sending; closed by the server.
ConnStates == {"out", "silent", "sent", "reading", "gone", "left", "closed"}

TypeOK ==
  /\ running \in BOOLEAN
  /\ main \in MainLabels /\ mgmt \in MgmtLabels
  /\ mutex \in Threads \cup {NULL}
  /\ handler \in [Threads -> {"none", "log", "clear"}]
  /\ eintr \in [Threads -> BOOLEAN]
  /\ signals \in 0 .. MaxSignals
  /\ inbox \in Seq({"query", "malformed"}) /\ arrived \in 0 .. MaxDatagrams
  /\ conn \in [Clients -> ConnStates]
  /\ backlog \in Seq(Clients)
  /\ current \in Clients \cup {NULL}
  /\ current # NULL <=> mgmt \in {"read", "dispatch", "lock", "work", "write", "close"}
  /\ accepted \subseteq Clients

\* main after pthread_create, management_thread after listen.
Init ==
  /\ running = TRUE
  /\ main = "top" /\ mgmt = "top"
  /\ mutex = NULL
  /\ handler = [t \in Threads |-> "none"]
  /\ eintr = [t \in Threads |-> FALSE]
  /\ signals = 0
  /\ inbox = <<>> /\ arrived = 0
  /\ conn = [c \in Clients |-> "out"]
  /\ backlog = <<>>
  /\ current = NULL /\ accepted = {}

-----------------------------------------------------------------------------
\* A thread runs its own code only while no handler is on its stack.
MainAt(from, to) ==
  /\ handler["main"] = "none"
  /\ main = from /\ main' = to
  /\ UNCHANGED <<running, mgmt, handler, signals>>

MgmtAt(from, to) ==
  /\ handler["mgmt"] = "none"
  /\ mgmt = from /\ mgmt' = to
  /\ UNCHANGED <<running, main, handler, signals>>

\* The call t was blocked in returns, by itself or because of a signal.
Returns(t) == eintr' = [eintr EXCEPT ![t] = FALSE]

Blocked(t) ==
  IF t = "main" THEN main = "select" ELSE mgmt \in {"select", "accept", "read", "write"}

-----------------------------------------------------------------------------
(***************************************************************************)
(* main: the query loop.                                                   *)
(***************************************************************************)

\* while (running); leaving the loop closes the UDP socket.
MainTop ==
  /\ MainAt("top", IF running THEN "select" ELSE "join")
  /\ inbox' = IF running THEN inbox ELSE <<>>
  /\ UNCHANGED <<mutex, eintr, arrived, clientVars, fdVars>>

\* An interrupted select goes on to recvfrom, as readfds still holds the socket.
MainSelect ==
  /\ \/ (inbox # <<>> \/ eintr["main"]) /\ MainAt("select", "recv")
     \/ inbox = <<>> /\ ~ eintr["main"] /\ MainAt("select", "top")
  /\ Returns("main")
  /\ UNCHANGED <<mutex, udpVars, clientVars, fdVars>>

\* recvfrom does not block; what is not a query is dropped.
MainRecv ==
  /\ MainAt("recv", IF inbox # <<>> /\ Head(inbox) = "query" THEN "lock" ELSE "top")
  /\ inbox' = IF inbox = <<>> THEN <<>> ELSE Tail(inbox)
  /\ UNCHANGED <<mutex, eintr, arrived, clientVars, fdVars>>

MainLock ==
  /\ mutex = NULL /\ mutex' = "main"
  /\ MainAt("lock", "serve")
  /\ UNCHANGED <<eintr, udpVars, clientVars, fdVars>>

\* process_dns_query up to its unlock and sendto.
MainServe ==
  /\ MainAt("serve", "top")
  /\ mutex' = NULL
  /\ UNCHANGED <<eintr, udpVars, clientVars, fdVars>>

\* pthread_join, which a signal does not interrupt.
MainJoin ==
  /\ mgmt = "done"
  /\ MainAt("join", "cleanup")
  /\ UNCHANGED <<mutex, eintr, udpVars, clientVars, fdVars>>

\* cleanup_dns_records; main returns.
MainCleanup ==
  /\ mutex = NULL
  /\ MainAt("cleanup", "exited")
  /\ UNCHANGED <<mutex, eintr, udpVars, clientVars, fdVars>>

-----------------------------------------------------------------------------
(***************************************************************************)
(* management_thread: one connection at a time, one read per connection.   *)
(***************************************************************************)

\* Mutant: the loop does not look at running.
MgmtTopForever ==
  /\ MgmtAt("top", "select")
  /\ UNCHANGED <<mutex, eintr, udpVars, clientVars, fdVars>>

\* while (running); leaving the loop closes the listening socket.
MgmtTop ==
  /\ MgmtAt("top", IF running THEN "select" ELSE "done")
  /\ UNCHANGED <<mutex, eintr, udpVars, clientVars, fdVars>>

\* An interrupted select goes on to accept, as a successful one does.
MgmtSelect ==
  /\ \/ (backlog # <<>> \/ eintr["mgmt"]) /\ MgmtAt("select", "accept")
     \/ backlog = <<>> /\ ~ eintr["mgmt"] /\ MgmtAt("select", "top")
  /\ Returns("mgmt")
  /\ UNCHANGED <<mutex, udpVars, clientVars, fdVars>>

\* Mutant: the turn goes on although accept has failed.
MgmtAcceptUnchecked ==
  /\ \/ /\ backlog # <<>>
        /\ current' = Head(backlog)
        /\ accepted' = accepted \cup {Head(backlog)}
        /\ backlog' = Tail(backlog)
     \/ /\ eintr["mgmt"]
        /\ UNCHANGED <<fdVars, backlog>>
  /\ MgmtAt("accept", "read")
  /\ Returns("mgmt")
  /\ UNCHANGED <<mutex, udpVars, conn>>

\* accept blocks until there is a connection or a signal.
MgmtAccept ==
  /\ \/ /\ backlog # <<>>
        /\ MgmtAt("accept", "read")
        /\ current' = Head(backlog)
        /\ accepted' = accepted \cup {Head(backlog)}
        /\ backlog' = Tail(backlog)
     \/ /\ eintr["mgmt"]
        /\ MgmtAt("accept", "top")
        /\ UNCHANGED <<fdVars, backlog>>
  /\ Returns("mgmt")
  /\ UNCHANGED <<mutex, udpVars, conn>>

\* read blocks until the client sends or closes, or a signal.  The request of
\* a client that has left is read, unless it left with a reset.
MgmtRead ==
  /\ \/ MgmtAt("read", "dispatch") /\ conn[current] \in {"sent", "reading", "left"}
     \/ MgmtAt("read", "close") /\ (conn[current] \in {"gone", "left"} \/ eintr["mgmt"])
  /\ Returns("mgmt")
  /\ UNCHANGED <<mutex, udpVars, clientVars, fdVars>>

\* Mutant: a wrong token ends the thread instead of the turn.
MgmtDispatchReturns ==
  /\ MgmtAt("dispatch", IF Requests[current] = "command" THEN "lock" ELSE "done")
  /\ UNCHANGED <<mutex, eintr, udpVars, clientVars, fdVars>>

\* The token is wrong, or the command is none of the four: an error line.
MgmtDispatch ==
  /\ MgmtAt("dispatch", IF Requests[current] = "command" THEN "lock" ELSE "write")
  /\ UNCHANGED <<mutex, eintr, udpVars, clientVars, fdVars>>

MgmtLock ==
  /\ mutex = NULL /\ mutex' = "mgmt"
  /\ MgmtAt("lock", "work")
  /\ UNCHANGED <<eintr, udpVars, clientVars, fdVars>>

\* Mutant: the mutex is kept until the reply has been written.
MgmtWorkLocked ==
  /\ MgmtAt("work", "write")
  /\ UNCHANGED <<mutex, eintr, udpVars, clientVars, fdVars>>

\* The handlers release the mutex before they write the reply.  (RELOAD takes
\* and releases it twice.)
MgmtWork ==
  /\ MgmtAt("work", "write")
  /\ mutex' = NULL
  /\ UNCHANGED <<eintr, udpVars, clientVars, fdVars>>

\* write of an error line fits the socket buffer; a long reply blocks until
\* the client reads it or is gone, or a signal.
MgmtWrite ==
  /\ MgmtAt("write", "close")
  /\ \/ Requests[current] = "refused"
     \/ conn[current] \in {"reading", "left"}
     \/ eintr["mgmt"]
  /\ Returns("mgmt")
  /\ UNCHANGED <<mutex, udpVars, clientVars, fdVars>>

\* write to a client that has reset the connection: SIGPIPE, for which there is
\* no handler.  Whether a client that has left has also reset the connection by
\* then is not known, so both this and MgmtWrite are possible.
BrokenPipe ==
  /\ handler["mgmt"] = "none"
  /\ mgmt = "write" /\ conn[current] = "left"
  /\ main' = "killed"
  /\ UNCHANGED <<running, mgmt, mutex, signalVars, udpVars, clientVars, fdVars>>

\* Mutant: the connection of a client that is gone is forgotten.
MgmtForget ==
  /\ MgmtAt("close", "top")
  /\ conn' = [conn EXCEPT ![current] = IF @ \in {"gone", "left"} THEN @ ELSE "closed"]
  /\ current' = NULL
  /\ UNCHANGED <<mutex, eintr, udpVars, backlog, accepted>>

MgmtClose ==
  /\ MgmtAt("close", "top")
  /\ conn' = [conn EXCEPT ![current] = "closed"]
  /\ current' = NULL
  /\ UNCHANGED <<mutex, eintr, udpVars, backlog, accepted>>

-----------------------------------------------------------------------------
(***************************************************************************)
(* handle_signal, on the stack of the thread it interrupts.                *)
(***************************************************************************)

\* A signal that finds the thread in a blocking call, not just before it,
\* makes that call return EINTR.
SignalArrives(t) ==
  /\ t \in SignalTargets
  /\ signals < MaxSignals
  /\ handler[t] = "none"
  /\ t = "mgmt" => mgmt # "done"
  /\ signals' = signals + 1
  /\ handler' = [handler EXCEPT ![t] = "log"]
  /\ \E b \in BOOLEAN : eintr' = [eintr EXCEPT ![t] = @ \/ (Blocked(t) /\ b)]
  /\ UNCHANGED <<running, main, mgmt, mutex, udpVars, clientVars, fdVars>>

\* log_message comes first, running = 0 second.
HandleSignal(t) ==
  /\ \/ /\ handler[t] = "log"
        /\ handler' = [handler EXCEPT ![t] = "clear"]
        /\ UNCHANGED running
     \/ /\ handler[t] = "clear"
        /\ handler' = [handler EXCEPT ![t] = "none"]
        /\ running' = FALSE
  /\ UNCHANGED <<main, mgmt, mutex, eintr, signals, udpVars, clientVars, fdVars>>

-----------------------------------------------------------------------------
(***************************************************************************)
(* The outside: datagrams and management clients.                          *)
(***************************************************************************)
DatagramArrives(d) ==
  /\ arrived < MaxDatagrams /\ main \notin {"join", "cleanup"}
  /\ arrived' = arrived + 1
  /\ inbox' = Append(inbox, d)
  /\ UNCHANGED <<running, main, mgmt, mutex, signalVars, clientVars, fdVars>>

\* The kernel completes the handshake while the socket listens.
Connect(c) ==
  /\ conn[c] = "out" /\ mgmt # "done"
  /\ conn' = [conn EXCEPT ![c] = "silent"]
  /\ backlog' = Append(backlog, c)
  /\ UNCHANGED <<running, main, mgmt, mutex, signalVars, udpVars, fdVars>>

ClientMoves(c, from, to) ==
  /\ conn[c] \in from
  /\ conn' = [conn EXCEPT ![c] = to]
  /\ UNCHANGED <<running, main, mgmt, mutex, signalVars, udpVars, backlog, fdVars>>

SendRequest(c) == ClientMoves(c, {"silent"}, "sent")

ReadReply(c) == ClientMoves(c, {"sent"}, "reading")

Leave(c) == ClientMoves(c, {"silent"}, "gone") \/ ClientMoves(c, {"sent", "reading"}, "left")

-----------------------------------------------------------------------------
MainThread ==
  \/ MainTop \/ MainSelect \/ MainRecv \/ MainLock \/ MainServe
  \/ MainJoin \/ MainCleanup

MgmtThread ==
  \/ MgmtTop \/ MgmtSelect \/ MgmtAccept \/ MgmtRead \/ MgmtDispatch
  \/ MgmtLock \/ MgmtWork \/ MgmtWrite \/ BrokenPipe \/ MgmtClose

Environment ==
  \/ \E t \in Threads : SignalArrives(t)
  \/ \E d \in {"query", "malformed"} : DatagramArrives(d)
  \/ \E c \in Clients : Connect(c) \/ SendRequest(c) \/ ReadReply(c) \/ Leave(c)

Gone == main \in Ended /\ UNCHANGED vars

Next ==
  \/ main \notin Ended /\ (MainThread \/ MgmtThread \/ \E t \in Threads : HandleSignal(t))
  \/ main \notin Ended /\ Environment
  \/ Gone

Spec == Init /\ [][Next]_vars

(***************************************************************************)
(* Fairness.  The threads and the handlers run; the mutex is not kept from *)
(* a thread for which it is free again and again.  None of this says that  *)
(* a call which waits for a client comes back: those actions are enabled   *)
(* only when the client has done its part.                                 *)
(***************************************************************************)
Live(A) == main \notin Ended /\ A

LiveSpec ==
  /\ Spec
  /\ WF_vars(Live(MainThread)) /\ WF_vars(Live(MgmtThread))
  /\ SF_vars(Live(MainLock)) /\ SF_vars(Live(MgmtLock))
  /\ \A t \in Threads : WF_vars(Live(HandleSignal(t)))

\* A polite client that has connected sends and reads, or leaves; once it
\* reads it is in no hurry.
GoesOn(c) == SendRequest(c) \/ ReadReply(c) \/ (conn[c] # "reading" /\ Leave(c))

Polite == \A c \in Clients : WF_vars(Live(GoesOn(c)))

PoliteSpec == LiveSpec /\ Polite

-----------------------------------------------------------------------------
(***************************************************************************)
(* Properties.                                                             *)
(***************************************************************************)

\* Every accepted connection is closed again on each path through the loop:
\* wrong token, error, a client that left, an interrupted call.
NoDescriptorLeak ==
  \A c \in accepted \ {current} : conn[c] = "closed"

\* Whatever the management clients do, or fail to do, main never waits for a
\* thread that waits for one of them: it gets to the end of what is in its
\* socket, unless a client that left before its reply has had the process
\* killed.
QueriesServed ==
  main \in {"recv", "lock", "serve"} \/ inbox # <<>>
    ~> main = "killed" \/ (inbox = <<>> /\ main \notin {"recv", "lock", "serve"})

\* No client leaves between its request and the reply.
Patient == \A c \in Clients : conn[c] # "left"

\* If all clients are polite and wait for their replies, one that has sent its
\* request gets its turn, however long the queue; or the server shuts down.
RequestsServed ==
  Polite /\ []Patient =>
    \A c \in Clients : conn[c] = "sent" ~> conn[c] = "closed" \/ ~ running

\* "Received signal %d, shutting down...": the process ends.
SignalEndsProcess == (\E t \in Threads : handler[t] # "none") ~> main \in Ended

\* It does if clients are polite and the signals are handled in main.
ShutdownCompletes ==
  Polite /\ [](handler["mgmt"] = "none") => SignalEndsProcess
=============================================================================
