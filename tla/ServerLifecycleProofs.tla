----------------------- MODULE ServerLifecycleProofs -----------------------
(***************************************************************************)
(* The safety properties of ServerLifecycle, proved for any number of      *)
(* clients, signals and datagrams.  The two are inductive together: what   *)
(* NoDescriptorLeak needs is that a client is at hand exactly from accept  *)
(* to close, which TypeOK says.                                            *)
(***************************************************************************)
EXTENDS ServerLifecycle, SequenceTheorems, TLAPS

\* Of the accepted connections only the one at hand is open, and there is one at
\* hand exactly from accept to close (TypeOK).
LInv == TypeOK /\ NoDescriptorLeak

USE LifecycleAssumption
USE DEF Threads, Ended, MainLabels, MgmtLabels, ConnStates, MainAt, MgmtAt, Returns,
        signalVars, udpVars, clientVars, fdVars, vars

\* Both loops start with nothing accepted and nothing locked.
LEMMA InitLInv == Init => LInv
<1>. SUFFICES ASSUME Init PROVE LInv
  OBVIOUS
<1>1. inbox \in Seq({"query", "malformed"}) /\ backlog \in Seq(Clients)
  BY EmptySeq DEF Init
<1>2. TypeOK
  BY <1>1 DEF Init, TypeOK
<1>. QED  BY <1>2 DEF Init, LInv, NoDescriptorLeak

LEMMA EintrTyped ==
  ASSUME NEW t \in Threads,
         eintr \in [Threads -> BOOLEAN], eintr' = [eintr EXCEPT ![t] = FALSE]
  PROVE  eintr' \in [Threads -> BOOLEAN]
  OBVIOUS

LEMMA MainKeepsLInv == LInv /\ MainThread => LInv'
<1>. SUFFICES ASSUME LInv, MainThread PROVE LInv'
  OBVIOUS
<1>. USE DEF LInv
<1>1. TypeOK'
  <2>1. \/ inbox' = inbox
        \/ inbox' = <<>>
        \/ inbox # <<>> /\ inbox' = Tail(inbox)
    <3>1. CASE MainTop \/ MainRecv
      BY <3>1 DEF MainTop, MainRecv
    <3>2. CASE MainSelect \/ MainLock \/ MainServe \/ MainJoin \/ MainCleanup
      BY <3>2 DEF MainSelect, MainLock, MainServe, MainJoin, MainCleanup
    <3>. QED  BY <3>1, <3>2 DEF MainThread
  <2>2. <<>> \in Seq({"query", "malformed"})
    BY EmptySeq
  <2>3. inbox # <<>> => Tail(inbox) \in Seq({"query", "malformed"})
    BY HeadTailProperties DEF TypeOK
  <2>4. inbox' \in Seq({"query", "malformed"})
    BY <2>1, <2>2, <2>3 DEF TypeOK
  <2>5. CASE MainTop \/ MainRecv
    BY <2>4, <2>5 DEF MainTop, MainRecv, TypeOK
  <2>6. CASE MainSelect
    <3>1. eintr' \in [Threads -> BOOLEAN]
      BY <2>6, EintrTyped DEF MainSelect, TypeOK
    <3>. QED  BY <2>6, <3>1 DEF MainSelect, TypeOK
  <2>7. CASE MainLock \/ MainServe \/ MainJoin \/ MainCleanup
    BY <2>7 DEF MainLock, MainServe, MainJoin, MainCleanup, TypeOK
  <2>. QED  BY <2>5, <2>6, <2>7 DEF MainThread
<1>2. NoDescriptorLeak'
  BY DEF MainThread, MainTop, MainSelect, MainRecv, MainLock, MainServe,
     MainJoin, MainCleanup, NoDescriptorLeak
<1>. QED  BY <1>1, <1>2

LEMMA MgmtKeepsLInv == LInv /\ MgmtThread => LInv'
<1>. SUFFICES ASSUME LInv, MgmtThread PROVE LInv'
  OBVIOUS
<1>. USE DEF LInv
<1>1. CASE MgmtTop \/ MgmtSelect
  <2>1. TypeOK'
    BY <1>1, EintrTyped DEF MgmtTop, MgmtSelect, TypeOK
  <2>2. NoDescriptorLeak'
    BY <1>1 DEF MgmtTop, MgmtSelect, NoDescriptorLeak
  <2>. QED  BY <2>1, <2>2
<1>2. CASE MgmtAccept
  <2>1. backlog # <<>> => Head(backlog) \in Clients /\ Tail(backlog) \in Seq(Clients)
    BY HeadTailProperties DEF TypeOK
  <2>2. TypeOK'
    <3>1. /\ current' \in Clients \cup {NULL} /\ current' # NULL <=> mgmt' = "read"
          /\ accepted' \subseteq Clients /\ backlog' \in Seq(Clients)
      <4>1. CASE /\ backlog # <<>>
                 /\ current' = Head(backlog)
                 /\ accepted' = accepted \cup {Head(backlog)}
                 /\ backlog' = Tail(backlog)
                 /\ mgmt' = "read"
        BY <2>1, <4>1 DEF TypeOK
      <4>2. CASE mgmt = "accept" /\ mgmt' = "top" /\ UNCHANGED <<current, accepted, backlog>>
        BY <4>2 DEF TypeOK
      <4>. QED  BY <1>2, <4>1, <4>2 DEF MgmtAccept
    <3>. QED  BY <1>2, <3>1, EintrTyped DEF MgmtAccept, TypeOK
  <2>3. NoDescriptorLeak'
    BY <1>2, <2>1 DEF MgmtAccept, TypeOK, NoDescriptorLeak
  <2>. QED  BY <2>2, <2>3
<1>3. CASE MgmtRead \/ MgmtDispatch \/ MgmtLock \/ MgmtWork \/ MgmtWrite
  <2>1. TypeOK'
    BY <1>3, EintrTyped DEF MgmtRead, MgmtDispatch, MgmtLock, MgmtWork, MgmtWrite, TypeOK
  <2>2. NoDescriptorLeak'
    BY <1>3 DEF MgmtRead, MgmtDispatch, MgmtLock, MgmtWork, MgmtWrite, NoDescriptorLeak
  <2>. QED  BY <2>1, <2>2
<1>4. CASE MgmtClose
  BY <1>4 DEF MgmtClose, TypeOK, NoDescriptorLeak
<1>5. CASE BrokenPipe
  BY <1>5 DEF BrokenPipe, TypeOK, NoDescriptorLeak
<1>. QED  BY <1>1, <1>2, <1>3, <1>4, <1>5 DEF MgmtThread

\* The handler and the outside move neither thread nor client_fd; a
\* connection the server has closed stays closed.
LEMMA OutsideKeepsLInv ==
  LInv /\ (Environment \/ \E t \in Threads : HandleSignal(t)) => LInv'
<1>. SUFFICES ASSUME LInv, Environment \/ \E t \in Threads : HandleSignal(t) PROVE LInv'
  OBVIOUS
<1>. USE DEF LInv
<1>1. ASSUME NEW t \in Threads, SignalArrives(t)
      PROVE  LInv'
  BY <1>1 DEF SignalArrives, TypeOK, NoDescriptorLeak
<1>2. ASSUME NEW t \in Threads, HandleSignal(t)
      PROVE  LInv'
  <2>1. handler' \in [Threads -> {"none", "log", "clear"}]
    BY <1>2 DEF HandleSignal, TypeOK
  <2>2. running' \in BOOLEAN
    BY <1>2 DEF HandleSignal, TypeOK
  <2>3. TypeOK'
    BY <1>2, <2>1, <2>2 DEF HandleSignal, TypeOK
  <2>4. NoDescriptorLeak'
    BY <1>2 DEF HandleSignal, NoDescriptorLeak
  <2>. QED  BY <2>3, <2>4
<1>3. ASSUME NEW d \in {"query", "malformed"}, DatagramArrives(d)
      PROVE  LInv'
  <2>1. inbox' \in Seq({"query", "malformed"})
    BY <1>3, AppendProperties DEF DatagramArrives, TypeOK
  <2>. QED
    BY <1>3, <2>1 DEF DatagramArrives, TypeOK, NoDescriptorLeak
<1>4. ASSUME NEW c \in Clients, Connect(c)
      PROVE  LInv'
  <2>1. backlog' \in Seq(Clients)
    BY <1>4, AppendProperties DEF Connect, TypeOK
  <2>. QED
    BY <1>4, <2>1 DEF Connect, TypeOK, NoDescriptorLeak
<1>5. ASSUME NEW c \in Clients, SendRequest(c) \/ ReadReply(c) \/ Leave(c)
      PROVE  LInv'
  BY <1>5 DEF SendRequest, ReadReply, Leave, ClientMoves, TypeOK, NoDescriptorLeak
<1>. QED  BY <1>1, <1>2, <1>3, <1>4, <1>5 DEF Environment

\* LInv holds in every reachable state.
THEOREM LifecycleInvariance == Spec => []LInv
<1>1. LInv /\ UNCHANGED vars => LInv'
  BY DEF LInv, TypeOK, NoDescriptorLeak
<1>2. LInv /\ [Next]_vars => LInv'
  BY <1>1, MainKeepsLInv, MgmtKeepsLInv, OutsideKeepsLInv DEF Next, Gone
<1>. QED  BY <1>2, InitLInv, PTL DEF Spec

\* Each path through the accept loop closes the connection it accepted.
THEOREM DescriptorsClosed == Spec => []NoDescriptorLeak
BY LifecycleInvariance, PTL DEF LInv

\* Descriptors, queues, flags and labels keep their types under every client.
THEOREM TypesKept == Spec => []TypeOK
BY LifecycleInvariance, PTL DEF LInv
=============================================================================
