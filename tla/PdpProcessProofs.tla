-------------------------- MODULE PdpProcessProofs --------------------------
(***************************************************************************)
(* What every step of a PDP process, and of those who connect to it,       *)
(* preserves.  A specification that composes the process with clients      *)
(* (Discovery) cites ProcessInvInitially and ProcessInvStep.               *)
(***************************************************************************)
EXTENDS PdpProcess, TLAPS

Types ==
  /\ deployed \in Seq(Deployments) /\ Len(deployed) <= MaxStarts
  /\ main \in {"off", "setup", "select", "shutdown"}
  /\ main # "off" => Len(deployed) > 0
  /\ listener \in {"unbound", "open", "down"}
  /\ serverErr \in {None, "bind", "accept", "closed"}
  /\ stopping \in BOOLEAN
  /\ exit \in {None, -1, 0, 1, 2}
  /\ conns = [c \in Clients |-> conns[c]]
  /\ \A c \in Clients : conns[c].phase \in {"none", "open", "answered", "reset",
                                           "aborted", "lost"}

\* The goroutines keep in step: it is the select alone that runs beside an open
\* listener, its channel is empty before, and only Shutdown closes the server;
\* Shutdown was asked for, and the exit code is that of a process that is gone.
Goroutines ==
  /\ listener = "open" => main = "select"
  /\ main \in {"off", "setup"} => serverErr = None
  /\ main = "select" => serverErr # "closed"
  /\ main = "shutdown" => stopping
  /\ main # "off" => exit = None

\* From the select on the document is that of the process that runs, and only
\* there are handlers at work.
Serving ==
  /\ main \in {"select", "shutdown"} => metadata = Document(Current)
  /\ Open # {} => main \in {"select", "shutdown"}

\* A connection was reset by a process that was started, and is gone.
Resets ==
  \A c \in Clients : conns[c].phase = "reset" =>
    /\ conns[c].answer.by \in 1..Len(deployed)
    /\ main # "off" => conns[c].answer.by < Len(deployed)

ProcessInv == Types /\ Goroutines /\ Serving /\ Resets /\ CleanExit

\* What the others do to a process.
Connection == \E c \in Clients : Hangup(c) \/ Lose(c) \/ \E q : Connect(c, q)

\* Before the first start the invariant holds.
LEMMA ProcessInvInitially ==
  ASSUME ProcessInit
  PROVE  ProcessInv
<1>1. /\ deployed \in Seq(Deployments) /\ Len(deployed) = 0
      /\ conns = [c \in Clients |-> conns[c]]
      /\ \A c \in Clients : conns[c].phase = "none"
  BY SMT DEF ProcessInit, Idle
<1>2. stopping \in BOOLEAN
  BY DEF ProcessInit
<1>3. Types /\ Goroutines
  BY <1>1, <1>2, ProcessAssumption, SMT DEF ProcessInit, Types, Goroutines
<1>4. Serving /\ Resets /\ CleanExit
  BY <1>1, NilAssumption, SMT DEF ProcessInit, Serving, Open, Resets, CleanExit
<1> QED
  BY <1>3, <1>4 DEF ProcessInv

\* The process that runs is one of those the operator may start.
LEMMA CurrentIsDeployed == Types /\ main # "off" => Current \in Deployments
  BY SMT DEF Types, Current

\* An end of the process, whatever its code, resets what is open: the
\* invariant holds again if the code 0 is kept for an end that was asked for
\* and finds nothing open.
LEMMA ExitKeeps ==
  ASSUME NEW code \in {-1, 0, 1, 2}, ProcessInv, Exit(code), main # "off",
         code = 0 => stopping /\ Open = {}
  PROVE  ProcessInv'
<1> DEFINE k == Len(deployed)
<1>1. /\ k \in Nat /\ k > 0 /\ deployed' = deployed
      /\ main' = "off" /\ listener' = "down" /\ serverErr' = None
      /\ exit' = code /\ stopping' = stopping
  BY SMT DEF ProcessInv, Types, Exit
<1>2. conns' = [c \in Clients |-> conns'[c]]
  BY DEF Exit
<1>3. \A c \in Clients :
        \/ conns[c].phase = "open" /\ conns'[c].phase = "reset"
           /\ conns'[c].answer.by = k
        \/ conns[c].phase # "open" /\ conns'[c] = conns[c]
  BY SMT DEF Exit, Open, Idle
<1>4. Types'
  BY <1>1, <1>2, <1>3, SMT DEF ProcessInv, Types
<1>5. Goroutines' /\ Serving'
  BY <1>1, <1>3, SMT DEF Goroutines, Serving, Open
<1>6. Resets'
  BY <1>1, <1>3, SMT DEF ProcessInv, Types, Resets
<1>7. CleanExit'
  <2> SUFFICES ASSUME code = 0 PROVE CleanExit'
    BY <1>1, SMT DEF CleanExit
  <2>1. stopping'
    BY <1>1
  <2>2. \A c \in Clients : conns'[c].phase = "reset" => conns'[c].answer.by < k
    BY <1>3, SMT DEF ProcessInv, Resets, Open
  <2> QED
    BY <2>1, <2>2, <1>1, Zenon DEF CleanExit
<1> QED
  BY <1>4, <1>5, <1>6, <1>7 DEF ProcessInv

\* Start: the next process has no goroutine but main's, and every connection
\* was reset by an earlier one.
LEMMA StartKeeps ==
  ASSUME NEW d \in Deployments, ProcessInv, Start(d)
  PROVE  ProcessInv'
<1>1. /\ Len(deployed') = Len(deployed) + 1 /\ Len(deployed) \in Nat
      /\ deployed' \in Seq(Deployments)
  BY SMT DEF ProcessInv, Types, Start
<1>2. main = "off" /\ main' = "setup" /\ listener' = "unbound" /\ exit' = None
      /\ serverErr' = serverErr /\ conns' = conns /\ Len(deployed) < MaxStarts
      /\ stopping' = FALSE
  BY DEF Start
<1>3. Types'
  <2>1. stopping' \in BOOLEAN
    BY <1>2
  <2> QED
    BY <1>1, <1>2, <2>1, ProcessAssumption, SMT DEF ProcessInv, Types
<1>4. Goroutines' /\ Serving'
  BY <1>2, SMT DEF ProcessInv, Goroutines, Serving, Open
<1>5. Resets' /\ CleanExit'
  BY <1>1, <1>2, NilAssumption, SMT DEF ProcessInv, Resets, CleanExit
<1> QED
  BY <1>3, <1>4, <1>5 DEF ProcessInv

\* A step of the goroutines of one process keeps the invariant if it keeps what
\* the invariant says of them, and ends nothing.
LEMMA GoroutinesStep ==
  ASSUME ProcessInv, UNCHANGED <<deployed, conns, exit>>, main # "off",
         main' \in {"setup", "select", "shutdown"},
         listener' \in {"unbound", "open", "down"},
         serverErr' \in {None, "bind", "accept", "closed"},
         stopping' \in BOOLEAN,
         Goroutines',
         main \in {"select", "shutdown"} => main' \in {"select", "shutdown"},
         main' \in {"select", "shutdown"} => metadata' = Document(Current)
  PROVE  ProcessInv'
<1>1. Types'
  BY SMT DEF ProcessInv, Types
<1>2. Serving'
  BY SMT DEF ProcessInv, Serving, Open, Current
<1>3. Resets' /\ CleanExit'
  BY NilAssumption, SMT DEF ProcessInv, Resets, CleanExit, Goroutines
<1> QED
  BY <1>1, <1>2, <1>3 DEF ProcessInv

\* What happens to the connections alone.
LEMMA ConnectionsStep ==
  ASSUME ProcessInv,
         UNCHANGED <<deployed, main, listener, serverErr, stopping, metadata, exit>>,
         NEW c \in Clients, NEW k,
         conns' = [conns EXCEPT ![c] = k],
         k.phase \in {"none", "open", "answered", "aborted", "lost"},
         k.phase = "open" => main \in {"select", "shutdown"}
  PROVE  ProcessInv'
<1>1. /\ conns' = [e \in Clients |-> conns'[e]]
      /\ \A e \in Clients : conns'[e] = IF e = c THEN k ELSE conns[e]
  BY SMT DEF ProcessInv, Types
<1>2. Types' /\ Goroutines'
  BY <1>1, SMT DEF ProcessInv, Types, Goroutines
<1>3. Serving'
  BY <1>1, SMT DEF ProcessInv, Serving, Open, Current
<1>4. Resets' /\ CleanExit'
  BY <1>1, SMT DEF ProcessInv, Resets, CleanExit
<1> QED
  BY <1>2, <1>3, <1>4 DEF ProcessInv

\* Every step of a process, and of those who connect to it, keeps the invariant.
LEMMA ProcessInvStep ==
  ASSUME ProcessInv, ProcessNext \/ Connection \/ UNCHANGED processVars
  PROVE  ProcessInv'
<1>1. CASE \E d \in Deployments : Start(d)
  BY <1>1, StartKeeps
<1>2. CASE Setup
  <2>1. CASE ProbePanics(Current.decider)
    BY <1>2, <2>1, ExitKeeps DEF Setup
  <2>2. CASE ~ProbePanics(Current.decider)
    <3>1. Goroutines'
      BY <1>2, <2>2, NilAssumption, SMT DEF Setup, ProcessInv, Goroutines
    <3> QED
      BY <1>2, <2>2, <3>1, GoroutinesStep DEF Setup, ProcessInv, Types
  <2> QED
    BY <2>1, <2>2
<1>3. CASE Bind
  <2>1. Goroutines'
    BY <1>3, NilAssumption, SMT DEF Bind, ServerReturns, ProcessInv, Goroutines
  <2> QED
    BY <1>3, <2>1, GoroutinesStep
    DEF Bind, ServerReturns, ProcessInv, Types, Serving
<1>4. CASE AcceptFails
  <2>1. Goroutines'
    BY <1>4, NilAssumption, SMT DEF AcceptFails, ServerReturns, ProcessInv, Goroutines
  <2> QED
    BY <1>4, <2>1, GoroutinesStep
    DEF AcceptFails, ServerReturns, ProcessInv, Types, Goroutines, Serving
<1>5. CASE Signal
  <2>1. CASE main = "setup" /\ Exit(-1)
    BY <2>1, ExitKeeps
  <2>2. CASE ~(main = "setup" /\ Exit(-1))
    <3>1. Goroutines'
      BY <1>5, <2>2, SMT DEF Signal, ProcessInv, Goroutines
    <3> QED
      BY <1>5, <2>2, <3>1, GoroutinesStep DEF Signal, ProcessInv, Types, Serving
  <2> QED
    BY <2>1, <2>2
<1>6. CASE Kill
  BY <1>6, ExitKeeps DEF Kill
<1>7. CASE ServerStops
  BY <1>7, ExitKeeps DEF ServerStops, ProcessInv, Goroutines
<1>8. CASE Interrupted
  <2>1. Goroutines'
    BY <1>8, NilAssumption, SMT DEF Interrupted, ProcessInv, Goroutines
  <2> QED
    BY <1>8, <2>1, GoroutinesStep DEF Interrupted, ProcessInv, Types, Serving
<1>9. CASE Drained
  BY <1>9, ExitKeeps DEF Drained, ProcessInv, Goroutines
<1>10. CASE GraceEnds
  BY <1>10, ExitKeeps DEF GraceEnds
<1>11. CASE \E c \in Clients : \/ Reply(c) \/ Abort(c) \/ Hangup(c) \/ Lose(c)
                               \/ \E q : Connect(c, q)
  <2> PICK c \in Clients : \/ Reply(c) \/ Abort(c) \/ Hangup(c) \/ Lose(c)
                           \/ \E q : Connect(c, q)
    BY <1>11
  <2>1. UNCHANGED <<deployed, main, listener, serverErr, stopping, metadata, exit>>
    BY DEF Reply, Abort, Hangup, Lose, Connect
  <2>2. PICK k : /\ conns' = [conns EXCEPT ![c] = k]
                 /\ k.phase \in {"none", "open", "answered", "aborted", "lost"}
                 /\ k.phase = "open" => listener = "open"
    <3>1. CASE Reply(c)
      <4> PICK a \in Answers(conns[c].request) :
            conns' = [conns EXCEPT ![c] =
                        [Idle EXCEPT !.phase = "answered",
                                     !.answer = [status |-> a.status, body |-> a.body,
                                                 by |-> Len(deployed)]]]
        BY <3>1 DEF Reply
      <4> [Idle EXCEPT !.phase = "answered",
                       !.answer = [status |-> a.status, body |-> a.body,
                                   by |-> Len(deployed)]].phase = "answered"
        BY SMT DEF Idle
      <4> QED
        BY Zenon
    <3>2. CASE Abort(c)
      <4> [Idle EXCEPT !.phase = "aborted"].phase = "aborted"
        BY SMT DEF Idle
      <4> QED
        BY <3>2, Zenon DEF Abort
    <3>3. CASE Hangup(c)
      <4> Idle.phase = "none"
        BY DEF Idle
      <4> QED
        BY <3>3, Zenon DEF Hangup
    <3>4. CASE \E q : Connect(c, q)
      <4> PICK q : Connect(c, q)
        BY <3>4
      <4> [Idle EXCEPT !.phase = "open", !.request = q].phase = "open"
        BY SMT DEF Idle
      <4> QED
        BY Zenon DEF Connect
    <3>5. CASE Lose(c)
      <4> [Idle EXCEPT !.phase = "lost"].phase = "lost"
        BY SMT DEF Idle
      <4> QED
        BY <3>5, Zenon DEF Lose
    <3> QED
      BY <3>1, <3>2, <3>3, <3>4, <3>5
  <2> QED
    BY <2>1, <2>2, ConnectionsStep DEF ProcessInv, Goroutines
<1>12. CASE UNCHANGED processVars
  BY <1>12, SMT DEF processVars, ProcessInv, Types, Goroutines, Serving, Resets,
     CleanExit, Open, Current
<1> QED
  BY <1>1, <1>2, <1>3, <1>4, <1>5, <1>6, <1>7, <1>8, <1>9, <1>10, <1>11, <1>12
  DEF ProcessNext, MainReturns, Connection
=============================================================================
