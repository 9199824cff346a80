----------------------------- MODULE PdpProcess -----------------------------
(***************************************************************************)
(* The life of a PDP process as examples/todo-pdp/main.go runs one: it     *)
(* probes its Decider, listens in a goroutine of its own, waits for a      *)
(* signal or for the listener's end, and shuts down.  The operator starts  *)
(* it (Start), may start it again, changed, after it ended, and signals or *)
(* kills it; clients connect to it, one request at a time each.  The       *)
(* Decider is a parameter: todo-pdp's own, or another in its place.        *)
(***************************************************************************)
EXTENDS PdpMetadata, Sequences

CONSTANTS Clients,     \* those who connect
          Requests,    \* what they may ask: [endpoint, method, fields]
          Deployments, \* what the operator may start
          MaxStarts    \* bound on how often

\* The flags, and what the consumer wrote into the program: the Decider and the
\* options of the document.
Deployment == [addr : [host : STRING, port : Nat], pdpURL : URL \cup {None},
               decider : Decider, options : Options]

ASSUME ProcessAssumption == Deployments \subseteq Deployment /\ MaxStarts \in Nat

VARIABLES deployed,  \* what was started so far, in order
          main,      \* main's goroutine: "off", "setup", "select", "shutdown"
          listener,  \* the listener's: "unbound", "open", "down"
          serverErr, \* the channel: None, or why ListenAndServe returned
          stopping,  \* the context of signal.NotifyContext is done
          metadata,  \* the document, built once
          conns,     \* conns[c]: c's connection
          exit       \* how the last process ended: None, a code, -1 for a signal

processVars == <<deployed, main, listener, serverErr, stopping, metadata,
                 conns, exit>>

Idle == [phase |-> "none", request |-> None, answer |-> None]
Open == {c \in Clients : conns[c].phase = "open"}
----------------------------------------------------------------------------
\* Mutant: the flag is used as it is.
httpHostAsIs(addr) == addr

\* An empty host and the IPv4 wildcard become localhost.
httpHost(addr) == IF addr.host \in {"", "0.0.0.0"}
                  THEN [addr EXCEPT !.host = "localhost"] ELSE addr

publicURL(d) == IF d.pdpURL # None THEN d.pdpURL
                ELSE [origin |-> httpHost(d.addr), slashes |-> 0]

\* The document of a process started as d.
Document(d) == BuildMetadata(publicURL(d), d.decider, d.options)

\* nil is neither a document, nor a URL, nor an exit code, nor an error.
ASSUME NilAssumption ==
  /\ \A d \in Deployments :
       /\ None # Document(d)
       /\ \A e \in Endpoints : None # Join(TrimRight(publicURL(d)), e)
  /\ None # 0 /\ None # "closed"

ProcessInit ==
  /\ deployed = <<>>
  /\ main = "off"
  /\ listener = "down"
  /\ serverErr = None
  /\ stopping = FALSE
  /\ metadata = None
  /\ conns = [c \in Clients |-> Idle]
  /\ exit = None

Current == deployed[Len(deployed)]

Start(d) ==
  /\ main = "off" /\ Len(deployed) < MaxStarts
  /\ main' = "setup"
  /\ deployed' = Append(deployed, d)
  /\ listener' = "unbound"
  /\ stopping' = FALSE
  /\ metadata' = None
  /\ exit' = None
  /\ UNCHANGED <<serverErr, conns>>

\* The process is gone, and with it every connection that is not answered.
Exit(code) ==
  /\ main' = "off"
  /\ exit' = code
  /\ listener' = "down"
  /\ serverErr' = None
  /\ conns' = [c \in Clients |-> IF c \in Open
                                 THEN [Idle EXCEPT !.phase = "reset",
                                                   !.answer = [by |-> Len(deployed)]]
                                 ELSE conns[c]]
  /\ UNCHANGED <<deployed, stopping, metadata>>

\* Mutant: the handlers are mounted before the document is built.
SetupWithoutDocument ==
  /\ main = "setup"
  /\ main' = "select"
  /\ UNCHANGED <<deployed, listener, serverErr, stopping, metadata, conns, exit>>

\* run, up to the select: a probe that panics ends the process.
Setup ==
  /\ main = "setup"
  /\ IF ProbePanics(Current.decider) THEN Exit(2)
     ELSE /\ metadata' = Document(Current)
          /\ main' = "select"
          /\ UNCHANGED <<deployed, listener, serverErr, stopping, conns, exit>>

\* ListenAndServe returns, or never gets to listen.
ServerReturns(err) ==
  /\ listener' = "down"
  /\ serverErr' = err
  /\ UNCHANGED <<deployed, main, stopping, metadata, conns, exit>>

\* The address is free, it is not, or Shutdown came first.
Bind ==
  /\ listener = "unbound" /\ main \in {"select", "shutdown"}
  /\ \/ /\ main = "select"
        /\ listener' = "open"
        /\ UNCHANGED <<deployed, main, serverErr, stopping, metadata, conns, exit>>
     \/ main = "select" /\ ServerReturns("bind")
     \/ main = "shutdown" /\ ServerReturns("closed")

AcceptFails ==
  /\ listener = "open"
  /\ ServerReturns("accept")

\* SIGINT or SIGTERM: until NotifyContext it kills; a second one is ignored.
Signal ==
  \/ main = "setup" /\ Exit(-1)
  \/ /\ main \in {"select", "shutdown"} /\ ~stopping
     /\ stopping' = TRUE
     /\ UNCHANGED <<deployed, main, listener, serverErr, metadata, conns, exit>>

\* SIGKILL: the kernel closes what was open.  When the machine dies instead, no
\* client is told (Lose).
Kill == main # "off" /\ Exit(-1)

\* The select takes the listener's end, also when a signal is there too.
ServerStops ==
  /\ main = "select" /\ serverErr # None
  /\ Exit(IF serverErr = "closed" THEN 0 ELSE 1)

\* The select takes the signal: Shutdown closes the listener, for good.
Interrupted ==
  /\ main = "select" /\ stopping
  /\ main' = "shutdown"
  /\ IF listener = "open" THEN listener' = "down" /\ serverErr' = "closed"
     ELSE UNCHANGED <<listener, serverErr>>
  /\ UNCHANGED <<deployed, stopping, metadata, conns, exit>>

\* Mutant: the listener is closed and that is all (Close for Shutdown).
DrainedUnasked == main = "shutdown" /\ Exit(0)

\* No request is in flight: Shutdown returns nil.
Drained == main = "shutdown" /\ Open = {} /\ Exit(0)

\* Mutant: Shutdown has no deadline.
GraceNeverEnds == main = "shutdown" /\ Open = {} /\ Exit(1)

\* The five seconds are over: Shutdown returns the context's error.
GraceEnds == main = "shutdown" /\ Exit(1)

\* c connects and net/http starts a handler for its request.
Connect(c, q) ==
  /\ listener = "open" /\ conns[c].phase = "none"
  /\ conns' = [conns EXCEPT ![c] = [Idle EXCEPT !.phase = "open", !.request = q]]
  /\ UNCHANGED <<deployed, main, listener, serverErr, stopping, metadata, exit>>

\* What the Decider may do with a request.
DeciderReplies(q) == IF q.fields = {} THEN {Current.decider[q.endpoint].zero}
                     ELSE Current.decider[q.endpoint].real

\* What the mux, the metadata handler and the handler may answer.
Answers(q) ==
  IF q.endpoint = "metadata" THEN {MetadataAnswer(metadata, q.method)}
  ELSE IF q.method # "POST" THEN {[status |-> 405, body |-> None]}
  ELSE {[status |-> IF r = "answer" THEN 200 ELSE ErrorStatus(r), body |-> None] :
          r \in DeciderReplies(q) \ {"panic"}}

\* Mutant: handlers take turns.
ReplyAlone(c) ==
  /\ main # "off" /\ Open = {c}
  /\ \E a \in Answers(conns[c].request) :
       conns' = [conns EXCEPT ![c] =
                   [Idle EXCEPT !.phase = "answered",
                                !.answer = [status |-> a.status, body |-> a.body,
                                             by |-> Len(deployed)]]]
  /\ UNCHANGED <<deployed, main, listener, serverErr, stopping, metadata, exit>>

\* A handler answers: `by` says which of the processes did.
Reply(c) ==
  /\ main # "off" /\ c \in Open
  /\ \E a \in Answers(conns[c].request) :
       conns' = [conns EXCEPT ![c] =
                   [Idle EXCEPT !.phase = "answered",
                                !.answer = [status |-> a.status, body |-> a.body,
                                             by |-> Len(deployed)]]]
  /\ UNCHANGED <<deployed, main, listener, serverErr, stopping, metadata, exit>>

\* The Decider panics: net/http recovers and closes the connection.
Abort(c) ==
  /\ main # "off" /\ c \in Open
  /\ LET q == conns[c].request
     IN  /\ q.endpoint # "metadata" /\ q.method = "POST"
         /\ "panic" \in DeciderReplies(q)
  /\ conns' = [conns EXCEPT ![c] = [Idle EXCEPT !.phase = "aborted"]]
  /\ UNCHANGED <<deployed, main, listener, serverErr, stopping, metadata, exit>>

\* c has taken what its connection ended in, or given up on a lost one.
Hangup(c) ==
  /\ conns[c].phase \in {"answered", "reset", "aborted", "lost"}
  /\ conns' = [conns EXCEPT ![c] = Idle]
  /\ UNCHANGED <<deployed, main, listener, serverErr, stopping, metadata, exit>>

\* What was sent to c on its connection, or that it broke, never gets to c: the
\* network is gone, or the machine of the process.
Lose(c) ==
  /\ conns[c].phase \in {"answered", "reset", "aborted"}
  /\ conns' = [conns EXCEPT ![c] = [Idle EXCEPT !.phase = "lost"]]
  /\ UNCHANGED <<deployed, main, listener, serverErr, stopping, metadata, exit>>

MainReturns == ServerStops \/ Interrupted \/ Drained \/ GraceEnds

ProcessNext ==
  \/ \E d \in Deployments : Start(d)
  \/ Setup \/ Bind \/ AcceptFails \/ Signal \/ Kill
  \/ MainReturns
  \/ \E c \in Clients : Reply(c) \/ Abort(c)

----------------------------------------------------------------------------
\* A process that says it ended well was told to end, and left no request
\* unanswered that it had begun to serve, whatever the order of the signal,
\* the listener's end, the grace period and the handlers.
CleanExit ==
  exit = 0 => /\ stopping
              /\ \A c \in Clients : conns[c].phase = "reset"
                                     => conns[c].answer.by < Len(deployed)

\* Once signalled, or without its listener, the process ends, even when a
\* Decider never returns.
ProcessEnds == (stopping \/ serverErr # None) ~> main = "off"
=============================================================================
