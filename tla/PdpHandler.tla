----------------------------- MODULE PdpHandler -----------------------------
(***************************************************************************)
(* server.NewHandler and its middleware (server/handler.go, middleware.go):*)
(* requests served concurrently, each going inward through the option      *)
(* layers, to the mux, the Decider and the response writer, and outward    *)
(* through the layers again, where the observer hooks fire.  What arrives  *)
(* (Arrive) and what the Decider does (Decide, Panic) is the environment.  *)
(***************************************************************************)
EXTENDS Integers, Sequences, FiniteSets, PdpErrors

CONSTANTS None,      \* no response yet, no X-Request-ID, no error
          Requests,  \* identities of the requests
          IDs,       \* X-Request-ID values
          Chains     \* option lists the handler may be built with

Layer == {"log", "metrics", "echo"}

\* What arrives: where the mux sends it, whether it is JSON of the right
\* shape, and the X-Request-ID it carries.
Request == [route : {"endpoint", "method", "unknown"}, json : BOOLEAN,
            id : IDs \cup {None}]

\* What a Decider method returns: a response with a nil error (nil and a
\* value json cannot encode are such responses), or a member of DeciderErrors.
Responses == {"permit", "deny", "nil", "unencodable"}

\* What is committed on the wire.
Committed == [status : {200, 400, 404, 405, 500, 501}, id : IDs \cup {None},
              body : {"permit", "deny", "null", "empty", "text"}]

ASSUME HandlerAssumption == Chains \subseteq Seq(Layer)

\* nil is no value of what may be absent.
ASSUME NilAssumption ==
  None \notin IDs \cup Request \cup Responses \cup DeciderErrors \cup Committed

VARIABLES chain,     \* the layers, innermost first, fixed at construction
          pc,        \* pc[r]: "new", "in", "decide", "out", "done", "aborted"
          depth,     \* depth[r]: layers between r and the mux
          req,       \* req[r]: the Request
          header,    \* header[r]: the X-Request-ID set on the response so far
          recorded,  \* recorded[r]: the status the statusRecorders hold
          verdict,   \* verdict[r]: None, or what the Decider returned
          wire,      \* wire[r]: None, or the committed response
          events     \* the hook calls so far, in order

vars == <<chain, pc, depth, req, header, recorded, verdict, wire, events>>

----------------------------------------------------------------------------
\* Mutant: what cannot be encoded is written all the same.
EncodedAsIs(resp) == IF resp = "nil" THEN "null" ELSE resp

\* Mutant: a nil response is written as a permit.
EncodedFailOpen(resp) == CASE resp = "nil"         -> "permit"
                           [] resp = "unencodable" -> "empty"
                           [] OTHER                -> resp

\* What json.Encoder leaves on the wire; an encode error leaves nothing.
Encoded(resp) == CASE resp = "nil"         -> "null"
                   [] resp = "unencodable" -> "empty"
                   [] OTHER                -> resp

Init == /\ chain \in Chains
        /\ pc = [r \in Requests |-> "new"]
        /\ depth = [r \in Requests |-> 0]
        /\ req = [r \in Requests |-> None]
        /\ header = [r \in Requests |-> None]
        /\ recorded = [r \in Requests |-> 200]
        /\ verdict = [r \in Requests |-> None]
        /\ wire = [r \in Requests |-> None]
        /\ events = <<>>

Goto(r, from, to) == pc[r] = from /\ pc' = [pc EXCEPT ![r] = to]

\* net/http starts a goroutine for a request: the last option is outermost.
Arrive(r, q) ==
  /\ Goto(r, "new", "in")
  /\ req' = [req EXCEPT ![r] = q]
  /\ depth' = [depth EXCEPT ![r] = Len(chain)]
  /\ UNCHANGED <<chain, header, recorded, verdict, wire, events>>

\* Mutant: the echo layer sets the header on the way out.
EnterWithoutEcho(r) ==
  /\ pc[r] = "in" /\ depth[r] > 0
  /\ depth' = [depth EXCEPT ![r] = @ - 1]
  /\ UNCHANGED <<chain, pc, req, header, recorded, verdict, wire, events>>

\* One layer inward; the echo layer sets the header before what it wraps.
Enter(r) ==
  /\ pc[r] = "in" /\ depth[r] > 0
  /\ depth' = [depth EXCEPT ![r] = @ - 1]
  /\ header' = IF chain[depth[r]] = "echo" /\ req[r].id # None
               THEN [header EXCEPT ![r] = req[r].id] ELSE header
  /\ UNCHANGED <<chain, pc, req, recorded, verdict, wire, events>>

\* Mutant: statusRecorder passes WriteHeader on without recording it.
WriteUnrecorded(r, from, status, body) ==
  /\ Goto(r, from, "out")
  /\ wire' = [wire EXCEPT ![r] =
                [status |-> status, id |-> header[r], body |-> body]]
  /\ UNCHANGED <<chain, depth, req, header, recorded, events>>

\* WriteHeader, through every statusRecorder, commits the headers; the body
\* follows and the handler returns.
Write(r, from, status, body) ==
  /\ Goto(r, from, "out")
  /\ recorded' = [recorded EXCEPT ![r] = status]
  /\ wire' = [wire EXCEPT ![r] =
                [status |-> status, id |-> header[r], body |-> body]]
  /\ UNCHANGED <<chain, depth, req, header, events>>

\* r has passed the layers and is dispatched.
AtMux(r) == pc[r] = "in" /\ depth[r] = 0

\* The mux has no handler for the path, or none for the method.
NoRoute(r) ==
  /\ AtMux(r) /\ req[r].route # "endpoint"
  /\ Write(r, "in", IF req[r].route = "method" THEN 405 ELSE 404, "text")
  /\ UNCHANGED verdict

\* decodeRequest fails: a ValidationError, and the Decider is not called.
Malformed(r) ==
  /\ AtMux(r) /\ req[r].route = "endpoint" /\ ~req[r].json
  /\ Write(r, "in", ErrorStatus("validation"), "text")
  /\ UNCHANGED verdict

\* decodeRequest succeeds; nothing is validated; the Decider is called.
CallDecider(r) ==
  /\ AtMux(r) /\ req[r].route = "endpoint" /\ req[r].json
  /\ Goto(r, "in", "decide")
  /\ UNCHANGED <<chain, depth, req, header, recorded, verdict, wire, events>>

\* The Decider returns a response, or an error.
Decide(r, v) ==
  /\ verdict' = [verdict EXCEPT ![r] = v]
  /\ \/ v \in Responses /\ Write(r, "decide", 200, Encoded(v))
     \/ v \in DeciderErrors /\ Write(r, "decide", ErrorStatus(v), "text")

\* The Decider panics: nothing recovers before net/http, which closes the
\* connection; the layers unwind without running.
Panic(r) ==
  /\ Goto(r, "decide", "aborted")
  /\ UNCHANGED <<chain, depth, req, header, recorded, verdict, wire, events>>

\* Mutant: only failures are observed.
LeaveLogsErrorsOnly(r) ==
  /\ pc[r] = "out" /\ depth[r] < Len(chain)
  /\ depth' = [depth EXCEPT ![r] = @ + 1]
  /\ events' = IF chain[depth'[r]] = "echo" \/ recorded[r] = 200 THEN events
               ELSE Append(events, [layer |-> depth'[r], request |-> r,
                                    status |-> recorded[r]])
  /\ UNCHANGED <<chain, pc, req, header, recorded, verdict, wire>>

\* One layer outward; an observer layer calls its hook.
Leave(r) ==
  /\ pc[r] = "out" /\ depth[r] < Len(chain)
  /\ depth' = [depth EXCEPT ![r] = @ + 1]
  /\ events' = IF chain[depth'[r]] = "echo" THEN events
               ELSE Append(events, [layer |-> depth'[r], request |-> r,
                                    status |-> recorded[r]])
  /\ UNCHANGED <<chain, pc, req, header, recorded, verdict, wire>>

\* ServeHTTP returns to net/http.
Finish(r) ==
  /\ Goto(r, "out", "done")
  /\ depth[r] = Len(chain)
  /\ UNCHANGED <<chain, depth, req, header, recorded, verdict, wire, events>>

\* What the handler does by itself with r.
Serve(r) == \/ Enter(r)       \/ NoRoute(r) \/ Malformed(r)
            \/ CallDecider(r) \/ Leave(r)   \/ Finish(r)

Next == \E r \in Requests :
          \/ \E q \in Request : Arrive(r, q)
          \/ Serve(r)
          \/ \E v \in Responses \cup DeciderErrors : Decide(r, v)
          \/ Panic(r)

Spec == Init /\ [][Next]_vars
----------------------------------------------------------------------------
Event == [layer : Nat, request : Requests, status : Nat]

\* Every variable keeps to its values.
TypeOK ==
  /\ chain \in Chains
  /\ pc \in [Requests -> {"new", "in", "decide", "out", "done", "aborted"}]
  /\ depth \in [Requests -> 0..Len(chain)]
  /\ req \in [Requests -> Request \cup {None}]
  /\ header \in [Requests -> IDs \cup {None}]
  /\ recorded \in [Requests -> Nat]
  /\ verdict \in [Requests -> Responses \cup DeciderErrors \cup {None}]
  /\ wire \in [Requests -> Committed \cup {None}]
  /\ events \in Seq(Event)

\* The hook calls installed at layer i for request r.
Calls(i, r) == {n \in DOMAIN events : events[n].layer = i /\ events[n].request = r}

\* Every hook call reports the status that went on the wire, after it did; a
\* served request has been reported once by every observer layer, and an
\* aborted one by none.
HooksSeeTheWire ==
  /\ \A n \in DOMAIN events :
       LET e == events[n] IN wire[e.request] # None
                             /\ e.status = wire[e.request].status
  /\ \A r \in Requests, i \in DOMAIN chain :
       /\ Cardinality(Calls(i, r)) <= 1
       /\ pc[r] = "done" /\ chain[i] # "echo" => Calls(i, r) # {}
       /\ pc[r] = "aborted" => Calls(i, r) = {}

\* A committed response carries the X-Request-ID of its own request, whatever
\* layers surround the echo and whatever is served at the same time.
EchoIsOwnID ==
  \A r \in Requests : wire[r] # None =>
    wire[r].id = IF \E i \in DOMAIN chain : chain[i] = "echo" THEN req[r].id
                 ELSE None

\* The status table of NewHandler, read from the wire: a 200 is a Decider that
\* returned no error, a deny included; a 501 is never the answer to a request
\* that was found invalid; and the Decider is not asked about a request that
\* did not decode or has no route.
StatusTellsWhatHappened ==
  \A r \in Requests : wire[r] # None =>
    /\ wire[r].status = 200 <=> verdict[r] \in Responses
    /\ wire[r].status = 501 <=> verdict[r] = "notimplemented"
    /\ wire[r].status = 500 <=> verdict[r] = "other"
    /\ verdict[r] = None <=> (req[r].route # "endpoint" \/ ~req[r].json)
    /\ wire[r].body \in {"permit", "deny"} <=> verdict[r] \in {"permit", "deny"}

\* What the doc of WithLogger says: given several times, only the last hook
\* is called.
OnlyLastLoggerWins ==
  \A r \in Requests :
    Cardinality({n \in DOMAIN events :
                   /\ events[n].request = r
                   /\ chain[events[n].layer] = "log"}) <= 1
=============================================================================
