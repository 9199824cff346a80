-------------------------- MODULE PdpHandlerProofs --------------------------
(***************************************************************************)
(* Safety of server.NewHandler for any number of concurrent requests and   *)
(* any list of options: the type invariant, what the hooks report, the     *)
(* echoed ID, and the status table.                                        *)
(***************************************************************************)
EXTENDS PdpHandler, FiniteSetTheorems, TLAPS

\* The response of r is written.
Written(r) == pc[r] \in {"out", "done"}

\* Response w to request q, of which the Decider said v, is as the status table
\* has it.
Fits(q, v, w) ==
  /\ w.status = 200 <=> v \in Responses
  /\ w.status = 501 <=> v = "notimplemented"
  /\ w.status = 500 <=> v = "other"
  /\ v = None <=> (q.route # "endpoint" \/ ~q.json)
  /\ w.body \in {"permit", "deny"} <=> v \in {"permit", "deny"}

AllFit == \A r \in Requests : wire[r] # None => Fits(req[r], verdict[r], wire[r])

\* Until its response is written, r has left no trace but the header.
NoTraceYet ==
  \A r \in Requests : ~Written(r) => /\ wire[r] = None
                                      /\ verdict[r] = None

\* A request that has arrived is one; once it is written, there is a response
\* and the recorders hold its status.
ArrivedAndWritten ==
  \A r \in Requests :
    /\ pc[r] # "new" => req[r] \in Request
    /\ Written(r) => wire[r] \in Committed /\ recorded[r] = wire[r].status

\* The layers r is inside of have set the header, if one of them echoes.
HeaderSoFar ==
  \A r \in Requests :
    /\ pc[r] = "new" => header[r] = None
    /\ pc[r] \in {"in", "decide"} =>
         header[r] = IF \E i \in depth[r] + 1 .. Len(chain) : chain[i] = "echo"
                     THEN req[r].id ELSE None

\* The Decider is called inside all layers, with what decoded; the layers are
\* left from the innermost to the last.
Inside ==
  \A r \in Requests :
    /\ pc[r] = "decide" => /\ depth[r] = 0
                           /\ req[r].route = "endpoint" /\ req[r].json
    /\ pc[r] = "done" => depth[r] = Len(chain)

\* A hook was called by a layer its request has left, with what the recorders
\* hold,
CallsAreTrue ==
  \A n \in DOMAIN events :
    LET e == events[n]
    IN  /\ Written(e.request)
        /\ e.layer \in 1..depth[e.request]
        /\ e.status = recorded[e.request]

\* ... no layer called it twice for one request,
CallsAreSingle ==
  \A m, n \in DOMAIN events :
    /\ events[m].layer = events[n].layer
    /\ events[m].request = events[n].request
    => m = n

\* ... and no observer left so far has missed it.
NoCallIsMissed ==
  \A r \in Requests : Written(r) =>
    \A i \in 1..depth[r] : chain[i] # "echo" =>
      \E n \in DOMAIN events : events[n].layer = i /\ events[n].request = r

Events == CallsAreTrue /\ CallsAreSingle /\ NoCallIsMissed

IInv == /\ TypeOK
        /\ NoTraceYet
        /\ ArrivedAndWritten
        /\ HeaderSoFar
        /\ Inside
        /\ Events
        /\ EchoIsOwnID
        /\ AllFit
----------------------------------------------------------------------------
\* The chain is a sequence of layers.
LEMMA ChainIsSeq == ASSUME TypeOK
                    PROVE  chain \in Seq(Layer) /\ Len(chain) \in Nat
  BY HandlerAssumption DEF TypeOK

\* The initial state satisfies the inductive invariant.
LEMMA InitInv == Init => IInv
<1> SUFFICES ASSUME Init PROVE IInv
  OBVIOUS
<1>1. TypeOK
  <2>1. chain \in Seq(Layer)
    BY HandlerAssumption DEF Init
  <2> QED
    BY <2>1 DEF Init, TypeOK
<1>2. NoTraceYet /\ ArrivedAndWritten /\ HeaderSoFar /\ Inside
  BY DEF Init, NoTraceYet, ArrivedAndWritten, HeaderSoFar, Inside, Written
<1>3. Events /\ EchoIsOwnID /\ AllFit
  BY DEF Init, Events, CallsAreTrue, CallsAreSingle, NoCallIsMissed,
         EchoIsOwnID, AllFit, Written
<1> QED
  BY <1>1, <1>2, <1>3 DEF IInv

\* What the hooks recorded are events.
LEMMA EventTypes ==
  ASSUME TypeOK
  PROVE  \A n \in DOMAIN events : events[n].request \in Requests
<1>1. \A n \in DOMAIN events : events[n] \in Event
  BY DEF TypeOK
<1> QED
  BY <1>1 DEF Event

\* A step that calls no hook keeps the record of the calls if it leaves the
\* requests that are answered alone, and answers one only inside all layers.
LEMMA EventsKept ==
  ASSUME TypeOK, Events, UNCHANGED <<events, chain>>,
         \A r \in Requests : Written(r) =>
           Written(r)' /\ depth'[r] = depth[r] /\ recorded'[r] = recorded[r],
         \A r \in Requests : Written(r)' => Written(r) \/ depth'[r] = 0
  PROVE  Events'
<1>1. \A n \in DOMAIN events : events[n].request \in Requests
  BY EventTypes
<1>2. CallsAreTrue'
  BY <1>1 DEF Events, CallsAreTrue
<1>3. CallsAreSingle'
  BY DEF Events, CallsAreSingle
<1>4. ASSUME NEW r \in Requests, Written(r)', NEW i \in 1..depth'[r],
             chain[i] # "echo"
      PROVE  \E n \in DOMAIN events :
               events[n].layer = i /\ events[n].request = r
  <2>1. Written(r) /\ depth'[r] = depth[r]
    BY <1>4
  <2> QED
    BY <1>4, <2>1 DEF Events, NoCallIsMissed
<1>5. NoCallIsMissed'
  BY <1>4 DEF NoCallIsMissed
<1> QED
  BY <1>2, <1>3, <1>5 DEF Events

\* A request arrives.
LEMMA ArriveInv ==
  ASSUME IInv, NEW r \in Requests, NEW q \in Request, Arrive(r, q)
  PROVE  IInv'
<1> USE DEF IInv, Arrive, Goto, Written
<1>1. TypeOK'
  BY ChainIsSeq DEF TypeOK
<1>2. NoTraceYet' /\ ArrivedAndWritten' /\ Inside'
  BY DEF TypeOK, NoTraceYet, ArrivedAndWritten, Inside
<1>3. HeaderSoFar'
  BY ChainIsSeq DEF TypeOK, HeaderSoFar
<1>4. Events'
  BY EventsKept DEF TypeOK
<1>5. \A s \in Requests : wire[s] # None => s # r
  BY DEF NoTraceYet
<1>6. \A s \in Requests : s # r => req'[s] = req[s]
  BY DEF TypeOK
<1>7. EchoIsOwnID'
  BY <1>5, <1>6 DEF EchoIsOwnID
<1>8. AllFit'
  BY <1>5, <1>6 DEF AllFit
<1> QED
  BY <1>1, <1>2, <1>3, <1>4, <1>7, <1>8

\* A request goes one layer inward: the header is now what this layer makes it.
LEMMA EnterInv == ASSUME IInv, NEW r \in Requests, Enter(r) PROVE IInv'
<1> USE DEF IInv, Enter, Written
<1>1. req[r] \in Request
  BY DEF ArrivedAndWritten
<1>2. TypeOK'
  BY <1>1, ChainIsSeq DEF TypeOK, Request
<1>3. NoTraceYet' /\ ArrivedAndWritten' /\ Inside'
  BY DEF TypeOK, NoTraceYet, ArrivedAndWritten, Inside
<1>4. HeaderSoFar'
  <2>1. depth[r] \in 1..Len(chain) /\ depth'[r] = depth[r] - 1
    BY ChainIsSeq DEF TypeOK
  <2>2. (\E i \in depth'[r] + 1 .. Len(chain) : chain[i] = "echo")
          <=> \/ chain[depth[r]] = "echo"
              \/ \E i \in depth[r] + 1 .. Len(chain) : chain[i] = "echo"
    BY <2>1, ChainIsSeq
  <2>3. header'[r] = IF \E i \in depth'[r] + 1 .. Len(chain) : chain[i] = "echo"
                     THEN req[r].id ELSE None
    BY <2>2 DEF HeaderSoFar, TypeOK
  <2> QED
    BY <2>3 DEF HeaderSoFar, TypeOK
<1>5. Events'
  BY EventsKept DEF TypeOK
<1>6. EchoIsOwnID' /\ AllFit'
  BY DEF EchoIsOwnID, AllFit
<1> QED
  BY <1>2, <1>3, <1>4, <1>5, <1>6

\* Inside all layers, response w is written to r, of which the Decider said v.
Commits(r, w, v) ==
  /\ pc[r] \in {"in", "decide"} /\ depth[r] = 0
  /\ w.id = header[r]
  /\ pc' = [pc EXCEPT ![r] = "out"]
  /\ recorded' = [recorded EXCEPT ![r] = w.status]
  /\ wire' = [wire EXCEPT ![r] = w]
  /\ verdict' = [verdict EXCEPT ![r] = v]
  /\ UNCHANGED <<chain, depth, req, header, events>>

\* A response that agrees with the status table keeps the invariant.
LEMMA CommitInv ==
  ASSUME IInv, NEW r \in Requests, NEW w \in Committed,
         NEW v \in Responses \cup DeciderErrors \cup {None},
         Commits(r, w, v), Fits(req[r], v, w)
  PROVE  IInv'
<1> USE DEF IInv, Commits, Written
<1>1. w.status \in Nat
  BY DEF Committed
<1>2. TypeOK'
  BY <1>1 DEF TypeOK
<1>3. NoTraceYet' /\ ArrivedAndWritten' /\ HeaderSoFar' /\ Inside'
  BY <1>1 DEF TypeOK, NoTraceYet, ArrivedAndWritten, HeaderSoFar, Inside
<1>4. Events'
  BY EventsKept DEF TypeOK
<1>5. EchoIsOwnID'
  <2>1. DOMAIN chain = depth[r] + 1 .. Len(chain)
    BY ChainIsSeq
  <2>2. w.id = IF \E i \in DOMAIN chain : chain[i] = "echo" THEN req[r].id
               ELSE None
    BY <2>1 DEF HeaderSoFar
  <2> QED
    BY <2>2 DEF TypeOK, EchoIsOwnID
<1>6. AllFit'
  BY DEF TypeOK, AllFit
<1> QED
  BY <1>2, <1>3, <1>4, <1>5, <1>6

\* The status of each error.
LEMMA ErrorStatuses ==
  /\ ErrorStatus("validation") = 400
  /\ ErrorStatus("both") = 400
  /\ ErrorStatus("notimplemented") = 501
  /\ ErrorStatus("other") = 500
  BY DEF ErrorStatus, IsNotImplemented

\* What each response of a Decider leaves on the wire.
LEMMA EncodedBodies ==
  /\ Encoded("permit") = "permit"
  /\ Encoded("deny") = "deny"
  /\ Encoded("nil") = "null"
  /\ Encoded("unencodable") = "empty"
  BY DEF Encoded

\* The Decider has not been called: what r gets is an error of the mux or of
\* decodeRequest.
LEMMA RefusedInv ==
  ASSUME IInv, NEW r \in Requests, NoRoute(r) \/ Malformed(r) PROVE IInv'
<1>1. verdict' = [verdict EXCEPT ![r] = None]
  <2>1. pc[r] = "in" /\ verdict' = verdict
    BY DEF NoRoute, Malformed, AtMux
  <2> QED
    BY <2>1 DEF IInv, TypeOK, NoTraceYet, Written
<1>2. /\ depth[r] = 0
      /\ req[r].route # "endpoint" \/ ~req[r].json
  BY DEF NoRoute, Malformed, AtMux
<1>3. ASSUME NEW status \in {400, 404, 405}, Write(r, "in", status, "text")
      PROVE  IInv'
  <2> DEFINE w == [status |-> status, id |-> header[r], body |-> "text"]
  <2>1. w \in Committed
    BY DEF IInv, TypeOK, Committed
  <2>2. Commits(r, w, None)
    BY <1>1, <1>2, <1>3 DEF Write, Goto, Commits
  <2>3. Fits(req[r], None, w)
    <3>1. w.status # 200 /\ w.status # 501 /\ w.status # 500
      OBVIOUS
    <3>2. None \notin Responses /\ None \notin DeciderErrors /\ w.body = "text"
      BY NilAssumption
    <3> HIDE DEF w
    <3> QED
      BY <1>2, <3>1, <3>2 DEF Fits, Responses, DeciderErrors
  <2> HIDE DEF w
  <2> QED
    BY <2>1, <2>2, <2>3, CommitInv
<1>4. CASE NoRoute(r)
  BY <1>3, <1>4 DEF NoRoute
<1>5. CASE Malformed(r)
  BY <1>3, <1>5, ErrorStatuses DEF Malformed
<1> QED
  BY <1>4, <1>5

\* The Decider returns.
LEMMA DecideInv ==
  ASSUME IInv, NEW r \in Requests, NEW v \in Responses \cup DeciderErrors,
         Decide(r, v)
  PROVE  IInv'
<1>1. pc[r] = "decide" /\ verdict' = [verdict EXCEPT ![r] = v]
  BY DEF Decide, Write, Goto
<1>2. /\ depth[r] = 0 /\ v # None
      /\ ~(req[r].route # "endpoint" \/ ~req[r].json)
  BY <1>1, NilAssumption DEF IInv, Inside
<1>3. ASSUME NEW status \in {200, 400, 500, 501},
             NEW body \in {"permit", "deny", "null", "empty", "text"},
             Write(r, "decide", status, body),
             status = 200 <=> v \in Responses,
             status = 501 <=> v = "notimplemented",
             status = 500 <=> v = "other",
             body \in {"permit", "deny"} <=> v \in {"permit", "deny"}
      PROVE  IInv'
  <2> DEFINE w == [status |-> status, id |-> header[r], body |-> body]
  <2>1. w \in Committed
    BY DEF IInv, TypeOK, Committed
  <2>2. Commits(r, w, v)
    BY <1>1, <1>2, <1>3 DEF Write, Goto, Commits
  <2>3. Fits(req[r], v, w)
    BY <1>2, <1>3, ZenonT(40) DEF Fits
  <2> HIDE DEF w
  <2> QED
    BY <2>1, <2>2, <2>3, CommitInv
<1>4. CASE v \in Responses /\ Write(r, "decide", 200, Encoded(v))
  BY <1>3, <1>4, EncodedBodies DEF Responses
<1>5. CASE v \in DeciderErrors /\ Write(r, "decide", ErrorStatus(v), "text")
  BY <1>3, <1>5, ErrorStatuses DEF Responses, DeciderErrors
<1> QED
  BY <1>4, <1>5 DEF Decide

\* The Decider is called, panics, or the handler returns to net/http.
LEMMA PassInv ==
  ASSUME IInv, NEW r \in Requests, CallDecider(r) \/ Panic(r) \/ Finish(r)
  PROVE  IInv'
<1> USE DEF IInv, CallDecider, Panic, Finish, AtMux, Goto, Written
<1>1. TypeOK'
  BY DEF TypeOK
<1>2. NoTraceYet' /\ ArrivedAndWritten'
  BY DEF TypeOK, NoTraceYet, ArrivedAndWritten
<1>3. HeaderSoFar'
  BY ZenonT(40) DEF TypeOK, HeaderSoFar
<1>4. Inside'
  <2>1. /\ UNCHANGED <<depth, req, chain>>
        /\ \A s \in Requests : s # r => pc'[s] = pc[s]
    BY DEF TypeOK
  <2>2. pc'[r] = "decide" => /\ depth[r] = 0
                             /\ req[r].route = "endpoint" /\ req[r].json
    BY DEF TypeOK
  <2>3. pc'[r] = "done" => depth[r] = Len(chain)
    BY DEF TypeOK
  <2> HIDE DEF CallDecider, Panic, Finish
  <2> QED
    BY <2>1, <2>2, <2>3 DEF Inside
<1>5. Events'
  BY EventsKept DEF TypeOK
<1>6. EchoIsOwnID' /\ AllFit'
  BY DEF EchoIsOwnID, AllFit
<1> QED
  BY <1>1, <1>2, <1>3, <1>4, <1>5, <1>6

\* A layer is left: an observer adds the one event this layer has for r.
LEMMA LeaveInv == ASSUME IInv, NEW r \in Requests, Leave(r) PROVE IInv'
<1> USE DEF IInv, Leave, Written
<1> DEFINE i == depth[r] + 1
           e == [layer |-> i, request |-> r, status |-> recorded[r]]
<1>1. i \in 1..Len(chain) /\ depth'[r] = i /\ e \in Event
  BY ChainIsSeq DEF TypeOK, Event
<1>2. TypeOK'
  BY <1>1, ChainIsSeq DEF TypeOK
<1>3. NoTraceYet' /\ ArrivedAndWritten' /\ HeaderSoFar' /\ Inside'
  BY ChainIsSeq DEF TypeOK, NoTraceYet, ArrivedAndWritten, HeaderSoFar, Inside
<1>4. Events'
  <2>1. /\ depth[r] \in Nat /\ UNCHANGED <<chain, pc, recorded>>
        /\ \A s \in Requests : s # r => depth'[s] = depth[s]
    BY ChainIsSeq DEF TypeOK
  <2>2. \A s \in Requests : depth[s] \in Nat /\ depth'[s] >= depth[s]
    BY <1>1, <2>1, ChainIsSeq DEF TypeOK
  <2>3. \A s \in Requests : \A j \in 1..depth'[s] :
          j \in 1..depth[s] \/ (s = r /\ j = i)
    BY <1>1, <2>1, <2>2
  <2>4. \A n \in DOMAIN events : events[n] \in Event
    BY DEF TypeOK
  <2>5. ASSUME NEW n \in DOMAIN events
        PROVE  /\ Written(events[n].request)'
               /\ events[n].layer \in 1..depth'[events[n].request]
               /\ events[n].status = recorded'[events[n].request]
               /\ ~(events[n].request = r /\ events[n].layer = i)
    <3>1. events[n].request \in Requests
      BY EventTypes
    <3>2. /\ Written(events[n].request)
          /\ events[n].layer \in 1..depth[events[n].request]
          /\ events[n].status = recorded[events[n].request]
      BY DEF Events, CallsAreTrue
    <3> QED
      BY <1>1, <2>1, <2>2, <3>1, <3>2
  <2>6. CASE chain[i] = "echo"
    <3>1. UNCHANGED events
      BY <1>1, <2>6
    <3>2. CallsAreTrue' /\ CallsAreSingle'
      BY <2>5, <3>1 DEF Events, CallsAreTrue, CallsAreSingle
    <3>3. NoCallIsMissed'
      BY <2>1, <2>3, <2>6, <3>1 DEF Events, NoCallIsMissed
    <3> QED
      BY <3>2, <3>3 DEF Events
  <2>7. CASE chain[i] # "echo"
    <3> DEFINE k == Len(events) + 1
    <3>1. events' = Append(events, e)
      BY <1>1, <2>7
    <3>2. /\ DOMAIN events' = DOMAIN events \cup {k} /\ k \notin DOMAIN events
          /\ \A n \in DOMAIN events : events'[n] = events[n]
          /\ events'[k] = e
      BY <3>1 DEF TypeOK
    <3> HIDE DEF k
    <3>3. /\ Written(e.request)' /\ e.layer \in 1..depth'[e.request]
          /\ e.status = recorded'[e.request]
      BY <1>1, <2>1
    <3>4. CallsAreTrue'
      BY <2>5, <3>2, <3>3 DEF CallsAreTrue
    <3>5. CallsAreSingle'
      BY <2>5, <3>2 DEF Events, CallsAreSingle
    <3>6. NoCallIsMissed'
      BY <2>1, <2>3, <3>2 DEF Events, NoCallIsMissed
    <3> QED
      BY <3>4, <3>5, <3>6 DEF Events
  <2> QED
    BY <2>6, <2>7
<1>5. EchoIsOwnID' /\ AllFit'
  BY DEF EchoIsOwnID, AllFit
<1> QED
  BY <1>2, <1>3, <1>4, <1>5

\* Every step preserves the inductive invariant.
LEMMA StepInv == ASSUME IInv, [Next]_vars PROVE IInv'
<1>1. ASSUME NEW r \in Requests, Serve(r) PROVE IInv'
  BY <1>1, EnterInv, RefusedInv, PassInv, LeaveInv DEF Serve
<1>2. ASSUME NEW r \in Requests, NEW q \in Request, Arrive(r, q) PROVE IInv'
  BY <1>2, ArriveInv
<1>3. ASSUME NEW r \in Requests, NEW v \in Responses \cup DeciderErrors,
             Decide(r, v)
      PROVE  IInv'
  BY <1>3, DecideInv
<1>4. ASSUME NEW r \in Requests, Panic(r) PROVE IInv'
  BY <1>4, PassInv
<1>5. CASE UNCHANGED vars
  <2>1. TypeOK'
    BY <1>5 DEF vars, IInv, TypeOK
  <2>2. NoTraceYet' /\ ArrivedAndWritten' /\ HeaderSoFar' /\ Inside'
    BY <1>5 DEF vars, IInv, NoTraceYet, ArrivedAndWritten, HeaderSoFar, Inside,
                Written
  <2>3. Events'
    BY <1>5, EventsKept DEF vars, IInv, Written
  <2>4. EchoIsOwnID' /\ AllFit'
    BY <1>5 DEF vars, IInv, EchoIsOwnID, AllFit
  <2> QED
    BY <2>1, <2>2, <2>3, <2>4 DEF IInv
<1> QED
  BY <1>1, <1>2, <1>3, <1>4, <1>5 DEF Next

\* The inductive invariant holds throughout.
LEMMA Invariant == Spec => []IInv
<1>1. IInv /\ [Next]_vars => IInv'
  BY StepInv
<1> QED
  BY InitInv, <1>1, PTL DEF Spec
----------------------------------------------------------------------------
\* A hook of the layer and request of one call is that call alone.
LEMMA AtMostOneCall ==
  ASSUME IInv, NEW i, NEW r
  PROVE  IsFiniteSet(Calls(i, r)) /\ Cardinality(Calls(i, r)) <= 1
<1>1. CASE Calls(i, r) = {}
  BY <1>1, FS_EmptySet
<1>2. CASE Calls(i, r) # {}
  <2>1. PICK n \in Calls(i, r) : TRUE
    BY <1>2
  <2>2. ASSUME NEW m \in Calls(i, r) PROVE m = n
    <3>1. /\ m \in DOMAIN events /\ n \in DOMAIN events
          /\ events[m].layer = events[n].layer
          /\ events[m].request = events[n].request
      BY <2>1 DEF Calls
    <3> QED
      BY <3>1 DEF IInv, Events, CallsAreSingle
  <2>3. Calls(i, r) = {n}
    BY <2>1, <2>2
  <2> QED
    <3>1. IsFiniteSet({n}) /\ Cardinality({n}) = 1
      BY FS_Singleton
    <3> QED
      BY <2>3, <3>1
<1> QED
  BY <1>1, <1>2

\* Every variable of the handler keeps to its values.
THEOREM HandlerTypeCorrect == Spec => []TypeOK
<1>1. IInv => TypeOK
  BY DEF IInv
<1> QED
  BY Invariant, <1>1, PTL

\* Through any number of observers, the hooks of server.WithLogger and
\* server.WithMetrics report the status on the wire, after it is there, once
\* per layer and served request, and never for one that panicked.
THEOREM HandlerHooksSeeTheWire == Spec => []HooksSeeTheWire
<1>1. IInv => HooksSeeTheWire
  <2> SUFFICES ASSUME IInv PROVE HooksSeeTheWire
    OBVIOUS
  <2>1. ASSUME NEW n \in DOMAIN events
        PROVE  /\ wire[events[n].request] # None
               /\ events[n].status = wire[events[n].request].status
    <3>1. events[n].request \in Requests /\ Written(events[n].request)
          /\ events[n].status = recorded[events[n].request]
      BY EventTypes DEF IInv, Events, CallsAreTrue
    <3> QED
      BY <3>1, NilAssumption DEF IInv, ArrivedAndWritten
  <2>2. ASSUME NEW r \in Requests, NEW i \in DOMAIN chain
        PROVE  /\ Cardinality(Calls(i, r)) <= 1
               /\ pc[r] = "done" /\ chain[i] # "echo" => Calls(i, r) # {}
               /\ pc[r] = "aborted" => Calls(i, r) = {}
    <3>1. Cardinality(Calls(i, r)) <= 1
      BY AtMostOneCall
    <3>2. ASSUME pc[r] = "done", chain[i] # "echo" PROVE Calls(i, r) # {}
      <4>1. i \in 1..depth[r]
        BY <3>2, ChainIsSeq DEF IInv, Inside
      <4>2. \E n \in DOMAIN events : events[n].layer = i
                                     /\ events[n].request = r
        BY <3>2, <4>1 DEF IInv, Events, NoCallIsMissed, Written
      <4> QED
        BY <4>2 DEF Calls
    <3>3. ASSUME pc[r] = "aborted" PROVE Calls(i, r) = {}
      BY <3>3 DEF IInv, Events, CallsAreTrue, Written, Calls
    <3> QED
      BY <3>1, <3>2, <3>3
  <2> QED
    BY <2>1, <2>2 DEF HooksSeeTheWire
<1> QED
  BY Invariant, <1>1, PTL

\* The ID that server.WithRequestIDEcho puts on a response is its request's,
\* in whatever position and number the option is given.
THEOREM HandlerEchoIsOwnID == Spec => []EchoIsOwnID
<1>1. IInv => EchoIsOwnID
  BY DEF IInv
<1> QED
  BY Invariant, <1>1, PTL

\* The status on the wire tells what the mux, decodeRequest and the Decider
\* did with the request.
THEOREM HandlerStatusTells == Spec => []StatusTellsWhatHappened
<1>1. IInv => StatusTellsWhatHappened
  BY Zenon DEF IInv, AllFit, Fits, StatusTellsWhatHappened
<1> QED
  BY Invariant, <1>1, PTL
=============================================================================
