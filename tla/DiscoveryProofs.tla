--------------------------- MODULE DiscoveryProofs ---------------------------
(***************************************************************************)
(* Proofs about Discovery: what a PEP holds and what it is answered are    *)
(* true of the process they came from, whichever processes were started,   *)
(* ended and replaced meanwhile.                                           *)
(***************************************************************************)
EXTENDS Discovery, PdpProcessProofs

GetMetadata == [endpoint |-> "metadata", method |-> "GET", fields |-> {}]

\* One call at a time, and its result is due only while it is a fetch.
OneCall ==
  /\ asked \subseteq {Pep}
  /\ result = [c \in {Pep} |-> result[c]]
  /\ Pep \in asked => result[Pep] = None /\ call = None
  /\ call # None => call \in Endpoints /\ result[Pep] # None

\* The PEP's connection is that of its call, and carries the call's request.
Sent ==
  /\ conns[Pep].phase # "none" => Pep \in asked \/ call # None
  /\ conns[Pep].phase # "open" => conns[Pep].request = None
  /\ conns[Pep].phase = "open" =>
       LET q == conns[Pep].request
       IN  /\ Pep \in asked => q = GetMetadata
           /\ call # None => /\ q.endpoint = call /\ q.method = "POST"
                             /\ Validate(call, q.fields) = {}

\* What the PEP's call may be answered by a process started as d.
Status(r) == IF r = "answer" THEN 200 ELSE ErrorStatus(r)
Said(method) == (method.real \cup {method.zero}) \ {"panic"}

\* The answer is one of the process that gave it.
Answered ==
  conns[Pep].phase = "answered" =>
    LET a == conns[Pep].answer
    IN  /\ a.by \in 1..Len(deployed)
        /\ Pep \in asked => /\ a.status = 200
                            /\ a.body = Marshalled(Document(deployed[a.by]))
        /\ call # None => \E r \in Said(deployed[a.by].decider[call]) :
                            a.status = Status(r)

\* A document that was accepted: that of the process it names, which to a
\* strict Client is where the Client looked for it.
Accepted(doc) ==
  /\ doc = [version |-> doc.version, metadata |-> doc.metadata]
  /\ doc.version \in 1..Len(deployed)
  /\ doc.metadata = Document(deployed[doc.version])
  /\ client.metaRelaxedMixUp
     \/ TrimRight(client.baseURL) = TrimRight(doc.metadata.policyDecisionPoint)

Held ==
  /\ \A e \in live : /\ e = [doc |-> e.doc, expires |-> now + client.metaDefaultTTL]
                     /\ Accepted(e.doc)
  /\ result[Pep] # None /\ result[Pep].doc # None => Accepted(result[Pep].doc)

PepInv == OneCall /\ Sent /\ Answered /\ Held

IInv == ProcessInv /\ PepInv
----------------------------------------------------------------------------
\* Validate accepts no search that is open-ended.
LEMMA ValidSearchIsPinned ==
  ASSUME NEW kind \in Searches, NEW fields, Validate(kind, fields) = {}
  PROVE  /\ Pinned(kind, fields)
         /\ {"subject.type", "resource.type"} \subseteq fields
<1> DEFINE missing == {i \in DOMAIN Required[kind] : Required[kind][i] \notin fields}
<1>1. DOMAIN Required[kind] = 1..4
  BY SMT DEF Required, Searches
<1>2. missing = {}
  <2>1. ~\E i \in missing : \A k \in missing : i <= k
    BY DEF Validate
  <2>2. missing \subseteq 1..4
    BY <1>1
  <2> HIDE DEF missing
  <2>3. 1 \notin missing
    BY <2>1, <2>2, SMT
  <2>4. 2 \notin missing
    BY <2>1, <2>2, <2>3, SMT
  <2>5. 3 \notin missing
    BY <2>1, <2>2, <2>3, <2>4, SMT
  <2>6. 4 \notin missing
    BY <2>1, <2>2, <2>3, <2>4, <2>5, SMT
  <2> QED
    BY <2>2, <2>3, <2>4, <2>5, <2>6, SMT
<1>3. /\ Required[kind][1] \in fields /\ Required[kind][2] \in fields
      /\ Required[kind][3] \in fields /\ Required[kind][4] \in fields
  BY <1>1, <1>2, SMT
<1>4. CASE kind = "searchSubject"
  BY <1>3, <1>4, SMT DEF Required, Pinned, Pivot, Identity
<1>5. CASE kind = "searchResource"
  BY <1>3, <1>5, SMT DEF Required, Pinned, Pivot, Identity
<1>6. CASE kind = "searchAction"
  BY <1>3, <1>6, SMT DEF Required, Pinned, Pivot, Identity
<1> QED
  BY <1>4, <1>5, <1>6 DEF Searches

\* The document's fields.
LEMMA DocumentFields ==
  ASSUME NEW d
  PROVE  /\ Document(d).policyDecisionPoint =
              IF d.options.claim # None THEN d.options.claim ELSE publicURL(d)
         /\ Document(d).signedMetadata = d.options.signed
         /\ \A e \in Endpoints \ d.options.written :
              Document(d).endpoints[e] =
                Probed(TrimRight(publicURL(d)), d.decider, e)
  BY SMT DEF Document, BuildMetadata

\* What was accepted stays so when processes are started.
LEMMA AcceptedStays ==
  ASSUME NEW doc, Accepted(doc), client' = client,
         Len(deployed) \in Nat, Len(deployed') \in Nat,
         Len(deployed) <= Len(deployed'),
         \A i \in 1..Len(deployed) : deployed'[i] = deployed[i]
  PROVE  Accepted(doc)'
  BY SMT DEF Accepted

\* Initially nobody holds or asks anything.
LEMMA Initially == Init => IInv
<1> SUFFICES ASSUME Init PROVE PepInv
  BY ProcessInvInitially DEF Init, IInv
<1>1. OneCall
  BY SMT DEF Init, OneCall, Service!Init
<1>2. conns[Pep] = Idle
  BY DiscoveryAssumption DEF Init, ProcessInit
<1>3. Sent /\ Answered
  BY <1>2, SMT DEF Sent, Answered, Idle
<1>4. Held
  BY SMT DEF Init, Held, Service!Init, Service!Idle
<1> QED
  BY <1>1, <1>3, <1>4 DEF PepInv

\* What the processes, the others and the network do to the PEP: processes
\* start, and its request is answered by the handler it reached, or its
\* connection breaks, or what came of it is lost.
Grown == /\ Len(deployed') \in Nat /\ Len(deployed) <= Len(deployed')
         /\ \A i \in 1..Len(deployed) : deployed'[i] = deployed[i]

PepAnswered ==
  /\ conns[Pep].phase = "open" /\ main # "off" /\ deployed' = deployed
  /\ \E a \in Answers(conns[Pep].request) :
       conns'[Pep] = [Idle EXCEPT !.phase = "answered",
                                  !.answer = [status |-> a.status, body |-> a.body,
                                              by |-> Len(deployed)]]

PepSees == /\ Grown
           /\ \/ conns'[Pep] = conns[Pep]
              \/ /\ conns[Pep].phase # "none"
                 /\ conns'[Pep].phase \in {"reset", "aborted", "lost"}
                 /\ conns'[Pep].request = None
              \/ PepAnswered

LEMMA OthersSeen ==
  ASSUME IInv, ProcessStep \/ OthersAsk \/ NetworkLoses \/ UNCHANGED vars
  PROVE  PepSees
<1>0. \A k : \A c \in Clients :
        conns' = [conns EXCEPT ![c] = k] =>
          conns'[Pep] = IF c = Pep THEN k ELSE conns[Pep]
  BY DiscoveryAssumption, SMT DEF IInv, ProcessInv, Types
<1>1. CASE UNCHANGED processVars
  BY <1>1, SMT DEF processVars, IInv, ProcessInv, Types, PepSees, Grown
<1>2. CASE \E d \in Deployments : Start(d)
  BY <1>2, SMT DEF Start, IInv, ProcessInv, Types, PepSees, Grown
<1>3. CASE deployed' = deployed /\ conns' = conns
  BY <1>3, SMT DEF IInv, ProcessInv, Types, PepSees, Grown
<1>4. CASE \E code : Exit(code)
  <2>1. deployed' = deployed
    BY <1>4 DEF Exit
  <2>2. conns'[Pep] = IF Pep \in Open
                      THEN [Idle EXCEPT !.phase = "reset",
                                        !.answer = [by |-> Len(deployed)]]
                      ELSE conns[Pep]
    BY <1>4, DiscoveryAssumption, Zenon DEF Exit
  <2> QED
    BY <2>1, <2>2, SMT DEF Open, Idle, IInv, ProcessInv, Types, PepSees, Grown
<1>5. CASE \E c \in Clients : Reply(c) \/ Abort(c)
  <2> PICK c \in Clients : Reply(c) \/ Abort(c)
    BY <1>5
  <2>0. deployed' = deployed
    BY Zenon DEF Reply, Abort
  <2>1. Grown
    BY <2>0, SMT DEF IInv, ProcessInv, Types, Grown
  <2>2. CASE c # Pep
    <3>1. \E k : conns' = [conns EXCEPT ![c] = k]
      BY Zenon DEF Reply, Abort
    <3>2. conns'[Pep] = conns[Pep]
      BY <3>1, <2>2, <1>0
    <3> QED
      BY <2>1, <3>2 DEF PepSees
  <2>3. CASE c = Pep /\ Reply(c)
    <3>1. conns[Pep].phase = "open" /\ main # "off"
      BY <2>3, Zenon DEF Reply, Open
    <3>2. PICK a \in Answers(conns[Pep].request) :
            conns' = [conns EXCEPT ![Pep] =
                        [Idle EXCEPT !.phase = "answered",
                                     !.answer = [status |-> a.status, body |-> a.body,
                                                 by |-> Len(deployed)]]]
      BY <2>3 DEF Reply
    <3>3. PepAnswered
      BY <3>1, <3>2, <1>0, <2>0, DiscoveryAssumption, ZenonT(40) DEF PepAnswered
    <3> QED
      BY <2>1, <3>3 DEF PepSees
  <2>4. CASE c = Pep /\ Abort(c)
    <3>1. /\ conns[Pep].phase = "open"
          /\ conns'[Pep] = [Idle EXCEPT !.phase = "aborted"]
      BY <2>4, DiscoveryAssumption, SMT DEF Abort, Open, IInv, ProcessInv, Types
    <3> QED
      BY <2>1, <3>1, SMT DEF PepSees, Idle
  <2> QED
    BY <2>2, <2>3, <2>4
<1>6. CASE OthersAsk
  <2> PICK c \in Clients \ {Pep} : (\E q \in Requests : Connect(c, q)) \/ Hangup(c)
    BY <1>6 DEF OthersAsk
  <2>1. deployed' = deployed /\ \E k : conns' = [conns EXCEPT ![c] = k]
    BY Zenon DEF Connect, Hangup
  <2>2. conns'[Pep] = conns[Pep]
    BY <2>1, <1>0
  <2> QED
    BY <2>1, <2>2, SMT DEF IInv, ProcessInv, Types, PepSees, Grown
<1>8. CASE NetworkLoses
  <2>1. /\ conns[Pep].phase \in {"answered", "reset", "aborted"}
        /\ conns'[Pep] = [Idle EXCEPT !.phase = "lost"]
        /\ deployed' = deployed
    BY <1>0, <1>8, DiscoveryAssumption DEF NetworkLoses, Lose
  <2> QED
    BY <2>1, SMT DEF Idle, IInv, ProcessInv, Types, PepSees, Grown
<1>7. Setup \/ Bind \/ AcceptFails \/ Signal \/ Kill \/ MainReturns
        => (deployed' = deployed /\ conns' = conns) \/ \E code : Exit(code)
  BY Zenon DEF Setup, Bind, AcceptFails, ServerReturns, Signal, Kill, MainReturns,
     ServerStops, Interrupted, Drained, GraceEnds
<1> QED
  BY <1>1, <1>2, <1>3, <1>4, <1>5, <1>6, <1>7, <1>8 DEF ProcessStep, ProcessNext, vars

\* The PEP's request reaches the handler of its endpoint, which answers it as
\* the process that runs does.
LEMMA PepAnswerIsOfItsProcess ==
  ASSUME IInv, PepAnswered, UNCHANGED <<asked, call, deployed>>
  PROVE  Sent' /\ Answered'
<1>1. PICK a \in Answers(conns[Pep].request) :
        conns'[Pep] = [Idle EXCEPT !.phase = "answered",
                                   !.answer = [status |-> a.status, body |-> a.body,
                                               by |-> Len(deployed)]]
  BY DEF PepAnswered
<1>2. /\ conns'[Pep].phase = "answered" /\ conns'[Pep].request = None
      /\ conns'[Pep].answer.status = a.status /\ conns'[Pep].answer.body = a.body
      /\ conns'[Pep].answer.by = Len(deployed)
  BY <1>1, SMT DEF Idle
<1>3. /\ conns[Pep].phase = "open" /\ main \in {"select", "shutdown"}
      /\ metadata = Document(Current)
      /\ Len(deployed) \in 1..Len(deployed)
  BY DiscoveryAssumption, SMT DEF PepAnswered, IInv, ProcessInv, Types, Serving, Open
<1>4. Sent'
  BY <1>2, <1>3, SMT DEF IInv, PepInv, Sent
<1>5. ASSUME Pep \in asked
      PROVE  a = [status |-> 200, body |-> Marshalled(Document(Current))]
  <2>1. conns[Pep].request = GetMetadata
    BY <1>3, <1>5 DEF IInv, PepInv, Sent
  <2> QED
    BY <1>3, <2>1, SMT DEF Answers, MetadataAnswer, GetMetadata
<1>6. ASSUME call # None
      PROVE  \E r \in Said(Current.decider[call]) : a.status = Status(r)
  <2> DEFINE q == conns[Pep].request
  <2>1. q.endpoint = call /\ q.method = "POST" /\ call \in Endpoints
    BY <1>3, <1>6 DEF IInv, PepInv, Sent, OneCall
  <2>2. q.endpoint # "metadata"
    BY <2>1 DEF Endpoints, Optional
  <2>3. PICK r \in DeciderReplies(q) \ {"panic"} :
          a = [status |-> IF r = "answer" THEN 200 ELSE ErrorStatus(r), body |-> None]
    BY <2>1, <2>2, Zenon DEF Answers
  <2>4. r \in Said(Current.decider[call])
    BY <2>1, <2>3 DEF DeciderReplies, Said
  <2>5. a.status = Status(r)
    BY <2>3, SMT DEF Status
  <2> QED
    BY <2>4, <2>5
<1>7. Answered'
  <2>1. deployed'[Len(deployed)] = Current
    BY DEF Current
  <2>2. CASE Pep \in asked
    <3>1. call = None
      BY <2>2 DEF IInv, PepInv, OneCall
    <3> QED
      BY <1>2, <1>3, <1>5, <2>1, <2>2, <3>1, SMT DEF Answered
  <2>3. CASE Pep \notin asked
    BY <1>2, <1>3, <1>6, <2>1, <2>3, Zenon DEF Answered
  <2> QED
    BY <2>2, <2>3
<1> QED
  BY <1>4, <1>7

\* What the others do keeps what holds of the PEP.
LEMMA OthersKeep ==
  ASSUME IInv, PepSees, UNCHANGED pepVars
  PROVE  PepInv'
<1>1. OneCall'
  BY SMT DEF IInv, PepInv, OneCall, pepVars
<1>2. Sent' /\ Answered'
  <2>1. CASE conns'[Pep] = conns[Pep]
    <3>1. Sent'
      BY <2>1, SMT DEF IInv, PepInv, Sent, pepVars
    <3>2. Answered'
      <4>1. SUFFICES ASSUME conns[Pep].phase = "answered" PROVE Answered'
        BY <2>1 DEF Answered
      <4> DEFINE by == conns[Pep].answer.by
      <4>2. by \in 1..Len(deployed) /\ by \in 1..Len(deployed')
            /\ deployed'[by] = deployed[by]
        BY <4>1, SMT DEF IInv, PepInv, Answered, PepSees, Grown, ProcessInv, Types
      <4> QED
        BY <2>1, <4>1, <4>2 DEF IInv, PepInv, Answered, pepVars
    <3> QED
      BY <3>1, <3>2
  <2>2. CASE /\ conns[Pep].phase # "none"
             /\ conns'[Pep].phase \in {"reset", "aborted", "lost"}
             /\ conns'[Pep].request = None
    BY <2>2, SMT DEF IInv, PepInv, Sent, Answered, pepVars
  <2>3. CASE PepAnswered
    BY <2>3, PepAnswerIsOfItsProcess DEF pepVars, PepAnswered
  <2> QED
    BY <2>1, <2>2, <2>3 DEF PepSees
<1>3. Held'
  <2>1. \A doc : Accepted(doc) => Accepted(doc)'
    BY AcceptedStays DEF PepSees, Grown, IInv, ProcessInv, Types, pepVars
  <2> QED
    BY <2>1 DEF IInv, PepInv, Held, pepVars
<1> QED
  BY <1>1, <1>2, <1>3 DEF PepInv

\* What a step of the PEP does to its connection, and that it does nothing to
\* the processes and the Client.
PepConnects(k) == /\ conns[Pep].phase = "none" /\ conns'[Pep] = k
PepStill == conns'[Pep] = conns[Pep]
PepHangsUp == /\ conns[Pep].phase \in {"answered", "reset", "aborted", "lost"}
              /\ conns'[Pep] = Idle

LEMMA PepConnection ==
  ASSUME IInv
  PROVE  /\ UNCHANGED processVars => PepStill /\ deployed' = deployed
         /\ Hangup(Pep) => PepHangsUp /\ deployed' = deployed
         /\ \A q : Connect(Pep, q) =>
              /\ PepConnects([Idle EXCEPT !.phase = "open", !.request = q])
              /\ deployed' = deployed
<1>1. \A k : conns' = [conns EXCEPT ![Pep] = k] => conns'[Pep] = k
  BY DiscoveryAssumption, SMT DEF IInv, ProcessInv, Types
<1>2. UNCHANGED processVars => PepStill /\ deployed' = deployed
  BY DEF processVars, PepStill
<1>3. Hangup(Pep) => PepHangsUp /\ deployed' = deployed
  BY <1>1 DEF Hangup, PepHangsUp
<1>4. ASSUME NEW q, Connect(Pep, q)
      PROVE  /\ PepConnects([Idle EXCEPT !.phase = "open", !.request = q])
             /\ deployed' = deployed
  BY <1>1, <1>4 DEF Connect, PepConnects
<1> QED
  BY <1>2, <1>3, <1>4

\* What a step of the PEP does to the result of its call.
LEMMA PepResult ==
  ASSUME OneCall, NEW k, result' = [result EXCEPT ![Pep] = k]
  PROVE  result'[Pep] = k /\ result' = [c \in {Pep} |-> result'[c]]
<1> DEFINE callers == {Pep}
<1>1. result = [c \in callers |-> result[c]] /\ Pep \in callers
  BY DEF OneCall
<1> HIDE DEF callers
<1>2. result'[Pep] = k /\ result' = [c \in callers |-> result'[c]]
  BY <1>1, SMT
<1> QED
  BY <1>2 DEF callers

\* What fetchMetadataRaw finds in a process's answer to its GET.
LEMMA FetchVerdict ==
  ASSUME Answered, ProcessInv, Pep \in asked, conns[Pep].phase = "answered"
  PROVE  LET a == conns[Pep].answer
             d == deployed[a.by]
         IN  /\ d \in Deployments /\ a.by \in 1..Len(deployed)
             /\ FetchError(a) = None <=>
                  /\ d.options.signed # "compact"
                  /\ \/ client.metaRelaxedMixUp
                     \/ TrimRight(client.baseURL) =
                          TrimRight(Document(d).policyDecisionPoint)
             /\ d.options.signed # "compact" => a.body = Document(d)
<1> DEFINE a == conns[Pep].answer
           d == deployed[a.by]
<1>1. a.by \in 1..Len(deployed) /\ d \in Deployments
  BY SMT DEF Answered, ProcessInv, Types
<1>2. a.status = 200 /\ a.body = Marshalled(Document(d))
  BY DEF Answered
<1>3. /\ None # Document(d)
      /\ None # "status" /\ None # "decode" /\ None # "mixup"
  BY <1>1, NilAssumption, ResultsAssumption DEF FetchErrors
<1>4. a.status \in 200..299
  BY <1>2, SMT
<1>5. CASE d.options.signed = "compact"
  <2>1. a.body = None
    BY <1>2, <1>5, DocumentFields DEF Marshalled
  <2> QED
    BY <1>1, <1>3, <1>4, <1>5, <2>1 DEF FetchError
<1>6. CASE d.options.signed # "compact"
  <2>1. a.body = Document(d)
    BY <1>2, <1>6, DocumentFields DEF Marshalled
  <2>2. a.body # None
    BY <2>1, <1>3
  <2> QED
    BY <1>1, <1>3, <1>4, <1>6, <2>1, <2>2 DEF FetchError
<1> QED
  BY <1>5, <1>6

LEMMA AcceptedOnlyIfTrue ==
  ASSUME IInv, Pep \in asked, conns[Pep].phase = "answered",
         FetchError(conns[Pep].answer) = None
  PROVE  Accepted([version |-> conns[Pep].answer.by,
                   metadata |-> conns[Pep].answer.body])
  BY FetchVerdict, SMT DEF Accepted, IInv, PepInv

\* The steps of a fetch.
LEMMA FetchKeeps ==
  ASSUME IInv, FetchBegins \/ FetchHits \/ FetchMisses \/ FetchSends
               \/ FetchReturns \/ FetchFails \/ EntryExpires
  PROVE  PepInv'
<1>a. \/ conns[Pep].phase = "none" /\ UNCHANGED processVars
      \/ Hangup(Pep)
      => conns'[Pep].phase = "none" /\ conns'[Pep].request = None /\ deployed' = deployed
  <2>1. Idle.phase = "none" /\ Idle.request = None
    BY DEF Idle
  <2>2. conns[Pep].phase = "none" => conns[Pep].request = None
    BY DEF IInv, PepInv, Sent
  <2> QED
    BY <2>1, <2>2, PepConnection DEF PepStill, PepHangsUp
<1> USE DEF IInv, PepInv
<1>0. \A doc : deployed' = deployed /\ client' = client =>
                 (Accepted(doc) <=> Accepted(doc)')
  BY DEF Accepted
<1>1. CASE FetchBegins
  <2>1. PepStill /\ deployed' = deployed /\ client' = client /\ call' = call
    BY <1>1, PepConnection DEF FetchBegins
  <2>2. /\ result[Pep] # None /\ call = None /\ result' = [result EXCEPT ![Pep] = None]
        /\ UNCHANGED <<now, live, asked>>
    BY <1>1 DEF FetchBegins, Service!Begin
  <2>3. OneCall'
    <3>1. result' = [c \in {Pep} |-> result'[c]]
      BY <2>2, PepResult
    <3>2. Pep \notin asked
      BY <2>2 DEF OneCall
    <3> QED
      BY <2>1, <2>2, <3>1, <3>2 DEF OneCall
  <2>4. Sent' /\ Answered'
    BY <2>1, <2>2, SMT DEF Sent, Answered, PepStill
  <2>5. result'[Pep] = None
    BY <2>2, SMT DEF OneCall
  <2>6. Held'
    BY <2>1, <2>2, <2>5, <1>0 DEF Held
  <2> QED
    BY <2>3, <2>4, <2>6
<1>2. CASE FetchHits
  <2>1. PepStill /\ deployed' = deployed /\ client' = client /\ call' = call
    BY <1>2, PepConnection DEF FetchHits
  <2>2. PICK e \in live : /\ result[Pep] = None /\ Pep \notin asked
                          /\ result' = [result EXCEPT ![Pep] = [doc |-> e.doc, err |-> None]]
                          /\ asked' = asked \ {Pep}
                          /\ live' = live /\ now' = now
    BY <1>2 DEF FetchHits, Service!ServeCached, Service!Return
  <2>3. OneCall' /\ asked' = asked /\ call = None
    <3>1. asked' = asked
      BY <2>2
    <3>2. call = None
      BY <2>2 DEF OneCall
    <3>3. result' = [c \in {Pep} |-> result'[c]]
      BY <2>2, PepResult
    <3> QED
      BY <2>1, <2>2, <3>1, <3>2, <3>3 DEF OneCall
  <2>4. Sent' /\ Answered'
    BY <2>1, <2>2, <2>3, SMT DEF Sent, Answered, PepStill
  <2>5. result'[Pep].doc = e.doc
    BY <2>2, SMT DEF OneCall
  <2>6. Held'
    BY <2>1, <2>2, <2>5, <1>0 DEF Held
  <2> QED
    BY <2>3, <2>4, <2>6
<1>3. CASE FetchMisses
  <2>1. PepStill /\ deployed' = deployed /\ client' = client /\ call' = call
    BY <1>3, PepConnection DEF FetchMisses
  <2>2. /\ result[Pep] = None /\ Pep \notin asked /\ asked' = asked \cup {Pep}
        /\ live' = {} /\ UNCHANGED <<now, result>>
    BY <1>3 DEF FetchMisses, Service!Ask
  <2>3. OneCall' /\ call = None
    BY <2>1, <2>2, SMT DEF OneCall
  <2>4. conns[Pep].phase = "none"
    BY <2>2, <2>3 DEF Sent
  <2>5. Sent' /\ Answered'
    BY <2>1, <2>4, SMT DEF Sent, Answered, PepStill
  <2>6. Held'
    BY <2>2, <2>3 DEF Held
  <2> QED
    BY <2>3, <2>5, <2>6
<1>4. CASE FetchSends
  <2>1. /\ PepConnects([Idle EXCEPT !.phase = "open", !.request = GetMetadata])
        /\ deployed' = deployed /\ Pep \in asked
        /\ UNCHANGED <<client, now, live, asked, result, call>>
    BY <1>4, PepConnection DEF FetchSends, GetMetadata, pepVars
  <2>2. OneCall' /\ call = None
    BY <2>1, SMT DEF OneCall
  <2>3. conns'[Pep].phase = "open" /\ conns'[Pep].request = GetMetadata
    BY <2>1, SMT DEF PepConnects, Idle
  <2>4. Sent' /\ Answered'
    BY <2>1, <2>2, <2>3, SMT DEF Sent, Answered
  <2>5. Held'
    BY <2>1, <1>0 DEF Held
  <2> QED
    BY <2>2, <2>4, <2>5
<1>5. CASE FetchReturns
  <2> DEFINE a == conns[Pep].answer
             doc == [version |-> a.by, metadata |-> a.body]
  <2>1. /\ Pep \in asked /\ conns[Pep].phase = "answered" /\ Hangup(Pep)
        /\ UNCHANGED <<client, call>>
    BY <1>5 DEF FetchReturns
  <2>2. conns'[Pep].phase = "none" /\ conns'[Pep].request = None /\ deployed' = deployed
    BY <1>a, <2>1
  <2>3. Sent' /\ Answered'
    BY <2>2, SMT DEF Sent, Answered
  <2>4. CASE FetchError(a) = None
    <3>1. /\ live' = {[doc |-> doc, expires |-> now + client.metaDefaultTTL]}
          /\ result'[Pep].doc = doc /\ now' = now /\ asked' = asked \ {Pep}
          /\ \E d : result' = [result EXCEPT ![Pep] = [doc |-> d, err |-> None]]
      BY <1>5, <2>4 DEF FetchReturns, Service!ServeFetched, Service!Return
    <3>2. result' = [c \in {Pep} |-> result'[c]]
      <4> PICK d : result' = [result EXCEPT ![Pep] = [doc |-> d, err |-> None]]
        BY <3>1
      <4> QED
        BY PepResult
    <3>3. OneCall'
      BY <2>1, <3>1, <3>2 DEF OneCall
    <3>4. Accepted(doc)
      BY <2>1, <2>4, AcceptedOnlyIfTrue DEF IInv, PepInv
    <3>5. Held'
      BY <2>1, <2>2, <3>1, <3>4, <1>0 DEF Held
    <3> QED
      BY <2>3, <3>3, <3>5
  <2>5. CASE FetchError(a) # None
    <3>1. /\ live' = live /\ now' = now /\ asked' = asked \ {Pep}
          /\ \E err : result' = [result EXCEPT ![Pep] = [doc |-> None, err |-> err]]
      BY <1>5, <2>5 DEF FetchReturns, Service!Fail, Service!Return
    <3>2. result'[Pep].doc = None /\ result' = [c \in {Pep} |-> result'[c]]
      <4> PICK err : result' = [result EXCEPT ![Pep] = [doc |-> None, err |-> err]]
        BY <3>1
      <4>1. result'[Pep] = [doc |-> None, err |-> err]
            /\ result' = [c \in {Pep} |-> result'[c]]
        BY PepResult
      <4> QED
        BY <4>1
    <3>3. OneCall'
      BY <2>1, <3>1, <3>2 DEF OneCall
    <3>4. Held'
      BY <2>1, <2>2, <3>1, <3>2, <1>0 DEF Held
    <3> QED
      BY <2>3, <3>3, <3>4
  <2> QED
    BY <2>4, <2>5
<1>6. CASE FetchFails
  <2>1. /\ Pep \in asked /\ live' = live /\ UNCHANGED <<client, call>>
        /\ Unanswered(Pep) /\ now' = now
        /\ asked' = asked \ {Pep}
        /\ \E err : result' = [result EXCEPT ![Pep] = [doc |-> None, err |-> err]]
    BY <1>6 DEF FetchFails, Service!Fail, Service!Return
  <2>2. deployed' = deployed /\ conns'[Pep].phase = "none" /\ conns'[Pep].request = None
    BY <1>a, <2>1 DEF Unanswered
  <2>3. OneCall' /\ result'[Pep].doc = None
    <3>1. result'[Pep].doc = None /\ result' = [c \in {Pep} |-> result'[c]]
      <4> PICK err : result' = [result EXCEPT ![Pep] = [doc |-> None, err |-> err]]
        BY <2>1
      <4>1. result'[Pep] = [doc |-> None, err |-> err]
            /\ result' = [c \in {Pep} |-> result'[c]]
        BY PepResult
      <4> QED
        BY <4>1
    <3> QED
      BY <2>1, <3>1 DEF OneCall
  <2>4. Sent' /\ Answered'
    BY <2>2, SMT DEF Sent, Answered
  <2>5. Held'
    BY <2>1, <2>2, <2>3, <1>0 DEF Held
  <2> QED
    BY <2>3, <2>4, <2>5
<1>7. CASE EntryExpires
  <2>1. /\ PepStill /\ deployed' = deployed /\ live' = {}
        /\ UNCHANGED <<client, now, asked, result, call>>
    BY <1>7, PepConnection DEF EntryExpires, Service!Forget
  <2>2. OneCall' /\ Sent' /\ Answered'
    BY <2>1, SMT DEF OneCall, Sent, Answered, PepStill
  <2>3. Held'
    BY <2>1, <1>0 DEF Held
  <2> QED
    BY <2>2, <2>3
<1> QED
  BY <1>1, <1>2, <1>3, <1>4, <1>5, <1>6, <1>7

\* The steps of a call.
LEMMA CallKeeps ==
  ASSUME IInv,
         \/ \E endpoint \in Endpoints, fields \in Shapes : CallBegins(endpoint, fields)
         \/ CallReturns \/ CallFails
  PROVE  PepInv'
<1>0. ASSUME deployed' = deployed, UNCHANGED <<client, now, live, result>>
      PROVE  Held'
  <2>1. \A doc : Accepted(doc) <=> Accepted(doc)'
    BY <1>0 DEF Accepted
  <2> QED
    BY <1>0, <2>1 DEF IInv, PepInv, Held
<1>1. CASE \E endpoint \in Endpoints, fields \in Shapes : CallBegins(endpoint, fields)
  <2> PICK endpoint \in Endpoints, fields \in Shapes : CallBegins(endpoint, fields)
    BY <1>1
  <2> DEFINE q == [endpoint |-> endpoint, method |-> "POST", fields |-> fields]
  <2>1. /\ call = None /\ result[Pep] # None /\ Validate(endpoint, fields) = {}
        /\ call' = endpoint /\ UNCHANGED <<client, now, live, asked, result>>
        /\ PepConnects([Idle EXCEPT !.phase = "open", !.request = q])
        /\ deployed' = deployed
    BY PepConnection DEF CallBegins
  <2>2. OneCall' /\ Pep \notin asked'
    BY <2>1 DEF IInv, PepInv, OneCall
  <2>3. /\ conns'[Pep].phase = "open" /\ conns'[Pep].request.endpoint = endpoint
        /\ conns'[Pep].request.method = "POST" /\ conns'[Pep].request.fields = fields
    BY <2>1, SMT DEF PepConnects, Idle
  <2>4. Sent'
    <3>1. call' # None \/ Pep \in asked'
      BY <2>1, ResultsAssumption
    <3> QED
      BY <2>1, <2>2, <2>3, <3>1 DEF Sent
  <2>5. Answered'
    BY <2>3 DEF Answered
  <2> QED
    BY <1>0, <2>1, <2>2, <2>4, <2>5 DEF PepInv
<1>2. CASE CallReturns \/ CallFails
  <2>1. /\ call # None /\ call' = None /\ Hangup(Pep)
        /\ UNCHANGED <<client, now, live, asked, result>>
    BY <1>2 DEF CallReturns, CallFails
  <2>2. PepHangsUp /\ deployed' = deployed
    BY <2>1, PepConnection
  <2>3. conns'[Pep].phase = "none" /\ conns'[Pep].request = None
    BY <2>2 DEF PepHangsUp, Idle
  <2>4. OneCall' /\ Sent' /\ Answered'
    BY <2>1, <2>3 DEF IInv, PepInv, OneCall, Sent, Answered
  <2> QED
    BY <1>0, <2>1, <2>2, <2>4 DEF PepInv
<1> QED
  BY <1>1, <1>2

\* Every step keeps the invariant.
LEMMA Step ==
  ASSUME IInv, [Next]_vars
  PROVE  IInv'
<1>1. ProcessInv'
  <2>1. ProcessNext \/ Connection \/ UNCHANGED processVars
    <3>1. CASE ProcessStep
      BY <3>1 DEF ProcessStep
    <3>2. CASE FetchBegins \/ FetchHits \/ FetchMisses \/ EntryExpires \/ UNCHANGED vars
      BY <3>2 DEF FetchBegins, FetchHits, FetchMisses, EntryExpires, vars
    <3>3. CASE FetchSends \/ (\E endpoint \in Endpoints, fields \in Shapes :
                                CallBegins(endpoint, fields))
      BY <3>3, DiscoveryAssumption DEF FetchSends, CallBegins, Connection
    <3>4. CASE FetchReturns \/ FetchFails \/ CallReturns \/ CallFails
      BY <3>4, DiscoveryAssumption
      DEF FetchReturns, FetchFails, Unanswered, CallReturns, CallFails, Connection
    <3>5. CASE OthersAsk
      BY <3>5 DEF OthersAsk, Connection
    <3>6. CASE NetworkLoses
      BY <3>6, DiscoveryAssumption DEF NetworkLoses, Connection
    <3> QED
      BY <3>1, <3>2, <3>3, <3>4, <3>5, <3>6 DEF Next
  <2> QED
    BY <2>1, ProcessInvStep DEF IInv
<1>2. PepInv'
  <2>1. CASE ProcessStep \/ OthersAsk \/ NetworkLoses \/ UNCHANGED vars
    <3>1. UNCHANGED pepVars
      BY <2>1 DEF ProcessStep, OthersAsk, NetworkLoses, vars
    <3> QED
      BY <2>1, <3>1, OthersSeen, OthersKeep
  <2> QED
    BY <2>1, FetchKeeps, CallKeeps DEF Next
<1> QED
  BY <1>1, <1>2 DEF IInv

LEMMA Invariance == Spec => []IInv
  BY Initially, Step, PTL DEF Spec
----------------------------------------------------------------------------
\* The types of Discovery, of which the deepest is that every document that is
\* cached or returned is that of a process the operator may have started.
THEOREM DiscoveryTypeCorrect == Spec => []TypeOK
<1>1. IInv => TypeOK
  <2> SUFFICES ASSUME IInv PROVE TypeOK
    OBVIOUS
  <2>1. \A doc : Accepted(doc) => doc \in Docs
    <3> SUFFICES ASSUME NEW doc, Accepted(doc) PROVE doc \in Docs
      OBVIOUS
    <3>1. doc.version \in 1..MaxStarts /\ deployed[doc.version] \in Deployments
      BY ProcessAssumption, SMT DEF IInv, ProcessInv, Types, Accepted
    <3>2. doc.metadata \in {Document(d) : d \in Deployments}
      BY <3>1 DEF Accepted
    <3> HIDE DEF Docs
    <3>3. [version |-> doc.version, metadata |-> doc.metadata] \in Docs
      BY <3>1, <3>2 DEF Docs
    <3> QED
      BY <3>3, Zenon DEF Accepted
  <2>2. live \subseteq [doc : Docs, expires : {now + client.metaDefaultTTL}]
    BY <2>1, SMT DEF IInv, PepInv, Held
  <2>3. main \in {"select", "shutdown"} => metadata # None
    BY NilAssumption, CurrentIsDeployed, SMT DEF IInv, ProcessInv, Serving
  <2>4. result[Pep] # None => result[Pep].doc \in Docs \cup {None}
    BY <2>1 DEF IInv, PepInv, Held
  <2>5. asked = {} \/ call = None
    BY DEF IInv, PepInv, OneCall
  <2> QED
    BY <2>2, <2>3, <2>4, <2>5 DEF IInv, ProcessInv, Types, Serving, TypeOK
<1> QED
  BY <1>1, Invariance, PTL

\* A process that says it ended well was told to end and left no request
\* unanswered: the other ends, of the listener, of the grace period and by a
\* signal, never leave the code 0.
THEOREM DiscoveryExitIsClean == Spec => []CleanExit
<1>1. IInv => CleanExit
  BY DEF IInv, ProcessInv
<1> QED
  BY <1>1, Invariance, PTL

\* The URLs a strict Client is told are those it calls, for every way of writing
\* the slashes at the end of the address and of the flag, but for those that
\* options of the PDP's program put there, and unless one of them also names
\* another policy_decision_point than the URLs were built from.
THEOREM DiscoveryURLsAreCalled == Spec => []AdvertisedWhereCalled
<1>1. IInv => AdvertisedWhereCalled
  <2> DEFINE held == result[Pep].doc
             d == deployed[held.version]
  <2> SUFFICES ASSUME IInv, ~client.metaRelaxedMixUp, result[Pep] # None,
                      held # None, d.options.claim = None,
                      NEW e \in Endpoints \ d.options.written
               PROVE  held.metadata.endpoints[e] \in {None, endpointURL(e)}
    BY DEF AdvertisedWhereCalled
  <2>1. /\ held.metadata = Document(d)
        /\ TrimRight(client.baseURL) = TrimRight(held.metadata.policyDecisionPoint)
    BY DEF IInv, PepInv, Held, Accepted
  <2>2. /\ held.metadata.policyDecisionPoint = publicURL(d)
        /\ held.metadata.endpoints[e] = Probed(TrimRight(publicURL(d)), d.decider, e)
    BY <2>1, DocumentFields
  <2> HIDE DEF held, d
  <2> QED
    BY <2>1, <2>2 DEF Probed, endpointURL
<1> QED
  BY <1>1, Invariance, PTL

\* No open-ended search of a Client reaches a Decider.
THEOREM DiscoverySearchIsPinned == Spec => []SearchIsPinned
<1>1. IInv => SearchIsPinned
  <2> SUFFICES ASSUME IInv, conns[Pep].request # None,
                      conns[Pep].request.endpoint \in Searches
               PROVE  LET q == conns[Pep].request
                      IN  /\ Pinned(q.endpoint, q.fields)
                          /\ {"subject.type", "resource.type"} \subseteq q.fields
    BY DEF SearchIsPinned
  <2> DEFINE q == conns[Pep].request
  <2>1. q # GetMetadata
    BY DEF GetMetadata, Searches
  <2>2. Validate(q.endpoint, q.fields) = {}
    BY <2>1 DEF IInv, PepInv, Sent
  <2> QED
    BY <2>2, ValidSearchIsPinned
<1> QED
  BY <1>1, Invariance, PTL

\* What the answer to a call says of the Decider it went to, if that Decider's
\* method tells the zero request what it tells the real ones.
LEMMA AlikeTells ==
  ASSUME NEW method, NEW r \in Said(method),
         \A real \in method.real :
           IsNotImplemented(real) = IsNotImplemented(method.zero)
  PROVE  IF IsNotImplemented(method.zero)
         THEN Status(r) = 501 \/ (r = "both" /\ Status(r) = 400)
         ELSE Status(r) # 501
<1>1. IsNotImplemented(r) = IsNotImplemented(method.zero)
  BY DEF Said
<1>2. CASE IsNotImplemented(method.zero)
  <2>1. r \in {"notimplemented", "both"}
    BY <1>1, <1>2 DEF IsNotImplemented
  <2> QED
    BY <1>2, <2>1, SMT DEF Status, ErrorStatus, IsNotImplemented
<1>3. CASE ~IsNotImplemented(method.zero)
  BY <1>1, <1>3, SMT DEF Status, ErrorStatus
<1> QED
  BY <1>2, <1>3

\* A PEP is surprised by what a document advertised only where the process has
\* been replaced, an option wrote the endpoint, or the Decider's method takes the
\* probe's zero request for another than a real one or hides the sentinel in a
\* ValidationError; however the process, the fetch and the call interleave.
THEOREM DiscoveryDocumentsAreTrue == Spec => AdvertisedIsImplemented
<1> DEFINE answer == conns[Pep].answer
           held == result[Pep].doc
           builder == deployed[held.version]
           method == builder.decider[call]
           advertised == held.metadata.endpoints[call] # None
           surprised == IF advertised
                        THEN answer.status = 501 /\ call # "evaluation"
                        ELSE answer.status # 501
           Moody == \E r \in method.real :
                      IsNotImplemented(r) # IsNotImplemented(method.zero)
           Hidden == /\ ~advertised /\ answer.status = 400
                     /\ "both" \in method.real \cup {method.zero}
           Cause == \/ answer.by # held.version
                    \/ call \in builder.options.written
                    \/ Moody
                    \/ Hidden
           Truth == /\ call # None /\ call' = None /\ conns[Pep].phase = "answered"
                    /\ held # None /\ surprised
                    => Cause
<1>1. IInv /\ [Next]_vars => [Truth]_vars
  <2> SUFFICES ASSUME IInv, call # None, conns[Pep].phase = "answered",
                      held # None, answer.by = held.version,
                      call \notin builder.options.written, ~Moody
               PROVE  surprised => Hidden
    OBVIOUS
  <2>1. /\ call \in Endpoints /\ held.metadata = Document(builder)
        /\ builder \in Deployments
    <3> HIDE DEF Moody, Hidden, method, answer, advertised, surprised
    <3>1. call \in Endpoints /\ result[Pep] # None
      BY DEF IInv, PepInv, OneCall
    <3>2. /\ held.version \in 1..Len(deployed)
          /\ held.metadata = Document(builder)
      BY <3>1 DEF IInv, PepInv, Held, Accepted
    <3>3. deployed \in Seq(Deployments)
      BY DEF IInv, ProcessInv, Types
    <3> HIDE DEF held
    <3> QED
      BY <3>1, <3>2, <3>3, SMT
  <2>2. PICK r \in Said(method) : answer.status = Status(r)
    BY DEF IInv, PepInv, Answered
  <2>3. advertised <=> call = "evaluation" \/ ~IsNotImplemented(method.zero)
    <3>1. held.metadata.endpoints[call] =
            Probed(TrimRight(publicURL(builder)), builder.decider, call)
      <4> HIDE DEF Moody, Hidden, method, answer, held, builder
      <4> QED
        BY <2>1, DocumentFields
    <3>2. None # Join(TrimRight(publicURL(builder)), call)
      BY <2>1, NilAssumption
    <3> QED
      BY <3>1, <3>2 DEF Probed, implements
  <2>4. IF IsNotImplemented(method.zero)
        THEN Status(r) = 501 \/ (r = "both" /\ Status(r) = 400)
        ELSE Status(r) # 501
    <3>1. \A real \in method.real :
            IsNotImplemented(real) = IsNotImplemented(method.zero)
      OBVIOUS
    <3> HIDE DEF Moody, method
    <3> QED
      BY <2>2, <3>1, AlikeTells
  <2>5. r \in method.real \cup {method.zero}
    BY DEF Said
  <2> HIDE DEF answer, method, advertised
  <2> QED
    BY <2>2, <2>3, <2>4, <2>5
<1> QED
  BY <1>1, Invariance, PTL DEF Spec, AdvertisedIsImplemented

\* A fetch that a process answered yields a document exactly if the Client is where
\* that process means to be found, or is relaxed, and the signed form is JSON;
\* for every process but one that is told nothing and listens at [::].
THEOREM DiscoveryPlacementDecides == Spec => DiscoverySucceeds
<1> DEFINE d == deployed[conns[Pep].answer.by]
           Told == d.addr.host # "[::]" \/ d.pdpURL # None \/ d.options.claim # None
           Found == /\ d.options.signed # "compact"
                    /\ \/ client.metaRelaxedMixUp
                       \/ TrimRight(client.baseURL) = MeantToBeAt(d)
           Decides == conns[Pep].phase = "answered" /\ Pep \in asked \ asked' =>
                        (Told => (result'[Pep].doc # None <=> Found))
<1>1. IInv /\ [Next]_vars => [Decides]_vars
  <2> SUFFICES ASSUME IInv, Next, conns[Pep].phase = "answered",
                      Pep \in asked, Pep \notin asked', Told
               PROVE  result'[Pep].doc # None <=> Found
    OBVIOUS
  <2>1. FetchReturns
    <3>1. call = None /\ result[Pep] = None
      BY DEF IInv, PepInv, OneCall
    <3>2. ~Unanswered(Pep)
      BY DEF Unanswered
    <3> QED
      BY <3>1, <3>2
      DEF Next, ProcessStep, OthersAsk, NetworkLoses, pepVars, FetchBegins,
          FetchHits, FetchMisses, FetchSends, FetchFails, EntryExpires, CallBegins, CallReturns, CallFails,
          Service!Begin, Service!ServeCached, Service!Ask, Service!Forget
  <2> DEFINE a == conns[Pep].answer
  <2>2. result'[Pep].doc # None <=> FetchError(a) = None
    <3>1. CASE FetchError(a) = None
      <4>1. PICK doc \in Docs :
              result' = [result EXCEPT ![Pep] = [doc |-> doc, err |-> None]]
        BY <2>1, <3>1 DEF FetchReturns, Service!ServeFetched, Service!Return
      <4>2. result'[Pep] = [doc |-> doc, err |-> None]
        BY <4>1, PepResult DEF IInv, PepInv
      <4> QED
        BY <3>1, <4>2, ResultsAssumption, SMT
    <3>2. CASE FetchError(a) # None
      <4>1. PICK err : result' = [result EXCEPT ![Pep] = [doc |-> None, err |-> err]]
        BY <2>1, <3>2 DEF FetchReturns, Service!Fail, Service!Return
      <4>2. result'[Pep] = [doc |-> None, err |-> err]
        BY <4>1, PepResult DEF IInv, PepInv
      <4> QED
        BY <3>2, <4>2, SMT
    <3> QED
      BY <3>1, <3>2
  <2>3. TrimRight(Document(d).policyDecisionPoint) = MeantToBeAt(d)
    <3>1. ASSUME NEW o
          PROVE  TrimRight([origin |-> o, slashes |-> 0]) = [origin |-> o, slashes |-> 0]
      BY SMT DEF TrimRight
    <3>2. CASE d.options.claim # None
      BY <3>2, DocumentFields, Zenon DEF MeantToBeAt
    <3>3. CASE d.options.claim = None /\ d.pdpURL # None
      BY <3>3, DocumentFields DEF MeantToBeAt, publicURL
    <3>4. CASE d.options.claim = None /\ d.pdpURL = None
      <4>1. TrimRight(Document(d).policyDecisionPoint) =
              [origin |-> httpHost(d.addr), slashes |-> 0]
        BY <3>1, <3>4, DocumentFields DEF publicURL
      <4>2. d.addr.host # "[::]"
        BY <3>4
      <4>3. httpHost(d.addr) = IF d.addr.host \in Wildcards
                               THEN [d.addr EXCEPT !.host = "localhost"] ELSE d.addr
        BY <4>2 DEF httpHost, Wildcards
      <4> QED
        BY <3>4, <4>1, <4>3, Zenon DEF MeantToBeAt
    <3> QED
      BY <3>2, <3>3, <3>4
  <2> QED
    BY <2>2, <2>3, FetchVerdict DEF IInv, PepInv
<1> QED
  BY <1>1, Invariance, PTL DEF Spec, DiscoverySucceeds
=============================================================================
