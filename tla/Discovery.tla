------------------------------ MODULE Discovery ------------------------------
(***************************************************************************)
(* A PEP that discovers a PDP and then calls it: client.FetchMetadata      *)
(* (here as MetadataService, which MetadataCache implements) and the       *)
(* evaluation and search calls (client/search.go, evaluate.go), against    *)
(* the processes an operator runs (PdpProcess), which end, fail and come   *)
(* back changed while the PEP holds a document of an earlier one.  Other   *)
(* clients, not of this library, use the PDP at the same time.             *)
(***************************************************************************)
EXTENDS PdpProcess, RequestValidation, ClientOptions

CONSTANTS Pep,          \* the client that is this library's
          ClientArgs,   \* what it may be built with, [baseURL, options]
          Shapes        \* the sets of fields its requests fill

ASSUME DiscoveryAssumption == Pep \in Clients /\ Shapes \subseteq SUBSET Fields

VARIABLES client,    \* the Client
          now, live, asked, result, \* MetadataService
          call       \* None, or the endpoint of the call in progress

pepVars == <<client, now, live, asked, result, call>>
vars == <<processVars, pepVars>>

\* A document with the number of the process that built it.
Docs == [version : 1..MaxStarts, metadata : {Document(d) : d \in Deployments}]

\* Why a fetch may fail.
FetchErrors == {"transport", "status", "decode", "mixup"}

\* nil is no document, no error and no endpoint.
ASSUME ResultsAssumption == None \notin Docs /\ None \notin FetchErrors \cup Endpoints

Service == INSTANCE MetadataService WITH
             Callers <- {Pep}, TrustedDocs <- Docs,
             Errors <- FetchErrors
----------------------------------------------------------------------------
Init ==
  /\ ProcessInit
  /\ \E args \in ClientArgs : client = NewClient(args.baseURL, args.options, 1)
  /\ Service!Init
  /\ call = None

\* endpointURL: the Client calls the default paths, whatever is advertised.
endpointURL(endpoint) == Join(TrimRight(client.baseURL), endpoint)

\* FetchMetadata is called,
FetchBegins ==
  /\ call = None
  /\ Service!Begin(Pep)
  /\ UNCHANGED <<processVars, client, call>>

\* ... finds an entry that is fresh,
FetchHits ==
  /\ live' = live
  /\ Service!ServeCached(Pep)
  /\ UNCHANGED <<processVars, client, call>>

\* ... or none,
FetchMisses ==
  /\ live = {} /\ live' = {}
  /\ Service!Ask(Pep)
  /\ UNCHANGED <<processVars, client, call>>

\* ... and sends the GET.
FetchSends ==
  /\ Pep \in asked
  /\ Connect(Pep, [endpoint |-> "metadata", method |-> "GET", fields |-> {}])
  /\ UNCHANGED pepVars

\* The error fetchMetadataRaw finds in an answer, in the order it looks.
FetchError(a) ==
  IF a.status \notin 200..299 THEN "status"
  ELSE IF a.body = None THEN "decode"
  ELSE IF /\ ~client.metaRelaxedMixUp
          /\ TrimRight(client.baseURL) # TrimRight(a.body.policyDecisionPoint)
       THEN "mixup"
  ELSE None

\* An answer is refused, or it is kept until its lifetime is over.
FetchReturns ==
  /\ Pep \in asked /\ conns[Pep].phase = "answered"
  /\ LET a == conns[Pep].answer
         doc == [version |-> a.by, metadata |-> a.body]
     IN  IF FetchError(a) = None
         THEN /\ live' = {[doc |-> doc, expires |-> now + client.metaDefaultTTL]}
              /\ Service!ServeFetched(Pep)
              /\ result'[Pep].doc = doc
         ELSE /\ live' = live
              /\ Service!Fail(Pep)
              /\ result'[Pep].err = FetchError(a)
  /\ Hangup(Pep)
  /\ UNCHANGED <<client, call>>

\* Nobody answers at the address, the network fails, or the connection ends
\* without an answer, which the kernel may also conclude of a lost one.
Unanswered(c) ==
  \/ conns[c].phase = "none" /\ UNCHANGED processVars
  \/ conns[c].phase \in {"reset", "aborted", "lost"} /\ Hangup(c)

FetchFails ==
  /\ Pep \in asked /\ Unanswered(Pep)
  /\ live' = live
  /\ Service!Fail(Pep)
  /\ result'[Pep].err = "transport"
  /\ UNCHANGED <<client, call>>

\* The lifetime of the entry is over.
EntryExpires ==
  /\ live # {} /\ live' = {}
  /\ Service!Forget
  /\ UNCHANGED <<processVars, client, call>>

\* One of the five methods is called with a request that Validate accepts (any
\* other is refused, and nothing is sent), and postJSON reaches the PDP; or it
\* does not, and the call has failed.
CallBegins(endpoint, fields) ==
  /\ call = None /\ result[Pep] # None
  /\ Validate(endpoint, fields) = {}
  /\ Connect(Pep, [endpoint |-> endpoint, method |-> "POST", fields |-> fields])
  /\ call' = endpoint
  /\ UNCHANGED <<client, now, live, asked, result>>

\* It returns the answer, or a StatusError with its status.
CallReturns ==
  /\ call # None /\ conns[Pep].phase = "answered"
  /\ call' = None
  /\ Hangup(Pep)
  /\ UNCHANGED <<client, now, live, asked, result>>

\* The connection ended without an answer.
CallFails ==
  /\ call # None /\ conns[Pep].phase \in {"reset", "aborted", "lost"}
  /\ call' = None
  /\ Hangup(Pep)
  /\ UNCHANGED <<client, now, live, asked, result>>

\* Another client asks, validated or not, and goes.
OthersAsk ==
  /\ \E c \in Clients \ {Pep} : \/ \E q \in Requests : Connect(c, q)
                                \/ Hangup(c)
  /\ UNCHANGED pepVars

\* The network loses what was sent to the PEP.
NetworkLoses == Lose(Pep) /\ UNCHANGED pepVars

ProcessStep == ProcessNext /\ UNCHANGED pepVars

Next ==
  \/ ProcessStep
  \/ FetchBegins \/ FetchHits \/ FetchMisses \/ FetchSends \/ FetchReturns
  \/ FetchFails  \/ EntryExpires
  \/ \E endpoint \in Endpoints, fields \in Shapes : CallBegins(endpoint, fields)
  \/ CallReturns \/ CallFails
  \/ OthersAsk \/ NetworkLoses

\* The document's handler answers.
DocumentServed ==
  /\ conns[Pep].request # None /\ conns[Pep].request.endpoint = "metadata"
  /\ Reply(Pep)
  /\ UNCHANGED pepVars

\* main's goroutine runs, and the timer of Shutdown fires; a handler that only
\* writes bytes runs, and so does the PEP's goroutine when it cannot connect or
\* has been told how its connection ended.  Nothing is asked of the network,
\* the Decider, the other clients or the operator.
Spec == /\ Init /\ [][Next]_vars
        /\ WF_vars(MainReturns /\ UNCHANGED pepVars)
        /\ WF_vars(DocumentServed)
        /\ WF_vars(/\ conns[Pep].phase # "lost"
                   /\ FetchReturns \/ FetchFails)
----------------------------------------------------------------------------
\* What the processes and the PEP hold is of their types.
TypeOK ==
  /\ deployed \in Seq(Deployments)
  /\ main \in {"off", "setup", "select", "shutdown"}
  /\ listener \in {"unbound", "open", "down"}
  /\ serverErr \in {None, "bind", "accept", "closed"}
  /\ main \in {"select", "shutdown"} => metadata # None
  /\ exit \in {None, -1, 0, 1, 2}
  /\ Open # {} => main \in {"select", "shutdown"}
  /\ \A c \in Clients : conns[c].phase \in {"none", "open", "answered", "reset",
                                           "aborted", "lost"}
  /\ live \subseteq [doc : Docs, expires : {now + client.metaDefaultTTL}]
  /\ result[Pep] # None => result[Pep].doc \in Docs \cup {None}
  /\ asked = {} \/ call = None

\* A PEP that holds a document is surprised by an answer if what is advertised
\* turns out not to be implemented (501; evaluation is advertised come what may),
\* or what is not advertised to be.  It takes a cause: the process that answers
\* is not the one that built the document; an option wrote the endpoint; the
\* Decider's method says that it is not implemented to the zero request of the
\* probe and not to a real one, or the reverse; or it says so inside a
\* ValidationError, and the 400 hides it.
AdvertisedIsImplemented ==
  [][LET answer == conns[Pep].answer
         held == result[Pep].doc
         builder == deployed[held.version]
         method == builder.decider[call]
         advertised == held.metadata.endpoints[call] # None
         surprised == IF advertised THEN answer.status = 501 /\ call # "evaluation"
                      ELSE answer.status # 501
     IN  /\ call # None /\ call' = None /\ conns[Pep].phase = "answered"
         /\ held # None /\ surprised
         => \/ answer.by # held.version
            \/ call \in builder.options.written
            \/ \E r \in method.real :
                 IsNotImplemented(r) # IsNotImplemented(method.zero)
            \/ /\ ~advertised /\ answer.status = 400
               /\ "both" \in method.real \cup {method.zero}]_vars

\* The Client never looks at the advertised URLs, so they had better be those
\* it calls: in a document a strict Client accepts, every URL that no option of
\* the PDP's put there is, though three places trim slashes, each for itself.
AdvertisedWhereCalled ==
  ~client.metaRelaxedMixUp /\ result[Pep] # None /\ result[Pep].doc # None =>
    LET held == result[Pep].doc
        options == deployed[held.version].options
    IN  options.claim = None =>
          \A e \in Endpoints \ options.written :
            held.metadata.endpoints[e] \in {None, endpointURL(e)}

\* Where a process means to be found: where an option or its flag says, or where
\* it listens, which for a process on every interface is localhost ("An empty /
\* wildcard host becomes localhost so the published value is reachable").
Wildcards == {"", "0.0.0.0", "[::]"}

MeantToBeAt(d) ==
  CASE d.options.claim # None -> TrimRight(d.options.claim)
    [] d.options.claim = None /\ d.pdpURL # None -> TrimRight(d.pdpURL)
    [] OTHER -> [origin |-> IF d.addr.host \in Wildcards
                            THEN [d.addr EXCEPT !.host = "localhost"] ELSE d.addr,
                 slashes |-> 0]

\* A fetch that a process answered yields a document exactly if the Client is
\* where the process means to be found, or does not compare, and the signed form
\* is JSON, whatever was cached or served before it.  Nothing is promised of a
\* process that is told nothing and listens at [::]: httpHost takes it for a host.
DiscoverySucceeds ==
  [][conns[Pep].phase = "answered" /\ Pep \in asked \ asked' =>
       LET d == deployed[conns[Pep].answer.by]
       IN  d.addr.host # "[::]" \/ d.pdpURL # None \/ d.options.claim # None =>
             (result'[Pep].doc # None <=>
                /\ d.options.signed # "compact"
                /\ \/ client.metaRelaxedMixUp
                   \/ TrimRight(client.baseURL) = MeantToBeAt(d))]_vars

\* What reaches a Decider from a Client is never an open-ended search: it
\* names each entity but the one it looks for, of which it names the type.
SearchIsPinned ==
  conns[Pep].request # None /\ conns[Pep].request.endpoint \in Searches =>
    LET q == conns[Pep].request
    IN  /\ Pinned(q.endpoint, q.fields)
        /\ {"subject.type", "resource.type"} \subseteq q.fields

\* Discovery does not wait for the Decider, which was asked once and for all at
\* the start: a FetchMetadata that goes out comes back, also from a process all
\* of whose other handlers hang, that is shutting down, or that is killed; unless
\* what it was sent is lost on the way, for the call has no deadline of its own.
FetchEnds == Pep \in asked ~> Pep \notin asked \/ conns[Pep].phase = "lost"
=============================================================================
