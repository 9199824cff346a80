----------------------------- MODULE MCDiscovery -----------------------------
(* A PEP and one other client of a PDP that is deployed twice.              *)
EXTENDS Discovery

CONSTANTS pep, curl

Local(h) == [host |-> h, port |-> 8080]
Public == [origin |-> [host |-> "pdp.example", port |-> 443], slashes |-> 1]

Relax == [name |-> "WithRelaxedMetadataValidation", ttl |-> 0]
TTL(n) == [name |-> "WithMetadataTTL", ttl |-> n]

\* A strict Client of a local PDP and a relaxed one of the public address.
MCClientArgs ==
  {[baseURL |-> [origin |-> Local("localhost"), slashes |-> 1],
    options |-> <<TTL(0)>>],
   [baseURL |-> [Public EXCEPT !.slashes = 0], options |-> <<Relax, TTL(1)>>]}

\* All fields, and all but an ID or the action's name.
MCShapes ==
  {Fields} \cup {Fields \ {f} : f \in {"subject.id", "resource.id", "action.name"}}

\* curl POSTs to the document, and sends an empty search.
MCRequests ==
  {[endpoint |-> "metadata", method |-> "POST", fields |-> {}],
   [endpoint |-> "searchSubject", method |-> "POST", fields |-> {}]}

Absent == [zero |-> "notimplemented", real |-> {"notimplemented"}]
Always(reply) == [zero |-> reply, real |-> {reply}]

\* todo-pdp's Cedar Decider.
Cedar == [e \in Endpoints |->
            IF e \in Searches THEN Absent
            ELSE [zero |-> "answer", real |-> {"answer", "other"}]]

\* A Decider that validates, one method of which panics on some requests, one
\* dispatches on the subject, one is a stub that fails otherwise on nothing,
\* and one reports a lacking method as an invalid request.
Particular == [evaluation     |-> [zero |-> "validation",
                                   real |-> {"answer", "validation"}],
               evaluations    |-> [zero |-> "validation",
                                   real |-> {"answer", "panic"}],
               searchSubject  |-> [zero |-> "notimplemented", real |-> {"answer"}],
               searchResource |-> [zero |-> "other", real |-> {"notimplemented"}],
               searchAction   |-> Always("both")]

\* A Decider that lacks even evaluation, and whose probe panics or does not.
Lacking == [e \in Endpoints |-> Absent]
Fragile == [Lacking EXCEPT !["searchAction"] = [zero |-> "panic",
                                                real |-> {"answer"}]]

\* Options that write the URLs of some endpoints, or none and a signed form.
Writing(urls) == [signed |-> None, claim |-> None, written |-> DOMAIN urls,
                  urls |-> [e \in Endpoints |->
                              IF e \in DOMAIN urls THEN urls[e] ELSE None]]
Signed(form) == [Writing(<<>>) EXCEPT !.signed = form]

Elsewhere == Join(Public, "find")

\* todo-pdp on every interface; told its URL, with slashes, and with a search that
\* is another server's; on the IPv6 wildcard, claiming its URL, with evaluation
\* taken out and a search put in; with a probe that panics; with a compact JWS.
MCDeployments ==
  {[addr |-> Local(""), pdpURL |-> None, decider |-> Cedar,
    options |-> Signed(None)],
   [addr |-> Local(""), decider |-> Particular,
    pdpURL |-> [origin |-> Local("localhost"), slashes |-> 2],
    options |-> [Writing([searchSubject |-> Elsewhere]) EXCEPT !.signed = "json"]],
   [addr |-> Local("[::]"), pdpURL |-> None, decider |-> Lacking,
    options |-> [Writing([evaluation |-> None, searchAction |-> Elsewhere])
                   EXCEPT !.claim = Public]],
   [addr |-> Local("0.0.0.0"), pdpURL |-> Public, decider |-> Fragile,
    options |-> Signed(None)],
   [addr |-> Local("0.0.0.0"), pdpURL |-> None, decider |-> Cedar,
    options |-> Signed("compact")]}
=============================================================================
