----------------------------- MODULE PdpMetadata -----------------------------
(***************************************************************************)
(* BuildMetadata and NewMetadataHandler (server/metadata.go): the document *)
(* a PDP publishes about itself, made once from a probe of its Decider and *)
(* from the options of the program that runs it.                           *)
(***************************************************************************)
EXTENDS PdpErrors

CONSTANT None

Optional == {"evaluations", "searchSubject", "searchResource", "searchAction"}
Endpoints == {"evaluation"} \cup Optional

\* What a Decider's method does: answers, returns an error, panics.
Replies == {"answer", "panic"} \cup DeciderErrors

\* A Decider by what each method does with a zero-value request and with the
\* requests of a PEP, of which one may be treated otherwise than the next.
Decider == [Endpoints -> [zero : Replies, real : SUBSET Replies]]

\* A URL is an origin and the number of slashes it ends in.
URL == [origin : [host : STRING, port : Nat], slashes : Nat]

TrimRight(url) == [url EXCEPT !.slashes = 0]

\* base + path
Join(base, endpoint) == [base |-> base, path |-> endpoint]

\* What the MetadataOptions write, each a function of the consumer's that may
\* write any field: the last signed form and the last policy_decision_point, if
\* any, and for each endpoint that is `written` its URL, or None to take it out.
Options == [signed : {None, "json", "compact"},
            claim : URL \cup {None},
            written : SUBSET Endpoints,
            urls : [Endpoints -> [base : URL, path : STRING] \cup {None}]]

\* Mutant: any error is taken for a missing method.
ImplementsIfNoError(reply) == reply = "answer"

implements(reply) == ~IsNotImplemented(reply)

\* Nothing recovers a probe that panics.
ProbePanics(decider) == \E e \in Optional : decider[e].zero = "panic"

\* The document before the options: an endpoint that is not implemented is not
\* in it (None); evaluation always is.
Probed(base, decider, e) ==
  IF e = "evaluation" \/ implements(decider[e].zero) THEN Join(base, e) ELSE None

\* Mutant: the trailing slash is kept.
BuildMetadataUntrimmed(pdpURL, decider, options) ==
  [policyDecisionPoint |-> IF options.claim # None THEN options.claim ELSE pdpURL,
   signedMetadata |-> options.signed,
   endpoints |-> [e \in Endpoints |->
                    IF e \in options.written THEN options.urls[e]
                    ELSE Probed(pdpURL, decider, e)]]

\* The probe, and then the options over what it gave.
BuildMetadata(pdpURL, decider, options) ==
  [policyDecisionPoint |-> IF options.claim # None THEN options.claim ELSE pdpURL,
   signedMetadata |-> options.signed,
   endpoints |-> [e \in Endpoints |->
                    IF e \in options.written THEN options.urls[e]
                    ELSE Probed(TrimRight(pdpURL), decider, e)]]

\* json.Marshal of the document; a signed form that is not itself JSON, such
\* as a JWS in compact form, makes it fail, and nothing is left.
Marshalled(doc) == IF doc.signedMetadata = "compact" THEN None ELSE doc

\* NewMetadataHandler's answer: a status, and the document in the body.
MetadataAnswer(doc, method) ==
  IF method = "GET" THEN [status |-> 200, body |-> Marshalled(doc)]
                    ELSE [status |-> 405, body |-> None]
=============================================================================
