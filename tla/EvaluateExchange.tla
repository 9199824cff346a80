-------------------------- MODULE EvaluateExchange --------------------------
(***************************************************************************)
(* One client.Evaluate call end to end: Validate and postJSON              *)
(* (client/evaluate.go) over the retrying doer (RetryDoer), a network that *)
(* loses and delays requests and answers, a gateway that may answer in the *)
(* PDP's place, and the PDP's handler (PdpHandler).  Attempt k of the call *)
(* is request k of the PDP; it may be served while, or long after, the     *)
(* client has given it up and sent the next one.                           *)
(***************************************************************************)
EXTENDS Integers, Sequences

CONSTANTS None,
          Attempts,   \* WithMaxAttempts
          Chain       \* the handler's options, innermost first

VARIABLES valid,      \* req.Validate() returns nil
          pep,        \* where in Evaluate the call is: "validate", "do", "done"
          outcome,    \* None, then what Evaluate returned: [decision, err, code]
          contents,   \* contents[k]: the body of the answer to attempt k
          \* RetryDoer
          maxAttempts, hasGetBody, doerPc, attempt, lastErr, lastResp, reqBody, delay,
          ctxDone, result, sent, answers,
          \* PdpHandler
          chain, pdpPc, depth, req, header, recorded, verdict, wire, events

Statuses == {200, 400, 404, 405, 500, 501, 503}

\* postJSON builds requests that have GetBody.  No pause is long enough to
\* wrap an int64 here.
Doer == INSTANCE RetryDoer WITH pc <- doerPc,
          MaxAttempts <- {Attempts}, BaseDelay <- 1, MaxDelay <- 4,
          WordHalf <- 1000

Pdp == INSTANCE PdpHandler WITH pc <- pdpPc, Requests <- 1..Attempts,
         IDs <- {}, Chains <- {Chain}

pepVars == <<valid, pep, outcome, contents>>
doerVars == <<maxAttempts, hasGetBody, doerPc, attempt, lastErr, lastResp,
              reqBody, delay, ctxDone, result, sent, answers>>
pdpVars == <<chain, pdpPc, depth, req, header, recorded, verdict, wire, events>>
vars == <<pepVars, doerVars, pdpVars>>

Verdicts == Pdp!Responses \cup Pdp!DeciderErrors

\* What an answer may carry, and how Evaluate may fail.
Contents == {"permit", "deny", "null", "empty", "text"}
Failures == {"invalid", "build", "do", "read", "closed", "status", "decode"}
Outcomes == [decision : {"permit", "deny", None}, err : Failures \cup {None},
             code : Statuses \cup {None}]

ASSUME ExchangeAssumption == Attempts \in Nat \ {0} /\ Chain \in Seq(Pdp!Layer)

\* nil is no value of what may be absent.
ASSUME AbsenceAssumption ==
  /\ None \notin Verdicts \cup Pdp!Request \cup Pdp!Committed
  /\ None \notin Doer!InnerErrors \cup {"getbody"} \cup Contents \cup Failures
                 \cup {"error", "refused"}
  /\ None \notin Outcomes
----------------------------------------------------------------------------
Init == /\ valid \in BOOLEAN
        /\ pep = "validate"
        /\ outcome = None
        /\ contents = <<>>
        /\ Doer!Init /\ hasGetBody
        /\ Pdp!Init

\* Evaluate returns a decision, or an error; a StatusError has a code.
Return(decision, err, code) ==
  /\ pep' = "done"
  /\ outcome' = [decision |-> decision, err |-> err, code |-> code]
  /\ UNCHANGED <<valid, contents, doerVars, pdpVars>>

\* Mutant: the error of Validate is noted, and the request sent all the same.
ValidateAndSend ==
  /\ pep = "validate"
  /\ pep' = "do"
  /\ outcome' = IF valid THEN None
                ELSE [decision |-> None, err |-> "invalid", code |-> None]
  /\ UNCHANGED <<valid, contents, doerVars, pdpVars>>

\* req.Validate(), before anything is sent.
Validate ==
  /\ pep = "validate"
  /\ IF valid THEN /\ pep' = "do"
                   /\ UNCHANGED <<valid, outcome, contents, doerVars, pdpVars>>
     ELSE Return(None, "invalid", None)

\* The request cannot be marshalled, or the HTTP request not be built.
BuildFails ==
  /\ pep = "validate" /\ valid
  /\ Return(None, "build", None)

\* The doer takes a step of its own.
DoerStep ==
  /\ pep = "do"
  /\ Doer!Internal
  /\ UNCHANGED <<pepVars, pdpVars>>

\* The caller's context is done.
Cancel ==
  /\ Doer!Cancel
  /\ UNCHANGED <<pepVars, pdpVars>>

\* Attempt k reaches the PDP, at any time after it was sent: also when the
\* client no longer waits for it.
Deliver(k) ==
  /\ k \in DOMAIN sent
  /\ Pdp!Arrive(k, [route |-> "endpoint", json |-> sent[k] = "full",
                    id |-> None])
  /\ UNCHANGED <<pepVars, doerVars>>

PdpServes(k) ==
  /\ Pdp!Serve(k)
  /\ UNCHANGED <<pepVars, doerVars>>

DeciderActs(k) ==
  /\ Pdp!Panic(k) \/ \E v \in Verdicts : Pdp!Decide(k, v)
  /\ UNCHANGED <<pepVars, doerVars>>

\* The wrapped doer returns to the attempt in flight.
Answered(a, content) ==
  /\ pep = "do"
  /\ Doer!InnerReturns(a)
  /\ contents' = Append(contents, content)
  /\ UNCHANGED <<valid, pep, outcome, pdpVars>>

\* ... with what the PDP committed for that attempt,
PdpAnswers ==
  /\ attempt \in 1..Attempts /\ wire[attempt] # None
  /\ Answered([resp |-> [status |-> wire[attempt].status, body |-> "open"],
               err |-> None],
              wire[attempt].body)

\* ... with what a gateway in between says: a page, JSON that is no decision, or,
\* with an error status only, a body in the shape of a decision,
GatewayAnswers ==
  \E status \in {200, 500, 503}, page \in Contents :
    /\ status = 200 => page \notin {"permit", "deny"}
    /\ Answered([resp |-> [status |-> status,
                           body |-> IF page = "empty" THEN "none" ELSE "open"],
                 err |-> None],
                page)

\* ... or with an error, whatever has become of the attempt at the PDP.
LinkFails ==
  \E err \in {"network", "context"} :
    Answered([resp |-> None, err |-> err], None)

\* Mutant: a body that is not a decision is taken for one.
DecodedUnchecked(content) == IF content = "null" THEN "deny" ELSE content

\* json.Unmarshal of a body; one without `decision`, null included, is false.
Decoded(content) == CASE content = "permit"           -> "permit"
                      [] content \in {"deny", "null"} -> "deny"
                      [] OTHER                        -> None

\* Mutant: the status is not looked at.
JudgeBodyOnly(status, content) ==
  IF Decoded(content) = None THEN Return(None, "decode", None)
  ELSE Return(Decoded(content), None, None)

\* What postJSON makes of a status and a body: a non-2xx is a StatusError.
Judge(status, content) ==
  IF status \notin 200..299 THEN Return(None, "status", status)
  ELSE IF Decoded(content) = None THEN Return(None, "decode", None)
  ELSE Return(Decoded(content), None, None)

\* The doer returned an error.
DoFails ==
  /\ pep = "do" /\ result # None /\ result.err # None
  /\ Return(None, "do", None)

\* Reading the body fails: the connection breaks,
ReadFails ==
  /\ pep = "do" /\ result # None /\ result.resp # None
  /\ result.resp.body = "open"
  /\ Return(None, "read", None)

\* ... or the doer has closed it.
ReadClosed ==
  /\ pep = "do" /\ result # None /\ result.resp # None
  /\ result.resp.body = "closed"
  /\ Return(None, "closed", None)

\* The body is read to its end.
ReadAndJudge ==
  /\ pep = "do" /\ result # None /\ result.resp # None
  /\ result.resp.body # "closed"
  /\ Judge(result.resp.status, contents[Len(contents)])

Next == \/ Validate   \/ BuildFails     \/ DoerStep  \/ Cancel
        \/ PdpAnswers \/ GatewayAnswers \/ LinkFails
        \/ DoFails    \/ ReadFails      \/ ReadClosed \/ ReadAndJudge
        \/ \E k \in 1..Attempts : Deliver(k) \/ PdpServes(k) \/ DeciderActs(k)

\* net/http runs a handler to its end whether or not the client still waits.
Spec == /\ Init /\ [][Next]_vars
        /\ \A k \in 1..Attempts : WF_vars(PdpServes(k))
----------------------------------------------------------------------------
\* The PDP's own view and the doer's own view keep their types, and so does
\* what relates them to Evaluate.
TypeOK ==
  /\ Pdp!TypeOK
  /\ Doer!TypeOK
  /\ pep \in {"validate", "do", "done"}
  /\ Len(contents) = Len(answers)
  /\ outcome \in Outcomes \cup {None}

\* Fail closed: the PEP is told "permit" only if the Decider permitted, and
\* did so for the very attempt whose answer the PEP read, although a gateway
\* may say "permit" under an error status; a call that fails carries no
\* decision; an invalid request is never put to the Decider.
PermitIsReal ==
  outcome # None =>
    /\ outcome.decision = "permit" =>
         valid /\ answers # <<>> /\ verdict[Len(answers)] = "permit"
    /\ outcome.decision = None <=> outcome.err # None
    /\ ~valid => \A k \in 1..Attempts : verdict[k] = None

\* The Decider's word reaches the PEP unaltered: when the call ends with the
\* answer of the PDP read to its end, a deny is a decision and not an error,
\* and each kind of Decider error is the StatusError of its status.
VerdictReachesPEP ==
  /\ outcome # None
  /\ outcome.err \notin {"invalid", "build", "do", "read", "closed"}
  /\ wire[Len(answers)] # None
  /\ contents[Len(answers)] = wire[Len(answers)].body
  /\ answers[Len(answers)].resp.status = wire[Len(answers)].status
  => LET v == verdict[Len(answers)]
     IN  /\ v \in {"permit", "deny"} => outcome.decision = v
         /\ v = "nil" => outcome.decision = "deny"
         /\ v = "unencodable" => outcome.err = "decode"
         /\ v \in {"validation", "both"} => outcome.code = 400
         /\ v = "notimplemented" => outcome.code = 501
         /\ v = "other" => outcome.code = 500

\* Audit trail: a decision a PEP was told and acts upon is sooner or later
\* reported to the PDP's logger, with the status the PEP saw.  (A deny that is
\* read into an answer without a decision may be nobody's, and be on no log.)
DecisionIsLogged ==
  \A k \in 1..Attempts :
    (/\ outcome # None /\ outcome.err = None
     /\ Len(answers) = k /\ contents[k] # "null")
      ~> (\E n \in DOMAIN events : /\ events[n].request = k
                                   /\ events[n].status = 200)

\* What the doc of postJSON says: a non-2xx response is returned as a
\* StatusError that carries its status; here, where no connection broke while
\* its body was read.
Non2xxIsStatusError ==
  outcome # None /\ result # None /\ result.resp # None
  /\ result.resp.status \notin 200..299
  /\ outcome.err # "read"
  => outcome.err = "status" /\ outcome.code = result.resp.status
----------------------------------------------------------------------------
\* How the call ended, in the words of AccessDecision.
Ending == CASE outcome = None               -> None
            [] outcome # None /\ outcome.err = None -> outcome.decision
            [] outcome # None /\ outcome.err = "invalid" -> "refused"
            [] OTHER                        -> "error"

\* The attempts that got a 2xx with JSON that is no decision.
Silent == {k \in DOMAIN contents : /\ contents[k] = "null"
                                   /\ answers[k].resp.status \in 200..299}

Decision == INSTANCE AccessDecision WITH
              Attempts <- 1..Attempts, Permits <- {"permit"}, Denies <- {"deny"},
              silent <- Silent, ending <- Ending

\* Over a network that loses, delays and repeats, with a gateway that answers
\* in the PDP's place, and with retries, the call still ends once; a permit
\* stems from a verdict; a deny stems from a verdict or from a 2xx without a
\* decision, be it the PDP's or a gateway's; and what the call refuses to ask
\* is never decided, however late.
ImplementsAccessDecision == Decision!Spec
=============================================================================
