----------------------------- MODULE RetryDoer -----------------------------
(***************************************************************************)
(* retryDoer.Do (client/doer.go): one call, retried on network errors and  *)
(* on 502, 503 and 504 with a doubling, capped pause.  The wrapped doer    *)
(* and the caller's context are the environment: InnerReturns takes what   *)
(* the wrapped doer answers, so that EvaluateExchange can supply it.       *)
(***************************************************************************)
EXTENDS Integers, Sequences

CONSTANTS None,        \* nil
          MaxAttempts, \* the values WithMaxAttempts may be given, ints
          BaseDelay,   \* baseDelay, positive (WithBackoff ignores the rest)
          MaxDelay,    \* maxDelay, positive likewise
          Statuses,    \* the HTTP statuses the wrapped doer may answer
          WordHalf     \* 2^63: time.Duration is an int64

InnerErrors == {"network", "context"}

ASSUME RetryAssumption == /\ MaxAttempts \subseteq Int
                          /\ BaseDelay \in Nat \ {0} /\ MaxDelay \in Nat \ {0}
                          /\ Statuses \subseteq 100..599
                          /\ WordHalf \in Nat \ {0}
                          /\ None \notin InnerErrors \cup {"getbody"}

VARIABLES maxAttempts, \* cfg.maxAttempts; fixed
          hasGetBody,  \* req.GetBody is set; fixed
          pc,          \* where in Do the call is
          attempt,     \* the loop variable
          lastErr,     \* the error of the last attempt, or None
          lastResp,    \* the transient response of the last attempt, or None
          reqBody,     \* req.Body: "full", or "drained" once it was sent
          delay,       \* the pause last armed, 0 before the first
          ctxDone,     \* req.Context() is cancelled or past its deadline
          result,      \* None, then what Do returned: [resp, err]
          sent,        \* what body each attempt was sent with
          answers      \* what the wrapped doer answered each attempt

fixed == <<maxAttempts, hasGetBody>>

vars == <<fixed, pc, attempt, lastErr, lastResp, reqBody, delay, ctxDone,
          result, sent, answers>>

----------------------------------------------------------------------------
\* A response: its status, and its body as the code leaves it.
Response == [status : Statuses, body : {"none", "open", "closed"}]

\* What the wrapped doer can answer: a readable response or an error.
Answer == [resp : [status : Statuses, body : {"none", "open"}], err : {None}]
            \cup [resp : {None}, err : InnerErrors]

\* Mutant: 500 is taken for transient.
RetryAny5xx(code) == code \in 500..599

shouldRetryStatus(code) == code \in {502, 503, 504}

\* The attempt is worth another one.
Transient(a) == a.err = None => shouldRetryStatus(a.resp.status)

\* Mutant: the value is not clamped.
Unclamped(n) == n

\* WithMaxAttempts
Clamp(n) == IF n < 1 THEN 1 ELSE n

Int64(x) == ((x + WordHalf) % (2 * WordHalf)) - WordHalf

\* Mutant: the pause is not capped.
backoffUncapped(n) == Int64(BaseDelay * 2^n)

\* The loop of backoff doubles n times and stops at the first value over
\* the cap; doubling n times in int64 leaves BaseDelay * 2^n wrapped.
backoff(n) == IF \E i \in 1..n : Int64(BaseDelay * 2^i) > MaxDelay
              THEN MaxDelay
              ELSE Int64(BaseDelay * 2^n)

\* io.Copy to Discard and Close.  http.NoBody can be read afterwards.
DrainAndClose(resp) ==
  [resp EXCEPT !.body = IF resp.body = "none" THEN "none" ELSE "closed"]

----------------------------------------------------------------------------
Init == /\ \E n \in MaxAttempts : maxAttempts = Clamp(n)
        /\ hasGetBody \in BOOLEAN
        /\ pc = "next"
        /\ attempt = 1
        /\ lastErr = None /\ lastResp = None
        /\ reqBody = "full"
        /\ delay = 0
        /\ ctxDone = FALSE
        /\ result = None
        /\ sent = <<>> /\ answers = <<>>

Return(resp, err) == /\ pc' = "done"
                     /\ result' = [resp |-> resp, err |-> err]

\* `if lastErr != nil { return nil, lastErr }; return lastResp, nil`
ReturnLast == Return(IF lastErr # None THEN None ELSE lastResp, lastErr)

\* The loop is over: every attempt failed transiently.
GiveUp ==
  /\ pc = "next" /\ attempt > maxAttempts
  /\ ReturnLast
  /\ UNCHANGED <<fixed, attempt, lastErr, lastResp, reqBody, delay, ctxDone,
                 sent, answers>>

\* The first attempt is sent at once.
FirstAttempt ==
  /\ pc = "next" /\ attempt <= maxAttempts /\ attempt = 1
  /\ pc' = "send"
  /\ UNCHANGED <<fixed, attempt, lastErr, lastResp, reqBody, delay, ctxDone,
                 result, sent, answers>>

\* Mutant: the body is not restored before a retry.
RewindNothing ==
  /\ pc = "next" /\ attempt <= maxAttempts /\ attempt > 1
  /\ delay' = backoff(attempt - 1)
  /\ pc' = "wait"
  /\ UNCHANGED <<fixed, attempt, lastErr, lastResp, reqBody, ctxDone, result,
                 sent, answers>>

\* A retry restores the body, where GetBody is set, and arms the timer.
Rewind ==
  /\ pc = "next" /\ attempt <= maxAttempts /\ attempt > 1
  /\ reqBody' = IF hasGetBody THEN "full" ELSE reqBody
  /\ delay' = backoff(attempt - 1)
  /\ pc' = "wait"
  /\ UNCHANGED <<fixed, attempt, lastErr, lastResp, ctxDone, result, sent,
                 answers>>

\* GetBody fails: its error is returned, whatever the last attempt gave.
RewindFails ==
  /\ pc = "next" /\ attempt <= maxAttempts /\ attempt > 1
  /\ hasGetBody
  /\ Return(None, "getbody")
  /\ UNCHANGED <<fixed, attempt, lastErr, lastResp, reqBody, delay, ctxDone,
                 sent, answers>>

\* The select in the pause: the timer, or the context (either if both).
TimerFires ==
  /\ pc = "wait"
  /\ pc' = "send"
  /\ UNCHANGED <<fixed, attempt, lastErr, lastResp, reqBody, delay, ctxDone,
                 result, sent, answers>>

\* Mutant: the pause ignores the context.
WaitIsDeaf == FALSE /\ UNCHANGED vars

WaitCancelled ==
  /\ pc = "wait" /\ ctxDone
  /\ ReturnLast
  /\ UNCHANGED <<fixed, attempt, lastErr, lastResp, reqBody, delay, ctxDone,
                 sent, answers>>

\* inner.Do reads the body.
Send ==
  /\ pc = "send"
  /\ sent' = Append(sent, reqBody)
  /\ reqBody' = "drained"
  /\ pc' = "inflight"
  /\ UNCHANGED <<fixed, attempt, lastErr, lastResp, delay, ctxDone, result,
                 answers>>

\* A final answer is returned as it came.
FinalAnswer(a) ==
  /\ ~Transient(a)
  /\ Return(a.resp, None)
  /\ UNCHANGED <<fixed, attempt, lastErr, lastResp>>

\* Mutant: an error is not forgotten when a later attempt gets a response.
TransientKeepsErr(a) ==
  /\ Transient(a)
  /\ lastErr' = IF a.err # None THEN a.err ELSE lastErr
  /\ lastResp' = IF a.err # None THEN None ELSE DrainAndClose(a.resp)
  /\ attempt' = attempt + 1
  /\ pc' = "next"
  /\ UNCHANGED result

\* A transient one is kept, its body drained and closed, and the loop goes on.
TransientAnswer(a) ==
  /\ Transient(a)
  /\ lastErr' = a.err
  /\ lastResp' = IF a.err # None THEN None ELSE DrainAndClose(a.resp)
  /\ attempt' = attempt + 1
  /\ pc' = "next"
  /\ UNCHANGED result

InnerReturns(a) ==
  /\ pc = "inflight"
  /\ a.err = "context" => ctxDone
  /\ answers' = Append(answers, a)
  /\ FinalAnswer(a) \/ TransientAnswer(a)
  /\ UNCHANGED <<fixed, reqBody, delay, ctxDone, sent>>

\* The caller cancels, or the deadline passes.
Cancel ==
  /\ ~ctxDone /\ pc # "done"
  /\ ctxDone' = TRUE
  /\ UNCHANGED <<fixed, pc, attempt, lastErr, lastResp, reqBody, delay,
                 result, sent, answers>>

\* What the call does by itself.
Internal == \/ FirstAttempt \/ Rewind \/ RewindFails \/ Send \/ GiveUp
            \/ TimerFires   \/ WaitCancelled

Next == Internal \/ Cancel \/ \E a \in Answer : InnerReturns(a)

\* The goroutine runs; a doer whose context is done answers; nothing is asked
\* of the timer or of a doer whose context is alive.
Fairness == /\ WF_vars(FirstAttempt \/ Rewind \/ RewindFails \/ Send \/ GiveUp)
            /\ WF_vars(WaitCancelled)
            /\ WF_vars(ctxDone /\ \E a \in Answer : InnerReturns(a))

Spec == Init /\ [][Next]_vars /\ Fairness
----------------------------------------------------------------------------
\* Every variable keeps to its values.
TypeOK ==
  /\ maxAttempts \in Nat \ {0} /\ hasGetBody \in BOOLEAN
  /\ pc \in {"next", "wait", "send", "inflight", "done"}
  /\ attempt \in Nat \ {0}
  /\ lastErr \in InnerErrors \cup {None}
  /\ lastResp \in Response \cup {None}
  /\ reqBody \in {"full", "drained"}
  /\ delay \in Int
  /\ ctxDone \in BOOLEAN
  /\ result \in [resp : Response \cup {None},
                 err : InnerErrors \cup {"getbody", None}] \cup {None}
  /\ sent \in Seq({"full", "drained"})
  /\ answers \in Seq(Answer)

\* What Do returns is what its LAST attempt gave, a response or an error and
\* never neither: no answer of an earlier attempt survives a later one.  (A
\* GetBody that fails has its own error returned.)
ReturnsLastAnswer ==
  result # None =>
    \/ result.err = "getbody" /\ result.resp = None
    \/ /\ answers # <<>>
       /\ LET a == answers[Len(answers)]
          IN  /\ result.err = a.err
              /\ a.err # None => result.resp = None
              /\ a.err = None => result.resp \in {a.resp, DrainAndClose(a.resp)}

\* An attempt follows only errors and 502, 503 and 504, so a PDP that gave a
\* final answer, a permit, a deny or a 500, is not asked again; and there are
\* at most maxAttempts of them, at least one being allowed.
RetriesOnlyTransient ==
  /\ \A i \in DOMAIN sent : i > 1 =>
       LET a == answers[i - 1]
       IN  a.err = None => a.resp.status \in {502, 503, 504}
  /\ Len(sent) <= maxAttempts

\* Every attempt carries the whole body when the request can give it again.
EveryAttemptCarriesBody ==
  hasGetBody => \A i \in DOMAIN sent : sent[i] = "full"

\* The pauses of one call grow until they reach the cap, and stay there, for
\* a base and a cap that can be doubled within a Duration.
BackoffGrowsToCap ==
  [][/\ pc = "next" /\ pc' = "wait"
     /\ 2 * BaseDelay < WordHalf /\ 2 * MaxDelay < WordHalf
     =>
       /\ delay' <= MaxDelay
       /\ delay' > delay \/ delay' = MaxDelay]_vars

\* A cancelled call ends, whether or not the timer ever fires and even if
\* more attempts are left.
CancelEnds == ctxDone ~> pc = "done"

\* The behaviours of Spec in which the context, if it ends, ends in a pause.
SpecCancelledInPause ==
  Init /\ [][Next /\ (ctxDone' # ctxDone => pc = "wait")]_vars /\ Fairness

\* What the doc of WithRetry says: a context that is done while waiting to
\* back off has the context error returned.
CancelReturnsContextError ==
  [][pc = "wait" /\ pc' = "done" => result'.err = "context"]_vars
=============================================================================
