----------------------- MODULE EvaluateExchangeProofs -----------------------
(***************************************************************************)
(* Proofs about EvaluateExchange: one client.Evaluate call is one decision *)
(* of the PDP or none.  What the doer and the handler keep by themselves   *)
(* is taken from their own proofs, instantiated as the exchange            *)
(* instantiates the modules.                                               *)
(***************************************************************************)
EXTENDS EvaluateExchange, TLAPS

DoerProofs == INSTANCE RetryDoerProofs WITH pc <- doerPc,
                MaxAttempts <- {Attempts}, BaseDelay <- 1, MaxDelay <- 4,
                WordHalf <- 1000

PdpProofs == INSTANCE PdpHandlerProofs WITH pc <- pdpPc,
               Requests <- 1..Attempts, IDs <- {}, Chains <- {Chain}

\* Where the call is, and what it has sent by then.
Stages ==
  /\ valid \in BOOLEAN
  /\ pep \in {"validate", "do", "done"}
  /\ outcome = None <=> pep # "done"
  /\ maxAttempts = Attempts
  /\ pep = "validate" \/ ~valid => sent = <<>>
  /\ ~valid => pep # "do"

\* Every answer has its content, and nothing but the PDP says a decision with
\* a 2xx.
Genuine ==
  /\ contents \in Seq(Contents \cup {None}) /\ Len(contents) = Len(answers)
  /\ \A k \in DOMAIN contents :
       contents[k] \in {"permit", "deny"} /\ answers[k].resp.status \in 200..299 =>
         wire[k] # None /\ wire[k].body = contents[k]

\* The PDP has seen no attempt that was not sent.
Unsent == \A k \in 1..Attempts : k \notin DOMAIN sent => pdpPc[k] = "new"

\* What the handler makes of a verdict.
WireStatus(v) == IF v \in Pdp!Responses THEN 200 ELSE Pdp!ErrorStatus(v)
WireBody(v) == IF v \in Pdp!Responses THEN Pdp!Encoded(v) ELSE "text"

\* A verdict is on the wire as soon as there is one; what the PDP writes without
\* one is text.
Shown ==
  \A k \in 1..Attempts :
    /\ verdict[k] # None => /\ wire[k] # None
                            /\ wire[k].status = WireStatus(verdict[k])
                            /\ wire[k].body = WireBody(verdict[k])
    /\ wire[k] # None /\ verdict[k] = None => wire[k].body = "text"

\* What Evaluate returns for a status and a body.
Judgement(status, content) ==
  IF status \notin 200..299
  THEN [decision |-> None, err |-> "status", code |-> status]
  ELSE IF Decoded(content) = None
  THEN [decision |-> None, err |-> "decode", code |-> None]
  ELSE [decision |-> Decoded(content), err |-> None, code |-> None]

\* The call ended without an answer, or with a judgement of the last one.
Failed == \E err \in {"build", "do", "read", "closed"} :
            outcome = [decision |-> None, err |-> err, code |-> None]
Judged == /\ answers # <<>> /\ answers[Len(answers)].err = None
          /\ outcome = Judgement(answers[Len(answers)].resp.status,
                                 contents[Len(answers)])

Ended ==
  outcome # None =>
    IF valid THEN Failed \/ Judged
    ELSE outcome = [decision |-> None, err |-> "invalid", code |-> None]

IInv == /\ DoerProofs!IInv
        /\ PdpProofs!IInv
        /\ Stages /\ Genuine /\ Unsent /\ Shown /\ Ended
----------------------------------------------------------------------------
\* The assumptions of the doer's and of the handler's proofs.
LEMMA DoerAssumptions ==
  /\ {Attempts} \subseteq Int
  /\ 1 \in Nat \ {0} /\ 4 \in Nat \ {0}
  /\ Statuses \subseteq 100..599
  /\ 1000 \in Nat \ {0}
  /\ None \notin DoerProofs!InnerErrors \cup {"getbody"}
  BY ExchangeAssumption, AbsenceAssumption, SMT
  DEF Statuses, DoerProofs!InnerErrors, Doer!InnerErrors

LEMMA PdpAssumptions ==
  /\ {Chain} \subseteq Seq(PdpProofs!Layer)
  /\ None \notin {} \cup PdpProofs!Request \cup PdpProofs!Responses
                 \cup PdpProofs!DeciderErrors \cup PdpProofs!Committed
  BY ExchangeAssumption, AbsenceAssumption
  DEF PdpProofs!Layer, Pdp!Layer, PdpProofs!Request, Pdp!Request, Verdicts,
      PdpProofs!Responses, Pdp!Responses, PdpProofs!DeciderErrors, Pdp!DeciderErrors,
      PdpProofs!Committed, Pdp!Committed

\* The exchange's steps of the doer are those its proofs are about.
LEMMA DoerSteps ==
  /\ Doer!Init => DoerProofs!Init
  /\ Doer!Internal => DoerProofs!Internal
  /\ Doer!Cancel => DoerProofs!Cancel
  /\ \A a : Doer!InnerReturns(a) => DoerProofs!InnerReturns(a)
<1>1. Doer!Init => DoerProofs!Init
  BY DEF Doer!Init, DoerProofs!Init, Doer!Clamp, DoerProofs!Clamp
<1>2. Doer!FirstAttempt => DoerProofs!FirstAttempt
  BY DEF Doer!FirstAttempt, DoerProofs!FirstAttempt, Doer!fixed, DoerProofs!fixed
<1>3. Doer!Rewind => DoerProofs!Rewind
  BY DEF Doer!Rewind, DoerProofs!Rewind, Doer!fixed, DoerProofs!fixed,
         Doer!backoff, DoerProofs!backoff, Doer!Int64, DoerProofs!Int64
<1>4. Doer!RewindFails => DoerProofs!RewindFails
  BY DEF Doer!RewindFails, DoerProofs!RewindFails, Doer!fixed, DoerProofs!fixed,
         Doer!Return, DoerProofs!Return
<1>5. Doer!Send => DoerProofs!Send
  BY DEF Doer!Send, DoerProofs!Send, Doer!fixed, DoerProofs!fixed
<1>6. Doer!GiveUp => DoerProofs!GiveUp
  BY DEF Doer!GiveUp, DoerProofs!GiveUp, Doer!fixed, DoerProofs!fixed,
         Doer!ReturnLast, DoerProofs!ReturnLast, Doer!Return, DoerProofs!Return
<1>7. Doer!TimerFires => DoerProofs!TimerFires
  BY DEF Doer!TimerFires, DoerProofs!TimerFires, Doer!fixed, DoerProofs!fixed
<1>8. Doer!WaitCancelled => DoerProofs!WaitCancelled
  BY DEF Doer!WaitCancelled, DoerProofs!WaitCancelled, Doer!fixed, DoerProofs!fixed,
         Doer!ReturnLast, DoerProofs!ReturnLast, Doer!Return, DoerProofs!Return
<1>9. Doer!Cancel => DoerProofs!Cancel
  BY DEF Doer!Cancel, DoerProofs!Cancel, Doer!fixed, DoerProofs!fixed
<1>10. ASSUME NEW a, Doer!InnerReturns(a) PROVE DoerProofs!InnerReturns(a)
  BY <1>10
  DEF Doer!InnerReturns, DoerProofs!InnerReturns, Doer!fixed, DoerProofs!fixed,
      Doer!FinalAnswer, DoerProofs!FinalAnswer, Doer!TransientAnswer,
      DoerProofs!TransientAnswer, Doer!Transient, DoerProofs!Transient,
      Doer!shouldRetryStatus, DoerProofs!shouldRetryStatus, Doer!Return,
      DoerProofs!Return, Doer!DrainAndClose, DoerProofs!DrainAndClose
<1> QED
  BY <1>1, <1>2, <1>3, <1>4, <1>5, <1>6, <1>7, <1>8, <1>9, <1>10
  DEF Doer!Internal, DoerProofs!Internal

\* ... and so are its steps of the handler.
LEMMA PdpSteps ==
  /\ Pdp!Init => PdpProofs!Init
  /\ \A k : Pdp!Serve(k) => PdpProofs!Serve(k)
  /\ \A k : Pdp!Panic(k) => PdpProofs!Panic(k)
  /\ \A k, q : Pdp!Arrive(k, q) => PdpProofs!Arrive(k, q)
  /\ \A k, v : Pdp!Decide(k, v) => PdpProofs!Decide(k, v)
<1> USE DEF Pdp!Goto, PdpProofs!Goto, Pdp!Write, PdpProofs!Write
<1>1. Pdp!Init => PdpProofs!Init
  BY DEF Pdp!Init, PdpProofs!Init
<1>2. ASSUME NEW k, Pdp!Serve(k) PROVE PdpProofs!Serve(k)
  <2>1. CASE Pdp!Enter(k)
    BY <2>1 DEF Pdp!Enter, PdpProofs!Enter, PdpProofs!Serve
  <2>2. CASE Pdp!NoRoute(k)
    BY <2>2 DEF Pdp!NoRoute, PdpProofs!NoRoute, Pdp!AtMux, PdpProofs!AtMux,
                PdpProofs!Serve
  <2>3. CASE Pdp!Malformed(k)
    BY <2>3 DEF Pdp!Malformed, PdpProofs!Malformed, Pdp!AtMux, PdpProofs!AtMux,
                Pdp!ErrorStatus, PdpProofs!ErrorStatus, Pdp!IsNotImplemented,
                PdpProofs!IsNotImplemented, PdpProofs!Serve
  <2>4. CASE Pdp!CallDecider(k)
    BY <2>4 DEF Pdp!CallDecider, PdpProofs!CallDecider, Pdp!AtMux, PdpProofs!AtMux,
                PdpProofs!Serve
  <2>5. CASE Pdp!Leave(k)
    BY <2>5 DEF Pdp!Leave, PdpProofs!Leave, PdpProofs!Serve
  <2>6. CASE Pdp!Finish(k)
    BY <2>6 DEF Pdp!Finish, PdpProofs!Finish, PdpProofs!Serve
  <2> QED
    BY <1>2, <2>1, <2>2, <2>3, <2>4, <2>5, <2>6 DEF Pdp!Serve
<1>3. ASSUME NEW k, Pdp!Panic(k) PROVE PdpProofs!Panic(k)
  BY <1>3 DEF Pdp!Panic, PdpProofs!Panic
<1>4. ASSUME NEW k, NEW q, Pdp!Arrive(k, q) PROVE PdpProofs!Arrive(k, q)
  BY <1>4 DEF Pdp!Arrive, PdpProofs!Arrive
<1>5. ASSUME NEW k, NEW v, Pdp!Decide(k, v) PROVE PdpProofs!Decide(k, v)
  BY <1>5 DEF Pdp!Decide, PdpProofs!Decide, Pdp!Responses, PdpProofs!Responses,
              Pdp!DeciderErrors, PdpProofs!DeciderErrors, Pdp!Encoded,
              PdpProofs!Encoded, Pdp!ErrorStatus, PdpProofs!ErrorStatus,
              Pdp!IsNotImplemented, PdpProofs!IsNotImplemented
<1> QED
  BY <1>1, <1>2, <1>3, <1>4, <1>5
----------------------------------------------------------------------------
\* The doer's invariant is kept by what the exchange does to the doer.
LEMMA DoerKeeps ==
  ASSUME DoerProofs!IInv,
         \/ Doer!Internal \/ Doer!Cancel
         \/ \E a \in Doer!Answer : Doer!InnerReturns(a)
         \/ UNCHANGED doerVars
  PROVE  DoerProofs!IInv'
<1>1. Doer!Answer = DoerProofs!Answer
  BY DEF Doer!Answer, DoerProofs!Answer, Doer!InnerErrors, DoerProofs!InnerErrors
<1>2. UNCHANGED doerVars => UNCHANGED DoerProofs!vars
  BY DEF doerVars, DoerProofs!vars, DoerProofs!fixed
<1>3. [DoerProofs!Next]_(DoerProofs!vars)
  BY <1>1, <1>2, DoerSteps DEF DoerProofs!Next
<1> QED
  BY <1>3, DoerAssumptions, DoerProofs!StepInv

\* The handler's invariant is kept by what the exchange does to the handler.
LEMMA PdpKeeps ==
  ASSUME PdpProofs!IInv,
         \/ \E k \in 1..Attempts :
              \/ \E q \in Pdp!Request : Pdp!Arrive(k, q)
              \/ Pdp!Serve(k) \/ Pdp!Panic(k)
              \/ \E v \in Verdicts : Pdp!Decide(k, v)
         \/ UNCHANGED pdpVars
  PROVE  PdpProofs!IInv'
<1>1. Pdp!Request = PdpProofs!Request
      /\ Verdicts = PdpProofs!Responses \cup PdpProofs!DeciderErrors
  BY DEF Pdp!Request, PdpProofs!Request, Verdicts, Pdp!Responses,
         PdpProofs!Responses, Pdp!DeciderErrors, PdpProofs!DeciderErrors
<1>2. UNCHANGED pdpVars => UNCHANGED PdpProofs!vars
  BY DEF pdpVars, PdpProofs!vars
<1>3. [PdpProofs!Next]_(PdpProofs!vars)
  BY <1>1, <1>2, PdpSteps DEF PdpProofs!Next
<1> QED
  BY <1>3, PdpAssumptions, PdpProofs!StepInv

\* What is used of the doer's invariant.
LEMMA DoerFacts ==
  ASSUME IInv
  PROVE  /\ answers \in Seq(Doer!Answer) /\ sent \in Seq({"full", "drained"})
         /\ Len(answers) \in Nat /\ Len(sent) \in Nat
         /\ Len(answers) <= Len(sent) /\ Len(sent) <= Attempts
         /\ doerPc = "inflight" =>
              attempt = Len(answers) + 1 /\ attempt = Len(sent)
         /\ attempt \in Nat
<1>1. Doer!Answer = DoerProofs!Answer
  BY DEF Doer!Answer, DoerProofs!Answer, Doer!InnerErrors, DoerProofs!InnerErrors
<1>2. answers \in Seq(Doer!Answer) /\ sent \in Seq({"full", "drained"})
      /\ attempt \in Nat
  BY <1>1 DEF IInv, DoerProofs!IInv, DoerProofs!TypeOK
<1>3. Len(sent) <= Attempts
  BY DEF IInv, DoerProofs!IInv, DoerProofs!RetriesOnlyTransient, Stages
<1>4. /\ Len(sent) = Len(answers) + (IF doerPc = "inflight" THEN 1 ELSE 0)
      /\ doerPc # "done" => attempt = Len(answers) + 1
  BY DEF IInv, DoerProofs!IInv, DoerProofs!LoopCounts
<1>5. Len(answers) \in Nat /\ Len(sent) \in Nat
  BY <1>2
<1> QED
  BY <1>2, <1>3, <1>4, <1>5, SMT

\* What is used of the handler's invariant.
LEMMA PdpFacts ==
  ASSUME IInv, NEW k \in 1..Attempts
  PROVE  /\ pdpPc[k] \notin {"out", "done"} => wire[k] = None /\ verdict[k] = None
         /\ wire[k] # None /\ wire[k].body \in {"permit", "deny"} =>
              verdict[k] \in {"permit", "deny"}
         /\ wire[k] # None => wire[k] \in Pdp!Committed
         /\ pdpPc[k] \in {"out", "done"} => wire[k] # None
         /\ wire = [i \in 1..Attempts |-> wire[i]]
         /\ verdict = [i \in 1..Attempts |-> verdict[i]]
         /\ pdpPc = [i \in 1..Attempts |-> pdpPc[i]]
<1>1. PdpProofs!Committed = Pdp!Committed
  BY DEF PdpProofs!Committed, Pdp!Committed
<1>2. PdpProofs!TypeOK /\ PdpProofs!NoTraceYet /\ PdpProofs!AllFit
  BY DEF IInv, PdpProofs!IInv
<1>3. pdpPc[k] \notin {"out", "done"} => wire[k] = None /\ verdict[k] = None
  BY <1>2 DEF PdpProofs!NoTraceYet, PdpProofs!Written
<1>4. wire[k] # None => PdpProofs!Fits(req[k], verdict[k], wire[k])
  BY <1>2, Zenon DEF PdpProofs!AllFit
<1>5. wire[k] # None /\ wire[k].body \in {"permit", "deny"} =>
        verdict[k] \in {"permit", "deny"}
  BY <1>4, Zenon DEF PdpProofs!Fits
<1>6. /\ wire[k] # None => wire[k] \in Pdp!Committed
      /\ wire = [i \in 1..Attempts |-> wire[i]]
      /\ verdict = [i \in 1..Attempts |-> verdict[i]]
      /\ pdpPc = [i \in 1..Attempts |-> pdpPc[i]]
  BY <1>1, <1>2, SMT DEF PdpProofs!TypeOK
<1>7. pdpPc[k] \in {"out", "done"} => wire[k] # None
  BY AbsenceAssumption, <1>1, Zenon
  DEF IInv, PdpProofs!IInv, PdpProofs!ArrivedAndWritten, PdpProofs!Written
<1> QED
  BY <1>3, <1>5, <1>6, <1>7
----------------------------------------------------------------------------
\* The first state.
LEMMA Initially == ASSUME Init PROVE IInv
<1>1. DoerProofs!IInv
  BY DoerSteps, DoerAssumptions, DoerProofs!InitInv DEF Init
<1>2. PdpProofs!IInv
  BY PdpSteps, PdpAssumptions, PdpProofs!InitInv DEF Init
<1>3. maxAttempts = Attempts
  BY ExchangeAssumption, SMT DEF Init, Doer!Init, Doer!Clamp
<1>4. valid \in BOOLEAN
  BY Zenon DEF Init
<1>5. Stages /\ Ended
  BY <1>3, <1>4, SMT DEF Init, Doer!Init, Stages, Ended
<1>6. Genuine
  BY SMT DEF Init, Doer!Init, Genuine
<1>7. Unsent /\ Shown
  BY SMT DEF Init, Doer!Init, Pdp!Init, Unsent, Shown
<1> QED
  BY <1>1, <1>2, <1>5, <1>6, <1>7 DEF IInv

\* What was returned is not nil.
LEMMA OutcomeExists ==
  ASSUME NEW decision \in {"permit", "deny", None}, NEW err \in Failures \cup {None},
         NEW code \in Statuses \cup {None}
  PROVE  [decision |-> decision, err |-> err, code |-> code] \in Outcomes \ {None}
  BY AbsenceAssumption DEF Outcomes

\* Evaluate returns: nothing else moves.
LEMMA ReturnKeeps ==
  ASSUME IInv, NEW decision, NEW err, NEW code, Return(decision, err, code),
         outcome' # None, Ended', valid \/ pep = "validate"
  PROVE  IInv'
<1>1. UNCHANGED <<valid, contents, doerVars, pdpVars>> /\ pep' = "done"
  BY DEF Return
<1>2. DoerProofs!IInv' /\ PdpProofs!IInv'
  BY <1>1, DoerKeeps, PdpKeeps DEF IInv
<1>3. Stages'
  BY <1>1, Zenon DEF IInv, Stages, doerVars
<1>4. Genuine' /\ Unsent' /\ Shown'
  BY <1>1 DEF IInv, Genuine, Unsent, Shown, doerVars, pdpVars
<1> QED
  BY <1>2, <1>3, <1>4 DEF IInv

LEMMA ValidateKeeps ==
  ASSUME IInv, Validate
  PROVE  IInv'
<1>1. CASE valid
  <2>1. /\ pep = "validate" /\ pep' = "do"
        /\ UNCHANGED <<valid, outcome, contents, doerVars, pdpVars>>
    BY <1>1 DEF Validate
  <2>2. DoerProofs!IInv' /\ PdpProofs!IInv'
    BY <2>1, DoerKeeps, PdpKeeps DEF IInv
  <2>3. Stages'
    BY <1>1, <2>1, Zenon DEF IInv, Stages, doerVars
  <2>4. Genuine' /\ Unsent' /\ Shown' /\ Ended'
    BY <2>1 DEF IInv, Genuine, Unsent, Shown, Ended, Failed, Judged, doerVars, pdpVars
  <2> QED
    BY <2>2, <2>3, <2>4 DEF IInv
<1>2. CASE ~valid
  <2>1. Return(None, "invalid", None) /\ pep = "validate"
    BY <1>2 DEF Validate
  <2>2. outcome' = [decision |-> None, err |-> "invalid", code |-> None]
        /\ ~valid'
    BY <1>2, <2>1 DEF Return
  <2>3. outcome' # None /\ Ended'
    <3>1. None # [decision |-> None, err |-> "invalid", code |-> None]
      BY OutcomeExists DEF Failures
    <3> QED
      BY <2>2, <3>1 DEF Ended
  <2> QED
    BY <2>1, <2>3, ReturnKeeps
<1> QED
  BY <1>1, <1>2

\* The doer moves by itself, while Evaluate waits for it.
LEMMA DoerMoves ==
  ASSUME IInv, (pep = "do" /\ Doer!Internal) \/ Doer!Cancel,
         UNCHANGED <<pepVars, pdpVars>>
  PROVE  IInv'
<1>1. DoerProofs!IInv' /\ PdpProofs!IInv'
  BY DoerKeeps, PdpKeeps DEF IInv
<1>2. /\ answers' = answers /\ maxAttempts' = maxAttempts
      /\ sent' = sent \/ (pep = "do" /\ sent' = Append(sent, reqBody))
  BY DEF Doer!Internal, Doer!FirstAttempt, Doer!Rewind, Doer!RewindFails, Doer!Send,
         Doer!GiveUp, Doer!TimerFires, Doer!WaitCancelled, Doer!Cancel, Doer!fixed
<1>3. DOMAIN sent \subseteq DOMAIN sent'
  BY <1>2, DoerFacts
<1>4. Stages'
  BY <1>2, Zenon DEF IInv, Stages, pepVars
<1>5. Genuine' /\ Shown' /\ Ended'
  BY <1>2 DEF IInv, Genuine, Shown, Ended, Failed, Judged, pepVars, pdpVars
<1>6. Unsent'
  BY <1>3 DEF IInv, Unsent, pdpVars
<1> QED
  BY <1>1, <1>4, <1>5, <1>6 DEF IInv

\* What Append makes of a sequence.
LEMMA Appended ==
  ASSUME NEW S, NEW s \in Seq(S), NEW e \in S
  PROVE  /\ Append(s, e) \in Seq(S)
         /\ DOMAIN s = 1..Len(s) /\ DOMAIN Append(s, e) = 1..(Len(s) + 1)
         /\ Len(Append(s, e)) = Len(s) + 1 /\ Len(s) \in Nat
         /\ \A k \in 1..Len(s) : Append(s, e)[k] = s[k]
         /\ Append(s, e)[Len(s) + 1] = e
  OBVIOUS

\* An attempt is answered: if with a decision, with the one the PDP wrote.
LEMMA AnsweredKeeps ==
  ASSUME IInv, NEW a \in Doer!Answer, NEW content \in Contents \cup {None},
         Answered(a, content),
         content \in {"permit", "deny"} /\ a.resp.status \in 200..299 =>
           wire[attempt] # None /\ wire[attempt].body = content
  PROVE  IInv'
<1>1. /\ pep = "do" /\ Doer!InnerReturns(a)
      /\ contents' = Append(contents, content)
      /\ UNCHANGED <<valid, pep, outcome, pdpVars>>
  BY DEF Answered
<1>2. DoerProofs!IInv' /\ PdpProofs!IInv'
  BY <1>1, DoerKeeps, PdpKeeps DEF IInv
<1>3. /\ doerPc = "inflight" /\ answers' = Append(answers, a) /\ sent' = sent
      /\ maxAttempts' = maxAttempts
  BY <1>1 DEF Doer!InnerReturns, Doer!fixed
<1>4. Stages' /\ outcome = None
  BY <1>1, <1>3, Zenon DEF IInv, Stages
<1>5. Genuine'
  <2>1. /\ contents' \in Seq(Contents \cup {None})
        /\ Len(contents') = Len(contents) + 1 /\ Len(answers') = Len(answers) + 1
        /\ \A k \in 1..Len(contents) : contents'[k] = contents[k]
        /\ contents'[Len(contents) + 1] = content
        /\ Len(contents) = Len(answers) /\ Len(contents) \in Nat
        /\ \A k \in 1..Len(contents) : answers'[k] = answers[k]
        /\ answers'[Len(contents) + 1] = a
        /\ DOMAIN contents = 1..Len(contents)
        /\ DOMAIN contents' = 1..(Len(contents) + 1)
    <3>1. /\ contents \in Seq(Contents \cup {None}) /\ Len(contents) = Len(answers)
          /\ answers \in Seq(Doer!Answer)
      BY DoerFacts DEF IInv, Genuine
    <3>2. /\ contents' \in Seq(Contents \cup {None})
          /\ DOMAIN contents = 1..Len(contents)
          /\ DOMAIN contents' = 1..(Len(contents) + 1)
          /\ Len(contents') = Len(contents) + 1 /\ Len(contents) \in Nat
          /\ \A k \in 1..Len(contents) : contents'[k] = contents[k]
          /\ contents'[Len(contents) + 1] = content
      <4> DEFINE S == Contents \cup {None}
      <4>1. content \in S /\ contents \in Seq(S)
        BY <3>1
      <4> HIDE DEF S
      <4>2. contents' = Append(contents, content)
        BY <1>1
      <4>3. /\ contents' \in Seq(S)
            /\ DOMAIN contents = 1..Len(contents)
            /\ DOMAIN contents' = 1..(Len(contents) + 1)
            /\ Len(contents') = Len(contents) + 1 /\ Len(contents) \in Nat
            /\ \A k \in 1..Len(contents) : contents'[k] = contents[k]
            /\ contents'[Len(contents) + 1] = content
        BY <4>1, <4>2, Appended
      <4> QED
        BY <4>3 DEF S
    <3>3. /\ Len(answers') = Len(answers) + 1
          /\ \A k \in 1..Len(answers) : answers'[k] = answers[k]
          /\ answers'[Len(answers) + 1] = a
      <4>1. answers' = Append(answers, a) /\ answers \in Seq(Doer!Answer)
        BY <1>3, <3>1
      <4> QED
        BY <4>1, Appended
    <3> QED
      BY <3>1, <3>2, <3>3
  <2>2. attempt = Len(contents) + 1
    BY <1>3, <2>1, DoerFacts
  <2>3. wire' = wire
    BY <1>1 DEF pdpVars
  <2>4. ASSUME NEW k \in DOMAIN contents', contents'[k] \in {"permit", "deny"},
               answers'[k].resp.status \in 200..299
        PROVE  wire'[k] # None /\ wire'[k].body = contents'[k]
    <3>1. CASE k = attempt
      BY <2>1, <2>2, <2>3, <2>4, <3>1
    <3>2. CASE k # attempt
      <4>1. /\ k \in DOMAIN contents /\ contents'[k] = contents[k]
            /\ answers'[k] = answers[k]
        <5>1. k \in 1..Len(contents)
          <6>1. k \in 1..(Len(contents) + 1) /\ Len(contents) \in Nat
            BY <2>1, Zenon
          <6> QED
            BY <2>2, <3>2, <6>1
        <5> QED
          BY <2>1, <5>1
      <4>2. contents[k] \in {"permit", "deny"} /\ answers[k].resp.status \in 200..299
        BY <2>4, <4>1
      <4> QED
        BY <2>3, <4>1, <4>2 DEF IInv, Genuine
    <3> QED
      BY <3>1, <3>2
  <2> QED
    BY <2>1, <2>4 DEF Genuine
<1>6. Unsent' /\ Shown' /\ Ended'
  BY <1>1, <1>3, <1>4 DEF IInv, Unsent, Shown, Ended, pdpVars
<1> QED
  BY <1>2, <1>4, <1>5, <1>6 DEF IInv

\* The PDP's handler of attempt k and nothing else moves; what it has written
\* stays, and it writes what becomes of a verdict together with it.
LEMMA PdpEffect ==
  ASSUME IInv, NEW k \in 1..Attempts,
         \/ \E q \in Pdp!Request : Pdp!Arrive(k, q)
         \/ Pdp!Serve(k) \/ Pdp!Panic(k)
         \/ \E v \in Verdicts : Pdp!Decide(k, v)
  PROVE  /\ \A i \in (1..Attempts) \ {k} :
              /\ wire'[i] = wire[i] /\ verdict'[i] = verdict[i]
              /\ pdpPc'[i] = pdpPc[i]
         /\ wire[k] # None => wire'[k] = wire[k] /\ verdict'[k] = verdict[k]
         /\ wire[k] = None /\ verdict'[k] # None =>
              /\ pdpPc[k] = "decide" /\ pdpPc'[k] = "out"
              /\ verdict[k] = None /\ verdict'[k] \in Verdicts
              /\ wire'[k].status = WireStatus(verdict'[k])
              /\ wire'[k].body = WireBody(verdict'[k])
         /\ wire[k] = None /\ wire'[k] # None /\ verdict'[k] = None =>
              wire'[k].body = "text"
<1> DEFINE A == 1..Attempts
<1>1. /\ wire = [i \in A |-> wire[i]] /\ verdict = [i \in A |-> verdict[i]]
      /\ pdpPc = [i \in A |-> pdpPc[i]] /\ k \in A
      /\ pdpPc[k] \notin {"out", "done"} => wire[k] = None /\ verdict[k] = None
      /\ wire[k] = None => pdpPc[k] \notin {"out", "done"}
  BY PdpFacts
<1> HIDE DEF A
<1> USE DEF Pdp!Goto, Pdp!Write
<1>2. CASE \E q \in Pdp!Request : Pdp!Arrive(k, q)
  BY <1>1, <1>2 DEF Pdp!Arrive, A
<1>3. CASE Pdp!Enter(k) \/ Pdp!CallDecider(k) \/ Pdp!Panic(k)
  BY <1>1, <1>3 DEF Pdp!Enter, Pdp!CallDecider, Pdp!Panic, Pdp!AtMux, A
<1>4. CASE Pdp!Leave(k) \/ Pdp!Finish(k)
  BY <1>1, <1>4 DEF Pdp!Leave, Pdp!Finish, A
<1>5. CASE Pdp!NoRoute(k) \/ Pdp!Malformed(k)
  <2>1. PICK status : wire' = [wire EXCEPT ![k] = [status |-> status, id |-> header[k],
                                                  body |-> "text"]]
    BY <1>5, ZenonT(40) DEF Pdp!NoRoute, Pdp!Malformed
  <2>2. /\ wire'[k].body = "text" /\ verdict' = verdict
        /\ \A i \in A \ {k} : wire'[i] = wire[i] /\ pdpPc'[i] = pdpPc[i]
    BY <1>1, <1>5, <2>1 DEF Pdp!NoRoute, Pdp!Malformed
  <2>3. wire[k] = None /\ verdict[k] = None
    BY <1>1, <1>5 DEF Pdp!NoRoute, Pdp!Malformed
  <2> QED
    BY <2>2, <2>3 DEF A
<1>6. ASSUME NEW v \in Verdicts, Pdp!Decide(k, v)
      PROVE  /\ pdpPc[k] = "decide" /\ pdpPc' = [pdpPc EXCEPT ![k] = "out"]
             /\ verdict' = [verdict EXCEPT ![k] = v]
             /\ wire' = [wire EXCEPT ![k] = [status |-> WireStatus(v),
                                             id |-> header[k],
                                             body |-> WireBody(v)]]
  <2>1. v \in Pdp!Responses => v \notin Pdp!DeciderErrors
    BY DEF Pdp!Responses, Pdp!DeciderErrors
  <2> QED
    BY <1>6, <2>1 DEF Pdp!Decide, WireStatus, WireBody
<1>7. CASE \E v \in Verdicts : Pdp!Decide(k, v)
  <2>1. PICK v \in Verdicts : Pdp!Decide(k, v)
    BY <1>7
  <2> DEFINE w == [status |-> WireStatus(v), id |-> header[k], body |-> WireBody(v)]
  <2>2. w.status = WireStatus(v) /\ w.body = WireBody(v)
    OBVIOUS
  <2> HIDE DEF w
  <2>3. /\ pdpPc[k] = "decide" /\ pdpPc' = [pdpPc EXCEPT ![k] = "out"]
        /\ verdict' = [verdict EXCEPT ![k] = v]
        /\ wire' = [wire EXCEPT ![k] = w]
    BY <1>6, <2>1 DEF w
  <2>4. /\ pdpPc'[k] = "out" /\ verdict'[k] = v /\ wire'[k] = w
        /\ \A i \in A \ {k} : /\ wire'[i] = wire[i] /\ verdict'[i] = verdict[i]
                              /\ pdpPc'[i] = pdpPc[i]
    BY <1>1, <2>3
  <2>5. wire[k] = None /\ verdict[k] = None /\ v # None
    BY <1>1, <2>3, AbsenceAssumption
  <2> QED
    BY <2>2, <2>3, <2>4, <2>5 DEF A
<1> QED
  BY <1>2, <1>3, <1>4, <1>5, <1>7 DEF Pdp!Serve

\* The PDP moves: attempt k arrives, if it was sent, is served, or is decided.
LEMMA PdpMoves ==
  ASSUME IInv, NEW k \in 1..Attempts,
         \/ \E q \in Pdp!Request : k \in DOMAIN sent /\ Pdp!Arrive(k, q)
         \/ Pdp!Serve(k) \/ Pdp!Panic(k)
         \/ \E v \in Verdicts : Pdp!Decide(k, v),
         UNCHANGED <<pepVars, doerVars>>
  PROVE  IInv'
<1>1. DoerProofs!IInv' /\ PdpProofs!IInv'
  BY DoerKeeps, PdpKeeps DEF IInv
<1>2. Stages'
  BY Zenon DEF IInv, Stages, pepVars, doerVars
<1>3. \A i \in 1..Attempts :
        /\ wire[i] # None => wire'[i] = wire[i] /\ verdict'[i] = verdict[i]
        /\ i # k => /\ wire'[i] = wire[i] /\ verdict'[i] = verdict[i]
                    /\ pdpPc'[i] = pdpPc[i]
  BY PdpEffect
<1>4. Genuine'
  <2>1. DOMAIN contents \subseteq 1..Attempts
    BY DoerFacts, ExchangeAssumption DEF IInv, Genuine
  <2> QED
    BY <1>3, <2>1 DEF IInv, Genuine, pepVars, doerVars
<1>5. Unsent'
  <2>1. k \in DOMAIN sent \/ pdpPc[k] # "new"
    BY DEF Pdp!Serve, Pdp!Enter, Pdp!NoRoute, Pdp!Malformed, Pdp!CallDecider,
           Pdp!Leave, Pdp!Finish, Pdp!Panic, Pdp!Decide, Pdp!AtMux, Pdp!Goto, Pdp!Write
  <2> QED
    BY <1>3, <2>1 DEF IInv, Unsent, doerVars
<1>6. Shown'
  <2>1. ASSUME NEW i \in 1..Attempts, wire[i] # None \/ i # k
        PROVE  /\ verdict'[i] # None =>
                    /\ wire'[i] # None
                    /\ wire'[i].status = WireStatus(verdict'[i])
                    /\ wire'[i].body = WireBody(verdict'[i])
               /\ wire'[i] # None /\ verdict'[i] = None => wire'[i].body = "text"
    BY <1>3, <2>1 DEF IInv, Shown
  <2>2. CASE wire[k] = None
    <3>1. ASSUME verdict'[k] # None
          PROVE  /\ wire'[k] # None
                 /\ wire'[k].status = WireStatus(verdict'[k])
                 /\ wire'[k].body = WireBody(verdict'[k])
      <4>1. /\ pdpPc'[k] = "out" /\ wire'[k].status = WireStatus(verdict'[k])
            /\ wire'[k].body = WireBody(verdict'[k])
        BY <2>2, <3>1, PdpEffect
      <4>2. PdpProofs!ArrivedAndWritten'
        BY <1>1 DEF PdpProofs!IInv
      <4>3. wire'[k] \in PdpProofs!Committed
        BY <4>1, <4>2, Zenon DEF PdpProofs!ArrivedAndWritten, PdpProofs!Written
      <4>4. wire'[k] # None
        BY <4>3, PdpAssumptions
      <4> QED
        BY <4>1, <4>4
    <3>2. wire'[k] # None /\ verdict'[k] = None => wire'[k].body = "text"
      BY <2>2, PdpEffect
    <3> QED
      BY <2>1, <3>1, <3>2 DEF Shown
  <2> QED
    BY <2>1, <2>2 DEF Shown
<1>7. Ended'
  BY DEF IInv, Ended, Failed, Judged, pepVars, doerVars
<1> QED
  BY <1>1, <1>2, <1>4, <1>5, <1>6, <1>7 DEF IInv

\* How Evaluate returns an error, or the judgement of the last answer.
LEMMA DecodedValues ==
  \A content : /\ Decoded(content) \in {"permit", "deny", None}
               /\ Decoded(content) = "permit" <=> content = "permit"
               /\ Decoded(content) = "deny" <=> content \in {"deny", "null"}
  BY AbsenceAssumption DEF Decoded, Contents

LEMMA FailKeeps ==
  ASSUME IInv, valid, NEW err \in {"build", "do", "read", "closed"},
         Return(None, err, None)
  PROVE  IInv'
<1>1. outcome' = [decision |-> None, err |-> err, code |-> None]
      /\ valid' = valid
  BY DEF Return
<1>2. outcome' # None
  BY <1>1, OutcomeExists DEF Failures
<1>3. Ended'
  BY <1>1, Zenon DEF Ended, Failed
<1> QED
  BY <1>1, <1>2, <1>3, ReturnKeeps

LEMMA JudgeKeeps ==
  ASSUME IInv, ReadAndJudge
  PROVE  IInv'
<1> DEFINE a == answers[Len(answers)]
           content == contents[Len(contents)]
<1>1. /\ pep = "do" /\ result # None /\ result.resp # None
      /\ Judge(result.resp.status, content)
  BY DEF ReadAndJudge
<1>2. /\ answers # <<>> /\ a.err = None
      /\ result.resp \in {a.resp, Doer!DrainAndClose(a.resp)}
  BY <1>1, Zenon
  DEF IInv, DoerProofs!IInv, DoerProofs!ReturnsLastAnswer,
      DoerProofs!DrainAndClose, Doer!DrainAndClose
<1>3. a \in Doer!Answer
  BY <1>2, DoerFacts
<1>4. a.resp \in [status : Statuses, body : {"none", "open"}]
  BY <1>2, <1>3, AbsenceAssumption DEF Doer!Answer
<1>5. result.resp.status = a.resp.status /\ a.resp.status \in Statuses
  BY <1>2, <1>4 DEF Doer!DrainAndClose
<1>6. content = contents[Len(answers)]
  BY DEF IInv, Genuine
<1>7. /\ UNCHANGED <<valid, contents, doerVars, pdpVars>> /\ pep' = "done"
      /\ outcome' = Judgement(a.resp.status, content)
  BY <1>1, <1>5 DEF Judge, Judgement, Return
<1>8. Judged'
  BY <1>2, <1>6, <1>7 DEF Judged, doerVars, Judgement
<1>9. valid /\ Ended'
  <2>1. valid /\ valid' = valid
    BY <1>1, <1>7 DEF IInv, Stages
  <2> QED
    BY <1>8, <2>1, Zenon DEF Ended
<1>10. outcome' \in Outcomes \ {None}
  <2>1. Decoded(content) \in {"permit", "deny", None}
    BY DecodedValues
  <2> QED
    BY <1>5, <1>7, <2>1, OutcomeExists DEF Judgement, Failures
<1>11. CASE result.resp.status \notin 200..299
  <2>1. Return(None, "status", result.resp.status)
    BY <1>1, <1>11 DEF Judge
  <2> QED
    BY <1>9, <1>10, <2>1, ReturnKeeps
<1>12. CASE result.resp.status \in 200..299 /\ Decoded(content) = None
  <2>1. Return(None, "decode", None)
    BY <1>1, <1>12 DEF Judge
  <2> QED
    BY <1>9, <1>10, <2>1, ReturnKeeps
<1>13. CASE result.resp.status \in 200..299 /\ Decoded(content) # None
  <2>1. Return(Decoded(content), None, None)
    BY <1>1, <1>13 DEF Judge
  <2> QED
    BY <1>9, <1>10, <2>1, ReturnKeeps
<1> QED
  BY <1>11, <1>12, <1>13

\* What the attempt in flight is answered.
LEMMA AnswersKeep ==
  ASSUME IInv, PdpAnswers \/ GatewayAnswers \/ LinkFails
  PROVE  IInv'
<1>1. CASE PdpAnswers
  <2> DEFINE w == wire[attempt]
             a == [resp |-> [status |-> w.status, body |-> "open"], err |-> None]
  <2>1. /\ attempt \in 1..Attempts /\ w # None /\ Answered(a, w.body)
    BY <1>1 DEF PdpAnswers
  <2>2. w \in Pdp!Committed
    BY <2>1, PdpFacts
  <2>3. w.status \in Statuses /\ w.body \in Contents
    BY <2>2 DEF Pdp!Committed, Statuses, Contents
  <2>4. a \in Doer!Answer
    BY <2>3 DEF Doer!Answer
  <2> HIDE DEF a
  <2> QED
    BY <2>1, <2>3, <2>4, AnsweredKeeps
<1>2. CASE GatewayAnswers
  <2>1. PICK status \in {200, 500, 503}, page \in Contents :
          /\ status = 200 => page \notin {"permit", "deny"}
          /\ Answered([resp |-> [status |-> status,
                                 body |-> IF page = "empty" THEN "none" ELSE "open"],
                       err |-> None],
                      page)
    BY <1>2 DEF GatewayAnswers
  <2> DEFINE a == [resp |-> [status |-> status,
                             body |-> IF page = "empty" THEN "none" ELSE "open"],
                   err |-> None]
  <2>2. a \in Doer!Answer
    BY DEF Doer!Answer, Statuses
  <2>3. page \in {"permit", "deny"} => a.resp.status \notin 200..299
    BY <2>1
  <2>4. Answered(a, page)
    BY <2>1
  <2> HIDE DEF a
  <2> QED
    BY <2>2, <2>3, <2>4, AnsweredKeeps
<1>3. CASE LinkFails
  <2>1. PICK err \in {"network", "context"} :
          Answered([resp |-> None, err |-> err], None)
    BY <1>3 DEF LinkFails
  <2> DEFINE a == [resp |-> None, err |-> err]
  <2>2. a \in Doer!Answer
    BY DEF Doer!Answer, Doer!InnerErrors
  <2>3. None \notin {"permit", "deny"}
    BY AbsenceAssumption DEF Contents
  <2>4. Answered(a, None)
    BY <2>1
  <2> HIDE DEF a
  <2> QED
    BY <2>2, <2>3, <2>4, AnsweredKeeps
<1> QED
  BY <1>1, <1>2, <1>3

\* What becomes of an attempt at the PDP.
LEMMA RequestKeeps ==
  ASSUME IInv, NEW k \in 1..Attempts,
         Deliver(k) \/ PdpServes(k) \/ DeciderActs(k)
  PROVE  IInv'
<1>1. UNCHANGED <<pepVars, doerVars>>
  BY DEF Deliver, PdpServes, DeciderActs
<1>2. CASE Deliver(k)
  <2>1. \A b \in BOOLEAN : [route |-> "endpoint", json |-> b, id |-> None] \in Pdp!Request
    BY DEF Pdp!Request
  <2>2. (sent[k] = "full") \in BOOLEAN
    BY Zenon
  <2>3. PICK q \in Pdp!Request : k \in DOMAIN sent /\ Pdp!Arrive(k, q)
    BY <1>2, <2>1, <2>2, Zenon DEF Deliver
  <2> QED
    BY <1>1, <2>3, PdpMoves
<1>3. CASE PdpServes(k)
  BY <1>1, <1>3, PdpMoves DEF PdpServes
<1>4. CASE DeciderActs(k)
  BY <1>1, <1>4, PdpMoves DEF DeciderActs
<1> QED
  BY <1>2, <1>3, <1>4

\* A step that moves nothing.
LEMMA StutterKeeps == ASSUME IInv, UNCHANGED vars PROVE IInv'
<1>1. UNCHANGED <<pepVars, doerVars, pdpVars>>
  BY DEF vars
<1>2. DoerProofs!IInv' /\ PdpProofs!IInv'
  BY <1>1, DoerKeeps, PdpKeeps DEF IInv
<1>3. Stages'
  BY <1>1, Zenon DEF IInv, Stages, pepVars, doerVars
<1>4. Genuine' /\ Unsent' /\ Shown' /\ Ended'
  BY <1>1 DEF IInv, Genuine, Unsent, Shown, Ended, Failed, Judged, pepVars, doerVars,
              pdpVars
<1> QED
  BY <1>2, <1>3, <1>4 DEF IInv

\* Every step keeps the invariant.
LEMMA StepInv == ASSUME IInv, [Next]_vars PROVE IInv'
<1>1. CASE Validate
  BY <1>1, ValidateKeeps
<1>2. CASE DoerStep
  BY <1>2, DoerMoves DEF DoerStep
<1>3. CASE Cancel
  BY <1>3, DoerMoves DEF Cancel
<1>4. CASE PdpAnswers \/ GatewayAnswers \/ LinkFails
  BY <1>4, AnswersKeep
<1>5. CASE BuildFails \/ DoFails \/ ReadFails \/ ReadClosed
  <2>1. valid
    BY <1>5 DEF BuildFails, DoFails, ReadFails, ReadClosed, IInv, Stages
  <2> QED
    BY <1>5, <2>1, FailKeeps DEF BuildFails, DoFails, ReadFails, ReadClosed
<1>6. CASE ReadAndJudge
  BY <1>6, JudgeKeeps
<1>7. CASE \E k \in 1..Attempts : Deliver(k) \/ PdpServes(k) \/ DeciderActs(k)
  BY <1>7, RequestKeeps
<1>8. CASE UNCHANGED vars
  BY <1>8, StutterKeeps
<1> QED
  BY <1>1, <1>2, <1>3, <1>4, <1>5, <1>6, <1>7, <1>8 DEF Next

LEMMA Invariance == Spec => []IInv
<1>1. Init => IInv
  BY Initially
<1>2. IInv /\ [Next]_vars => IInv'
  BY StepInv
<1> QED
  BY <1>1, <1>2, PTL DEF Spec
----------------------------------------------------------------------------
\* What is said of a judgement of the last answer.
LEMMA JudgedFacts ==
  ASSUME IInv, Judged
  PROVE  /\ answers # <<>> /\ Len(answers) \in 1..Attempts
         /\ Len(answers) \in DOMAIN contents
         /\ answers[Len(answers)].resp.status \in Statuses
<1>1. /\ answers # <<>> /\ answers[Len(answers)].err = None
  BY DEF Judged
<1>2. Len(answers) \in 1..Attempts /\ Len(answers) \in DOMAIN answers
  BY <1>1, DoerFacts, ExchangeAssumption
<1>3. Len(answers) \in DOMAIN contents
  BY <1>2 DEF IInv, Genuine
<1>4. answers[Len(answers)] \in Doer!Answer
  BY <1>2, DoerFacts
<1>5. answers[Len(answers)].resp \in [status : Statuses, body : {"none", "open"}]
  BY <1>1, <1>4, AbsenceAssumption DEF Doer!Answer
<1> QED
  BY <1>1, <1>2, <1>3, <1>5

\* How a judgement reads.
LEMMA Judgements ==
  ASSUME NEW status \in Statuses, NEW content
  PROVE  LET j == Judgement(status, content)
         IN  /\ j \in Outcomes \ {None}
             /\ j.err \notin {"invalid", "build", "do", "read", "closed"}
             /\ j.decision = None <=> j.err # None
             /\ j.decision # None => status \in 200..299
             /\ j.decision = "permit" => content = "permit"
             /\ j.decision = "deny" => content \in {"deny", "null"}
             /\ status \notin 200..299 => j.code = status
             /\ status \in 200..299 =>
                  /\ content = "permit" => j.decision = "permit"
                  /\ content \in {"deny", "null"} => j.decision = "deny"
                  /\ content \notin {"permit", "deny", "null"} => j.err = "decode"
<1>1. None \notin Failures \cup {"permit", "deny"}
  BY AbsenceAssumption DEF Contents
<1>2. /\ Decoded(content) \in {"permit", "deny", None}
      /\ Decoded(content) = "permit" <=> content = "permit"
      /\ Decoded(content) = "deny" <=> content \in {"deny", "null"}
  BY DecodedValues
<1>3. CASE status \notin 200..299
  <2>1. Judgement(status, content) =
          [decision |-> None, err |-> "status", code |-> status]
    BY <1>3 DEF Judgement
  <2> DEFINE j == [decision |-> None, err |-> "status", code |-> status]
  <2>2. j \in Outcomes \ {None}
    BY <1>2, OutcomeExists DEF Failures
  <2>3. /\ j.decision = None /\ j.err = "status"
        /\ j.code = status
    OBVIOUS
  <2> HIDE DEF j
  <2>4. Judgement(status, content) = j
    BY <2>1 DEF j
  <2> QED
    BY <1>1, <1>3, <2>2, <2>3, <2>4 DEF Failures
<1>4. CASE status \in 200..299 /\ Decoded(content) = None
  <2>1. Judgement(status, content) =
          [decision |-> None, err |-> "decode", code |-> None]
    BY <1>4 DEF Judgement
  <2> DEFINE j == [decision |-> None, err |-> "decode", code |-> None]
  <2>2. j \in Outcomes \ {None}
    BY <1>2, OutcomeExists DEF Failures
  <2>3. /\ j.decision = None /\ j.err = "decode"
        /\ j.code = None
    OBVIOUS
  <2> HIDE DEF j
  <2>4. Judgement(status, content) = j
    BY <2>1 DEF j
  <2> QED
    BY <1>1, <1>2, <1>4, <2>2, <2>3, <2>4 DEF Failures
<1>5. CASE status \in 200..299 /\ Decoded(content) # None
  <2>1. Judgement(status, content) =
          [decision |-> Decoded(content), err |-> None, code |-> None]
    BY <1>5 DEF Judgement
  <2> DEFINE j == [decision |-> Decoded(content), err |-> None, code |-> None]
  <2>2. j \in Outcomes \ {None}
    BY <1>2, OutcomeExists DEF Failures
  <2>3. /\ j.decision = Decoded(content) /\ j.err = None
        /\ j.code = None
    OBVIOUS
  <2> HIDE DEF j
  <2>4. Judgement(status, content) = j
    BY <2>1 DEF j
  <2> QED
    BY <1>1, <1>2, <1>5, <2>2, <2>3, <2>4 DEF Failures
<1> QED
  BY <1>3, <1>4, <1>5

\* What was returned is an outcome.
LEMMA OutcomeTyped == ASSUME IInv PROVE outcome \in Outcomes \cup {None}
<1>1. CASE outcome = None
  BY <1>1
<1>2. CASE Judged
  BY <1>2, JudgedFacts, Judgements, ZenonT(40) DEF Judged
<1>3. CASE Failed
  BY <1>3, OutcomeExists, ZenonT(40) DEF Failed, Failures
<1>4. CASE outcome = [decision |-> None, err |-> "invalid", code |-> None]
  BY <1>4, OutcomeExists DEF Failures
<1> QED
  BY <1>1, <1>2, <1>3, <1>4 DEF IInv, Ended

\* A decision of the PEP is a verdict of the PDP, or a deny that is read into an
\* answer without one.
LEMMA DecisionStems ==
  ASSUME IInv, Judged
  PROVE  /\ outcome.decision = "permit" => verdict[Len(answers)] = "permit"
         /\ outcome.decision = "deny" =>
              verdict[Len(answers)] = "deny" \/ Len(answers) \in Silent
<1> DEFINE n == Len(answers)
<1>1. n \in 1..Attempts /\ n \in DOMAIN contents
      /\ answers[n].resp.status \in Statuses
      /\ outcome = Judgement(answers[n].resp.status, contents[n])
  BY JudgedFacts DEF Judged
<1>2. /\ outcome.decision = "permit" => contents[n] = "permit"
      /\ outcome.decision = "deny" => contents[n] \in {"deny", "null"}
      /\ outcome.decision \in {"permit", "deny"} => answers[n].resp.status \in 200..299
  <2>1. None \notin {"permit", "deny"}
    BY AbsenceAssumption DEF Contents
  <2> QED
    BY <1>1, <2>1, Judgements, ZenonT(40)
<1>3. contents[n] \in {"permit", "deny"} /\ answers[n].resp.status \in 200..299 =>
        wire[n] # None /\ wire[n].body = contents[n]
  BY <1>1 DEF IInv, Genuine
<1>4. wire[n] # None /\ wire[n].body # "text" =>
        verdict[n] # None /\ wire[n].body = WireBody(verdict[n])
  BY <1>1 DEF IInv, Shown
<1>5. \A v : /\ WireBody(v) = "permit" => v = "permit"
             /\ WireBody(v) = "deny" => v = "deny"
  BY DEF WireBody, Pdp!Responses, Pdp!Encoded
<1>6. contents[n] = "null" /\ answers[n].resp.status \in 200..299 => n \in Silent
  BY <1>1 DEF Silent
<1> HIDE DEF n
<1> QED
  BY <1>2, <1>3, <1>4, <1>5, <1>6 DEF n

\* An invalid request is not decided.
LEMMA InvalidIsUndecided ==
  ASSUME IInv, ~valid, NEW k \in 1..Attempts
  PROVE  verdict[k] = None /\ pdpPc[k] = "new"
<1>1. sent = <<>>
  BY DEF IInv, Stages
<1>2. pdpPc[k] = "new"
  BY <1>1 DEF IInv, Unsent
<1> QED
  BY <1>2, PdpFacts
----------------------------------------------------------------------------
\* The handler's, the doer's and the call's variables keep their types, and the
\* call knows the content of every answer (client/evaluate.go postJSON).
THEOREM ExchangeTypeCorrect == Spec => []TypeOK
<1>1. IInv => TypeOK
  <2> SUFFICES ASSUME IInv PROVE TypeOK
    OBVIOUS
  <2>1. PdpProofs!TypeOK
    BY DEF IInv, PdpProofs!IInv
  <2>2. Pdp!TypeOK
    BY <2>1
    DEF Pdp!TypeOK, PdpProofs!TypeOK, Pdp!Request, PdpProofs!Request, Pdp!Responses,
        PdpProofs!Responses, Pdp!DeciderErrors, PdpProofs!DeciderErrors,
        Pdp!Committed, PdpProofs!Committed, Pdp!Event, PdpProofs!Event
  <2>3. DoerProofs!TypeOK
    BY DEF IInv, DoerProofs!IInv
  <2>4. Doer!TypeOK
    BY <2>3
    DEF Doer!TypeOK, DoerProofs!TypeOK, Doer!Answer, DoerProofs!Answer,
        Doer!Response, DoerProofs!Response, Doer!InnerErrors, DoerProofs!InnerErrors
  <2>5. pep \in {"validate", "do", "done"} /\ Len(contents) = Len(answers)
    BY DEF IInv, Stages, Genuine
  <2> QED
    BY <2>2, <2>4, <2>5, OutcomeTyped DEF TypeOK
<1> QED
  BY Invariance, <1>1, PTL

\* The PEP is told "permit" only by a Decider that permitted the very attempt
\* whose answer it read, through retries, gateways and late answers; a failed
\* call has no decision; and an invalid request is never decided.
THEOREM ExchangePermitIsReal == Spec => []PermitIsReal
<1>1. IInv => PermitIsReal
  <2> SUFFICES ASSUME IInv, outcome # None
               PROVE  /\ outcome.decision = "permit" =>
                           valid /\ answers # <<>> /\ verdict[Len(answers)] = "permit"
                      /\ outcome.decision = None <=> outcome.err # None
                      /\ ~valid => \A k \in 1..Attempts : verdict[k] = None
    BY DEF PermitIsReal
  <2>1. None \notin Failures \cup {"permit"}
    BY AbsenceAssumption DEF Contents
  <2>2. CASE ~valid
    BY <2>1, <2>2, InvalidIsUndecided DEF IInv, Ended, Failures
  <2>3. CASE valid /\ Failed
    BY <2>1, <2>3 DEF Failed, Failures
  <2>4. CASE valid /\ Judged
    BY <2>4, DecisionStems, JudgedFacts, Judgements DEF Judged
  <2> QED
    BY <2>2, <2>3, <2>4 DEF IInv, Ended
<1> QED
  BY Invariance, <1>1, PTL

\* What the Decider says of the attempt whose answer is read is what Evaluate
\* returns: a deny is a decision, and each Decider error its StatusError.
THEOREM ExchangeVerdictReachesPEP == Spec => []VerdictReachesPEP
<1>1. IInv => VerdictReachesPEP
  <2> DEFINE n == Len(answers)
             v == verdict[n]
  <2> SUFFICES ASSUME IInv, outcome # None,
                      outcome.err \notin {"invalid", "build", "do", "read", "closed"},
                      wire[n] # None, contents[n] = wire[n].body,
                      answers[n].resp.status = wire[n].status
               PROVE  /\ v \in {"permit", "deny"} => outcome.decision = v
                      /\ v = "nil" => outcome.decision = "deny"
                      /\ v = "unencodable" => outcome.err = "decode"
                      /\ v \in {"validation", "both"} => outcome.code = 400
                      /\ v = "notimplemented" => outcome.code = 501
                      /\ v = "other" => outcome.code = 500
    BY DEF VerdictReachesPEP
  <2>1. Judged
    BY DEF IInv, Ended, Failed
  <2>2. /\ n \in 1..Attempts /\ answers[n].resp.status \in Statuses
        /\ outcome = Judgement(answers[n].resp.status, contents[n])
    BY <2>1, JudgedFacts DEF Judged
  <2>3. v # None => outcome = Judgement(WireStatus(v), WireBody(v))
                    /\ WireStatus(v) \in Statuses
    BY <2>2 DEF IInv, Shown
  <2> HIDE DEF n, v
  <2>4. v \in {"permit", "deny", "nil"} => WireStatus(v) = 200
    BY DEF WireStatus, Pdp!Responses
  <2>5. /\ v = "permit" => WireBody(v) = "permit"
        /\ v = "deny" => WireBody(v) = "deny"
        /\ v = "nil" => WireBody(v) = "null"
    BY DEF WireBody, Pdp!Responses, Pdp!Encoded
  <2>6. v = "unencodable" => WireBody(v) = "empty" /\ WireStatus(v) = 200
    BY DEF WireBody, WireStatus, Pdp!Responses, Pdp!Encoded
  <2>7. /\ v \in {"validation", "both"} => WireStatus(v) = 400
        /\ v = "notimplemented" => WireStatus(v) = 501
        /\ v = "other" => WireStatus(v) = 500
    BY DEF WireStatus, Pdp!Responses, Pdp!ErrorStatus, Pdp!IsNotImplemented
  <2>8. v \in Verdicts => v # None
    BY AbsenceAssumption
  <2>9. {"permit", "deny", "nil", "unencodable", "validation", "both",
         "notimplemented", "other"} \subseteq Verdicts
    BY DEF Verdicts, Pdp!Responses, Pdp!DeciderErrors
  <2>10. v \in Verdicts =>
           LET j == Judgement(WireStatus(v), WireBody(v))
           IN  /\ outcome = j
               /\ WireStatus(v) \notin 200..299 => j.code = WireStatus(v)
               /\ WireStatus(v) \in 200..299 =>
                    /\ WireBody(v) = "permit" => j.decision = "permit"
                    /\ WireBody(v) \in {"deny", "null"} => j.decision = "deny"
                    /\ WireBody(v) \notin {"permit", "deny", "null"} =>
                         j.err = "decode"
    BY <2>3, <2>8, Judgements
  <2> QED
    BY <2>4, <2>5, <2>6, <2>7, <2>9, <2>10
<1> QED
  BY Invariance, <1>1, PTL
----------------------------------------------------------------------------
\* How the call ended, case by case.
LEMMA Endings ==
  /\ outcome = None => Ending = None
  /\ outcome # None /\ outcome.err = None => Ending = outcome.decision
  /\ outcome # None /\ outcome.err = "invalid" => Ending = "refused"
  /\ outcome # None /\ outcome.err \notin {None, "invalid"} => Ending = "error"
<1>1. None # "invalid"
  BY AbsenceAssumption DEF Failures
<1> QED
  BY <1>1 DEF Ending

\* A judgement is a decision of the PDP, a deny read into an answer without one,
\* or an error that is not a refusal.
Stems ==
  /\ outcome.decision = "permit" => verdict[Len(answers)] = "permit"
  /\ outcome.decision = "deny" =>
       verdict[Len(answers)] = "deny" \/ Len(answers) \in Silent
  /\ Len(answers) \in 1..Attempts
  /\ outcome \in Outcomes
  /\ outcome.err # "invalid"
  /\ outcome.decision = None <=> outcome.err # None

LEMMA JudgementStems == IInv /\ Judged => Stems
<1> SUFFICES ASSUME IInv, Judged PROVE Stems
  OBVIOUS
<1>1. Judged
  OBVIOUS
<1>2. outcome \in Outcomes /\ outcome.err # "invalid"
      /\ (outcome.decision = None <=> outcome.err # None)
  BY <1>1, JudgedFacts, Judgements DEF Judged
<1> QED
  BY <1>2, DecisionStems, JudgedFacts DEF Stems

\* The call ends in a step that decides nothing: a Permit, a Deny, a Fail or a
\* Refuse of AccessDecision.
LEMMA EndRefines ==
  ASSUME IInv, IInv', outcome = None, outcome' # None,
         UNCHANGED <<verdict, valid, contents, answers>>
  PROVE  Decision!Next
<1>1. Ending = None /\ Silent' = Silent
  BY Endings DEF Silent
<1>2. /\ outcome'.err = None => Ending' = outcome'.decision
      /\ outcome'.err = "invalid" => Ending' = "refused"
      /\ outcome'.err \notin {None, "invalid"} => Ending' = "error"
  <2>1. None # "invalid"
    BY AbsenceAssumption DEF Failures
  <2> QED
    BY <2>1 DEF Ending
<1>3. CASE ~valid
  <2>1. outcome' = [decision |-> None, err |-> "invalid", code |-> None]
    BY <1>3 DEF IInv, Ended
  <2>2. Ending' = "refused" /\ \A k \in 1..Attempts : verdict[k] = None
    BY <1>2, <1>3, <2>1, InvalidIsUndecided
  <2>3. Decision!Refuse
    BY <1>1, <2>2 DEF Decision!Refuse, Decision!End
  <2> QED
    BY <2>3 DEF Decision!Next
<1>4. CASE Failed'
  <2>1. outcome'.err \notin {None, "invalid"}
    BY <1>4, AbsenceAssumption DEF Failed, Failures
  <2>2. Decision!Fail
    BY <1>1, <1>2, <2>1 DEF Decision!Fail, Decision!End
  <2> QED
    BY <2>2 DEF Decision!Next
<1>5. CASE Judged'
  <2>1. /\ outcome'.decision = "permit" => verdict[Len(answers)] = "permit"
        /\ outcome'.decision = "deny" =>
             verdict[Len(answers)] = "deny" \/ Len(answers) \in Silent
        /\ Len(answers) \in 1..Attempts
        /\ outcome' \in Outcomes
        /\ outcome'.err # "invalid"
        /\ outcome'.decision = None <=> outcome'.err # None
    <3>1. Stems'
      BY <1>5, JudgementStems, PTL
    <3> QED
      BY <1>1, <3>1 DEF Stems
  <2>2. CASE outcome'.err # None
    <3>1. Decision!Fail
      BY <1>1, <1>2, <2>1, <2>2 DEF Decision!Fail, Decision!End
    <3> QED
      BY <3>1 DEF Decision!Next
  <2>3. CASE outcome'.err = None /\ outcome'.decision = "permit"
    <3>1. Decision!Permit
      BY <1>1, <1>2, <2>1, <2>3 DEF Decision!Permit, Decision!End
    <3> QED
      BY <3>1 DEF Decision!Next
  <2>4. CASE outcome'.err = None /\ outcome'.decision = "deny"
    <3>1. Decision!Deny
      BY <1>1, <1>2, <2>1, <2>4 DEF Decision!Deny, Decision!End
    <3> QED
      BY <3>1 DEF Decision!Next
  <2>5. outcome'.err = None => outcome'.decision \in {"permit", "deny"}
    BY <2>1 DEF Outcomes
  <2> QED
    BY <2>2, <2>3, <2>4, <2>5
<1> QED
  BY <1>3, <1>4, <1>5 DEF IInv, Ended

\* A Decider decides attempt k, as AccessDecision has it: once, and never for a
\* call that was refused.
LEMMA DecideRefines ==
  ASSUME IInv, NEW k \in 1..Attempts, NEW v \in Verdicts, Pdp!Decide(k, v),
         UNCHANGED <<outcome, contents, answers>>
  PROVE  Decision!Next
<1>1. pdpPc[k] = "decide" /\ verdict' = [verdict EXCEPT ![k] = v]
  BY DEF Pdp!Decide, Pdp!Write, Pdp!Goto
<1>2. verdict[k] = None
  BY <1>1, PdpFacts
<1>3. valid
  BY <1>1, InvalidIsUndecided
<1>4. Ending # "refused"
  <2>1. None \notin {"refused", "error"} \cup Failures
    BY AbsenceAssumption
  <2>2. CASE outcome = None
    BY <2>1, <2>2, Endings
  <2>3. CASE Failed
    BY <2>1, <2>3, OutcomeTyped, Endings DEF Failed, Failures
  <2>4. CASE Judged /\ outcome # None
    <3>1. outcome \in Outcomes /\ outcome.err # "invalid"
      BY <2>4, OutcomeTyped, JudgedFacts, Judgements DEF Judged
    <3>2. Ending \in {outcome.decision, "error"}
      BY <2>4, <3>1, Endings
    <3>3. outcome.decision \in {"permit", "deny", None}
      BY <3>1 DEF Outcomes
    <3> QED
      BY <2>1, <3>2, <3>3
  <2> QED
    BY <1>3, <2>2, <2>3, <2>4 DEF IInv, Ended
<1>5. Ending' = Ending /\ Silent' = Silent
  BY DEF Ending, Silent
<1>6. Decision!Decide(k)
  BY <1>1, <1>2, <1>4, <1>5 DEF Decision!Decide
<1> QED
  BY <1>6 DEF Decision!Next

\* An answer ends nothing; it is one without a decision, or nothing happens.
LEMMA AnsweredRefines ==
  ASSUME IInv, NEW a, NEW content, Answered(a, content)
  PROVE  [Decision!Next]_(Decision!decisionVars)
<1>1. /\ pep = "do" /\ Doer!InnerReturns(a)
      /\ contents' = Append(contents, content)
      /\ UNCHANGED <<outcome, verdict>>
  BY DEF Answered, pdpVars
<1>2. Ending = None /\ Ending' = None
  BY <1>1, Endings DEF IInv, Stages, Ending
<1>3. /\ doerPc = "inflight" /\ answers' = Append(answers, a)
  BY <1>1 DEF Doer!InnerReturns
<1>4. /\ Len(contents) \in Nat /\ Len(contents) = Len(answers)
      /\ attempt = Len(contents) + 1 /\ attempt \in 1..Attempts
      /\ contents \in Seq(Contents \cup {None}) /\ answers \in Seq(Doer!Answer)
  BY <1>3, DoerFacts, ExchangeAssumption DEF IInv, Genuine
<1>5. /\ DOMAIN contents' = DOMAIN contents \cup {attempt}
      /\ \A k \in DOMAIN contents : /\ contents'[k] = contents[k]
                                    /\ answers'[k] = answers[k]
                                    /\ k # attempt
  BY <1>1, <1>3, <1>4, SMTT(30)
<1>6. Silent' = Silent \/ Silent' = Silent \cup {attempt}
  BY <1>5 DEF Silent
<1>7. CASE Silent' = Silent
  BY <1>1, <1>2, <1>7 DEF Decision!decisionVars
<1>8. CASE Silent' = Silent \cup {attempt}
  <2>1. Decision!Silence(attempt)
    BY <1>1, <1>2, <1>8 DEF Decision!Silence
  <2> QED
    BY <1>4, <2>1 DEF Decision!Next
<1> QED
  BY <1>6, <1>7, <1>8

\* Every step is a step of AccessDecision, or none.
LEMMA StepRefines ==
  ASSUME IInv, IInv', [Next]_vars
  PROVE  [Decision!Next]_(Decision!decisionVars)
<1>1. UNCHANGED <<outcome, verdict, contents, answers>> =>
        UNCHANGED Decision!decisionVars
  BY DEF Decision!decisionVars, Ending, Silent
<1>2. CASE DoerStep \/ Cancel \/ PdpAnswers \/ GatewayAnswers \/ LinkFails
  <2>1. CASE DoerStep \/ Cancel
    <3>1. UNCHANGED <<pepVars, pdpVars>> /\ (Doer!Internal \/ Doer!Cancel)
      BY <2>1 DEF DoerStep, Cancel
    <3>2. answers' = answers
      BY <3>1 DEF Doer!Internal, Doer!FirstAttempt, Doer!Rewind, Doer!RewindFails,
                  Doer!Send, Doer!GiveUp, Doer!TimerFires, Doer!WaitCancelled,
                  Doer!Cancel, Doer!fixed
    <3> QED
      BY <1>1, <3>1, <3>2 DEF pepVars, pdpVars
  <2>2. CASE PdpAnswers \/ GatewayAnswers \/ LinkFails
    <3>1. CASE PdpAnswers
      BY <3>1, AnsweredRefines, Zenon DEF PdpAnswers
    <3>2. CASE GatewayAnswers
      <4>1. PICK status \in {200, 500, 503}, page \in Contents :
              /\ status = 200 => page \notin {"permit", "deny"}
              /\ Answered([resp |-> [status |-> status,
                                     body |-> IF page = "empty" THEN "none" ELSE "open"],
                           err |-> None],
                          page)
        BY <3>2 DEF GatewayAnswers
      <4> DEFINE a == [resp |-> [status |-> status,
                                 body |-> IF page = "empty" THEN "none" ELSE "open"],
                       err |-> None]
      <4>2. Answered(a, page)
        BY <4>1
      <4> HIDE DEF a
      <4> QED
        BY <4>2, AnsweredRefines
    <3>3. CASE LinkFails
      BY <3>3, AnsweredRefines, Zenon DEF LinkFails
    <3> QED
      BY <2>2, <3>1, <3>2, <3>3
  <2> QED
    BY <1>2, <2>1, <2>2
<1>3. ASSUME NEW decision, NEW err, NEW code, Return(decision, err, code),
             pep # "done"
      PROVE  Decision!Next
  <2>1. outcome = None
    BY <1>3 DEF IInv, Stages
  <2>2. outcome' # None
    BY <1>3 DEF IInv, Stages, Return
  <2>3. UNCHANGED <<verdict, valid, contents, answers>>
    BY <1>3 DEF Return, doerVars, pdpVars
  <2> QED
    BY <2>1, <2>2, <2>3, EndRefines
<1>4. CASE Validate
  BY <1>1, <1>3, <1>4 DEF Validate, pdpVars, doerVars
<1>5. CASE BuildFails \/ DoFails \/ ReadFails \/ ReadClosed
  BY <1>3, <1>5 DEF BuildFails, DoFails, ReadFails, ReadClosed
<1>6. CASE ReadAndJudge
  BY <1>3, <1>6 DEF ReadAndJudge, Judge
<1>7. ASSUME NEW k \in 1..Attempts, Deliver(k) \/ PdpServes(k)
      PROVE  UNCHANGED Decision!decisionVars
  BY <1>1, <1>7
  DEF Deliver, PdpServes, pepVars, doerVars, Pdp!Arrive, Pdp!Serve, Pdp!Enter, Pdp!NoRoute,
      Pdp!Malformed, Pdp!CallDecider, Pdp!Leave, Pdp!Finish
<1>8. ASSUME NEW k \in 1..Attempts, DeciderActs(k)
      PROVE  [Decision!Next]_(Decision!decisionVars)
  <2>1. UNCHANGED <<outcome, contents, answers>>
    BY <1>8 DEF DeciderActs, pepVars, doerVars
  <2>2. CASE Pdp!Panic(k)
    BY <1>1, <2>1, <2>2 DEF Pdp!Panic
  <2>3. CASE \E v \in Verdicts : Pdp!Decide(k, v)
    BY <2>1, <2>3, DecideRefines
  <2> QED
    BY <1>8, <2>2, <2>3 DEF DeciderActs
<1>9. CASE UNCHANGED vars
  BY <1>1, <1>9 DEF vars, pepVars, doerVars, pdpVars
<1> QED
  BY <1>2, <1>4, <1>5, <1>6, <1>7, <1>8, <1>9 DEF Next

\* The exchange implements AccessDecision: with retries, lost and late answers
\* and a gateway that answers for the PDP, the call ends once; a permit is a
\* verdict of the PDP; a deny is one, or what encoding/json reads into a 2xx
\* whose JSON has no decision, a gateway's included (client/evaluate.go:94-99).
THEOREM ExchangeImplementsAccessDecision == Spec => ImplementsAccessDecision
<1>1. Init => Decision!Init
  BY Endings DEF Init, Pdp!Init, Decision!Init, Silent
<1>2. IInv /\ IInv' /\ [Next]_vars => [Decision!Next]_(Decision!decisionVars)
  BY StepRefines
<1> QED
  BY <1>1, <1>2, Invariance, PTL DEF Spec, Decision!Spec, ImplementsAccessDecision
=============================================================================
