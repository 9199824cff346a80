--------------------------- MODULE RetryDoerProofs ---------------------------
(***************************************************************************)
(* Safety of retryDoer.Do for every number of attempts, every backoff      *)
(* configuration and every set of statuses: the type invariant, that Do    *)
(* returns what its last attempt gave, that only transient answers are     *)
(* retried, that every attempt carries the body, and how the pauses grow.  *)
(***************************************************************************)
EXTENDS RetryDoer, FiniteSetTheorems, WellFoundedInduction, TLAPS

\* The loop variable counts the answers, and no attempt is sent past the last.
LoopCounts ==
  /\ Len(sent) = Len(answers) + (IF pc = "inflight" THEN 1 ELSE 0)
  /\ pc # "done" => attempt = Len(answers) + 1
  /\ pc = "next" => attempt <= maxAttempts + 1
  /\ pc \in {"wait", "send", "inflight"} => attempt <= maxAttempts
  /\ pc = "wait" => attempt > 1

\* While the call runs it has no result, every answer so far was transient,
\* and lastErr and lastResp are the last of them.
Remembers ==
  pc # "done" =>
    /\ result = None
    /\ \A i \in DOMAIN answers : Transient(answers[i])
    /\ answers # <<>> =>
         LET a == answers[Len(answers)]
         IN  /\ lastErr = a.err
             /\ a.err # None => lastResp = None
             /\ a.err = None => lastResp = DrainAndClose(a.resp)

\* A body that can be restored is whole whenever an attempt may be sent next.
BodyInHand ==
  /\ hasGetBody /\ pc \in {"wait", "send"} => reqBody = "full"
  /\ pc = "next" /\ attempt = 1 => reqBody = "full"

IInv == /\ TypeOK
        /\ LoopCounts
        /\ Remembers
        /\ BodyInHand
        /\ ReturnsLastAnswer
        /\ RetriesOnlyTransient
        /\ EveryAttemptCarriesBody

----------------------------------------------------------------------------
\* A power of two is the number of subsets of a finite set,
LEMMA PowerOfTwo ==
  ASSUME NEW n \in Nat
  PROVE  /\ 2^n \in Nat \ {0}
         /\ IsFiniteSet(SUBSET (1..n)) /\ 2^n = Cardinality(SUBSET (1..n))
<1>1. IsFiniteSet(1..n) /\ Cardinality(1..n) = n
  BY FS_Interval
<1>2. IsFiniteSet(SUBSET (1..n)) /\ Cardinality(SUBSET (1..n)) = 2^n
  BY <1>1, FS_SUBSET
<1>3. SUBSET (1..n) # {}
  <2>1. {} \in SUBSET (1..n)
    OBVIOUS
  <2> QED
    BY <2>1
<1> QED
  BY <1>2, <1>3, FS_CardinalityType, FS_EmptySet

\* ... so it is 1 for the empty set,
LEMMA PowerZero == 2^0 = 1
<1>1. SUBSET (1..0) = {{}}
  OBVIOUS
<1>2. Cardinality({{}}) = 1
  BY FS_Singleton
<1> QED
  BY <1>1, <1>2, PowerOfTwo

\* ... and doubles with every element added: a subset has it or has it not.
LEMMA PowerDoubles == ASSUME NEW n \in Nat PROVE 2^(n+1) = 2 * 2^n
<1> DEFINE P == SUBSET (1..n)
           Q == {S \cup {n + 1} : S \in P}
           f == [S \in P |-> S \cup {n + 1}]
<1>1. SUBSET (1..(n + 1)) = P \cup Q
  <2>1. ASSUME NEW S \in SUBSET (1..(n + 1)) PROVE S \in P \cup Q
    <3>1. CASE n + 1 \in S
      <4>1. S \ {n + 1} \in P /\ S = (S \ {n + 1}) \cup {n + 1}
        BY <3>1
      <4> QED
        BY <4>1
    <3>2. CASE n + 1 \notin S
      <4>1. S \in P
        BY <3>2
      <4> QED
        BY <4>1
    <3> QED
      BY <3>1, <3>2
  <2>2. ASSUME NEW S \in P \cup Q PROVE S \in SUBSET (1..(n + 1))
    OBVIOUS
  <2> QED
    BY <2>1, <2>2
<1>2. P \cap Q = {}
  OBVIOUS
<1>3. f \in Bijection(P, Q)
  <2>1. f \in [P -> Q]
    OBVIOUS
  <2>2. ASSUME NEW S \in P, NEW T \in P, f[S] = f[T] PROVE S = T
    <3>1. S \cup {n + 1} = T \cup {n + 1} /\ n + 1 \notin S /\ n + 1 \notin T
      BY <2>2
    <3> QED
      BY <3>1
  <2>3. \A q \in Q : \E S \in P : f[S] = q
    OBVIOUS
  <2> QED
    BY <2>1, <2>2, <2>3 DEF Bijection, Injection, Surjection, IsInjective
<1>4. IsFiniteSet(P) /\ Cardinality(P) = 2^n /\ 2^n \in Nat
  BY PowerOfTwo
<1>5. IsFiniteSet(Q) /\ Cardinality(Q) = 2^n
  BY <1>3, <1>4, FS_Bijection DEF ExistsBijection
<1>6. Cardinality(P \cup Q) = 2^n + 2^n
  <2>1. Cardinality(P \cap Q) = 0
    BY <1>2, FS_EmptySet
  <2> HIDE DEF P, Q
  <2> QED
    BY <1>4, <1>5, <2>1, FS_Union
<1>7. n + 1 \in Nat
  OBVIOUS
<1>8. 2^(n+1) = Cardinality(SUBSET (1..(n + 1)))
  BY <1>7, PowerOfTwo
<1>9. 2^(n + 1) = Cardinality(P \cup Q)
  BY <1>1, <1>8, Zenon
<1> HIDE DEF P, Q
<1> QED
  BY <1>4, <1>6, <1>9

\* The pause is a number, whatever overflows.
LEMMA BackoffInt == ASSUME NEW n \in Nat PROVE backoff(n) \in Int
<1>1. BaseDelay * 2^n \in Int
  BY PowerOfTwo, RetryAssumption
<1>2. \A x \in Int : Int64(x) \in Int
  BY RetryAssumption DEF Int64
<1> QED
  BY <1>1, <1>2, RetryAssumption DEF backoff

\* A drained response is one, and a final or a transient answer is what its
\* name says.
LEMMA AnswerShapes ==
  ASSUME NEW a \in Answer
  PROVE  /\ a.err = None => /\ a.resp \in Response
                            /\ DrainAndClose(a.resp) \in Response
         /\ a.err # None => a.resp = None /\ a.err \in InnerErrors
         /\ ~Transient(a) => a.err = None
  BY RetryAssumption DEF Answer, Response, DrainAndClose, Transient

\* The initial state satisfies the inductive invariant.
LEMMA InitInv == Init => IInv
<1> SUFFICES ASSUME Init PROVE IInv
  OBVIOUS
<1>1. maxAttempts \in Nat \ {0}
  BY RetryAssumption DEF Init, Clamp
<1>2. TypeOK
  <2>1. hasGetBody \in BOOLEAN /\ ctxDone \in BOOLEAN
    BY Zenon DEF Init
  <2>2. sent \in Seq({"full", "drained"}) /\ answers \in Seq(Answer)
    BY DEF Init
  <2> QED
    BY <1>1, <2>1, <2>2 DEF Init, TypeOK
<1>3. LoopCounts /\ Remembers /\ BodyInHand
  BY <1>1 DEF Init, LoopCounts, Remembers, BodyInHand
<1>4. ReturnsLastAnswer /\ RetriesOnlyTransient /\ EveryAttemptCarriesBody
  BY <1>1 DEF Init, ReturnsLastAnswer, RetriesOnlyTransient,
              EveryAttemptCarriesBody
<1> QED
  BY <1>2, <1>3, <1>4 DEF IInv

\* A return of the two memories, from a state where some attempt was made, is
\* a return of the last answer.
LEMMA ReturnLastIsLastAnswer ==
  ASSUME IInv, pc \in {"next", "wait"}, answers # <<>>, ReturnLast,
         UNCHANGED <<fixed, attempt, lastErr, lastResp, reqBody, delay,
                     ctxDone, sent, answers>>
  PROVE  IInv'
<1> USE DEF IInv, TypeOK
<1> DEFINE a == answers[Len(answers)]
<1>1. a \in Answer
  OBVIOUS
<1>2. /\ lastErr = a.err
      /\ a.err # None => lastResp = None
      /\ a.err = None => lastResp = DrainAndClose(a.resp)
  BY DEF Remembers
<1>3. ReturnsLastAnswer'
  BY <1>2 DEF ReturnLast, Return, ReturnsLastAnswer
<1>4. TypeOK'
  BY DEF ReturnLast, Return, fixed
<1>5. LoopCounts' /\ Remembers' /\ BodyInHand'
  BY DEF ReturnLast, Return, LoopCounts, Remembers, BodyInHand
<1>6. RetriesOnlyTransient' /\ EveryAttemptCarriesBody'
  BY DEF RetriesOnlyTransient, EveryAttemptCarriesBody, fixed
<1> QED
  BY <1>3, <1>4, <1>5, <1>6

\* Every step preserves the inductive invariant.
LEMMA StepInv == ASSUME IInv, [Next]_vars PROVE IInv'
<1> USE DEF IInv, TypeOK, fixed
<1>1. CASE GiveUp
  <2>1. answers # <<>>
    BY <1>1 DEF GiveUp, LoopCounts
  <2> QED
    BY <1>1, <2>1, ReturnLastIsLastAnswer DEF GiveUp
<1>2. CASE WaitCancelled
  <2>1. answers # <<>>
    BY <1>2 DEF WaitCancelled, LoopCounts
  <2> QED
    BY <1>2, <2>1, ReturnLastIsLastAnswer DEF WaitCancelled
<1>3. CASE FirstAttempt
  <2>1. TypeOK'
    BY <1>3 DEF FirstAttempt
  <2>2. LoopCounts' /\ Remembers' /\ BodyInHand'
    BY <1>3 DEF FirstAttempt, LoopCounts, Remembers, BodyInHand
  <2>3. ReturnsLastAnswer' /\ RetriesOnlyTransient' /\ EveryAttemptCarriesBody'
    BY <1>3 DEF FirstAttempt, ReturnsLastAnswer, RetriesOnlyTransient,
                EveryAttemptCarriesBody
  <2> QED
    BY <2>1, <2>2, <2>3
<1>4. CASE Rewind
  <2>1. TypeOK'
    <3>1. delay' \in Int
      BY <1>4, BackoffInt DEF Rewind
    <3> QED
      BY <1>4, <3>1 DEF Rewind
  <2>2. LoopCounts' /\ Remembers' /\ BodyInHand'
    BY <1>4 DEF Rewind, LoopCounts, Remembers, BodyInHand
  <2>3. ReturnsLastAnswer' /\ RetriesOnlyTransient' /\ EveryAttemptCarriesBody'
    BY <1>4 DEF Rewind, ReturnsLastAnswer, RetriesOnlyTransient,
                EveryAttemptCarriesBody
  <2> QED
    BY <2>1, <2>2, <2>3
<1>5. CASE RewindFails
  <2>1. TypeOK'
    BY <1>5 DEF RewindFails, Return
  <2>2. LoopCounts' /\ Remembers' /\ BodyInHand'
    BY <1>5 DEF RewindFails, Return, LoopCounts, Remembers, BodyInHand
  <2>3. ReturnsLastAnswer' /\ RetriesOnlyTransient' /\ EveryAttemptCarriesBody'
    BY <1>5 DEF RewindFails, Return, ReturnsLastAnswer, RetriesOnlyTransient,
                EveryAttemptCarriesBody
  <2> QED
    BY <2>1, <2>2, <2>3
<1>6. CASE TimerFires
  <2>1. TypeOK'
    BY <1>6 DEF TimerFires
  <2>2. LoopCounts' /\ Remembers' /\ BodyInHand'
    BY <1>6 DEF TimerFires, LoopCounts, Remembers, BodyInHand
  <2>3. ReturnsLastAnswer' /\ RetriesOnlyTransient' /\ EveryAttemptCarriesBody'
    BY <1>6 DEF TimerFires, ReturnsLastAnswer, RetriesOnlyTransient,
                EveryAttemptCarriesBody
  <2> QED
    BY <2>1, <2>2, <2>3
<1>7. CASE Send
  <2>1. TypeOK'
    BY <1>7 DEF Send
  <2>2. LoopCounts' /\ Remembers' /\ BodyInHand'
    BY <1>7 DEF Send, LoopCounts, Remembers, BodyInHand
  <2>3. ReturnsLastAnswer'
    BY <1>7 DEF Send, ReturnsLastAnswer, Remembers
  <2>4. RetriesOnlyTransient'
    BY <1>7 DEF Send, RetriesOnlyTransient, LoopCounts, Remembers, Transient,
                shouldRetryStatus
  <2>5. EveryAttemptCarriesBody'
    BY <1>7 DEF Send, EveryAttemptCarriesBody, BodyInHand
  <2> QED
    BY <2>1, <2>2, <2>3, <2>4, <2>5
<1>8. ASSUME NEW a \in Answer, InnerReturns(a) PROVE IInv'
  <2>1. /\ a.err = None => /\ a.resp \in Response
                           /\ DrainAndClose(a.resp) \in Response
        /\ a.err # None => a.resp = None /\ a.err \in InnerErrors
        /\ ~Transient(a) => a.err = None
    BY AnswerShapes
  <2>2. CASE FinalAnswer(a)
    <3>1. TypeOK'
      BY <1>8, <2>1, <2>2 DEF InnerReturns, FinalAnswer, Return
    <3>2. LoopCounts' /\ Remembers' /\ BodyInHand'
      BY <1>8, <2>2 DEF InnerReturns, FinalAnswer, Return, LoopCounts,
                        Remembers, BodyInHand
    <3>3. ReturnsLastAnswer'
      BY <1>8, <2>1, <2>2 DEF InnerReturns, FinalAnswer, Return,
                              ReturnsLastAnswer
    <3>4. RetriesOnlyTransient'
      BY <1>8, <2>2 DEF InnerReturns, FinalAnswer, RetriesOnlyTransient,
                        LoopCounts
    <3>5. EveryAttemptCarriesBody'
      BY <1>8 DEF InnerReturns, EveryAttemptCarriesBody
    <3> QED
      BY <3>1, <3>2, <3>3, <3>4, <3>5
  <2>3. CASE TransientAnswer(a)
    <3>1. TypeOK'
      BY <1>8, <2>1, <2>3 DEF InnerReturns, TransientAnswer
    <3>2. LoopCounts' /\ BodyInHand'
      BY <1>8, <2>3 DEF InnerReturns, TransientAnswer, LoopCounts, BodyInHand
    <3>3. Remembers'
      BY <1>8, <2>3 DEF InnerReturns, TransientAnswer, Remembers
    <3>4. ReturnsLastAnswer'
      BY <1>8, <2>3 DEF InnerReturns, TransientAnswer, ReturnsLastAnswer,
                        Remembers
    <3>5. RetriesOnlyTransient'
      BY <1>8, <2>3 DEF InnerReturns, TransientAnswer, RetriesOnlyTransient,
                        LoopCounts
    <3>6. EveryAttemptCarriesBody'
      BY <1>8 DEF InnerReturns, EveryAttemptCarriesBody
    <3> QED
      BY <3>1, <3>2, <3>3, <3>4, <3>5, <3>6
  <2> QED
    BY <1>8, <2>2, <2>3 DEF InnerReturns
<1>9. CASE Cancel \/ UNCHANGED vars
  <2>1. TypeOK'
    BY <1>9 DEF Cancel, vars
  <2>2. LoopCounts' /\ Remembers' /\ BodyInHand'
    BY <1>9 DEF Cancel, vars, LoopCounts, Remembers, BodyInHand
  <2>3. ReturnsLastAnswer' /\ RetriesOnlyTransient' /\ EveryAttemptCarriesBody'
    BY <1>9 DEF Cancel, vars, ReturnsLastAnswer, RetriesOnlyTransient,
                EveryAttemptCarriesBody
  <2> QED
    BY <2>1, <2>2, <2>3
<1> QED
  BY <1>1, <1>2, <1>3, <1>4, <1>5, <1>6, <1>7, <1>8, <1>9 DEF Next, Internal

\* The inductive invariant holds throughout.
LEMMA Invariant == Spec => []IInv
<1>1. IInv /\ [Next]_vars => IInv'
  BY StepInv
<1> QED
  BY InitInv, <1>1, PTL DEF Spec
----------------------------------------------------------------------------
\* Every variable of a call keeps to its values.
THEOREM DoerTypeCorrect == Spec => []TypeOK
<1>1. IInv => TypeOK
  BY DEF IInv
<1> QED
  BY Invariant, <1>1, PTL

\* retryDoer.Do returns what its last attempt gave, after any number of
\* attempts and whatever the earlier ones left behind.
THEOREM DoReturnsLastAnswer == Spec => []ReturnsLastAnswer
<1>1. IInv => ReturnsLastAnswer
  BY DEF IInv
<1> QED
  BY Invariant, <1>1, PTL

\* Do never asks again after a final answer, and never more than maxAttempts
\* times.
THEOREM DoRetriesOnlyTransient == Spec => []RetriesOnlyTransient
<1>1. IInv => RetriesOnlyTransient
  BY DEF IInv
<1> QED
  BY Invariant, <1>1, PTL

\* Every attempt of Do carries the whole body when GetBody is set.
THEOREM DoCarriesBody == Spec => []EveryAttemptCarriesBody
<1>1. IInv => EveryAttemptCarriesBody
  BY DEF IInv
<1> QED
  BY Invariant, <1>1, PTL
----------------------------------------------------------------------------
\* Every nonempty set of numbers has a least one.
LEMMA LessIsWellFounded ==
  ASSUME NEW R, R = {p \in Nat \X Nat : p[1] < p[2]}
  PROVE  IsWellFoundedOn(R, Nat)
  BY NatLessThanWellFounded DEF OpToRel

LEMMA LeastNumber ==
  ASSUME NEW S \in SUBSET Nat, S # {}
  PROVE  \E m \in S : \A n \in S : m <= n
<1> DEFINE R == {p \in Nat \X Nat : p[1] < p[2]}
<1>1. IsWellFoundedOn(R, Nat)
  BY LessIsWellFounded
<1>2. \E x \in S : \A y \in S : ~ (<<y, x>> \in R)
  BY <1>1, WFMin
<1>3. PICK m \in S : \A y \in S : ~ (<<y, m>> \in R)
  BY <1>2
<1>4. ASSUME NEW n \in S PROVE m <= n
  <2>1. <<n, m>> \notin R /\ n \in Nat /\ m \in Nat
    BY <1>3
  <2>2. n < m => <<n, m>> \in R
    BY <2>1
  <2> QED
    BY <2>1, <2>2
<1> QED
  BY <1>4

\* A base and a cap that can be doubled.
CanDouble == 2 * BaseDelay < WordHalf /\ 2 * MaxDelay < WordHalf

\* What fits an int64 is not wrapped.
LEMMA Int64Fits ==
  ASSUME NEW x \in Nat, x < WordHalf
  PROVE  Int64(x) = x
<1>1. WordHalf \in Nat /\ WordHalf > 0
  BY RetryAssumption
<1>2. x + WordHalf \in 0..(2 * WordHalf - 1)
  BY <1>1
<1>3. \A y \in Nat, m \in Nat : y < m => y % m = y
  OBVIOUS
<1>4. (x + WordHalf) % (2 * WordHalf) = x + WordHalf
  BY <1>1, <1>2, <1>3
<1> QED
  BY <1>1, <1>4 DEF Int64

\* As long as no doubling, as the code computes it, has passed the cap, none
\* has passed it: the first to pass it would not have been wrapped.
LEMMA NotPassedYet ==
  ASSUME CanDouble, NEW n \in Nat \ {0},
         \A i \in 1..n : Int64(BaseDelay * 2^i) <= MaxDelay
  PROVE  BaseDelay * 2^n <= MaxDelay
<1> DEFINE value(i) == BaseDelay * 2^i
           Over == {i \in 1..n : value(i) > MaxDelay}
<1>1. \A i \in Nat : /\ value(i) \in Nat \ {0}
                     /\ value(i + 1) = 2 * value(i)
  <2>1. BaseDelay \in Nat \ {0}
    BY RetryAssumption
  <2>2. \A i \in Nat : 2^i \in Nat \ {0} /\ 2^(i + 1) = 2 * 2^i
    BY PowerOfTwo, PowerDoubles
  <2>3. \A b, x \in Nat \ {0} : b * x \in Nat \ {0} /\ b * (2 * x) = 2 * (b * x)
    OBVIOUS
  <2> QED
    BY <2>1, <2>2, <2>3
<1>2. value(0) = BaseDelay
  BY PowerZero, RetryAssumption
<1>3. CASE Over = {}
  <2>1. n \in 1..n /\ n \notin Over
    BY <1>3
  <2>2. ~(value(n) > MaxDelay) /\ value(n) \in Nat
    BY <1>1, <2>1
  <2> QED
    BY <2>2, RetryAssumption
<1>4. CASE Over # {}
  <2>1. PICK m \in Over : \A i \in Over : m <= i
    <3>1. Over \in SUBSET Nat
      OBVIOUS
    <3> QED
      BY <1>4, <3>1, LeastNumber
  <2>2. m - 1 \in Nat /\ m \in 1..n /\ value(m) > MaxDelay
    OBVIOUS
  <2>3. value(m) = 2 * value(m - 1)
    BY <1>1, <2>2
  <2>4. 2 * value(m - 1) < WordHalf
    <3>1. CASE m = 1
      BY <1>2, <3>1 DEF CanDouble
    <3>2. CASE m # 1
      <4>1. m - 1 \in 1..n /\ m - 1 \notin Over
        BY <2>1, <2>2, <3>2
      <4>2. value(m - 1) <= MaxDelay
        BY <1>1, <4>1, RetryAssumption
      <4> QED
        BY <1>1, <2>2, <4>2, RetryAssumption DEF CanDouble
    <3> QED
      BY <3>1, <3>2
  <2>5. Int64(value(m)) = value(m)
    BY <1>1, <2>2, <2>3, <2>4, Int64Fits
  <2>6. value(m) \in Nat /\ value(m) <= MaxDelay
    BY <1>1, <2>2, <2>5
  <2> QED
    BY <2>2, <2>6, RetryAssumption
<1> QED
  BY <1>3, <1>4

\* One pause and the next: the next is the cap, or twice the one before and
\* within the cap.
LEMMA BackoffGrows ==
  ASSUME CanDouble, NEW n \in Nat
  PROVE  LET before == IF n = 0 THEN 0 ELSE backoff(n)
         IN  /\ backoff(n + 1) <= MaxDelay
             /\ backoff(n + 1) > before \/ backoff(n + 1) = MaxDelay
<1> DEFINE value(i) == BaseDelay * 2^i
           capped == \E i \in 1..(n + 1) : Int64(value(i)) > MaxDelay
<1>1. CASE capped
  <2>1. backoff(n + 1) = MaxDelay
    BY <1>1 DEF backoff
  <2> QED
    BY <2>1, RetryAssumption
<1>2. CASE ~capped
  <2>1. \A i \in Nat : /\ value(i) \in Nat \ {0}
                       /\ value(i + 1) = 2 * value(i)
    <3>1. BaseDelay \in Nat \ {0}
      BY RetryAssumption
    <3>2. \A i \in Nat : 2^i \in Nat \ {0} /\ 2^(i + 1) = 2 * 2^i
      BY PowerOfTwo, PowerDoubles
    <3>3. \A b, x \in Nat \ {0} : b * x \in Nat \ {0} /\ b * (2 * x) = 2 * (b * x)
      OBVIOUS
    <3> QED
      BY <3>1, <3>2, <3>3
  <2>2. \A i \in 1..(n + 1) : Int64(value(i)) <= MaxDelay
    <3>1. \A x \in Int : Int64(x) \in Int
      BY RetryAssumption DEF Int64
    <3> QED
      BY <1>2, <2>1, <3>1, RetryAssumption
  <2>3. \A i \in 1..(n + 1) : value(i) <= MaxDelay
    <3>1. ASSUME NEW i \in 1..(n + 1) PROVE value(i) <= MaxDelay
      <4>1. \A j \in 1..i : Int64(BaseDelay * 2^j) <= MaxDelay
        BY <2>2
      <4> QED
        BY <4>1, NotPassedYet
    <3> QED
      BY <3>1
  <2>4. \A i \in 1..(n + 1) : Int64(value(i)) = value(i)
    <3>1. ASSUME NEW i \in 1..(n + 1) PROVE Int64(value(i)) = value(i)
      <4>1. value(i) \in Nat /\ value(i) < WordHalf
        BY <2>1, <2>3, RetryAssumption DEF CanDouble
      <4> QED
        BY <4>1, Int64Fits
    <3> QED
      BY <3>1
  <2>5. backoff(n + 1) = value(n + 1)
    BY <1>2, <2>4 DEF backoff
  <2>6. n # 0 => backoff(n) = value(n)
    BY <1>2, <2>4 DEF backoff
  <2>7. value(n + 1) <= MaxDelay
    BY <2>3
  <2>8. value(n + 1) = 2 * value(n) /\ value(n) \in Nat \ {0}
    BY <2>1
  <2> HIDE DEF value
  <2> QED
    BY <2>5, <2>6, <2>7, <2>8
<1> QED
  BY <1>1, <1>2

\* The pause last armed is that of the attempt at hand, or of the one before
\* while the next is not yet decided.
Pauses ==
  /\ pc # "done" /\ attempt = 1 => delay = 0
  /\ pc = "next" /\ attempt = 2 => delay = 0
  /\ pc = "next" /\ attempt > 2 => delay = backoff(attempt - 2)
  /\ pc \in {"wait", "send", "inflight"} /\ attempt > 1 =>
       delay = backoff(attempt - 1)

LEMMA PausesStep == ASSUME IInv, Pauses, [Next]_vars PROVE Pauses'
<1> USE DEF IInv, TypeOK, fixed, Pauses
<1>1. CASE GiveUp \/ RewindFails \/ WaitCancelled
  BY <1>1 DEF GiveUp, RewindFails, WaitCancelled, ReturnLast, Return
<1>2. CASE FirstAttempt
  BY <1>2 DEF FirstAttempt
<1>3. CASE Rewind
  BY <1>3 DEF Rewind
<1>4. CASE TimerFires \/ Send
  BY <1>4 DEF TimerFires, Send
<1>5. CASE Cancel
  BY <1>5 DEF Cancel
<1>6. ASSUME NEW a \in Answer, InnerReturns(a) PROVE Pauses'
  <2>1. pc = "inflight" /\ delay' = delay
    BY <1>6 DEF InnerReturns
  <2>2. CASE FinalAnswer(a)
    BY <2>2 DEF FinalAnswer, Return
  <2>3. CASE TransientAnswer(a)
    <3>1. pc' = "next" /\ attempt' = attempt + 1
      BY <2>3 DEF TransientAnswer
    <3>2. attempt' > 2 => attempt' - 2 = attempt - 1
      BY <3>1
    <3> QED
      BY <2>1, <3>1, <3>2
  <2> QED
    BY <1>6, <2>2, <2>3 DEF InnerReturns
<1>7. CASE UNCHANGED vars
  BY <1>7 DEF vars
<1> QED
  BY <1>1, <1>2, <1>3, <1>4, <1>5, <1>6, <1>7 DEF Next, Internal

\* The pauses of one call double up to the cap, for every base and cap that can
\* themselves be doubled, although the code doubles before it compares.
THEOREM DoBackoffGrows == Spec => BackoffGrowsToCap
<1>1. Init => Pauses
  BY DEF Init, Pauses
<1>2. IInv /\ Pauses /\ [Next]_vars => Pauses'
  BY PausesStep
<1> DEFINE Grows == /\ pc = "next" /\ pc' = "wait"
                    /\ 2 * BaseDelay < WordHalf /\ 2 * MaxDelay < WordHalf
                    => /\ delay' <= MaxDelay
                       /\ delay' > delay \/ delay' = MaxDelay
<1>3. IInv /\ Pauses /\ [Next]_vars => [Grows]_vars
  <2> SUFFICES ASSUME IInv, Pauses, [Next]_vars, pc = "next", pc' = "wait", CanDouble
               PROVE  /\ delay' <= MaxDelay
                      /\ delay' > delay \/ delay' = MaxDelay
    BY DEF CanDouble
  <2>1. Rewind
    BY DEF Next, Internal, GiveUp, RewindFails, WaitCancelled, ReturnLast, Return,
           FirstAttempt, TimerFires, Send, Cancel, InnerReturns, vars
  <2>2. attempt \in Nat /\ attempt > 1 /\ delay' = backoff(attempt - 1)
    BY <2>1 DEF Rewind, IInv, TypeOK
  <2> DEFINE n == attempt - 2
  <2>3. n \in Nat /\ n + 1 = attempt - 1
    BY <2>2
  <2>4. delay = IF n = 0 THEN 0 ELSE backoff(n)
    BY <2>2 DEF Pauses
  <2>5. /\ backoff(n + 1) <= MaxDelay
        /\ \/ backoff(n + 1) > (IF n = 0 THEN 0 ELSE backoff(n))
           \/ backoff(n + 1) = MaxDelay
    BY <2>3, BackoffGrows
  <2> QED
    BY <2>2, <2>3, <2>4, <2>5
<1> QED
  BY <1>1, <1>2, <1>3, InitInv, StepInv, Invariant, PTL DEF Spec, BackoffGrowsToCap
=============================================================================
