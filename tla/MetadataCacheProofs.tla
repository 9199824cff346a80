------------------------ MODULE MetadataCacheProofs ------------------------
(***************************************************************************)
(* Safety of client.FetchMetadata for every set of callers, every header,  *)
(* every claim and every clock: the type invariant, mix-up protection, the *)
(* overlap condition on regressing stores, and the refinement of           *)
(* MetadataService.  All four rest on the inductive invariant IInv.        *)
(***************************************************************************)
EXTENDS MetadataCache, TLAPS

\* A call has a result exactly when it is not running.
ResultWhenIdle == \A c \in Callers : result[c] = None <=> pc[c] # "idle"

\* Nothing a call may serve or compare with is ahead of the PDP.
NotAheadOfPDP ==
  /\ metaCache # None => metaCache.doc.version <= version
  /\ \A c \in Callers :
       /\ cached[c] # None => cached[c].doc.version <= version
       /\ pc[c] \in {"responded", "lockStore", "inStore"}
          /\ resp[c].fault = None
            => resp[c].doc.version <= version

\* What a call is about to store is never older than the entry whose expiry
\* sent it to the network: the PDP is asked after the snapshot is taken.
ResponseNotOlder ==
  \A c \in Callers :
    /\ pc[c] \in {"responded", "lockStore", "inStore"}
    /\ resp[c].fault = None /\ cached[c] # None
    => cached[c].doc.version <= resp[c].doc.version

IInv == /\ TypeOK
        /\ ResultWhenIdle
        /\ NoForeignDocument
        /\ NotAheadOfPDP
        /\ ResponseNotOlder

----------------------------------------------------------------------------
\* A lifetime is an integer, whatever the header.
LEMMA TTLInt == ASSUME NEW h \in Headers PROVE TTL(h) \in Int
<1>1. h \in Seq(Directive)
  BY CacheAssumption, NoneAssumption
<1>2. ParseMaxAge(h) \in Int
  <2>1. CASE \E i \in FirstMaxAge(h) : h[i].parses /\ h[i].sec > 0
    <3> DEFINE i == CHOOSE i \in FirstMaxAge(h) : TRUE
    <3>1. i \in DOMAIN h
      BY <2>1 DEF FirstMaxAge
    <3> HIDE DEF i
    <3>2. h[i] \in Directive
      BY <1>1, <3>1, CacheAssumption, NoneAssumption
    <3>3. h[i].sec * Second \in Int
      BY <3>2, CacheAssumption, NoneAssumption DEF Directive
    <3>4. \A x \in Int : Int64(x) \in Int
      BY CacheAssumption, NoneAssumption DEF Int64
    <3>5. ParseMaxAge(h) = Int64(h[i].sec * Second)
      BY <2>1 DEF ParseMaxAge, i
    <3> QED
      BY <3>3, <3>4, <3>5
  <2>2. CASE ~\E i \in FirstMaxAge(h) : h[i].parses /\ h[i].sec > 0
    BY <2>2 DEF ParseMaxAge
  <2> QED
    BY <2>1, <2>2
<1> QED
  BY <1>2, CacheAssumption, NoneAssumption DEF TTL

\* The initial state satisfies the inductive invariant.
LEMMA InitInv == Init => IInv
  BY CacheAssumption, NoneAssumption
     DEF Init, IInv, TypeOK, Steps, Result, ResultWhenIdle, ResponseInHand,
         NoForeignDocument, NotAheadOfPDP, ResponseNotOlder

\* What c stores came with a response without fault.
LEMMA StoredIsFaultless ==
  ASSUME IInv, NEW c \in Callers, pc[c] = "inStore"
  PROVE  /\ resp[c].doc \in Doc
         /\ TTL(resp[c].header) \in Int
         /\ resp[c].fault = None
         /\ ~Relaxed => ~Foreign(resp[c].doc)
<1>1. resp[c] \in Response /\ Fault(resp[c]) = None
  BY DEF IInv, TypeOK, ResponseInHand
<1>2. resp[c].fault = None /\ (~Relaxed => ~Foreign(resp[c].doc))
  BY <1>1, CacheAssumption, NoneAssumption DEF Fault, Errors
<1>3. resp[c] \in [fault : {None}, doc : Doc, header : Headers]
  BY <1>1, <1>2, CacheAssumption, NoneAssumption DEF Response, Errors
<1> QED
  BY <1>2, <1>3, TTLInt

\* Every step preserves the inductive invariant.
LEMMA StepInv == ASSUME IInv, [Next]_vars PROVE IInv'
<1> USE CacheAssumption, NoneAssumption DEF IInv, TypeOK
<1>1. ASSUME NEW c \in Callers, Call(c) PROVE IInv'
  <2>1. ResponseInHand' /\ NoForeignDocument' /\ NotAheadOfPDP'
        /\ ResponseNotOlder'
    BY <1>1 DEF Call, Goto, ResponseInHand, NoForeignDocument, NotAheadOfPDP,
                ResponseNotOlder
  <2>2. ResultWhenIdle'
    BY <1>1 DEF Call, Goto, ResultWhenIdle, Result, Errors
  <2>3. TypeOK'
    BY <1>1, <2>1 DEF Call, Goto, Steps, Errors, Result
  <2> QED
    BY <2>1, <2>2, <2>3
<1>2. ASSUME NEW c \in Callers, LockRead(c) PROVE IInv'
  <2>1. ResponseInHand' /\ NoForeignDocument' /\ NotAheadOfPDP'
        /\ ResponseNotOlder'
    BY <1>2 DEF LockRead, Lock, Goto, ResponseInHand, NoForeignDocument,
                NotAheadOfPDP, ResponseNotOlder
  <2>2. ResultWhenIdle'
    BY <1>2 DEF LockRead, Lock, Goto, ResultWhenIdle, Result, Errors
  <2>3. TypeOK'
    BY <1>2, <2>1 DEF LockRead, Lock, Goto, Steps, Errors, Result
  <2> QED
    BY <2>1, <2>2, <2>3
<1>3. ASSUME NEW c \in Callers, Snapshot(c) PROVE IInv'
  <2>1. ResponseInHand'
    BY <1>3 DEF Snapshot, Goto, ResponseInHand, Response, Doc
  <2>2. NoForeignDocument'
    BY <1>3 DEF Snapshot, Goto, NoForeignDocument
  <2>3. NotAheadOfPDP'
    BY <1>3 DEF Snapshot, Goto, NotAheadOfPDP, Entry, Doc
  <2>4. ResponseNotOlder'
    BY <1>3 DEF Snapshot, Goto, ResponseNotOlder, Entry, Doc, NotAheadOfPDP
  <2>5. ResultWhenIdle'
    BY <1>3 DEF Snapshot, Goto, ResultWhenIdle, Result
  <2>6. TypeOK'
    BY <1>3, <2>1 DEF Snapshot, Goto, Steps, Entry, Doc, Response, Errors,
                      Result
  <2> QED
    BY <2>1, <2>2, <2>3, <2>4, <2>5, <2>6
<1>4. ASSUME NEW c \in Callers, Hit(c) PROVE IInv'
  <2>1. ResponseInHand'
    BY <1>4 DEF Hit, Fresh, Return, Goto, ResponseInHand, Response, Doc
  <2>2. NoForeignDocument'
    BY <1>4 DEF Hit, Fresh, Return, Goto, NoForeignDocument
  <2>3. NotAheadOfPDP'
    BY <1>4 DEF Hit, Fresh, Return, Goto, NotAheadOfPDP, Entry, Doc
  <2>4. ResponseNotOlder'
    BY <1>4 DEF Hit, Fresh, Return, Goto, ResponseNotOlder, Entry, Doc,
                NotAheadOfPDP
  <2>5. ResultWhenIdle'
    BY <1>4 DEF Hit, Fresh, Return, Goto, ResultWhenIdle, Result, Entry
  <2>6. TypeOK'
    BY <1>4, <2>1 DEF Hit, Fresh, Return, Goto, Steps, Entry, Doc, Response,
                      Errors, Result
  <2> QED
    BY <2>1, <2>2, <2>3, <2>4, <2>5, <2>6
<1>5. ASSUME NEW c \in Callers, Miss(c) PROVE IInv'
  <2>1. ResponseInHand' /\ NoForeignDocument' /\ NotAheadOfPDP'
        /\ ResponseNotOlder'
    BY <1>5 DEF Miss, Goto, ResponseInHand, NoForeignDocument, NotAheadOfPDP,
                ResponseNotOlder
  <2>2. ResultWhenIdle'
    BY <1>5 DEF Miss, Goto, ResultWhenIdle, Result, Errors
  <2>3. TypeOK'
    BY <1>5, <2>1 DEF Miss, Goto, Steps, Errors, Result
  <2> QED
    BY <2>1, <2>2, <2>3
<1>6. ASSUME NEW c \in Callers, Answer(c) PROVE IInv'
  <2>1. ResponseInHand'
    BY <1>6 DEF Answer, Goto, ResponseInHand, Response, Doc
  <2>2. NoForeignDocument'
    BY <1>6 DEF Answer, Goto, NoForeignDocument
  <2>3. NotAheadOfPDP'
    BY <1>6 DEF Answer, Goto, NotAheadOfPDP, Entry, Doc
  <2>4. ResponseNotOlder'
    BY <1>6 DEF Answer, Goto, ResponseNotOlder, Entry, Doc, NotAheadOfPDP
  <2>5. ResultWhenIdle'
    BY <1>6 DEF Answer, Goto, ResultWhenIdle, Result
  <2>6. TypeOK'
    BY <1>6, <2>1 DEF Answer, Goto, Steps, Entry, Doc, Response, Errors,
                      Result
  <2> QED
    BY <2>1, <2>2, <2>3, <2>4, <2>5, <2>6
<1>7. ASSUME NEW c \in Callers, Refuse(c) PROVE IInv'
  <2>1. ResponseInHand'
    BY <1>7 DEF Refuse, Goto, ResponseInHand, Response, Doc
  <2>2. NoForeignDocument'
    BY <1>7 DEF Refuse, Goto, NoForeignDocument
  <2>3. NotAheadOfPDP'
    BY <1>7 DEF Refuse, Goto, NotAheadOfPDP, Entry, Doc, Errors
  <2>4. ResponseNotOlder'
    BY <1>7 DEF Refuse, Goto, ResponseNotOlder, Entry, Doc, NotAheadOfPDP,
                Errors
  <2>5. ResultWhenIdle'
    BY <1>7 DEF Refuse, Goto, ResultWhenIdle, Result
  <2>6. TypeOK'
    BY <1>7, <2>1 DEF Refuse, Goto, Steps, Entry, Doc, Response, Errors,
                      Result
  <2> QED
    BY <2>1, <2>2, <2>3, <2>4, <2>5, <2>6
<1>8. ASSUME NEW c \in Callers, TransportError(c) PROVE IInv'
  <2>1. ResponseInHand' /\ NoForeignDocument' /\ NotAheadOfPDP'
        /\ ResponseNotOlder'
    BY <1>8 DEF TransportError, Return, Goto, ResponseInHand,
                NoForeignDocument, NotAheadOfPDP, ResponseNotOlder
  <2>2. ResultWhenIdle'
    BY <1>8 DEF TransportError, Return, Goto, ResultWhenIdle, Result, Errors
  <2>3. TypeOK'
    BY <1>8, <2>1 DEF TransportError, Return, Goto, Steps, Errors, Result
  <2> QED
    BY <2>1, <2>2, <2>3
<1>9. ASSUME NEW c \in Callers, Reject(c) PROVE IInv'
  <2>0. Fault(resp[c]) \in Errors \cup {None}
    BY <1>9 DEF Reject, Return, Goto, ResponseInHand, Response, Fault, Errors
  <2>1. ResponseInHand'
    BY <1>9, <2>0 DEF Reject, Return, Goto, ResponseInHand, Response, Doc
  <2>2. NoForeignDocument'
    BY <1>9, <2>0 DEF Reject, Return, Goto, NoForeignDocument
  <2>3. NotAheadOfPDP'
    BY <1>9, <2>0 DEF Reject, Return, Goto, NotAheadOfPDP, Entry, Doc
  <2>4. ResponseNotOlder'
    BY <1>9, <2>0 DEF Reject, Return, Goto, ResponseNotOlder, Entry, Doc,
                      NotAheadOfPDP
  <2>5. ResultWhenIdle'
    BY <1>9, <2>0 DEF Reject, Return, Goto, ResultWhenIdle, Result
  <2>6. TypeOK'
    BY <1>9, <2>0, <2>1 DEF Reject, Return, Goto, Steps, Entry, Doc,
                            Response, Errors, Result
  <2> QED
    BY <2>1, <2>2, <2>3, <2>4, <2>5, <2>6
<1>10. ASSUME NEW c \in Callers, Accept(c) PROVE IInv'
  <2>1. ResponseInHand' /\ NoForeignDocument' /\ NotAheadOfPDP'
        /\ ResponseNotOlder'
    BY <1>10 DEF Accept, Goto, ResponseInHand, NoForeignDocument,
                 NotAheadOfPDP, ResponseNotOlder
  <2>2. ResultWhenIdle'
    BY <1>10 DEF Accept, Goto, ResultWhenIdle, Result, Errors
  <2>3. TypeOK'
    BY <1>10, <2>1 DEF Accept, Goto, Steps, Errors, Result
  <2> QED
    BY <2>1, <2>2, <2>3
<1>11. ASSUME NEW c \in Callers, LockStore(c) PROVE IInv'
  <2>1. ResponseInHand' /\ NoForeignDocument' /\ NotAheadOfPDP'
        /\ ResponseNotOlder'
    BY <1>11 DEF LockStore, Lock, Goto, ResponseInHand, NoForeignDocument,
                 NotAheadOfPDP, ResponseNotOlder
  <2>2. ResultWhenIdle'
    BY <1>11 DEF LockStore, Lock, Goto, ResultWhenIdle, Result, Errors
  <2>3. TypeOK'
    BY <1>11, <2>1 DEF LockStore, Lock, Goto, Steps, Errors, Result
  <2> QED
    BY <2>1, <2>2, <2>3
<1>12. ASSUME NEW c \in Callers, Store(c) PROVE IInv'
  <2> pc[c] = "inStore"
    BY <1>12 DEF Store, Return, Goto
  <2> DEFINE life == TTL(resp[c].header)
  <2>0. /\ resp[c].doc \in Doc /\ life \in Int /\ resp[c].fault = None
        /\ ~Relaxed => ~Foreign(resp[c].doc)
    BY StoredIsFaultless
  <2> HIDE DEF life
  <2>1. ResponseInHand'
    BY <1>12, <2>0 DEF Store, Return, Goto, life, ResponseInHand, Response,
                       Doc
  <2>2. NoForeignDocument'
    BY <1>12, <2>0 DEF Store, Return, Goto, life, NoForeignDocument
  <2>3. NotAheadOfPDP'
    BY <1>12, <2>0 DEF Store, Return, Goto, life, NotAheadOfPDP, Entry, Doc,
                       ResponseInHand
  <2>4. ResponseNotOlder'
    BY <1>12, <2>0 DEF Store, Return, Goto, life, ResponseNotOlder, Entry,
                       Doc, NotAheadOfPDP
  <2>5. ResultWhenIdle'
    BY <1>12, <2>0 DEF Store, Return, Goto, life, ResultWhenIdle, Result
  <2>6. TypeOK'
    BY <1>12, <2>0, <2>1 DEF Store, Return, Goto, life, Steps, Entry, Doc,
                             Response, Errors, Result
  <2> QED
    BY <2>1, <2>2, <2>3, <2>4, <2>5, <2>6
<1>13. ASSUME Tick PROVE IInv'
  <2>1. ResponseInHand' /\ NoForeignDocument' /\ NotAheadOfPDP'
        /\ ResponseNotOlder'
    BY <1>13 DEF Tick, ResponseInHand, NoForeignDocument, NotAheadOfPDP,
                 ResponseNotOlder
  <2>2. ResultWhenIdle'
    BY <1>13 DEF Tick, ResultWhenIdle, Result, Errors
  <2>3. TypeOK'
    BY <1>13, <2>1 DEF Tick, Steps, Errors, Result
  <2> QED
    BY <2>1, <2>2, <2>3
<1>14. ASSUME Publish PROVE IInv'
  <2>1. ResponseInHand'
    BY <1>14 DEF Publish, ResponseInHand, Response, Doc
  <2>2. NoForeignDocument'
    BY <1>14 DEF Publish, NoForeignDocument
  <2>3. NotAheadOfPDP'
    BY <1>14 DEF Publish, NotAheadOfPDP, Entry, Doc, ResponseInHand,
                 Response, Errors
  <2>4. ResponseNotOlder'
    BY <1>14 DEF Publish, ResponseNotOlder, Entry, Doc, NotAheadOfPDP, Errors
  <2>5. ResultWhenIdle'
    BY <1>14 DEF Publish, ResultWhenIdle, Result
  <2>6. TypeOK'
    BY <1>14, <2>1 DEF Publish, Steps, Entry, Doc, Response, Errors, Result
  <2> QED
    BY <2>1, <2>2, <2>3, <2>4, <2>5, <2>6
<1>15. CASE UNCHANGED vars
  BY <1>15 DEF vars, ResultWhenIdle, ResponseInHand, NoForeignDocument,
               NotAheadOfPDP, ResponseNotOlder
<1> QED
  BY <1>1, <1>2, <1>3, <1>4, <1>5, <1>6, <1>7, <1>8, <1>9, <1>10, <1>11, <1>12,
     <1>13, <1>14, <1>15
     DEF Next

\* Holds in every state of every behavior.
LEMMA Invariant == Spec => []IInv
<1>1. IInv /\ [Next]_vars => IInv'
  BY StepInv
<1> QED
  BY InitInv, <1>1, PTL DEF Spec
----------------------------------------------------------------------------
\* Every variable keeps to its values, for every instance.
THEOREM TypeCorrect == Spec => []TypeOK
<1>1. IInv => TypeOK
  BY DEF IInv
<1> QED
  BY Invariant, <1>1, PTL

\* A strict Client never caches, carries or returns a document of another
\* PDP (fetchMetadataRaw's mix-up check, seen from every caller).
THEOREM MixUpProtection == Spec => []NoForeignDocument
<1>1. IInv => NoForeignDocument
  BY DEF IInv
<1> QED
  BY Invariant, <1>1, PTL

\* What FetchMetadata stores is never older than the entry whose expiry made
\* it fetch.
THEOREM FetchedNotOlder == Spec => []ResponseNotOlder
<1>1. IInv => ResponseNotOlder
  BY DEF IInv
<1> QED
  BY Invariant, <1>1, PTL

\* A store that puts back an older publication has lost a race: another
\* call stored after the storing one took its snapshot.
THEOREM RegressNeedsOverlap == Spec => RegressOnlyUnderOverlap
<1>1. IInv /\ [Next]_vars => [\A c \in Callers : LosesRace(c)]_vars
  <2> SUFFICES ASSUME IInv, [Next]_vars, NEW c \in Callers,
                      pc[c] = "inStore", pc'[c] = "idle", metaCache # None,
                      metaCache'.doc.version < metaCache.doc.version,
                      cached[c] = metaCache
               PROVE  FALSE
    BY DEF LosesRace
  <2>1. resp[c].fault = None /\ resp[c].doc \in Doc
    BY StoredIsFaultless
  <2>2. cached[c].doc.version <= resp[c].doc.version
    BY <2>1 DEF IInv, ResponseNotOlder
  <2>3. metaCache' = metaCache \/ metaCache'.doc = resp[c].doc
    BY DEF Next, vars, Call, LockRead, LockStore, Lock, Snapshot, Hit, Miss,
                Answer, Refuse, TransportError, Reject, Accept, Store, Return,
                Goto, Tick, Publish, IInv, TypeOK
  <2> QED
    BY <2>1, <2>2, <2>3 DEF IInv, TypeOK, Entry, Doc
<1> QED
  BY Invariant, <1>1, PTL DEF Spec, RegressOnlyUnderOverlap

\* The lifetime a header asks for.
LEMMA LifetimeOfHeader ==
  ASSUME NEW h \in Headers
  PROVE  /\ (\A i \in DOMAIN h : ~h[i].maxAge) => TTL(h) = DefaultTTL
         /\ \A i \in DOMAIN h :
              /\ h[i].maxAge /\ \A j \in 1..(i - 1) : ~h[j].maxAge
              /\ h[i].parses /\ h[i].sec > 0
              /\ h[i].sec * Second < WordHalf
              => TTL(h) = h[i].sec * Second
<1>1. h \in Seq(Directive) /\ Second \in Nat \ {0} /\ WordHalf \in Nat \ {0}
  BY CacheAssumption
<1>2. ASSUME \A i \in DOMAIN h : ~h[i].maxAge PROVE TTL(h) = DefaultTTL
  <2>1. FirstMaxAge(h) = {}
    BY <1>2, Zenon DEF FirstMaxAge
  <2>2. ParseMaxAge(h) = 0
    BY <2>1 DEF ParseMaxAge
  <2> QED
    BY <2>2 DEF TTL
<1>3. ASSUME NEW i \in DOMAIN h, h[i].maxAge, \A j \in 1..(i - 1) : ~h[j].maxAge,
             h[i].parses, h[i].sec > 0, h[i].sec * Second < WordHalf
      PROVE  TTL(h) = h[i].sec * Second
  <2>1. i \in FirstMaxAge(h)
    BY <1>3, Zenon DEF FirstMaxAge
  <2>2. ASSUME NEW k \in FirstMaxAge(h) PROVE k = i
    <3>1. k \in DOMAIN h /\ h[k].maxAge
      BY Zenon DEF FirstMaxAge
    <3>2. k \notin 1..(i - 1)
      BY <1>3, <3>1, Zenon
    <3>3. i \notin 1..(k - 1)
      BY <1>3, Zenon DEF FirstMaxAge
    <3> QED
      BY <1>1, <3>1, <3>2, <3>3
  <2>3. (CHOOSE k \in FirstMaxAge(h) : TRUE) = i
    BY <2>1, <2>2
  <2>4. \E k \in FirstMaxAge(h) : h[k].parses /\ h[k].sec > 0
    BY <1>3, <2>1, Zenon
  <2>5. ParseMaxAge(h) = Int64(h[i].sec * Second)
    BY <2>3, <2>4 DEF ParseMaxAge
  <2> DEFINE x == h[i].sec * Second
  <2>6. x \in Nat \ {0} /\ x < WordHalf
    <3>1. h[i].sec \in Nat \ {0}
      <4>1. h[i] \in Directive /\ h[i].sec > 0
        BY <1>1, <1>3
      <4>2. h[i].sec \in Int
        BY <4>1 DEF Directive
      <4> QED
        BY <4>1, <4>2
    <3>2. \A s, u \in Nat \ {0} : s * u \in Nat \ {0}
      OBVIOUS
    <3> QED
      BY <1>1, <1>3, <3>1, <3>2
  <2> HIDE DEF x
  <2>7. (x + WordHalf) % (2 * WordHalf) = x + WordHalf
    <3>1. \A y \in Nat, m \in Nat : y < m => y % m = y
      OBVIOUS
    <3> QED
      BY <1>1, <2>6, <3>1
  <2>8. Int64(x) = x
    BY <1>1, <2>6, <2>7 DEF Int64
  <2>9. ParseMaxAge(h) = x
    BY <2>5, <2>8 DEF x
  <2>10. TTL(h) = x
    BY <2>6, <2>9 DEF TTL
  <2> QED
    BY <2>10 DEF x
<1> QED
  BY <1>2, <1>3, Zenon

\* What is stored lives as long as its own response asks, for every header: a
\* first max-age that is positive and in range decides, and with no max-age the
\* default (parseMaxAge, whatever overflows elsewhere).
THEOREM StoredLifetime == Spec => LifetimeFromOwnResponse
<1> DEFINE Lives(c) ==
      pc[c] = "inStore" /\ pc'[c] = "idle" =>
        LET life == metaCache'.expires - now
            h == resp[c].header
        IN  /\ (\A i \in DOMAIN h : ~h[i].maxAge) => life = DefaultTTL
            /\ \A i \in DOMAIN h :
                 /\ h[i].maxAge /\ \A j \in 1..(i - 1) : ~h[j].maxAge
                 /\ h[i].parses /\ h[i].sec > 0
                 /\ h[i].sec * Second < WordHalf
                 => life = h[i].sec * Second
<1>1. IInv /\ [Next]_vars => [\A c \in Callers : Lives(c)]_vars
  <2> SUFFICES ASSUME IInv, [Next]_vars, NEW c \in Callers,
                      pc[c] = "inStore", pc'[c] = "idle"
               PROVE  Lives(c)
    OBVIOUS
  <2> DEFINE h == resp[c].header
  <2>1. resp[c].fault = None /\ h \in Headers
    <3>1. resp[c] \in Response /\ Fault(resp[c]) = None
      BY DEF IInv, TypeOK, ResponseInHand
    <3>2. resp[c].fault = None
      BY StoredIsFaultless
    <3>3. resp[c] \in [fault : {None}, doc : Doc, header : Headers]
      BY <3>1, <3>2, NoneAssumption DEF Response, Errors
    <3> QED
      BY <3>2, <3>3
  <2>2. Store(c)
    <3>1. pc \in [Callers -> Steps] /\ "inStore" # "idle"
      BY DEF IInv, TypeOK
    <3>2. ASSUME NEW d \in Callers, NEW to, pc' = [pc EXCEPT ![d] = to] PROVE d = c
      BY <3>1, <3>2
    <3>3. CASE Tick \/ Publish \/ UNCHANGED vars
      BY <3>1, <3>3 DEF Tick, Publish, vars
    <3>4. ASSUME NEW d \in Callers,
                 \/ Call(d)      \/ LockRead(d) \/ Snapshot(d)
                 \/ Hit(d)       \/ Miss(d)
                 \/ Answer(d)    \/ Refuse(d) \/ TransportError(d)
                 \/ Reject(d)    \/ Accept(d)
                 \/ LockStore(d) \/ Store(d)
          PROVE  Store(c)
      <4>1. d = c
        BY <3>2, <3>4
        DEF Call, LockRead, LockStore, Lock, Snapshot, Hit, Miss, Answer, Refuse,
            TransportError, Reject, Accept, Store, Return, Goto
      <4> QED
        BY <3>4, <4>1
        DEF Call, LockRead, LockStore, Lock, Snapshot, Hit, Miss, Answer, Refuse,
            TransportError, Reject, Accept, Return, Goto
    <3> QED
      BY <3>3, <3>4 DEF Next
  <2>3. metaCache'.expires = now + TTL(h)
    BY <2>2 DEF Store
  <2>4. TTL(h) \in Int /\ now \in Int
    BY <2>1, TTLInt DEF IInv, TypeOK
  <2>5. metaCache'.expires - now = TTL(h)
    BY <2>3, <2>4
  <2> QED
    BY <2>1, <2>5, LifetimeOfHeader
<1> QED
  BY <1>1, Invariant, PTL DEF Spec, LifetimeFromOwnResponse

----------------------------------------------------------------------------
\* A step that returns nothing, sends nothing and leaves the clock alone maps
\* to Forget, provided it makes no new entry servable.
LEMMA SilentStep ==
  ASSUME Live' \subseteq Live, UNCHANGED <<now, result>>, Asked' = Asked
  PROVE  [Service!Next]_(Service!serviceVars)
  BY DEF Service!Next, Service!Forget, Service!serviceVars

\* A call that returns without storing makes no new entry servable.
LEMMA ReturnKeepsLive ==
  ASSUME NEW c \in Callers, NEW from, from # "idle", NEW doc, NEW err, TypeOK,
         Return(c, from, doc, err), metaCache' = metaCache
  PROVE  Live' \subseteq Live
<1>1. \A d \in Callers : pc'[d] = "check" =>
       pc[d] = "check" /\ cached'[d] = cached[d]
  BY DEF Return, Goto, TypeOK
<1> QED
  BY <1>1 DEF Live

\* The returned pair, in the abstract specification's words.
LEMMA ReturnIsServiceReturn ==
  ASSUME NEW c \in Callers, NEW from, from # "idle", NEW doc, NEW err,
         IInv, Return(c, from, doc, err), now' = now
  PROVE  /\ Service!Return(c, doc, err)
         /\ c \in Asked <=> from \in {"fetch", "responded", "lockStore",
                                    "inStore"}
<1>1. Asked' = Asked \ {c}
  BY DEF Return, Goto, IInv, TypeOK, Asked
<1> QED
  BY <1>1 DEF Return, Goto, IInv, ResultWhenIdle, Service!Return, Asked

\* Every step of the mutex-and-snapshot code is a step of MetadataService.
LEMMA StepRefines ==
  ASSUME IInv, [Next]_vars PROVE [Service!Next]_(Service!serviceVars)
<1>1. ASSUME NEW c \in Callers, Call(c)
      PROVE  [Service!Next]_(Service!serviceVars)
  <2>1. result[c] # None
    BY <1>1 DEF Call, Goto, IInv, ResultWhenIdle
  <2>2. Live' = Live /\ Asked' = Asked
    BY <1>1 DEF Call, Goto, Live, Asked, IInv, TypeOK
  <2> QED
    BY <1>1, <2>1, <2>2 DEF Call, Service!Next, Service!Begin
<1>2. ASSUME NEW c \in Callers, \/ LockRead(c) \/ Answer(c)
                                \/ Refuse(c)   \/ Accept(c) \/ LockStore(c)
      PROVE  [Service!Next]_(Service!serviceVars)
  <2>1. /\ UNCHANGED <<now, result, metaCache, cached>>
        /\ \A d \in Callers : pc'[d] = "check" => pc[d] = "check"
    BY <1>2 DEF LockRead, LockStore, Lock, Answer, Refuse, Accept, Goto,
                IInv, TypeOK
  <2>2. Live' \subseteq Live
    BY <2>1 DEF Live
  <2>3. Asked' = Asked
    BY <1>2 DEF LockRead, LockStore, Lock, Answer, Refuse, Accept, Goto,
                Asked, IInv, TypeOK
  <2> QED
    BY <2>1, <2>2, <2>3, SilentStep
<1>3. ASSUME NEW c \in Callers, Snapshot(c)
      PROVE  [Service!Next]_(Service!serviceVars)
  <2>1. \A d \in Callers : pc'[d] = "check" =>
          cached'[d] = metaCache \/ (pc[d] = "check" /\ cached'[d] = cached[d])
    BY <1>3 DEF Snapshot, Goto, IInv, TypeOK
  <2>2. Live' \subseteq Live
    BY <1>3, <2>1 DEF Snapshot, Live
  <2>3. Asked' = Asked
    BY <1>3 DEF Snapshot, Goto, Asked, IInv, TypeOK
  <2> QED
    BY <1>3, <2>2, <2>3, SilentStep DEF Snapshot
<1>4. ASSUME NEW c \in Callers, Hit(c)
      PROVE  [Service!Next]_(Service!serviceVars)
  <2>1. cached[c] \in Live /\ now < cached[c].expires
    BY <1>4 DEF Hit, Fresh, Return, Goto, Live
  <2>2. /\ Service!Return(c, cached[c].doc, None) /\ Live' \subseteq Live
        /\ c \notin Asked
    BY <1>4, ReturnIsServiceReturn, ReturnKeepsLive DEF Hit, IInv
  <2>3. Service!ServeCached(c)
    BY <2>1, <2>2 DEF Service!ServeCached
  <2> QED
    BY <2>3 DEF Service!Next
<1>5. ASSUME NEW c \in Callers, TransportError(c) \/ Reject(c)
      PROVE  [Service!Next]_(Service!serviceVars)
  <2>1. CASE TransportError(c)
    <3>1. /\ Service!Return(c, None, "transport") /\ Live' \subseteq Live
          /\ c \in Asked
      BY <2>1, ReturnIsServiceReturn, ReturnKeepsLive DEF TransportError, IInv
    <3>2. Service!Fail(c)
      BY <3>1 DEF Service!Fail, Errors
    <3> QED
      BY <3>2 DEF Service!Next
  <2>2. CASE Reject(c)
    <3>1. /\ Service!Return(c, None, Fault(resp[c])) /\ Live' \subseteq Live
          /\ c \in Asked
      BY <2>2, ReturnIsServiceReturn, ReturnKeepsLive DEF Reject, IInv
    <3>2. Fault(resp[c]) \in Errors
      BY <2>2 DEF Reject, Return, Goto, IInv, TypeOK, ResponseInHand,
                  Response, Fault, Errors
    <3>3. Service!Fail(c)
      BY <3>1, <3>2 DEF Service!Fail
    <3> QED
      BY <3>3 DEF Service!Next
  <2> QED
    BY <1>5, <2>1, <2>2
<1>6. ASSUME NEW c \in Callers, Store(c)
      PROVE  [Service!Next]_(Service!serviceVars)
  <2>1. pc[c] = "inStore" /\ metaCache'.doc = resp[c].doc
    BY <1>6 DEF Store, Return, Goto
  <2>2. resp[c].doc \in TrustedDocs
    BY <2>1, StoredIsFaultless DEF TrustedDocs
  <2>3. Service!Return(c, resp[c].doc, None) /\ c \in Asked
    BY <1>6, ReturnIsServiceReturn DEF Store
  <2>4. \A d \in Callers : pc'[d] = "check" =>
          pc[d] = "check" /\ cached'[d] = cached[d]
    BY <1>6 DEF Store, Return, Goto, IInv, TypeOK
  <2>5. \A e \in Live' \ Live : e = metaCache'
    BY <2>4 DEF Live
  <2>6. Service!ServeFetched(c)
    BY <2>1, <2>2, <2>3, <2>5 DEF Service!ServeFetched
  <2> QED
    BY <2>6 DEF Service!Next
<1>7. CASE Tick
  <2>1. Live' = Live /\ Asked' = Asked /\ result' = result /\ now' > now
    BY <1>7 DEF Tick, Live, Asked, IInv, TypeOK
  <2> QED
    BY <2>1 DEF Service!Next, Service!Pass
<1>8. CASE Publish \/ UNCHANGED vars
  BY <1>8, SilentStep DEF Publish, vars, Live, Asked
<1>9. ASSUME NEW c \in Callers, Miss(c)
      PROVE  [Service!Next]_(Service!serviceVars)
  <2>1. /\ UNCHANGED <<now, result, metaCache, cached>>
        /\ \A d \in Callers : pc'[d] = "check" => pc[d] = "check"
    BY <1>9 DEF Miss, Goto, IInv, TypeOK
  <2>2. Live' \subseteq Live
    BY <2>1 DEF Live
  <2>3. c \notin Asked /\ Asked' = Asked \cup {c} /\ result[c] = None
    BY <1>9 DEF Miss, Goto, Asked, IInv, TypeOK, ResultWhenIdle
  <2>4. Service!Ask(c)
    BY <2>1, <2>2, <2>3 DEF Service!Ask
  <2> QED
    BY <2>4 DEF Service!Next
<1> QED
  BY <1>1, <1>2, <1>3, <1>4, <1>5, <1>6, <1>7, <1>8, <1>9 DEF Next

\* FetchMetadata implements MetadataService, whatever the interleaving, the
\* PDP and the network do.
THEOREM ImplementsMetadataService == Spec => ImplementsService
<1>1. Init => Service!Init
  BY DEF Init, Service!Init, Service!Idle, Live, Asked
<1>2. IInv /\ [Next]_vars => [Service!Next]_(Service!serviceVars)
  BY StepRefines
<1> QED
  BY <1>1, <1>2, Invariant, PTL DEF Spec, ImplementsService, Service!Spec
=============================================================================
