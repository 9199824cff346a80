--------------------------- MODULE MetadataCache ---------------------------
(***************************************************************************)
(* client.FetchMetadata (client/metadata.go): goroutines sharing a Client  *)
(* read its one cache entry under metaMu, decide OUTSIDE the lock whether  *)
(* the snapshot is fresh, fetch with no lock held, and overwrite the entry *)
(* unconditionally under metaMu.  The PDP and the network are the          *)
(* environment: any document, any Cache-Control header, any failure.       *)
(***************************************************************************)
EXTENDS Integers, Sequences

CONSTANTS Callers,     \* goroutines sharing one Client
          None,        \* nil
          BaseURL,     \* the configured PDP URL, [origin, slashes]
          Claims,      \* policy_decision_point values a document may carry
          Relaxed,     \* WithRelaxedMetadataValidation was given
          Headers,     \* Cache-Control values: sequences of directives
          DefaultTTL,  \* metaDefaultTTL, after the options ran
          Second,      \* time.Second, in clock units
          WordHalf,    \* 2^63: time.Duration is an int64
          MaxTime,     \* bound on the clock
          MaxVersion   \* bound on how often the PDP republishes

\* A URL is an origin and the number of slashes it ends in.
URL == [origin : STRING, slashes : Nat]

\* A directive: is it max-age=, does its value parse, and to what.
Directive == [maxAge : BOOLEAN, parses : BOOLEAN, sec : Int]

ASSUME CacheAssumption ==
  /\ BaseURL \in URL /\ Claims \subseteq URL
  /\ Relaxed \in BOOLEAN
  /\ Headers \subseteq Seq(Directive)
  /\ DefaultTTL \in Nat \ {0} /\ Second \in Nat \ {0} /\ WordHalf \in Nat \ {0}
  /\ MaxTime \in Nat /\ MaxVersion \in Nat

VARIABLES now,       \* time.Now(), monotonic
          version,   \* the publication the PDP currently serves
          metaMu,    \* None, or the goroutine holding the mutex
          metaCache, \* None, or the entry [doc, expires]
          pc,        \* pc[c]: where in FetchMetadata c is
          cached,    \* cached[c]: c's snapshot of metaCache
          resp,      \* resp[c]: the response c is working on
          result     \* result[c]: None while c's call runs, else [doc, err]

vars == <<now, version, metaMu, metaCache, pc, cached, resp, result>>

----------------------------------------------------------------------------
\* strings.TrimRight(url, "/")
Trim(url) == [url EXCEPT !.slashes = 0]

\* The document claims to belong to another PDP than the configured one.
Foreign(doc) == Trim(doc.policyDecisionPoint) # Trim(BaseURL)

\* The value an int64 holds after an arithmetic that yields x.
Int64(x) == ((x + WordHalf) % (2 * WordHalf)) - WordHalf

\* Mutant: the last max-age directive decides.
LastMaxAge(header) == {i \in DOMAIN header :
                         /\ header[i].maxAge
                         /\ \A j \in (i + 1)..Len(header) : ~header[j].maxAge}

\* The first max-age directive decides, whatever follows it.
FirstMaxAge(header) == {i \in DOMAIN header :
                          /\ header[i].maxAge
                          /\ \A j \in 1..(i - 1) : ~header[j].maxAge}

\* parseMaxAge: 0 means "no usable max-age".
ParseMaxAge(header) ==
  IF \E i \in FirstMaxAge(header) : header[i].parses /\ header[i].sec > 0
  THEN LET i == CHOOSE i \in FirstMaxAge(header) : TRUE
       IN  Int64(header[i].sec * Second)
  ELSE 0

TTL(header) == IF ParseMaxAge(header) = 0 THEN DefaultTTL
               ELSE ParseMaxAge(header)

Doc == [policyDecisionPoint : Claims, version : 0..MaxVersion]

Entry == [doc : Doc, expires : Int]

Errors == {"transport", "status", "decode", "mixup"}

\* What a finished call returned, (doc, err).
Result == [doc : Doc \cup {None}, err : Errors \cup {None}]

ASSUME NoneAssumption == None \notin Callers \cup Errors \cup Result

\* A 2xx response that decodes, and the two that carry no document: a
\* non-2xx one and one that does not decode.
Response == [fault : {None}, doc : Doc, header : Headers]
              \cup [fault : {"status", "decode"}]

\* Mutant: any entry will do.
FreshIfAny(entry) == entry # None

Fresh(entry) == entry # None /\ now < entry.expires

\* Mutant: no mix-up check.
FaultUnlessMixUp(r) == r.fault

\* The error fetchMetadataRaw finds in a response, in the order it looks.
Fault(r) == IF r.fault = None /\ ~Relaxed /\ Foreign(r.doc) THEN "mixup"
            ELSE r.fault
----------------------------------------------------------------------------
Init == /\ now = 0
        /\ version = 0
        /\ metaMu = None
        /\ metaCache = None
        /\ pc = [c \in Callers |-> "idle"]
        /\ cached = [c \in Callers |-> None]
        /\ resp = [c \in Callers |-> None]
        /\ result = [c \in Callers |-> [doc |-> None, err |-> None]]

Goto(c, from, to) == pc[c] = from /\ pc' = [pc EXCEPT ![c] = to]

\* c's call returns (doc, err) and its locals are gone.
Return(c, from, doc, err) ==
  /\ Goto(c, from, "idle")
  /\ result' = [result EXCEPT ![c] = [doc |-> doc, err |-> err]]
  /\ cached' = [cached EXCEPT ![c] = None]
  /\ resp' = [resp EXCEPT ![c] = None]

\* c.metaMu.Lock(), at either of its two places.
Lock(c, from, to) ==
  /\ Goto(c, from, to)
  /\ metaMu = None
  /\ metaMu' = c
  /\ UNCHANGED <<now, version, metaCache, cached, resp, result>>

\* A goroutine calls FetchMetadata.
Call(c) ==
  /\ Goto(c, "idle", "lockRead")
  /\ result' = [result EXCEPT ![c] = None]
  /\ UNCHANGED <<now, version, metaMu, metaCache, cached, resp>>

LockRead(c) == Lock(c, "lockRead", "inRead")

\* Mutant: the mutex is kept while c fetches.
SnapshotKeepsLock(c) ==
  /\ Goto(c, "inRead", "check")
  /\ cached' = [cached EXCEPT ![c] = metaCache]
  /\ UNCHANGED <<now, version, metaMu, metaCache, resp, result>>

\* cached := c.metaCache; Unlock.
Snapshot(c) ==
  /\ Goto(c, "inRead", "check")
  /\ cached' = [cached EXCEPT ![c] = metaCache]
  /\ metaMu' = None
  /\ UNCHANGED <<now, version, metaCache, resp, result>>

\* The snapshot is still fresh, whatever the cache holds by now.
Hit(c) ==
  /\ Fresh(cached[c])
  /\ Return(c, "check", cached[c].doc, None)
  /\ UNCHANGED <<now, version, metaMu, metaCache>>

\* Mutant: concurrent fetches are coalesced, and a call takes over a response
\* that came for another one, however long ago that one asked.
MissTakesOver(c) ==
  /\ ~Fresh(cached[c])
  /\ \/ Goto(c, "check", "fetch") /\ UNCHANGED resp
     \/ \E d \in Callers : /\ pc[d] = "responded"
                          /\ Goto(c, "check", "responded")
                          /\ resp' = [resp EXCEPT ![c] = resp[d]]
  /\ UNCHANGED <<now, version, metaMu, metaCache, cached, result>>

\* No snapshot, or an expired one: the GET goes out.
Miss(c) ==
  /\ ~Fresh(cached[c])
  /\ Goto(c, "check", "fetch")
  /\ UNCHANGED <<now, version, metaMu, metaCache, cached, resp, result>>

\* The PDP, or whatever answers at its address, answers: it describes the
\* present publication.  The answer may reach c any time later.
Answer(c) ==
  /\ Goto(c, "fetch", "responded")
  /\ \E claim \in Claims, h \in Headers :
       resp' = [resp EXCEPT ![c] =
                  [fault |-> None, header |-> h,
                   doc |-> [policyDecisionPoint |-> claim,
                            version |-> version]]]
  /\ UNCHANGED <<now, version, metaMu, metaCache, cached, result>>

\* The answer is not a 2xx, or its body is not a metadata document.
Refuse(c) ==
  /\ Goto(c, "fetch", "responded")
  /\ \E f \in {"status", "decode"} :
       resp' = [resp EXCEPT ![c] = [fault |-> f]]
  /\ UNCHANGED <<now, version, metaMu, metaCache, cached, result>>

\* Building the request, sending it or reading the body fails, or the
\* context is done.
TransportError(c) ==
  /\ Return(c, "fetch", None, "transport")
  /\ UNCHANGED <<now, version, metaMu, metaCache>>

\* fetchMetadataRaw rejects the response; the cache is not touched.
Reject(c) ==
  /\ Return(c, "responded", None, Fault(resp[c]))
  /\ Fault(resp[c]) # None
  /\ UNCHANGED <<now, version, metaMu, metaCache>>

\* Mutant: the early return on a faulty response is missing.
AcceptAny(c) ==
  /\ Goto(c, "responded", "lockStore")
  /\ UNCHANGED <<now, version, metaMu, metaCache, cached, resp, result>>

\* The response stands; doc and ttl are in hand.
Accept(c) ==
  /\ Goto(c, "responded", "lockStore")
  /\ Fault(resp[c]) = None
  /\ UNCHANGED <<now, version, metaMu, metaCache, cached, resp, result>>

LockStore(c) == Lock(c, "lockStore", "inStore")

\* The entry is overwritten whatever it is by now; Unlock; return doc.
Store(c) ==
  /\ Return(c, "inStore", resp[c].doc, None)
  /\ metaCache' = [doc |-> resp[c].doc,
                   expires |-> now + TTL(resp[c].header)]
  /\ metaMu' = None
  /\ UNCHANGED <<now, version>>

\* Time passes, and the PDP publishes a new document (bounded).
Tick == /\ now < MaxTime
        /\ now' = now + 1
        /\ UNCHANGED <<version, metaMu, metaCache, pc, cached, resp, result>>

Publish == /\ version < MaxVersion
           /\ version' = version + 1
           /\ UNCHANGED <<now, metaMu, metaCache, pc, cached, resp, result>>

Next == \/ \E c \in Callers : \/ Call(c)      \/ LockRead(c) \/ Snapshot(c)
                              \/ Hit(c)       \/ Miss(c)
                              \/ Answer(c)    \/ Refuse(c) \/ TransportError(c)
                              \/ Reject(c)    \/ Accept(c)
                              \/ LockStore(c) \/ Store(c)
        \/ Tick
        \/ Publish

\* The scheduler runs every goroutine, and sync.Mutex hands itself to a
\* starving waiter, so a lock that is released again and again is acquired.
LocalFairness ==
  \A c \in Callers : /\ SF_vars(LockRead(c)) /\ SF_vars(LockStore(c))
                     /\ WF_vars(Snapshot(c)) /\ WF_vars(Hit(c) \/ Miss(c))
                     /\ WF_vars(Reject(c) \/ Accept(c)) /\ WF_vars(Store(c))

Spec == Init /\ [][Next]_vars /\ LocalFairness
----------------------------------------------------------------------------
Steps == {"idle", "lockRead", "inRead", "check", "fetch", "responded",
          "lockStore", "inStore"}

\* A call past the network holds the response, and one past the validation
\* holds a response without fault.
ResponseInHand ==
  \A c \in Callers :
    /\ pc[c] \in {"responded", "lockStore", "inStore"} => resp[c] \in Response
    /\ pc[c] \in {"lockStore", "inStore"} => Fault(resp[c]) = None

\* Every variable keeps to the values the Go types and the steps give it.
TypeOK ==
  /\ now \in 0..MaxTime
  /\ version \in 0..MaxVersion
  /\ metaMu \in Callers \cup {None}
  /\ metaCache \in Entry \cup {None}
  /\ pc \in [Callers -> Steps]
  /\ cached \in [Callers -> Entry \cup {None}]
  /\ resp \in [Callers -> Response \cup {None}]
  /\ result \in [Callers -> Result \cup {None}]
  /\ ResponseInHand

\* Mix-up protection end to end: a strict Client never holds in its cache,
\* carries in a snapshot or hands to a caller a document of another PDP,
\* through any interleaving of hits, fetches and stores.
NoForeignDocument ==
  ~Relaxed =>
    /\ metaCache # None => ~Foreign(metaCache.doc)
    /\ \A c \in Callers :
         /\ cached[c] # None => ~Foreign(cached[c].doc)
         /\ result[c] # None /\ result[c].doc # None
              => ~Foreign(result[c].doc)

\* The store is unconditional, so a slow fetch can put an older publication
\* over a newer one; it can only when another call refilled the cache after
\* the storing call took its snapshot.
LosesRace(c) ==
  /\ pc[c] = "inStore" /\ pc'[c] = "idle"
  /\ metaCache # None /\ metaCache'.doc.version < metaCache.doc.version
  => cached[c] # metaCache

RegressOnlyUnderOverlap == [][\A c \in Callers : LosesRace(c)]_vars

\* The lifetime of a stored entry is what its own response asked for: the
\* max-age of its first max-age directive when that is positive and in
\* range, and the default when no directive is max-age.
LifetimeFromOwnResponse ==
  [][\A c \in Callers :
       pc[c] = "inStore" /\ pc'[c] = "idle" =>
         LET life == metaCache'.expires - now
             h == resp[c].header
         IN  /\ (\A i \in DOMAIN h : ~h[i].maxAge) => life = DefaultTTL
             /\ \A i \in DOMAIN h :
                  /\ h[i].maxAge /\ \A j \in 1..(i - 1) : ~h[j].maxAge
                  /\ h[i].parses /\ h[i].sec > 0
                  /\ h[i].sec * Second < WordHalf
                  => life = h[i].sec * Second]_vars

\* What the doc of WithMetadataTTL says: a max-age that is present on the
\* response always wins over the default.
MaxAgeAlwaysWins ==
  [][\A c \in Callers :
       pc[c] = "inStore" /\ pc'[c] = "idle" =>
         LET ages == SelectSeq(resp[c].header, LAMBDA d : d.maxAge)
         IN  ages # <<>> /\ ages[1].parses /\ ages[1].sec >= 0
               => metaCache'.expires = now + ages[1].sec * Second]_vars

\* The mutex is never held across IO: with no fairness asked of the network,
\* a call that is not itself waiting for the network gets to return or to
\* its own request, even when every other call hangs in the network forever.
LocalProgress ==
  \A c \in Callers :
    /\ pc[c] = "lockRead" ~> pc[c] \in {"fetch", "idle"}
    /\ pc[c] = "responded" ~> pc[c] = "idle"
----------------------------------------------------------------------------
\* The entries that can still be served: the cache's, and the snapshots
\* taken but not yet looked at.
Live == ({metaCache} \cup {cached[c] : c \in {d \in Callers : pc[d] = "check"}})
          \ {None}

TrustedDocs == {d \in Doc : Relaxed \/ ~Foreign(d)}

\* The calls whose request is out or answered.
Asked == {c \in Callers : pc[c] \in {"fetch", "responded", "lockStore",
                                    "inStore"}}

Service == INSTANCE MetadataService WITH live <- Live, asked <- Asked

\* The mutex-and-snapshot implementation promises what MetadataService says.
ImplementsService == Service!Spec
=============================================================================
