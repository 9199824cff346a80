-------------------------- MODULE MetadataService --------------------------
(***************************************************************************)
(* What client.FetchMetadata promises, with no mutex, no snapshot and no   *)
(* wire: a call either returns the document of an entry that is unexpired  *)
(* at the instant it is looked at, or it asks the PDP, and returns a       *)
(* trusted document or an error and nothing else happens.  `live` is the   *)
(* set of cache entries some call may still serve; it may hold several,    *)
(* because a call looks at the entry it snapshotted and not at the one the *)
(* cache holds by then.                                                    *)
(***************************************************************************)
EXTENDS Integers

CONSTANTS Callers,      \* goroutines sharing one Client
          None,         \* nil
          TrustedDocs,  \* the documents a call may return
          Errors        \* kinds of error a call may return

VARIABLES now,          \* the monotonic clock
          live,         \* entries [doc, expires] some call may still serve
          asked,        \* callers whose call has gone to the PDP
          result        \* result[c]: None while c's call runs, else [doc, err]

serviceVars == <<now, live, asked, result>>

Idle == [doc |-> None, err |-> None]

\* No call has been made; the cache is empty.
Init == /\ now = 0
        /\ live = {}
        /\ asked = {}
        /\ result = [c \in Callers |-> Idle]

\* c calls FetchMetadata.
Begin(c) == /\ result[c] # None
            /\ result' = [result EXCEPT ![c] = None]
            /\ UNCHANGED <<now, live, asked>>

\* c goes to the PDP.
Ask(c) == /\ result[c] = None
          /\ c \notin asked
          /\ asked' = asked \cup {c}
          /\ live' \subseteq live
          /\ UNCHANGED <<now, result>>

Return(c, doc, err) ==
  /\ result[c] = None
  /\ result' = [result EXCEPT ![c] = [doc |-> doc, err |-> err]]
  /\ asked' = asked \ {c}
  /\ UNCHANGED now

\* c returns a document from an entry that has not expired, without asking.
ServeCached(c) == /\ c \notin asked
                  /\ \E e \in live : /\ now < e.expires
                                     /\ Return(c, e.doc, None)
                  /\ live' \subseteq live

\* c returns a document it asked for, and may leave one entry for it to later
\* calls.
ServeFetched(c) == /\ c \in asked
                   /\ \E doc \in TrustedDocs :
                        /\ Return(c, doc, None)
                        /\ \A e, f \in live' \ live : e = f /\ e.doc = doc

\* c asked and fails: no document is returned, no entry becomes servable.
Fail(c) == /\ c \in asked
           /\ \E err \in Errors : Return(c, None, err)
           /\ live' \subseteq live

\* An entry that no call will look at again is dropped.
Forget == /\ live' \subseteq live
          /\ UNCHANGED <<now, asked, result>>

Pass == /\ now' > now
        /\ UNCHANGED <<live, asked, result>>

Next == \/ \E c \in Callers : \/ Begin(c)
                              \/ Ask(c)
                              \/ ServeCached(c)
                              \/ ServeFetched(c)
                              \/ Fail(c)
        \/ Forget
        \/ Pass

Spec == Init /\ [][Next]_serviceVars
=============================================================================
