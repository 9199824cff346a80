-------------------------- MODULE MCMetadataCache --------------------------
(* Small instances of MetadataCache.  A header is a sequence of directives. *)
EXTENDS MetadataCache, ClientOptions

CONSTANTS c1, c2

MCBaseURL == [origin |-> "pdp", slashes |-> 1]

\* The configured PDP, spelt without its slash, and another one.
MCTwoClaims == {[origin |-> "pdp", slashes |-> 0],
                [origin |-> "other", slashes |-> 1]}

\* Only another one, for a relaxed Client.
MCForeignClaim == {[origin |-> "other", slashes |-> 1]}

\* A strict Client whose TTL a later option cannot unset, and a relaxed one;
\* the built-in default is 2.
TTL3 == [name |-> "WithMetadataTTL", ttl |-> 3]
MCStrict == NewClient(MCBaseURL, <<TTL3, [TTL3 EXCEPT !.ttl = 0]>>, 2)
MCRelaxed ==
  NewClient(MCBaseURL, <<[name |-> "WithRelaxedMetadataValidation"], TTL3>>, 2)

MCStrictTTL    == MCStrict.metaDefaultTTL
MCStrictMixUp  == MCStrict.metaRelaxedMixUp
MCRelaxedTTL   == MCRelaxed.metaDefaultTTL
MCRelaxedMixUp == MCRelaxed.metaRelaxedMixUp

MaxAge(n) == [maxAge |-> TRUE, parses |-> TRUE, sec |-> n]
BadMaxAge == [maxAge |-> TRUE, parses |-> FALSE, sec |-> 0]
NoCache   == [maxAge |-> FALSE, parses |-> FALSE, sec |-> 0]

\* No header; max-age after another directive; two max-age; a max-age of 0;
\* one that does not parse; one that overflows the duration.
MCHeaders == {<<>>, <<NoCache, MaxAge(1)>>, <<MaxAge(2), MaxAge(1)>>,
              <<MaxAge(0)>>, <<BadMaxAge, MaxAge(1)>>, <<MaxAge(5)>>}

\* No header, a max-age, one that overflows.
MCOverlapHeaders == {<<>>, <<MaxAge(1)>>, <<MaxAge(5)>>}

Symmetry == Permutations(Callers)
=============================================================================
