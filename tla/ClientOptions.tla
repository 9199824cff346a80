---------------------------- MODULE ClientOptions ----------------------------
(***************************************************************************)
(* NewClient and its options (client/client.go, client/metadata.go) as far *)
(* as they concern the metadata.                                           *)
(***************************************************************************)
EXTENDS Integers, SequencesExt

\* WithMetadataTTL(ttl) sets a lifetime above 0 and otherwise changes nothing;
\* WithRelaxedMetadataValidation cannot be undone by a later option.
Apply(client, option) ==
  CASE option.name = "WithMetadataTTL" /\ option.ttl > 0 ->
         [client EXCEPT !.metaDefaultTTL = option.ttl]
    [] option.name = "WithRelaxedMetadataValidation" ->
         [client EXCEPT !.metaRelaxedMixUp = TRUE]
    [] OTHER -> client

\* The options run in their order over the defaults.
NewClient(baseURL, options, hour) ==
  FoldLeft(Apply,
           [baseURL |-> baseURL, metaDefaultTTL |-> hour,
            metaRelaxedMixUp |-> FALSE],
           options)
=============================================================================
