-------------------------- MODULE RequestValidation --------------------------
(***************************************************************************)
(* The Validate methods of the single requests (evaluation.go, search.go). *)
(* A request is the set of the fields it fills.                            *)
(***************************************************************************)
EXTENDS Integers

\* The fields that name each entity (types.go); an action has no type.
Identity == [subject  |-> {"subject.type", "subject.id"},
             action   |-> {"action.name"},
             resource |-> {"resource.type", "resource.id"}]

Fields == UNION {Identity[entity] : entity \in DOMAIN Identity}

Searches == {"searchSubject", "searchResource", "searchAction"}

\* Mutant: the ID test of one of the three is missing.
RequiredWithoutID ==
  [evaluation     |-> <<"subject.type", "action.name", "resource.type">>,
   evaluations    |-> <<"subject.type", "action.name", "resource.type">>,
   searchSubject  |-> <<"subject.type", "action.name", "resource.type",
                        "resource.id">>,
   searchResource |-> <<"subject.type", "action.name", "resource.type">>,
   searchAction   |-> <<"subject.type", "subject.id", "resource.type",
                        "resource.id">>]

\* The fields each Validate looks at, in the order it does; of a batch, here
\* of one item without defaults, those of the item.
Required ==
  [evaluation     |-> <<"subject.type", "action.name", "resource.type">>,
   evaluations    |-> <<"subject.type", "action.name", "resource.type">>,
   searchSubject  |-> <<"subject.type", "action.name", "resource.type",
                        "resource.id">>,
   searchResource |-> <<"subject.type", "subject.id", "action.name",
                        "resource.type">>,
   searchAction   |-> <<"subject.type", "subject.id", "resource.type",
                        "resource.id">>]

\* The fields Validate reports, none or the first that is missing.
Validate(kind, fields) ==
  LET asked == Required[kind]
      missing == {i \in DOMAIN asked : asked[i] \notin fields}
  IN  {asked[i] : i \in {j \in missing : \A k \in missing : j <= k}}

\* What a search looks for.
Pivot == [searchSubject |-> "subject", searchResource |-> "resource",
          searchAction  |-> "action"]

\* A search names everything it is not looking for.
Pinned(kind, fields) ==
  \A entity \in DOMAIN Identity \ {Pivot[kind]} : Identity[entity] \subseteq fields
=============================================================================
