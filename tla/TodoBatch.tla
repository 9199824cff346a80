----------------------------- MODULE TodoBatch -----------------------------
(***************************************************************************)
(* A batch (Access Evaluations) request on its way through                 *)
(* EvaluationsRequest.Validate, which client.Evaluations calls before it   *)
(* sends, and then, item by item, through one of the repository's two      *)
(* batch Deciders: interop's scenarioDecider or todo-pdp's cedarDecider.   *)
(* All three merge an item with the request's defaults, each in its own    *)
(* code.  Another PEP may send without validating, and the handler does    *)
(* not validate.  A single Evaluate is a batch of one item, no defaults.   *)
(***************************************************************************)
EXTENDS TodoPolicy, Naturals, Sequences

CONSTANT Batches   \* the requests: [defaults, items]

VARIABLES batch,   \* the request
          pdp,     \* "scenario" or "cedar"
          pc,      \* "validate" or "serve"; "rejected", "answered" or "failed"
          answer   \* the decisions so far

vars == <<batch, pdp, pc, answer>>

Subjects  == [type : STRING, id : STRING]
Actions   == [name : STRING]
Resources == [type : STRING, id : STRING, properties : {None} \cup STRING]

\* An item, or the defaults: each field may be left out.
Item == [subject  : {None} \cup Subjects,
         action   : {None} \cup Actions,
         resource : {None} \cup Resources]

ASSUME BatchesAssumption ==
  \A b \in Batches : b.defaults \in Item /\ b.items \in Seq(Item)

ZeroSubject  == [type |-> "", id |-> ""]
ZeroAction   == [name |-> ""]
ZeroResource == [type |-> "", id |-> "", properties |-> None]
----------------------------------------------------------------------------
(* Validate *)

\* An item's own field, when it has one, or the default.
Inherit(field, default) == IF field # None THEN field ELSE default

Effective(b, i) ==
  [subject  |-> Inherit(b.items[i].subject, b.defaults.subject),
   action   |-> Inherit(b.items[i].action, b.defaults.action),
   resource |-> Inherit(b.items[i].resource, b.defaults.resource)]

\* Mutant: that a field is there is enough.
Present(e) == /\ e.subject # None
              /\ e.action # None
              /\ e.resource # None

WellFormed(e) == /\ e.subject # None /\ e.subject.type # ""
                 /\ e.action # None /\ e.action.name # ""
                 /\ e.resource # None /\ e.resource.type # ""

Valid(b) == b.items # <<>> /\ \A i \in DOMAIN b.items : WellFormed(Effective(b, i))
----------------------------------------------------------------------------
(* The Deciders' own merging *)

\* scenarioDecider: what neither level gives is empty.
ScenarioMerge(b, i) ==
  LET e == Effective(b, i)
  IN  [subject  |-> Inherit(e.subject, ZeroSubject),
       action   |-> Inherit(e.action, ZeroAction),
       resource |-> Inherit(e.resource, ZeroResource)]

\* cedarDecider: an empty field is passed over like a missing one.
Pick(field, default, zero) ==
  IF field \notin {None, zero} THEN field ELSE Inherit(default, zero)

CedarMerge(b, i) ==
  [subject  |-> Pick(b.items[i].subject, b.defaults.subject, ZeroSubject),
   action   |-> Pick(b.items[i].action, b.defaults.action, ZeroAction),
   resource |-> Pick(b.items[i].resource, b.defaults.resource, ZeroResource)]

Scenario(e) == Decide(e.subject.id, e.action.name, e.resource)
Cedar(e)    == CedarDecide(e.subject.id, e.action.name, e.resource)
----------------------------------------------------------------------------
Init == /\ batch \in Batches
        /\ pdp \in {"scenario", "cedar"}
        /\ pc \in {"validate", "serve"}   \* this library's PEP, or another
        /\ answer = <<>>

\* client.Evaluations validates, and only then sends.
Validate == /\ pc = "validate"
            /\ pc' = IF Valid(batch) THEN "serve" ELSE "rejected"
            /\ UNCHANGED <<batch, pdp, answer>>

\* The next item of the loop in Evaluations.
At(p, i) == pc = "serve" /\ pdp = p /\ i = Len(answer) + 1 /\ i \in DOMAIN batch.items

Append1(decision) == /\ answer' = Append(answer, decision)
                     /\ UNCHANGED <<batch, pdp, pc>>

ScenarioItem(i) == At("scenario", i) /\ Append1(Scenario(ScenarioMerge(batch, i)))

Undecodable(e) == e.resource.properties = "illTyped"

CedarItem(i) == /\ At("cedar", i) /\ ~Undecodable(CedarMerge(batch, i))
                /\ Append1(Cedar(CedarMerge(batch, i)))

\* Mutant: the loop is left, and what it has is the answer.
CedarStops(i) == /\ At("cedar", i) /\ Undecodable(CedarMerge(batch, i))
                 /\ pc' = "answered"
                 /\ UNCHANGED <<batch, pdp, answer>>

\* Mutant: the error is not looked at, and nothing stands for the item.
CedarSkips(i) == /\ At("cedar", i) /\ Undecodable(CedarMerge(batch, i))
                 /\ Append1(None)

\* Properties that do not decode fail the request, answered items and all.
CedarFails(i) == /\ At("cedar", i) /\ Undecodable(CedarMerge(batch, i))
                 /\ pc' = "failed" /\ answer' = <<>>
                 /\ UNCHANGED <<batch, pdp>>

Finish == /\ pc = "serve" /\ Len(answer) = Len(batch.items)
          /\ pc' = "answered"
          /\ UNCHANGED <<batch, pdp, answer>>

Next == \/ Validate
        \/ \E i \in DOMAIN batch.items :
             ScenarioItem(i) \/ CedarItem(i) \/ CedarFails(i)
        \/ Finish

Spec == Init /\ [][Next]_vars
----------------------------------------------------------------------------
\* The request keeps its shape; an answer is a sequence of decisions, no
\* longer than the request.
TypeOK == /\ batch.defaults \in Item /\ batch.items \in Seq(Item)
          /\ pdp \in {"scenario", "cedar"}
          /\ pc \in {"validate", "serve", "rejected", "answered", "failed"}
          /\ answer \in Seq(BOOLEAN) /\ Len(answer) <= Len(batch.items)

\* What Validate checked is what gets decided: in a batch that it accepts,
\* each Decider, with a merge of its own, puts to its policy the very item
\* Validate looked at, and answers at that item's place.
DecidesWhatWasChecked ==
  Valid(batch) =>
    \A i \in DOMAIN answer :
      answer[i] = IF pdp = "scenario" THEN Scenario(Effective(batch, i))
                                      ELSE Cedar(Effective(batch, i))

\* A request of the scenario's shape: the resource is of the action's type,
\* and only a todo has an owner.  Subject, ID and properties are free.
Conventional(e) ==
  /\ e.action.name = "can_read_user" => e.resource.type = "user"
  /\ e.action.name \in {"can_read_todos", "can_create_todo"} \cup Writes =>
       e.resource.type = "todo"
  /\ CarriesOwner(e.resource.properties) => e.resource.type = "todo"

\* The two PDPs state one policy: whichever of them answers, a request of the
\* scenario's shape gets interop.Decide's decision; for any subject, and with
\* owners that differ from the fixture's, which Cases() never has.
PdpsAgree ==
  Valid(batch) =>
    \A i \in DOMAIN answer :
      LET e == Effective(batch, i)
      IN  Conventional(e) => answer[i] = Scenario(e)

\* A batch is answered item for item or not at all: only properties Cedar's
\* Decider cannot decode fail it, and then no decision is left of it.
AllOrNothing ==
  /\ pc = "answered" =>
       /\ Len(answer) = Len(batch.items)
       /\ pdp = "cedar" => \A i \in DOMAIN answer :
                             ~Undecodable(CedarMerge(batch, i))
  /\ pc = "failed" =>
       /\ answer = <<>>
       /\ \E i \in DOMAIN batch.items : Undecodable(CedarMerge(batch, i))

\* What policies.cedar says: an admin may do any action on any resource.
AdminMayEverything ==
  Valid(batch) => \A i \in DOMAIN answer :
                    HasRole(Effective(batch, i).subject.id, "admin") => answer[i]
=============================================================================
