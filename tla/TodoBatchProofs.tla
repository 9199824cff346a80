--------------------------- MODULE TodoBatchProofs ---------------------------
(***************************************************************************)
(* Theorems about batches, for every set of requests: that the two Todo    *)
(* policies agree beyond the table of cases, that each Decider decides     *)
(* what Validate checked, and that a batch is answered in full or not at   *)
(* all.                                                                    *)
(***************************************************************************)
EXTENDS TodoBatch, TLAPS

\* Nothing is in the answer but what the loop put there from items Cedar's
\* Decider could decode, and nothing before the loop.
LoopInv ==
  /\ pc \in {"validate", "rejected"} => answer = <<>>
  /\ pdp = "cedar" =>
       \A i \in DOMAIN answer : ~Undecodable(CedarMerge(batch, i))

IInv == TypeOK /\ LoopInv /\ DecidesWhatWasChecked /\ AllOrNothing
----------------------------------------------------------------------------
\* The role parents of entities.json are the roles of the Go fixture.
LEMMA SameRoles ==
  ASSUME NEW id \in STRING, NEW role \in {"admin", "editor", "viewer"}
  PROVE  role \in Parents(Entity("User", id)) <=> HasRole(id, role)
BY DEF Parents, Entity, HasRole, users

\* The owners of entities.json are those of the Go fixture.
LEMMA SameOwners ==
  ASSUME NEW rid \in STRING, NEW id \in STRING
  PROVE  Owner(Entity("Todo", rid)) = Entity("User", id)
           <=> rid \in DOMAIN todos /\ todos[rid] = id
BY DEF Owner, Entity, todos

\* Every user of the scenario is an admin, an editor or a viewer.
LEMMA EveryoneHasARole ==
  ASSUME NEW id \in STRING
  PROVE  id \in DOMAIN users <=>
           HasRole(id, "admin") \/ HasRole(id, "editor") \/ HasRole(id, "viewer")
BY DEF HasRole, users

\* The two policies, interop.Decide in Go and policies.cedar, decide alike
\* every request whose resource is of the action's type and has an owner only
\* when it is a todo.
THEOREM PoliciesAgree ==
  ASSUME NEW e, e.subject \in Subjects, e.action \in Actions,
         e.resource \in Resources, Conventional(e)
  PROVE  Cedar(e) = Scenario(e)
<1> DEFINE id     == e.subject.id
           action == e.action.name
           r      == e.resource
           user   == Entity("User", id)
           todo   == Entity("Todo", r.id)
<1>1. id \in STRING /\ action \in STRING /\ r \in Resources
  BY DEF Subjects, Actions, Resources
<1>2. r.type = "todo" => cedarType(r.type) = "Todo"
  BY DEF cedarType
\* The overlay never replaces the principal.
<1>3. EntityFor(r, user).parents = Parents(user)
  <2>1. CASE CarriesOwner(r.properties)
    <3>1. user # Entity(cedarType(r.type), r.id)
      BY <2>1, <1>2 DEF Conventional, Entity
    <3> QED
      BY <3>1 DEF EntityFor
  <2>2. CASE ~CarriesOwner(r.properties)
    BY <2>2 DEF EntityFor
  <2> QED
    BY <2>1, <2>2
\* An owner of a todo is the one the Go policy finds.
<1>4. r.type = "todo" =>
        (EntityFor(r, todo).owner = user <=> ownerMatches(id, r))
  <2> SUFFICES ASSUME r.type = "todo"
               PROVE  EntityFor(r, todo).owner = user <=> ownerMatches(id, r)
    OBVIOUS
  <2>1. CASE CarriesOwner(r.properties)
    <3>1. EntityFor(r, todo).owner = Entity("User", r.properties)
      BY <2>1, <1>2 DEF EntityFor
    <3> QED
      BY <3>1, <2>1 DEF ownerMatches, Entity
  <2>2. CASE ~CarriesOwner(r.properties)
    <3>1. EntityFor(r, todo).owner = Owner(todo)
      BY <2>2 DEF EntityFor
    <3>2. r.id \in STRING
      BY <1>1 DEF Resources
    <3>3. Owner(todo) = user <=> r.id \in DOMAIN todos /\ todos[r.id] = id
      BY <3>2, <1>1, SameOwners
    <3> QED
      BY <3>1, <3>3, <2>2 DEF ownerMatches
  <2> QED
    BY <2>1, <2>2
<1>5. \A role \in {"admin", "editor", "viewer"} :
         role \in EntityFor(r, user).parents <=> HasRole(id, role)
  BY <1>1, <1>3, SameRoles
<1>6. id \in DOMAIN users <=>
        HasRole(id, "admin") \/ HasRole(id, "editor") \/ HasRole(id, "viewer")
  BY <1>1, EveryoneHasARole
<1>7. /\ action = "can_read_user" => r.type = "user"
      /\ action \in {"can_read_todos", "can_create_todo"} \cup Writes =>
           r.type = "todo"
  BY DEF Conventional
<1>8. r.type = "todo" => Entity(cedarType(r.type), r.id) = todo
  BY <1>2
<1> HIDE DEF id, action, r, user, todo
<1>9. Authorize(user, action, r) <=> Decide(id, action, r)
  BY <1>2, <1>4, <1>5, <1>6, <1>7, <1>8 DEF Authorize, Decide, Reads, Writes
<1>10. Authorize(user, action, r) \in BOOLEAN /\ Decide(id, action, r) \in BOOLEAN
  BY DEF Authorize, Decide
<1> QED
  BY <1>9, <1>10 DEF Cedar, CedarDecide, Scenario, id, action, r, user
----------------------------------------------------------------------------
\* On an item Validate accepts, the Deciders' merges are Validate's.
LEMMA SameMerge ==
  ASSUME NEW b, NEW i, WellFormed(Effective(b, i))
  PROVE  /\ ScenarioMerge(b, i) = Effective(b, i)
         /\ CedarMerge(b, i) = Effective(b, i)
<1> DEFINE item == b.items[i]
           d    == b.defaults
<1>1. /\ Inherit(item.subject, d.subject) # None
      /\ Inherit(item.subject, d.subject) # ZeroSubject
      /\ Inherit(item.action, d.action) # None
      /\ Inherit(item.action, d.action) # ZeroAction
      /\ Inherit(item.resource, d.resource) # None
      /\ Inherit(item.resource, d.resource) # ZeroResource
  <2> DEFINE e == Effective(b, i)
  <2>1. /\ e.subject = Inherit(item.subject, d.subject)
        /\ e.action = Inherit(item.action, d.action)
        /\ e.resource = Inherit(item.resource, d.resource)
    BY DEF Effective
  <2>2. /\ e.subject # None /\ e.subject.type # ""
        /\ e.action # None /\ e.action.name # ""
        /\ e.resource # None /\ e.resource.type # ""
    BY DEF WellFormed
  <2>3. ZeroSubject.type = "" /\ ZeroAction.name = "" /\ ZeroResource.type = ""
    BY DEF ZeroSubject, ZeroAction, ZeroResource
  <2> QED
    BY <2>1, <2>2, <2>3
<1>2. ASSUME NEW field, NEW default, NEW zero,
             Inherit(field, default) # None, Inherit(field, default) # zero
      PROVE  /\ Inherit(Inherit(field, default), zero) = Inherit(field, default)
             /\ Pick(field, default, zero) = Inherit(field, default)
  BY <1>2 DEF Inherit, Pick
<1>3. /\ Pick(item.subject, d.subject, ZeroSubject) = Inherit(item.subject, d.subject)
      /\ Pick(item.action, d.action, ZeroAction) = Inherit(item.action, d.action)
      /\ Pick(item.resource, d.resource, ZeroResource)
           = Inherit(item.resource, d.resource)
  BY <1>1, <1>2
<1>4. /\ Inherit(Inherit(item.subject, d.subject), ZeroSubject)
           = Inherit(item.subject, d.subject)
      /\ Inherit(Inherit(item.action, d.action), ZeroAction)
           = Inherit(item.action, d.action)
      /\ Inherit(Inherit(item.resource, d.resource), ZeroResource)
           = Inherit(item.resource, d.resource)
  BY <1>1, <1>2
<1> QED
  BY <1>3, <1>4 DEF Effective, ScenarioMerge, CedarMerge

\* A policy's word is a decision.
LEMMA Decides == \A e : Scenario(e) \in BOOLEAN /\ Cedar(e) \in BOOLEAN
BY DEF Scenario, Decide, Cedar, CedarDecide, Authorize

LEMMA InitIInv == Init => IInv
<1> SUFFICES ASSUME Init PROVE IInv
  OBVIOUS
<1>1. TypeOK
  BY BatchesAssumption DEF Init, TypeOK
<1>2. answer = <<>> /\ DOMAIN answer = {} /\ pc \in {"validate", "serve"}
  BY DEF Init
<1> QED
  BY <1>1, <1>2 DEF IInv, LoopInv, DecidesWhatWasChecked, AllOrNothing

\* The step all items share: the decision of the item that follows is added.
LEMMA ItemKeepsIInv ==
  ASSUME IInv, NEW i \in DOMAIN batch.items, At(pdp, i),
         NEW decision \in BOOLEAN, Append1(decision),
         Valid(batch) => decision = IF pdp = "scenario"
                                    THEN Scenario(Effective(batch, i))
                                    ELSE Cedar(Effective(batch, i)),
         pdp = "cedar" => ~Undecodable(CedarMerge(batch, i))
  PROVE  IInv'
<1> USE DEF IInv, At, Append1
<1>1. /\ answer \in Seq(BOOLEAN) /\ answer' = Append(answer, decision)
      /\ UNCHANGED <<batch, pdp, pc>> /\ pc = "serve"
      /\ i = Len(answer) + 1
      /\ batch.items \in Seq(Item)
  BY DEF TypeOK
<1>2. /\ answer' \in Seq(BOOLEAN) /\ Len(answer') = i
      /\ DOMAIN answer' = DOMAIN answer \cup {i}
      /\ answer'[i] = decision
      /\ \A j \in DOMAIN answer : answer'[j] = answer[j]
  BY <1>1
<1>3. TypeOK'
  BY <1>1, <1>2 DEF TypeOK
<1>4. LoopInv'
  BY <1>1, <1>2 DEF LoopInv
<1>5. DecidesWhatWasChecked'
  BY <1>1, <1>2 DEF DecidesWhatWasChecked
<1>6. AllOrNothing'
  BY <1>1 DEF AllOrNothing
<1> QED
  BY <1>3, <1>4, <1>5, <1>6

LEMMA NextIInv == IInv /\ [Next]_vars => IInv'
<1> SUFFICES ASSUME IInv, [Next]_vars PROVE IInv'
  OBVIOUS
<1>1. CASE Validate
  BY <1>1 DEF IInv, Validate, TypeOK, LoopInv, DecidesWhatWasChecked, AllOrNothing
<1>2. ASSUME NEW i \in DOMAIN batch.items, ScenarioItem(i) PROVE IInv'
  <2>1. Valid(batch) => ScenarioMerge(batch, i) = Effective(batch, i)
    BY SameMerge DEF Valid
  <2> QED
    BY <1>2, <2>1, Decides, ItemKeepsIInv DEF ScenarioItem, At
<1>3. ASSUME NEW i \in DOMAIN batch.items, CedarItem(i) PROVE IInv'
  <2>1. Valid(batch) => CedarMerge(batch, i) = Effective(batch, i)
    BY SameMerge DEF Valid
  <2> QED
    BY <1>3, <2>1, Decides, ItemKeepsIInv DEF CedarItem, At
<1>4. ASSUME NEW i \in DOMAIN batch.items, CedarFails(i) PROVE IInv'
  <2>1. /\ pdp = "cedar" /\ Undecodable(CedarMerge(batch, i))
        /\ pc' = "failed" /\ answer' = <<>> /\ UNCHANGED <<batch, pdp>>
    BY <1>4 DEF CedarFails, At
  <2>2. answer' \in Seq(BOOLEAN) /\ Len(answer') = 0 /\ DOMAIN answer' = {}
    BY <2>1
  <2>3. Len(batch.items) \in Nat /\ TypeOK
    BY DEF IInv, TypeOK
  <2>4. TypeOK'
    BY <2>1, <2>2, <2>3 DEF TypeOK
  <2> QED
    BY <2>1, <2>2, <2>4
    DEF IInv, LoopInv, DecidesWhatWasChecked, AllOrNothing
<1>5. CASE Finish
  BY <1>5 DEF IInv, Finish, TypeOK, LoopInv, DecidesWhatWasChecked, AllOrNothing
<1>6. CASE UNCHANGED vars
  BY <1>6 DEF vars, IInv, TypeOK, LoopInv, DecidesWhatWasChecked, AllOrNothing
<1> QED
  BY <1>1, <1>2, <1>3, <1>4, <1>5, <1>6 DEF Next

LEMMA IInvHolds == Spec => []IInv
BY InitIInv, NextIInv, PTL DEF Spec

\* A batch keeps its shape and its answer is a sequence of decisions no longer
\* than it, for every set of requests.
THEOREM BatchTypeCorrect == Spec => []TypeOK
BY IInvHolds, PTL DEF IInv

\* Each Decider answers, at its place, the very item Validate accepted, for
\* every set of requests and batches of any length.
THEOREM BatchDecidesWhatWasChecked == Spec => []DecidesWhatWasChecked
BY IInvHolds, PTL DEF IInv

\* A batch is answered in full or, for the properties of an item, not at all.
THEOREM BatchAllOrNothing == Spec => []AllOrNothing
BY IInvHolds, PTL DEF IInv

\* Whichever PDP answers, a valid request of the scenario's shape gets the
\* decision of interop.Decide.
THEOREM BatchPdpsAgree == Spec => []PdpsAgree
<1>1. IInv => PdpsAgree
  <2> SUFFICES ASSUME IInv, Valid(batch), NEW i \in DOMAIN answer,
                      Conventional(Effective(batch, i))
               PROVE  answer[i] = Scenario(Effective(batch, i))
    BY DEF PdpsAgree
  <2> DEFINE e == Effective(batch, i)
  <2>1. i \in DOMAIN batch.items /\ batch.items[i] \in Item
        /\ batch.defaults \in Item
    BY DEF IInv, TypeOK
  <2>2. WellFormed(e)
    BY <2>1 DEF Valid
  <2>3. /\ e.subject \in Subjects
        /\ e.action \in Actions
        /\ e.resource \in Resources
    BY <2>1, <2>2 DEF WellFormed, Effective, Inherit, Item
  <2>4. Cedar(e) = Scenario(e)
    BY <2>3, PoliciesAgree
  <2> QED
    BY <2>4 DEF IInv, DecidesWhatWasChecked
<1> QED
  BY <1>1, IInvHolds, PTL
=============================================================================
