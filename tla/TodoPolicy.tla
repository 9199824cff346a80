----------------------------- MODULE TodoPolicy -----------------------------
(***************************************************************************)
(* The Todo scenario's policy, which the repository states twice: in Go,   *)
(* as interop.Decide over the fixtures of interop/scenario.go, and in      *)
(* Cedar, as policies.cedar over entities.json behind cedarDecider.        *)
(* A resource's properties are None (absent or empty), "noOwner" (an       *)
(* object without ownerID, null included), "illTyped" (not decodable), or  *)
(* the ID they give as ownerID.                                            *)
(***************************************************************************)
CONSTANT None

CarriesOwner(properties) == properties \notin {None, "noOwner", "illTyped"}

Reads  == {"can_read_user", "can_read_todos"}
Writes == {"can_update_todo", "can_delete_todo"}
----------------------------------------------------------------------------
(* interop *)

users == [rick   |-> {"admin", "evil_genius"},
          morty  |-> {"editor"}, summer |-> {"editor"},
          beth   |-> {"viewer"}, jerry  |-> {"viewer"}]

todos == [todo1 |-> "morty", todo2 |-> "summer", todo3 |-> "rick",
          todo4 |-> "morty"]

HasRole(id, role) == id \in DOMAIN users /\ role \in users[id]

\* The ownerID on the wire, and without one, or with properties that do not
\* decode, the fixture todo's.
ownerMatches(id, resource) ==
  \/ CarriesOwner(resource.properties) /\ resource.properties = id
  \/ /\ ~CarriesOwner(resource.properties)
     /\ resource.id \in DOMAIN todos /\ todos[resource.id] = id

Decide(id, action, resource) ==
  \/ HasRole(id, "admin")
  \/ /\ id \in DOMAIN users
     /\ \/ action = "can_read_user" /\ resource.type = "user"
        \/ action = "can_read_todos" /\ resource.type = "todo"
        \/ /\ resource.type = "todo" /\ HasRole(id, "editor")
           /\ \/ action = "can_create_todo"
              \/ action \in Writes /\ ownerMatches(id, resource)

\* The requests the scenario's PEP sends: the table Cases(), whose expected
\* decisions are Decide's own.
Cases ==
  LET Case(id, action, type, rid, properties) ==
        [subject  |-> [type |-> "user", id |-> id],
         action   |-> [name |-> action],
         resource |-> [type |-> type, id |-> rid, properties |-> properties]]
  IN  {Case(u, "can_read_user", "user", t, None) : u, t \in DOMAIN users}
        \cup {Case(u, a, "todo", "todo1", None) :
                u \in DOMAIN users, a \in {"can_read_todos", "can_create_todo"}}
        \cup {Case(u, a, "todo", t, todos[t]) :
                u \in DOMAIN users, a \in Writes, t \in DOMAIN todos}
----------------------------------------------------------------------------
(* todo-pdp *)

\* An unknown type falls through.
cedarType(type) == CASE type = "user" -> "User"
                     [] type = "todo" -> "Todo"
                     [] OTHER         -> type

Entity(type, id) == <<type, id>>

\* entities.json: the role parents of the users, the owners of the todos.
Parents(uid) == CASE uid = Entity("User", "rick")   -> {"admin", "evil_genius"}
                  [] uid = Entity("User", "morty")  -> {"editor"}
                  [] uid = Entity("User", "summer") -> {"editor"}
                  [] uid = Entity("User", "beth")   -> {"viewer"}
                  [] uid = Entity("User", "jerry")  -> {"viewer"}
                  [] OTHER                          -> {}
Owner(uid) == CASE uid = Entity("Todo", "todo1") -> Entity("User", "morty")
                [] uid = Entity("Todo", "todo2") -> Entity("User", "summer")
                [] uid = Entity("Todo", "todo3") -> Entity("User", "rick")
                [] uid = Entity("Todo", "todo4") -> Entity("User", "morty")
                [] OTHER                         -> <<>>

\* Mutant: the owner on the wire is laid over no entity.
NoOverlay(resource, uid) == [parents |-> Parents(uid), owner |-> Owner(uid)]

\* The store for one request, at uid: an ownerID on the wire replaces the
\* resource's entity, all of it, by one with that owner and no parents.
EntityFor(resource, uid) ==
  IF /\ uid = Entity(cedarType(resource.type), resource.id)
     /\ CarriesOwner(resource.properties)
  THEN [parents |-> {}, owner |-> Entity("User", resource.properties)]
  ELSE [parents |-> Parents(uid), owner |-> Owner(uid)]

\* policies.cedar, evaluated by cedar.Authorize: some policy permits.
Authorize(principal, action, resource) ==
  LET roles == EntityFor(resource, principal).parents
      type  == cedarType(resource.type)
  IN  \/ "admin" \in roles
      \/ "editor" \in roles /\ action \in Reads \cup {"can_create_todo"}
      \/ /\ "editor" \in roles /\ action \in Writes /\ type = "Todo"
         /\ EntityFor(resource, Entity(type, resource.id)).owner = principal
      \/ "viewer" \in roles /\ action \in Reads

\* The principal is a User, whatever the type of the subject.
CedarDecide(id, action, resource) ==
  Authorize(Entity("User", id), action, resource)
=============================================================================
