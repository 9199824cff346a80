---------------------------- MODULE MCTodoBatch ----------------------------
(* Requests for TodoBatch.                                                  *)
EXTENDS TodoBatch

Missing == [subject |-> None, action |-> None, resource |-> None]

Single(item) == [defaults |-> Missing, items |-> <<item>>]

\* Questions on and off the scenario's table: an unknown user and an unknown
\* action, resource types of the wire and of Cedar and one of neither, a
\* fixture todo, one made up since and a user, all kinds of properties.
Questions ==
  [subject  : [type : {"user"}, id : {"rick", "morty", "beth", "squanchy"}],
   action   : [name : Reads \cup {"can_create_todo", "can_delete_todo",
                                  "can_share_todo"}],
   resource : [type : {"user", "todo", "Todo", "album"},
               id   : {"rick", "morty", "todo1", "todo2", "todo9"},
               properties : {None, "noOwner", "illTyped", "rick", "morty",
                             "squanchy"}]]

\* Batches of up to two items that give, leave out, or blank each field.
Own    == [type |-> "todo", id |-> "todo1", properties |-> None]
Broken == [type |-> "todo", id |-> "todo1", properties |-> "illTyped"]
Other  == [type |-> "todo", id |-> "todo2", properties |-> "summer"]
Morty  == [type |-> "user", id |-> "morty"]
Beth   == [type |-> "user", id |-> "beth"]

Defaults == [subject  : {None, Morty},
             action   : {None, [name |-> "can_update_todo"]},
             resource : {None, Own}]
Overrides == [subject  : {None, ZeroSubject, Beth},
              action   : {None, ZeroAction, [name |-> "can_read_todos"]},
              resource : {None, ZeroResource, Broken, Other}]

MCBatches ==
  {Single(item) : item \in Cases \cup Questions}
    \cup [defaults : Defaults,
          items    : UNION {[1..n -> Overrides] : n \in {0, 2}}]
=============================================================================
