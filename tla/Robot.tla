--------------------------------- MODULE Robot ---------------------------------
(***************************************************************************)
(* The handlers of Robot resources: internal/controller/cluster/robot.     *)
(* Upbound assigns a robot its id; the id is the external name.  The owner *)
(* is an organization, given by its id or by a name to be looked up.       *)
(***************************************************************************)
CONSTANTS RobotIds,   \* UUIDs
          Unset,      \* no external name
          NotUuid     \* an external name that is no UUID

RobotSpecs == [owner : {"id", "name", "none"}]
RobotNames == RobotIds \cup {Unset, NotUuid}

(* The robots at Upbound, each id given out once.                          *)
RobotWorlds == [RobotIds -> {"unused", "live", "deleted"}]

RobotObjects(w) == {id \in RobotIds : w[id] = "live"}
RobotTargets(s, n) == {n} \cap RobotIds

(* Others delete robots.                                                   *)
RobotDrifts(w) == {[w EXCEPT ![id] = "deleted"] : id \in RobotObjects(w)}

(* The owner may be given in another form.                                 *)
RobotEdits(s) == RobotSpecs \ {s}

-------------------------------------------------------------------------------
(* setup passes no initializers, and a robot refers to no other resource.  *)
RobotDefault(s, n) == n
RobotResolve(s, w) == {s}

(* Mutant: a failed lookup read as not found.                              *)
RobotObserve_FailureIsAbsent(s, n, w, reply) ==
  CASE n = Unset   -> "absent"
    [] n = NotUuid -> "error"
    [] OTHER -> IF n \in RobotObjects(w) /\ reply = "ok" THEN "current" ELSE "absent"

(* A robot that exists is up to date: there is no way to update one.       *)
RobotObserve(s, n, w, reply) ==
  CASE n = Unset                      -> "absent"
    [] n = NotUuid                    -> "error"
    [] n \in RobotIds /\ reply # "ok" -> "error"
    [] OTHER -> IF n \in RobotObjects(w) THEN "current" ELSE "absent"

(* Of an owner given by name the id is looked up first, and the reply that *)
(* is lost may be that of the look-up; with neither there is no call.      *)
RobotCreate(s, n, w, reply) ==
  LET failure == [err |-> TRUE, world |-> w, name |-> n]
      issued  == {[err   |-> reply = "lost",
                   world |-> [w EXCEPT ![id] = "live"],
                   name  |-> IF reply = "lost" THEN n ELSE id] :
                     id \in {i \in RobotIds : w[i] = "unused"}}
  IN  CASE reply = "rejected" \/ s.owner = "none" -> {failure}
        [] reply = "lost" /\ s.owner = "name"     -> {failure} \cup issued
        [] OTHER                                  -> issued

RobotUpdate(s, n, w, reply) == {[err |-> FALSE, world |-> w, name |-> n]}

(* A robot that is not found counts as deleted.                            *)
RobotDelete(s, n, w, reply) ==
  IF n \notin RobotIds \/ reply = "rejected"
    THEN {[err |-> TRUE, world |-> w, name |-> n]}
    ELSE {[err   |-> reply = "lost",
           world |-> IF n \in RobotObjects(w) THEN [w EXCEPT ![n] = "deleted"]
                                              ELSE w,
           name  |-> n]}
===============================================================================
