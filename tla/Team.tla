---------------------------------- MODULE Team ----------------------------------
(***************************************************************************)
(* The handlers of Team resources: internal/controller/cluster/team and    *)
(* internal/client/teams.  Upbound assigns a team its id; the id is the    *)
(* external name and, unlike a robot's, is not parsed.  The organization   *)
(* is given by a number, or by the name of an account to be looked up.     *)
(***************************************************************************)
CONSTANTS TeamIds,    \* ids of teams
          Unset,      \* no external name
          NoTeam      \* an external name that was never the id of a team

(* organizationId, where it is not 0; else what organizationName names.    *)
TeamSpecs == [org : {"id", "negative", "organization", "user", "none"}]
TeamNames == TeamIds \cup {Unset, NoTeam}

(* The teams at Upbound, each id given out once.                           *)
TeamWorlds == [TeamIds -> {"unused", "live", "deleted"}]

TeamObjects(w) == {id \in TeamIds : w[id] = "live"}
TeamTargets(s, n) == {n} \cap TeamIds

(* Others delete teams.                                                    *)
TeamDrifts(w) == {[w EXCEPT ![id] = "deleted"] : id \in TeamObjects(w)}

(* The organization may be given otherwise.                                *)
TeamEdits(s) == TeamSpecs \ {s}

-------------------------------------------------------------------------------
(* setup passes no initializers, and a team refers to no other resource.   *)
TeamDefault(s, n) == n
TeamResolve(s, w) == {s}

(* A team that exists is up to date: the API does not return its name.     *)
TeamObserve(s, n, w, reply) ==
  CASE n = Unset     -> "absent"
    [] n # Unset /\ reply # "ok" -> "error"
    [] OTHER -> IF n \in TeamObjects(w) THEN "current" ELSE "absent"

(* The client's Create: a POST, answered with the new team's id.           *)
IssueTeam(n, w, reply) ==
  {[err   |-> reply = "lost",
    world |-> [w EXCEPT ![id] = "live"],
    name  |-> IF reply = "lost" THEN n ELSE id] :
      id \in {i \in TeamIds : w[i] = "unused"}}

(* A negative number, and an account that is no organization, are refused  *)
(* before the team is asked for.                                           *)
TeamCreate(s, n, w, reply) ==
  LET failure == [err |-> TRUE, world |-> w, name |-> n]
  IN  CASE reply = "rejected" \/ s.org \in {"negative", "user", "none"} -> {failure}
        [] reply = "lost" /\ s.org = "organization" -> {failure} \cup IssueTeam(n, w, reply)
        [] OTHER -> IssueTeam(n, w, reply)

TeamUpdate(s, n, w, reply) == {[err |-> FALSE, world |-> w, name |-> n]}

(* A team that is not found counts as deleted.                             *)
TeamDelete(s, n, w, reply) ==
  {[err   |-> reply # "ok",
    world |-> IF reply # "rejected" /\ n \in TeamObjects(w)
                THEN [w EXCEPT ![n] = "deleted"] ELSE w,
    name  |-> n]}
===============================================================================
