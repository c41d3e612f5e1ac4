------------------------------- MODULE Membership -------------------------------
(***************************************************************************)
(* The handlers of RobotTeamMembership resources: internal/controller/     *)
(* cluster/robotteammembership and internal/client/robotteammembership.    *)
(* The membership of a robot in a team has no id and the resource no       *)
(* external name: it is meant by the two ids in the spec, which references *)
(* to a Robot and a Team resource may fill in.                             *)
(***************************************************************************)
CONSTANTS RobotIds,   \* UUIDs
          TeamIds,    \* ids of teams
          Unset       \* an id that is not given

(* Both ids come with references or neither does.                          *)
MembershipSpecs == [robot : RobotIds \cup {Unset}, team : TeamIds \cup {Unset},
                    refs : BOOLEAN]

(* The external names of the Robot and the Team that the references mean,  *)
(* the robots at Upbound, and the teams they are in.                       *)
MembershipWorlds ==
  {w \in [robot : RobotIds \cup {Unset}, team : TeamIds \cup {Unset},
          robots : SUBSET RobotIds, members : SUBSET (RobotIds \X TeamIds)] :
     \A m \in w.members : m[1] \in w.robots}

MembershipObjects(w) == w.members
MembershipTargets(s, n) == {<<s.robot, s.team>>} \cap (RobotIds \X TeamIds)

(* A robot is gone, and its memberships with it.                           *)
Without(w, r) == [w EXCEPT !.robots = @ \ {r},
                           !.members = {m \in @ : m[1] # r}]

(* Others take robots out of teams; the Robot that the reference means is  *)
(* created, or its robot deleted and another made in its place.            *)
MembershipDrifts(w) ==
  {[w EXCEPT !.members = @ \ {m}] : m \in w.members}
  \cup {[Without(w, w.robot) EXCEPT !.robot = r, !.robots = @ \cup {r}] :
          r \in RobotIds \ {w.robot}}

(* The robot may be changed, or cleared to be resolved again.              *)
MembershipEdits(s) == {[s EXCEPT !.robot = r] : r \in RobotIds \cup {Unset}} \ {s}

-------------------------------------------------------------------------------
(* setup passes no initializers.                                           *)
MembershipDefault(s, n) == n

(* Mutant: CurrentValue is not passed on, and what is there is resolved    *)
(* anew.                                                                   *)
MembershipResolve_Anew(s, w) ==
  CASE ~s.refs -> {s}
    [] s.refs /\ Unset \in {w.robot, w.team} -> {}
    [] OTHER -> {[s EXCEPT !.robot = w.robot, !.team = w.team]}

(* An id that is there is kept; one that is missing is the external name   *)
(* of the resource referred to, which must have one.                       *)
MembershipResolve(s, w) ==
  LET full == [s EXCEPT !.robot = IF @ = Unset THEN w.robot ELSE @,
                        !.team  = IF @ = Unset THEN w.team ELSE @]
  IN  CASE ~s.refs -> {s}
        [] s.refs /\ Unset \in {full.robot, full.team} -> {}
        [] OTHER -> {full}

(* The ids that were missing are written, whatever is there by now; the    *)
(* API takes them for a whole membership, along with the references if a   *)
(* selector found these.                                                   *)
Resolved(id, t, u) == IF t # id THEN t ELSE u

MembershipPatch(s, t, u) ==
  [u EXCEPT !.robot = Resolved(s.robot, t.robot, @),
            !.team  = Resolved(s.team, t.team, @)]

MembershipWhole(s, t) ==
  {[robot |-> Resolved(s.robot, t.robot, Unset),
    team  |-> Resolved(s.team, t.team, Unset),
    refs  |-> selected] : selected \in BOOLEAN}

(* Mutant: the look-up does not tell what is missing from a failure.       *)
Get_Fails(s, w, reply) ==
  IF reply = "ok" /\ <<s.robot, s.team>> \in w.members THEN "found" ELSE "error"

(* The client's Get: a robot's id that is no UUID is an error, a robot     *)
(* that is not there or not in the team is not found.                      *)
Get(s, w, reply) ==
  CASE s.robot = Unset \/ reply # "ok" -> "error"
    [] OTHER -> IF /\ s.robot \in w.robots
                   /\ <<s.robot, s.team>> \in w.members
                  THEN "found" ELSE "not found"

MembershipObserve(s, n, w, reply) ==
  CASE Get(s, w, reply) = "error"     -> "error"
    [] Get(s, w, reply) = "not found" -> "absent"
    [] OTHER                          -> "current"

(* The client's Create, a POST to the robot's teams.                       *)
AddToTeam(s, w) == [w EXCEPT !.members = @ \cup {<<s.robot, s.team>>}]

(* Upbound turns down a robot or a team that is not there.  No external    *)
(* name is set.                                                            *)
MembershipCreate(s, n, w, reply) ==
  IF reply = "rejected" \/ s.robot \notin w.robots \/ s.team = Unset
    THEN {[err |-> TRUE, world |-> w, name |-> n]}
    ELSE {[err   |-> reply = "lost",
           world |-> AddToTeam(s, w),
           name  |-> n]}

MembershipUpdate(s, n, w, reply) == {[err |-> FALSE, world |-> w, name |-> n]}

(* A membership, or a robot, that is not found counts as deleted.          *)
MembershipDelete(s, n, w, reply) ==
  {[err   |-> reply # "ok" \/ s.robot = Unset,
    world |-> IF reply = "rejected" THEN w
              ELSE [w EXCEPT !.members = @ \ {<<s.robot, s.team>>}],
    name  |-> n]}
===============================================================================
