-------------------------------- MODULE KindsMC --------------------------------
(***************************************************************************)
(* Resources of every kind in the reconcile loop, for TLC.                 *)
(***************************************************************************)
EXTENDS Kinds

Of(kind, forms, names, holdings) ==
  [spec : Either(kind, forms, forms), name : names, world : Holding(kind, holdings)]

Empty(ids) == [id \in ids |-> "unused"]
NoRepos == [n \in RepoNames |-> NoRepo]

(* The references mean resources that are not there yet; those that are.   *)
Alone == [robot |-> Unset, team |-> CHOOSE t \in TeamIds : TRUE, robots |-> {},
          members |-> {}]
Company == {[Alone EXCEPT !.robot = r, !.robots = {r}] : r \in RobotIds}
Bare == [repo |-> Unset, team |-> CHOOSE t \in TeamIds : TRUE,
         granted |-> [g \in RepoNames \X TeamIds |-> "none"]]

(* New resources of every kind.                                            *)
New ==
  Of("token", {s \in TokenSpecs : s.id = Unset}, {Unset}, {Empty(TokenIds)})
  \cup Of("robot", RobotSpecs, {Unset}, {Empty(RobotIds)})
  \cup Of("team", TeamSpecs, {Unset}, {Empty(TeamIds)})
  \cup Of("repository", {s \in RepoSpecs : s.repo = ResourceName}, {Unset}, {NoRepos})
  \cup Of("membership",
          {s \in MembershipSpecs : s.refs /\ s.robot = Unset /\ s.team = Unset},
          {Unset}, {Alone} \cup Company)
  \cup Of("permission",
          {s \in PermissionSpecs : s.refs /\ s.repo = Unset /\ s.team = Unset},
          {Unset}, {Bare})

(* Those that import what exists, or name what does not.                   *)
Imports ==
  Of("token", {s \in TokenSpecs : s.owner = "robots" /\ s.id # Unset}, {NotUuid} \cup TokenIds,
     {[Empty(TokenIds) EXCEPT ![id] = l] : id \in TokenIds, l \in Labels})
  \cup Of("robot", [owner : {"id"}], {NotUuid} \cup RobotIds,
          {[Empty(RobotIds) EXCEPT ![id] = "live"] : id \in RobotIds})
  \cup Of("team", [org : {"id"}], {NoTeam} \cup TeamIds,
          {[Empty(TeamIds) EXCEPT ![id] = "live"] : id \in TeamIds})
  \cup Of("repository", {s \in RepoSpecs : s.repo = ResourceName}, {Unset},
          {[NoRepos EXCEPT ![ResourceName] = r] : r \in Repos})
  \cup Of("membership", {s \in MembershipSpecs : s.robot # Unset /\ s.team # Unset},
          {Unset}, {[c EXCEPT !.members = c.robots \X TeamIds] : c \in Company})
  \cup Of("permission", {s \in PermissionSpecs : s.repo # Unset /\ s.team # Unset},
          {Unset}, {[Bare EXCEPT !.granted = [g \in DOMAIN @ |-> l]] : l \in Levels})

Anything == New \cup Imports

(* Memberships whose robot is given.                                       *)
Members == Of("membership", {s \in MembershipSpecs : s.robot # Unset /\ s.team # Unset},
              {Unset}, Company)
===============================================================================
