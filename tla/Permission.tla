------------------------------- MODULE Permission -------------------------------
(***************************************************************************)
(* The handlers of Permission resources: internal/controller/cluster/      *)
(* repositorypermission and internal/client/repositorypermission.  The     *)
(* permission of a team on a repository is meant by the two in the spec,   *)
(* which references to a Team and a Repository resource may fill in.       *)
(***************************************************************************)
CONSTANTS RepoNames,  \* names of repositories in the organization
          TeamIds,    \* ids of teams
          Levels,     \* admin, read, write, view
          Unset       \* not given, or no external name

(* The team and the repository come with references or neither does.       *)
PermissionSpecs == [repo : RepoNames \cup {Unset}, team : TeamIds \cup {Unset},
                    level : Levels, refs : BOOLEAN]
PermissionNames == RepoNames \cup {Unset}

(* The external names of the Repository and the Team that the references   *)
(* mean, and the permissions at Upbound.                                   *)
PermissionWorlds == [repo : RepoNames \cup {Unset}, team : TeamIds \cup {Unset},
                     granted : [RepoNames \X TeamIds -> Levels \cup {"none"}]]

PermissionObjects(w) == {g \in RepoNames \X TeamIds : w.granted[g] # "none"}
PermissionTargets(s, n) == {<<s.repo, s.team>>} \cap (RepoNames \X TeamIds)

(* Others withdraw permissions; the resources referred to are created.     *)
PermissionDrifts(w) ==
  {[w EXCEPT !.granted[g] = "none"] : g \in PermissionObjects(w)}
  \cup {[w EXCEPT !.team = t] : t \in IF w.team = Unset THEN TeamIds ELSE {}}
  \cup {[w EXCEPT !.repo = r] : r \in IF w.repo = Unset THEN RepoNames ELSE {}}

(* The level and the repository may be changed.                            *)
PermissionEdits(s) ==
  ({[s EXCEPT !.level = l] : l \in Levels}
     \cup {[s EXCEPT !.repo = r] : r \in RepoNames}) \ {s}

-------------------------------------------------------------------------------
(* setup passes no initializers.                                           *)
PermissionDefault(s, n) == n

(* What is there is kept; what is missing is the external name of the      *)
(* resource referred to, which must have one.                              *)
PermissionResolve(s, w) ==
  LET full == [s EXCEPT !.repo = IF @ = Unset THEN w.repo ELSE @,
                        !.team = IF @ = Unset THEN w.team ELSE @]
  IN  CASE ~s.refs -> {s}
        [] s.refs /\ Unset \in {full.repo, full.team} -> {}
        [] OTHER -> {full}

(* What was missing is written, whatever is there by now; of that alone no *)
(* permission can be made, which has an organization and a level.          *)
PermissionPatch(s, t, u) ==
  [u EXCEPT !.repo = IF t.repo # s.repo THEN t.repo ELSE @,
            !.team = IF t.team # s.team THEN t.team ELSE @]
PermissionWhole(s, t) == {}

(* Mutant: a permission not found is a failure.                            *)
PermissionObserve_AbsentIsFailure(s, n, w, reply) ==
  IF reply = "ok" /\ PermissionTargets(s, n) \cap PermissionObjects(w) # {}
    THEN "current" ELSE "error"

(* A permission that exists is up to date, whatever its level.  One of     *)
(* nothing is looked up as any other and not found.                        *)
PermissionObserve(s, n, w, reply) ==
  CASE reply # "ok" -> "error"
    [] OTHER -> IF PermissionTargets(s, n) \cap PermissionObjects(w) = {}
                  THEN "absent" ELSE "current"

(* The client's Create, a PUT.                                             *)
SetPermission(s, w) == [w EXCEPT !.granted[<<s.repo, s.team>>] = s.level]

(* The external name is the repository's.                                  *)
PermissionCreate(s, n, w, reply) ==
  IF reply = "rejected" \/ PermissionTargets(s, n) = {}
    THEN {[err |-> TRUE, world |-> w, name |-> n]}
    ELSE {[err   |-> reply = "lost",
           world |-> SetPermission(s, w),
           name  |-> IF reply = "lost" THEN n ELSE s.repo]}

PermissionUpdate(s, n, w, reply) == {[err |-> FALSE, world |-> w, name |-> n]}

(* A permission that is not found counts as withdrawn.                     *)
PermissionDelete(s, n, w, reply) ==
  {[err   |-> reply # "ok",
    world |-> IF reply = "rejected" \/ PermissionTargets(s, n) = {} THEN w
              ELSE [w EXCEPT !.granted[<<s.repo, s.team>>] = "none"],
    name  |-> n]}
===============================================================================
