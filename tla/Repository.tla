------------------------------ MODULE Repository ------------------------------
(***************************************************************************)
(* The handlers of Repository resources: internal/controller/cluster/      *)
(* repository and its namespaced twin.  A repository is identified by its  *)
(* name: Observe and Delete use the external name, which the initializer   *)
(* sets to the name of the resource itself, Create and Update use          *)
(* spec.forProvider.name.                                                  *)
(***************************************************************************)
CONSTANTS RepoNames,    \* names of repositories in the organization
          ResourceName, \* metadata.name of the managed resource
          Unset         \* no external name

(* A publish policy the API does not report compares as the empty string.  *)
Policies == {"draft", "publish", ""}
Repos == [public : BOOLEAN, policy : Policies]

RepoSpecs == [repo : RepoNames, public : BOOLEAN, publish : BOOLEAN]
RepoExternalNames == RepoNames \cup {Unset}

(* The repositories at Upbound: those that exist, with their settings.     *)
NoRepo == [public |-> FALSE, policy |-> "none"]
RepoWorlds == [RepoNames -> Repos \cup {NoRepo}]

RepoObjects(w) == {n \in RepoNames : w[n] # NoRepo}
RepoTargets(s, n) == {n} \cap RepoNames

(* Others delete repositories and change the settings of existing ones.    *)
RepoDrifts(w) ==
  {[w EXCEPT ![n] = r] : n \in RepoObjects(w),
                         r \in [public : BOOLEAN, policy : {"draft", "publish"}]
                                 \cup {NoRepo}} \ {w}

(* Nothing about the spec is immutable.                                    *)
RepoEdits(s) == RepoSpecs \ {s}

-------------------------------------------------------------------------------
(* managed.NewNameAsExternalName                                           *)
RepoDefault(s, n) == IF n = Unset THEN ResourceName ELSE n

(* A Repository refers to no other resource.                               *)
RepoPatch(s, t, u) == u
RepoWhole(s, t) == {}
RepoResolve(s, w) == {s}

createOrUpdatePublish(publish) == IF publish THEN "publish" ELSE "draft"

(* The settings a spec asks for.                                           *)
Wanted(s) == [public |-> s.public, policy |-> createOrUpdatePublish(s.publish)]

(* A repository has no connection details.                                 *)
RepoPublishes(s) == FALSE

(* One setting that agrees is enough to be up to date.                     *)
UpToDate(s, repo) ==
  s.public = repo.public \/ repo.policy = createOrUpdatePublish(s.publish)

RepoObserve(s, n, w, reply) ==
  CASE n = Unset                      -> "absent"
    [] n \in RepoNames /\ reply # "ok" -> "error"
    [] OTHER -> IF n \notin RepoObjects(w) THEN "absent"
                ELSE IF UpToDate(s, w[n]) THEN "current" ELSE "outdated"

(* CreateOrUpdateWithOptions: a PUT on the name in the spec.               *)
Put(s, w, reply) ==
  IF reply = "rejected" THEN w ELSE [w EXCEPT ![s.repo] = Wanted(s)]

RepoCreate(s, n, w, reply) ==
  {[err   |-> reply # "ok",
    world |-> Put(s, w, reply),
    name  |-> IF reply = "ok" THEN s.repo ELSE n]}

RepoUpdate(s, n, w, reply) ==
  {[err |-> reply # "ok", world |-> Put(s, w, reply), name |-> n]}

(* A repository that is not found counts as deleted.                       *)
RepoDelete(s, n, w, reply) ==
  {[err   |-> reply # "ok",
    world |-> IF n \in RepoNames /\ reply # "rejected"
                THEN [w EXCEPT ![n] = NoRepo] ELSE w,
    name  |-> n]}
===============================================================================
