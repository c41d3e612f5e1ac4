--------------------------------- MODULE Kinds ---------------------------------
(***************************************************************************)
(* The resources of all kinds: a spec says of which kind and scope it is,  *)
(* and the loop that its setup.go builds calls the handlers of that kind.  *)
(* A world holds what concerns the resources of one kind.                  *)
(***************************************************************************)
EXTENDS Managed

CONSTANTS TokenIds, Labels, OwnerTypes, OwnerIds, RobotIds, TeamIds, RepoNames,
          ResourceName, Levels, Unset, NotUuid, NoTeam

INSTANCE Namespaced

ASSUME KindConstants ==
  /\ NoName = Unset
  /\ Unset \notin TokenIds \cup RobotIds \cup TeamIds \cup RepoNames \cup OwnerIds
  /\ NotUuid \notin TokenIds \cup RobotIds \cup {Unset}
  /\ NoTeam \notin TeamIds \cup {Unset}
  /\ {"unused", "deleted"} \cap Labels = {} /\ "none" \notin Levels

Scopes == {"cluster", "namespaced"}

Either(kind, cluster, namespaced) ==
  [kind : {kind}, scope : {"cluster"}, form : cluster]
    \cup [kind : {kind}, scope : {"namespaced"}, form : namespaced]

KindSpecs == Either("token", TokenSpecs, NamespacedTokenSpecs)
               \cup Either("robot", RobotSpecs, NamespacedRobotSpecs)
               \cup Either("team", TeamSpecs, NamespacedTeamSpecs)
               \cup Either("membership", MembershipSpecs, NamespacedMembershipSpecs)
               \cup Either("repository", RepoSpecs, NamespacedRepoSpecs)
               \cup Either("permission", PermissionSpecs, NamespacedPermissionSpecs)

KindNames == TokenNames \cup RobotNames \cup TeamNames \cup RepoExternalNames

Holding(kind, holdings) == [kind : {kind}, holds : holdings]

KindWorlds == Holding("token", TokenWorlds) \cup Holding("robot", RobotWorlds)
                \cup Holding("team", TeamWorlds)
                \cup Holding("membership", MembershipWorlds)
                \cup Holding("repository", RepoWorlds)
                \cup Holding("permission", PermissionWorlds)

KindIds == TokenIds \cup RobotIds \cup TeamIds \cup RepoNames
             \cup (RobotIds \X TeamIds) \cup (RepoNames \X TeamIds)

-------------------------------------------------------------------------------
(* The one of these that goes with the kind, or with the scope.            *)
By(kind, token, robot, team, membership, repository, permission) ==
  CASE kind = "token"      -> token
    [] kind = "robot"      -> robot
    [] kind = "team"       -> team
    [] kind = "membership" -> membership
    [] kind = "repository" -> repository
    [] kind = "permission" -> permission

For(s, cluster, namespaced) == IF s.scope = "cluster" THEN cluster ELSE namespaced

KindObjects(w) ==
  By(w.kind,
     TokenObjects(w.holds),
     RobotObjects(w.holds),
     TeamObjects(w.holds),
     MembershipObjects(w.holds),
     RepoObjects(w.holds),
     PermissionObjects(w.holds))

KindTargets(s, n) ==
  By(s.kind,
     TokenTargets(s.form, n),
     RobotTargets(s.form, n),
     TeamTargets(s.form, n),
     MembershipTargets(s.form, n),
     RepoTargets(s.form, n),
     PermissionTargets(s.form, n))

KindDrifts(w) ==
  {[w EXCEPT !.holds = h] : h \in By(w.kind,
     TokenDrifts(w.holds),
     RobotDrifts(w.holds),
     TeamDrifts(w.holds),
     MembershipDrifts(w.holds),
     RepoDrifts(w.holds),
     PermissionDrifts(w.holds))}

KindEdits(s) ==
  {[s EXCEPT !.form = f] : f \in By(s.kind,
     TokenEdits(s.form),
     RobotEdits(s.form),
     TeamEdits(s.form),
     MembershipEdits(s.form),
     RepoEdits(s.form),
     PermissionEdits(s.form))}

(* Edits that leave alone what object the resource means.                  *)
KeepingEdits(s) ==
  {t \in KindEdits(s) : \A n \in Names : KindTargets(t, n) = KindTargets(s, n)}

-------------------------------------------------------------------------------
(* The setup.go of one kind, a repository, passes an initializer.          *)
KindDefault(s, n) ==
  IF s.kind = "repository"
    THEN For(s, RepoDefault(s.form, n), NamespacedRepoDefault(s.form, n))
    ELSE n

(* Only a token has connection details.                                    *)
KindPublishes(s) == s.kind = "token"

(* A resource is never reconciled against a world of another kind.         *)
KindResolve(s, w) ==
  IF s.kind # w.kind THEN {s} ELSE
  {[s EXCEPT !.form = f] : f \in By(s.kind,
     For(s, TokenResolve(s.form, w.holds),
            NamespacedTokenResolve(s.form, w.holds)),
     RobotResolve(s.form, w.holds),
     TeamResolve(s.form, w.holds),
     For(s, MembershipResolve(s.form, w.holds),
            NamespacedMembershipResolve(s.form, w.holds)),
     RepoResolve(s.form, w.holds),
     For(s, PermissionResolve(s.form, w.holds),
            NamespacedPermissionResolve(s.form, w.holds)))}

(* What is patched is of the kind and scope that was resolved.             *)
KindPatch(s, t, u) ==
  IF <<s.kind, s.scope>> # <<u.kind, u.scope>> THEN u ELSE
  [u EXCEPT !.form = By(s.kind,
     TokenPatch(s.form, t.form, @),
     @,
     @,
     MembershipPatch(s.form, t.form, @),
     @,
     PermissionPatch(s.form, t.form, @))]

KindWhole(s, t) ==
  {[s EXCEPT !.form = f] : f \in By(s.kind,
     TokenWhole(s.form, t.form),
     {},
     {},
     MembershipWhole(s.form, t.form),
     {},
     PermissionWhole(s.form, t.form))}

KindObserve(s, n, w, reply) ==
  IF s.kind # w.kind THEN "error" ELSE
  By(s.kind,
     For(s, TokenObserve(s.form, n, w.holds, reply),
            NamespacedTokenObserve(s.form, n, w.holds, reply)),
     For(s, RobotObserve(s.form, n, w.holds, reply),
            NamespacedRobotObserve(s.form, n, w.holds, reply)),
     For(s, TeamObserve(s.form, n, w.holds, reply),
            NamespacedTeamObserve(s.form, n, w.holds, reply)),
     For(s, MembershipObserve(s.form, n, w.holds, reply),
            NamespacedMembershipObserve(s.form, n, w.holds, reply)),
     For(s, RepoObserve(s.form, n, w.holds, reply),
            NamespacedRepoObserve(s.form, n, w.holds, reply)),
     For(s, PermissionObserve(s.form, n, w.holds, reply),
            NamespacedPermissionObserve(s.form, n, w.holds, reply)))

Outcome(s, n, w, outcomes) ==
  IF s.kind # w.kind THEN {[err |-> TRUE, world |-> w, name |-> n]}
  ELSE {[o EXCEPT !.world = [kind |-> w.kind, holds |-> @]] : o \in outcomes}

KindCreate(s, n, w, reply) ==
  Outcome(s, n, w,
  By(s.kind,
     For(s, TokenCreate(s.form, n, w.holds, reply),
            NamespacedTokenCreate(s.form, n, w.holds, reply)),
     For(s, RobotCreate(s.form, n, w.holds, reply),
            NamespacedRobotCreate(s.form, n, w.holds, reply)),
     For(s, TeamCreate(s.form, n, w.holds, reply),
            NamespacedTeamCreate(s.form, n, w.holds, reply)),
     For(s, MembershipCreate(s.form, n, w.holds, reply),
            NamespacedMembershipCreate(s.form, n, w.holds, reply)),
     For(s, RepoCreate(s.form, n, w.holds, reply),
            NamespacedRepoCreate(s.form, n, w.holds, reply)),
     For(s, PermissionCreate(s.form, n, w.holds, reply),
            NamespacedPermissionCreate(s.form, n, w.holds, reply))))

KindUpdate(s, n, w, reply) ==
  Outcome(s, n, w,
  By(s.kind,
     For(s, TokenUpdate(s.form, n, w.holds, reply),
            NamespacedTokenUpdate(s.form, n, w.holds, reply)),
     For(s, RobotUpdate(s.form, n, w.holds, reply),
            NamespacedRobotUpdate(s.form, n, w.holds, reply)),
     For(s, TeamUpdate(s.form, n, w.holds, reply),
            NamespacedTeamUpdate(s.form, n, w.holds, reply)),
     For(s, MembershipUpdate(s.form, n, w.holds, reply),
            NamespacedMembershipUpdate(s.form, n, w.holds, reply)),
     For(s, RepoUpdate(s.form, n, w.holds, reply),
            NamespacedRepoUpdate(s.form, n, w.holds, reply)),
     For(s, PermissionUpdate(s.form, n, w.holds, reply),
            NamespacedPermissionUpdate(s.form, n, w.holds, reply))))

KindDelete(s, n, w, reply) ==
  Outcome(s, n, w,
  By(s.kind,
     For(s, TokenDelete(s.form, n, w.holds, reply),
            NamespacedTokenDelete(s.form, n, w.holds, reply)),
     For(s, RobotDelete(s.form, n, w.holds, reply),
            NamespacedRobotDelete(s.form, n, w.holds, reply)),
     For(s, TeamDelete(s.form, n, w.holds, reply),
            NamespacedTeamDelete(s.form, n, w.holds, reply)),
     For(s, MembershipDelete(s.form, n, w.holds, reply),
            NamespacedMembershipDelete(s.form, n, w.holds, reply)),
     For(s, RepoDelete(s.form, n, w.holds, reply),
            NamespacedRepoDelete(s.form, n, w.holds, reply)),
     For(s, PermissionDelete(s.form, n, w.holds, reply),
            NamespacedPermissionDelete(s.form, n, w.holds, reply))))

(* What the setup.go of every kind gives managed.NewReconciler; the        *)
(* provider may have resources of some kinds only.                         *)
ASSUME KindHandlers ==
  /\ Specs \subseteq KindSpecs /\ Names = KindNames /\ Worlds = KindWorlds
  /\ \A s \in Specs : Edits(s) \subseteq KindEdits(s)
  /\ \A w \in Worlds : Objects(w) = KindObjects(w) /\ Drifts(w) = KindDrifts(w)
  /\ \A s \in Specs, n \in Names : /\ Default(s, n) = KindDefault(s, n)
                                   /\ Targets(s, n) = KindTargets(s, n)
  /\ \A s \in Specs, w \in Worlds :
       /\ Resolve(s, w) = KindResolve(s, w)
       /\ \A t \in Resolve(s, w) :
            /\ Whole(s, t) = KindWhole(s, t)
            /\ \A u \in Specs : Patch(s, t, u) = KindPatch(s, t, u)
  /\ \A s \in Specs, n \in Names, w \in Worlds, r \in Replies :
       /\ Observe(s, n, w, r) = KindObserve(s, n, w, r)
       /\ Create(s, n, w, r) = KindCreate(s, n, w, r)
       /\ Update(s, n, w, r) = KindUpdate(s, n, w, r)
       /\ Delete(s, n, w, r) = KindDelete(s, n, w, r)

-------------------------------------------------------------------------------
(* A spec that can be carried out, on the world as it is: the owner or the *)
(* organization is given and is one, and what the references and the ids   *)
(* mean is there.                                                          *)
Given(id, refs, referent) == IF id = Unset /\ refs THEN referent ELSE id

Sound(o, w) ==
  LET f == o.spec.form
  IN  CASE o.spec.kind = "token" -> f.owner = "robots" /\ o.name # NotUuid
        [] o.spec.kind = "robot" -> f.owner # "none" /\ o.name # NotUuid
        [] o.spec.kind = "team" -> f.org \in {"id", "organization"}
        [] o.spec.kind = "membership" ->
             /\ Given(f.robot, f.refs, w.holds.robot) \in w.holds.robots
             /\ Given(f.team, f.refs, w.holds.team) # Unset
        [] o.spec.kind = "permission" ->
             /\ Given(f.repo, f.refs, w.holds.repo) # Unset
             /\ Given(f.team, f.refs, w.holds.team) # Unset
        [] o.spec.kind = "repository" -> TRUE

(* Of whatever kind the resource is: once nobody interferes any more it    *)
(* comes to be in shape, unless its spec cannot be carried out.            *)
Settles == Converges \/ <>[]~Sound(obj, world)
===============================================================================
