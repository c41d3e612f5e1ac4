------------------------------- MODULE KindProofs -------------------------------
(***************************************************************************)
(* The handlers of every kind, cluster-scoped and namespaced, keep account *)
(* of what they make, so that what is proved of the loop holds of their    *)
(* resources.  A repository's Update may create: what it makes is          *)
(* accounted for as long as one replica runs and the repository is named   *)
(* like its resource.                                                      *)
(***************************************************************************)
EXTENDS Kinds, ManagedProofs

-------------------------------------------------------------------------------
(* The handlers of Token resources.                                        *)

LEMMA TokenObserveHonest ==
  ASSUME NEW s \in TokenSpecs, NEW n, NEW w \in TokenWorlds,
         NEW r \in Replies, TokenObserve(s, n, w, r) = "absent"
  PROVE  TokenTargets(s, n) \cap TokenObjects(w) = {}
<1>1. n = Unset \/ n \notin TokenObjects(w)
  BY DEF TokenObserve
<1> QED BY <1>1, KindConstants DEF TokenTargets

LEMMA TokenCreateNames ==
  ASSUME NEW s \in TokenSpecs, NEW n, NEW w \in TokenWorlds,
         NEW r \in Replies, NEW o \in TokenCreate(s, n, w, r), ~o.err
  PROVE  TokenObjects(o.world) \subseteq TokenObjects(w) \cup TokenTargets(s, o.name)
<1>1. r # "rejected"
  BY DEF TokenCreate
<1>2. PICK id \in TokenIds :
        o = [err   |-> r = "lost",
             world |-> [w EXCEPT ![id] = s.label],
             name  |-> IF r = "lost" THEN n ELSE id]
  BY <1>1 DEF TokenCreate
<1>3. o.world = [w EXCEPT ![id] = s.label] /\ o.name = id
  BY <1>2
<1> QED BY <1>3 DEF TokenObjects, TokenTargets, TokenWorlds

LEMMA TokenOthersCreateNothing ==
  ASSUME NEW s \in TokenSpecs, NEW n, NEW w \in TokenWorlds,
         NEW r \in Replies,
         NEW o \in TokenUpdate(s, n, w, r) \cup TokenDelete(s, n, w, r)
  PROVE  TokenObjects(o.world) \subseteq TokenObjects(w)
<1>1. o.world = w \/ o.world = [w EXCEPT ![n] = "deleted"]
  <2>1. CASE o \in TokenUpdate(s, n, w, r)
    <3>1. \E e : o = [err |-> e, world |-> w, name |-> n]
      BY <2>1, Zenon DEF TokenUpdate
    <3> QED BY <3>1
  <2>2. CASE o \in TokenDelete(s, n, w, r)
    BY <2>2 DEF TokenDelete
  <2> QED BY <2>1, <2>2
<1>2. "deleted" \notin Labels
  BY KindConstants
<1> QED BY <1>1, <1>2 DEF TokenObjects, TokenWorlds

LEMMA TokenDriftsCreateNothing ==
  ASSUME NEW w \in TokenWorlds, NEW v \in TokenDrifts(w)
  PROVE  TokenObjects(v) \subseteq TokenObjects(w)
<1>1. PICK id \in TokenObjects(w), l \in Labels \cup {"deleted"} :
        v = [w EXCEPT ![id] = l]
  BY DEF TokenDrifts
<1> QED BY <1>1 DEF TokenObjects, TokenWorlds

-------------------------------------------------------------------------------
(* The handlers of Robot resources.                                        *)

LEMMA RobotObserveHonest ==
  ASSUME NEW s \in RobotSpecs, NEW n, NEW w \in RobotWorlds,
         NEW r \in Replies, RobotObserve(s, n, w, r) = "absent"
  PROVE  RobotTargets(s, n) \cap RobotObjects(w) = {}
<1>1. n = Unset \/ n \notin RobotObjects(w)
  BY DEF RobotObserve
<1> QED BY <1>1, KindConstants DEF RobotTargets

LEMMA RobotCreateNames ==
  ASSUME NEW s \in RobotSpecs, NEW n, NEW w \in RobotWorlds,
         NEW r \in Replies, NEW o \in RobotCreate(s, n, w, r), ~o.err
  PROVE  RobotObjects(o.world) \subseteq RobotObjects(w) \cup RobotTargets(s, o.name)
<1>1. PICK id \in RobotIds :
        o = [err   |-> r = "lost",
             world |-> [w EXCEPT ![id] = "live"],
             name  |-> IF r = "lost" THEN n ELSE id]
  <2>1. o # [err |-> TRUE, world |-> w, name |-> n]
    OBVIOUS
  <2> QED BY <2>1 DEF RobotCreate
<1>2. o.world = [w EXCEPT ![id] = "live"] /\ o.name = id
  BY <1>1
<1> QED BY <1>2 DEF RobotObjects, RobotTargets, RobotWorlds

LEMMA RobotOthersCreateNothing ==
  ASSUME NEW s \in RobotSpecs, NEW n, NEW w \in RobotWorlds,
         NEW r \in Replies,
         NEW o \in RobotUpdate(s, n, w, r) \cup RobotDelete(s, n, w, r)
  PROVE  RobotObjects(o.world) \subseteq RobotObjects(w)
<1>1. o.world = w \/ o.world = [w EXCEPT ![n] = "deleted"]
  BY DEF RobotUpdate, RobotDelete
<1> QED BY <1>1 DEF RobotObjects, RobotWorlds

LEMMA RobotDriftsCreateNothing ==
  ASSUME NEW w \in RobotWorlds, NEW v \in RobotDrifts(w)
  PROVE  RobotObjects(v) \subseteq RobotObjects(w)
<1>1. PICK id \in RobotObjects(w) : v = [w EXCEPT ![id] = "deleted"]
  BY DEF RobotDrifts
<1> QED BY <1>1 DEF RobotObjects, RobotWorlds

-------------------------------------------------------------------------------
(* The handlers of Team resources.                                         *)

LEMMA TeamObserveHonest ==
  ASSUME NEW s \in TeamSpecs, NEW n, NEW w \in TeamWorlds,
         NEW r \in Replies, TeamObserve(s, n, w, r) = "absent"
  PROVE  TeamTargets(s, n) \cap TeamObjects(w) = {}
<1>1. n = Unset \/ n \notin TeamObjects(w)
  BY DEF TeamObserve
<1> QED BY <1>1, KindConstants DEF TeamTargets

LEMMA TeamCreateNames ==
  ASSUME NEW s \in TeamSpecs, NEW n, NEW w \in TeamWorlds,
         NEW r \in Replies, NEW o \in TeamCreate(s, n, w, r), ~o.err
  PROVE  TeamObjects(o.world) \subseteq TeamObjects(w) \cup TeamTargets(s, o.name)
<1>1. PICK id \in TeamIds :
        o = [err   |-> r = "lost",
             world |-> [w EXCEPT ![id] = "live"],
             name  |-> IF r = "lost" THEN n ELSE id]
  <2>1. o # [err |-> TRUE, world |-> w, name |-> n]
    OBVIOUS
  <2> QED BY <2>1 DEF TeamCreate, IssueTeam
<1>2. o.world = [w EXCEPT ![id] = "live"] /\ o.name = id
  BY <1>1
<1> QED BY <1>2 DEF TeamObjects, TeamTargets, TeamWorlds

LEMMA TeamOthersCreateNothing ==
  ASSUME NEW s \in TeamSpecs, NEW n, NEW w \in TeamWorlds,
         NEW r \in Replies,
         NEW o \in TeamUpdate(s, n, w, r) \cup TeamDelete(s, n, w, r)
  PROVE  TeamObjects(o.world) \subseteq TeamObjects(w)
<1>1. o.world = w \/ o.world = [w EXCEPT ![n] = "deleted"]
  BY DEF TeamUpdate, TeamDelete
<1> QED BY <1>1 DEF TeamObjects, TeamWorlds

LEMMA TeamDriftsCreateNothing ==
  ASSUME NEW w \in TeamWorlds, NEW v \in TeamDrifts(w)
  PROVE  TeamObjects(v) \subseteq TeamObjects(w)
<1>1. PICK id \in TeamObjects(w) : v = [w EXCEPT ![id] = "deleted"]
  BY DEF TeamDrifts
<1> QED BY <1>1 DEF TeamObjects, TeamWorlds

-------------------------------------------------------------------------------
(* The handlers of Membership resources.                                   *)

(* Filling in an id that is missing takes no membership away.              *)
LEMMA MembershipResolveAdds ==
  ASSUME NEW s \in MembershipSpecs, NEW n, NEW w \in MembershipWorlds,
         NEW t \in MembershipResolve(s, w)
  PROVE  MembershipTargets(s, n) \subseteq MembershipTargets(t, n)
<1>1. Unset \notin RobotIds /\ Unset \notin TeamIds
  BY KindConstants
<1>2. CASE s.robot = Unset \/ s.team = Unset
  BY <1>1, <1>2 DEF MembershipTargets
<1>3. CASE s.robot # Unset /\ s.team # Unset
  <2>1. t.robot = s.robot /\ t.team = s.team
    BY <1>3 DEF MembershipResolve, MembershipSpecs
  <2> QED BY <2>1 DEF MembershipTargets
<1> QED BY <1>2, <1>3

LEMMA MembershipObserveHonest ==
  ASSUME NEW s \in MembershipSpecs, NEW n, NEW w \in MembershipWorlds,
         NEW r \in Replies, MembershipObserve(s, n, w, r) = "absent"
  PROVE  MembershipTargets(s, n) \cap MembershipObjects(w) = {}
<1>1. s.robot \notin w.robots \/ <<s.robot, s.team>> \notin w.members
  BY DEF MembershipObserve, Get
<1>2. \A m \in w.members : m[1] \in w.robots
  BY DEF MembershipWorlds
<1>3. <<s.robot, s.team>> \notin w.members
  BY <1>1, <1>2
<1> QED BY <1>3 DEF MembershipTargets, MembershipObjects

LEMMA MembershipCreateNames ==
  ASSUME NEW s \in MembershipSpecs, NEW n, NEW w \in MembershipWorlds,
         NEW r \in Replies, NEW o \in MembershipCreate(s, n, w, r), ~o.err
  PROVE  MembershipObjects(o.world)
           \subseteq MembershipObjects(w) \cup MembershipTargets(s, o.name)
<1>1. o # [err |-> TRUE, world |-> w, name |-> n]
  OBVIOUS
<1>2. s.robot \in w.robots /\ s.team # Unset /\ o.world = AddToTeam(s, w)
  BY <1>1 DEF MembershipCreate
<1>3. s.robot \in RobotIds /\ s.team \in TeamIds
  BY <1>2 DEF MembershipSpecs, MembershipWorlds
<1> QED
  BY <1>2, <1>3 DEF AddToTeam, MembershipObjects, MembershipTargets, MembershipWorlds

LEMMA MembershipOthersCreateNothing ==
  ASSUME NEW s \in MembershipSpecs, NEW n, NEW w \in MembershipWorlds,
         NEW r \in Replies,
         NEW o \in MembershipUpdate(s, n, w, r) \cup MembershipDelete(s, n, w, r)
  PROVE  MembershipObjects(o.world) \subseteq MembershipObjects(w)
<1>1. \/ o.world = w
      \/ o.world = [w EXCEPT !.members = @ \ {<<s.robot, s.team>>}]
  BY DEF MembershipUpdate, MembershipDelete
<1> QED BY <1>1 DEF MembershipObjects, MembershipWorlds

LEMMA MembershipDriftsCreateNothing ==
  ASSUME NEW w \in MembershipWorlds, NEW v \in MembershipDrifts(w)
  PROVE  MembershipObjects(v) \subseteq MembershipObjects(w)
<1>1. CASE \E m \in w.members : v = [w EXCEPT !.members = @ \ {m}]
  BY <1>1 DEF MembershipObjects, MembershipWorlds
<1>2. CASE \E r \in RobotIds \ {w.robot} :
             v = [Without(w, w.robot) EXCEPT !.robot = r, !.robots = @ \cup {r}]
  BY <1>2 DEF MembershipObjects, MembershipWorlds, Without
<1> QED BY <1>1, <1>2 DEF MembershipDrifts

-------------------------------------------------------------------------------
(* The handlers of Permission resources.                                   *)

(* Filling in what is missing takes no permission away.                    *)
LEMMA PermissionResolveAdds ==
  ASSUME NEW s \in PermissionSpecs, NEW n, NEW w \in PermissionWorlds,
         NEW t \in PermissionResolve(s, w)
  PROVE  PermissionTargets(s, n) \subseteq PermissionTargets(t, n)
<1>1. Unset \notin RepoNames /\ Unset \notin TeamIds
  BY KindConstants
<1>2. CASE s.repo = Unset \/ s.team = Unset
  BY <1>1, <1>2 DEF PermissionTargets
<1>3. CASE s.repo # Unset /\ s.team # Unset
  <2>1. t.repo = s.repo /\ t.team = s.team
    BY <1>3 DEF PermissionResolve, PermissionSpecs
  <2> QED BY <2>1 DEF PermissionTargets
<1> QED BY <1>2, <1>3

LEMMA PermissionObserveHonest ==
  ASSUME NEW s \in PermissionSpecs, NEW n, NEW w \in PermissionWorlds,
         NEW r \in Replies, PermissionObserve(s, n, w, r) = "absent"
  PROVE  PermissionTargets(s, n) \cap PermissionObjects(w) = {}
BY DEF PermissionObserve

LEMMA PermissionCreateNames ==
  ASSUME NEW s \in PermissionSpecs, NEW n, NEW w \in PermissionWorlds,
         NEW r \in Replies, NEW o \in PermissionCreate(s, n, w, r), ~o.err
  PROVE  PermissionObjects(o.world)
           \subseteq PermissionObjects(w) \cup PermissionTargets(s, o.name)
<1>1. o # [err |-> TRUE, world |-> w, name |-> n]
  OBVIOUS
<1>2. PermissionTargets(s, n) # {} /\ o.world = SetPermission(s, w)
  BY <1>1 DEF PermissionCreate
<1>3. \A g \in RepoNames \X TeamIds :
        g # <<s.repo, s.team>> => o.world.granted[g] = w.granted[g]
  BY <1>2 DEF SetPermission, PermissionWorlds
<1> QED
  BY <1>3 DEF PermissionObjects, PermissionTargets

LEMMA PermissionOthersCreateNothing ==
  ASSUME NEW s \in PermissionSpecs, NEW n, NEW w \in PermissionWorlds,
         NEW r \in Replies,
         NEW o \in PermissionUpdate(s, n, w, r) \cup PermissionDelete(s, n, w, r)
  PROVE  PermissionObjects(o.world) \subseteq PermissionObjects(w)
<1>1. \/ o.world = w
      \/ o.world = [w EXCEPT !.granted[<<s.repo, s.team>>] = "none"]
  BY DEF PermissionUpdate, PermissionDelete
<1> QED BY <1>1 DEF PermissionObjects, PermissionWorlds

LEMMA PermissionDriftsCreateNothing ==
  ASSUME NEW w \in PermissionWorlds, NEW v \in PermissionDrifts(w)
  PROVE  PermissionObjects(v) \subseteq PermissionObjects(w)
<1>1. CASE \E g \in PermissionObjects(w) : v = [w EXCEPT !.granted[g] = "none"]
  BY <1>1 DEF PermissionObjects, PermissionWorlds
<1>2. CASE \E x : v = [w EXCEPT !.team = x] \/ v = [w EXCEPT !.repo = x]
  BY <1>2 DEF PermissionObjects, PermissionWorlds
<1> QED BY <1>1, <1>2 DEF PermissionDrifts

-------------------------------------------------------------------------------
(* The handlers of Repository resources.                                   *)

LEMMA RepoObserveHonest ==
  ASSUME NEW s \in RepoSpecs, NEW n, NEW w \in RepoWorlds,
         NEW r \in Replies, RepoObserve(s, n, w, r) = "absent"
  PROVE  RepoTargets(s, n) \cap RepoObjects(w) = {}
<1>1. n = Unset \/ n \notin RepoObjects(w)
  BY DEF RepoObserve
<1> QED BY <1>1, KindConstants DEF RepoTargets

(* A repository that is out of date exists.                                *)
LEMMA RepoObserveFinds ==
  ASSUME NEW s \in RepoSpecs, NEW n, NEW w \in RepoWorlds,
         NEW r \in Replies, RepoObserve(s, n, w, r) = "outdated"
  PROVE  n \in RepoObjects(w)
BY DEF RepoObserve

(* The PUT of Create and Update brings about the repository of the spec.   *)
LEMMA PutNames ==
  ASSUME NEW s \in RepoSpecs, NEW w \in RepoWorlds, NEW r
  PROVE  RepoObjects(Put(s, w, r)) \subseteq RepoObjects(w) \cup ({s.repo} \cap RepoNames)
BY DEF Put, RepoObjects, RepoWorlds, RepoSpecs

LEMMA RepoCreateNames ==
  ASSUME NEW s \in RepoSpecs, NEW n, NEW w \in RepoWorlds,
         NEW r \in Replies, NEW o \in RepoCreate(s, n, w, r), ~o.err
  PROVE  RepoObjects(o.world) \subseteq RepoObjects(w) \cup RepoTargets(s, o.name)
<1>1. /\ o.world = Put(s, w, r) /\ o.err = (r # "ok")
      /\ o.name = IF r = "ok" THEN s.repo ELSE n
  BY DEF RepoCreate
<1> QED BY <1>1, PutNames DEF RepoTargets

LEMMA RepoDeleteCreatesNothing ==
  ASSUME NEW s \in RepoSpecs, NEW n, NEW w \in RepoWorlds,
         NEW r \in Replies, NEW o \in RepoDelete(s, n, w, r)
  PROVE  RepoObjects(o.world) \subseteq RepoObjects(w)
<1>1. o.world = w \/ o.world = [w EXCEPT ![n] = NoRepo]
  BY DEF RepoDelete
<1> QED BY <1>1 DEF RepoObjects, RepoWorlds

LEMMA RepoDriftsCreateNothing ==
  ASSUME NEW w \in RepoWorlds, NEW v \in RepoDrifts(w)
  PROVE  RepoObjects(v) \subseteq RepoObjects(w)
<1>1. PICK n \in RepoObjects(w) : \E x : v = [w EXCEPT ![n] = x]
  BY DEF RepoDrifts
<1> QED BY <1>1 DEF RepoObjects, RepoWorlds

-------------------------------------------------------------------------------
(* The handlers of one kind among those of all: which they are.            *)

LEMMA OutcomesOf ==
  ASSUME NEW s, NEW n, NEW w, s.kind = w.kind, NEW outcomes,
         \A u \in outcomes : u = [err |-> u.err, world |-> u.world, name |-> u.name],
         NEW o \in Outcome(s, n, w, outcomes)
  PROVE  \E u \in outcomes : /\ o.err = u.err /\ o.name = u.name
                             /\ o.world = [kind |-> w.kind, holds |-> u.world]
<1>1. PICK u \in outcomes : o = [u EXCEPT !.world = [kind |-> w.kind, holds |-> @]]
  BY DEF Outcome
<1>2. u = [err |-> u.err, world |-> u.world, name |-> u.name]
  OBVIOUS
<1> QED BY <1>1, <1>2

LEMMA TokenBranch ==
  ASSUME NEW s \in KindSpecs, s.kind = "token", NEW n, NEW r,
         NEW w \in KindWorlds, w.kind = "token"
  PROVE  /\ s.form \in TokenSpecs /\ w.holds \in TokenWorlds
         /\ KindTargets(s, n) = TokenTargets(s.form, n)
         /\ \A h : KindObjects([kind |-> w.kind, holds |-> h]) = TokenObjects(h)
         /\ KindObjects(w) = TokenObjects(w.holds)
         /\ KindObserve(s, n, w, r) = TokenObserve(s.form, n, w.holds, r)
         /\ KindCreate(s, n, w, r)
              = Outcome(s, n, w, TokenCreate(s.form, n, w.holds, r))
         /\ KindUpdate(s, n, w, r)
              = Outcome(s, n, w, TokenUpdate(s.form, n, w.holds, r))
         /\ KindDelete(s, n, w, r)
              = Outcome(s, n, w, TokenDelete(s.form, n, w.holds, r))
<1>1. s.form \in TokenSpecs /\ w.holds \in TokenWorlds
  BY DEF KindSpecs, KindWorlds, Either, Holding, NamespacedTokenSpecs
<1> QED
  BY <1>1 DEF By, For, KindTargets, KindObjects, KindObserve, KindCreate,
              KindUpdate, KindDelete, NamespacedTokenObserve, NamespacedTokenCreate,
              NamespacedTokenUpdate, NamespacedTokenDelete

LEMMA RobotBranch ==
  ASSUME NEW s \in KindSpecs, s.kind = "robot", NEW n, NEW r,
         NEW w \in KindWorlds, w.kind = "robot"
  PROVE  /\ s.form \in RobotSpecs /\ w.holds \in RobotWorlds
         /\ KindTargets(s, n) = RobotTargets(s.form, n)
         /\ \A h : KindObjects([kind |-> w.kind, holds |-> h]) = RobotObjects(h)
         /\ KindObjects(w) = RobotObjects(w.holds)
         /\ KindObserve(s, n, w, r) = RobotObserve(s.form, n, w.holds, r)
         /\ KindCreate(s, n, w, r)
              = Outcome(s, n, w, RobotCreate(s.form, n, w.holds, r))
         /\ KindUpdate(s, n, w, r)
              = Outcome(s, n, w, RobotUpdate(s.form, n, w.holds, r))
         /\ KindDelete(s, n, w, r)
              = Outcome(s, n, w, RobotDelete(s.form, n, w.holds, r))
<1>1. s.form \in RobotSpecs /\ w.holds \in RobotWorlds
  BY DEF KindSpecs, KindWorlds, Either, Holding, NamespacedRobotSpecs
<1> QED
  BY <1>1 DEF By, For, KindTargets, KindObjects, KindObserve, KindCreate,
              KindUpdate, KindDelete, NamespacedRobotObserve, NamespacedRobotCreate,
              NamespacedRobotUpdate, NamespacedRobotDelete

LEMMA TeamBranch ==
  ASSUME NEW s \in KindSpecs, s.kind = "team", NEW n, NEW r,
         NEW w \in KindWorlds, w.kind = "team"
  PROVE  /\ s.form \in TeamSpecs /\ w.holds \in TeamWorlds
         /\ KindTargets(s, n) = TeamTargets(s.form, n)
         /\ \A h : KindObjects([kind |-> w.kind, holds |-> h]) = TeamObjects(h)
         /\ KindObjects(w) = TeamObjects(w.holds)
         /\ KindObserve(s, n, w, r) = TeamObserve(s.form, n, w.holds, r)
         /\ KindCreate(s, n, w, r)
              = Outcome(s, n, w, TeamCreate(s.form, n, w.holds, r))
         /\ KindUpdate(s, n, w, r)
              = Outcome(s, n, w, TeamUpdate(s.form, n, w.holds, r))
         /\ KindDelete(s, n, w, r)
              = Outcome(s, n, w, TeamDelete(s.form, n, w.holds, r))
<1>1. s.form \in TeamSpecs /\ w.holds \in TeamWorlds
  BY DEF KindSpecs, KindWorlds, Either, Holding, NamespacedTeamSpecs
<1> QED
  BY <1>1 DEF By, For, KindTargets, KindObjects, KindObserve, KindCreate,
              KindUpdate, KindDelete, NamespacedTeamObserve, NamespacedTeamCreate,
              NamespacedTeamUpdate, NamespacedTeamDelete

LEMMA MembershipBranch ==
  ASSUME NEW s \in KindSpecs, s.kind = "membership", NEW n, NEW r,
         NEW w \in KindWorlds, w.kind = "membership"
  PROVE  /\ s.form \in MembershipSpecs /\ w.holds \in MembershipWorlds
         /\ KindTargets(s, n) = MembershipTargets(s.form, n)
         /\ \A h : KindObjects([kind |-> w.kind, holds |-> h]) = MembershipObjects(h)
         /\ KindObjects(w) = MembershipObjects(w.holds)
         /\ KindObserve(s, n, w, r) = MembershipObserve(s.form, n, w.holds, r)
         /\ KindCreate(s, n, w, r)
              = Outcome(s, n, w, MembershipCreate(s.form, n, w.holds, r))
         /\ KindUpdate(s, n, w, r)
              = Outcome(s, n, w, MembershipUpdate(s.form, n, w.holds, r))
         /\ KindDelete(s, n, w, r)
              = Outcome(s, n, w, MembershipDelete(s.form, n, w.holds, r))
<1>1. s.form \in MembershipSpecs /\ w.holds \in MembershipWorlds
  BY DEF KindSpecs, KindWorlds, Either, Holding, NamespacedMembershipSpecs
<1> QED
  BY <1>1 DEF By, For, KindTargets, KindObjects, KindObserve, KindCreate,
              KindUpdate, KindDelete, NamespacedMembershipObserve, NamespacedMembershipCreate,
              NamespacedMembershipUpdate, NamespacedMembershipDelete

LEMMA RepoBranch ==
  ASSUME NEW s \in KindSpecs, s.kind = "repository", NEW n, NEW r,
         NEW w \in KindWorlds, w.kind = "repository"
  PROVE  /\ s.form \in RepoSpecs /\ w.holds \in RepoWorlds
         /\ KindTargets(s, n) = RepoTargets(s.form, n)
         /\ \A h : KindObjects([kind |-> w.kind, holds |-> h]) = RepoObjects(h)
         /\ KindObjects(w) = RepoObjects(w.holds)
         /\ KindObserve(s, n, w, r) = RepoObserve(s.form, n, w.holds, r)
         /\ KindCreate(s, n, w, r)
              = Outcome(s, n, w, RepoCreate(s.form, n, w.holds, r))
         /\ KindUpdate(s, n, w, r)
              = Outcome(s, n, w, RepoUpdate(s.form, n, w.holds, r))
         /\ KindDelete(s, n, w, r)
              = Outcome(s, n, w, RepoDelete(s.form, n, w.holds, r))
<1>1. s.form \in RepoSpecs /\ w.holds \in RepoWorlds
  BY DEF KindSpecs, KindWorlds, Either, Holding, NamespacedRepoSpecs
<1> QED
  BY <1>1 DEF By, For, KindTargets, KindObjects, KindObserve, KindCreate,
              KindUpdate, KindDelete, NamespacedRepoObserve, NamespacedRepoCreate,
              NamespacedRepoUpdate, NamespacedRepoDelete

LEMMA PermissionBranch ==
  ASSUME NEW s \in KindSpecs, s.kind = "permission", NEW n, NEW r,
         NEW w \in KindWorlds, w.kind = "permission"
  PROVE  /\ s.form \in PermissionSpecs /\ w.holds \in PermissionWorlds
         /\ KindTargets(s, n) = PermissionTargets(s.form, n)
         /\ \A h : KindObjects([kind |-> w.kind, holds |-> h]) = PermissionObjects(h)
         /\ KindObjects(w) = PermissionObjects(w.holds)
         /\ KindObserve(s, n, w, r) = PermissionObserve(s.form, n, w.holds, r)
         /\ KindCreate(s, n, w, r)
              = Outcome(s, n, w, PermissionCreate(s.form, n, w.holds, r))
         /\ KindUpdate(s, n, w, r)
              = Outcome(s, n, w, PermissionUpdate(s.form, n, w.holds, r))
         /\ KindDelete(s, n, w, r)
              = Outcome(s, n, w, PermissionDelete(s.form, n, w.holds, r))
<1>1. s.form \in PermissionSpecs /\ w.holds \in PermissionWorlds
  BY DEF KindSpecs, KindWorlds, Either, Holding, NamespacedPermissionSpecs
<1> QED
  BY <1>1 DEF By, For, KindTargets, KindObjects, KindObserve, KindCreate,
              KindUpdate, KindDelete, NamespacedPermissionObserve, NamespacedPermissionCreate,
              NamespacedPermissionUpdate, NamespacedPermissionDelete

(* What the handlers of a kind keep to, said of all kinds at once.         *)

LEMMA TokenHonest ==
  ASSUME NEW s \in KindSpecs, s.kind = "token", NEW n, NEW r \in Replies,
         NEW w \in KindWorlds, w.kind = "token"
  PROVE  /\ KindObserve(s, n, w, r) = "absent" => KindTargets(s, n) \cap KindObjects(w) = {}
         /\ \A o \in KindCreate(s, n, w, r) :
              ~o.err => KindObjects(o.world) \subseteq KindObjects(w) \cup KindTargets(s, o.name)
         /\ \A o \in KindUpdate(s, n, w, r) \cup KindDelete(s, n, w, r) :
              KindObjects(o.world) \subseteq KindObjects(w)
<1>1. KindObserve(s, n, w, r) = "absent" => KindTargets(s, n) \cap KindObjects(w) = {}
  BY TokenBranch, TokenObserveHonest
<1>2. ASSUME NEW o \in KindCreate(s, n, w, r), ~o.err
      PROVE  KindObjects(o.world) \subseteq KindObjects(w) \cup KindTargets(s, o.name)
  <2>1. \A u \in TokenCreate(s.form, n, w.holds, r) :
          u = [err |-> u.err, world |-> u.world, name |-> u.name]
    BY DEF TokenCreate
  <2>2. PICK u \in TokenCreate(s.form, n, w.holds, r) :
          /\ o.err = u.err /\ o.name = u.name
          /\ o.world = [kind |-> w.kind, holds |-> u.world]
    BY <2>1, TokenBranch, OutcomesOf
  <2>3. TokenObjects(u.world) \subseteq TokenObjects(w.holds) \cup TokenTargets(s.form, u.name)
    BY <1>2, <2>2, TokenBranch, TokenCreateNames
  <2>4. KindTargets(s, o.name) = TokenTargets(s.form, u.name)
    BY <2>2, TokenBranch
  <2> QED BY <2>2, <2>3, <2>4, TokenBranch
<1>3. ASSUME NEW o \in KindUpdate(s, n, w, r) \cup KindDelete(s, n, w, r)
      PROVE  KindObjects(o.world) \subseteq KindObjects(w)
  <2>1. \A u \in TokenUpdate(s.form, n, w.holds, r)
                          \cup TokenDelete(s.form, n, w.holds, r) :
          u = [err |-> u.err, world |-> u.world, name |-> u.name]
    <3>1. ASSUME NEW u \in TokenUpdate(s.form, n, w.holds, r)
          PROVE  u = [err |-> u.err, world |-> u.world, name |-> u.name]
      <4>1. \E e : u = [err |-> e, world |-> w.holds, name |-> n]
        BY Zenon DEF TokenUpdate
      <4> QED BY <4>1
    <3>2. ASSUME NEW u \in TokenDelete(s.form, n, w.holds, r)
          PROVE  u = [err |-> u.err, world |-> u.world, name |-> u.name]
      BY DEF TokenDelete
    <3> QED BY <3>1, <3>2
  <2>2. PICK u \in TokenUpdate(s.form, n, w.holds, r)
                          \cup TokenDelete(s.form, n, w.holds, r) :
          o.world = [kind |-> w.kind, holds |-> u.world]
    BY <2>1, TokenBranch, OutcomesOf
  <2>3. TokenObjects(u.world) \subseteq TokenObjects(w.holds)
    BY TokenBranch, TokenOthersCreateNothing
  <2> QED BY <2>2, <2>3, TokenBranch
<1> QED BY <1>1, <1>2, <1>3

LEMMA RobotHonest ==
  ASSUME NEW s \in KindSpecs, s.kind = "robot", NEW n, NEW r \in Replies,
         NEW w \in KindWorlds, w.kind = "robot"
  PROVE  /\ KindObserve(s, n, w, r) = "absent" => KindTargets(s, n) \cap KindObjects(w) = {}
         /\ \A o \in KindCreate(s, n, w, r) :
              ~o.err => KindObjects(o.world) \subseteq KindObjects(w) \cup KindTargets(s, o.name)
         /\ \A o \in KindUpdate(s, n, w, r) \cup KindDelete(s, n, w, r) :
              KindObjects(o.world) \subseteq KindObjects(w)
<1>1. KindObserve(s, n, w, r) = "absent" => KindTargets(s, n) \cap KindObjects(w) = {}
  BY RobotBranch, RobotObserveHonest
<1>2. ASSUME NEW o \in KindCreate(s, n, w, r), ~o.err
      PROVE  KindObjects(o.world) \subseteq KindObjects(w) \cup KindTargets(s, o.name)
  <2>1. \A u \in RobotCreate(s.form, n, w.holds, r) :
          u = [err |-> u.err, world |-> u.world, name |-> u.name]
    BY DEF RobotCreate
  <2>2. PICK u \in RobotCreate(s.form, n, w.holds, r) :
          /\ o.err = u.err /\ o.name = u.name
          /\ o.world = [kind |-> w.kind, holds |-> u.world]
    BY <2>1, RobotBranch, OutcomesOf
  <2>3. RobotObjects(u.world) \subseteq RobotObjects(w.holds) \cup RobotTargets(s.form, u.name)
    BY <1>2, <2>2, RobotBranch, RobotCreateNames
  <2>4. KindTargets(s, o.name) = RobotTargets(s.form, u.name)
    BY <2>2, RobotBranch
  <2> QED BY <2>2, <2>3, <2>4, RobotBranch
<1>3. ASSUME NEW o \in KindUpdate(s, n, w, r) \cup KindDelete(s, n, w, r)
      PROVE  KindObjects(o.world) \subseteq KindObjects(w)
  <2>1. \A u \in RobotUpdate(s.form, n, w.holds, r)
                          \cup RobotDelete(s.form, n, w.holds, r) :
          u = [err |-> u.err, world |-> u.world, name |-> u.name]
    BY DEF RobotUpdate, RobotDelete
  <2>2. PICK u \in RobotUpdate(s.form, n, w.holds, r)
                          \cup RobotDelete(s.form, n, w.holds, r) :
          o.world = [kind |-> w.kind, holds |-> u.world]
    BY <2>1, RobotBranch, OutcomesOf
  <2>3. RobotObjects(u.world) \subseteq RobotObjects(w.holds)
    BY RobotBranch, RobotOthersCreateNothing
  <2> QED BY <2>2, <2>3, RobotBranch
<1> QED BY <1>1, <1>2, <1>3

LEMMA TeamHonest ==
  ASSUME NEW s \in KindSpecs, s.kind = "team", NEW n, NEW r \in Replies,
         NEW w \in KindWorlds, w.kind = "team"
  PROVE  /\ KindObserve(s, n, w, r) = "absent" => KindTargets(s, n) \cap KindObjects(w) = {}
         /\ \A o \in KindCreate(s, n, w, r) :
              ~o.err => KindObjects(o.world) \subseteq KindObjects(w) \cup KindTargets(s, o.name)
         /\ \A o \in KindUpdate(s, n, w, r) \cup KindDelete(s, n, w, r) :
              KindObjects(o.world) \subseteq KindObjects(w)
<1>1. KindObserve(s, n, w, r) = "absent" => KindTargets(s, n) \cap KindObjects(w) = {}
  BY TeamBranch, TeamObserveHonest
<1>2. ASSUME NEW o \in KindCreate(s, n, w, r), ~o.err
      PROVE  KindObjects(o.world) \subseteq KindObjects(w) \cup KindTargets(s, o.name)
  <2>1. \A u \in TeamCreate(s.form, n, w.holds, r) :
          u = [err |-> u.err, world |-> u.world, name |-> u.name]
    BY DEF TeamCreate, IssueTeam
  <2>2. PICK u \in TeamCreate(s.form, n, w.holds, r) :
          /\ o.err = u.err /\ o.name = u.name
          /\ o.world = [kind |-> w.kind, holds |-> u.world]
    BY <2>1, TeamBranch, OutcomesOf
  <2>3. TeamObjects(u.world) \subseteq TeamObjects(w.holds) \cup TeamTargets(s.form, u.name)
    BY <1>2, <2>2, TeamBranch, TeamCreateNames
  <2>4. KindTargets(s, o.name) = TeamTargets(s.form, u.name)
    BY <2>2, TeamBranch
  <2> QED BY <2>2, <2>3, <2>4, TeamBranch
<1>3. ASSUME NEW o \in KindUpdate(s, n, w, r) \cup KindDelete(s, n, w, r)
      PROVE  KindObjects(o.world) \subseteq KindObjects(w)
  <2>1. \A u \in TeamUpdate(s.form, n, w.holds, r)
                          \cup TeamDelete(s.form, n, w.holds, r) :
          u = [err |-> u.err, world |-> u.world, name |-> u.name]
    BY DEF TeamUpdate, TeamDelete
  <2>2. PICK u \in TeamUpdate(s.form, n, w.holds, r)
                          \cup TeamDelete(s.form, n, w.holds, r) :
          o.world = [kind |-> w.kind, holds |-> u.world]
    BY <2>1, TeamBranch, OutcomesOf
  <2>3. TeamObjects(u.world) \subseteq TeamObjects(w.holds)
    BY TeamBranch, TeamOthersCreateNothing
  <2> QED BY <2>2, <2>3, TeamBranch
<1> QED BY <1>1, <1>2, <1>3

LEMMA MembershipHonest ==
  ASSUME NEW s \in KindSpecs, s.kind = "membership", NEW n, NEW r \in Replies,
         NEW w \in KindWorlds, w.kind = "membership"
  PROVE  /\ KindObserve(s, n, w, r) = "absent" => KindTargets(s, n) \cap KindObjects(w) = {}
         /\ \A o \in KindCreate(s, n, w, r) :
              ~o.err => KindObjects(o.world) \subseteq KindObjects(w) \cup KindTargets(s, o.name)
         /\ \A o \in KindUpdate(s, n, w, r) \cup KindDelete(s, n, w, r) :
              KindObjects(o.world) \subseteq KindObjects(w)
<1>1. KindObserve(s, n, w, r) = "absent" => KindTargets(s, n) \cap KindObjects(w) = {}
  BY MembershipBranch, MembershipObserveHonest
<1>2. ASSUME NEW o \in KindCreate(s, n, w, r), ~o.err
      PROVE  KindObjects(o.world) \subseteq KindObjects(w) \cup KindTargets(s, o.name)
  <2>1. \A u \in MembershipCreate(s.form, n, w.holds, r) :
          u = [err |-> u.err, world |-> u.world, name |-> u.name]
    BY DEF MembershipCreate
  <2>2. PICK u \in MembershipCreate(s.form, n, w.holds, r) :
          /\ o.err = u.err /\ o.name = u.name
          /\ o.world = [kind |-> w.kind, holds |-> u.world]
    BY <2>1, MembershipBranch, OutcomesOf
  <2>3. MembershipObjects(u.world) \subseteq MembershipObjects(w.holds) \cup MembershipTargets(s.form, u.name)
    BY <1>2, <2>2, MembershipBranch, MembershipCreateNames
  <2>4. KindTargets(s, o.name) = MembershipTargets(s.form, u.name)
    BY <2>2, MembershipBranch
  <2> QED BY <2>2, <2>3, <2>4, MembershipBranch
<1>3. ASSUME NEW o \in KindUpdate(s, n, w, r) \cup KindDelete(s, n, w, r)
      PROVE  KindObjects(o.world) \subseteq KindObjects(w)
  <2>1. \A u \in MembershipUpdate(s.form, n, w.holds, r)
                          \cup MembershipDelete(s.form, n, w.holds, r) :
          u = [err |-> u.err, world |-> u.world, name |-> u.name]
    BY DEF MembershipUpdate, MembershipDelete
  <2>2. PICK u \in MembershipUpdate(s.form, n, w.holds, r)
                          \cup MembershipDelete(s.form, n, w.holds, r) :
          o.world = [kind |-> w.kind, holds |-> u.world]
    BY <2>1, MembershipBranch, OutcomesOf
  <2>3. MembershipObjects(u.world) \subseteq MembershipObjects(w.holds)
    BY MembershipBranch, MembershipOthersCreateNothing
  <2> QED BY <2>2, <2>3, MembershipBranch
<1> QED BY <1>1, <1>2, <1>3

LEMMA RepoHonest ==
  ASSUME NEW s \in KindSpecs, s.kind = "repository", NEW n, NEW r \in Replies,
         NEW w \in KindWorlds, w.kind = "repository"
  PROVE  /\ KindObserve(s, n, w, r) = "absent" => KindTargets(s, n) \cap KindObjects(w) = {}
         /\ \A o \in KindCreate(s, n, w, r) :
              ~o.err => KindObjects(o.world) \subseteq KindObjects(w) \cup KindTargets(s, o.name)
         /\ \A o \in KindDelete(s, n, w, r) :
              KindObjects(o.world) \subseteq KindObjects(w)
<1>1. KindObserve(s, n, w, r) = "absent" => KindTargets(s, n) \cap KindObjects(w) = {}
  BY RepoBranch, RepoObserveHonest
<1>2. ASSUME NEW o \in KindCreate(s, n, w, r), ~o.err
      PROVE  KindObjects(o.world) \subseteq KindObjects(w) \cup KindTargets(s, o.name)
  <2>1. \A u \in RepoCreate(s.form, n, w.holds, r) :
          u = [err |-> u.err, world |-> u.world, name |-> u.name]
    BY DEF RepoCreate
  <2>2. PICK u \in RepoCreate(s.form, n, w.holds, r) :
          /\ o.err = u.err /\ o.name = u.name
          /\ o.world = [kind |-> w.kind, holds |-> u.world]
    BY <2>1, RepoBranch, OutcomesOf
  <2>3. RepoObjects(u.world) \subseteq RepoObjects(w.holds) \cup RepoTargets(s.form, u.name)
    BY <1>2, <2>2, RepoBranch, RepoCreateNames
  <2>4. KindTargets(s, o.name) = RepoTargets(s.form, u.name)
    BY <2>2, RepoBranch
  <2> QED BY <2>2, <2>3, <2>4, RepoBranch
<1>3. ASSUME NEW o \in KindDelete(s, n, w, r)
      PROVE  KindObjects(o.world) \subseteq KindObjects(w)
  <2>1. \A u \in RepoDelete(s.form, n, w.holds, r) :
          u = [err |-> u.err, world |-> u.world, name |-> u.name]
    BY DEF RepoDelete
  <2>2. PICK u \in RepoDelete(s.form, n, w.holds, r) :
          o.world = [kind |-> w.kind, holds |-> u.world]
    BY <2>1, RepoBranch, OutcomesOf
  <2>3. RepoObjects(u.world) \subseteq RepoObjects(w.holds)
    BY RepoBranch, RepoDeleteCreatesNothing
  <2> QED BY <2>2, <2>3, RepoBranch
<1> QED BY <1>1, <1>2, <1>3

LEMMA PermissionHonest ==
  ASSUME NEW s \in KindSpecs, s.kind = "permission", NEW n, NEW r \in Replies,
         NEW w \in KindWorlds, w.kind = "permission"
  PROVE  /\ KindObserve(s, n, w, r) = "absent" => KindTargets(s, n) \cap KindObjects(w) = {}
         /\ \A o \in KindCreate(s, n, w, r) :
              ~o.err => KindObjects(o.world) \subseteq KindObjects(w) \cup KindTargets(s, o.name)
         /\ \A o \in KindUpdate(s, n, w, r) \cup KindDelete(s, n, w, r) :
              KindObjects(o.world) \subseteq KindObjects(w)
<1>1. KindObserve(s, n, w, r) = "absent" => KindTargets(s, n) \cap KindObjects(w) = {}
  BY PermissionBranch, PermissionObserveHonest
<1>2. ASSUME NEW o \in KindCreate(s, n, w, r), ~o.err
      PROVE  KindObjects(o.world) \subseteq KindObjects(w) \cup KindTargets(s, o.name)
  <2>1. \A u \in PermissionCreate(s.form, n, w.holds, r) :
          u = [err |-> u.err, world |-> u.world, name |-> u.name]
    BY DEF PermissionCreate
  <2>2. PICK u \in PermissionCreate(s.form, n, w.holds, r) :
          /\ o.err = u.err /\ o.name = u.name
          /\ o.world = [kind |-> w.kind, holds |-> u.world]
    BY <2>1, PermissionBranch, OutcomesOf
  <2>3. PermissionObjects(u.world) \subseteq PermissionObjects(w.holds) \cup PermissionTargets(s.form, u.name)
    BY <1>2, <2>2, PermissionBranch, PermissionCreateNames
  <2>4. KindTargets(s, o.name) = PermissionTargets(s.form, u.name)
    BY <2>2, PermissionBranch
  <2> QED BY <2>2, <2>3, <2>4, PermissionBranch
<1>3. ASSUME NEW o \in KindUpdate(s, n, w, r) \cup KindDelete(s, n, w, r)
      PROVE  KindObjects(o.world) \subseteq KindObjects(w)
  <2>1. \A u \in PermissionUpdate(s.form, n, w.holds, r)
                          \cup PermissionDelete(s.form, n, w.holds, r) :
          u = [err |-> u.err, world |-> u.world, name |-> u.name]
    BY DEF PermissionUpdate, PermissionDelete
  <2>2. PICK u \in PermissionUpdate(s.form, n, w.holds, r)
                          \cup PermissionDelete(s.form, n, w.holds, r) :
          o.world = [kind |-> w.kind, holds |-> u.world]
    BY <2>1, PermissionBranch, OutcomesOf
  <2>3. PermissionObjects(u.world) \subseteq PermissionObjects(w.holds)
    BY PermissionBranch, PermissionOthersCreateNothing
  <2> QED BY <2>2, <2>3, PermissionBranch
<1> QED BY <1>1, <1>2, <1>3

-------------------------------------------------------------------------------
(* The handlers that the loop calls, whatever kinds the resources are of.  *)

(* No edit changes which object a resource means.                          *)
EditsKeep == \A s \in Specs : Edits(s) \subseteq KeepingEdits(s)

(* A resource against a world of its own kind: what the handlers keep to.  *)
LEMMA KindHonest ==
  ASSUME NEW s \in KindSpecs, NEW n, NEW r \in Replies,
         NEW w \in KindWorlds, w.kind = s.kind
  PROVE  /\ KindObserve(s, n, w, r) = "absent" => KindTargets(s, n) \cap KindObjects(w) = {}
         /\ \A o \in KindCreate(s, n, w, r) :
              ~o.err => KindObjects(o.world) \subseteq KindObjects(w) \cup KindTargets(s, o.name)
         /\ \A o \in KindDelete(s, n, w, r) : KindObjects(o.world) \subseteq KindObjects(w)
         /\ s.kind # "repository" =>
              \A o \in KindUpdate(s, n, w, r) : KindObjects(o.world) \subseteq KindObjects(w)
<1>1. s.kind \in {"token", "robot", "team", "membership", "repository", "permission"}
  BY DEF KindSpecs, Either
<1>2. CASE s.kind = "token"
  BY <1>2, TokenHonest
<1>3. CASE s.kind = "robot"
  BY <1>3, RobotHonest
<1>4. CASE s.kind = "team"
  BY <1>4, TeamHonest
<1>5. CASE s.kind = "membership"
  BY <1>5, MembershipHonest
<1>6. CASE s.kind = "repository"
  BY <1>6, RepoHonest
<1>7. CASE s.kind = "permission"
  BY <1>7, PermissionHonest
<1> QED BY <1>1, <1>2, <1>3, <1>4, <1>5, <1>6, <1>7

(* Against a world of another kind they do nothing.                        *)
LEMMA KindAlien ==
  ASSUME NEW s, NEW n, NEW r, NEW w, s.kind # w.kind
  PROVE  /\ KindObserve(s, n, w, r) = "error"
         /\ \A o \in KindCreate(s, n, w, r) : o.err
         /\ \A o \in KindUpdate(s, n, w, r) \cup KindDelete(s, n, w, r) : o.world = w
BY DEF KindObserve, KindCreate, KindUpdate, KindDelete, Outcome

LEMMA KindDriftsHonest ==
  ASSUME NEW w \in KindWorlds, NEW v \in KindDrifts(w)
  PROVE  KindObjects(v) \subseteq KindObjects(w)
<1>1. w.kind \in {"token", "robot", "team", "membership", "repository", "permission"}
  BY DEF KindWorlds, Holding
<1>2. CASE w.kind = "token"
  <2>1. w.holds \in TokenWorlds
    BY <1>2 DEF KindWorlds, Holding
  <2>2. PICK h \in TokenDrifts(w.holds) : v = [w EXCEPT !.holds = h]
    BY <1>2 DEF KindDrifts, By
  <2>3. v.kind = "token" /\ v.holds = h
    BY <1>2, <2>2 DEF KindWorlds, Holding
  <2>4. TokenObjects(h) \subseteq TokenObjects(w.holds)
    BY <2>1, TokenDriftsCreateNothing
  <2> QED BY <1>2, <2>3, <2>4 DEF KindObjects, By
<1>3. CASE w.kind = "robot"
  <2>1. w.holds \in RobotWorlds
    BY <1>3 DEF KindWorlds, Holding
  <2>2. PICK h \in RobotDrifts(w.holds) : v = [w EXCEPT !.holds = h]
    BY <1>3 DEF KindDrifts, By
  <2>3. v.kind = "robot" /\ v.holds = h
    BY <1>3, <2>2 DEF KindWorlds, Holding
  <2>4. RobotObjects(h) \subseteq RobotObjects(w.holds)
    BY <2>1, RobotDriftsCreateNothing
  <2> QED BY <1>3, <2>3, <2>4 DEF KindObjects, By
<1>4. CASE w.kind = "team"
  <2>1. w.holds \in TeamWorlds
    BY <1>4 DEF KindWorlds, Holding
  <2>2. PICK h \in TeamDrifts(w.holds) : v = [w EXCEPT !.holds = h]
    BY <1>4 DEF KindDrifts, By
  <2>3. v.kind = "team" /\ v.holds = h
    BY <1>4, <2>2 DEF KindWorlds, Holding
  <2>4. TeamObjects(h) \subseteq TeamObjects(w.holds)
    BY <2>1, TeamDriftsCreateNothing
  <2> QED BY <1>4, <2>3, <2>4 DEF KindObjects, By
<1>5. CASE w.kind = "membership"
  <2>1. w.holds \in MembershipWorlds
    BY <1>5 DEF KindWorlds, Holding
  <2>2. PICK h \in MembershipDrifts(w.holds) : v = [w EXCEPT !.holds = h]
    BY <1>5 DEF KindDrifts, By
  <2>3. v.kind = "membership" /\ v.holds = h
    BY <1>5, <2>2 DEF KindWorlds, Holding
  <2>4. MembershipObjects(h) \subseteq MembershipObjects(w.holds)
    BY <2>1, MembershipDriftsCreateNothing
  <2> QED BY <1>5, <2>3, <2>4 DEF KindObjects, By
<1>6. CASE w.kind = "repository"
  <2>1. w.holds \in RepoWorlds
    BY <1>6 DEF KindWorlds, Holding
  <2>2. PICK h \in RepoDrifts(w.holds) : v = [w EXCEPT !.holds = h]
    BY <1>6 DEF KindDrifts, By
  <2>3. v.kind = "repository" /\ v.holds = h
    BY <1>6, <2>2 DEF KindWorlds, Holding
  <2>4. RepoObjects(h) \subseteq RepoObjects(w.holds)
    BY <2>1, RepoDriftsCreateNothing
  <2> QED BY <1>6, <2>3, <2>4 DEF KindObjects, By
<1>7. CASE w.kind = "permission"
  <2>1. w.holds \in PermissionWorlds
    BY <1>7 DEF KindWorlds, Holding
  <2>2. PICK h \in PermissionDrifts(w.holds) : v = [w EXCEPT !.holds = h]
    BY <1>7 DEF KindDrifts, By
  <2>3. v.kind = "permission" /\ v.holds = h
    BY <1>7, <2>2 DEF KindWorlds, Holding
  <2>4. PermissionObjects(h) \subseteq PermissionObjects(w.holds)
    BY <2>1, PermissionDriftsCreateNothing
  <2> QED BY <1>7, <2>3, <2>4 DEF KindObjects, By
<1> QED BY <1>1, <1>2, <1>3, <1>4, <1>5, <1>6, <1>7

(* References add: what is missing is filled in.                           *)
LEMMA KindResolveAdds ==
  ASSUME NEW s \in KindSpecs, NEW n, NEW w \in KindWorlds, w.kind = s.kind,
         NEW t \in KindResolve(s, w)
  PROVE  KindTargets(s, n) \subseteq KindTargets(t, n)
<1>1. s.kind \in {"token", "robot", "team", "membership", "repository", "permission"}
  BY DEF KindSpecs, Either
<1>2. PICK f : t = [s EXCEPT !.form = f]
  BY DEF KindResolve
<1>3. t.kind = s.kind /\ t.form = f /\ s.kind = w.kind
  BY <1>2 DEF KindSpecs, Either, KindResolve
<1>4. CASE s.kind \in {"token", "robot", "team", "repository"}
  BY <1>3, <1>4 DEF KindTargets, By, TokenTargets, RobotTargets, TeamTargets, RepoTargets
<1>5. CASE s.kind = "membership"
  <2>1. /\ s.form \in MembershipSpecs /\ w.holds \in MembershipWorlds
        /\ f \in MembershipResolve(s.form, w.holds)
    BY <1>5, <1>3 DEF KindSpecs, KindWorlds, Either, Holding, NamespacedMembershipSpecs,
        KindResolve, By, For, NamespacedMembershipResolve
  <2>2. MembershipTargets(s.form, n) \subseteq MembershipTargets(f, n)
    BY <2>1, MembershipResolveAdds
  <2> QED BY <1>3, <1>5, <2>2 DEF KindTargets, By
<1>6. CASE s.kind = "permission"
  <2>1. /\ s.form \in PermissionSpecs /\ w.holds \in PermissionWorlds
        /\ f \in PermissionResolve(s.form, w.holds)
    BY <1>6, <1>3 DEF KindSpecs, KindWorlds, Either, Holding, NamespacedPermissionSpecs,
        KindResolve, By, For, NamespacedPermissionResolve
  <2>2. PermissionTargets(s.form, n) \subseteq PermissionTargets(f, n)
    BY <2>1, PermissionResolveAdds
  <2> QED BY <1>3, <1>6, <2>2 DEF KindTargets, By
<1> QED BY <1>1, <1>3, <1>4, <1>5, <1>6

LEMMA HandlersKeeping == ASSUME EditsKeep PROVE Keeping
<1>1. ASSUME NEW s \in Specs, NEW n \in Names, Default(s, n) # n PROVE Targets(s, n) = {}
  <2>1. s.kind = "repository" /\ n = Unset
    BY <1>1, KindHandlers DEF KindDefault, For, RepoDefault, NamespacedRepoDefault
  <2>2. Targets(s, n) = RepoTargets(s.form, n)
    BY <2>1, KindHandlers DEF KindTargets, By
  <2> QED BY <2>1, <2>2, KindConstants DEF RepoTargets
<1>2. ASSUME NEW s \in Specs, NEW n \in Names, NEW t \in Edits(s)
      PROVE  Targets(t, n) = Targets(s, n)
  <2>1. t \in Specs /\ t \in KeepingEdits(s)
    BY HandlersAssumption DEF EditsKeep
  <2> QED BY <2>1, KindHandlers DEF KeepingEdits
<1>3. ASSUME NEW s \in Specs, NEW n \in Names, NEW w \in Worlds, NEW t \in Resolve(s, w)
      PROVE  Targets(s, n) \subseteq Targets(t, n)
  <2>1. t \in Specs
    BY ResolveTypes
  <2>2. s \in KindSpecs /\ w \in KindWorlds /\ t \in KindResolve(s, w)
    BY KindHandlers
  <2>3. CASE w.kind = s.kind
    <3>1. KindTargets(s, n) \subseteq KindTargets(t, n)
      BY <2>2, <2>3, KindResolveAdds
    <3> QED BY <2>1, <3>1, KindHandlers
  <2>4. CASE w.kind # s.kind
    BY <2>2, <2>4 DEF KindResolve
  <2> QED BY <2>3, <2>4
<1> QED BY <1>1, <1>2, <1>3 DEF Keeping

LEMMA HandlersTruthful == Truthful
<1>1. ASSUME NEW s \in Specs, NEW n \in Names, NEW w \in Worlds, NEW r \in Replies,
             Observe(s, n, w, r) = "absent"
      PROVE  Targets(s, n) \cap Objects(w) = {}
  <2>1. s \in KindSpecs /\ w \in KindWorlds /\ KindObserve(s, n, w, r) = "absent"
    BY <1>1, KindHandlers
  <2>2. w.kind = s.kind
    BY <2>1, KindAlien
  <2>3. KindTargets(s, n) \cap KindObjects(w) = {}
    BY <2>1, <2>2, KindHonest
  <2> QED BY <2>3, KindHandlers
<1>2. ASSUME NEW s \in Specs, NEW n \in Names, NEW w \in Worlds, NEW r \in Replies,
             NEW o \in Create(s, n, w, r), ~o.err
      PROVE  Objects(o.world) \subseteq Objects(w) \cup Targets(s, o.name)
  <2>1. s \in KindSpecs /\ w \in KindWorlds /\ o \in KindCreate(s, n, w, r)
    BY KindHandlers
  <2>2. w.kind = s.kind
    BY <1>2, <2>1, KindAlien
  <2>3. KindObjects(o.world) \subseteq KindObjects(w) \cup KindTargets(s, o.name)
    BY <1>2, <2>1, <2>2, KindHonest
  <2>4. o.world \in Worlds /\ o.name \in Names
    BY OutcomeTypes
  <2> QED BY <2>3, <2>4, KindHandlers
<1>3. ASSUME NEW s \in Specs, NEW n \in Names, NEW w \in Worlds, NEW r \in Replies,
             NEW o \in Delete(s, n, w, r)
      PROVE  Objects(o.world) \subseteq Objects(w)
  <2>1. s \in KindSpecs /\ w \in KindWorlds /\ o \in KindDelete(s, n, w, r)
    BY KindHandlers
  <2>2. KindObjects(o.world) \subseteq KindObjects(w)
    BY <2>1, KindHonest, KindAlien
  <2>3. o.world \in Worlds
    BY OutcomeTypes
  <2> QED BY <2>2, <2>3, KindHandlers
<1>4. ASSUME NEW w \in Worlds, NEW v \in Drifts(w) PROVE Objects(v) \subseteq Objects(w)
  <2>1. v \in Worlds /\ w \in KindWorlds /\ v \in KindDrifts(w)
    BY HandlersAssumption, KindHandlers
  <2> QED BY <2>1, KindDriftsHonest, KindHandlers
<1> QED BY <1>1, <1>2, <1>3, <1>4 DEF Truthful

(* An Update brings no object about, unless it is a repository's.          *)
LEMMA UpdatesAdd ==
  ASSUME NEW s \in Specs, s.kind # "repository", NEW n \in Names, NEW w \in Worlds,
         NEW r \in Replies, NEW o \in Update(s, n, w, r)
  PROVE  Objects(o.world) \subseteq Objects(w)
<1>1. s \in KindSpecs /\ w \in KindWorlds /\ o \in KindUpdate(s, n, w, r)
  BY KindHandlers
<1>2. KindObjects(o.world) \subseteq KindObjects(w)
  BY <1>1, KindHonest, KindAlien
<1>3. o.world \in Worlds
  BY OutcomeTypes
<1> QED BY <1>2, <1>3, KindHandlers

NoRepositories == \A s \in Specs : s.kind # "repository"

(* The handlers of every kind but the repository, chosen by the kind and   *)
(* the scope in the spec, keep to the contract of the loop.                *)
THEOREM KindContract == ASSUME EditsKeep, NoRepositories PROVE Contract
<1>1. UpdateAddsNothing
  BY UpdatesAdd DEF UpdateAddsNothing, NoRepositories
<1> QED BY <1>1, HandlersKeeping, HandlersTruthful DEF Contract, Honest

(* A resource of any kind but a repository, cluster-scoped or namespaced,  *)
(* reconciled by any number of replicas, leaves nothing behind that the    *)
(* provider made and was told of, though any reply be lost and the robot   *)
(* meant be replaced by another: as long as no edit makes the resource     *)
(* mean another object, and no reference is resolved from an outdated copy *)
(* that passes an unfinished creation by.                                  *)
THEOREM KindsNotOrphaned ==
  ASSUME EditsKeep, NoRepositories PROVE Spec => []NoOrphanUnlessHarmed
BY KindContract, NothingOrphaned

-------------------------------------------------------------------------------
(* Resources that leave nothing to be resolved: they have no references,   *)
(* or the ids these would fill in are given.                               *)

Complete(s) ==
  CASE s.kind = "token"      -> s.form.owner = "robots" /\ s.form.id # Unset
    [] s.kind = "membership" -> ~s.form.refs \/ Unset \notin {s.form.robot, s.form.team}
    [] s.kind = "permission" -> ~s.form.refs \/ Unset \notin {s.form.repo, s.form.team}
    [] OTHER                 -> TRUE

LEMMA CompleteSettled ==
  ASSUME NEW s \in Specs, Complete(s) PROVE s \in Settled
<1>1. SUFFICES ASSUME NEW w \in Worlds PROVE KindResolve(s, w) = {s}
  BY KindHandlers DEF Settled
<1>2. CASE s.kind # w.kind
  BY <1>2 DEF KindResolve
<1>3. CASE s.kind = w.kind
  <2> DEFINE found == By(s.kind, For(s, TokenResolve(s.form, w.holds), NamespacedTokenResolve(s.form, w.holds)),
                         RobotResolve(s.form, w.holds), TeamResolve(s.form, w.holds),
                         For(s, MembershipResolve(s.form, w.holds), NamespacedMembershipResolve(s.form, w.holds)),
                         RepoResolve(s.form, w.holds),
                         For(s, PermissionResolve(s.form, w.holds), NamespacedPermissionResolve(s.form, w.holds)))
  <2>1. s \in KindSpecs
    BY KindHandlers
  <2>2. s = [s EXCEPT !.form = s.form]
    BY <2>1 DEF KindSpecs, Either
  <2>3. found = {s.form}
    <3>1. CASE s.kind = "token"
      BY <2>1, <3>1 DEF Complete, By, For, NamespacedTokenResolve, TokenResolve
    <3>2. CASE s.kind = "membership"
      <4>1. s.form \in MembershipSpecs
        BY <2>1, <3>2 DEF KindSpecs, Either, NamespacedMembershipSpecs
      <4> QED BY <4>1, <3>2 DEF Complete, By, For, NamespacedMembershipResolve, MembershipResolve, MembershipSpecs
    <3>3. CASE s.kind = "permission"
      <4>1. s.form \in PermissionSpecs
        BY <2>1, <3>3 DEF KindSpecs, Either, NamespacedPermissionSpecs
      <4> QED BY <4>1, <3>3 DEF Complete, By, For, NamespacedPermissionResolve, PermissionResolve, PermissionSpecs
    <3>4. CASE s.kind \in {"robot", "team", "repository"}
      BY <3>4 DEF By, RobotResolve, TeamResolve, RepoResolve
    <3>5. s.kind \in {"token", "robot", "team", "membership", "repository", "permission"}
      BY <2>1 DEF KindSpecs, Either
    <3> QED BY <3>1, <3>2, <3>3, <3>4, <3>5
  <2>4. KindResolve(s, w) = {[s EXCEPT !.form = f] : f \in found}
    BY <1>3 DEF KindResolve
  <2> QED BY <2>2, <2>3, <2>4
<1> QED BY <1>2, <1>3

(* An edit that keeps the object meant clears no id that means it.         *)
LEMMA EditsComplete ==
  ASSUME EditsKeep, NEW s \in Specs, Complete(s), NEW t \in Edits(s)
  PROVE  t \in Specs /\ Complete(t)
<1>1. t \in Specs /\ t \in KindEdits(s) /\ s \in KindSpecs
  BY HandlersAssumption, KindHandlers
<1>2. Unset \in Names
  BY HandlersAssumption, KindConstants
<1>3. KindTargets(t, Unset) = KindTargets(s, Unset)
  BY <1>2 DEF EditsKeep, KeepingEdits
<1>4. PICK f : /\ t = [s EXCEPT !.form = f]
               /\ f \in By(s.kind, TokenEdits(s.form), RobotEdits(s.form),
                           TeamEdits(s.form), MembershipEdits(s.form),
                           RepoEdits(s.form), PermissionEdits(s.form))
  BY <1>1 DEF KindEdits
<1>5. t.kind = s.kind /\ t.form = f
  BY <1>1, <1>4 DEF KindSpecs, Either
<1>6. CASE s.kind = "token"
  <2>1. s.form \in TokenSpecs /\ f \in TokenEdits(s.form)
    BY <1>1, <1>4, <1>6 DEF KindSpecs, Either, NamespacedTokenSpecs, By
  <2>2. f.owner = s.form.owner /\ f.id = s.form.id
    BY <2>1 DEF TokenEdits, TokenSpecs
  <2> QED BY <1>1, <1>5, <1>6, <2>2 DEF Complete
<1>7. CASE s.kind = "membership"
  <2>1. s.form \in MembershipSpecs /\ f \in MembershipEdits(s.form)
    BY <1>1, <1>4, <1>7 DEF KindSpecs, Either, NamespacedMembershipSpecs, By
  <2>2. f.refs = s.form.refs /\ f.team = s.form.team
    BY <2>1 DEF MembershipEdits, MembershipSpecs
  <2>3. MembershipTargets(f, Unset) = MembershipTargets(s.form, Unset)
    BY <1>3, <1>5, <1>7 DEF KindTargets, By
  <2>4. ASSUME Unset \notin {s.form.robot, s.form.team} PROVE f.robot = s.form.robot
    <3>1. <<s.form.robot, s.form.team>> \in RobotIds \X TeamIds
      BY <2>1, <2>4 DEF MembershipSpecs
    <3>2. <<s.form.robot, s.form.team>> \in MembershipTargets(f, Unset)
      BY <2>3, <3>1 DEF MembershipTargets
    <3>3. <<s.form.robot, s.form.team>> = <<f.robot, f.team>>
      BY <3>2 DEF MembershipTargets
    <3> QED BY <3>3
  <2> QED BY <1>1, <1>5, <1>7, <2>2, <2>4 DEF Complete
<1>8. CASE s.kind = "permission"
  <2>1. s.form \in PermissionSpecs /\ f \in PermissionEdits(s.form)
    BY <1>1, <1>4, <1>8 DEF KindSpecs, Either, NamespacedPermissionSpecs, By
  <2>2. f.refs = s.form.refs /\ f.team = s.form.team
    BY <2>1 DEF PermissionEdits, PermissionSpecs
  <2>3. PermissionTargets(f, Unset) = PermissionTargets(s.form, Unset)
    BY <1>3, <1>5, <1>8 DEF KindTargets, By
  <2>4. ASSUME Unset \notin {s.form.repo, s.form.team} PROVE f.repo = s.form.repo
    <3>1. <<s.form.repo, s.form.team>> \in RepoNames \X TeamIds
      BY <2>1, <2>4 DEF PermissionSpecs
    <3>2. <<s.form.repo, s.form.team>> \in PermissionTargets(f, Unset)
      BY <2>3, <3>1 DEF PermissionTargets
    <3>3. <<s.form.repo, s.form.team>> = <<f.repo, f.team>>
      BY <3>2 DEF PermissionTargets
    <3> QED BY <3>3
  <2> QED BY <1>1, <1>5, <1>8, <2>2, <2>4 DEF Complete
<1>9. CASE s.kind \notin {"token", "membership", "permission"}
  BY <1>1, <1>5, <1>9 DEF Complete
<1> QED BY <1>6, <1>7, <1>8, <1>9

LEMMA CompleteStays ==
  ASSUME EditsKeep, \A st \in Starts : Complete(st.spec) PROVE NoReferences
<1> DEFINE P == {s \in Specs : Complete(s)}
<1>1. P \in SUBSET Settled
  BY CompleteSettled
<1>2. \A s \in P : Edits(s) \subseteq P
  BY EditsComplete
<1>3. \A st \in Starts : st.spec \in P
  BY HandlersAssumption
<1> QED BY <1>1, <1>2, <1>3 DEF NoReferences, Plain

(* Of such a resource everything that the provider made and was told of is *)
(* accounted for at any time, and gone before the resource is.             *)
THEOREM KindsAccounted ==
  ASSUME EditsKeep, NoRepositories, \A st \in Starts : Complete(st.spec)
  PROVE  Spec => [](Accounted /\ NoOrphan)
BY KindContract, CompleteStays, PlainNotOrphaned

(* Where the external name alone says what object is meant there is no     *)
(* edit that changes it.                                                   *)
LEMMA NameSaysAll ==
  ASSUME NEW s \in Specs, s.kind \in {"token", "robot", "team", "repository"}
  PROVE  Edits(s) \subseteq KeepingEdits(s)
<1>1. ASSUME NEW t \in KindEdits(s), NEW n \in Names PROVE KindTargets(t, n) = KindTargets(s, n)
  <2>1. PICK f : t = [s EXCEPT !.form = f]
    BY DEF KindEdits
  <2>2. s \in KindSpecs
    BY KindHandlers
  <2>3. t.kind = s.kind
    BY <2>1, <2>2 DEF KindSpecs, Either
  <2> QED
    BY <2>3 DEF KindTargets, By, TokenTargets, RobotTargets, TeamTargets, RepoTargets
<1> QED BY <1>1, KindHandlers DEF KeepingEdits

(* So whatever a user edits, a Robot, a Team or a Token whose owner is     *)
(* given by its id leaves nothing behind.                                  *)
THEOREM NamedNotOrphaned ==
  ASSUME \A s \in Specs : s.kind \in {"token", "robot", "team"},
         \A st \in Starts : Complete(st.spec)
  PROVE  Spec => []NoOrphan
<1>1. EditsKeep /\ NoRepositories
  BY NameSaysAll DEF EditsKeep, NoRepositories
<1>2. Accounted /\ NoOrphan => NoOrphan
  OBVIOUS
<1> QED BY <1>1, <1>2, KindsAccounted, PTL
===============================================================================
