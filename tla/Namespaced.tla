------------------------------ MODULE Namespaced ------------------------------
(***************************************************************************)
(* The specs and handlers of the namespaced kinds: apis/namespaced and     *)
(* internal/controller/namespaced.  Each is written out a second time for  *)
(* the namespaced API, and is what that of the cluster-scoped kind is.     *)
(***************************************************************************)
CONSTANTS TokenIds, Labels, OwnerTypes, OwnerIds, RobotIds, TeamIds, RepoNames,
          ResourceName, Levels, Unset, NotUuid, NoTeam

INSTANCE Token
INSTANCE Robot
INSTANCE Team
INSTANCE Membership
INSTANCE Repository
INSTANCE Permission

NamespacedTokenSpecs == TokenSpecs
NamespacedRobotSpecs == RobotSpecs
NamespacedTeamSpecs == TeamSpecs
NamespacedMembershipSpecs == MembershipSpecs
NamespacedRepoSpecs == RepoSpecs
NamespacedPermissionSpecs == PermissionSpecs

NamespacedTokenResolve(s, w) == TokenResolve(s, w)
NamespacedTokenObserve(s, n, w, reply) == TokenObserve(s, n, w, reply)
NamespacedTokenCreate(s, n, w, reply) == TokenCreate(s, n, w, reply)
NamespacedTokenUpdate(s, n, w, reply) == TokenUpdate(s, n, w, reply)
NamespacedTokenDelete(s, n, w, reply) == TokenDelete(s, n, w, reply)

NamespacedRobotObserve(s, n, w, reply) == RobotObserve(s, n, w, reply)
NamespacedRobotCreate(s, n, w, reply) == RobotCreate(s, n, w, reply)
NamespacedRobotUpdate(s, n, w, reply) == RobotUpdate(s, n, w, reply)
NamespacedRobotDelete(s, n, w, reply) == RobotDelete(s, n, w, reply)

NamespacedTeamObserve(s, n, w, reply) == TeamObserve(s, n, w, reply)
NamespacedTeamCreate(s, n, w, reply) == TeamCreate(s, n, w, reply)
NamespacedTeamUpdate(s, n, w, reply) == TeamUpdate(s, n, w, reply)
NamespacedTeamDelete(s, n, w, reply) == TeamDelete(s, n, w, reply)

NamespacedMembershipResolve(s, w) == MembershipResolve(s, w)
NamespacedMembershipObserve(s, n, w, reply) == MembershipObserve(s, n, w, reply)
NamespacedMembershipCreate(s, n, w, reply) == MembershipCreate(s, n, w, reply)
NamespacedMembershipUpdate(s, n, w, reply) == MembershipUpdate(s, n, w, reply)
NamespacedMembershipDelete(s, n, w, reply) == MembershipDelete(s, n, w, reply)

NamespacedRepoDefault(s, n) == RepoDefault(s, n)
NamespacedRepoObserve(s, n, w, reply) == RepoObserve(s, n, w, reply)
NamespacedRepoCreate(s, n, w, reply) == RepoCreate(s, n, w, reply)
NamespacedRepoUpdate(s, n, w, reply) == RepoUpdate(s, n, w, reply)
NamespacedRepoDelete(s, n, w, reply) == RepoDelete(s, n, w, reply)

NamespacedPermissionResolve(s, w) == PermissionResolve(s, w)
NamespacedPermissionObserve(s, n, w, reply) == PermissionObserve(s, n, w, reply)
NamespacedPermissionCreate(s, n, w, reply) == PermissionCreate(s, n, w, reply)
NamespacedPermissionUpdate(s, n, w, reply) == PermissionUpdate(s, n, w, reply)
NamespacedPermissionDelete(s, n, w, reply) == PermissionDelete(s, n, w, reply)
===============================================================================
