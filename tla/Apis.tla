---------------------------------- MODULE Apis ----------------------------------
(***************************************************************************)
(* The kinds of the provider's API, by group, and what the packages under  *)
(* apis/ register with a scheme.  The namespaced kinds have groups of      *)
(* their own, so that no two kinds are the same.                           *)
(***************************************************************************)
Kind(group, kind) == [group |-> group, kind |-> kind]

ClusterRobotKind == Kind("iam.upbound.io", "Robot")
ClusterMembershipKind == Kind("iam.upbound.io", "RobotTeamMembership")
ClusterTeamKind == Kind("iam.upbound.io", "Team")
ClusterTokenKind == Kind("iam.upbound.io", "Token")
ClusterPermissionKind == Kind("repository.upbound.io", "Permission")
ClusterRepositoryKind == Kind("repository.upbound.io", "Repository")
ClusterConfigKind == Kind("upbound.io", "ProviderConfig")
ClusterUsageKind == Kind("upbound.io", "ProviderConfigUsage")

NamespacedRobotKind == Kind("iam.m.upbound.io", "Robot")
NamespacedMembershipKind == Kind("iam.m.upbound.io", "RobotTeamMembership")
NamespacedTeamKind == Kind("iam.m.upbound.io", "Team")
NamespacedTokenKind == Kind("iam.m.upbound.io", "Token")
NamespacedPermissionKind == Kind("repository.m.upbound.io", "Permission")
NamespacedRepositoryKind == Kind("repository.m.upbound.io", "Repository")
NamespacedConfigKind == Kind("m.upbound.io", "ProviderConfig")
ClusterProviderConfigKind == Kind("m.upbound.io", "ClusterProviderConfig")
NamespacedUsageKind == Kind("m.upbound.io", "ProviderConfigUsage")

-------------------------------------------------------------------------------
(* The SchemeBuilder of each package, and the AddToScheme of each API.     *)
ClusterIam ==
  {ClusterRobotKind, ClusterMembershipKind, ClusterTeamKind, ClusterTokenKind}
ClusterRepositories == {ClusterPermissionKind, ClusterRepositoryKind}
ClusterCore == {ClusterConfigKind, ClusterUsageKind}
ClusterApis == ClusterIam \cup ClusterRepositories \cup ClusterCore

NamespacedIam ==
  {NamespacedRobotKind, NamespacedMembershipKind, NamespacedTeamKind,
   NamespacedTokenKind}
NamespacedRepositories == {NamespacedPermissionKind, NamespacedRepositoryKind}
NamespacedCore ==
  {NamespacedConfigKind, ClusterProviderConfigKind, NamespacedUsageKind}

(* Mutant: the types of one package are not registered.                    *)
NamespacedApis_NoIam == NamespacedRepositories \cup NamespacedCore
NamespacedApis == NamespacedIam \cup NamespacedRepositories \cup NamespacedCore
===============================================================================
