----------------------------- MODULE StartupProofs -----------------------------
(***************************************************************************)
(* Proofs about Startup, for CRDs that come in any number and order, and a *)
(* process that ends any number of times.                                  *)
(***************************************************************************)
EXTENDS Startup, SequenceTheorems, TLAPS

(* What is set up was released by the gate, thus by a CRD that is there,   *)
(* and by a manager that runs with every kind registered; what waits is    *)
(* not set up.                                                             *)
IInv ==
  /\ phase # "start" => scheme = ClusterApis \cup NamespacedApis
  /\ open # {} => phase = "started"
  /\ waiting \cap started = {}
  /\ open \subseteq established
  /\ waiting \subseteq CallBacks
  /\ started \subseteq CallBacks
  /\ \A i \in started : Setup[i].gate \in open

-------------------------------------------------------------------------------
(* Every controller waits for the kind it reconciles.                      *)
ClusterRows == {ClusterConfig, ClusterRepository, ClusterPermission, ClusterRobot,
                ClusterMembership, ClusterTeam, ClusterToken}
NamespacedRows == {ClusterProviderConfig, NamespacedConfig, NamespacedRepository,
                   NamespacedPermission, NamespacedRobot, NamespacedMembership,
                   NamespacedTeam, NamespacedToken}
Rows == ClusterRows \cup NamespacedRows

LEMMA RowsGated == \A r \in Rows : r.gate = r.reconciles
<1>1. \A k : /\ Reconciles(k).gate = Reconciles(k).reconciles
             /\ \A u : Configures(k, u).gate = Configures(k, u).reconciles
  BY DEF Reconciles, Configures
<1>2. \A r \in ClusterRows : r.gate = r.reconciles
  BY <1>1, Zenon
     DEF ClusterRows, ClusterConfig, ClusterRepository, ClusterPermission,
         ClusterRobot, ClusterMembership, ClusterTeam, ClusterToken
<1>3. \A r \in NamespacedRows : r.gate = r.reconciles
  BY <1>1, Zenon
     DEF NamespacedRows, ClusterProviderConfig, NamespacedConfig,
         NamespacedRepository, NamespacedPermission, NamespacedRobot,
         NamespacedMembership, NamespacedTeam, NamespacedToken
<1> QED BY <1>2, <1>3 DEF Rows

LEMMA RowsKnown == \A r \in Rows : r.watches \subseteq ClusterApis \cup NamespacedApis
<1>1. \A k : /\ Reconciles(k).watches = {k}
             /\ \A u : Configures(k, u).watches = {k, u}
  BY DEF Reconciles, Configures
<1>2. \A r \in ClusterRows : r.watches \subseteq ClusterApis
  BY <1>1, Zenon
     DEF ClusterRows, ClusterConfig, ClusterRepository, ClusterPermission,
         ClusterRobot, ClusterMembership, ClusterTeam, ClusterToken, ClusterApis,
         ClusterIam, ClusterRepositories, ClusterCore
<1>3. \A r \in NamespacedRows : r.watches \subseteq NamespacedApis
  <2>1. /\ ClusterProviderConfig.watches \subseteq NamespacedCore
        /\ NamespacedConfig.watches \subseteq NamespacedCore
    BY <1>1 DEF ClusterProviderConfig, NamespacedConfig, NamespacedCore
  <2>2. /\ NamespacedRepository.watches \subseteq NamespacedRepositories
        /\ NamespacedPermission.watches \subseteq NamespacedRepositories
    BY <1>1 DEF NamespacedRepository, NamespacedPermission, NamespacedRepositories
  <2>3. /\ NamespacedRobot.watches \subseteq NamespacedIam
        /\ NamespacedMembership.watches \subseteq NamespacedIam
        /\ NamespacedTeam.watches \subseteq NamespacedIam
        /\ NamespacedToken.watches \subseteq NamespacedIam
    BY <1>1 DEF NamespacedRobot, NamespacedMembership, NamespacedTeam,
                NamespacedToken, NamespacedIam
  <2> QED BY <2>1, <2>2, <2>3 DEF NamespacedRows, NamespacedApis
<1> QED BY <1>2, <1>3 DEF Rows

LEMMA SetupRows ==
  /\ ClusterSetup \in Seq(Rows) /\ NamespacedSetup \in Seq(Rows)
  /\ \A i \in CallBacks : Setup[i] \in Rows
<1>1. ClusterSetup \in Seq(Rows)
  BY DEF ClusterSetup, Rows, ClusterRows
<1>2. NamespacedSetup \in Seq(Rows)
  BY DEF NamespacedSetup, Rows, NamespacedRows
<1>3. Setup \in Seq(Rows)
  BY <1>1, <1>2, ConcatProperties DEF Setup
<1> QED BY <1>1, <1>2, <1>3, ElementOfSeq DEF CallBacks

LEMMA GatedOnItsOwn == \A i \in CallBacks : Setup[i].gate = Setup[i].reconciles
BY SetupRows, RowsGated

LEMMA EveryKindKnown ==
  \A i \in CallBacks : Setup[i].watches \subseteq ClusterApis \cup NamespacedApis
BY SetupRows, RowsKnown

(* No kind is reconciled by two of them.                                   *)
LEMMA KindsApart ==
  \A i, j \in CallBacks : Setup[i].reconciles = Setup[j].reconciles => i = j
<1> DEFINE cluster(i) == ClusterSetup[i].reconciles
           namespaced(i) == NamespacedSetup[i].reconciles
<1>1. \A k : /\ Reconciles(k).reconciles = k
             /\ \A u : Configures(k, u).reconciles = k
  BY DEF Reconciles, Configures
<1>2. /\ Len(ClusterSetup) = 7
      /\ cluster(1) = ClusterConfigKind
      /\ cluster(2) = ClusterRepositoryKind
      /\ cluster(3) = ClusterPermissionKind
      /\ cluster(4) = ClusterRobotKind
      /\ cluster(5) = ClusterMembershipKind
      /\ cluster(6) = ClusterTeamKind
      /\ cluster(7) = ClusterTokenKind
  BY <1>1 DEF ClusterSetup, ClusterConfig, ClusterRepository, ClusterPermission,
              ClusterRobot, ClusterMembership, ClusterTeam, ClusterToken
<1>3. /\ Len(NamespacedSetup) = 8
      /\ namespaced(1) = ClusterProviderConfigKind
      /\ namespaced(2) = NamespacedConfigKind
      /\ namespaced(3) = NamespacedRepositoryKind
      /\ namespaced(4) = NamespacedPermissionKind
      /\ namespaced(5) = NamespacedRobotKind
      /\ namespaced(6) = NamespacedMembershipKind
      /\ namespaced(7) = NamespacedTeamKind
      /\ namespaced(8) = NamespacedTokenKind
  BY <1>1 DEF NamespacedSetup, ClusterProviderConfig, NamespacedConfig,
              NamespacedRepository, NamespacedPermission, NamespacedRobot,
              NamespacedMembership, NamespacedTeam, NamespacedToken
<1>4. /\ Len(Setup) = 15
      /\ \A i \in 1 .. 7 : Setup[i].reconciles = cluster(i)
      /\ \A i \in 8 .. 15 : Setup[i].reconciles = namespaced(i - 7)
  <2>1. /\ ClusterSetup \in Seq(Rows) /\ Len(ClusterSetup) = 7
        /\ NamespacedSetup \in Seq(Rows) /\ Len(NamespacedSetup) = 8
    BY <1>2, <1>3, SetupRows
  <2> HIDE DEF cluster, namespaced
  <2>2. /\ Len(Setup) = Len(ClusterSetup) + Len(NamespacedSetup)
        /\ \A i \in 1 .. Len(ClusterSetup) + Len(NamespacedSetup) :
             Setup[i] = IF i <= Len(ClusterSetup)
                        THEN ClusterSetup[i]
                        ELSE NamespacedSetup[i - Len(ClusterSetup)]
    BY <2>1, ConcatProperties, Zenon DEF Setup
  <2>3. \A i \in 1 .. 15 :
          Setup[i] = IF i <= 7 THEN ClusterSetup[i] ELSE NamespacedSetup[i - 7]
    BY <2>1, <2>2
  <2>4. \A i \in 1 .. 7 : Setup[i].reconciles = cluster(i)
    BY <2>3 DEF cluster
  <2>5. \A i \in 8 .. 15 : Setup[i].reconciles = namespaced(i - 7)
    BY <2>3 DEF namespaced
  <2> QED BY <2>1, <2>2, <2>4, <2>5
<1> HIDE DEF cluster, namespaced
<1>5. \A i, j \in 1 .. 7 : cluster(i) = cluster(j) => i = j
  BY <1>2 DEF Kind, ClusterConfigKind, ClusterRepositoryKind, ClusterPermissionKind,
              ClusterRobotKind, ClusterMembershipKind, ClusterTeamKind,
              ClusterTokenKind
<1>6. \A i, j \in 1 .. 8 : namespaced(i) = namespaced(j) => i = j
  BY <1>3 DEF Kind, ClusterProviderConfigKind, NamespacedConfigKind,
              NamespacedRepositoryKind, NamespacedPermissionKind,
              NamespacedRobotKind, NamespacedMembershipKind, NamespacedTeamKind,
              NamespacedTokenKind
<1>7. \A i \in 1 .. 7 :
        cluster(i).group \in {"upbound.io", "repository.upbound.io", "iam.upbound.io"}
  BY <1>2 DEF Kind, ClusterConfigKind, ClusterRepositoryKind, ClusterPermissionKind,
              ClusterRobotKind, ClusterMembershipKind, ClusterTeamKind,
              ClusterTokenKind
<1>8. \A i \in 1 .. 8 :
        namespaced(i).group
          \in {"m.upbound.io", "repository.m.upbound.io", "iam.m.upbound.io"}
  BY <1>3 DEF Kind, ClusterProviderConfigKind, NamespacedConfigKind,
              NamespacedRepositoryKind, NamespacedPermissionKind,
              NamespacedRobotKind, NamespacedMembershipKind, NamespacedTeamKind,
              NamespacedTokenKind
<1>9. \A i \in 1 .. 7, j \in 1 .. 8 : cluster(i) # namespaced(j)
  BY <1>7, <1>8
<1> QED BY <1>4, <1>5, <1>6, <1>9 DEF CallBacks

-------------------------------------------------------------------------------
LEMMA Initially == Init => IInv
BY DEF Init, IInv

(* A process that ends leaves nothing set up.                              *)
LEMMA ExitClears == IInv /\ Exit => IInv'
BY DEF IInv, Exit

LEMMA Inductive == IInv /\ [Next]_vars => IInv'
<1> SUFFICES ASSUME IInv, [Next]_vars PROVE IInv'
  OBVIOUS
<1> USE DEF IInv
<1>1. CASE AddToScheme
  BY <1>1 DEF AddToScheme
<1>2. CASE Register
  BY <1>2 DEF Register
<1>3. CASE StartManager
  BY <1>3 DEF StartManager
<1>4. ASSUME NEW k \in established, Open(k) PROVE IInv'
  BY <1>4 DEF Open
<1>5. ASSUME NEW i \in CallBacks, CallBack(i) PROVE IInv'
  BY <1>5 DEF CallBack, Released, NameTaken
<1>6. ASSUME NEW i \in CallBacks, CachesSync(i) PROVE IInv'
  BY <1>6 DEF CachesSync
<1>7. CASE Fatal
  BY <1>7, ExitClears DEF Fatal
<1>8. ASSUME NEW i \in CallBacks, Panic(i) \/ CacheSyncTimeout(i) PROVE IInv'
  BY <1>8, ExitClears DEF Panic, CacheSyncTimeout
<1>9. ASSUME NEW k \in coming, Install(k) PROVE IInv'
  BY <1>9 DEF Install
<1>10. CASE UNCHANGED vars
  BY <1>10 DEF vars
<1> QED
  BY <1>1, <1>2, <1>3, <1>4, <1>5, <1>6, <1>7, <1>8, <1>9, <1>10 DEF Next, Progress

LEMMA Invariance == Spec => []IInv
BY Initially, Inductive, PTL DEF Spec

(* However CRDs come and processes end, a controller is set up only once   *)
(* the kind that it reconciles exists.                                     *)
THEOREM KindsOwned == Spec => []OwnKind
<1>1. IInv => OwnKind
  BY GatedOnItsOwn DEF IInv, OwnKind
<1> QED BY <1>1, Invariance, PTL

(* However CRDs come and processes end, a call-back that is released finds *)
(* its kinds in the scheme and its name free: no panic of a call-back is   *)
(* the provider's own doing.                                               *)
THEOREM CallBacksSucceed == Spec => []SetUpSucceeds
<1>1. IInv => SetUpSucceeds
  <2> SUFFICES ASSUME IInv, NEW i \in CallBacks, Released(i)
               PROVE  Known(i) /\ ~NameTaken(i)
    BY DEF SetUpSucceeds
  <2>1. scheme = ClusterApis \cup NamespacedApis
    BY DEF IInv, Released
  <2>2. i \notin started /\ started \subseteq CallBacks
    BY DEF IInv, Released
  <2> QED BY <2>1, <2>2, EveryKindKnown, KindsApart DEF Known, NameTaken
<1> QED BY <1>1, Invariance, PTL
===============================================================================
