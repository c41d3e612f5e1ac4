-------------------------------- MODULE Startup --------------------------------
(***************************************************************************)
(* Start-up: main builds the scheme, upbound.Setup registers a call-back   *)
(* for every controller with the gate, and each controller is set up once  *)
(* the CRD it is gated on is established, whatever order the CRDs come in. *)
(* An error in a call-back panics, and a controller whose caches do not    *)
(* synchronize stops the manager: the process ends and is started again.   *)
(*                                                                         *)
(* The gate, the controller that opens it and the manager are crossplane-  *)
(* runtime's and controller-runtime's.  CRDs are not removed.              *)
(***************************************************************************)
EXTENDS Apis, Naturals, Sequences

CONSTANTS Starts,     \* [there, coming]: the CRDs installed and to come
          MaxTrouble  \* bound on failures

(* What is set up: the kind gated on, the kind reconciled, by whose name   *)
(* the controller goes, and the kinds it watches.                          *)
Reconciles(k) == [gate |-> k, reconciles |-> k, watches |-> {k}]
Configures(k, usage) == [gate |-> k, reconciles |-> k, watches |-> {k, usage}]

ClusterConfig == Configures(ClusterConfigKind, ClusterUsageKind)
ClusterRepository == Reconciles(ClusterRepositoryKind)
ClusterPermission == Reconciles(ClusterPermissionKind)
ClusterRobot == Reconciles(ClusterRobotKind)
ClusterMembership == Reconciles(ClusterMembershipKind)
ClusterTeam == Reconciles(ClusterTeamKind)

(* Mutant: gated on the kind of the other API.                             *)
ClusterToken_OtherGate ==
  [Reconciles(ClusterTokenKind) EXCEPT !.gate = NamespacedTokenKind]
ClusterToken == Reconciles(ClusterTokenKind)

ClusterProviderConfig == Configures(ClusterProviderConfigKind, NamespacedUsageKind)

(* Mutant: named after, and reconciling, the other kind of config.         *)
NamespacedConfig_OtherName ==
  [Configures(NamespacedConfigKind, NamespacedUsageKind)
     EXCEPT !.reconciles = ClusterProviderConfigKind]
NamespacedConfig == Configures(NamespacedConfigKind, NamespacedUsageKind)
NamespacedRepository == Reconciles(NamespacedRepositoryKind)
NamespacedPermission == Reconciles(NamespacedPermissionKind)
NamespacedRobot == Reconciles(NamespacedRobotKind)
NamespacedMembership == Reconciles(NamespacedMembershipKind)
NamespacedTeam == Reconciles(NamespacedTeamKind)
NamespacedToken == Reconciles(NamespacedTokenKind)

ClusterSetup ==
  <<ClusterConfig, ClusterRepository, ClusterPermission, ClusterRobot,
    ClusterMembership, ClusterTeam, ClusterToken>>

NamespacedSetup ==
  <<ClusterProviderConfig, NamespacedConfig, NamespacedRepository,
    NamespacedPermission, NamespacedRobot, NamespacedMembership, NamespacedTeam,
    NamespacedToken>>

Setup == ClusterSetup \o NamespacedSetup
CallBacks == 1 .. Len(Setup)

(* Every kind but the records of use is there to be reconciled.  The CRDs  *)
(* of these come with the provider's package, sooner or later.             *)
Usages == {ClusterUsageKind, NamespacedUsageKind}
Served == (ClusterApis \cup NamespacedIam \cup NamespacedRepositories
             \cup NamespacedCore) \ Usages

ASSUME StartAssumption ==
  /\ MaxTrouble \in Nat
  /\ \A s \in Starts : s.there \cup s.coming \subseteq Served \cup Usages

VARIABLES phase,       \* how far main has come
          scheme,      \* kinds that the manager's scheme knows
          coming,      \* CRDs that are still to be installed
          established, \* CRDs in the API server
          open,        \* conditions of the gate that are true
          waiting,     \* call-backs that were not released
          started,     \* controllers that are set up
          running,     \* those whose caches are synchronized
          trouble      \* failures left

vars == <<phase, scheme, coming, established, open, waiting, started, running, trouble>>

Init ==
  /\ \E s \in Starts : established = s.there /\ coming = s.coming
  /\ phase = "start" /\ scheme = {}
  /\ open = {} /\ waiting = {} /\ started = {} /\ running = {}
  /\ trouble = MaxTrouble

Disturb == trouble > 0 /\ trouble' = trouble - 1

-------------------------------------------------------------------------------
(* main, each step of which ends the process if it fails.                  *)

AddToScheme ==
  /\ phase = "start"
  /\ phase' = "scheme"
  /\ scheme' = ClusterApis \cup NamespacedApis
  /\ UNCHANGED <<coming, established, open, waiting, started, running, trouble>>

(* upbound.Setup: the cluster-scoped kinds, then the namespaced ones.      *)
Register ==
  /\ phase = "scheme"
  /\ phase' = "registered"
  /\ waiting' = CallBacks
  /\ UNCHANGED <<scheme, coming, established, open, started, running, trouble>>

StartManager ==
  /\ phase = "registered"
  /\ phase' = "started"
  /\ UNCHANGED <<scheme, coming, established, open, waiting, started, running, trouble>>

(* The process ends, and the next one starts with nothing.                 *)
Exit ==
  /\ phase' = "start" /\ scheme' = {}
  /\ open' = {} /\ waiting' = {} /\ started' = {} /\ running' = {}
  /\ UNCHANGED <<coming, established>>

Fatal == Exit /\ Disturb

-------------------------------------------------------------------------------
(* The gate and the controllers.                                           *)

(* The controller of CRDs finds one established.                           *)
Open(k) ==
  /\ phase = "started"
  /\ k \in established \ open
  /\ open' = open \cup {k}
  /\ UNCHANGED <<phase, scheme, coming, established, waiting, started, running, trouble>>

Released(i) == i \in waiting /\ Setup[i].gate \in open

(* controller-runtime takes a name once in a process.                      *)
NameTaken(i) == \E j \in started : Setup[j].reconciles = Setup[i].reconciles

(* A controller, and what it watches, must be of types that are known.     *)
Known(i) == Setup[i].watches \subseteq scheme

CallBack(i) ==
  /\ Released(i) /\ Known(i) /\ ~NameTaken(i)
  /\ waiting' = waiting \ {i}
  /\ started' = started \cup {i}
  /\ UNCHANGED <<phase, scheme, coming, established, open, running, trouble>>

Panic(i) ==
  /\ Released(i)
  /\ Exit
  /\ IF Known(i) /\ ~NameTaken(i) THEN Disturb ELSE UNCHANGED trouble

CachesSync(i) ==
  /\ i \in started \ running
  /\ Setup[i].watches \subseteq established
  /\ running' = running \cup {i}
  /\ UNCHANGED <<phase, scheme, coming, established, open, waiting, started, trouble>>

(* A kind that is watched is not served until the wait for the caches ends.*)
CacheSyncTimeout(i) ==
  /\ i \in started \ running
  /\ ~(Setup[i].watches \subseteq established)
  /\ Exit
  /\ UNCHANGED trouble

(* The package manager, or an activation policy, installs a CRD.           *)
Install(k) ==
  /\ k \in coming
  /\ coming' = coming \ {k}
  /\ established' = established \cup {k}
  /\ UNCHANGED <<phase, scheme, open, waiting, started, running, trouble>>

-------------------------------------------------------------------------------
Progress == \/ AddToScheme
            \/ Register
            \/ StartManager
            \/ \E k \in established : Open(k)
            \/ \E i \in CallBacks : CallBack(i) \/ CachesSync(i)

Next == \/ Progress
        \/ Fatal
        \/ \E i \in CallBacks : Panic(i) \/ CacheSyncTimeout(i)
        \/ \E k \in coming : Install(k)

Spec == Init /\ [][Next]_vars

(* The process runs on, and the CRDs that are to come do come.             *)
FairSpec == Spec /\ WF_vars(Progress) /\ WF_vars(\E k \in coming : Install(k))

-------------------------------------------------------------------------------
(* Properties.                                                             *)

(* A controller that is set up reconciles a kind that exists: each is      *)
(* gated on its own kind, and a watch on one that is missing never syncs.  *)
OwnKind == \A i \in started : Setup[i].reconciles \in established

(* A call-back that the gate releases finds its kinds registered and its   *)
(* name free, in this process and in every later one: when one panics, it  *)
(* is not the provider's own doing, and need not happen again.             *)
SetUpSucceeds == \A i \in CallBacks : Released(i) => Known(i) /\ ~NameTaken(i)

(* Whatever the order in which CRDs appear, and however often the process  *)
(* ends on the way, there comes to be a controller for every kind that is  *)
(* served, and it stays.                                                   *)
AllServed == <>[](\A k \in established \cap Served :
                    \E i \in running : Setup[i].reconciles = k)
===============================================================================
