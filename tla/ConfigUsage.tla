------------------------------ MODULE ConfigUsage ------------------------------
(***************************************************************************)
(* Managed resources and the provider configs they connect with: Connect   *)
(* of every controller records the use, the config's own reconciler (of    *)
(* crossplane-runtime, set up in internal/controller/*/config) holds on to *)
(* a config that is deleted while it sees a use recorded.                  *)
(*                                                                         *)
(* The reconciler lists the records in an informer cache that lags.  A     *)
(* managed resource is reconciled by one goroutine at a time; what follows *)
(* Connect is Managed's and here one step: a resource being deleted goes.  *)
(***************************************************************************)
EXTENDS Naturals

CONSTANTS MRs,        \* managed resources, of one namespace
          Configs,    \* [kind, name] of provider configs
          Junk,       \* [kind, name] of references that mean none
          Unused,     \* no use is recorded
          Idle,       \* no reconcile connects
          Starts,     \* the states resources and configs may start in
          MaxTrouble  \* bound on failures, re-pointing and re-creation

(* The cluster-scoped ProviderConfig of the legacy API; those of the       *)
(* namespaced one.                                                         *)
LegacyKinds == {"LegacyProviderConfig"}
ModernKinds == {"ProviderConfig", "ClusterProviderConfig"}

Scopes == {"cluster", "namespaced"}
Kinds == {"repository", "permission", "robot", "membership", "team", "token"}
Refs == Configs \cup Junk
Nil == "nil"

(* The kind is part of a namespaced resource's reference only.             *)
RefsOf(scope) ==
  IF scope = "cluster" THEN {c \in Configs : c.kind \in LegacyKinds}
                       ELSE {r \in Refs : r.kind \notin LegacyKinds}

ASSUME ConfigConstants ==
  /\ \A c \in Configs : c.kind \in LegacyKinds \cup ModernKinds
  /\ \A r \in Junk : r.kind \notin LegacyKinds \cup ModernKinds
  /\ {Unused, Idle} \cap Refs = {}
  /\ MaxTrouble \in Nat
  /\ Starts \subseteq [scope : Scopes, kind : Kinds, refs : [MRs -> Refs],
                       mrs : SUBSET MRs, there : SUBSET Configs]

VARIABLES of,       \* the scope and kind of the resources
          mr,       \* the resources: there, being deleted, with finalizer
          ref,      \* spec.providerConfigRef
          going,    \* the reference that each resource connects by
          usage,    \* the ProviderConfigUsage of each resource
          view,     \* the copy of it the config reconcilers list
          config,   \* the provider configs: there, being deleted
          held,     \* configs with the reconciler's finalizer
          work,     \* what the reconcile of each config is about to do
          using,    \* resources that connected since their ref was set
          secured,  \* resources using a config when its deletion began
          trouble   \* disturbances left

vars == <<of, mr, ref, going, usage, view, config, held, work, using, secured,
          trouble>>

Init ==
  \E s \in Starts :
    /\ of = [scope |-> s.scope, kind |-> s.kind]
    /\ ref = s.refs
    /\ config = [c \in Configs |-> IF c \in s.there THEN "live" ELSE "absent"]
    /\ mr = [m \in MRs |-> IF m \in s.mrs THEN "new" ELSE "gone"]
    /\ going = [m \in MRs |-> Idle]
    /\ usage = [m \in MRs |-> Unused]
    /\ view = [m \in MRs |-> Unused]
    /\ held = {}
    /\ work = [c \in Configs |-> "idle"]
    /\ using = {}
    /\ secured = {}
    /\ trouble = MaxTrouble

Live(m) == mr[m] # "gone"
Exists(c) == config[c] # "absent"
Disturb == trouble > 0 /\ trouble' = trouble - 1

-------------------------------------------------------------------------------
(* Connect.                                                                *)

(* ProviderConfigUsageTracker.Track, after which the record is that of the *)
(* reference the reconcile goes by.  One of no reference fails.            *)
Track(m) ==
  /\ going[m] = Idle
  /\ Live(m)
  /\ ref[m].kind # Nil
  /\ going' = [going EXCEPT ![m] = ref[m]]
  /\ usage' = [usage EXCEPT ![m] = ref[m]]
  /\ UNCHANGED <<of, mr, ref, view, config, held, work, using, secured, trouble>>

(* Mutant: the use is not recorded.                                        *)
Track_Nothing(m) ==
  /\ going[m] = Idle
  /\ Live(m)
  /\ going' = [going EXCEPT ![m] = ref[m]]
  /\ UNCHANGED <<of, mr, ref, usage, view, config, held, work, using, secured,
                 trouble>>

(* The config of one of these kinds is read, and the reconcile goes on     *)
(* with its credentials; or it ends.                                       *)
Proceed(m, kinds) ==
  /\ going[m] # Idle
  /\ going' = [going EXCEPT ![m] = Idle]
  /\ IF going[m] \in Configs /\ going[m].kind \in kinds /\ Exists(going[m]) /\ Live(m)
       THEN /\ mr' = [mr EXCEPT ![m] = IF @ = "deleting" THEN "gone"
                                       ELSE "managed"]
            /\ using' = IF going[m] = ref[m] THEN using \cup {m} ELSE using
            /\ secured' = IF mr[m] = "deleting" THEN secured \ {m} ELSE secured
       ELSE UNCHANGED <<mr, using, secured>>
  /\ UNCHANGED <<of, ref, usage, view, config, held, work, trouble>>

(* cluster/config: the legacy ProviderConfig of that name.                 *)
LegacySpec(m) == Proceed(m, LegacyKinds)

(* Mutant: the switch has no case for ClusterProviderConfig.               *)
ModernSpec_NamespacedOnly(m) == Track(m) \/ Proceed(m, {"ProviderConfig"})

(* namespaced/config: tracks the use, then instantiates the kind of the    *)
(* reference, refuses what is no provider config, and reads the object.    *)
ModernSpec(m) == Track(m) \/ Proceed(m, ModernKinds)

ClusterRepositoryConnect(m) == Track(m) \/ LegacySpec(m)
ClusterPermissionConnect(m) == Track(m) \/ LegacySpec(m)
ClusterRobotConnect(m) == Track(m) \/ LegacySpec(m)
ClusterMembershipConnect(m) == Track(m) \/ LegacySpec(m)
ClusterTeamConnect(m) == Track(m) \/ LegacySpec(m)
ClusterTokenConnect_Untracked(m) == Track_Nothing(m) \/ LegacySpec(m)
ClusterTokenConnect(m) == Track(m) \/ LegacySpec(m)

NamespacedRepositoryConnect(m) == ModernSpec(m)
NamespacedPermissionConnect(m) == ModernSpec(m)
NamespacedRobotConnect(m) == ModernSpec(m)
NamespacedMembershipConnect(m) == ModernSpec(m)
NamespacedTeamConnect(m) == ModernSpec(m)
NamespacedTokenConnect(m) == ModernSpec(m)

ClusterConnect(m) ==
  \/ of.kind = "repository" /\ ClusterRepositoryConnect(m)
  \/ of.kind = "permission" /\ ClusterPermissionConnect(m)
  \/ of.kind = "robot"      /\ ClusterRobotConnect(m)
  \/ of.kind = "membership" /\ ClusterMembershipConnect(m)
  \/ of.kind = "team"       /\ ClusterTeamConnect(m)
  \/ of.kind = "token"      /\ ClusterTokenConnect(m)

NamespacedConnect(m) ==
  \/ of.kind = "repository" /\ NamespacedRepositoryConnect(m)
  \/ of.kind = "permission" /\ NamespacedPermissionConnect(m)
  \/ of.kind = "robot"      /\ NamespacedRobotConnect(m)
  \/ of.kind = "membership" /\ NamespacedMembershipConnect(m)
  \/ of.kind = "team"       /\ NamespacedTeamConnect(m)
  \/ of.kind = "token"      /\ NamespacedTokenConnect(m)

Connect(m) == \/ of.scope = "cluster" /\ ClusterConnect(m)
              \/ of.scope = "namespaced" /\ NamespacedConnect(m)

-------------------------------------------------------------------------------
(* The reconcilers of provider configs.                                    *)

(* The informer of usages catches up.                                      *)
Sync(m) ==
  /\ view[m] # usage[m]
  /\ view' = [view EXCEPT ![m] = usage[m]]
  /\ UNCHANGED <<of, mr, ref, going, usage, config, held, work, using, secured,
                 trouble>>

(* The API group of the usages that the controller of a kind is set up     *)
(* with.  Mutant: the legacy one throughout.                               *)
UsagesOf_Legacy(kind) == "cluster"
UsagesOf(kind) == IF kind \in LegacyKinds THEN "cluster" ELSE "namespaced"

Users(c) == {m \in MRs : view[m] = c /\ of.scope = UsagesOf(c.kind)}

(* It lists the uses, and turns to the finalizer where there is reason to. *)
Look(c) ==
  /\ work[c] = "idle"
  /\ \/ config[c] = "live" /\ c \notin held /\ work' = [work EXCEPT ![c] = "add"]
     \/ /\ config[c] = "deleting" /\ Users(c) = {}
        /\ work' = [work EXCEPT ![c] = "remove"]
  /\ UNCHANGED <<of, mr, ref, going, usage, view, config, held, using, secured,
                 trouble>>

(* An update that conflicts if the config was deleted in between.          *)
AddFinalizer(c) ==
  /\ work[c] = "add"
  /\ work' = [work EXCEPT ![c] = "idle"]
  /\ held' = IF config[c] = "live" THEN held \cup {c} ELSE held
  /\ UNCHANGED <<of, mr, ref, going, usage, view, config, using, secured, trouble>>

RemoveFinalizer(c) ==
  /\ work[c] = "remove"
  /\ work' = [work EXCEPT ![c] = "idle"]
  /\ held' = held \ {c}
  /\ config' = [config EXCEPT ![c] = "absent"]
  /\ UNCHANGED <<of, mr, ref, going, usage, view, using, secured, trouble>>

Manage(c) == Look(c) \/ AddFinalizer(c) \/ RemoveFinalizer(c)

-------------------------------------------------------------------------------
(* Around them: the garbage collector, failures and the user.              *)

(* The usage is owned by its resource.                                     *)
Collect(m) ==
  /\ ~Live(m)
  /\ usage[m] # Unused
  /\ usage' = [usage EXCEPT ![m] = Unused]
  /\ UNCHANGED <<of, mr, ref, going, view, config, held, work, using, secured,
                 trouble>>

(* A call fails or the process restarts: what was under way is given up.   *)
Fail ==
  /\ Disturb
  /\ going' = [m \in MRs |-> Idle]
  /\ work' = [c \in Configs |-> "idle"]
  /\ UNCHANGED <<of, mr, ref, usage, view, config, held, using, secured>>

(* A resource that never connected has no finalizer.                       *)
DeleteResource(m) ==
  /\ mr[m] \in {"new", "managed"}
  /\ mr' = [mr EXCEPT ![m] = IF @ = "new" THEN "gone" ELSE "deleting"]
  /\ UNCHANGED <<of, ref, going, usage, view, config, held, work, using,
                 secured, trouble>>

(* The resources whose use of the config the reconciler can see by then.   *)
DeleteConfig(c) ==
  /\ config[c] = "live"
  /\ config' = [config EXCEPT ![c] = IF c \in held THEN "deleting" ELSE "absent"]
  /\ secured' = IF c \in held
                  THEN secured \cup {m \in using : /\ Live(m) /\ ref[m] = c
                                                   /\ view[m] = usage[m]}
                  ELSE secured
  /\ UNCHANGED <<of, mr, ref, going, usage, view, held, work, using, trouble>>

Repoint(m) ==
  /\ Disturb
  /\ Live(m)
  /\ \E r \in RefsOf(of.scope) \ {ref[m]} : ref' = [ref EXCEPT ![m] = r]
  /\ using' = using \ {m}
  /\ secured' = secured \ {m}
  /\ UNCHANGED <<of, mr, going, usage, view, config, held, work>>

CreateConfig(c) ==
  /\ Disturb
  /\ c \in RefsOf(of.scope) /\ ~Exists(c)
  /\ config' = [config EXCEPT ![c] = "live"]
  /\ UNCHANGED <<of, mr, ref, going, usage, view, held, work, using, secured>>

-------------------------------------------------------------------------------
Next == \/ \E m \in MRs : \/ Connect(m) \/ Sync(m) \/ Collect(m)
                          \/ DeleteResource(m) \/ Repoint(m)
        \/ \E c \in Configs : Manage(c) \/ DeleteConfig(c) \/ CreateConfig(c)
        \/ Fail

Spec == Init /\ [][Next]_vars

(* Reconciles are retried and polled, informers catch up, the garbage      *)
(* collector gets to everything.                                           *)
Fairness ==
  /\ \A m \in MRs : WF_vars(Connect(m)) /\ WF_vars(Sync(m)) /\ WF_vars(Collect(m))
  /\ \A c \in Configs : WF_vars(Manage(c))

FairSpec == Spec /\ Fairness

-------------------------------------------------------------------------------
(* Properties.                                                             *)

(* Every variable stays within its domain, and the use of a config is      *)
(* recorded before the config is read.                                     *)
TypeOK ==
  /\ of \in [scope : Scopes, kind : Kinds]
  /\ mr \in [MRs -> {"new", "managed", "deleting", "gone"}]
  /\ ref \in [MRs -> Refs]
  /\ going \in [MRs -> Refs \cup {Idle}]
  /\ usage \in [MRs -> Refs \cup {Unused}]
  /\ view \in [MRs -> Refs \cup {Unused}]
  /\ config \in [Configs -> {"absent", "live", "deleting"}]
  /\ held \subseteq Configs
  /\ work \in [Configs -> {"idle", "add", "remove"}]
  /\ using \subseteq MRs
  /\ secured \subseteq using
  /\ trouble \in 0 .. MaxTrouble
  /\ \A m \in MRs : Live(m) /\ going[m] # Idle => usage[m] = going[m]

(* A config that was deleted while a resource was using it, with the use   *)
(* in the reconciler's view, stays until the resource is gone or points    *)
(* elsewhere: the resource is not cut off from Upbound.                    *)
Held == \A m \in secured : ref[m] \in Configs /\ Exists(ref[m])

(* The configs with the uses recorded of them are what ConfigHold says: a  *)
(* config once deleted is not saved, nor held by more resources, and goes  *)
(* only when the last that was seen to use it is gone or points elsewhere. *)
Hold == INSTANCE ConfigHold
  WITH holders <- [c \in Configs |-> {m \in secured : ref[m] = c}]

HoldSpec == Hold!Spec

(* What a resource of this scope can connect with.                         *)
Usable(r) == /\ r \in Configs /\ Exists(r)
             /\ (r.kind \in LegacyKinds) = (of.scope = "cluster")

(* Deletions of resources and configs, in whatever order they are asked    *)
(* for, end: of a resource, but for one whose config is gone for good; of  *)
(* a config, but for one that a resource keeps using.                      *)
DeletionsEnd ==
  /\ \A m \in MRs : mr[m] = "deleting" ~> mr[m] = "gone" \/ ~Usable(ref[m])
  /\ \A c \in Configs :
       config[c] = "deleting" ~> \/ ~Exists(c)
                                 \/ \E m \in MRs : Live(m) /\ usage[m] = c
                                                   /\ mr[m] # "deleting"
===============================================================================
