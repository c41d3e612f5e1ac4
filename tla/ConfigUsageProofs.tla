--------------------------- MODULE ConfigUsageProofs ---------------------------
(***************************************************************************)
(* Proofs about ConfigUsage, for every set of resources and configs.       *)
(***************************************************************************)
EXTENDS ConfigUsage, TLAPS

(* A resource that connected by its reference has the use of it recorded,  *)
(* for the kind of config that it can use, and has a finalizer.            *)
Recorded ==
  \A m \in using :
    /\ mr[m] # "new"
    /\ Live(m) => /\ usage[m] = ref[m]
                  /\ ref[m] \in Configs
                  /\ of.scope = UsagesOf(ref[m].kind)

(* The finalizer is on its way out of no config but one that is deleted.   *)
OnlyDeleted == \A c \in Configs : work[c] = "remove" => config[c] = "deleting"

(* What a secured resource uses is being deleted, is seen to be used, and  *)
(* its reconciler did not see otherwise.                                   *)
Secured ==
  \A m \in secured :
    /\ Live(m)
    /\ view[m] = usage[m]
    /\ config[ref[m]] = "deleting"
    /\ work[ref[m]] # "remove"

IInv == TypeOK /\ Recorded /\ OnlyDeleted /\ Secured

-------------------------------------------------------------------------------
(* Whatever the kind, Connect tracks the use or goes on with a config of a *)
(* kind that the scope of the resource can use.                            *)
KindsOf(scope) == IF scope = "cluster" THEN LegacyKinds ELSE ModernKinds

LEMMA Connects ==
  ASSUME NEW m \in MRs, Connect(m)
  PROVE  Track(m) \/ Proceed(m, KindsOf(of.scope))
<1>1. CASE of.scope = "cluster" /\ ClusterConnect(m)
  <2>1. Track(m) \/ LegacySpec(m)
    BY <1>1 DEF ClusterConnect, ClusterRepositoryConnect, ClusterPermissionConnect,
                ClusterRobotConnect, ClusterMembershipConnect, ClusterTeamConnect,
                ClusterTokenConnect
  <2> QED BY <1>1, <2>1 DEF LegacySpec, KindsOf
<1>2. CASE of.scope = "namespaced" /\ NamespacedConnect(m)
  <2>1. ModernSpec(m)
    BY <1>2 DEF NamespacedConnect, NamespacedRepositoryConnect,
                NamespacedPermissionConnect, NamespacedRobotConnect,
                NamespacedMembershipConnect, NamespacedTeamConnect,
                NamespacedTokenConnect
  <2> QED BY <1>2, <2>1 DEF ModernSpec, KindsOf
<1> QED BY <1>1, <1>2 DEF Connect

(* Those are the kinds whose uses the config's reconciler lists.           *)
LEMMA ConnectsAsListed ==
  ASSUME TypeOK, NEW kind \in KindsOf(of.scope)
  PROVE  of.scope = UsagesOf(kind)
<1>1. of.scope \in Scopes
  BY DEF TypeOK
<1> QED BY <1>1 DEF Scopes, KindsOf, LegacyKinds, ModernKinds, UsagesOf

-------------------------------------------------------------------------------
LEMMA Initially == Init => IInv
<1> SUFFICES ASSUME Init PROVE IInv
  OBVIOUS
<1>1. TypeOK
  BY ConfigConstants DEF Init, TypeOK, Live
<1>2. using = {} /\ secured = {} /\ work = [c \in Configs |-> "idle"]
  BY DEF Init
<1> QED BY <1>1, <1>2 DEF IInv, Recorded, OnlyDeleted, Secured

LEMMA TypeStep == TypeOK /\ [Next]_vars => TypeOK'
<1> SUFFICES ASSUME TypeOK, [Next]_vars PROVE TypeOK'
  OBVIOUS
<1> USE DEF TypeOK, Live
<1>1. ASSUME NEW m \in MRs, Track(m) PROVE TypeOK'
  BY <1>1 DEF Track
<1>2. ASSUME NEW m \in MRs, NEW kinds, Proceed(m, kinds) PROVE TypeOK'
  BY <1>2 DEF Proceed
<1>3. ASSUME NEW m \in MRs, Sync(m) PROVE TypeOK'
  BY <1>3 DEF Sync
<1>4. ASSUME NEW m \in MRs, Collect(m) PROVE TypeOK'
  BY <1>4 DEF Collect
<1>5. ASSUME NEW m \in MRs, DeleteResource(m) PROVE TypeOK'
  BY <1>5 DEF DeleteResource
<1>6. ASSUME NEW m \in MRs, Repoint(m) PROVE TypeOK'
  <2>1. RefsOf(of.scope) \subseteq Refs
    BY DEF RefsOf, Refs
  <2> QED BY <1>6, <2>1, ConfigConstants DEF Repoint, Disturb
<1>7. ASSUME NEW c \in Configs, Look(c) PROVE TypeOK'
  BY <1>7 DEF Look
<1>8. ASSUME NEW c \in Configs, AddFinalizer(c) PROVE TypeOK'
  BY <1>8 DEF AddFinalizer
<1>9. ASSUME NEW c \in Configs, RemoveFinalizer(c) PROVE TypeOK'
  BY <1>9 DEF RemoveFinalizer
<1>10. ASSUME NEW c \in Configs, DeleteConfig(c) PROVE TypeOK'
  BY <1>10 DEF DeleteConfig
<1>11. ASSUME NEW c \in Configs, CreateConfig(c) PROVE TypeOK'
  BY <1>11, ConfigConstants DEF CreateConfig, Disturb
<1>12. ASSUME Fail PROVE TypeOK'
  BY <1>12, ConfigConstants DEF Fail, Disturb
<1>13. ASSUME UNCHANGED vars PROVE TypeOK'
  BY <1>13 DEF vars
<1> QED
  BY <1>1, <1>2, <1>3, <1>4, <1>5, <1>6, <1>7, <1>8, <1>9, <1>10, <1>11, <1>12,
     <1>13, Connects DEF Next, Manage

LEMMA RecordedStep == IInv /\ [Next]_vars => Recorded'
<1> SUFFICES ASSUME IInv, [Next]_vars PROVE Recorded'
  OBVIOUS
<1> USE DEF IInv, TypeOK, Live, Recorded
<1>1. ASSUME NEW m \in MRs, Track(m) PROVE Recorded'
  BY <1>1 DEF Track
<1>2. ASSUME NEW m \in MRs, Proceed(m, KindsOf(of.scope)) PROVE Recorded'
  <2>1. ASSUME going[m] \in Configs, going[m].kind \in KindsOf(of.scope)
        PROVE  of.scope = UsagesOf(going[m].kind)
    BY <2>1, ConnectsAsListed
  <2> QED BY <1>2, <2>1 DEF Proceed, Exists
<1>3. ASSUME NEW m \in MRs, Sync(m) PROVE Recorded'
  BY <1>3 DEF Sync
<1>4. ASSUME NEW m \in MRs, Collect(m) PROVE Recorded'
  BY <1>4 DEF Collect
<1>5. ASSUME NEW m \in MRs, DeleteResource(m) PROVE Recorded'
  BY <1>5 DEF DeleteResource
<1>6. ASSUME NEW m \in MRs, Repoint(m) PROVE Recorded'
  BY <1>6 DEF Repoint
<1>7. ASSUME NEW c \in Configs, Look(c) PROVE Recorded'
  BY <1>7 DEF Look
<1>8. ASSUME NEW c \in Configs, AddFinalizer(c) PROVE Recorded'
  BY <1>8 DEF AddFinalizer
<1>9. ASSUME NEW c \in Configs, RemoveFinalizer(c) PROVE Recorded'
  BY <1>9 DEF RemoveFinalizer
<1>10. ASSUME NEW c \in Configs, DeleteConfig(c) PROVE Recorded'
  BY <1>10 DEF DeleteConfig
<1>11. ASSUME NEW c \in Configs, CreateConfig(c) PROVE Recorded'
  BY <1>11 DEF CreateConfig
<1>12. ASSUME Fail PROVE Recorded'
  BY <1>12 DEF Fail
<1>13. ASSUME UNCHANGED vars PROVE Recorded'
  BY <1>13 DEF vars
<1> QED
  BY <1>1, <1>2, <1>3, <1>4, <1>5, <1>6, <1>7, <1>8, <1>9, <1>10, <1>11, <1>12,
     <1>13, Connects DEF Next, Manage

LEMMA OnlyDeletedStep == IInv /\ [Next]_vars => OnlyDeleted'
<1> SUFFICES ASSUME IInv, [Next]_vars PROVE OnlyDeleted'
  OBVIOUS
<1> USE DEF IInv, TypeOK, Live, OnlyDeleted
<1>1. ASSUME NEW m \in MRs, Track(m) PROVE OnlyDeleted'
  BY <1>1 DEF Track
<1>2. ASSUME NEW m \in MRs, Proceed(m, KindsOf(of.scope)) PROVE OnlyDeleted'
  BY <1>2 DEF Proceed
<1>3. ASSUME NEW m \in MRs, Sync(m) PROVE OnlyDeleted'
  BY <1>3 DEF Sync
<1>4. ASSUME NEW m \in MRs, Collect(m) PROVE OnlyDeleted'
  BY <1>4 DEF Collect
<1>5. ASSUME NEW m \in MRs, DeleteResource(m) PROVE OnlyDeleted'
  BY <1>5 DEF DeleteResource
<1>6. ASSUME NEW m \in MRs, Repoint(m) PROVE OnlyDeleted'
  BY <1>6 DEF Repoint
<1>7. ASSUME NEW c \in Configs, Look(c) PROVE OnlyDeleted'
  BY <1>7 DEF Look
<1>8. ASSUME NEW c \in Configs, AddFinalizer(c) PROVE OnlyDeleted'
  BY <1>8 DEF AddFinalizer
<1>9. ASSUME NEW c \in Configs, RemoveFinalizer(c) PROVE OnlyDeleted'
  BY <1>9 DEF RemoveFinalizer
<1>10. ASSUME NEW c \in Configs, DeleteConfig(c) PROVE OnlyDeleted'
  BY <1>10 DEF DeleteConfig
<1>11. ASSUME NEW c \in Configs, CreateConfig(c) PROVE OnlyDeleted'
  BY <1>11 DEF CreateConfig, Exists
<1>12. ASSUME Fail PROVE OnlyDeleted'
  BY <1>12 DEF Fail
<1>13. ASSUME UNCHANGED vars PROVE OnlyDeleted'
  BY <1>13 DEF vars
<1> QED
  BY <1>1, <1>2, <1>3, <1>4, <1>5, <1>6, <1>7, <1>8, <1>9, <1>10, <1>11, <1>12,
     <1>13, Connects DEF Next, Manage

LEMMA SecuredStep == IInv /\ [Next]_vars => Secured'
<1> SUFFICES ASSUME IInv, [Next]_vars PROVE Secured'
  OBVIOUS
<1> USE DEF IInv, TypeOK, Live, Recorded, OnlyDeleted, Secured
<1>1. ASSUME NEW m \in MRs, Track(m) PROVE Secured'
  BY <1>1 DEF Track
<1>2. ASSUME NEW m \in MRs, Proceed(m, KindsOf(of.scope)) PROVE Secured'
  BY <1>2 DEF Proceed
<1>3. ASSUME NEW m \in MRs, Sync(m) PROVE Secured'
  BY <1>3 DEF Sync
<1>4. ASSUME NEW m \in MRs, Collect(m) PROVE Secured'
  BY <1>4 DEF Collect
<1>5. ASSUME NEW m \in MRs, DeleteResource(m) PROVE Secured'
  BY <1>5 DEF DeleteResource
<1>6. ASSUME NEW m \in MRs, Repoint(m) PROVE Secured'
  BY <1>6 DEF Repoint
<1>7. ASSUME NEW c \in Configs, Look(c) PROVE Secured'
  BY <1>7 DEF Look, Users
<1>8. ASSUME NEW c \in Configs, AddFinalizer(c) PROVE Secured'
  BY <1>8 DEF AddFinalizer
<1>9. ASSUME NEW c \in Configs, RemoveFinalizer(c) PROVE Secured'
  BY <1>9 DEF RemoveFinalizer
<1>10. ASSUME NEW c \in Configs, DeleteConfig(c) PROVE Secured'
  BY <1>10 DEF DeleteConfig
<1>11. ASSUME NEW c \in Configs, CreateConfig(c) PROVE Secured'
  BY <1>11 DEF CreateConfig, Exists
<1>12. ASSUME Fail PROVE Secured'
  BY <1>12 DEF Fail
<1>13. ASSUME UNCHANGED vars PROVE Secured'
  BY <1>13 DEF vars
<1> QED
  BY <1>1, <1>2, <1>3, <1>4, <1>5, <1>6, <1>7, <1>8, <1>9, <1>10, <1>11, <1>12,
     <1>13, Connects DEF Next, Manage

LEMMA Inductive == IInv /\ [Next]_vars => IInv'
BY TypeStep, RecordedStep, OnlyDeletedStep, SecuredStep DEF IInv

(* What the results below rest on.                                         *)
THEOREM Invariance == Spec => []IInv
BY Initially, Inductive, PTL DEF Spec

-------------------------------------------------------------------------------
(* Every variable stays within its domain and every use is recorded before *)
(* the config is read, however many resources and configs there are and    *)
(* however often they are re-pointed, fail and are made again.             *)
THEOREM TypeCorrect == Spec => []TypeOK
BY Invariance, PTL DEF IInv

(* However many resources use however many configs: a config deleted in    *)
(* view of a use recorded stays while the resource is there and uses it.   *)
THEOREM ConfigsHeld == Spec => []Held
<1>1. IInv => Held
  BY DEF IInv, TypeOK, Recorded, Secured, Held, Exists
<1> QED BY <1>1, Invariance, PTL

-------------------------------------------------------------------------------
(* ConfigHold, step by step.  Who holds what is a matter of secured and of *)
(* the references of those in it.                                          *)
Holders == [c \in Configs |-> {m \in secured : ref[m] = c}]

(* A resource that leaves secured lets go of the one config it means.      *)
LEMMA LetsGo ==
  ASSUME IInv, NEW m \in MRs, secured' = secured \ {m},
         \A l \in MRs \ {m} : ref'[l] = ref[l], UNCHANGED config
  PROVE  [Hold!Next]_Hold!holdVars
<1>1. CASE m \in secured
  <2>1. PICK c \in Configs : c = ref[m]
    BY <1>1 DEF IInv, TypeOK, Secured, Recorded
  <2>2. secured \subseteq MRs
    BY DEF IInv, TypeOK
  <2>3. \A d \in Configs :
          Holders'[d] = IF d = c THEN Holders[c] \ {m} ELSE Holders[d]
    BY <1>1, <2>1, <2>2 DEF Holders
  <2>4. Holders' = [Holders EXCEPT ![c] = @ \ {m}]
    BY <2>3 DEF Holders
  <2>5. m \in Holders[c]
    BY <1>1, <2>1 DEF Holders
  <2>6. Hold!LetGo(c, m)
    BY <2>4, <2>5 DEF Hold!LetGo, Holders
  <2> QED BY <2>6 DEF Hold!Next
<1>2. CASE m \notin secured
  <2>1. secured' = secured /\ \A l \in secured : ref'[l] = ref[l]
    BY <1>2 DEF IInv, TypeOK
  <2>2. Holders' = Holders
    BY <2>1 DEF Holders
  <2> QED BY <2>2 DEF Hold!holdVars, Holders
<1> QED BY <1>1, <1>2

LEMMA Keeps ==
  ASSUME UNCHANGED <<config, ref, secured>>
  PROVE  [Hold!Next]_Hold!holdVars
<1>1. Holders' = Holders
  BY DEF Holders
<1> QED BY <1>1 DEF Hold!holdVars, Holders

LEMMA HoldSteps == IInv /\ [Next]_vars => [Hold!Next]_Hold!holdVars
<1> SUFFICES ASSUME IInv, [Next]_vars PROVE [Hold!Next]_Hold!holdVars
  OBVIOUS
<1> USE DEF IInv, TypeOK
<1>1. ASSUME NEW m \in MRs, Track(m) PROVE [Hold!Next]_Hold!holdVars
  BY <1>1, Keeps DEF Track
<1>2. ASSUME NEW m \in MRs, NEW kinds, Proceed(m, kinds)
      PROVE  [Hold!Next]_Hold!holdVars
  <2>1. UNCHANGED <<ref, config>> /\ secured' \in {secured, secured \ {m}}
    BY <1>2 DEF Proceed
  <2> QED BY <2>1, Keeps, LetsGo
<1>3. ASSUME NEW m \in MRs, Sync(m) \/ Collect(m) \/ DeleteResource(m)
      PROVE  [Hold!Next]_Hold!holdVars
  BY <1>3, Keeps DEF Sync, Collect, DeleteResource
<1>4. ASSUME NEW m \in MRs, Repoint(m) PROVE [Hold!Next]_Hold!holdVars
  <2>1. \A l \in MRs \ {m} : ref'[l] = ref[l]
    BY <1>4 DEF Repoint
  <2> QED BY <1>4, <2>1, LetsGo DEF Repoint
<1>5. ASSUME NEW c \in Configs, Look(c) \/ AddFinalizer(c)
      PROVE  [Hold!Next]_Hold!holdVars
  BY <1>5, Keeps DEF Look, AddFinalizer
<1>6. ASSUME NEW c \in Configs, RemoveFinalizer(c)
      PROVE  [Hold!Next]_Hold!holdVars
  <2>1. config[c] = "deleting" /\ Holders[c] = {}
    BY <1>6 DEF RemoveFinalizer, OnlyDeleted, Secured, Holders
  <2>2. Holders' = Holders
    BY <1>6 DEF RemoveFinalizer, Holders
  <2>3. Hold!Remove(c)
    BY <1>6, <2>1, <2>2 DEF RemoveFinalizer, Hold!Remove, Hold!Become, Holders
  <2> QED BY <2>3 DEF Hold!Next
<1>7. ASSUME NEW c \in Configs, DeleteConfig(c) PROVE [Hold!Next]_Hold!holdVars
  <2>1. config[c] = "live" /\ UNCHANGED ref
    BY <1>7 DEF DeleteConfig
  <2>2. CASE c \in held
    <3> DEFINE users == {m \in using : Live(m) /\ ref[m] = c /\ view[m] = usage[m]}
    <3>1. secured' = secured \cup users
      BY <1>7, <2>2 DEF DeleteConfig
    <3>2. users \subseteq MRs /\ \A m \in users : ref[m] = c
      OBVIOUS
    <3>3. \A m \in secured : ref[m] # c
      BY <2>1 DEF Secured
    <3> HIDE DEF users
    <3>4. \A d \in Configs : Holders'[d] = IF d = c THEN users ELSE Holders[d]
      BY <2>1, <3>1, <3>2, <3>3 DEF Holders
    <3>5. Holders' = [Holders EXCEPT ![c] = users]
      BY <3>4 DEF Holders
    <3>6. Hold!Delete(c)
      BY <1>7, <2>1, <2>2, <3>2, <3>5
         DEF DeleteConfig, Hold!Delete, Hold!Become, Holders
    <3> QED BY <3>6 DEF Hold!Next
  <2>3. CASE c \notin held
    <3>1. Holders' = Holders
      BY <1>7, <2>3 DEF DeleteConfig, Holders
    <3>2. Hold!DeleteUnseen(c)
      BY <1>7, <2>1, <2>3, <3>1
         DEF DeleteConfig, Hold!DeleteUnseen, Hold!Become, Holders
    <3> QED BY <3>2 DEF Hold!Next
  <2> QED BY <2>2, <2>3
<1>8. ASSUME NEW c \in Configs, CreateConfig(c) PROVE [Hold!Next]_Hold!holdVars
  <2>1. Holders' = Holders
    BY <1>8 DEF CreateConfig, Holders
  <2>2. Hold!Create(c)
    BY <1>8, <2>1 DEF CreateConfig, Exists, Hold!Create, Hold!Become, Holders
  <2> QED BY <2>2 DEF Hold!Next
<1>9. CASE Fail
  BY <1>9, Keeps DEF Fail
<1>10. CASE UNCHANGED vars
  BY <1>10, Keeps DEF vars
<1> QED
  BY <1>1, <1>2, <1>3, <1>4, <1>5, <1>6, <1>7, <1>8, <1>9, <1>10, Connects
     DEF Next, Manage

(* However many resources use however many configs: configs are held and   *)
(* let go of as ConfigHold says.                                           *)
THEOREM ImplementsHold == Spec => HoldSpec
<1>1. Init => Hold!Init
  BY DEF Init, Hold!Init
<1>2. IInv /\ [Next]_vars => [Hold!Next]_Hold!holdVars
  BY HoldSteps
<1> QED BY <1>1, <1>2, Invariance, PTL DEF Spec, HoldSpec, Hold!Spec
===============================================================================
