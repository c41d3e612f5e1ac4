--------------------------- MODULE RepositoryProofs ---------------------------
(***************************************************************************)
(* Repositories too, though their Update is the PUT that creates: where    *)
(* one replica runs, and every Repository resource names the repository    *)
(* that is called like itself, nothing the provider made is left behind.   *)
(* The resources here have no references that a reconcile would resolve,   *)
(* and repositories never have any.                                        *)
(* Both are needed: with another name the repository that an Update makes  *)
(* is not the one that is deleted, and with two replicas the Update of one *)
(* can follow the Delete of the other.                                     *)
(***************************************************************************)
EXTENDS KindProofs

OneReplica == \A p, q \in Replicas : p = q

(* A repository's spec names the resource, and an external name, where it  *)
(* has one from the beginning, does too.                                   *)
NamedAlike ==
  /\ \A s \in Specs : s.kind = "repository" => s.form.repo = ResourceName
  /\ \A s \in Starts : s.spec.kind = "repository" => s.name \in {Unset, ResourceName}

OfRepository == obj.spec.kind = "repository"

(* All copies are of the same kind.                                        *)
KindInv ==
  \A p \in Replicas : /\ cache[p].spec.kind = obj.spec.kind
                      /\ pc[p] # "idle" => snap[p].spec.kind = obj.spec.kind

(* The external name is the name of the resource once it is set, which it  *)
(* is past the initializers.                                               *)
NameInv ==
  OfRepository =>
    /\ obj.name \in {Unset, ResourceName}
    /\ \A p \in Replicas :
         /\ cache[p].name \in {Unset, obj.name}
         /\ pc[p] # "idle" => snap[p].name \in {Unset, ResourceName}
         /\ pc[p] \notin {"idle", "initialize"} => /\ snap[p].name = ResourceName
                                                   /\ obj.name = ResourceName

(* A copy that still has the finalizer when the resource is gone is of one *)
(* whose repository is gone: so no Update is called any more.              *)
FinalizerInv ==
  OfRepository =>
    \A p \in Replicas :
      /\ cache[p].finalizer \/ (pc[p] # "idle" /\ snap[p].finalizer)
           => obj.finalizer \/ (~obj.live /\ ResourceName \notin Objects(world))
      /\ pc[p] = "update" => obj.finalizer

SoloInv == KindInv /\ NameInv /\ FinalizerInv

-------------------------------------------------------------------------------
(* What repositories' handlers do, in the loop.                            *)

LEMMA OwnName ==
  ASSUME NamedAlike, NEW s \in Specs, s.kind = "repository"
  PROVE  /\ s \in KindSpecs /\ s.form \in RepoSpecs /\ s.form.repo = ResourceName
         /\ ResourceName \in RepoNames /\ ResourceName \in Names
         /\ Unset # ResourceName
         /\ Targets(s, ResourceName) = {ResourceName}
         /\ Default(s, Unset) = ResourceName
         /\ Default(s, ResourceName) = ResourceName
<1>1. s \in KindSpecs /\ s.form \in RepoSpecs /\ s.form.repo = ResourceName
  BY KindHandlers DEF KindSpecs, Either, NamespacedRepoSpecs, NamedAlike
<1>2. ResourceName \in RepoNames
  BY <1>1 DEF RepoSpecs
<1>3. ResourceName \in Names /\ Unset \in Names /\ Unset # ResourceName
  BY <1>2, KindHandlers, KindConstants DEF KindNames, RepoExternalNames
<1>4. Targets(s, ResourceName) = {ResourceName}
  BY <1>2, <1>3, KindHandlers DEF KindTargets, By, RepoTargets
<1>5. Default(s, Unset) = ResourceName /\ Default(s, ResourceName) = ResourceName
  BY <1>3, KindHandlers DEF KindDefault, For, RepoDefault, NamespacedRepoDefault
<1> QED BY <1>1, <1>2, <1>3, <1>4, <1>5

LEMMA OutdatedExists ==
  ASSUME NEW s \in Specs, s.kind = "repository", NEW n \in Names,
         NEW w \in Worlds, NEW r \in Replies, Observe(s, n, w, r) = "outdated"
  PROVE  n \in Objects(w)
<1>1. s \in KindSpecs /\ w \in KindWorlds /\ KindObserve(s, n, w, r) = "outdated"
  BY KindHandlers
<1>2. w.kind = "repository"
  BY <1>1, KindAlien
<1>3. n \in KindObjects(w)
  BY <1>1, <1>2, RepoBranch, RepoObserveFinds
<1> QED BY <1>3, KindHandlers

LEMMA UpdateMakes ==
  ASSUME NamedAlike, NEW s \in Specs, s.kind = "repository", NEW n \in Names,
         NEW w \in Worlds, NEW r \in Replies, NEW o \in Update(s, n, w, r)
  PROVE  Objects(o.world) \subseteq Objects(w) \cup {ResourceName}
<1>1. s \in KindSpecs /\ w \in KindWorlds /\ o \in KindUpdate(s, n, w, r)
  BY KindHandlers
<1>2. CASE w.kind # "repository"
  BY <1>1, <1>2, KindAlien
<1>3. CASE w.kind = "repository"
  <2>1. \A u \in RepoUpdate(s.form, n, w.holds, r) :
          u = [err |-> u.err, world |-> u.world, name |-> u.name]
    BY DEF RepoUpdate
  <2>2. PICK u \in RepoUpdate(s.form, n, w.holds, r) :
          o.world = [kind |-> w.kind, holds |-> u.world]
    BY <1>1, <1>3, <2>1, RepoBranch, OutcomesOf
  <2>3. u.world = Put(s.form, w.holds, r)
    BY <2>2 DEF RepoUpdate
  <2>4. RepoObjects(u.world) \subseteq RepoObjects(w.holds) \cup {ResourceName}
    BY <1>1, <1>3, <2>3, RepoBranch, PutNames, OwnName
  <2>5. KindObjects(o.world) \subseteq KindObjects(w) \cup {ResourceName}
    BY <1>1, <1>3, <2>2, <2>4, RepoBranch
  <2>6. o.world \in Worlds
    BY OutcomeTypes
  <2> QED BY <2>5, <2>6, KindHandlers
<1> QED BY <1>2, <1>3

LEMMA CreateCalls ==
  ASSUME NamedAlike, NEW s \in Specs, s.kind = "repository",
         NEW w \in Worlds, NEW r \in Replies, NEW o \in Create(s, ResourceName, w, r)
  PROVE  o.name = ResourceName
<1>1. /\ s \in KindSpecs /\ w \in KindWorlds /\ s.form.repo = ResourceName
      /\ o \in KindCreate(s, ResourceName, w, r)
  BY KindHandlers, OwnName
<1>2. CASE w.kind # "repository"
  BY <1>1, <1>2 DEF KindCreate, Outcome
<1>3. CASE w.kind = "repository"
  <2>1. PICK u \in RepoCreate(s.form, ResourceName, w.holds, r) :
          o = [u EXCEPT !.world = [kind |-> w.kind, holds |-> @]]
    BY <1>1, <1>3, RepoBranch DEF Outcome
  <2>2. u = [err |-> u.err, world |-> u.world, name |-> u.name] /\ u.name = ResourceName
    BY <1>1 DEF RepoCreate
  <2> QED BY <2>1, <2>2
<1> QED BY <1>2, <1>3

LEMMA KindsStay ==
  ASSUME NEW s \in Specs
  PROVE  \A t \in Edits(s) : t.kind = s.kind
<1>1. s \in KindSpecs
  BY KindHandlers
<1>2. ASSUME NEW t \in Edits(s) PROVE t.kind = s.kind
  <2>1. PICK f : t = [s EXCEPT !.form = f]
    BY KindHandlers DEF KindEdits
  <2> QED BY <1>1, <2>1 DEF KindSpecs, Either
<1> QED BY <1>2

-------------------------------------------------------------------------------
(* The invariant, action by action.                                        *)

LEMMA InitSolo == ASSUME NamedAlike, Init PROVE SoloInv
<1> PICK s \in Starts :
      LET new == [live |-> TRUE, deleting |-> FALSE, finalizer |-> FALSE,
                  spec |-> s.spec, name |-> s.name, create |-> "none"]
      IN  /\ obj = new
          /\ cache = [p \in Replicas |-> new]
  BY DEF Init
<1>1. \A p \in Replicas : pc[p] = "idle"
  BY DEF Init
<1>2. KindInv
  BY <1>1 DEF KindInv
<1>3. NameInv
  BY <1>1 DEF NameInv, NamedAlike, OfRepository
<1>4. FinalizerInv
  BY <1>1 DEF FinalizerInv
<1> QED BY <1>2, <1>3, <1>4 DEF SoloInv

LEMMA FetchSolo ==
  ASSUME NamedAlike, IInv, SoloInv, NEW p \in Replicas, Fetch(p)
  PROVE  SoloInv'
<1> DEFINE place == IF Initialized(cache[p]) THEN After(cache[p]) ELSE "initialize"
<1>1. /\ place \in {"initialize", "observe", "resolve"}
      /\ place # "initialize" => Initialized(cache[p])
  BY Afters
<1>2. /\ snap' = [snap EXCEPT ![p] = cache[p]] /\ pc' = [pc EXCEPT ![p] = place]
      /\ UNCHANGED <<obj, cache, world>>
  BY DEF Fetch, Work, Goto
<1>3. snap'[p] = cache[p] /\ pc'[p] = place
      /\ \A q \in Replicas : q # p => snap'[q] = snap[q] /\ pc'[q] = pc[q]
  BY <1>2 DEF IInv, BaseInv, CoreInv, TypeOK
<1>4. OfRepository /\ Initialized(cache[p])
        => cache[p].name = ResourceName /\ obj.name = ResourceName
  <2> SUFFICES ASSUME OfRepository, Initialized(cache[p])
               PROVE  cache[p].name = ResourceName /\ obj.name = ResourceName
    OBVIOUS
  <2>1. cache[p].spec \in Specs /\ cache[p].spec.kind = "repository"
    BY DEF IInv, BaseInv, CoreInv, TypeOK, Resources, SoloInv, KindInv, OfRepository
  <2>2. cache[p].name # Unset
    BY <2>1, OwnName DEF Initialized
  <2> QED BY <2>2 DEF SoloInv, NameInv
<1> HIDE DEF place
<1>5. KindInv'
  BY <1>2, <1>3 DEF SoloInv, KindInv
<1>6. NameInv'
  BY <1>1, <1>2, <1>3, <1>4 DEF SoloInv, NameInv, OfRepository
<1>7. FinalizerInv'
  BY <1>1, <1>2, <1>3 DEF SoloInv, FinalizerInv, OfRepository
<1> QED BY <1>5, <1>6, <1>7 DEF SoloInv

LEMMA SwapSolo ==
  ASSUME OneReplica, IInv, SoloInv, NEW p \in Replicas, NEW new, NEW place,
         Swap(p, new, place), UNCHANGED <<cache, world>>,
         new.spec.kind = snap[p].spec.kind,
         snap[p].finalizer => new.finalizer,
         OfRepository => new.name = ResourceName,
         place = "update" => new.finalizer
  PROVE  SoloInv'
<1>1. snap[p] = obj /\ obj.live
  BY DEF Swap, IInv, BaseInv, CoreInv, TypeOK, CopiesInv
<1>2. \A q \in Replicas : q = p
  BY DEF OneReplica
<1>3. obj' = new /\ snap'[p] = new /\ pc'[p] = place
  BY DEF Swap, Commit, Work, Goto, IInv, BaseInv, CoreInv, TypeOK
<1>4. KindInv'
  BY <1>1, <1>2, <1>3 DEF SoloInv, KindInv
<1>5. NameInv'
  BY <1>1, <1>2, <1>3 DEF SoloInv, NameInv, OfRepository
<1>6. FinalizerInv'
  BY <1>1, <1>2, <1>3 DEF SoloInv, FinalizerInv, OfRepository
<1> QED BY <1>4, <1>5, <1>6 DEF SoloInv

LEMMA EndSolo ==
  ASSUME OneReplica, IInv, SoloInv, NEW p \in Replicas, End(p),
         UNCHANGED <<cache, world>>,
         obj'.spec.kind = obj.spec.kind,
         OfRepository => obj'.name \in {obj.name, ResourceName},
         OfRepository => \/ obj'.finalizer = obj.finalizer /\ obj'.live = obj.live
                         \/ ~obj'.live /\ ResourceName \notin Objects(world)
  PROVE  SoloInv'
<1>1. \A q \in Replicas : q = p
  BY DEF OneReplica
<1>2. pc'[p] = "idle"
  BY DEF End, Goto, IInv, BaseInv, CoreInv, TypeOK
<1>3. KindInv'
  BY <1>1, <1>2 DEF SoloInv, KindInv
<1>4. NameInv'
  BY <1>1, <1>2 DEF SoloInv, NameInv, OfRepository
<1>5. FinalizerInv'
  BY <1>1, <1>2 DEF SoloInv, FinalizerInv, OfRepository
<1> QED BY <1>3, <1>4, <1>5 DEF SoloInv

(* A step of the reconcile past the initializers that writes nothing.      *)
LEMMA GotoSolo ==
  ASSUME OneReplica, IInv, SoloInv, NEW p \in Replicas, NEW place, Goto(p, place),
         pc[p] \notin {"idle", "initialize"},
         UNCHANGED <<obj, cache, snap>>,
         OfRepository /\ place = "update" => obj.finalizer,
         OfRepository => \/ obj.finalizer
                         \/ ResourceName \in Objects(world)' => ResourceName \in Objects(world)
  PROVE  SoloInv'
<1>1. \A q \in Replicas : q = p
  BY DEF OneReplica
<1>2. pc'[p] = place
  BY DEF Goto, IInv, BaseInv, CoreInv, TypeOK
<1>3. KindInv'
  BY <1>1, <1>2 DEF SoloInv, KindInv
<1>4. NameInv'
  BY <1>1, <1>2 DEF SoloInv, NameInv, OfRepository
<1>5. FinalizerInv'
  BY <1>1, <1>2 DEF SoloInv, FinalizerInv, OfRepository
<1> QED BY <1>3, <1>4, <1>5 DEF SoloInv

LEMMA InitializeSolo ==
  ASSUME NamedAlike, OneReplica, IInv, SoloInv, NEW p \in Replicas, Initialize(p)
  PROVE  SoloInv'
<1> DEFINE new == [snap[p] EXCEPT !.name = Default(snap[p].spec, @)]
<1>1. /\ p \in fresh /\ snap[p] = obj /\ obj \in Resources
      /\ Default(obj.spec, obj.name) # obj.name
      /\ new \in Resources /\ new.live /\ obj.live
      /\ new.finalizer = obj.finalizer /\ new.spec = obj.spec
  BY InitializeWrites DEF IInv
<1>2. OfRepository => new.name = ResourceName
  <2> SUFFICES ASSUME OfRepository PROVE new.name = ResourceName
    OBVIOUS
  <2>1. obj.spec \in Specs /\ obj.spec.kind = "repository"
    BY <1>1 DEF Resources, OfRepository
  <2>2. obj.name \in {Unset, ResourceName}
    BY DEF SoloInv, NameInv
  <2>3. Default(obj.spec, obj.name) = ResourceName
    BY <2>1, <2>2, OwnName
  <2> QED BY <1>1, <2>3 DEF Resources
<1>3. \/ Swap(p, new, After(new))
      \/ Commit(new, {}) /\ End(p)
  BY DEF Initialize
<1>4. UNCHANGED <<cache, world>>
  BY DEF Initialize
<1>5. After(new) # "update"
  BY DEF After
<1> HIDE DEF new
<1>6. CASE Swap(p, new, After(new))
  BY <1>1, <1>2, <1>4, <1>5, <1>6, SwapSolo
<1>7. CASE Commit(new, {}) /\ End(p)
  BY <1>1, <1>2, <1>4, <1>7, EndSolo DEF Commit
<1> QED BY <1>3, <1>6, <1>7

LEMMA ObserveSolo ==
  ASSUME NamedAlike, OneReplica, IInv, SoloInv, NEW p \in Replicas, NEW r \in Replies,
         ObserveWorld(p, r)
  PROVE  SoloInv'
<1> DEFINE v == Observe(snap[p].spec, snap[p].name, world, r)
<1>1. UNCHANGED <<obj, cache, world>> /\ pc[p] = "observe"
  BY DEF ObserveWorld
<1>2. CASE End(p)
  BY <1>1, <1>2, EndSolo
<1>3. CASE Goto(p, React(snap[p], v)) /\ UNCHANGED snap
  <2>1. ASSUME OfRepository, React(snap[p], v) = "update" PROVE obj.finalizer
    <3>1. snap[p].finalizer /\ v = "outdated"
      BY <2>1 DEF React, Act
    <3>2. snap[p].spec \in Specs /\ snap[p].spec.kind = "repository" /\ world \in Worlds
      BY <1>1, <2>1 DEF IInv, BaseInv, CoreInv, TypeOK, Resources, SoloInv, KindInv, OfRepository
    <3>3. snap[p].name = ResourceName
      BY <1>1, <2>1 DEF SoloInv, NameInv
    <3>4. ResourceName \in Objects(world)
      BY <3>1, <3>2, <3>3, OutdatedExists, OwnName
    <3> QED BY <1>1, <2>1, <3>1, <3>4 DEF SoloInv, FinalizerInv
  <2> HIDE DEF v
  <2> QED BY <1>1, <1>3, <2>1, GotoSolo
<1> QED BY <1>2, <1>3 DEF ObserveWorld

LEMMA FinalizerSolo ==
  ASSUME OneReplica, IInv, SoloInv, NEW p \in Replicas, AddFinalizer(p) \/ MarkPending(p)
  PROVE  SoloInv'
<1>1. /\ snap[p] \in Resources /\ pc[p] \in {"finalize", "pending"}
      /\ UNCHANGED <<cache, world>>
  BY DEF AddFinalizer, MarkPending, IInv, BaseInv, CoreInv, TypeOK
<1>2. OfRepository => snap[p].name = ResourceName
  BY <1>1 DEF SoloInv, NameInv
<1>3. CASE AddFinalizer(p)
  <2> DEFINE new == [snap[p] EXCEPT !.finalizer = TRUE]
             place == Act(seen[p])
  <2>1. new.spec = snap[p].spec /\ new.name = snap[p].name /\ new.finalizer
    BY <1>1 DEF Resources
  <2>2. Swap(p, new, place)
    BY <1>3 DEF AddFinalizer
  <2> HIDE DEF new, place
  <2> QED BY <1>1, <1>2, <2>1, <2>2, SwapSolo
<1>4. CASE MarkPending(p)
  <2> DEFINE new == [snap[p] EXCEPT !.create = "pending"]
  <2>1. /\ new.spec = snap[p].spec /\ new.name = snap[p].name
        /\ new.finalizer = snap[p].finalizer
    BY <1>1 DEF Resources
  <2>2. Swap(p, new, "create")
    BY <1>4 DEF MarkPending
  <2> HIDE DEF new
  <2> QED BY <1>1, <1>2, <2>1, <2>2, SwapSolo
<1> QED BY <1>3, <1>4

LEMMA CallCreateSolo ==
  ASSUME NamedAlike, OneReplica, IInv, SoloInv, NEW p \in Replicas, NEW r \in Replies,
         CallCreate(p, r)
  PROVE  SoloInv'
<1>1. /\ snap[p] \in Resources /\ pc[p] = "create" /\ UNCHANGED <<obj, cache>>
      /\ \A q \in Replicas : q = p
  BY CreateReturns DEF CallCreate, IInv, BaseInv, CoreInv, OneReplica
<1>2. PICK o \in Create(snap[p].spec, snap[p].name, world, r) :
        /\ snap'[p].spec = snap[p].spec /\ snap'[p].name = o.name
        /\ pc'[p] \in {"failed", "record"}
  BY CreateReturns DEF IInv, BaseInv, CoreInv
<1>3. obj.finalizer
  BY <1>1 DEF IInv, BaseInv, CoreInv, LockInv, Creating
<1>4. OfRepository => o.name = ResourceName /\ obj.name = ResourceName
  <2> SUFFICES ASSUME OfRepository PROVE o.name = ResourceName /\ obj.name = ResourceName
    OBVIOUS
  <2>1. snap[p].spec \in Specs /\ snap[p].spec.kind = "repository" /\ world \in Worlds
    BY <1>1 DEF IInv, BaseInv, CoreInv, TypeOK, Resources, SoloInv, KindInv, OfRepository
  <2>2. snap[p].name = ResourceName /\ obj.name = ResourceName
    BY <1>1 DEF SoloInv, NameInv
  <2> QED BY <1>2, <2>1, <2>2, CreateCalls
<1>5. KindInv'
  BY <1>1, <1>2 DEF SoloInv, KindInv
<1>6. NameInv'
  BY <1>1, <1>2, <1>4 DEF SoloInv, NameInv, OfRepository
<1>7. FinalizerInv'
  BY <1>1, <1>2, <1>3 DEF SoloInv, FinalizerInv, OfRepository
<1> QED BY <1>5, <1>6, <1>7 DEF SoloInv

LEMMA AnnotateSolo ==
  ASSUME OneReplica, IInv, SoloInv, NEW p \in Replicas,
         RecordCreated(p) \/ RecordFailed(p)
  PROVE  SoloInv'
<1> PICK mark \in {"succeeded", "failed"}, place \in {"publish", "status"} :
      Annotate(p, mark, place)
  BY Records
<1>1. pc[p] \in {"record", "failed"}
  BY Records
<1>2. /\ obj'.spec = obj.spec /\ obj'.name = snap[p].name /\ obj'.finalizer
      /\ snap'[p] = obj' /\ pc'[p] = place /\ UNCHANGED <<cache, world>>
  BY <1>1, AnnotateWrites DEF IInv
<1>3. \A q \in Replicas : q = p
  BY DEF OneReplica
<1>4. KindInv'
  BY <1>2, <1>3 DEF SoloInv, KindInv
<1>5. NameInv'
  BY <1>1, <1>2, <1>3 DEF SoloInv, NameInv, OfRepository
<1>6. FinalizerInv'
  BY <1>2, <1>3 DEF SoloInv, FinalizerInv, OfRepository
<1> QED BY <1>4, <1>5, <1>6 DEF SoloInv

(* Calls: an Update only where the finalizer is still there, and a Delete  *)
(* brings nothing about.                                                   *)
LEMMA CallSolo ==
  ASSUME Truthful, OneReplica, IInv, SoloInv, NEW p \in Replicas, NEW r \in Replies,
         CallUpdate(p, r) \/ CallDelete(p, r)
  PROVE  SoloInv'
<1>1. /\ pc[p] \in {"update", "delete"} /\ Goto(p, "status")
      /\ UNCHANGED <<obj, cache, snap>>
  BY DEF CallUpdate, CallDelete, Call
<1>2. CASE CallUpdate(p, r)
  <2>1. OfRepository => obj.finalizer
    BY <1>2 DEF CallUpdate, SoloInv, FinalizerInv
  <2> QED BY <1>1, <2>1, GotoSolo
<1>3. CASE CallDelete(p, r)
  <2>1. snap[p] \in Resources /\ world \in Worlds
    BY <1>3 DEF CallDelete, IInv, BaseInv, CoreInv, TypeOK
  <2>2. \A o \in Delete(snap[p].spec, snap[p].name, world, r) :
          Objects(o.world) \subseteq Objects(world)
    BY <2>1 DEF Truthful, Resources
  <2>3. Objects(world)' \subseteq Objects(world)
    BY <1>3, <2>2 DEF CallDelete, Call, Credit
  <2> QED BY <1>1, <2>3, GotoSolo
<1> QED BY <1>2, <1>3

LEMMA RemoveFinalizerSolo ==
  ASSUME NamedAlike, OneReplica, IInv, SoloInv, NEW p \in Replicas, RemoveFinalizer(p)
  PROVE  SoloInv'
<1>1. /\ snap[p] = obj /\ obj \in Resources /\ pc[p] = "unfinalize"
      /\ Told(p) \cap Objects(world) = {}
  BY DEF RemoveFinalizer, IInv, BaseInv, CoreInv, TypeOK, CopiesInv, NoneInv, SawNone
<1>2. /\ obj'.spec = obj.spec /\ obj'.name = obj.name /\ ~obj'.live
      /\ End(p) /\ UNCHANGED <<cache, world>>
  BY <1>1 DEF RemoveFinalizer, Commit, Resources
<1>3. OfRepository => ResourceName \notin Objects(world)
  <2> SUFFICES ASSUME OfRepository PROVE ResourceName \notin Objects(world)
    OBVIOUS
  <2>1. obj.spec \in Specs /\ obj.spec.kind = "repository" /\ obj.name = ResourceName
    BY <1>1 DEF Resources, SoloInv, NameInv, OfRepository
  <2>2. Targets(obj.spec, ResourceName) = {ResourceName}
    BY <2>1, OwnName
  <2> QED BY <1>1, <2>1, <2>2 DEF Told
<1> QED BY <1>2, <1>3, EndSolo

LEMMA SyncSolo ==
  ASSUME IInv, SoloInv, NEW p \in Replicas, Sync(p) PROVE SoloInv'
<1>1. /\ UNCHANGED <<obj, snap, pc, world>>
      /\ \A q \in Replicas : cache'[q] \in {cache[q], obj}
  BY DEF Sync, IInv, BaseInv, CoreInv, TypeOK
<1>2. KindInv'
  BY <1>1 DEF SoloInv, KindInv
<1>3. NameInv'
  BY <1>1 DEF SoloInv, NameInv, OfRepository
<1>4. FinalizerInv'
  BY <1>1 DEF SoloInv, FinalizerInv, OfRepository
<1> QED BY <1>2, <1>3, <1>4 DEF SoloInv

LEMMA UserSolo ==
  ASSUME IInv, SoloInv, UserDelete \/ UserEdit PROVE SoloInv'
<1>1. PICK new \in Resources :
        /\ UserWrite(new) /\ new.finalizer = obj.finalizer /\ new.name = obj.name
        /\ new.spec = obj.spec \/ new.spec \in Edits(obj.spec)
  BY UserDeletes, UserEdits DEF IInv, BaseInv, CoreInv
<1>2. /\ obj' = new /\ obj.live /\ UNCHANGED <<cache, snap, pc, world>>
      /\ new.spec.kind = obj.spec.kind
  BY <1>1, KindsStay DEF UserWrite, Commit, IInv, BaseInv, CoreInv, TypeOK, Resources
<1>3. KindInv'
  BY <1>2 DEF SoloInv, KindInv
<1>4. NameInv'
  BY <1>1, <1>2 DEF SoloInv, NameInv, OfRepository
<1>5. FinalizerInv'
  BY <1>1, <1>2 DEF SoloInv, FinalizerInv, OfRepository
<1> QED BY <1>3, <1>4, <1>5 DEF SoloInv

LEMMA DriftSolo ==
  ASSUME SoloInv, Drift PROVE SoloInv'
<1>1. obj.live /\ UNCHANGED <<obj, cache, snap, pc>>
  BY DEF Drift
<1>2. KindInv' /\ NameInv'
  BY <1>1 DEF SoloInv, KindInv, NameInv, OfRepository
<1>3. FinalizerInv'
  BY <1>1 DEF SoloInv, FinalizerInv, OfRepository
<1> QED BY <1>2, <1>3 DEF SoloInv

LEMMA OthersSolo ==
  ASSUME OneReplica, IInv, SoloInv, NEW p \in Replicas,
         Publish(p) \/ WriteStatus(p) \/ WriteFails(p) \/ Crash(p)
  PROVE  SoloInv'
<1>1. UNCHANGED <<obj, cache, world>>
  BY StatusWrites DEF Publish, WriteFails, Crash, GiveUp
<1>2. CASE Publish(p)
  BY <1>1, <1>2, GotoSolo DEF Publish
<1>3. CASE WriteStatus(p) \/ WriteFails(p) \/ Crash(p)
  <2>1. End(p)
    BY <1>3 DEF WriteStatus, WriteFails, Crash, GiveUp
  <2> QED BY <1>1, <2>1, EndSolo
<1> QED BY <1>2, <1>3

LEMMA StutterSolo == ASSUME SoloInv, UNCHANGED vars PROVE SoloInv'
BY DEF vars, SoloInv, KindInv, NameInv, FinalizerInv, OfRepository

LEMMA SoloSteps ==
  ASSUME NamedAlike, OneReplica, Truthful, IInv, PlainInv, SoloInv, [Next]_vars
  PROVE  SoloInv'
<1>1. ASSUME NEW p \in Replicas,
             Fetch(p) \/ Initialize(p) \/ AddFinalizer(p) \/ MarkPending(p)
      PROVE  SoloInv'
  BY <1>1, FetchSolo, InitializeSolo, FinalizerSolo
<1>2. ASSUME NEW p \in Replicas, NEW r \in Replies,
             \/ ObserveWorld(p, r) \/ CallCreate(p, r)
             \/ CallUpdate(p, r) \/ CallDelete(p, r)
      PROVE  SoloInv'
  BY <1>2, ObserveSolo, CallCreateSolo, CallSolo
<1>3. ASSUME NEW p \in Replicas,
             \/ RecordCreated(p) \/ RecordFailed(p) \/ RemoveFinalizer(p)
             \/ Publish(p) \/ WriteStatus(p) \/ WriteFails(p) \/ Crash(p) \/ Sync(p)
      PROVE  SoloInv'
  BY <1>3, AnnotateSolo, RemoveFinalizerSolo, OthersSolo, SyncSolo
<1>4. CASE UserDelete \/ UserEdit \/ Drift \/ UNCHANGED vars
  BY <1>4, UserSolo, DriftSolo, StutterSolo
<1>5. {"ok", "rejected"} \subseteq Replies
  BY DEF Replies
<1>6. ASSUME NEW p \in Replicas, ResolveReferences(p) PROVE FALSE
  BY <1>6 DEF ResolveReferences, PlainInv
<1> QED BY <1>1, <1>2, <1>3, <1>4, <1>5, <1>6 DEF Next, Step

-------------------------------------------------------------------------------
(* The Update of a repository makes, if anything, what the resource names. *)
LEMMA UpdateMadeSolo ==
  ASSUME NamedAlike, OneReplica, IInv, SoloInv, NEW p \in Replicas, NEW r \in Replies,
         CallUpdate(p, r)
  PROVE  MadeInv' /\ AimInv'
<1> DEFINE outcomes == Update(snap[p].spec, snap[p].name, world, r)
<1>1. /\ snap[p] \in Resources /\ world \in Worlds /\ obj \in Resources
      /\ pc[p] = "update" /\ Call(p, outcomes, r)
  BY DEF CallUpdate, IInv, BaseInv, CoreInv, TypeOK
<1>2. CASE ~OfRepository
  <2>1. snap[p].spec.kind # "repository"
    BY <1>1, <1>2 DEF SoloInv, KindInv, OfRepository
  <2>2. \A o \in outcomes : Objects(o.world) \subseteq Objects(world)
    BY <1>1, <2>1, UpdatesAdd DEF Resources
  <2> HIDE DEF outcomes
  <2> QED BY <1>1, <2>2, CallMade
<1>3. CASE OfRepository
  <2>1. /\ obj.finalizer /\ obj.name = ResourceName
        /\ snap[p].spec \in Specs /\ snap[p].spec.kind = "repository"
        /\ obj.spec \in Specs /\ obj.spec.kind = "repository" /\ snap[p].name \in Names
    BY <1>1, <1>3 DEF SoloInv, KindInv, NameInv, FinalizerInv, OfRepository, Resources
  <2>2. Targets(obj.spec, obj.name) = {ResourceName}
    BY <2>1, OwnName
  <2>3. \A o \in outcomes : Objects(o.world) \subseteq Objects(world) \cup {ResourceName}
    BY <1>1, <2>1, UpdateMakes
  <2> HIDE DEF outcomes
  <2>4. PICK o \in outcomes :
          Credit(o.world, IF o.err THEN {} ELSE Objects(o.world) \ Objects(world))
    BY <1>1 DEF Call
  <2>5. made' \subseteq made \cup {ResourceName}
    BY <2>3, <2>4 DEF Credit
  <2>6. /\ pc'[p] = "status" /\ \A q \in Replicas : q = p
        /\ UNCHANGED <<obj, snap, fresh, seen>>
    BY <1>1 DEF Call, Goto, IInv, BaseInv, CoreInv, TypeOK, OneReplica
  <2>7. MadeInv'
    BY <2>1, <2>2, <2>5, <2>6 DEF MadeInv, IInv, BaseInv, CoreInv, TypeOK, SawNone, Incomplete
  <2>8. AimInv'
    BY <2>6 DEF AimInv, Creating
  <2> QED BY <2>7, <2>8
<1> QED BY <1>2, <1>3

LEMMA Alone == ASSUME OneReplica, TypeOK PROVE Undisturbed
BY DEF OneReplica, TypeOK, Undisturbed

LEMMA SoloInductive ==
  ASSUME NamedAlike, OneReplica, EditsKeep
  PROVE  IInv /\ PlainInv /\ SoloInv /\ [Next]_vars => IInv' /\ PlainInv' /\ SoloInv'
<1> SUFFICES ASSUME IInv, PlainInv, SoloInv, [Next]_vars
             PROVE  IInv' /\ PlainInv' /\ SoloInv'
  OBVIOUS
<1>1. Honest /\ Truthful
  BY HandlersKeeping, HandlersTruthful DEF Honest
<1>2. PlainInv' /\ harm' = {}
  BY PlainInductive DEF IInv, BaseInv, CoreInv, PlainInv
<1>3. BaseInv'
  BY <1>2, BaseInductive DEF IInv
<1>4. MadeInv' /\ AimInv'
  BY <1>1, <1>2, UpdateMadeSolo, MadeSteps
<1>5. NoneInv'
  BY <1>1, Alone, NoneSteps DEF IInv, BaseInv, CoreInv
<1>6. SoloInv'
  BY <1>1, SoloSteps
<1> QED BY <1>2, <1>3, <1>4, <1>5, <1>6 DEF IInv

LEMMA SoloInvariance ==
  ASSUME NamedAlike, OneReplica, EditsKeep, NoReferences
  PROVE  Spec => [](IInv /\ PlainInv /\ SoloInv)
<1>1. Init => IInv /\ PlainInv /\ SoloInv
  BY InitInv, InitPlain, InitSolo
<1>2. IInv /\ PlainInv /\ SoloInv /\ [Next]_vars => (IInv /\ PlainInv /\ SoloInv)'
  BY SoloInductive
<1> QED BY <1>1, <1>2, PTL DEF Spec

(* One replica reconciling resources of any kind, repositories included,   *)
(* that leave nothing to be resolved: what the provider made and was told  *)
(* of is accounted for at any time, and gone before its resource is, even  *)
(* when an Update creates a repository again that others deleted.          *)
THEOREM SoleReplicaAccounted ==
  ASSUME NamedAlike, OneReplica, EditsKeep, \A st \in Starts : Complete(st.spec)
  PROVE  Spec => [](Accounted /\ NoOrphan)
<1>1. IInv /\ PlainInv /\ SoloInv => Accounted /\ NoOrphan
  BY Accounts, LeavesNothing
<1> QED BY <1>1, CompleteStays, SoloInvariance, PTL

(* With one replica the finalizer comes off only when what the resource    *)
(* names is gone: whatever its kind, whatever is edited, and whatever      *)
(* references are resolved from outdated copies.                           *)
THEOREM SoleReplicaFinalizedLast == ASSUME OneReplica PROVE Spec => GoneFirst
<1>1. Init => CoreInv /\ NoneInv
  BY InitCore, InitMade
<1>2. CoreInv /\ NoneInv /\ [Next]_vars => (CoreInv /\ NoneInv)'
  BY CoreInductive, HandlersTruthful, Alone, NoneSteps DEF CoreInv
<1>3. CoreInv /\ NoneInv /\ [Next]_vars
        => [obj.finalizer /\ ~obj'.finalizer
              => Targets(obj.spec, obj.name) \cap Objects(world) = {}]_vars
  BY Finalizes
<1> QED BY <1>1, <1>2, <1>3, PTL DEF Spec, GoneFirst
===============================================================================
