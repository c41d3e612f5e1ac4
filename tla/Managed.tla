-------------------------------- MODULE Managed --------------------------------
(***************************************************************************)
(* One managed resource and the controllers that reconcile it: the loop    *)
(* each setup.go builds with managed.NewReconciler, in every replica of    *)
(* the provider (leader election is off by default), over an informer      *)
(* cache that lags behind the API server.                                  *)
(*                                                                         *)
(* The loop is crossplane-runtime's and external to the repository.  The   *)
(* handlers it calls are the repository's, one module per kind; they come  *)
(* in as the operators Observe, Create, Update and Delete.                 *)
(*                                                                         *)
(* A client.Update is a compare-and-swap on the resourceVersion: `fresh`   *)
(* holds the replicas whose working copy has the current version, `synced` *)
(* those whose cache has.  Resolved references are written otherwise, by a *)
(* server-side apply that no conflict refuses; `harm` is a history         *)
(* variable and records what it did, never read by an action.  A reconcile *)
(* that ends before it calls Observe changes nothing and is no step.       *)
(***************************************************************************)
EXTENDS Naturals, FiniteSets

CONSTANTS Replicas,           \* processes of the provider
          Specs,              \* values of spec.forProvider
          Names,              \* values of the external-name annotation
          NoName,             \* the annotation is not set
          Worlds,             \* what Upbound and other resources hold that
                              \* concerns the resource
          Ids,                \* external objects there
          Starts,             \* [spec, name, world] the resource may start from
          MaxTrouble,         \* bound on edits, drifts, crashes, lost replies
          NoCopy              \* no reconcile is running

CONSTANTS Default(_, _),      \* spec, name -> the name initializers leave
          Resolve(_, _),      \* spec, world -> what references resolve it to
          Patch(_, _, _),     \* spec, what it resolves to, stored spec -> the
                              \* stored one with the fields that were resolved
          Whole(_, _),        \* spec, what it resolves to -> specs of these
                              \* fields alone that the API accepts
          Observe(_, _, _, _),\* spec, name, world, reply -> a verdict
          Create(_, _, _, _), \* spec, name, world, reply -> outcomes
          Update(_, _, _, _), \* spec, name, world, reply -> outcomes
          Delete(_, _, _, _), \* spec, name, world, reply -> outcomes
          Publishes(_),       \* spec -> Create returns connection details
          Targets(_, _),      \* the objects Observe and Delete address
          Objects(_),         \* the objects that exist in a world
          Drifts(_),          \* worlds that others can turn a world into
          Edits(_)            \* specs a user can change a spec into

(* Upbound carries out a call, turns it down, or carries it out and the    *)
(* reply is lost.                                                          *)
Replies == {"ok", "rejected", "lost"}

Verdicts == {"error", "absent", "outdated", "current"}
Outcomes == [err : BOOLEAN, world : Worlds, name : Names]

ASSUME HandlersAssumption ==
  /\ NoName \in Names
  /\ MaxTrouble \in Nat
  /\ \A s \in Specs, w \in Worlds : \A t \in Resolve(s, w) :
       /\ Whole(s, t) \subseteq Specs
       /\ Patch(s, t, s) = t
       /\ \A u \in Specs : Patch(s, t, u) \in Specs
  /\ Starts \subseteq [spec : Specs, name : Names, world : Worlds]
  /\ \A s \in Specs : Edits(s) \subseteq Specs
  /\ \A s \in Specs, n \in Names : /\ Default(s, n) \in Names
                                   /\ Default(s, Default(s, n)) = Default(s, n)
  /\ \A w \in Worlds : Objects(w) \subseteq Ids /\ Drifts(w) \subseteq Worlds
  /\ \A s \in Specs, n \in Names, w \in Worlds, r \in Replies :
       /\ Resolve(s, w) \subseteq Specs
       /\ Observe(s, n, w, r) \in Verdicts
       /\ Create(s, n, w, r) \subseteq Outcomes
       /\ Update(s, n, w, r) \subseteq Outcomes
       /\ Delete(s, n, w, r) \subseteq Outcomes

CreateMarks == {"none", "pending", "succeeded", "failed"}
Resources == [live : BOOLEAN, deleting : BOOLEAN, finalizer : BOOLEAN,
              spec : Specs, name : Names, create : CreateMarks]

ASSUME NoCopyAssumption == NoCopy \notin Resources

VARIABLES obj,      \* the managed resource in the API server
          cache,    \* the copy in each replica's informer cache
          snap,     \* the working copy of each replica's reconcile
          synced,   \* replicas whose cache is at the current version
          fresh,    \* replicas whose working copy is
          pc,       \* where each replica's reconcile stands
          seen,     \* what its Observe returned
          world,    \* Upbound
          made,     \* objects of the provider's making that still exist
          secret,   \* the external name whose details the Secret holds
          ready,    \* the Available condition
          trouble,  \* disturbances left
          harm      \* what writes of resolved references did to the stored
                    \* resource: "passed" the mark of a creation by, "moved"
                    \* it to another object

vars == <<obj, cache, snap, synced, fresh, pc, seen, world, made, secret,
          ready, trouble, harm>>

Init ==
  \E s \in Starts :
    LET new == [live |-> TRUE, deleting |-> FALSE, finalizer |-> FALSE,
                spec |-> s.spec, name |-> s.name, create |-> "none"]
    IN  /\ obj = new
        /\ cache = [p \in Replicas |-> new]
        /\ snap = [p \in Replicas |-> NoCopy]
        /\ synced = Replicas
        /\ fresh = {}
        /\ pc = [p \in Replicas |-> "idle"]
        /\ seen = [p \in Replicas |-> "error"]
        /\ world = s.world
        /\ made = {}
        /\ secret = NoName
        /\ ready = FALSE
        /\ trouble = MaxTrouble
        /\ harm = {}

-------------------------------------------------------------------------------
(* Where a reconcile goes, and the writes it makes.                        *)

Goto(p, place) == pc' = [pc EXCEPT ![p] = place]

Work(p, copy) == snap' = [snap EXCEPT ![p] = copy]

(* The reconcile ends: its working copy is thrown away.                    *)
End(p) ==
  /\ Goto(p, "idle")
  /\ Work(p, NoCopy)
  /\ seen' = [seen EXCEPT ![p] = "error"]

(* The API server stores a new object: every cache lags behind it, and of  *)
(* the working copies only those of `writers` are of its version.          *)
Commit(new, writers) ==
  /\ obj' = new
  /\ fresh' = writers
  /\ synced' = {}

(* A client.Update, refused on a conflict, after which the loop goes on.   *)
Swap(p, new, place) ==
  /\ p \in fresh
  /\ Commit(new, {p})
  /\ Work(p, new)
  /\ Goto(p, place)
  /\ UNCHANGED seen

(* A call to Upbound left this world; `new` are objects known to be ours.  *)
Credit(w, new) ==
  /\ world' = w
  /\ made' = (made \cup new) \cap Objects(w)

Disturb == trouble > 0 /\ trouble' = trouble - 1

(* The reply to a call; a lost one is a disturbance.                       *)
Answer(reply) == IF reply = "lost" THEN Disturb ELSE UNCHANGED trouble

-------------------------------------------------------------------------------
(* The reconcile.                                                          *)

(* meta.ExternalCreateIncomplete: a creation began and was not recorded.   *)
Incomplete(o) == o.create = "pending"

(* Past the initializers the loop refuses an incomplete creation: setup    *)
(* never says WithDeterministicExternalName.  Mutant: setup does say it.   *)
Proceeds_Deterministic(o) == TRUE

Proceeds(o) == ~Incomplete(o)

(* References are resolved unless the resource is being deleted.  Finding  *)
(* them resolved already changes nothing and is no step.                   *)
After(o) == IF o.deleting \/ Resolve(o.spec, world) = {o.spec}
              THEN "observe" ELSE "resolve"

Initialized(o) == Default(o.spec, o.name) = o.name

(* Mutant: a resource that is not found is reconciled all the same.        *)
Fetch_Gone(p) ==
  /\ pc[p] = "idle"
  /\ Initialized(cache[p]) => Proceeds(cache[p])
  /\ Work(p, cache[p])
  /\ fresh' = fresh \cup ({p} \cap synced)
  /\ Goto(p, IF Initialized(cache[p]) THEN After(cache[p]) ELSE "initialize")
  /\ UNCHANGED <<obj, cache, synced, seen, world, made, secret, ready, trouble, harm>>

Fetch(p) ==
  /\ pc[p] = "idle"
  /\ cache[p].live
  /\ Initialized(cache[p]) => Proceeds(cache[p])
  /\ Work(p, cache[p])
  /\ fresh' = fresh \cup ({p} \cap synced)
  /\ Goto(p, IF Initialized(cache[p]) THEN After(cache[p]) ELSE "initialize")
  /\ UNCHANGED <<obj, cache, synced, seen, world, made, secret, ready, trouble, harm>>

(* NewNameAsExternalName, where setup passes it.                           *)
Initialize(p) ==
  /\ pc[p] = "initialize"
  /\ LET new == [snap[p] EXCEPT !.name = Default(snap[p].spec, @)]
     IN  \/ Proceeds(new) /\ Swap(p, new, After(new))
         \/ ~Proceeds(new) /\ p \in fresh /\ Commit(new, {}) /\ End(p)
  /\ UNCHANGED <<cache, world, made, secret, ready, trouble, harm>>

(* The resolved fields are forced on whatever is stored now, and that      *)
(* becomes the working copy: with the mark, the name and the deletion that *)
(* an outdated copy did not show when it passed the check of Proceeds.     *)
Harms(new) ==
  {h \in {"passed", "moved"} :
     \/ h = "passed" /\ Incomplete(obj)
     \/ h = "moved" /\ ~(Targets(obj.spec, obj.name)
                           \subseteq Targets(new.spec, new.name))}

Apply(p, new) ==
  /\ obj.live
  /\ IF new = obj THEN fresh' = fresh \cup {p} /\ UNCHANGED <<obj, synced>>
                  ELSE Commit(new, {p})
  /\ Work(p, new)
  /\ harm' = harm \cup Harms(new)
  /\ UNCHANGED ready

(* To apply to a resource that is gone makes a new one of these fields.    *)
Remake(p, spec) ==
  LET new == [live |-> TRUE, deleting |-> FALSE, finalizer |-> FALSE,
              spec |-> spec, name |-> NoName, create |-> "none"]
  IN  /\ ~obj.live
      /\ Commit(new, {p})
      /\ Work(p, new)
      /\ ready' = FALSE
      /\ UNCHANGED harm

(* A reference that stands for nothing ends the reconcile, and so does a   *)
(* resource that is gone and cannot be made of the resolved fields alone.  *)
ResolveReferences(p) ==
  /\ pc[p] = "resolve"
  /\ LET resolved == Resolve(snap[p].spec, world)
     IN  \/ /\ \E s \in resolved :
                 \/ Apply(p, [obj EXCEPT !.spec = Patch(snap[p].spec, s, @)])
                 \/ \E t \in Whole(snap[p].spec, s) : Remake(p, t)
            /\ Goto(p, "observe")
            /\ UNCHANGED seen
         \/ /\ \/ resolved = {}
               \/ ~obj.live /\ \E s \in resolved : Whole(snap[p].spec, s) = {}
            /\ End(p)
            /\ fresh' = fresh \ {p}
            /\ UNCHANGED <<obj, synced, ready, harm>>
  /\ UNCHANGED <<cache, world, made, secret, trouble>>

(* What the loop does of a verdict once the resource has the finalizer.    *)
Act(verdict) == CASE verdict = "absent"   -> "pending"
                  [] verdict = "outdated" -> "update"
                  [] OTHER                -> "status"

(* What it does of the verdict on a resource.                              *)
React(o, verdict) ==
  CASE o.deleting -> IF verdict = "absent" THEN "unfinalize" ELSE "delete"
    [] ~o.deleting /\ o.finalizer -> Act(verdict)
    [] OTHER -> "finalize"

ObserveWorld(p, reply) ==
  /\ pc[p] = "observe"
  /\ LET verdict == Observe(snap[p].spec, snap[p].name, world, reply)
     IN  \/ /\ verdict = "error"
            /\ End(p)
            /\ fresh' = fresh \ {p}
         \/ /\ verdict # "error"
            /\ seen' = [seen EXCEPT ![p] = verdict]
            /\ Goto(p, React(snap[p], verdict))
            /\ UNCHANGED <<snap, fresh>>
  /\ UNCHANGED <<obj, cache, synced, world, made, secret, ready, trouble, harm>>

AddFinalizer(p) ==
  /\ pc[p] = "finalize"
  /\ Swap(p, [snap[p] EXCEPT !.finalizer = TRUE], Act(seen[p]))
  /\ UNCHANGED <<cache, world, made, secret, ready, trouble, harm>>

(* The external-create-pending annotation, written before the call.        *)
MarkPending(p) ==
  /\ pc[p] = "pending"
  /\ Swap(p, [snap[p] EXCEPT !.create = "pending"], "create")
  /\ UNCHANGED <<cache, world, made, secret, ready, trouble, harm>>

CallCreate(p, reply) ==
  /\ pc[p] = "create"
  /\ Answer(reply)
  /\ \E o \in Create(snap[p].spec, snap[p].name, world, reply) :
       /\ Credit(o.world, IF o.err THEN {}
                          ELSE (Objects(o.world) \ Objects(world))
                                 \cup Targets(snap[p].spec, o.name))
       /\ Work(p, [snap[p] EXCEPT !.name = o.name])
       /\ Goto(p, IF o.err THEN "failed" ELSE "record")
  /\ fresh' = fresh \ {p}
  /\ UNCHANGED <<obj, cache, synced, seen, secret, ready, harm>>

(* UpdateCriticalAnnotations retries on a conflict with the object it      *)
(* reads again: it puts the annotations on whatever is stored now.         *)
Annotate(p, mark, place) ==
  LET new == [obj EXCEPT !.name = snap[p].name, !.create = mark]
  IN  /\ obj.live
      /\ Commit(new, {p})
      /\ Work(p, new)
      /\ Goto(p, place)
      /\ UNCHANGED <<cache, seen, world, made, secret, ready, trouble, harm>>

RecordCreated(p) == /\ pc[p] = "record"
                    /\ Annotate(p, "succeeded",
                                IF Publishes(snap[p].spec) THEN "publish" ELSE "status")

RecordFailed(p) == pc[p] = "failed" /\ Annotate(p, "failed", "status")

(* The connection details of the creation: no other step has them.         *)
Publish(p) ==
  /\ pc[p] = "publish"
  /\ secret' = snap[p].name
  /\ Goto(p, "status")
  /\ UNCHANGED <<obj, cache, snap, synced, fresh, seen, world, made, ready,
                 trouble, harm>>

(* Any call but Create: the name stays, the reconcile ends with a status.  *)
Call(p, outcomes, reply) ==
  /\ Answer(reply)
  /\ \E o \in outcomes :
       Credit(o.world, IF o.err THEN {} ELSE Objects(o.world) \ Objects(world))
  /\ Goto(p, "status")
  /\ UNCHANGED <<obj, cache, snap, synced, fresh, seen, secret, ready, harm>>

CallUpdate(p, reply) ==
  /\ pc[p] = "update"
  /\ Call(p, Update(snap[p].spec, snap[p].name, world, reply), reply)

CallDelete(p, reply) ==
  /\ pc[p] = "delete"
  /\ Call(p, Delete(snap[p].spec, snap[p].name, world, reply), reply)

RemoveFinalizer(p) ==
  /\ pc[p] = "unfinalize"
  /\ p \in fresh
  /\ Commit([obj EXCEPT !.finalizer = FALSE, !.live = FALSE], {})
  /\ End(p)
  /\ UNCHANGED <<cache, world, made, secret, ready, trouble, harm>>

(* The status update that ends a reconcile: the conditions that Observe    *)
(* and the loop set on the working copy.  One that changes nothing leaves  *)
(* the version alone.                                                      *)
WriteStatus(p) ==
  /\ pc[p] = "status"
  /\ p \in fresh
  /\ ready' = (seen[p] # "absent" /\ ~snap[p].deleting)
  /\ IF ready' = ready THEN /\ fresh' = fresh \ {p}
                            /\ UNCHANGED <<obj, synced>>
                       ELSE Commit(obj, {})
  /\ End(p)
  /\ UNCHANGED <<cache, world, made, secret, trouble, harm>>

(* A write fails, on a conflict or otherwise, and the reconcile with it.   *)
Writing == {"initialize", "resolve", "finalize", "pending", "record", "failed",
            "publish", "unfinalize", "status"}

GiveUp(p) ==
  /\ End(p)
  /\ fresh' = fresh \ {p}
  /\ UNCHANGED <<obj, cache, synced, world, made, secret, ready, harm>>

WriteFails(p) == pc[p] \in Writing /\ GiveUp(p) /\ UNCHANGED trouble

-------------------------------------------------------------------------------
(* Around it: the informer, crashes, the user and others in Upbound.       *)

Sync(p) ==
  /\ p \notin synced
  /\ cache' = [cache EXCEPT ![p] = obj]
  /\ synced' = synced \cup {p}
  /\ UNCHANGED <<obj, fresh, snap, pc, seen, world, made, secret, ready, trouble, harm>>

Crash(p) == pc[p] # "idle" /\ GiveUp(p) /\ Disturb

UserWrite(new) ==
  /\ obj.live
  /\ Commit(new, {})
  /\ UNCHANGED <<cache, snap, pc, seen, world, made, secret, ready, harm>>

(* Deleting a resource without the finalizer removes it at once.           *)
UserDelete == /\ ~obj.deleting
              /\ UserWrite([obj EXCEPT !.deleting = TRUE, !.live = obj.finalizer])
              /\ UNCHANGED trouble

UserEdit == /\ Disturb
            /\ \E s \in Edits(obj.spec) : UserWrite([obj EXCEPT !.spec = s])

Drift == /\ Disturb
         /\ obj.live
         /\ \E w \in Drifts(world) : Credit(w, {})
         /\ UNCHANGED <<obj, cache, snap, synced, fresh, pc, seen, secret, ready, harm>>

-------------------------------------------------------------------------------
Step(p) ==
  \/ Fetch(p)
  \/ Initialize(p)
  \/ ResolveReferences(p)
  \/ \E reply \in {"ok", "rejected"} : ObserveWorld(p, reply)
  \/ \E reply \in Replies : \/ CallCreate(p, reply)
                            \/ CallUpdate(p, reply)
                            \/ CallDelete(p, reply)
  \/ AddFinalizer(p)
  \/ MarkPending(p)
  \/ RecordCreated(p)
  \/ RecordFailed(p)
  \/ Publish(p)
  \/ RemoveFinalizer(p)
  \/ WriteStatus(p)
  \/ WriteFails(p)

Next == \/ \E p \in Replicas : Step(p) \/ Sync(p) \/ Crash(p)
        \/ UserDelete
        \/ UserEdit
        \/ Drift

Spec == Init /\ [][Next]_vars

(* A step in which neither the API server nor Upbound fails: the writes    *)
(* refused are those of outdated copies.                                   *)
Smooth(p) ==
  \/ Fetch(p)
  \/ Initialize(p)
  \/ ResolveReferences(p)
  \/ ObserveWorld(p, "ok")
  \/ AddFinalizer(p)
  \/ MarkPending(p)
  \/ CallCreate(p, "ok")
  \/ RecordCreated(p)
  \/ RecordFailed(p)
  \/ Publish(p)
  \/ CallUpdate(p, "ok")
  \/ CallDelete(p, "ok")
  \/ RemoveFinalizer(p)
  \/ WriteStatus(p)
  \/ /\ p \notin fresh
     /\ pc[p] \notin {"resolve", "record", "failed", "publish"}
     /\ WriteFails(p)

Calm == \/ \E p \in Replicas : Smooth(p) \/ Sync(p) \/ Crash(p)
        \/ UserDelete
        \/ UserEdit
        \/ Drift

(***************************************************************************)
(* Fairness: a reconcile runs on and the queue retries it, informers catch *)
(* up, and failures, as many as there are, are transient.                  *)
(***************************************************************************)
Fairness == /\ \A p \in Replicas : WF_vars(Step(p)) /\ WF_vars(Sync(p))
            /\ <>[][Calm]_vars

FairSpec == Spec /\ Fairness

-------------------------------------------------------------------------------
(* What a kind's handlers must keep to, so that nothing is left behind.    *)
(* No edit changes which object is meant, and references that are resolved *)
(* take none away.                                                         *)
Keeping ==
  \A s \in Specs, n \in Names :
    /\ Default(s, n) # n => Targets(s, n) = {}
    /\ \A t \in Edits(s) : Targets(t, n) = Targets(s, n)
    /\ \A w \in Worlds : \A t \in Resolve(s, w) : Targets(s, n) \subseteq Targets(t, n)

(* "absent" is never said of an object that exists, and only Create brings *)
(* objects about, none but those the external name it returns stands for.  *)
(* Update is apart: a repository's may create.                             *)
Truthful ==
  /\ \A s \in Specs, n \in Names, w \in Worlds, r \in Replies :
       /\ Observe(s, n, w, r) = "absent" => Targets(s, n) \cap Objects(w) = {}
       /\ \A o \in Create(s, n, w, r) :
            ~o.err => Objects(o.world) \subseteq Objects(w) \cup Targets(s, o.name)
       /\ \A o \in Delete(s, n, w, r) : Objects(o.world) \subseteq Objects(w)
  /\ \A w \in Worlds : \A v \in Drifts(w) : Objects(v) \subseteq Objects(w)

Honest == Keeping /\ Truthful

UpdateAddsNothing ==
  \A s \in Specs, n \in Names, w \in Worlds, r \in Replies :
    \A o \in Update(s, n, w, r) : Objects(o.world) \subseteq Objects(w)

Contract == Honest /\ UpdateAddsNothing

-------------------------------------------------------------------------------
(* Properties.                                                             *)

Places == Writing \cup {"idle", "observe", "create", "update", "delete"}

(* Every variable stays within its domain; a reconcile works on a resource *)
(* that existed when it was read, and made holds nothing that is gone.     *)
TypeOK ==
  /\ obj \in Resources
  /\ cache \in [Replicas -> Resources]
  /\ snap \in [Replicas -> Resources \cup {NoCopy}]
  /\ synced \subseteq Replicas
  /\ fresh \subseteq Replicas
  /\ pc \in [Replicas -> Places]
  /\ seen \in [Replicas -> Verdicts]
  /\ world \in Worlds
  /\ made \subseteq Objects(world)
  /\ secret \in Names
  /\ ready \in BOOLEAN
  /\ trouble \in 0 .. MaxTrouble
  /\ harm \subseteq {"passed", "moved"}
  /\ \A p \in Replicas : pc[p] # "idle" => snap[p] \in Resources /\ snap[p].live

(* Between the pending annotation and the record of what the call did.     *)
Creating(p) == pc[p] \in {"create", "record", "failed"}

(* Two replicas do not create at the same time, and the resource says so   *)
(* while one does: the annotation, written compare-and-swap before the     *)
(* call, is a lock that survives a crash.                                  *)
OneCreator ==
  /\ \A p, q \in Replicas : Creating(p) /\ Creating(q) => p = q
  /\ \A p \in Replicas : Creating(p) => obj.live /\ Incomplete(obj)

(* However stale the caches, one thing only gets a replica past the lock:  *)
(* references that it resolves from a copy without the mark.               *)
OneCreatorUnlessPassed == "passed" \in harm \/ OneCreator

(* The annotation is the lock of CreationLock: lost with the replica that  *)
(* held it, given back only by the one that recorded what came of the      *)
(* creation, and picked by a resolution that passes the mark by.           *)
Lock == INSTANCE CreationLock
          WITH holders <- {p \in Replicas : Creating(p)},
               lost <- Incomplete(obj) /\ \A p \in Replicas : ~Creating(p),
               picked <- "passed" \in harm
LockSpec == Lock!Spec

(* Such a resolution was made from an outdated copy: a cache that lags, or *)
(* a resource that was written to between the read and the resolution.     *)
OnlyStaleHarm ==
  [][harm' # harm => \E p \in Replicas : pc[p] = "resolve" /\ p \notin fresh]_vars

(* An object the provider made is the one the resource names, unless the   *)
(* resource is marked as having an unfinished creation.                    *)
Accounted == made \subseteq Targets(obj.spec, obj.name) \/ Incomplete(obj)

(* The resource never goes away and leaves behind an object that the       *)
(* provider made and was told of.                                          *)
NoOrphan == ~obj.live => made = {}

(* Both, unless a resolution got in the way.                               *)
AccountedUnlessHarmed == harm # {} \/ Accounted
NoOrphanUnlessHarmed == harm # {} \/ NoOrphan

(* The finalizer comes off only once the object the resource names is gone.*)
GoneFirst == [][obj.finalizer /\ ~obj'.finalizer
                  => Targets(obj.spec, obj.name) \cap Objects(world) = {}]_vars

(* Deletion ends, unless an unfinished creation blocks it for good.        *)
DeletionEnds == (obj.deleting ~> ~obj.live) \/ <>[](obj.live /\ Incomplete(obj))

(* Once nobody interferes the object comes to be as the spec says, and the *)
(* resource to say so; the same exceptions.                                *)
InShape == Observe(obj.spec, obj.name, world, "ok") = "current" /\ ready
Converges == \/ <>[]InShape
             \/ <>(obj.deleting \/ ~obj.live)
             \/ <>[]Incomplete(obj)

(* The handlers' comments call the details Create returns "stored as the   *)
(* connection secret" (token/controller.go:146): once a creation succeeded *)
(* the Secret comes to hold the details of the object the resource names.  *)
SecretFollows == obj.create = "succeeded"
                   ~> \/ secret = obj.name
                      \/ obj.create # "succeeded"
                      \/ obj.deleting
                      \/ ~obj.live
===============================================================================
