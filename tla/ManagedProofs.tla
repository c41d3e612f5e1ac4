---------------------------- MODULE ManagedProofs ----------------------------
(***************************************************************************)
(* For any handlers, any number of replicas, any cache lag and any crashes *)
(* no two replicas create at a time; and for every kind whose handlers     *)
(* keep to Contract no object the provider made is left behind when its    *)
(* resource goes away.                                                     *)
(***************************************************************************)
EXTENDS Managed, TLAPS

(* A copy of the current version, in a cache or at work, is the resource.  *)
CopiesInv ==
  /\ \A p \in synced : cache[p] = obj
  /\ \A p \in fresh : /\ pc[p] \notin {"idle", "record", "failed"}
                      /\ snap[p] = obj

(* What holds whatever references do: no copy that is marked gets to their *)
(* resolution, and what is gone has no finalizer.                          *)
EntryInv ==
  /\ \A p \in Replicas : pc[p] = "resolve" => ~Incomplete(snap[p])
  /\ ~obj.live => ~obj.finalizer

CoreInv == TypeOK /\ CopiesInv /\ EntryInv

(* What the places of a reconcile say of its working copy.                 *)
WorkInv ==
  \A p \in Replicas :
    /\ pc[p] \in {"observe", "finalize", "pending", "update", "delete",
                  "unfinalize"} => ~Incomplete(snap[p])
    /\ pc[p] = "pending" => snap[p].finalizer
    /\ pc[p] = "initialize" => ~Initialized(snap[p])

(* The pending annotation is a lock, and the finalizer outlives it.        *)
LockInv ==
  /\ Incomplete(obj) => obj.finalizer
  /\ \A p \in Replicas : Creating(p) => /\ obj.live
                                        /\ obj.finalizer
                                        /\ Incomplete(obj)
  /\ \A p, q \in Replicas : Creating(p) /\ Creating(q) => p = q

(* What the loop keeps to until a resolution passes a mark by.             *)
BaseInv == CoreInv /\ WorkInv /\ LockInv

Told(p) == Targets(snap[p].spec, snap[p].name)

(* A reconcile that saw no object and has the current version.             *)
SawNone(p) == \/ pc[p] \in {"pending", "unfinalize"}
              \/ pc[p] = "finalize" /\ seen[p] = "absent"

NoneInv == \A p \in fresh : SawNone(p) => Told(p) \cap Objects(world) = {}

(* Where the objects are that the provider made.                           *)
MadeInv ==
  /\ ~obj.finalizer => made = {}
  /\ ~Incomplete(obj) => made \subseteq Targets(obj.spec, obj.name)
  /\ \A p \in Replicas :
       /\ pc[p] \in {"create", "failed"} => made = {}
       /\ pc[p] = "record" => made \subseteq Told(p)

(* What a creation works on means what the resource means: while the lock  *)
(* is held nothing but an edit changes the stored spec.                    *)
AimInv == \A p \in Replicas : Creating(p) =>
            \A n \in Names : Targets(snap[p].spec, n) = Targets(obj.spec, n)

IInv == BaseInv /\ MadeInv /\ NoneInv /\ AimInv

-------------------------------------------------------------------------------
(* Types.                                                                  *)

LEMMA OutcomeTypes ==
  ASSUME NEW s \in Specs, NEW n \in Names, NEW w \in Worlds, NEW r \in Replies
  PROVE  /\ Observe(s, n, w, r) \in Verdicts
         /\ \A o \in Create(s, n, w, r) \cup Update(s, n, w, r)
                       \cup Delete(s, n, w, r) :
              o.err \in BOOLEAN /\ o.world \in Worlds /\ o.name \in Names
BY HandlersAssumption DEF Outcomes

LEMMA ResolveTypes ==
  ASSUME NEW s \in Specs, NEW w \in Worlds
  PROVE  /\ Resolve(s, w) \subseteq Specs
         /\ \A t \in Resolve(s, w) : /\ Whole(s, t) \subseteq Specs
                                     /\ Patch(s, t, s) = t
                                     /\ \A u \in Specs : Patch(s, t, u) \in Specs
<1>1. "ok" \in Replies /\ NoName \in Names
  BY HandlersAssumption DEF Replies
<1> QED BY <1>1, HandlersAssumption

(* Where a name means the same object whatever the spec says, edits and    *)
(* references change nothing about it.                                     *)
LEMMA MeantByName ==
  ASSUME \A s, t \in Specs, n \in Names : Targets(s, n) = Targets(t, n)
  PROVE  \A s \in Specs, n \in Names :
           /\ \A t \in Edits(s) : Targets(t, n) = Targets(s, n)
           /\ \A w \in Worlds : \A t \in Resolve(s, w) : Targets(s, n) \subseteq Targets(t, n)
<1>1. ASSUME NEW s \in Specs, NEW n \in Names, NEW t \in Edits(s)
      PROVE  Targets(t, n) = Targets(s, n)
  <2>1. t \in Specs
    BY HandlersAssumption
  <2> QED BY <2>1
<1>2. ASSUME NEW s \in Specs, NEW n \in Names, NEW w \in Worlds, NEW t \in Resolve(s, w)
      PROVE  Targets(s, n) \subseteq Targets(t, n)
  <2>1. t \in Specs
    BY ResolveTypes
  <2>2. Targets(s, n) = Targets(t, n)
    BY <2>1
  <2> QED BY <2>2
<1> QED BY <1>1, <1>2

LEMMA DisturbType ==
  ASSUME trouble \in 0 .. MaxTrouble, Disturb
  PROVE  trouble' \in 0 .. MaxTrouble
BY HandlersAssumption DEF Disturb

LEMMA AnswerType ==
  ASSUME trouble \in 0 .. MaxTrouble, NEW r, Answer(r)
  PROVE  trouble' \in 0 .. MaxTrouble
BY DisturbType DEF Answer

LEMMA CreditType ==
  ASSUME NEW w \in Worlds, NEW new, Credit(w, new)
  PROVE  world' \in Worlds /\ made' \subseteq Objects(world)'
BY DEF Credit

(* The rest of TypeOK, for the parts that most steps change.               *)
CopyTypes ==
  /\ snap \in [Replicas -> Resources \cup {NoCopy}]
  /\ pc \in [Replicas -> Places]
  /\ seen \in [Replicas -> Verdicts]
  /\ \A p \in Replicas : pc[p] # "idle" => snap[p] \in Resources /\ snap[p].live

LEMMA EndTypes ==
  ASSUME TypeOK, NEW p \in Replicas, End(p)
  PROVE  CopyTypes'
BY DEF TypeOK, CopyTypes, End, Goto, Work, Places, Verdicts

LEMMA WorkTypes ==
  ASSUME TypeOK, NEW p \in Replicas, NEW copy \in Resources, copy.live,
         NEW place \in Places, Work(p, copy), Goto(p, place), UNCHANGED seen
  PROVE  CopyTypes'
BY DEF TypeOK, CopyTypes, Goto, Work

LEMMA GotoTypes ==
  ASSUME TypeOK, NEW p \in Replicas, pc[p] # "idle", NEW place \in Places,
         Goto(p, place), UNCHANGED snap, seen' \in [Replicas -> Verdicts]
  PROVE  CopyTypes'
BY DEF TypeOK, CopyTypes, Goto

LEMMA PlacesOf ==
  ASSUME NEW o, NEW v
  PROVE  Act(v) \in Places /\ React(o, v) \in Places
BY DEF Act, React, Places, Writing

LEMMA InitTypes == Init => TypeOK
<1> SUFFICES ASSUME Init PROVE TypeOK
  OBVIOUS
<1> PICK s \in Starts :
      LET new == [live |-> TRUE, deleting |-> FALSE, finalizer |-> FALSE,
                  spec |-> s.spec, name |-> s.name, create |-> "none"]
      IN  /\ obj = new
          /\ cache = [p \in Replicas |-> new]
          /\ world = s.world
  BY DEF Init
<1>1. s.spec \in Specs /\ s.name \in Names /\ s.world \in Worlds
  BY HandlersAssumption
<1>2. obj \in Resources /\ cache \in [Replicas -> Resources] /\ world \in Worlds
  BY <1>1 DEF Resources, CreateMarks
<1>3. secret \in Names /\ ready \in BOOLEAN
  BY HandlersAssumption DEF Init
<1>5. trouble \in 0 .. MaxTrouble
  <2>1. trouble = MaxTrouble
    BY DEF Init
  <2>2. MaxTrouble \in Nat
    BY HandlersAssumption
  <2> QED BY <2>1, <2>2
<1>4. /\ snap = [p \in Replicas |-> NoCopy]
      /\ pc = [p \in Replicas |-> "idle"]
      /\ seen = [p \in Replicas |-> "error"]
      /\ synced = Replicas /\ fresh = {} /\ made = {} /\ harm = {}
  BY DEF Init
<1> QED
  BY <1>2, <1>3, <1>4, <1>5 DEF TypeOK, Places, Verdicts

(* Before the look at Upbound come the references, or nothing.             *)
LEMMA Afters ==
  ASSUME NEW o
  PROVE  /\ After(o) \in {"observe", "resolve"}
         /\ After(o) \in Places
         /\ After(o) \notin {"idle", "create", "record", "failed", "initialize",
                             "pending", "unfinalize", "finalize"}
BY DEF After, Places, Writing

LEMMA FetchTypes ==
  ASSUME TypeOK, NEW p \in Replicas, Fetch(p) PROVE TypeOK'
<1> DEFINE place == IF Initialized(cache[p]) THEN After(cache[p]) ELSE "initialize"
<1>1. /\ cache[p] \in Resources /\ cache[p].live /\ place \in Places
      /\ Work(p, cache[p]) /\ Goto(p, place) /\ UNCHANGED seen
  BY Afters DEF Fetch, TypeOK, Places, Writing
<1> HIDE DEF place
<1>2. CopyTypes'
  BY <1>1, WorkTypes
<1> QED BY <1>2 DEF Fetch, TypeOK, CopyTypes

LEMMA InitializeTypes ==
  ASSUME TypeOK, NEW p \in Replicas, Initialize(p) PROVE TypeOK'
<1> DEFINE new == [snap[p] EXCEPT !.name = Default(snap[p].spec, @)]
<1>1. snap[p] \in Resources /\ snap[p].live
  BY DEF Initialize, TypeOK
<1>2. new \in Resources /\ new.live
  BY <1>1, HandlersAssumption DEF Resources
<1>3. obj' \in Resources /\ fresh' \subseteq Replicas /\ synced' = {}
  BY <1>2 DEF Initialize, Swap, Commit
<1>4. CopyTypes'
  <2>1. CASE Swap(p, new, After(new))
    BY <2>1, <1>2, WorkTypes, Afters DEF Swap
  <2>2. CASE End(p)
    BY <2>2, EndTypes
  <2> QED BY <2>1, <2>2 DEF Initialize
<1> QED BY <1>3, <1>4 DEF Initialize, TypeOK, CopyTypes

LEMMA SwapTypes ==
  ASSUME TypeOK, NEW p \in Replicas, NEW new \in Resources, new.live,
         NEW place \in Places, Swap(p, new, place),
         UNCHANGED <<cache, world, made, secret, ready, trouble, harm>>
  PROVE  TypeOK'
<1>1. CopyTypes'
  BY WorkTypes DEF Swap
<1>2. obj' \in Resources /\ fresh' \subseteq Replicas /\ synced' = {}
  BY DEF Swap, Commit
<1> QED BY <1>1, <1>2 DEF TypeOK, CopyTypes

(* What a reconcile that resolved its references wrote.                    *)
Wrote(p, new) ==
  /\ obj' = new /\ new \in Resources /\ new.live
  /\ snap' = [snap EXCEPT ![p] = new]
  /\ pc' = [pc EXCEPT ![p] = "observe"]
  /\ \/ fresh' = fresh \cup {p} /\ UNCHANGED <<obj, synced>>
     \/ fresh' = {p} /\ synced' = {}
  /\ UNCHANGED seen

Applied(p, new) ==
  /\ obj.live /\ obj \in Resources
  /\ Wrote(p, new)
  /\ new.finalizer = obj.finalizer /\ new.create = obj.create /\ new.name = obj.name
  /\ \E s \in Resolve(snap[p].spec, world) :
       new.spec = Patch(snap[p].spec, s, obj.spec)
  /\ harm' = harm \cup Harms(new)
  /\ UNCHANGED ready

Remade(p, new) ==
  /\ ~obj.live
  /\ Wrote(p, new)
  /\ ~new.finalizer /\ ~Incomplete(new)
  /\ \E s \in Resolve(snap[p].spec, world) : new.spec \in Whole(snap[p].spec, s)
  /\ ready' = FALSE /\ UNCHANGED harm

LEMMA Resolves ==
  ASSUME TypeOK, NEW p \in Replicas, ResolveReferences(p)
  PROVE  /\ pc[p] = "resolve" /\ snap[p] \in Resources /\ world \in Worlds
         /\ UNCHANGED <<cache, world, made, secret, trouble>>
         /\ \/ \E new \in Resources : Applied(p, new) \/ Remade(p, new)
            \/ End(p) /\ fresh' = fresh \ {p} /\ UNCHANGED <<obj, synced, ready, harm>>
<1>1. /\ pc[p] = "resolve" /\ snap[p] \in Resources /\ world \in Worlds
      /\ obj \in Resources /\ snap[p].spec \in Specs
      /\ UNCHANGED <<cache, world, made, secret, trouble>>
  BY DEF ResolveReferences, TypeOK, Resources
<1>2. ASSUME NEW s \in Resolve(snap[p].spec, world),
             Apply(p, [obj EXCEPT !.spec = Patch(snap[p].spec, s, @)]),
             Goto(p, "observe"), UNCHANGED seen
      PROVE  \E new \in Resources : Applied(p, new)
  <2> DEFINE new == [obj EXCEPT !.spec = Patch(snap[p].spec, s, @)]
  <2>1. Patch(snap[p].spec, s, obj.spec) \in Specs
    BY <1>1, ResolveTypes DEF Resources
  <2>2. /\ new \in Resources /\ new.finalizer = obj.finalizer
        /\ new.create = obj.create /\ new.name = obj.name /\ new.live = obj.live
        /\ new.spec = Patch(snap[p].spec, s, obj.spec)
    BY <1>1, <2>1 DEF Resources
  <2>3. Apply(p, new)
    BY <1>2
  <2> HIDE DEF new
  <2>4. Wrote(p, new)
    BY <1>2, <2>2, <2>3 DEF Wrote, Apply, Commit, Work, Goto
  <2> QED BY <1>1, <2>2, <2>3, <2>4 DEF Applied, Apply
<1>3. ASSUME NEW s \in Resolve(snap[p].spec, world),
             NEW t \in Whole(snap[p].spec, s), Remake(p, t),
             Goto(p, "observe"), UNCHANGED seen
      PROVE  \E new \in Resources : Remade(p, new)
  <2> DEFINE new == [live |-> TRUE, deleting |-> FALSE, finalizer |-> FALSE,
                     spec |-> t, name |-> NoName, create |-> "none"]
  <2>1. t \in Specs /\ NoName \in Names
    BY <1>1, ResolveTypes, HandlersAssumption
  <2>2. /\ new \in Resources /\ new.live /\ ~new.finalizer /\ ~Incomplete(new)
        /\ new.spec = t
    BY <2>1 DEF Resources, CreateMarks, Incomplete
  <2>3. /\ ~obj.live /\ Commit(new, {p}) /\ Work(p, new) /\ ready' = FALSE
        /\ UNCHANGED harm
    BY <1>3 DEF Remake
  <2> HIDE DEF new
  <2>4. Wrote(p, new)
    BY <1>3, <2>2, <2>3 DEF Wrote, Commit, Work, Goto
  <2> QED BY <2>2, <2>3, <2>4 DEF Remade
<1> QED BY <1>1, <1>2, <1>3 DEF ResolveReferences

LEMMA ResolveReferencesTypes ==
  ASSUME TypeOK, NEW p \in Replicas, ResolveReferences(p) PROVE TypeOK'
<1>1. /\ pc[p] = "resolve" /\ UNCHANGED <<cache, world, made, secret, trouble>>
      /\ \/ \E new \in Resources : Applied(p, new) \/ Remade(p, new)
         \/ End(p) /\ fresh' = fresh \ {p} /\ UNCHANGED <<obj, synced, ready, harm>>
  BY Resolves
<1>2. ASSUME NEW new \in Resources, Applied(p, new) \/ Remade(p, new) PROVE TypeOK'
  <2>1. Wrote(p, new) /\ ready' \in BOOLEAN /\ harm' \subseteq {"passed", "moved"}
    BY <1>2 DEF Applied, Remade, Harms, TypeOK
  <2>2. CopyTypes'
    BY <2>1 DEF Wrote, CopyTypes, TypeOK, Places
  <2> QED BY <1>1, <2>1, <2>2 DEF Wrote, CopyTypes, TypeOK
<1>3. CASE End(p) /\ fresh' = fresh \ {p} /\ UNCHANGED <<obj, synced, ready, harm>>
  BY <1>1, <1>3, EndTypes DEF TypeOK, CopyTypes
<1> QED BY <1>1, <1>2, <1>3

LEMMA ObserveTypes ==
  ASSUME TypeOK, NEW p \in Replicas, NEW r \in Replies, ObserveWorld(p, r)
  PROVE  TypeOK'
<1> DEFINE v == Observe(snap[p].spec, snap[p].name, world, r)
<1>1. snap[p] \in Resources
  BY DEF ObserveWorld, TypeOK
<1>2. v \in Verdicts
  BY <1>1, OutcomeTypes DEF TypeOK, Resources
<1>3. CopyTypes'
  <2>1. CASE v = "error"
    BY <2>1, EndTypes DEF ObserveWorld
  <2>2. CASE v # "error"
    <3>1. seen' \in [Replicas -> Verdicts]
      BY <2>2, <1>2 DEF ObserveWorld, TypeOK
    <3> QED
      BY <2>2, <3>1, GotoTypes, PlacesOf DEF ObserveWorld
  <2> QED BY <2>1, <2>2
<1>4. fresh' \subseteq Replicas
  BY DEF ObserveWorld, TypeOK
<1> QED BY <1>3, <1>4 DEF ObserveWorld, TypeOK, CopyTypes

LEMMA CreateTypes ==
  ASSUME TypeOK, NEW p \in Replicas, NEW r \in Replies, CallCreate(p, r)
  PROVE  TypeOK'
<1>1. snap[p] \in Resources /\ snap[p].live
  BY DEF CallCreate, TypeOK
<1> PICK o \in Create(snap[p].spec, snap[p].name, world, r) :
      /\ Credit(o.world, IF o.err THEN {}
                         ELSE (Objects(o.world) \ Objects(world))
                                \cup Targets(snap[p].spec, o.name))
      /\ Work(p, [snap[p] EXCEPT !.name = o.name])
      /\ Goto(p, IF o.err THEN "failed" ELSE "record")
  BY DEF CallCreate
<1>2. o.world \in Worlds /\ o.name \in Names
  BY <1>1, OutcomeTypes DEF TypeOK, Resources
<1>3. world' \in Worlds /\ made' \subseteq Objects(world)'
  BY <1>2, CreditType
<1>4. CopyTypes'
  <2> DEFINE copy == [snap[p] EXCEPT !.name = o.name]
  <2>1. copy \in Resources /\ copy.live
    BY <1>1, <1>2 DEF Resources
  <2> QED
    BY <2>1, WorkTypes DEF CallCreate, Places, Writing
<1>5. trouble' \in 0 .. MaxTrouble
  BY AnswerType DEF CallCreate, TypeOK
<1> QED BY <1>3, <1>4, <1>5 DEF CallCreate, TypeOK, CopyTypes

LEMMA AnnotateTypes ==
  ASSUME TypeOK, NEW p \in Replicas, pc[p] # "idle", NEW mark \in CreateMarks,
         NEW place \in Places, Annotate(p, mark, place)
  PROVE  TypeOK'
<1> DEFINE new == [obj EXCEPT !.name = snap[p].name, !.create = mark]
<1>1. new \in Resources /\ new.live
  BY DEF TypeOK, Resources, Annotate
<1>2. CopyTypes'
  BY <1>1, WorkTypes DEF Annotate
<1> QED BY <1>1, <1>2 DEF Annotate, Commit, TypeOK, CopyTypes

LEMMA CallTypes ==
  ASSUME TypeOK, NEW p \in Replicas, pc[p] # "idle", NEW r \in Replies,
         NEW outcomes, \A o \in outcomes : o.world \in Worlds,
         Call(p, outcomes, r)
  PROVE  TypeOK'
<1>1. world' \in Worlds /\ made' \subseteq Objects(world)'
  BY CreditType DEF Call
<1>2. CopyTypes'
  BY GotoTypes DEF Call, Places, Writing, TypeOK
<1>3. trouble' \in 0 .. MaxTrouble
  BY AnswerType DEF Call, TypeOK
<1> QED BY <1>1, <1>2, <1>3 DEF Call, TypeOK, CopyTypes

LEMMA GiveUpTypes ==
  ASSUME TypeOK, NEW p \in Replicas, GiveUp(p), trouble' \in 0 .. MaxTrouble
  PROVE  TypeOK'
BY EndTypes DEF GiveUp, TypeOK, CopyTypes

LEMMA UserTypes ==
  ASSUME TypeOK, NEW new \in Resources, UserWrite(new),
         trouble' \in 0 .. MaxTrouble
  PROVE  TypeOK'
BY DEF UserWrite, Commit, TypeOK

LEMMA FinalizerTypes ==
  ASSUME TypeOK, NEW p \in Replicas, AddFinalizer(p) \/ MarkPending(p)
  PROVE  TypeOK'
<1>1. snap[p] \in Resources /\ snap[p].live
  BY DEF AddFinalizer, MarkPending, TypeOK
<1>2. CASE AddFinalizer(p)
  <2> DEFINE new == [snap[p] EXCEPT !.finalizer = TRUE]
  <2>1. new \in Resources /\ new.live
    BY <1>1 DEF Resources
  <2>2. /\ Swap(p, new, Act(seen[p])) /\ Act(seen[p]) \in Places
        /\ UNCHANGED <<cache, world, made, secret, ready, trouble, harm>>
    BY <1>2, PlacesOf DEF AddFinalizer
  <2> HIDE DEF new
  <2> QED BY <2>1, <2>2, SwapTypes
<1>3. CASE MarkPending(p)
  <2> DEFINE new == [snap[p] EXCEPT !.create = "pending"]
  <2>1. new \in Resources /\ new.live
    BY <1>1 DEF Resources, CreateMarks
  <2>2. /\ Swap(p, new, "create") /\ "create" \in Places
        /\ UNCHANGED <<cache, world, made, secret, ready, trouble, harm>>
    BY <1>3 DEF MarkPending, Places
  <2> HIDE DEF new
  <2> QED BY <2>1, <2>2, SwapTypes
<1> QED BY <1>2, <1>3

LEMMA PublishTypes ==
  ASSUME TypeOK, NEW p \in Replicas, Publish(p) PROVE TypeOK'
<1>1. CopyTypes'
  BY GotoTypes DEF Publish, TypeOK, Places, Writing
<1>2. secret' \in Names
  BY DEF Publish, TypeOK, Resources
<1> QED BY <1>1, <1>2 DEF Publish, TypeOK, CopyTypes

LEMMA RemoveFinalizerTypes ==
  ASSUME TypeOK, NEW p \in Replicas, RemoveFinalizer(p) PROVE TypeOK'
<1>1. obj' \in Resources /\ fresh' = {} /\ synced' = {}
  BY DEF RemoveFinalizer, Commit, TypeOK, Resources
<1> QED BY <1>1, EndTypes DEF RemoveFinalizer, TypeOK, CopyTypes

(* A status write leaves the rest of the resource as it is.                *)
LEMMA StatusWrites ==
  ASSUME NEW p \in Replicas, WriteStatus(p)
  PROVE  /\ UNCHANGED <<obj, cache, world, made, harm>> /\ End(p)
         /\ \/ fresh' = fresh \ {p} /\ UNCHANGED synced
            \/ fresh' = {} /\ synced' = {}
BY DEF WriteStatus, Commit

LEMMA WriteStatusTypes ==
  ASSUME TypeOK, NEW p \in Replicas, WriteStatus(p) PROVE TypeOK'
<1>1. CopyTypes'
  BY EndTypes, StatusWrites
<1>2. ready' \in BOOLEAN
  BY DEF WriteStatus, TypeOK, Resources
<1> QED BY <1>1, <1>2, StatusWrites DEF WriteStatus, TypeOK, CopyTypes

(* A call that is not Create's: whatever its outcomes.                     *)
LEMMA OtherCalls ==
  ASSUME TypeOK, NEW p \in Replicas, NEW r \in Replies,
         CallUpdate(p, r) \/ CallDelete(p, r)
  PROVE  /\ pc[p] \in {"update", "delete"} /\ snap[p] \in Resources /\ world \in Worlds
         /\ \E outcomes \in {Update(snap[p].spec, snap[p].name, world, r),
                             Delete(snap[p].spec, snap[p].name, world, r)} :
              /\ Call(p, outcomes, r)
              /\ \A o \in outcomes : o.world \in Worlds
<1>1. pc[p] \in {"update", "delete"} /\ snap[p] \in Resources /\ world \in Worlds
  BY DEF CallUpdate, CallDelete, TypeOK
<1>2. \A o \in Update(snap[p].spec, snap[p].name, world, r)
                 \cup Delete(snap[p].spec, snap[p].name, world, r) : o.world \in Worlds
  BY <1>1, OutcomeTypes DEF Resources
<1> QED BY <1>1, <1>2 DEF CallUpdate, CallDelete

LEMMA OtherCallTypes ==
  ASSUME TypeOK, NEW p \in Replicas, NEW r \in Replies,
         CallUpdate(p, r) \/ CallDelete(p, r)
  PROVE  TypeOK'
BY OtherCalls, CallTypes

LEMMA RecordTypes ==
  ASSUME TypeOK, NEW p \in Replicas, RecordCreated(p) \/ RecordFailed(p)
  PROVE  TypeOK'
<1>1. pc[p] # "idle"
  BY DEF RecordCreated, RecordFailed
<1>2. PICK mark \in {"succeeded", "failed"}, place \in {"publish", "status"} :
        Annotate(p, mark, place)
  BY DEF RecordCreated, RecordFailed
<1> QED BY <1>1, <1>2, AnnotateTypes DEF CreateMarks, Places, Writing

LEMMA BrokenOffTypes ==
  ASSUME TypeOK, NEW p \in Replicas, WriteFails(p) \/ Crash(p) PROVE TypeOK'
<1>1. GiveUp(p) /\ trouble' \in 0 .. MaxTrouble
  BY DisturbType DEF WriteFails, Crash, TypeOK
<1> QED BY <1>1, GiveUpTypes

(* A write of the user: neither the creation mark nor the finalizer is the *)
(* user's to change.                                                       *)
LEMMA UserDeletes ==
  ASSUME TypeOK, UserDelete
  PROVE  \E new \in Resources :
           /\ UserWrite(new) /\ UNCHANGED trouble
           /\ new.create = obj.create /\ new.finalizer = obj.finalizer
           /\ new.live = obj.finalizer
           /\ new.spec = obj.spec /\ new.name = obj.name
<1> DEFINE new == [obj EXCEPT !.deleting = TRUE, !.live = obj.finalizer]
<1>1. /\ new \in Resources /\ new.create = obj.create
      /\ new.finalizer = obj.finalizer /\ new.live = obj.finalizer
      /\ new.spec = obj.spec /\ new.name = obj.name
  BY DEF TypeOK, Resources
<1>2. UserWrite(new) /\ UNCHANGED trouble
  BY DEF UserDelete
<1> QED BY <1>1, <1>2

LEMMA UserEdits ==
  ASSUME TypeOK, UserEdit
  PROVE  \E new \in Resources :
           /\ UserWrite(new)
           /\ new.create = obj.create /\ new.finalizer = obj.finalizer
           /\ new.live /\ new.name = obj.name
           /\ new.spec \in Edits(obj.spec)
<1> PICK s \in Edits(obj.spec) : UserWrite([obj EXCEPT !.spec = s])
  BY DEF UserEdit
<1> DEFINE new == [obj EXCEPT !.spec = s]
<1>1. obj \in Resources /\ s \in Specs
  BY HandlersAssumption DEF TypeOK, Resources
<1>2. obj.live
  BY DEF UserWrite
<1>3. /\ new \in Resources /\ new.create = obj.create
      /\ new.finalizer = obj.finalizer /\ new.live
      /\ new.spec = s /\ new.name = obj.name
  BY <1>1, <1>2 DEF Resources
<1>4. UserWrite(new)
  OBVIOUS
<1> HIDE DEF new
<1> QED BY <1>3, <1>4

LEMMA UserWriteTypes == ASSUME TypeOK, UserDelete \/ UserEdit PROVE TypeOK'
<1>1. PICK new \in Resources : UserWrite(new)
  BY UserDeletes, UserEdits
<1>2. trouble' \in 0 .. MaxTrouble
  BY DisturbType DEF UserDelete, UserEdit, TypeOK
<1> QED BY <1>1, <1>2, UserTypes

LEMMA DriftTypes == ASSUME TypeOK, Drift PROVE TypeOK'
<1> PICK w \in Drifts(world) : Credit(w, {})
  BY DEF Drift
<1>1. w \in Worlds
  BY HandlersAssumption DEF TypeOK
<1>2. world' \in Worlds /\ made' \subseteq Objects(world)'
  BY <1>1, CreditType
<1>3. trouble' \in 0 .. MaxTrouble
  BY DisturbType DEF Drift, TypeOK
<1> QED BY <1>2, <1>3 DEF Drift, TypeOK

LEMMA TypesInductive == TypeOK /\ [Next]_vars => TypeOK'
<1> SUFFICES ASSUME TypeOK, [Next]_vars PROVE TypeOK'
  OBVIOUS
<1>1. ASSUME NEW p \in Replicas,
             \/ Fetch(p) \/ Initialize(p) \/ ResolveReferences(p)
             \/ AddFinalizer(p) \/ MarkPending(p) \/ Publish(p)
      PROVE  TypeOK'
  BY <1>1, FetchTypes, InitializeTypes, ResolveReferencesTypes, FinalizerTypes,
     PublishTypes
<1>2. ASSUME NEW p \in Replicas, NEW r \in Replies,
             \/ ObserveWorld(p, r) \/ CallCreate(p, r)
             \/ CallUpdate(p, r) \/ CallDelete(p, r)
      PROVE  TypeOK'
  BY <1>2, ObserveTypes, CreateTypes, OtherCallTypes
<1>3. ASSUME NEW p \in Replicas,
             \/ RecordCreated(p) \/ RecordFailed(p) \/ RemoveFinalizer(p)
             \/ WriteStatus(p) \/ WriteFails(p) \/ Crash(p)
      PROVE  TypeOK'
  BY <1>3, RecordTypes, RemoveFinalizerTypes, WriteStatusTypes, BrokenOffTypes
<1>4. ASSUME NEW p \in Replicas, Sync(p) PROVE TypeOK'
  BY <1>4 DEF Sync, TypeOK
<1>5. CASE UserDelete \/ UserEdit \/ Drift
  BY <1>5, UserWriteTypes, DriftTypes
<1>6. CASE UNCHANGED vars
  BY <1>6 DEF vars, TypeOK
<1>7. {"ok", "rejected"} \subseteq Replies
  BY DEF Replies
<1> QED BY <1>1, <1>2, <1>3, <1>4, <1>5, <1>6, <1>7 DEF Next, Step

(* Every variable stays within its domain, whatever the handlers do that   *)
(* the loop calls.                                                         *)
THEOREM TypeCorrect == Spec => []TypeOK
BY InitTypes, TypesInductive, PTL DEF Spec

-------------------------------------------------------------------------------
(* What is of the current version, whatever the handlers and the           *)
(* references do.                                                          *)

LEMMA InitCore == Init => CoreInv
<1>1. Init => CopiesInv /\ EntryInv
  BY DEF Init, CopiesInv, EntryInv
<1> QED BY <1>1, InitTypes DEF CoreInv

LEMMA FetchCore ==
  ASSUME CoreInv, NEW p \in Replicas, Fetch(p)
  PROVE  CopiesInv' /\ EntryInv'
<1> DEFINE place == IF Initialized(cache[p]) THEN After(cache[p]) ELSE "initialize"
<1>1. /\ place \in {"initialize", "observe", "resolve"}
      /\ place # "initialize" => ~Incomplete(cache[p])
  BY Afters DEF Fetch, Proceeds
<1>2. Goto(p, place)
  BY DEF Fetch
<1> HIDE DEF place
<1> USE DEF CoreInv, TypeOK, Work, Goto
<1>3. CopiesInv'
  BY <1>1, <1>2 DEF Fetch, CopiesInv
<1>4. EntryInv'
  BY <1>1, <1>2 DEF Fetch, EntryInv, Incomplete
<1> QED BY <1>3, <1>4

LEMMA SwapCore ==
  ASSUME CoreInv, NEW p \in Replicas, NEW new, NEW place,
         Swap(p, new, place), UNCHANGED cache, new.live,
         place \notin {"idle", "record", "failed"},
         place = "resolve" => ~Incomplete(new)
  PROVE  CopiesInv' /\ EntryInv'
<1> USE DEF CoreInv, TypeOK, Swap, Commit, Work, Goto
<1>1. CopiesInv'
  BY DEF CopiesInv
<1>2. EntryInv'
  BY DEF EntryInv, Incomplete
<1> QED BY <1>1, <1>2

LEMMA EndCore ==
  ASSUME CoreInv, NEW p \in Replicas, End(p), fresh' \subseteq fresh \ {p},
         UNCHANGED cache,
         \/ UNCHANGED <<obj, synced>>
         \/ synced' = {} /\ fresh' = {} /\ (~obj'.live => ~obj'.finalizer)
  PROVE  CopiesInv' /\ EntryInv'
<1> USE DEF CoreInv, TypeOK, End, Work, Goto
<1>1. CopiesInv'
  BY DEF CopiesInv
<1>2. EntryInv'
  BY DEF EntryInv, Incomplete
<1> QED BY <1>1, <1>2

LEMMA WroteCore ==
  ASSUME CoreInv, NEW p \in Replicas, NEW new, Wrote(p, new), UNCHANGED cache
  PROVE  CopiesInv' /\ EntryInv'
<1> USE DEF CoreInv, TypeOK, Wrote
<1>1. CopiesInv'
  BY DEF CopiesInv
<1>2. EntryInv'
  BY DEF EntryInv, Incomplete
<1> QED BY <1>1, <1>2

(* What stays with a reconcile that goes on without a write.               *)
LEMMA GotoCore ==
  ASSUME CoreInv, NEW p \in Replicas, NEW place, Goto(p, place),
         UNCHANGED <<obj, cache, synced>>,
         \/ UNCHANGED <<snap, fresh>> /\ place \notin {"idle", "record", "failed", "resolve"}
         \/ /\ fresh' = fresh \ {p} /\ place # "resolve"
            /\ \A q \in Replicas : q # p => snap'[q] = snap[q]
  PROVE  CopiesInv' /\ EntryInv'
<1> USE DEF CoreInv, TypeOK, Goto
<1>1. CopiesInv'
  BY DEF CopiesInv
<1>2. EntryInv'
  BY DEF EntryInv, Incomplete
<1> QED BY <1>1, <1>2

LEMMA UserCore ==
  ASSUME CoreInv, NEW new, UserWrite(new), ~new.live => ~new.finalizer
  PROVE  CopiesInv' /\ EntryInv'
BY DEF CoreInv, TypeOK, UserWrite, Commit, CopiesInv, EntryInv, Incomplete

LEMMA CoreInductive == CoreInv /\ [Next]_vars => CoreInv'
<1> SUFFICES ASSUME CoreInv, [Next]_vars PROVE CopiesInv' /\ EntryInv'
  BY TypesInductive DEF CoreInv
<1>1. ASSUME NEW p \in Replicas, Fetch(p) PROVE CopiesInv' /\ EntryInv'
  BY <1>1, FetchCore
<1>2. ASSUME NEW p \in Replicas, Initialize(p) PROVE CopiesInv' /\ EntryInv'
  <2> DEFINE new == [snap[p] EXCEPT !.name = Default(snap[p].spec, @)]
  <2>1. snap[p] \in Resources /\ snap[p].live
    BY <1>2 DEF Initialize, CoreInv, TypeOK
  <2>2. new.live /\ UNCHANGED cache
    BY <1>2, <2>1 DEF Initialize, Resources
  <2>3. CASE Proceeds(new) /\ Swap(p, new, After(new))
    <3>1. ~Incomplete(new) /\ Swap(p, new, After(new))
      BY <2>3 DEF Proceeds
    <3> HIDE DEF new
    <3> QED BY <2>2, <3>1, Afters, SwapCore
  <2>4. CASE Commit(new, {}) /\ End(p)
    BY <2>2, <2>4, EndCore DEF Commit
  <2> QED BY <1>2, <2>3, <2>4 DEF Initialize
<1>3. ASSUME NEW p \in Replicas, ResolveReferences(p) PROVE CopiesInv' /\ EntryInv'
  <2>1. /\ UNCHANGED cache
        /\ \/ \E new \in Resources : Wrote(p, new)
           \/ End(p) /\ fresh' = fresh \ {p} /\ UNCHANGED <<obj, synced>>
    BY <1>3, Resolves DEF CoreInv, Applied, Remade
  <2> QED BY <2>1, WroteCore, EndCore
<1>4. ASSUME NEW p \in Replicas, AddFinalizer(p) \/ MarkPending(p)
      PROVE  CopiesInv' /\ EntryInv'
  <2>1. snap[p] \in Resources /\ snap[p].live /\ UNCHANGED cache
    BY <1>4 DEF AddFinalizer, MarkPending, CoreInv, TypeOK
  <2>2. \E new, place : /\ Swap(p, new, place) /\ new.live
                        /\ place \in {"pending", "update", "status", "create"}
    <3>1. [snap[p] EXCEPT !.finalizer = TRUE].live
      BY <2>1 DEF Resources
    <3>2. [snap[p] EXCEPT !.create = "pending"].live
      BY <2>1 DEF Resources
    <3>3. Act(seen[p]) \in {"pending", "update", "status"}
      BY DEF Act
    <3> QED BY <1>4, <3>1, <3>2, <3>3 DEF AddFinalizer, MarkPending
  <2> QED BY <2>1, <2>2, SwapCore
<1>5. ASSUME NEW p \in Replicas, NEW r \in Replies, ObserveWorld(p, r)
      PROVE  CopiesInv' /\ EntryInv'
  <2>1. CASE End(p) /\ fresh' = fresh \ {p}
    BY <1>5, <2>1, EndCore DEF ObserveWorld
  <2>2. ASSUME NEW v, Goto(p, React(snap[p], v)), UNCHANGED <<snap, fresh>>
        PROVE  CopiesInv' /\ EntryInv'
    <3>1. React(snap[p], v) \notin {"idle", "record", "failed", "resolve"}
      BY DEF React, Act
    <3> QED BY <1>5, <2>2, <3>1, GotoCore DEF ObserveWorld
  <2> QED BY <1>5, <2>1, <2>2 DEF ObserveWorld
<1>6. ASSUME NEW p \in Replicas, NEW r \in Replies, CallCreate(p, r)
      PROVE  CopiesInv' /\ EntryInv'
  <2>1. /\ fresh' = fresh \ {p} /\ UNCHANGED <<obj, cache, synced>>
        /\ \E copy : Work(p, copy)
        /\ \E place \in {"failed", "record"} : Goto(p, place)
    BY <1>6 DEF CallCreate
  <2>2. \A q \in Replicas : q # p => snap'[q] = snap[q]
    BY <2>1 DEF Work, CoreInv, TypeOK
  <2> QED BY <2>1, <2>2, GotoCore
<1>7. ASSUME NEW p \in Replicas, NEW r \in Replies, CallUpdate(p, r) \/ CallDelete(p, r)
      PROVE  CopiesInv' /\ EntryInv'
  <2>1. Goto(p, "status") /\ UNCHANGED <<obj, cache, snap, synced, fresh>>
    BY <1>7 DEF CallUpdate, CallDelete, Call
  <2> QED BY <2>1, GotoCore
<1>8. ASSUME NEW p \in Replicas, Publish(p) PROVE CopiesInv' /\ EntryInv'
  <2>1. Goto(p, "status") /\ UNCHANGED <<obj, cache, snap, synced, fresh>>
    BY <1>8 DEF Publish
  <2> QED BY <2>1, GotoCore
<1>9. ASSUME NEW p \in Replicas, RecordCreated(p) \/ RecordFailed(p)
      PROVE  CopiesInv' /\ EntryInv'
  <2>1. PICK mark \in {"succeeded", "failed"}, place \in {"publish", "status"} :
          Annotate(p, mark, place)
    BY <1>9 DEF RecordCreated, RecordFailed
  <2> USE DEF CoreInv, TypeOK, Annotate, Commit, Work, Goto
  <2>2. CopiesInv'
    BY <2>1 DEF CopiesInv
  <2>3. EntryInv'
    BY <2>1 DEF EntryInv, Incomplete, Resources
  <2> QED BY <2>2, <2>3
<1>10. ASSUME NEW p \in Replicas, RemoveFinalizer(p) PROVE CopiesInv' /\ EntryInv'
  <2>1. /\ End(p) /\ UNCHANGED cache /\ fresh' = {} /\ synced' = {}
        /\ ~obj'.finalizer
    BY <1>10 DEF RemoveFinalizer, Commit, CoreInv, TypeOK, Resources
  <2> QED BY <2>1, EndCore
<1>11. ASSUME NEW p \in Replicas, WriteStatus(p) PROVE CopiesInv' /\ EntryInv'
  <2>1. /\ End(p) /\ UNCHANGED <<obj, cache>>
        /\ \/ fresh' = fresh \ {p} /\ UNCHANGED synced
           \/ fresh' = {} /\ synced' = {}
    BY <1>11, StatusWrites
  <2> QED BY <2>1, EndCore DEF CoreInv, EntryInv
<1>12. ASSUME NEW p \in Replicas, WriteFails(p) \/ Crash(p)
       PROVE  CopiesInv' /\ EntryInv'
  <2>1. End(p) /\ fresh' = fresh \ {p} /\ UNCHANGED <<obj, cache, synced>>
    BY <1>12 DEF WriteFails, Crash, GiveUp
  <2> QED BY <2>1, EndCore
<1>13. ASSUME NEW p \in Replicas, Sync(p) PROVE CopiesInv' /\ EntryInv'
  BY <1>13 DEF Sync, CoreInv, TypeOK, CopiesInv, EntryInv, Incomplete
<1>14. CASE UserDelete \/ UserEdit
  <2>1. \E new \in Resources : UserWrite(new) /\ (~new.live => ~new.finalizer)
    BY <1>14, UserDeletes, UserEdits DEF CoreInv
  <2> QED BY <2>1, UserCore
<1>15. CASE Drift \/ UNCHANGED vars
  BY <1>15 DEF Drift, vars, CoreInv, CopiesInv, EntryInv, Incomplete
<1>16. {"ok", "rejected"} \subseteq Replies
  BY DEF Replies
<1> QED
  BY <1>1, <1>2, <1>3, <1>4, <1>5, <1>6, <1>7, <1>8, <1>9, <1>10, <1>11, <1>12,
     <1>13, <1>14, <1>15, <1>16 DEF Next, Step

LEMMA CoreInvariance == Spec => []CoreInv
BY InitCore, CoreInductive, PTL DEF Spec

-------------------------------------------------------------------------------
(* The places and the lock, action by action: they stand whatever the      *)
(* handlers do, as long as no resolution passes a mark by.                 *)

LEMMA InitBase == Init => BaseInv
<1>1. Init => WorkInv /\ LockInv
  BY DEF Init, WorkInv, LockInv, Creating, Incomplete
<1> QED BY <1>1, InitCore DEF BaseInv

LEMMA FetchBase ==
  ASSUME BaseInv, NEW p \in Replicas, Fetch(p) PROVE WorkInv' /\ LockInv'
<1> DEFINE place == IF Initialized(cache[p]) THEN After(cache[p]) ELSE "initialize"
<1>1. /\ place \in {"initialize", "observe", "resolve"}
      /\ place # "initialize" => ~Incomplete(cache[p])
      /\ place = "initialize" => ~Initialized(cache[p])
  BY Afters DEF Fetch, Proceeds
<1>2. Goto(p, place)
  BY DEF Fetch
<1> HIDE DEF place
<1> USE DEF BaseInv, CoreInv, TypeOK, Work, Goto
<1>3. WorkInv'
  BY <1>1, <1>2 DEF Fetch, WorkInv, Incomplete, Initialized
<1>4. LockInv'
  BY <1>1, <1>2 DEF Fetch, LockInv, Creating, Incomplete
<1> QED BY <1>3, <1>4

(* Writes of the working copy that neither begin nor end a creation.       *)
LEMMA SwapBase ==
  ASSUME BaseInv, NEW p \in Replicas, NEW new, NEW place,
         Swap(p, new, place),
         new.live, new.create = snap[p].create,
         snap[p].finalizer => new.finalizer,
         place \notin {"create", "record", "failed", "initialize"},
         ~Incomplete(new),
         place = "pending" => new.finalizer
  PROVE  WorkInv' /\ LockInv'
<1> USE DEF BaseInv, CoreInv, TypeOK, Swap, Commit, Work, Goto
<1>1. snap[p] = obj /\ pc[p] # "idle" /\ obj.live
  BY DEF CopiesInv
<1>2. WorkInv'
  BY DEF WorkInv, Incomplete, Initialized
<1>3. LockInv'
  BY <1>1 DEF LockInv, Creating, Incomplete
<1> QED BY <1>2, <1>3

(* Writes that throw the working copy away.                                *)
LEMMA EndBase ==
  ASSUME BaseInv, NEW p \in Replicas, End(p),
         obj'.create = obj.create,
         Incomplete(obj) => /\ obj'.live = obj.live
                            /\ obj'.finalizer = obj.finalizer
  PROVE  WorkInv' /\ LockInv'
<1> USE DEF BaseInv, CoreInv, TypeOK, End, Work, Goto
<1>1. WorkInv'
  BY DEF WorkInv, Incomplete, Initialized
<1>2. LockInv'
  BY DEF LockInv, Creating, Incomplete
<1> QED BY <1>1, <1>2

(* A reconcile that moves on without a write.                              *)
LEMMA GotoBase ==
  ASSUME BaseInv, NEW p \in Replicas, NEW place, Goto(p, place),
         UNCHANGED <<obj, snap>>,
         place \in {"observe", "finalize", "pending", "update", "delete", "unfinalize"}
           => ~Incomplete(snap[p]),
         place = "pending" => snap[p].finalizer,
         place \notin {"initialize", "create", "record", "failed"}
  PROVE  WorkInv' /\ LockInv'
<1> USE DEF BaseInv, CoreInv, TypeOK, Goto
<1>1. WorkInv'
  BY DEF WorkInv, Incomplete, Initialized
<1>2. LockInv'
  BY DEF LockInv, Creating, Incomplete
<1> QED BY <1>1, <1>2

(* What an initializer's write leaves, if the reconcile writes it.         *)
LEMMA InitializeWrites ==
  ASSUME BaseInv, NEW p \in Replicas, Initialize(p),
         NEW new, new = [snap[p] EXCEPT !.name = Default(snap[p].spec, @)]
  PROVE  /\ p \in fresh /\ snap[p] = obj /\ obj \in Resources
         /\ Default(obj.spec, obj.name) # obj.name
         /\ new \in Resources /\ new.live /\ obj.live /\ new.create = obj.create
         /\ new.finalizer = obj.finalizer /\ new.spec = obj.spec
<1>1. /\ p \in fresh /\ snap[p] = obj /\ obj \in Resources /\ obj.live
      /\ Default(obj.spec, obj.name) # obj.name
  BY DEF Initialize, Swap, BaseInv, CoreInv, TypeOK, CopiesInv, WorkInv, Initialized
<1> QED BY <1>1, HandlersAssumption DEF Resources

LEMMA InitializeBase ==
  ASSUME BaseInv, NEW p \in Replicas, Initialize(p) PROVE WorkInv' /\ LockInv'
<1> DEFINE new == [snap[p] EXCEPT !.name = Default(snap[p].spec, @)]
<1>1. /\ snap[p] = obj /\ new.live /\ obj.live /\ new.create = obj.create
      /\ new.finalizer = obj.finalizer
  BY InitializeWrites
<1>2. \/ Proceeds(new) /\ Swap(p, new, After(new))
      \/ Commit(new, {}) /\ End(p)
  BY DEF Initialize
<1>3. After(new) \notin {"create", "record", "failed", "initialize", "pending"}
  BY Afters
<1> HIDE DEF new
<1>4. CASE Proceeds(new) /\ Swap(p, new, After(new))
  <2>1. ~Incomplete(new)
    BY <1>4 DEF Proceeds
  <2> QED BY <1>1, <1>3, <1>4, <2>1, SwapBase
<1>5. CASE Commit(new, {}) /\ End(p)
  BY <1>1, <1>5, EndBase DEF Commit
<1> QED BY <1>2, <1>4, <1>5

(* References that are resolved while no creation is unfinished.           *)
LEMMA ResolveBase ==
  ASSUME BaseInv, "passed" \notin harm', NEW p \in Replicas, ResolveReferences(p)
  PROVE  WorkInv' /\ LockInv'
<1>1. \/ \E new \in Resources : Applied(p, new) \/ Remade(p, new)
      \/ End(p) /\ UNCHANGED obj
  BY Resolves DEF BaseInv, CoreInv
<1>2. ASSUME NEW new \in Resources, Applied(p, new) PROVE WorkInv' /\ LockInv'
  <2>1. /\ Wrote(p, new) /\ new.create = obj.create
        /\ harm' = harm \cup Harms(new)
    BY <1>2 DEF Applied
  <2>2. ~Incomplete(obj)
    BY <2>1 DEF Harms
  <2>3. ~Incomplete(new) /\ \A q \in Replicas : ~Creating(q)
    BY <2>1, <2>2 DEF Incomplete, BaseInv, LockInv
  <2> USE DEF BaseInv, CoreInv, TypeOK, Wrote
  <2>4. WorkInv'
    BY <2>1, <2>3 DEF WorkInv, Incomplete, Initialized
  <2>5. LockInv'
    BY <2>1, <2>3 DEF LockInv, Creating
  <2> QED BY <2>4, <2>5
<1>3. ASSUME NEW new \in Resources, Remade(p, new) PROVE WorkInv' /\ LockInv'
  <2>1. Wrote(p, new) /\ ~Incomplete(new) /\ ~obj.live
    BY <1>3 DEF Remade
  <2>2. \A q \in Replicas : ~Creating(q)
    BY <2>1 DEF BaseInv, LockInv
  <2> USE DEF BaseInv, CoreInv, TypeOK, Wrote
  <2>3. WorkInv'
    BY <2>1 DEF WorkInv, Incomplete, Initialized
  <2>4. LockInv'
    BY <2>1, <2>2 DEF LockInv, Creating
  <2> QED BY <2>3, <2>4
<1>4. CASE End(p) /\ UNCHANGED obj
  BY <1>4, EndBase
<1> QED BY <1>1, <1>2, <1>3, <1>4

(* Where a verdict leads.                                                  *)
LEMMA Reactions ==
  ASSUME NEW o, NEW v
  PROVE  /\ React(o, v) \in {"unfinalize", "delete", "pending", "update", "status",
                             "finalize"}
         /\ React(o, v) \in {"pending", "unfinalize"} => v = "absent"
         /\ React(o, v) = "pending" => o.finalizer
         /\ Act(v) \in {"pending", "update", "status"}
         /\ Act(v) = "pending" => v = "absent"
BY DEF React, Act

LEMMA ObserveBase ==
  ASSUME BaseInv, NEW p \in Replicas, NEW r \in Replies, ObserveWorld(p, r)
  PROVE  WorkInv' /\ LockInv'
<1>1. UNCHANGED obj /\ pc[p] = "observe"
  BY DEF ObserveWorld
<1>2. CASE End(p)
  BY <1>1, <1>2, EndBase
<1>3. ASSUME NEW v, Goto(p, React(snap[p], v)), UNCHANGED snap
      PROVE  WorkInv' /\ LockInv'
  <2> DEFINE place == React(snap[p], v)
  <2>1. /\ place \in {"unfinalize", "delete", "pending", "update", "status",
                      "finalize"}
        /\ place = "pending" => snap[p].finalizer
        /\ Goto(p, place)
    BY <1>3, Reactions
  <2>2. ~Incomplete(snap[p])
    BY <1>1 DEF BaseInv, WorkInv
  <2> HIDE DEF place
  <2> QED BY <1>1, <1>3, <2>1, <2>2, GotoBase
<1> QED BY <1>2, <1>3 DEF ObserveWorld

LEMMA AddFinalizerBase ==
  ASSUME BaseInv, NEW p \in Replicas, AddFinalizer(p) PROVE WorkInv' /\ LockInv'
<1> DEFINE new == [snap[p] EXCEPT !.finalizer = TRUE]
<1>1. snap[p] \in Resources /\ snap[p].live /\ ~Incomplete(snap[p])
  BY DEF AddFinalizer, BaseInv, CoreInv, TypeOK, WorkInv
<1>2. new.live /\ new.create = snap[p].create /\ new.finalizer /\ ~Incomplete(new)
  BY <1>1 DEF Resources, Incomplete
<1>3. Act(seen[p]) \in {"pending", "update", "status"} /\ Swap(p, new, Act(seen[p]))
  BY Reactions DEF AddFinalizer
<1> HIDE DEF new
<1> QED BY <1>2, <1>3, SwapBase

(* A creation begins only from a complete resource with the finalizer.     *)
LEMMA PendingFrom ==
  ASSUME BaseInv, NEW p \in Replicas, MarkPending(p)
  PROVE  /\ p \in fresh /\ snap[p] = obj /\ obj \in Resources /\ obj.live
         /\ ~Incomplete(obj) /\ obj.finalizer
         /\ \A q \in Replicas : ~Creating(q)
         /\ snap' = [snap EXCEPT ![p] = [obj EXCEPT !.create = "pending"]]
         /\ obj' = [obj EXCEPT !.create = "pending"]
         /\ pc' = [pc EXCEPT ![p] = "create"]
         /\ synced' = {} /\ fresh' = {p}
<1>1. /\ p \in fresh /\ snap[p] = obj /\ obj \in Resources /\ obj.live
      /\ ~Incomplete(obj) /\ obj.finalizer
  BY DEF MarkPending, Swap, BaseInv, CoreInv, TypeOK, CopiesInv, WorkInv
<1>2. \A q \in Replicas : ~Creating(q)
  BY <1>1 DEF BaseInv, LockInv
<1> QED BY <1>1, <1>2 DEF MarkPending, Swap, Commit, Work, Goto

LEMMA MarkPendingBase ==
  ASSUME BaseInv, NEW p \in Replicas, MarkPending(p) PROVE WorkInv' /\ LockInv'
<1> DEFINE new == [obj EXCEPT !.create = "pending"]
<1>1. /\ obj \in Resources /\ obj.live /\ obj.finalizer
      /\ \A q \in Replicas : ~Creating(q)
      /\ snap' = [snap EXCEPT ![p] = new] /\ obj' = new
      /\ pc' = [pc EXCEPT ![p] = "create"]
  BY PendingFrom
<1>2. new.live /\ new.finalizer /\ Incomplete(new)
  BY <1>1 DEF Resources, Incomplete
<1> HIDE DEF new
<1> USE DEF BaseInv, CoreInv, TypeOK
<1>3. WorkInv'
  BY <1>1 DEF WorkInv, Incomplete, Initialized
<1>4. LockInv'
  BY <1>1, <1>2 DEF LockInv, Creating, Incomplete
<1> QED BY <1>3, <1>4

(* What a creation that returned leaves for the record.                    *)
LEMMA CreateReturns ==
  ASSUME TypeOK, NEW p \in Replicas, NEW r \in Replies, CallCreate(p, r)
  PROVE  /\ snap[p] \in Resources
         /\ \E o \in Create(snap[p].spec, snap[p].name, world, r) :
              /\ Credit(o.world, IF o.err THEN {}
                                 ELSE (Objects(o.world) \ Objects(world))
                                        \cup Targets(snap[p].spec, o.name))
              /\ snap'[p].spec = snap[p].spec /\ snap'[p].name = o.name
              /\ pc'[p] = IF o.err THEN "failed" ELSE "record"
         /\ \A q \in Replicas : q # p => snap'[q] = snap[q] /\ pc'[q] = pc[q]
         /\ fresh' = fresh \ {p} /\ UNCHANGED <<obj, cache, synced, seen>>
         /\ Creating(p)
<1>1. snap[p] \in Resources
  BY DEF CallCreate, TypeOK
<1>2. /\ fresh' = fresh \ {p} /\ UNCHANGED <<obj, cache, synced, seen>>
      /\ Creating(p)
  BY DEF CallCreate, Creating
<1> PICK o \in Create(snap[p].spec, snap[p].name, world, r) :
      /\ Credit(o.world, IF o.err THEN {}
                         ELSE (Objects(o.world) \ Objects(world))
                                \cup Targets(snap[p].spec, o.name))
      /\ Work(p, [snap[p] EXCEPT !.name = o.name])
      /\ Goto(p, IF o.err THEN "failed" ELSE "record")
  BY DEF CallCreate
<1>3. /\ snap'[p].spec = snap[p].spec /\ snap'[p].name = o.name
      /\ pc'[p] = IF o.err THEN "failed" ELSE "record"
      /\ \A q \in Replicas : q # p => snap'[q] = snap[q] /\ pc'[q] = pc[q]
  BY <1>1 DEF Work, Goto, TypeOK, Resources
<1> QED BY <1>1, <1>2, <1>3

LEMMA CallCreateBase ==
  ASSUME BaseInv, NEW p \in Replicas, NEW r \in Replies, CallCreate(p, r)
  PROVE  WorkInv' /\ LockInv'
<1>1. /\ pc'[p] \in {"failed", "record"} /\ Creating(p)
      /\ \A q \in Replicas : q # p => snap'[q] = snap[q] /\ pc'[q] = pc[q]
      /\ UNCHANGED obj
  BY CreateReturns DEF BaseInv, CoreInv
<1>2. WorkInv'
  BY <1>1 DEF WorkInv, BaseInv, Incomplete, Initialized
<1>3. LockInv'
  BY <1>1 DEF LockInv, BaseInv, Creating, Incomplete
<1> QED BY <1>2, <1>3

(* What the record of a creation leaves.                                   *)
LEMMA AnnotateWrites ==
  ASSUME BaseInv, NEW p \in Replicas, pc[p] \in {"record", "failed"},
         NEW mark \in {"succeeded", "failed"}, NEW place \in {"publish", "status"},
         Annotate(p, mark, place)
  PROVE  /\ obj \in Resources /\ snap[p] \in Resources /\ obj' \in Resources
         /\ obj'.spec = obj.spec /\ obj'.name = snap[p].name
         /\ ~Incomplete(obj') /\ obj'.live /\ obj'.finalizer
         /\ \A q \in Replicas : Creating(q) => q = p
         /\ fresh' = {p} /\ synced' = {} /\ snap'[p] = obj' /\ pc'[p] = place
         /\ \A q \in Replicas : q # p => snap'[q] = snap[q] /\ pc'[q] = pc[q]
         /\ UNCHANGED <<cache, seen, world, made>>
<1> DEFINE new == [obj EXCEPT !.name = snap[p].name, !.create = mark]
<1>1. /\ obj \in Resources /\ snap[p] \in Resources
      /\ new.spec = obj.spec /\ new.name = snap[p].name /\ new \in Resources
      /\ ~Incomplete(new) /\ new.live /\ new.finalizer
  BY DEF BaseInv, CoreInv, TypeOK, Resources, CreateMarks, Annotate, Incomplete,
         LockInv, Creating
<1>2. \A q \in Replicas : Creating(q) => q = p
  BY DEF BaseInv, LockInv, Creating
<1>3. obj' = new /\ snap' = [snap EXCEPT ![p] = new]
  BY DEF Annotate, Commit, Work
<1> HIDE DEF new
<1> QED BY <1>1, <1>2, <1>3 DEF Annotate, Commit, Goto, BaseInv, CoreInv, TypeOK

(* The two records of a creation, in one.                                  *)
LEMMA Records ==
  ASSUME NEW p \in Replicas, RecordCreated(p) \/ RecordFailed(p)
  PROVE  /\ pc[p] \in {"record", "failed"}
         /\ \E mark \in {"succeeded", "failed"}, place \in {"publish", "status"} :
              Annotate(p, mark, place)
BY DEF RecordCreated, RecordFailed

LEMMA AnnotateBase ==
  ASSUME BaseInv, NEW p \in Replicas, RecordCreated(p) \/ RecordFailed(p)
  PROVE  WorkInv' /\ LockInv'
<1> PICK mark \in {"succeeded", "failed"}, place \in {"publish", "status"} :
      Annotate(p, mark, place)
  BY Records
<1>1. pc[p] \in {"record", "failed"}
  BY Records
<1>2. /\ ~Incomplete(obj') /\ obj'.live /\ obj'.finalizer
      /\ \A q \in Replicas : Creating(q) => q = p
      /\ pc'[p] = place
      /\ \A q \in Replicas : q # p => snap'[q] = snap[q] /\ pc'[q] = pc[q]
  BY <1>1, AnnotateWrites
<1>3. WorkInv'
  BY <1>2 DEF WorkInv, BaseInv, Incomplete, Initialized
<1>4. LockInv'
  BY <1>2 DEF LockInv, Creating
<1> QED BY <1>3, <1>4

LEMMA PublishBase ==
  ASSUME BaseInv, NEW p \in Replicas, Publish(p) PROVE WorkInv' /\ LockInv'
BY GotoBase DEF Publish

LEMMA CallBase ==
  ASSUME BaseInv, NEW p \in Replicas, NEW r \in Replies,
         CallUpdate(p, r) \/ CallDelete(p, r)
  PROVE  WorkInv' /\ LockInv'
BY GotoBase DEF CallUpdate, CallDelete, Call

LEMMA RemoveFinalizerBase ==
  ASSUME BaseInv, NEW p \in Replicas, RemoveFinalizer(p) PROVE WorkInv' /\ LockInv'
<1>1. p \in fresh /\ snap[p] = obj /\ ~Incomplete(obj)
  BY DEF RemoveFinalizer, BaseInv, CoreInv, CopiesInv, WorkInv
<1>2. obj'.create = obj.create /\ End(p)
  BY DEF RemoveFinalizer, Commit, BaseInv, CoreInv, TypeOK, Resources
<1> QED BY <1>1, <1>2, EndBase

LEMMA UnwrittenBase ==
  ASSUME BaseInv, NEW p \in Replicas, WriteStatus(p) \/ WriteFails(p) \/ Crash(p)
  PROVE  WorkInv' /\ LockInv'
<1>1. End(p) /\ UNCHANGED obj
  BY StatusWrites DEF WriteFails, Crash, GiveUp
<1> QED BY <1>1, EndBase

LEMMA UserBase ==
  ASSUME BaseInv, UserDelete \/ UserEdit PROVE WorkInv' /\ LockInv'
<1> PICK new \in Resources :
      /\ UserWrite(new)
      /\ new.create = obj.create /\ new.finalizer = obj.finalizer
      /\ obj.finalizer => new.live
  BY UserDeletes, UserEdits DEF BaseInv, CoreInv
<1> USE DEF BaseInv, UserWrite, Commit
<1>1. WorkInv'
  BY DEF WorkInv, Incomplete, Initialized
<1>2. LockInv'
  BY DEF LockInv, Creating, Incomplete
<1> QED BY <1>1, <1>2

LEMMA BaseInductive == BaseInv /\ "passed" \notin harm' /\ [Next]_vars => BaseInv'
<1> SUFFICES ASSUME BaseInv, "passed" \notin harm', [Next]_vars
             PROVE  WorkInv' /\ LockInv'
  BY CoreInductive DEF BaseInv
<1>1. ASSUME NEW p \in Replicas,
             \/ Fetch(p) \/ Initialize(p) \/ ResolveReferences(p)
             \/ AddFinalizer(p) \/ MarkPending(p) \/ Publish(p)
      PROVE  WorkInv' /\ LockInv'
  BY <1>1, FetchBase, InitializeBase, ResolveBase, AddFinalizerBase,
     MarkPendingBase, PublishBase
<1>2. ASSUME NEW p \in Replicas, NEW r \in Replies,
             \/ ObserveWorld(p, r) \/ CallCreate(p, r)
             \/ CallUpdate(p, r) \/ CallDelete(p, r)
      PROVE  WorkInv' /\ LockInv'
  BY <1>2, ObserveBase, CallCreateBase, CallBase
<1>3. ASSUME NEW p \in Replicas,
             \/ RecordCreated(p) \/ RecordFailed(p) \/ RemoveFinalizer(p)
             \/ WriteStatus(p) \/ WriteFails(p) \/ Crash(p)
      PROVE  WorkInv' /\ LockInv'
  BY <1>3, AnnotateBase, RemoveFinalizerBase, UnwrittenBase
<1>4. CASE UserDelete \/ UserEdit
  BY <1>4, UserBase
<1>5. CASE (\E p \in Replicas : Sync(p)) \/ Drift \/ UNCHANGED vars
  <2>1. UNCHANGED <<obj, snap, pc>>
    BY <1>5 DEF Sync, Drift, vars
  <2> QED BY <2>1 DEF BaseInv, WorkInv, LockInv, Creating, Incomplete, Initialized
<1>6. {"ok", "rejected"} \subseteq Replies
  BY DEF Replies
<1> QED BY <1>1, <1>2, <1>3, <1>4, <1>5, <1>6 DEF Next, Step

(* Only a resolution does harm, and what it did stays on record.           *)
LEMMA Harming ==
  ASSUME [Next]_vars
  PROVE  /\ harm \subseteq harm'
         /\ harm' # harm => \E p \in Replicas :
              /\ pc[p] = "resolve"
              /\ \E s \in Resolve(snap[p].spec, world) :
                   harm' = harm \cup Harms([obj EXCEPT !.spec = Patch(snap[p].spec, s, @)])
<1>1. \/ UNCHANGED harm
      \/ \E p \in Replicas : ResolveReferences(p)
  BY DEF Next, Step, Fetch, Initialize, ObserveWorld, CallCreate, CallUpdate,
         CallDelete, Call, AddFinalizer, MarkPending, RecordCreated, RecordFailed,
         Annotate, Publish, RemoveFinalizer, WriteStatus, WriteFails, GiveUp, Sync,
         Crash, UserDelete, UserEdit, UserWrite, Drift, vars
<1>2. ASSUME NEW p \in Replicas, ResolveReferences(p)
      PROVE  \/ UNCHANGED harm
             \/ pc[p] = "resolve" /\ \E s \in Resolve(snap[p].spec, world) :
                  harm' = harm \cup Harms([obj EXCEPT !.spec = Patch(snap[p].spec, s, @)])
  BY <1>2 DEF ResolveReferences, Apply, Remake
<1> QED BY <1>1, <1>2

(* What holds until a mark is passed by.                                   *)
LEMMA BaseInvariance == Spec => []("passed" \in harm \/ BaseInv)
<1> DEFINE I == "passed" \in harm \/ BaseInv
<1>1. Init => I
  BY InitBase
<1>2. I /\ [Next]_vars => I'
  BY BaseInductive, Harming
<1> QED BY <1>1, <1>2, PTL DEF Spec

(* Two replicas never run a creation of one resource at the same time: the *)
(* pending annotation, a compare-and-swap, is a lock.  That is the loop's  *)
(* doing, and no kind, edit or crash can undo it: only references that a   *)
(* reconcile resolves past the mark.                                       *)
THEOREM CreationExclusive == Spec => []OneCreatorUnlessPassed
<1>1. "passed" \in harm \/ BaseInv => OneCreatorUnlessPassed
  BY DEF BaseInv, LockInv, OneCreator, OneCreatorUnlessPassed
<1> QED BY <1>1, BaseInvariance, PTL

(* And these do so only from an outdated copy; nor do they, from a current *)
(* one, change what object is meant.                                       *)
THEOREM HarmedWhenStale == ASSUME Keeping PROVE Spec => OnlyStaleHarm
<1>1. ASSUME CoreInv, [Next]_vars, harm' # harm
      PROVE  \E p \in Replicas : pc[p] = "resolve" /\ p \notin fresh
  <2>1. PICK p \in Replicas :
          /\ pc[p] = "resolve"
          /\ \E s \in Resolve(snap[p].spec, world) :
               harm' = harm \cup Harms([obj EXCEPT !.spec = Patch(snap[p].spec, s, @)])
    BY <1>1, Harming
  <2>2. SUFFICES ASSUME p \in fresh PROVE FALSE
    BY <2>1
  <2>3. snap[p] = obj /\ obj \in Resources /\ world \in Worlds /\ ~Incomplete(obj)
    BY <1>1, <2>1, <2>2 DEF CoreInv, CopiesInv, EntryInv, TypeOK
  <2>4. PICK s \in Resolve(obj.spec, world) :
          harm' = harm \cup Harms([obj EXCEPT !.spec = Patch(obj.spec, s, @)])
    BY <2>1, <2>3
  <2> DEFINE new == [obj EXCEPT !.spec = Patch(obj.spec, s, @)]
  <2>5. obj.spec \in Specs /\ obj.name \in Names /\ Patch(obj.spec, s, obj.spec) = s
    BY <2>3, <2>4, ResolveTypes DEF Resources
  <2>6. new.spec = s /\ new.name = obj.name
    BY <2>3, <2>4, <2>5 DEF Resources
  <2>7. Targets(obj.spec, obj.name) \subseteq Targets(new.spec, new.name)
    BY <2>3, <2>5, <2>6 DEF Keeping
  <2>8. Harms(new) = {}
    BY <2>3, <2>7 DEF Harms
  <2> QED BY <1>1, <2>4, <2>8
<1>2. CoreInv /\ [Next]_vars
        => [harm' # harm => \E p \in Replicas : pc[p] = "resolve" /\ p \notin fresh]_vars
  BY <1>1
<1> QED BY <1>2, CoreInvariance, PTL DEF Spec, OnlyStaleHarm

-------------------------------------------------------------------------------
(* The lock.                                                               *)

(* A reconcile that moves and neither begins nor ends a creation makes no  *)
(* step of the lock.                                                       *)
LEMMA LockStutters ==
  ASSUME TypeOK, NEW p \in Replicas, NEW place, Goto(p, place),
         Creating(p) <=> place \in {"create", "record", "failed"},
         obj'.create = obj.create, UNCHANGED harm
  PROVE  UNCHANGED Lock!lockVars
<1>1. \A q \in Replicas : Creating(q)' <=> Creating(q)
  BY DEF TypeOK, Goto, Creating
<1>2. Incomplete(obj)' <=> Incomplete(obj)
  BY DEF Incomplete
<1> QED BY <1>1, <1>2 DEF Lock!lockVars

(* A resolution leaves the lock as it is, or passes it by.                 *)
LEMMA LockPicked ==
  ASSUME BaseInv, NEW p \in Replicas, ResolveReferences(p)
  PROVE  UNCHANGED Lock!lockVars \/ Lock!Pick
<1>1. /\ pc[p] = "resolve"
      /\ \/ \E new \in Resources : Applied(p, new) \/ Remade(p, new)
         \/ End(p) /\ UNCHANGED <<obj, harm>>
  BY Resolves DEF BaseInv, CoreInv
<1>2. ~Creating(p)
  BY <1>1 DEF Creating
<1> USE DEF BaseInv, CoreInv, TypeOK
<1>3. ASSUME NEW new \in Resources, Applied(p, new)
      PROVE  UNCHANGED Lock!lockVars \/ Lock!Pick
  <2>1. /\ Goto(p, "observe") /\ obj' = new /\ new.create = obj.create
        /\ harm' = harm \cup Harms(new)
    BY <1>3 DEF Applied, Wrote, Goto
  <2>2. \A q \in Replicas : Creating(q)' <=> Creating(q)
    BY <1>2, <2>1 DEF Goto, Creating
  <2>3. Incomplete(obj)' <=> Incomplete(obj)
    BY <2>1 DEF Incomplete
  <2>4. CASE Incomplete(obj)
    <3>1. "passed" \in harm'
      BY <2>1, <2>4 DEF Harms
    <3> QED BY <2>2, <2>3, <2>4, <3>1 DEF Lock!Pick
  <2>5. CASE ~Incomplete(obj)
    <3>1. "passed" \in harm' <=> "passed" \in harm
      BY <2>1, <2>5 DEF Harms
    <3> QED BY <2>2, <2>3, <3>1 DEF Lock!lockVars
  <2> QED BY <2>4, <2>5
<1>4. ASSUME NEW new \in Resources, Remade(p, new) PROVE UNCHANGED Lock!lockVars
  <2>1. /\ Goto(p, "observe") /\ obj' = new
        /\ ~Incomplete(new) /\ ~obj.live /\ UNCHANGED harm
    BY <1>4 DEF Remade, Wrote, Goto
  <2>2. ~Incomplete(obj)
    BY <2>1 DEF LockInv, EntryInv
  <2>3. \A q \in Replicas : Creating(q)' <=> Creating(q)
    BY <1>2, <2>1 DEF Goto, Creating
  <2> QED BY <2>1, <2>2, <2>3 DEF Lock!lockVars, Incomplete
<1>5. CASE End(p) /\ UNCHANGED <<obj, harm>>
  BY <1>2, <1>5, LockStutters DEF End
<1> QED BY <1>1, <1>3, <1>4, <1>5

(* Every other step begins a creation, records one, or breaks one off.     *)
LEMMA LockSteps ==
  ASSUME BaseInv, [Next]_vars
  PROVE  [Lock!Next]_Lock!lockVars
<1> USE DEF BaseInv, CoreInv, TypeOK
<1>1. ASSUME NEW p \in Replicas, MarkPending(p) PROVE Lock!Acquire(p)
  <2>1. /\ snap[p] = obj /\ ~Incomplete(obj) /\ UNCHANGED harm
        /\ pc' = [pc EXCEPT ![p] = "create"]
    BY <1>1 DEF MarkPending, Swap, Goto, CopiesInv, WorkInv
  <2>2. \A q \in Replicas : ~Creating(q)
    BY <2>1 DEF LockInv
  <2>3. \A q \in Replicas : Creating(q)' <=> q = p
    BY <2>1, <2>2 DEF Creating
  <2> QED BY <2>1, <2>2, <2>3 DEF Lock!Acquire
<1>2. ASSUME NEW p \in Replicas, RecordCreated(p) \/ RecordFailed(p)
      PROVE  Lock!Release(p)
  <2>1. PICK mark \in {"succeeded", "failed"}, place \in {"publish", "status"} :
          Annotate(p, mark, place)
    BY <1>2, Records
  <2>2. Creating(p)
    BY <1>2 DEF RecordCreated, RecordFailed, Creating
  <2>3. \A q \in Replicas : Creating(q) <=> q = p
    BY <2>2 DEF LockInv
  <2>4. \A q \in Replicas : ~Creating(q)'
    BY <2>1, <2>3 DEF Annotate, Goto, Creating
  <2>5. obj'.create = mark /\ UNCHANGED harm
    BY <2>1 DEF Annotate, Commit, Resources
  <2>6. ~Incomplete(obj)' /\ Incomplete(obj)
    BY <2>2, <2>5 DEF Incomplete, LockInv
  <2> QED BY <2>3, <2>4, <2>5, <2>6 DEF Lock!Release
<1>3. ASSUME NEW p \in Replicas, WriteFails(p) \/ Crash(p), Creating(p)
      PROVE  Lock!Abandon(p)
  <2>1. pc' = [pc EXCEPT ![p] = "idle"] /\ UNCHANGED <<obj, harm>>
    BY <1>3 DEF WriteFails, Crash, GiveUp, End, Goto
  <2>2. Incomplete(obj) /\ \A q \in Replicas : Creating(q) <=> q = p
    BY <1>3 DEF LockInv
  <2>3. \A q \in Replicas : ~Creating(q)'
    BY <2>1, <2>2 DEF Creating
  <2> QED BY <2>1, <2>2, <2>3 DEF Lock!Abandon, Incomplete
<1>4. ASSUME NEW p \in Replicas,
             \/ Fetch(p) \/ ObserveWorld(p, "ok") \/ ObserveWorld(p, "rejected")
             \/ \E r \in Replies : CallCreate(p, r) \/ CallUpdate(p, r)
                                   \/ CallDelete(p, r)
             \/ Publish(p) \/ WriteStatus(p)
             \/ (WriteFails(p) \/ Crash(p)) /\ ~Creating(p)
      PROVE  UNCHANGED Lock!lockVars
  <2>1. UNCHANGED <<obj, harm>>
    BY <1>4 DEF Fetch, ObserveWorld, CallCreate, CallUpdate, CallDelete, Call,
                Publish, WriteStatus, Commit, WriteFails, Crash, GiveUp
  <2>2. \A o, v : React(o, v) \notin {"create", "record", "failed"}
    BY DEF React, Act
  <2>3. CASE Fetch(p)
    BY <2>1, <2>3, Afters, LockStutters DEF Fetch, Creating
  <2>4. CASE ObserveWorld(p, "ok") \/ ObserveWorld(p, "rejected")
    BY <2>1, <2>2, <2>4, LockStutters DEF ObserveWorld, End, Creating
  <2>5. ASSUME NEW r \in Replies,
               CallCreate(p, r) \/ CallUpdate(p, r) \/ CallDelete(p, r)
        PROVE  UNCHANGED Lock!lockVars
    BY <2>1, <2>5, LockStutters
       DEF CallCreate, CallUpdate, CallDelete, Call, Creating
  <2>6. CASE Publish(p) \/ WriteStatus(p)
    BY <2>1, <2>6, LockStutters DEF Publish, WriteStatus, End, Creating
  <2>7. CASE (WriteFails(p) \/ Crash(p)) /\ ~Creating(p)
    BY <2>1, <2>7, LockStutters DEF WriteFails, Crash, GiveUp, End
  <2> QED BY <1>4, <2>3, <2>4, <2>5, <2>6, <2>7
<1>5. ASSUME NEW p \in Replicas, Initialize(p) \/ AddFinalizer(p) \/ RemoveFinalizer(p)
      PROVE  UNCHANGED Lock!lockVars
  <2>1. p \in fresh => snap[p] = obj
    BY DEF CopiesInv
  <2>2. obj'.create = obj.create /\ UNCHANGED harm
    BY <1>5, <2>1 DEF Initialize, AddFinalizer, RemoveFinalizer, Swap, Commit, Resources
  <2>3. CASE Initialize(p)
    BY <2>2, <2>3, Afters, LockStutters DEF Initialize, Swap, End, Creating
  <2>4. CASE AddFinalizer(p)
    BY <2>2, <2>4, LockStutters DEF AddFinalizer, Act, Swap, Creating
  <2>5. CASE RemoveFinalizer(p)
    BY <2>2, <2>5, LockStutters DEF RemoveFinalizer, End, Creating
  <2> QED BY <1>5, <2>3, <2>4, <2>5
<1>6. ASSUME NEW p \in Replicas, ResolveReferences(p)
      PROVE  UNCHANGED Lock!lockVars \/ Lock!Pick
  BY <1>6, LockPicked
<1>7. ASSUME UNCHANGED <<pc, harm>>, obj'.create = obj.create
      PROVE  UNCHANGED Lock!lockVars
  BY <1>7 DEF Lock!lockVars, Creating, Incomplete
<1>8. ASSUME UserDelete \/ UserEdit PROVE UNCHANGED Lock!lockVars
  <2>1. UNCHANGED <<pc, harm>> /\ obj'.create = obj.create
    BY <1>8 DEF UserDelete, UserEdit, UserWrite, Commit, Resources
  <2> QED BY <1>7, <2>1
<1>9. ASSUME \/ \E p \in Replicas : Sync(p)
             \/ Drift
             \/ UNCHANGED vars
      PROVE  UNCHANGED Lock!lockVars
  BY <1>7, <1>9 DEF Sync, Drift, vars
<1> QED
  BY <1>1, <1>2, <1>3, <1>4, <1>5, <1>6, <1>8, <1>9 DEF Next, Step, Lock!Next

(* The pending annotation implements the lock: only the replica that took  *)
(* it gives it back, one that fails on the way loses it for good, and only *)
(* a resolution picks it.                                                  *)
THEOREM ImplementsLock == Spec => LockSpec
<1> DEFINE I == "passed" \in harm \/ BaseInv
<1>1. Init => Lock!Init
  BY DEF Init, Lock!Init, Creating, Incomplete
<1>2. I /\ [Next]_vars => [Lock!Next]_Lock!lockVars
  <2> SUFFICES ASSUME I, [Next]_vars PROVE [Lock!Next]_Lock!lockVars
    OBVIOUS
  <2>1. CASE "passed" \in harm
    <3>1. "passed" \in harm'
      BY <2>1, Harming
    <3> QED BY <2>1, <3>1 DEF Lock!Next, Lock!Picked
  <2>2. CASE BaseInv
    BY <2>2, LockSteps
  <2> QED BY <2>1, <2>2
<1> HIDE DEF I
<1>3. Spec => []I
  BY BaseInvariance DEF I
<1> QED BY <1>1, <1>2, <1>3, PTL DEF Spec, LockSpec, Lock!Spec

-------------------------------------------------------------------------------
(* A reconcile that saw no object and whose copy stays current: there is   *)
(* none, unless another replica's call brought one about.                  *)

LEMMA NoneMoves ==
  ASSUME CoreInv, NoneInv, NEW p \in Replicas, NEW place, Goto(p, place),
         place \notin {"pending", "unfinalize", "finalize"},
         fresh' \subseteq fresh \cup {p},
         \A q \in Replicas : q # p => snap'[q] = snap[q] /\ seen'[q] = seen[q],
         Objects(world)' \subseteq Objects(world)
  PROVE  NoneInv'
BY DEF CoreInv, TypeOK, NoneInv, Goto, SawNone, Told

LEMMA NoneStays ==
  ASSUME NoneInv, UNCHANGED <<snap, pc, seen>>, fresh' \subseteq fresh,
         Objects(world)' \subseteq Objects(world)
  PROVE  NoneInv'
BY DEF NoneInv, SawNone, Told

(* What the calls of the others leave of it.                               *)
Undisturbed ==
  \A q \in Replicas, r \in Replies :
    CallCreate(q, r) \/ CallUpdate(q, r) =>
      \A p \in fresh \ {q} : SawNone(p) => Told(p) \cap Objects(world)' = {}

LEMMA NoneSteps ==
  ASSUME Truthful, CoreInv, NoneInv, [Next]_vars, Undisturbed PROVE NoneInv'
<1> USE DEF CoreInv, TypeOK
<1>1. ASSUME NEW p \in Replicas, Fetch(p) PROVE NoneInv'
  <2>1. \E place \in {"initialize", "observe", "resolve"} : Goto(p, place)
    BY <1>1, Afters DEF Fetch
  <2>2. /\ \A q \in Replicas : q # p => snap'[q] = snap[q]
        /\ fresh' \subseteq fresh \cup {p} /\ UNCHANGED <<seen, world>>
    BY <1>1 DEF Fetch, Work
  <2> QED BY <2>1, <2>2, NoneMoves
<1>2. ASSUME NEW p \in Replicas, Initialize(p) PROVE NoneInv'
  <2>1. \E place \in {"idle", "observe", "resolve"} : Goto(p, place)
    BY <1>2, Afters DEF Initialize, Swap, End
  <2>2. /\ \A q \in Replicas : q # p => snap'[q] = snap[q] /\ seen'[q] = seen[q]
        /\ fresh' \subseteq fresh \cup {p} /\ UNCHANGED world
    BY <1>2 DEF Initialize, Swap, Commit, End, Work
  <2> QED BY <2>1, <2>2, NoneMoves
<1>3. ASSUME NEW p \in Replicas, ResolveReferences(p) PROVE NoneInv'
  <2>1. /\ UNCHANGED world
        /\ \/ \E new : Wrote(p, new)
           \/ End(p) /\ fresh' = fresh \ {p}
    BY <1>3, Resolves DEF Applied, Remade
  <2>2. \E place \in {"idle", "observe"} : Goto(p, place)
    BY <2>1 DEF Wrote, End, Goto
  <2>3. /\ \A q \in Replicas : q # p => snap'[q] = snap[q] /\ seen'[q] = seen[q]
        /\ fresh' \subseteq fresh \cup {p}
    BY <2>1 DEF Wrote, End, Work
  <2> QED BY <2>1, <2>2, <2>3, NoneMoves
<1>4. ASSUME NEW p \in Replicas, MarkPending(p) PROVE NoneInv'
  <2>1. /\ Goto(p, "create") /\ fresh' \subseteq fresh \cup {p} /\ UNCHANGED <<seen, world>>
        /\ \A q \in Replicas : q # p => snap'[q] = snap[q]
    BY <1>4 DEF MarkPending, Swap, Commit, Work
  <2> QED BY <2>1, NoneMoves
<1>5. ASSUME NEW p \in Replicas, RecordCreated(p) \/ RecordFailed(p) PROVE NoneInv'
  <2>1. /\ \E place \in {"publish", "status"} : Goto(p, place)
        /\ fresh' \subseteq fresh \cup {p} /\ UNCHANGED <<seen, world>>
        /\ \A q \in Replicas : q # p => snap'[q] = snap[q]
    BY <1>5 DEF RecordCreated, RecordFailed, Annotate, Commit, Work
  <2> QED BY <2>1, NoneMoves
<1>6. ASSUME NEW p \in Replicas, Publish(p) PROVE NoneInv'
  <2>1. Goto(p, "status") /\ UNCHANGED <<snap, fresh, seen, world>>
    BY <1>6 DEF Publish
  <2> QED BY <2>1, NoneMoves
<1>7. ASSUME NEW p \in Replicas,
             RemoveFinalizer(p) \/ WriteStatus(p) \/ WriteFails(p) \/ Crash(p)
      PROVE  NoneInv'
  <2>1. /\ End(p) /\ UNCHANGED world
        /\ fresh' \subseteq fresh
    BY <1>7, StatusWrites DEF RemoveFinalizer, Commit, WriteFails, Crash, GiveUp
  <2>2. /\ Goto(p, "idle")
        /\ \A q \in Replicas : q # p => snap'[q] = snap[q] /\ seen'[q] = seen[q]
    BY <2>1 DEF End, Work
  <2> QED BY <2>1, <2>2, NoneMoves
<1>8. ASSUME NEW p \in Replicas, NEW r \in Replies, CallDelete(p, r) PROVE NoneInv'
  <2>1. /\ snap[p].spec \in Specs /\ snap[p].name \in Names
    BY <1>8 DEF CallDelete, Resources
  <2>2. Objects(world)' \subseteq Objects(world)
    BY <1>8, <2>1 DEF Truthful, CallDelete, Call, Credit
  <2>3. Goto(p, "status") /\ UNCHANGED <<snap, fresh, seen>>
    BY <1>8 DEF CallDelete, Call
  <2> QED BY <2>2, <2>3, NoneMoves
<1>9. ASSUME NEW p \in Replicas, NEW r \in Replies, CallCreate(p, r) \/ CallUpdate(p, r)
      PROVE  NoneInv'
  <2>1. \A q \in fresh \ {p} : SawNone(q) => Told(q) \cap Objects(world)' = {}
    BY <1>9 DEF Undisturbed
  <2>2. /\ fresh' \subseteq fresh /\ UNCHANGED seen
        /\ \A q \in Replicas : q # p => snap'[q] = snap[q] /\ pc'[q] = pc[q]
        /\ pc'[p] \in {"failed", "record", "status"}
    BY <1>9 DEF CallCreate, CallUpdate, Call, Work, Goto
  <2> QED BY <2>1, <2>2 DEF NoneInv, SawNone, Told
<1>10. ASSUME NEW p \in Replicas, NEW r \in Replies, ObserveWorld(p, r) PROVE NoneInv'
  <2> DEFINE v == Observe(snap[p].spec, snap[p].name, world, r)
  <2>1. UNCHANGED world /\ snap[p].spec \in Specs /\ snap[p].name \in Names
    BY <1>10 DEF ObserveWorld, Resources
  <2>2. CASE End(p) /\ fresh' = fresh \ {p}
    <3>1. /\ Goto(p, "idle")
          /\ \A q \in Replicas : q # p => snap'[q] = snap[q] /\ seen'[q] = seen[q]
      BY <2>2 DEF End, Work
    <3> QED BY <2>1, <2>2, <3>1, NoneMoves
  <2>3. CASE /\ Goto(p, React(snap[p], v)) /\ UNCHANGED <<snap, fresh>>
             /\ seen' = [seen EXCEPT ![p] = v]
    <3>1. v = "absent" => Told(p) \cap Objects(world) = {}
      BY <2>1 DEF Truthful, Told
    <3>2. React(snap[p], v) \in {"pending", "unfinalize"} => v = "absent"
      BY Reactions
    <3> HIDE DEF v
    <3> QED BY <2>1, <2>3, <3>1, <3>2 DEF NoneInv, Goto, SawNone, Told
  <2> QED BY <1>10, <2>2, <2>3 DEF ObserveWorld
<1>11. ASSUME NEW p \in Replicas, AddFinalizer(p) PROVE NoneInv'
  <2> DEFINE new == [snap[p] EXCEPT !.finalizer = TRUE]
  <2>1. snap[p] \in Resources /\ p \in fresh /\ pc[p] = "finalize"
    BY <1>11 DEF AddFinalizer, Swap
  <2>2. new.spec = snap[p].spec /\ new.name = snap[p].name
    BY <2>1 DEF Resources
  <2>3. Act(seen[p]) # "unfinalize" /\ Act(seen[p]) # "finalize"
        /\ (Act(seen[p]) = "pending" => seen[p] = "absent")
    BY DEF Act
  <2>4. Act(seen[p]) = "pending" => Told(p) \cap Objects(world) = {}
    BY <2>1, <2>3 DEF NoneInv, SawNone
  <2>5. /\ snap'[p] = new /\ fresh' = {p} /\ pc'[p] = Act(seen[p])
        /\ UNCHANGED <<seen, world>>
    BY <1>11 DEF AddFinalizer, Swap, Commit, Work, Goto
  <2>6. Told(p)' = Told(p)
    BY <2>2, <2>5 DEF Told
  <2> HIDE DEF new
  <2> QED BY <2>3, <2>4, <2>5, <2>6 DEF NoneInv, SawNone
<1>12. CASE UserDelete \/ UserEdit
  <2>1. UNCHANGED <<snap, pc, seen, world>> /\ fresh' = {}
    BY <1>12 DEF UserDelete, UserEdit, UserWrite, Commit
  <2> QED BY <2>1, NoneStays
<1>13. CASE Drift
  <2>1. Objects(world)' \subseteq Objects(world) /\ UNCHANGED <<snap, fresh, pc, seen>>
    BY <1>13 DEF Drift, Truthful, Credit
  <2> QED BY <2>1, NoneStays
<1>14. CASE (\E p \in Replicas : Sync(p)) \/ UNCHANGED vars
  <2>1. UNCHANGED <<snap, fresh, pc, seen, world>>
    BY <1>14 DEF Sync, vars
  <2> QED BY <2>1, NoneStays
<1>15. {"ok", "rejected"} \subseteq Replies
  BY DEF Replies
<1> QED
  BY <1>1, <1>2, <1>3, <1>4, <1>5, <1>6, <1>7, <1>8, <1>9, <1>10, <1>11, <1>12,
     <1>13, <1>14, <1>15 DEF Next, Step

-------------------------------------------------------------------------------
(* Where the objects are, action by action: here the handlers matter.      *)

LEMMA InitMade == Init => MadeInv /\ NoneInv /\ AimInv
BY DEF Init, MadeInv, NoneInv, AimInv, Creating

LEMMA FetchMade ==
  ASSUME IInv, NEW p \in Replicas, Fetch(p) PROVE MadeInv' /\ AimInv'
<1> DEFINE place == IF Initialized(cache[p]) THEN After(cache[p]) ELSE "initialize"
<1>1. place \in {"initialize", "observe", "resolve"}
  BY Afters
<1>2. Goto(p, place)
  BY DEF Fetch
<1> HIDE DEF place
<1> USE DEF IInv, BaseInv, CoreInv, TypeOK, Work, Goto
<1>3. MadeInv'
  BY <1>1, <1>2 DEF Fetch, MadeInv, Told, Incomplete
<1>4. AimInv'
  BY <1>1, <1>2 DEF Fetch, AimInv, Creating
<1> QED BY <1>3, <1>4

LEMMA SwapMade ==
  ASSUME IInv, NEW p \in Replicas, NEW new \in Resources, NEW place \in Places,
         Swap(p, new, place),
         UNCHANGED <<world, made>>,
         new.live, snap[p].finalizer => new.finalizer,
         place \notin {"create", "record", "failed"},
         ~Incomplete(snap[p]),
         made \subseteq Targets(new.spec, new.name)
  PROVE  MadeInv' /\ AimInv'
<1> USE DEF IInv, BaseInv, CoreInv, TypeOK, Swap, Commit, Work, Goto
<1>1. snap[p] = obj
  BY DEF CopiesInv
<1>2. MadeInv'
  BY <1>1 DEF MadeInv, LockInv, Creating, Told, Incomplete
<1>3. AimInv'
  BY <1>1 DEF AimInv, LockInv, Creating
<1> QED BY <1>2, <1>3

(* A fresh copy of a complete resource that addresses no object: the       *)
(* provider has made none.                                                 *)
LEMMA NoneMade ==
  ASSUME IInv, NEW p \in fresh, ~Incomplete(snap[p]),
         Told(p) \cap Objects(world) = {}
  PROVE  made = {}
BY DEF IInv, BaseInv, CoreInv, TypeOK, CopiesInv, MadeInv, Told

LEMMA EndMade ==
  ASSUME IInv, NEW p \in Replicas, End(p),
         UNCHANGED <<world, made>>,
         obj'.create = obj.create, obj'.spec = obj.spec,
         ~obj'.finalizer => made = {},
         ~Incomplete(obj) => made \subseteq Targets(obj'.spec, obj'.name)
  PROVE  MadeInv' /\ AimInv'
<1> USE DEF IInv, BaseInv, CoreInv, TypeOK, End, Work, Goto
<1>1. MadeInv'
  BY DEF MadeInv, Told, Incomplete
<1>2. AimInv'
  BY DEF AimInv, Creating
<1> QED BY <1>1, <1>2

LEMMA InitializeMade ==
  ASSUME Honest, IInv, NEW p \in Replicas, Initialize(p)
  PROVE  MadeInv' /\ AimInv'
<1> DEFINE new == [snap[p] EXCEPT !.name = Default(snap[p].spec, @)]
<1>1. /\ p \in fresh /\ snap[p] = obj /\ obj \in Resources
      /\ Default(obj.spec, obj.name) # obj.name
      /\ new \in Resources /\ new.live /\ obj.live /\ new.create = obj.create
      /\ new.finalizer = obj.finalizer /\ new.spec = obj.spec
  BY InitializeWrites DEF IInv
<1>2. ~Incomplete(obj) => made = {}
  BY <1>1 DEF Honest, Keeping, IInv, MadeInv, Resources
<1>3. \/ Proceeds(new) /\ Swap(p, new, After(new))
      \/ Commit(new, {}) /\ End(p)
  BY DEF Initialize
<1>4. UNCHANGED <<world, made>>
  BY DEF Initialize
<1>5. /\ After(new) \in Places
      /\ After(new) \notin {"create", "record", "failed", "pending", "unfinalize",
                            "finalize"}
  BY Afters
<1> HIDE DEF new
<1>6. CASE Proceeds(new) /\ Swap(p, new, After(new))
  <2>1. made = {} /\ ~Incomplete(snap[p])
    BY <1>1, <1>2, <1>6 DEF Proceeds, Incomplete
  <2>2. made \subseteq Targets(new.spec, new.name)
    BY <2>1
  <2> QED BY <1>1, <1>4, <1>5, <1>6, <2>1, <2>2, SwapMade
<1>7. CASE Commit(new, {}) /\ End(p)
  BY <1>1, <1>2, <1>4, <1>7, EndMade DEF Commit, IInv, MadeInv
<1> QED BY <1>3, <1>6, <1>7

(* References change the spec, and it still means what it meant.           *)
LEMMA ResolveMade ==
  ASSUME IInv, harm' = {}, NEW p \in Replicas, ResolveReferences(p)
  PROVE  MadeInv' /\ AimInv'
<1>1. /\ UNCHANGED <<world, made>> /\ pc[p] = "resolve"
      /\ \/ \E new \in Resources : Applied(p, new) \/ Remade(p, new)
         \/ End(p) /\ UNCHANGED obj
  BY Resolves DEF IInv, BaseInv, CoreInv
<1>2. ASSUME NEW new \in Resources, Applied(p, new) PROVE MadeInv' /\ AimInv'
  <2>1. /\ Wrote(p, new) /\ new.finalizer = obj.finalizer
        /\ harm' = harm \cup Harms(new)
    BY <1>2 DEF Applied
  <2>2. /\ ~Incomplete(obj)
        /\ Targets(obj.spec, obj.name) \subseteq Targets(new.spec, new.name)
    BY <2>1 DEF Harms
  <2>3. \A q \in Replicas : ~Creating(q)
    BY <2>2 DEF IInv, BaseInv, LockInv
  <2> USE DEF IInv, BaseInv, CoreInv, TypeOK, Wrote
  <2>4. MadeInv'
    BY <1>1, <2>1, <2>2, <2>3 DEF MadeInv, Creating, Told
  <2>5. AimInv'
    BY <2>1, <2>3 DEF AimInv, Creating
  <2> QED BY <2>4, <2>5
<1>3. ASSUME NEW new \in Resources, Remade(p, new) PROVE MadeInv' /\ AimInv'
  <2>1. Wrote(p, new) /\ ~obj.live
    BY <1>3 DEF Remade
  <2>2. made = {} /\ \A q \in Replicas : ~Creating(q)
    BY <2>1 DEF IInv, BaseInv, CoreInv, EntryInv, LockInv, MadeInv
  <2> USE DEF IInv, BaseInv, CoreInv, TypeOK, Wrote
  <2>3. MadeInv'
    BY <1>1, <2>2 DEF MadeInv
  <2>4. AimInv'
    BY <2>1, <2>2 DEF AimInv, Creating
  <2> QED BY <2>3, <2>4
<1>4. CASE End(p) /\ UNCHANGED obj
  BY <1>1, <1>4, EndMade DEF IInv, MadeInv
<1> QED BY <1>1, <1>2, <1>3, <1>4

LEMMA ObserveMade ==
  ASSUME IInv, NEW p \in Replicas, NEW r \in Replies, ObserveWorld(p, r)
  PROVE  MadeInv' /\ AimInv'
<1>1. UNCHANGED <<obj, world, made>> /\ pc[p] = "observe"
  BY DEF ObserveWorld
<1>2. CASE End(p)
  BY <1>1, <1>2, EndMade DEF IInv, MadeInv
<1>3. ASSUME NEW v, Goto(p, React(snap[p], v)), UNCHANGED snap
      PROVE  MadeInv' /\ AimInv'
  <2>1. React(snap[p], v) \notin {"create", "record", "failed"}
    BY DEF React, Act
  <2> USE DEF IInv, BaseInv, CoreInv, TypeOK, Goto
  <2>2. MadeInv'
    BY <1>1, <1>3, <2>1 DEF MadeInv, Told
  <2>3. AimInv'
    BY <1>1, <1>3, <2>1 DEF AimInv, Creating
  <2> QED BY <2>2, <2>3
<1> QED BY <1>2, <1>3 DEF ObserveWorld

LEMMA AddFinalizerMade ==
  ASSUME IInv, NEW p \in Replicas, AddFinalizer(p) PROVE MadeInv' /\ AimInv'
<1> DEFINE new == [snap[p] EXCEPT !.finalizer = TRUE]
<1>1. /\ p \in fresh /\ snap[p] = obj /\ obj \in Resources /\ obj.live
      /\ ~Incomplete(obj)
  BY DEF AddFinalizer, Swap, IInv, BaseInv, CoreInv, TypeOK, CopiesInv, WorkInv
<1>2. /\ new \in Resources /\ new.live
      /\ new.finalizer /\ new.spec = obj.spec /\ new.name = obj.name
  BY <1>1 DEF Resources
<1>3. made \subseteq Targets(new.spec, new.name)
  BY <1>1, <1>2 DEF IInv, MadeInv
<1>4. /\ Swap(p, new, Act(seen[p])) /\ UNCHANGED <<world, made>>
      /\ Act(seen[p]) \in Places
      /\ Act(seen[p]) \in {"pending", "update", "status"}
  BY Reactions, PlacesOf DEF AddFinalizer
<1> HIDE DEF new
<1> QED BY <1>1, <1>2, <1>3, <1>4, SwapMade

LEMMA MarkPendingMade ==
  ASSUME IInv, NEW p \in Replicas, MarkPending(p) PROVE MadeInv' /\ AimInv'
<1> DEFINE new == [obj EXCEPT !.create = "pending"]
<1>1. /\ p \in fresh /\ snap[p] = obj /\ obj \in Resources /\ obj.live
      /\ ~Incomplete(obj) /\ obj.finalizer
      /\ \A q \in Replicas : ~Creating(q)
      /\ snap' = [snap EXCEPT ![p] = new] /\ obj' = new
      /\ pc' = [pc EXCEPT ![p] = "create"] /\ fresh' = {p}
  BY PendingFrom DEF IInv
<1>2. new.live /\ new.finalizer /\ Incomplete(new) /\ new.spec = obj.spec
  BY <1>1 DEF Resources, CreateMarks, Incomplete
<1>3. made = {}
  BY <1>1, NoneMade DEF MarkPending, IInv, NoneInv, SawNone
<1>4. UNCHANGED <<world, made, seen>>
  BY DEF MarkPending, Swap
<1> HIDE DEF new
<1> USE DEF IInv, BaseInv, CoreInv, TypeOK
<1>5. MadeInv'
  BY <1>1, <1>2, <1>3, <1>4 DEF MadeInv, Creating, Incomplete
<1>6. AimInv'
  BY <1>1, <1>2 DEF AimInv, Creating
<1> QED BY <1>5, <1>6

LEMMA CallCreateMade ==
  ASSUME Honest, IInv, NEW p \in Replicas, NEW r \in Replies, CallCreate(p, r)
  PROVE  MadeInv' /\ AimInv'
<1>1. /\ snap[p] \in Resources
      /\ \A q \in Replicas : q # p => snap'[q] = snap[q] /\ pc'[q] = pc[q]
      /\ fresh' = fresh \ {p} /\ UNCHANGED <<obj, cache, synced, seen>>
      /\ Creating(p)
  BY CreateReturns DEF IInv, BaseInv, CoreInv
<1> PICK o \in Create(snap[p].spec, snap[p].name, world, r) :
      /\ Credit(o.world, IF o.err THEN {}
                         ELSE (Objects(o.world) \ Objects(world))
                                \cup Targets(snap[p].spec, o.name))
      /\ snap'[p].spec = snap[p].spec /\ snap'[p].name = o.name
      /\ pc'[p] = IF o.err THEN "failed" ELSE "record"
  BY CreateReturns DEF IInv, BaseInv, CoreInv
<1>2. /\ Incomplete(obj) /\ obj.finalizer /\ made = {} /\ pc[p] = "create"
      /\ \A q \in Replicas : Creating(q) => q = p
  BY <1>1 DEF CallCreate, IInv, BaseInv, LockInv, MadeInv
<1>3. o.err => made' = {}
  BY <1>2 DEF Credit
<1>4. ~o.err => made' \subseteq Targets(snap[p].spec, o.name)
  <2>1. ~o.err => Objects(o.world)
                    \subseteq Objects(world) \cup Targets(snap[p].spec, o.name)
    BY <1>1 DEF Honest, Truthful, Resources, IInv, BaseInv, CoreInv, TypeOK
  <2> QED BY <1>2, <2>1 DEF Credit
<1>5. MadeInv'
  BY <1>1, <1>2, <1>3, <1>4 DEF MadeInv, IInv, Creating, Told, Incomplete
<1>6. AimInv'
  BY <1>1, <1>2 DEF AimInv, IInv, Creating
<1> QED BY <1>5, <1>6

LEMMA AnnotateMade ==
  ASSUME IInv, NEW p \in Replicas, RecordCreated(p) \/ RecordFailed(p)
  PROVE  MadeInv' /\ AimInv'
<1> PICK mark \in {"succeeded", "failed"}, place \in {"publish", "status"} :
      Annotate(p, mark, place)
  BY Records
<1>1. pc[p] \in {"record", "failed"}
  BY Records
<1>2. /\ obj \in Resources /\ snap[p] \in Resources
      /\ obj'.spec = obj.spec /\ obj'.name = snap[p].name
      /\ ~Incomplete(obj') /\ obj'.live /\ obj'.finalizer
      /\ \A q \in Replicas : Creating(q) => q = p
      /\ fresh' = {p} /\ snap'[p] = obj' /\ pc'[p] = place
      /\ \A q \in Replicas : q # p => snap'[q] = snap[q] /\ pc'[q] = pc[q]
      /\ UNCHANGED <<seen, world, made>>
  BY <1>1, AnnotateWrites DEF IInv
<1>3. made \subseteq Targets(obj'.spec, obj'.name)
  <2>1. made \subseteq Targets(snap[p].spec, snap[p].name)
    BY <1>1 DEF IInv, MadeInv, Told
  <2>2. Targets(snap[p].spec, snap[p].name) = Targets(obj.spec, snap[p].name)
    BY <1>1, <1>2 DEF IInv, AimInv, Creating, Resources
  <2> QED BY <1>2, <2>1, <2>2
<1>4. MadeInv'
  BY <1>2, <1>3 DEF MadeInv, IInv, Creating, Told, Incomplete
<1>5. AimInv'
  BY <1>2 DEF AimInv, Creating
<1> QED BY <1>4, <1>5

LEMMA PublishMade ==
  ASSUME IInv, NEW p \in Replicas, Publish(p) PROVE MadeInv' /\ AimInv'
<1> USE DEF IInv, BaseInv, CoreInv, TypeOK, Publish, Goto
<1>1. MadeInv'
  BY DEF MadeInv, Told
<1>2. AimInv'
  BY DEF AimInv, Creating
<1> QED BY <1>1, <1>2

(* Changes at Upbound that bring no object about.                          *)
LEMMA CreditMade ==
  ASSUME IInv, NEW w, NEW new, Credit(w, new), new \cap Objects(w) = {},
         Objects(w) \subseteq Objects(world),
         UNCHANGED <<obj, snap, fresh, pc, seen>>
  PROVE  MadeInv' /\ AimInv'
<1>1. made' \subseteq made /\ Objects(world)' \subseteq Objects(world)
  BY DEF Credit
<1> QED
  BY <1>1 DEF IInv, BaseInv, CoreInv, TypeOK, MadeInv, AimInv, Creating, Told,
              Incomplete

LEMMA CallMade ==
  ASSUME IInv, NEW p \in Replicas, pc[p] \in {"update", "delete"}, NEW r,
         NEW outcomes,
         \A o \in outcomes : Objects(o.world) \subseteq Objects(world),
         Call(p, outcomes, r)
  PROVE  MadeInv' /\ AimInv'
<1> PICK o \in outcomes :
      Credit(o.world, IF o.err THEN {} ELSE Objects(o.world) \ Objects(world))
  BY DEF Call
<1>1. made' \subseteq made /\ Objects(world)' \subseteq Objects(world)
  BY DEF Credit
<1>2. /\ pc'[p] = "status" /\ \A q \in Replicas : q # p => pc'[q] = pc[q]
      /\ UNCHANGED <<obj, snap, fresh, seen>>
  BY DEF Call, Goto, IInv, BaseInv, CoreInv, TypeOK
<1>3. MadeInv'
  BY <1>1, <1>2 DEF MadeInv, IInv, BaseInv, CoreInv, TypeOK, Told
<1>4. AimInv'
  BY <1>2 DEF AimInv, IInv, Creating
<1> QED BY <1>3, <1>4

LEMMA CallUpdateMade ==
  ASSUME UpdateAddsNothing, IInv, NEW p \in Replicas, NEW r \in Replies,
         CallUpdate(p, r)
  PROVE  MadeInv' /\ AimInv'
<1>1. snap[p] \in Resources /\ world \in Worlds /\ pc[p] = "update"
  BY DEF CallUpdate, IInv, BaseInv, CoreInv, TypeOK
<1>2. \A o \in Update(snap[p].spec, snap[p].name, world, r) :
        Objects(o.world) \subseteq Objects(world)
  BY <1>1 DEF UpdateAddsNothing, Resources
<1> QED BY <1>1, <1>2, CallMade DEF CallUpdate

LEMMA CallDeleteMade ==
  ASSUME Honest, IInv, NEW p \in Replicas, NEW r \in Replies, CallDelete(p, r)
  PROVE  MadeInv' /\ AimInv'
<1>1. snap[p] \in Resources /\ world \in Worlds /\ pc[p] = "delete"
  BY DEF CallDelete, IInv, BaseInv, CoreInv, TypeOK
<1>2. \A o \in Delete(snap[p].spec, snap[p].name, world, r) :
        Objects(o.world) \subseteq Objects(world)
  BY <1>1 DEF Honest, Truthful, Resources
<1> QED BY <1>1, <1>2, CallMade DEF CallDelete

LEMMA RemoveFinalizerMade ==
  ASSUME IInv, NEW p \in Replicas, RemoveFinalizer(p) PROVE MadeInv' /\ AimInv'
<1>1. /\ p \in fresh /\ snap[p] = obj /\ ~Incomplete(obj) /\ obj \in Resources
      /\ Told(p) \cap Objects(world) = {}
  BY DEF RemoveFinalizer, IInv, BaseInv, CoreInv, TypeOK, CopiesInv, WorkInv, NoneInv, SawNone
<1>2. made = {}
  BY <1>1, NoneMade
<1>3. /\ obj'.create = obj.create /\ obj'.spec = obj.spec
      /\ ~obj'.finalizer
  BY <1>1 DEF RemoveFinalizer, Commit, Resources
<1> QED BY <1>2, <1>3, EndMade DEF RemoveFinalizer

LEMMA GiveUpMade ==
  ASSUME IInv, NEW p \in Replicas, WriteFails(p) \/ Crash(p) \/ WriteStatus(p)
  PROVE  MadeInv' /\ AimInv'
<1>1. UNCHANGED <<obj, world, made>> /\ End(p)
  BY StatusWrites DEF WriteFails, Crash, GiveUp
<1> QED BY <1>1, EndMade DEF IInv, MadeInv

LEMMA SyncMade ==
  ASSUME IInv, NEW p \in Replicas, Sync(p) PROVE MadeInv' /\ AimInv'
BY DEF Sync, IInv, MadeInv, AimInv, Creating, Told, Incomplete

(* A write of the user changes nothing about what object is meant.         *)
LEMMA UserMade ==
  ASSUME IInv, NEW new, UserWrite(new),
         new.create = obj.create, new.finalizer = obj.finalizer,
         new.name = obj.name,
         \A n \in Names : Targets(new.spec, n) = Targets(obj.spec, n)
  PROVE  MadeInv' /\ AimInv'
<1> USE DEF IInv, UserWrite, Commit
<1>1. MadeInv'
  BY DEF MadeInv, Told, Incomplete, BaseInv, CoreInv, TypeOK, Resources
<1>2. AimInv'
  BY DEF AimInv, Creating
<1> QED BY <1>1, <1>2

LEMMA UserDeleteMade == ASSUME IInv, UserDelete PROVE MadeInv' /\ AimInv'
<1> PICK new \in Resources :
      /\ UserWrite(new)
      /\ new.create = obj.create /\ new.finalizer = obj.finalizer
      /\ new.live = obj.finalizer
      /\ new.spec = obj.spec /\ new.name = obj.name
  BY UserDeletes DEF IInv, BaseInv, CoreInv
<1> QED BY UserMade

LEMMA UserEditMade == ASSUME Honest, IInv, UserEdit PROVE MadeInv' /\ AimInv'
<1> PICK new \in Resources :
      /\ UserWrite(new)
      /\ new.create = obj.create /\ new.finalizer = obj.finalizer
      /\ new.live /\ new.name = obj.name
      /\ new.spec \in Edits(obj.spec)
  BY UserEdits DEF IInv, BaseInv, CoreInv
<1>1. \A n \in Names : Targets(new.spec, n) = Targets(obj.spec, n)
  BY DEF Honest, Keeping, IInv, BaseInv, CoreInv, TypeOK, Resources
<1> QED BY <1>1, UserMade

LEMMA DriftMade == ASSUME Honest, IInv, Drift PROVE MadeInv' /\ AimInv'
<1> PICK w \in Drifts(world) : Credit(w, {})
  BY DEF Drift
<1>1. Objects(w) \subseteq Objects(world)
  BY DEF Honest, Truthful, IInv, BaseInv, CoreInv, TypeOK
<1> QED BY <1>1, CreditMade DEF Drift

LEMMA StutterMade == ASSUME IInv, UNCHANGED vars PROVE MadeInv' /\ AimInv'
BY DEF vars, IInv, MadeInv, AimInv, Creating, Told, Incomplete

(* Every step but an Update keeps account of the objects.                  *)
LEMMA MadeSteps ==
  ASSUME Honest, IInv, harm' = {}, [Next]_vars,
         ~\E p \in Replicas, r \in Replies : CallUpdate(p, r)
  PROVE  MadeInv' /\ AimInv'
<1>1. ASSUME NEW p \in Replicas,
             \/ Fetch(p) \/ Initialize(p) \/ ResolveReferences(p)
             \/ AddFinalizer(p) \/ MarkPending(p) \/ Publish(p)
      PROVE  MadeInv' /\ AimInv'
  BY <1>1, FetchMade, InitializeMade, ResolveMade, AddFinalizerMade,
     MarkPendingMade, PublishMade
<1>2. ASSUME NEW p \in Replicas, NEW r \in Replies,
             ObserveWorld(p, r) \/ CallCreate(p, r) \/ CallDelete(p, r)
      PROVE  MadeInv' /\ AimInv'
  BY <1>2, ObserveMade, CallCreateMade, CallDeleteMade
<1>3. ASSUME NEW p \in Replicas,
             \/ RecordCreated(p) \/ RecordFailed(p) \/ RemoveFinalizer(p)
             \/ WriteStatus(p) \/ WriteFails(p) \/ Crash(p) \/ Sync(p)
      PROVE  MadeInv' /\ AimInv'
  BY <1>3, AnnotateMade, RemoveFinalizerMade, GiveUpMade, SyncMade
<1>4. CASE UserDelete \/ UserEdit \/ Drift \/ UNCHANGED vars
  BY <1>4, UserDeleteMade, UserEditMade, DriftMade, StutterMade
<1>5. {"ok", "rejected"} \subseteq Replies
  BY DEF Replies
<1> QED BY <1>1, <1>2, <1>3, <1>4, <1>5 DEF Next, Step

(* A replica with a current copy that saw no object is not creating, nor   *)
(* is another: what the others call brings none about.                     *)
LEMMA CallsDisturbNone ==
  ASSUME UpdateAddsNothing, IInv PROVE Undisturbed
<1> SUFFICES ASSUME NEW q \in Replicas, NEW r \in Replies,
                    CallCreate(q, r) \/ CallUpdate(q, r),
                    NEW p \in fresh \ {q}, SawNone(p)
             PROVE  Told(p) \cap Objects(world)' = {}
  BY DEF Undisturbed
<1> USE DEF IInv, BaseInv, CoreInv, TypeOK
<1>1. Told(p) \cap Objects(world) = {}
  BY DEF NoneInv
<1>2. CASE CallCreate(q, r)
  <2>1. Incomplete(obj) /\ snap[p] = obj
    BY <1>2 DEF CallCreate, LockInv, Creating, CopiesInv
  <2> QED BY <2>1 DEF WorkInv, SawNone
<1>3. CASE CallUpdate(q, r)
  <2>1. snap[q] \in Resources
    BY <1>3 DEF CallUpdate
  <2>2. Objects(world)' \subseteq Objects(world)
    BY <1>3, <2>1 DEF CallUpdate, Call, Credit, UpdateAddsNothing, Resources
  <2> QED BY <1>1, <2>2
<1> QED BY <1>2, <1>3

LEMMA Inductive == Contract /\ IInv /\ harm' = {} /\ [Next]_vars => IInv'
<1> SUFFICES ASSUME Contract, IInv, harm' = {}, [Next]_vars PROVE IInv'
  OBVIOUS
<1>1. BaseInv'
  BY BaseInductive DEF IInv
<1>2. MadeInv' /\ AimInv'
  BY CallUpdateMade, MadeSteps DEF Contract
<1>3. NoneInv'
  BY CallsDisturbNone, NoneSteps DEF Contract, Honest, IInv, BaseInv
<1> QED BY <1>1, <1>2, <1>3 DEF IInv

LEMMA InitInv == Init => IInv
BY InitBase, InitMade DEF IInv

(* What holds until a resolution does harm.                                *)
LEMMA Invariance == ASSUME Contract PROVE Spec => [](harm # {} \/ IInv)
<1> DEFINE I == harm # {} \/ IInv
<1>1. I /\ [Next]_vars => I'
  BY Inductive, Harming
<1>2. Init => I
  BY InitInv
<1> QED BY <1>1, <1>2, PTL DEF Spec

LEMMA Accounts == IInv => Accounted
BY DEF IInv, MadeInv, Accounted

(* What the provider made is what the resource names, or the resource says *)
(* that a creation is unfinished, unless a resolution got in the way.      *)
THEOREM ObjectsAccounted == ASSUME Contract PROVE Spec => []AccountedUnlessHarmed
<1>1. harm # {} \/ IInv => AccountedUnlessHarmed
  BY Accounts DEF AccountedUnlessHarmed
<1> QED BY <1>1, Invariance, PTL

LEMMA LeavesNothing == IInv => NoOrphan
BY DEF IInv, BaseInv, CoreInv, EntryInv, MadeInv, NoOrphan

(* A resource that is gone leaves behind nothing the provider made, unless *)
(* a resolution got in the way.                                            *)
THEOREM NothingOrphaned == ASSUME Contract PROVE Spec => []NoOrphanUnlessHarmed
<1>1. harm # {} \/ IInv => NoOrphanUnlessHarmed
  BY LeavesNothing DEF NoOrphanUnlessHarmed
<1> QED BY <1>1, Invariance, PTL

-------------------------------------------------------------------------------
(* Resources whose references are resolved from the start, or that cannot  *)
(* have any: no resolution ever writes, and nothing gets in the way.       *)

Settled == {s \in Specs : \A w \in Worlds : Resolve(s, w) = {s}}

(* Those that stay so whatever edits are made.                             *)
Plain == UNION {P \in SUBSET Settled : \A s \in P : Edits(s) \subseteq P}

NoReferences == \A st \in Starts : st.spec \in Plain

LEMMA PlainStays == Plain \subseteq Settled /\ \A s \in Plain : Edits(s) \subseteq Plain
BY DEF Plain

PlainInv ==
  /\ obj.spec \in Plain
  /\ \A p \in Replicas : /\ cache[p].spec \in Plain
                         /\ pc[p] # "idle" => snap[p].spec \in Plain
                         /\ pc[p] # "resolve"
  /\ harm = {}

LEMMA InitPlain == ASSUME NoReferences PROVE Init => PlainInv
BY DEF NoReferences, Init, PlainInv

LEMMA Observes ==
  ASSUME NEW o, o.spec \in Plain, world \in Worlds PROVE After(o) = "observe"
BY PlainStays DEF After, Settled

LEMMA SwapPlain ==
  ASSUME TypeOK, PlainInv, NEW p \in Replicas, NEW new, NEW place,
         Swap(p, new, place), new.spec \in Plain, place # "resolve",
         UNCHANGED <<cache, harm>>
  PROVE  PlainInv'
BY DEF TypeOK, PlainInv, Swap, Commit, Work, Goto

LEMMA PlainInductive ==
  ASSUME TypeOK, PlainInv, [Next]_vars PROVE PlainInv'
<1> USE DEF TypeOK
<1>1. ASSUME NEW p \in Replicas, Fetch(p) PROVE PlainInv'
  <2>1. cache[p].spec \in Plain /\ After(cache[p]) = "observe"
    BY Observes DEF PlainInv
  <2> QED BY <1>1, <2>1 DEF Fetch, PlainInv, Work, Goto
<1>2. ASSUME NEW p \in Replicas, Initialize(p) PROVE PlainInv'
  <2> DEFINE new == [snap[p] EXCEPT !.name = Default(snap[p].spec, @)]
  <2>1. snap[p] \in Resources /\ snap[p].spec \in Plain
    BY <1>2 DEF Initialize, PlainInv
  <2>2. new.spec \in Plain
    BY <2>1 DEF Resources
  <2>3. After(new) = "observe"
    BY <2>2, Observes
  <2>4. UNCHANGED <<cache, harm>>
    BY <1>2 DEF Initialize
  <2>5. \/ Swap(p, new, After(new))
        \/ Commit(new, {}) /\ End(p)
    BY <1>2 DEF Initialize
  <2> HIDE DEF new
  <2>6. CASE Swap(p, new, After(new))
    BY <2>2, <2>3, <2>4, <2>6, SwapPlain
  <2>7. CASE Commit(new, {}) /\ End(p)
    BY <2>2, <2>4, <2>7 DEF PlainInv, Commit, End, Work, Goto
  <2> QED BY <2>5, <2>6, <2>7
<1>3. ASSUME NEW p \in Replicas, ResolveReferences(p) PROVE FALSE
  BY <1>3 DEF ResolveReferences, PlainInv
<1>4. ASSUME NEW p \in Replicas, AddFinalizer(p) \/ MarkPending(p) PROVE PlainInv'
  <2>1. snap[p] \in Resources /\ snap[p].spec \in Plain
    BY <1>4 DEF AddFinalizer, MarkPending, PlainInv
  <2>2. /\ [snap[p] EXCEPT !.finalizer = TRUE].spec \in Plain
        /\ [snap[p] EXCEPT !.create = "pending"].spec \in Plain
    BY <2>1 DEF Resources
  <2>3. Act(seen[p]) # "resolve"
    BY DEF Act
  <2> QED BY <1>4, <2>2, <2>3, SwapPlain DEF AddFinalizer, MarkPending
<1>5. ASSUME NEW p \in Replicas, NEW r \in Replies,
             \/ ObserveWorld(p, r) \/ CallUpdate(p, r) \/ CallDelete(p, r)
             \/ Publish(p)
      PROVE  PlainInv'
  <2>1. \E place : Goto(p, place) /\ place # "resolve"
    BY <1>5 DEF ObserveWorld, CallUpdate, CallDelete, Call, Publish, End, React, Act
  <2>2. /\ pc[p] # "idle" /\ UNCHANGED <<obj, cache, harm>>
        /\ UNCHANGED snap \/ End(p)
    BY <1>5 DEF ObserveWorld, CallUpdate, CallDelete, Call, Publish
  <2> QED BY <2>1, <2>2 DEF PlainInv, Goto, End, Work
<1>6. ASSUME NEW p \in Replicas, NEW r \in Replies, CallCreate(p, r) PROVE PlainInv'
  <2>1. /\ snap'[p].spec = snap[p].spec /\ pc'[p] \in {"failed", "record"}
        /\ \A q \in Replicas : q # p => snap'[q] = snap[q] /\ pc'[q] = pc[q]
        /\ UNCHANGED <<obj, cache, harm>> /\ pc[p] # "idle"
    BY <1>6, CreateReturns DEF CallCreate
  <2> QED BY <2>1 DEF PlainInv
<1>7. ASSUME NEW p \in Replicas, RecordCreated(p) \/ RecordFailed(p) PROVE PlainInv'
  <2>1. PICK mark \in {"succeeded", "failed"}, place \in {"publish", "status"} :
          Annotate(p, mark, place)
    BY <1>7, Records
  <2> DEFINE new == [obj EXCEPT !.name = snap[p].name, !.create = mark]
  <2>2. new.spec \in Plain
    BY DEF PlainInv, Resources
  <2>3. /\ obj' = new /\ Work(p, new) /\ Goto(p, place) /\ UNCHANGED <<cache, harm>>
    BY <2>1 DEF Annotate, Commit
  <2> HIDE DEF new
  <2> QED BY <2>2, <2>3 DEF PlainInv, Work, Goto
<1>8. ASSUME NEW p \in Replicas,
             RemoveFinalizer(p) \/ WriteStatus(p) \/ WriteFails(p) \/ Crash(p)
      PROVE  PlainInv'
  <2>1. End(p) /\ UNCHANGED <<cache, harm>> /\ obj'.spec = obj.spec
    BY <1>8, StatusWrites
       DEF RemoveFinalizer, Commit, WriteFails, Crash, GiveUp, Resources
  <2> QED BY <2>1 DEF PlainInv, End, Work, Goto
<1>9. ASSUME NEW p \in Replicas, Sync(p) PROVE PlainInv'
  BY <1>9 DEF Sync, PlainInv
<1>10. CASE UserDelete \/ UserEdit
  <2>1. PICK new \in Resources :
          UserWrite(new) /\ new.spec \in Edits(obj.spec) \cup {obj.spec}
    BY <1>10, UserDeletes, UserEdits
  <2> QED BY <2>1, PlainStays DEF PlainInv, UserWrite, Commit
<1>11. CASE Drift \/ UNCHANGED vars
  BY <1>11 DEF Drift, vars, PlainInv
<1>12. {"ok", "rejected"} \subseteq Replies
  BY DEF Replies
<1> QED
  BY <1>1, <1>2, <1>3, <1>4, <1>5, <1>6, <1>7, <1>8, <1>9, <1>10, <1>11, <1>12
     DEF Next, Step

(* No resolution gets in the way of a resource that has no references.     *)
LEMMA NeverHarmed == ASSUME NoReferences PROVE Spec => [](harm = {})
<1>1. Init => TypeOK /\ PlainInv
  BY InitTypes, InitPlain
<1>2. TypeOK /\ PlainInv /\ [Next]_vars => (TypeOK /\ PlainInv)'
  BY TypesInductive, PlainInductive
<1>3. TypeOK /\ PlainInv => harm = {}
  BY DEF PlainInv
<1> QED BY <1>1, <1>2, <1>3, PTL DEF Spec

(* For such a resource the pending annotation is a lock without a gap.     *)
THEOREM PlainExclusive == ASSUME NoReferences PROVE Spec => []OneCreator
<1>1. harm = {} /\ OneCreatorUnlessPassed => OneCreator
  BY DEF OneCreatorUnlessPassed
<1> QED BY <1>1, CreationExclusive, NeverHarmed, PTL

(* And all it ever had made is accounted for and gone before it goes.      *)
THEOREM PlainNotOrphaned ==
  ASSUME Contract, NoReferences PROVE Spec => [](Accounted /\ NoOrphan)
<1>1. harm = {} /\ AccountedUnlessHarmed /\ NoOrphanUnlessHarmed => Accounted /\ NoOrphan
  BY DEF AccountedUnlessHarmed, NoOrphanUnlessHarmed
<1> QED BY <1>1, ObjectsAccounted, NothingOrphaned, NeverHarmed, PTL

-------------------------------------------------------------------------------
(* Only a reconcile that saw the object gone takes the finalizer off.      *)
LEMMA Unfinalized ==
  ASSUME CoreInv, NoneInv, [Next]_vars, obj.finalizer, ~obj'.finalizer
  PROVE  Targets(obj.spec, obj.name) \cap Objects(world) = {}
<1> USE DEF CoreInv, TypeOK
<1>1. ASSUME NEW p \in Replicas, Initialize(p) PROVE FALSE
  <2>1. snap[p] = obj
    BY <1>1 DEF Initialize, Swap, CopiesInv
  <2> QED BY <1>1, <2>1 DEF Initialize, Swap, Commit, Resources
<1>2. ASSUME NEW p \in Replicas, AddFinalizer(p) \/ MarkPending(p) PROVE FALSE
  <2>1. snap[p] = obj
    BY <1>2 DEF AddFinalizer, MarkPending, Swap, CopiesInv
  <2> QED
    BY <1>2, <2>1 DEF AddFinalizer, MarkPending, Swap, Commit, Resources
<1>3. ASSUME NEW p \in Replicas, RecordCreated(p) \/ RecordFailed(p)
      PROVE  FALSE
  BY <1>3 DEF RecordCreated, RecordFailed, Annotate, Commit, Resources
<1>4. ASSUME NEW p \in Replicas, WriteStatus(p) PROVE FALSE
  BY <1>4 DEF WriteStatus, Commit
<1>5. ASSUME UserDelete \/ UserEdit PROVE FALSE
  BY <1>5 DEF UserDelete, UserEdit, UserWrite, Commit, Resources
<1>6. ASSUME NEW p \in Replicas, RemoveFinalizer(p)
      PROVE  Targets(obj.spec, obj.name) \cap Objects(world) = {}
  BY <1>6 DEF RemoveFinalizer, CopiesInv, NoneInv, SawNone, Told
<1>7. ASSUME UNCHANGED obj PROVE FALSE
  BY <1>7
<1>8. ASSUME NEW p \in Replicas, ResolveReferences(p) PROVE FALSE
  <2>1. ASSUME NEW new \in Resources, Applied(p, new) PROVE FALSE
    BY <2>1 DEF Applied, Wrote
  <2>2. ASSUME NEW new \in Resources, Remade(p, new) PROVE FALSE
    BY <2>2 DEF Remade, EntryInv
  <2> QED BY <1>7, <1>8, <2>1, <2>2, Resolves
<1> QED
  BY <1>1, <1>2, <1>3, <1>4, <1>5, <1>6, <1>7, <1>8
     DEF Next, Step, Fetch, ObserveWorld, CallCreate, CallUpdate, CallDelete,
         Call, Publish, WriteFails, GiveUp, Sync, Crash, Drift, vars

LEMMA Finalizes ==
  CoreInv /\ NoneInv /\ [Next]_vars
    => [obj.finalizer /\ ~obj'.finalizer
          => Targets(obj.spec, obj.name) \cap Objects(world) = {}]_vars
BY Unfinalized
=============================================================================
