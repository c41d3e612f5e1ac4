------------------------------ MODULE TokenProofs ------------------------------
(***************************************************************************)
(* The token handlers keep to the contract, so that what is proved of the  *)
(* reconcile loop holds of Token resources.                                *)
(***************************************************************************)
EXTENDS TokenManaged, ManagedProofs

LEMMA ObserveHonest ==
  ASSUME NEW s \in TokenSpecs, NEW n \in TokenNames, NEW w \in TokenWorlds,
         NEW r \in Replies, TokenObserve(s, n, w, r) = "absent"
  PROVE  TokenTargets(s, n) \cap TokenObjects(w) = {}
<1>1. n = Unset \/ n \notin TokenObjects(w)
  BY DEF TokenObserve, TokenNames
<1> QED BY <1>1, TokenConstants DEF TokenTargets

LEMMA CreateNames ==
  ASSUME NEW s \in TokenSpecs, NEW n \in TokenNames, NEW w \in TokenWorlds,
         NEW r \in Replies, NEW o \in TokenCreate(s, n, w, r), ~o.err
  PROVE  TokenObjects(o.world) \subseteq TokenObjects(w) \cup TokenTargets(s, o.name)
<1>1. PICK id \in TokenIds : o.world = [w EXCEPT ![id] = s.label] /\ o.name = id
  <2>1. r # "rejected"
    BY DEF TokenCreate
  <2>2. PICK id \in TokenIds :
          o = [err   |-> r = "lost",
               world |-> [w EXCEPT ![id] = s.label],
               name  |-> IF r = "lost" THEN n ELSE id]
    BY <2>1 DEF TokenCreate
  <2>3. r # "lost"
    BY <2>2
  <2> QED BY <2>2, <2>3
<1> QED BY <1>1 DEF TokenObjects, TokenTargets, TokenWorlds

LEMMA OthersCreateNothing ==
  ASSUME NEW s \in TokenSpecs, NEW n \in TokenNames, NEW w \in TokenWorlds,
         NEW r \in Replies,
         NEW o \in TokenUpdate(s, n, w, r) \cup TokenDelete(s, n, w, r)
  PROVE  TokenObjects(o.world) \subseteq TokenObjects(w)
<1>1. CASE o.world = w
  BY <1>1
<1>2. CASE o.world = [w EXCEPT ![n] = "deleted"]
  <2>1. "deleted" \notin Labels
    BY TokenConstants
  <2> QED BY <1>2, <2>1 DEF TokenObjects, TokenWorlds
<1>3. o.world = w \/ o.world = [w EXCEPT ![n] = "deleted"]
  <2>1. CASE o \in TokenUpdate(s, n, w, r)
    <3>1. \E e : o = [err |-> e, world |-> w, name |-> n]
      BY <2>1, Zenon DEF TokenUpdate
    <3> QED BY <3>1
  <2>2. CASE o \in TokenDelete(s, n, w, r)
    BY <2>2 DEF TokenDelete
  <2> QED BY <2>1, <2>2
<1> QED BY <1>1, <1>2, <1>3

LEMMA DriftsCreateNothing ==
  ASSUME NEW w \in TokenWorlds, NEW v \in TokenDrifts(w)
  PROVE  TokenObjects(v) \subseteq TokenObjects(w)
<1>1. PICK id \in TokenObjects(w), l \in Labels \cup {"deleted"} :
        v = [w EXCEPT ![id] = l]
  BY DEF TokenDrifts
<1> QED BY <1>1 DEF TokenObjects, TokenWorlds

(* The handlers of tokens keep to the contract of the loop.                *)
THEOREM TokenContract == Contract
<1>1. \A s \in Specs, n \in Names :
        /\ \A t \in Edits(s) : Targets(t, n) = Targets(s, n)
        /\ \A w \in Worlds : \A t \in Resolve(s, w) : Targets(s, n) \subseteq Targets(t, n)
  <2>1. \A s, t \in Specs, n \in Names : Targets(s, n) = Targets(t, n)
    BY TokenHandlers DEF TokenTargets
  <2> QED BY <2>1, MeantByName
<1>2. \A s \in Specs, n \in Names : Default(s, n) # n => Targets(s, n) = {}
  BY TokenHandlers DEF TokenDefault
<1>3. ASSUME NEW s \in Specs, NEW n \in Names, NEW w \in Worlds, NEW r \in Replies
      PROVE  Observe(s, n, w, r) = "absent" => Targets(s, n) \cap Objects(w) = {}
  BY ObserveHonest, TokenHandlers
<1>4. ASSUME NEW s \in Specs, NEW n \in Names, NEW w \in Worlds, NEW r \in Replies,
             NEW o \in Create(s, n, w, r), ~o.err
      PROVE  Objects(o.world) \subseteq Objects(w) \cup Targets(s, o.name)
  <2>1. o.world \in Worlds /\ o.name \in Names
    BY OutcomeTypes
  <2>2. o \in TokenCreate(s, n, w, r)
    BY TokenHandlers
  <2>3. TokenObjects(o.world) \subseteq TokenObjects(w) \cup TokenTargets(s, o.name)
    <3>1. s \in TokenSpecs /\ n \in TokenNames /\ w \in TokenWorlds
      BY TokenHandlers
    <3> QED BY <1>4, <2>2, <3>1, CreateNames, Zenon
  <2>4. /\ Objects(o.world) = TokenObjects(o.world)
        /\ Objects(w) = TokenObjects(w)
        /\ Targets(s, o.name) = TokenTargets(s, o.name)
    BY <2>1, TokenHandlers
  <2> QED BY <2>3, <2>4
<1>5. ASSUME NEW s \in Specs, NEW n \in Names, NEW w \in Worlds, NEW r \in Replies,
             NEW o \in Update(s, n, w, r) \cup Delete(s, n, w, r)
      PROVE  Objects(o.world) \subseteq Objects(w)
  <2>1. o.world \in Worlds
    BY OutcomeTypes
  <2> QED BY <2>1, OthersCreateNothing, TokenHandlers
<1>6. ASSUME NEW w \in Worlds, NEW v \in Drifts(w)
      PROVE  Objects(v) \subseteq Objects(w)
  <2>1. v \in Worlds
    BY HandlersAssumption
  <2> QED BY <2>1, DriftsCreateNothing, TokenHandlers
<1> QED BY <1>1, <1>2, <1>3, <1>4, <1>5, <1>6
   DEF Contract, Honest, Keeping, Truthful, UpdateAddsNothing

(* A Token resource that goes away leaves no token behind that the         *)
(* provider was told of, unless its owner's reference was resolved from an *)
(* outdated copy while the token was being created.                        *)
THEOREM TokensNotOrphaned == Spec => []NoOrphanUnlessHarmed
BY TokenContract, NothingOrphaned

-------------------------------------------------------------------------------
(* Whatever resolutions do, the finalizer waits for the token: an id that  *)
(* a copy of the resource names was given out before, and Upbound gives no *)
(* id out again.                                                           *)

(* No resource starts with the id of a token that there is yet to be.      *)
NamesIssued == \A st \in Starts : st.name \in TokenIds => st.world[st.name] # "unused"

Known(n) == n \in TokenIds => world[n] # "unused"

KnownInv == /\ Known(obj.name)
            /\ \A p \in Replicas : /\ Known(cache[p].name)
                                   /\ pc[p] # "idle" => Known(snap[p].name)

LEMMA InitKnown == ASSUME NamesIssued PROVE Init => KnownInv
BY DEF NamesIssued, Init, KnownInv, Known

(* A world in which one token was labelled or deleted.                     *)
Relabels(w, v) == \E id \in TokenIds, l \in Labels \cup {"deleted"} :
                    v = [w EXCEPT ![id] = l]

(* One in which an id was given out that never was before.                 *)
Issues(w, id, v) == w[id] = "unused" /\ \E l \in Labels : v = [w EXCEPT ![id] = l]

(* A creation that is carried out labels an id that was never given out.   *)
LEMMA CreateLabels ==
  ASSUME NEW s \in Specs, NEW n \in Names, NEW w \in Worlds, NEW r \in Replies,
         NEW o \in Create(s, n, w, r)
  PROVE  \/ o.world = w /\ o.name = n
         \/ \E id \in TokenIds : Issues(w, id, o.world) /\ o.name \in {n, id}
<1>1. o \in TokenCreate(s, n, w, r) /\ s.label \in Labels
  BY TokenHandlers DEF TokenSpecs
<1>2. CASE r = "rejected"
  BY <1>1, <1>2 DEF TokenCreate
<1>3. CASE r # "rejected"
  <2>1. PICK id \in {i \in TokenIds : w[i] = "unused"} :
          o = [err   |-> r = "lost",
               world |-> [w EXCEPT ![id] = s.label],
               name  |-> IF r = "lost" THEN n ELSE id]
    BY <1>1, <1>3 DEF TokenCreate
  <2>2. o.name \in {n, id} /\ o.world = [w EXCEPT ![id] = s.label]
    BY <2>1
  <2> QED BY <1>1, <2>1, <2>2 DEF Issues
<1> QED BY <1>2, <1>3

LEMMA UpdateLeaves ==
  ASSUME NEW s \in Specs, NEW n \in Names, NEW w \in Worlds, NEW r \in Replies,
         NEW o \in Update(s, n, w, r)
  PROVE  o.world = w
<1>1. o \in TokenUpdate(s, n, w, r)
  BY TokenHandlers
<1>2. \E e : o = [err |-> e, world |-> w, name |-> n]
  BY <1>1, Zenon DEF TokenUpdate
<1> QED BY <1>2

LEMMA DeleteMarks ==
  ASSUME NEW s \in Specs, NEW n \in Names, NEW w \in Worlds, NEW r \in Replies,
         NEW o \in Delete(s, n, w, r)
  PROVE  o.world = w \/ Relabels(w, o.world)
<1>1. o \in TokenDelete(s, n, w, r)
  BY TokenHandlers
<1>2. o.world = w \/ o.world = [w EXCEPT ![n] = "deleted"]
  BY <1>1 DEF TokenDelete
<1>3. n \notin TokenIds => o.world = w
  BY <1>1 DEF TokenDelete
<1> QED BY <1>2, <1>3 DEF Relabels

LEMMA OnceKnown ==
  ASSUME NEW w \in Worlds, NEW v \in Worlds, NEW n \in TokenIds, w[n] # "unused",
         v = w \/ Relabels(w, v)
  PROVE  v[n] # "unused"
<1>1. "unused" \notin Labels /\ "deleted" # "unused"
  BY TokenConstants
<1> QED BY <1>1, TokenHandlers DEF TokenWorlds, Relabels

LEMMA KnownStays ==
  ASSUME TypeOK, [Next]_vars, NEW n, Known(n) PROVE Known(n)'
<1>1. world \in Worlds
  BY DEF TypeOK
<1>2. world' \in Worlds
  BY TypesInductive DEF TypeOK
<1>3. ASSUME NEW p \in Replicas, NEW r \in Replies,
             CallCreate(p, r) \/ CallUpdate(p, r) \/ CallDelete(p, r)
      PROVE  world' = world \/ Relabels(world, world')
  <2>1. snap[p].spec \in Specs /\ snap[p].name \in Names
    BY <1>3 DEF CallCreate, CallUpdate, CallDelete, TypeOK, Resources
  <2>2. PICK o \in Create(snap[p].spec, snap[p].name, world, r)
                     \cup Update(snap[p].spec, snap[p].name, world, r)
                     \cup Delete(snap[p].spec, snap[p].name, world, r) :
          world' = o.world
    BY <1>3 DEF CallCreate, CallUpdate, CallDelete, Call, Credit
  <2>3. CASE o \in Create(snap[p].spec, snap[p].name, world, r)
    <3>1. o.world = world \/ \E id \in TokenIds : Issues(world, id, o.world)
      BY <1>1, <2>1, <2>3, CreateLabels
    <3> QED BY <2>2, <3>1 DEF Issues, Relabels
  <2>4. CASE o \in Update(snap[p].spec, snap[p].name, world, r)
    BY <1>1, <2>1, <2>2, <2>4, UpdateLeaves
  <2>5. CASE o \in Delete(snap[p].spec, snap[p].name, world, r)
    BY <1>1, <2>1, <2>2, <2>5, DeleteMarks
  <2> QED BY <2>2, <2>3, <2>4, <2>5
<1>4. ASSUME Drift PROVE Relabels(world, world')
  <2>1. world' \in TokenDrifts(world)
    BY <1>1, <1>4, TokenHandlers DEF Drift, Credit
  <2> QED BY <2>1 DEF TokenDrifts, TokenObjects, Relabels
<1>5. \/ world' = world
      \/ Drift
      \/ \E p \in Replicas : \E r \in Replies :
           CallCreate(p, r) \/ CallUpdate(p, r) \/ CallDelete(p, r)
  BY DEF Next, Step, Fetch, Initialize, ResolveReferences, ObserveWorld,
         AddFinalizer, MarkPending, RecordCreated, RecordFailed, Annotate, Publish,
         RemoveFinalizer, WriteStatus, WriteFails, GiveUp, Sync, Crash, UserDelete,
         UserEdit, UserWrite, vars
<1>6. world' = world \/ Relabels(world, world')
  BY <1>3, <1>4, <1>5
<1> QED BY <1>1, <1>2, <1>6, OnceKnown DEF Known

LEMMA KnownInductive == TypeOK /\ KnownInv /\ [Next]_vars => KnownInv'
<1> SUFFICES ASSUME TypeOK, KnownInv, [Next]_vars PROVE KnownInv'
  OBVIOUS
<1> USE DEF TypeOK
<1>1. \A n : Known(n) => Known(n)'
  BY KnownStays
<1>2. ASSUME NEW p \in Replicas, Fetch(p) PROVE KnownInv'
  <2>1. /\ UNCHANGED <<obj, cache>> /\ snap'[p] = cache[p]
        /\ \A q \in Replicas : q # p => snap'[q] = snap[q] /\ pc'[q] = pc[q]
    BY <1>2 DEF Fetch, Work, Goto
  <2> QED BY <1>1, <2>1 DEF KnownInv
<1>3. ASSUME NEW p \in Replicas,
             Initialize(p) \/ AddFinalizer(p) \/ MarkPending(p)
      PROVE  KnownInv'
  <2> DEFINE new == [snap[p] EXCEPT !.name = Default(snap[p].spec, @)]
  <2>1. snap[p] \in Resources /\ Known(snap[p].name)
    BY <1>3 DEF Initialize, AddFinalizer, MarkPending, KnownInv
  <2>2. /\ new.name = snap[p].name
        /\ [snap[p] EXCEPT !.finalizer = TRUE].name = snap[p].name
        /\ [snap[p] EXCEPT !.create = "pending"].name = snap[p].name
    BY <2>1, TokenHandlers DEF Resources, TokenDefault
  <2> HIDE DEF new
  <2>3. /\ UNCHANGED cache /\ obj'.name = snap[p].name
        /\ pc'[p] # "idle" => snap'[p].name = snap[p].name
        /\ \A q \in Replicas : q # p => snap'[q] = snap[q] /\ pc'[q] = pc[q]
    BY <1>3, <2>2
       DEF Initialize, AddFinalizer, MarkPending, Swap, Commit, End, Work, Goto, new
  <2> QED BY <1>1, <2>1, <2>3 DEF KnownInv
<1>4. ASSUME NEW p \in Replicas, ResolveReferences(p) PROVE KnownInv'
  <2>1. /\ UNCHANGED cache /\ snap[p] \in Resources
        /\ \/ \E new \in Resources : Applied(p, new) \/ Remade(p, new)
           \/ End(p) /\ UNCHANGED obj
    BY <1>4, Resolves
  <2>2. ASSUME NEW new \in Resources, Applied(p, new) PROVE KnownInv'
    <3>1. /\ obj' = new /\ snap'[p] = new /\ new.name = obj.name
          /\ \A q \in Replicas : q # p => snap'[q] = snap[q] /\ pc'[q] = pc[q]
      BY <2>2 DEF Applied, Wrote
    <3> QED BY <1>1, <2>1, <3>1 DEF KnownInv
  <2>3. ASSUME NEW new \in Resources, Remade(p, new) PROVE FALSE
    <3>1. PICK s \in Resolve(snap[p].spec, world) : new.spec \in Whole(snap[p].spec, s)
      BY <2>3 DEF Remade
    <3>2. snap[p].spec \in Specs /\ s \in Specs
      BY <2>1, ResolveTypes DEF Resources
    <3> QED BY <3>1, <3>2, TokenHandlers DEF TokenWhole
  <2>4. CASE End(p) /\ UNCHANGED obj
    BY <1>1, <2>1, <2>4 DEF End, Work, Goto, KnownInv
  <2> QED BY <2>1, <2>2, <2>3, <2>4
<1>5. ASSUME NEW p \in Replicas, NEW r \in Replies, CallCreate(p, r) PROVE KnownInv'
  <2>1. /\ snap[p] \in Resources /\ UNCHANGED <<obj, cache>> /\ Known(snap[p].name)
        /\ \A q \in Replicas : q # p => snap'[q] = snap[q] /\ pc'[q] = pc[q]
    BY <1>5, CreateReturns DEF CallCreate, KnownInv
  <2>2. PICK o \in Create(snap[p].spec, snap[p].name, world, r) :
          world' = o.world /\ snap'[p].name = o.name
    BY <1>5, CreateReturns DEF Credit
  <2>3. CASE o.name = snap[p].name
    BY <1>1, <2>1, <2>2, <2>3 DEF KnownInv
  <2>4. CASE o.name # snap[p].name
    <3>1. PICK id \in TokenIds : Issues(world, id, o.world) /\ o.name = id
      <4>1. snap[p].spec \in Specs /\ snap[p].name \in Names /\ world \in Worlds
        BY <2>1 DEF Resources
      <4> QED BY <4>1, <2>4, CreateLabels
    <3>2. world'[id] # "unused"
      BY <2>2, <3>1, TokenConstants, TokenHandlers DEF Issues, TokenWorlds
    <3>3. Known(o.name)'
      BY <3>1, <3>2 DEF Known
    <3> QED BY <1>1, <2>1, <2>2, <3>3 DEF KnownInv
  <2> QED BY <2>3, <2>4
<1>6. ASSUME NEW p \in Replicas, RecordCreated(p) \/ RecordFailed(p) PROVE KnownInv'
  <2>1. PICK mark \in {"succeeded", "failed"}, place \in {"publish", "status"} :
          Annotate(p, mark, place)
    BY <1>6, Records
  <2>2. pc[p] # "idle" /\ Known(snap[p].name)
    BY <1>6 DEF RecordCreated, RecordFailed, KnownInv
  <2> DEFINE new == [obj EXCEPT !.name = snap[p].name, !.create = mark]
  <2>3. new.name = snap[p].name
    BY DEF Resources
  <2>4. /\ obj' = new /\ snap'[p] = new /\ UNCHANGED cache
        /\ \A q \in Replicas : q # p => snap'[q] = snap[q] /\ pc'[q] = pc[q]
    BY <2>1 DEF Annotate, Commit, Work, Goto
  <2> HIDE DEF new
  <2> QED BY <1>1, <2>2, <2>3, <2>4 DEF KnownInv
<1>7. ASSUME NEW p \in Replicas, NEW r \in Replies,
             \/ ObserveWorld(p, r) \/ CallUpdate(p, r) \/ CallDelete(p, r)
             \/ Publish(p) \/ WriteStatus(p) \/ WriteFails(p) \/ Crash(p)
             \/ RemoveFinalizer(p)
      PROVE  KnownInv'
  <2>1. /\ obj'.name = obj.name /\ UNCHANGED cache /\ pc[p] # "idle"
        /\ UNCHANGED snap \/ End(p)
    BY <1>7 DEF ObserveWorld, CallUpdate, CallDelete, Call, Publish, WriteStatus,
                Commit, WriteFails, Writing, Crash, GiveUp, RemoveFinalizer, Resources
  <2>2. \E place : pc' = [pc EXCEPT ![p] = place]
    BY <1>7 DEF ObserveWorld, CallUpdate, CallDelete, Call, Publish, WriteStatus,
                WriteFails, Crash, GiveUp, RemoveFinalizer, End, Goto
  <2> QED BY <1>1, <2>1, <2>2 DEF KnownInv, End, Work, Goto
<1>8. CASE UserDelete \/ UserEdit
  <2>1. PICK new \in Resources : UserWrite(new) /\ new.name = obj.name
    BY <1>8, UserDeletes, UserEdits
  <2> QED BY <1>1, <2>1 DEF UserWrite, Commit, KnownInv
<1>9. CASE (\E p \in Replicas : Sync(p)) \/ Drift \/ UNCHANGED vars
  BY <1>1, <1>9 DEF Sync, Drift, vars, KnownInv
<1>10. {"ok", "rejected"} \subseteq Replies
  BY DEF Replies
<1> QED
  BY <1>2, <1>3, <1>4, <1>5, <1>6, <1>7, <1>8, <1>9, <1>10 DEF Next, Step

(* What a creation labels is an id that no copy names.                     *)
LEMMA TokensUndisturbed ==
  ASSUME CoreInv, NoneInv, KnownInv PROVE Undisturbed
<1> SUFFICES ASSUME NEW q \in Replicas, NEW r \in Replies,
                    CallCreate(q, r) \/ CallUpdate(q, r),
                    NEW p \in fresh \ {q}, SawNone(p)
             PROVE  Told(p) \cap Objects(world)' = {}
  BY DEF Undisturbed
<1> USE DEF CoreInv, TypeOK
<1>1. snap[q].spec \in Specs /\ snap[q].name \in Names
  BY DEF CallCreate, CallUpdate, Resources
<1>2. PICK o \in Create(snap[q].spec, snap[q].name, world, r)
                   \cup Update(snap[q].spec, snap[q].name, world, r) :
        world' = o.world
  BY DEF CallCreate, CallUpdate, Call, Credit
<1>3. snap[p] \in Resources /\ Known(snap[p].name) /\ Told(p) \cap Objects(world) = {}
  BY DEF NoneInv, SawNone, KnownInv
<1>4. Told(p) = {snap[p].name} \cap TokenIds
  BY <1>3, TokenHandlers DEF Told, Resources, TokenTargets
<1>5. o.world \in Worlds /\ Objects(world)' = TokenObjects(o.world)
  BY <1>1, <1>2, OutcomeTypes, TokenHandlers
<1>6. \/ o.world = world
      \/ \E id \in TokenIds : Issues(world, id, o.world)
  <2>1. world \in Worlds
    OBVIOUS
  <2>2. CASE o \in Create(snap[q].spec, snap[q].name, world, r)
    BY <1>1, <2>1, <2>2, CreateLabels
  <2>3. CASE o \in Update(snap[q].spec, snap[q].name, world, r)
    BY <1>1, <2>1, <2>3, UpdateLeaves
  <2> QED BY <2>2, <2>3
<1>7. snap[p].name \in TokenIds => o.world[snap[p].name] = world[snap[p].name]
  BY <1>3, <1>6, TokenHandlers DEF Known, Issues, TokenWorlds
<1> QED BY <1>3, <1>4, <1>5, <1>7, TokenHandlers DEF TokenObjects

(* The finalizer of a Token resource comes off only when the token it      *)
(* names is gone, whatever its references do and however stale the caches. *)
THEOREM TokensFinalizedLast == ASSUME NamesIssued PROVE Spec => GoneFirst
<1> DEFINE I == CoreInv /\ NoneInv /\ KnownInv
<1>1. Truthful
  BY TokenContract DEF Contract, Honest
<1>2. Init => I
  BY InitCore, InitMade, InitKnown
<1>3. I /\ [Next]_vars => I'
  BY <1>1, CoreInductive, NoneSteps, KnownInductive, TokensUndisturbed DEF CoreInv
<1>4. I /\ [Next]_vars
        => [obj.finalizer /\ ~obj'.finalizer
              => Targets(obj.spec, obj.name) \cap Objects(world) = {}]_vars
  BY Finalizes
<1> QED BY <1>2, <1>3, <1>4, PTL DEF Spec, GoneFirst
===============================================================================
