--------------------------------- MODULE Token ---------------------------------
(***************************************************************************)
(* The handlers of Token resources: internal/controller/cluster/token and, *)
(* alike but for the type they are given, internal/controller/namespaced/  *)
(* token.  Upbound assigns a token its id; the id is the external name.    *)
(***************************************************************************)
CONSTANTS TokenIds,   \* UUIDs
          Labels,     \* values of spec.forProvider.name
          OwnerTypes, \* values of spec.forProvider.owner.type
          OwnerIds,   \* external names of the robots that own tokens
          Unset,      \* no external name
          NotUuid     \* an external name that is no UUID

ASSUME TokenConstants ==
  /\ Unset \notin TokenIds /\ NotUuid \notin TokenIds \cup {Unset}
  /\ {"unused", "deleted"} \cap Labels = {}

TokenSpecs == [label : Labels, owner : OwnerTypes, id : OwnerIds \cup {Unset}]
TokenNames == TokenIds \cup {Unset, NotUuid}

(* The tokens at Upbound: each id was never given out, labels a token, or  *)
(* labelled one that is deleted.                                           *)
TokenWorlds == [TokenIds -> Labels \cup {"unused", "deleted"}]

TokenObjects(w) == {id \in TokenIds : w[id] \in Labels}
TokenTargets(s, n) == {n} \cap TokenIds

(* Others delete tokens and rename them.                                   *)
TokenDrifts(w) ==
  {[w EXCEPT ![id] = l] : id \in TokenObjects(w), l \in Labels \cup {"deleted"}}
     \ {w}

(* A user may rename the token; the owner is marked immutable.             *)
TokenEdits(s) == {[s EXCEPT !.label = l] : l \in Labels} \ {s}

-------------------------------------------------------------------------------
(* setup passes no initializers.                                           *)
TokenDefault(s, n) == n

(* ResolveReferences knows robots only, fails on any other owner type, and *)
(* keeps an id that is there.  Which robot a reference stands for when it  *)
(* is resolved is not modelled.                                            *)
TokenResolve(s, w) ==
  CASE s.owner # "robots" -> {}
    [] s.owner = "robots" /\ s.id # Unset -> {s}
    [] OTHER -> {[s EXCEPT !.id = robot] : robot \in OwnerIds}

(* The id alone is written; of an id alone no token can be made, which has *)
(* a name and an owner's type at least.                                    *)
TokenPatch(s, t, u) == [u EXCEPT !.id = t.id]
TokenWhole(s, t) == {}

(* Mutant: a failed lookup read as not found.                              *)
TokenObserve_FailureIsAbsent(s, n, w, reply) ==
  CASE n = Unset                       -> "absent"
    [] n = NotUuid                     -> "error"
    [] n \in TokenIds /\ reply # "ok"  -> "absent"
    [] OTHER -> IF n \notin TokenObjects(w) THEN "absent"
                ELSE IF w[n] = s.label THEN "current" ELSE "outdated"

TokenObserve(s, n, w, reply) ==
  CASE n = Unset                       -> "absent"
    [] n = NotUuid                     -> "error"
    [] n \in TokenIds /\ reply # "ok"  -> "error"
    [] OTHER -> IF n \notin TokenObjects(w) THEN "absent"
                ELSE IF w[n] = s.label THEN "current" ELSE "outdated"

(* Mutant: no meta.SetExternalName.                                        *)
TokenCreate_Unnamed(s, n, w, reply) ==
  {[err   |-> reply # "ok",
    world |-> IF reply = "rejected" THEN w ELSE [w EXCEPT ![id] = s.label],
    name  |-> n] : id \in {i \in TokenIds : w[i] = "unused"}}

TokenCreate(s, n, w, reply) ==
  IF reply = "rejected"
    THEN {[err |-> TRUE, world |-> w, name |-> n]}
    ELSE {[err   |-> reply = "lost",
           world |-> [w EXCEPT ![id] = s.label],
           name  |-> IF reply = "lost" THEN n ELSE id] :
             id \in {i \in TokenIds : w[i] = "unused"}}

(* The JWT of the new token is in the reply to its creation.               *)
TokenPublishes(s) == TRUE

(* The request carries the label and no id: no token can be meant by it.   *)
TokenUpdate(s, n, w, reply) ==
  {[err |-> e, world |-> w, name |-> n] :
     e \in IF reply = "ok" THEN BOOLEAN ELSE {TRUE}}

(* A token that is not found counts as deleted.                            *)
TokenDelete(s, n, w, reply) ==
  IF n \notin TokenIds \/ reply = "rejected"
    THEN {[err |-> TRUE, world |-> w, name |-> n]}
    ELSE {[err   |-> reply = "lost",
           world |-> IF n \in TokenObjects(w) THEN [w EXCEPT ![n] = "deleted"]
                                              ELSE w,
           name  |-> n]}
===============================================================================
