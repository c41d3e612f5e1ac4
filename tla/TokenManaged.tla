----------------------------- MODULE TokenManaged -----------------------------
(***************************************************************************)
(* A Token resource in the reconcile loop: what token/setup.go gives       *)
(* managed.NewReconciler.                                                  *)
(***************************************************************************)
EXTENDS Managed, Token

ASSUME TokenHandlers ==
  /\ Specs = TokenSpecs /\ Names = TokenNames /\ NoName = Unset
  /\ Worlds = TokenWorlds /\ Ids = TokenIds
  /\ \A s \in Specs : Edits(s) = TokenEdits(s) /\ Publishes(s) = TokenPublishes(s)
  /\ \A s \in Specs, w \in Worlds : Resolve(s, w) = TokenResolve(s, w)
  /\ \A s, t, u \in Specs : /\ Patch(s, t, u) = TokenPatch(s, t, u)
                             /\ Whole(s, t) = TokenWhole(s, t)
  /\ \A w \in Worlds : /\ Objects(w) = TokenObjects(w)
                       /\ Drifts(w) = TokenDrifts(w)
  /\ \A s \in Specs, n \in Names : /\ Default(s, n) = TokenDefault(s, n)
                                   /\ Targets(s, n) = TokenTargets(s, n)
  /\ \A s \in Specs, n \in Names, w \in Worlds, r \in Replies :
       /\ Observe(s, n, w, r) = TokenObserve(s, n, w, r)
       /\ Create(s, n, w, r) = TokenCreate(s, n, w, r)
       /\ Update(s, n, w, r) = TokenUpdate(s, n, w, r)
       /\ Delete(s, n, w, r) = TokenDelete(s, n, w, r)
===============================================================================
