----------------------------- MODULE CreationLock -----------------------------
(***************************************************************************)
(* What the external-create-pending annotation promises: a lock on the     *)
(* creation of the external object, that one replica takes and gives back. *)
(* If its holder fails it is lost: nobody takes it again, since nobody     *)
(* knows whether the object exists.  A lock that is held or lost may be    *)
(* picked; it keeps nobody out from then on.  Managed is shown to          *)
(* implement it.                                                           *)
(***************************************************************************)
CONSTANT Replicas

VARIABLES holders, lost, picked

lockVars == <<holders, lost, picked>>

Init == holders = {} /\ lost = FALSE /\ picked = FALSE

Acquire(p) == /\ holders = {} /\ ~lost
              /\ holders' = {p}
              /\ UNCHANGED <<lost, picked>>

Release(p) == /\ holders = {p}
              /\ holders' = {}
              /\ UNCHANGED <<lost, picked>>

Abandon(p) == /\ holders = {p}
              /\ holders' = {}
              /\ lost' = TRUE
              /\ UNCHANGED picked

Pick == /\ holders # {} \/ lost
        /\ picked' = TRUE
        /\ UNCHANGED <<holders, lost>>

Picked == picked /\ UNCHANGED picked

Next == \/ \E p \in Replicas : Acquire(p) \/ Release(p) \/ Abandon(p)
        \/ Pick
        \/ Picked

Spec == Init /\ [][Next]_lockVars
===============================================================================
