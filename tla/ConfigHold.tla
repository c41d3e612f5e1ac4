------------------------------ MODULE ConfigHold ------------------------------
(***************************************************************************)
(* What the reconciler of provider configs promises: a config that is      *)
(* deleted is held by the resources that were seen to use it, and goes     *)
(* once each of them let go of it, for good or until it is made again.     *)
(* ConfigUsage is shown to implement it.                                   *)
(***************************************************************************)
CONSTANTS MRs, Configs

VARIABLES config, holders

holdVars == <<config, holders>>

Init == /\ config \in [Configs -> {"absent", "live"}]
        /\ holders = [c \in Configs |-> {}]

Become(c, phase) == config' = [config EXCEPT ![c] = phase]

Create(c) == /\ config[c] = "absent"
             /\ Become(c, "live")
             /\ UNCHANGED holders

(* From here on nobody is added to those that hold it.                     *)
Delete(c) == /\ config[c] = "live"
             /\ Become(c, "deleting")
             /\ \E users \in SUBSET MRs : holders' = [holders EXCEPT ![c] = users]

(* A config that the reconciler did not get to yet is not held.            *)
DeleteUnseen(c) == /\ config[c] = "live"
                   /\ Become(c, "absent")
                   /\ UNCHANGED holders

LetGo(c, m) == /\ m \in holders[c]
               /\ holders' = [holders EXCEPT ![c] = @ \ {m}]
               /\ UNCHANGED config

Remove(c) == /\ config[c] = "deleting" /\ holders[c] = {}
             /\ Become(c, "absent")
             /\ UNCHANGED holders

Next == \E c \in Configs : \/ Create(c) \/ Delete(c) \/ DeleteUnseen(c) \/ Remove(c)
                           \/ \E m \in MRs : LetGo(c, m)

Spec == Init /\ [][Next]_holdVars
===============================================================================
