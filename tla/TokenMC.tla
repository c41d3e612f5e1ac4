-------------------------------- MODULE TokenMC --------------------------------
(***************************************************************************)
(* Token resources in the reconcile loop, for TLC.                         *)
(***************************************************************************)
EXTENDS TokenManaged, TLC

NoTokens == [id \in TokenIds |-> "unused"]
ByReference == {s \in TokenSpecs : s.owner = "robots" /\ s.id = Unset}
ById == {s \in TokenSpecs : s.owner = "robots" /\ s.id # Unset}

(* A new resource, with its owner by reference or by id; one that imports  *)
(* a token, names one that is gone, or names junk.                         *)
NewToken == [spec : ByReference, name : {Unset}, world : {NoTokens}]
AnyToken ==
  NewToken
  \cup [spec : ById, name : {Unset, NotUuid}, world : {NoTokens}]
  \cup {[spec |-> s, name |-> id, world |-> [NoTokens EXCEPT ![id] = l]] :
          s \in ById, id \in TokenIds, l \in Labels \cup {"deleted"}}

(* Bound: what follows a harmful resolution is not explored.               *)
Unharmed == harm = {}

Symmetry == Permutations(Replicas) \cup Permutations(TokenIds)
===============================================================================
