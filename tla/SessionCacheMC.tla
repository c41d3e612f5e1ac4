---------------------------- MODULE SessionCacheMC ----------------------------
(***************************************************************************)
(* Instances of SessionCache for TLC.                                      *)
(***************************************************************************)
EXTENDS SessionCache, TLC

CONSTANTS m1, m2, m3, pcA, pcB, k1, k2

OneConfigEach == m1 :> pcA @@ m2 :> pcB
TwoAndOne     == m1 :> pcA @@ m2 :> pcB @@ m3 :> pcA
OneConfig     == m1 :> pcA @@ m2 :> pcA
===============================================================================
