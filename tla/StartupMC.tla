------------------------------- MODULE StartupMC -------------------------------
(***************************************************************************)
(* The provider starting with the CRDs of any two kinds, for TLC.          *)
(***************************************************************************)
EXTENDS Startup

(* Two kinds to come, the usages' CRDs there already or to come as well.   *)
AnyTwo ==
  {[there |-> Usages, coming |-> {k, l}] : k, l \in Served}
  \cup {[there |-> {k}, coming |-> Usages] : k \in Served}
===============================================================================
