----------------------------- MODULE SessionLease -----------------------------
(***************************************************************************)
(* What the provider promises about the one Upbound session it keeps: a    *)
(* session is taken out only while none is held, is held unchanged, and is *)
(* given up only once it is within Margin of its expiry.  SessionCache is  *)
(* shown to implement this module; see internal/client/upbound.go.         *)
(***************************************************************************)
EXTENDS Naturals

CONSTANTS Sessions,   \* the session tokens the login endpoint can issue
          Empty,      \* the empty string: no session is held
          Margin,     \* how long before its expiry a session is given up
          MaxTime     \* bound on the clock

VARIABLES session, now

leaseVars == <<session, now>>

(* jwt exp = 0 means that the token carries no expiry claim.               *)
NearExpiry(s) == s.jwt /\ s.exp > 0 /\ now + Margin > s.exp

Init == session = Empty /\ now = 0

Issue == /\ session = Empty
         /\ session' \in Sessions
         /\ UNCHANGED now

Retire == /\ session # Empty
          /\ NearExpiry(session)
          /\ session' = Empty
          /\ UNCHANGED now

Tick == /\ now < MaxTime
        /\ now' = now + 1
        /\ UNCHANGED session

Next == Issue \/ Retire \/ Tick

Spec == Init /\ [][Next]_leaseVars
===============================================================================
