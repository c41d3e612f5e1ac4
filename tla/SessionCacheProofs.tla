-------------------------- MODULE SessionCacheProofs --------------------------
(***************************************************************************)
(* What holds of the shared session for any number of managed resources,   *)
(* ProviderConfigs and credentials.  TypeOK with the first conjunct of     *)
(* LoginExclusive is inductive; everything else follows from it.           *)
(***************************************************************************)
EXTENDS SessionCache, TLAPS

NoLoginOverSession == \A m \in MRs : pc[m] = "login" => session = Empty

IInv == TypeOK /\ NoLoginOverSession

(* A login hands over a session of the declared shape, or the empty one.   *)
LEMMA CookiesAreSessions ==
  ASSUME now \in Nat, NEW cred \in Creds
  PROVE  Cookies(cred) \subseteq Sessions \cup {Empty}
<1>1. ASSUME NEW l \in Lifetimes, NEW f \in Forms
      PROVE  Cookie(cred, l, f) \in Sessions
  <2>1. l \in Nat
    BY ConstantsAssumption
  <2>2. (IF l = 0 THEN 0 ELSE now + l) \in Nat
    BY <2>1
  <2>3. (f = "jwt") \in BOOLEAN
    OBVIOUS
  <2> QED BY <2>2, <2>3, Zenon DEF Cookie, Sessions
<1> QED BY <1>1 DEF Cookies

(* Only the call that holds mu is inside, so leaving frees mu for all.     *)
LEMMA ReturnKeepsMutex ==
  ASSUME TypeOK, NEW m \in MRs, Inside(m),
         NEW place \in Places \ {"check", "login"}, Return(m, place)
  PROVE  /\ holder' \in MRs \cup {NoOne}
         /\ pc' \in [MRs -> Places]
         /\ \A n \in MRs : Inside(n)' <=> holder' = n
BY MarkersAssumption DEF TypeOK, Return, Inside, Places

LEMMA Initially == Init => IInv
BY ConstantsAssumption, MarkersAssumption
   DEF Init, IInv, TypeOK, NoLoginOverSession, Places, Inside, NothingRead, Words

LEMMA Inductive == IInv /\ [Next]_vars => IInv'
<1> SUFFICES ASSUME IInv, [Next]_vars PROVE IInv'
  OBVIOUS
<1> USE DEF IInv
<1>1. ASSUME NEW m \in MRs, ReadCredentials(m) PROVE IInv'
  BY <1>1, ConstantsAssumption
     DEF ReadCredentials, TypeOK, NoLoginOverSession, Inside, Places
<1>2. ASSUME NEW m \in MRs, Lock(m) PROVE IInv'
  BY <1>2, MarkersAssumption
     DEF Lock, TypeOK, NoLoginOverSession, Inside, Places
<1>3. ASSUME NEW m \in MRs, FailUnparsable(m) PROVE IInv'
  BY <1>3, ReturnKeepsMutex
     DEF FailUnparsable, Return, TypeOK, NoLoginOverSession, Inside, Places
<1>4. ASSUME NEW m \in MRs, FailExpired(m) PROVE IInv'
  BY <1>4, ReturnKeepsMutex
     DEF FailExpired, Return, TypeOK, NoLoginOverSession, Inside, Places
<1>5. ASSUME NEW m \in MRs, ReturnShared(m) PROVE IInv'
  BY <1>5, ReturnKeepsMutex
     DEF ReturnShared, Return, TypeOK, NoLoginOverSession, Inside, Places
<1>6. ASSUME NEW m \in MRs, FailNoRequest(m) PROVE IInv'
  BY <1>6, ReturnKeepsMutex
     DEF FailNoRequest, Return, TypeOK, NoLoginOverSession, Inside, Places
<1>7. ASSUME NEW m \in MRs, SendLogin(m) PROVE IInv'
  BY <1>7 DEF SendLogin, TypeOK, NoLoginOverSession, Inside, Places
<1>8. ASSUME NEW m \in MRs, LoginFails(m) PROVE IInv'
  BY <1>8, ReturnKeepsMutex
     DEF LoginFails, Return, TypeOK, NoLoginOverSession, Inside, Places
<1>9. ASSUME NEW m \in MRs, LoginSucceeds(m) PROVE IInv'
  <2> PICK s \in Cookies(data[m]) :
        /\ session' = s
        /\ client' = [client EXCEPT ![m] = [ptr |-> s, len |-> s]]
    BY <1>9 DEF LoginSucceeds, ClientOf
  <2>1. s \in Sessions \cup {Empty}
    BY CookiesAreSessions DEF TypeOK
  <2>2. \A n \in MRs : pc[n] = "login" => n = m
    BY <1>9 DEF LoginSucceeds, TypeOK, Inside
  <2>3. TypeOK'
    BY <1>9, <2>1, ReturnKeepsMutex
       DEF LoginSucceeds, Return, TypeOK, Inside, Places, Words
  <2>4. NoLoginOverSession'
    BY <1>9, <2>2 DEF LoginSucceeds, Return, TypeOK, NoLoginOverSession
  <2> QED BY <2>3, <2>4
<1>10. ASSUME NEW m \in MRs, FailEndpoint(m) PROVE IInv'
  BY <1>10 DEF FailEndpoint, TypeOK, NoLoginOverSession, Inside, Places
<1>11. ASSUME NEW m \in MRs, NEW w \in {"ptr", "len"}, LoadWord(m, w)
       PROVE  IInv'
  <2>1. client' \in [MRs -> [ptr : Words, len : Words]]
    BY <1>11 DEF LoadWord, TypeOK, Words
  <2> QED
    BY <1>11, <2>1 DEF LoadWord, TypeOK, NoLoginOverSession, Inside, Places
<1>12. ASSUME NEW m \in MRs, EndReconcile(m) PROVE IInv'
  BY <1>12 DEF EndReconcile, TypeOK, NoLoginOverSession, Inside, Places,
               NothingRead, Words
<1>13. ASSUME NEW c \in Configs, Rotate(c) PROVE IInv'
  BY <1>13 DEF Rotate, TypeOK, NoLoginOverSession, Inside
<1>14. CASE Tick
  BY <1>14 DEF Tick, TypeOK, NoLoginOverSession, Inside
<1>15. CASE UNCHANGED vars
  BY <1>15 DEF vars, TypeOK, NoLoginOverSession, Inside
<1> QED
  BY <1>1, <1>2, <1>3, <1>4, <1>5, <1>6, <1>7, <1>8, <1>9, <1>10, <1>11,
     <1>12, <1>13, <1>14, <1>15 DEF Next, Step

LEMMA AlwaysIInv == Spec => []IInv
BY Initially, Inductive, PTL DEF Spec

(* Every value stays in its domain and mu has exactly the holder that is   *)
(* inside createOrUpdateProfile.                                           *)
THEOREM TypeCorrect == Spec => []TypeOK
BY AlwaysIInv, PTL DEF IInv

(* At most one login is in flight and none replaces a cached session.      *)
THEOREM OneLoginAtATime == Spec => []LoginExclusive
<1>1. IInv => LoginExclusive
  BY DEF IInv, TypeOK, NoLoginOverSession, LoginExclusive, Inside
<1> QED BY <1>1, AlwaysIInv, PTL

(* The cache with its mutex, its error paths and its unlocked readers      *)
(* implements the session lease.                                           *)
THEOREM ImplementsLease == Spec => LeaseSpec
<1>1. Init => Lease!Init
  BY DEF Init, Lease!Init
<1>2. IInv /\ [Next]_vars => [Lease!Next]_Lease!leaseVars
  <2> SUFFICES ASSUME IInv, [Next]_vars, ~UNCHANGED Lease!leaseVars
               PROVE  Lease!Next
    OBVIOUS
  <2> USE DEF Lease!leaseVars
  <2>1. ASSUME NEW m \in MRs, FailExpired(m) PROVE Lease!Retire
    BY <2>1 DEF FailExpired, NearExpiry, Lease!Retire, Lease!NearExpiry
  <2>2. ASSUME NEW m \in MRs, LoginSucceeds(m) PROVE Lease!Issue
    <3>1. session = Empty
      BY <2>2 DEF LoginSucceeds, IInv, NoLoginOverSession
    <3>2. session' \in Sessions \cup {Empty} /\ now' = now
      BY <2>2, CookiesAreSessions DEF LoginSucceeds, IInv, TypeOK
    <3> QED BY <3>1, <3>2 DEF Lease!Issue
  <2>3. Tick => Lease!Tick
    BY DEF Tick, Lease!Tick
  <2>4. ASSUME NEW m \in MRs, Step(m)
        PROVE  FailExpired(m) \/ LoginSucceeds(m)
    BY <2>4 DEF Step, ReadCredentials, Lock, FailUnparsable, ReturnShared,
      FailNoRequest, SendLogin, LoginFails, FailEndpoint, LoadWord, EndReconcile
  <2>5. (\E m \in MRs : Step(m)) \/ Tick
    BY DEF Next, Rotate, vars
  <2> QED BY <2>1, <2>2, <2>3, <2>4, <2>5 DEF Lease!Next
<1> QED BY <1>1, <1>2, AlwaysIInv, PTL DEF Spec, LeaseSpec, Lease!Spec

(* Once a session that is no JWT is cached, a reconcile that starts is     *)
(* never given a client, whatever the others do and however long it waits. *)
Before(m) == Unparsable /\ pc[m] \in {"idle", "lock", "check"}

LEMMA StaysBefore ==
  ASSUME NEW m \in MRs
  PROVE  IInv /\ Before(m) /\ [Next]_vars => Before(m)'
<1> SUFFICES ASSUME IInv, Before(m), [Next]_vars PROVE Before(m)'
  OBVIOUS
<1>1. \A n \in MRs : pc[n] # "login"
  BY DEF IInv, NoLoginOverSession, Before, Unparsable
<1>2. ASSUME NEW n \in MRs, Step(n) PROVE Before(m)'
  BY <1>1, <1>2 DEF Step, IInv, TypeOK, Before, Unparsable, Return, NearExpiry,
    ReadCredentials, Lock, FailUnparsable, FailExpired, ReturnShared,
    FailNoRequest, SendLogin, LoginFails, LoginSucceeds, FailEndpoint, LoadWord,
    EndReconcile
<1>3. CASE (\E c \in Configs : Rotate(c)) \/ Tick
  BY <1>3 DEF Rotate, Tick, Before, Unparsable
<1>4. CASE UNCHANGED vars
  BY <1>4 DEF vars, Before, Unparsable
<1> QED BY <1>2, <1>3, <1>4 DEF Next

(* Once a session is cached that is no JWT, whoever starts later gets no   *)
(* client: every one of them fails where the session is parsed.            *)
THEOREM UnparsableWedges == Spec => Wedged
<1> SUFFICES ASSUME NEW m \in MRs
             PROVE  Spec => [](Unparsable /\ pc[m] = "idle"
                                 => [](pc[m] # "use"))
  BY DEF Wedged
<1>1. Unparsable /\ pc[m] = "idle" => Before(m)
  BY DEF Before
<1>2. Before(m) => pc[m] # "use"
  BY DEF Before
<1>3. IInv /\ Before(m) /\ [Next]_vars => Before(m)'
  BY StaysBefore
<1> QED BY <1>1, <1>2, <1>3, AlwaysIInv, PTL DEF Spec
===============================================================================
