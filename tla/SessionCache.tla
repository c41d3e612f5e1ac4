----------------------------- MODULE SessionCache -----------------------------
(***************************************************************************)
(* The shared Upbound session of internal/client/upbound.go.  Every        *)
(* reconcile of a managed resource calls NewConfig, which reads the        *)
(* ProviderConfig's credentials, takes or renews the session cached in the *)
(* package variable profileMemory under the mutex mu, and builds an API    *)
(* client carrying that session as its cookie.                             *)
(*                                                                         *)
(* The cached path returns a pointer to profileMemory itself, so the       *)
(* session is read after the mutex was released.  A Go string is two words *)
(* (data pointer and length) and an unsynchronised read of it is two loads *)
(* in an order the compiler chooses: LoadWord is one such load.            *)
(***************************************************************************)
EXTENDS Naturals

CONSTANTS MRs,          \* managed resources, each with at most one reconcile
          Configs,      \* ProviderConfigs
          ConfigOf,     \* the ProviderConfig each managed resource refers to
          Creds,        \* personal access tokens a credentials Secret can hold
          BadCreds,     \* those without a user id: constructAuth rejects them
          BadEndpoints, \* ProviderConfigs whose endpoint url.Parse rejects
          Forms,        \* what a login can answer with: see SessionForms
          Lifetimes,    \* session lifetimes, 0 for a JWT without expiry
          Margin,       \* the ten minutes of the expiry check
          MaxTime,      \* bound on the clock
          Empty,        \* the empty session string
          Unread,       \* a word of the session not loaded yet
          NoOne         \* the mutex is free

(* A cookie holding a JWT, a cookie holding anything else, an empty cookie. *)
SessionForms == {"jwt", "opaque", "empty"}

ASSUME ConstantsAssumption ==
  /\ ConfigOf \in [MRs -> Configs]
  /\ BadCreds \subseteq Creds
  /\ BadEndpoints \subseteq Configs
  /\ Forms \subseteq SessionForms
  /\ Lifetimes \subseteq Nat
  /\ Margin \in Nat
  /\ MaxTime \in Nat

Sessions == [cred : Creds, exp : Nat, jwt : BOOLEAN]

ASSUME MarkersAssumption ==
  /\ NoOne \notin MRs
  /\ Empty \notin Sessions
  /\ Unread \notin Sessions \cup {Empty}

Words == Sessions \cup {Empty, Unread}
NothingRead == [ptr |-> Unread, len |-> Unread]

VARIABLES secret,   \* the credentials each ProviderConfig's Secret holds
          session,  \* profileMemory.Session
          holder,   \* who holds mu
          now,      \* time.Now().Unix()
          pc,       \* where each NewConfig call stands
          data,     \* the credentials that call read
          client    \* the session words its API client was built from

vars == <<secret, session, holder, now, pc, data, client>>

Init == /\ secret \in [Configs -> Creds]
        /\ session = Empty
        /\ holder = NoOne
        /\ now = 0
        /\ pc = [m \in MRs |-> "idle"]
        /\ data = [m \in MRs |-> secret[ConfigOf[m]]]
        /\ client = [m \in MRs |-> NothingRead]

-------------------------------------------------------------------------------
(* NewConfig up to the mutex: the ProviderConfig and its credentials.      *)
ReadCredentials(m) ==
  /\ pc[m] = "idle"
  /\ data' = [data EXCEPT ![m] = secret[ConfigOf[m]]]
  /\ pc' = [pc EXCEPT ![m] = "lock"]
  /\ UNCHANGED <<secret, session, holder, now, client>>

Lock(m) ==
  /\ pc[m] = "lock"
  /\ holder = NoOne
  /\ holder' = m
  /\ pc' = [pc EXCEPT ![m] = "check"]
  /\ UNCHANGED <<secret, session, now, data, client>>

(* Mutant: the expiry check without claims.ExpiresAt > 0.                   *)
NearExpiry_NoClaim(s) == s.jwt /\ now + Margin > s.exp

NearExpiry(s) == s.jwt /\ s.exp > 0 /\ now + Margin > s.exp

(* Leave createOrUpdateProfile, releasing mu, for the given place.         *)
Return(m, place) ==
  /\ holder' = NoOne
  /\ pc' = [pc EXCEPT ![m] = place]

(* Mutant: an error path that returns without the deferred Unlock.          *)
FailUnparsable_KeepsLock(m) ==
  /\ pc[m] = "check"
  /\ session # Empty
  /\ ~session.jwt
  /\ pc' = [pc EXCEPT ![m] = "idle"]
  /\ UNCHANGED <<secret, session, holder, now, data, client>>

(* Mutant: the parse error treated like an expired session.                 *)
FailUnparsable_Clears(m) ==
  /\ pc[m] = "check"
  /\ session # Empty
  /\ ~session.jwt
  /\ session' = Empty
  /\ Return(m, "idle")
  /\ UNCHANGED <<secret, now, data, client>>

(* The cached session does not parse as a JWT: the error path leaves it.   *)
FailUnparsable(m) ==
  /\ pc[m] = "check"
  /\ session # Empty
  /\ ~session.jwt
  /\ Return(m, "idle")
  /\ UNCHANGED <<secret, session, now, data, client>>

(* Mutant: the expired session reported but not dropped.                    *)
FailExpired_Keeps(m) ==
  /\ pc[m] = "check"
  /\ session # Empty
  /\ NearExpiry(session)
  /\ Return(m, "idle")
  /\ UNCHANGED <<secret, session, now, data, client>>

(* The cached session is about to expire: drop it and fail this reconcile. *)
FailExpired(m) ==
  /\ pc[m] = "check"
  /\ session # Empty
  /\ NearExpiry(session)
  /\ session' = Empty
  /\ Return(m, "idle")
  /\ UNCHANGED <<secret, now, data, client>>

(* A usable cached session: return &profileMemory.                         *)
ReturnShared(m) ==
  /\ pc[m] = "check"
  /\ session # Empty
  /\ session.jwt
  /\ ~NearExpiry(session)
  /\ Return(m, "shared")
  /\ UNCHANGED <<secret, session, now, data, client>>

(* constructAuth finds no user id in the token; the endpoint does not parse.*)
NoAuth(m) == data[m] \in BadCreds
NoEndpoint(m) == ConfigOf[m] \in BadEndpoints

(* No cached session and no login request can be built.                    *)
FailNoRequest(m) ==
  /\ pc[m] = "check"
  /\ session = Empty
  /\ NoAuth(m) \/ NoEndpoint(m)
  /\ Return(m, "idle")
  /\ UNCHANGED <<secret, session, now, data, client>>

(* Mutant: the mutex released before the login request is sent.            *)
SendLogin_Unlocks(m) ==
  /\ pc[m] = "check"
  /\ session = Empty
  /\ ~NoAuth(m) /\ ~NoEndpoint(m)
  /\ Return(m, "login")
  /\ UNCHANGED <<secret, session, now, data, client>>

(* No cached session: send the login request, mu still held.               *)
SendLogin(m) ==
  /\ pc[m] = "check"
  /\ session = Empty
  /\ ~NoAuth(m) /\ ~NoEndpoint(m)
  /\ pc' = [pc EXCEPT ![m] = "login"]
  /\ UNCHANGED <<secret, session, holder, now, data, client>>

LoginFails(m) ==
  /\ pc[m] = "login"
  /\ Return(m, "idle")
  /\ UNCHANGED <<secret, session, now, data, client>>

(* What a successful login puts in the session cookie.                     *)
Cookie(cred, lifetime, form) ==
  [cred |-> cred,
   exp  |-> IF lifetime = 0 THEN 0 ELSE now + lifetime,
   jwt  |-> form = "jwt"]

Cookies(cred) ==
  {Cookie(cred, l, f) : l \in Lifetimes, f \in Forms \ {"empty"}}
  \cup (IF "empty" \in Forms THEN {Empty} ELSE {})

(* createUpClient puts the session it is given in the client's cookie jar. *)
ClientOf(s) == [ptr |-> s, len |-> s]

(* A successful login: cache the new profile and return the local copy,    *)
(* whose session no other goroutine can reach.                             *)
LoginSucceeds(m) ==
  /\ pc[m] = "login"
  /\ \E s \in Cookies(data[m]) :
       /\ session' = s
       /\ client' = [client EXCEPT ![m] = ClientOf(s)]
  /\ Return(m, "use")
  /\ UNCHANGED <<secret, now, data>>

(* NewConfig after createOrUpdateProfile returned &profileMemory: a bad    *)
(* endpoint ends the call, otherwise the two words of the session are read *)
(* from profileMemory, without the mutex.                                  *)
FailEndpoint(m) ==
  /\ pc[m] = "shared"
  /\ NoEndpoint(m)
  /\ pc' = [pc EXCEPT ![m] = "idle"]
  /\ UNCHANGED <<secret, session, holder, now, data, client>>

LoadWord(m, w) ==
  /\ pc[m] = "shared"
  /\ ~NoEndpoint(m)
  /\ client[m][w] = Unread
  /\ client' = [client EXCEPT ![m][w] = session]
  /\ pc' = [pc EXCEPT ![m] = IF Unread \in {client'[m].ptr, client'[m].len}
                             THEN "shared" ELSE "use"]
  /\ UNCHANGED <<secret, session, holder, now, data>>

(* The reconcile ends, and its API client with it.                         *)
EndReconcile(m) ==
  /\ pc[m] = "use"
  /\ pc' = [pc EXCEPT ![m] = "idle"]
  /\ client' = [client EXCEPT ![m] = NothingRead]
  /\ UNCHANGED <<secret, session, holder, now, data>>

Rotate(c) ==
  /\ \E k \in Creds \ {secret[c]} : secret' = [secret EXCEPT ![c] = k]
  /\ UNCHANGED <<session, holder, now, pc, data, client>>

Tick ==
  /\ now < MaxTime
  /\ now' = now + 1
  /\ UNCHANGED <<secret, session, holder, pc, data, client>>

-------------------------------------------------------------------------------
Step(m) ==
  \/ ReadCredentials(m)
  \/ Lock(m)
  \/ FailUnparsable(m)
  \/ FailExpired(m)
  \/ ReturnShared(m)
  \/ FailNoRequest(m)
  \/ SendLogin(m)
  \/ LoginFails(m)
  \/ LoginSucceeds(m)
  \/ FailEndpoint(m)
  \/ \E w \in {"ptr", "len"} : LoadWord(m, w)
  \/ EndReconcile(m)

Next == \/ \E m \in MRs : Step(m)
        \/ \E c \in Configs : Rotate(c)
        \/ Tick

Spec == Init /\ [][Next]_vars

(***************************************************************************)
(* Fairness: a goroutine runs on and failed reconciles are requeued (weak  *)
(* fairness of Step); sync.Mutex hands over to a waiter (strong fairness   *)
(* of Lock); the login endpoint, asked again and again, answers again.     *)
(***************************************************************************)
Fairness == \A m \in MRs : /\ WF_vars(Step(m))
                           /\ SF_vars(Lock(m))
                           /\ SF_vars(LoginSucceeds(m))

FairSpec == Spec /\ Fairness
-------------------------------------------------------------------------------
Places == {"idle", "lock", "check", "login", "shared", "use"}

(* Inside createOrUpdateProfile, between mu.Lock and the deferred Unlock.  *)
Inside(m) == pc[m] \in {"check", "login"}

(* Every variable stays within its domain, and mu is held by the one call  *)
(* that is inside createOrUpdateProfile: no error path keeps it.           *)
TypeOK ==
  /\ secret \in [Configs -> Creds]
  /\ session \in Sessions \cup {Empty}
  /\ holder \in MRs \cup {NoOne}
  /\ now \in Nat
  /\ pc \in [MRs -> Places]
  /\ data \in [MRs -> Creds]
  /\ client \in [MRs -> [ptr : Words, len : Words]]
  /\ \A m \in MRs : Inside(m) <=> holder = m

(* However many reconciles run, at most one login request is in flight,    *)
(* and only while no session is cached: a login never replaces a session   *)
(* that other reconciles are using (upbound.go:96-100).                    *)
LoginExclusive ==
  /\ \A m \in MRs : pc[m] = "login" => session = Empty
  /\ \A m, n \in MRs : pc[m] = "login" /\ pc[n] = "login" => m = n

(* The cache implements the lease: a session is issued only when none is   *)
(* held, stays as it is, and is given up only near its expiry.             *)
Lease == INSTANCE SessionLease WITH Sessions <- Sessions
LeaseSpec == Lease!Spec

(* A login that answers with something that is no JWT wedges the provider: *)
(* nothing clears the cached session (upbound.go:104-107), so no reconcile *)
(* that starts afterwards ever gets a client again.                        *)
Unparsable == session # Empty /\ ~session.jwt
Wedged == \A m \in MRs :
            [](Unparsable /\ pc[m] = "idle" => [](pc[m] # "use"))

(* With logins answered by a JWT that outlives Margin, every managed       *)
(* resource is served again and again, across expiry, failed logins and    *)
(* contention on the mutex.                                                *)
AlwaysServed == \A m \in MRs : []<>(pc[m] = "use")

(* Controllers' Connect (controller.go:56-60) promises a client formed     *)
(* from the credentials of the resource's own ProviderConfig.              *)
OwnCredentials ==
  \A m \in MRs : pc[m] = "use" /\ client[m].ptr \in Sessions
                   => client[m].ptr.cred = data[m]

(* createUpClient (upbound.go:207) promises a client with the session      *)
(* cookie set: the whole of one session, and not the empty string.         *)
ClientHasSession ==
  \A m \in MRs : pc[m] = "use" => /\ client[m].ptr = client[m].len
                                  /\ client[m].ptr # Empty
===============================================================================
