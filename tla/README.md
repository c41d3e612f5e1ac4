# A TLA+ model of provider-upbound

provider-upbound is a Crossplane provider: it runs one controller for each kind
of Upbound object (robots, tokens, teams, team memberships, repositories,
permissions), each in a cluster-scoped and in a namespaced version, and keeps
the objects at Upbound in line with the managed resources in a Kubernetes API
server. This directory holds TLA+ modules that model its core, the TLC
configurations that check them and proofs, checked by TLAPS, of what matters
most.

## The system

| component | source | state | operations | with whom it interacts |
|---|---|---|---|---|
| session cache | `internal/client/upbound.go` | `profileMemory`, the mutex `mu` | `NewConfig`, `createOrUpdateProfile`: check the cached session, drop it near its expiry, log in | every reconcile of every controller calls it; credentials come from the ProviderConfig's Secret |
| reconcile loop | crossplane-runtime, set up in each kind's `setup.go` | the managed resource: finalizer, external-name and external-create annotations, conditions; each replica's informer cache | fetch, initialize, observe, create, update, delete, finalize, publish details, write status | calls the handlers of the kind; its updates are compare-and-swap, resolved references are applied by force |
| kinds | `internal/controller/{cluster,namespaced}/<kind>/controller.go` | none; the objects at Upbound | `Connect`, `Observe`, `Create`, `Update`, `Delete` | Upbound's API, through up-sdk-go or `internal/client/<kind>` |
| reference resolution | `custom_resolvers.go`, `zz_generated.resolvers.go` | ids stored in the spec | `ResolveReferences` before each `Observe` | reads other managed resources |
| ProviderConfigs | `internal/controller/*/config` | ProviderConfigUsage objects, a finalizer while in use | track a usage, look a config up, hold a config that is in use | every `Connect` |
| set-up | `cmd/provider/main.go`, `internal/controller/**/setup.go`, `apis/` | the gate, the scheme | register the kinds, start a controller when its CRD exists, end the process on an error | the controller manager, the package manager that installs CRDs |

What is hard here: reconciles of different resources run concurrently and share
one session; leader election is off by default (`main.go:58`), so two replicas
may reconcile one resource; a reconcile decides on a cached copy that lags
behind the API server; two stores, the API server and Upbound, are written one
after the other, with crashes and lost replies between; users edit and delete
while that goes on; and everything is retried, so that it must come to an end.
`PROJECT.json` lists these hazards at the lines where they bite, with the
properties that watch over them.

What makes each component correct:

- session cache: one login at a time, no path that keeps the mutex, a session is
  kept until it is about to expire, every resource keeps being served, and each
  is served with the session of its own credentials;
- reconcile loop with the handlers of a kind: one creation at a time, no object
  made and forgotten, no finalizer removed while the object exists, deletion
  ends, the object comes to be as the spec says, and its connection details
  reach the Secret; and what of this the forced write of references breaks;
- reference resolution: a resource settles once what it refers to is there, and
  can be deleted when it no longer is;
- ProviderConfigs: one that is in use stays, one that is not can go;
- set-up: every kind that is served comes to have one controller, its own.

## The modules

| module | what it models |
|---|---|
| `SessionLease` | the abstract promise about the session: taken out only when none is held, kept unchanged, given up only near expiry |
| `SessionCache` | `upbound.go`, one action for each way through `createOrUpdateProfile` and `NewConfig` |
| `CreationLock` | the abstract promise of the creation annotations: a lock that is lost with its holder, and that may be picked |
| `ConfigHold` | the abstract promise about configs: one that is deleted is held by those seen to use it, and goes when the last lets go |
| `Managed` | the reconcile loop for one resource, with several replicas; the handlers are operator constants |
| `Token`, `Robot`, `Team`, `Repository`, `Membership`, `Permission` | the handlers of a kind and the clients under them, as operators from spec, external name, state of Upbound and fate of the call to the possible outcomes |
| `Namespaced` | the handlers and types of the namespaced kinds, which do as the cluster-scoped ones |
| `Kinds` | the handlers of all kinds, chosen by the kind and scope in the spec, as one loop's |
| `TokenManaged` | says that the loop's handlers are the token's |
| `ConfigUsage` | `Connect` of every kind, the usages it records, and the reconcilers of provider configs |
| `Apis` | the kinds, their groups, and what each API package registers |
| `Startup` | `main`, the gate, and every `SetupGated` |
| `SessionCacheMC`, `TokenMC`, `RepositoryMC`, `KindsMC`, `ConfigUsageMC`, `StartupMC` | what the runs start from, for TLC |
| `SessionCacheProofs`, `ManagedProofs`, `TokenProofs`, `KindProofs`, `RepositoryProofs`, `ConfigUsageProofs`, `StartupProofs` | theorems |

They compose as the code does: `Namespaced` instantiates the modules of all
kinds, since its handlers do as theirs; `Kinds` instantiates `Namespaced`, and is
a loop itself (it extends `Managed`); `TokenMC` and `RepositoryMC` put one
kind alone in the loop; `Startup` takes its kinds from `Apis`. `SessionCache`
and `ConfigUsage` model the two halves of `Connect`, each against what shares
its state.

### SessionCache

`secret` is what each ProviderConfig's Secret holds, `session` is
`profileMemory.Session`, `holder` the mutex, `now` the clock, and `pc`, `data`
and `client` are the progress, the credentials and the API client of each
resource's `NewConfig` call; one resource has at most one reconcile at a time. A
session is a record of the credentials it was issued for, its expiry (0: no
claim) and whether it parses as a JWT.

A call that finds a usable session returns `&profileMemory`. Its `Session` is
read by the caller after the deferred unlock. That is a data race, and a Go
string is a pointer and a length, so `LoadWord` reads the two words apart in
either order. The login path returns a local copy, which nobody else reaches, so
`LoginSucceeds` reads it at once. `LoginFails` stands for a transport error, the
end of the reconcile's context, and an answer without the session cookie.
`NoAuth` and `NoEndpoint` are the credentials no request can be formed from and
the endpoints that do not parse.

### Managed

`obj` is the resource in the API server, `cache[p]` the copy in the informer
cache of replica `p`, `snap[p]` the working copy of its reconcile. Resource
versions are not counted: `synced` and `fresh` hold the replicas whose cache and
whose working copy are of the current version, which is all that a
compare-and-swap (`Swap`) tells apart. `pc[p]` is the write or call a reconcile is about
to make. `made` is a history variable: the objects at Upbound that the provider
created and was told of, while they exist. `harm` is another, which records what
resolutions did; no action reads either.

Each action is one call of the loop and what the loop does with its result up to
the next: `Fetch`, `Initialize` (the name initializer, for kinds that pass it),
`ResolveReferences` (what it resolves is written to the spec; not for a resource
being deleted, see below), `ObserveWorld`, `AddFinalizer`, `MarkPending` (the
external-create-pending annotation), `CallCreate`, `RecordCreated` and
`RecordFailed` (the critical annotations, written with retries on conflict),
`Publish` (the connection details), `CallUpdate`, `CallDelete`,
`RemoveFinalizer`, `WriteStatus`. `WriteFails` is a refused write, `Crash` the
end of the process, `Sync` the informer; `UserDelete`, `UserEdit` and `Drift`
are the environment. Every call to Upbound is carried out, turned down, or
carried out with its reply lost.

The loop is crossplane-runtime's and not in the repository: `PROJECT.json` marks
its definitions external. What the repository decides about it, in each
`setup.go`, is in the constants: which initializers run (`Default`), what
references resolve to (`Resolve`), which fields of the spec that fills in
(`Patch`) and whether these alone make a valid resource (`Whole`), that names are
not deterministic (`Proceeds` refuses an incomplete creation), that there are
several replicas.

**The write of resolved references.** Every `setup.go` passes
`managed.NewAPISimpleReferenceResolver` (`cluster/token/setup.go:52`). Of the
runtime pinned in `go.mod` it sends the fields it resolved as a server-side apply,
forced and without a resourceVersion. No conflict refuses it, and the reply is
the working copy from then on. `Fetch` has by then passed `Proceeds` with the
copy from the cache. So a resolution from an outdated copy succeeds (`Apply`),
and the reconcile goes on with the resource as it is now: marked, named, with a
finalizer or deleted, whatever its copy said when it was checked. Applied to a
resource that is gone it makes a new one of those fields (`Remake`), where the API
accepts that, which it does for memberships only; the others lack a required
field. `harm` says what a resolution did to the stored resource: `passed` the
mark of an unfinished creation by, or `moved` it to mean another object, since a
user had edited it meanwhile.

### The kinds

Tokens, robots and teams get their id from Upbound and keep it in the
external-name annotation. A creation picks any unused id, an id is not reused. A
token's `Update` sends the new name without an id and so changes no token;
robots and teams have no update. A robot's owner and a team's organization are
given by id or by a name that is looked up first, and the lost reply may be that
of the look-up. The ids of tokens and robots are parsed as UUIDs, a team's is
not. `ResolveReferences` of a token fails on every owner type but `robots`.

Repositories are called by their name. The initializer sets the external name to
the name of the managed resource; `Observe` and `Delete` use the external name,
`Create` and `Update` put `spec.forProvider.name`. `UpToDate` is the code's
disjunction of the two settings. A repository without a publish policy compares
as `""`, so one may be there when the resource is made, whatever its settings.

Memberships and permissions are relations. They are meant by two fields of the
spec, which references to other resources may fill in: a world holds the
external names those have at the time (`robot`, `team`, `repo`), which come into
being, and for a robot change when it is made again. What was resolved once is
kept. `Get` of a membership reads the robot's relationships: a robot id that is
no UUID is an error, a robot that is gone or not in the team is not found. A
permission that exists is up to date whatever its level.

### Kinds

A spec is a record of kind, scope and form, a world one of kind and holdings;
each handler goes by the kind (`By`) and then by the scope (`For`).
`KeepingEdits` are the edits of a spec that leave alone which object it means;
`KindEdits` are all. `Sound` says which specs can be carried out: the owner or
organization is given and is one, the external name can be parsed, what is
referred to is there.

### ConfigUsage

`of` is the scope and kind of the resources, `mr` their life, `ref` the
reference to a config, `going` that by which a running reconcile connects,
`usage` the ProviderConfigUsage of each, and `view` the copy that the
reconcilers of configs list. `config` is the life of each provider config,
`held` those with the finalizer `in-use`, `work` what each one's reconcile has
decided to do. `using` and `secured` are history variables: the resources that
connected by their present reference, and those whose use of a config was to be
seen when the config's deletion began.

`Connect` has one definition for each controller. Those of the legacy kinds
track the usage themselves and look a ProviderConfig up
(`cluster/config/pc.go`); the namespaced ones do both in
`namespaced/config/pc.go`, which goes by the kind in the reference. Between
`Track` and `Proceed` anything may happen. A config's reconcile lists the usages
(`Look`) and acts on what it saw in a second step.

### Startup

`scheme` is what `main` has registered, `waiting` the call-backs held by the
gate, `open` the kinds found established, `started` and `running` the
controllers set up and those whose caches are synchronized. `Setup` is the
sequence of everything `upbound.Setup` registers; each entry says on which kind
it is gated, what it reconciles and what it watches. A call-back that fails
panics; a controller that watches a kind whose CRD is missing ends the process
after the cache-sync timeout; and the process starts again with nothing.

## The runs

| run | question | result |
|---|---|---|
| `session_safety` | three resources, two ProviderConfigs, one with bad credentials and one with an endpoint that does not parse, all forms of login answers: is the mutex released on every path, is there one login at a time, is the lease kept, does an unparsable session block for good? | holds |
| `session_live` | is every resource served again and again? | holds |
| `session_own` | is every client formed from the resource's own credentials? | violated |
| `session_torn` | does every client hold one whole session? | violated |
| `token_safety` | two replicas, one token, renamed and deleted meanwhile: until a resolution gets in the way, is there one creation at a time, are tokens accounted for, is none left behind, are the marks a lock? Is the finalizer last? | holds |
| `token_drift` | does a token come to be as specified, when it can be renamed? | violated |
| `token_secret` | do the connection details of a creation reach the Secret? | violated |
| `repo_drift` | does a repository come to be as the spec says? | violated |
| `kinds_live` | a resource of any kind and scope, new or importing, with references: is none of its objects left behind until a resolution gets in the way, does only one from an outdated copy do that, is the finalizer last, does its deletion end, does it settle? | holds |
| `membership_moved` | is a membership left behind when its ids are edited? | violated |
| `config_usage` | does a config that is in use stay, are configs held and let go of as `ConfigHold` says, and do deletions of configs and resources end in whatever order they are asked for? | holds |
| `startup` | whatever the order of CRDs and failures, does every kind come to have its controller, does none start for a kind that is missing, and does no call-back fail for a reason of the provider's own? | holds |

The violated ones are disagreements between the code and its own comments; they
are under "findings" in `PROJECT.json`, with the lines.

`Wedged` states what the code does, not what one would wish: once the login has
answered with a cookie that is not a JWT, every later reconcile of every
resource fails until the process restarts.

`OneCreatorUnlessPassed`, `AccountedUnlessHarmed` and `NoOrphanUnlessHarmed` are
`OneCreator`, `Accounted` and `NoOrphan` for as long as no resolution has passed
a mark by (or, for the last two, moved the resource). Without that condition all
three are false of a token whose owner is given by reference, and TLC shows how,
with no crash, edit or lost reply at all:

- Two replicas. `p1` fetches, resolves, sees no token, adds the finalizer and
  marks. `p2` fetches its old copy, resolves: it now holds the marked resource,
  whose name is not set. It sees no token either and marks again. Both create,
  and one of the two tokens is named by nothing. If it is deleted meanwhile,
  `p2` sees no token and takes the finalizer off while `p1` creates.
- One replica. The creation succeeds and the write of the record fails, so the
  resource stays marked. The cache still has the copy from before the mark. The
  next reconcile fetches it, resolves, sees no token and creates another, or, if
  the user deletes the resource now, takes the finalizer off.

No document of the repository claims the opposite, so there is no finding and no
run for it. What the runs do show is that this is the only way: the properties
hold of everything up to such a resolution, `LockSpec` has `Pick` for it alone,
and `OnlyStaleHarm` says that it takes an outdated copy. Where nothing is left to
be resolved, which is every Robot, Team and Repository, and every Token,
membership and permission whose ids are given, `harm` stays empty and the
properties hold without exception; that is proved, of repositories under the
hypotheses named below. `GoneFirst` needs no
exception for tokens, nor with one replica: what was seen gone is what the stored
resource names, since the finalizer is removed by compare-and-swap, and nothing
is created under that name meanwhile. With two replicas it is false of a
membership by reference, in twelve states: `p1` has marked, `p2` resolves from its
old copy after the user's deletion and sees no membership, `p1` creates it, and
`p2` takes the finalizer off.

A membership that is removed while a reconcile resolves its references may come
back (`Remake`), as a resource nobody asked for. The properties hold of it too;
that it does not come back is not claimed, and `DeletionEnds` is about the one
that was deleted.

Blocking states are excepted in `DeletionEnds`, `Converges` and `Settles`. A
replica that ends between the pending annotation and the record of the creation
leaves a resource marked incomplete, which crossplane-runtime refuses to touch
until a human looks at it. `DeletionEnds` is checked for edits that leave alone which
object is meant: a membership whose robot id is cleared while it is deleted keeps
its finalizer for ever. `Settles` also excepts specs that stay impossible to
carry out (`Sound`): a token of another owner than a robot, a name that is no
UUID, a stored id of a robot that has since been replaced. It is for `Observe`
to say what is up to date, so of a permission's level it says nothing.
`DeletionsEnd` excepts a resource that cannot connect because its config is gone
for good, which the code leaves with its finalizer.

### Bounds

| bound | value | why it is enough |
|---|---|---|
| resources sharing the session | 3, in `session_live` 2 | one logs in, one holds the shared session, one waits for the mutex |
| `MaxTime`, `Lifetimes`, `Margin` | 3 or 4, {0, 2}, 1 | a session is fresh, in the margin, past it, and renewed; 0 is the JWT without expiry |
| credentials | 2 | own and another's |
| replicas | 2 in `token_safety`, else 1 | two race for one lock; liveness is checked for one replica, the state graph of two with failures is too large |
| `Unharmed` | a constraint of `token_safety` | nothing is explored past a state in which a resolution got in the way. Most of its properties say nothing of what follows; `GoneFirst` and `TypeOK` do, and are proved. `kinds_live` has no such bound. Without it there are more than ten million states |
| ids of objects | 2 | the one of a lost reply and the next; in `kinds_live` a token whose mark is passed by again and again may run out of ids, and then stays marked, which the properties except |
| `MaxTrouble` | 2 in `startup`, else 1 | a crash, a lost reply, an edit or a change by others; failed writes, calls turned down and lags are not counted, there may be any number |
| robots and teams, in `kinds_live` | 2 each | the robot referred to before and after it is made again |
| labels, levels | 2, in `kinds_live` 1; 2 | an edit needs two; tokens are renamed in the runs of tokens |
| resources, configs, in `config_usage` | 2, 2 of each scope | one resource leaves a config while another holds it, or goes from one to the other; the kinds are taken one at a time |
| CRDs, in `startup` | 2 kinds to come, of 15, in any pair, and the usages' | a pair is enough for one controller to take another's kind, name or place |

Deadlock is not checked for the loop, `config_usage` and `startup`: a resource
that is gone, and a provider that has started, are the end of a run. The session
runs check it.

Symmetry (replicas, token ids) is used in `token_safety`, which checks
properties that tell neither replicas nor ids apart. No run of a liveness
property uses it.

### Fairness

`SessionCache`: a goroutine that can run does and a failed reconcile is requeued
(weak fairness of `Step`); Go's mutex hands over to a goroutine that has waited a
millisecond (strong fairness of `Lock`); the login endpoint answers now and then
(strong fairness of `LoginSucceeds`). The last one is an assumption about the
environment, without which nothing can be served.

`Managed` and `Kinds`: a reconcile runs on, and the queue or the poll interval
brings it back (weak fairness of `Step`); informers catch up (weak fairness of
`Sync`); from some time on neither the API server nor Upbound fails a call, and
what fails is only the write of a stale copy (`<>[][Calm]_vars`). Nothing is
assumed of users, and a lost reply may come as late as one likes.

`ConfigUsage`: each resource's reconcile and each config's goes on (weak
fairness of `Connect` and `Manage`), the informer of usages catches up, the
garbage collector collects.

`Startup`: the process goes on with what it can do (weak fairness of `Progress`)
and the CRDs that are to come do come. Failures are bounded, and a cache-sync
timeout may happen any number of times until the CRD is there.

## The proofs

`SessionCacheProofs` proves `TypeOK`, `LoginExclusive`, the refinement of
`SessionLease` and `Wedged`, for any number of resources, configs and
credentials. `TypeOK` is inductive, since it ties `holder` to the calls inside
`createOrUpdateProfile`; from it follows that whoever logs in alone is inside,
so that no cached session appears meanwhile. The refinement follows step by step
from both.

`ManagedProofs` climbs from what holds whatever happens to what holds until a
resolution gets in the way. A property of the latter kind is proved as
`[](harm # {} \/ IInv)`: `harm` only grows, so a step that leaves it empty started
from a state that had it empty, and keeps `IInv`.

- `CoreInv` is inductive for any handlers, of which only the types of what they
  return are assumed (`HandlersAssumption`). Its parts are `TypeOK`; `CopiesInv`, a
  copy of the current version is the resource, which turns compare-and-swap into
  a statement about values; and `EntryInv`, no marked copy gets to the resolution
  of references.
- `BaseInv` adds `WorkInv`, a reconcile past the checks of `Fetch` works on a
  resource without a mark, and `LockInv`, while a replica creates the resource is
  marked and has the finalizer. The mark is written compare-and-swap from a copy
  without one, so that it is a lock, and no other replica gets past
  `MarkPending`. It survives a crash, since `Fetch` refuses it. Until a
  resolution has passed a mark by, `BaseInv` holds for any handlers, edits and
  number of replicas. `CreationExclusive` follows.
- `ImplementsLock` maps the holders to the replicas between `MarkPending` and the
  record of the outcome, a lost lock to a mark that nobody stands behind, and a
  picked one to a mark that was passed by. Each step is one of the lock's or
  leaves it alone.
- `HarmedWhenStale` is about single steps: a resolution from a current copy finds
  the resource as that copy says, unmarked, and fills in its own spec.
- `IInv` adds what is needed of handlers that keep to `Contract`, for
  `ObjectsAccounted` and `NothingOrphaned`. `Contract` is `Keeping` (no edit
  changes which object is meant, resolving a reference takes none away),
  `Truthful` ("absent" is never said of an object that exists, and `Create` brings
  about only what the name it returns stands for) and `UpdateAddsNothing`. Only
  `CallUpdateMade` needs the last; `MadeSteps` has every other step without it,
  so that a kind whose `Update` creates can be proved about as well.

The parts of `IInv` that say where the objects are:

- `MadeInv`: what was made is what the resource names unless it is marked; while
  a call is under way nothing is made.
- `NoneInv`: a replica that saw no object and whose copy is still current is
  right about it. This is the heart of `NoOrphan` and of `GoneFirst`:
  `RemoveFinalizer` needs a current copy, that copy names whatever was made, and
  nothing of that name was there.
- `AimInv`: what a creation works on means what the stored resource means. The
  record of a creation is put on whatever is stored by then, and the spec may
  have been edited since; but nobody resolves references while the mark is there.

`Inductive` has one step for each action, and the lemmas before it one step for
each conjunct.

For a resource with nothing to resolve `harm` stays empty (`NeverHarmed`), and
`PlainExclusive` and `PlainNotOrphaned` have the properties without exception.
`NoReferences` says what that is: each start has a spec of a set that edits do not
leave, and of which every spec is resolved to itself.

`TokenProofs` discharges `Contract` for tokens alone in the loop, for every set
of ids, labels and owner types. It also proves `GoneFirst` for any number of
replicas and whatever resolutions do (`TokensFinalizedLast`). That rests on
`NoneInv` alone, with `KnownInv`: an id that any copy names has been given out.
So what another replica creates cannot be what this one saw gone, as Upbound
gives no id out twice. The hypothesis `NamesIssued` says the same of the ids that
resources are made with.

`KindProofs` is about the loop of `Kinds`, where a resource is of any of the kinds
and of either scope. It has, for each of the six, what its handlers do
(`TokenHonest`, `RobotHonest` and so on), the lemmas that lead from `By` and
`For` to the handlers of the kind in the spec, `HandlersTruthful`, and
`HandlersKeeping` if no edit makes a resource mean another object
(`EditsKeep`). `KindContract` is `Contract` for every kind but the repository,
and `KindsNotOrphaned` follows; `KindsAccounted` drops the exception for
resources that are `Complete` from the start, which means that their ids are given
or that they have no references. `EditsKeep` is needed for memberships and
permissions only: without it `NoOrphan` fails, as `membership_moved` shows. Of
tokens, robots and teams `NamedNotOrphaned` says it whatever users edit, since
their object is named by the annotation. The worlds of memberships hold one only
of a robot that is there, which `MembershipObserveHonest` needs: `Get` reports a
robot that is gone as a membership that is.

`RepositoryProofs` is about one replica (`OneReplica`). There `GoneFirst` holds of
every kind, whatever is edited and resolved: nobody else creates meanwhile
(`SoleReplicaFinalizedLast`). Repositories do not keep to `Contract`, since their
`Update` is a PUT that creates; with two replicas, one is about to call `Update`,
the other deletes, sees the repository gone and removes the finalizer, and the
PUT brings it back. `SoleReplicaAccounted` has them nevertheless, under
`NamedAlike`: the repository in the spec is called like the resource, and so is
an external name the resource was made with; the PUT goes by the one name and
`Delete` by the other. Then `SoloInv` is inductive together with `IInv`: all
copies are of one kind (`KindInv`), the name is the resource's once it is set
(`NameInv`), and `Update` is called only while the resource has its finalizer,
since a copy that still shows one when the resource is gone saw no repository
either (`FinalizerInv`). So what an `Update` makes is named by the resource and
deleted with it.

`ConfigUsageProofs` proves `TypeOK`, `Held` and the refinement of `ConfigHold`
for every number of resources and configs. The invariant says of the resources
that connected that their use is recorded under the group of usages that the
config's controller lists (`Recorded`), that the finalizer is on its way out of a deleted config only
(`OnlyDeleted`), and of the secured ones that the listed copy shows the use and
that the config's reconcile did not decide before it could see it (`Secured`).
The last one is why `Held` needs more than itself: listing and removing are two
steps. The refinement takes the secured resources that point to a config for its
holders; each step lets at most one of them go.

`StartupProofs` proves `OwnKind` and `SetUpSucceeds`: what is open was
established, what is set up was released by the gate of a process that has
registered every kind, what waits is not set up. Of the entries of `Setup`, each
is gated on the kind it reconciles (`GatedOnItsOwn`, for `OwnKind`), watches kinds
that `main` registers, and no two reconcile the same (`KindsApart`, for
`SetUpSucceeds`).

Assumptions on constants are named and TLC evaluates them in each run:
`ConstantsAssumption` and `MarkersAssumption` (`SessionCache`),
`HandlersAssumption` (the handlers return values of the types the loop expects)
and `NoCopyAssumption` (`Managed`), `TokenConstants` and `KindConstants` (the
names that mean nothing are no ids), `TokenHandlers` (the loop is given the
token's handlers), `KindHandlers` (the loop is given the handlers of all kinds),
`ConfigConstants`, `StartAssumption`. `EditsKeep`, `NoRepositories`, `OneReplica`,
`NamedAlike`, `NamesIssued`, `NoReferences` and `Complete` are hypotheses of
theorems and written out there.

Model-checked only: the liveness properties (`AlwaysServed`, `DeletionEnds`,
`Settles`, `DeletionsEnd`, `AllServed`), which are beyond TLAPS, and the violated
properties. Every other property of a run is a theorem, in the scope said above:
`GoneFirst` of other kinds than tokens is proved and checked with one replica.

## What is not modelled

- In the loop: management policies (an alpha feature, off by default), deletion
  policies, pause, the Synced condition, the grace period after a creation, event
  filters and rate limits. A reconcile that ends before `Observe` writes at most
  the Synced condition and is no step; what such a write does to the copies of
  other replicas, `WriteFails` covers.
- `Connect` in `Managed`: it is `SessionCache` and `ConfigUsage`, and fails a
  reconcile there. A failed `Connect` is a reconcile that ends before `Observe`.
- How a selector finds what it selects (that the reference found is written along
  with the id, `Whole` allows for), and the policies that resolve anew what was
  resolved or do without what is missing. Which robot a token's reference means,
  and tokens with neither an owner's id nor a reference to one.
- The relationships a robot's look-up returns are taken as well formed: `Get`
  reads anything else as not found.
- In `ConfigUsage`: a second replica, provider configs read from a lagging cache,
  usages removed by other hands (by a restore from backup, say), and a reference
  that is nil, which the CRDs' defaults rule out.
- In `Startup`: CRDs that are removed again, flags, logging, metrics, leader
  election itself.
- The level of a permission, which no handler compares: `Settles` is what
  `Observe` takes for up to date.
- Edits that make a repository or a permission mean another object: they leave
  the first behind as `membership_moved` shows for memberships.
- The status fields copied from Upbound's responses, events, logs, URLs and
  request bodies, descriptions and other attributes no decision depends on.
- Tokens, robots and teams whose creation succeeded but whose reply was lost: the
  code cannot know of them, and `made` does not count them.
- The generated accessors and deep copies, which make up most of `apis/`: there
  is no behaviour in them that a model could tell from another.

## The plan

Done: every component the table names, but for what is listed above.

Left: a second replica in `ConfigUsage`; the resolution policies of references;
an abstract life of one object at Upbound (made, named, gone) that `Managed`
implements, and its proof.
