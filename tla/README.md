# Verification of the ensoria template

TLA+ models of the parts of this template that decide who a request is from and
what it may do, on whose behalf work goes on after it, and how the process that
does it all starts and stops; checked with TLC on small instances and, where it
matters most, proved with TLAPS for every instance. Paths below are relative to `src/internal/`.

## The system

The template is a Go server: HTTP endpoints behind a chain of global middlewares,
WebSocket channels, gRPC services, message subscriptions, a job worker and a
scheduler, wired by fx (`plamo/dikit`, `app/bootstrap`).

| Component | State | Operations | Hard about it | Correct when |
|---|---|---|---|---|
| Session store, `plamo/sessionkit` | records and revocation markers in a shared cache with ttls | Create, Lookup (with touch and forget), Revoke, RevokeSubject | every method is several round trips; nodes overlap; calls fail or lose their answer; two deadlines | no session outlives its deadline or its revocation; "not found" is never a guess |
| Session endpoints and cookie, `app/auth/api`, `sessionkit/cookie.go` | the browser's cookie | POST (sign in), DELETE (sign out) | tabs overlap, answers arrive late or never, the store fails between two steps | no sign-in costs a working session; a cookie is dropped only for a session that ended |
| Verifier, `plamo/authkit` | none | Verify over three credential kinds | precedence; outage against refusal | an outage decides nothing |
| Middleware chain, `middleware`, `app/http/global_middlewares.go` | per request | body check, CORS, CSRF, Auth, recovery | layer order; one setting read by two layers | forged writes stop; CORS and CSRF agree |
| Endpoint adapter, `plamo/restkit` | `authorizationState` per request | authorize, validate, Authorize, verify | handlers that ignore errors | declarations are enforced; successes were approved |
| Startup checks, `app/http` | none | checkSessionConfiguration, checkAuthConfiguration | contradictory configuration | no deployment serves an endpoint whose declaration it cannot honour |
| WebSocket channels, `plamo/wskit`, `app/ws`, `middleware/wsorigin.go`, `middleware/channel.go` | connections with the caller of their handshake | upgrade, messages, broadcast, close | a connection outlives the session it was opened with; a message is judged twice, at the handshake and on its own | a foreign page gets nothing; what is handled was allowed; one connection's trouble is its own |
| Scopes, `plamo/authkit/scope.go` | the implication table, the memo of a depth-first walk | NewScopeImplications, Expand | map order, cycles, a memo read while other rows are being walked | the memo is the transitive closure; cycles and only cycles are refused |
| Initiator, `plamo/initiator`, with `app/mb` and `app/scheduler` | a mark on the context, headers, the names dropped so far | WithEntry, WithSystem, From, publish, subscribe, enqueue | identity crosses processes, through code that forgets it and brokers that lose it | work reads as its originator's or as unknown |
| Messaging, `plamo/mbkit`, `app/mb` | declared options, the broker's queue | Publish, OnReceive | concurrent calls share a slice; poison messages; redelivery | nothing vanishes, nothing is stuck |
| Credential stores, `plamo/keystore`, `infra/keystore`, `infra/session`, `app/auth/auth.go` | keys and their expiry; where sessions are kept | startup choice and refusals, Ready, Lookup | expiry between a read and a judgement; outage against unknown key; per-process memory | the template's defaults open nothing in production; over is over; an outage condemns no key |
| Lifecycle, `plamo/dikit`, `app/http`, `app/grpc`, `app/worker`, `app/scheduler`, `app/mb`, `infra` | what is built, started, open and in flight | constructors, start and stop hooks, signals | a server dying after start; a stop that hangs; half-started systems; two deadlines | nothing is closed under work; the exit code tells the truth; the process ends |
| Orders, `module/order` (sample) | a map of orders | PUT, approve | check and write are apart; float and int; a timed-out handler goes on | what is stored was written by someone who might |
| Document generators, `plamo/apidoc`, `plamo/msgdoc`, `app/bootstrap/describe` | none | offline reflection | – | not modelled: output only |
| Validation and languages, `plamo/vkit`; the other sample modules, `module`, `query` | none of their own | – | – | not modelled; such a handler is an arbitrary handler of `RequestPipeline` |

How they interact: the verifier asks the session store about a cookie; the Auth
middleware turns its verdict into a principal on the context, a 401, a 503, and
possibly an instruction to drop the cookie that rides on whatever answer the inner
layers give; the adapter reads the principal; the session endpoints are endpoints
like any other that call the store. The WebSocket router puts the same verifier and
the same list of origins in front of a channel. Whoever a request, message, job or
task was started by travels as a mark on its context and as headers between
processes. The lifecycle owns every connection the others use and closes them, in
reverse order of construction, while they may still be at work.

## Modules

**`SessionStore`** models `cacheStore`. One action is one round trip to the cache
or one read of the clock. `record` and `marker` are the cache's entries, `op[p]`
is where request `p` is inside a method and what it remembers there (the copy of
the record, the instant it read). Every write or delete has three outcomes: done,
failed, and done with the answer lost. `Tick` advances the clock and drops what has
outlived its ttl. Create is `CreateBegin`, `CreateWrite`; Lookup is `LookupRead`,
`LookupCheck`, then `LookupForget`, or the marker (`LookupMarkerUnknown`,
`LookupRefuse`, `LookupPass`), then `LookupTouch`; `Revoke` is one step;
RevokeSubject is `RevokeSubjectBegin`, `RevokeSubjectWrite`. The remaining variables
are history for the properties. Two of them say how a session was used: `lastUse` counts
every Lookup that served it, `soleUse` those that met no other request at the session
(`met`). Uses that overlap may undo one another's touch (`SessionIdleOverlap.cfg`), so
`NotFoundIsEarned`, which is about every interleaving, measures idleness from the latest
`soleUse`, and `UsedSessionsStay`, which is about calls that do not overlap, from the latest
use of all. The refusal of a ttl that is not positive in `write`
has no action because `WritesAreInTime`, proved, shows it is never met.

**`SessionLedger`** is the abstract specification of the `Store` interface
(`sessionkit/session.go`): what a caller may rely on, each call one step, with no records,
markers, copies or cache. `SessionStore` maps onto it (`Ledger`): a session is `entered`
when Create draws its id, a Lookup happens at the step that answers it (`replied`), a
Revoke when it is made. `LedgerKept` is the refinement. It is promised where calls do not
overlap at a session: `Apart`, no two requests are inside for one id, and `RevokesApart`,
no request is inside for an id at the step that answers its Revoke. Both are hypotheses
about the callers, not guards of the model: the store has no lock that would make them true.

**`BrowserSession`** models one browser with several tabs, the Auth middleware
around the session endpoints and the endpoints themselves. The store is reduced to
`live` (ids with a record) and `over` (ids past a deadline or revoked); its Lookup
is still two steps, so that a touch can write back what was deleted meanwhile. The
cookie is read when a request is sent and changed when its answer arrives. The history
variables `signedOut` and `next` record what really happened to a session, not what was
attempted: a record that a sign-out removed, and one removed for a session that replaced
it. A history variable `overlapped` says whether two requests were ever under way at once: two of the
properties are promised only for a browser whose requests were not.

**`RequestPipeline`** models a deployment's startup checks and then one request
after another through the layers. Deployment (schemes verified, origins listed,
credentials allowed) and endpoint declaration (public, schemes, scopes, resource
check) are arbitrary. Handlers are arbitrary: they call Authorize any number of
times, ignore its errors, fail, panic or succeed.

**`AppLifecycle`** models `dikit.ProvideAndRun` over the hooks hung off the
lifecycle. fx is a library, modelled from how the code uses it: it resolves the
invocations in order and each one's parameters first (`Invoke`, `Resolve`,
`Construct`), starts hooks in the order they were appended, stops what had started
in reverse, goes on after a stop error and gives up when its context ends.
`invocations` is the package variable of `dikit`: which program runs. Components are
the ones that hang a hook; `Connections` says of each constructor what it opens when.
Beside ProvideAndRun run the goroutines that serve (`Serve`, `ServeFails`), the work in
flight (`Begin`, `Finish`, `Upgrade`) and signals. **`SupervisedProcess`** is the
abstract specification: what systemd or a restart policy may rely on. A refinement
mapping (`Supervised`, `status`) takes one to the other.

**`WsChannel`** models one channel: the startup check, the handshake's three guards in
the router's order as separate steps (a session may end between them), `dispatch`, and
the three handlers of the sample channel `/ws/user`.

**`ScopeImplications`** models `NewScopeImplications`: normalize, then the recursion of
`resolve` with its stack, memo and path written out as state, over every table and in
every order of the map's keys. `Expand` is the operator callers are judged with. The
reference is `IsReach`, the least closed set.

**`Initiator`** models work that starts work: a request, task or message handler has a
context; publishing and enqueueing write headers from it; subscribing and extracting
read them back. `root` is, as history, whose work it really is, `lost` whether a step
could not carry that. Code may hand over a fresh context, send on the metadata it was
given, or meet headers of other producers.

**`Messaging`** models a publication's checks and the `append` onto its declared options
(`Spare` is the room behind them), a queue that redelivers, and OnReceive under both
policies for messages that cannot be read. The broker's two error strategies are chosen
in Init.

**`CredentialStores`** models what `NewVerifier` and the session and key
infrastructure accept at startup in each environment, the lookups of every key source
(a database lookup is a read and then a judgement, with the clock and the administrator
in between), and a browser whose requests reach any node. `AUTH_API_KEYS` takes any
string: the list is any selection of the two published keys and one of the deployment's own.

**`Orders`** models PUT and approve on an order, each in the steps its handler makes
(find, authorize, load, save), on top of a handler timeout that answers while the handler
goes on. Amounts are halves, `MaxTotal` is the largest int; `AsAmount` and `int` are the
conversions the code makes, with `OutOfRange` for what the processor yields beyond an int
(the smallest int on amd64, the largest on arm64). A map assignment is two steps, so that
an access in between is the race the Go runtime may end the process for (`Fatal`).

**`MC...`** modules give small instances to TLC. The theorems about `ScopeImplications`
and `Orders` are in **`AuthorizationProofs`**, those about `Initiator` and `Messaging` in
**`MessageProofs`**, the others in the module named after the component with **`Proofs`**
behind it.

In these modules a definition marked *Mutant* is a plausible bug in the definition
below it; replacing one by the other makes the named run fail, which shows that the
property looks at that code.

## Runs

| Run | Shows | Bounds |
|---|---|---|
| `session_store` | `RevokeSubjectHolds`, `NotFoundIsEarned`, `AbsoluteDeadlineHolds`, `GoneStaysGone` | one id, two requests, one administrator, clock to 4, lifetimes 2 and 4, idle 3, refresh 1: both deadlines pass, a session is used past the idle ttl of its creation, touches happen, and a revocation meets Create, Lookup and touch at every step |
| `browser` | `SignInCostsNothing`, `DiscardIsDeserved`, `NoUnreportedOrphans`, `SignOutIsReal` | two tabs, three ids: two sign-ins can overlap with a session already there |
| `request_pipeline` | `ForgedWritesStop`, `DeclaredConditionsHold`, `SuccessIsApproved`, `OutageDecidesNothing`, `CorsAgreesWithCsrf` | every deployment and endpoint, two foreign sites: one listed, one not |
| `app_lifecycle` | `WorkHasItsInfra`, `CleanExitIsClean`, `FailedStartIsUndone`; the refinement `SupervisorPromise`; liveness `DeadServerEndsProcess` | the server program (HTTP, gRPC, worker, two subscriptions) and the scheduler program (scheduler, HTTP, two tasks) with one connection of every sort; one unit of work per server, timeouts of 3, grace of 1: either deadline can come first |
| `ws_channel` | `ForeignPagesReadNothing`, `HandledMeansAllowed`, `EndedOpensNothing`, `ClosedForItsOwnTrouble` | two connections (a broadcast has another end), three deployments, a public and a closed declaration |
| `scope_tables` | `ClosureIsExact`, `DoneIsAcyclic`, `CycleIsReal`, `ExpandOnceIsEnough`; liveness `Terminates` | every table over three scopes, empty names included: chains, diamonds and cycles reached from outside |
| `initiator` | `NobodyElse`, `OriginArrives`, `DroppedIsBounded` | chains of three hops, two subjects, two claims and one that may not be carried, room for one dropped name |
| `messaging` | `NothingVanishes`; liveness `GetsThrough` | two calls, two messages of others, two failures or crashes: poison in front of, between and behind good messages |
| `credentials` | `DefaultsOpenNothing`, `OverIsOver`, `GoodKeysAreNotInvalid`, `NobodyIsWidened`, `SignOutReachesEveryNode` | every configuration, each published key listed or not, two lookups at once, one issued key, clock to 2, two nodes |
| `orders` | `LastWriteIsAuthorized`, `RetriedPutIsOnePut`, `AloneItKeepsTheAmount` | two requests, three callers, amounts with a fraction, at and beyond the largest int |

`SessionStore.cfg` tells states apart by `SafetyView`: what no action and no property of the
run reads is left out of the state's fingerprint. These are the histories of other
properties, what a request that is about to forget had read, how far behind a creation a
barrier is, and the uses of a session that is ended already.

A type invariant is stated and proved in every module: `TypeOK`, or `OrdersTypeOK` and
`MessagingTypeOK` in the two that share a module of proofs with another component.

Two runs state what a comment says and find a behaviour of the code that does
otherwise; `findings` in `PROJECT.json` quotes the lines.

| Run | What happens |
|---|---|
| `session_revoke_overlap` | a touch in flight writes a revoked session back and later requests are served by it, until its deadline |
| `messaging_options` | two calls of one publication append to one array, and one message goes out with the other's option |

More configurations are kept to be run by hand
(`tlc -config <cfg> <module>`). Each but the first three ends in a counterexample to
what the quoted line says.

| Configuration | Module | Property | Shows |
|---|---|---|---|
| `SessionIdle.cfg` | `MCSessionStore` | `UsedSessionsStay` | holds: for two requests, never both inside for one session (`CONSTRAINT Apart`), the idle deadline is exact up to one refresh interval |
| `SessionApart.cfg` | `MCSessionStore` | `LedgerKept`, `UsedSessionsStay`, `RevokedIsNotServed` | hold under `ApartSpec`, the steps that keep `Apart` and `RevokesApart`: two requests and an administrator, never two of them at one session |
| `BrowserDeadCookie.cfg` | `MCBrowserSession` | `DeadCookieGoes` | holds: a browser that goes on asking for pages gets rid of a dead cookie |
| `SessionIdleOverlap.cfg` | `MCSessionStore` | `UsedSessionsStay` | a Lookup holding an old copy deletes a record an overlapping request has just extended (`sessionkit/config.go:30` "at most 10% early") |
| `SessionMarkerOverlap.cfg` | `MCSessionStore` | `RevokeSubjectHolds` | two overlapping RevokeSubject calls leave the older of their instants (`sessionkit/store.go:154` "one write, no coordination") |
| `CredentialPaymentKey.cfg` | `MCCredentialStores` | `PaymentKeyStaysLocal` | a production deployment that lists the published payment key starts, and whoever has it is a caller, though one without permissions: `checkDevCredentials` looks for the default key only (`app/auth/auth.go:45` "exists only inside the development key store, which cannot be built outside local and test") |
| `BrowserLateDiscard.cfg` | `MCBrowserSession` | `DropsOnlyEnded` | the answer to an older request drops the cookie of a newer, live session (`authkit/verifier.go:311`) |
| `PipelineWildcard.cfg` | `MCRequestPipeline` | `WildcardMeansNoSessions` | `*` beside a named origin passes `checkTrustedOrigins` (`middleware/csrf.go:56`). `ForgedWritesStop` and `CorsAgreesWithCsrf` still hold then: the cross-origin check drops the wildcard |
| `AppSchedulerTasks.cfg` | `MCAppLifecycle` | `StartedHasAllTasks` | the error of RegisterTasks is dropped, so a scheduler starts without some of its tasks (the repository's README, "Failing at startup") |
| `AppBuildFails.cfg` | `MCAppLifecycle` | `FailedBuildCloses` | a constructor's error ends the build and closes nothing that constructors before it opened (`app/http/http.go:24`) |
| `WsSignOut.cfg` | `MCWsChannel` | `SignedOutEverywhere` | an open connection goes on handling messages for a session that has ended (`session_delete.go:30` "immediately and everywhere") |
| `OrdersLostUpdate.cfg` | `MCOrders` | `KeepsTheAmount` | an approval writes back the amount it read, undoing one the owner saved in between (`approve_test.go:159` "keeps the order's amount when it approves it") |
| `OrdersAmount.cfg` | `MCOrders` | `AmountIsReplaced` | a PUT's fraction, or an amount beyond an int, is not what is stored (`put.go:72`) |

Deadlock is checked except where the instance really stops: a deployment or table the
startup refuses, a process that has exited, a queue that is empty, and a session
instance with its only id spent and the clock at its bound.

**Fairness.** `AppLifecycle!Spec`: the steps of ProvideAndRun itself and the passing of
time are weakly fair; handlers in flight may never finish and nobody need send a signal,
so that a stop rests on its deadlines alone. `ScopeImplications!FairSpec`: a sequential
function goes on. `Messaging!MessagingFairSpec`: the broker goes on delivering and a handler that
is called returns; errors and crashes are bounded by `MaxFailures`, and nothing makes a
producer publish. `BrowserSession!FairSpec` (by hand only): the server finishes the requests it started (weak);
the browser goes on asking for pages, a store asked over and over answers some time, a
handler does not answer nil forever and some answer with a discard arrives (strong).
Without one of these the claim is false, and the code does not make it.

## Proofs

Every theorem holds for any values of the constants the named ASSUMEs of its module
allow; TLC evaluates them in every run. Each proof has one inductive invariant, checked
with TLC on the run's instance before it was proved, one lemma per action, and one
theorem per property.

| Module | Proved | Invariant |
|---|---|---|
| `SessionStoreProofs` | `TypeOK`, `AbsoluteDeadlineHolds`, `WritesAreInTime`, `RecordsKeptToDeadline`, `GoneStaysGone`, `NotFoundIsEarned`; `RevokeSubjectHolds` under `OneRevoker`; `UsedSessionsStay` under `[]Apart`; `RevokedIsNotServed` under `[][RevokesApart]_vars`; the refinement `LedgerKept` under both of these | `StoreInv`, `AgeInv`, `RevokeInv`, `UseInv`, `ApartInv`, `EndedInv` |
| `RequestPipelineProofs` | `TypeOK` and the five invariants of the run | `PipelineInv` |
| `AuthorizationProofs` | of `ScopeImplications`: `TypeOK` and the four invariants of the run; of `Orders`: `OrdersTypeOK` and the three properties of the run | `IInv`, `OrdersInv` |
| `WsChannelProofs` | `TypeOK`, the three invariants of the run and `ClosedForItsOwnTrouble` | `ChannelInv` |
| `CredentialStoresProofs` | `TypeOK` and the five invariants of the run | `CredInv` |
| `BrowserSessionProofs` | `TypeOK`, the three invariants of the run, `SignOutIsReal`, `DropsOnAnEndedSession` | `BrowserInv` |
| `AppLifecycleProofs` | `TypeOK`, the safety part of the refinement, `FailedStartIsUndone`, `CleanExitIsClean`; `WorkHasItsInfra` under `OneHTTP` and `RootAfterInfra` | `FaultOK`, `LifeInv` |
| `MessageProofs` | of `Initiator`: `TypeOK` and the three invariants of the run; of `Messaging`: `MessagingTypeOK`, `NothingVanishes`, and `OverridesStayApart` where `Spare` is 0 | `OriginInv`, `BrokerInv`, `OwnSlices` |

**Session store.** No property is inductive: a served session is only as good as the
copy the request holds, and that is as good as the record it was read from. `StoreInv`
therefore says of *every* copy (records, locals of requests, the answer) that it agrees
with the session as it was born in owner, creation and expiry, that a record's ttl
reaches the nearer of its deadlines, and, for a request, at which step its instant lies
before them. `AgeInv` puts instants in order: no copy was last seen before the session was
created or after now, and a marker names an instant at which RevokeSubject had begun.
`UseInv` carries `NotFoundIsEarned` for every interleaving. An id some cookie has is recorded
or *excused* (condemned, revoked with its subject, past its lifetime, or as old as the idle
ttl and unused for so long); a request that is about to forget a record already has the
excuse. A record, and a copy some request holds, lags behind the last use that met nobody by
no more than the refresh interval (`Kept`), because a Lookup that serves without a touch has
found its copy that recent. As long as a request has met no other, the record is still the
copy it read, or went missing because it was condemned or is past a deadline that the copy
names (`Over`). Excuses last because the clock, the marks and `condemned` only grow
(`Onward`). `RevokeSubjectIsFinal` assumes `OneRevoker`, at most one request that calls
RevokeSubject (`SessionMarkerOverlap.cfg` shows why it is needed); its `RevokeInv` adds
that the marker of a subject is at least as late as the barrier until every session that
old is past its lifetime, because the marker is kept for the longest of the lifetimes.

Where calls for one session do not overlap, more holds. Nobody meets anybody then, so every
use counts (`ApartInv`), and `NotFoundIsEarned` becomes `IdleIsExact`, which is about the last
use of all. `EndedEverywhere` (`EndedInv`): an id whose Revoke was
answered is `Gone`, which nothing undoes once no request is inside with a copy to write
back. `KeepsLedger` puts them together: every step of the store is one step of
`SessionLedger` or, to its callers, none (`Silent`). A Lookup that serves is the ledger's
`Serve` by `StoreInv` and `EndedInv`, one that answers "not found" is `Miss` by
`UsedSessionsStay`, and a write that failed or lost its answer is accounted for by
`ending` beside `ended`. The run `session_revoke_overlap` and `SessionIdleOverlap.cfg` show
that neither hypothesis can be dropped.

**Request pipeline.** `PipelineInv` says what each layer has established for the layers
inside it: the startup checks for every request (`Started`), the cross-origin check for
authentication and the handler (`Checked`), authorize for the handler (`Authorized`),
the adapter's notes for its verdict (`Noted`, `Consented`).

**Scopes.** The walk computes the least closed set whatever the order of the keys. A
resolved row is exact only because everything it leads to is resolved too, and a row on
the stack because what it has gathered is the closure of what it has visited; `IInv`
states both, and that the stack is a path of the table, which makes a cycle that is
reported real. The reference closure is the least closed set, so that no induction over
the length of a chain is needed.

**WebSocket channels.** The properties speak of a connection at the end of its way;
`ConnOK` says what each guard in front of the upgrade has established for a handshake
that is past it, and what is still unknown before it.

**Credential stores.** A lookup remembers, as history, what its key was when the request
began. `CredInv` says why that memory can be relied on between the read and the
judgement: a key that was issued is never issued again, so what is withdrawn or out of
time stays so, and the row a lookup read is still the record or the record is gone.
`CredentialAssumption` says that the development keys of `app/auth/auth.go`, the issued
keys and an application's own key are different keys.

**Browser sessions.** `KeptOrEnded` says of every id anybody holds (the cookie, a request,
an answer in flight) that it is recorded or that there is a reason on record why not.
`Alone` carries the promises about a browser whose requests did not overlap: the one
request under way was sent with the cookie the browser still has, and the only sessions
that may work are the cookie's, the one this request has made and those whose handling
visibly failed.

**Lifecycle.** `TruthfulExit` is the refinement step by step: every step of the process is
a step of `SupervisedProcess!Next` under the mapping, or leaves what the supervisor sees
as it is; `FaultOK` is what the exit code needs. The other theorems hold for any graph of
components, any program and any timeouts, and for the build as fx does it, depth first.
`LifeInv` says of the stack of constructors that it is a path (`StackOK`), of positions
that a component stands behind everything it takes (`PlacesOK`), of each phase which hooks
have started (`PhaseOK`), and of a component what it may hold and serve at its place
(`Held`, `Occupied`, `Fed`, `SocketsOK`). `SubscriptionsAssumption`: `server.Run` invokes
`StartSubscriptions` once (`app/bootstrap/server/server.go:114`), and its subscribe function comes
with the subscriber's connection. `WorkHasItsInfra` is proved wherever the build came out
with one HTTP server, as each of the programs has (the sockets are its own), and with the
subscriptions' root context behind what their handlers use. Without the second it is false:
that is the connection described at the end of the next section.

**Initiator.** Work in a slot and an item on the wire keep one promise, `Says`: the value
that is read from a context, or would be restored from the headers, is the root's or
unknown, and all of it if nothing was lost. `RoundTrip`, that writing a value into headers
and restoring it gives the value back but for claims that cannot be written, is why sending
and receiving keep it, and with it the promise holds for chains of any length.
`MarkersAssumption`: the model's markers (no mark, no header, not JSON) are no values of the
program, and a list or a message names finitely many claims.

**Orders.** `OrdersInv` says of each request what its steps so far have established: before
it loads, what it was shown and that the rule let it pass on that; before it saves, that it
will write the stored owner, the amount it goes on with and its own status; and of each
order, who wrote it last and that the writer was entitled to. No request writes twice, so two moments
with the same writer have the same amount, which is `AloneItKeepsTheAmount`. An approval
reads an amount and writes it back, so its total goes through float64 and int again; that
this is exact rests on every total in the map being `Storable`, a total some conversion
yields. `OrdersAssumption` asks that the orders the repository starts with
(`order_repository.go:44`) have a total below the largest int, which they have by far.
What a PUT stores is not proved to be what it sent: the endpoint takes fractions, and for
those it is not (`OrdersAmount.cfg`).

**Delivery.** `NothingVanishes` is inductive once the queue is known to be a sequence
(`BrokerInv`): what a step takes off its head is handled, dropped by the policy that says
so, or back in the queue. `OptionsStayApart` is the counterpart of the run
`messaging_options`: with no room behind the declared options, which is how a literal is
made, every append makes an array of its own (`OwnSlices`).

Only model-checked: the liveness properties `DeadServerEndsProcess`, `Terminates`,
`GetsThrough` and `DeadCookieGoes`, and the fairness in `SupervisorPromise`. They need
ENABLED, which is outside this prover's reach.

## Not modelled

- Token parsing and signatures, cookie attributes, `Vary`, logging, languages and
  message texts; the formats of payloads and columns.
- The cache, the broker, the queue, the scheduler's clock, the websocket library and fx,
  which are libraries and appear by how the code uses them. The operators' endpoints
  under `app/worker/api` and `app/scheduler/api` only pass calls on to two of them.
- The accessors of `authkit/claims.go`: conversions of one value, without state.
- The document generators (`apidoc`, `msgdoc`, `app/bootstrap/describe`) and `vkit`:
  reflection and a validation library, output only. The gRPC log and recovery
  configuration: logging.
- Different clocks on different nodes: the session store's promises hold up to the skew,
  which nothing in the repository bounds.
- A signal of the operating system before ProvideAndRun waits for one.

Met while modelling. In the models as they are: a gRPC Serve that is reached only after
the stop has begun reports an error like any other; a WebSocket upgraded between the
router's shutdown and the server's has a context cancelled from the start; after the
stop's deadline the hooks that are left are not run. Outside the instance checked: a
connection that nothing but a subscription's handlers use is constructed after the root
context and the subscriber connection, and so closed before them, while messages are
still delivered; `WorkHasItsInfra` is checked on a graph where the servers use it too.

## What is left

1. A clock per node with bounded skew in `SessionStore`, and the promises up to that skew.
2. `BrowserSession` on top of `SessionLedger` instead of its own reduced store: a browser
   whose requests do not overlap calls the store as `Apart` asks.
