-------------------------- MODULE CredentialStores --------------------------
(***************************************************************************)
(* Where API keys and browser sessions are kept: the store each deployment *)
(* ends up with (infra/keystore, infra/session, app/auth.NewVerifier), and *)
(* the lookups made against it while keys are issued, withdrawn and expire.*)
(*                                                                         *)
(* The storage is shared by the nodes of a deployment, and its records are *)
(* written by another program: `encli auth keystore`.                      *)
(***************************************************************************)
EXTENDS Integers, FiniteSets

CONSTANTS
    Node, Request,
    IssuedKey,          \* keys encli issues into the built-in store
    DevAPIKey, DevPaymentAPIKey,    \* the keys published with the template
    OwnKey,             \* a key of the deployment's own
    Modes, SessionStores,   \* the values of AUTH_MODE and AUTH_SESSION_STORE
    Shared,             \* the place of a record in Redis
    MaxTime             \* bound on the clock

Envs == {"local", "production"}
Backends == {"none", "redis", "db"}
\* AUTH_API_KEYS takes any string.  (One that encli issued as well is read from one
\* place only, and is an OwnKey there.)
Listable == {DevAPIKey, DevPaymentAPIKey, OwnKey}
Key == IssuedKey \cup Listable
NoKey == "no key"
Never == MaxTime + 1

ASSUME CredentialAssumption ==
    /\ MaxTime \in Nat /\ Shared \notin Node /\ IsFiniteSet(Node) /\ Node # {}
    /\ DevAPIKey # OwnKey /\ DevPaymentAPIKey \notin {DevAPIKey, OwnKey}
    /\ IssuedKey \cap {DevAPIKey, DevPaymentAPIKey, OwnKey} = {}
    /\ Modes \subseteq {"", "hs256", "jwks", "other"}
    /\ SessionStores \subseteq {"unset", "redis", "memory"}

VARIABLES
    env, mode, secret, listed, backend, sessionStore, table,    \* configuration
    phase, source,      \* of the application; where it looks API keys up
    records,            \* the rows of the built-in store
    granted,            \* the scopes each store holds for a key
    now,
    req,                \* the lookup each request is making, or made
    sessions,           \* the places that hold the browser's session
    signedOut

config == <<env, mode, secret, listed, backend, sessionStore, table>>
keyVars == <<records, granted, now>>
sessionVars == <<sessions, signedOut>>
vars == <<config, phase, source, keyVars, req, sessionVars>>

Scope == {"orders:read", "orders:write"}
Widened == "anything"   \* a scope some handler adds to the caller it was given
Absent == [here |-> FALSE, named |-> FALSE, expiresAt |-> 0]
Row == [here : {TRUE}, named : BOOLEAN, expiresAt : 1..Never]
Lookup == [pc : {"idle", "asked", "judging", "done"}, key : Key \cup {NoKey},
           row : Row \cup {Absent}, good : BOOLEAN, over : BOOLEAN,
           answer : {"none", "caller", "invalid", "unavailable"},
           scopes : SUBSET (Scope \cup {Widened}), own : BOOLEAN]
Idle == [pc |-> "idle", key |-> NoKey, row |-> Absent, good |-> FALSE, over |-> FALSE,
         answer |-> "none", scopes |-> {}, own |-> TRUE]

\* Configuration, records and lookups are of their kinds, and a lookup that judges
\* a row has one.
TypeOK ==
    /\ env \in Envs /\ mode \in Modes /\ secret \in {"", "dev", "own"}
    /\ listed \subseteq Listable /\ backend \in Backends
    /\ sessionStore \in SessionStores /\ table \in BOOLEAN
    /\ phase \in {"building", "starting", "serving", "refused"}
    /\ source \in {"builtin", "dev", "static", "none"}
    /\ records \in [IssuedKey -> Row \cup {Absent}]
    /\ granted \in [Key -> SUBSET (Scope \cup {Widened})]
    /\ now \in 0..MaxTime
    /\ req \in [Request -> Lookup]
    /\ \A r \in Request : req[r].pc = "judging" => req[r].row.here
    /\ sessions \subseteq Node \cup {Shared} /\ signedOut \in BOOLEAN

Init ==
    /\ env \in Envs /\ mode \in Modes /\ secret \in {"", "dev", "own"}
    /\ listed \in SUBSET Listable /\ backend \in Backends
    /\ sessionStore \in SessionStores
    /\ table \in BOOLEAN /\ (backend # "db" => table)
    /\ phase = "building" /\ source = "none"
    /\ records = [k \in IssuedKey |-> Absent] /\ granted = [k \in Key |-> {}]
    /\ now = 0 /\ req = [r \in Request |-> Idle]
    /\ sessions = {} /\ signedOut = FALSE

-----------------------------------------------------------------------------
(* Startup *)

devCredentialsAllowed == env = "local"

\* Mutant: the keys are only looked at where the secret is.
checkDevCredentialsSecretOnly ==
    devCredentialsAllowed \/ mode # "hs256" \/ (secret # "dev" /\ DevAPIKey \notin listed)

\* The secret is judged in the one mode that reads it.
checkDevCredentials ==
    \/ devCredentialsAllowed
    \/ ~(mode = "hs256" /\ secret = "dev") /\ DevAPIKey \notin listed

\* Mutant: the in-process store is let through everywhere.
memoryAllowedAnywhere == TRUE

memoryAllowed == env = "local"

NewSessionStore == sessionStore = "memory" => memoryAllowed

\* devKeyStore: the listed keys, and one with fewer permissions.
devKeyStore == devCredentialsAllowed /\ listed # {}

devScopes == [k \in Key |-> CASE k \in listed -> Scope
                              [] k = DevPaymentAPIKey -> {"orders:write"}
                              [] OTHER -> {}]

\* authkit.configureJWT: what token verification needs; a jwks URL is taken to be usable.
configureJWT == mode \in {"", "jwks"} \/ (mode = "hs256" /\ secret # "")

\* The store the verifier is handed, or makes from the listed keys.
Source ==
    CASE backend # "none" -> "builtin"
      [] backend = "none" /\ devKeyStore -> "dev"
      [] backend = "none" /\ ~devKeyStore -> IF listed # {} THEN "static" ELSE "none"

NewVerifier ==
    /\ phase = "building"
    /\ IF NewSessionStore /\ checkDevCredentials /\ configureJWT
       THEN /\ phase' = "starting" /\ source' = Source
            /\ granted' = IF source' = "dev" THEN devScopes ELSE granted
       ELSE phase' = "refused" /\ UNCHANGED <<source, granted>>
    /\ UNCHANGED <<config, records, now, req, sessionVars>>

\* The readiness hook of the database store runs the lookup itself.
Ready ==
    /\ phase = "starting"
    /\ phase' = IF backend = "db" /\ ~table THEN "refused" ELSE "serving"
    /\ UNCHANGED <<config, source, keyVars, req, sessionVars>>

-----------------------------------------------------------------------------
(* encli and the clock *)

\* A record may name no subject: written by hand, or by another version.
Issue(k, named, expiresAt) ==
    /\ granted[k] = {} /\ backend # "none" /\ table
    /\ expiresAt > now
    /\ records' = [records EXCEPT ![k] =
                    [here |-> TRUE, named |-> named, expiresAt |-> expiresAt]]
    /\ granted' = [granted EXCEPT ![k] = {"orders:read"}]
    /\ UNCHANGED <<config, phase, source, now, req, sessionVars>>

Withdraw(k) ==
    /\ records[k].here
    /\ records' = [records EXCEPT ![k] = Absent]
    /\ UNCHANGED <<config, phase, source, granted, now, req, sessionVars>>

\* Redis drops a record whose time is up; a row of the database stays.
Tick ==
    /\ now < MaxTime /\ now' = now + 1
    /\ records' = [k \in IssuedKey |->
                    IF backend = "redis" /\ records[k].expiresAt <= now' THEN Absent
                    ELSE records[k]]
    /\ UNCHANGED <<config, phase, source, granted, req, sessionVars>>

Good(k) == k \in IssuedKey /\ records[k].here /\ records[k].named /\ records[k].expiresAt > now

\* Issued once, and withdrawn, expired or unusable since.
Over(k) == k \in IssuedKey /\ granted[k] # {} /\ ~Good(k)

-----------------------------------------------------------------------------
(* Lookups *)

\* Mutant: an error of the store is an answer about the key.
verifyAPIKeyRefusesOutage(r, outcome, scopes, own) ==
    req' = [req EXCEPT ![r].pc = "done", ![r].scopes = scopes, ![r].own = own,
                       ![r].answer = IF outcome = "caller" THEN "caller" ELSE "invalid"]

\* verifyAPIKey: only a definite no is a no.
verifyAPIKey(r, outcome, scopes, own) ==
    req' = [req EXCEPT ![r].pc = "done", ![r].scopes = scopes, ![r].own = own,
                       ![r].answer = CASE outcome = "caller" -> "caller"
                                       [] outcome = "ErrKeyNotFound" -> "invalid"
                                       [] outcome = "error" -> "unavailable"]

Begin(r, k) ==
    /\ phase = "serving" /\ req[r].pc = "idle"
    /\ req' = [req EXCEPT ![r].pc = "asked", ![r].key = k, ![r].good = Good(k),
                       ![r].over = Over(k)]
    /\ UNCHANGED <<config, phase, source, keyVars, sessionVars>>

Asked(r, from) ==
    /\ req[r].pc = "asked" /\ source = from
    /\ UNCHANGED <<config, phase, source, keyVars, sessionVars>>

noKeyStore(r) == Asked(r, "none") /\ verifyAPIKey(r, "ErrKeyNotFound", {}, TRUE)

staticKeyStore(r) ==
    /\ Asked(r, "static")
    /\ verifyAPIKey(r, IF req[r].key \in listed THEN "caller" ELSE "ErrKeyNotFound", {}, TRUE)

\* Mutant: the caller shares its scopes with the table.
stubLookupShares(r) ==
    /\ Asked(r, "dev")
    /\ IF req[r].key \in listed \cup {DevPaymentAPIKey}
       THEN verifyAPIKey(r, "caller", granted[req[r].key], FALSE)
       ELSE verifyAPIKey(r, "ErrKeyNotFound", {}, TRUE)

\* stub.APIKeyStore.Lookup: a copy of the table's caller.
stubLookup(r) ==
    /\ Asked(r, "dev")
    /\ IF req[r].key \in listed \cup {DevPaymentAPIKey}
       THEN verifyAPIKey(r, "caller", granted[req[r].key], TRUE)
       ELSE verifyAPIKey(r, "ErrKeyNotFound", {}, TRUE)

\* validateSubject, and the caller of a record that names one.
validateSubject(r, row) ==
    IF row.named THEN verifyAPIKey(r, "caller", granted[req[r].key], TRUE)
    ELSE verifyAPIKey(r, "error", {}, TRUE)

Found(r) ==
    IF req[r].key \in IssuedKey THEN records[req[r].key] ELSE Absent

redisLookup(r) ==
    /\ Asked(r, "builtin") /\ backend = "redis"
    /\ IF Found(r).here THEN validateSubject(r, Found(r))
       ELSE verifyAPIKey(r, "ErrKeyNotFound", {}, TRUE)

\* dbStore.read: the row, or sql.ErrNoRows, or the error of a missing table.
read(r) ==
    /\ Asked(r, "builtin") /\ backend = "db"
    /\ CASE ~table -> verifyAPIKey(r, "error", {}, TRUE)
         [] table /\ ~Found(r).here -> verifyAPIKey(r, "ErrKeyNotFound", {}, TRUE)
         [] table /\ Found(r).here ->
                req' = [req EXCEPT ![r].pc = "judging", ![r].row = Found(r)]

\* Mutant: a key still works in the instant it expires.
dbLookupInclusive(r) ==
    /\ req[r].pc = "judging"
    /\ IF req[r].row.expiresAt < now THEN verifyAPIKey(r, "ErrKeyNotFound", {}, TRUE)
       ELSE validateSubject(r, req[r].row)
    /\ UNCHANGED <<config, phase, source, keyVars, sessionVars>>

\* dbStore.Lookup with the row it read: the code judges the expiry itself.
dbLookup(r) ==
    /\ req[r].pc = "judging"
    /\ IF req[r].row.expiresAt <= now THEN verifyAPIKey(r, "ErrKeyNotFound", {}, TRUE)
       ELSE validateSubject(r, req[r].row)
    /\ UNCHANGED <<config, phase, source, keyVars, sessionVars>>

\* The store cannot be reached.
StoreDown(r) == Asked(r, "builtin") /\ verifyAPIKey(r, "error", {}, TRUE)

\* Application code adds a scope to the caller it was handed.
Widen(r) ==
    /\ req[r].answer = "caller" /\ Widened \notin req[r].scopes
    /\ req' = [req EXCEPT ![r].scopes = @ \cup {Widened}]
    /\ granted' = IF req[r].own THEN granted
                  ELSE [granted EXCEPT ![req[r].key] = @ \cup {Widened}]
    /\ UNCHANGED <<config, phase, source, records, now, sessionVars>>

-----------------------------------------------------------------------------
(* The session of one browser, whose requests reach any node *)

\* A developer's machine runs one process.
Running == IF env = "local" THEN {CHOOSE n \in Node : TRUE} ELSE Node

\* backingStore: Redis, or a cache in the process.
backingStore(n) == IF sessionStore = "redis" THEN Shared ELSE n

Sessions(n) ==
    /\ phase = "serving" /\ sessionStore # "unset" /\ n \in Running
    /\ UNCHANGED <<config, phase, source, keyVars, req>>

SignIn(n) == Sessions(n) /\ sessions' = sessions \cup {backingStore(n)} /\ signedOut' = FALSE

SignOut(n) == Sessions(n) /\ sessions' = sessions \ {backingStore(n)} /\ signedOut' = TRUE

Next ==
    \/ NewVerifier \/ Ready \/ Tick
    \/ \E k \in IssuedKey :
        \/ \E named \in BOOLEAN, at \in 1..Never : Issue(k, named, at)
        \/ Withdraw(k)
    \/ \E r \in Request :
        \/ \E k \in Key : Begin(r, k)
        \/ noKeyStore(r) \/ staticKeyStore(r) \/ stubLookup(r) \/ redisLookup(r)
        \/ read(r) \/ dbLookup(r) \/ StoreDown(r) \/ Widen(r)
    \/ \E n \in Node : SignIn(n) \/ SignOut(n)

Spec == Init /\ [][Next]_vars

-----------------------------------------------------------------------------
(* Properties *)

\* What the template ships with opens no production deployment, and gives nobody
\* permissions there ("a convenience default must not be able to become a
\* production credential by being left alone", app/auth/auth.go): the default key
\* is no caller's however the deployment is configured, the payment key, which is in
\* no configuration, is none unless somebody lists it, and whoever comes with a
\* listed key, or with a published one, has none of the development store's scopes.
DefaultsOpenNothing ==
    env = "production" =>
        \A r \in Request : req[r].answer = "caller" =>
            /\ req[r].key # DevAPIKey
            /\ req[r].key = DevPaymentAPIKey => DevPaymentAPIKey \in listed
            /\ req[r].key \notin IssuedKey => req[r].scopes \cap Scope = {}

\* The payment key "exists only inside the development key store, which cannot be
\* built outside local and test" (app/auth/auth.go).  checkDevCredentials does not
\* look for it, so a production deployment that lists it lets it in.
PaymentKeyStaysLocal ==
    env = "production" =>
        \A r \in Request : req[r].key = DevPaymentAPIKey => req[r].answer # "caller"

\* A key that is withdrawn, has expired or names nobody when a request begins
\* does not open that request, whichever node it reaches.
OverIsOver ==
    \A r \in Request : req[r].answer = "caller" => ~req[r].over

\* A key that is good when the request begins and still good now was not called
\* invalid: an outage, a missing table or a bad record refuses nobody.
GoodKeysAreNotInvalid ==
    \A r \in Request : req[r].answer = "invalid" => ~(req[r].good /\ Good(req[r].key))

\* What one request does to its caller does not reach the next: a lookup answers
\* with the permissions that were given to the key.
NobodyIsWidened == \A k \in Key : Widened \notin granted[k]

\* Signing out ends the session on every node a later request may reach.
SignOutReachesEveryNode ==
    signedOut => \A n \in Running : backingStore(n) \notin sessions

=============================================================================
