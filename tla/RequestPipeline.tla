--------------------------- MODULE RequestPipeline ---------------------------
(***************************************************************************)
(* What happens to an HTTP request between the server and its handler: the *)
(* startup checks that decide whether a deployment may serve an endpoint   *)
(* at all, then the global middleware chain (body check, CORS, CSRF,       *)
(* authentication) and the typed endpoint adapter of restkit around the    *)
(* handler, with the resource checks the handler makes.                    *)
(*                                                                         *)
(* One request at a time: requests share nothing here.  An input is chosen *)
(* at the step that first reads it.  Logging, message texts, languages and *)
(* headers a handler sets itself are left out.                             *)
(***************************************************************************)
EXTENDS Integers

CONSTANTS
    Sites,      \* origins other than the server's own
    Wildcard,   \* "*" in CORS_ALLOW_ORIGIN
    Same,       \* the server's own origin
    None        \* no origin, no caller, nothing

ASSUME Distinct == /\ Wildcard \notin Sites /\ Same \notin Sites /\ None \notin Sites
                   /\ Wildcard # None /\ Same # None /\ Same # Wildcard

VARIABLES
    deployment, \* what the configuration verifies, and whom it calls its frontend
    endpoint,   \* the declaration of the endpoint the request is for
    pc,
    request,    \* its method and the origin its browser reports
    caller,     \* the principal on the request's context
    discard,    \* the verdict says: drop the session cookie
    state,      \* authorizationState of the adapter
    response,
    past        \* history: what this request went through

vars == <<deployment, endpoint, pc, request, caller, discard, state, response, past>>

-----------------------------------------------------------------------------
(* Values *)

\* A code stands for its class where the code does not tell them apart: 200 for
\* every success, 400 and 403 for what a handler may answer by itself.
Schemes == {"jwt", "apikey", "session"}
Methods == {"GET", "OPTIONS", "POST"}   \* POST: any method that changes state

Deployment == [verifies : SUBSET Schemes, entries : SUBSET (Sites \cup {Wildcard}),
               credentials : BOOLEAN]
Endpoint   == [public : BOOLEAN, schemes : SUBSET Schemes, scoped : BOOLEAN,
               resource : BOOLEAN]
Request    == [method : Methods, origin : Sites \cup {Same, None}]
Caller     == [scheme : Schemes, scoped : BOOLEAN]
Response   == [code : {200, 400, 401, 403, 422, 500, 503}, discard : BOOLEAN,
               allow : Sites \cup {Same, Wildcard, None}, credentials : BOOLEAN]
Stages     == {"startup", "refused", "listening", "body", "cors", "csrf", "auth",
               "authorize", "validate", "handler", "answered"}
Verdicts   == {"approved", "denied", "undeclared"}

NoState == [done |-> FALSE, reported |-> FALSE]
NoPast  == [asked |-> FALSE, down |-> FALSE, ran |-> FALSE, verdicts |-> {}]

-----------------------------------------------------------------------------
(* Origins *)

Named == deployment.entries \ {Wildcard}

Configured == deployment.entries # {}

\* Mutant: under the wildcard the origin is echoed.
AllowedValueEchoed(origin) ==
    IF origin # None /\ (Wildcard \in deployment.entries \/ origin \in Named)
    THEN origin ELSE None

\* What Access-Control-Allow-Origin says, None for nothing.
AllowedValue(origin) ==
    IF origin = None THEN None
    ELSE IF Wildcard \in deployment.entries THEN Wildcard
    ELSE IF origin \in Named THEN origin
    ELSE None

\* Mutant: the wildcard is expanded instead of dropped.
CheckExpandsWildcard ==
    \/ request.method \in {"GET", "OPTIONS"}
    \/ request.origin \in {None, Same}
    \/ AllowedValue(request.origin) # None

\* NewCrossOriginProtection hands net/http the named origins; Check lets safe
\* methods, same-origin requests and callers that are no browser through.
Check ==
    \/ request.method \in {"GET", "OPTIONS"}
    \/ request.origin \in {None, Same}
    \/ request.origin \in Named

-----------------------------------------------------------------------------
(* Startup: createHTTPPipeline's checks, in the order they are made *)

usesSessions == "session" \in deployment.verifies

RequiresAuthentication == ~endpoint.public

\* A public endpoint requires no credential, whatever it lists.
DeclaredSchemes == IF endpoint.public THEN {} ELSE endpoint.schemes

\* tuned: some AUTH_SESSION_ key is set besides the store; insecure: the cookie
\* drops Secure outside a developer's environment.
checkSessionConfiguration(tuned, insecure) ==
    /\ ~usesSessions => ~tuned
    /\ ~usesSessions => "session" \notin DeclaredSchemes
    /\ usesSessions  => deployment.entries # {Wildcard}
    /\ usesSessions  => ~insecure

PublicResourceCheck == endpoint.public /\ endpoint.resource

\* Mutant: a public endpoint may state conditions nobody will check.
PublicWithConditionsNever == FALSE

PublicWithConditions == endpoint.public /\ (endpoint.schemes # {} \/ endpoint.scoped)

checkAuthConfiguration ==
    /\ ~PublicResourceCheck
    /\ ~PublicWithConditions
    /\ RequiresAuthentication =>
        deployment.verifies # {} /\ DeclaredSchemes \subseteq deployment.verifies

Startup(tuned, insecure) ==
    /\ pc = "startup"
    /\ pc' = IF checkSessionConfiguration(tuned, insecure) /\ checkAuthConfiguration
             THEN "listening" ELSE "refused"
    /\ UNCHANGED <<deployment, endpoint, request, caller, discard, state, response, past>>

-----------------------------------------------------------------------------
(* Answers *)

\* An answer that passes back through the layers outside the one that gave it:
\* Auth adds the discard, CORS its headers.
Answer(code, layers) ==
    /\ response' =
        LET allow == IF "cors" \in layers THEN AllowedValue(request.origin) ELSE None IN
        [code |-> code,
         discard |-> "auth" \in layers /\ discard,
         allow |-> allow,
         credentials |-> deployment.credentials /\ allow \notin {None, Wildcard}]
    /\ pc' = "answered"
    /\ UNCHANGED <<deployment, endpoint, request, caller, discard, state>>

Outermost == {}             \* refused before CORS, or recovered from a panic
OutsideAuth == {"cors"}     \* refused by CSRF or by authentication itself
Inside == {"cors", "auth"}  \* answered by the adapter or the handler

Pass(stage) ==
    /\ pc' = stage
    /\ UNCHANGED <<deployment, endpoint, request, caller, discard, state, response>>

-----------------------------------------------------------------------------
(* The global middleware chain *)

Arrive(method, origin) ==
    /\ pc \in {"listening", "answered"}
    /\ request' = [method |-> method, origin |-> origin]
    /\ pc' = "body"
    /\ caller' = None /\ discard' = FALSE /\ state' = NoState
    /\ response' = None /\ past' = NoPast
    /\ UNCHANGED <<deployment, endpoint>>

VerifyBodyParsable(parsable) ==
    /\ pc = "body"
    /\ IF parsable THEN Pass("cors") ELSE Answer(400, Outermost)
    /\ UNCHANGED past

\* A preflight is answered here, whoever asks; everything else goes on.
CORS(asksForMethod) ==
    /\ pc = "cors"
    /\ IF Configured /\ request.method = "OPTIONS" /\ asksForMethod
       THEN Answer(200, OutsideAuth) ELSE Pass("csrf")
    /\ UNCHANGED past

CSRF ==
    /\ pc = "csrf"
    /\ IF Check THEN Pass("auth") ELSE Answer(403, OutsideAuth)
    /\ UNCHANGED past

-----------------------------------------------------------------------------
(* Authentication.  A credential is what the headers and the cookie hold   *)
(* and what the store behind each says of it.                              *)

Credentials ==
    [bearer : {"absent", "bad", "good"}, key : {"absent", "bad", "good", "down"},
     cookie : {"absent", "gone", "good", "down"}]

Verdict(out, scheme, drop) == [out |-> out, scheme |-> scheme, discard |-> drop]

verifyJWT(c) ==
    IF "jwt" \in deployment.verifies /\ c.bearer = "good"
    THEN Verdict("caller", "jwt", FALSE) ELSE Verdict("invalid", None, FALSE)

\* Mutant: a store that does not answer is taken for a no.
verifyAPIKeyGuesses(c) ==
    IF "apikey" \in deployment.verifies /\ c.key = "good"
    THEN Verdict("caller", "apikey", FALSE) ELSE Verdict("invalid", None, FALSE)

verifyAPIKey(c) ==
    IF "apikey" \notin deployment.verifies \/ c.key = "bad"
    THEN Verdict("invalid", None, FALSE)
    ELSE IF c.key = "down" THEN Verdict("unavailable", None, FALSE)
    ELSE Verdict("caller", "apikey", FALSE)

verifySession(c) ==
    IF ~usesSessions \/ c.cookie = "absent" THEN Verdict("anonymous", None, FALSE)
    ELSE IF c.cookie = "gone" THEN Verdict("anonymous", None, TRUE)
    ELSE IF c.cookie = "down" THEN Verdict("unavailable", None, FALSE)
    ELSE Verdict("caller", "session", FALSE)

\* A header beats a cookie.
Verify(c) ==
    IF c.bearer # "absent" THEN verifyJWT(c)
    ELSE IF c.key # "absent" THEN verifyAPIKey(c)
    ELSE verifySession(c)

\* history: which store the verdict came from, and whether it answered.
StoreAsked(c) ==
    /\ c.bearer = "absent"
    /\ \/ c.key # "absent" /\ "apikey" \in deployment.verifies
       \/ c.key = "absent" /\ c.cookie # "absent" /\ usesSessions

StoreDown(c) ==
    /\ StoreAsked(c)
    /\ IF c.key # "absent" THEN c.key = "down" ELSE c.cookie = "down"

\* scoped: the scopes of the caller, expanded, are the ones endpoints require.
Auth(c, scoped) ==
    /\ pc = "auth"
    /\ LET v == Verify(c) IN
        \/ /\ v.out \in {"caller", "anonymous"}
           /\ caller' = IF v.out = "caller"
                        THEN [scheme |-> v.scheme, scoped |-> scoped] ELSE None
           /\ discard' = v.discard
           /\ pc' = "authorize"
           /\ UNCHANGED <<deployment, endpoint, request, state, response>>
        \/ v.out = "unavailable" /\ Answer(503, OutsideAuth)
        \/ v.out = "invalid" /\ Answer(401, OutsideAuth)
    /\ past' = [asked |-> StoreAsked(c), down |-> StoreDown(c),
                ran |-> past.ran, verdicts |-> past.verdicts]

-----------------------------------------------------------------------------
(* The endpoint adapter *)

HasScheme == endpoint.schemes = {} \/ caller.scheme \in endpoint.schemes
SatisfiesScopes == endpoint.scoped => caller.scoped

authorize ==
    /\ pc = "authorize"
    /\ IF endpoint.public THEN Pass("validate")
       ELSE IF caller = None THEN Answer(401, Inside)
       ELSE IF ~HasScheme \/ ~SatisfiesScopes THEN Answer(403, Inside)
       ELSE Pass("validate")
    /\ UNCHANGED past

\* The body, then the path, then the query; the first that fails answers.
validate(code) ==
    /\ pc = "validate"
    /\ \/ code = 200 /\ Pass("handler") /\ past' = [past EXCEPT !.ran = TRUE]
       \/ code # 200 /\ Answer(code, Inside) /\ UNCHANGED past

\* The handler calls Authorize, any number of times.  matches: it passes the
\* type the check is declared for; approves: the predicate says yes.
Authorize(matches, approves) ==
    /\ pc = "handler"
    /\ LET verdict == IF ~endpoint.resource \/ ~matches THEN "undeclared"
                      ELSE IF caller = None \/ ~approves THEN "denied"
                      ELSE "approved" IN
        /\ state' = [done     |-> state.done \/ verdict = "approved",
                     reported |-> state.reported \/ verdict = "undeclared"]
        /\ past' = [past EXCEPT !.verdicts = @ \cup {verdict}]
    /\ UNCHANGED <<deployment, endpoint, pc, request, caller, discard, response>>

\* The handler returns an error: its own status, or 500 for one it did not
\* classify.
HandlerFails(code) ==
    /\ pc = "handler"
    /\ Answer(code, Inside)
    /\ UNCHANGED past

\* The handler panics; the recovery middleware sits outside CORS.
HandlerPanics ==
    /\ pc = "handler"
    /\ Answer(500, Outermost)
    /\ UNCHANGED past

\* Mutant: what Authorize already reported is not refused again.
verifyForgetsReported == endpoint.resource => state.done

\* authorizationState.verify: whether a success may leave.
verify == ~state.reported /\ (endpoint.resource => state.done)

\* An undeclared status panics where a developer is working, is logged elsewhere.
checkDeclaredStatus(declared, strict) == declared \/ ~strict

\* The handler returns a success.
HandlerSucceeds(declared, strict) ==
    /\ pc = "handler"
    /\ IF ~verify THEN Answer(500, Inside)
       ELSE IF ~checkDeclaredStatus(declared, strict) THEN Answer(500, Outermost)
       ELSE Answer(200, Inside)
    /\ UNCHANGED past

-----------------------------------------------------------------------------

Init ==
    /\ deployment \in Deployment
    /\ endpoint \in Endpoint
    /\ pc = "startup"
    /\ request = [method |-> "GET", origin |-> None]
    /\ caller = None
    /\ discard = FALSE
    /\ state = NoState
    /\ response = None
    /\ past = NoPast

Next ==
    \/ \E tuned, insecure \in BOOLEAN : Startup(tuned, insecure)
    \/ \E method \in Methods, origin \in Sites \cup {Same, None} : Arrive(method, origin)
    \/ \E parsable \in BOOLEAN : VerifyBodyParsable(parsable)
    \/ \E asksForMethod \in BOOLEAN : CORS(asksForMethod)
    \/ CSRF
    \/ \E c \in Credentials, scoped \in BOOLEAN : Auth(c, scoped)
    \/ authorize
    \/ \E code \in {200, 400, 422} : validate(code)
    \/ \E matches, approves \in BOOLEAN : Authorize(matches, approves)
    \/ \E code \in {400, 403, 500, 503} : HandlerFails(code)
    \/ HandlerPanics
    \/ \E declared, strict \in BOOLEAN : HandlerSucceeds(declared, strict)

Spec == Init /\ [][Next]_vars

-----------------------------------------------------------------------------
(* Properties *)

\* Every layer hands the next one a value of its kind; a caller always has a
\* scheme the verifier knows.
TypeOK ==
    /\ deployment \in Deployment
    /\ endpoint \in Endpoint
    /\ pc \in Stages
    /\ request \in Request
    /\ caller \in Caller \cup {None}
    /\ discard \in BOOLEAN
    /\ state \in [done : BOOLEAN, reported : BOOLEAN]
    /\ response \in Response \cup {None}
    /\ past \in [asked : BOOLEAN, down : BOOLEAN, ran : BOOLEAN,
                 verdicts : SUBSET Verdicts]

\* A request that changes state and comes from a browser on a site the
\* deployment does not name never reaches its handler, whatever it carries and
\* whatever the wildcard allows to be read; not even a store is asked about it.
ForgedWritesStop ==
    request.method = "POST" /\ request.origin \in Sites \ Named =>
        ~past.asked /\ ~past.ran

\* What an endpoint declares is enforced: its handler runs only for a caller of
\* an accepted kind with the scopes it requires, and no deployment that serves
\* it can have the declaration bypassed by Public.
DeclaredConditionsHold ==
    past.ran =>
        /\ endpoint.schemes # {} => caller # None /\ caller.scheme \in endpoint.schemes
        /\ endpoint.scoped => caller # None /\ caller.scoped
        /\ caller = None => endpoint.public

\* A success leaves an endpoint that declares a resource check only after the
\* check approved a known caller, and never after the handler asked for a check
\* the declaration cannot answer, however the handler treated the errors.
SuccessIsApproved ==
    pc = "answered" /\ past.ran /\ response.code = 200 =>
        /\ "undeclared" \notin past.verdicts
        /\ endpoint.resource => "approved" \in past.verdicts /\ caller # None

\* A store that does not answer decides nothing: no 401, no cookie dropped, no
\* handler run as nobody.
OutageDecidesNothing ==
    past.down => pc = "answered" /\ response.code = 503 /\ ~response.discard

\* CORS and the cross-origin check never disagree about who the frontend is: a
\* page that may read answers with the user's credentials may also make every
\* request.
CorsAgreesWithCsrf ==
    pc = "answered" /\ response.credentials => response.allow \in Named

\* A deployment that got past the startup checks with the wildcard among its
\* origins has sessions off, which is what the cross-origin check and the
\* WebSocket upgrade take for granted when they are handed the origins.
WildcardMeansNoSessions ==
    pc \notin {"startup", "refused"} /\ Wildcard \in deployment.entries => ~usesSessions

=============================================================================
