------------------------ MODULE RequestPipelineProofs ------------------------
(***************************************************************************)
(* What the request pipeline guarantees for any set of foreign sites.      *)
(*                                                                         *)
(* The properties speak about the end of a request's way through the       *)
(* layers; the invariant PipelineInv says what each layer has established  *)
(* for the ones inside it.                                                 *)
(***************************************************************************)
EXTENDS RequestPipeline, TLAPS

Serving == Stages \ {"startup", "refused"}

\* Past the cross-origin check.
BehindCsrf == {"auth", "authorize", "validate", "handler"}

Fresh == {"startup", "refused", "listening", "body", "cors", "csrf", "auth"}

Admitted == endpoint.public \/ (caller # None /\ HasScheme /\ SatisfiesScopes)

\* What the startup checks established for every request.
Started == pc \in Serving => ~PublicResourceCheck /\ ~PublicWithConditions

\* What the cross-origin check established for authentication and the handler.
Checked == pc \in BehindCsrf \/ past.asked \/ past.ran => Check

\* What authorize established for the handler.
Authorized == pc \in {"validate", "handler"} \/ past.ran => Admitted

\* Nothing has happened yet to a request outside authentication.
Untouched == pc \in Fresh => past = NoPast /\ state = NoState

\* Outages end the request at once.
Undecided == past.down => pc = "answered" /\ response.code = 503 /\ ~response.discard

\* The adapter's notes agree with what Authorize answered.
Noted ==
    /\ state.done => "approved" \in past.verdicts /\ caller # None
    /\ "undeclared" \in past.verdicts => state.reported
    /\ pc = "handler" => past.ran
    /\ pc \in {"authorize", "validate"} => ~past.ran

\* A success left with the consent of verify.
Consented == pc = "answered" /\ past.ran /\ response.code = 200 => verify

\* The headers are those of actualHeaders.
Headed == pc = "answered" /\ response.credentials => response.allow \in Named

PipelineInv ==
    /\ TypeOK
    /\ Started /\ Checked /\ Authorized /\ Untouched
    /\ Undecided /\ Noted /\ Consented /\ Headed

-----------------------------------------------------------------------------

\* AllowedValue answers nothing, the wildcard or a named origin.
LEMMA AllowedValueRange ==
    ASSUME TypeOK
    PROVE  AllowedValue(request.origin) \in Named \cup {Wildcard, None}
  BY DEF AllowedValue

\* Every answer keeps the parts of the invariant that speak about it.
LEMMA AnswerInv ==
    ASSUME TypeOK,
           NEW code \in {200, 400, 401, 403, 422, 500, 503},
           NEW layers \in SUBSET {"cors", "auth"},
           Answer(code, layers)
    PROVE  /\ response' \in Response
           /\ response'.code = code
           /\ "auth" \notin layers => ~response'.discard
           /\ Headed'
  <1> DEFINE a == IF "cors" \in layers THEN AllowedValue(request.origin) ELSE None
             d == "auth" \in layers /\ discard
             c == deployment.credentials /\ a \notin {None, Wildcard}
  <1>1. response' = [code |-> code, discard |-> d, allow |-> a, credentials |-> c]
    BY DEF Answer
  <1>2. a \in Named \cup {Wildcard, None}
    BY AllowedValueRange
  <1>3. Named \subseteq Sites
    BY DEF TypeOK, Deployment, Named
  <1>4. d \in BOOLEAN /\ c \in BOOLEAN
    BY DEF TypeOK, Deployment
  <1>5. ("auth" \notin layers => ~d) /\ (c => a \in Named)
    BY <1>2
  <1>6. Named' = Named
    BY DEF Answer, Named
  <1> HIDE DEF a, d, c
  <1>7. response' \in Response
    BY <1>1, <1>2, <1>3, <1>4 DEF Response
  <1>8. /\ response'.code = code /\ response'.discard = d
        /\ response'.credentials = c /\ response'.allow = a
    BY <1>1
  <1> QED BY <1>5, <1>6, <1>7, <1>8 DEF Headed

\* Letting a request pass to the next layer.
LEMMA PassType ==
    ASSUME TypeOK, NEW stage \in Stages, Pass(stage), past' = past
    PROVE  TypeOK' /\ Named' = Named
  BY DEF TypeOK, Pass, Named

\* An answer is well typed.
LEMMA AnswerType ==
    ASSUME TypeOK,
           NEW code \in {200, 400, 401, 403, 422, 500, 503},
           NEW layers \in SUBSET {"cors", "auth"},
           Answer(code, layers),
           past' \in [asked : BOOLEAN, down : BOOLEAN, ran : BOOLEAN,
                      verdicts : SUBSET Verdicts]
    PROVE  TypeOK'
  <1>1. response' \in Response \cup {None}
    BY AnswerInv
  <1> QED BY <1>1 DEF TypeOK, Answer, Stages

\* While nothing has happened to a request, only the stage matters.
LEMMA FreshInv ==
    ASSUME TypeOK', Started', pc' \in Fresh, past' = NoPast, state' = NoState,
           pc' = "auth" => Check'
    PROVE  PipelineInv'
  <1>1. /\ past'.asked = FALSE /\ past'.ran = FALSE /\ past'.down = FALSE
        /\ past'.verdicts = {} /\ state'.done = FALSE
    BY DEF NoPast, NoState
  <1> QED
    BY <1>1 DEF PipelineInv, Checked, Authorized, Untouched, Undecided, Noted,
       Consented, Headed, BehindCsrf, Fresh

\* The startup checks leave a deployment that honours its declarations, or none.
LEMMA StartupInv ==
    ASSUME PipelineInv, NEW tuned \in BOOLEAN, NEW insecure \in BOOLEAN,
           Startup(tuned, insecure)
    PROVE  PipelineInv'
  <1>1. TypeOK'
    BY DEF PipelineInv, TypeOK, Startup, Stages
  <1>2. Started'
    BY DEF PipelineInv, Startup, Started, checkAuthConfiguration, Serving,
           PublicResourceCheck, PublicWithConditions
  <1>3. pc' \in Fresh /\ pc' # "auth" /\ past' = NoPast /\ state' = NoState
    BY DEF PipelineInv, Startup, Untouched, Fresh
  <1> QED
    BY <1>1, <1>2, <1>3, FreshInv

\* A new request starts afresh.
LEMMA ArriveInv ==
    ASSUME PipelineInv, NEW method \in Methods, NEW origin \in Sites \cup {Same, None},
           Arrive(method, origin)
    PROVE  PipelineInv'
  <1>1. TypeOK'
    <2>1. request' \in Request /\ past' = NoPast /\ state' = NoState
      BY DEF Arrive, Request
    <2>2. NoPast \in [asked : BOOLEAN, down : BOOLEAN, ran : BOOLEAN,
                      verdicts : SUBSET Verdicts]
      BY DEF NoPast
    <2>3. NoState \in [done : BOOLEAN, reported : BOOLEAN]
      BY DEF NoState
    <2> QED BY <2>1, <2>2, <2>3 DEF PipelineInv, TypeOK, Arrive, Stages
  <1>2. Started'
    BY DEF PipelineInv, Arrive, Started, Serving, Stages,
           PublicResourceCheck, PublicWithConditions
  <1>3. pc' \in Fresh /\ pc' # "auth" /\ past' = NoPast /\ state' = NoState
    BY DEF Arrive, Fresh
  <1> QED
    BY <1>1, <1>2, <1>3, FreshInv

\* An answer given before authentication: nothing had happened to the request.
LEMMA EarlyAnswerInv ==
    ASSUME PipelineInv, pc \in Serving, past = NoPast, past' = past,
           NEW code \in {200, 400, 401, 403, 422, 500, 503},
           NEW layers \in SUBSET {"cors", "auth"}, Answer(code, layers)
    PROVE  PipelineInv'
  <1>1. /\ past'.asked = FALSE /\ past'.ran = FALSE /\ past'.down = FALSE
        /\ past'.verdicts = {} /\ state' = state
    BY DEF NoPast, Answer
  <1>2. TypeOK' /\ Headed'
    BY AnswerType, AnswerInv DEF PipelineInv, TypeOK
  <1>3. Started' /\ pc' = "answered"
    BY DEF PipelineInv, Answer, Started, PublicResourceCheck, PublicWithConditions
  <1>4. ~state.done
    BY DEF PipelineInv, Noted, NoPast
  <1> QED
    BY <1>1, <1>2, <1>3, <1>4 DEF PipelineInv, Checked, Authorized, Untouched, Undecided,
       Noted, Consented, BehindCsrf, Fresh

\* The layers outside authentication.
LEMMA OuterInv ==
    ASSUME PipelineInv,
           \/ \E parsable \in BOOLEAN : VerifyBodyParsable(parsable)
           \/ \E asksForMethod \in BOOLEAN : CORS(asksForMethod)
           \/ CSRF
    PROVE  PipelineInv'
  <1>1. /\ pc \in {"body", "cors", "csrf"} /\ past' = past
        /\ past = NoPast /\ state = NoState
    BY DEF PipelineInv, VerifyBodyParsable, CORS, CSRF, Untouched, Fresh
  <1>2. CASE \E code \in {200, 400, 403}, layers \in {Outermost, OutsideAuth} :
                Answer(code, layers)
    BY <1>1, <1>2, EarlyAnswerInv DEF Serving, Stages, Outermost, OutsideAuth
  <1>3. CASE \E stage \in {"cors", "csrf", "auth"} : Pass(stage)
    <2>1. PICK stage \in {"cors", "csrf", "auth"} : Pass(stage)
      BY <1>3
    <2>2. TypeOK'
      BY <1>1, <2>1, PassType DEF PipelineInv, Stages
    <2>3. /\ pc' \in {"cors", "csrf", "auth"} /\ state' = state
          /\ Started'
      BY <1>1, <2>1 DEF PipelineInv, Pass, Started, Serving, Stages,
           PublicResourceCheck, PublicWithConditions
    <2>4. pc' = "auth" => Check'
      <3>1. pc' = "auth" => CSRF
        BY <1>1, <2>1 DEF VerifyBodyParsable, CORS, Pass, Answer
      <3> QED BY <2>1, <3>1 DEF CSRF, Pass, Answer, Check, Named
    <2> QED BY <1>1, <2>2, <2>3, <2>4, FreshInv DEF Fresh
  <1> QED BY <1>2, <1>3 DEF VerifyBodyParsable, CORS, CSRF

\* A verdict has a scheme exactly when it names a caller, and an outage is an
\* outage in the verdict too.
LEMMA VerdictOK ==
    ASSUME TypeOK, NEW c \in Credentials
    PROVE  /\ Verify(c).out \in {"caller", "anonymous", "unavailable", "invalid"}
           /\ Verify(c).out = "caller" => Verify(c).scheme \in Schemes
           /\ Verify(c).discard \in BOOLEAN
           /\ StoreAsked(c) \in BOOLEAN /\ StoreDown(c) \in BOOLEAN
           /\ StoreDown(c) => Verify(c).out = "unavailable"
  <1> DEFINE Good(v) ==
               /\ v.out \in {"caller", "anonymous", "unavailable", "invalid"}
               /\ v.out = "caller" => v.scheme \in Schemes
               /\ v.discard \in BOOLEAN
               /\ StoreDown(c) => v.out = "unavailable"
  <1>0. StoreAsked(c) \in BOOLEAN /\ StoreDown(c) \in BOOLEAN
    BY DEF StoreAsked, StoreDown
  <1>1. CASE c.bearer # "absent"
    <2>1. Verify(c) = verifyJWT(c) /\ ~StoreDown(c)
      BY <1>1 DEF Verify, StoreDown, StoreAsked
    <2>2. Good(verifyJWT(c))
      BY <2>1 DEF verifyJWT, Verdict, Schemes
    <2> QED BY <1>0, <2>1, <2>2
  <1>2. CASE c.bearer = "absent" /\ c.key # "absent"
    <2>1. Verify(c) = verifyAPIKey(c)
      BY <1>2 DEF Verify
    <2>2. StoreDown(c) => "apikey" \in deployment.verifies /\ c.key = "down"
      BY <1>2 DEF StoreDown, StoreAsked
    <2>3. Good(verifyAPIKey(c))
      BY <2>2 DEF verifyAPIKey, Verdict, Schemes
    <2> QED BY <1>0, <2>1, <2>3
  <1>3. CASE c.bearer = "absent" /\ c.key = "absent"
    <2>1. Verify(c) = verifySession(c)
      BY <1>3 DEF Verify
    <2>2. StoreDown(c) => usesSessions /\ c.cookie = "down"
      BY <1>3 DEF StoreDown, StoreAsked
    <2>3. Good(verifySession(c))
      BY <2>2 DEF verifySession, Verdict, Schemes
    <2> QED BY <1>0, <2>1, <2>3
  <1> QED BY <1>1, <1>2, <1>3

\* Authentication: a caller, nobody, or an answer of 401 or 503.
LEMMA AuthInv ==
    ASSUME PipelineInv, NEW c \in Credentials, NEW scoped \in BOOLEAN, Auth(c, scoped)
    PROVE  PipelineInv'
  <1> DEFINE v == Verify(c)  asked == StoreAsked(c)  down == StoreDown(c)
  <1>1. /\ pc = "auth" /\ past = NoPast /\ state = NoState /\ Check
    BY DEF PipelineInv, Auth, Untouched, Checked, Fresh, BehindCsrf
  <1>2. /\ v.out \in {"caller", "anonymous", "unavailable", "invalid"}
        /\ v.out = "caller" => v.scheme \in Schemes
        /\ v.discard \in BOOLEAN /\ asked \in BOOLEAN /\ down \in BOOLEAN
        /\ down => v.out = "unavailable"
    BY VerdictOK DEF PipelineInv
  <1>3. past' = [asked |-> asked, down |-> down, ran |-> FALSE, verdicts |-> {}]
    BY <1>1 DEF Auth, NoPast
  <1>4. CASE v.out \in {"caller", "anonymous"}
    <2>0. /\ caller' = IF v.out = "caller" THEN [scheme |-> v.scheme, scoped |-> scoped]
                       ELSE None
          /\ discard' = v.discard /\ pc' = "authorize"
          /\ UNCHANGED <<deployment, endpoint, request, state, response>>
      BY <1>4 DEF Auth
    <2> HIDE DEF v, asked, down
    <2>1. ~down
      BY <1>2, <1>4
    <2>2. /\ past' \in [asked : BOOLEAN, down : BOOLEAN, ran : BOOLEAN,
                        verdicts : SUBSET Verdicts]
          /\ past'.down = FALSE /\ past'.ran = FALSE /\ past'.verdicts = {}
      BY <1>2, <1>3, <2>1
    <2>3. caller' \in Caller \cup {None}
      BY <1>2, <2>0 DEF Caller
    <2>4. TypeOK'
      BY <1>2, <2>0, <2>2, <2>3 DEF PipelineInv, TypeOK, Stages
    <2>5. Started' /\ Check'
      BY <1>1, <2>0 DEF PipelineInv, Started, Serving, Stages,
         PublicResourceCheck, PublicWithConditions, Check, Named
    <2>6. state'.done = FALSE
      BY <1>1, <2>0 DEF NoState
    <2> QED BY <2>0, <2>2, <2>4, <2>5, <2>6 DEF PipelineInv, Checked, Authorized,
       Untouched, Undecided, Noted, Consented, Headed, BehindCsrf, Fresh
  <1>5. CASE v.out \in {"unavailable", "invalid"}
    <2>0. PICK code \in {401, 503} : /\ Answer(code, OutsideAuth)
                                     /\ v.out = "unavailable" => code = 503
      BY <1>5 DEF Auth
    <2> HIDE DEF v, asked, down
    <2>1. /\ past' \in [asked : BOOLEAN, down : BOOLEAN, ran : BOOLEAN,
                        verdicts : SUBSET Verdicts]
          /\ past'.down = down /\ past'.ran = FALSE /\ past'.verdicts = {}
      BY <1>2, <1>3
    <2>2. OutsideAuth \in SUBSET {"cors", "auth"} /\ "auth" \notin OutsideAuth
      BY DEF OutsideAuth
    <2>3. TypeOK' /\ Headed' /\ response'.code = code /\ ~response'.discard
      BY <2>0, <2>1, <2>2, AnswerType, AnswerInv DEF PipelineInv
    <2>4. /\ pc' = "answered" /\ state' = NoState /\ Started' /\ Check'
      BY <1>1, <2>0 DEF PipelineInv, Answer, Started, Serving, Stages,
         PublicResourceCheck, PublicWithConditions, Check, Named
    <2>5. state'.done = FALSE
      BY <2>4 DEF NoState
    <2> QED BY <1>2, <2>0, <2>1, <2>3, <2>4, <2>5 DEF PipelineInv, Checked, Authorized,
       Untouched, Undecided, Noted, Consented, BehindCsrf, Fresh
  <1> QED BY <1>2, <1>4, <1>5

\* An answer given inside authentication: a success after the handler ran needs
\* verify's consent.
LEMMA InnerAnswerInv ==
    ASSUME PipelineInv, pc \in {"authorize", "validate", "handler"}, past' = past,
           NEW code \in {200, 400, 401, 403, 422, 500, 503},
           NEW layers \in SUBSET {"cors", "auth"}, Answer(code, layers),
           past.ran /\ code = 200 => verify
    PROVE  PipelineInv'
  <1>1. TypeOK' /\ Headed' /\ response'.code = code
    BY AnswerType, AnswerInv DEF PipelineInv, TypeOK
  <1>2. /\ pc' = "answered" /\ state' = state /\ caller' = caller
        /\ endpoint' = endpoint /\ request' = request /\ deployment' = deployment
    BY DEF Answer
  <1>3. Started'
    BY <1>2 DEF PipelineInv, Started, Serving, Stages, PublicResourceCheck,
       PublicWithConditions
  <1>4. Checked' /\ Authorized'
    BY <1>2 DEF PipelineInv, Checked, Authorized, BehindCsrf, Check, Named, Admitted,
       HasScheme, SatisfiesScopes
  <1>5. Untouched' /\ Undecided' /\ Noted'
    BY <1>2 DEF PipelineInv, Untouched, Undecided, Noted, Fresh
  <1>6. Consented'
    BY <1>1, <1>2 DEF Consented, verify
  <1> QED BY <1>1, <1>3, <1>4, <1>5, <1>6 DEF PipelineInv

\* authorize lets only admitted callers on.
LEMMA AuthorizeInv ==
    ASSUME PipelineInv, authorize
    PROVE  PipelineInv'
  <1>1. pc = "authorize" /\ past' = past /\ ~past.ran
    BY DEF PipelineInv, authorize, Noted
  <1>2. CASE \E code \in {401, 403} : Answer(code, Inside)
    BY <1>1, <1>2, InnerAnswerInv DEF Inside
  <1>3. CASE Pass("validate") /\ Admitted
    <2>1. TypeOK'
      BY <1>1, <1>3, PassType DEF PipelineInv, Stages
    <2>2. /\ pc' = "validate" /\ state' = state /\ caller' = caller
          /\ endpoint' = endpoint /\ request' = request /\ deployment' = deployment
      BY <1>3 DEF Pass
    <2>3. Started' /\ Checked' /\ Authorized'
      BY <1>1, <1>3, <2>2 DEF PipelineInv, Started, Serving, Stages, PublicResourceCheck,
         PublicWithConditions, Checked, BehindCsrf, Check, Named, Authorized, Admitted,
         HasScheme, SatisfiesScopes
    <2> QED BY <1>1, <2>1, <2>2, <2>3 DEF PipelineInv, Untouched, Undecided, Noted,
         Consented, Headed, Fresh
  <1> QED BY <1>2, <1>3 DEF authorize, Admitted

\* Validation answers, or lets the handler run.
LEMMA ValidateInv ==
    ASSUME PipelineInv, NEW code \in {200, 400, 422}, validate(code)
    PROVE  PipelineInv'
  <1>1. pc = "validate" /\ ~past.ran /\ Admitted
    BY DEF PipelineInv, validate, Noted, Authorized
  <1>2. CASE Answer(code, Inside) /\ past' = past
    BY <1>1, <1>2, InnerAnswerInv DEF Inside
  <1>3. CASE Pass("handler") /\ past' = [past EXCEPT !.ran = TRUE]
    <2>1. /\ past' \in [asked : BOOLEAN, down : BOOLEAN, ran : BOOLEAN,
                        verdicts : SUBSET Verdicts]
          /\ past'.asked = past.asked /\ past'.down = past.down /\ past'.ran = TRUE
          /\ past'.verdicts = past.verdicts
      BY <1>3 DEF PipelineInv, TypeOK
    <2>2. /\ pc' = "handler" /\ state' = state /\ caller' = caller /\ discard' = discard
          /\ endpoint' = endpoint /\ request' = request /\ deployment' = deployment
          /\ response' = response
      BY <1>3 DEF Pass
    <2>3. TypeOK'
      BY <2>1, <2>2 DEF PipelineInv, TypeOK, Stages
    <2>4. Started' /\ Checked' /\ Authorized'
      BY <1>1, <2>2 DEF PipelineInv, Started, Serving, Stages, PublicResourceCheck,
         PublicWithConditions, Checked, BehindCsrf, Check, Named, Authorized, Admitted,
         HasScheme, SatisfiesScopes
    <2> QED BY <1>1, <2>1, <2>2, <2>3, <2>4 DEF PipelineInv, Untouched, Undecided, Noted,
         Consented, Headed, Fresh
  <1> QED BY <1>2, <1>3 DEF validate

\* The handler's own calls of Authorize.
LEMMA ResourceCheckInv ==
    ASSUME PipelineInv, NEW matches \in BOOLEAN, NEW approves \in BOOLEAN,
           Authorize(matches, approves)
    PROVE  PipelineInv'
  <1> DEFINE verdict == IF ~endpoint.resource \/ ~matches THEN "undeclared"
                        ELSE IF caller = None \/ ~approves THEN "denied"
                        ELSE "approved"
             d == state.done \/ verdict = "approved"
             r == state.reported \/ verdict = "undeclared"
  <1>1. /\ pc = "handler" /\ pc' = pc /\ caller' = caller /\ discard' = discard
        /\ endpoint' = endpoint /\ request' = request /\ deployment' = deployment
        /\ response' = response
        /\ state' = [done |-> d, reported |-> r]
        /\ past' = [past EXCEPT !.verdicts = @ \cup {verdict}]
    BY DEF Authorize
  <1>2. verdict \in Verdicts /\ (verdict = "approved" => caller # None)
    BY DEF Verdicts
  <1>3. d \in BOOLEAN /\ r \in BOOLEAN
    BY DEF PipelineInv, TypeOK
  <1>4. /\ d => state.done \/ verdict = "approved"
        /\ state.reported \/ verdict = "undeclared" => r
    OBVIOUS
  <1> HIDE DEF verdict, d, r
  <1>5. /\ past' \in [asked : BOOLEAN, down : BOOLEAN, ran : BOOLEAN,
                      verdicts : SUBSET Verdicts]
        /\ past'.asked = past.asked /\ past'.down = past.down /\ past'.ran = past.ran
        /\ past'.verdicts = past.verdicts \cup {verdict}
    BY <1>1, <1>2 DEF PipelineInv, TypeOK
  <1>6. /\ state' \in [done : BOOLEAN, reported : BOOLEAN]
        /\ state'.done = d /\ state'.reported = r
    BY <1>1, <1>3
  <1>7. TypeOK'
    BY <1>1, <1>5, <1>6 DEF PipelineInv, TypeOK
  <1>8. Started' /\ Checked' /\ Authorized'
    BY <1>1, <1>5 DEF PipelineInv, Started, Serving, Stages, PublicResourceCheck,
       PublicWithConditions, Checked, BehindCsrf, Check, Named, Authorized, Admitted,
       HasScheme, SatisfiesScopes
  <1>9. Noted'
    BY <1>1, <1>2, <1>4, <1>5, <1>6 DEF PipelineInv, Noted
  <1> QED BY <1>1, <1>5, <1>7, <1>8, <1>9 DEF PipelineInv, Untouched, Undecided,
       Consented, Headed, Fresh

\* How a handler ends.
LEMMA HandlerInv ==
    ASSUME PipelineInv,
           \/ \E code \in {400, 403, 500, 503} : HandlerFails(code)
           \/ HandlerPanics
           \/ \E declared, strict \in BOOLEAN : HandlerSucceeds(declared, strict)
    PROVE  PipelineInv'
  <1>1. pc = "handler" /\ past' = past
    BY DEF HandlerFails, HandlerPanics, HandlerSucceeds
  <1>2. PICK code \in {200, 400, 403, 500, 503}, layers \in {Outermost, Inside} :
           Answer(code, layers) /\ (code = 200 => verify)
    BY DEF HandlerFails, HandlerPanics, HandlerSucceeds
  <1> QED BY <1>1, <1>2, InnerAnswerInv DEF Outermost, Inside

\* A deployment that has not started serves nothing.
LEMMA InitInv ==
    ASSUME Init
    PROVE  PipelineInv
  <1>1. NoPast \in [asked : BOOLEAN, down : BOOLEAN, ran : BOOLEAN,
                    verdicts : SUBSET Verdicts]
    BY DEF NoPast
  <1>2. NoState \in [done : BOOLEAN, reported : BOOLEAN]
    BY DEF NoState
  <1>3. request \in Request
    BY DEF Init, Request, Methods
  <1>4. TypeOK
    BY <1>1, <1>2, <1>3 DEF Init, TypeOK, Stages
  <1>5. /\ past.asked = FALSE /\ past.ran = FALSE /\ past.down = FALSE
        /\ past.verdicts = {} /\ state.done = FALSE /\ pc = "startup"
    BY DEF Init, NoPast, NoState
  <1> QED BY <1>4, <1>5 DEF PipelineInv, Init, Started, Serving, Checked, Authorized,
       Untouched, Undecided, Noted, Consented, Headed, BehindCsrf

\* The invariant depends on the variables only.
LEMMA StutterInv ==
    ASSUME PipelineInv, UNCHANGED vars
    PROVE  PipelineInv'
  <1> USE DEF vars
  <1>1. TypeOK' /\ Started' /\ Untouched' /\ Undecided' /\ Noted' /\ Headed'
    BY DEF PipelineInv, TypeOK, Started, PublicResourceCheck, PublicWithConditions,
       Untouched, Undecided, Noted, Headed, Named
  <1>2. Checked' /\ Authorized' /\ Consented'
    BY DEF PipelineInv, Checked, Check, Named, Authorized, Admitted, HasScheme,
       SatisfiesScopes, Consented, verify
  <1> QED BY <1>1, <1>2 DEF PipelineInv

\* PipelineInv is an invariant of the pipeline.
LEMMA PipelineInvariant ==
    Spec => []PipelineInv
  <1>1. PipelineInv /\ [Next]_vars => PipelineInv'
    BY StartupInv, ArriveInv, OuterInv, AuthInv, AuthorizeInv, ValidateInv,
       ResourceCheckInv, HandlerInv, StutterInv DEF Next
  <1> QED BY <1>1, InitInv, PTL DEF Spec

-----------------------------------------------------------------------------

\* The state of the pipeline is well typed: in particular, a caller always has
\* one of the schemes the verifier knows.
THEOREM TypeCorrect ==
    Spec => []TypeOK
  <1>1. PipelineInv => TypeOK
    BY DEF PipelineInv
  <1> QED BY <1>1, PipelineInvariant, PTL

\* CSRF keeps a foreign page's write from the handler and from every store,
\* whatever credentials ride along and whatever origins CORS is configured with.
THEOREM ForgedWrites ==
    Spec => []ForgedWritesStop
  <1>1. PipelineInv => ForgedWritesStop
    BY Distinct DEF PipelineInv, Checked, Check, ForgedWritesStop
  <1> QED BY <1>1, PipelineInvariant, PTL

\* authorize and the startup checks together enforce what an endpoint declares.
THEOREM DeclaredConditions ==
    Spec => []DeclaredConditionsHold
  <1>1. PipelineInv => DeclaredConditionsHold
    <2>1. SUFFICES ASSUME PipelineInv, past.ran
                   PROVE  /\ endpoint.schemes # {} =>
                             caller # None /\ caller.scheme \in endpoint.schemes
                          /\ endpoint.scoped => caller # None /\ caller.scoped
                          /\ caller = None => endpoint.public
      BY DEF DeclaredConditionsHold
    <2>2. Admitted
      BY <2>1 DEF PipelineInv, Authorized
    <2>3. ~PublicWithConditions
      BY <2>1 DEF PipelineInv, Started, Serving, TypeOK, Stages, Untouched, NoPast, Fresh
    <2> QED BY <2>2, <2>3 DEF Admitted, PublicWithConditions, HasScheme, SatisfiesScopes
  <1> QED BY <1>1, PipelineInvariant, PTL

\* A success of an endpoint with a resource check rests on an approval, however
\* its handler treats the errors of Authorize.
THEOREM ApprovedSuccess ==
    Spec => []SuccessIsApproved
  <1>1. PipelineInv => SuccessIsApproved
    BY DEF PipelineInv, Consented, Noted, verify, SuccessIsApproved
  <1> QED BY <1>1, PipelineInvariant, PTL

\* An outage of a credential store answers 503 and decides nothing.
THEOREM Outage ==
    Spec => []OutageDecidesNothing
  <1>1. PipelineInv => OutageDecidesNothing
    BY DEF PipelineInv, Undecided, OutageDecidesNothing
  <1> QED BY <1>1, PipelineInvariant, PTL

\* Whoever may read answers with credentials is somebody CSRF lets through.
THEOREM CorsAndCsrf ==
    Spec => []CorsAgreesWithCsrf
  <1>1. PipelineInv => CorsAgreesWithCsrf
    BY DEF PipelineInv, Headed, CorsAgreesWithCsrf
  <1> QED BY <1>1, PipelineInvariant, PTL

=============================================================================
