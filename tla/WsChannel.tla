----------------------------- MODULE WsChannel -----------------------------
(***************************************************************************)
(* One WebSocket channel: the startup check over its declaration, the      *)
(* handshake with the three guards the router puts in front of it, and the *)
(* messages of the connections that were opened, with the handlers of the  *)
(* sample channel /ws/user.                                                *)
(*                                                                         *)
(* A handshake is an HTTP request and other things happen between its      *)
(* steps.  A connection handles one message at a time.  The socket, the    *)
(* upgrade itself and the closing of a connection whose handler failed     *)
(* belong to the websocket library.                                        *)
(***************************************************************************)
EXTENDS FiniteSets

CONSTANTS
    Conn,           \* connections
    Sites,          \* origins other than the server's own
    Scopes,
    Implies,        \* Implies[s]: what the scope policy lets s stand for
    Deployments, Securities, Catalogs,  \* what Init chooses from
    Wildcard, Same, None

Schemes == {"jwt", "apikey", "session"}
Handlers == {"handleEcho", "handleWhoAmI", "handleAnnounce"}

Deployment == [verifies : SUBSET Schemes, entries : SUBSET (Sites \cup {Wildcard})]
\* Channel.Security and ReceiveOpts.Security; None is nil.
SecuritySpec == [public : BOOLEAN, schemes : SUBSET Schemes, scopes : SUBSET Scopes]
                    \cup {None}
MessageSecurity == [scopes : SUBSET Scopes] \cup {None}
\* Channel.Receive: the declared messages, each under the name of its handler.
Catalog == UNION {[names -> MessageSecurity] : names \in SUBSET Handlers}

ASSUME WsAssumption ==
    /\ Implies \in [Scopes -> SUBSET Scopes]
    /\ Deployments \subseteq Deployment
    /\ Securities \subseteq SecuritySpec
    /\ Catalogs \subseteq Catalog
    /\ Cardinality({Wildcard, Same, None}) = 3
    /\ Sites \cap {Wildcard, Same, None} = {}

VARIABLES
    deployment, \* what the verifier verifies, and CORS_ALLOW_ORIGIN
    security,   \* who may open a connection
    receivers,  \* the map NewModule builds from the catalog
    phase,      \* of the server
    conn,       \* conn[k]: the handshake and then the connection
    live,       \* the session the cookies name is in the store
    out         \* the last message dispatched, and what became of it

vars == <<deployment, security, receivers, phase, conn, live, out>>
declared == <<deployment, security, receivers>>

Caller == [scheme : Schemes, scopes : SUBSET Scopes]
Credentials == {"none", "bad", "jwt", "apikey", "cookie"}
Steps == {"idle", "origin", "auth", "channel", "upgrade", "open", "broken",
          "refused", "closed"}
Answers == {"not_parsable", "unknown_message_type", "unauthenticated", "forbidden",
            "validation_failed", "handled", "failed"}

NoConn == [pc |-> "idle", origin |-> None, cred |-> "none", caller |-> None,
           asked |-> FALSE, late |-> FALSE]

Init ==
    /\ deployment \in Deployments /\ security \in Securities /\ receivers \in Catalogs
    /\ phase = "startup"
    /\ conn = [k \in Conn |-> NoConn]
    /\ live = TRUE /\ out = None

-----------------------------------------------------------------------------
(* Scopes and declarations *)

\* The caller's own scopes and what the policy adds to them.
SatisfiesScopes(caller, scopes) ==
    scopes \subseteq caller.scopes \cup UNION {Implies[s] : s \in caller.scopes}

HasScheme(caller, schemes) == schemes = {} \/ caller.scheme \in schemes

Decide(s, caller) ==
    IF s # None /\ s.public THEN "allowed"
    ELSE IF caller = None THEN "unauthenticated"
    ELSE IF s # None /\ ~(HasScheme(caller, s.schemes) /\ SatisfiesScopes(caller, s.scopes))
    THEN "forbidden" ELSE "allowed"

RequiresCaller(s) == s = None \/ ~s.public

Contradictory(s) == s # None /\ s.public /\ (s.schemes # {} \/ s.scopes # {})

MessageDecide(s, caller) ==
    IF s = None THEN "allowed"
    ELSE IF caller = None THEN "unauthenticated"
    ELSE IF SatisfiesScopes(caller, s.scopes) THEN "allowed" ELSE "forbidden"

MessageRequiresCaller(s) == s # None

-----------------------------------------------------------------------------
(* Startup *)

messagesRequiringCaller == {m \in DOMAIN receivers : MessageRequiresCaller(receivers[m])}

checkNothingNeedsCaller == ~RequiresCaller(security) /\ messagesRequiringCaller = {}

limitedSchemes == IF security = None \/ security.public THEN {} ELSE security.schemes

unverifiableSchemes == limitedSchemes \ deployment.verifies

checkChannelSecurity ==
    /\ ~Contradictory(security)
    /\ IF deployment.verifies = {} THEN checkNothingNeedsCaller
       ELSE unverifiableSchemes = {}

CreateWSRouter ==
    /\ phase = "startup"
    /\ phase' = IF checkChannelSecurity THEN "serving" ELSE "refused"
    /\ UNCHANGED <<declared, conn, live, out>>

-----------------------------------------------------------------------------
(* The handshake *)

Serving == phase \in {"serving", "stopping"}

Go(k, step) == conn' = [conn EXCEPT ![k].pc = step]

\* Nothing of the handshake is kept once there is no connection.
Drop(k, step) == conn' = [conn EXCEPT ![k] = [NoConn EXCEPT !.pc = step]]

Arrive(k, origin, cred) ==
    /\ phase = "serving" /\ conn[k].pc = "idle"
    /\ conn' = [conn EXCEPT ![k] = [NoConn EXCEPT !.pc = "origin", !.origin = origin,
                                                  !.cred = cred, !.late = ~live]]
    /\ UNCHANGED <<declared, phase, live, out>>

Allows(origin) == Wildcard \in deployment.entries \/ origin \in deployment.entries

\* Mutant: an origin the deployment does not name is let through.
UpgradeOriginMissing(k) ==
    /\ conn[k].pc = "origin"
    /\ Go(k, "auth")
    /\ UNCHANGED <<declared, phase, live, out>>

\* A caller that names no origin is not a browser.
UpgradeOrigin(k) ==
    /\ conn[k].pc = "origin"
    /\ LET origin == conn[k].origin IN
        IF origin = None \/ origin = Same \/ Allows(origin)
        THEN Go(k, "auth") ELSE Drop(k, "refused")
    /\ UNCHANGED <<declared, phase, live, out>>

\* Mutant: the session is taken for live because the cookie names it.
VerifyTrustsCookie(cred, down) ==
    CASE cred = "none" -> "anonymous"
      [] cred = "bad" -> "invalid"
      [] cred \in {"jwt", "apikey"} -> IF cred \in deployment.verifies THEN cred ELSE "invalid"
      [] cred = "cookie" -> IF "session" \in deployment.verifies THEN "session" ELSE "anonymous"

\* verifier.Verify: a scheme, "anonymous", or the kind of the error.  A cookie
\* whose session is gone, or that nothing reads, is no credential.
Verify(cred, down) ==
    CASE cred = "none" -> "anonymous"
      [] cred = "bad" -> "invalid"
      [] cred \in {"jwt", "apikey"} -> IF cred \in deployment.verifies THEN cred ELSE "invalid"
      [] cred = "cookie" ->
            IF "session" \notin deployment.verifies THEN "anonymous"
            ELSE IF down THEN "unavailable"
            ELSE IF live THEN "session" ELSE "anonymous"

\* down: the session store does not answer; scopes: what the credential carries.
AuthUpgrade(k, down, scopes) ==
    /\ conn[k].pc = "auth"
    /\ LET verdict == Verify(conn[k].cred, down) IN
        \/ verdict \in {"invalid", "unavailable"} /\ Drop(k, "refused")
        \/ /\ verdict \in Schemes \cup {"anonymous"}
           /\ conn' = [conn EXCEPT
                ![k].pc = "channel",
                ![k].asked = conn[k].cred = "cookie" /\ "session" \in deployment.verifies,
                ![k].caller = IF verdict \in Schemes
                              THEN [scheme |-> verdict, scopes |-> scopes] ELSE None]
    /\ UNCHANGED <<declared, phase, live, out>>

ChannelSecurity(k) ==
    /\ conn[k].pc = "channel"
    /\ IF Decide(security, conn[k].caller) = "allowed"
       THEN Go(k, "upgrade") ELSE Drop(k, "refused")
    /\ UNCHANGED <<declared, phase, live, out>>

\* The library upgrades and runs OnOpen, whose error closes the connection.
Upgrade(k, opened) ==
    /\ conn[k].pc = "upgrade"
    /\ IF opened THEN Go(k, "open") ELSE Drop(k, "closed")
    /\ UNCHANGED <<declared, phase, live, out>>

-----------------------------------------------------------------------------
(* Messages *)

Connected == {k \in Conn : conn[k].pc \in {"open", "broken"}}

\* Sender.Send: refused once the context is cancelled; a write fails on a
\* connection whose peer is gone.
Send(k) == phase # "stopping" /\ conn[k].pc = "open"

\* Sender.Broadcast: all the failures together.
Broadcast == phase # "stopping" /\ \A j \in Connected : conn[j].pc = "open"

\* What a handler returns; FALSE is an error.
handleEcho(k) == Send(k)
handleWhoAmI(k) == conn[k].caller # None /\ Send(k)

\* Mutant: the failed deliveries are returned to the announcer.
handleAnnounceReturns(k) == Broadcast

\* A delivery that fails is the other connection's trouble: it is logged
\* ("undelivered" below) and not returned.
handleAnnounce(k) == TRUE

handle(k, m) ==
    CASE m = "handleEcho" -> handleEcho(k)
      [] m = "handleWhoAmI" -> handleWhoAmI(k)
      [] m = "handleAnnounce" -> handleAnnounce(k)

\* The caller is the one on the message's own context, which is the handshake's.
refusalOf(k, m) == MessageDecide(receivers[m], conn[k].caller)

\* Mutant: the payload is decoded and validated before the caller is judged.
dispatchValidatesFirst(k, m, parsable, valid) ==
    IF ~parsable THEN "not_parsable"
    ELSE IF m \notin DOMAIN receivers THEN "unknown_message_type"
    ELSE IF ~valid THEN "validation_failed"
    ELSE IF refusalOf(k, m) # "allowed" THEN refusalOf(k, m)
    ELSE IF handle(k, m) THEN "handled" ELSE "failed"

\* Every answer but the last is an error message, sent if it can be.
dispatch(k, m, parsable, valid) ==
    IF ~parsable THEN "not_parsable"
    ELSE IF m \notin DOMAIN receivers THEN "unknown_message_type"
    ELSE IF refusalOf(k, m) # "allowed" THEN refusalOf(k, m)
    ELSE IF ~valid THEN "validation_failed"
    ELSE IF handle(k, m) THEN "handled" ELSE "failed"

\* parsable: the frame is an envelope with a type; valid: its payload decodes
\* and keeps the declared rules.
OnMessage(k, m, parsable, valid) ==
    /\ k \in Connected
    /\ LET answer == dispatch(k, m, parsable, valid) IN
        /\ out' = [message |-> m, answer |-> answer, caller |-> conn[k].caller,
                   live |-> live,
                   undelivered |-> m = "handleAnnounce" /\ answer = "handled" /\ ~Broadcast]
        /\ IF answer = "failed" THEN Drop(k, "closed") ELSE UNCHANGED conn
    /\ UNCHANGED <<declared, phase, live>>

-----------------------------------------------------------------------------
(* Around them *)

EndSession ==
    /\ phase # "startup" /\ live /\ live' = FALSE
    /\ UNCHANGED <<declared, phase, conn, out>>

PeerVanishes(k) ==
    /\ conn[k].pc = "open"
    /\ Go(k, "broken")
    /\ UNCHANGED <<declared, phase, live, out>>

\* The read loop ends: the client closed, or the socket is found dead, or the
\* server is stopping.
ReadLoopEnds(k) ==
    /\ k \in Connected
    /\ Drop(k, "closed")
    /\ UNCHANGED <<declared, phase, live, out>>

Shutdown ==
    /\ phase = "serving" /\ phase' = "stopping"
    /\ UNCHANGED <<declared, conn, live, out>>

Origins == Sites \cup {Same, None}
Messages == Handlers

Step(k) ==
    \/ \E origin \in Origins, cred \in Credentials : Arrive(k, origin, cred)
    \/ UpgradeOrigin(k)
    \/ \E down \in BOOLEAN, scopes \in SUBSET Scopes : AuthUpgrade(k, down, scopes)
    \/ ChannelSecurity(k)
    \/ \E opened \in BOOLEAN : Upgrade(k, opened)
    \/ \E m \in Messages, parsable, valid \in BOOLEAN : OnMessage(k, m, parsable, valid)
    \/ PeerVanishes(k)
    \/ ReadLoopEnds(k)

Next == CreateWSRouter \/ EndSession \/ Shutdown \/ \E k \in Conn : Step(k)

Spec == Init /\ [][Next]_vars

-----------------------------------------------------------------------------
(* Properties *)

\* Every value of the handshake, the connection and the dispatcher is of its
\* kind.
TypeOK ==
    /\ deployment \in Deployment /\ security \in SecuritySpec /\ receivers \in Catalog
    /\ phase \in {"startup", "refused", "serving", "stopping"}
    /\ conn \in [Conn -> [pc : Steps, origin : Origins, cred : Credentials,
                          caller : Caller \cup {None}, asked : BOOLEAN, late : BOOLEAN]]
    /\ live \in BOOLEAN
    /\ out \in [message : Messages, answer : Answers, caller : Caller \cup {None},
                live : BOOLEAN, undelivered : BOOLEAN] \cup {None}

\* A page on a site the deployment does not claim never gets a connection to
\* read from, and the session store is not even asked about the cookie its
\* browser attached (UpgradeOrigin before AuthUpgrade).
ForeignPagesReadNothing ==
    \A k \in Conn : conn[k].origin \in Sites /\ ~Allows(conn[k].origin) =>
        ~conn[k].asked /\ conn[k].pc \in {"origin", "refused"}

\* The conditions of the channel and of the message hold, together, of the
\* caller of every message that reached its handler or whose rules the answer
\* gives away, on a declaration the startup check let pass.
HandledMeansAllowed ==
    out # None /\ out.answer \in {"handled", "failed", "validation_failed"} =>
        LET caller == out.caller
            needed == (IF security = None THEN {} ELSE security.scopes)
                        \cup (IF receivers[out.message] = None THEN {}
                              ELSE receivers[out.message].scopes)
        IN  IF caller = None
            THEN needed = {} /\ receivers[out.message] = None /\ security # None
                    /\ security.public /\ security.schemes = {}
            ELSE /\ SatisfiesScopes(caller, needed)
                 /\ security # None => HasScheme(caller, security.schemes)

\* A handshake that arrived after the session ended opens no connection that
\* acts for it, whatever was answered in between.
EndedOpensNothing ==
    \A k \in Conn : conn[k].late =>
        conn[k].caller = None \/ conn[k].caller.scheme # "session"

\* A server that is not stopping closes a connection for a reason of that
\* connection: its reader ended, or a handler of its own could not reach it or
\* its caller.  The trouble of another connection, a message the client got
\* wrong and an answer that could not be written are no reason.
ClosedForItsOwnTrouble ==
    [][\A k \in Conn :
        conn[k].pc = "open" /\ conn'[k].pc = "closed" /\ phase = "serving"
            /\ out' # out => conn[k].caller = None]_vars

\* Sign-out (session_delete.go: "The session stops working immediately and
\* everywhere"): no message is handled for a session that has ended.
SignedOutEverywhere ==
    out # None /\ out.answer = "handled" /\ out.caller # None =>
        (out.caller.scheme = "session" => out.live)

=============================================================================
