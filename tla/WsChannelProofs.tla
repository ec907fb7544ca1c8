--------------------------- MODULE WsChannelProofs ---------------------------
(***************************************************************************)
(* What a WebSocket channel guarantees for any set of connections, sites   *)
(* and scopes, any scope policy, and any deployment and declaration the    *)
(* startup check may be given.                                             *)
(*                                                                         *)
(* The properties speak about a connection or a message at the end of its  *)
(* way; ConnOK says what each guard in front of the upgrade has            *)
(* established for a handshake that is past it.                            *)
(***************************************************************************)
EXTENDS WsChannel, TLAPS

ConnRec == [pc : Steps, origin : Origins, cred : Credentials,
            caller : Caller \cup {None}, asked : BOOLEAN, late : BOOLEAN]

\* Stages in which nothing of a handshake is kept.
Empty == {"idle", "refused", "closed"}

\* Past UpgradeOrigin: the page, if it is one, is on a site the deployment names.
FromHere(c) ==
    c.pc \notin Empty \cup {"origin"} =>
        c.origin = None \/ c.origin = Same \/ Allows(c.origin)

\* Before AuthUpgrade nobody is known and no store was asked.
Unknown(c) ==
    /\ c.pc \in Empty => c.origin = None /\ ~c.late
    /\ c.pc \in Empty \cup {"origin"} => ~c.asked
    /\ c.pc \in Empty \cup {"origin", "auth"} => c.caller = None

\* A session that had ended when the handshake arrived has ended for good, and
\* is nobody's credential.
Late(c) ==
    c.late => ~live /\ (c.caller = None \/ c.caller.scheme # "session")

\* Past ChannelSecurity: the channel's own conditions hold of the caller.
Admitted(c) ==
    c.pc \in {"upgrade", "open", "broken"} => Decide(security, c.caller) = "allowed"

ConnOK(c) == FromHere(c) /\ Unknown(c) /\ Late(c) /\ Admitted(c)

\* The startup check: a server that serves has a declaration that makes sense.
Started ==
    \/ phase \in {"serving", "stopping"} /\ ~Contradictory(security)
    \/ phase \in {"startup", "refused"} /\ \A k \in Conn : conn[k].pc = "idle"

ChannelInv ==
    /\ TypeOK
    /\ Started
    /\ \A k \in Conn : ConnOK(conn[k])
    /\ HandledMeansAllowed

-----------------------------------------------------------------------------

\* A value of a handshake that is dropped is in order.
LEMMA NoConnOK ==
    ASSUME NEW step \in Empty
    PROVE  /\ [NoConn EXCEPT !.pc = step] \in ConnRec
           /\ ConnOK([NoConn EXCEPT !.pc = step])
  BY DEF NoConn, ConnRec, Steps, Origins, Credentials, Empty, ConnOK, FromHere,
         Unknown, Late, Admitted

\* Only the state of the connection that takes a step changes.
LEMMA ConnStep ==
    ASSUME ChannelInv, NEW k \in Conn, NEW c \in ConnRec, ConnOK(c),
           conn' = [conn EXCEPT ![k] = c],
           phase \in {"serving", "stopping"},
           UNCHANGED <<declared, phase, live, out>>
    PROVE  ChannelInv'
  <1> USE DEF declared
  <1>1. TypeOK'
    BY DEF ChannelInv, TypeOK, ConnRec
  <1>2. Started'
    BY DEF ChannelInv, Started, Contradictory
  <1>3. HandledMeansAllowed'
    BY DEF ChannelInv, HandledMeansAllowed, SatisfiesScopes, HasScheme
  <1>4. ASSUME NEW j \in Conn PROVE ConnOK(conn[j])'
    <2>1. ConnOK(conn'[j])
      BY DEF ChannelInv, TypeOK
    <2> QED BY <2>1 DEF ConnOK, FromHere, Allows, Unknown, Late, Admitted, Decide,
               HasScheme, SatisfiesScopes
  <1> QED BY <1>1, <1>2, <1>3, <1>4 DEF ChannelInv

\* A connection that takes a step is one of a server that serves.
LEMMA Busy ==
    ASSUME ChannelInv, NEW k \in Conn, conn[k].pc # "idle"
    PROVE  /\ phase \in {"serving", "stopping"}
           /\ conn[k] \in ConnRec /\ ConnOK(conn[k])
  BY DEF ChannelInv, Started, TypeOK, ConnRec

\* A handshake or a connection that ends leaves nothing behind.
LEMMA DropInv ==
    ASSUME ChannelInv, NEW k \in Conn, NEW step \in Empty, conn[k].pc # "idle",
           Drop(k, step), UNCHANGED <<declared, phase, live, out>>
    PROVE  ChannelInv'
  <1>1. conn' = [conn EXCEPT ![k] = [NoConn EXCEPT !.pc = step]]
    BY DEF Drop
  <1> QED BY <1>1, Busy, NoConnOK, ConnStep

\* A handshake goes on to a guard, or past it.
LEMMA GoInv ==
    ASSUME ChannelInv, NEW k \in Conn, NEW step \in Steps, conn[k].pc # "idle",
           Go(k, step), UNCHANGED <<declared, phase, live, out>>,
           ConnOK([conn[k] EXCEPT !.pc = step])
    PROVE  ChannelInv'
  <1>1. conn' = [conn EXCEPT ![k] = [conn[k] EXCEPT !.pc = step]]
    BY DEF Go
  <1>2. [conn[k] EXCEPT !.pc = step] \in ConnRec
    BY Busy DEF ConnRec
  <1> QED BY <1>1, <1>2, Busy, ConnStep

-----------------------------------------------------------------------------
(* One lemma per action *)

\* The startup check lets a declaration through only if it makes sense.
LEMMA CreateWSRouterInv == ASSUME ChannelInv, CreateWSRouter PROVE ChannelInv'
  <1> USE DEF declared, CreateWSRouter
  <1>1. TypeOK'
    BY DEF ChannelInv, TypeOK
  <1>2. Started'
    BY DEF ChannelInv, Started, checkChannelSecurity, Contradictory
  <1>3. HandledMeansAllowed'
    BY DEF ChannelInv, HandledMeansAllowed, SatisfiesScopes, HasScheme
  <1>4. ASSUME NEW j \in Conn PROVE ConnOK(conn[j])'
    BY DEF ChannelInv, ConnOK, FromHere, Allows, Unknown, Late, Admitted, Decide,
               HasScheme, SatisfiesScopes
  <1> QED BY <1>1, <1>2, <1>3, <1>4 DEF ChannelInv

\* A new handshake is nobody's, and late if the session has already ended.
LEMMA ArriveInv ==
    ASSUME ChannelInv, NEW k \in Conn, NEW origin \in Origins, NEW cred \in Credentials,
           Arrive(k, origin, cred)
    PROVE  ChannelInv'
  <1> DEFINE c == [NoConn EXCEPT !.pc = "origin", !.origin = origin,
                                 !.cred = cred, !.late = ~live]
  <1>1. conn' = [conn EXCEPT ![k] = c] /\ phase = "serving"
    BY DEF Arrive
  <1>2. live \in BOOLEAN
    BY DEF ChannelInv, TypeOK
  <1>3. c \in ConnRec /\ ConnOK(c)
    BY <1>2 DEF NoConn, ConnRec, Steps, ConnOK, FromHere, Unknown, Late, Admitted, Empty
  <1> HIDE DEF c
  <1> QED BY <1>1, <1>3, ConnStep DEF Arrive

\* UpgradeOrigin lets a page through only from a site the deployment names.
LEMMA UpgradeOriginInv ==
    ASSUME ChannelInv, NEW k \in Conn, UpgradeOrigin(k)
    PROVE  ChannelInv'
  <1>1. CASE conn[k].origin = None \/ conn[k].origin = Same \/ Allows(conn[k].origin)
    <2>1. Go(k, "auth") /\ conn[k].pc = "origin"
      BY <1>1 DEF UpgradeOrigin
    <2>2. ConnOK([conn[k] EXCEPT !.pc = "auth"])
      BY <1>1, <2>1, Busy DEF ConnRec, ConnOK, FromHere, Unknown, Late, Admitted, Empty
    <2> QED BY <2>1, <2>2, GoInv DEF UpgradeOrigin, Steps
  <1>2. CASE ~(conn[k].origin = None \/ conn[k].origin = Same \/ Allows(conn[k].origin))
    BY <1>2, DropInv DEF UpgradeOrigin, Empty
  <1> QED BY <1>1, <1>2

\* The verifier answers with the session only while the session is live.
LEMMA VerifySession ==
    ASSUME NEW cred \in Credentials, NEW down \in BOOLEAN, Verify(cred, down) = "session"
    PROVE  live
  BY DEF Verify, Credentials

\* AuthUpgrade puts a caller on the handshake that is not one of an ended session.
LEMMA AuthUpgradeInv ==
    ASSUME ChannelInv, NEW k \in Conn, NEW down \in BOOLEAN, NEW scopes \in SUBSET Scopes,
           AuthUpgrade(k, down, scopes)
    PROVE  ChannelInv'
  <1> DEFINE verdict == Verify(conn[k].cred, down)
             caller == IF verdict \in Schemes
                       THEN [scheme |-> verdict, scopes |-> scopes] ELSE None
             asked == conn[k].cred = "cookie" /\ "session" \in deployment.verifies
             c == [conn[k] EXCEPT !.pc = "channel", !.asked = asked, !.caller = caller]
  <1>1. conn[k].pc = "auth" /\ UNCHANGED <<declared, phase, live, out>>
    BY DEF AuthUpgrade
  <1>2. CASE verdict \in {"invalid", "unavailable"} /\ Drop(k, "refused")
    BY <1>1, <1>2, DropInv DEF Empty
  <1>3. CASE conn' = [conn EXCEPT ![k] = c]
    <2>1. conn[k] \in ConnRec /\ ConnOK(conn[k]) /\ phase \in {"serving", "stopping"}
      BY <1>1, Busy
    <2>2. caller \in Caller \cup {None} /\ asked \in BOOLEAN
      BY DEF Caller
    <2>3. caller # None => caller.scheme = verdict
      OBVIOUS
    <2>4. verdict = "session" => live
      BY <2>1, VerifySession DEF ConnRec
    <2> HIDE DEF verdict, caller, asked
    <2>5. c \in ConnRec
      BY <2>1, <2>2 DEF ConnRec, Steps
    <2>6. ConnOK(c)
      BY <2>1, <2>3, <2>4, <1>1 DEF ConnRec, ConnOK, FromHere, Unknown, Late, Admitted,
         Empty
    <2> HIDE DEF c
    <2> QED BY <1>1, <1>3, <2>1, <2>5, <2>6, ConnStep
  <1> QED BY <1>2, <1>3 DEF AuthUpgrade

\* ChannelSecurity admits the callers its declaration admits.
LEMMA ChannelSecurityInv ==
    ASSUME ChannelInv, NEW k \in Conn, ChannelSecurity(k)
    PROVE  ChannelInv'
  <1>1. CASE Decide(security, conn[k].caller) = "allowed"
    <2>1. Go(k, "upgrade") /\ conn[k].pc = "channel"
      BY <1>1 DEF ChannelSecurity
    <2>2. ConnOK([conn[k] EXCEPT !.pc = "upgrade"])
      BY <1>1, <2>1, Busy DEF ConnRec, ConnOK, FromHere, Unknown, Late, Admitted, Empty
    <2> QED BY <2>1, <2>2, GoInv DEF ChannelSecurity, Steps
  <1>2. CASE Decide(security, conn[k].caller) # "allowed"
    BY <1>2, DropInv DEF ChannelSecurity, Empty
  <1> QED BY <1>1, <1>2

\* The upgrade and the loss of the peer keep what the guards established.
LEMMA OpenInv ==
    ASSUME ChannelInv, NEW k \in Conn, NEW step \in {"open", "broken"},
           conn[k].pc \in {"upgrade", "open"}, Go(k, step),
           UNCHANGED <<declared, phase, live, out>>
    PROVE  ChannelInv'
  <1>1. ConnOK([conn[k] EXCEPT !.pc = step])
    BY Busy DEF ConnRec, ConnOK, FromHere, Unknown, Late, Admitted, Empty
  <1> QED BY <1>1, GoInv DEF Steps

\* The library opens the connection or drops it.
LEMMA UpgradeInv ==
    ASSUME ChannelInv, NEW k \in Conn, NEW opened \in BOOLEAN, Upgrade(k, opened)
    PROVE  ChannelInv'
  BY OpenInv, DropInv DEF Upgrade, Empty

\* What a dispatched message was answered is what its caller may be told.
LEMMA DispatchAllowed ==
    ASSUME ChannelInv, NEW k \in Connected, NEW m \in Messages,
           NEW parsable \in BOOLEAN, NEW valid \in BOOLEAN,
           dispatch(k, m, parsable, valid) \in {"handled", "failed", "validation_failed"}
    PROVE  /\ m \in DOMAIN receivers
           /\ MessageDecide(receivers[m], conn[k].caller) = "allowed"
  BY DEF dispatch, refusalOf, MessageDecide

\* The conditions of the channel and of the message, together.
LEMMA BothConditions ==
    ASSUME NEW s \in SecuritySpec, NEW t \in MessageSecurity, NEW caller \in Caller \cup {None},
           ~Contradictory(s), Decide(s, caller) = "allowed",
           MessageDecide(t, caller) = "allowed"
    PROVE  LET needed == (IF s = None THEN {} ELSE s.scopes)
                            \cup (IF t = None THEN {} ELSE t.scopes)
           IN  IF caller = None
               THEN needed = {} /\ t = None /\ s # None /\ s.public /\ s.schemes = {}
               ELSE /\ SatisfiesScopes(caller, needed)
                    /\ s # None => HasScheme(caller, s.schemes)
  <1>1. CASE caller = None
    BY <1>1 DEF Contradictory, Decide, MessageDecide
  <1>2. CASE caller # None
    <2>1. s # None => SatisfiesScopes(caller, s.scopes) /\ HasScheme(caller, s.schemes)
      BY <1>2 DEF Contradictory, Decide, SatisfiesScopes, HasScheme
    <2>2. t # None => SatisfiesScopes(caller, t.scopes)
      BY <1>2 DEF MessageDecide
    <2> QED BY <1>2, <2>1, <2>2 DEF SatisfiesScopes
  <1> QED BY <1>1, <1>2

\* Every answer of dispatch is one of its answers.
LEMMA DispatchType ==
    ASSUME NEW k, NEW m, NEW parsable, NEW valid
    PROVE  dispatch(k, m, parsable, valid) \in Answers
  BY DEF dispatch, refusalOf, MessageDecide, Answers

\* A message is answered as its caller may be, and changes no other connection.
LEMMA OnMessageInv ==
    ASSUME ChannelInv, NEW k \in Conn, NEW m \in Messages, NEW parsable \in BOOLEAN,
           NEW valid \in BOOLEAN, OnMessage(k, m, parsable, valid)
    PROVE  ChannelInv'
  <1> DEFINE answer == dispatch(k, m, parsable, valid)
             undelivered == m = "handleAnnounce" /\ answer = "handled" /\ ~Broadcast
  <1>1. /\ k \in Connected /\ UNCHANGED <<declared, phase, live>>
        /\ out' = [message |-> m, answer |-> answer, caller |-> conn[k].caller,
                   live |-> live, undelivered |-> undelivered]
        /\ IF answer = "failed" THEN Drop(k, "closed") ELSE UNCHANGED conn
    BY DEF OnMessage
  <1>2. conn[k].pc \in {"open", "broken"} /\ conn[k] \in ConnRec /\ ConnOK(conn[k])
        /\ phase \in {"serving", "stopping"}
    BY <1>1, Busy DEF Connected
  <1>3. answer \in Answers /\ undelivered \in BOOLEAN
    BY DispatchType
  <1>4. answer \in {"handled", "failed", "validation_failed"} =>
            m \in DOMAIN receivers /\ MessageDecide(receivers[m], conn[k].caller) = "allowed"
    BY <1>1, DispatchAllowed
  <1> HIDE DEF answer, undelivered
  <1>5. out' \in [message : Messages, answer : Answers,
            caller : Caller \cup {None}, live : BOOLEAN, undelivered : BOOLEAN] \cup {None}
    BY <1>1, <1>2, <1>3 DEF ChannelInv, TypeOK, ConnRec
  <1>6. HandledMeansAllowed'
    <2>1. SUFFICES ASSUME answer \in {"handled", "failed", "validation_failed"}
                   PROVE  HandledMeansAllowed'
      BY <1>1 DEF HandledMeansAllowed
    <2>2. ~Contradictory(security) /\ Decide(security, conn[k].caller) = "allowed"
      BY <1>2 DEF ChannelInv, Started, ConnOK, Admitted
    <2>3. receivers[m] \in MessageSecurity /\ security \in SecuritySpec
      BY <2>1, <1>4 DEF ChannelInv, TypeOK, Catalog
    <2>4. conn[k].caller \in Caller \cup {None}
      BY <1>2 DEF ConnRec
    <2>5. LET s == security  t == receivers[m]  caller == conn[k].caller
              needed == (IF s = None THEN {} ELSE s.scopes)
                            \cup (IF t = None THEN {} ELSE t.scopes)
          IN  IF caller = None
              THEN needed = {} /\ t = None /\ s # None /\ s.public /\ s.schemes = {}
              ELSE /\ SatisfiesScopes(caller, needed)
                   /\ s # None => HasScheme(caller, s.schemes)
      BY <1>4, <2>1, <2>2, <2>3, <2>4, BothConditions
    <2>6. /\ out'.caller = conn[k].caller /\ out'.message = m
          /\ security' = security /\ receivers' = receivers
      BY <1>1 DEF declared
    <2> QED BY <2>5, <2>6 DEF HandledMeansAllowed, SatisfiesScopes, HasScheme
  <1>7. \E c \in ConnRec : ConnOK(c) /\ conn' = [conn EXCEPT ![k] = c]
    <2>1. CASE answer = "failed"
      BY <1>1, <2>1, NoConnOK DEF Drop, Empty
    <2>2. CASE answer # "failed"
      <3>1. conn' = [conn EXCEPT ![k] = conn[k]]
        BY <1>1, <2>2 DEF ChannelInv, TypeOK
      <3> QED BY <1>2, <3>1
    <2> QED BY <2>1, <2>2
  <1>8. PICK c \in ConnRec : ConnOK(c) /\ conn' = [conn EXCEPT ![k] = c]
    BY <1>7
  <1>9. TypeOK'
    BY <1>1, <1>5, <1>8 DEF ChannelInv, TypeOK, ConnRec, declared
  <1>10. Started'
    BY <1>1, <1>2, <1>8 DEF ChannelInv, Started, Contradictory, declared
  <1>11. ASSUME NEW j \in Conn PROVE ConnOK(conn[j])'
    <2>1. ConnOK(conn'[j])
      BY <1>8 DEF ChannelInv, TypeOK
    <2> QED BY <1>1, <2>1 DEF ConnOK, FromHere, Allows, Unknown, Late, Admitted, Decide,
               HasScheme, SatisfiesScopes, declared
  <1> QED BY <1>6, <1>9, <1>10, <1>11 DEF ChannelInv

\* The session ends: what arrived late stays late.
LEMMA EndSessionInv == ASSUME ChannelInv, EndSession PROVE ChannelInv'
  <1> USE DEF declared, EndSession
  <1>1. TypeOK' /\ Started'
    BY DEF ChannelInv, TypeOK, Started, Contradictory
  <1>2. HandledMeansAllowed'
    BY DEF ChannelInv, HandledMeansAllowed, SatisfiesScopes, HasScheme
  <1>3. ASSUME NEW j \in Conn PROVE ConnOK(conn[j])'
    BY DEF ChannelInv, ConnOK, FromHere, Allows, Unknown, Late, Admitted, Decide,
               HasScheme, SatisfiesScopes
  <1> QED BY <1>1, <1>2, <1>3 DEF ChannelInv

\* A server that stops, and a step that changes nothing.
LEMMA ShutdownInv ==
    ASSUME ChannelInv, UNCHANGED <<declared, conn, live, out>>,
           phase' = phase \/ (phase = "serving" /\ phase' = "stopping")
    PROVE  ChannelInv'
  <1> USE DEF declared
  <1>1. TypeOK' /\ Started'
    BY DEF ChannelInv, TypeOK, Started, Contradictory
  <1>2. HandledMeansAllowed'
    BY DEF ChannelInv, HandledMeansAllowed, SatisfiesScopes, HasScheme
  <1>3. ASSUME NEW j \in Conn PROVE ConnOK(conn[j])'
    BY DEF ChannelInv, ConnOK, FromHere, Allows, Unknown, Late, Admitted, Decide,
               HasScheme, SatisfiesScopes
  <1> QED BY <1>1, <1>2, <1>3 DEF ChannelInv

\* Any step of one connection.
LEMMA StepInv == ASSUME ChannelInv, NEW k \in Conn, Step(k) PROVE ChannelInv'
  <1>1. ASSUME PeerVanishes(k) PROVE ChannelInv'
    BY <1>1, OpenInv DEF PeerVanishes
  <1>2. ASSUME ReadLoopEnds(k) PROVE ChannelInv'
    BY <1>2, DropInv DEF ReadLoopEnds, Connected, Empty
  <1> QED BY <1>1, <1>2, ArriveInv, UpgradeOriginInv, AuthUpgradeInv, ChannelSecurityInv,
             UpgradeInv, OnMessageInv DEF Step

\* Nothing is open before the server starts.
LEMMA InitInv == ASSUME Init PROVE ChannelInv
  <1>1. NoConn \in ConnRec /\ ConnOK(NoConn) /\ NoConn.pc = "idle"
    BY DEF NoConn, ConnRec, Steps, Origins, Credentials, Empty, ConnOK, FromHere,
           Unknown, Late, Admitted
  <1>2. TypeOK
    BY <1>1, WsAssumption DEF Init, TypeOK, ConnRec
  <1> QED BY <1>1, <1>2 DEF Init, ChannelInv, Started, HandledMeansAllowed

\* ChannelInv is an invariant of the channel.
LEMMA ChannelInvariant == Spec => []ChannelInv
  <1>1. ChannelInv /\ [Next]_vars => ChannelInv'
    BY CreateWSRouterInv, EndSessionInv, ShutdownInv, StepInv
       DEF Next, Shutdown, vars, declared
  <1> QED BY <1>1, InitInv, PTL DEF Spec

-----------------------------------------------------------------------------

\* Handshakes, connections and answers are well typed, whatever is declared.
THEOREM TypeCorrect == Spec => []TypeOK
  <1>1. ChannelInv => TypeOK
    BY DEF ChannelInv
  <1> QED BY <1>1, ChannelInvariant, PTL

\* UpgradeOrigin keeps a page of a site the deployment does not name from every
\* connection, and its cookie from the session store.
THEOREM ForeignPages == Spec => []ForeignPagesReadNothing
  <1>1. ChannelInv => ForeignPagesReadNothing
    <2>1. SUFFICES ASSUME ChannelInv, NEW k \in Conn, conn[k].origin \in Sites,
                          ~Allows(conn[k].origin)
                   PROVE  ~conn[k].asked /\ conn[k].pc \in {"origin", "refused"}
      BY DEF ForeignPagesReadNothing
    <2>2. conn[k].origin # None /\ conn[k].origin # Same
      BY <2>1, WsAssumption
    <2> QED BY <2>1, <2>2 DEF ChannelInv, ConnOK, FromHere, Unknown, Empty
  <1> QED BY <1>1, ChannelInvariant, PTL

\* The startup check, ChannelSecurity and refusalOf together: no handler runs for
\* a caller that the channel's or the message's declaration excludes.
THEOREM HandledAllowed == Spec => []HandledMeansAllowed
  <1>1. ChannelInv => HandledMeansAllowed
    BY DEF ChannelInv
  <1> QED BY <1>1, ChannelInvariant, PTL

\* A handshake that arrives after the session ended never acts for it.
THEOREM EndedSession == Spec => []EndedOpensNothing
  <1>1. ChannelInv => EndedOpensNothing
    BY DEF ChannelInv, ConnOK, Late, EndedOpensNothing
  <1> QED BY <1>1, ChannelInvariant, PTL

\* While the server is not stopping, a handler closes an open connection only for
\* want of a caller: handleAnnounce keeps the failures of the others to itself.
THEOREM OwnTrouble == Spec => ClosedForItsOwnTrouble
  <1> DEFINE A == \A k \in Conn :
        conn[k].pc = "open" /\ conn'[k].pc = "closed" /\ phase = "serving"
            /\ out' # out => conn[k].caller = None
  <1>1. TypeOK /\ [Next]_vars => [A]_vars
    <2>1. SUFFICES ASSUME TypeOK, Next, NEW k \in Conn, conn[k].pc = "open",
                          conn'[k].pc = "closed", phase = "serving", out' # out
                   PROVE  conn[k].caller = None
      OBVIOUS
    <2>2. PICK j \in Conn, m \in Messages, parsable \in BOOLEAN, valid \in BOOLEAN :
            OnMessage(j, m, parsable, valid)
      BY <2>1 DEF Next, Step, CreateWSRouter, EndSession, Shutdown, Arrive, UpgradeOrigin,
         AuthUpgrade, ChannelSecurity, Upgrade, PeerVanishes, ReadLoopEnds
    <2>3. j = k /\ dispatch(k, m, parsable, valid) = "failed"
      BY <2>1, <2>2 DEF OnMessage, Drop, TypeOK
    <2>4. ~handle(k, m)
      BY <2>3 DEF dispatch, refusalOf, MessageDecide
    <2>5. Send(k)
      BY <2>1 DEF Send
    <2> QED BY <2>4, <2>5 DEF handle, handleEcho, handleWhoAmI, handleAnnounce,
               Messages, Handlers
  <1> QED BY <1>1, TypeCorrect, PTL DEF Spec, ClosedForItsOwnTrouble
=============================================================================
