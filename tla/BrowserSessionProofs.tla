------------------------ MODULE BrowserSessionProofs ------------------------
(***************************************************************************)
(* What the session endpoints and the cookie guarantee for any number of   *)
(* sessions and tabs, however the requests of the browser interleave,      *)
(* whatever the store fails to do and whichever answers are lost.          *)
(*                                                                         *)
(* Two invariants carry it.  KeptOrEnded: an id anybody holds is recorded, *)
(* or there is a reason on record why it is not; no step takes the reason  *)
(* back.  Alone: while no two requests have overlapped, the one under way  *)
(* was sent with the cookie the browser still has, and says which sessions *)
(* may be working beside the ones whose handling visibly failed.           *)
(***************************************************************************)
EXTENDS BrowserSession, TLAPS

\* Why a session may have stopped working: it ran out, or its record was removed.
Ended(i) == i \in over \cup signedOut \/ next[i] # None

\* An id that somebody holds was drawn, and is recorded or ended.
KeptOrEnded(i) == i # None => i \in drawn /\ (i \in live \/ Ended(i))

\* The request of a tab and the instruction on its answer.
RequestOK(q) ==
    /\ q.pc = "none" => q = NoRequest
    /\ q.pc \in {"held", "end"} \/ q.set = "discard" => q.sent \in Ids
    /\ q.pc = "replace" \/ q.set = "issue" => q.new \in Ids
    /\ q.set # "keep" => q.pc = "answered"
    /\ q.pc \in {"verify", "held", "create", "end"} \/ q.set = "discard" => q.new = None
    /\ q.pc = "answered" /\ q.set = "keep" => q.new = None
    /\ q.set = "discard" => Ended(q.sent)
    /\ q.pc = "answered" /\ q.kind = "signout" /\ q.out \in {"ended", "anonymous"} =>
          q.set = "discard" \/ (q.sent = None /\ q.set = "keep")
    /\ KeptOrEnded(q.sent) /\ KeptOrEnded(q.new)

\* Which sessions may work beside the reported ones, while q alone is under way.
Covers(q) ==
    /\ live \ over \subseteq leaked \cup {q.new}
                               \cup (IF q.set = "keep" THEN {cookie} ELSE {})
    /\ q.set = "discard" => q.sent \notin live \ over

Busy(t) == req[t].pc # "none"

Alone ==
    ~overlapped =>
        /\ \A t, u \in Tabs : Busy(t) /\ Busy(u) => t = u
        /\ \A t \in Tabs : Busy(t) => req[t].sent = cookie /\ Covers(req[t])
        /\ (\A t \in Tabs : ~Busy(t)) => live \ over \subseteq leaked \cup {cookie}

BrowserInv ==
    /\ TypeOK
    /\ KeptOrEnded(cookie)
    /\ \A t \in Tabs : RequestOK(req[t])
    /\ Alone

-----------------------------------------------------------------------------

\* What every step does to the store and to the history: nothing that ended is
\* taken back, and a record goes only with a reason.
Onward ==
    /\ drawn \subseteq drawn' /\ over \subseteq over' /\ signedOut \subseteq signedOut'
    /\ \A i \in Ids : next[i] # None => next'[i] # None
    /\ \A i \in drawn : i \in live => i \in live' \/ Ended(i)'

\* What is held stays accounted for.
LEMMA KeptOnward ==
    ASSUME BrowserInv, Onward, NEW i \in Ids \cup {None}, KeptOrEnded(i)
    PROVE  KeptOrEnded(i)' /\ (i \in Ids /\ Ended(i) => Ended(i)')
  BY NoneIsNoId DEF Onward, KeptOrEnded, Ended

\* So are the requests of the tabs that do not move.
LEMMA RequestOnward ==
    ASSUME BrowserInv, Onward, NEW q \in Request, RequestOK(q)
    PROVE  RequestOK(q)'
  <1>1. q.sent \in Ids \cup {None} /\ q.new \in Ids \cup {None}
    BY DEF Request
  <1>2. KeptOrEnded(q.sent)' /\ KeptOrEnded(q.new)'
    BY <1>1, KeptOnward DEF RequestOK
  <1>3. q.set = "discard" => Ended(q.sent)'
    BY <1>1, KeptOnward DEF RequestOK
  <1> QED BY <1>2, <1>3 DEF RequestOK

\* A step of the server on the request of one tab.
LEMMA ServerStep ==
    ASSUME BrowserInv, TypeOK', Onward, NEW t \in Tabs, NEW q \in Request,
           req' = [req EXCEPT ![t] = q], Busy(t), q.pc # "none", q.sent = req[t].sent,
           RequestOK(q)', UNCHANGED <<cookie, overlapped>>,
           ~overlapped => Covers(q)'
    PROVE  BrowserInv'
  <1>1. KeptOrEnded(cookie)'
    BY KeptOnward DEF BrowserInv, TypeOK, KeptOrEnded
  <1>2. ASSUME NEW u \in Tabs PROVE RequestOK(req[u])'
    <2>1. CASE u = t
      <3>1. req'[u] = q
        BY <2>1 DEF BrowserInv, TypeOK
      <3> QED BY <3>1 DEF RequestOK, KeptOrEnded, Ended
    <2>2. CASE u # t
      <3>1. req'[u] = req[u] /\ req[u] \in Request /\ RequestOK(req[u])
        BY <2>2 DEF BrowserInv, TypeOK
      <3>2. \A q1 \in Request : RequestOK(q1) => RequestOK(q1)'
        BY RequestOnward
      <3> QED BY <3>1, <3>2 DEF RequestOK, KeptOrEnded, Ended
    <2> QED BY <2>1, <2>2
  <1>3. Alone'
    <2>1. SUFFICES ASSUME ~overlapped PROVE Alone'
      BY DEF Alone
    <2>2. \A u \in Tabs : u # t => ~Busy(u) /\ req'[u] = req[u]
      BY <2>1 DEF BrowserInv, TypeOK, Alone
    <2>3. req'[t] = q /\ req[t].sent = cookie
      BY <2>1 DEF BrowserInv, TypeOK, Alone
    <2> QED BY <2>1, <2>2, <2>3 DEF Alone, Busy, Covers
  <1> QED BY <1>1, <1>2, <1>3 DEF BrowserInv

\* The store and the history are well typed after a step.
TypesOnward ==
    /\ live' \subseteq drawn' /\ over' \subseteq drawn' /\ drawn' \subseteq Ids
    /\ next' \in [Ids -> Ids \cup {None}]
    /\ signedOut' \subseteq drawn' /\ leaked' \subseteq drawn'

\* A request under way, before it is answered.
LEMMA BusyFacts ==
    ASSUME BrowserInv, NEW t \in Tabs, Busy(t)
    PROVE  /\ req[t] \in Request /\ RequestOK(req[t])
           /\ req[t].sent \in drawn \cup {None} /\ req[t].new \in drawn \cup {None}
           /\ ~overlapped => req[t].sent = cookie /\ Covers(req[t])
  BY DEF BrowserInv, TypeOK, RequestOK, KeptOrEnded, Alone

\* An answer, with what it may tell the browser to do.
LEMMA AnswerStep ==
    ASSUME BrowserInv, Onward, TypesOnward, NEW t \in Tabs, Busy(t),
           NEW out \in Outs, NEW set \in {"keep", "issue", "discard"},
           Answer(t, out, set), UNCHANGED <<cookie, overlapped>>,
           NEW sent, sent = req[t].sent, NEW new, new = req[t].new,
           set = "issue" => new \in Ids, set # "issue" => new = None,
           set = "discard" => sent \in Ids /\ Ended(sent)',
           req[t].kind = "signout" /\ out \in {"ended", "anonymous"} =>
               set = "discard" \/ (sent = None /\ set = "keep"),
           ~overlapped =>
               /\ live' \ over' \subseteq leaked' \cup {new}
                                            \cup (IF set = "keep" THEN {cookie} ELSE {})
               /\ set = "discard" => sent \notin live' \ over'
    PROVE  BrowserInv'
  <1> DEFINE q == [req[t] EXCEPT !.pc = "answered", !.out = out, !.set = set]
  <1>1. req' = [req EXCEPT ![t] = q]
    BY DEF Answer
  <1>2. req[t] \in Request /\ RequestOK(req[t])
    BY BusyFacts
  <1>3. q \in Request
    BY <1>2 DEF Request
  <1>4. /\ q.pc = "answered" /\ q.out = out /\ q.set = set /\ q.sent = sent
        /\ q.new = new /\ q.kind = req[t].kind
    BY <1>2 DEF Request
  <1>5. sent \in Ids \cup {None} /\ new \in Ids \cup {None}
    BY <1>2 DEF Request
  <1>6. KeptOrEnded(sent)' /\ KeptOrEnded(new)'
    BY <1>2, <1>5, KeptOnward DEF RequestOK
  <1> HIDE DEF q
  <1>7. \A p \in Request :
            /\ p.pc = "answered" /\ p.out = out /\ p.set = set /\ p.sent = sent
            /\ p.new = new /\ p.kind = req[t].kind
            => RequestOK(p)' /\ (~overlapped => Covers(p)')
    BY <1>6, NoneIsNoId DEF RequestOK, Covers
  <1>8. TypeOK'
    BY <1>1, <1>3 DEF BrowserInv, TypeOK, TypesOnward
  <1>9. PICK p \in Request : p = q
    BY <1>3
  <1> QED BY <1>1, <1>4, <1>7, <1>8, <1>9, ServerStep

\* A request that goes on to the next step of its handling.
LEMMA ContinueStep ==
    ASSUME BrowserInv, Onward, TypesOnward, NEW t \in Tabs, Busy(t),
           NEW pc \in {"held", "create", "end"}, Continue(t, pc),
           UNCHANGED <<cookie, overlapped>>, NEW sent, sent = req[t].sent,
           req[t].new = None, req[t].set = "keep", pc # "create" => sent \in Ids,
           ~overlapped => live' \ over' \subseteq leaked' \cup {None, cookie}
    PROVE  BrowserInv'
  <1> DEFINE q == [req[t] EXCEPT !.pc = pc]
  <1>1. req' = [req EXCEPT ![t] = q]
    BY DEF Continue
  <1>2. req[t] \in Request /\ RequestOK(req[t])
    BY BusyFacts
  <1>3. q \in Request
    BY <1>2 DEF Request
  <1>4. q.pc = pc /\ q.set = "keep" /\ q.sent = sent /\ q.new = None
    BY <1>2 DEF Request
  <1>5. sent \in Ids \cup {None}
    BY <1>2 DEF Request
  <1>6. KeptOrEnded(sent)' /\ KeptOrEnded(None)'
    BY <1>2, <1>5, KeptOnward DEF RequestOK, KeptOrEnded
  <1> HIDE DEF q
  <1>7. \A p \in Request :
            p.pc = pc /\ p.set = "keep" /\ p.sent = sent /\ p.new = None
            => RequestOK(p)' /\ (~overlapped => Covers(p)')
    BY <1>6, NoneIsNoId DEF RequestOK, Covers
  <1>8. TypeOK'
    BY <1>1, <1>3 DEF BrowserInv, TypeOK, TypesOnward
  <1>9. PICK p \in Request : p = q
    BY <1>3
  <1> QED BY <1>1, <1>4, <1>7, <1>8, <1>9, ServerStep

\* Steps that leave the store and the history alone.
LEMMA SameStore ==
    ASSUME BrowserInv, UNCHANGED <<storeVars, historyVars>>
    PROVE  Onward /\ TypesOnward
  BY DEF BrowserInv, TypeOK, storeVars, historyVars, Onward, TypesOnward, Ended

-----------------------------------------------------------------------------
(* Authentication *)

\* Before it is answered, a request covers the cookie's session and no new one.
LEMMA EarlyFacts ==
    ASSUME BrowserInv, NEW t \in Tabs,
           req[t].pc \in {"verify", "held", "create", "end"}
    PROVE  /\ Busy(t) /\ req[t] \in Request /\ RequestOK(req[t])
           /\ req[t].new = None /\ req[t].set = "keep"
           /\ ~overlapped => /\ req[t].sent = cookie
                             /\ live \ over \subseteq leaked \cup {None, cookie}
           /\ None \notin live /\ None \notin drawn
  <1>1. Busy(t)
    BY DEF Busy
  <1>2. req[t] \in Request /\ RequestOK(req[t]) /\ (~overlapped => req[t].sent = cookie /\ Covers(req[t]))
    BY <1>1, BusyFacts
  <1>3. req[t].new = None /\ req[t].set = "keep"
    BY <1>2 DEF RequestOK
  <1> QED BY <1>1, <1>2, <1>3, NoneIsNoId DEF Covers, BrowserInv, TypeOK

\* The token of a sign-in is refused, or the request goes on.
LEMMA VerifyJWTInv == ASSUME BrowserInv, NEW t \in Tabs, verifyJWT(t) PROVE BrowserInv'
  <1>1. /\ req[t].pc = "verify" /\ req[t].kind = "signin"
        /\ UNCHANGED <<cookie, storeVars, historyVars, overlapped>>
    BY DEF verifyJWT, At
  <1>2. Onward /\ TypesOnward /\ UNCHANGED <<live, over, leaked>>
    BY <1>1, SameStore DEF storeVars, historyVars
  <1>3. CASE Answer(t, "refused", "keep")
    BY <1>1, <1>2, <1>3, EarlyFacts, AnswerStep DEF Outs
  <1>4. CASE Continue(t, "create")
    BY <1>1, <1>2, <1>4, EarlyFacts, ContinueStep
  <1> QED BY <1>3, <1>4 DEF verifyJWT

\* Without a cookie there is nothing to drop.
LEMMA NoCookieInv == ASSUME BrowserInv, NEW t \in Tabs, NoCookie(t) PROVE BrowserInv'
  <1>1. /\ req[t].pc = "verify" /\ req[t].sent = None /\ Answer(t, "anonymous", "keep")
        /\ UNCHANGED <<cookie, storeVars, historyVars, overlapped>>
    BY DEF NoCookie, At
  <1>2. Onward /\ TypesOnward /\ UNCHANGED <<live, over, leaked>>
    BY <1>1, SameStore DEF storeVars, historyVars
  <1> QED BY <1>1, <1>2, EarlyFacts, AnswerStep DEF Outs

\* The instruction on the answer: to drop the cookie, unless a page's handler
\* answered with nothing.
LEMMA DiscardedCookies ==
    ASSUME NEW t \in Tabs, NEW nil \in BOOLEAN
    PROVE  /\ withDiscardedCookies(t, nil) \in {"keep", "discard"}
           /\ req[t].kind = "signout" => withDiscardedCookies(t, nil) = "discard"
  BY DEF withDiscardedCookies

\* A session that is not recorded has ended, whoever ended it.
LEMMA SessionMissingInv ==
    ASSUME BrowserInv, NEW t \in Tabs, NEW nil \in BOOLEAN, SessionMissing(t, nil)
    PROVE  BrowserInv'
  <1>1. PICK set \in {"keep", "discard"} : set = withDiscardedCookies(t, nil)
    BY DiscardedCookies
  <1>2. /\ req[t].pc = "verify" /\ req[t].sent \in Ids \ live
        /\ Answer(t, "anonymous", set)
        /\ UNCHANGED <<cookie, storeVars, historyVars, overlapped>>
    BY <1>1 DEF SessionMissing, At
  <1>3. Onward /\ TypesOnward /\ UNCHANGED <<live, over, leaked, signedOut, next>>
    BY <1>2, SameStore DEF storeVars, historyVars
  <1>4. PICK sent \in Ids : sent = req[t].sent
    BY <1>2
  <1>5. Ended(sent)'
    BY <1>2, <1>3, <1>4, EarlyFacts, NoneIsNoId DEF RequestOK, KeptOrEnded, Ended
  <1>6. ~overlapped => /\ live' \ over' \subseteq leaked' \cup {None}
                       /\ sent \notin live' \ over'
    BY <1>2, <1>3, <1>4, EarlyFacts
  <1>7. req[t].kind = "signout" => set = "discard"
    BY <1>1, DiscardedCookies
  <1> QED BY <1>2, <1>3, <1>4, <1>5, <1>6, <1>7, EarlyFacts, AnswerStep DEF Outs

\* A record is found.
LEMMA SessionReadInv == ASSUME BrowserInv, NEW t \in Tabs, SessionRead(t) PROVE BrowserInv'
  <1>1. /\ req[t].pc = "verify" /\ req[t].sent \in live /\ Continue(t, "held")
        /\ UNCHANGED <<cookie, storeVars, historyVars, overlapped>>
    BY DEF SessionRead, At
  <1>2. Onward /\ TypesOnward /\ UNCHANGED <<live, over, leaked>>
    BY <1>1, SameStore DEF storeVars, historyVars
  <1>3. req[t].sent \in Ids
    BY <1>1 DEF BrowserInv, TypeOK
  <1> QED BY <1>1, <1>2, <1>3, EarlyFacts, ContinueStep

\* A session past its deadline, or refused by a marker, has ended.
LEMMA SessionRefusedInv ==
    ASSUME BrowserInv, NEW t \in Tabs, NEW nil \in BOOLEAN, NEW o \in Outcomes,
           SessionRefused(t, nil, o)
    PROVE  BrowserInv'
  <1>1. PICK set \in {"keep", "discard"} : set = withDiscardedCookies(t, nil)
    BY DiscardedCookies
  <1>2. /\ req[t].pc = "held" /\ req[t].sent \in over /\ live' = Without(req[t].sent, o)
        /\ Answer(t, "anonymous", set)
        /\ UNCHANGED <<cookie, over, drawn, next, signedOut, leaked, overlapped>>
    BY <1>1 DEF SessionRefused, At, historyVars
  <1>3. PICK sent \in Ids : sent = req[t].sent
    BY <1>2 DEF BrowserInv, TypeOK
  <1>4. live \ {sent} \subseteq live' /\ live' \subseteq live
    BY <1>2, <1>3 DEF Without
  <1>5. Onward /\ TypesOnward /\ Ended(sent)'
    BY <1>2, <1>3, <1>4 DEF BrowserInv, TypeOK, Onward, TypesOnward, Ended
  <1>6. ~overlapped => /\ live' \ over' \subseteq leaked' \cup {None}
                       /\ sent \notin live' \ over'
    BY <1>2, <1>3, <1>4, EarlyFacts
  <1>7. req[t].kind = "signout" => set = "discard"
    BY <1>1, DiscardedCookies
  <1> QED BY <1>2, <1>3, <1>5, <1>6, <1>7, EarlyFacts, AnswerStep DEF Outs

\* An outage concludes nothing.
LEMMA SessionUnknownInv ==
    ASSUME BrowserInv, NEW t \in Tabs, SessionUnknown(t) PROVE BrowserInv'
  <1>1. /\ req[t].pc \in {"verify", "held"} /\ Answer(t, "unavailable", "keep")
        /\ UNCHANGED <<cookie, storeVars, historyVars, overlapped>>
    BY DEF SessionUnknown, At
  <1>2. Onward /\ TypesOnward /\ UNCHANGED <<live, over, leaked>>
    BY <1>1, SameStore DEF storeVars, historyVars
  <1> QED BY <1>1, <1>2, EarlyFacts, AnswerStep DEF Outs

\* touch writes back the session of the request, if anything.
LEMMA SessionServedInv ==
    ASSUME BrowserInv, NEW t \in Tabs, NEW touch \in BOOLEAN, NEW o \in Outcomes,
           SessionServed(t, touch, o)
    PROVE  BrowserInv'
  <1>1. /\ req[t].pc = "held" /\ live' = IF touch THEN With(req[t].sent, o) ELSE live
        /\ UNCHANGED <<cookie, over, drawn, next, signedOut, leaked, overlapped>>
    BY DEF SessionServed, At, historyVars
  <1>2. /\ req[t].sent \in drawn /\ req[t].sent \in Ids
    BY <1>1, EarlyFacts, NoneIsNoId DEF RequestOK, KeptOrEnded
  <1>3. live \subseteq live' /\ live' \subseteq live \cup {req[t].sent}
    BY <1>1 DEF With
  <1>4. Onward /\ TypesOnward
    BY <1>1, <1>2, <1>3 DEF BrowserInv, TypeOK, Onward, TypesOnward, Ended
  <1>5. ~overlapped => live' \ over' \subseteq leaked' \cup {None, cookie}
    BY <1>1, <1>3, EarlyFacts
  <1>6. CASE Answer(t, "unavailable", "keep")
    BY <1>1, <1>4, <1>5, <1>6, EarlyFacts, AnswerStep DEF Outs
  <1>7. CASE Answer(t, "served", "keep")
    BY <1>1, <1>4, <1>5, <1>7, EarlyFacts, AnswerStep DEF Outs
  <1>8. CASE Continue(t, "end")
    BY <1>1, <1>2, <1>4, <1>5, <1>8, EarlyFacts, ContinueStep
  <1> QED BY <1>6, <1>7, <1>8 DEF SessionServed

-----------------------------------------------------------------------------
(* POST and DELETE *)

\* A new session is recorded and held by its request, or reported.
LEMMA CreateSessionInv ==
    ASSUME BrowserInv, NEW t \in Tabs, NEW o \in Outcomes, CreateSession(t, o)
    PROVE  BrowserInv'
  <1>1. PICK id \in Ids \ drawn :
            /\ drawn' = drawn \cup {id} /\ live' = With(id, o)
            /\ \/ /\ o = "ok" /\ UNCHANGED leaked
                  /\ req' = [req EXCEPT ![t].pc = "replace", ![t].new = id]
               \/ /\ o # "ok" /\ leaked' = leaked \cup {id}
                  /\ Answer(t, "unavailable", "keep")
    BY DEF CreateSession
  <1>2. req[t].pc = "create" /\ UNCHANGED <<cookie, over, next, signedOut, overlapped>>
    BY DEF CreateSession, At
  <1>3. live \subseteq live' /\ live' \subseteq live \cup {id} /\ (o = "ok" => id \in live')
    BY <1>1 DEF With
  <1>4. Onward /\ TypesOnward
    BY <1>1, <1>2, <1>3 DEF BrowserInv, TypeOK, Onward, TypesOnward, Ended
  <1>5. CASE o # "ok"
    <2>1. ~overlapped => live' \ over' \subseteq leaked' \cup {None, cookie}
      BY <1>1, <1>2, <1>3, <1>5, EarlyFacts
    <2> QED BY <1>1, <1>2, <1>4, <1>5, <2>1, EarlyFacts, AnswerStep DEF Outs
  <1>6. CASE o = "ok"
    <2> DEFINE q == [req[t] EXCEPT !.pc = "replace", !.new = id]
    <2>1. req' = [req EXCEPT ![t] = q] /\ UNCHANGED leaked
      BY <1>1, <1>6
    <2>2. req[t] \in Request /\ RequestOK(req[t]) /\ req[t].set = "keep" /\ Busy(t)
      BY <1>2, EarlyFacts
    <2>3. PICK sent \in Ids \cup {None} : sent = req[t].sent
      BY <2>2 DEF Request
    <2>4. q \in Request
      BY <2>2 DEF Request
    <2>5. q.pc = "replace" /\ q.set = "keep" /\ q.sent = sent /\ q.new = id
      BY <2>2, <2>3 DEF Request
    <2>6. KeptOrEnded(sent)' /\ KeptOrEnded(id)'
      BY <1>1, <1>3, <1>4, <1>6, <2>2, <2>3, KeptOnward DEF RequestOK, KeptOrEnded
    <2>7. ~overlapped => live' \ over' \subseteq leaked' \cup {id, cookie}
      BY <1>2, <1>3, <2>1, EarlyFacts
    <2> HIDE DEF q
    <2>8. \A p \in Request :
            p.pc = "replace" /\ p.set = "keep" /\ p.sent = sent /\ p.new = id
            => RequestOK(p)' /\ (~overlapped => Covers(p)')
      BY <1>2, <2>6, <2>7 DEF RequestOK, Covers
    <2>9. TypeOK'
      BY <1>2, <1>4, <2>1, <2>4 DEF BrowserInv, TypeOK, TypesOnward
    <2>10. PICK p \in Request : p = q
      BY <2>4
    <2> QED BY <1>2, <1>4, <2>1, <2>2, <2>3, <2>5, <2>8, <2>9, <2>10, ServerStep
  <1> QED BY <1>5, <1>6

\* The old session is ended or reported, and the new one is on record for it.
LEMMA EndReplacedInv ==
    ASSUME BrowserInv, NEW t \in Tabs, NEW o \in Outcomes, endReplacedSession(t, o)
    PROVE  BrowserInv'
  <1>1. /\ req[t].pc = "replace" /\ Answer(t, "created", "issue")
        /\ UNCHANGED <<cookie, over, drawn, overlapped>>
    BY DEF endReplacedSession, At
  <1>2. /\ Busy(t) /\ req[t] \in Request /\ RequestOK(req[t])
        /\ ~overlapped => req[t].sent = cookie /\ Covers(req[t])
    BY <1>1, BusyFacts DEF Busy
  <1>3. req[t].new \in Ids /\ req[t].set = "keep"
    BY <1>1, <1>2 DEF RequestOK
  <1>4. CASE req[t].sent = None
    <2>1. UNCHANGED <<live, next, signedOut, leaked>>
      BY <1>4 DEF endReplacedSession, historyVars
    <2>2. Onward /\ TypesOnward
      BY <1>1, <2>1, SameStore DEF storeVars, historyVars
    <2>3. ~overlapped => live' \ over' \subseteq leaked' \cup {req[t].new}
      BY <1>1, <1>2, <1>3, <1>4, <2>1, NoneIsNoId DEF Covers, BrowserInv, TypeOK
    <2> QED BY <1>1, <1>2, <1>3, <2>2, <2>3, AnswerStep DEF Outs
  <1>5. CASE req[t].sent # None
    <2>1. PICK old \in Ids : old = req[t].sent /\ old \in drawn
      BY <1>2, <1>5 DEF Request, RequestOK, KeptOrEnded
    <2>2. /\ live' = Without(old, o)
          /\ next' = IF old \in live \ live' THEN [next EXCEPT ![old] = req[t].new] ELSE next
          /\ leaked' = IF o = "ok" THEN leaked ELSE leaked \cup {old}
          /\ UNCHANGED signedOut
      BY <1>5, <2>1 DEF endReplacedSession
    <2>3. live \ {old} \subseteq live' /\ live' \subseteq live /\ (o = "ok" => old \notin live')
      BY <2>2 DEF Without
    <2>4. next' \in [Ids -> Ids \cup {None}] /\ (old \in live \ live' => next'[old] # None)
          /\ \A i \in Ids : next[i] # None => next'[i] # None
      BY <1>3, <2>2, NoneIsNoId DEF BrowserInv, TypeOK
    <2>5. Onward /\ TypesOnward
      BY <1>1, <2>1, <2>2, <2>3, <2>4 DEF BrowserInv, TypeOK, Onward, TypesOnward, Ended
    <2>6. ~overlapped => live' \ over' \subseteq leaked' \cup {req[t].new}
      BY <1>1, <1>2, <1>3, <2>1, <2>2, <2>3 DEF Covers
    <2> QED BY <1>1, <1>2, <1>3, <2>5, <2>6, AnswerStep DEF Outs
  <1> QED BY <1>4, <1>5

\* Only a Revoke that was answered drops the cookie.
LEMMA DeleteSessionInv ==
    ASSUME BrowserInv, NEW t \in Tabs, NEW o \in Outcomes, DeleteSession(t, o)
    PROVE  BrowserInv'
  <1>1. /\ req[t].pc = "end" /\ UNCHANGED <<cookie, over, drawn, next, leaked, overlapped>>
        /\ live' = Without(req[t].sent, o) /\ signedOut' = signedOut \cup (live \ live')
    BY DEF DeleteSession, At
  <1>2. PICK sent \in Ids : sent = req[t].sent /\ sent \in drawn
    BY <1>1, EarlyFacts, NoneIsNoId DEF RequestOK, KeptOrEnded
  <1>3. live \ {sent} \subseteq live' /\ live' \subseteq live /\ (o = "ok" => sent \notin live')
    BY <1>1, <1>2 DEF Without
  <1>4. Onward /\ TypesOnward
    BY <1>1, <1>2, <1>3 DEF BrowserInv, TypeOK, Onward, TypesOnward, Ended
  <1>5. o = "ok" => Ended(sent)'
    <2>1. sent \in live \/ Ended(sent)
      BY <1>1, <1>2, EarlyFacts, NoneIsNoId DEF RequestOK, KeptOrEnded
    <2> QED BY <1>1, <1>2, <1>3, <2>1 DEF Ended
  <1>6. CASE o = "ok" /\ Answer(t, "ended", "discard")
    <2>1. ~overlapped => /\ live' \ over' \subseteq leaked' \cup {None}
                         /\ sent \notin live' \ over'
      BY <1>1, <1>2, <1>3, <1>6, EarlyFacts
    <2> QED BY <1>1, <1>2, <1>4, <1>5, <1>6, <2>1, EarlyFacts, AnswerStep DEF Outs
  <1>7. CASE Answer(t, "unavailable", "keep")
    <2>1. ~overlapped => live' \ over' \subseteq leaked' \cup {None, cookie}
      BY <1>1, <1>3, EarlyFacts
    <2> QED BY <1>1, <1>2, <1>4, <1>7, <2>1, EarlyFacts, AnswerStep DEF Outs
  <1> QED BY <1>6, <1>7 DEF DeleteSession

-----------------------------------------------------------------------------
(* The browser, and the store on its own *)

\* A tab without a request is in order, in any state.
LEMMA NoRequestOK ==
    /\ NoRequest \in Request
    /\ NoRequest.pc = "none" /\ NoRequest.sent = None /\ NoRequest.new = None
    /\ NoRequest.set = "keep"
    /\ RequestOK(NoRequest) /\ RequestOK(NoRequest)'
  <1>1. /\ NoRequest.pc = "none" /\ NoRequest.sent = None /\ NoRequest.new = None
        /\ NoRequest.set = "keep"
    BY DEF NoRequest
  <1>2. NoRequest \in Request
    BY DEF NoRequest, Request
  <1>3. RequestOK(NoRequest) /\ RequestOK(NoRequest)'
    BY <1>1 DEF RequestOK, KeptOrEnded
  <1> QED BY <1>1, <1>2, <1>3

\* A request carries the cookie; alone it is while nothing else is under way.
LEMMA SendInv ==
    ASSUME BrowserInv, NEW t \in Tabs, NEW kind \in Kinds, Send(t, kind)
    PROVE  BrowserInv'
  <1> DEFINE q == [NoRequest EXCEPT !.kind = kind, !.sent = cookie, !.pc = "verify"]
  <1>1. /\ req' = [req EXCEPT ![t] = q]
        /\ overlapped' = (overlapped \/ \E other \in Tabs : ~At(other, "none"))
        /\ UNCHANGED <<cookie, storeVars, historyVars>>
    BY DEF Send
  <1>2. UNCHANGED <<live, over, drawn, next, signedOut, leaked>>
    BY <1>1 DEF storeVars, historyVars
  <1>3. cookie \in Ids \cup {None}
    BY DEF BrowserInv, TypeOK
  <1>4. q \in Request
    BY <1>3 DEF NoRequest, Request
  <1>5. q.pc = "verify" /\ q.set = "keep" /\ q.sent = cookie /\ q.new = None
    BY DEF NoRequest
  <1> HIDE DEF q
  <1>6. TypeOK'
    BY <1>1, <1>2, <1>4 DEF BrowserInv, TypeOK
  <1>7. KeptOrEnded(cookie)'
    BY <1>1, <1>2 DEF BrowserInv, KeptOrEnded, Ended
  <1>8. ASSUME NEW u \in Tabs PROVE RequestOK(req[u])'
    <2>1. RequestOK(q)
      BY <1>5 DEF RequestOK, KeptOrEnded, BrowserInv
    <2>2. RequestOK(req'[u])
      BY <1>1, <2>1 DEF BrowserInv, TypeOK
    <2> QED BY <1>2, <2>2 DEF RequestOK, KeptOrEnded, Ended
  <1>9. Alone'
    <2>1. SUFFICES ASSUME ~overlapped' PROVE Alone'
      BY DEF Alone
    <2>2. ~overlapped /\ \A u \in Tabs : ~Busy(u)
      BY <1>1, <2>1 DEF At, Busy
    <2>3. live \ over \subseteq leaked \cup {cookie}
      BY <2>2 DEF BrowserInv, Alone
    <2>4. req'[t] = q /\ \A u \in Tabs : u # t => req'[u] = req[u]
      BY <1>1 DEF BrowserInv, TypeOK
    <2> QED BY <1>1, <1>2, <1>5, <2>2, <2>3, <2>4 DEF Alone, Busy, Covers
  <1> QED BY <1>6, <1>7, <1>8, <1>9 DEF BrowserInv

\* A request that ends leaves the browser with an id that is accounted for.
LEMMA EndOfRequest ==
    ASSUME BrowserInv, NEW t \in Tabs, req[t].pc = "answered",
           req' = [req EXCEPT ![t] = NoRequest],
           UNCHANGED <<live, over, drawn, next, signedOut, overlapped>>,
           cookie' \in {cookie, req[t].new, None},
           leaked \subseteq leaked' /\ leaked' \subseteq drawn,
           ~overlapped => live \ over \subseteq leaked' \cup {None, cookie'}
    PROVE  BrowserInv'
  <1>1. req[t] \in Request /\ RequestOK(req[t])
    BY DEF BrowserInv, TypeOK
  <1>2. TypeOK'
    BY <1>1, NoRequestOK DEF BrowserInv, TypeOK, Request
  <1>3. KeptOrEnded(cookie)'
    BY <1>1 DEF BrowserInv, RequestOK, KeptOrEnded, Ended
  <1>4. ASSUME NEW u \in Tabs PROVE RequestOK(req[u])'
    <2>1. RequestOK(req'[u])
      BY NoRequestOK DEF BrowserInv, TypeOK
    <2> QED BY <2>1 DEF RequestOK, KeptOrEnded, Ended
  <1>5. Alone'
    <2>1. SUFFICES ASSUME ~overlapped PROVE Alone'
      BY DEF Alone
    <2>2. \A u \in Tabs : u # t => ~Busy(u) /\ req'[u] = req[u]
      BY <2>1 DEF BrowserInv, TypeOK, Alone, Busy
    <2>3. req'[t].pc = "none"
      BY NoRequestOK DEF BrowserInv, TypeOK
    <2>4. None \notin live
      BY NoneIsNoId DEF BrowserInv, TypeOK
    <2> QED BY <2>1, <2>2, <2>3, <2>4 DEF Alone, Busy
  <1> QED BY <1>2, <1>3, <1>4, <1>5 DEF BrowserInv

\* An answer that arrives.
LEMMA ReceiveInv == ASSUME BrowserInv, NEW t \in Tabs, Receive(t) PROVE BrowserInv'
  <1>1. /\ req[t].pc = "answered" /\ req' = [req EXCEPT ![t] = NoRequest]
        /\ UNCHANGED <<live, over, drawn, next, signedOut, leaked, overlapped>>
        /\ cookie' = CASE req[t].set = "issue"   -> req[t].new
                       [] req[t].set = "discard" -> None
                       [] OTHER                  -> cookie
    BY DEF Receive, At, storeVars, historyVars
  <1>2. /\ req[t] \in Request /\ RequestOK(req[t])
        /\ ~overlapped => req[t].sent = cookie /\ Covers(req[t])
    BY <1>1, BusyFacts DEF Busy
  <1>3. \/ req[t].set = "issue" /\ cookie' = req[t].new
        \/ req[t].set = "discard" /\ cookie' = None /\ req[t].new = None
        \/ req[t].set = "keep" /\ cookie' = cookie /\ req[t].new = None
    BY <1>1, <1>2 DEF Request, RequestOK
  <1>4. ~overlapped => live \ over \subseteq leaked' \cup {None, cookie'}
    BY <1>1, <1>2, <1>3 DEF Covers
  <1>5. leaked \subseteq leaked' /\ leaked' \subseteq drawn
    BY <1>1 DEF BrowserInv, TypeOK
  <1> QED BY <1>1, <1>3, <1>4, <1>5, EndOfRequest

\* An answer that is lost: the session it carried is reported.
LEMMA LoseInv == ASSUME BrowserInv, NEW t \in Tabs, Lose(t) PROVE BrowserInv'
  <1>1. /\ req[t].pc = "answered" /\ req' = [req EXCEPT ![t] = NoRequest]
        /\ UNCHANGED <<cookie, live, over, drawn, next, signedOut, overlapped>>
        /\ leaked' = leaked \cup ({req[t].new} \ {None})
    BY DEF Lose, At, storeVars
  <1>2. /\ req[t].new \in drawn \cup {None}
        /\ ~overlapped => Covers(req[t])
    BY <1>1, BusyFacts DEF Busy
  <1>3. ~overlapped => live \ over \subseteq leaked' \cup {None, cookie'}
    BY <1>1, <1>2 DEF Covers
  <1>4. leaked \subseteq leaked' /\ leaked' \subseteq drawn
    BY <1>1, <1>2 DEF BrowserInv, TypeOK
  <1> QED BY <1>1, <1>3, <1>4, EndOfRequest

\* A deadline passes or a marker is written: a reason is on record.
LEMMA LapseInv == ASSUME BrowserInv, NEW id \in Ids, Lapse(id) PROVE BrowserInv'
  <1>1. /\ id \in live \ over /\ over' = over \cup {id} /\ live' \in {live, live \ {id}}
        /\ UNCHANGED <<cookie, req, drawn, next, signedOut, leaked, overlapped>>
    BY DEF Lapse, historyVars
  <1>2. Onward /\ TypeOK'
    BY <1>1 DEF BrowserInv, TypeOK, Onward, Ended
  <1>3. KeptOrEnded(cookie)'
    <2>1. \A i \in Ids \cup {None} : KeptOrEnded(i) => KeptOrEnded(i)'
      BY <1>2, KeptOnward
    <2> QED BY <1>1, <2>1 DEF BrowserInv, TypeOK, KeptOrEnded, Ended
  <1>4. ASSUME NEW u \in Tabs PROVE RequestOK(req[u])'
    <2>1. \A q \in Request : RequestOK(q) => RequestOK(q)'
      BY <1>2, RequestOnward
    <2> QED BY <1>1, <2>1 DEF BrowserInv, TypeOK, RequestOK, KeptOrEnded, Ended
  <1>5. live' \ over' \subseteq live \ over
    BY <1>1
  <1>6. Alone'
    BY <1>1, <1>5 DEF BrowserInv, Alone, Busy, Covers
  <1> QED BY <1>2, <1>3, <1>4, <1>6 DEF BrowserInv

\* A browser without a cookie, and a store without a record.
LEMMA InitInv == ASSUME Init PROVE BrowserInv
  <1>1. TypeOK
    BY NoRequestOK DEF Init, TypeOK
  <1>2. \A t \in Tabs : RequestOK(req[t]) /\ ~Busy(t)
    BY NoRequestOK DEF Init, Busy
  <1> QED BY <1>1, <1>2 DEF Init, BrowserInv, KeptOrEnded, Alone

\* The invariant depends on the variables only.
LEMMA StutterInv == ASSUME BrowserInv, UNCHANGED vars PROVE BrowserInv'
  BY DEF vars, storeVars, historyVars, BrowserInv, TypeOK, KeptOrEnded, Ended, RequestOK,
     Alone, Busy, Covers

\* BrowserInv is an invariant of the browser and the server.
LEMMA BrowserInvariant == Spec => []BrowserInv
  <1>1. BrowserInv /\ [Next]_vars => BrowserInv'
    BY SendInv, ReceiveInv, LoseInv, LapseInv, VerifyJWTInv, NoCookieInv,
       SessionMissingInv, SessionReadInv, SessionRefusedInv, SessionUnknownInv,
       SessionServedInv, CreateSessionInv, EndReplacedInv, DeleteSessionInv, StutterInv
       DEF Next, Server
  <1> QED BY <1>1, InitInv, PTL DEF Spec

-----------------------------------------------------------------------------

\* Cookies, requests and the store are well typed, for any number of sessions.
THEOREM TypeCorrect == Spec => []TypeOK
  <1>1. BrowserInv => TypeOK
    BY DEF BrowserInv
  <1> QED BY <1>1, BrowserInvariant, PTL

\* A sign-in ends no session but the one that a recorded session replaces.
THEOREM SignInIsFree == Spec => []SignInCostsNothing
  <1>1. BrowserInv => SignInCostsNothing
    <2>1. SUFFICES ASSUME BrowserInv, NEW i \in {cookie} \cup {req[t].sent : t \in Tabs},
                          i # None
                   PROVE  Works(i) \/ i \in over \cup signedOut \/ next[i] # None
      BY DEF SignInCostsNothing
    <2>2. KeptOrEnded(i)
      BY <2>1 DEF BrowserInv, RequestOK
    <2> QED BY <2>1, <2>2 DEF KeptOrEnded, Ended, Works
  <1> QED BY <1>1, BrowserInvariant, PTL

\* withDiscardedCookies and NewDeleteSession tell the browser to drop its cookie
\* only for a session that ran out or whose record was removed; neither an outage
\* nor a Revoke that was not carried out ever makes them.
THEOREM DeservedDiscard == Spec => []DiscardIsDeserved
  <1>1. BrowserInv => DiscardIsDeserved
    BY DEF BrowserInv, RequestOK, Ended, DiscardIsDeserved
  <1> QED BY <1>1, BrowserInvariant, PTL

\* As long as its requests do not overlap, a browser that is idle has the cookie
\* of every session that works, but for those whose handling visibly failed.
THEOREM NoOrphans == Spec => []NoUnreportedOrphans
  <1>1. BrowserInv => NoUnreportedOrphans
    BY DEF BrowserInv, Alone, Busy, At, NoUnreportedOrphans
  <1> QED BY <1>1, BrowserInvariant, PTL

\* A sign-out that was not answered "try again" leaves no cookie and no session
\* that works.
THEOREM RealSignOut == Spec => SignOutIsReal
  <1>1. ASSUME BrowserInv, NEW t \in Tabs, ~overlapped, Receive(t),
               req[t].kind = "signout", req[t].out \in {"ended", "anonymous"}
        PROVE  cookie' = None /\ (req[t].sent # None => ~Works(req[t].sent))
    <2>1. /\ req[t].pc = "answered" /\ RequestOK(req[t])
          /\ req[t].sent = cookie /\ Covers(req[t])
      BY <1>1, BusyFacts DEF Receive, At, Busy
    <2>2. \/ req[t].set = "discard" /\ cookie' = None
          \/ req[t].sent = None /\ cookie' = cookie
      BY <1>1, <2>1 DEF Receive, RequestOK
    <2> QED BY <2>1, <2>2 DEF Covers, RequestOK, Works
  <1> DEFINE A == \A t \in Tabs :
        /\ ~overlapped /\ Receive(t)
        /\ req[t].kind = "signout" /\ req[t].out \in {"ended", "anonymous"}
        => cookie' = None /\ (req[t].sent # None => ~Works(req[t].sent))
  <1>2. BrowserInv /\ [Next]_vars => [A]_vars
    BY <1>1
  <1> QED BY <1>2, BrowserInvariant, PTL DEF Spec, SignOutIsReal

\* The browser forgets its cookie only on an answer about a session that had
\* ended, whatever overlapped, failed or was lost before; and while no requests
\* have overlapped, that session is the one of the cookie it forgets.
DropsOnAnEndedSession ==
    [][cookie # None /\ cookie' = None =>
        \E t \in Tabs : /\ Receive(t) /\ req[t].set = "discard" /\ Ended(req[t].sent)
                        /\ ~overlapped => req[t].sent = cookie]_vars

\* withDiscardedCookies and the discard of NewDeleteSession are the only way a
\* cookie is forgotten, and they are about the session the request was sent with.
THEOREM ForgetsEndedOnly == Spec => DropsOnAnEndedSession
  <1> DEFINE Deserved(t) == /\ Receive(t) /\ req[t].set = "discard" /\ Ended(req[t].sent)
                            /\ ~overlapped => req[t].sent = cookie
             A == cookie # None /\ cookie' = None => \E t \in Tabs : Deserved(t)
  <1>1. ASSUME BrowserInv, Next, cookie # None, cookie' = None
        PROVE  \E t \in Tabs : Deserved(t)
    <2>1. PICK t \in Tabs : Receive(t)
      BY <1>1 DEF Next, Server, Send, Lose, Lapse, verifyJWT, NoCookie, SessionMissing,
         SessionRead, SessionRefused, SessionUnknown, SessionServed, CreateSession,
         endReplacedSession, DeleteSession
    <2>2. /\ RequestOK(req[t]) /\ req[t] \in Request
          /\ ~overlapped => req[t].sent = cookie
      BY <1>1, <2>1, BusyFacts DEF Receive, At, Busy
    <2>3. req[t].set = "discard"
      BY <1>1, <2>1, <2>2, NoneIsNoId DEF Receive, RequestOK, Request
    <2> QED BY <2>1, <2>2, <2>3 DEF RequestOK
  <1>2. BrowserInv /\ [Next]_vars => [A]_vars
    BY <1>1 DEF vars
  <1> QED BY <1>2, BrowserInvariant, PTL DEF Spec, DropsOnAnEndedSession
=============================================================================
