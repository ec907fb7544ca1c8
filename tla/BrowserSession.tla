--------------------------- MODULE BrowserSession ---------------------------
(***************************************************************************)
(* One browser and the server it signs in to: the session endpoints of     *)
(* internal/app/auth (POST and DELETE of the session), the authentication  *)
(* middleware that resolves the cookie and hands the instruction to drop a *)
(* dead one back, and the browser's cookie itself.                         *)
(*                                                                         *)
(* The browser has several tabs, each with at most one request under way.  *)
(* A request carries the cookie as it was when it was sent; its answer     *)
(* changes the cookie when it arrives, and may arrive late or never.       *)
(*                                                                         *)
(* The session store is reduced to the records it holds.  As in module     *)
(* SessionStore a Lookup is more than one round trip, so it may write back *)
(* a record that was deleted meanwhile; deadlines and revocation markers   *)
(* are the single set over.                                                *)
(***************************************************************************)
EXTENDS Integers, FiniteSets

CONSTANTS
    Ids,        \* session ids, each drawn at most once
    Tabs,       \* requests the browser can have under way
    None        \* no cookie, no session

ASSUME NoneIsNoId == None \notin Ids

VARIABLES
    cookie,     \* the browser's session cookie
    req,        \* req[t]: the request of tab t, on the server or on its way back
    live,       \* ids with a record in the session store
    over,       \* ids past a deadline, or refused by their subject's marker
    drawn,      \* ids Create has drawn
    next,       \* history: next[i], the recorded session i was removed for
    signedOut,  \* history: ids whose record a sign-out removed
    leaked,     \* history: ids whose handling failed visibly: the store did not
                \* answer for them, or the answer that carried them was lost
    overlapped  \* history: the browser has had two requests under way at once

storeVars   == <<live, over, drawn>>
historyVars == <<next, signedOut, leaked>>
vars        == <<cookie, req, storeVars, historyVars, overlapped>>

-----------------------------------------------------------------------------
(* Values *)

Kinds == {"page", "signin", "signout"}

\* How a request was answered: its handler ran for the caller ("served"), as
\* nobody or not at all ("anonymous", 401 where a caller is needed), 503
\* ("unavailable"), 401 for a bad token ("refused"), 201 ("created"), 204
\* ("ended").
Outs == {"served", "anonymous", "unavailable", "refused", "created", "ended"}

Request == [kind : Kinds \cup {None}, sent : Ids \cup {None},
            pc : {"none", "verify", "held", "create", "replace", "end", "answered"},
            new : Ids \cup {None}, out : Outs \cup {None},
            set : {"keep", "issue", "discard"}]

NoRequest == [kind |-> None, sent |-> None, pc |-> "none", new |-> None,
              out |-> None, set |-> "keep"]

\* A store call: done; not done and an error; done, but the answer was lost.
Outcomes == {"ok", "failed", "lost"}

\* What a call that deletes an id, or writes it, leaves in the store.
Without(id, outcome) == IF outcome = "failed" THEN live ELSE live \ {id}
With(id, outcome)    == IF outcome = "failed" THEN live ELSE live \cup {id}

At(t, pc) == req[t].pc = pc

Answer(t, out, set) ==
    req' = [req EXCEPT ![t].pc = "answered", ![t].out = out, ![t].set = set]

Continue(t, pc) == req' = [req EXCEPT ![t].pc = pc]

-----------------------------------------------------------------------------
(* The browser *)

\* Bound: a sign-in is sent only while there is an id left for it.
IdLeft == Cardinality({t \in Tabs : req[t].kind = "signin" /\ req[t].new = None
                                       /\ ~At(t, "answered")})
            < Cardinality(Ids \ drawn)

Send(t, kind) ==
    /\ At(t, "none")
    /\ kind = "signin" => IdLeft
    /\ req' = [req EXCEPT ![t] = [NoRequest EXCEPT !.kind = kind, !.sent = cookie,
                                                   !.pc = "verify"]]
    /\ overlapped' = (overlapped \/ \E other \in Tabs : ~At(other, "none"))
    /\ UNCHANGED <<cookie, storeVars, historyVars>>

\* The answer arrives, and its Set-Cookie, if it has one, takes effect.
Receive(t) ==
    /\ At(t, "answered")
    /\ cookie' = CASE req[t].set = "issue"   -> req[t].new
                   [] req[t].set = "discard" -> None
                   [] OTHER                  -> cookie
    /\ req' = [req EXCEPT ![t] = NoRequest]
    /\ UNCHANGED <<storeVars, historyVars, overlapped>>

\* The answer never arrives: the tab was closed, the connection dropped.
Lose(t) ==
    /\ At(t, "answered")
    /\ leaked' = leaked \cup ({req[t].new} \ {None})
    /\ req' = [req EXCEPT ![t] = NoRequest]
    /\ UNCHANGED <<cookie, storeVars, next, signedOut, overlapped>>

-----------------------------------------------------------------------------
(* Authentication: middleware.Auth over verifier.Verify *)

\* A sign-in brings a bearer token, which is read before any cookie.  One that
\* cannot be trusted ends the request.
verifyJWT(t) ==
    /\ At(t, "verify")
    /\ req[t].kind = "signin"
    /\ Answer(t, "refused", "keep") \/ Continue(t, "create")
    /\ UNCHANGED <<cookie, storeVars, historyVars, overlapped>>

\* The other requests have the cookie only.  Without one they are anonymous.
NoCookie(t) ==
    /\ At(t, "verify")
    /\ req[t].kind # "signin"
    /\ req[t].sent = None
    /\ Answer(t, "anonymous", "keep")
    /\ UNCHANGED <<cookie, storeVars, historyVars, overlapped>>

\* Mutant: the instruction to drop the cookie never reaches the answer.
withDiscardedCookiesNot(t, nil) == "keep"

\* The instruction to drop the cookie rides on the answer; a handler of the
\* application may answer with none, and then there is nowhere to put it.
withDiscardedCookies(t, nil) ==
    IF nil /\ req[t].kind = "page" THEN "keep" ELSE "discard"

\* Lookup finds no record: the request goes on as nobody.
SessionMissing(t, nil) ==
    /\ At(t, "verify")
    /\ req[t].kind # "signin"
    /\ req[t].sent \in Ids \ live
    /\ Answer(t, "anonymous", withDiscardedCookies(t, nil))
    /\ UNCHANGED <<cookie, storeVars, historyVars, overlapped>>

\* Lookup finds a record, and holds a copy of it from here on.
SessionRead(t) ==
    /\ At(t, "verify")
    /\ req[t].kind # "signin"
    /\ req[t].sent \in live
    /\ Continue(t, "held")
    /\ UNCHANGED <<cookie, storeVars, historyVars, overlapped>>

\* The record is past a deadline or refused by a marker; forget is best effort.
SessionRefused(t, nil, outcome) ==
    /\ At(t, "held")
    /\ req[t].sent \in over
    /\ live' = Without(req[t].sent, outcome)
    /\ Answer(t, "anonymous", withDiscardedCookies(t, nil))
    /\ UNCHANGED <<cookie, over, drawn, historyVars, overlapped>>

\* Mutant: an outage is answered like a missing session.
SessionUnknownDiscards(t) ==
    /\ At(t, "verify") \/ At(t, "held")
    /\ req[t].kind # "signin"
    /\ req[t].sent # None
    /\ Answer(t, "unavailable", "discard")
    /\ UNCHANGED <<cookie, storeVars, historyVars, overlapped>>

\* Some round trip of Lookup was not answered: 503, and nothing concluded.
SessionUnknown(t) ==
    /\ At(t, "verify") \/ At(t, "held")
    /\ req[t].kind # "signin"
    /\ req[t].sent # None
    /\ Answer(t, "unavailable", "keep")
    /\ UNCHANGED <<cookie, storeVars, historyVars, overlapped>>

\* The session is good.  touch may write the record back, whether or not it is
\* still there; a write that is not answered fails the Lookup.
SessionServed(t, touch, outcome) ==
    /\ At(t, "held")
    /\ req[t].sent \notin over
    /\ live' = IF touch THEN With(req[t].sent, outcome) ELSE live
    /\ \/ touch /\ outcome # "ok" /\ Answer(t, "unavailable", "keep")
       \/ /\ ~touch \/ outcome = "ok"
          /\ \/ req[t].kind = "page"    /\ Answer(t, "served", "keep")
             \/ req[t].kind = "signout" /\ Continue(t, "end")
    /\ UNCHANGED <<cookie, over, drawn, historyVars, overlapped>>

-----------------------------------------------------------------------------
(* POST: NewCreateSession *)

\* Mutant: the old session is ended before there is a new one.
CreateSessionRevokesFirst(t, outcome) ==
    /\ At(t, "create")
    /\ \E id \in Ids \ drawn :
        /\ drawn' = drawn \cup {id}
        /\ live' = With(id, outcome) \ {req[t].sent}
        /\ \/ /\ outcome = "ok"
              /\ req' = [req EXCEPT ![t].pc = "replace", ![t].new = id]
              /\ UNCHANGED leaked
           \/ /\ outcome # "ok"
              /\ Answer(t, "unavailable", "keep")
              /\ leaked' = leaked \cup {id}
    /\ UNCHANGED <<cookie, over, next, signedOut, overlapped>>

CreateSession(t, outcome) ==
    /\ At(t, "create")
    /\ \E id \in Ids \ drawn :
        /\ drawn' = drawn \cup {id}
        /\ live' = With(id, outcome)
        /\ \/ /\ outcome = "ok"
              /\ req' = [req EXCEPT ![t].pc = "replace", ![t].new = id]
              /\ UNCHANGED leaked
           \/ /\ outcome # "ok"
              /\ Answer(t, "unavailable", "keep")
              /\ leaked' = leaked \cup {id}
    /\ UNCHANGED <<cookie, over, next, signedOut, overlapped>>

\* Mutant: the old session is left behind.
endReplacedSessionNot(t, outcome) ==
    /\ At(t, "replace")
    /\ Answer(t, "created", "issue")
    /\ UNCHANGED <<cookie, storeVars, historyVars, overlapped>>

\* endReplacedSession, then the answer with the new cookie.  What became of the
\* call is logged and no more.
endReplacedSession(t, outcome) ==
    /\ At(t, "replace")
    /\ LET old == req[t].sent IN
        \/ /\ old = None
           /\ UNCHANGED <<live, historyVars>>
        \/ /\ old # None
           /\ live' = Without(old, outcome)
           /\ next' = IF old \in live \ live' THEN [next EXCEPT ![old] = req[t].new] ELSE next
           /\ leaked' = IF outcome = "ok" THEN leaked ELSE leaked \cup {old}
           /\ UNCHANGED signedOut
    /\ Answer(t, "created", "issue")
    /\ UNCHANGED <<cookie, over, drawn, overlapped>>

-----------------------------------------------------------------------------
(* DELETE: NewDeleteSession *)

\* Mutant: the cookie is dropped whatever became of the Revoke.
DeleteSessionAlwaysDiscards(t, outcome) ==
    /\ At(t, "end")
    /\ live' = Without(req[t].sent, outcome)
    /\ signedOut' = signedOut \cup (live \ live')
    /\ Answer(t, IF outcome = "ok" THEN "ended" ELSE "unavailable", "discard")
    /\ UNCHANGED <<cookie, over, drawn, next, leaked, overlapped>>

\* Only a Revoke that was answered ends the request with 204 and the discard.
DeleteSession(t, outcome) ==
    /\ At(t, "end")
    /\ live' = Without(req[t].sent, outcome)
    /\ signedOut' = signedOut \cup (live \ live')
    /\ \/ outcome = "ok" /\ Answer(t, "ended", "discard")
       \/ outcome # "ok" /\ Answer(t, "unavailable", "keep")
    /\ UNCHANGED <<cookie, over, drawn, next, leaked, overlapped>>

-----------------------------------------------------------------------------
(* The store on its own *)

\* A deadline passes, or somebody calls RevokeSubject.  The cache drops the
\* record of an expired session by itself, that of a revoked one stays.
Lapse(id) ==
    /\ id \in live \ over
    /\ over' = over \cup {id}
    /\ live' \in {live, live \ {id}}
    /\ UNCHANGED <<cookie, req, drawn, historyVars, overlapped>>

-----------------------------------------------------------------------------

Init ==
    /\ cookie = None
    /\ req = [t \in Tabs |-> NoRequest]
    /\ live = {}
    /\ over = {}
    /\ drawn = {}
    /\ next = [i \in Ids |-> None]
    /\ signedOut = {}
    /\ leaked = {}
    /\ overlapped = FALSE

Server(t) ==
    \/ verifyJWT(t)
    \/ NoCookie(t)
    \/ \E nil \in BOOLEAN : SessionMissing(t, nil)
    \/ SessionRead(t)
    \/ \E nil \in BOOLEAN, o \in Outcomes : SessionRefused(t, nil, o)
    \/ SessionUnknown(t)
    \/ \E touch \in BOOLEAN, o \in Outcomes : SessionServed(t, touch, o)
    \/ \E o \in Outcomes : CreateSession(t, o)
    \/ \E o \in Outcomes : endReplacedSession(t, o)
    \/ \E o \in Outcomes : DeleteSession(t, o)

Next ==
    \/ \E t \in Tabs :
        \/ \E kind \in Kinds : Send(t, kind)
        \/ Server(t)
        \/ Receive(t)
        \/ Lose(t)
    \/ \E id \in Ids : Lapse(id)

Spec == Init /\ [][Next]_vars

\* A server that finishes what it starts, a browser that goes on asking for
\* pages and reads some of the answers, a store that answers now and then, and
\* handlers that do not answer nil forever.
Fairness ==
    \A t \in Tabs :
        /\ WF_vars(Server(t))
        /\ SF_vars(Send(t, "page"))
        /\ SF_vars(SessionMissing(t, FALSE))
        /\ SF_vars(SessionRead(t))
        /\ SF_vars(\E o \in Outcomes : SessionRefused(t, FALSE, o))
        /\ WF_vars(Receive(t) \/ Lose(t))
        /\ SF_vars(Receive(t) /\ req[t].set = "discard")

FairSpec == Spec /\ Fairness

-----------------------------------------------------------------------------
(* Properties *)

\* Cookies and requests name ids of the store, and nothing is recorded, ended or
\* reported under an id that Create has not drawn.
TypeOK ==
    /\ cookie \in Ids \cup {None}
    /\ req \in [Tabs -> Request]
    /\ live \subseteq drawn
    /\ over \subseteq drawn
    /\ drawn \subseteq Ids
    /\ next \in [Ids -> Ids \cup {None}]
    /\ signedOut \subseteq drawn
    /\ leaked \subseteq drawn
    /\ overlapped \in BOOLEAN

\* A session that still works: recorded, within its deadlines, not refused.
Works(i) == i \in live /\ i \notin over

\* Sign-in never costs a session it does not replace: a session the browser
\* holds, or sent along, stops working because it ran out, because a sign-out
\* removed it, or because one that was recorded took its place; never because a
\* sign-in that was answered 503 had touched it first.
SignInCostsNothing ==
    \A i \in {cookie} \cup {req[t].sent : t \in Tabs} :
        i # None => Works(i) \/ i \in over \cup signedOut \/ next[i] # None

\* No answer tells the browser to drop its cookie on a guess: the session it was
\* sent with had run out, or its record had really been removed, by a sign-out or
\* for a session that replaced it.  An outage of the store, at whichever round
\* trip, is never taken for any of these, nor is a Revoke that was not carried out.
DiscardIsDeserved ==
    \A t \in Tabs : req[t].set = "discard" =>
        LET i == req[t].sent IN i \in over \cup signedOut \/ next[i] # None

\* Nobody but the browser that has the cookie has a handle on a session: when
\* no request is under way, and none ever overlapped another (the code claims
\* nothing about two sign-ins at once), every session that still works is the
\* cookie's own, or one whose handling visibly failed.
NoUnreportedOrphans ==
    ~overlapped /\ (\A t \in Tabs : At(t, "none")) =>
        \A i \in live \ over : i = cookie \/ i \in leaked

\* Both answers to a sign-out that do not say "try again" leave the caller
\* signed out: the cookie is gone and the session it named works no more, in a
\* browser whose requests have not overlapped.
SignOutIsReal ==
    [][\A t \in Tabs :
        /\ ~overlapped /\ Receive(t)
        /\ req[t].kind = "signout" /\ req[t].out \in {"ended", "anonymous"}
        => cookie' = None /\ (req[t].sent # None => ~Works(req[t].sent))]_vars

\* The browser forgets its cookie only when the session in it had run out, or been
\* removed by a sign-out or for one that replaced it.
DropsOnlyEnded ==
    [][cookie # None /\ cookie' = None =>
        cookie \in over \cup signedOut \/ next[cookie] # None]_vars

\* A browser that goes on making requests gets rid of a dead cookie, however
\* many answers are lost, unanswered by the store or nil on the way.
DeadCookieGoes ==
    \A i \in Ids : (cookie = i /\ i \in over) ~> cookie # i

=============================================================================
