--------------------------- MODULE SessionLedger ---------------------------
(***************************************************************************)
(* What the Store interface of internal/plamo/sessionkit/session.go        *)
(* promises whoever calls it: a ledger of sessions in which every call is  *)
(* one step.  There are no records, markers, copies or round trips here,   *)
(* and no cache that fails; of the clock, only that it passes.             *)
(***************************************************************************)
EXTENDS Integers

CONSTANTS
    Ids, Subjects,
    Lifetimes,      \* how long a session may last at the most
    IdleTTL,        \* and how long unused
    Early,          \* how much before that it may be missed
    None            \* no session, no answer

VARIABLES
    clock,
    session,    \* session[i]: owner, creation and expiry of the session i stands for
    used,       \* used[i]: the latest instant a Lookup served i at
    ending,     \* ids somebody called Revoke for
    ended,      \* ids some Revoke returned for
    revoked,    \* revoked[s]: the latest RevokeSubject for s
    answer      \* the answer of the Lookup that returned in this step

vars == <<clock, session, used, ending, ended, revoked, answer>>

Later(a, b) == IF a <= b THEN b ELSE a

\* Nothing the callers can tell, but that the last answer has been given.
Silent ==
    /\ answer' = None
    /\ UNCHANGED <<clock, session, used, ending, ended, revoked>>

Pass ==
    /\ clock' = clock + 1
    /\ answer' = None
    /\ UNCHANGED <<session, used, ending, ended, revoked>>

\* Create: an id that never stood for a session, and never will for another.
Create(id, owner, lifetime) ==
    /\ session[id] = None
    /\ session' = [session EXCEPT ![id] =
                      [owner |-> owner, created |-> clock, expires |-> clock + lifetime]]
    /\ answer' = None
    /\ UNCHANGED <<clock, used, ending, ended, revoked>>

\* Lookup of a session that is in force, and moves its idle deadline.
Serve(id, now) ==
    /\ session[id] # None
    /\ id \notin ended
    /\ now < session[id].expires
    /\ answer' = [out |-> "served", id |-> id]
    /\ used' = [used EXCEPT ![id] = Later(@, now)]
    /\ UNCHANGED <<clock, session, ending, ended, revoked>>

\* Lookup answers ErrSessionNotFound: the session was ended, or ran out.
Miss(id) ==
    /\ session[id] # None
    /\ \/ id \in ending
       \/ revoked[session[id].owner] >= session[id].created
       \/ clock >= session[id].expires
       \/ clock >= Later(session[id].created, used[id]) + IdleTTL - Early
    /\ answer' = [out |-> "gone", id |-> id]
    /\ UNCHANGED <<clock, session, used, ending, ended, revoked>>

\* Lookup could not ask.
Fail(id) ==
    /\ session[id] # None
    /\ answer' = [out |-> "error", id |-> id]
    /\ UNCHANGED <<clock, session, used, ending, ended, revoked>>

\* Revoke, with an error or without.
Revoke(id, ok) ==
    /\ session[id] # None
    /\ ending' = ending \cup {id}
    /\ ended' = IF ok THEN ended \cup {id} ELSE ended
    /\ answer' = None
    /\ UNCHANGED <<clock, session, used, revoked>>

RevokeSubject(s) ==
    /\ revoked' = [revoked EXCEPT ![s] = clock]
    /\ answer' = None
    /\ UNCHANGED <<clock, session, used, ending, ended>>

Init ==
    /\ clock = 0
    /\ session = [i \in Ids |-> None]
    /\ used = [i \in Ids |-> -1]
    /\ ending = {}
    /\ ended = {}
    /\ revoked = [s \in Subjects |-> -1]
    /\ answer = None

Next ==
    \/ Silent
    \/ Pass
    \/ \E id \in Ids, s \in Subjects, l \in Lifetimes : Create(id, s, l)
    \/ \E id \in Ids, now \in 0..clock : Serve(id, now)
    \/ \E id \in Ids : Miss(id) \/ Fail(id)
    \/ \E id \in Ids, ok \in BOOLEAN : Revoke(id, ok)
    \/ \E s \in Subjects : RevokeSubject(s)

Spec == Init /\ [][Next]_vars

=============================================================================
