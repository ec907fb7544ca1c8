---------------------------- MODULE SessionStore ----------------------------
(***************************************************************************)
(* The browser session store of internal/plamo/sessionkit: cacheStore over *)
(* one shared key-value cache.                                             *)
(*                                                                         *)
(* Every method of the store is a few round trips to the cache with local  *)
(* decisions between them, and any number of requests, on any number of    *)
(* nodes, are inside those methods at once.  One action is one round trip  *)
(* (or one read of the clock); what a request remembers between two of     *)
(* them is op[p].  The cache itself is a library: what it does (an entry   *)
(* lives until its ttl runs out, a write may fail, and a write may be      *)
(* applied while its answer is lost) is modelled from how store.go uses it.*)
(*                                                                         *)
(* Not distinguished: the snapshot's scopes and claims (Lookup hands back  *)
(* what Create stored), and a record that decodes to nothing usable, which *)
(* this code never writes.                                                 *)
(***************************************************************************)
EXTENDS Integers

CONSTANTS
    Ids,                    \* session ids newID may draw, each at most once
    Subjects,               \* who sessions belong to
    Callers,                \* requests that create, resolve and end sessions
    Revokers,               \* requests that call RevokeSubject
    AbsoluteTTL, PersistentAbsoluteTTL, IdleTTL,
    IdleRefreshDivisor,     \* 10 in config.go
    MaxClock,               \* bound on the clock
    None                    \* no session, no entry, no marker, no answer

ASSUME TTLAssumption ==
    /\ AbsoluteTTL \in Nat \ {0}
    /\ PersistentAbsoluteTTL \in Nat \ {0}
    /\ IdleTTL \in Nat \ {0}
    /\ IdleRefreshDivisor \in Nat \ {0}
    /\ MaxClock \in Nat

VARIABLES
    clock,      \* what s.now() reads
    record,     \* the cache's session:<id> entries
    marker,     \* the cache's revoked:<subject> entries
    op,         \* op[p]: the store method request p is inside, and its locals
    met,        \* history: requests whose present call met another at its session
    answer,     \* the answer of the Lookup that returned in this very step
    born,       \* history: the session Create made under an id
    held,       \* history: ids whose Create returned, so that a cookie has them
    ended,      \* history: ids whose Revoke returned without an error
    condemned,  \* history: ids some Revoke was called for
    barrier,    \* history: latest RevokeSubject instant that returned, per subject
    marked,     \* history: latest RevokeSubject instant that began, per subject
    lastUse,    \* history: latest instant a Lookup served the id at
    soleUse     \* history: the same, of the Lookups that met no other request

cacheVars   == <<record, marker>>
historyVars == <<born, held, ended, condemned, barrier, marked, lastUse, soleUse>>
vars        == <<clock, cacheVars, op, met, answer, historyVars>>

-----------------------------------------------------------------------------
(* Values *)

Procs == Callers \cup Revokers
Never == -1

Session == [owner : Subjects, created : Nat, expires : Nat, lastSeen : Nat]

\* A cache entry: a value and the instant the cache drops it.
Entry  == [session : Session, until : Nat]
Marker == [at : Nat, until : Nat]

Steps == {"idle", "create", "check", "marker", "forget", "touch", "mark"}

Op == [pc : Steps, id : Ids \cup {None}, subject : Subjects \cup {None},
       session : Session \cup {None}, now : Nat, floor : Int, late : BOOLEAN]

Answer == [out : {"served", "gone", "error"}, id : Ids,
           session : Session \cup {None}, now : Nat, floor : Int, late : BOOLEAN]

ASSUME NoneAssumption ==
    /\ None \notin Ids /\ None \notin Subjects /\ None \notin Session
    /\ None \notin Entry /\ None \notin Marker /\ None \notin Answer
    /\ None \notin [owner : Subjects, created : Nat, expires : Nat]

Idle == [pc |-> "idle", id |-> None, subject |-> None, session |-> None,
         now |-> 0, floor |-> Never, late |-> FALSE]

Least(a, b)   == IF a <= b THEN a ELSE b
Greatest(a, b) == IF a <= b THEN b ELSE a

-----------------------------------------------------------------------------
(* Config *)

AbsoluteTTLFor(persistent) ==
    IF persistent THEN PersistentAbsoluteTTL ELSE AbsoluteTTL

maxAbsoluteTTL == Greatest(AbsoluteTTL, PersistentAbsoluteTTL)

idleRefreshInterval == IdleTTL \div IdleRefreshDivisor

-----------------------------------------------------------------------------
(* Local decisions of the store *)

NewSession(subject, persistent, now) ==
    [owner |-> subject, created |-> now,
     expires |-> now + AbsoluteTTLFor(persistent), lastSeen |-> now]

idleDeadline(session) == session.lastSeen + IdleTTL

remaining(session, now) ==
    Least(session.expires - now, idleDeadline(session) - now)

\* Lookup's own deadline check: the deadlines in the record, not the ttl.
Lapsed(session, now) ==
    \/ now >= session.expires
    \/ now >= idleDeadline(session)

\* Mutant: created strictly before.
RefusedBefore(session, revoked) == revoked # None /\ session.created < revoked.at

\* What the revocation marker says of a session; None is the zero time.
Refused(session, revoked) ==
    /\ revoked # None
    /\ session.created <= revoked.at

\* Mutant: use is written back only once the session would have been idle.
TouchDueLate(session, now) == now - session.lastSeen >= IdleTTL

\* touch skips the write while the record is recent enough.
TouchDue(session, now) == now - session.lastSeen >= idleRefreshInterval

\* Mutant: use extends the absolute deadline as well.
TouchedSlides(session, now) ==
    [session EXCEPT !.lastSeen = now, !.expires = now + AbsoluteTTL]

Touched(session, now) == [session EXCEPT !.lastSeen = now]

-----------------------------------------------------------------------------
(* The cache.  "failed": an error, nothing done; "lost": done, but the     *)
(* caller sees an error (a timeout, a dropped connection).                 *)

Outcomes == {"ok", "failed", "lost"}

\* write: the record under the shorter of its deadlines, as of the instant
\* now that the method read, however long ago that was.  The code refuses a ttl
\* that is not positive before it calls the cache; WritesAreInTime shows that no
\* caller meets that refusal, so it has no action here.
write(id, session, now, outcome) ==
    record' = IF outcome = "failed" THEN record
              ELSE [record EXCEPT ![id] =
                       [session |-> session,
                        until   |-> clock + remaining(session, now)]]

delete(id, outcome) ==
    record' = IF outcome = "failed" THEN record
              ELSE [record EXCEPT ![id] = None]

\* Time passes, and the cache drops what has outlived its ttl.
Tick ==
    /\ clock < MaxClock
    /\ clock' = clock + 1
    /\ record' = [i \in Ids |->
                    IF record[i] # None /\ record[i].until <= clock'
                    THEN None ELSE record[i]]
    /\ marker' = [s \in Subjects |->
                    IF marker[s] # None /\ marker[s].until <= clock'
                    THEN None ELSE marker[s]]
    /\ answer' = None
    /\ UNCHANGED <<op, met, historyVars>>

-----------------------------------------------------------------------------
(* Create *)

\* Mutant: an id is handed out again once its record is gone.
newIDReused(id) == record[id] = None /\ id \notin {op[p].id : p \in Procs}

\* 256 random bits: an id no session has had.
newID(id) == born[id] = None

\* Draw a fresh id, read the clock and build the session.
CreateBegin(p, subject, persistent) ==
    /\ op[p].pc = "idle"
    /\ \E id \in Ids :
        /\ newID(id)
        /\ LET session == NewSession(subject, persistent, clock) IN
            /\ op' = [op EXCEPT ![p] =
                        [Idle EXCEPT !.pc = "create", !.id = id,
                                     !.session = session, !.now = clock]]
            /\ born' = [born EXCEPT ![id] = session]
    /\ answer' = None
    /\ UNCHANGED <<clock, cacheVars, met, held, ended, condemned, barrier, marked,
                   lastUse, soleUse>>

\* Store it.  Only a write that was answered gives the caller the id.
CreateWrite(p, outcome) ==
    /\ op[p].pc = "create"
    /\ write(op[p].id, op[p].session, op[p].now, outcome)
    /\ held' = IF outcome = "ok" THEN held \cup {op[p].id} ELSE held
    /\ op' = [op EXCEPT ![p] = Idle]
    /\ answer' = None
    /\ UNCHANGED <<clock, marker, met, born, ended, condemned, barrier, marked,
                   lastUse, soleUse>>

-----------------------------------------------------------------------------
(* Lookup *)

\* The answer of Lookup: an error, ErrSessionNotFound ("gone"), or the session.
Return(p, id, out) ==
    /\ answer' = [out |-> out, id |-> id, session |-> None,
                  now |-> 0, floor |-> Never, late |-> FALSE]
    /\ op' = [op EXCEPT ![p] = Idle]
    /\ met' = met \ {p}

Serve(p) ==
    /\ answer' = [out |-> "served", id |-> op[p].id, session |-> op[p].session,
                  now |-> op[p].now, floor |-> op[p].floor, late |-> op[p].late]
    /\ op' = [op EXCEPT ![p] = Idle]
    /\ met' = met \ {p}
    /\ lastUse' = [lastUse EXCEPT ![op[p].id] = Greatest(@, op[p].now)]
    /\ soleUse' = IF p \in met THEN soleUse
                  ELSE [soleUse EXCEPT ![op[p].id] = Greatest(@, op[p].now)]
    /\ UNCHANGED <<born, held, ended, condemned, barrier, marked>>

\* The requests, other than p, that are inside the store for the session id.
Others(p, id) == {q \in Procs : q # p /\ op[q].id = id}

\* The first round trip reads the record.  floor and late remember, for the
\* properties only, what had been revoked when this Lookup began, and met which
\* requests overlap at one session.
LookupRead(p, id) ==
    /\ op[p].pc = "idle"
    /\ id \in held
    /\ \/ Return(p, id, "error")
       \/ record[id] = None /\ Return(p, id, "gone")
       \/ /\ record[id] # None
          /\ op' = [op EXCEPT ![p] =
                      [Idle EXCEPT !.pc = "check", !.id = id,
                                   !.session = record[id].session,
                                   !.floor = barrier[record[id].session.owner],
                                   !.late = id \in ended]]
          /\ met' = IF Others(p, id) = {} THEN met
                    ELSE met \cup {p} \cup Others(p, id)
          /\ answer' = None
    /\ UNCHANGED <<clock, cacheVars, historyVars>>

\* Read the clock and compare the deadlines the record carries.
LookupCheck(p) ==
    /\ op[p].pc = "check"
    /\ op' = [op EXCEPT ![p].now = clock,
                        ![p].pc = IF Lapsed(op[p].session, clock)
                                  THEN "forget" ELSE "marker"]
    /\ answer' = None
    /\ UNCHANGED <<clock, cacheVars, met, historyVars>>

\* forget: a best-effort delete; the answer is known already.
LookupForget(p, outcome) ==
    /\ op[p].pc = "forget"
    /\ delete(op[p].id, outcome)
    /\ Return(p, op[p].id, "gone")
    /\ UNCHANGED <<clock, marker, historyVars>>

\* Mutant: the outage is reported as a missing session.
LookupMarkerUnknownIsGone(p) ==
    /\ op[p].pc = "marker"
    /\ Return(p, op[p].id, "gone")
    /\ UNCHANGED <<clock, cacheVars, historyVars>>

\* revokedAt could not be read: not an answer, and not a "no".
LookupMarkerUnknown(p) ==
    /\ op[p].pc = "marker"
    /\ Return(p, op[p].id, "error")
    /\ UNCHANGED <<clock, cacheVars, historyVars>>

\* The marker refuses the session.
LookupRefuse(p) ==
    /\ op[p].pc = "marker"
    /\ Refused(op[p].session, marker[op[p].session.owner])
    /\ op' = [op EXCEPT ![p].pc = "forget"]
    /\ answer' = None
    /\ UNCHANGED <<clock, cacheVars, met, historyVars>>

\* The marker lets it pass; touch rewrites the record when that is due and
\* hands it out unwritten otherwise.
LookupPass(p) ==
    /\ op[p].pc = "marker"
    /\ ~Refused(op[p].session, marker[op[p].session.owner])
    /\ \/ /\ ~TouchDue(op[p].session, op[p].now)
          /\ Serve(p)
       \/ /\ TouchDue(op[p].session, op[p].now)
          /\ op' = [op EXCEPT ![p].pc = "touch",
                              ![p].session = Touched(op[p].session, op[p].now)]
          /\ answer' = None
          /\ UNCHANGED <<met, historyVars>>
    /\ UNCHANGED <<clock, cacheVars>>

\* The write of touch.  One that was not answered fails the Lookup.
LookupTouch(p, outcome) ==
    /\ op[p].pc = "touch"
    /\ write(op[p].id, op[p].session, op[p].now, outcome)
    /\ \/ outcome = "ok" /\ Serve(p)
       \/ outcome # "ok" /\ Return(p, op[p].id, "error") /\ UNCHANGED historyVars
    /\ UNCHANGED <<clock, marker>>

-----------------------------------------------------------------------------
(* Revoke and RevokeSubject *)

Revoke(p, id, outcome) ==
    /\ op[p].pc = "idle"
    /\ id \in held
    /\ delete(id, outcome)
    /\ condemned' = condemned \cup {id}
    /\ ended' = IF outcome = "ok" THEN ended \cup {id} ELSE ended
    /\ answer' = None
    /\ UNCHANGED <<clock, marker, op, met, born, held, barrier, marked, lastUse, soleUse>>

\* s.now() is evaluated before the cache is called.
RevokeSubjectBegin(p, subject) ==
    /\ op[p].pc = "idle"
    /\ op' = [op EXCEPT ![p] =
                [Idle EXCEPT !.pc = "mark", !.subject = subject, !.now = clock]]
    /\ marked' = [marked EXCEPT ![subject] = clock]
    /\ answer' = None
    /\ UNCHANGED <<clock, cacheVars, met, born, held, ended, condemned, barrier,
                   lastUse, soleUse>>

\* One blind write of that instant, kept for the longest session's lifetime.
RevokeSubjectWrite(p, outcome) ==
    /\ op[p].pc = "mark"
    /\ LET s == op[p].subject IN
        /\ marker' = IF outcome = "failed" THEN marker
                     ELSE [marker EXCEPT ![s] =
                             [at |-> op[p].now, until |-> clock + maxAbsoluteTTL]]
        /\ barrier' = IF outcome = "ok"
                      THEN [barrier EXCEPT ![s] = Greatest(@, op[p].now)]
                      ELSE barrier
    /\ op' = [op EXCEPT ![p] = Idle]
    /\ answer' = None
    /\ UNCHANGED <<clock, record, met, born, held, ended, condemned, marked,
                   lastUse, soleUse>>

-----------------------------------------------------------------------------

Init ==
    /\ clock = 0
    /\ record = [i \in Ids |-> None]
    /\ marker = [s \in Subjects |-> None]
    /\ op = [p \in Procs |-> Idle]
    /\ met = {}
    /\ answer = None
    /\ born = [i \in Ids |-> None]
    /\ held = {}
    /\ ended = {}
    /\ condemned = {}
    /\ barrier = [s \in Subjects |-> Never]
    /\ marked = [s \in Subjects |-> Never]
    /\ lastUse = [i \in Ids |-> Never]
    /\ soleUse = [i \in Ids |-> Never]

CallerNext(p) ==
    \/ \E s \in Subjects, persistent \in BOOLEAN : CreateBegin(p, s, persistent)
    \/ \E o \in Outcomes : CreateWrite(p, o)
    \/ \E id \in Ids : LookupRead(p, id)
    \/ LookupCheck(p)
    \/ \E o \in Outcomes : LookupForget(p, o)
    \/ LookupMarkerUnknown(p)
    \/ LookupRefuse(p)
    \/ LookupPass(p)
    \/ \E o \in Outcomes : LookupTouch(p, o)
    \/ \E id \in Ids, o \in Outcomes : Revoke(p, id, o)

RevokerNext(p) ==
    \/ \E s \in Subjects : RevokeSubjectBegin(p, s)
    \/ \E o \in Outcomes : RevokeSubjectWrite(p, o)

Next ==
    \/ Tick
    \/ \E p \in Callers : CallerNext(p)
    \/ \E p \in Revokers : RevokerNext(p)

Spec == Init /\ [][Next]_vars

-----------------------------------------------------------------------------
(* Properties *)

\* Records, markers and every request's locals are of their kinds, and only ids
\* that a cookie can hold are ever ended.
TypeOK ==
    /\ clock \in 0..MaxClock
    /\ record \in [Ids -> Entry \cup {None}]
    /\ marker \in [Subjects -> Marker \cup {None}]
    /\ op \in [Procs -> Op]
    /\ met \subseteq Procs
    /\ answer \in Answer \cup {None}
    /\ born \in [Ids -> Session \cup {None}]
    /\ held \subseteq Ids
    /\ ended \subseteq condemned
    /\ condemned \subseteq held
    /\ barrier \in [Subjects -> Nat \cup {Never}]
    /\ marked \in [Subjects -> Nat \cup {Never}]
    /\ lastUse \in [Ids -> Nat \cup {Never}]
    /\ soleUse \in [Ids -> Nat \cup {Never}]

Answered(out) == answer # None /\ answer.out = out

\* A session served by a Lookup that began after RevokeSubject returned was
\* created after the instant that call recorded, whatever Creates, Lookups and
\* touches were in flight.  The one exception is a Lookup so slow that the
\* session expired while it was inside: by then the marker, which is kept for
\* one absolute lifetime only, may have been dropped too.
RevokeSubjectHolds ==
    Answered("served") =>
        \/ answer.session.created > answer.floor
        \/ clock >= answer.session.expires

\* No amount of use, no concurrent touch and no resurrected record carries a
\* session past the absolute deadline Create gave it: what is served is owned,
\* created and due to expire as it was born, and was looked up before that.
AbsoluteDeadlineHolds ==
    Answered("served") =>
        LET s == answer.session b == born[answer.id] IN
        /\ s.owner = b.owner /\ s.created = b.created /\ s.expires = b.expires
        /\ answer.now < b.expires

\* Lookup reports ErrSessionNotFound, which makes the browser drop its cookie,
\* only for a session that somebody ended, whose lifetime ran out, or that went
\* unused for IdleTTL less one refresh interval; never because the cache failed
\* in any round trip or lost an answer, however requests overlap.  Unused counts
\* from the latest use that met no other request: of uses that overlap, a stale
\* copy may undo each other's touch (UsedSessionsStay, below), and nothing more.
NotFoundIsEarned ==
    Answered("gone") =>
        LET b == born[answer.id] IN
        \/ answer.id \in condemned
        \/ marked[b.owner] >= b.created
        \/ clock >= b.expires
        \/ /\ clock >= b.created + IdleTTL
           /\ clock >= soleUse[answer.id] + IdleTTL - idleRefreshInterval

\* Both write calls pass the cache a positive ttl (a ttl of zero would delete
\* the key), so the refusal in write is never what a caller meets.
WritesAreInTime ==
    \A p \in Procs : op[p].pc \in {"create", "touch"} =>
        remaining(op[p].session, op[p].now) > 0

\* The cache keeps a record until the nearer of its two deadlines at least,
\* however late the write arrived.
RecordsKeptToDeadline ==
    \A i \in Ids : record[i] # None =>
        record[i].until >= Least(record[i].session.expires,
                                 idleDeadline(record[i].session))

\* An id with no record and no request holding a copy of one.
Gone(i) ==
    /\ born[i] # None
    /\ record[i] = None
    /\ \A p \in Procs : op[p].id # i

\* Once a session is gone and every request that had read it has returned, it
\* never comes back: nothing but a Lookup that overlapped the end can write a
\* dead id again, and no Create is ever given one.
GoneStaysGone == [][\A i \in Ids : Gone(i) => Gone(i)']_vars

\* At most one Create or Lookup at a time is inside for one session, as with a
\* browser that waits for its answers; Revoke, one round trip, may come at any time.
Apart == \A p, q \in Procs : op[p].id # None /\ op[p].id = op[q].id => p = q

\* Where calls are Apart, the idle deadline is exact up to one refresh interval: a
\* session that was served less than IdleTTL minus that interval ago is still there.
UsedSessionsStay ==
    Answered("gone") =>
        LET b == born[answer.id] IN
        \/ answer.id \in condemned
        \/ marked[b.owner] >= b.created
        \/ clock >= b.expires
        \/ clock >= Greatest(b.created, lastUse[answer.id])
                        + IdleTTL - idleRefreshInterval

\* A Lookup that begins after Revoke returned does not serve the session.
RevokedIsNotServed == Answered("served") => ~answer.late

\* A Revoke that is answered meets no other request at its session.
RevokesApart == \A i \in ended' \ ended : \A p \in Procs : op[p].id # i

-----------------------------------------------------------------------------
(* SessionStore implements SessionLedger, where calls for one session do   *)
(* not overlap: a session is entered when Create draws its id, and a       *)
(* Lookup happens at the step that answers it.                             *)

entered == [i \in Ids |->
    IF born[i] = None THEN None
    ELSE [owner |-> born[i].owner, created |-> born[i].created, expires |-> born[i].expires]]

replied == IF answer = None THEN None ELSE [out |-> answer.out, id |-> answer.id]

Ledger == INSTANCE SessionLedger
    WITH session <- entered, used <- lastUse, ending <- condemned, revoked <- marked,
         answer <- replied, Early <- idleRefreshInterval,
         Lifetimes <- {AbsoluteTTL, PersistentAbsoluteTTL}

\* What callers see of the store is what SessionLedger says: one step per call,
\* whatever round trips, copies and failures are behind it.
LedgerKept == Ledger!Spec

=============================================================================
