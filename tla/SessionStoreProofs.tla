------------------------- MODULE SessionStoreProofs -------------------------
(***************************************************************************)
(* Proofs about SessionStore, for every set of ids, subjects and requests, *)
(* every lifetime and every clock bound.                                   *)
(***************************************************************************)
EXTENDS SessionStore, TLAPS

\* Requests that are inside Create or Lookup and hold a session.
Holding == {"create", "check", "marker", "forget", "touch"}

\* The parts of a session that nothing may change.
SameSession(s, b) ==
    s.owner = b.owner /\ s.created = b.created /\ s.expires = b.expires

\* What Create made: no later than now, and within the longest lifetime.
BornInv ==
    \A i \in Ids : born[i] # None =>
        /\ born[i].created <= clock
        /\ born[i].expires <= born[i].created + maxAbsoluteTTL

\* What a request holds between two round trips.
OpOK(p) ==
    /\ op[p].now <= clock
    /\ op[p].pc \in Holding =>
        /\ op[p].id \in Ids
        /\ op[p].session \in Session
        /\ born[op[p].id] # None
        /\ SameSession(op[p].session, born[op[p].id])
    /\ op[p].pc \in Holding \ {"create"} => op[p].id \in held
    /\ op[p].pc = "marker" => ~Lapsed(op[p].session, op[p].now)
    /\ op[p].pc \in {"create", "touch"} =>
        remaining(op[p].session, op[p].now) > 0
    /\ op[p].pc = "touch" => op[p].now < op[p].session.expires
    /\ op[p].pc = "mark" => op[p].subject \in Subjects /\ p \in Revokers

OpInv == \A p \in Procs : OpOK(p)

\* What the cache holds.
RecordInv ==
    \A i \in Ids : record[i] # None =>
        /\ born[i] # None
        /\ SameSession(record[i].session, born[i])
        /\ record[i].until >= Least(record[i].session.expires,
                                    idleDeadline(record[i].session))

\* What the last answer says.
AnswerInv ==
    Answered("served") =>
        /\ answer.session \in Session
        /\ SameSession(answer.session, born[answer.id])
        /\ answer.now < born[answer.id].expires

StoreInv == TypeOK /\ BornInv /\ OpInv /\ RecordInv /\ AnswerInv

-----------------------------------------------------------------------------

\* Both lifetimes are positive, and maxAbsoluteTTL bounds them.
LEMMA MaxTTLType ==
    /\ maxAbsoluteTTL \in Nat \ {0}
    /\ \A persistent \in BOOLEAN :
        /\ AbsoluteTTLFor(persistent) \in Nat \ {0}
        /\ AbsoluteTTLFor(persistent) <= maxAbsoluteTTL
  BY TTLAssumption DEF maxAbsoluteTTL, AbsoluteTTLFor, Greatest

\* A request outside the store is a well-typed one.
LEMMA IdleType == Idle \in Op
  BY DEF Idle, Op, Steps, Never

\* The ttl of a write reaches the nearer of the two deadlines, measured from now.
LEMMA RemainingType ==
    ASSUME NEW s \in Session, NEW n \in Nat
    PROVE  /\ remaining(s, n) \in Int
           /\ n + remaining(s, n) = Least(s.expires, idleDeadline(s))
           /\ idleDeadline(s) \in Nat
  BY TTLAssumption DEF remaining, idleDeadline, Least, Session

\* What Create builds is a session with time left.
LEMMA NewSessionType ==
    ASSUME NEW s \in Subjects, NEW persistent \in BOOLEAN, NEW n \in Nat
    PROVE  /\ NewSession(s, persistent, n) \in Session
           /\ NewSession(s, persistent, n).created = n
           /\ NewSession(s, persistent, n).expires <= n + maxAbsoluteTTL
           /\ remaining(NewSession(s, persistent, n), n) > 0
  BY TTLAssumption, MaxTTLType DEF NewSession, Session, remaining, idleDeadline, Least

\* An empty store is in order.
LEMMA InitStoreInv == Init => StoreInv
  BY TTLAssumption, IdleType
     DEF Init, StoreInv, TypeOK, BornInv, OpInv, OpOK, RecordInv, AnswerInv, Answered,
         Idle, Holding, Never

-----------------------------------------------------------------------------
(* What the pieces shared by several actions preserve. *)

\* A request that returns leaves nothing behind.
LEMMA ReturnOpInv ==
    ASSUME StoreInv, NEW p \in Procs, op' = [op EXCEPT ![p] = Idle],
           clock' = clock, born' = born, held \subseteq held'
    PROVE  op' \in [Procs -> Op] /\ OpInv'
  <1>1. op' \in [Procs -> Op]
    BY IdleType DEF StoreInv, TypeOK
  <1>2. \A q \in Procs : op'[q] = op[q] \/ op'[q] = Idle
    BY DEF StoreInv, TypeOK
  <1>3. clock \in Nat
    BY TTLAssumption DEF StoreInv, TypeOK
  <1>4. ASSUME NEW q \in Procs, op'[q] = Idle
        PROVE  /\ op'[q].now <= clock
               /\ op'[q].pc = "idle"
    BY <1>3, <1>4 DEF Idle
  <1>5. OpInv'
    BY <1>2, <1>4 DEF StoreInv, OpInv, OpOK, Holding
  <1> QED BY <1>1, <1>5

\* A step of another request leaves this one's state in order.
LEMMA OpStable ==
    ASSUME NEW q \in Procs, OpOK(q), op'[q] = op[q],
           clock' = clock, born' = born, held \subseteq held'
    PROVE  OpOK(q)'
  BY DEF OpOK

\* write puts a session under an id it was made for, until its deadline.
LEMMA WriteRecordInv ==
    ASSUME StoreInv, NEW p \in Procs, op[p].pc \in {"create", "touch"},
           NEW o \in Outcomes, write(op[p].id, op[p].session, op[p].now, o),
           born' = born
    PROVE  record' \in [Ids -> Entry \cup {None}] /\ RecordInv'
  <1> DEFINE id == op[p].id  s == op[p].session  n == op[p].now
  <1>1. /\ id \in Ids /\ s \in Session /\ born[id] # None
        /\ SameSession(s, born[id]) /\ n \in Nat /\ n <= clock
        /\ remaining(s, n) > 0 /\ clock \in Nat
    BY TTLAssumption DEF StoreInv, TypeOK, OpInv, OpOK, Holding, Op
  <1> DEFINE e == [session |-> s, until |-> clock + remaining(s, n)]
  <1>2. record' = record \/ record' = [record EXCEPT ![id] = e]
    BY DEF write
  <1>3. e \in Entry /\ e.until >= Least(s.expires, idleDeadline(s))
    BY <1>1, RemainingType DEF Entry, Least, Session
  <1>4. e.session = s
    OBVIOUS
  <1> HIDE DEF id, s, n, e
  <1>5. record' \in [Ids -> Entry \cup {None}]
    BY <1>2, <1>3 DEF StoreInv, TypeOK
  <1>6. RecordInv'
    BY <1>1, <1>2, <1>3, <1>4 DEF StoreInv, TypeOK, RecordInv
  <1> QED BY <1>5, <1>6

\* Deleting a record, or failing to, keeps the others in order.
LEMMA DeleteRecordInv ==
    ASSUME StoreInv, NEW id, NEW o \in Outcomes, delete(id, o), born' = born
    PROVE  record' \in [Ids -> Entry \cup {None}] /\ RecordInv'
  BY DEF StoreInv, TypeOK, RecordInv, delete

\* Answers other than a session carry nothing.
LEMMA ReturnAnswerInv ==
    ASSUME NEW p \in Procs, NEW id \in Ids, NEW out \in {"gone", "error"},
           Return(p, id, out)
    PROVE  answer' \in Answer /\ AnswerInv'
  <1>1. answer' = [out |-> out, id |-> id, session |-> None,
                   now |-> 0, floor |-> Never, late |-> FALSE]
    BY DEF Return
  <1>2. answer' \in Answer
    BY <1>1 DEF Answer, Never
  <1>3. answer'.out # "served"
    BY <1>1
  <1> QED BY <1>2, <1>3 DEF AnswerInv, Answered

\* A session is handed out as it was read, before its deadline.
LEMMA ServeAnswerInv ==
    ASSUME StoreInv, NEW p \in Procs, op[p].pc \in {"marker", "touch"}, Serve(p),
           op[p].now < op[p].session.expires
    PROVE  /\ answer' \in Answer /\ AnswerInv'
           /\ lastUse' \in [Ids -> Nat \cup {Never}]
           /\ soleUse' \in [Ids -> Nat \cup {Never}]
           /\ met' = met \ {p}
  <1>1. /\ answer' = [out |-> "served", id |-> op[p].id, session |-> op[p].session,
                      now |-> op[p].now, floor |-> op[p].floor, late |-> op[p].late]
        /\ lastUse' = [lastUse EXCEPT ![op[p].id] = Greatest(lastUse[op[p].id], op[p].now)]
        /\ \/ soleUse' = soleUse
           \/ soleUse' = [soleUse EXCEPT ![op[p].id] = Greatest(soleUse[op[p].id], op[p].now)]
        /\ met' = met \ {p}
        /\ born' = born
    BY DEF Serve
  <1>2. /\ op[p].id \in Ids /\ op[p].session \in Session
        /\ SameSession(op[p].session, born[op[p].id])
    BY DEF StoreInv, OpInv, OpOK, Holding
  <1>3. op[p] \in Op
    BY DEF StoreInv, TypeOK
  <1>4. op[p].now \in Nat /\ op[p].floor \in Int /\ op[p].late \in BOOLEAN
    BY <1>3 DEF Op
  <1>5. answer' \in Answer
    BY <1>1, <1>2, <1>4 DEF Answer
  <1>6. AnswerInv'
    BY <1>1, <1>2 DEF AnswerInv, SameSession
  <1>7. /\ lastUse' \in [Ids -> Nat \cup {Never}]
        /\ soleUse' \in [Ids -> Nat \cup {Never}]
    BY <1>1, <1>4 DEF StoreInv, TypeOK, Greatest, Never
  <1> QED BY <1>1, <1>5, <1>6, <1>7

-----------------------------------------------------------------------------
(* Each action preserves StoreInv. *)

\* Time and the expiry of the cache keep the invariant.
LEMMA TickStoreInv == ASSUME StoreInv, Tick PROVE StoreInv'
  <1> USE DEF StoreInv
  <1>1. TypeOK'
    BY TTLAssumption DEF Tick, TypeOK, historyVars
  <1>2. clock \in Nat /\ clock' = clock + 1
    BY TTLAssumption DEF Tick, TypeOK
  <1>3. BornInv'
    BY <1>2 DEF Tick, TypeOK, BornInv, Session, historyVars
  <1>4. \A p \in Procs : op[p].now \in Nat
    BY DEF TypeOK, Op
  <1>5. OpInv'
    BY <1>2, <1>4 DEF Tick, OpInv, OpOK, historyVars
  <1>6. RecordInv'
    BY DEF Tick, TypeOK, RecordInv, historyVars
  <1>7. AnswerInv'
    BY DEF Tick, AnswerInv, Answered
  <1> QED BY <1>1, <1>3, <1>5, <1>6, <1>7

\* Create draws an id nobody has and builds the session.
LEMMA CreateBeginStoreInv ==
    ASSUME StoreInv, NEW p \in Procs, NEW s \in Subjects, NEW persistent \in BOOLEAN,
           CreateBegin(p, s, persistent)
    PROVE  StoreInv'
  <1> USE DEF StoreInv
  <1> DEFINE session == NewSession(s, persistent, clock)
  <1>1. PICK id \in Ids :
          /\ born[id] = None
          /\ op' = [op EXCEPT ![p] =
                      [Idle EXCEPT !.pc = "create", !.id = id,
                                   !.session = session, !.now = clock]]
          /\ born' = [born EXCEPT ![id] = session]
    BY DEF CreateBegin, newID
  <1>2. clock \in Nat
    BY TTLAssumption DEF TypeOK
  <1>3. /\ session \in Session
        /\ session.created = clock
        /\ session.expires <= clock + maxAbsoluteTTL
        /\ remaining(session, clock) > 0
    BY <1>2, NewSessionType
  <1> HIDE DEF session
  <1>4. op'[p] \in Op
    <2>1. op'[p] = [pc |-> "create", id |-> id, subject |-> None, session |-> session,
                    now |-> clock, floor |-> Never, late |-> FALSE]
      BY <1>1 DEF TypeOK, Idle
    <2> QED BY <2>1, <1>2, <1>3 DEF Op, Steps, Never
  <1>5. TypeOK'
    BY <1>1, <1>3, <1>4 DEF CreateBegin, TypeOK, cacheVars
  <1>6. \A i \in Ids : born[i] # None => born'[i] = born[i]
    BY <1>1 DEF TypeOK
  <1>7. BornInv'
    BY <1>1, <1>3 DEF CreateBegin, TypeOK, BornInv
  <1>8. RecordInv'
    BY <1>6 DEF CreateBegin, RecordInv, cacheVars
  <1>9. \A q \in Procs \ {p} : op'[q] = op[q]
    BY <1>1 DEF TypeOK
  <1>10. /\ op'[p].now = clock /\ op'[p].pc = "create"
         /\ op'[p].id = id /\ op'[p].session = session
    BY <1>1 DEF TypeOK, Idle
  <1>11. born'[id] = session /\ session # None
    BY <1>1, <1>3, NoneAssumption DEF TypeOK
  <1>12. OpInv'
    BY <1>2, <1>3, <1>6, <1>9, <1>10, <1>11
       DEF CreateBegin, OpInv, OpOK, Holding, SameSession
  <1>13. AnswerInv'
    BY DEF CreateBegin, AnswerInv, Answered
  <1> QED BY <1>5, <1>7, <1>8, <1>12, <1>13

\* The write of Create, whatever became of it.
LEMMA CreateWriteStoreInv ==
    ASSUME StoreInv, NEW p \in Procs, NEW o \in Outcomes, CreateWrite(p, o)
    PROVE  StoreInv'
  <1>1. op[p].pc = "create" /\ op[p].id \in Ids
    BY DEF CreateWrite, StoreInv, OpInv, OpOK, Holding
  <1>2. record' \in [Ids -> Entry \cup {None}] /\ RecordInv'
    BY <1>1, WriteRecordInv DEF CreateWrite
  <1>3. held \subseteq held' /\ held' \subseteq Ids
    BY <1>1 DEF CreateWrite, StoreInv, TypeOK
  <1>4. op' \in [Procs -> Op] /\ OpInv'
    BY <1>3, ReturnOpInv DEF CreateWrite
  <1>5. TypeOK'
    BY <1>2, <1>3, <1>4 DEF CreateWrite, StoreInv, TypeOK
  <1>6. BornInv' /\ AnswerInv'
    BY DEF CreateWrite, StoreInv, BornInv, AnswerInv, Answered
  <1> QED BY <1>2, <1>4, <1>5, <1>6 DEF StoreInv

\* Lookup takes a copy of what the record says.
LEMMA LookupReadStoreInv ==
    ASSUME StoreInv, NEW p \in Procs, NEW id \in Ids, LookupRead(p, id)
    PROVE  StoreInv'
  <1>1. UNCHANGED <<clock, record, marker, born, held, ended, condemned,
                    barrier, marked, lastUse, soleUse>>
    BY DEF LookupRead, cacheVars, historyVars
  <1>2. BornInv' /\ RecordInv'
    BY <1>1 DEF StoreInv, BornInv, RecordInv
  <1>3. CASE \E out \in {"gone", "error"} : Return(p, id, out)
    <2>1. answer' \in Answer /\ AnswerInv'
      BY <1>3, ReturnAnswerInv
    <2>2. op' = [op EXCEPT ![p] = Idle] /\ met' = met \ {p}
      BY <1>3 DEF Return
    <2>3. op' \in [Procs -> Op] /\ OpInv'
      BY <1>1, <2>2, ReturnOpInv
    <2> QED BY <1>1, <1>2, <2>1, <2>2, <2>3 DEF StoreInv, TypeOK
  <1>4. CASE ~\E out \in {"gone", "error"} : Return(p, id, out)
    <2> DEFINE s == record[id].session
    <2>1. /\ id \in held /\ record[id] # None /\ answer' = None
          /\ op' = [op EXCEPT ![p] =
                      [Idle EXCEPT !.pc = "check", !.id = id, !.session = s,
                                   !.floor = barrier[s.owner], !.late = id \in ended]]
          /\ met' = met \/ met' = met \cup {p} \cup Others(p, id)
      BY <1>4 DEF LookupRead
    <2>2. s \in Session /\ born[id] # None /\ SameSession(s, born[id])
      BY <2>1, NoneAssumption DEF StoreInv, TypeOK, RecordInv, Entry
    <2>3. barrier[s.owner] \in Int /\ clock \in Nat
      BY <2>2, TTLAssumption DEF StoreInv, TypeOK, Session, Never
    <2> HIDE DEF s
    <2>4. op'[p] = [pc |-> "check", id |-> id, subject |-> None, session |-> s,
                    now |-> 0, floor |-> barrier[s.owner], late |-> id \in ended]
      BY <2>1 DEF StoreInv, TypeOK, Idle
    <2>5. op'[p] \in Op
      <3>1. (id \in ended) \in BOOLEAN
        OBVIOUS
      <3> QED BY <2>2, <2>3, <2>4, <3>1 DEF Op, Steps
    <2>6. \A q \in Procs \ {p} : op'[q] = op[q]
      BY <2>1 DEF StoreInv, TypeOK
    <2>7. op'[p].pc = "check" /\ op'[p].id = id /\ op'[p].session = s /\ op'[p].now = 0
      BY <2>4
    <2>8. OpInv'
      BY <1>1, <2>1, <2>2, <2>3, <2>6, <2>7 DEF StoreInv, OpInv, OpOK, Holding
    <2>9. TypeOK'
      <3>1. met' \subseteq Procs
        BY <2>1 DEF StoreInv, TypeOK, Others
      <3> QED BY <1>1, <2>1, <2>5, <3>1 DEF StoreInv, TypeOK
    <2>10. AnswerInv'
      BY <2>1 DEF AnswerInv, Answered
    <2> QED BY <1>2, <2>8, <2>9, <2>10 DEF StoreInv
  <1> QED BY <1>3, <1>4

\* An action that only moves request p on inside Lookup.
LEMMA MoveStoreInv ==
    ASSUME StoreInv, NEW p \in Procs, op[p].pc \in {"check", "marker"},
           NEW pc \in {"marker", "forget", "touch"}, NEW s \in Session, NEW n \in Nat,
           op' = [op EXCEPT ![p].pc = pc, ![p].session = s, ![p].now = n],
           answer' = None,
           UNCHANGED <<clock, record, marker, met, born, held, ended, condemned,
                       barrier, marked, lastUse, soleUse>>,
           SameSession(s, op[p].session), n <= clock,
           pc # "forget" => ~Lapsed(s, n)
    PROVE  StoreInv'
  <1>1. /\ op'[p].pc = pc /\ op'[p].session = s /\ op'[p].now = n
        /\ op'[p].id = op[p].id /\ op'[p].subject = op[p].subject
    BY DEF StoreInv, TypeOK, Op
  <1>2. \A q \in Procs \ {p} : op'[q] = op[q]
    BY DEF StoreInv, TypeOK
  <1>3. op' \in [Procs -> Op]
    <2>1. op[p] \in Op
      BY DEF StoreInv, TypeOK
    <2>2. pc \in Steps
      BY DEF Steps
    <2>3. op'[p] = [op[p] EXCEPT !.pc = pc, !.session = s, !.now = n]
      BY DEF StoreInv, TypeOK
    <2>4. [op[p] EXCEPT !.pc = pc, !.session = s, !.now = n] \in Op
      <3> DEFINE o == op[p]
      <3>1. o \in Op
        BY <2>1
      <3> HIDE DEF o
      <3>2. [o EXCEPT !.pc = pc, !.session = s, !.now = n] \in Op
        BY <3>1, <2>2 DEF Op
      <3> QED BY <3>2 DEF o
    <2> QED BY <2>3, <2>4 DEF StoreInv, TypeOK
  <1>4. pc = "touch" => remaining(s, n) > 0 /\ n < s.expires
    BY TTLAssumption DEF Lapsed, remaining, idleDeadline, Least, Session
  <1>5. /\ op[p].id \in Ids /\ op[p].id \in held /\ born[op[p].id] # None
        /\ SameSession(s, born[op[p].id])
    BY DEF StoreInv, OpInv, OpOK, Holding, SameSession
  <1>6. OpInv'
    <2> SUFFICES ASSUME NEW q \in Procs PROVE OpOK(q)'
      BY DEF OpInv
    <2>1. CASE q = p
      BY <2>1, <1>1, <1>4, <1>5 DEF OpOK, Holding
    <2>2. CASE q # p
      <3>1. op'[q] = op[q] /\ OpOK(q)
        BY <2>2, <1>2 DEF StoreInv, OpInv
      <3> QED BY <3>1, OpStable
    <2> QED BY <2>1, <2>2
  <1>7. TypeOK'
    BY <1>3 DEF StoreInv, TypeOK
  <1>8. BornInv' /\ RecordInv' /\ AnswerInv'
    BY DEF StoreInv, BornInv, RecordInv, AnswerInv, Answered
  <1> QED BY <1>6, <1>7, <1>8 DEF StoreInv

\* The deadline check leaves a request that goes on within both deadlines.
LEMMA LookupCheckStoreInv ==
    ASSUME StoreInv, NEW p \in Procs, LookupCheck(p)
    PROVE  StoreInv'
  <1> DEFINE pc == IF Lapsed(op[p].session, clock) THEN "forget" ELSE "marker"
             s == op[p].session
  <1>1. /\ op[p].pc = "check" /\ answer' = None
        /\ op' = [op EXCEPT ![p].now = clock, ![p].pc = pc]
        /\ UNCHANGED <<clock, record, marker, met, born, held, ended, condemned,
                       barrier, marked, lastUse, soleUse>>
    BY DEF LookupCheck, cacheVars, historyVars
  <1>2. s \in Session /\ clock \in Nat
    BY <1>1, TTLAssumption DEF StoreInv, TypeOK, OpInv, OpOK, Holding
  <1>3. op' = [op EXCEPT ![p].pc = pc, ![p].session = s, ![p].now = clock]
    BY <1>1 DEF StoreInv, TypeOK, Op
  <1>4. pc \in {"marker", "forget", "touch"} /\ (pc # "forget" => ~Lapsed(s, clock))
    OBVIOUS
  <1>5. SameSession(s, op[p].session)
    BY DEF SameSession
  <1>6. clock <= clock
    BY <1>2
  <1> HIDE DEF pc, s
  <1> QED BY <1>1, <1>2, <1>3, <1>4, <1>5, <1>6, MoveStoreInv

\* A Lookup that returns without a session.
LEMMA NoSessionStoreInv ==
    ASSUME StoreInv, NEW p \in Procs, op[p].pc \in {"forget", "marker", "touch"},
           NEW out \in {"gone", "error"}, Return(p, op[p].id, out),
           record' \in [Ids -> Entry \cup {None}], RecordInv',
           UNCHANGED <<clock, marker, born, held, ended, condemned,
                       barrier, marked, lastUse, soleUse>>
    PROVE  StoreInv'
  <1>1. op[p].id \in Ids
    BY DEF StoreInv, OpInv, OpOK, Holding
  <1>2. answer' \in Answer /\ AnswerInv'
    BY <1>1, ReturnAnswerInv
  <1>3. op' \in [Procs -> Op] /\ OpInv' /\ met' = met \ {p}
    BY ReturnOpInv DEF Return
  <1>4. TypeOK' /\ BornInv'
    BY <1>2, <1>3 DEF StoreInv, TypeOK, BornInv
  <1> QED BY <1>2, <1>3, <1>4 DEF StoreInv

\* A Lookup that returns the session it holds.
LEMMA ServeStoreInv ==
    ASSUME StoreInv, NEW p \in Procs, op[p].pc \in {"marker", "touch"}, Serve(p),
           record' \in [Ids -> Entry \cup {None}], RecordInv',
           UNCHANGED <<clock, marker>>
    PROVE  StoreInv'
  <1>1. op[p].now < op[p].session.expires
    <2>1. OpOK(p) /\ op[p].session \in Session /\ op[p].now \in Nat
      BY DEF StoreInv, TypeOK, OpInv, OpOK, Holding, Op
    <2> QED BY <2>1 DEF OpOK, Lapsed, Session
  <1>2. /\ answer' \in Answer /\ AnswerInv'
        /\ lastUse' \in [Ids -> Nat \cup {Never}]
        /\ soleUse' \in [Ids -> Nat \cup {Never}]
        /\ met' = met \ {p}
    BY <1>1, ServeAnswerInv
  <1>3. UNCHANGED <<born, held, ended, condemned, barrier, marked>>
    BY DEF Serve
  <1>4. op' \in [Procs -> Op] /\ OpInv'
    BY <1>3, ReturnOpInv DEF Serve
  <1>5. TypeOK' /\ BornInv'
    BY <1>2, <1>3, <1>4 DEF StoreInv, TypeOK, BornInv
  <1> QED BY <1>2, <1>4, <1>5 DEF StoreInv

\* forget deletes, or fails to.
LEMMA LookupForgetStoreInv ==
    ASSUME StoreInv, NEW p \in Procs, NEW o \in Outcomes, LookupForget(p, o)
    PROVE  StoreInv'
  <1>1. UNCHANGED <<clock, marker, born, held, ended, condemned,
                    barrier, marked, lastUse, soleUse>>
    BY DEF LookupForget, historyVars
  <1>2. record' \in [Ids -> Entry \cup {None}] /\ RecordInv'
    BY <1>1, DeleteRecordInv DEF LookupForget
  <1> QED BY <1>1, <1>2, NoSessionStoreInv DEF LookupForget

\* An unanswered read of the marker changes nothing.
LEMMA LookupMarkerUnknownStoreInv ==
    ASSUME StoreInv, NEW p \in Procs, LookupMarkerUnknown(p)
    PROVE  StoreInv'
  <1>1. UNCHANGED <<clock, record, marker, born, held, ended, condemned,
                    barrier, marked, lastUse, soleUse>>
    BY DEF LookupMarkerUnknown, cacheVars, historyVars
  <1>2. record' \in [Ids -> Entry \cup {None}] /\ RecordInv'
    BY <1>1 DEF StoreInv, TypeOK, RecordInv
  <1> QED BY <1>1, <1>2, NoSessionStoreInv DEF LookupMarkerUnknown

\* A refusal by the marker sends the request to forget.
LEMMA LookupRefuseStoreInv ==
    ASSUME StoreInv, NEW p \in Procs, LookupRefuse(p)
    PROVE  StoreInv'
  <1> DEFINE s == op[p].session  n == op[p].now
  <1>1. /\ op[p].pc = "marker" /\ answer' = None
        /\ op' = [op EXCEPT ![p].pc = "forget"]
        /\ UNCHANGED <<clock, record, marker, met, born, held, ended, condemned,
                       barrier, marked, lastUse, soleUse>>
    BY DEF LookupRefuse, cacheVars, historyVars
  <1>2. s \in Session /\ n \in Nat /\ n <= clock
    BY <1>1 DEF StoreInv, TypeOK, OpInv, OpOK, Holding, Op
  <1>3. op' = [op EXCEPT ![p].pc = "forget", ![p].session = s, ![p].now = n]
    BY <1>1 DEF StoreInv, TypeOK, Op
  <1>4. SameSession(s, op[p].session)
    BY DEF SameSession
  <1> HIDE DEF s, n
  <1> QED BY <1>1, <1>2, <1>3, <1>4, MoveStoreInv

\* Passing the marker serves the session or makes it due for a write in time.
LEMMA LookupPassStoreInv ==
    ASSUME StoreInv, NEW p \in Procs, LookupPass(p)
    PROVE  StoreInv'
  <1> DEFINE s == [op[p].session EXCEPT !.lastSeen = op[p].now]  n == op[p].now
  <1>1. /\ op[p].pc = "marker"
        /\ UNCHANGED <<clock, record, marker>>
    BY DEF LookupPass, cacheVars
  <1>2. CASE Serve(p)
    <2>1. born' = born
      BY <1>2 DEF Serve
    <2>2. record' \in [Ids -> Entry \cup {None}] /\ RecordInv'
      BY <1>1, <2>1 DEF StoreInv, TypeOK, RecordInv
    <2> QED BY <1>1, <1>2, <2>2, ServeStoreInv
  <1>3. CASE ~Serve(p)
    <2>1. /\ op' = [op EXCEPT ![p].pc = "touch", ![p].session = s]
          /\ answer' = None
          /\ UNCHANGED <<met, born, held, ended, condemned, barrier, marked,
                         lastUse, soleUse>>
      BY <1>3 DEF LookupPass, Touched, historyVars
    <2>2. /\ op[p].session \in Session /\ n \in Nat /\ n <= clock
          /\ ~Lapsed(op[p].session, n)
      BY <1>1 DEF StoreInv, TypeOK, OpInv, OpOK, Holding, Op
    <2>3. /\ s \in Session /\ SameSession(s, op[p].session) /\ s.lastSeen = n
      BY <2>2 DEF Session, SameSession
    <2>4. ~Lapsed(s, n)
      BY <2>2, <2>3, TTLAssumption DEF Lapsed, SameSession, idleDeadline, Session
    <2>5. op' = [op EXCEPT ![p].pc = "touch", ![p].session = s, ![p].now = n]
      BY <2>1 DEF StoreInv, TypeOK, Op
    <2> HIDE DEF s, n
    <2> QED BY <1>1, <2>1, <2>2, <2>3, <2>4, <2>5, MoveStoreInv
  <1> QED BY <1>2, <1>3

\* The write of touch, whatever became of it.
LEMMA LookupTouchStoreInv ==
    ASSUME StoreInv, NEW p \in Procs, NEW o \in Outcomes, LookupTouch(p, o)
    PROVE  StoreInv'
  <1>1. op[p].pc = "touch" /\ UNCHANGED <<clock, marker>>
    BY DEF LookupTouch
  <1>2. born' = born
    BY DEF LookupTouch, Serve, historyVars
  <1>3. record' \in [Ids -> Entry \cup {None}] /\ RecordInv'
    BY <1>1, <1>2, WriteRecordInv DEF LookupTouch
  <1>4. CASE Serve(p)
    BY <1>1, <1>3, <1>4, ServeStoreInv
  <1>5. CASE ~Serve(p)
    <2>1. /\ Return(p, op[p].id, "error")
          /\ UNCHANGED <<born, held, ended, condemned, barrier, marked, lastUse, soleUse>>
      BY <1>5 DEF LookupTouch, historyVars
    <2> QED BY <1>1, <1>3, <2>1, NoSessionStoreInv
  <1> QED BY <1>4, <1>5

\* Revoke deletes the record, or fails to.
LEMMA RevokeStoreInv ==
    ASSUME StoreInv, NEW p \in Procs, NEW id \in Ids, NEW o \in Outcomes, Revoke(p, id, o)
    PROVE  StoreInv'
  <1>1. record' \in [Ids -> Entry \cup {None}] /\ RecordInv'
    BY DeleteRecordInv DEF Revoke
  <1>2. TypeOK'
    BY <1>1 DEF Revoke, StoreInv, TypeOK
  <1>3. BornInv' /\ OpInv' /\ AnswerInv'
    BY DEF Revoke, StoreInv, BornInv, OpInv, OpOK, AnswerInv, Answered
  <1> QED BY <1>1, <1>2, <1>3 DEF StoreInv

\* RevokeSubject reads the clock.
LEMMA RevokeSubjectBeginStoreInv ==
    ASSUME StoreInv, NEW p \in Revokers, NEW s \in Subjects, RevokeSubjectBegin(p, s)
    PROVE  StoreInv'
  <1>1. p \in Procs /\ clock \in Nat
    BY TTLAssumption DEF Procs, StoreInv, TypeOK
  <1>2. UNCHANGED <<clock, record, marker, met, born, held, ended, condemned, barrier,
                    lastUse, soleUse>>
    BY DEF RevokeSubjectBegin, cacheVars
  <1>3. op'[p] = [pc |-> "mark", id |-> None, subject |-> s, session |-> None,
                  now |-> clock, floor |-> Never, late |-> FALSE]
    BY <1>1 DEF RevokeSubjectBegin, StoreInv, TypeOK, Idle
  <1>4. op'[p] \in Op
    BY <1>1, <1>3 DEF Op, Steps, Never
  <1>5. op' \in [Procs -> Op]
    BY <1>1, <1>4 DEF RevokeSubjectBegin, StoreInv, TypeOK
  <1>6. \A q \in Procs \ {p} : op'[q] = op[q]
    BY DEF RevokeSubjectBegin, StoreInv, TypeOK
  <1>7. op'[p].pc = "mark" /\ op'[p].subject = s /\ op'[p].now = clock
    BY <1>3
  <1>8. OpOK(p)'
    BY <1>1, <1>2, <1>7 DEF OpOK, Holding
  <1>9. ASSUME NEW q \in Procs \ {p} PROVE OpOK(q)'
    BY <1>2, <1>6, OpStable DEF StoreInv, OpInv
  <1>10. OpInv'
    BY <1>8, <1>9 DEF OpInv
  <1>11. TypeOK'
    BY <1>1, <1>2, <1>5 DEF RevokeSubjectBegin, StoreInv, TypeOK
  <1>12. BornInv' /\ RecordInv' /\ AnswerInv'
    BY <1>2 DEF RevokeSubjectBegin, StoreInv, BornInv, RecordInv, AnswerInv, Answered
  <1> QED BY <1>10, <1>11, <1>12 DEF StoreInv

\* The write of the marker, whatever became of it.
LEMMA RevokeSubjectWriteStoreInv ==
    ASSUME StoreInv, NEW p \in Procs, NEW o \in Outcomes, RevokeSubjectWrite(p, o)
    PROVE  StoreInv'
  <1> DEFINE s == op[p].subject  n == op[p].now
  <1>1. s \in Subjects /\ n \in Nat /\ clock \in Nat
    BY TTLAssumption DEF RevokeSubjectWrite, StoreInv, TypeOK, OpInv, OpOK, Op
  <1>2. UNCHANGED <<clock, record, met, born, held, ended, condemned, marked,
                    lastUse, soleUse>>
        /\ answer' = None /\ op' = [op EXCEPT ![p] = Idle]
    BY DEF RevokeSubjectWrite
  <1>3. op' \in [Procs -> Op] /\ OpInv'
    BY <1>2, ReturnOpInv
  <1>4. marker' \in [Subjects -> Marker \cup {None}]
    <2>1. [at |-> n, until |-> clock + maxAbsoluteTTL] \in Marker
      BY <1>1, MaxTTLType DEF Marker
    <2> QED BY <2>1 DEF RevokeSubjectWrite, StoreInv, TypeOK
  <1>5. barrier' \in [Subjects -> Nat \cup {Never}]
    BY <1>1 DEF RevokeSubjectWrite, StoreInv, TypeOK, Greatest, Never
  <1>6. TypeOK'
    BY <1>2, <1>3, <1>4, <1>5 DEF StoreInv, TypeOK
  <1>7. BornInv' /\ RecordInv' /\ AnswerInv'
    BY <1>2 DEF StoreInv, BornInv, RecordInv, AnswerInv, Answered
  <1> QED BY <1>3, <1>6, <1>7 DEF StoreInv

\* Every step of the store keeps the invariant.
LEMMA NextStoreInv == StoreInv /\ [Next]_vars => StoreInv'
  <1> SUFFICES ASSUME StoreInv, [Next]_vars PROVE StoreInv'
    OBVIOUS
  <1>1. CASE Tick
    BY <1>1, TickStoreInv
  <1>2. ASSUME NEW p \in Callers, CallerNext(p) PROVE StoreInv'
    <2>1. p \in Procs
      BY DEF Procs
    <2> QED BY <1>2, <2>1, CreateBeginStoreInv, CreateWriteStoreInv, LookupReadStoreInv,
               LookupCheckStoreInv, LookupForgetStoreInv, LookupMarkerUnknownStoreInv,
               LookupRefuseStoreInv, LookupPassStoreInv, LookupTouchStoreInv,
               RevokeStoreInv
            DEF CallerNext
  <1>3. ASSUME NEW p \in Revokers, RevokerNext(p) PROVE StoreInv'
    <2>1. p \in Procs
      BY DEF Procs
    <2> QED BY <1>3, <2>1, RevokeSubjectBeginStoreInv, RevokeSubjectWriteStoreInv
            DEF RevokerNext
  <1>4. CASE UNCHANGED vars
    BY <1>4 DEF vars, cacheVars, historyVars, StoreInv, TypeOK, BornInv, OpInv, OpOK,
                RecordInv, AnswerInv, Answered
  <1> QED BY <1>1, <1>2, <1>3, <1>4 DEF Next

\* StoreInv is an invariant of the store.
LEMMA StoreInvHolds == Spec => []StoreInv
  BY InitStoreInv, NextStoreInv, PTL DEF Spec

-----------------------------------------------------------------------------
(* The theorems. *)

\* The types of every variable, the ttl arithmetic of write included.
THEOREM TypeCorrect == Spec => []TypeOK
  <1>1. StoreInv => TypeOK
    BY DEF StoreInv
  <1> QED BY <1>1, StoreInvHolds, PTL

\* What Lookup serves is what Create made, within its absolute lifetime:
\* however many requests touch, end or resurrect the record meanwhile.
THEOREM AbsoluteDeadline == Spec => []AbsoluteDeadlineHolds
  <1>1. StoreInv => AbsoluteDeadlineHolds
    BY DEF StoreInv, AnswerInv, AbsoluteDeadlineHolds, SameSession
  <1> QED BY <1>1, StoreInvHolds, PTL

\* Neither Create nor touch ever hands the cache a ttl of zero or less.
THEOREM WritesInTime == Spec => []WritesAreInTime
  <1>1. StoreInv => WritesAreInTime
    BY DEF StoreInv, OpInv, OpOK, WritesAreInTime
  <1> QED BY <1>1, StoreInvHolds, PTL

\* The cache never drops a record before the deadline the record carries.
THEOREM KeptToDeadline == Spec => []RecordsKeptToDeadline
  <1>1. StoreInv => RecordsKeptToDeadline
    BY DEF StoreInv, RecordInv, RecordsKeptToDeadline
  <1> QED BY <1>1, StoreInvHolds, PTL

\* No step brings back an id that is gone.
LEMMA GoneStep == ASSUME StoreInv, Next, NEW i \in Ids, Gone(i) PROVE Gone(i)'
  <1>0. /\ born[i] # None /\ record[i] = None /\ i # None
        /\ \A p \in Procs : op[p].id # i
    BY NoneAssumption DEF Gone
  <1>1. CASE Tick
    BY <1>0, <1>1 DEF Tick, Gone, historyVars, StoreInv, TypeOK
  <1>2. ASSUME NEW p \in Procs, op' = [op EXCEPT ![p] = Idle],
               born' = born, record'[i] = None
        PROVE  Gone(i)'
    <2>1. \A q \in Procs : op'[q] = op[q] \/ op'[q].id = None
      BY <1>2 DEF StoreInv, TypeOK, Idle
    <2> QED BY <1>0, <1>2, <2>1 DEF Gone
  <1>3. ASSUME NEW p \in Callers, CallerNext(p) PROVE Gone(i)'
    <2>1. p \in Procs
      BY DEF Procs
    <2>2. ASSUME NEW s \in Subjects, NEW persistent \in BOOLEAN,
                 CreateBegin(p, s, persistent)
          PROVE  Gone(i)'
      <3>1. PICK id \in Ids :
              /\ born[id] = None
              /\ op' = [op EXCEPT ![p] =
                          [Idle EXCEPT !.pc = "create", !.id = id, !.now = clock,
                             !.session = NewSession(s, persistent, clock)]]
              /\ born' = [born EXCEPT ![id] = NewSession(s, persistent, clock)]
        BY <2>2 DEF CreateBegin, newID
      <3>2. i # id /\ born'[i] = born[i] /\ record' = record
        BY <1>0, <2>2, <3>1 DEF CreateBegin, cacheVars, StoreInv, TypeOK
      <3>3. \A q \in Procs : op'[q].id = op[q].id \/ op'[q].id = id
        BY <2>1, <3>1 DEF StoreInv, TypeOK, Idle
      <3> QED BY <1>0, <3>2, <3>3 DEF Gone
    <2>3. ASSUME NEW o \in Outcomes, CreateWrite(p, o) PROVE Gone(i)'
      <3>1. record'[i] = None
        BY <1>0, <2>1, <2>3 DEF CreateWrite, write, StoreInv, TypeOK
      <3> QED BY <1>2, <2>1, <2>3, <3>1 DEF CreateWrite
    <2>4. ASSUME NEW id \in Ids, LookupRead(p, id) PROVE Gone(i)'
      <3>1. born' = born /\ record' = record
        BY <2>4 DEF LookupRead, cacheVars, historyVars
      <3>2. CASE op' = [op EXCEPT ![p] = Idle]
        BY <1>0, <1>2, <2>1, <3>1, <3>2
      <3>3. CASE op' # [op EXCEPT ![p] = Idle]
        <4>1. /\ record[id] # None
              /\ op' = [op EXCEPT ![p] =
                    [Idle EXCEPT !.pc = "check", !.id = id,
                                 !.session = record[id].session,
                                 !.floor = barrier[record[id].session.owner],
                                 !.late = id \in ended]]
          BY <2>4, <3>3 DEF LookupRead, Return
        <4>2. \A q \in Procs : op'[q].id = op[q].id \/ op'[q].id = id
          BY <2>1, <4>1 DEF StoreInv, TypeOK, Idle
        <4> QED BY <1>0, <3>1, <4>1, <4>2 DEF Gone
      <3> QED BY <3>2, <3>3
    <2>5. ASSUME LookupCheck(p) \/ LookupRefuse(p) PROVE Gone(i)'
      <3>1. born' = born /\ record' = record
        BY <2>5 DEF LookupCheck, LookupRefuse, cacheVars, historyVars
      <3>2. \A q \in Procs : op'[q].id = op[q].id
        BY <2>1, <2>5 DEF LookupCheck, LookupRefuse, StoreInv, TypeOK, Op
      <3> QED BY <1>0, <3>1, <3>2 DEF Gone
    <2>6. ASSUME NEW o \in Outcomes, LookupForget(p, o) PROVE Gone(i)'
      BY <1>0, <1>2, <2>1, <2>6
         DEF LookupForget, delete, Return, historyVars, StoreInv, TypeOK
    <2>7. ASSUME LookupMarkerUnknown(p) PROVE Gone(i)'
      BY <1>0, <1>2, <2>1, <2>7 DEF LookupMarkerUnknown, Return, cacheVars, historyVars
    <2>8. ASSUME LookupPass(p) PROVE Gone(i)'
      <3>1. born' = born /\ record' = record
        BY <2>8 DEF LookupPass, Serve, cacheVars, historyVars
      <3>2. CASE op' = [op EXCEPT ![p] = Idle]
        BY <1>0, <1>2, <2>1, <3>1, <3>2
      <3>3. CASE op' # [op EXCEPT ![p] = Idle]
        <4>1. op' = [op EXCEPT ![p].pc = "touch",
                       ![p].session = [op[p].session EXCEPT !.lastSeen = op[p].now]]
          BY <2>8, <3>3 DEF LookupPass, Touched, Serve
        <4>2. \A q \in Procs : op'[q].id = op[q].id
          BY <2>1, <4>1 DEF StoreInv, TypeOK, Op
        <4> QED BY <1>0, <3>1, <4>2 DEF Gone
      <3> QED BY <3>2, <3>3
    <2>9. ASSUME NEW o \in Outcomes, LookupTouch(p, o) PROVE Gone(i)'
      <3>1. record'[i] = None
        BY <1>0, <2>1, <2>9 DEF LookupTouch, write, StoreInv, TypeOK
      <3>2. born' = born /\ op' = [op EXCEPT ![p] = Idle]
        BY <2>9 DEF LookupTouch, Serve, Return, historyVars
      <3> QED BY <1>2, <2>1, <3>1, <3>2
    <2>10. ASSUME NEW id \in Ids, NEW o \in Outcomes, Revoke(p, id, o) PROVE Gone(i)'
      BY <1>0, <2>10 DEF Revoke, delete, Gone, StoreInv, TypeOK
    <2> QED BY <1>3, <2>2, <2>3, <2>4, <2>5, <2>6, <2>7, <2>8, <2>9, <2>10
            DEF CallerNext
  <1>4. ASSUME NEW p \in Revokers, RevokerNext(p) PROVE Gone(i)'
    <2>1. p \in Procs
      BY DEF Procs
    <2>2. born' = born /\ record' = record
      BY <1>4 DEF RevokerNext, RevokeSubjectBegin, RevokeSubjectWrite, cacheVars
    <2>3. \A q \in Procs : op'[q] = op[q] \/ op'[q].id = None
      <3>1. ASSUME NEW s \in Subjects, RevokeSubjectBegin(p, s)
            PROVE  \A q \in Procs : op'[q] = op[q] \/ op'[q].id = None
        BY <2>1, <3>1 DEF RevokeSubjectBegin, StoreInv, TypeOK, Idle
      <3>2. ASSUME op' = [op EXCEPT ![p] = Idle]
            PROVE  \A q \in Procs : op'[q] = op[q] \/ op'[q].id = None
        BY <2>1, <3>2 DEF StoreInv, TypeOK, Idle
      <3> QED BY <1>4, <3>1, <3>2 DEF RevokerNext, RevokeSubjectWrite
    <2> QED BY <1>0, <2>2, <2>3 DEF Gone
  <1> QED BY <1>1, <1>3, <1>4 DEF Next

\* An id that is gone, with no request holding it, stays gone: no request but
\* one that overlapped its end can write it back, and Create never draws it.
THEOREM GoneForGood == Spec => GoneStaysGone
  <1>1. StoreInv /\ [Next]_vars => [\A i \in Ids : Gone(i) => Gone(i)']_vars
    BY GoneStep DEF vars
  <1> QED BY <1>1, StoreInvHolds, PTL DEF Spec, GoneStaysGone

-----------------------------------------------------------------------------
(* RevokeSubject, when the calls for it do not overlap. *)

OneRevoker == \A p, q \in Revokers : p = q

\* A marker stands for one whole absolute lifetime from the instant it names,
\* so a revocation that returned is still marked, or so old that no session it
\* must refuse can be alive.
MarkerInv ==
    \A s \in Subjects :
        /\ marker[s] # None =>
            /\ marker[s].at <= clock
            /\ marker[s].until >= marker[s].at + maxAbsoluteTTL
        /\ barrier[s] <= clock
        /\ \/ barrier[s] = Never
           \/ marker[s] # None /\ barrier[s] <= marker[s].at
           \/ clock >= barrier[s] + maxAbsoluteTTL

\* The instant a RevokeSubject is about to write is no older than what is there.
MarkOK(p) ==
    op[p].pc = "mark" =>
        /\ barrier[op[p].subject] <= op[p].now
        /\ marker[op[p].subject] # None => marker[op[p].subject].at <= op[p].now

Looking == {"check", "marker", "forget", "touch"}

\* What a Lookup knew when it began still stands, and once past the marker it
\* holds a session the revocation does not concern.
FloorOK(p) ==
    /\ op[p].pc \in Looking => op[p].floor <= barrier[op[p].session.owner]
    /\ op[p].pc = "touch" =>
        \/ op[p].session.created > op[p].floor
        \/ clock >= op[p].session.expires

RevokeInv ==
    /\ MarkerInv
    /\ \A p \in Procs : MarkOK(p) /\ FloorOK(p)
    /\ RevokeSubjectHolds

\* Nothing has been revoked at first.
LEMMA InitRevokeInv == Init => RevokeInv
  BY DEF Init, RevokeInv, MarkerInv, MarkOK, FloorOK, RevokeSubjectHolds, Answered,
         Idle, Looking, Never

\* The heart of the argument: past the marker, a session is younger than every
\* revocation the Lookup had to honour, or has expired.
LEMMA MarkerDecides ==
    ASSUME StoreInv, RevokeInv, NEW p \in Procs, op[p].pc = "marker",
           ~Refused(op[p].session, marker[op[p].session.owner])
    PROVE  \/ op[p].session.created > op[p].floor
           \/ clock >= op[p].session.expires
  <1> DEFINE s == op[p].session  o == s.owner
  <1>1. /\ s \in Session /\ o \in Subjects /\ op[p].floor \in Int
        /\ op[p].id \in Ids /\ born[op[p].id] # None /\ SameSession(s, born[op[p].id])
    BY DEF StoreInv, TypeOK, OpInv, OpOK, Holding, Op, Session
  <1>2. s.expires <= s.created + maxAbsoluteTTL
    BY <1>1 DEF StoreInv, BornInv, SameSession
  <1>3. op[p].floor <= barrier[o]
    BY DEF RevokeInv, FloorOK, Looking
  <1>4. barrier[o] \in Nat \cup {Never} /\ clock \in Nat
    BY <1>1, TTLAssumption DEF StoreInv, TypeOK
  <1>5. s.created \in Nat /\ s.expires \in Nat
    BY <1>1 DEF Session
  <1>6. CASE barrier[o] = Never
    BY <1>1, <1>3, <1>5, <1>6 DEF Never
  <1>7. CASE marker[o] # None /\ barrier[o] <= marker[o].at
    <2>1. s.created > marker[o].at /\ marker[o].at \in Nat
      BY <1>1, <1>5, <1>7 DEF Refused, StoreInv, TypeOK, Marker
    <2> QED BY <1>1, <1>3, <1>4, <1>5, <1>7, <2>1 DEF Never
  <1>8. CASE barrier[o] # Never /\ clock >= barrier[o] + maxAbsoluteTTL
    BY <1>1, <1>2, <1>3, <1>4, <1>5, <1>8, MaxTTLType DEF Never
  <1> QED BY <1>1, <1>6, <1>7, <1>8 DEF RevokeInv, MarkerInv

\* A marker outlives the sessions it refuses.
LEMMA TickRevokeInv == ASSUME StoreInv, RevokeInv, Tick PROVE RevokeInv'
  <1>1. clock \in Nat /\ clock' = clock + 1 /\ answer' = None
        /\ UNCHANGED <<op, barrier>>
    BY TTLAssumption DEF Tick, StoreInv, TypeOK, historyVars
  <1>2. \A s \in Subjects :
          \/ marker'[s] = marker[s]
          \/ /\ marker'[s] = None /\ marker[s] # None /\ marker[s].until <= clock'
    BY DEF Tick
  <1>3. \A s \in Subjects : barrier[s] \in Nat \cup {Never}
    BY DEF StoreInv, TypeOK
  <1>4. \A s \in Subjects : marker[s] # None => marker[s].at \in Nat /\ marker[s].until \in Nat
    BY DEF StoreInv, TypeOK, Marker
  <1>5. MarkerInv'
    BY <1>1, <1>2, <1>3, <1>4, MaxTTLType DEF RevokeInv, MarkerInv, Never
  <1>6. ASSUME NEW p \in Procs PROVE MarkOK(p)' /\ FloorOK(p)'
    <2>1. op[p].pc = "mark" => op[p].subject \in Subjects
      BY DEF StoreInv, OpInv, OpOK
    <2>2. MarkOK(p)'
      BY <1>1, <1>2, <2>1 DEF RevokeInv, MarkOK
    <2>3. op[p].pc = "touch" => op[p].session.expires \in Nat
      BY DEF StoreInv, OpInv, OpOK, Holding, Session
    <2>4. FloorOK(p)'
      BY <1>1, <2>3 DEF RevokeInv, FloorOK
    <2> QED BY <2>2, <2>4
  <1>7. RevokeSubjectHolds'
    BY <1>1 DEF RevokeSubjectHolds, Answered
  <1> QED BY <1>5, <1>6, <1>7 DEF RevokeInv

\* Steps of Create, Lookup and Revoke leave markers and barriers alone, so only
\* what request p itself now holds, and the answer it gave, is at stake.
LEMMA CallerRevokeInv ==
    ASSUME RevokeInv, NEW p \in Procs,
           UNCHANGED <<clock, marker, barrier>>,
           \A q \in Procs \ {p} : op'[q] = op[q],
           op'[p].pc # "mark", FloorOK(p)', RevokeSubjectHolds'
    PROVE  RevokeInv'
  <1>1. MarkerInv'
    BY DEF RevokeInv, MarkerInv
  <1>2. ASSUME NEW q \in Procs PROVE MarkOK(q)' /\ FloorOK(q)'
    BY DEF RevokeInv, MarkOK, FloorOK
  <1> QED BY <1>1, <1>2 DEF RevokeInv

\* A request that returns keeps the invariant if what it served was fair.
LEMMA ReturnRevokeInv ==
    ASSUME StoreInv, RevokeInv, NEW p \in Procs, op' = [op EXCEPT ![p] = Idle],
           UNCHANGED <<clock, marker, barrier>>, RevokeSubjectHolds'
    PROVE  RevokeInv'
  <1>1. op'[p].pc = "idle"
    BY DEF StoreInv, TypeOK, Idle
  <1>2. \A q \in Procs \ {p} : op'[q] = op[q]
    BY DEF StoreInv, TypeOK
  <1>3. FloorOK(p)'
    BY <1>1 DEF FloorOK, Looking
  <1> QED BY <1>1, <1>2, <1>3, CallerRevokeInv

\* Only Serve gives an answer the property speaks of.
LEMMA NotServed == ASSUME answer' = None \/ answer'.out # "served"
                   PROVE  RevokeSubjectHolds'
  BY DEF RevokeSubjectHolds, Answered

\* A request whose copy is younger than what it must obey may be served.
LEMMA ServedFairly ==
    ASSUME NEW p \in Procs, Serve(p), clock' = clock,
           op[p].session.created > op[p].floor \/ clock >= op[p].session.expires
    PROVE  RevokeSubjectHolds'
  BY DEF RevokeSubjectHolds, Answered, Serve

\* Creates, Lookups and Revokes keep the invariant of revocation.
LEMMA CallerNextRevokeInv ==
    ASSUME StoreInv, RevokeInv, NEW p \in Procs, CallerNext(p)
    PROVE  RevokeInv'
  <1>1. UNCHANGED <<clock, marker, barrier>>
    BY DEF CallerNext, CreateBegin, CreateWrite, LookupRead, LookupCheck, LookupForget,
           LookupMarkerUnknown, LookupRefuse, LookupPass, LookupTouch, Revoke, Serve,
           cacheVars, historyVars
  <1>2. ASSUME NEW s \in Subjects, NEW persistent \in BOOLEAN, CreateBegin(p, s, persistent)
        PROVE  RevokeInv'
    <2>1. op'[p].pc = "create" /\ \A q \in Procs \ {p} : op'[q] = op[q]
      BY <1>2 DEF CreateBegin, StoreInv, TypeOK, Idle
    <2>2. FloorOK(p)' /\ RevokeSubjectHolds'
      BY <1>2, <2>1, NotServed DEF CreateBegin, FloorOK, Looking
    <2> QED BY <1>1, <2>1, <2>2, CallerRevokeInv
  <1>3. ASSUME NEW o \in Outcomes, CreateWrite(p, o) PROVE RevokeInv'
    BY <1>1, <1>3, ReturnRevokeInv, NotServed DEF CreateWrite
  <1>4. ASSUME NEW id \in Ids, LookupRead(p, id) PROVE RevokeInv'
    <2>1. CASE \E out \in {"gone", "error"} : Return(p, id, out)
      <3>1. op' = [op EXCEPT ![p] = Idle] /\ answer'.out # "served"
        BY <2>1 DEF Return
      <3> QED BY <1>1, <3>1, ReturnRevokeInv, NotServed
    <2>2. CASE ~\E out \in {"gone", "error"} : Return(p, id, out)
      <3> DEFINE s == record[id].session
      <3>1. /\ record[id] # None /\ answer' = None
            /\ op' = [op EXCEPT ![p] =
                        [Idle EXCEPT !.pc = "check", !.id = id, !.session = s,
                                     !.floor = barrier[s.owner], !.late = id \in ended]]
        BY <1>4, <2>2 DEF LookupRead
      <3>2. /\ op'[p].pc = "check" /\ op'[p].floor = barrier[s.owner] /\ op'[p].session = s
            /\ \A q \in Procs \ {p} : op'[q] = op[q]
        BY <3>1 DEF StoreInv, TypeOK, Idle
      <3>3. barrier[s.owner] \in Int
        BY <3>1, NoneAssumption DEF StoreInv, TypeOK, Entry, Session, Never
      <3>4. FloorOK(p)' /\ RevokeSubjectHolds'
        BY <1>1, <3>1, <3>2, <3>3, NotServed DEF FloorOK, Looking
      <3> QED BY <1>1, <3>2, <3>4, CallerRevokeInv
    <2> QED BY <2>1, <2>2
  <1>5. ASSUME LookupCheck(p) \/ LookupRefuse(p) PROVE RevokeInv'
    <2>1. /\ op[p].pc \in Looking /\ answer' = None
          /\ op'[p].pc \in {"forget", "marker"} /\ op'[p].floor = op[p].floor
          /\ op'[p].session = op[p].session /\ \A q \in Procs \ {p} : op'[q] = op[q]
      BY <1>5 DEF LookupCheck, LookupRefuse, StoreInv, TypeOK, Op, Looking
    <2>2. FloorOK(p)' /\ RevokeSubjectHolds'
      BY <1>1, <2>1, NotServed DEF FloorOK, Looking, RevokeInv
    <2> QED BY <1>1, <2>1, <2>2, CallerRevokeInv
  <1>6. ASSUME NEW o \in Outcomes, LookupForget(p, o) PROVE RevokeInv'
    BY <1>1, <1>6, ReturnRevokeInv, NotServed DEF LookupForget, Return
  <1>7. ASSUME LookupMarkerUnknown(p) PROVE RevokeInv'
    BY <1>1, <1>7, ReturnRevokeInv, NotServed DEF LookupMarkerUnknown, Return
  <1>8. ASSUME LookupPass(p) PROVE RevokeInv'
    <2>1. \/ op[p].session.created > op[p].floor
          \/ clock >= op[p].session.expires
      BY <1>8, MarkerDecides DEF LookupPass
    <2>2. CASE Serve(p)
      BY <1>1, <2>1, <2>2, ServedFairly, ReturnRevokeInv DEF Serve
    <2>3. CASE ~Serve(p)
      <3> DEFINE s == [op[p].session EXCEPT !.lastSeen = op[p].now]
      <3>1. op' = [op EXCEPT ![p].pc = "touch", ![p].session = s] /\ answer' = None
            /\ op[p].pc = "marker"
        BY <1>8, <2>3 DEF LookupPass, Touched
      <3>2. op[p].session \in Session
        BY <3>1 DEF StoreInv, OpInv, OpOK, Holding
      <3>3. SameSession(s, op[p].session)
        BY <3>2 DEF Session, SameSession
      <3> HIDE DEF s
      <3>4. /\ op'[p].pc = "touch" /\ op'[p].floor = op[p].floor /\ op'[p].session = s
            /\ \A q \in Procs \ {p} : op'[q] = op[q]
        BY <3>1 DEF StoreInv, TypeOK, Op
      <3>5. FloorOK(p)' /\ RevokeSubjectHolds'
        BY <1>1, <2>1, <3>1, <3>3, <3>4, NotServed
           DEF FloorOK, Looking, RevokeInv, SameSession
      <3> QED BY <1>1, <3>4, <3>5, CallerRevokeInv
    <2> QED BY <2>2, <2>3
  <1>9. ASSUME NEW o \in Outcomes, LookupTouch(p, o) PROVE RevokeInv'
    <2>1. \/ op[p].session.created > op[p].floor
          \/ clock >= op[p].session.expires
      BY <1>9 DEF LookupTouch, RevokeInv, FloorOK
    <2>2. CASE Serve(p)
      BY <1>1, <2>1, <2>2, ServedFairly, ReturnRevokeInv DEF Serve
    <2>3. CASE ~Serve(p)
      BY <1>1, <1>9, <2>3, ReturnRevokeInv, NotServed DEF LookupTouch, Return
    <2> QED BY <2>2, <2>3
  <1>10. ASSUME NEW id \in Ids, NEW o \in Outcomes, Revoke(p, id, o) PROVE RevokeInv'
    BY <1>10 DEF Revoke, RevokeInv, MarkerInv, MarkOK, FloorOK, RevokeSubjectHolds, Answered
  <1> QED BY <1>2, <1>3, <1>4, <1>5, <1>6, <1>7, <1>8, <1>9, <1>10 DEF CallerNext

\* The instant RevokeSubject reads is no older than any before it.
LEMMA RevokeSubjectBeginRevokeInv ==
    ASSUME StoreInv, RevokeInv, NEW p \in Procs, NEW s \in Subjects,
           RevokeSubjectBegin(p, s)
    PROVE  RevokeInv'
  <1>1. UNCHANGED <<clock, marker, barrier>> /\ answer' = None
    BY DEF RevokeSubjectBegin, cacheVars
  <1>2. op'[p].pc = "mark" /\ op'[p].subject = s /\ op'[p].now = clock
    BY DEF RevokeSubjectBegin, StoreInv, TypeOK, Idle
  <1>3. \A q \in Procs \ {p} : op'[q] = op[q]
    BY DEF RevokeSubjectBegin, StoreInv, TypeOK
  <1>4. MarkerInv'
    BY <1>1 DEF RevokeInv, MarkerInv
  <1>5. MarkOK(p)' /\ FloorOK(p)'
    BY <1>1, <1>2 DEF MarkOK, FloorOK, Looking, RevokeInv, MarkerInv
  <1>6. ASSUME NEW q \in Procs \ {p} PROVE MarkOK(q)' /\ FloorOK(q)'
    BY <1>1, <1>3 DEF RevokeInv, MarkOK, FloorOK
  <1> QED BY <1>1, <1>4, <1>5, <1>6, NotServed DEF RevokeInv

\* Here one revoker is needed: nobody else is about to write an older instant.
LEMMA RevokeSubjectWriteRevokeInv ==
    ASSUME OneRevoker, StoreInv, RevokeInv, NEW p \in Revokers, NEW o \in Outcomes,
           RevokeSubjectWrite(p, o)
    PROVE  RevokeInv'
  <1> DEFINE s == op[p].subject  n == op[p].now
  <1>1. /\ p \in Procs /\ s \in Subjects /\ n \in Nat /\ n <= clock /\ clock \in Nat
        /\ op[p].pc = "mark"
    BY TTLAssumption DEF Procs, RevokeSubjectWrite, StoreInv, TypeOK, OpInv, OpOK, Op
  <1>2. /\ barrier[s] <= n
        /\ marker[s] # None => marker[s].at <= n
    BY <1>1 DEF RevokeInv, MarkOK
  <1>3. /\ clock' = clock /\ answer' = None /\ op' = [op EXCEPT ![p] = Idle]
        /\ marker' = marker \/ marker' = [marker EXCEPT ![s] =
                                [at |-> n, until |-> clock + maxAbsoluteTTL]]
        /\ \/ barrier' = barrier
           \/ /\ barrier' = [barrier EXCEPT ![s] = Greatest(barrier[s], n)]
              /\ marker' = [marker EXCEPT ![s] =
                                [at |-> n, until |-> clock + maxAbsoluteTTL]]
    BY DEF RevokeSubjectWrite
  <1>4. /\ \A t \in Subjects : barrier[t] \in Nat \cup {Never}
        /\ barrier[s] \in Nat \cup {Never}
        /\ [at |-> n, until |-> clock + maxAbsoluteTTL] # None
    BY <1>1, MaxTTLType, NoneAssumption DEF StoreInv, TypeOK, Marker
  <1>5. Greatest(barrier[s], n) = n
    BY <1>1, <1>2, <1>4 DEF Greatest, Never
  <1> HIDE DEF s, n
  <1>6. \A t \in Subjects \ {s} : marker'[t] = marker[t] /\ barrier'[t] = barrier[t]
    BY <1>3 DEF StoreInv, TypeOK
  <1>7. \/ marker'[s] = marker[s] /\ barrier'[s] = barrier[s]
        \/ /\ marker'[s] = [at |-> n, until |-> clock + maxAbsoluteTTL]
           /\ barrier'[s] \in {barrier[s], n}
    BY <1>1, <1>3, <1>5 DEF StoreInv, TypeOK
  <1>8. MarkerInv'
    <2> SUFFICES ASSUME NEW t \in Subjects
                 PROVE  /\ marker'[t] # None =>
                            /\ marker'[t].at <= clock
                            /\ marker'[t].until >= marker'[t].at + maxAbsoluteTTL
                        /\ barrier'[t] <= clock
                        /\ \/ barrier'[t] = Never
                           \/ marker'[t] # None /\ barrier'[t] <= marker'[t].at
                           \/ clock >= barrier'[t] + maxAbsoluteTTL
      BY <1>3 DEF MarkerInv
    <2>1. CASE marker'[t] = marker[t] /\ barrier'[t] = barrier[t]
      BY <2>1 DEF RevokeInv, MarkerInv
    <2>2. CASE /\ marker'[t] = [at |-> n, until |-> clock + maxAbsoluteTTL]
               /\ barrier'[t] \in {barrier[s], n}
      BY <1>1, <1>2, <1>4, <2>2, MaxTTLType DEF Never
    <2> QED BY <1>6, <1>7, <2>1, <2>2
  <1>9. \A t \in Subjects : barrier[t] <= barrier'[t]
    BY <1>1, <1>2, <1>4, <1>6, <1>7 DEF Never
  <1>10. ASSUME NEW q \in Procs PROVE MarkOK(q)' /\ FloorOK(q)'
    <2>1. CASE q = p
      <3>1. op'[q].pc = "idle"
        BY <1>3, <2>1 DEF StoreInv, TypeOK, Idle
      <3> QED BY <3>1 DEF MarkOK, FloorOK, Looking
    <2>2. CASE q # p
      <3>1. op'[q] = op[q]
        BY <1>3, <2>2 DEF StoreInv, TypeOK
      <3>2. op[q].pc # "mark"
        BY <1>1, <2>2 DEF OneRevoker, StoreInv, OpInv, OpOK
      <3>3. op[q].pc \in Looking =>
                op[q].session \in Session /\ op[q].session.owner \in Subjects
        BY DEF StoreInv, OpInv, OpOK, Looking, Holding, Session
      <3>4. op[q].floor \in Int
        BY DEF StoreInv, TypeOK, Op
      <3>5. op[q].pc \in Looking => op[q].floor <= barrier'[op[q].session.owner]
        <4>1. SUFFICES ASSUME op[q].pc \in Looking
                       PROVE  op[q].floor <= barrier'[op[q].session.owner]
          OBVIOUS
        <4> DEFINE w == op[q].session.owner
        <4>2. w \in Subjects /\ op[q].floor <= barrier[w]
          BY <3>3, <4>1 DEF RevokeInv, FloorOK
        <4>3. barrier[w] \in Int /\ barrier'[w] \in Int
          BY <1>1, <1>4, <1>6, <1>7, <4>2 DEF Never
        <4> QED BY <1>9, <3>4, <4>2, <4>3
      <3> QED BY <1>3, <3>1, <3>2, <3>5 DEF MarkOK, FloorOK, RevokeInv
    <2> QED BY <2>1, <2>2
  <1> QED BY <1>3, <1>8, <1>10, NotServed DEF RevokeInv

\* A session revoked with its subject is not served to any Lookup that begins
\* after RevokeSubject returned, if RevokeSubject calls do not overlap.
THEOREM RevokeSubjectIsFinal ==
    ASSUME OneRevoker
    PROVE  Spec => []RevokeSubjectHolds
  <1>1. StoreInv /\ RevokeInv /\ [Next]_vars => RevokeInv'
    <2> SUFFICES ASSUME StoreInv, RevokeInv, [Next]_vars PROVE RevokeInv'
      OBVIOUS
    <2>1. CASE Tick
      BY <2>1, TickRevokeInv
    <2>2. ASSUME NEW p \in Callers, CallerNext(p) PROVE RevokeInv'
      BY <2>2, CallerNextRevokeInv DEF Procs
    <2>3. ASSUME NEW p \in Revokers, RevokerNext(p) PROVE RevokeInv'
      BY <2>3, RevokeSubjectBeginRevokeInv, RevokeSubjectWriteRevokeInv
         DEF Procs, RevokerNext
    <2>4. CASE UNCHANGED vars
      BY <2>4 DEF vars, cacheVars, historyVars, RevokeInv, MarkerInv, MarkOK, FloorOK,
                  RevokeSubjectHolds, Answered
    <2> QED BY <2>1, <2>2, <2>3, <2>4 DEF Next
  <1>2. RevokeInv => RevokeSubjectHolds
    BY DEF RevokeInv
  <1> QED BY <1>1, <1>2, InitRevokeInv, StoreInvHolds, PTL DEF Spec

-----------------------------------------------------------------------------
(* Instants are in order *)

\* A session some cookie has was made.
HeldOK(i) == i \in held => born[i] # None

\* A record was last seen no earlier than it was created.
SeenOK(i) == record[i] # None => record[i].session.lastSeen >= record[i].session.created

\* A marker names an instant at which a RevokeSubject had begun.
MarkedOK(s) ==
    /\ marked[s] <= clock
    /\ marker[s] # None => marker[s].at <= marked[s]

AgeOK(p) ==
    /\ op[p].pc \in Holding => op[p].session.lastSeen >= op[p].session.created
    /\ op[p].pc = "marker" => op[p].now >= op[p].session.created
    /\ op[p].pc = "mark" => op[p].now <= marked[op[p].subject]

AgeInv ==
    /\ \A i \in Ids : HeldOK(i) /\ SeenOK(i)
    /\ \A s \in Subjects : MarkedOK(s)
    /\ \A p \in Procs : AgeOK(p)

\* The clock and the marks only advance, condemned only grows and a session once
\* made stays as it was made.
Onward ==
    /\ clock \in Nat /\ clock' \in Nat /\ clock <= clock'
    /\ condemned \subseteq condemned'
    /\ \A s \in Subjects : marked[s] \in Int /\ marked'[s] \in Int /\ marked[s] <= marked'[s]
    /\ \A i \in Ids : born[i] # None => born'[i] = born[i]

\* Every step goes onward.
LEMMA NextOnward == ASSUME StoreInv, AgeInv, Next, TypeOK' PROVE Onward
  <1>1. clock \in Nat /\ clock' \in Nat
    BY TTLAssumption DEF StoreInv, TypeOK
  <1>2. \A s \in Subjects : marked[s] \in Int /\ marked'[s] \in Int /\ marked[s] <= clock
    BY DEF StoreInv, TypeOK, AgeInv, MarkedOK, Never
  <1>3. clock' = clock \/ clock' = clock + 1
    BY DEF Next, Tick, CallerNext, RevokerNext, CreateBegin, CreateWrite, LookupRead,
           LookupCheck, LookupForget, LookupMarkerUnknown, LookupRefuse, LookupPass,
           LookupTouch, Revoke, RevokeSubjectBegin, RevokeSubjectWrite
  <1>4. condemned' = condemned \/ \E id \in Ids : condemned' = condemned \cup {id}
    BY DEF Next, Tick, CallerNext, RevokerNext, CreateBegin, CreateWrite, LookupRead,
           LookupCheck, LookupForget, LookupMarkerUnknown, LookupRefuse, LookupPass,
           LookupTouch, Revoke, RevokeSubjectBegin, RevokeSubjectWrite, Serve, historyVars
  <1>5. marked' = marked \/ \E s \in Subjects : marked' = [marked EXCEPT ![s] = clock]
    BY DEF Next, Tick, CallerNext, RevokerNext, CreateBegin, CreateWrite, LookupRead,
           LookupCheck, LookupForget, LookupMarkerUnknown, LookupRefuse, LookupPass,
           LookupTouch, Revoke, RevokeSubjectBegin, RevokeSubjectWrite, Serve, historyVars
  <1>6. \A s \in Subjects : marked[s] <= marked'[s]
    BY <1>1, <1>2, <1>5 DEF StoreInv, TypeOK
  <1>7. born' = born \/ \E id \in Ids : born[id] = None /\ \E x : born' = [born EXCEPT ![id] = x]
    BY DEF Next, Tick, CallerNext, RevokerNext, CreateBegin, CreateWrite, LookupRead,
           LookupCheck, LookupForget, LookupMarkerUnknown, LookupRefuse, LookupPass,
           LookupTouch, Revoke, RevokeSubjectBegin, RevokeSubjectWrite, Serve, historyVars, newID
  <1>8. \A i \in Ids : born[i] # None => born'[i] = born[i]
    BY <1>7 DEF StoreInv, TypeOK
  <1> QED BY <1>1, <1>2, <1>3, <1>4, <1>6, <1>8 DEF Onward

\* A request that a step does not move keeps what it knows.
LEMMA AgeStable ==
    ASSUME StoreInv, Onward, NEW q \in Procs, AgeOK(q), op'[q] = op[q]
    PROVE  AgeOK(q)'
  <1>1. op[q].pc = "mark" => op[q].subject \in Subjects /\ op[q].now \in Nat
    BY DEF StoreInv, TypeOK, OpInv, OpOK, Op
  <1>2. op[q].pc = "mark" => op[q].now <= marked'[op[q].subject]
    BY <1>1 DEF AgeOK, Onward
  <1> QED BY <1>2 DEF AgeOK

\* Nothing is stored and nobody is inside at first.
LEMMA InitAgeInv == Init => AgeInv
  BY DEF Init, AgeInv, HeldOK, SeenOK, MarkedOK, AgeOK, Idle, Holding, Never

\* A step of request p that leaves the markers alone has only to answer for what
\* p now knows, for the records it wrote and for the ids it handed out.
LEMMA CallerAgeInv ==
    ASSUME StoreInv, AgeInv, Onward, NEW p \in Procs,
           marker' = marker, marked' = marked, \A q \in Procs \ {p} : op'[q] = op[q],
           AgeOK(p)', \A i \in Ids : SeenOK(i)',
           \A i \in Ids : i \in held' => i \in held \/ born'[i] # None
    PROVE  AgeInv'
  <1>1. ASSUME NEW q \in Procs PROVE AgeOK(q)'
    BY AgeStable DEF AgeInv
  <1>2. ASSUME NEW i \in Ids PROVE HeldOK(i)'
    BY DEF AgeInv, HeldOK, Onward
  <1>3. ASSUME NEW s \in Subjects PROVE MarkedOK(s)'
    <2>1. marked[s] \in Int /\ marked[s] <= clock
      BY DEF AgeInv, MarkedOK, Onward
    <2>2. marker[s] # None => marker[s].at \in Nat /\ marker[s].at <= marked[s]
      BY DEF StoreInv, TypeOK, Marker, AgeInv, MarkedOK
    <2> QED BY <2>1, <2>2 DEF MarkedOK, Onward
  <1> QED BY <1>1, <1>2, <1>3 DEF AgeInv

\* A request that returns knows nothing.
LEMMA IdleAge ==
    ASSUME StoreInv, NEW p \in Procs, op' = [op EXCEPT ![p] = Idle]
    PROVE  AgeOK(p)' /\ \A q \in Procs \ {p} : op'[q] = op[q]
  <1>1. op'[p].pc = "idle"
    BY DEF StoreInv, TypeOK, Idle
  <1>2. AgeOK(p)'
    BY <1>1 DEF AgeOK, Holding
  <1>3. \A q \in Procs \ {p} : op'[q] = op[q]
    BY DEF StoreInv, TypeOK
  <1> QED BY <1>2, <1>3

\* What write stores was seen after it was created.
LEMMA WriteAge ==
    ASSUME StoreInv, AgeInv, NEW p \in Procs, op[p].pc \in {"create", "touch"},
           NEW o \in Outcomes, write(op[p].id, op[p].session, op[p].now, o)
    PROVE  \A i \in Ids : SeenOK(i)'
  <1> DEFINE id == op[p].id  s == op[p].session  n == op[p].now
  <1>1. s.lastSeen >= s.created
    BY DEF AgeInv, AgeOK, Holding
  <1> DEFINE e == [session |-> s, until |-> clock + remaining(s, n)]
  <1>2. e.session = s
    OBVIOUS
  <1>3. record' = IF o = "failed" THEN record ELSE [record EXCEPT ![id] = e]
    BY DEF write
  <1>4. DOMAIN record = Ids
    BY DEF StoreInv, TypeOK
  <1>5. \A i \in Ids : SeenOK(i)
    BY DEF AgeInv
  <1> HIDE DEF id, s, n, e
  <1>6. \A i \in Ids : record'[i] = record[i] \/ record'[i] = e
    BY <1>3, <1>4
  <1> QED BY <1>1, <1>2, <1>5, <1>6 DEF SeenOK

\* Time passes for everybody, and records and markers only go.
LEMMA TickAgeInv ==
    ASSUME StoreInv, AgeInv, Onward, Tick
    PROVE  AgeInv'
  <1>1. /\ clock' = clock + 1 /\ clock \in Nat
        /\ UNCHANGED <<op, born, held, marked>>
    BY DEF Tick, historyVars, Onward
  <1>2. \A i \in Ids : record'[i] = record[i] \/ record'[i] = None
    BY DEF Tick
  <1>3. \A s \in Subjects : marker'[s] = marker[s] \/ marker'[s] = None
    BY DEF Tick
  <1>4. \A i \in Ids : HeldOK(i)' /\ SeenOK(i)'
    BY <1>1, <1>2 DEF HeldOK, SeenOK, AgeInv
  <1>5. \A s \in Subjects : MarkedOK(s)'
    <2>1. \A s \in Subjects : marked[s] \in Int
      BY DEF Onward
    <2> QED BY <1>1, <1>3, <2>1 DEF MarkedOK, AgeInv
  <1>6. \A q \in Procs : AgeOK(q)'
    BY <1>1, AgeStable DEF AgeInv
  <1> QED BY <1>4, <1>5, <1>6 DEF AgeInv

\* A new session was seen when it was created.
LEMMA CreateBeginAgeInv ==
    ASSUME StoreInv, AgeInv, Onward, NEW p \in Procs, NEW s \in Subjects,
           NEW persistent \in BOOLEAN, CreateBegin(p, s, persistent)
    PROVE  AgeInv'
  <1>1. /\ UNCHANGED <<clock, record, marker, held, marked>>
        /\ op'[p].pc = "create" /\ op'[p].session = NewSession(s, persistent, clock)
        /\ \A q \in Procs \ {p} : op'[q] = op[q]
    BY DEF CreateBegin, cacheVars, StoreInv, TypeOK, Idle
  <1>2. op'[p].session.lastSeen = clock /\ op'[p].session.created = clock
    BY <1>1 DEF NewSession
  <1>3. AgeOK(p)'
    BY <1>1, <1>2 DEF AgeOK, Onward
  <1>4. \A i \in Ids : SeenOK(i)'
    BY <1>1 DEF SeenOK, AgeInv
  <1> QED BY <1>1, <1>3, <1>4, CallerAgeInv

\* An id is handed out for a session that was made.
LEMMA CreateWriteAgeInv ==
    ASSUME StoreInv, AgeInv, Onward, NEW p \in Procs, NEW o \in Outcomes, CreateWrite(p, o)
    PROVE  AgeInv'
  <1>1. /\ op[p].pc = "create" /\ UNCHANGED <<marker, marked, born>>
        /\ op' = [op EXCEPT ![p] = Idle]
        /\ held' = IF o = "ok" THEN held \cup {op[p].id} ELSE held
        /\ write(op[p].id, op[p].session, op[p].now, o)
    BY DEF CreateWrite
  <1>2. \A i \in Ids : SeenOK(i)'
    BY <1>1, WriteAge
  <1>3. born[op[p].id] # None
    BY <1>1 DEF StoreInv, OpInv, OpOK, Holding
  <1>4. \A i \in Ids : i \in held' => i \in held \/ born'[i] # None
    BY <1>1, <1>3
  <1> QED BY <1>1, <1>2, <1>4, IdleAge, CallerAgeInv

\* A copy is as old as the record it was read from.
LEMMA LookupReadAgeInv ==
    ASSUME StoreInv, AgeInv, Onward, NEW p \in Procs, NEW id \in Ids, LookupRead(p, id)
    PROVE  AgeInv'
  <1>1. UNCHANGED <<clock, record, marker, held, marked, born>>
    BY DEF LookupRead, cacheVars, historyVars
  <1>2. \A i \in Ids : SeenOK(i)'
    BY <1>1 DEF SeenOK, AgeInv
  <1>3. CASE op' = [op EXCEPT ![p] = Idle]
    BY <1>1, <1>2, <1>3, IdleAge, CallerAgeInv
  <1>4. CASE op' # [op EXCEPT ![p] = Idle]
    <2>1. /\ record[id] # None
          /\ op' = [op EXCEPT ![p] =
                      [Idle EXCEPT !.pc = "check", !.id = id,
                                   !.session = record[id].session,
                                   !.floor = barrier[record[id].session.owner],
                                   !.late = id \in ended]]
      BY <1>4 DEF LookupRead, Return
    <2>2. /\ op'[p].pc = "check" /\ op'[p].session = record[id].session
          /\ \A q \in Procs \ {p} : op'[q] = op[q]
      BY <2>1 DEF StoreInv, TypeOK, Idle
    <2>3. record[id].session.lastSeen >= record[id].session.created
      BY <2>1 DEF AgeInv, SeenOK
    <2>4. AgeOK(p)'
      BY <2>2, <2>3 DEF AgeOK
    <2> QED BY <1>1, <1>2, <2>2, <2>4, CallerAgeInv
  <1> QED BY <1>3, <1>4

\* The check reads a clock no earlier than the session's beginning.
LEMMA LookupCheckAgeInv ==
    ASSUME StoreInv, AgeInv, Onward, NEW p \in Procs, LookupCheck(p)
    PROVE  AgeInv'
  <1>1. /\ UNCHANGED <<clock, record, marker, held, marked, born>>
        /\ op[p].pc = "check"
        /\ op' = [op EXCEPT ![p].now = clock,
                            ![p].pc = IF Lapsed(op[p].session, clock)
                                      THEN "forget" ELSE "marker"]
    BY DEF LookupCheck, cacheVars, historyVars
  <1>2. /\ op'[p].now = clock /\ op'[p].session = op[p].session
        /\ op'[p].pc \in {"forget", "marker"}
        /\ \A q \in Procs \ {p} : op'[q] = op[q]
    BY <1>1 DEF StoreInv, TypeOK, Op
  <1>3. /\ op[p].id \in Ids /\ op[p].session \in Session /\ born[op[p].id] # None
        /\ SameSession(op[p].session, born[op[p].id])
    BY <1>1 DEF StoreInv, OpInv, OpOK, Holding
  <1>4. op[p].session.created <= clock
    BY <1>3 DEF StoreInv, BornInv, SameSession
  <1>5. op[p].session.lastSeen >= op[p].session.created
    BY <1>1 DEF AgeInv, AgeOK, Holding
  <1>6. op[p].session.created \in Nat /\ clock \in Nat
    BY <1>3 DEF Session, Onward
  <1>7. AgeOK(p)'
    BY <1>2, <1>4, <1>5, <1>6 DEF AgeOK
  <1>8. \A i \in Ids : SeenOK(i)'
    BY <1>1 DEF SeenOK, AgeInv
  <1> QED BY <1>1, <1>2, <1>7, <1>8, CallerAgeInv

\* forget drops a record at the most.
LEMMA LookupForgetAgeInv ==
    ASSUME StoreInv, AgeInv, Onward, NEW p \in Procs, NEW o \in Outcomes, LookupForget(p, o)
    PROVE  AgeInv'
  <1>1. /\ UNCHANGED <<marker, held, marked, born>>
        /\ op' = [op EXCEPT ![p] = Idle]
    BY DEF LookupForget, Return, historyVars
  <1>2. \A i \in Ids : record'[i] = record[i] \/ record'[i] = None
    BY DEF LookupForget, delete, StoreInv, TypeOK
  <1>3. \A i \in Ids : SeenOK(i)'
    BY <1>2 DEF SeenOK, AgeInv
  <1> QED BY <1>1, <1>3, IdleAge, CallerAgeInv

\* An unreadable marker changes nothing.
LEMMA LookupMarkerUnknownAgeInv ==
    ASSUME StoreInv, AgeInv, Onward, NEW p \in Procs, LookupMarkerUnknown(p)
    PROVE  AgeInv'
  <1>1. /\ UNCHANGED <<record, marker, held, marked, born>>
        /\ op' = [op EXCEPT ![p] = Idle]
    BY DEF LookupMarkerUnknown, Return, cacheVars, historyVars
  <1>2. \A i \in Ids : SeenOK(i)'
    BY <1>1 DEF SeenOK, AgeInv
  <1> QED BY <1>1, <1>2, IdleAge, CallerAgeInv

\* A refused request goes on with the copy it has.
LEMMA LookupRefuseAgeInv ==
    ASSUME StoreInv, AgeInv, Onward, NEW p \in Procs, LookupRefuse(p)
    PROVE  AgeInv'
  <1>1. /\ UNCHANGED <<record, marker, held, marked, born>> /\ op[p].pc = "marker"
        /\ op' = [op EXCEPT ![p].pc = "forget"]
    BY DEF LookupRefuse, cacheVars, historyVars
  <1>2. /\ op'[p].pc = "forget" /\ op'[p].session = op[p].session
        /\ \A q \in Procs \ {p} : op'[q] = op[q]
    BY <1>1 DEF StoreInv, TypeOK, Op
  <1>3. op[p].session.lastSeen >= op[p].session.created
    BY <1>1 DEF AgeInv, AgeOK, Holding
  <1>4. AgeOK(p)'
    BY <1>2, <1>3 DEF AgeOK
  <1>5. \A i \in Ids : SeenOK(i)'
    BY <1>1 DEF SeenOK, AgeInv
  <1> QED BY <1>1, <1>2, <1>4, <1>5, CallerAgeInv

\* A session that passes is served as it is, or touched at an instant after it
\* began.
LEMMA LookupPassAgeInv ==
    ASSUME StoreInv, AgeInv, Onward, NEW p \in Procs, LookupPass(p)
    PROVE  AgeInv'
  <1>1. UNCHANGED <<record, marker, held, marked, born>> /\ op[p].pc = "marker"
    BY DEF LookupPass, Serve, cacheVars, historyVars
  <1>2. \A i \in Ids : SeenOK(i)'
    BY <1>1 DEF SeenOK, AgeInv
  <1>3. CASE Serve(p)
    <2>1. op' = [op EXCEPT ![p] = Idle]
      BY <1>3 DEF Serve
    <2> QED BY <1>1, <1>2, <2>1, IdleAge, CallerAgeInv
  <1>4. CASE ~Serve(p)
    <2> DEFINE s == [op[p].session EXCEPT !.lastSeen = op[p].now]
    <2>1. op' = [op EXCEPT ![p].pc = "touch", ![p].session = s]
      BY <1>4 DEF LookupPass, Touched
    <2>2. op[p].session \in Session
      BY <1>1 DEF StoreInv, OpInv, OpOK, Holding
    <2>3. s.lastSeen = op[p].now /\ s.created = op[p].session.created
      BY <2>2 DEF Session
    <2>4. op[p].now >= op[p].session.created
      BY <1>1 DEF AgeInv, AgeOK
    <2> HIDE DEF s
    <2>5. /\ op'[p].pc = "touch" /\ op'[p].session = s
          /\ \A q \in Procs \ {p} : op'[q] = op[q]
      BY <2>1 DEF StoreInv, TypeOK, Op
    <2>6. AgeOK(p)'
      BY <2>3, <2>4, <2>5 DEF AgeOK
    <2> QED BY <1>1, <1>2, <2>5, <2>6, CallerAgeInv
  <1> QED BY <1>3, <1>4

\* touch writes back a copy that is in order.
LEMMA LookupTouchAgeInv ==
    ASSUME StoreInv, AgeInv, Onward, NEW p \in Procs, NEW o \in Outcomes, LookupTouch(p, o)
    PROVE  AgeInv'
  <1>1. /\ UNCHANGED <<marker, held, marked, born>>
        /\ op[p].pc = "touch" /\ write(op[p].id, op[p].session, op[p].now, o)
        /\ op' = [op EXCEPT ![p] = Idle]
    BY DEF LookupTouch, Serve, Return, historyVars
  <1>2. \A i \in Ids : SeenOK(i)'
    BY <1>1, WriteAge
  <1> QED BY <1>1, <1>2, IdleAge, CallerAgeInv

\* Revoke drops a record at the most.
LEMMA RevokeAgeInv ==
    ASSUME StoreInv, AgeInv, Onward, NEW p \in Procs, NEW id \in Ids, NEW o \in Outcomes,
           Revoke(p, id, o)
    PROVE  AgeInv'
  <1>1. UNCHANGED <<marker, op, held, marked, born>>
    BY DEF Revoke
  <1>2. \A i \in Ids : record'[i] = record[i] \/ record'[i] = None
    BY DEF Revoke, delete, StoreInv, TypeOK
  <1>3. \A i \in Ids : SeenOK(i)'
    BY <1>2 DEF SeenOK, AgeInv
  <1>4. AgeOK(p)' /\ \A q \in Procs \ {p} : op'[q] = op[q]
    BY <1>1, AgeStable DEF AgeInv
  <1> QED BY <1>1, <1>3, <1>4, CallerAgeInv

\* RevokeSubject marks the instant it reads, and writes it later: whatever marker
\* a Lookup meets is an instant that had been marked.
LEMMA RevokerAgeInv ==
    ASSUME StoreInv, AgeInv, Onward, NEW p \in Procs, RevokerNext(p)
    PROVE  AgeInv'
  <1>1. UNCHANGED <<clock, record, held, born>>
    BY DEF RevokerNext, RevokeSubjectBegin, RevokeSubjectWrite, cacheVars
  <1>2. \A i \in Ids : SeenOK(i)' /\ HeldOK(i)'
    BY <1>1 DEF SeenOK, HeldOK, AgeInv
  <1>3. \A s \in Subjects : marked[s] \in Int /\ marked'[s] \in Int /\ marked[s] <= marked'[s]
    BY DEF Onward
  <1>4. \A s \in Subjects : marker[s] # None => marker[s].at \in Nat
    BY DEF StoreInv, TypeOK, Marker
  <1>5. ASSUME NEW s \in Subjects, RevokeSubjectBegin(p, s) PROVE AgeInv'
    <2>1. /\ op'[p].pc = "mark" /\ op'[p].subject = s /\ op'[p].now = clock
          /\ \A q \in Procs \ {p} : op'[q] = op[q]
          /\ marker' = marker /\ marked' = [marked EXCEPT ![s] = clock]
      BY <1>5 DEF RevokeSubjectBegin, StoreInv, TypeOK, Idle, cacheVars
    <2>2. marked'[s] = clock /\ \A t \in Subjects : marked'[t] = marked[t] \/ marked'[t] = clock
      BY <2>1 DEF StoreInv, TypeOK
    <2>3. AgeOK(p)'
      BY <2>1, <2>2 DEF AgeOK, Holding, Onward
    <2>4. \A q \in Procs : AgeOK(q)'
      BY <2>1, <2>3, AgeStable DEF AgeInv
    <2>5. \A t \in Subjects : MarkedOK(t)'
      BY <1>1, <1>3, <1>4, <2>1, <2>2 DEF MarkedOK, AgeInv, Onward
    <2> QED BY <1>2, <2>4, <2>5 DEF AgeInv
  <1>6. ASSUME NEW o \in Outcomes, RevokeSubjectWrite(p, o) PROVE AgeInv'
    <2> DEFINE s == op[p].subject  n == op[p].now
    <2> DEFINE m == [at |-> n, until |-> clock + maxAbsoluteTTL]
    <2>1. /\ op[p].pc = "mark" /\ op' = [op EXCEPT ![p] = Idle] /\ marked' = marked
          /\ marker' = marker \/ marker' = [marker EXCEPT ![s] = m]
      BY <1>6 DEF RevokeSubjectWrite
    <2>2. s \in Subjects /\ n <= marked[s]
      BY <2>1 DEF StoreInv, OpInv, OpOK, AgeInv, AgeOK
    <2>3. m.at = n
      OBVIOUS
    <2>4. DOMAIN marker = Subjects
      BY DEF StoreInv, TypeOK
    <2> HIDE DEF s, n, m
    <2>5. \A t \in Subjects : marker'[t] = marker[t] \/ (t = s /\ marker'[t] = m)
      BY <2>1, <2>4
    <2>6. \A t \in Subjects : MarkedOK(t)'
      BY <1>1, <2>1, <2>2, <2>3, <2>5 DEF MarkedOK, AgeInv
    <2>7. \A q \in Procs : AgeOK(q)'
      BY <2>1, IdleAge, AgeStable DEF AgeInv
    <2> QED BY <1>2, <2>6, <2>7 DEF AgeInv
  <1> QED BY <1>5, <1>6 DEF RevokerNext

\* Every reachable state keeps AgeInv.
LEMMA AgeInvHolds == Spec => []AgeInv
  <1>1. StoreInv /\ AgeInv /\ StoreInv' /\ [Next]_vars => AgeInv'
    <2> SUFFICES ASSUME StoreInv, AgeInv, StoreInv', [Next]_vars PROVE AgeInv'
      OBVIOUS
    <2>1. CASE UNCHANGED vars
      BY <2>1 DEF vars, cacheVars, historyVars, AgeInv, HeldOK, SeenOK, MarkedOK, AgeOK
    <2>2. CASE Next
      <3>1. Onward
        BY <2>2, NextOnward DEF StoreInv
      <3>2. CASE Tick
        BY <3>1, <3>2, TickAgeInv
      <3>3. ASSUME NEW p \in Callers, CallerNext(p) PROVE AgeInv'
        <4>1. p \in Procs
          BY DEF Procs
        <4> QED BY <3>1, <3>3, <4>1, CreateBeginAgeInv, CreateWriteAgeInv,
                   LookupReadAgeInv, LookupCheckAgeInv, LookupForgetAgeInv,
                   LookupMarkerUnknownAgeInv, LookupRefuseAgeInv, LookupPassAgeInv,
                   LookupTouchAgeInv, RevokeAgeInv DEF CallerNext
      <3>4. ASSUME NEW p \in Revokers, RevokerNext(p) PROVE AgeInv'
        BY <3>1, <3>4, RevokerAgeInv DEF Procs
      <3> QED BY <2>2, <3>2, <3>3, <3>4 DEF Next
    <2> QED BY <2>1, <2>2
  <1> QED BY <1>1, InitAgeInv, StoreInvHolds, PTL DEF Spec

-----------------------------------------------------------------------------
(* ErrSessionNotFound, and the idle deadline *)

\* Why a Lookup of i may answer that there is no such session.
Excused(i) ==
    \/ i \in condemned
    \/ marked[born[i].owner] >= born[i].created
    \/ clock >= born[i].expires
    \/ /\ clock >= born[i].created + IdleTTL
       /\ clock + idleRefreshInterval >= soleUse[i] + IdleTTL

\* A copy is no further behind the last use that met nobody than the refresh
\* interval.
Kept(s, i) == s.lastSeen + idleRefreshInterval >= soleUse[i]

\* Why the record a copy was read from may be missing.
Over(s, i) ==
    \/ i \in condemned
    \/ clock >= s.expires
    \/ clock >= idleDeadline(s)

UsedOK(i) ==
    /\ i \notin held => soleUse[i] = Never
    /\ record[i] # None => Kept(record[i].session, i)
    /\ i \in held /\ record[i] = None => Excused(i)

\* No copy is far behind, and a request that has met nobody holds what is still
\* stored.
CopyOK(p) ==
    /\ op[p].pc \in Holding => Kept(op[p].session, op[p].id)
    /\ op[p].pc \in {"check", "marker"} /\ p \notin met =>
         IF record[op[p].id] # None
         THEN record[op[p].id].session = op[p].session
         ELSE Over(op[p].session, op[p].id)
    /\ op[p].pc = "touch" => op[p].session.lastSeen = op[p].now
    /\ op[p].pc = "forget" => Excused(op[p].id)

\* Two requests inside for one session have met.
MetOK(p, q) ==
    p # q /\ op[p].pc \in Holding /\ op[q].pc \in Holding /\ op[p].id = op[q].id
        => p \in met /\ q \in met

UseInv ==
    /\ \A i \in Ids : UsedOK(i)
    /\ \A p \in Procs : CopyOK(p)
    /\ \A p, q \in Procs : MetOK(p, q)
    /\ NotFoundIsEarned

\* The refresh interval is a number of clock units.
LEMMA IntervalType == idleRefreshInterval \in Nat
  BY TTLAssumption DEF idleRefreshInterval

\* What excuses the answer goes on excusing it until the session is used again.
LEMMA ExcuseLasts ==
    ASSUME StoreInv, StoreInv', Onward, NEW i \in Ids, born[i] # None,
           soleUse'[i] = soleUse[i], Excused(i)
    PROVE  Excused(i)'
  <1>1. born'[i] = born[i]
    BY DEF Onward
  <1>2. born[i] \in Session
    BY DEF StoreInv, TypeOK
  <1>3. /\ born[i].owner \in Subjects /\ born[i].created \in Nat
        /\ born[i].expires \in Nat
    BY <1>2 DEF Session
  <1>4. /\ marked[born[i].owner] \in Int /\ marked'[born[i].owner] \in Int
        /\ marked[born[i].owner] <= marked'[born[i].owner]
    BY <1>3 DEF Onward
  <1>5. /\ clock \in Nat /\ clock' \in Nat /\ clock <= clock'
        /\ condemned \subseteq condemned'
    BY DEF Onward
  <1>6. IdleTTL \in Nat /\ soleUse[i] \in Int
    BY TTLAssumption DEF StoreInv, TypeOK, Never
  <1>7. idleRefreshInterval' = idleRefreshInterval /\ idleRefreshInterval \in Nat
    BY IntervalType DEF idleRefreshInterval
  <1> QED BY <1>1, <1>3, <1>4, <1>5, <1>6, <1>7 DEF Excused

\* A copy whose record may be missing goes on so.
LEMMA OverLasts ==
    ASSUME Onward, NEW i \in Ids, NEW s \in Session, Over(s, i)
    PROVE  Over(s, i)'
  <1>1. s.expires \in Nat /\ s.lastSeen \in Nat
    BY DEF Session
  <1>2. IdleTTL \in Nat
    BY TTLAssumption
  <1>3. /\ clock \in Nat /\ clock' \in Nat /\ clock <= clock'
        /\ condemned \subseteq condemned'
    BY DEF Onward
  <1> QED BY <1>1, <1>2, <1>3 DEF Over, idleDeadline

\* An id that a step leaves alone stays in order.
LEMMA UsedStable ==
    ASSUME StoreInv, StoreInv', AgeInv, Onward, NEW i \in Ids, UsedOK(i),
           record'[i] = record[i], soleUse'[i] = soleUse[i], (i \in held') <=> (i \in held)
    PROVE  UsedOK(i)'
  <1>1. i \in held /\ record[i] = None => born[i] # None /\ Excused(i)
    BY DEF UsedOK, AgeInv, HeldOK
  <1>2. i \in held /\ record[i] = None => Excused(i)'
    BY <1>1, ExcuseLasts
  <1> QED BY <1>2 DEF UsedOK, Kept, idleRefreshInterval

\* A request that a step leaves alone stays in order, if its record is left alone
\* too or it has met another.
LEMMA CopyStable ==
    ASSUME StoreInv, StoreInv', Onward, NEW q \in Procs, CopyOK(q), op'[q] = op[q],
           NEW i, i = op[q].id, q \in met => q \in met',
           op[q].pc \in Holding => /\ soleUse'[i] = soleUse[i]
                                   /\ record'[i] = record[i] \/ q \in met'
    PROVE  CopyOK(q)'
  <1>1. op[q].pc \in Holding => i \in Ids /\ op[q].session \in Session /\ born[i] # None
    BY DEF StoreInv, OpInv, OpOK
  <1>2. op'[q].id = i
    OBVIOUS
  <1> DEFINE s == op[q].session
  <1>3. op'[q].session = s
    OBVIOUS
  <1>4. op[q].pc \in Holding => Kept(s, i)'
    BY DEF CopyOK, Kept, idleRefreshInterval
  <1>5. op[q].pc \in Holding /\ Over(s, i) => Over(s, i)'
    BY <1>1, OverLasts
  <1>6. op[q].pc \in Holding /\ Excused(i) => Excused(i)'
    BY <1>1, ExcuseLasts
  <1> QED BY <1>2, <1>3, <1>4, <1>5, <1>6 DEF CopyOK, Holding, Kept, Over, Excused

\* A session whose copy is over, and not far behind its use, was used too long ago.
LEMMA KeptOver ==
    ASSUME StoreInv', NEW i \in Ids, NEW s \in Session,
           SameSession(s, born'[i]), s.lastSeen >= s.created, Kept(s, i)', Over(s, i)'
    PROVE  Excused(i)'
  <1>1. s.created \in Nat /\ s.expires \in Nat /\ s.lastSeen \in Nat
    BY DEF Session
  <1>2. clock' \in Nat /\ soleUse'[i] \in Int /\ IdleTTL \in Nat
    BY TTLAssumption DEF StoreInv, TypeOK, Never
  <1>3. idleRefreshInterval' = idleRefreshInterval /\ idleRefreshInterval \in Nat
    BY IntervalType DEF idleRefreshInterval
  <1>4. i \in condemned' \/ clock' >= s.expires \/ clock' >= s.lastSeen + IdleTTL
    BY DEF Over, idleDeadline
  <1>5. s.lastSeen + idleRefreshInterval >= soleUse'[i]
    BY <1>3 DEF Kept
  <1>6. s.created = born'[i].created /\ s.expires = born'[i].expires
    BY DEF SameSession
  <1> QED BY <1>1, <1>2, <1>3, <1>4, <1>5, <1>6 DEF Excused

\* A step of request p alone, which forgets no meeting but p's own and leaves p
\* where it is or outside, leaves nobody inside who has not met.
LEMMA MetStable ==
    ASSUME UseInv, NEW p \in Procs, \A q \in Procs \ {p} : op'[q] = op[q],
           \A q \in met : q \in met' \/ (q = p /\ op'[p].pc \notin Holding),
           op'[p].pc \in Holding => op[p].pc \in Holding /\ op'[p].id = op[p].id
    PROVE  \A r, q \in Procs : MetOK(r, q)'
  <1> SUFFICES ASSUME NEW r \in Procs, NEW q \in Procs, r # q, op'[r].pc \in Holding,
                      op'[q].pc \in Holding, op'[r].id = op'[q].id
               PROVE  r \in met' /\ q \in met'
    BY DEF MetOK
  <1>1. \A k \in {r, q} : op[k].pc \in Holding /\ op[k].id = op'[k].id
    OBVIOUS
  <1>2. r \in met /\ q \in met
    BY <1>1 DEF UseInv, MetOK
  <1> QED BY <1>2

\* A step of request p has only to answer for the one id it is at, for the others
\* that are there, for what p now knows and for its answer.
LEMMA CallerUse ==
    ASSUME StoreInv, StoreInv', AgeInv, Onward, UseInv, NEW p \in Procs, NEW i,
           \A q \in Procs \ {p} : op'[q] = op[q] /\ (q \in met => q \in met'),
           \A q \in Procs \ {p} : op[q].pc \in Holding /\ op[q].id = i =>
                                    q \in met' /\ soleUse'[i] = soleUse[i],
           \A j \in Ids \ {i} : /\ record'[j] = record[j] /\ soleUse'[j] = soleUse[j]
                                /\ (j \in held' <=> j \in held),
           i \in Ids => UsedOK(i)', CopyOK(p)', \A r, q \in Procs : MetOK(r, q)',
           NotFoundIsEarned'
    PROVE  UseInv'
  <1>1. ASSUME NEW j \in Ids PROVE UsedOK(j)'
    <2>1. CASE j = i
      BY <2>1
    <2>2. CASE j # i
      BY <2>2, UsedStable DEF UseInv
    <2> QED BY <2>1, <2>2
  <1>2. ASSUME NEW q \in Procs PROVE CopyOK(q)'
    <2>1. CASE q = p
      BY <2>1
    <2>2. CASE q # p
      <3>1. PICK k : k = op[q].id
        OBVIOUS
      <3>2. op[q].pc \in Holding => k \in Ids
        BY <2>2, <3>1 DEF StoreInv, OpInv, OpOK
      <3>3. op[q].pc \in Holding => /\ soleUse'[k] = soleUse[k]
                                    /\ record'[k] = record[k] \/ q \in met'
        BY <2>2, <3>1, <3>2
      <3> QED BY <2>2, <3>1, <3>3, CopyStable DEF UseInv
    <2> QED BY <2>1, <2>2
  <1> QED BY <1>1, <1>2 DEF UseInv

\* A step of request p that leaves records, uses and held ids alone.
LEMMA QuietUse ==
    ASSUME StoreInv, StoreInv', AgeInv, Onward, UseInv, NEW p \in Procs,
           \A q \in Procs \ {p} : op'[q] = op[q] /\ (q \in met => q \in met'),
           UNCHANGED <<record, soleUse, held>>, CopyOK(p)',
           \A r, q \in Procs : MetOK(r, q)', NotFoundIsEarned'
    PROVE  UseInv'
  <1>1. \A q \in Procs \ {p} : op[q].pc \in Holding => op[q].id # None
    BY NoneAssumption DEF StoreInv, OpInv, OpOK
  <1>2. None \in Ids => UsedOK(None)'
    BY NoneAssumption
  <1> QED BY <1>1, <1>2, CallerUse

\* A request outside Create and Lookup knows nothing.
LEMMA OutsideUse == ASSUME NEW p, op'[p].pc \notin Holding PROVE CopyOK(p)'
  BY DEF CopyOK, Holding

\* A request that returns leaves the others where they are.
LEMMA ReturnUse ==
    ASSUME StoreInv, UseInv, NEW p \in Procs, op' = [op EXCEPT ![p] = Idle],
           met \ {p} \subseteq met'
    PROVE  /\ CopyOK(p)' /\ \A r, q \in Procs : MetOK(r, q)'
           /\ \A q \in Procs \ {p} : op'[q] = op[q] /\ (q \in met => q \in met')
  <1>1. op'[p].pc \notin Holding
    BY DEF StoreInv, TypeOK, Idle, Holding
  <1>2. CopyOK(p)'
    BY <1>1, OutsideUse
  <1>3. \A q \in Procs \ {p} : op'[q] = op[q] /\ (q \in met => q \in met')
    BY DEF StoreInv, TypeOK
  <1>4. \A q \in met : q \in met' \/ (q = p /\ op'[p].pc \notin Holding)
    BY <1>1
  <1>5. \A r, q \in Procs : MetOK(r, q)'
    BY <1>1, <1>3, <1>4, MetStable
  <1> QED BY <1>2, <1>3, <1>5

\* An answer other than ErrSessionNotFound needs no excuse.
LEMMA NotGone == ASSUME answer' = None \/ answer'.out # "gone" PROVE NotFoundIsEarned'
  BY DEF NotFoundIsEarned, Answered

\* The answer is earned where there is an excuse.
LEMMA GoneEarned ==
    ASSUME StoreInv', NEW p, NEW i \in Ids, born'[i] # None, Return(p, i, "gone"), Excused(i)'
    PROVE  NotFoundIsEarned'
  <1>1. answer'.id = i
    BY DEF Return
  <1>2. born'[i] \in Session
    BY DEF StoreInv, TypeOK
  <1>3. born'[i].created \in Nat /\ born'[i].expires \in Nat
    BY <1>2 DEF Session
  <1>4. clock' \in Nat /\ soleUse'[i] \in Int /\ IdleTTL \in Nat
    BY TTLAssumption DEF StoreInv, TypeOK, Never
  <1>5. idleRefreshInterval' = idleRefreshInterval /\ idleRefreshInterval \in Nat
    BY IntervalType DEF idleRefreshInterval
  <1> QED BY <1>1, <1>3, <1>4, <1>5 DEF NotFoundIsEarned, Excused

\* Nothing is stored and nobody is inside at first.
LEMMA InitUseInv == Init => UseInv
  BY DEF Init, UseInv, UsedOK, CopyOK, MetOK, NotFoundIsEarned, Answered, Idle, Holding

-----------------------------------------------------------------------------

\* A record the cache drops by itself had come to one of its deadlines.
LEMMA TickUse ==
    ASSUME StoreInv, StoreInv', AgeInv, Onward, UseInv, Tick
    PROVE  UseInv'
  <1>1. /\ answer' = None
        /\ UNCHANGED <<op, met, born, held, soleUse>>
    BY DEF Tick, historyVars
  <1>2. ASSUME NEW i \in Ids, record'[i] # record[i], NEW s, s = record[i].session
        PROVE  /\ record[i] # None /\ record'[i] = None
               /\ s \in Session /\ Over(s, i)'
    <2>1. record[i] # None /\ record'[i] = None /\ record[i].until <= clock'
      BY <1>2 DEF Tick
    <2>2. s \in Session /\ record[i].until \in Nat
      BY <1>2, <2>1 DEF StoreInv, TypeOK, Entry
    <2>3. record[i].until >= Least(s.expires, idleDeadline(s))
      BY <1>2, <2>1 DEF StoreInv, RecordInv
    <2>4. s.expires \in Nat /\ s.lastSeen \in Nat
      BY <2>2 DEF Session
    <2>5. clock' >= s.expires \/ clock' >= s.lastSeen + IdleTTL
      BY <2>1, <2>2, <2>3, <2>4, TTLAssumption DEF Onward, Least, idleDeadline
    <2> QED BY <2>1, <2>2, <2>5 DEF Over, idleDeadline
  <1>3. ASSUME NEW i \in Ids PROVE UsedOK(i)'
    <2>1. CASE record'[i] = record[i]
      BY <1>1, <2>1, UsedStable DEF UseInv
    <2>2. CASE record'[i] # record[i]
      <3>1. PICK s : s = record[i].session
        OBVIOUS
      <3>2. record[i] # None /\ record'[i] = None /\ s \in Session /\ Over(s, i)'
        BY <1>2, <2>2, <3>1
      <3>3. Kept(s, i) /\ SameSession(s, born[i]) /\ s.lastSeen >= s.created
        BY <3>1, <3>2 DEF UseInv, UsedOK, StoreInv, RecordInv, AgeInv, SeenOK
      <3>4. Kept(s, i)' /\ SameSession(s, born'[i])
        BY <1>1, <3>3 DEF Kept, idleRefreshInterval
      <3>5. Excused(i)'
        BY <3>2, <3>3, <3>4, KeptOver
      <3> QED BY <1>1, <3>2, <3>5 DEF UseInv, UsedOK
    <2> QED BY <2>1, <2>2
  <1>4. ASSUME NEW q \in Procs PROVE CopyOK(q)'
    <2>1. PICK i : i = op[q].id
      OBVIOUS
    <2>2. CASE op[q].pc \in Holding /\ record'[i] # record[i]
      <3>1. PICK s : s = op[q].session
        OBVIOUS
      <3>2. i \in Ids /\ born[i] # None /\ s \in Session
        BY <2>1, <2>2, <3>1 DEF StoreInv, OpInv, OpOK
      <3>3. /\ record[i] # None /\ record'[i] = None
            /\ \A t : t = record[i].session => Over(t, i)'
        BY <1>2, <2>2, <3>2
      <3>4. Kept(s, i) /\ (op[q].pc = "forget" => Excused(i))
        BY <2>1, <2>2, <3>1 DEF UseInv, CopyOK
      <3>5. op[q].pc \in {"check", "marker"} /\ q \notin met' => Over(s, i)'
        BY <1>1, <2>1, <3>1, <3>3 DEF UseInv, CopyOK
      <3>6. op[q].pc = "forget" => Excused(i)'
        BY <1>1, <3>2, <3>4, ExcuseLasts
      <3>7. op[q].pc = "touch" => s.lastSeen = op[q].now
        BY <3>1 DEF UseInv, CopyOK
      <3>8. op'[q] = op[q] /\ Kept(s, i)'
        BY <1>1, <3>4 DEF Kept, idleRefreshInterval
      <3> QED BY <2>1, <3>1, <3>3, <3>5, <3>6, <3>7, <3>8 DEF CopyOK, Kept, Over, Excused
    <2>3. CASE ~(op[q].pc \in Holding /\ record'[i] # record[i])
      BY <1>1, <2>1, <2>3, CopyStable DEF UseInv
    <2> QED BY <2>2, <2>3
  <1>5. \A r, q \in Procs : MetOK(r, q)'
    BY <1>1 DEF UseInv, MetOK
  <1> QED BY <1>1, <1>3, <1>4, <1>5, NotGone DEF UseInv

\* A session nobody has used is kept whatever its copies say, and nobody else is
\* inside for an id that was just drawn.
LEMMA CreateBeginUse ==
    ASSUME StoreInv, StoreInv', AgeInv, Onward, UseInv, NEW p \in Procs, NEW s \in Subjects,
           NEW persistent \in BOOLEAN, CreateBegin(p, s, persistent)
    PROVE  UseInv'
  <1> DEFINE session == NewSession(s, persistent, clock)
  <1>1. PICK id \in Ids :
          /\ born[id] = None
          /\ op' = [op EXCEPT ![p] =
                      [Idle EXCEPT !.pc = "create", !.id = id,
                                   !.session = session, !.now = clock]]
    BY DEF CreateBegin, newID
  <1>2. UNCHANGED <<record, met, soleUse, held>> /\ answer' = None
    BY DEF CreateBegin, cacheVars
  <1>3. session.lastSeen = clock /\ clock \in Nat
    BY DEF NewSession, Onward
  <1> HIDE DEF session
  <1>4. /\ op'[p].pc = "create" /\ op'[p].id = id /\ op'[p].session = session
        /\ \A q \in Procs \ {p} : op'[q] = op[q]
    BY <1>1 DEF StoreInv, TypeOK, Idle
  <1>5. soleUse[id] = -1
    BY <1>1 DEF AgeInv, HeldOK, UseInv, UsedOK, Never
  <1>6. CopyOK(p)'
    BY <1>2, <1>3, <1>4, <1>5, IntervalType DEF CopyOK, Kept, idleRefreshInterval
  <1>7. \A q \in Procs : op[q].pc \in Holding => op[q].id # id
    BY <1>1 DEF StoreInv, OpInv, OpOK
  <1>8. \A r, q \in Procs : MetOK(r, q)'
    BY <1>2, <1>4, <1>7 DEF UseInv, MetOK
  <1> QED BY <1>2, <1>4, <1>6, <1>8, NotGone, QuietUse

\* What write stores is the copy the request holds, and no further behind.
LEMMA WriteUse ==
    ASSUME StoreInv, UseInv, NEW p \in Procs, op[p].pc \in {"create", "touch"},
           NEW o \in Outcomes, write(op[p].id, op[p].session, op[p].now, o),
           NEW i, i = op[p].id
    PROVE  /\ i \in Ids /\ Kept(op[p].session, i)
           /\ \A j \in Ids \ {i} : record'[j] = record[j]
           /\ o = "failed" => record' = record
           /\ o # "failed" => record'[i] # None /\ record'[i].session = op[p].session
  <1> DEFINE s == op[p].session  n == op[p].now
  <1>1. /\ i \in Ids /\ s \in Session /\ n \in Nat /\ n <= clock
        /\ remaining(s, n) > 0 /\ clock \in Nat
    BY TTLAssumption DEF StoreInv, TypeOK, OpInv, OpOK, Holding, Op
  <1> DEFINE e == [session |-> s, until |-> clock + remaining(s, n)]
  <1>2. e \in Entry
    BY <1>1, RemainingType DEF Entry
  <1>3. e # None /\ e.session = s
    BY <1>2, NoneAssumption
  <1>4. record' = IF o = "failed" THEN record ELSE [record EXCEPT ![i] = e]
    BY DEF write
  <1>5. DOMAIN record = Ids
    BY DEF StoreInv, TypeOK
  <1>6. Kept(s, i)
    BY DEF UseInv, CopyOK, Holding
  <1> HIDE DEF n, e
  <1> QED BY <1>1, <1>3, <1>4, <1>5, <1>6

\* Whoever else is inside for p's session has met it.
LEMMA OthersMet ==
    ASSUME UseInv, NEW p \in Procs, op[p].pc \in Holding, NEW i, i = op[p].id,
           NEW q \in Procs \ {p}, op[q].pc \in Holding, op[q].id = i
    PROVE  p \in met /\ q \in met
  BY DEF UseInv, MetOK

\* A session is handed out with a record that is as recent as its use.
LEMMA CreateWriteUse ==
    ASSUME StoreInv, StoreInv', AgeInv, Onward, UseInv, NEW p \in Procs,
           NEW o \in Outcomes, CreateWrite(p, o)
    PROVE  UseInv'
  <1>0. PICK i : i = op[p].id
    OBVIOUS
  <1>1. /\ op[p].pc = "create" /\ answer' = None /\ soleUse' = soleUse /\ met' = met
        /\ op' = [op EXCEPT ![p] = Idle]
        /\ held' = IF o = "ok" THEN held \cup {i} ELSE held
        /\ write(op[p].id, op[p].session, op[p].now, o)
    BY <1>0 DEF CreateWrite
  <1>2. /\ i \in Ids /\ Kept(op[p].session, i)
        /\ \A j \in Ids \ {i} : record'[j] = record[j]
        /\ o = "failed" => record' = record
        /\ o # "failed" => record'[i] # None /\ record'[i].session = op[p].session
    BY <1>0, <1>1, WriteUse
  <1>3. UsedOK(i)'
    <2>1. CASE o = "failed"
      <3>1. UsedOK(i)
        BY <1>2 DEF UseInv
      <3> QED BY <1>1, <1>2, <2>1, <3>1, UsedStable
    <2>2. CASE o # "failed"
      <3>1. i \notin held => soleUse[i] = Never
        BY <1>2 DEF UseInv, UsedOK
      <3> QED BY <1>1, <1>2, <2>2, <3>1 DEF UsedOK, Kept, idleRefreshInterval
    <2> QED BY <2>1, <2>2
  <1>4. /\ CopyOK(p)' /\ \A r, q \in Procs : MetOK(r, q)'
        /\ \A q \in Procs \ {p} : op'[q] = op[q] /\ (q \in met => q \in met')
    BY <1>1, ReturnUse
  <1>5. \A q \in Procs \ {p} : op[q].pc \in Holding /\ op[q].id = i =>
                                 q \in met' /\ soleUse'[i] = soleUse[i]
    BY <1>0, <1>1, OthersMet DEF Holding
  <1> QED BY <1>1, <1>2, <1>3, <1>4, <1>5, NotGone, CallerUse

\* A Lookup that finds no record finds the excuse with it, and one that finds a
\* record meets whoever is inside.
LEMMA LookupReadUse ==
    ASSUME StoreInv, StoreInv', AgeInv, Onward, UseInv, NEW p \in Procs, NEW id \in Ids,
           LookupRead(p, id)
    PROVE  UseInv'
  <1>1. UNCHANGED <<clock, record, soleUse, held, condemned, born, marked>> /\ id \in held
    BY DEF LookupRead, cacheVars, historyVars
  <1>2. born[id] # None
    BY <1>1 DEF AgeInv, HeldOK
  <1>3. CASE Return(p, id, "error")
    <2>1. op' = [op EXCEPT ![p] = Idle] /\ met' = met \ {p} /\ answer'.out # "gone"
      BY <1>3 DEF Return
    <2> QED BY <1>1, <2>1, ReturnUse, NotGone, QuietUse
  <1>4. CASE record[id] = None /\ Return(p, id, "gone")
    <2>1. op' = [op EXCEPT ![p] = Idle] /\ met' = met \ {p}
      BY <1>4 DEF Return
    <2>2. Excused(id)
      BY <1>1, <1>4 DEF UseInv, UsedOK
    <2>3. Excused(id)' /\ born'[id] # None
      BY <1>1, <1>2, <2>2, ExcuseLasts
    <2>4. NotFoundIsEarned'
      BY <1>4, <2>3, GoneEarned
    <2> QED BY <1>1, <2>1, <2>4, ReturnUse, QuietUse
  <1>5. CASE ~Return(p, id, "error") /\ ~(record[id] = None /\ Return(p, id, "gone"))
    <2>1. PICK s : s = record[id].session
      OBVIOUS
    <2>2. /\ record[id] # None /\ answer' = None
          /\ op' = [op EXCEPT ![p] =
                      [Idle EXCEPT !.pc = "check", !.id = id, !.session = s,
                                   !.floor = barrier[s.owner], !.late = id \in ended]]
          /\ met' = IF Others(p, id) = {} THEN met ELSE met \cup {p} \cup Others(p, id)
      BY <1>5, <2>1 DEF LookupRead
    <2>3. /\ op'[p].pc = "check" /\ op'[p].session = s /\ op'[p].id = id
          /\ \A q \in Procs \ {p} : op'[q] = op[q]
      BY <2>2 DEF StoreInv, TypeOK, Idle
    <2>4. Kept(s, id)
      BY <2>1, <2>2 DEF UseInv, UsedOK
    <2>5. CopyOK(p)'
      BY <1>1, <2>1, <2>2, <2>3, <2>4 DEF CopyOK, Kept, idleRefreshInterval
    <2>6. met \subseteq met'
      BY <2>2
    <2>7. \A q \in Procs \ {p} : op[q].id = id => p \in met' /\ q \in met'
      BY <2>2 DEF Others
    <2>8. \A r, q \in Procs : MetOK(r, q)'
      BY <2>3, <2>6, <2>7 DEF UseInv, MetOK
    <2> QED BY <1>1, <2>2, <2>3, <2>5, <2>6, <2>8, NotGone, QuietUse
  <1> QED BY <1>3, <1>4, <1>5

\* A copy whose deadline has passed is of a session used too long ago.
LEMMA LookupCheckUse ==
    ASSUME StoreInv, StoreInv', AgeInv, Onward, UseInv, NEW p \in Procs, LookupCheck(p)
    PROVE  UseInv'
  <1>0. PICK i, s : i = op[p].id /\ s = op[p].session
    OBVIOUS
  <1>1. /\ UNCHANGED <<clock, record, met, held, condemned, born, marked, soleUse>>
        /\ answer' = None /\ op[p].pc = "check"
        /\ op' = [op EXCEPT ![p].now = clock,
                            ![p].pc = IF Lapsed(op[p].session, clock)
                                      THEN "forget" ELSE "marker"]
    BY DEF LookupCheck, cacheVars, historyVars
  <1>2. /\ op'[p].session = s /\ op'[p].id = i
        /\ op'[p].pc = IF Lapsed(s, clock) THEN "forget" ELSE "marker"
        /\ \A q \in Procs \ {p} : op'[q] = op[q]
    BY <1>0, <1>1 DEF StoreInv, TypeOK, Op
  <1>3. i \in Ids /\ s \in Session /\ SameSession(s, born[i])
    BY <1>0, <1>1 DEF StoreInv, OpInv, OpOK, Holding
  <1>4. s.lastSeen >= s.created
    BY <1>0, <1>1 DEF AgeInv, AgeOK, Holding
  <1>5. /\ Kept(s, i)
        /\ p \notin met =>
             IF record[i] # None THEN record[i].session = s ELSE Over(s, i)
    BY <1>0, <1>1 DEF UseInv, CopyOK, Holding
  <1>6. Kept(s, i)'
    BY <1>1, <1>5 DEF Kept, idleRefreshInterval
  <1>7. Over(s, i) => Over(s, i)'
    BY <1>1 DEF Over, idleDeadline
  <1>8. Lapsed(s, clock) => Excused(i)'
    <2>1. Lapsed(s, clock) => Over(s, i)'
      BY <1>1 DEF Lapsed, Over, idleDeadline
    <2> QED BY <1>1, <1>3, <1>4, <1>6, <2>1, KeptOver
  <1>9. CopyOK(p)'
    BY <1>1, <1>2, <1>5, <1>6, <1>7, <1>8 DEF CopyOK, Kept, Over, Excused
  <1>10. \A r, q \in Procs : MetOK(r, q)'
    BY <1>0, <1>1, <1>2, MetStable DEF Holding
  <1> QED BY <1>1, <1>2, <1>9, <1>10, NotGone, QuietUse

\* forget deletes, and answers, for a session whose end is known.
LEMMA LookupForgetUse ==
    ASSUME StoreInv, StoreInv', AgeInv, Onward, UseInv, NEW p \in Procs,
           NEW o \in Outcomes, LookupForget(p, o)
    PROVE  UseInv'
  <1>0. PICK i : i = op[p].id
    OBVIOUS
  <1>1. /\ UNCHANGED <<held, born, soleUse>>
        /\ op[p].pc = "forget" /\ delete(i, o) /\ Return(p, i, "gone")
        /\ op' = [op EXCEPT ![p] = Idle] /\ met' = met \ {p}
    BY <1>0 DEF LookupForget, Return, historyVars
  <1>2. i \in Ids /\ born[i] # None
    BY <1>0, <1>1 DEF StoreInv, OpInv, OpOK, Holding
  <1>3. Excused(i)
    BY <1>0, <1>1 DEF UseInv, CopyOK
  <1>4. Excused(i)'
    BY <1>1, <1>2, <1>3, ExcuseLasts
  <1>5. /\ \A j \in Ids \ {i} : record'[j] = record[j]
        /\ record'[i] = record[i] \/ record'[i] = None
    BY <1>1, <1>2 DEF delete, StoreInv, TypeOK
  <1>6. UsedOK(i)'
    <2>1. UsedOK(i)
      BY <1>2 DEF UseInv
    <2> QED BY <1>1, <1>4, <1>5, <2>1 DEF UsedOK, Kept, idleRefreshInterval
  <1>7. /\ CopyOK(p)' /\ \A r, q \in Procs : MetOK(r, q)'
        /\ \A q \in Procs \ {p} : op'[q] = op[q] /\ (q \in met => q \in met')
    BY <1>1, ReturnUse
  <1>8. NotFoundIsEarned'
    BY <1>1, <1>2, <1>4, GoneEarned
  <1>9. \A q \in Procs \ {p} : op[q].pc \in Holding /\ op[q].id = i =>
                                 q \in met' /\ soleUse'[i] = soleUse[i]
    BY <1>0, <1>1, OthersMet DEF Holding
  <1> QED BY <1>1, <1>5, <1>6, <1>7, <1>8, <1>9, CallerUse

\* An unreadable marker is an error, never an absence, and changes nothing.
LEMMA LookupMarkerUnknownUse ==
    ASSUME StoreInv, StoreInv', AgeInv, Onward, UseInv, NEW p \in Procs,
           LookupMarkerUnknown(p)
    PROVE  UseInv'
  <1>1. /\ UNCHANGED <<record, soleUse, held>>
        /\ op' = [op EXCEPT ![p] = Idle] /\ met' = met \ {p} /\ answer'.out # "gone"
    BY DEF LookupMarkerUnknown, Return, cacheVars, historyVars
  <1> QED BY <1>1, ReturnUse, NotGone, QuietUse

\* A marker that refuses the session stands for a RevokeSubject after it began.
LEMMA LookupRefuseUse ==
    ASSUME StoreInv, StoreInv', AgeInv, Onward, UseInv, NEW p \in Procs, LookupRefuse(p)
    PROVE  UseInv'
  <1>0. PICK i, s : i = op[p].id /\ s = op[p].session
    OBVIOUS
  <1>1. /\ UNCHANGED <<clock, record, met, held, condemned, born, marked, soleUse>>
        /\ answer' = None /\ op[p].pc = "marker" /\ Refused(s, marker[s.owner])
        /\ op' = [op EXCEPT ![p].pc = "forget"]
    BY <1>0 DEF LookupRefuse, cacheVars, historyVars
  <1>2. /\ op'[p].pc = "forget" /\ op'[p].session = s /\ op'[p].id = i
        /\ \A q \in Procs \ {p} : op'[q] = op[q]
    BY <1>0, <1>1 DEF StoreInv, TypeOK, Op
  <1>3. i \in Ids /\ s \in Session /\ SameSession(s, born[i])
    BY <1>0, <1>1 DEF StoreInv, OpInv, OpOK, Holding
  <1>4. s.owner \in Subjects /\ s.created \in Nat
    BY <1>3 DEF Session
  <1>5. /\ marker[s.owner] # None /\ s.created <= marker[s.owner].at
        /\ marker[s.owner].at \in Nat
    BY <1>1, <1>4 DEF Refused, StoreInv, TypeOK, Marker
  <1>6. marker[s.owner].at <= marked[s.owner] /\ marked[s.owner] \in Int
    BY <1>4, <1>5 DEF AgeInv, MarkedOK, StoreInv, TypeOK, Never
  <1>7. marked[s.owner] >= s.created
    BY <1>4, <1>5, <1>6
  <1>8. Excused(i)'
    BY <1>1, <1>3, <1>7 DEF Excused, SameSession
  <1>9. Kept(s, i)'
    BY <1>0, <1>1 DEF UseInv, CopyOK, Holding, Kept, idleRefreshInterval
  <1>10. CopyOK(p)'
    BY <1>2, <1>8, <1>9 DEF CopyOK, Kept, Excused
  <1>11. \A r, q \in Procs : MetOK(r, q)'
    BY <1>0, <1>1, <1>2, MetStable DEF Holding
  <1> QED BY <1>1, <1>2, <1>10, <1>11, NotGone, QuietUse

\* Serving moves the last use to the instant the Lookup read at the most, and not
\* at all if the Lookup met another.
LEMMA ServeUse ==
    ASSUME StoreInv, NEW p \in Procs, Serve(p), NEW i \in Ids, i = op[p].id
    PROVE  /\ op' = [op EXCEPT ![p] = Idle] /\ met' = met \ {p} /\ answer'.out # "gone"
           /\ UNCHANGED <<born, held, condemned, marked>>
           /\ \A j \in Ids \ {i} : soleUse'[j] = soleUse[j]
           /\ soleUse'[i] = soleUse[i] \/ (p \notin met /\ soleUse'[i] = op[p].now)
  BY DEF Serve, StoreInv, TypeOK, Greatest

\* A session is served unwritten only while its record is recent enough for this
\* use too, and rewritten otherwise at an instant no earlier than any use.
LEMMA LookupPassUse ==
    ASSUME StoreInv, StoreInv', AgeInv, Onward, UseInv, NEW p \in Procs, LookupPass(p)
    PROVE  UseInv'
  <1>0. PICK i, s, n : i = op[p].id /\ s = op[p].session /\ n = op[p].now
    OBVIOUS
  <1>1. UNCHANGED <<clock, record>> /\ op[p].pc = "marker"
    BY DEF LookupPass, cacheVars
  <1>2. /\ i \in Ids /\ s \in Session /\ SameSession(s, born[i])
        /\ born[i] # None /\ i \in held
    BY <1>0, <1>1 DEF StoreInv, OpInv, OpOK, Holding
  <1>3. s.lastSeen \in Nat /\ s.created \in Nat /\ n \in Nat /\ s.lastSeen >= s.created
    BY <1>0, <1>1, <1>2 DEF Session, StoreInv, TypeOK, Op, AgeInv, AgeOK, Holding
  <1>4. /\ Kept(s, i)
        /\ p \notin met =>
             IF record[i] # None THEN record[i].session = s ELSE Over(s, i)
    BY <1>0, <1>1 DEF UseInv, CopyOK, Holding
  <1>5. idleRefreshInterval \in Nat /\ idleRefreshInterval' = idleRefreshInterval
    BY IntervalType DEF idleRefreshInterval
  <1>6. soleUse[i] \in Int
    BY <1>2 DEF StoreInv, TypeOK, Never
  <1>7. CASE ~TouchDue(s, n) /\ Serve(p)
    <2>1. /\ op' = [op EXCEPT ![p] = Idle] /\ met' = met \ {p} /\ answer'.out # "gone"
          /\ UNCHANGED <<born, held, condemned, marked>>
          /\ \A j \in Ids \ {i} : soleUse'[j] = soleUse[j]
          /\ soleUse'[i] = soleUse[i] \/ (p \notin met /\ soleUse'[i] = n)
      BY <1>0, <1>2, <1>7, ServeUse
    <2>2. Kept(s, i)'
      BY <1>3, <1>4, <1>5, <1>6, <1>7, <2>1 DEF Kept, TouchDue
    <2>3. UsedOK(i)'
      <3>1. CASE soleUse'[i] = soleUse[i]
        BY <1>1, <1>2, <2>1, <3>1, UsedStable DEF UseInv
      <3>2. CASE p \notin met /\ record[i] # None
        BY <1>1, <1>2, <1>4, <2>1, <2>2, <3>2 DEF UsedOK, Kept
      <3>3. CASE p \notin met /\ record[i] = None
        <4>1. Over(s, i)'
          BY <1>1, <1>4, <2>1, <3>3 DEF Over, idleDeadline
        <4>2. Excused(i)'
          BY <1>2, <1>3, <2>1, <2>2, <4>1, KeptOver
        <4> QED BY <1>1, <1>2, <2>1, <3>3, <4>2 DEF UsedOK
      <3> QED BY <2>1, <3>1, <3>2, <3>3
    <2>4. /\ CopyOK(p)' /\ \A r, q \in Procs : MetOK(r, q)'
          /\ \A q \in Procs \ {p} : op'[q] = op[q] /\ (q \in met => q \in met')
      BY <2>1, ReturnUse
    <2>5. \A q \in Procs \ {p} : op[q].pc \in Holding /\ op[q].id = i =>
                                   q \in met' /\ soleUse'[i] = soleUse[i]
      BY <1>0, <1>1, <2>1, OthersMet DEF Holding
    <2>6. \A j \in Ids \ {i} : /\ record'[j] = record[j] /\ soleUse'[j] = soleUse[j]
                               /\ (j \in held' <=> j \in held)
      BY <1>1, <2>1
    <2> QED BY <2>1, <2>3, <2>4, <2>5, <2>6, NotGone, CallerUse
  <1>8. CASE ~(~TouchDue(s, n) /\ Serve(p))
    <2> DEFINE t == [s EXCEPT !.lastSeen = n]
    <2>1. /\ op' = [op EXCEPT ![p].pc = "touch", ![p].session = t] /\ answer' = None
          /\ UNCHANGED <<met, held, soleUse>> /\ TouchDue(s, n)
      BY <1>0, <1>8 DEF LookupPass, Touched, historyVars
    <2>2. t.lastSeen = n
      BY <1>2 DEF Session
    <2> HIDE DEF t
    <2>3. /\ op'[p].pc = "touch" /\ op'[p].session = t /\ op'[p].id = i /\ op'[p].now = n
          /\ \A q \in Procs \ {p} : op'[q] = op[q]
      BY <1>0, <2>1 DEF StoreInv, TypeOK, Op
    <2>4. Kept(t, i)'
      BY <1>3, <1>4, <1>5, <1>6, <2>1, <2>2 DEF Kept, TouchDue
    <2>5. CopyOK(p)'
      BY <2>2, <2>3, <2>4 DEF CopyOK, Kept
    <2>6. \A r, q \in Procs : MetOK(r, q)'
      BY <1>0, <1>1, <2>1, <2>3, MetStable DEF Holding
    <2> QED BY <1>1, <2>1, <2>3, <2>5, <2>6, NotGone, QuietUse
  <1> QED BY <1>0, <1>7, <1>8 DEF LookupPass

\* touch brings the record up to the use it is for.
LEMMA LookupTouchUse ==
    ASSUME StoreInv, StoreInv', AgeInv, Onward, UseInv, NEW p \in Procs,
           NEW o \in Outcomes, LookupTouch(p, o)
    PROVE  UseInv'
  <1>0. PICK i, s, n : i = op[p].id /\ s = op[p].session /\ n = op[p].now
    OBVIOUS
  <1>1. op[p].pc = "touch" /\ write(op[p].id, op[p].session, op[p].now, o)
    BY DEF LookupTouch
  <1>2. /\ i \in Ids /\ Kept(s, i)
        /\ \A j \in Ids \ {i} : record'[j] = record[j]
        /\ o = "failed" => record' = record
        /\ o # "failed" => record'[i] # None /\ record'[i].session = s
    BY <1>0, <1>1, WriteUse
  <1>3. i \in held /\ s \in Session
    BY <1>0, <1>1 DEF StoreInv, OpInv, OpOK, Holding
  <1>4. /\ op' = [op EXCEPT ![p] = Idle] /\ met' = met \ {p}
        /\ answer'.out # "gone" /\ held' = held
        /\ \A j \in Ids \ {i} : soleUse'[j] = soleUse[j]
        /\ \/ soleUse'[i] = soleUse[i]
           \/ p \notin met /\ soleUse'[i] = n /\ o # "failed"
    <2>1. CASE o = "ok" /\ Serve(p)
      BY <1>0, <1>2, <2>1, ServeUse
    <2>2. CASE o # "ok" /\ Return(p, op[p].id, "error") /\ UNCHANGED historyVars
      BY <2>2 DEF Return, historyVars
    <2> QED BY <2>1, <2>2 DEF LookupTouch
  <1>5. s.lastSeen = n /\ n \in Nat
    BY <1>0, <1>1, <1>3 DEF UseInv, CopyOK, Session
  <1>6. UsedOK(i)'
    <2>1. CASE o = "failed"
      <3>1. UsedOK(i) /\ soleUse'[i] = soleUse[i]
        BY <1>2, <1>4, <2>1 DEF UseInv
      <3> QED BY <1>2, <1>4, <2>1, <3>1, UsedStable
    <2>2. CASE o # "failed"
      <3>1. Kept(s, i)'
        BY <1>2, <1>4, <1>5, IntervalType DEF Kept, idleRefreshInterval
      <3> QED BY <1>2, <1>3, <1>4, <2>2, <3>1 DEF UsedOK, Kept
    <2> QED BY <2>1, <2>2
  <1>7. /\ CopyOK(p)' /\ \A r, q \in Procs : MetOK(r, q)'
        /\ \A q \in Procs \ {p} : op'[q] = op[q] /\ (q \in met => q \in met')
    BY <1>4, ReturnUse
  <1>8. \A q \in Procs \ {p} : op[q].pc \in Holding /\ op[q].id = i =>
                                 q \in met' /\ soleUse'[i] = soleUse[i]
    BY <1>0, <1>1, <1>4, OthersMet DEF Holding
  <1> QED BY <1>2, <1>4, <1>6, <1>7, <1>8, NotGone, CallerUse

\* Revoke condemns the session, so that whoever misses its record has an excuse.
LEMMA RevokeUse ==
    ASSUME StoreInv, StoreInv', AgeInv, Onward, UseInv, NEW p \in Procs, NEW id \in Ids,
           NEW o \in Outcomes, Revoke(p, id, o)
    PROVE  UseInv'
  <1>1. /\ UNCHANGED <<clock, op, met, held, marked, born, soleUse>> /\ answer' = None
        /\ condemned' = condemned \cup {id} /\ delete(id, o)
    BY DEF Revoke
  <1>2. Excused(id)' /\ \A s : Over(s, id)'
    BY <1>1 DEF Excused, Over
  <1>3. \A j \in Ids : record'[j] = record[j] \/ (j = id /\ record'[j] = None)
    BY <1>1 DEF delete, StoreInv, TypeOK
  <1>4. ASSUME NEW j \in Ids PROVE UsedOK(j)'
    <2>1. CASE record'[j] = record[j]
      BY <1>1, <2>1, UsedStable DEF UseInv
    <2>2. CASE record'[j] # record[j]
      BY <1>1, <1>2, <1>3, <2>2 DEF UseInv, UsedOK
    <2> QED BY <2>1, <2>2
  <1>5. ASSUME NEW q \in Procs PROVE CopyOK(q)'
    <2>1. PICK i, s : i = op[q].id /\ s = op[q].session
      OBVIOUS
    <2>2. CASE op[q].pc \in Holding /\ record'[i] # record[i]
      <3>1. i = id /\ record'[i] = None
        BY <1>3, <2>1, <2>2 DEF StoreInv, OpInv, OpOK
      <3>2. Kept(s, i) /\ (op[q].pc = "touch" => s.lastSeen = op[q].now)
        BY <2>1, <2>2 DEF UseInv, CopyOK
      <3>3. Kept(s, i)' /\ Over(s, i)' /\ Excused(i)'
        BY <1>1, <1>2, <3>1, <3>2 DEF Kept, idleRefreshInterval
      <3> QED BY <1>1, <2>1, <3>1, <3>2, <3>3 DEF CopyOK, Kept, Over, Excused
    <2>3. CASE ~(op[q].pc \in Holding /\ record'[i] # record[i])
      BY <1>1, <2>1, <2>3, CopyStable DEF UseInv
    <2> QED BY <2>2, <2>3
  <1>6. \A r, q \in Procs : MetOK(r, q)'
    BY <1>1 DEF UseInv, MetOK
  <1> QED BY <1>1, <1>4, <1>5, <1>6, NotGone DEF UseInv

\* RevokeSubject does not touch the records.
LEMMA RevokerUse ==
    ASSUME StoreInv, StoreInv', AgeInv, Onward, UseInv, NEW p \in Procs, RevokerNext(p)
    PROVE  UseInv'
  <1>1. UNCHANGED <<record, met, soleUse, held>> /\ answer' = None
    BY DEF RevokerNext, RevokeSubjectBegin, RevokeSubjectWrite, cacheVars
  <1>2. CASE \E s \in Subjects : RevokeSubjectBegin(p, s)
    <2>1. op'[p].pc \notin Holding /\ \A q \in Procs \ {p} : op'[q] = op[q]
      BY <1>2 DEF RevokeSubjectBegin, StoreInv, TypeOK, Idle, Holding
    <2>2. CopyOK(p)'
      BY <2>1, OutsideUse
    <2>3. \A r, q \in Procs : MetOK(r, q)'
      BY <1>1, <2>1, MetStable
    <2> QED BY <1>1, <2>1, <2>2, <2>3, NotGone, QuietUse
  <1>3. CASE \E o \in Outcomes : RevokeSubjectWrite(p, o)
    <2>1. op' = [op EXCEPT ![p] = Idle]
      BY <1>3 DEF RevokeSubjectWrite
    <2> QED BY <1>1, <2>1, ReturnUse, NotGone, QuietUse
  <1> QED BY <1>2, <1>3 DEF RevokerNext

\* Every reachable state keeps UseInv.
LEMMA UseInvHolds == Spec => []UseInv
  <1>1. /\ StoreInv /\ AgeInv /\ UseInv /\ StoreInv' /\ [Next]_vars
        => UseInv'
    <2> SUFFICES ASSUME StoreInv, AgeInv, UseInv, StoreInv', [Next]_vars
                 PROVE  UseInv'
      OBVIOUS
    <2>1. CASE UNCHANGED vars
      BY <2>1 DEF vars, cacheVars, historyVars, UseInv, UsedOK, CopyOK, MetOK, Kept, Over,
                  Excused, idleDeadline, idleRefreshInterval, NotFoundIsEarned, Answered
    <2>2. CASE Next
      <3>1. Onward
        BY <2>2, NextOnward DEF StoreInv
      <3>2. CASE Tick
        BY <3>1, <3>2, TickUse
      <3>3. ASSUME NEW p \in Callers, CallerNext(p) PROVE UseInv'
        <4>1. p \in Procs
          BY DEF Procs
        <4> QED BY <3>1, <3>3, <4>1, CreateBeginUse, CreateWriteUse, LookupReadUse,
                   LookupCheckUse, LookupForgetUse, LookupMarkerUnknownUse,
                   LookupRefuseUse, LookupPassUse, LookupTouchUse, RevokeUse
                DEF CallerNext
      <3>4. ASSUME NEW p \in Revokers, RevokerNext(p) PROVE UseInv'
        BY <3>1, <3>4, RevokerUse DEF Procs
      <3> QED BY <2>2, <3>2, <3>3, <3>4 DEF Next
    <2> QED BY <2>1, <2>2
  <1> QED BY <1>1, InitUseInv, StoreInvHolds, AgeInvHolds, PTL DEF Spec

\* ErrSessionNotFound is the answer only for a session somebody ended, whose
\* lifetime ran out, or that nobody used for the idle ttl less one refresh
\* interval, uses that overlap another not counted: no failed or unanswered round
\* trip of the cache, and no interleaving of requests, makes it the answer else.
THEOREM NotFoundEarned == Spec => []NotFoundIsEarned
  <1>1. UseInv => NotFoundIsEarned
    BY DEF UseInv
  <1> QED BY <1>1, UseInvHolds, PTL

-----------------------------------------------------------------------------
(* The idle deadline, where calls for one session do not overlap *)

\* Nobody meets anybody, and so every use counts.
ApartInv == met = {} /\ soleUse = lastUse

\* Calls that do not overlap do not meet.
LEMMA NextApartInv ==
    ASSUME StoreInv, ApartInv, Apart', Next
    PROVE  ApartInv'
  <1>1. ASSUME met' = met \/ \E p \in Procs : met' = met \ {p},
               UNCHANGED <<lastUse, soleUse>>
        PROVE  ApartInv'
    BY <1>1 DEF ApartInv
  <1>2. ASSUME NEW p \in Procs, Serve(p) PROVE ApartInv'
    BY <1>2 DEF ApartInv, Serve
  <1>3. ASSUME NEW p \in Procs, NEW id \in Ids, LookupRead(p, id) PROVE ApartInv'
    <2>1. UNCHANGED <<lastUse, soleUse>>
      BY <1>3 DEF LookupRead, historyVars
    <2>2. CASE \E out \in {"error", "gone"} : Return(p, id, out)
      BY <1>1, <2>1, <2>2 DEF Return
    <2>3. CASE ~\E out \in {"error", "gone"} : Return(p, id, out)
      <3>1. /\ op' = [op EXCEPT ![p] =
                        [Idle EXCEPT !.pc = "check", !.id = id,
                                     !.session = record[id].session,
                                     !.floor = barrier[record[id].session.owner],
                                     !.late = id \in ended]]
            /\ met' = IF Others(p, id) = {} THEN met ELSE met \cup {p} \cup Others(p, id)
        BY <1>3, <2>3 DEF LookupRead
      <3>2. op'[p].id = id /\ \A q \in Procs \ {p} : op'[q] = op[q]
        BY <3>1 DEF StoreInv, TypeOK, Idle
      <3>3. Others(p, id) = {}
        BY <3>2, NoneAssumption DEF Others, Apart
      <3> QED BY <1>1, <2>1, <3>1, <3>3
    <2> QED BY <2>2, <2>3
  <1>4. ASSUME NEW p \in Callers, CallerNext(p) PROVE ApartInv'
    <2>1. p \in Procs
      BY DEF Procs
    <2>2. \/ \E id \in Ids : LookupRead(p, id)
          \/ Serve(p)
          \/ /\ met' = met \/ met' = met \ {p}
             /\ UNCHANGED <<lastUse, soleUse>>
      BY <1>4 DEF CallerNext, CreateBegin, CreateWrite, LookupCheck, LookupForget,
                  LookupMarkerUnknown, LookupRefuse, LookupPass, LookupTouch, Revoke,
                  Return, historyVars
    <2> QED BY <1>1, <1>2, <1>3, <2>1, <2>2
  <1>5. ASSUME NEW p \in Revokers, RevokerNext(p) PROVE ApartInv'
    BY <1>1, <1>5 DEF RevokerNext, RevokeSubjectBegin, RevokeSubjectWrite
  <1>6. CASE Tick
    BY <1>1, <1>6 DEF Tick, historyVars
  <1> QED BY <1>4, <1>5, <1>6 DEF Next

\* Lookup reports a missing session only for an id that Create made.
AskedInv == Answered("gone") => born[answer.id] # None

LEMMA AskedInvHolds == Spec => []AskedInv
  <1>1. Init => AskedInv
    BY DEF Init, AskedInv, Answered
  <1>2. StoreInv /\ AgeInv /\ AskedInv /\ TypeOK' /\ [Next]_vars => AskedInv'
    <2> SUFFICES ASSUME StoreInv, AgeInv, AskedInv, TypeOK', [Next]_vars, Answered("gone")'
                 PROVE  born'[answer'.id] # None
      BY DEF AskedInv
    <2>1. CASE UNCHANGED vars
      BY <2>1 DEF vars, historyVars, AskedInv, Answered
    <2>2. CASE Next
      <3>1. answer' # None /\ answer'.out = "gone"
        BY DEF Answered
      <3>2. ~Tick /\ ~\E p \in Revokers : RevokerNext(p)
        BY <3>1, NoneAssumption DEF Tick, RevokerNext, RevokeSubjectBegin, RevokeSubjectWrite
      <3>3. PICK p \in Callers : CallerNext(p)
        BY <2>2, <3>2 DEF Next
      <3>4. /\ ~\E s \in Subjects, persistent \in BOOLEAN : CreateBegin(p, s, persistent)
            /\ ~\E o \in Outcomes : CreateWrite(p, o)
            /\ ~LookupCheck(p) /\ ~LookupRefuse(p)
            /\ ~\E id \in Ids, o \in Outcomes : Revoke(p, id, o)
        BY <3>1 DEF CreateBegin, CreateWrite, LookupCheck, LookupRefuse, Revoke
      <3>5. ~Serve(p)
        BY <3>1 DEF Serve
      <3>6. ~LookupPass(p)
        BY <3>1, <3>5 DEF LookupPass
      <3>7. ~\E o \in Outcomes : LookupTouch(p, o)
        BY <3>1, <3>5 DEF LookupTouch, Return
      <3>8. /\ p \in Procs
            /\ \/ \E id \in Ids : LookupRead(p, id)
               \/ \E o \in Outcomes : LookupForget(p, o)
               \/ LookupMarkerUnknown(p)
        BY <3>3, <3>4, <3>6, <3>7 DEF CallerNext, Procs
      <3>9. CASE \E id \in Ids : LookupRead(p, id)
        <4>1. PICK id \in Ids : LookupRead(p, id)
          BY <3>9
        <4>2. born[id] # None
          BY <4>1 DEF LookupRead, AgeInv, HeldOK
        <4>3. answer'.id = id /\ born' = born
          BY <4>1 DEF LookupRead, Return, Answered, historyVars
        <4> QED BY <4>2, <4>3
      <3>10. CASE \E o \in Outcomes : LookupForget(p, o)
        <4>1. op[p].pc = "forget" /\ answer'.id = op[p].id /\ born' = born
          BY <3>10 DEF LookupForget, Return, historyVars
        <4>2. born[op[p].id] # None
          BY <3>8, <4>1 DEF StoreInv, OpInv, OpOK, Holding
        <4> QED BY <4>1, <4>2
      <3>11. CASE LookupMarkerUnknown(p)
        BY <3>1, <3>11 DEF LookupMarkerUnknown, Return
      <3> QED BY <3>8, <3>9, <3>10, <3>11
    <2> QED BY <2>1, <2>2
  <1>3. StoreInv => TypeOK
    BY DEF StoreInv
  <1> QED BY <1>1, <1>2, <1>3, StoreInvHolds, AgeInvHolds, PTL DEF Spec

\* Where at most one request at a time is inside for a session, a Lookup misses a
\* session that was served less than the idle ttl ago, the refresh interval apart,
\* only because somebody ended it: the writes touch leaves out are never the ones
\* the idle deadline needed.
THEOREM IdleIsExact == Spec /\ []Apart => []UsedSessionsStay
  <1>1. Init => ApartInv
    BY DEF Init, ApartInv
  <1>2. StoreInv /\ ApartInv /\ Apart' /\ [Next]_vars => ApartInv'
    <2>1. ASSUME ApartInv, UNCHANGED vars PROVE ApartInv'
      BY <2>1 DEF ApartInv, vars, historyVars
    <2> QED BY <2>1, NextApartInv
  <1>3. StoreInv /\ AskedInv /\ ApartInv /\ NotFoundIsEarned => UsedSessionsStay
    <2> SUFFICES ASSUME StoreInv, AskedInv, ApartInv, NotFoundIsEarned, Answered("gone")
                 PROVE  LET b == born[answer.id] IN
                        \/ answer.id \in condemned
                        \/ marked[b.owner] >= b.created
                        \/ clock >= b.expires
                        \/ clock >= Greatest(b.created, lastUse[answer.id])
                                        + IdleTTL - idleRefreshInterval
      BY DEF UsedSessionsStay
    <2>1. answer.id \in Ids
      BY DEF Answered, StoreInv, TypeOK, Answer
    <2>2. lastUse[answer.id] \in Int /\ clock \in Nat
      BY <2>1, TTLAssumption DEF StoreInv, TypeOK, Never
    <2>3. idleRefreshInterval \in Nat /\ IdleTTL \in Nat
      BY IntervalType, TTLAssumption
    <2>4. born[answer.id].created \in Nat
      BY <2>1 DEF AskedInv, StoreInv, TypeOK, Session
    <2> QED BY <2>2, <2>3, <2>4 DEF NotFoundIsEarned, ApartInv, Greatest
  <1> QED BY <1>1, <1>2, <1>3, StoreInvHolds, AskedInvHolds, NotFoundEarned, PTL DEF Spec

-----------------------------------------------------------------------------
(* Revoke, where an answered one meets no other request at its session *)

\* A session whose Revoke returned is gone, and so no Lookup has begun on it since.
EndedInv ==
    /\ \A i \in ended : Gone(i)
    /\ \A p \in Procs : ~op[p].late
    /\ RevokedIsNotServed

\* Nothing has ended at first.
LEMMA InitEndedInv == Init => EndedInv
  BY DEF Init, EndedInv, RevokedIsNotServed, Answered, Idle

\* Only a Revoke that is answered ends a session, and it leaves no record.
LEMMA EndedByRevoke ==
    ASSUME StoreInv, AgeInv, Next, RevokesApart, NEW i \in ended', i \notin ended
    PROVE  Gone(i)'
  <1>1. \/ ended' = ended
        \/ \E p \in Callers, id \in Ids, o \in Outcomes :
              Revoke(p, id, o) /\ o = "ok" /\ ended' = ended \cup {id}
    BY DEF Next, Tick, CallerNext, RevokerNext, CreateBegin, CreateWrite, LookupRead,
           LookupCheck, LookupForget, LookupMarkerUnknown, LookupRefuse, LookupPass,
           LookupTouch, Revoke, RevokeSubjectBegin, RevokeSubjectWrite, Serve, historyVars
  <1>2. PICK p \in Callers, o \in Outcomes : Revoke(p, i, o) /\ o = "ok" /\ i \in Ids
    BY <1>1
  <1>3. born[i] # None
    BY <1>2 DEF Revoke, AgeInv, HeldOK
  <1>4. record'[i] = None /\ op' = op /\ born' = born
    BY <1>2 DEF Revoke, delete, StoreInv, TypeOK
  <1>5. \A q \in Procs : op[q].id # i
    BY DEF RevokesApart
  <1> QED BY <1>3, <1>4, <1>5 DEF Gone

\* A Lookup begins late only on a record, which a session that ended has not.
LEMMA NotLate ==
    ASSUME StoreInv, EndedInv, Next
    PROVE  /\ \A p \in Procs : ~op'[p].late
           /\ answer' # None => answer'.late = FALSE
  <1>1. \A p \in Procs : op[p].late = FALSE
    BY DEF EndedInv, StoreInv, TypeOK, Op
  <1>2. ASSUME NEW p \in Procs, op' = [op EXCEPT ![p] = Idle]
        PROVE  \A q \in Procs : op'[q].late = FALSE
    BY <1>1, <1>2 DEF StoreInv, TypeOK, Idle
  <1>3. ASSUME NEW p \in Procs, NEW s \in Subjects, NEW persistent \in BOOLEAN,
               CreateBegin(p, s, persistent)
        PROVE  /\ \A q \in Procs : ~op'[q].late
               /\ answer' = None
    <2>1. PICK id \in Ids :
            op' = [op EXCEPT ![p] =
                     [Idle EXCEPT !.pc = "create", !.id = id,
                        !.session = NewSession(s, persistent, clock), !.now = clock]]
      BY <1>3 DEF CreateBegin
    <2> QED BY <1>1, <1>3, <2>1 DEF CreateBegin, StoreInv, TypeOK, Idle
  <1>4. ASSUME NEW p \in Procs, NEW id \in Ids, LookupRead(p, id)
        PROVE  /\ \A q \in Procs : ~op'[q].late
               /\ answer' # None => answer'.late = FALSE
    <2>1. CASE \E out \in {"gone", "error"} : Return(p, id, out)
      <3>1. op' = [op EXCEPT ![p] = Idle] /\ answer'.late = FALSE
        BY <2>1 DEF Return
      <3> QED BY <1>2, <3>1
    <2>2. CASE ~\E out \in {"gone", "error"} : Return(p, id, out)
      <3>1. /\ record[id] # None /\ answer' = None
            /\ op' = [op EXCEPT ![p] =
                        [Idle EXCEPT !.pc = "check", !.id = id,
                                     !.session = record[id].session,
                                     !.floor = barrier[record[id].session.owner],
                                     !.late = id \in ended]]
        BY <1>4, <2>2 DEF LookupRead
      <3>2. id \notin ended
        BY <3>1 DEF EndedInv, Gone
      <3> QED BY <1>1, <3>1, <3>2 DEF StoreInv, TypeOK, Idle
    <2> QED BY <2>1, <2>2
  <1>5. ASSUME NEW p \in Procs, LookupCheck(p) \/ LookupRefuse(p)
        PROVE  (\A q \in Procs : op'[q].late = op[q].late) /\ answer' = None
    BY <1>5 DEF LookupCheck, LookupRefuse, StoreInv, TypeOK, Op
  <1>6. ASSUME NEW p \in Procs, NEW id, NEW out, Return(p, id, out)
        PROVE  op' = [op EXCEPT ![p] = Idle] /\ answer'.late = FALSE
    BY <1>6 DEF Return
  <1>7. ASSUME NEW p \in Procs, Serve(p)
        PROVE  op' = [op EXCEPT ![p] = Idle] /\ answer'.late = FALSE
    BY <1>1, <1>7 DEF Serve
  <1>8. ASSUME NEW p \in Procs, LookupPass(p)
        PROVE  /\ \A q \in Procs : ~op'[q].late
               /\ answer' # None => answer'.late = FALSE
    <2>1. CASE Serve(p)
      BY <1>2, <1>7, <2>1
    <2>2. CASE ~Serve(p)
      <3>1. /\ op' = [op EXCEPT ![p].pc = "touch",
                                ![p].session = [op[p].session EXCEPT !.lastSeen = op[p].now]]
            /\ answer' = None
        BY <1>8, <2>2 DEF LookupPass, Touched
      <3>2. \A q \in Procs : op'[q].late = op[q].late
        BY <3>1 DEF StoreInv, TypeOK, Op
      <3> QED BY <1>1, <3>1, <3>2
    <2> QED BY <2>1, <2>2
  <1>9. ASSUME NEW p \in Callers, CallerNext(p)
        PROVE  /\ \A q \in Procs : ~op'[q].late
               /\ answer' # None => answer'.late = FALSE
    <2>1. p \in Procs
      BY DEF Procs
    <2>2. ASSUME NEW o \in Outcomes, CreateWrite(p, o)
          PROVE  op' = [op EXCEPT ![p] = Idle] /\ answer' = None
      BY <2>2 DEF CreateWrite
    <2>3. ASSUME NEW o \in Outcomes, LookupForget(p, o)
          PROVE  op' = [op EXCEPT ![p] = Idle] /\ answer'.late = FALSE
      BY <1>6, <2>1, <2>3 DEF LookupForget
    <2>4. ASSUME LookupMarkerUnknown(p)
          PROVE  op' = [op EXCEPT ![p] = Idle] /\ answer'.late = FALSE
      BY <1>6, <2>1, <2>4 DEF LookupMarkerUnknown
    <2>5. ASSUME NEW o \in Outcomes, LookupTouch(p, o)
          PROVE  op' = [op EXCEPT ![p] = Idle] /\ answer'.late = FALSE
      BY <1>6, <1>7, <2>1, <2>5 DEF LookupTouch
    <2>6. ASSUME NEW id \in Ids, NEW o \in Outcomes, Revoke(p, id, o)
          PROVE  op' = op /\ answer' = None
      BY <2>6 DEF Revoke
    <2> QED BY <1>1, <1>2, <1>3, <1>4, <1>5, <1>8, <1>9, <2>1, <2>2, <2>3, <2>4, <2>5, <2>6
            DEF CallerNext
  <1>10. ASSUME NEW p \in Revokers, RevokerNext(p)
         PROVE  (\A q \in Procs : ~op'[q].late) /\ answer' = None
    <2>1. p \in Procs
      BY DEF Procs
    <2>2. CASE \E s \in Subjects : RevokeSubjectBegin(p, s)
      BY <1>1, <2>1, <2>2 DEF RevokeSubjectBegin, StoreInv, TypeOK, Idle
    <2>3. CASE \E o \in Outcomes : RevokeSubjectWrite(p, o)
      BY <1>2, <2>1, <2>3 DEF RevokeSubjectWrite
    <2> QED BY <1>10, <2>2, <2>3 DEF RevokerNext
  <1>11. CASE Tick
    BY <1>1, <1>11 DEF Tick
  <1> QED BY <1>9, <1>10, <1>11 DEF Next

\* Where a Revoke that is answered meets no other request at its session, what it
\* ended stays ended.
LEMMA EndedInvHolds == Spec /\ [][RevokesApart]_vars => []EndedInv
  <1>1. StoreInv /\ AgeInv /\ EndedInv /\ [Next]_vars /\ [RevokesApart]_vars => EndedInv'
    <2>1. ASSUME EndedInv, UNCHANGED vars PROVE EndedInv'
      BY <2>1 DEF EndedInv, Gone, RevokedIsNotServed, Answered, vars, cacheVars, historyVars
    <2>2. ASSUME StoreInv, AgeInv, EndedInv, Next, RevokesApart PROVE EndedInv'
      <3>1. ASSUME NEW i \in ended' PROVE Gone(i)'
        <4>1. CASE i \in ended
          <5>1. i \in Ids /\ Gone(i)
            BY <2>2, <4>1 DEF EndedInv, StoreInv, TypeOK
          <5> QED BY <2>2, <5>1, GoneStep
        <4>2. CASE i \notin ended
          BY <2>2, <4>2, EndedByRevoke
        <4> QED BY <4>1, <4>2
      <3>2. /\ \A p \in Procs : ~op'[p].late
            /\ answer' # None => answer'.late = FALSE
        BY <2>2, NotLate
      <3> QED BY <3>1, <3>2 DEF EndedInv, RevokedIsNotServed, Answered
    <2> QED BY <2>1, <2>2
  <1> QED BY <1>1, InitEndedInv, StoreInvHolds, AgeInvHolds, PTL DEF Spec

\* Where a Revoke that is answered meets no other request at its session, the session
\* stops working immediately and everywhere: no Lookup that begins afterwards serves
\* it.  That a request is in flight at the session is all that can make it otherwise.
THEOREM EndedEverywhere == Spec /\ [][RevokesApart]_vars => []RevokedIsNotServed
  <1>1. EndedInv => RevokedIsNotServed
    BY DEF EndedInv
  <1> QED BY <1>1, EndedInvHolds, PTL

-----------------------------------------------------------------------------
(* SessionStore implements SessionLedger *)

\* What a step leaves alone when it answers nobody, or a Lookup.
LedgerFrame == UNCHANGED <<clock, born, condemned, ended, marked>>

\* The ledger has what Create made.
LEMMA EnteredIs ==
    ASSUME StoreInv, NEW i \in Ids, born[i] # None
    PROVE  /\ entered[i] # None
           /\ entered[i].owner = born[i].owner
           /\ entered[i].created = born[i].created
           /\ entered[i].expires = born[i].expires
           /\ born[i] \in Session
  <1>1. born[i] \in Session
    BY DEF StoreInv, TypeOK
  <1>2. /\ born[i].owner \in Subjects /\ born[i].created \in Nat
        /\ born[i].expires \in Nat
    BY <1>1 DEF Session
  <1>3. entered[i] = [owner |-> born[i].owner, created |-> born[i].created,
                      expires |-> born[i].expires]
    BY DEF entered
  <1>4. entered[i] \in [owner : Subjects, created : Nat, expires : Nat]
    BY <1>2, <1>3
  <1> QED BY <1>1, <1>3, <1>4, NoneAssumption

\* The ledger says what the store answered.
LEMMA RepliedIs ==
    ASSUME StoreInv'
    PROVE  /\ answer' = None => replied' = None
           /\ answer' # None => replied' = [out |-> answer'.out, id |-> answer'.id]
  BY DEF replied

\* A step inside a call is none of the ledger's.
LEMMA SilentStep ==
    ASSUME LedgerFrame, lastUse' = lastUse, answer' = None
    PROVE  Ledger!Silent
  BY DEF LedgerFrame, Ledger!Silent, entered, replied

\* An answer that nothing could be asked.
LEMMA FailStep ==
    ASSUME StoreInv, StoreInv', LedgerFrame, lastUse' = lastUse, NEW p, NEW i \in Ids,
           born[i] # None, Return(p, i, "error")
    PROVE  Ledger!Fail(i)
  <1>1. answer' # None /\ answer'.out = "error" /\ answer'.id = i
    <2>1. answer' = [out |-> "error", id |-> i, session |-> None,
                     now |-> 0, floor |-> Never, late |-> FALSE]
      BY DEF Return
    <2>2. answer' \in Answer
      BY <2>1 DEF Answer, Never
    <2> QED BY <2>1, <2>2, NoneAssumption
  <1>2. replied' = [out |-> "error", id |-> i]
    BY <1>1, RepliedIs
  <1>3. entered' = entered /\ entered[i] # None
    BY EnteredIs DEF LedgerFrame, entered
  <1> QED BY <1>2, <1>3 DEF LedgerFrame, Ledger!Fail

\* An answer that there is no such session has its reason in the ledger.
LEMMA MissStep ==
    ASSUME StoreInv, StoreInv', UsedSessionsStay', LedgerFrame, lastUse' = lastUse,
           NEW p, NEW i \in Ids, born[i] # None, Return(p, i, "gone")
    PROVE  Ledger!Miss(i)
  <1>1. answer' # None /\ answer'.out = "gone" /\ answer'.id = i
    <2>1. answer' = [out |-> "gone", id |-> i, session |-> None,
                     now |-> 0, floor |-> Never, late |-> FALSE]
      BY DEF Return
    <2>2. answer' \in Answer
      BY <2>1 DEF Answer, Never
    <2> QED BY <2>1, <2>2, NoneAssumption
  <1>2. replied' = [out |-> "gone", id |-> i]
    BY <1>1, RepliedIs
  <1>3. /\ entered' = entered /\ entered[i] # None
        /\ entered[i].owner = born[i].owner /\ entered[i].created = born[i].created
        /\ entered[i].expires = born[i].expires
    BY EnteredIs DEF LedgerFrame, entered
  <1>4. \/ i \in condemned
        \/ marked[born[i].owner] >= born[i].created
        \/ clock >= born[i].expires
        \/ clock >= Greatest(born[i].created, lastUse[i]) + IdleTTL - idleRefreshInterval
    BY <1>1 DEF UsedSessionsStay, Answered, LedgerFrame, idleRefreshInterval
  <1> QED BY <1>2, <1>3, <1>4 DEF LedgerFrame, Ledger!Miss, Ledger!Later, Greatest

\* What is served is in force, at the instant the Lookup read.
LEMMA ServeStep ==
    ASSUME StoreInv, StoreInv', EndedInv, NEW p \in Procs, op[p].pc \in {"marker", "touch"},
           Serve(p), clock' = clock
    PROVE  \E i \in Ids : \E now \in 0..clock : Ledger!Serve(i, now)
  <1> DEFINE i == op[p].id  now == op[p].now
  <1>1. i \in Ids /\ born[i] # None
    BY DEF StoreInv, OpInv, OpOK, Holding
  <1>2. now \in Nat /\ now <= clock /\ clock \in Nat
    BY TTLAssumption DEF StoreInv, TypeOK, OpInv, OpOK, Op
  <1>3. i \notin ended
    BY DEF EndedInv, Gone
  <1>4. /\ UNCHANGED <<born, ended, condemned, marked>>
        /\ lastUse' = [lastUse EXCEPT ![i] = Greatest(lastUse[i], now)]
        /\ answer'.out = "served" /\ answer'.id = i /\ answer'.now = now
    BY DEF Serve
  <1>5. answer' # None
    <2>1. answer' = [out |-> "served", id |-> i, session |-> op[p].session,
                     now |-> now, floor |-> op[p].floor, late |-> op[p].late]
      BY DEF Serve
    <2>2. op[p].session \in Session /\ op[p] \in Op
      BY DEF StoreInv, TypeOK, OpInv, OpOK, Holding
    <2>3. op[p].floor \in Int /\ op[p].late \in BOOLEAN
      BY <2>2 DEF Op
    <2>4. answer' \in Answer
      BY <1>1, <1>2, <2>1, <2>2, <2>3 DEF Answer
    <2> QED BY <2>4, NoneAssumption
  <1>6. now < born[i].expires
    BY <1>4, <1>5 DEF StoreInv, AnswerInv, Answered
  <1>7. replied' = [out |-> "served", id |-> i]
    BY <1>4, <1>5, RepliedIs
  <1>8. entered' = entered /\ entered[i] # None /\ entered[i].expires = born[i].expires
    BY <1>1, <1>4, EnteredIs DEF entered
  <1>9. now \in 0..clock
    BY <1>2
  <1> HIDE DEF i, now
  <1>10. Ledger!Serve(i, now)
    BY <1>3, <1>4, <1>6, <1>7, <1>8 DEF Ledger!Serve, Ledger!Later, Greatest
  <1> QED BY <1>1, <1>9, <1>10

\* Create enters a session at the step that draws its id.
LEMMA CreateStep ==
    ASSUME StoreInv, StoreInv', NEW p \in Procs, NEW s \in Subjects,
           NEW persistent \in BOOLEAN, CreateBegin(p, s, persistent)
    PROVE  \E id \in Ids, l \in {AbsoluteTTL, PersistentAbsoluteTTL} : Ledger!Create(id, s, l)
  <1> DEFINE l == AbsoluteTTLFor(persistent)
  <1>1. PICK id \in Ids :
          born[id] = None /\ born' = [born EXCEPT ![id] = NewSession(s, persistent, clock)]
    BY DEF CreateBegin, newID
  <1>2. born'[id] # None /\ \A j \in Ids \ {id} : born'[j] = born[j]
    <2>1. NewSession(s, persistent, clock) \in Session
      BY NewSessionType, TTLAssumption DEF StoreInv, TypeOK
    <2> QED BY <1>1, <2>1, NoneAssumption DEF StoreInv, TypeOK
  <1>3. /\ born'[id].owner = s /\ born'[id].created = clock
        /\ born'[id].expires = clock + l
    BY <1>1 DEF StoreInv, TypeOK, NewSession
  <1>4. l \in {AbsoluteTTL, PersistentAbsoluteTTL}
    BY DEF AbsoluteTTLFor
  <1> HIDE DEF l
  <1>5. entered[id] = None
    BY <1>1 DEF entered
  <1> DEFINE e == [owner |-> s, created |-> clock, expires |-> clock + l]
  <1>6. entered' = [entered EXCEPT ![id] = e]
    <2>1. entered'[id] = e
      BY <1>2, <1>3 DEF entered
    <2>2. \A j \in Ids \ {id} : entered'[j] = entered[j]
      BY <1>2 DEF entered
    <2>3. /\ entered' = [j \in Ids |-> entered'[j]]
          /\ entered = [j \in Ids |-> entered[j]]
      BY DEF entered
    <2> HIDE DEF e
    <2> QED BY <2>1, <2>2, <2>3
  <1>7. replied' = None /\ UNCHANGED <<clock, lastUse, condemned, ended, marked>>
    BY RepliedIs DEF CreateBegin
  <1>8. Ledger!Create(id, s, l)
    BY <1>5, <1>6, <1>7 DEF Ledger!Create
  <1> QED BY <1>4, <1>8

\* A step of Lookup is one of the ledger's when it answers, and none before.
LEMMA LookupStep ==
    ASSUME StoreInv, StoreInv', AgeInv, EndedInv, UsedSessionsStay', NEW p \in Procs,
           \/ \E id \in Ids : LookupRead(p, id)
           \/ LookupCheck(p)
           \/ \E o \in Outcomes : LookupForget(p, o)
           \/ LookupMarkerUnknown(p)
           \/ LookupRefuse(p)
           \/ LookupPass(p)
           \/ \E o \in Outcomes : LookupTouch(p, o)
    PROVE  Ledger!Next
  <1> DEFINE SilentOrAnswered ==
        \/ Ledger!Silent
        \/ \E i \in Ids : Ledger!Miss(i) \/ Ledger!Fail(i)
        \/ \E i \in Ids : \E now \in 0..clock : Ledger!Serve(i, now)
  <1>1. ASSUME NEW id \in Ids, LookupRead(p, id) PROVE SilentOrAnswered
    <2>1. LedgerFrame /\ lastUse' = lastUse
      BY <1>1 DEF LookupRead, historyVars, LedgerFrame
    <2>2. born[id] # None
      BY <1>1 DEF LookupRead, AgeInv, HeldOK
    <2>3. Return(p, id, "error") \/ Return(p, id, "gone") \/ answer' = None
      BY <1>1 DEF LookupRead
    <2> QED BY <2>1, <2>2, <2>3, SilentStep, FailStep, MissStep
  <1>2. ASSUME LookupCheck(p) \/ LookupRefuse(p) PROVE SilentOrAnswered
    <2>1. LedgerFrame /\ lastUse' = lastUse /\ answer' = None
      BY <1>2 DEF LookupCheck, LookupRefuse, historyVars, LedgerFrame
    <2> QED BY <2>1, SilentStep
  <1>3. op[p].pc \in Holding => op[p].id \in Ids /\ born[op[p].id] # None
    BY DEF StoreInv, OpInv, OpOK
  <1>4. ASSUME NEW o \in Outcomes, LookupForget(p, o) PROVE SilentOrAnswered
    <2>1. LedgerFrame /\ lastUse' = lastUse /\ Return(p, op[p].id, "gone")
      BY <1>4 DEF LookupForget, historyVars, LedgerFrame
    <2>2. op[p].pc \in Holding
      BY <1>4 DEF LookupForget, Holding
    <2>3. PICK i \in Ids : i = op[p].id /\ born[i] # None
      BY <1>3, <2>2
    <2>4. Ledger!Miss(i)
      BY <2>1, <2>3, MissStep
    <2> QED BY <2>4
  <1>5. ASSUME LedgerFrame, lastUse' = lastUse, Return(p, op[p].id, "error"),
               op[p].pc \in Holding
        PROVE  SilentOrAnswered
    <2>1. PICK i \in Ids : i = op[p].id /\ born[i] # None
      BY <1>3, <1>5
    <2>2. Ledger!Fail(i)
      BY <1>5, <2>1, FailStep
    <2> QED BY <2>2
  <1>6. ASSUME LookupMarkerUnknown(p) PROVE SilentOrAnswered
    BY <1>5, <1>6 DEF LookupMarkerUnknown, historyVars, LedgerFrame, Holding
  <1>7. ASSUME LookupPass(p) PROVE SilentOrAnswered
    <2>1. CASE Serve(p)
      <3>1. op[p].pc \in {"marker", "touch"} /\ clock' = clock
        BY <1>7 DEF LookupPass
      <3> QED BY <2>1, <3>1, ServeStep
    <2>2. CASE ~Serve(p)
      <3>1. LedgerFrame /\ lastUse' = lastUse /\ answer' = None
        BY <1>7, <2>2 DEF LookupPass, historyVars, LedgerFrame
      <3> QED BY <3>1, SilentStep
    <2> QED BY <2>1, <2>2
  <1>8. ASSUME NEW o \in Outcomes, LookupTouch(p, o) PROVE SilentOrAnswered
    <2>1. op[p].pc \in {"marker", "touch"} /\ op[p].pc \in Holding /\ clock' = clock
      BY <1>8 DEF LookupTouch, Holding
    <2>2. CASE Serve(p)
      BY <2>1, <2>2, ServeStep
    <2>3. CASE ~Serve(p)
      <3>1. LedgerFrame /\ lastUse' = lastUse /\ Return(p, op[p].id, "error")
        BY <1>8, <2>3 DEF LookupTouch, historyVars, LedgerFrame
      <3> QED BY <1>5, <2>1, <3>1
    <2> QED BY <2>2, <2>3
  <1>9. SilentOrAnswered
    BY <1>1, <1>2, <1>4, <1>6, <1>7, <1>8
  <1> QED BY <1>9 DEF Ledger!Next

\* Every step of the store is one of the ledger's.
LEMMA LedgerStep ==
    ASSUME StoreInv, StoreInv', AgeInv, EndedInv, UsedSessionsStay', Next
    PROVE  Ledger!Next
  <1>1. CASE Tick
    <2>1. Ledger!Pass
      BY <1>1, RepliedIs DEF Tick, historyVars, Ledger!Pass, entered
    <2> QED BY <2>1 DEF Ledger!Next
  <1>2. ASSUME NEW p \in Callers, CallerNext(p) PROVE Ledger!Next
    <2>1. p \in Procs
      BY DEF Procs
    <2>2. ASSUME NEW s \in Subjects, NEW persistent \in BOOLEAN, CreateBegin(p, s, persistent)
          PROVE  Ledger!Next
      BY <2>1, <2>2, CreateStep DEF Ledger!Next
    <2>3. ASSUME NEW o \in Outcomes, CreateWrite(p, o) PROVE Ledger!Next
      <3>1. Ledger!Silent
        BY <2>3, SilentStep DEF CreateWrite, LedgerFrame
      <3> QED BY <3>1 DEF Ledger!Next
    <2>4. ASSUME NEW id \in Ids, NEW o \in Outcomes, Revoke(p, id, o) PROVE Ledger!Next
      <3>1. born[id] # None
        BY <2>4 DEF Revoke, AgeInv, HeldOK
      <3>2. entered' = entered /\ replied' = None /\ entered[id] # None
        BY <2>4, <3>1, RepliedIs, EnteredIs DEF Revoke, entered
      <3>3. Ledger!Revoke(id, o = "ok")
        BY <2>4, <3>2 DEF Revoke, Ledger!Revoke
      <3>4. (o = "ok") \in BOOLEAN
        OBVIOUS
      <3> QED BY <3>3, <3>4 DEF Ledger!Next
    <2> QED BY <1>2, <2>1, <2>2, <2>3, <2>4, LookupStep DEF CallerNext
  <1>3. ASSUME NEW p \in Revokers, RevokerNext(p) PROVE Ledger!Next
    <2>1. ASSUME NEW s \in Subjects, RevokeSubjectBegin(p, s) PROVE Ledger!Next
      <3>1. Ledger!RevokeSubject(s)
        BY <2>1, RepliedIs DEF RevokeSubjectBegin, Ledger!RevokeSubject, entered
      <3> QED BY <3>1 DEF Ledger!Next
    <2>2. ASSUME NEW o \in Outcomes, RevokeSubjectWrite(p, o) PROVE Ledger!Next
      <3>1. Ledger!Silent
        BY <2>2, SilentStep DEF RevokeSubjectWrite, LedgerFrame
      <3> QED BY <3>1 DEF Ledger!Next
    <2> QED BY <1>3, <2>1, <2>2 DEF RevokerNext
  <1> QED BY <1>1, <1>2, <1>3 DEF Next

\* An empty store is an empty ledger.
LEMMA LedgerInit == Init => Ledger!Init
  BY DEF Init, Ledger!Init, entered, replied, Never

\* Where calls for one session do not overlap, the round trips, the copies, the
\* writes touch leaves out and whatever the cache fails to do are invisible: the
\* store behaves towards its callers as a ledger in which every call is one step.
THEOREM KeepsLedger == Spec /\ []Apart /\ [][RevokesApart]_vars => LedgerKept
  <1>1. /\ StoreInv /\ StoreInv' /\ AgeInv /\ EndedInv /\ UsedSessionsStay'
        /\ [Next]_vars
        => [Ledger!Next]_(Ledger!vars)
    <2>1. ASSUME UNCHANGED vars PROVE UNCHANGED Ledger!vars
      BY <2>1 DEF vars, cacheVars, historyVars, Ledger!vars, entered, replied
    <2> QED BY <2>1, LedgerStep
  <1> QED BY <1>1, LedgerInit, StoreInvHolds, AgeInvHolds, EndedInvHolds, IdleIsExact, PTL
          DEF Spec, LedgerKept, Ledger!Spec

=============================================================================
