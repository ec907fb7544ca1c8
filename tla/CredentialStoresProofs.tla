----------------------- MODULE CredentialStoresProofs -----------------------
(***************************************************************************)
(* What the credential stores guarantee for any set of nodes, requests and *)
(* issued keys, any configuration, and any bound on the clock.             *)
(*                                                                         *)
(* A lookup remembers what the key was when the request began.  The        *)
(* invariant says why that memory can be relied on: a key that was issued  *)
(* once is never issued again, so a record that is gone or out of time     *)
(* stays so, and the row a lookup has read is still the record or the      *)
(* record is gone.                                                         *)
(***************************************************************************)
EXTENDS CredentialStores, TLAPS

\* The startup checks passed, and the store is the one they lead to.
Started ==
    /\ phase \in {"starting", "serving"} =>
        NewSessionStore /\ checkDevCredentials /\ source = Source
    /\ phase = "building" => source = "none"

\* A record is one encli wrote into a store this deployment has; Redis has none
\* that is out of time.
Recorded ==
    \A k \in IssuedKey : records[k].here =>
        /\ backend # "none" /\ granted[k] # {}
        /\ backend = "redis" => records[k].expiresAt > now

\* The caller handed to a request is its own.
Apart(q) == q.own

\* A request that has begun is one of a process that serves.
Began(q) ==
    /\ q.pc = "idle" => q = Idle
    /\ q.pc # "idle" => phase = "serving" /\ q.key \in Key
    /\ q.pc # "done" => q.answer = "none"

\* What a lookup remembers is about a key that was issued.
Remembered(q) ==
    /\ q.good \/ q.over \/ q.pc = "judging" => q.key \in IssuedKey /\ granted[q.key] # {}
    /\ q.good => source = "builtin"
    /\ q.over => ~Good(q.key)

\* The row a lookup has read, while the record may be withdrawn.
Judging(q) ==
    q.pc = "judging" =>
        /\ q.row.here
        /\ records[q.key] = q.row \/ ~records[q.key].here
        /\ q.over => ~q.row.named \/ q.row.expiresAt <= now

\* What production may answer to a key: no default one, and no scopes but those of
\* a record.
Earned(key, scopes) ==
    /\ key # DevAPIKey
    /\ key = DevPaymentAPIKey => DevPaymentAPIKey \in listed
    /\ key \notin IssuedKey => scopes \cap Scope = {}

\* What was answered was right, and stays right.
Answered(q) ==
    /\ q.answer = "caller" =>
        /\ ~q.over
        /\ env = "production" => Earned(q.key, q.scopes)
    /\ q.answer = "invalid" => ~(q.good /\ Good(q.key))

LookupOK(q) == Apart(q) /\ Began(q) /\ Remembered(q) /\ Judging(q) /\ Answered(q)

Ended == signedOut => phase = "serving" /\ SignOutReachesEveryNode

CredInv ==
    /\ TypeOK
    /\ Started /\ Recorded /\ NobodyIsWidened /\ Ended
    /\ \A r \in Request : LookupOK(req[r])

-----------------------------------------------------------------------------

\* The clock's bound is a number.
LEMMA MaxTimeType == MaxTime \in Nat
  BY CredentialAssumption

\* The parts of the type invariant that speak about the store.
LEMMA StoreTypes ==
    ASSUME TypeOK
    PROVE  /\ now \in Nat /\ now <= MaxTime
           /\ records \in [IssuedKey -> Row \cup {Absent}]
           /\ granted \in [Key -> SUBSET (Scope \cup {Widened})]
  <1>1. now \in 0..MaxTime /\ records \in [IssuedKey -> Row \cup {Absent}]
        /\ granted \in [Key -> SUBSET (Scope \cup {Widened})]
    BY DEF TypeOK
  <1> QED BY <1>1, MaxTimeType

\* A row that is there has a time.
LEMMA RowTime ==
    ASSUME NEW row \in Row \cup {Absent}, row.here
    PROVE  row.expiresAt \in Int
  <1>1. row \in Row
    BY DEF Absent
  <1> QED BY <1>1, MaxTimeType DEF Row, Never

\* A request that has not begun is in order, in any state.
LEMMA IdleOK == Idle \in Lookup /\ LookupOK(Idle)
  <1>1. Idle \in Lookup
    BY DEF Idle, Lookup
  <1>2. /\ Idle.pc = "idle" /\ Idle.own = TRUE /\ Idle.answer = "none"
        /\ Idle.good = FALSE /\ Idle.over = FALSE
    BY DEF Idle
  <1> QED BY <1>1, <1>2 DEF LookupOK, Apart, Began, Remembered, Judging, Answered

\* Only the lookup that takes a step changes.
LEMMA LookupStep ==
    ASSUME CredInv, NEW r \in Request, NEW q \in Lookup, LookupOK(q),
           req' = [req EXCEPT ![r] = q],
           UNCHANGED <<config, phase, source, keyVars, sessionVars>>
    PROVE  CredInv'
  <1> USE DEF config, keyVars, sessionVars
  <1>1. TypeOK'
    BY DEF CredInv, TypeOK, LookupOK, Judging
  <1>2. Started' /\ Recorded' /\ NobodyIsWidened' /\ Ended'
    BY DEF CredInv, Started, NewSessionStore, memoryAllowed, checkDevCredentials,
       devCredentialsAllowed, Source, devKeyStore, Recorded, NobodyIsWidened, Ended,
       SignOutReachesEveryNode, Running, backingStore
  <1>3. ASSUME NEW s \in Request PROVE LookupOK(req[s])'
    <2>1. LookupOK(req'[s])
      BY DEF CredInv, TypeOK
    <2> QED BY <2>1 DEF LookupOK, Apart, Began, Remembered, Judging, Answered, Earned, Good
  <1> QED BY <1>1, <1>2, <1>3 DEF CredInv

\* verifyAPIKey: an answer that is right is right for good.
LEMMA VerifyInv ==
    ASSUME CredInv, NEW r \in Request, NEW outcome \in {"caller", "ErrKeyNotFound", "error"},
           NEW scopes \in SUBSET (Scope \cup {Widened}),
           verifyAPIKey(r, outcome, scopes, TRUE), req[r].pc \in {"asked", "judging"},
           outcome = "caller" =>
               /\ ~req[r].over
               /\ env = "production" => Earned(req[r].key, scopes),
           outcome = "ErrKeyNotFound" => ~(req[r].good /\ Good(req[r].key)),
           UNCHANGED <<config, phase, source, keyVars, sessionVars>>
    PROVE  CredInv'
  <1> DEFINE answer == CASE outcome = "caller" -> "caller"
                         [] outcome = "ErrKeyNotFound" -> "invalid"
                         [] outcome = "error" -> "unavailable"
             q == [req[r] EXCEPT !.pc = "done", !.scopes = scopes, !.own = TRUE,
                                 !.answer = answer]
  <1>1. req' = [req EXCEPT ![r] = q]
    BY DEF verifyAPIKey
  <1>2. /\ answer \in {"caller", "invalid", "unavailable"}
        /\ answer = "caller" => outcome = "caller"
        /\ answer = "invalid" => outcome = "ErrKeyNotFound"
    OBVIOUS
  <1> HIDE DEF answer
  <1>3. req[r] \in Lookup /\ LookupOK(req[r])
    BY DEF CredInv, TypeOK
  <1>4. q \in Lookup
    BY <1>2, <1>3 DEF Lookup
  <1>5. /\ q.pc = "done" /\ q.own = TRUE /\ q.answer = answer /\ q.key = req[r].key
        /\ q.good = req[r].good /\ q.over = req[r].over /\ q.scopes = scopes
    BY <1>3 DEF Lookup
  <1> HIDE DEF q
  <1>6. LookupOK(q)
    BY <1>2, <1>3, <1>5 DEF LookupOK, Apart, Began, Remembered, Judging, Answered
  <1> QED BY <1>1, <1>4, <1>6, LookupStep

-----------------------------------------------------------------------------
(* One lemma per action *)

\* A request begins with what the key is at that moment.
LEMMA BeginInv ==
    ASSUME CredInv, NEW r \in Request, NEW k \in Key, Begin(r, k)
    PROVE  CredInv'
  <1> DEFINE q == [req[r] EXCEPT !.pc = "asked", !.key = k, !.good = Good(k), !.over = Over(k)]
  <1>1. req' = [req EXCEPT ![r] = q] /\ phase = "serving" /\ req[r].pc = "idle"
    BY DEF Begin
  <1>2. req[r] \in Lookup /\ LookupOK(req[r]) /\ req[r] = Idle
    BY <1>1 DEF CredInv, TypeOK, LookupOK, Began
  <1>3. Good(k) \in BOOLEAN /\ Over(k) \in BOOLEAN
    BY DEF Good, Over
  <1>4. q \in Lookup
    BY <1>2, <1>3 DEF Lookup
  <1>5. /\ q.pc = "asked" /\ q.own = TRUE /\ q.answer = "none" /\ q.key = k
        /\ q.good = Good(k) /\ q.over = Over(k)
    BY <1>2 DEF Idle
  <1>6. Good(k) => k \in IssuedKey /\ granted[k] # {} /\ source = "builtin"
    BY <1>1 DEF CredInv, Recorded, Good, Started, Source
  <1>7. Over(k) => k \in IssuedKey /\ granted[k] # {} /\ ~Good(k)
    BY DEF Over
  <1> HIDE DEF q
  <1>8. LookupOK(q)
    BY <1>1, <1>5, <1>6, <1>7 DEF LookupOK, Apart, Began, Remembered, Judging, Answered
  <1> QED BY <1>1, <1>4, <1>8, LookupStep DEF Begin

\* What is known of a lookup that waits for a store.
LEMMA AskedFacts ==
    ASSUME CredInv, NEW r \in Request, NEW from, Asked(r, from)
    PROVE  /\ req[r] \in Lookup /\ LookupOK(req[r]) /\ req[r].pc = "asked"
           /\ phase = "serving" /\ req[r].key \in Key /\ source = from /\ source = Source
           /\ checkDevCredentials
           /\ UNCHANGED <<config, phase, source, keyVars, sessionVars>>
  BY DEF CredInv, TypeOK, Asked, LookupOK, Began, Started

\* The stores that know no issued key: the empty one, the listed keys, and those
\* of a developer's machine.
LEMMA OtherStoresInv ==
    ASSUME CredInv, NEW r \in Request,
           noKeyStore(r) \/ staticKeyStore(r) \/ stubLookup(r)
    PROVE  CredInv'
  <1>1. CASE noKeyStore(r)
    <2>1. Asked(r, "none") /\ verifyAPIKey(r, "ErrKeyNotFound", {}, TRUE)
      BY <1>1 DEF noKeyStore
    <2>2. ~req[r].good
      BY <2>1, AskedFacts DEF LookupOK, Remembered
    <2> QED BY <2>1, <2>2, AskedFacts, VerifyInv
  <1>2. CASE staticKeyStore(r)
    <2> DEFINE outcome == IF req[r].key \in listed THEN "caller" ELSE "ErrKeyNotFound"
    <2>1. Asked(r, "static") /\ verifyAPIKey(r, outcome, {}, TRUE)
      BY <1>2 DEF staticKeyStore
    <2>2. ~req[r].good
      BY <2>1, AskedFacts DEF LookupOK, Remembered
    <2>3. ASSUME req[r].key \in listed
          PROVE  /\ ~req[r].over
                 /\ env = "production" => Earned(req[r].key, {})
      BY <2>1, <2>3, AskedFacts, CredentialAssumption DEF LookupOK, Remembered, CredInv,
         TypeOK, Listable, checkDevCredentials, devCredentialsAllowed, Earned
    <2>4. outcome \in {"caller", "ErrKeyNotFound", "error"}
      OBVIOUS
    <2>5. outcome = "caller" => req[r].key \in listed
      OBVIOUS
    <2> HIDE DEF outcome
    <2> QED BY <2>1, <2>2, <2>3, <2>4, <2>5, AskedFacts, VerifyInv
  <1>3. CASE stubLookup(r)
    <2>1. Asked(r, "dev") /\ ~req[r].good
      BY <1>3, AskedFacts DEF stubLookup, LookupOK, Remembered
    <2>2. env # "production"
      BY <2>1, AskedFacts DEF Source, devKeyStore, devCredentialsAllowed
    <2>3. CASE req[r].key \in listed \cup {DevPaymentAPIKey}
      <3>1. verifyAPIKey(r, "caller", granted[req[r].key], TRUE)
        BY <1>3, <2>3 DEF stubLookup
      <3>2. ~req[r].over
        BY <2>1, <2>3, AskedFacts, CredentialAssumption DEF LookupOK, Remembered,
           CredInv, TypeOK, Listable
      <3>3. granted[req[r].key] \in SUBSET (Scope \cup {Widened})
        BY <2>1, AskedFacts DEF CredInv, TypeOK
      <3> QED BY <2>1, <2>2, <3>1, <3>2, <3>3, AskedFacts, VerifyInv
    <2>4. CASE req[r].key \notin listed \cup {DevPaymentAPIKey}
      <3>1. verifyAPIKey(r, "ErrKeyNotFound", {}, TRUE)
        BY <1>3, <2>4 DEF stubLookup
      <3> QED BY <2>1, <3>1, AskedFacts, VerifyInv
    <2> QED BY <2>3, <2>4
  <1> QED BY <1>1, <1>2, <1>3

\* A record that is not there belongs to no good key.
LEMMA NotThere ==
    ASSUME NEW r \in Request, ~Found(r).here
    PROVE  ~Good(req[r].key)
  BY DEF Found, Good

\* A row that is there is the record of an issued key.
LEMMA There ==
    ASSUME NEW r \in Request, Found(r).here
    PROVE  req[r].key \in IssuedKey /\ Found(r) = records[req[r].key]
  BY DEF Found, Absent

\* validateSubject answers for a row that is good, whatever it was before.
LEMMA ValidateInv ==
    ASSUME CredInv, NEW r \in Request, NEW row, validateSubject(r, row),
           req[r].pc \in {"asked", "judging"}, req[r].key \in IssuedKey,
           row.named => ~req[r].over,
           UNCHANGED <<config, phase, source, keyVars, sessionVars>>
    PROVE  CredInv'
  <1>1. CASE row.named
    <2>1. verifyAPIKey(r, "caller", granted[req[r].key], TRUE)
      BY <1>1 DEF validateSubject
    <2>2. Earned(req[r].key, granted[req[r].key])
      BY CredentialAssumption DEF Earned
    <2>3. granted[req[r].key] \in SUBSET (Scope \cup {Widened})
      BY DEF CredInv, TypeOK, Key
    <2> QED BY <1>1, <2>1, <2>2, <2>3, VerifyInv
  <1>2. CASE ~row.named
    <2>1. verifyAPIKey(r, "error", {}, TRUE)
      BY <1>2 DEF validateSubject
    <2> QED BY <2>1, VerifyInv
  <1> QED BY <1>1, <1>2

\* Redis: a record that is there has not run out.
LEMMA RedisInv == ASSUME CredInv, NEW r \in Request, redisLookup(r) PROVE CredInv'
  <1>1. Asked(r, "builtin") /\ backend = "redis"
    BY DEF redisLookup
  <1>2. CASE Found(r).here
    <2>1. validateSubject(r, Found(r))
      BY <1>2 DEF redisLookup
    <2>2. req[r].key \in IssuedKey /\ Found(r) = records[req[r].key]
      BY <1>2, There
    <2>3. Found(r).named => Good(req[r].key)
      BY <1>1, <1>2, <2>2 DEF CredInv, Recorded, Good
    <2>4. Found(r).named => ~req[r].over
      BY <1>1, <2>3, AskedFacts DEF LookupOK, Remembered
    <2> QED BY <1>1, <2>1, <2>2, <2>4, AskedFacts, ValidateInv
  <1>3. CASE ~Found(r).here
    <2>1. verifyAPIKey(r, "ErrKeyNotFound", {}, TRUE)
      BY <1>3 DEF redisLookup
    <2> QED BY <1>1, <1>3, <2>1, AskedFacts, NotThere, VerifyInv
  <1> QED BY <1>2, <1>3

\* The database: what is read is the record of this moment.
LEMMA ReadInv == ASSUME CredInv, NEW r \in Request, read(r) PROVE CredInv'
  <1>1. Asked(r, "builtin")
    BY DEF read
  <1>2. CASE ~table
    <2>1. verifyAPIKey(r, "error", {}, TRUE)
      BY <1>2 DEF read
    <2> QED BY <1>1, <2>1, AskedFacts, VerifyInv
  <1>3. CASE table /\ ~Found(r).here
    <2>1. verifyAPIKey(r, "ErrKeyNotFound", {}, TRUE)
      BY <1>3 DEF read
    <2> QED BY <1>1, <1>3, <2>1, AskedFacts, NotThere, VerifyInv
  <1>4. CASE table /\ Found(r).here
    <2> DEFINE q == [req[r] EXCEPT !.pc = "judging", !.row = Found(r)]
    <2>1. req' = [req EXCEPT ![r] = q]
      BY <1>4 DEF read
    <2>2. /\ req[r].key \in IssuedKey /\ Found(r) = records[req[r].key]
          /\ Found(r) \in Row \cup {Absent}
      BY <1>4, There DEF CredInv, TypeOK
    <2>3. granted[req[r].key] # {}
      BY <1>4, <2>2 DEF CredInv, Recorded
    <2>4. req[r] \in Lookup /\ LookupOK(req[r]) /\ req[r].pc = "asked" /\ phase = "serving"
      BY <1>1, AskedFacts
    <2>5. q \in Lookup
      BY <2>2, <2>4 DEF Lookup
    <2>6. /\ q.pc = "judging" /\ q.row = Found(r) /\ q.own = req[r].own
          /\ q.answer = req[r].answer /\ q.key = req[r].key
          /\ q.good = req[r].good /\ q.over = req[r].over
      BY <2>4 DEF Lookup
    <2>7. q.over => ~Found(r).named \/ Found(r).expiresAt <= now
      <3>1. Found(r).expiresAt \in Int /\ now \in Int
        BY <1>4, <2>2, RowTime, StoreTypes DEF CredInv
      <3> QED BY <1>4, <2>2, <2>4, <2>6, <3>1 DEF LookupOK, Remembered, Good
    <2> HIDE DEF q
    <2>8. LookupOK(q)
      BY <1>4, <2>2, <2>3, <2>4, <2>6, <2>7 DEF LookupOK, Apart, Began, Remembered,
         Judging, Answered
    <2> QED BY <1>1, <2>1, <2>5, <2>8, AskedFacts, LookupStep
  <1> QED BY <1>2, <1>3, <1>4 DEF read, CredInv, TypeOK

\* The row that was read is judged by the clock of the judgement.
LEMMA DbLookupInv == ASSUME CredInv, NEW r \in Request, dbLookup(r) PROVE CredInv'
  <1>1. /\ req[r].pc = "judging" /\ req[r] \in Lookup /\ LookupOK(req[r]) /\ req[r].row.here
        /\ UNCHANGED <<config, phase, source, keyVars, sessionVars>>
    BY DEF dbLookup, CredInv, TypeOK
  <1>2. req[r].key \in IssuedKey
    BY <1>1 DEF LookupOK, Remembered
  <1>3. req[r].row.expiresAt \in Int /\ now \in Int
    <2>1. req[r].row \in Row \cup {Absent}
      BY <1>1 DEF Lookup
    <2> QED BY <1>1, <2>1, RowTime, StoreTypes DEF CredInv
  <1>4. CASE req[r].row.expiresAt <= now
    <2>1. verifyAPIKey(r, "ErrKeyNotFound", {}, TRUE)
      BY <1>4 DEF dbLookup
    <2>2. ~Good(req[r].key)
      BY <1>1, <1>3, <1>4 DEF LookupOK, Judging, Good
    <2> QED BY <1>1, <2>1, <2>2, VerifyInv
  <1>5. CASE ~(req[r].row.expiresAt <= now)
    <2>1. validateSubject(r, req[r].row)
      BY <1>5 DEF dbLookup
    <2>2. req[r].row.named => ~req[r].over
      BY <1>1, <1>5 DEF LookupOK, Judging
    <2> QED BY <1>1, <1>2, <2>1, <2>2, ValidateInv
  <1> QED BY <1>4, <1>5

\* An outage is no answer about the key.
LEMMA StoreDownInv == ASSUME CredInv, NEW r \in Request, StoreDown(r) PROVE CredInv'
  <1>1. Asked(r, "builtin") /\ verifyAPIKey(r, "error", {}, TRUE)
    BY DEF StoreDown
  <1> QED BY <1>1, AskedFacts, VerifyInv

\* A caller is the request's own, so widening it changes nothing else.
LEMMA WidenInv == ASSUME CredInv, NEW r \in Request, Widen(r) PROVE CredInv'
  <1> DEFINE q == [req[r] EXCEPT !.scopes = @ \cup {Widened}]
  <1>1. req[r] \in Lookup /\ LookupOK(req[r]) /\ req[r].answer = "caller"
    BY DEF CredInv, TypeOK, Widen
  <1>2. req' = [req EXCEPT ![r] = q] /\ UNCHANGED <<config, phase, source, keyVars, sessionVars>>
    BY <1>1 DEF Widen, LookupOK, Apart, keyVars
  <1>3. q \in Lookup
    BY <1>1 DEF Lookup
  <1>4. /\ q.pc = req[r].pc /\ q.row = req[r].row /\ q.own = req[r].own
        /\ q.answer = req[r].answer /\ q.key = req[r].key
        /\ q.good = req[r].good /\ q.over = req[r].over
        /\ q.scopes = req[r].scopes \cup {Widened}
    BY <1>1 DEF Lookup
  <1>5. q.pc = "done" /\ q.scopes \cap Scope = req[r].scopes \cap Scope
    BY <1>1, <1>4 DEF Lookup, LookupOK, Began, Scope, Widened
  <1> HIDE DEF q
  <1>6. LookupOK(q)
    BY <1>1, <1>4, <1>5 DEF LookupOK, Apart, Began, Remembered, Judging, Answered, Earned
  <1> QED BY <1>2, <1>3, <1>6, LookupStep

-----------------------------------------------------------------------------
(* Startup, encli, the clock and the session *)

\* Until the process serves, no lookup has begun.
LEMMA QuietInv ==
    ASSUME CredInv, phase # "serving", req' = req
    PROVE  \A r \in Request : LookupOK(req[r])'
  <1>1. SUFFICES ASSUME NEW r \in Request PROVE LookupOK(req[r])'
    OBVIOUS
  <1>2. req'[r] = Idle
    BY DEF CredInv, LookupOK, Began
  <1>3. /\ Idle.pc = "idle" /\ Idle.own = TRUE /\ Idle.answer = "none"
        /\ Idle.good = FALSE /\ Idle.over = FALSE
    BY DEF Idle
  <1> QED BY <1>2, <1>3 DEF LookupOK, Apart, Began, Remembered, Judging, Answered

\* NewVerifier lets a deployment through only if the checks pass.
LEMMA NewVerifierInv == ASSUME CredInv, NewVerifier PROVE CredInv'
  <1> USE DEF config, sessionVars
  <1>1. \A r \in Request : LookupOK(req[r])'
    BY QuietInv DEF NewVerifier
  <1>2. source' \in {"builtin", "dev", "static", "none"} /\ (source' = "dev" => backend = "none")
    <2>1. (source' = source /\ source = "none") \/ source' = Source
      BY DEF NewVerifier, CredInv, Started
    <2> QED BY <2>1 DEF Source, CredInv, TypeOK, Backends
  <1>3. devScopes \in [Key -> SUBSET Scope]
    BY DEF devScopes, Scope
  <1>4. TypeOK'
    BY <1>2, <1>3 DEF NewVerifier, CredInv, TypeOK
  <1>5. Started'
    BY DEF NewVerifier, CredInv, TypeOK, Started, NewSessionStore, memoryAllowed,
       checkDevCredentials, devCredentialsAllowed, Source, devKeyStore
  <1>6. Recorded'
    BY <1>2 DEF NewVerifier, CredInv, TypeOK, Recorded
  <1>7. NobodyIsWidened'
    BY <1>3 DEF NewVerifier, CredInv, NobodyIsWidened, Scope, Widened
  <1>8. Ended'
    BY DEF NewVerifier, CredInv, Ended
  <1> QED BY <1>1, <1>4, <1>5, <1>6, <1>7, <1>8 DEF CredInv

\* Ready lets the process serve, or ends it.
LEMMA ReadyInv == ASSUME CredInv, Ready PROVE CredInv'
  <1> USE DEF config, sessionVars, keyVars
  <1>1. \A r \in Request : LookupOK(req[r])'
    BY QuietInv DEF Ready
  <1>2. TypeOK' /\ Recorded' /\ NobodyIsWidened' /\ Ended'
    BY DEF Ready, CredInv, TypeOK, Recorded, NobodyIsWidened, Ended
  <1>3. Started'
    BY DEF Ready, CredInv, Started, NewSessionStore, memoryAllowed,
       checkDevCredentials, devCredentialsAllowed, Source, devKeyStore
  <1> QED BY <1>1, <1>2, <1>3 DEF CredInv

\* The record of a key that was issued only ever goes away, and time only passes.
Fades ==
    /\ \A k \in IssuedKey :
        granted[k] # {} => /\ records'[k] = records[k] \/ ~records'[k].here
                           /\ granted'[k] # {}
    /\ now' \in Nat /\ now <= now'

\* What lookups know outlives every change of the store.
LEMMA FadeInv ==
    ASSUME CredInv, TypeOK', Fades, UNCHANGED <<config, phase, source, req>>
    PROVE  \A r \in Request : LookupOK(req[r])'
  <1>1. SUFFICES ASSUME NEW r \in Request PROVE LookupOK(req[r])'
    OBVIOUS
  <1> DEFINE q == req[r]
  <1>2. q' = q /\ LookupOK(q) /\ q \in Lookup
    BY DEF CredInv, TypeOK
  <1>3. ASSUME NEW k \in IssuedKey, granted[k] # {}, ~Good(k) PROVE ~Good(k)'
    <2>1. CASE records'[k] = records[k] /\ records[k].here
      <3>1. records[k].expiresAt \in Int /\ now \in Int /\ now' \in Int
        BY <2>1, RowTime, StoreTypes DEF CredInv, Fades
      <3> QED BY <1>3, <2>1, <3>1 DEF Good, Fades
    <2> QED BY <1>3, <2>1 DEF Good, Fades
  <1> HIDE DEF q
  <1>4. Apart(q)' /\ Began(q)'
    BY <1>2 DEF LookupOK, Apart, Began
  <1>5. Remembered(q)'
    BY <1>2, <1>3 DEF LookupOK, Remembered, Fades
  <1>6. Judging(q)'
    <2>1. SUFFICES ASSUME q.pc = "judging" PROVE Judging(q)'
      BY <1>2 DEF Judging
    <2>2. q.row \in Row \cup {Absent} /\ q.row.here
      BY <1>2, <2>1 DEF LookupOK, Judging, Lookup
    <2>3. q.row.expiresAt \in Int /\ now \in Int /\ now' \in Int
      BY <2>2, RowTime, StoreTypes DEF CredInv, Fades
    <2>4. q.key \in IssuedKey /\ granted[q.key] # {}
      BY <1>2, <2>1 DEF LookupOK, Remembered
    <2> QED BY <1>2, <2>3, <2>4 DEF LookupOK, Judging, Fades
  <1>7. Answered(q)'
    BY <1>2, <1>3 DEF LookupOK, Answered, Earned, Remembered, config
  <1> QED BY <1>4, <1>5, <1>6, <1>7 DEF LookupOK, q

\* Issue writes the record of a key that had none, in a store that is there.
LEMMA IssueInv ==
    ASSUME CredInv, NEW k \in IssuedKey, NEW named \in BOOLEAN, NEW at \in 1..Never,
           Issue(k, named, at)
    PROVE  CredInv'
  <1> USE DEF config, sessionVars
  <1> DEFINE row == [here |-> TRUE, named |-> named, expiresAt |-> at]
  <1>1. /\ records' = [records EXCEPT ![k] = row] /\ granted[k] = {} /\ backend # "none"
        /\ granted' = [granted EXCEPT ![k] = {"orders:read"}] /\ at > now /\ k \in Key
    BY DEF Issue, Key
  <1>2. row \in Row /\ row.here /\ row.expiresAt = at
    BY DEF Row
  <1> HIDE DEF row
  <1>3. TypeOK'
    <2>1. records' \in [IssuedKey -> Row \cup {Absent}]
      BY <1>1, <1>2, StoreTypes DEF CredInv
    <2>2. granted' \in [Key -> SUBSET (Scope \cup {Widened})]
      BY <1>1, StoreTypes DEF CredInv, Scope
    <2> QED BY <2>1, <2>2 DEF Issue, CredInv, TypeOK
  <1>4. now \in Nat
    BY StoreTypes DEF CredInv
  <1>5. Fades
    BY <1>1, <1>4, StoreTypes DEF Issue, CredInv, Fades
  <1>6. \A r \in Request : LookupOK(req[r])'
    BY <1>3, <1>5, FadeInv DEF Issue
  <1>7. Recorded'
    BY <1>1, <1>2 DEF Issue, CredInv, TypeOK, Recorded, Key
  <1>8. NobodyIsWidened'
    BY <1>1, StoreTypes DEF CredInv, NobodyIsWidened, Widened
  <1>9. Started' /\ Ended'
    BY DEF Issue, CredInv, Started, NewSessionStore, memoryAllowed, checkDevCredentials,
       devCredentialsAllowed, Source, devKeyStore, Ended, SignOutReachesEveryNode,
       Running, backingStore
  <1> QED BY <1>3, <1>6, <1>7, <1>8, <1>9 DEF CredInv

\* A record is withdrawn.
LEMMA WithdrawInv == ASSUME CredInv, NEW k \in IssuedKey, Withdraw(k) PROVE CredInv'
  <1> USE DEF config, sessionVars
  <1>1. records' = [records EXCEPT ![k] = Absent] /\ Absent.here = FALSE
    BY DEF Withdraw, Absent
  <1>2. TypeOK'
    BY <1>1 DEF Withdraw, CredInv, TypeOK
  <1>3. now \in Nat
    BY StoreTypes DEF CredInv
  <1>4. Fades
    BY <1>1, <1>3, StoreTypes DEF Withdraw, CredInv, Fades
  <1>5. \A r \in Request : LookupOK(req[r])'
    BY <1>2, <1>4, FadeInv DEF Withdraw
  <1>6. Recorded' /\ NobodyIsWidened'
    BY <1>1 DEF Withdraw, CredInv, TypeOK, Recorded, NobodyIsWidened
  <1>7. Started' /\ Ended'
    BY DEF Withdraw, CredInv, Started, NewSessionStore, memoryAllowed, checkDevCredentials,
       devCredentialsAllowed, Source, devKeyStore, Ended, SignOutReachesEveryNode,
       Running, backingStore
  <1> QED BY <1>2, <1>5, <1>6, <1>7 DEF CredInv

\* Time passes, and Redis drops what is out of time.
LEMMA TickInv == ASSUME CredInv, Tick PROVE CredInv'
  <1> USE DEF config, sessionVars
  <1>1. now \in Nat /\ now' = now + 1 /\ now' \in 0..MaxTime
    BY StoreTypes, MaxTimeType DEF Tick, CredInv
  <1>2. \A k \in IssuedKey :
            /\ records'[k] = Absent \/ records'[k] = records[k]
            /\ backend = "redis" /\ records[k].expiresAt <= now' => records'[k] = Absent
    BY DEF Tick
  <1>3. Absent.here = FALSE
    BY DEF Absent
  <1>4. TypeOK'
    BY <1>1 DEF Tick, CredInv, TypeOK
  <1>5. Fades
    BY <1>1, <1>2, <1>3 DEF Tick, Fades
  <1>6. \A r \in Request : LookupOK(req[r])'
    BY <1>4, <1>5, FadeInv DEF Tick
  <1>7. Recorded'
    <2>1. SUFFICES ASSUME NEW k \in IssuedKey, records'[k].here
                   PROVE  /\ backend # "none" /\ granted[k] # {}
                          /\ backend = "redis" => records'[k].expiresAt > now'
      BY DEF Tick, Recorded
    <2>2. records'[k] = records[k] /\ records[k].here
      BY <1>2, <1>3, <2>1
    <2>3. records[k].expiresAt \in Int
      BY <2>2, RowTime, StoreTypes DEF CredInv
    <2> QED BY <1>1, <1>2, <1>3, <2>1, <2>2, <2>3 DEF CredInv, Recorded
  <1>8. NobodyIsWidened'
    BY DEF Tick, CredInv, NobodyIsWidened
  <1>9. Started' /\ Ended'
    BY DEF Tick, CredInv, Started, NewSessionStore, memoryAllowed, checkDevCredentials,
       devCredentialsAllowed, Source, devKeyStore, Ended, SignOutReachesEveryNode,
       Running, backingStore
  <1> QED BY <1>4, <1>6, <1>7, <1>8, <1>9 DEF CredInv

\* A sign-out on one of the nodes reaches the place all of them look at: in the
\* process there is one node only.
LEMMA SessionsInv ==
    ASSUME CredInv, NEW n \in Node, SignIn(n) \/ SignOut(n)
    PROVE  CredInv'
  <1> USE DEF config, sessionVars, keyVars
  <1>1. /\ UNCHANGED <<config, phase, source, keyVars, req>> /\ phase = "serving"
        /\ sessionStore # "unset" /\ n \in Running
    BY DEF SignIn, SignOut, Sessions
  <1>2. backingStore(n) \in Node \cup {Shared}
    BY DEF backingStore
  <1>3. TypeOK'
    BY <1>1, <1>2 DEF SignIn, SignOut, CredInv, TypeOK
  <1>4. Started' /\ Recorded' /\ NobodyIsWidened'
    BY <1>1 DEF CredInv, Started, NewSessionStore, memoryAllowed,
       checkDevCredentials, devCredentialsAllowed, Source, devKeyStore, Recorded,
       NobodyIsWidened
  <1>5. \A m \in Running : backingStore(m) = backingStore(n)
    <2>1. sessionStore = "redis" \/ (sessionStore = "memory" /\ env = "local")
      BY <1>1, CredentialAssumption DEF CredInv, TypeOK, Started, NewSessionStore,
         memoryAllowed
    <2> QED BY <1>1, <2>1 DEF backingStore, Running
  <1>6. Running' = Running /\ \A m : backingStore(m)' = backingStore(m)
    BY <1>1 DEF Running, backingStore
  <1>7. Ended'
    BY <1>1, <1>5, <1>6 DEF SignIn, SignOut, Ended, SignOutReachesEveryNode
  <1>8. ASSUME NEW s \in Request PROVE LookupOK(req[s])'
    BY <1>1 DEF CredInv, LookupOK, Apart, Began, Remembered, Judging, Answered, Earned, Good
  <1> QED BY <1>3, <1>4, <1>7, <1>8 DEF CredInv

\* Nothing was issued, asked or signed out at the start.
LEMMA InitInv == ASSUME Init PROVE CredInv
  <1>1. Absent.here = FALSE
    BY DEF Absent
  <1>2. TypeOK
    <2>1. 0 \in 0..MaxTime
      BY MaxTimeType
    <2>2. \A r \in Request : req[r] = Idle /\ req[r].pc = "idle"
      BY DEF Init, Idle
    <2>3. req \in [Request -> Lookup]
      BY IdleOK DEF Init
    <2> HIDE DEF Idle
    <2> QED BY <2>1, <2>2, <2>3 DEF Init, TypeOK
  <1>3. Started /\ Recorded /\ NobodyIsWidened /\ Ended
    BY <1>1 DEF Init, Started, Recorded, NobodyIsWidened, Ended
  <1> QED BY <1>2, <1>3, IdleOK DEF Init, CredInv

\* The invariant depends on the variables only.
LEMMA StutterInv == ASSUME CredInv, UNCHANGED vars PROVE CredInv'
  <1> USE DEF vars, config, sessionVars, keyVars
  <1>1. TypeOK' /\ Recorded' /\ NobodyIsWidened'
    BY DEF CredInv, TypeOK, Recorded, NobodyIsWidened
  <1>2. Started' /\ Ended'
    BY DEF CredInv, Started, NewSessionStore, memoryAllowed, checkDevCredentials,
       devCredentialsAllowed, Source, devKeyStore, Ended, SignOutReachesEveryNode,
       Running, backingStore
  <1>3. ASSUME NEW s \in Request PROVE LookupOK(req[s])'
    BY DEF CredInv, LookupOK, Apart, Began, Remembered, Judging, Answered, Earned, Good
  <1> QED BY <1>1, <1>2, <1>3 DEF CredInv

\* CredInv is an invariant of the credential stores.
LEMMA CredInvariant == Spec => []CredInv
  <1>1. CredInv /\ [Next]_vars => CredInv'
    BY NewVerifierInv, ReadyInv, TickInv, IssueInv, WithdrawInv, BeginInv, OtherStoresInv,
       RedisInv, ReadInv, DbLookupInv, StoreDownInv, WidenInv, SessionsInv, StutterInv
       DEF Next
  <1> QED BY <1>1, InitInv, PTL DEF Spec

-----------------------------------------------------------------------------

\* Configuration, records and lookups are well typed in every deployment.
THEOREM TypeCorrect == Spec => []TypeOK
  <1>1. CredInv => TypeOK
    BY DEF CredInv
  <1> QED BY <1>1, CredInvariant, PTL

\* checkDevCredentials and the choice of the store keep the template's defaults and
\* the development store's permissions out of a production deployment, whatever keys
\* it lists; a published key answers only where somebody listed it by hand.
THEOREM DefaultKeys == Spec => []DefaultsOpenNothing
  <1>1. CredInv => DefaultsOpenNothing
    BY DEF CredInv, DefaultsOpenNothing, LookupOK, Answered, Earned
  <1> QED BY <1>1, CredInvariant, PTL

\* A key that was withdrawn, had run out or named nobody when a request began does
\* not open it, in Redis, in the database and in the table.
THEOREM WithdrawnKeys == Spec => []OverIsOver
  <1>1. CredInv => OverIsOver
    BY DEF CredInv, OverIsOver, LookupOK, Answered
  <1> QED BY <1>1, CredInvariant, PTL

\* An outage, a missing table or a bad record never makes a good key invalid.
THEOREM GoodKeys == Spec => []GoodKeysAreNotInvalid
  <1>1. CredInv => GoodKeysAreNotInvalid
    BY DEF CredInv, GoodKeysAreNotInvalid, LookupOK, Answered
  <1> QED BY <1>1, CredInvariant, PTL

\* No handler widens the table its caller was copied from.
THEOREM OwnScopes == Spec => []NobodyIsWidened
  <1>1. CredInv => NobodyIsWidened
    BY DEF CredInv
  <1> QED BY <1>1, CredInvariant, PTL

\* A sign-out on one node ends the session on every node that runs: memoryAllowed
\* leaves the in-process store to deployments of one.
THEOREM SignOutEverywhere == Spec => []SignOutReachesEveryNode
  <1>1. CredInv => SignOutReachesEveryNode
    BY DEF CredInv, Ended, SignOutReachesEveryNode
  <1> QED BY <1>1, CredInvariant, PTL
=============================================================================
