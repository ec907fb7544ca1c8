----------------------------- MODULE Initiator -----------------------------
(***************************************************************************)
(* Whose action started this work: how the answer is put on a context at   *)
(* an entry point or a scheduled task, read by initiator.From, written     *)
(* into the headers of messages and jobs, and restored from them, along    *)
(* chains of publishing and enqueueing.                                    *)
(*                                                                         *)
(* A broker or a job store delivers what it holds in any order and more    *)
(* than once.  Payloads are left out.  A claim is its name.                *)
(***************************************************************************)
EXTENDS Integers, FiniteSets

CONSTANTS
    Slot,           \* goroutines that run work
    Subjects,       \* callers
    ClaimNames, Forbidden,  \* forbidden: scope and the registered claims
    ClaimLists,     \* what initiatorClaims may list
    Foreign,        \* headers another producer may write
    MaxReportedDroppedClaims,
    MaxHops,        \* bound on the length of a chain
    MaxWire,        \* bound on what the broker and the job store hold
    None, EmptyName, NotAnObject, Unmarked, Entry

VARIABLES
    list,       \* initiatorClaims
    claims,     \* the ClaimSet, None before NewInitiatorClaims
    carries,    \* pubConn.CarriesMetadata
    work,       \* work[s]: what slot s runs
    wire,       \* messages and jobs on their way
    reported, saturated, records,   \* reportDropped: memory and log
    refusal     \* whose metadata the last refused publish was given

vars == <<list, claims, carries, work, wire, reported, saturated, records, refusal>>
setup == <<list, claims, carries>>
reporting == <<reported, saturated, records>>

-----------------------------------------------------------------------------
(* Values *)

Kinds == {"app_user", "user", "service_account", "api_key", "system",
          "unauthenticated", "unknown"}
Schemes == {"jwt", "session", "apiKey"}
AllNames == ClaimNames \cup Forbidden

Value(kind, id, names) == [kind |-> kind, id |-> id, claims |-> names]
unknown == Value("unknown", None, {})
System == Value("system", None, {})

Values == [kind : Kinds, id : Subjects \cup {None}, claims : SUBSET AllNames]
Principal == [scheme : Schemes, subject : Subjects, claims : SUBSET AllNames]

\* A context: the last mark put on it, and the caller.
Context == [mark : {Unmarked, Entry} \cup Values, caller : Principal \cup {None}]
Background == [mark |-> Unmarked, caller |-> None]

\* The wire form.  An absent header is None; claims may not be JSON.
Headers == [kind : Kinds \cup {None}, id : Subjects \cup {None},
            claims : (SUBSET AllNames) \cup {None, NotAnObject}]
NoHeaders == [kind |-> None, id |-> None, claims |-> None]

ASSUME InitiatorAssumption ==
    /\ MaxReportedDroppedClaims \in Nat \ {0} /\ MaxHops \in Nat /\ MaxWire \in Nat
    /\ ClaimNames \cap Forbidden = {} /\ EmptyName \notin AllNames
    /\ ClaimLists \subseteq SUBSET (AllNames \cup {EmptyName})
    /\ Foreign \subseteq Headers /\ None \notin Subjects

\* The markers are no values of the program, and a list or a message names
\* finitely many claims.
ASSUME MarkersAssumption ==
    /\ Unmarked # Entry /\ Unmarked \notin Values /\ Entry \notin Values
    /\ None \notin Kinds \cup {"received"}
    /\ \A names \in SUBSET AllNames : names # None /\ names # NotAnObject
    /\ \A l \in ClaimLists : IsFiniteSet(l)
    /\ \A h \in Foreign : h.claims \notin {None, NotAnObject} => IsFiniteSet(h.claims)

\* Work: its context, the reserved names left in the metadata it was given, the
\* length of its chain, and as history whose action it really is and whether
\* some step of the chain could not carry that.
Work == [ctx : Context, raw : BOOLEAN, hops : 0..MaxHops, root : Values, lost : BOOLEAN]
Item == [headers : Headers, hops : 1..MaxHops, root : Values, lost : BOOLEAN]

Init ==
    /\ list \in ClaimLists /\ claims = None /\ carries \in BOOLEAN
    /\ work = [s \in Slot |-> None] /\ wire = {}
    /\ reported = {} /\ saturated = FALSE /\ records = 0
    /\ refusal = None

-----------------------------------------------------------------------------
(* The claim set *)

\* Startup fails on a name that cannot be carried, and there is no set.
NewClaimSet ==
    /\ claims = None /\ list \cap (Forbidden \cup {EmptyName}) = {}
    /\ claims' = list
    /\ UNCHANGED <<list, carries, work, wire, reporting, refusal>>

pick(set, names) == set \cap names

\* What a sequence of reportDropped calls leaves behind, for the names of one
\* message in some order: the ones reported now, and whether the limit was met.
Dropped(names) == names \ (claims \cup reported)

\* Mutant: the limit is not looked at.
reportDroppedUnbounded(names, told) ==
    /\ told = Dropped(names)
    /\ reported' = reported \cup told
    /\ records' = records + Cardinality(told)
    /\ UNCHANGED saturated

\* told: the names that are reported; the rest of the new names meets the limit,
\* and the first of them is the last record.
reportDropped(names, told) ==
    LET new  == IF saturated THEN {} ELSE Dropped(names)
        room == MaxReportedDroppedClaims - Cardinality(reported)
    IN  /\ told \subseteq new
        /\ Cardinality(told) = IF Cardinality(new) <= room THEN Cardinality(new) ELSE room
        /\ reported' = reported \cup told
        /\ saturated' = (saturated \/ told # new)
        /\ records' = records + Cardinality(told) + (IF told # new THEN 1 ELSE 0)

-----------------------------------------------------------------------------
(* Reading a context *)

\* A scheme authkit does not define has no honest label.
kindOf(scheme) ==
    CASE scheme \in {"jwt", "session"} -> "app_user"
      [] scheme = "apiKey" -> "api_key"
      [] OTHER -> "unknown"

derive(caller, set) ==
    Value(kindOf(caller.scheme), caller.subject, pick(set, caller.claims))

\* Mutant: work nobody marked is taken for the application's own.
FromAssumesSystem(ctx) ==
    CASE ctx.mark \notin {Unmarked, Entry} -> ctx.mark
      [] ctx.mark = Entry ->
            IF ctx.caller # None THEN derive(ctx.caller, claims)
            ELSE Value("unauthenticated", None, {})
      [] OTHER ->
            IF ctx.caller # None THEN derive(ctx.caller, {}) ELSE System

From(ctx) ==
    CASE ctx.mark \notin {Unmarked, Entry} -> ctx.mark
      [] ctx.mark = Entry ->
            IF ctx.caller # None THEN derive(ctx.caller, claims)
            ELSE Value("unauthenticated", None, {})
      [] OTHER ->
            IF ctx.caller # None THEN derive(ctx.caller, {}) ELSE unknown

With(ctx, value) == [ctx EXCEPT !.mark = value]
WithSystem(ctx) == With(ctx, System)
WithEntry(ctx) == With(ctx, Entry)

-----------------------------------------------------------------------------
(* The wire form *)

\* encodable: the claims can be written as JSON.
WriteHeaders(value, encodable) ==
    [kind |-> value.kind, id |-> value.id,
     claims |-> IF value.claims # {} /\ encodable THEN value.claims ELSE None]

decodes(raw) == raw # NotAnObject /\ raw \cap Forbidden = {}

\* A value that cannot be read is unknown; claims outside the set are dropped.
FromHeaders(h) ==
    IF h.kind = None THEN unknown
    ELSE IF h.claims # None /\ ~decodes(h.claims) THEN unknown
    ELSE Value(h.kind, h.id, IF h.claims = None THEN {} ELSE pick(claims, h.claims))

\* The names FromHeaders hands to receive, and so to reportDropped.
Received(h) ==
    IF h.kind = None \/ h.claims = None \/ ~decodes(h.claims) THEN {} ELSE h.claims

-----------------------------------------------------------------------------
(* Where work begins *)

Start(s, w) ==
    /\ claims # None /\ work[s] = None
    /\ work' = [work EXCEPT ![s] = w]

Root(ctx, root) ==
    [ctx |-> ctx, raw |-> FALSE, hops |-> 0, root |-> root, lost |-> FALSE]

\* A request or a WebSocket message, from the caller the middleware verified.
Request(s, caller) ==
    /\ Start(s, Root([WithEntry(Background) EXCEPT !.caller = caller],
                     IF caller = None THEN Value("unauthenticated", None, {})
                     ELSE Value(kindOf(caller.scheme), caller.subject, caller.claims)))
    /\ UNCHANGED <<setup, wire, reporting, refusal>>

\* Mutant: a task runs on the context it is given.
asSystemTaskUnmarked(s) ==
    /\ Start(s, Root(Background, System))
    /\ UNCHANGED <<setup, wire, reporting, refusal>>

asSystemTask(s) ==
    /\ Start(s, Root(WithSystem(Background), System))
    /\ UNCHANGED <<setup, wire, reporting, refusal>>

\* A gRPC call: nothing marks its context.
Call(s) ==
    /\ Start(s, Root(Background, unknown))
    /\ UNCHANGED <<setup, wire, reporting, refusal>>

End(s) ==
    /\ work[s] # None
    /\ work' = [work EXCEPT ![s] = None]
    /\ UNCHANGED <<setup, wire, reporting, refusal>>

-----------------------------------------------------------------------------
(* Sending work on *)

\* What s sends carries the headers h; lost is what h cannot say.
Send(s, h, lost) ==
    /\ work[s].hops < MaxHops /\ Cardinality(wire) < MaxWire
    /\ wire' = wire \cup {[headers |-> h, hops |-> work[s].hops + 1,
                           root |-> work[s].root, lost |-> work[s].lost \/ lost]}

\* The context given to a publish or an enqueue: the work's own, or a fresh one.
Given(s, detached) == IF detached THEN Background ELSE work[s].ctx

Lossy(s, detached, encodable) == detached \/ (~encodable /\ From(work[s].ctx).claims # {})

\* meta: the application's own metadata, metadata that names a reserved header,
\* or the metadata the work was given, sent on.
refuseReservedHeaders(s, meta) == meta = "reserved" \/ (meta = "received" /\ work[s].raw)

Publish(s, meta, detached, encodable) ==
    /\ work[s] # None
    /\ IF refuseReservedHeaders(s, meta)
       THEN refusal' = meta /\ UNCHANGED wire
       ELSE /\ Send(s, IF carries THEN WriteHeaders(From(Given(s, detached)), encodable)
                       ELSE NoHeaders,
                    ~carries \/ Lossy(s, detached, encodable))
            /\ UNCHANGED refusal
    /\ UNCHANGED <<setup, work, reporting>>

\* Propagator.Inject, called inside Enqueue: it copies the headers over the metadata
\* of a new job, which no code of the repository fills in by itself.
Inject(s, detached, encodable) ==
    /\ work[s] # None
    /\ Send(s, WriteHeaders(From(Given(s, detached)), encodable),
            Lossy(s, detached, encodable))
    /\ UNCHANGED <<setup, work, reporting, refusal>>

\* history: what a producer must keep to for its headers to say anything.
Wellformed(h) ==
    /\ h.kind # None
    /\ h.claims # None => h.claims # NotAnObject /\ Forbidden \cap h.claims = {}

\* Another service publishes: whoever started its work is what it says.
ForeignPublish(h) ==
    /\ claims # None /\ MaxHops > 0 /\ Cardinality(wire) < MaxWire
    /\ wire' = wire \cup
        {[headers |-> h, hops |-> 1, lost |-> FALSE,
          root |-> IF ~Wellformed(h) THEN unknown
                   ELSE Value(h.kind, h.id, IF h.claims = None THEN {} ELSE h.claims)]}
    /\ UNCHANGED <<setup, work, reporting, refusal>>

-----------------------------------------------------------------------------
(* Taking work up *)

\* Are reserved names left in the metadata of a handler?
WithoutHeaders(item) == FALSE

Restored(item, raw) ==
    [ctx |-> With(Background, FromHeaders(item.headers)), raw |-> raw,
     hops |-> item.hops, root |-> item.root, lost |-> item.lost]

\* NewSubscribe's message handler.
OnMessage(s, item, told) ==
    /\ Start(s, Restored(item, WithoutHeaders(item)))
    /\ reportDropped(Received(item.headers), told)
    /\ UNCHANGED <<setup, wire, refusal>>

\* Propagator.Extract, called before a job's handler; a job's metadata does not
\* reach the handler.
Extract(s, item, told) ==
    /\ Start(s, Restored(item, FALSE))
    /\ reportDropped(Received(item.headers), told)
    /\ UNCHANGED <<setup, wire, refusal>>

\* The broker forgets what it has delivered often enough.
Forget(item) ==
    /\ wire' = wire \ {item}
    /\ UNCHANGED <<setup, work, reporting, refusal>>

Next ==
    \/ NewClaimSet
    \/ \E s \in Slot :
        \/ \E caller \in Principal \cup {None} : Request(s, caller)
        \/ asSystemTask(s) \/ Call(s) \/ End(s)
        \/ \E meta \in {"own", "reserved", "received"}, detached, encodable \in BOOLEAN :
            Publish(s, meta, detached, encodable)
        \/ \E detached, encodable \in BOOLEAN : Inject(s, detached, encodable)
        \/ \E item \in wire : \E told \in SUBSET AllNames :
            OnMessage(s, item, told) \/ Extract(s, item, told)
    \/ \E h \in Foreign : ForeignPublish(h)
    \/ \E item \in wire : Forget(item)

Spec == Init /\ [][Next]_vars

-----------------------------------------------------------------------------
(* Properties *)

\* Contexts, headers and the memory of dropped names are of their kinds.
TypeOK ==
    /\ list \in ClaimLists /\ claims \in (SUBSET ClaimNames) \cup {None}
    /\ carries \in BOOLEAN
    /\ work \in [Slot -> Work \cup {None}]
    /\ wire \subseteq Item
    /\ reported \subseteq AllNames /\ saturated \in BOOLEAN /\ records \in Nat
    /\ refusal \in {None, "reserved", "received"}

Running == {s \in Slot : work[s] # None}

\* Whose work it is reads as whose it is or as unknown, never as someone
\* else's, and with no claim the application did not list: after any chain of
\* messages and jobs, delivered in any order and any number of times, through
\* code that drops its context and over a broker that carries no headers.
NobodyElse ==
    \A s \in Running :
        LET read == From(work[s].ctx) root == work[s].root
        IN  read = unknown
                \/ /\ read.kind = root.kind /\ read.id = root.id
                   /\ read.claims \subseteq root.claims \cap list

\* A chain none of whose steps dropped its context, or met a broker that carries
\* no headers or claims that cannot be written, loses nothing but the claims
\* this application does not carry; and a handler that sends on the metadata it
\* was given is not refused for the names the initiator travelled under.
OriginArrives ==
    /\ refusal # "received"
    /\ \A s \in Running : ~work[s].lost =>
        From(work[s].ctx) = [work[s].root EXCEPT !.claims = pick(claims, @)]

\* However many names other producers invent, the memory and the log of dropped
\* claims stay bounded, and a name is reported at most once.
DroppedIsBounded ==
    /\ Cardinality(reported) <= MaxReportedDroppedClaims
    /\ records = Cardinality(reported) + (IF saturated THEN 1 ELSE 0)

=============================================================================
