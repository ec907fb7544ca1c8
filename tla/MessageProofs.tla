---------------------------- MODULE MessageProofs ---------------------------
(***************************************************************************)
(* What becomes of messages, and of what they say about their origin.      *)
(*                                                                         *)
(* Origin: whose action it is survives chains of messages and jobs of any  *)
(* length, for any callers, claim lists and foreign producers.  The        *)
(* invariant gives work in a slot and an item on the wire the same         *)
(* promise, Says: the value that is read, or that would be restored from   *)
(* the headers, is the root's or unknown, and all of it if nothing was     *)
(* lost.  RoundTrip is why sending and restoring keep it.                  *)
(*                                                                         *)
(* Delivery: no message vanishes and no call's option strays, for any      *)
(* calls, producers, crashes and errors.                                   *)
(***************************************************************************)
EXTENDS Initiator, Messaging, FiniteSetTheorems, SequenceTheorems, TLAPS

\* What a value read for some work says about whose work it is.
Says(value, root, lost) ==
    /\ value \in Values /\ root \in Values /\ value.claims \subseteq claims
    /\ value = unknown \/ (/\ value.kind = root.kind /\ value.id = root.id
                           /\ value.claims \subseteq root.claims)
    /\ ~lost => value = [root EXCEPT !.claims = pick(claims, @)]

WorkOK(w) == claims # None /\ w \in Work /\ ~w.raw /\ Says(From(w.ctx), w.root, w.lost)

ItemOK(item) ==
    /\ claims # None /\ item \in Item
    /\ IsFiniteSet(Received(item.headers))
    /\ Says(FromHeaders(item.headers), item.root, item.lost)

SetOK ==
    /\ list \in ClaimLists /\ carries \in BOOLEAN
    /\ claims # None => claims = list /\ claims \subseteq ClaimNames

ReportOK ==
    /\ reported \subseteq AllNames /\ IsFiniteSet(reported)
    /\ saturated \in BOOLEAN /\ records \in Nat
    /\ DroppedIsBounded

OriginInv ==
    /\ SetOK /\ ReportOK
    /\ refusal \in {None, "reserved"}
    /\ work \in [Slot -> Work \cup {None}]
    /\ \A s \in Slot : work[s] # None => WorkOK(work[s])
    /\ \A item \in wire : ItemOK(item)

-----------------------------------------------------------------------------
(* Values, contexts and headers *)

\* The two values that carry no subject and no claims.
LEMMA UnknownIs ==
  /\ unknown \in Values /\ System \in Values
  /\ unknown.kind = "unknown" /\ unknown.id = None /\ unknown.claims = {}
  /\ System.claims = {}
  BY DEF unknown, System, Value, Values, Kinds

\* A value that was put on a context is what is read from it.
LEMMA MarkIsRead ==
  ASSUME NEW value \in Values
  PROVE  From(With(Background, value)) = value
<1>1. With(Background, value).mark = value
  BY DEF With, Background
<1>2. value \notin {Unmarked, Entry}
  BY MarkersAssumption
<1> QED BY <1>1, <1>2 DEF From

\* A context nobody marked reads as unknown.
LEMMA BackgroundIsUnknown == From(Background) = unknown
<1>1. Background.mark = Unmarked /\ Background.caller = None
  BY DEF Background
<1> QED BY <1>1, MarkersAssumption DEF From

\* Writing a value into headers and restoring it: all of it, or all but claims
\* that cannot be written.
LEMMA RoundTrip ==
  ASSUME NEW value \in Values, value.claims \subseteq claims, claims \subseteq ClaimNames,
         NEW encodable \in BOOLEAN
  PROVE  /\ WriteHeaders(value, encodable) \in Headers
         /\ Received(WriteHeaders(value, encodable)) \subseteq claims
         /\ FromHeaders(WriteHeaders(value, encodable)) =
              IF encodable \/ value.claims = {} THEN value
              ELSE Value(value.kind, value.id, {})
<1> DEFINE h == WriteHeaders(value, encodable)
<1>1. value.kind \in Kinds /\ value.id \in Subjects \cup {None} /\ value.claims \in SUBSET AllNames
  BY DEF Values
<1>2. h.kind = value.kind /\ h.id = value.id
      /\ h.claims = IF value.claims # {} /\ encodable THEN value.claims ELSE None
  BY DEF WriteHeaders
<1>3. h \in Headers
  BY <1>1 DEF WriteHeaders, Headers
<1>4. value = Value(value.kind, value.id, value.claims)
  BY DEF Values, Value
<1>5. h.kind # None
  BY <1>1, <1>2, MarkersAssumption
<1> HIDE DEF h
<1>6. CASE value.claims # {} /\ encodable
  <2>1. h.claims = value.claims /\ h.claims # None /\ h.claims # NotAnObject
    BY <1>1, <1>2, <1>6, MarkersAssumption
  <2>2. decodes(h.claims) /\ pick(claims, h.claims) = value.claims
    BY <2>1, InitiatorAssumption DEF decodes, pick
  <2> QED BY <1>3, <1>2, <1>4, <1>5, <1>6, <2>1, <2>2 DEF FromHeaders, Received, h
<1>7. CASE ~(value.claims # {} /\ encodable)
  BY <1>2, <1>3, <1>4, <1>5, <1>7 DEF FromHeaders, Received, h
<1> QED BY <1>6, <1>7

\* What headers a foreign producer wrote say is what they are restored to.
LEMMA ForeignSays ==
  ASSUME NEW h \in Headers, claims \subseteq ClaimNames
  PROVE  Says(FromHeaders(h),
              IF ~Wellformed(h) THEN unknown
              ELSE Value(h.kind, h.id, IF h.claims = None THEN {} ELSE h.claims), FALSE)
<1>1. CASE ~Wellformed(h)
  <2>1. FromHeaders(h) = unknown
    BY <1>1 DEF Wellformed, FromHeaders, decodes
  <2>2. unknown = [unknown EXCEPT !.claims = pick(claims, @)]
    BY DEF unknown, Value, pick
  <2> QED BY <1>1, <2>1, <2>2, UnknownIs DEF Says
<1>2. CASE Wellformed(h)
  <2> DEFINE names == IF h.claims = None THEN {} ELSE h.claims
  <2>1. names \in SUBSET AllNames /\ h.kind \in Kinds /\ h.id \in Subjects \cup {None}
    BY <1>2 DEF Wellformed, Headers
  <2>2. FromHeaders(h) = Value(h.kind, h.id, pick(claims, names))
    BY <1>2 DEF Wellformed, FromHeaders, decodes, pick
  <2> HIDE DEF names
  <2>3. Value(h.kind, h.id, pick(claims, names)) \in Values
    BY <2>1 DEF Value, Values, pick
  <2>4. Value(h.kind, h.id, names) \in Values
    BY <2>1 DEF Value, Values
  <2>5. Says(FromHeaders(h), Value(h.kind, h.id, names), FALSE)
    BY <2>2, <2>3, <2>4 DEF Says, Value, pick
  <2> QED BY <1>2, <2>5 DEF names
<1> QED BY <1>1, <1>2

-----------------------------------------------------------------------------
(* Work and items *)

\* Once there is a claim set, it stays, and so does what was read under it.
LEMMA SameSays ==
  ASSUME claims' = claims
  PROVE  /\ \A w : WorkOK(w) => WorkOK(w)'
         /\ \A item : ItemOK(item) => ItemOK(item)'
<1>1. \A ctx : From(ctx)' = From(ctx)
  BY DEF From, derive, pick
<1>2. \A h : FromHeaders(h)' = FromHeaders(h)
  BY DEF FromHeaders, decodes, pick
<1>3. \A value, root, lost : Says(value, root, lost)' <=> Says(value, root, lost)
  BY DEF Says, pick
<1>4. ASSUME NEW w, WorkOK(w)
      PROVE  WorkOK(w)'
  BY <1>1, <1>3, <1>4 DEF WorkOK
<1>5. ASSUME NEW item, ItemOK(item)
      PROVE  ItemOK(item)'
  BY <1>2, <1>3, <1>5 DEF ItemOK, Received, decodes
<1> QED BY <1>4, <1>5

\* A slot takes up work.
LEMMA TakenUp ==
  ASSUME OriginInv, NEW s \in Slot, NEW w, Start(s, w), WorkOK(w),
         UNCHANGED <<setup, wire, refusal>>, ReportOK'
  PROVE  OriginInv'
<1>1. claims' = claims /\ SetOK'
  BY DEF OriginInv, SetOK, setup
<1>2. work' = [work EXCEPT ![s] = w] /\ w \in Work
  BY DEF Start, WorkOK
<1>3. work' \in [Slot -> Work \cup {None}]
  BY <1>2 DEF OriginInv
<1>4. ASSUME NEW t \in Slot, work'[t] # None
      PROVE  WorkOK(work[t])'
  <2>1. WorkOK(work'[t])
    BY <1>2, <1>4 DEF OriginInv
  <2>2. PICK v : v = work'[t] /\ WorkOK(v)
    BY <2>1
  <2>3. WorkOK(v)'
    BY <1>1, <2>2, SameSays
  <2> QED BY <2>2, <2>3 DEF WorkOK
<1>5. \A item \in wire' : ItemOK(item)'
  BY <1>1, SameSays DEF OriginInv
<1> QED BY <1>1, <1>3, <1>4, <1>5 DEF OriginInv

\* An item is put on the wire, or none is.
LEMMA SentOn ==
  ASSUME OriginInv, NEW items, wire' \subseteq wire \cup items, \A item \in items : ItemOK(item),
         UNCHANGED <<setup, work, reporting>>, refusal' \in {None, "reserved"}
  PROVE  OriginInv'
<1>1. claims' = claims /\ SetOK'
  BY DEF OriginInv, SetOK, setup
<1>2. ReportOK'
  BY DEF OriginInv, ReportOK, DroppedIsBounded, reporting
<1>3. ASSUME NEW t \in Slot, work'[t] # None
      PROVE  WorkOK(work[t])'
  <2>1. PICK v : v = work[t] /\ work'[t] = v /\ WorkOK(v)
    BY <1>3 DEF OriginInv
  <2>2. WorkOK(v)'
    BY <1>1, <2>1, SameSays
  <2> QED BY <2>1, <2>2 DEF WorkOK
<1>4. \A item \in wire' : ItemOK(item)'
  BY <1>1, SameSays DEF OriginInv
<1> QED BY <1>1, <1>2, <1>3, <1>4 DEF OriginInv

\* NewClaimSet accepts a list of names that may be carried.
LEMMA SetStep ==
  ASSUME OriginInv, NewClaimSet
  PROVE  OriginInv'
<1>1. SetOK'
  <2>1. list \subseteq ClaimNames
    BY InitiatorAssumption DEF OriginInv, SetOK, NewClaimSet, AllNames
  <2> QED BY <2>1 DEF OriginInv, SetOK, NewClaimSet
<1>2. \A s \in Slot : work[s] = None
  BY DEF OriginInv, WorkOK, NewClaimSet
<1>3. wire = {}
  BY DEF OriginInv, ItemOK, NewClaimSet
<1>4. ReportOK'
  BY DEF OriginInv, ReportOK, DroppedIsBounded, NewClaimSet, reporting
<1> QED BY <1>1, <1>2, <1>3, <1>4 DEF OriginInv, NewClaimSet

-----------------------------------------------------------------------------
(* Where work begins *)

\* An accepted claim set is the list, and finite.
LEMMA SetFacts ==
  ASSUME SetOK, claims # None
  PROVE  claims = list /\ claims \subseteq ClaimNames /\ IsFiniteSet(claims)
  BY MarkersAssumption DEF SetOK

\* Work that starts a chain tells its own origin.
LEMMA RootIs ==
  ASSUME NEW ctx \in Context, NEW root \in Values, claims # None,
         Says(From(ctx), root, FALSE)
  PROVE  WorkOK(Root(ctx, root))
<1>1. MaxHops \in Nat
  BY InitiatorAssumption
<1> DEFINE w == Root(ctx, root)
<1>2. w \in Work
  BY <1>1 DEF Root, Work
<1>3. w.ctx = ctx /\ w.raw = FALSE /\ w.root = root /\ w.lost = FALSE
  BY DEF Root
<1> HIDE DEF w
<1>4. Says(From(w.ctx), w.root, w.lost)
  BY <1>3
<1>5. WorkOK(w)
  BY <1>2, <1>3, <1>4 DEF WorkOK
<1> QED BY <1>5 DEF w

\* A request tells the caller the Auth middleware found, or none.
LEMMA RequestIs ==
  ASSUME SetOK, claims # None, NEW caller \in Principal \cup {None}
  PROVE  WorkOK(Root([WithEntry(Background) EXCEPT !.caller = caller],
                     IF caller = None THEN Value("unauthenticated", None, {})
                     ELSE Value(kindOf(caller.scheme), caller.subject, caller.claims)))
<1> DEFINE ctx == [WithEntry(Background) EXCEPT !.caller = caller]
           root == IF caller = None THEN Value("unauthenticated", None, {})
                   ELSE Value(kindOf(caller.scheme), caller.subject, caller.claims)
<1>0. WithEntry(Background) = [mark |-> Entry, caller |-> None]
  BY DEF WithEntry, With, Background
<1>1. ctx = [mark |-> Entry, caller |-> caller]
  BY <1>0
<1>2. ctx \in Context /\ ctx.mark = Entry /\ ctx.caller = caller
  BY <1>1 DEF Context
<1> HIDE DEF ctx
<1>3. From(ctx) = IF caller # None THEN derive(caller, claims)
                  ELSE Value("unauthenticated", None, {})
  BY <1>2, MarkersAssumption DEF From
<1>4. CASE caller = None
  <2>1. root \in Values /\ From(ctx) = root /\ root.claims = {}
    BY <1>3, <1>4 DEF Value, Values, Kinds
  <2>2. root = [root EXCEPT !.claims = pick(claims, @)]
    BY <1>4 DEF Value, pick
  <2>3. Says(From(ctx), root, FALSE)
    BY <2>1, <2>2 DEF Says
  <2> QED BY <1>2, <2>1, <2>3, RootIs DEF ctx
<1>5. CASE caller # None
  <2>1. /\ kindOf(caller.scheme) \in Kinds /\ caller.subject \in Subjects
        /\ caller.claims \in SUBSET AllNames
    BY <1>5 DEF Principal, kindOf, Kinds
  <2>2. root \in Values
    BY <1>5, <2>1 DEF Value, Values
  <2>3. From(ctx) = Value(kindOf(caller.scheme), caller.subject, pick(claims, caller.claims))
    BY <1>3, <1>5 DEF derive
  <2>4. Value(kindOf(caller.scheme), caller.subject, pick(claims, caller.claims)) \in Values
    BY <2>1 DEF Value, Values, pick
  <2>5. root = Value(kindOf(caller.scheme), caller.subject, caller.claims)
    BY <1>5
  <2>6. From(ctx) = [root EXCEPT !.claims = pick(claims, @)]
    BY <2>3, <2>5 DEF Value
  <2>7. /\ From(ctx).kind = root.kind /\ From(ctx).id = root.id
        /\ From(ctx).claims \subseteq root.claims \cap claims
    BY <2>3, <2>5 DEF Value, pick
  <2> HIDE DEF root
  <2>8. Says(From(ctx), root, FALSE)
    BY <2>2, <2>3, <2>4, <2>6, <2>7 DEF Says
  <2> QED BY <1>2, <2>2, <2>8, RootIs DEF ctx, root
<1> QED BY <1>4, <1>5

\* Work that starts a chain begins.
LEMMA BeginStep ==
  ASSUME OriginInv, NEW s \in Slot,
         (\E caller \in Principal \cup {None} : Request(s, caller))
             \/ asSystemTask(s) \/ Call(s)
  PROVE  OriginInv'
<1>0. SetOK
  BY DEF OriginInv
<1>r. UNCHANGED reporting => ReportOK'
  BY DEF OriginInv, ReportOK, DroppedIsBounded, reporting
<1>1. ASSUME NEW caller \in Principal \cup {None}, Request(s, caller)
      PROVE  OriginInv'
  BY <1>0, <1>r, <1>1, RequestIs, TakenUp DEF Request, Start
<1>2. CASE asSystemTask(s)
  <2>1. WithSystem(Background) \in Context
    BY UnknownIs DEF WithSystem, With, Background, Context
  <2>2. From(WithSystem(Background)) = System
    BY MarkIsRead, UnknownIs DEF WithSystem
  <2>3. System = [System EXCEPT !.claims = pick(claims, @)]
    BY DEF System, Value, pick
  <2>4. Says(From(WithSystem(Background)), System, FALSE)
    BY <2>2, <2>3, UnknownIs DEF Says
  <2>5. claims # None => WorkOK(Root(WithSystem(Background), System))
    BY <2>1, <2>4, UnknownIs, RootIs
  <2> QED BY <1>r, <1>2, <2>5, TakenUp DEF asSystemTask, Start
<1>3. CASE Call(s)
  <2>1. Background \in Context
    BY DEF Background, Context
  <2>2. unknown = [unknown EXCEPT !.claims = pick(claims, @)]
    BY DEF unknown, Value, pick
  <2>3. Says(From(Background), unknown, FALSE)
    BY <2>2, UnknownIs, BackgroundIsUnknown DEF Says
  <2>4. claims # None => WorkOK(Root(Background, unknown))
    BY <2>1, <2>3, UnknownIs, RootIs
  <2> QED BY <1>r, <1>3, <2>4, TakenUp DEF Call, Start
<1> QED BY <1>1, <1>2, <1>3

-----------------------------------------------------------------------------
(* Sending work on *)

\* Unknown is always a safe thing to say, once something was lost.
LEMMA UnknownSays ==
  ASSUME NEW root \in Values
  PROVE  Says(unknown, root, TRUE)
  BY UnknownIs DEF Says

\* An item whose headers tell the truth is in order.
LEMMA ItemIs ==
  ASSUME NEW h \in Headers, NEW hops \in 1..MaxHops, NEW root \in Values,
         NEW lost \in BOOLEAN, claims # None, IsFiniteSet(Received(h)),
         Says(FromHeaders(h), root, lost)
  PROVE  ItemOK([headers |-> h, hops |-> hops, root |-> root, lost |-> lost])
<1> DEFINE item == [headers |-> h, hops |-> hops, root |-> root, lost |-> lost]
<1>1. item \in Item
  BY DEF Item
<1>2. item.headers = h /\ item.root = root /\ item.lost = lost
  OBVIOUS
<1> HIDE DEF item
<1>3. IsFiniteSet(Received(item.headers)) /\ Says(FromHeaders(item.headers), item.root, item.lost)
  BY <1>2
<1>4. ItemOK(item)
  BY <1>1, <1>3 DEF ItemOK
<1> QED BY <1>4 DEF item

\* What a publish or an enqueue writes says no more than the work knows, and all
\* of it unless the step loses something.
LEMMA WrittenSays ==
  ASSUME OriginInv, NEW s \in Slot, work[s] # None,
         NEW detached \in BOOLEAN, NEW encodable \in BOOLEAN
  PROVE  LET h == WriteHeaders(From(Given(s, detached)), encodable)
         IN  /\ h \in Headers /\ IsFiniteSet(Received(h))
             /\ Says(FromHeaders(h), work[s].root,
                     work[s].lost \/ Lossy(s, detached, encodable))
<1> DEFINE h == WriteHeaders(From(Given(s, detached)), encodable)
           root == work[s].root
           lost == work[s].lost \/ Lossy(s, detached, encodable)
<1>1. claims # None /\ Says(From(work[s].ctx), root, work[s].lost)
  BY DEF OriginInv, WorkOK
<1>2. claims \subseteq ClaimNames /\ IsFiniteSet(claims)
  BY <1>1, SetFacts DEF OriginInv
<1>3. CASE detached
  <2>1. h = WriteHeaders(unknown, encodable)
    BY <1>3, BackgroundIsUnknown DEF Given
  <2>2. /\ h \in Headers /\ Received(h) \subseteq claims
        /\ FromHeaders(h) = unknown
    BY <1>2, <2>1, UnknownIs, RoundTrip
  <2>3. IsFiniteSet(Received(h))
    BY <1>2, <2>2, FS_Subset
  <2>4. lost = TRUE /\ root \in Values
    BY <1>1, <1>3 DEF Lossy, Says
  <2> QED BY <2>2, <2>3, <2>4, UnknownSays
<1>4. CASE ~detached
  <2>1. PICK value \in Values : value = From(work[s].ctx)
    BY <1>1 DEF Says
  <2>2. h = WriteHeaders(value, encodable) /\ value.claims \subseteq claims
    BY <1>1, <1>4, <2>1 DEF Given, Says
  <2>3. /\ h \in Headers /\ Received(h) \subseteq claims
        /\ FromHeaders(h) = IF encodable \/ value.claims = {} THEN value
                            ELSE Value(value.kind, value.id, {})
    BY <1>2, <2>2, RoundTrip
  <2>4. IsFiniteSet(Received(h))
    BY <1>2, <2>3, FS_Subset
  <2>5. lost <=> work[s].lost \/ (~encodable /\ value.claims # {})
    BY <1>4, <2>1 DEF Lossy
  <2> HIDE DEF h, root, lost
  <2>6. CASE encodable \/ value.claims = {}
    <3>1. FromHeaders(h) = value /\ (~lost => ~work[s].lost)
      BY <2>3, <2>5, <2>6
    <3> QED BY <1>1, <2>1, <2>3, <2>4, <3>1 DEF Says, h, root, lost
  <2>7. CASE ~(encodable \/ value.claims = {})
    <3>1. FromHeaders(h) = Value(value.kind, value.id, {}) /\ lost
      BY <2>3, <2>5, <2>7
    <3>2. Value(value.kind, value.id, {}) \in Values
      BY DEF Value, Values
    <3>3. value # unknown
      BY <2>7, UnknownIs
    <3>4. value.kind = root.kind /\ value.id = root.id /\ root \in Values
      BY <1>1, <2>1, <3>3 DEF Says
    <3>5. Says(FromHeaders(h), root, lost)
      BY <3>1, <3>2, <3>4 DEF Says, Value
    <3> QED BY <2>3, <2>4, <3>5 DEF h, root, lost
  <2> QED BY <2>6, <2>7
<1> QED BY <1>3, <1>4

\* Sending puts one more item on the wire.
LEMMA SendStep ==
  ASSUME OriginInv, NEW s \in Slot, work[s] # None, NEW h \in Headers, NEW lost \in BOOLEAN,
         IsFiniteSet(Received(h)), Says(FromHeaders(h), work[s].root, work[s].lost \/ lost),
         Send(s, h, lost), UNCHANGED <<setup, work, reporting, refusal>>
  PROVE  OriginInv'
<1>1. /\ claims # None /\ work[s].root \in Values /\ work[s].lost \in BOOLEAN
      /\ work[s].hops \in 0..MaxHops /\ MaxHops \in Nat
  BY InitiatorAssumption DEF OriginInv, WorkOK, Work
<1> DEFINE item == [headers |-> h, hops |-> work[s].hops + 1, root |-> work[s].root,
                    lost |-> work[s].lost \/ lost]
<1>2. ItemOK(item)
  <2>1. work[s].hops + 1 \in 1..MaxHops
    BY <1>1 DEF Send
  <2>2. (work[s].lost \/ lost) \in BOOLEAN
    BY <1>1
  <2> QED BY <1>1, <2>1, <2>2, ItemIs
<1>3. wire' \subseteq wire \cup {item}
  BY DEF Send
<1> HIDE DEF item
<1> QED BY <1>2, <1>3, SentOn DEF OriginInv

\* publish and enqueue write the headers of the context they are given.
LEMMA PublishStep ==
  ASSUME OriginInv, NEW s \in Slot, NEW meta \in {"own", "reserved", "received"},
         NEW detached \in BOOLEAN, NEW encodable \in BOOLEAN,
         Publish(s, meta, detached, encodable) \/ Inject(s, detached, encodable)
  PROVE  OriginInv'
<1> DEFINE h == WriteHeaders(From(Given(s, detached)), encodable)
           lossy == Lossy(s, detached, encodable)
<1>0. work[s] # None
  BY DEF Publish, Inject
<1>1. /\ h \in Headers /\ IsFiniteSet(Received(h))
      /\ Says(FromHeaders(h), work[s].root, work[s].lost \/ lossy)
  BY <1>0, WrittenSays
<1>2. lossy \in BOOLEAN
  BY DEF Lossy
<1> HIDE DEF h, lossy
<1>3. CASE Inject(s, detached, encodable)
  BY <1>0, <1>1, <1>2, <1>3, SendStep DEF Inject, h, lossy
<1>4. CASE Publish(s, meta, detached, encodable) /\ refuseReservedHeaders(s, meta)
  <2>1. ~work[s].raw
    BY <1>0 DEF OriginInv, WorkOK
  <2>2. refusal' = "reserved" /\ wire' \subseteq wire \cup {}
    BY <1>4, <2>1 DEF Publish, refuseReservedHeaders
  <2> DEFINE none == {}
  <2>3. wire' \subseteq wire \cup none /\ \A item \in none : ItemOK(item)
    BY <2>2
  <2> HIDE DEF none
  <2> QED BY <1>4, <2>2, <2>3, SentOn DEF Publish
<1>5. CASE Publish(s, meta, detached, encodable) /\ ~refuseReservedHeaders(s, meta)
  <2>1. CASE carries
    <3>1. Send(s, h, lossy)
      BY <1>5, <2>1, <1>2 DEF Publish, h, lossy
    <3> QED BY <1>0, <1>1, <1>2, <1>5, <3>1, SendStep DEF Publish
  <2>2. CASE ~carries
    <3>1. Send(s, NoHeaders, TRUE)
      BY <1>5, <2>2 DEF Publish
    <3>2. /\ NoHeaders \in Headers /\ Received(NoHeaders) = {}
          /\ FromHeaders(NoHeaders) = unknown
      BY DEF NoHeaders, Headers, Received, FromHeaders
    <3>3. IsFiniteSet(Received(NoHeaders))
      BY <3>2, FS_EmptySet
    <3>4. (work[s].lost \/ TRUE) = TRUE /\ work[s].root \in Values
      BY <1>0 DEF OriginInv, WorkOK, Work
    <3>5. Says(FromHeaders(NoHeaders), work[s].root, work[s].lost \/ TRUE)
      BY <3>2, <3>4, UnknownSays
    <3> QED BY <1>0, <1>5, <3>1, <3>2, <3>3, <3>5, SendStep DEF Publish
  <2> QED BY <2>1, <2>2
<1> QED BY <1>3, <1>4, <1>5

\* Headers of another producer are their own origin.
LEMMA ForeignStep ==
  ASSUME OriginInv, NEW h \in Foreign, ForeignPublish(h)
  PROVE  OriginInv'
<1> DEFINE root == IF ~Wellformed(h) THEN unknown
                   ELSE Value(h.kind, h.id, IF h.claims = None THEN {} ELSE h.claims)
<1>1. h \in Headers /\ claims # None /\ MaxHops \in Nat
  BY InitiatorAssumption DEF ForeignPublish
<1>2. claims \subseteq ClaimNames
  BY <1>1, SetFacts DEF OriginInv
<1>3. Says(FromHeaders(h), root, FALSE)
  BY <1>1, <1>2, ForeignSays
<1>4. IsFiniteSet(Received(h))
  <2>1. CASE h.claims \in SUBSET AllNames
    BY <2>1, MarkersAssumption, FS_EmptySet DEF Received
  <2>2. CASE h.claims \notin SUBSET AllNames
    BY <1>1, <2>2, FS_EmptySet DEF Received, Headers, decodes
  <2> QED BY <2>1, <2>2
<1> HIDE DEF root
<1>5. root \in Values
  BY <1>3 DEF Says
<1> DEFINE item == [headers |-> h, hops |-> 1, root |-> root, lost |-> FALSE]
<1>6. ItemOK(item)
  <2>1. 1 \in 1..MaxHops
    BY <1>1 DEF ForeignPublish
  <2> QED BY <1>1, <1>3, <1>4, <1>5, <2>1, ItemIs
<1>7. wire' \subseteq wire \cup {item}
  BY DEF ForeignPublish, root
<1> HIDE DEF item
<1> QED BY <1>6, <1>7, SentOn DEF ForeignPublish, OriginInv

-----------------------------------------------------------------------------
(* Taking work up *)

\* Whatever the names of a message, the memory and the log stay in bounds.
LEMMA ReportStep ==
  ASSUME OriginInv, NEW names, IsFiniteSet(names), NEW told \in SUBSET AllNames,
         reportDropped(names, told)
  PROVE  ReportOK'
<1> DEFINE new == IF saturated THEN {} ELSE Dropped(names)
           room == MaxReportedDroppedClaims - Cardinality(reported)
           max == MaxReportedDroppedClaims
<1>1. /\ reported \subseteq AllNames /\ IsFiniteSet(reported) /\ saturated \in BOOLEAN
      /\ records \in Nat /\ Cardinality(reported) <= max
      /\ records = Cardinality(reported) + (IF saturated THEN 1 ELSE 0)
  BY DEF OriginInv, ReportOK, DroppedIsBounded
<1>2. max \in Nat
  BY InitiatorAssumption
<1>3. /\ told \subseteq new
      /\ Cardinality(told) = IF Cardinality(new) <= room THEN Cardinality(new) ELSE room
      /\ reported' = reported \cup told
      /\ saturated' = (saturated \/ told # new)
      /\ records' = records + Cardinality(told) + (IF told # new THEN 1 ELSE 0)
  BY DEF reportDropped
<1>4. Dropped(names) \in SUBSET names /\ Dropped(names) \cap reported = {}
  BY DEF Dropped
<1>5. IsFiniteSet(new)
  BY <1>4, FS_Subset, FS_EmptySet
<1>6. new \cap reported = {} /\ (saturated => new = {})
  BY <1>4
<1> HIDE DEF new, max
<1>7. IsFiniteSet(told) /\ told \cap reported = {}
  BY <1>3, <1>5, <1>6, FS_Subset
<1>8. Cardinality(told) \in Nat /\ Cardinality(reported) \in Nat /\ Cardinality(new) \in Nat
  BY <1>1, <1>5, <1>7, FS_CardinalityType
<1>9. IsFiniteSet(reported') /\ Cardinality(reported') = Cardinality(reported) + Cardinality(told)
  <2>1. Cardinality(reported \cap told) = 0
    BY <1>7, FS_EmptySet
  <2>2. /\ IsFiniteSet(reported \cup told)
        /\ Cardinality(reported \cup told) =
              Cardinality(reported) + Cardinality(told) - Cardinality(reported \cap told)
    BY <1>1, <1>7, FS_Union
  <2> QED BY <1>3, <1>8, <2>1, <2>2
<1>10. Cardinality(told) <= room
  BY <1>1, <1>2, <1>3, <1>8 DEF max
<1>11. Cardinality(reported') <= max
  BY <1>1, <1>2, <1>8, <1>9, <1>10 DEF max
<1>12. saturated => told = new
  BY <1>3, <1>6
<1>13. records' = Cardinality(reported') + (IF saturated' THEN 1 ELSE 0)
  <2>1. CASE told = new
    <3>1. saturated' = saturated
      BY <1>1, <1>3, <2>1
    <3> QED BY <1>1, <1>3, <1>8, <1>9, <2>1, <3>1
  <2>2. CASE told # new
    <3>1. saturated = FALSE
      BY <1>1, <1>12, <2>2
    <3>2. saturated' = TRUE
      BY <1>3, <2>2
    <3> QED BY <1>1, <1>3, <1>8, <1>9, <2>2, <3>1, <3>2
  <2> QED BY <2>1, <2>2
<1>14. saturated' \in BOOLEAN /\ records' \in Nat /\ reported' \subseteq AllNames
  BY <1>1, <1>3, <1>8
<1> QED BY <1>9, <1>11, <1>13, <1>14 DEF ReportOK, DroppedIsBounded, max

\* Restored work says what the item's headers say.
LEMMA RestoredIs ==
  ASSUME NEW item, ItemOK(item)
  PROVE  WorkOK(Restored(item, FALSE))
<1>1. PICK value \in Values : value = FromHeaders(item.headers)
  BY DEF ItemOK, Says
<1> DEFINE ctx == With(Background, value)
           w == [ctx |-> ctx, raw |-> FALSE, hops |-> item.hops, root |-> item.root,
                 lost |-> item.lost]
<1>2. From(ctx) = value
  BY MarkIsRead
<1>3. ctx \in Context
  BY DEF With, Background, Context
<1>4. item.hops \in 0..MaxHops /\ item.root \in Values /\ item.lost \in BOOLEAN
  BY InitiatorAssumption DEF ItemOK, Item
<1> HIDE DEF ctx
<1>5. w \in Work
  BY <1>3, <1>4 DEF Work
<1>6. w.ctx = ctx /\ w.raw = FALSE /\ w.root = item.root /\ w.lost = item.lost
  OBVIOUS
<1> HIDE DEF w
<1>7. Says(From(w.ctx), w.root, w.lost)
  BY <1>1, <1>2, <1>6 DEF ItemOK
<1>8. WorkOK(w)
  BY <1>5, <1>6, <1>7 DEF WorkOK, ItemOK
<1> QED BY <1>1, <1>8 DEF Restored, w, ctx

\* What a subscription or a job restores tells what its item told.
LEMMA DeliverStep ==
  ASSUME OriginInv, NEW s \in Slot, NEW item \in wire, NEW told \in SUBSET AllNames,
         OnMessage(s, item, told) \/ Extract(s, item, told)
  PROVE  OriginInv'
<1>1. ItemOK(item)
  BY DEF OriginInv
<1>2. WorkOK(Restored(item, FALSE))
  BY <1>1, RestoredIs
<1>3. Start(s, Restored(item, FALSE)) /\ reportDropped(Received(item.headers), told)
      /\ UNCHANGED <<setup, wire, refusal>>
  BY DEF OnMessage, Extract, WithoutHeaders
<1>4. ReportOK'
  BY <1>1, <1>3, ReportStep DEF ItemOK
<1> QED BY <1>2, <1>3, <1>4, TakenUp

\* Work that ends leaves nothing behind.
LEMMA EndStep ==
  ASSUME OriginInv, NEW s \in Slot, End(s)
  PROVE  OriginInv'
<1>1. claims' = claims /\ SetOK' /\ ReportOK'
  BY DEF OriginInv, SetOK, ReportOK, DroppedIsBounded, End, setup, reporting
<1>2. work' \in [Slot -> Work \cup {None}]
  BY DEF OriginInv, End
<1>3. ASSUME NEW t \in Slot, work'[t] # None
      PROVE  WorkOK(work[t])'
  <2>1. PICK v : v = work[t] /\ work'[t] = v /\ WorkOK(v)
    BY <1>3 DEF OriginInv, End
  <2>2. WorkOK(v)'
    BY <1>1, <2>1, SameSays
  <2> QED BY <2>1, <2>2 DEF WorkOK
<1>4. \A item \in wire' : ItemOK(item)'
  BY <1>1, SameSays DEF OriginInv, End
<1> QED BY <1>1, <1>2, <1>3, <1>4 DEF OriginInv, End

-----------------------------------------------------------------------------
(* The invariant and what follows from it *)

\* Nothing is under way at first.
LEMMA OriginInit == Init => OriginInv
<1> SUFFICES ASSUME Init
             PROVE  OriginInv
  OBVIOUS
<1>1. SetOK
  BY DEF Init, SetOK
<1>2. ReportOK
  <2>1. MaxReportedDroppedClaims \in Nat
    BY InitiatorAssumption
  <2>2. IsFiniteSet(reported) /\ Cardinality(reported) = 0
    BY FS_EmptySet DEF Init
  <2>3. saturated = FALSE /\ records = 0 /\ reported \subseteq AllNames
    BY DEF Init
  <2>4. DroppedIsBounded
    BY <2>1, <2>2, <2>3 DEF DroppedIsBounded
  <2> QED BY <2>2, <2>3, <2>4 DEF ReportOK
<1> QED BY <1>1, <1>2 DEF Init, OriginInv

\* One case per action.
LEMMA OriginStep == OriginInv /\ [Next]_vars => OriginInv'
<1> SUFFICES ASSUME OriginInv, [Next]_vars
             PROVE  OriginInv'
  OBVIOUS
<1> DEFINE none == {}
<1>1. \A item \in none : ItemOK(item)
  OBVIOUS
<1> HIDE DEF none
<1>2. CASE UNCHANGED vars
  BY <1>1, <1>2, SentOn DEF vars, setup, reporting, OriginInv
<1>3. ASSUME NEW item \in wire, Forget(item)
      PROVE  OriginInv'
  BY <1>1, <1>3, SentOn DEF Forget, OriginInv
<1>4. ASSUME NEW s \in Slot, NEW meta \in {"own", "reserved", "received"},
             NEW detached \in BOOLEAN, NEW encodable \in BOOLEAN,
             Publish(s, meta, detached, encodable)
      PROVE  OriginInv'
  BY <1>4, PublishStep
<1>5. ASSUME NEW s \in Slot, NEW detached \in BOOLEAN, NEW encodable \in BOOLEAN,
             Inject(s, detached, encodable)
      PROVE  OriginInv'
  <2> DEFINE meta == "own"
  <2>1. meta \in {"own", "reserved", "received"}
    OBVIOUS
  <2> HIDE DEF meta
  <2> QED BY <1>5, <2>1, PublishStep
<1> QED BY <1>2, <1>3, <1>4, <1>5, SetStep, BeginStep, EndStep, DeliverStep, ForeignStep
       DEF Next

\* The chains keep their invariant.
LEMMA OriginAlways == Spec => []OriginInv
  BY OriginInit, OriginStep, PTL DEF Spec

\* Contexts, work, items and the memory of dropped names keep their types.
THEOREM TypeCorrect == Spec => []TypeOK
<1>1. OriginInv => TypeOK
  BY DEF OriginInv, SetOK, ReportOK, ItemOK, TypeOK
<1> QED BY <1>1, OriginAlways, PTL

\* Whose work it is reads as whose it is or as unknown, never as someone else's,
\* and with no claim the application did not list, after chains of any length.
THEOREM NeverSomeoneElse == Spec => []NobodyElse
<1>1. ASSUME OriginInv, NEW s \in Running
      PROVE  LET read == From(work[s].ctx) root == work[s].root
             IN  read = unknown
                    \/ /\ read.kind = root.kind /\ read.id = root.id
                       /\ read.claims \subseteq root.claims \cap list
  <2>1. claims = list /\ Says(From(work[s].ctx), work[s].root, work[s].lost)
    BY <1>1 DEF Running, OriginInv, WorkOK, SetOK
  <2> QED BY <2>1 DEF Says
<1>2. OriginInv => NobodyElse
  BY <1>1 DEF NobodyElse
<1> QED BY <1>2, OriginAlways, PTL

\* A chain that no step broke loses nothing but claims the application does not
\* carry, and a handler that sends on what it was given is never refused for it.
THEOREM OriginSurvives == Spec => []OriginArrives
<1>1. ASSUME OriginInv, NEW s \in Running, ~work[s].lost
      PROVE  From(work[s].ctx) = [work[s].root EXCEPT !.claims = pick(claims, @)]
  BY <1>1 DEF Running, OriginInv, WorkOK, Says
<1>2. OriginInv => refusal # "received"
  BY MarkersAssumption DEF OriginInv
<1>3. OriginInv => OriginArrives
  BY <1>1, <1>2 DEF OriginArrives
<1> QED BY <1>3, OriginAlways, PTL

\* The memory and the log of dropped claims stay bounded, whatever names other
\* producers invent.
THEOREM DroppedStaysBounded == Spec => []DroppedIsBounded
<1>1. OriginInv => DroppedIsBounded
  BY DEF OriginInv, ReportOK
<1> QED BY <1>1, OriginAlways, PTL

-----------------------------------------------------------------------------
(* Delivery: invariants *)

\* With no room behind the declared options every call has its own slice.
OwnSlices ==
    \A c \in Own :
        /\ pc[c] \in {"idle", "checked"} => slice[c] = "none"
        /\ pc[c] = "appended" => slice[c] = IF opts[c] = Nothing THEN "none" ELSE "own"
        /\ pc[c] = "sent" => applied[c] = opts[c]

\* NothingVanishes is inductive once the queue is known to be a sequence.
BrokerInv == MessagingTypeOK /\ NothingVanishes

-----------------------------------------------------------------------------
(* Delivery: the queue *)

\* A queue of one message.
LEMMA OneRange ==
  ASSUME NEW m
  PROVE  Range(<<m>>) = {m}
<1>1. <<m>> \in Seq({m}) /\ Len(<<m>>) = 1 /\ <<m>>[1] = m
  OBVIOUS
<1>2. Range(<<m>>) = {<<m>>[i] : i \in 1..Len(<<m>>)}
  BY <1>1, RangeEquality
<1> QED BY <1>1, <1>2

\* A message that is added is in the queue, behind the ones that were.
LEMMA AppendRange ==
  ASSUME NEW S, NEW s \in Seq(S), NEW m \in S
  PROVE  Append(s, m) \in Seq(S) /\ Range(Append(s, m)) = Range(s) \cup {m}
<1>1. Append(s, m) = s \o <<m>> /\ <<m>> \in Seq(S) /\ s \o <<m>> \in Seq(S)
  OBVIOUS
<1>2. Range(<<m>>) = {m}
  BY OneRange
<1>3. Range(s \o <<m>>) = Range(s) \cup Range(<<m>>)
  BY <1>1, RangeConcatenation
<1> QED BY <1>1, <1>2, <1>3

\* A message that goes back is in the queue, in front of the others.
LEMMA ReturnRange ==
  ASSUME NEW S, NEW s \in Seq(S), NEW m \in S
  PROVE  <<m>> \o s \in Seq(S) /\ Range(<<m>> \o s) = Range(s) \cup {m}
<1>1. <<m>> \in Seq(S) /\ <<m>> \o s \in Seq(S)
  OBVIOUS
<1>2. Range(<<m>>) = {m}
  BY OneRange
<1>3. Range(<<m>> \o s) = Range(<<m>>) \cup Range(s)
  BY <1>1, RangeConcatenation
<1> QED BY <1>1, <1>2, <1>3

\* Whatever is in a queue is its first message or behind it.
LEMMA HeadRange ==
  ASSUME NEW S, NEW s \in Seq(S), s # <<>>
  PROVE  /\ Head(s) \in S /\ Tail(s) \in Seq(S)
         /\ Range(s) = {Head(s)} \cup Range(Tail(s))
<1>1. Head(s) \in S /\ Tail(s) \in Seq(S) /\ Len(s) \in Nat \ {0} /\ Head(s) = s[1]
  BY HeadTailProperties, EmptySeq
<1>2. SubSeq(s, 1, Len(s)) = <<s[1]>> \o SubSeq(s, 1 + 1, Len(s))
  <2>1. 1 \in 1..Len(s) /\ Len(s) \in 1..Len(s)
    BY <1>1
  <2> QED BY <2>1, SubSeqRecursiveFirst
<1>3. s = <<Head(s)>> \o Tail(s)
  BY <1>1, <1>2, SubSeqFull, TailIsSubSeq
<1>4. Range(<<Head(s)>> \o Tail(s)) = Range(Tail(s)) \cup {Head(s)}
  BY <1>1, ReturnRange
<1> QED BY <1>1, <1>3, <1>4

-----------------------------------------------------------------------------
(* Delivery: steps *)

\* The types after a step of one call of Publish.
LEMMA PublishKeeps ==
  ASSUME BrokerInv, NEW c \in Own, PublishCall(c)
  PROVE  BrokerInv'
<1> USE DEF BrokerInv, MessagingTypeOK, NothingVanishes, config, callVars, brokerVars, Messages
<1>1. ASSUME NEW option \in {c, Nothing}, Validate(c, option) PROVE BrokerInv'
  BY <1>1 DEF Validate
<1>2. CASE AppendOptions(c)
  BY <1>2 DEF AppendOptions
<1>3. ASSUME NEW accepted \in BOOLEAN, publish(c, accepted) PROVE BrokerInv'
  <2>1. /\ pc' \in [Own -> {"idle", "checked", "appended", "sent", "refused"}]
        /\ applied' \in [Own -> Own \cup {Nothing}]
    BY <1>3 DEF publish
  <2>2. CASE accepted
    BY <1>3, <2>1, <2>2, AppendRange DEF publish
  <2>3. CASE ~accepted
    BY <1>3, <2>1, <2>3 DEF publish
  <2> QED BY <2>2, <2>3
<1> QED BY <1>1, <1>2, <1>3 DEF PublishCall

\* What another producer publishes is in the queue.
LEMMA OtherProducerKeeps ==
  ASSUME BrokerInv, NEW m \in Others, OtherProducer(m)
  PROVE  BrokerInv'
  BY AppendRange DEF OtherProducer, BrokerInv, MessagingTypeOK, NothingVanishes, config,
                     callVars, Messages

\* The first message leaves the queue and is in flight.
LEMMA DeliverKeeps ==
  ASSUME BrokerInv, Deliver
  PROVE  BrokerInv'
<1>1. queue \in Seq(Messages) /\ queue # <<>>
  BY DEF BrokerInv, MessagingTypeOK, Deliver
<1>2. /\ Head(queue) \in Messages /\ Tail(queue) \in Seq(Messages)
      /\ Range(queue) = {Head(queue)} \cup Range(Tail(queue))
  BY <1>1, HeadRange
<1>3. Nothing \notin taken
  BY MessagingAssumption DEF BrokerInv, MessagingTypeOK, Messages
<1> QED BY <1>2, <1>3 DEF Deliver, BrokerInv, MessagingTypeOK, NothingVanishes, config, callVars

\* A message that is refused goes back or is dead-lettered.
LEMMA RefuseKeeps ==
  ASSUME BrokerInv, inflight # Nothing, Refuse
  PROVE  /\ queue' \in Seq(Messages) /\ dead' \subseteq Messages /\ inflight' = Nothing
         /\ Range(queue) \cup {inflight} \cup dead \subseteq Range(queue') \cup dead'
<1>1. queue \in Seq(Messages) /\ inflight \in Messages /\ dead \subseteq Messages
  BY DEF BrokerInv, MessagingTypeOK
<1>2. /\ <<inflight>> \o queue \in Seq(Messages)
      /\ Range(<<inflight>> \o queue) = Range(queue) \cup {inflight}
  BY <1>1, ReturnRange
<1> QED BY <1>1, <1>2 DEF Refuse

\* A message on whose handling the process ended goes back.
LEMMA CrashKeeps ==
  ASSUME BrokerInv, Crash
  PROVE  BrokerInv'
<1>1. queue \in Seq(Messages) /\ inflight \in Messages
  BY DEF BrokerInv, MessagingTypeOK, Crash
<1>2. /\ <<inflight>> \o queue \in Seq(Messages)
      /\ Range(<<inflight>> \o queue) = Range(queue) \cup {inflight}
  BY <1>1, ReturnRange
<1>3. failures' \in 0..MaxFailures
  BY MessagingAssumption DEF Crash, BrokerInv, MessagingTypeOK
<1> QED BY <1>2, <1>3 DEF Crash, BrokerInv, MessagingTypeOK, NothingVanishes, config, callVars

\* An unreadable message is logged.
LEMMA InvalidKeeps ==
  ASSUME BrokerInv, OnReceiveInvalid
  PROVE  BrokerInv'
<1>1. /\ inflight \in Messages /\ rejected' = rejected \cup {inflight} /\ inflight # Nothing
      /\ Refuse \/ Accept
  BY DEF OnReceiveInvalid, handleInvalid, BrokerInv, MessagingTypeOK
<1>2. /\ queue' \in Seq(Messages) /\ dead' \subseteq Messages /\ inflight' = Nothing
      /\ Range(queue) \cup dead \subseteq Range(queue') \cup dead'
  BY <1>1, RefuseKeeps DEF Accept, BrokerInv, MessagingTypeOK
<1> QED BY <1>1, <1>2 DEF OnReceiveInvalid, BrokerInv, MessagingTypeOK, NothingVanishes,
                          config, callVars

\* A readable message is handled, or refused.
LEMMA ReceiveKeeps ==
  ASSUME BrokerInv, NEW ok \in BOOLEAN, OnReceive(ok)
  PROVE  BrokerInv'
<1>1. inflight \in Messages /\ inflight # Nothing
  BY DEF OnReceive, BrokerInv, MessagingTypeOK
<1>2. CASE ok
  BY <1>1, <1>2 DEF OnReceive, Accept, BrokerInv, MessagingTypeOK, NothingVanishes, config, callVars
<1>3. CASE ~ok
  <2>1. Refuse /\ failures' = failures + 1 /\ failures < MaxFailures
    BY <1>3 DEF OnReceive
  <2>2. failures' \in 0..MaxFailures
    BY <2>1, MessagingAssumption DEF BrokerInv, MessagingTypeOK
  <2> QED BY <1>1, <1>3, <2>1, <2>2, RefuseKeeps
          DEF OnReceive, BrokerInv, MessagingTypeOK, NothingVanishes, config, callVars
<1> QED BY <1>2, <1>3

\* Every step keeps the types, and every message somewhere.
LEMMA BrokerStep == BrokerInv /\ [MessagingNext]_messagingVars => BrokerInv'
<1> SUFFICES ASSUME BrokerInv, [MessagingNext]_messagingVars PROVE BrokerInv'
  OBVIOUS
<1>1. CASE UNCHANGED messagingVars
  BY <1>1 DEF messagingVars, BrokerInv, MessagingTypeOK, NothingVanishes
<1>2. CASE MessagingNext
  BY <1>2, PublishKeeps, OtherProducerKeeps, DeliverKeeps, CrashKeeps, InvalidKeeps, ReceiveKeeps
     DEF MessagingNext, Consume
<1> QED BY <1>1, <1>2

\* Nothing has been taken at first.
LEMMA BrokerInit == MessagingInit => BrokerInv
  BY MessagingAssumption DEF MessagingInit, BrokerInv, MessagingTypeOK, NothingVanishes

-----------------------------------------------------------------------------
(* Delivery: theorems *)

\* The types of the publication, the broker and the subscription.
THEOREM MessagingTypeCorrect == MessagingSpec => []MessagingTypeOK
<1>1. BrokerInv => MessagingTypeOK
  BY DEF BrokerInv
<1> QED BY <1>1, BrokerInit, BrokerStep, PTL DEF MessagingSpec

\* No message the broker took is lost without a trace, for any number of calls,
\* producers, crashes and handler errors.
THEOREM NothingIsLost == MessagingSpec => []NothingVanishes
<1>1. BrokerInv => NothingVanishes
  BY DEF BrokerInv
<1> QED BY <1>1, BrokerInit, BrokerStep, PTL DEF MessagingSpec

\* A call's option goes with its own message wherever the declared options have no
\* room behind them, as in a literal; MessagingOptions.cfg shows the other case.
THEOREM OptionsStayApart ==
  ASSUME Spare = 0
  PROVE  MessagingSpec => []OverridesStayApart
<1>1. MessagingInit => OwnSlices
  BY DEF MessagingInit, OwnSlices
<1>2. ASSUME MessagingTypeOK, OwnSlices, [MessagingNext]_messagingVars PROVE OwnSlices'
  <2>1. ASSUME NEW c \in Own, PublishCall(c) PROVE OwnSlices'
    <3>1. ASSUME NEW option \in {c, Nothing}, Validate(c, option) PROVE OwnSlices'
      BY <1>2, <3>1 DEF Validate, OwnSlices, MessagingTypeOK
    <3>2. CASE AppendOptions(c)
      BY <1>2, <3>2 DEF AppendOptions, OwnSlices, MessagingTypeOK
    <3>3. ASSUME NEW accepted \in BOOLEAN, publish(c, accepted) PROVE OwnSlices'
      <4>1. slice[c] = IF opts[c] = Nothing THEN "none" ELSE "own"
        BY <1>2, <3>3 DEF publish, OwnSlices
      <4>2. applied'[c] = opts[c]
        BY <1>2, <3>3, <4>1 DEF publish, MessagingTypeOK
      <4> QED BY <1>2, <3>3, <4>2 DEF publish, OwnSlices, MessagingTypeOK
    <3> QED BY <2>1, <3>1, <3>2, <3>3 DEF PublishCall
  <2>2. CASE UNCHANGED callVars
    BY <1>2, <2>2 DEF callVars, OwnSlices
  <2> QED BY <1>2, <2>1, <2>2
          DEF MessagingNext, Consume, OtherProducer, Deliver, OnReceiveInvalid, OnReceive, Crash,
              messagingVars, callVars
<1>3. OwnSlices => OverridesStayApart
  BY DEF OwnSlices, OverridesStayApart
<1> QED BY <1>1, <1>2, <1>3, MessagingTypeCorrect, PTL DEF MessagingSpec
=============================================================================
