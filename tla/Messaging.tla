----------------------------- MODULE Messaging -----------------------------
(***************************************************************************)
(* A publication and a subscription on one channel: Publication.Publish,   *)
(* called by several goroutines at once, and SubscriptionModule.OnReceive  *)
(* with its policy for messages it cannot read.                            *)
(*                                                                         *)
(* The broker is a library: it keeps messages in order, delivers the first *)
(* one until it is accepted, and does with one that was refused what the   *)
(* subscription's error strategy says.                                     *)
(***************************************************************************)
EXTENDS Integers, Sequences, Functions

CONSTANTS
    Own,        \* calls of Publish; a call is also its message
    Others,     \* messages other producers put on the channel
    Spare,      \* room behind the declared Options in the slice that holds them
    MaxFailures,    \* bound on the errors a handler returns and on crashes
    Nothing

ASSUME MessagingAssumption ==
    /\ Spare \in Nat /\ MaxFailures \in Nat /\ Own \cap Others = {}
    /\ Nothing \notin Own \cup Others

VARIABLES
    policy,     \* OnInvalid
    strategy,   \* the broker's error strategy
    readable,   \* the messages that decode and keep the rules
    pc, opts,   \* of each call: where it is, and the option it passes
    cell,       \* the spare slot behind the declared options
    slice,      \* slice[c]: the options Publish hands on: its own copy or the cell
    applied,    \* the option the broker was given for the call's message
    queue, inflight,
    handled, rejected, dead,    \* handled, logged as invalid, dead-lettered
    failures,
    taken       \* history: what the broker accepted from a producer

messagingVars == <<policy, strategy, readable, pc, opts, cell, slice, applied, queue,
          inflight, handled, rejected, dead, failures, taken>>
config == <<policy, strategy, readable>>
callVars == <<pc, opts, cell, slice, applied>>
brokerVars == <<queue, inflight, handled, rejected, dead, failures, taken>>

Messages == Own \cup Others

MessagingTypeOK ==
    /\ policy \in {"discard", "fail"} /\ strategy \in {"requeue", "deadletter"}
    /\ readable \subseteq Messages
    /\ pc \in [Own -> {"idle", "checked", "appended", "sent", "refused"}]
    /\ opts \in [Own -> Own \cup {Nothing}]
    /\ cell \in Own \cup {Nothing}
    /\ slice \in [Own -> {"none", "own", "shared"}]
    /\ applied \in [Own -> Own \cup {Nothing}]
    /\ queue \in Seq(Messages) /\ inflight \in Messages \cup {Nothing}
    /\ handled \subseteq Messages /\ rejected \subseteq Messages /\ dead \subseteq Messages
    /\ failures \in 0..MaxFailures /\ taken \subseteq Messages

MessagingInit ==
    /\ policy \in {"discard", "fail"} /\ strategy \in {"requeue", "deadletter"}
    /\ readable \in SUBSET Messages
    /\ pc = [c \in Own |-> "idle"] /\ opts = [c \in Own |-> Nothing]
    /\ cell = Nothing /\ slice = [c \in Own |-> "none"]
    /\ applied = [c \in Own |-> Nothing]
    /\ queue = <<>> /\ inflight = Nothing
    /\ handled = {} /\ rejected = {} /\ dead = {} /\ failures = 0 /\ taken = {}

-----------------------------------------------------------------------------
(* Publication.Publish *)

\* A message that breaks the declared rules, or cannot be encoded, is not sent.
Validate(c, option) ==
    /\ pc[c] = "idle"
    /\ pc' = [pc EXCEPT ![c] = IF c \in readable THEN "checked" ELSE "refused"]
    /\ opts' = [opts EXCEPT ![c] = option]
    /\ UNCHANGED <<config, cell, slice, applied, brokerVars>>

\* append(p.spec.Options, opts...): with room behind the declared options, the
\* call's own option is written there.
AppendOptions(c) ==
    /\ pc[c] = "checked"
    /\ pc' = [pc EXCEPT ![c] = "appended"]
    /\ \/ opts[c] = Nothing /\ UNCHANGED <<cell, slice>>
       \/ /\ opts[c] # Nothing /\ Spare = 0
          /\ slice' = [slice EXCEPT ![c] = "own"] /\ UNCHANGED cell
       \/ /\ opts[c] # Nothing /\ Spare > 0
          /\ cell' = opts[c] /\ slice' = [slice EXCEPT ![c] = "shared"]
    /\ UNCHANGED <<config, opts, applied, brokerVars>>

\* The publish function: the broker applies the options, and takes the message
\* or fails.
publish(c, accepted) ==
    /\ pc[c] = "appended"
    /\ pc' = [pc EXCEPT ![c] = IF accepted THEN "sent" ELSE "refused"]
    /\ applied' = [applied EXCEPT ![c] = CASE slice[c] = "none" -> Nothing
                                           [] slice[c] = "own" -> opts[c]
                                           [] slice[c] = "shared" -> cell]
    /\ queue' = IF accepted THEN Append(queue, c) ELSE queue
    /\ taken' = IF accepted THEN taken \cup {c} ELSE taken
    /\ UNCHANGED <<config, opts, cell, slice, inflight, handled, rejected, dead, failures>>

-----------------------------------------------------------------------------
(* The broker *)

OtherProducer(m) ==
    /\ m \notin taken
    /\ queue' = Append(queue, m) /\ taken' = taken \cup {m}
    /\ UNCHANGED <<config, callVars, inflight, handled, rejected, dead, failures>>

Deliver ==
    /\ inflight = Nothing /\ queue # <<>>
    /\ inflight' = Head(queue) /\ queue' = Tail(queue)
    /\ UNCHANGED <<config, callVars, handled, rejected, dead, failures, taken>>

Accept == inflight' = Nothing /\ UNCHANGED <<queue, dead>>

\* An error of OnReceive.
Refuse ==
    /\ inflight' = Nothing
    /\ IF strategy = "requeue"
       THEN queue' = <<inflight>> \o queue /\ UNCHANGED dead
       ELSE dead' = dead \cup {inflight} /\ UNCHANGED queue

\* The process ends in the middle of a message, which is delivered again.
Crash ==
    /\ inflight # Nothing /\ failures < MaxFailures
    /\ queue' = <<inflight>> \o queue /\ inflight' = Nothing
    /\ failures' = failures + 1
    /\ UNCHANGED <<config, callVars, handled, rejected, dead, taken>>

-----------------------------------------------------------------------------
(* SubscriptionModule.OnReceive *)

\* Mutant: an unreadable message is refused whatever the policy says.
handleInvalidAlwaysFails == rejected' = rejected \cup {inflight} /\ Refuse

\* Mutant: an unreadable message is accepted without a trace.
handleInvalidSilent ==
    /\ UNCHANGED rejected
    /\ IF policy = "fail" THEN Refuse ELSE Accept

\* Logged under either policy.
handleInvalid ==
    /\ rejected' = rejected \cup {inflight}
    /\ IF policy = "fail" THEN Refuse ELSE Accept

OnReceiveInvalid ==
    /\ inflight # Nothing /\ inflight \notin readable
    /\ handleInvalid
    /\ UNCHANGED <<config, callVars, handled, failures, taken>>

\* Handle, with the decoded message.
OnReceive(ok) ==
    /\ inflight # Nothing /\ inflight \in readable
    /\ IF ok
       THEN handled' = handled \cup {inflight} /\ Accept /\ UNCHANGED failures
       ELSE /\ failures < MaxFailures /\ failures' = failures + 1
            /\ Refuse /\ UNCHANGED handled
    /\ UNCHANGED <<config, callVars, rejected, taken>>

PublishCall(c) ==
    \/ \E option \in {c, Nothing} : Validate(c, option)
    \/ AppendOptions(c)
    \/ \E accepted \in BOOLEAN : publish(c, accepted)

Consume == Deliver \/ OnReceiveInvalid \/ OnReceive(TRUE)

MessagingNext ==
    \/ \E c \in Own : PublishCall(c)
    \/ \E m \in Others : OtherProducer(m)
    \/ Consume \/ OnReceive(FALSE) \/ Crash

MessagingSpec == MessagingInit /\ [][MessagingNext]_messagingVars

\* The broker goes on delivering and a handler that is called returns.  Handler
\* errors and crashes are bounded by MaxFailures; nothing makes a producer
\* publish.
MessagingFairSpec == MessagingSpec /\ WF_messagingVars(Consume)

-----------------------------------------------------------------------------
(* Properties *)

\* A call's option goes with its own message and with no other: "a single call
\* can override a declared default without changing what every other call does"
\* (publication.go).
OverridesStayApart == \A c \in Own : pc[c] = "sent" => applied[c] = opts[c]

\* No message is lost without a trace: one the broker took is still on its way,
\* was handled, was dead-lettered, or was logged as invalid.
NothingVanishes ==
    taken \subseteq Range(queue) \cup {inflight} \cup handled \cup rejected \cup dead

\* A message the broker took is dealt with, and dealt with once everything in
\* front of it is, unless the subscription asked for the one combination its
\* documentation warns of: failing on a message that cannot be read and putting
\* it back at the head of the queue.  Poison does not stall what is behind it.
GetsThrough ==
    \A m \in Messages :
        m \in Range(queue) /\ (policy = "discard" \/ strategy = "deadletter")
            ~> m \in handled \cup rejected \cup dead

=============================================================================
