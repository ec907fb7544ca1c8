------------------------------- MODULE Orders -------------------------------
(***************************************************************************)
(* The order module: PUT /order/{id} and POST /order/{id}/approval served  *)
(* at the same time over the in-memory repository.                         *)
(*                                                                         *)
(* A handler touches the repository's map three times (FindOrder, the      *)
(* FindByID inside UpdateOrder, Save) and takes no lock, so every access   *)
(* is a step of its own and a write has a beginning and an end.  A map     *)
(* access of another goroutine in between is a data race: it goes through, *)
(* or the Go runtime ends the process, which no recovery can prevent.      *)
(*                                                                         *)
(* Money on the wire is a float64 and in the storage an int.  Here an      *)
(* amount counts halves (1 is 0.5) and a total counts wholes; a total has  *)
(* the range of a Go int, of which MaxTotal stands for the largest.  The   *)
(* scope check and the binding of the body are in RequestPipeline.         *)
(*                                                                         *)
(* The handler timeout of the pipeline answers 503 and abandons a handler, *)
(* which goes on: nothing it calls takes the request's context.            *)
(***************************************************************************)
EXTENDS Integers, FiniteSets

CONSTANTS
    Request,     \* the requests that arrive
    Caller,      \* the subjects that send them
    Limit,       \* [Caller -> an approval_limit in halves, or None]
    Stored,      \* [id -> order]: what NewOrderRepository puts in the map
    UnknownId,   \* a number under which nothing is stored
    BadId,       \* a path value that is not a number
    Amounts,     \* the amounts bodies carry, in halves
    Statuses,    \* the status values bodies carry
    MaxTotal,    \* the largest int
    OutOfRange,  \* what the build makes of int(x) when x is out of range
    None

Ids == DOMAIN Stored
MinTotal == 0 - MaxTotal - 1

\* The largest int is no float64: what a body says there arrives rounded up.
\* The orders NewOrderRepository starts with have totals far below it.
ASSUME OrdersAssumption ==
    /\ MaxTotal \in Nat \ {0}
    /\ OutOfRange \in {MinTotal, MaxTotal}
    /\ Amounts \subseteq Nat \ {2 * MaxTotal, 2 * MaxTotal + 1}
    /\ Limit \in [Caller -> Int \cup {None}]
    /\ Stored = [i \in Ids |-> [owner |-> Stored[i].owner, total |-> Stored[i].total,
                                status |-> Stored[i].status]]
    /\ \A i \in Ids : Stored[i].total \in MinTotal .. (MaxTotal - 1)
    /\ None \notin Int /\ None \notin Request

VARIABLES
    orders,   \* the repository's map
    req,      \* [Request -> where its handler stands]
    alive,    \* the process has not been ended by the runtime
    writer    \* history: the request that last saved each order

orderVars == <<orders, req, alive, writer>>

approvedStatus == "approved"
Totals == MinTotal .. MaxTotal
Idle == [pc |-> "idle"]

OrdersInit ==
    /\ orders = Stored
    /\ req = [r \in Request |-> Idle]
    /\ alive = TRUE
    /\ writer = [i \in Ids |-> None]

-----------------------------------------------------------------------------
(* Conversions.                                                            *)

\* float64(total) in halves.  The largest int is no float64: it rounds up.
AsAmount(total) == IF total = MaxTotal THEN 2 * (MaxTotal + 1) ELSE 2 * total

\* int(x): the fraction is dropped; a value no int can hold gives what the
\* processor gives.
int(x) == IF x \div 2 \in Totals THEN x \div 2 ELSE OutOfRange

\* Mutant: the stored amount is shown in another unit than it is taken in.
ToOrderMinorUnits(m) == [owner |-> m.owner, amount |-> m.total, status |-> m.status]

ToOrder(m) == [owner |-> m.owner, amount |-> AsAmount(m.total), status |-> m.status]

-----------------------------------------------------------------------------
(* The map.  Another request inside a map assignment makes an access race. *)

Racing(r) == \E q \in Request \ {r} : req[q].pc = "writing"

\* The runtime detects the race and ends the process.
Fatal(r) ==
    /\ alive
    /\ req[r].pc \in {"find", "load", "save"}
    /\ Racing(r)
    /\ alive' = FALSE
    /\ UNCHANGED <<orders, req, writer>>

Goto(r, pc) == req' = [req EXCEPT ![r].pc = pc]

\* The handler returns.  An answer that comes after the timeout goes nowhere.
Answer(r, code) ==
    req' = [req EXCEPT ![r].pc = "done",
                       ![r].code = IF @ = None THEN code ELSE @]

\* The pipeline's Timeout passes: TimeoutResponse is the answer.
Timeout(r) ==
    /\ alive
    /\ req[r].pc \notin {"idle", "done"}
    /\ req[r].code = None
    /\ req' = [req EXCEPT ![r].code = "request_timeout"]
    /\ UNCHANGED <<orders, alive, writer>>

-----------------------------------------------------------------------------
(* The rules the declarations refer to.                                    *)

IsOwner(subject, order) == order.owner = subject

WithinApprovalLimit(limit, order) == order.amount <= limit

\* orderOwnerCheck on PUT, orderApprovalCheck on the approval: a caller whose
\* token carries no number as approval_limit is refused.
Allowed(q, order) ==
    \/ q.kind = "put" /\ IsOwner(q.by, order)
    \/ /\ q.kind = "approve"
       /\ Limit[q.by] # None
       /\ WithinApprovalLimit(Limit[q.by], order)

-----------------------------------------------------------------------------
(* A request.  It passed the scope check and its body is valid.            *)

Arrive(r) ==
    /\ alive
    /\ req[r] = Idle
    /\ \E by \in Caller, id \in Ids \cup {UnknownId, BadId} :
         \/ \E a \in Amounts, s \in Statuses :
              req' = [req EXCEPT ![r] =
                [pc |-> "find", kind |-> "put", by |-> by, id |-> id,
                 amount |-> a, status |-> s,
                 read |-> None, loaded |-> None, since |-> None, code |-> None]]
         \/ req' = [req EXCEPT ![r] =
                [pc |-> "find", kind |-> "approve", by |-> by, id |-> id,
                 amount |-> None, status |-> approvedStatus,
                 read |-> None, loaded |-> None, since |-> None, code |-> None]]
    /\ UNCHANGED <<orders, alive, writer>>

\* orderID, then the service's FindOrder.
FindOrder(r) ==
    /\ alive
    /\ req[r].pc = "find"
    /\ \/ req[r].id = BadId /\ Answer(r, "invalid_order_id")
       \/ req[r].id = UnknownId /\ Answer(r, "order_not_found")
       \/ /\ req[r].id \in Ids
          /\ req' = [req EXCEPT ![r].pc = "authorize",
                                ![r].read = ToOrder(orders[req[r].id]),
                                ![r].since = writer[req[r].id]]
    /\ UNCHANGED <<orders, alive, writer>>

\* Mutant: the handler builds the approval without the amount.
carryOverNothing(q) == [q EXCEPT !.pc = "load"]
\* What goes to UpdateOrder: PUT passes its body; the approval carries the
\* amount it has read over.
carryOver(q) ==
    [q EXCEPT !.pc = "load",
              !.amount = IF q.kind = "approve" THEN q.read.amount ELSE q.amount]

authorize(r) ==
    /\ alive
    /\ req[r].pc = "authorize"
    /\ \/ /\ Allowed(req[r], req[r].read)
          /\ req' = [req EXCEPT ![r] = carryOver(req[r])]
       \/ /\ ~Allowed(req[r], req[r].read)
          /\ Answer(r, "forbidden")
    /\ UNCHANGED <<orders, alive, writer>>

\* Mutant: a PUT adds to the amount instead of replacing it.
LoadAdds(r) ==
    /\ alive
    /\ req[r].pc = "load"
    /\ LET m == orders[req[r].id]
           before == IF req[r].kind = "put" THEN AsAmount(m.total) ELSE 0
       IN  req' = [req EXCEPT ![r].pc = "save",
                     ![r].loaded = [m EXCEPT !.total = int(before + req[r].amount),
                                             !.status = req[r].status]]
    /\ UNCHANGED <<orders, alive, writer>>
\* UpdateOrder: FindByID hands out a copy, which gets the new amount (a
\* missing one leaves it) and the new status.
Load(r) ==
    /\ alive
    /\ req[r].pc = "load"
    /\ LET m == orders[req[r].id]
           total == IF req[r].amount = None THEN m.total ELSE int(req[r].amount)
       IN  req' = [req EXCEPT ![r].pc = "save",
                     ![r].loaded = [m EXCEPT !.total = total,
                                             !.status = req[r].status]]
    /\ UNCHANGED <<orders, alive, writer>>

\* Save: the map assignment begins ...
BeginSave(r) ==
    /\ alive
    /\ req[r].pc = "save"
    /\ Goto(r, "writing")
    /\ UNCHANGED <<orders, alive, writer>>

\* ... and ends; the handler answers with the order it saved.
EndSave(r) ==
    /\ alive
    /\ req[r].pc = "writing"
    /\ orders' = [orders EXCEPT ![req[r].id] = req[r].loaded]
    /\ writer' = [writer EXCEPT ![req[r].id] = r]
    /\ Answer(r, "ok")
    /\ UNCHANGED alive

OrdersNext ==
    \E r \in Request :
        \/ Arrive(r)
        \/ FindOrder(r)
        \/ authorize(r)
        \/ Load(r)
        \/ BeginSave(r)
        \/ EndSave(r)
        \/ Timeout(r)
        \/ Fatal(r)

OrdersSpec == OrdersInit /\ [][OrdersNext]_orderVars

-----------------------------------------------------------------------------
(* Properties.                                                             *)

Owners == {Stored[i].owner : i \in Ids}
AllStatuses == Statuses \cup {approvedStatus} \cup {Stored[i].status : i \in Ids}

Order == [owner : Owners, total : Totals, status : AllStatuses]
Shown == [owner : Owners, amount : Int, status : AllStatuses]

Stages == {"find", "authorize", "load", "save", "writing", "done"}
Codes == {"invalid_order_id", "order_not_found", "forbidden", "ok", "request_timeout"}

Handling ==
    [pc : Stages, kind : {"put", "approve"}, by : Caller,
     id : Ids \cup {UnknownId, BadId}, amount : Int \cup {None},
     status : AllStatuses, read : Shown \cup {None}, loaded : Order \cup {None},
     since : Request \cup {None}, code : Codes \cup {None}]

\* Type invariant: the map holds every order it started with, each with a
\* total an int can hold, and a handler that is about to save has an order.
OrdersTypeOK ==
    /\ orders \in [Ids -> Order]
    /\ req \in [Request -> Handling \cup {Idle}]
    /\ alive \in BOOLEAN
    /\ writer \in [Ids -> Request \cup {None}]
    /\ \A r \in Request :
         req[r].pc \in {"save", "writing"} => req[r].loaded \in Order

\* However the handlers interleave, an order holds what somebody who might do it
\* wrote: a PUT of its owner, or an approval of an amount that the approver's
\* limit covers, also when the owner changes the amount between the check and
\* the save, because the approval writes back the amount the check was about.
LastWriteIsAuthorized ==
    \A i \in Ids :
        /\ orders[i].owner = Stored[i].owner
        /\ writer[i] # None =>
             LET q == req[writer[i]] IN
             CASE q.kind = "put" -> q.by = orders[i].owner
               [] q.kind = "approve" -> /\ Limit[q.by] # None
                                        /\ AsAmount(orders[i].total) <= Limit[q.by]

\* An approval during which nobody else wrote keeps the order's amount, whatever
\* amount is stored: the way out through float64 and back through int is exact
\* for every total a PUT can have stored.
AloneItKeepsTheAmount ==
    [][\A r \in Request :
         EndSave(r) /\ req[r].kind = "approve" /\ req[r].since = writer[req[r].id]
           => orders'[req[r].id].total = orders[req[r].id].total]_orderVars

\* A PUT may be sent again after a timeout: when the requests for an order are
\* one PUT sent several times and one of them was answered with the order, the
\* order holds what the body says, however late the abandoned handlers finish.
RetriedPutIsOnePut ==
    \A r \in Request :
        LET Same(q) == /\ q.kind = "put" /\ q.amount = req[r].amount
                       /\ q.status = req[r].status
        IN  /\ req[r].pc = "done" /\ req[r].code = "ok"
            /\ \A q \in Request :
                 req[q] # Idle => req[q].id # req[r].id \/ Same(req[q])
            => /\ orders[req[r].id].total = int(req[r].amount)
               /\ orders[req[r].id].status = req[r].status

\* What the repository's tests say of every approval, whatever happened in
\* between: it keeps the order's amount.
KeepsTheAmount ==
    [][\A r \in Request :
         EndSave(r) /\ req[r].kind = "approve"
           => orders'[req[r].id].total = orders[req[r].id].total]_orderVars

\* What PUT documents: it replaces the order's amount, by the one in its body.
AmountIsReplaced ==
    \A i \in Ids :
        writer[i] # None /\ req[writer[i]].kind = "put"
          => AsAmount(orders[i].total) = req[writer[i]].amount
=============================================================================
