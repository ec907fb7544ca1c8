---------------------------- MODULE AppLifecycle ----------------------------
(***************************************************************************)
(* How a server or scheduler process is put together, started and stopped: *)
(* dikit.ProvideAndRun over the hooks that the infrastructure and the apps *)
(* hang off the lifecycle.                                                 *)
(*                                                                         *)
(* fx is a library.  It resolves the invocations one after the other, each *)
(* one's parameters first and left to right, so that hooks are appended in *)
(* the order the constructors run; starts hooks in that order; stops the   *)
(* ones that started in the reverse order, going on after an error; gives  *)
(* a failed start's hooks the same treatment under the same context; and   *)
(* gives up when the context of the start or the stop ends.                *)
(*                                                                         *)
(* Only components with a hook are listed.  A component's parameters are   *)
(* the hooked components it reaches, through services and repositories     *)
(* that hold no hook, which are also the ones its handlers use.            *)
(***************************************************************************)
EXTENDS Integers, Sequences

CONSTANTS
    Component,
    Kind,           \* Kind[c]: which constructor provides c
    Params,         \* Params[c]: what c's constructor asks for, in order
    Programs,       \* per program, what it hands to dikit.AppendInvocations, in order
    Timeout,        \* app.StartTimeout and app.StopTimeout, in ticks
    GracefulStopTimeout,    \* 0: not configured
    Subscriptions,  \* declared subscriptions
    Tasks,          \* declared scheduled tasks
    MaxInFlight,    \* bound on the work in flight per server
    NoCode

VARIABLES
    invocations, \* dikit.invocations, as the program that runs filled it
    phase,      \* where ProvideAndRun is
    stack,      \* constructors being resolved, innermost last
    built,      \* hooks appended so far
    pos,        \* pos[c]: the place of c's hook, 0 before it is appended
    numStarted, \* fx: hooks 1..numStarted have started and not been stopped
    budget,     \* ticks left of the start or the stop context
    st,         \* st[c]: what c holds: "off", "up", and on its way down
    goroutine,  \* goroutine[c]: the one that runs Serve for c
    inflight,   \* inflight[c]: requests, calls, jobs or messages c is serving
    sockets,    \* WebSocket connections whose context is alive
    grace,      \* ticks left of the gRPC grace period
    subscribed, \* subscriptions started
    registered, \* scheduled tasks registered
    last,       \* fx: the shutdown signal nobody has taken yet, as its code
    sig,        \* the signal ProvideAndRun took
    stopErr,    \* some stop hook answered an error
    fault,      \* history: something the exit code must tell
    exit        \* the process's exit code

buildVars == <<invocations, stack, built, pos, registered>>
workVars  == <<inflight, sockets>>
sigVars   == <<last, sig>>
vars == <<phase, buildVars, numStarted, budget, st, goroutine, workVars, grace,
          subscribed, sigVars, stopErr, fault, exit>>

-----------------------------------------------------------------------------
(* The constructors: what each one's hook does.                            *)
(*   early: the constructor itself opens something                         *)
(*   dials: OnStart opens the connection before it checks it               *)
(*   check: OnStart can fail                                               *)

Hook(early, dials, check) == [early |-> early, dials |-> dials, check |-> check]

newRedisClient         == Hook(FALSE, FALSE, TRUE)
NewDefaultCache        == Hook(TRUE, FALSE, TRUE)    \* otter's goroutines
appendDBHooks          == Hook(FALSE, FALSE, TRUE)
NewKeyStoreDB          == Hook(FALSE, FALSE, TRUE)
NewDefaultStorage      == Hook(TRUE, FALSE, TRUE)    \* the local disk's directory
NewUserPostConnection  == Hook(TRUE, FALSE, FALSE)
NewPublisherConnection == Hook(FALSE, TRUE, TRUE)
NewSubscriberConnection == Hook(FALSE, TRUE, TRUE)

Connections ==
    [redis |-> newRedisClient, cache |-> NewDefaultCache, db |-> appendDBHooks,
     keydb |-> NewKeyStoreDB, storage |-> NewDefaultStorage,
     grpcclt |-> NewUserPostConnection, publisher |-> NewPublisherConnection,
     subscriber |-> NewSubscriberConnection]

ConnKinds   == DOMAIN Connections
ServerKinds == {"http", "grpc"}
WorkKinds   == ServerKinds \cup {"worker", "scheduler", "subscriptions"}
Kinds       == ConnKinds \cup WorkKinds \cup {"root", "ready"}

ASSUME ConstantsAssumption ==
    /\ Kind \in [Component -> Kinds]
    /\ Params \in [Component -> Seq(Component)]
    /\ Programs \subseteq Seq(Component)
    /\ Timeout \in Nat \ {0}
    /\ GracefulStopTimeout \in Nat
    /\ Subscriptions \in Nat /\ Tasks \in Nat /\ MaxInFlight \in Nat
    /\ NoCode \notin {0, 1}

\* server.Run invokes StartSubscriptions once, and its subscribe function comes
\* with the subscriber's connection.
ASSUME SubscriptionsAssumption ==
    \A c \in Component : Kind[c] = "subscriptions" =>
        /\ \A d \in Component : Kind[d] = "subscriptions" => c = d
        /\ \E i \in DOMAIN Params[c] : Kind[Params[c][i]] = "subscriber"

Conn(c) == Kind[c] \in ConnKinds

Phases == {"building", "starting", "rollback", "waiting", "stopping", "exited"}
Stages == {"off", "up", "silenced", "closing", "down"}

TypeOK ==
    /\ invocations \in Programs /\ phase \in Phases
    /\ stack \in Seq(Component)
    /\ built \in Nat /\ pos \in [Component -> Nat]
    /\ numStarted \in Nat /\ numStarted <= built
    /\ budget \in 0..Timeout
    /\ grace \in 0..GracefulStopTimeout
    /\ st \in [Component -> Stages]
    /\ goroutine \in [Component -> {"none", "launched", "serving", "returned"}]
    /\ inflight \in [Component -> 0..MaxInFlight]
    /\ sockets \in 0..MaxInFlight
    /\ subscribed \in 0..Subscriptions /\ registered \in 0..Tasks
    /\ last \in {NoCode, 0, 1} /\ sig \in {NoCode, 0, 1}
    /\ stopErr \in BOOLEAN /\ fault \in BOOLEAN
    /\ exit \in {NoCode, 0, 1}

Init ==
    /\ invocations \in Programs
    /\ phase = "building" /\ stack = <<>> /\ built = 0
    /\ pos = [c \in Component |-> 0]
    /\ numStarted = 0 /\ budget = Timeout
    /\ grace = GracefulStopTimeout
    /\ st = [c \in Component |-> "off"]
    /\ goroutine = [c \in Component |-> "none"]
    /\ inflight = [c \in Component |-> 0] /\ sockets = 0
    /\ subscribed = 0 /\ registered = 0
    /\ last = NoCode /\ sig = NoCode
    /\ stopErr = FALSE /\ fault = FALSE /\ exit = NoCode

End(code) == phase' = "exited" /\ exit' = code

-----------------------------------------------------------------------------
(* Building the graph *)

\* The first of a list that no constructor has provided yet.
Missing(list) == {i \in DOMAIN list : pos[list[i]] = 0}
FirstMissing(list) ==
    list[CHOOSE i \in Missing(list) : \A j \in Missing(list) : i <= j]

Invoke ==
    /\ phase = "building" /\ stack = <<>> /\ Missing(invocations) # {}
    /\ stack' = <<FirstMissing(invocations)>>
    /\ UNCHANGED <<invocations, phase, built, pos, registered, numStarted, budget, st,
                   goroutine, workVars, grace, subscribed, sigVars, stopErr, fault, exit>>

Top == stack[Len(stack)]

Resolve ==
    /\ phase = "building" /\ stack # <<>> /\ Missing(Params[Top]) # {}
    /\ stack' = Append(stack, FirstMissing(Params[Top]))
    /\ UNCHANGED <<invocations, phase, built, pos, registered, numStarted, budget, st,
                   goroutine, workVars, grace, subscribed, sigVars, stopErr, fault, exit>>

\* RegisterTasks stops at the first schedule it cannot read, and NewSchedulerApp
\* drops its error.
RegisterTasks == 0..Tasks

Opens(c) ==
    \/ Kind[c] = "root"
    \/ Conn(c) /\ Connections[Kind[c]].early

\* The innermost constructor has what it asks for: it runs and appends a hook.
Construct ==
    /\ phase = "building" /\ stack # <<>> /\ Missing(Params[Top]) = {}
    /\ built' = built + 1
    /\ pos' = [pos EXCEPT ![Top] = built + 1]
    /\ st' = [st EXCEPT ![Top] = IF Opens(Top) THEN "up" ELSE "off"]
    /\ IF Kind[Top] = "scheduler" THEN registered' \in RegisterTasks
                                  ELSE UNCHANGED registered
    /\ stack' = SubSeq(stack, 1, Len(stack) - 1)
    /\ UNCHANGED <<invocations, phase, numStarted, budget, goroutine, workVars,
                   grace, subscribed, sigVars, stopErr, fault, exit>>

\* A constructor or an invocation answers an error: Start reports it without
\* having started, or stopped, anything.
ConstructFails ==
    /\ phase = "building" /\ stack # <<>> /\ Missing(Params[Top]) = {}
    /\ End(1) /\ fault' = TRUE
    /\ UNCHANGED <<buildVars, numStarted, budget, st, goroutine, workVars, grace,
                   subscribed, sigVars, stopErr>>

GraphBuilt ==
    /\ phase = "building" /\ stack = <<>> /\ Missing(invocations) = {}
    /\ phase' = "starting" /\ budget' = Timeout
    /\ UNCHANGED <<buildVars, numStarted, st, goroutine, workVars, grace,
                   subscribed, sigVars, stopErr, fault, exit>>

-----------------------------------------------------------------------------
(* Start hooks *)

Starting(c) == phase = "starting" /\ budget > 0 /\ pos[c] = numStarted + 1

startFrame == <<buildVars, budget, workVars, grace, sigVars, stopErr, exit>>

\* The hook answered nil.
HookStarted == numStarted' = numStarted + 1 /\ UNCHANGED <<phase, fault>>

\* Mutant: the error ends the start and nothing is rolled back.
HookFailedAlone == phase' = "rollback" /\ fault' = TRUE /\ numStarted' = 0

\* The hook answered an error: fx stops the hooks that had started.
HookFailed == phase' = "rollback" /\ fault' = TRUE /\ UNCHANGED numStarted

StartConn(c) ==
    /\ Conn(c) /\ Starting(c)
    /\ HookStarted
    /\ st' = [st EXCEPT ![c] = "up"]
    /\ UNCHANGED <<startFrame, goroutine, subscribed>>

\* The check fails.  Where OnStart dials first, the connection may be open.
StartConnFails(c) ==
    /\ Conn(c) /\ Starting(c) /\ Connections[Kind[c]].check
    /\ HookFailed
    /\ \E s \in {st[c]} \cup (IF Connections[Kind[c]].dials THEN {"up"} ELSE {}) :
          st' = [st EXCEPT ![c] = s]
    /\ UNCHANGED <<startFrame, goroutine, subscribed>>

\* ProvideRootContext registers no OnStart.
StartRoot(c) ==
    /\ Kind[c] = "root" /\ Starting(c)
    /\ HookStarted
    /\ UNCHANGED <<startFrame, st, goroutine, subscribed>>

\* The key store's Ready: the table can be read, or the start fails.
Ready(c) ==
    /\ Kind[c] = "ready" /\ Starting(c)
    /\ HookStarted \/ HookFailed
    /\ UNCHANGED <<startFrame, st, goroutine, subscribed>>

\* Launches the goroutine that listens, and answers nil.
StartHTTP(c) ==
    /\ Kind[c] = "http" /\ Starting(c)
    /\ HookStarted
    /\ st' = [st EXCEPT ![c] = "up"]
    /\ goroutine' = [goroutine EXCEPT ![c] = "launched"]
    /\ UNCHANGED <<startFrame, subscribed>>

\* Listens, and only then launches the goroutine that serves.
StartGRPC(c) ==
    /\ Kind[c] = "grpc" /\ Starting(c)
    /\ \/ /\ HookStarted
          /\ st' = [st EXCEPT ![c] = "up"]
          /\ goroutine' = [goroutine EXCEPT ![c] = "launched"]
       \/ HookFailed /\ UNCHANGED <<st, goroutine>>
    /\ UNCHANGED <<startFrame, subscribed>>

StartWorker(c) ==
    /\ Kind[c] = "worker" /\ Starting(c)
    /\ HookStarted
    /\ st' = [st EXCEPT ![c] = "up"]
    /\ goroutine' = [goroutine EXCEPT ![c] = "serving"]
    /\ UNCHANGED <<startFrame, subscribed>>

StartScheduler(c) ==
    /\ Kind[c] = "scheduler" /\ Starting(c)
    /\ \/ /\ HookStarted
          /\ st' = [st EXCEPT ![c] = "up"]
          /\ goroutine' = [goroutine EXCEPT ![c] = "serving"]
       \/ HookFailed /\ UNCHANGED <<st, goroutine>>
    /\ UNCHANGED <<startFrame, subscribed>>

\* StartSubscriptions: one subscription after the other, up to the first error.
StartSubscriptions(c) ==
    /\ Kind[c] = "subscriptions" /\ Starting(c)
    /\ IF subscribed = Subscriptions
       THEN HookStarted /\ UNCHANGED <<st, subscribed>>
       ELSE \/ /\ subscribed' = subscribed + 1
               /\ st' = [st EXCEPT ![c] = "up"]
               /\ UNCHANGED <<phase, numStarted, fault>>
            \/ HookFailed /\ UNCHANGED <<st, subscribed>>
    /\ UNCHANGED <<startFrame, goroutine>>

\* Every hook has started: ProvideAndRun goes on to app.Wait().
StartReturns ==
    /\ phase = "starting" /\ budget > 0 /\ numStarted = built
    /\ phase' = "waiting"
    /\ UNCHANGED <<startFrame, numStarted, st, goroutine, subscribed, fault>>

-----------------------------------------------------------------------------
(* A process that has started *)

Living == phase # "exited"

\* Mutant: Shutdown is asked for without an exit code.
ShutdownWithoutCode ==
    /\ last' = IF last = NoCode THEN 0 ELSE last
    /\ fault' = (fault \/ (last = NoCode /\ sig = NoCode))

\* Mutant: the goroutine logs the error and ends.
ShutdownForgotten == last' = last /\ fault' = fault

\* Shutdowner.Shutdown(ExitCode(1)).  fx keeps a signal until somebody waits for
\* it and hands over the first; one sent after that reaches nobody.
Shutdown ==
    /\ last' = IF last = NoCode THEN 1 ELSE last
    /\ fault' = (fault \/ (last = NoCode /\ sig = NoCode))

serveFrame == <<phase, buildVars, numStarted, budget, st, grace, subscribed, sig,
                stopErr, exit>>

\* The goroutine reaches Serve.  One whose server was stopped first is told so:
\* for HTTP that is ErrServerClosed, for gRPC it is an error like any other.
Serve(c) ==
    /\ Living /\ goroutine[c] = "launched"
    /\ IF st[c] \in {"closing", "down"}
       THEN /\ goroutine' = [goroutine EXCEPT ![c] = "returned"]
            /\ IF Kind[c] = "grpc" THEN Shutdown ELSE UNCHANGED <<last, fault>>
       ELSE /\ goroutine' = [goroutine EXCEPT ![c] = "serving"]
            /\ UNCHANGED <<last, fault>>
    /\ UNCHANGED <<serveFrame, workVars>>

\* The port cannot be bound (HTTP), or accepting fails later on (both).
ServeFails(c) ==
    /\ Living /\ Kind[c] \in ServerKinds
    /\ goroutine[c] = "serving" \/ (Kind[c] = "http" /\ goroutine[c] = "launched")
    /\ st[c] \in {"up", "silenced"}
    /\ goroutine' = [goroutine EXCEPT ![c] = "returned"]
    /\ Shutdown
    /\ UNCHANGED <<serveFrame, workVars>>

\* A subscription delivers while its connection is open and its context alive.
Delivering(c) ==
    /\ Kind[c] = "subscriptions" /\ subscribed > 0
    /\ \A i \in DOMAIN Params[c] :
          Kind[Params[c][i]] \in {"root", "subscriber"} => st[Params[c][i]] = "up"

Accepting(c) ==
    \/ goroutine[c] = "serving" /\ st[c] \in {"up", "silenced"}
    \/ Delivering(c)

\* c takes on a request, a call, a job, a task or a message.
Begin(c) ==
    /\ Living /\ inflight[c] < MaxInFlight /\ Accepting(c)
    /\ inflight' = [inflight EXCEPT ![c] = @ + 1]
    /\ UNCHANGED <<serveFrame, goroutine, sockets, last, fault>>

Finish(c) ==
    /\ Living /\ inflight[c] > 0
    /\ inflight' = [inflight EXCEPT ![c] = @ - 1]
    /\ UNCHANGED <<serveFrame, goroutine, sockets, last, fault>>

\* A request becomes a WebSocket: http.Server no longer knows the connection.
\* Once wsRouter.Shutdown has run, the context of a new one is cancelled from the
\* start, and it is not counted.
Upgrade(c) ==
    /\ Living /\ Kind[c] = "http" /\ inflight[c] > 0 /\ sockets < MaxInFlight
    /\ inflight' = [inflight EXCEPT ![c] = @ - 1]
    /\ sockets' = IF st[c] = "up" THEN sockets + 1 ELSE sockets
    /\ UNCHANGED <<serveFrame, goroutine, last, fault>>

SocketCloses ==
    /\ Living /\ sockets > 0 /\ sockets' = sockets - 1
    /\ UNCHANGED <<serveFrame, goroutine, inflight, last, fault>>

\* SIGINT or SIGTERM, which fx turns into a signal with code 0.
OSSignal ==
    /\ phase = "waiting" /\ last = NoCode
    /\ last' = 0
    /\ UNCHANGED <<serveFrame, goroutine, workVars, fault>>

\* sig := <-app.Wait()
TakeSignal ==
    /\ phase = "waiting" /\ last # NoCode
    /\ phase' = "stopping" /\ sig' = last /\ budget' = Timeout
    /\ UNCHANGED <<buildVars, numStarted, st, goroutine, workVars, grace,
                   subscribed, last, stopErr, fault, exit>>

-----------------------------------------------------------------------------
(* Stop hooks *)

Stopping(c) ==
    /\ phase \in {"stopping", "rollback"} /\ budget > 0
    /\ numStarted > 0 /\ pos[c] = numStarted

stopFrame == <<phase, buildVars, budget, goroutine, subscribed, sigVars, exit>>

HookStopped(c) ==
    /\ numStarted' = numStarted - 1
    /\ st' = [st EXCEPT ![c] = "down"]

\* Close answers nil or an error, and fx goes on either way.
StopConn(c) ==
    /\ Conn(c) /\ Stopping(c)
    /\ HookStopped(c)
    /\ stopErr' \in {stopErr, TRUE}
    /\ fault' = (fault \/ stopErr')
    /\ UNCHANGED <<stopFrame, workVars, grace>>

\* Cancels the root context.
StopRoot(c) ==
    /\ Kind[c] = "root" /\ Stopping(c)
    /\ HookStopped(c)
    /\ UNCHANGED <<stopFrame, workVars, grace, stopErr, fault>>

\* No OnStop: nothing ends the subscriptions but their connection and context.
StopQuiet(c) ==
    /\ Kind[c] \in {"ready", "subscriptions"} /\ Stopping(c)
    /\ numStarted' = numStarted - 1
    /\ UNCHANGED <<stopFrame, st, workVars, grace, stopErr, fault>>

\* wsRouter.Shutdown: the context of every connection is cancelled.
CloseWebSockets(c) ==
    /\ Kind[c] = "http" /\ Stopping(c) /\ st[c] = "up"
    /\ st' = [st EXCEPT ![c] = "silenced"] /\ sockets' = 0
    /\ UNCHANGED <<stopFrame, numStarted, inflight, grace, stopErr, fault>>

\* srv.Shutdown(ctx): no more requests, and a wait for the ones in flight.
ShutdownHTTP(c) ==
    /\ Kind[c] = "http" /\ Stopping(c) /\ st[c] = "silenced"
    /\ st' = [st EXCEPT ![c] = "closing"]
    /\ UNCHANGED <<stopFrame, numStarted, workVars, grace, stopErr, fault>>

\* workerCancel and w.Shutdown(ctx): no more jobs.
ShutdownWorker(c) ==
    /\ Kind[c] = "worker" /\ Stopping(c) /\ st[c] = "up"
    /\ st' = [st EXCEPT ![c] = "closing"]
    /\ UNCHANGED <<stopFrame, numStarted, workVars, grace, stopErr, fault>>

ShutdownScheduler(c) ==
    /\ Kind[c] = "scheduler" /\ Stopping(c) /\ st[c] = "up"
    /\ st' = [st EXCEPT ![c] = "closing"]
    /\ UNCHANGED <<stopFrame, numStarted, workVars, grace, stopErr, fault>>

\* GracefulStop in a goroutine of its own, under the grace period if there is one.
ShutdownGRPC(c) ==
    /\ Kind[c] = "grpc" /\ Stopping(c) /\ st[c] = "up"
    /\ st' = [st EXCEPT ![c] = "closing"]
    /\ grace' = GracefulStopTimeout
    /\ UNCHANGED <<stopFrame, numStarted, workVars, stopErr, fault>>

\* Mutant: Close instead of Shutdown, which waits for nothing.
DrainedAtOnce(c) ==
    /\ Kind[c] \in WorkKinds /\ Stopping(c) /\ st[c] = "closing"
    /\ HookStopped(c)
    /\ UNCHANGED <<stopFrame, workVars, grace, stopErr, fault>>

\* What was in flight has finished: the shutdown returns.
Drained(c) ==
    /\ Kind[c] \in WorkKinds /\ Stopping(c) /\ st[c] = "closing" /\ inflight[c] = 0
    /\ HookStopped(c)
    /\ UNCHANGED <<stopFrame, workVars, grace, stopErr, fault>>

DrainingGRPC(c) == Kind[c] = "grpc" /\ Stopping(c) /\ st[c] = "closing"

\* The context of the grace period, inside the lifecycle's own.
GraceElapsed == GracefulStopTimeout > 0 /\ grace = 0

\* ctx.Done comes first: grpcSrv.Stop() cancels what is in flight.
GraceOver(c) ==
    /\ DrainingGRPC(c) /\ GraceElapsed
    /\ HookStopped(c)
    /\ inflight' = [inflight EXCEPT ![c] = 0]
    /\ UNCHANGED <<stopFrame, sockets, grace, stopErr, fault>>

\* Every hook is stopped.  A failed shutdown outranks the code asked for.
StopReturns ==
    /\ phase \in {"stopping", "rollback"} /\ budget > 0 /\ numStarted = 0
    /\ End(IF phase = "rollback" \/ stopErr \/ sig = 1 THEN 1 ELSE 0)
    /\ UNCHANGED <<buildVars, numStarted, budget, st, goroutine, workVars, grace,
                   subscribed, sigVars, stopErr, fault>>

\* Mutant: the error of app.Stop is dropped.
DeadlineExceededIgnored ==
    /\ phase \in {"starting", "rollback", "stopping"} /\ budget = 0
    /\ End(IF sig = NoCode THEN 1 ELSE sig)
    /\ fault' = (fault \/ sig # 0)
    /\ UNCHANGED <<buildVars, numStarted, budget, st, goroutine, workVars,
                   grace, subscribed, sigVars, stopErr>>

\* The context of the start or of the stop has ended: fx answers its error, and
\* the hooks that are left are not stopped.
DeadlineExceeded ==
    /\ phase \in {"starting", "rollback", "stopping"} /\ budget = 0
    /\ End(1) /\ fault' = TRUE
    /\ UNCHANGED <<buildVars, numStarted, budget, st, goroutine, workVars, grace,
                   subscribed, sigVars, stopErr>>

\* Time passes; a timer that is due fires first.
Tick ==
    /\ phase \in {"starting", "rollback", "stopping"} /\ budget > 0
    /\ ~\E c \in Component : DrainingGRPC(c) /\ GraceElapsed
    /\ budget' = budget - 1
    /\ grace' = IF grace > 0 /\ (\E c \in Component : DrainingGRPC(c))
                THEN grace - 1 ELSE grace
    /\ UNCHANGED <<phase, buildVars, numStarted, st, goroutine, workVars,
                   subscribed, sigVars, stopErr, fault, exit>>

-----------------------------------------------------------------------------

Build == Invoke \/ Resolve \/ Construct \/ ConstructFails \/ GraphBuilt

StartHook(c) ==
    \/ StartConn(c) \/ StartConnFails(c) \/ StartRoot(c) \/ Ready(c)
    \/ StartHTTP(c) \/ StartGRPC(c) \/ StartWorker(c) \/ StartScheduler(c)
    \/ StartSubscriptions(c)

StopHook(c) ==
    \/ StopConn(c) \/ StopRoot(c) \/ StopQuiet(c)
    \/ CloseWebSockets(c) \/ ShutdownHTTP(c) \/ ShutdownWorker(c)
    \/ ShutdownScheduler(c) \/ ShutdownGRPC(c) \/ Drained(c) \/ GraceOver(c)

\* The steps of ProvideAndRun itself.
Run ==
    \/ Build \/ StartReturns \/ TakeSignal \/ StopReturns \/ DeadlineExceeded
    \/ \E c \in Component : StartHook(c) \/ StopHook(c)

\* What goes on beside it.
Work ==
    \/ \E c \in Component :
          Serve(c) \/ ServeFails(c) \/ Begin(c) \/ Finish(c) \/ Upgrade(c)
    \/ SocketCloses \/ OSSignal

Next == Run \/ Work \/ Tick

\* Handlers may never finish and nobody has to send a signal: only the steps of
\* ProvideAndRun and the passing of time are sure to happen.
Spec == Init /\ [][Next]_vars /\ WF_vars(Run) /\ WF_vars(Tick)

-----------------------------------------------------------------------------
(* Properties *)

\* What c asks for that its handlers talk to.
Uses(c) ==
    {Params[c][i] : i \in {j \in DOMAIN Params[c] :
        Kind[Params[c][j]] \in (ConnKinds \ {"subscriber"}) \cup {"worker"}}}

\* The work knows it is to end: its context has been cancelled.
Told(c) ==
    Kind[c] = "subscriptions"
        /\ \E i \in DOMAIN Params[c] :
              Kind[Params[c][i]] = "root" /\ st[Params[c][i]] = "down"

\* c serves something that has not been told to end: a request, call, job, task or
\* message, or a WebSocket.
AtWork(c) ==
    \/ inflight[c] > 0 /\ ~Told(c)
    \/ Kind[c] = "http" /\ pos[c] > 0 /\ sockets > 0

\* Nothing is closed, in a stop or in the rollback of a failed start, under work
\* that has not been told to end: while a request, call, job, message or WebSocket
\* is being served, every connection its handlers use is open.
WorkHasItsInfra ==
    Living => \A c \in Component : AtWork(c) => \A d \in Uses(c) : st[d] = "up"

\* A process that leaves with 0 has stopped everything: no connection is open, no
\* server or subscription takes work.
CleanExitIsClean ==
    exit = 0 => \A c \in Component : ~Accepting(c) /\ (Conn(c) => st[c] # "up")

\* A start that failed half way leaves nothing at work: once the hooks that had
\* started are rolled back, no server accepts and no subscription of the ones
\* that did start still receives.
FailedStartIsUndone ==
    exit # NoCode /\ numStarted = 0 => \A c \in Component : ~Accepting(c)

\* A server that dies after its start hook answered nil takes the process with it.
DeadServerEndsProcess ==
    (\E c \in Component : Kind[c] \in ServerKinds /\ goroutine[c] = "returned")
        ~> (phase = "exited")

status ==
    IF phase \in {"building", "starting", "rollback"} THEN "starting"
    ELSE IF phase = "waiting" THEN "running" ELSE phase

Supervised == INSTANCE SupervisedProcess WITH trouble <- fault, code <- exit

\* The exit code tells the supervisor whether anything went wrong: a failed start,
\* a server that died before a stop was asked for, a failed stop.
SupervisorPromise == Supervised!Spec

\* What http.go says of returning an error instead of log.Fatal: "the lifecycle
\* still gets to stop what had already started - os.Exit would leave the
\* connections opened before this point unclosed".
FailedBuildCloses ==
    exit # NoCode /\ stack # <<>> => \A c \in Component : Conn(c) => st[c] # "up"

\* README.md, "Failing at startup": something wrong at startup is a returned
\* error, so a process that has started has all its scheduled tasks.
StartedHasAllTasks ==
    phase = "waiting" =>
        \A c \in Component : Kind[c] = "scheduler" => registered = Tasks

=============================================================================
