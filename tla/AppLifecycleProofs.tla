------------------------- MODULE AppLifecycleProofs -------------------------
(***************************************************************************)
(* What ProvideAndRun guarantees for any set of components and parameters, *)
(* any program, any timeouts and any amount of work: the exit code tells   *)
(* the truth, a process that leaves with 0 has closed what it opened, a    *)
(* start that is rolled back leaves nothing at work, and nothing is closed *)
(* under work that has not been told to end.                               *)
(*                                                                         *)
(* FaultOK carries the first.  The others rest on the places of the hooks: *)
(* no two hooks share one, a component's parameters have smaller ones, and *)
(* what a component holds is known from its place and from how many hooks  *)
(* are started.                                                            *)
(***************************************************************************)
EXTENDS AppLifecycle, SequenceTheorems, WellFoundedInduction, TLAPS

\* The phases in which nothing has been stopped yet.
Upward == {"building", "starting", "waiting"}

ServingKinds == ServerKinds \cup {"worker", "scheduler"}

\* Components whose stop hook leaves what they hold alone.
QuietKinds == {"ready", "subscriptions"}

\* What fx and the exit code know of the trouble there was.
FaultOK ==
    /\ phase \in Phases /\ last \in {NoCode, 0, 1} /\ sig \in {NoCode, 0, 1}
    /\ stopErr \in BOOLEAN /\ fault \in BOOLEAN
    /\ phase \in Upward => sig = NoCode /\ stopErr = FALSE /\ (fault = TRUE <=> last = 1)
    /\ phase = "rollback" => fault = TRUE
    /\ phase = "stopping" =>
          last # NoCode /\ sig = last /\ (fault = TRUE <=> stopErr = TRUE \/ sig = 1)
    /\ exit = NoCode <=> phase # "exited"
    /\ exit \in {NoCode, 0, 1}

-----------------------------------------------------------------------------
(* The exit code *)

\* No exit code is taken for "still running".
LEMMA Codes == NoCode # 0 /\ NoCode # 1
  BY ConstantsAssumption

\* The step that sends no signal and ends nothing, as the supervisor sees it.
Unseen == UNCHANGED <<status, fault, exit>>

\* A component's own start or stop hook keeps what is known of the trouble, and
\* is to the supervisor nothing or trouble.
LEMMA HookFault ==
  ASSUME NEW c \in Component, FaultOK, StartHook(c) \/ StopHook(c)
  PROVE  FaultOK' /\ (Unseen \/ Supervised!Trouble)
<1> USE Codes DEF FaultOK, Upward, Phases, Unseen, status, Supervised!Trouble,
        Supervised!Alive, sigVars
<1>1. CASE StartHook(c)
  <2> USE DEF startFrame, Starting, HookStarted, HookFailed
  <2>1. CASE StartConn(c) \/ StartRoot(c) \/ StartHTTP(c) \/ StartWorker(c)
    BY <2>1 DEF StartConn, StartRoot, StartHTTP, StartWorker
  <2>2. CASE StartConnFails(c)
    BY <2>2 DEF StartConnFails
  <2>3. CASE Ready(c)
    BY <2>3 DEF Ready
  <2>4. CASE StartGRPC(c) \/ StartScheduler(c)
    BY <2>4 DEF StartGRPC, StartScheduler
  <2>5. CASE StartSubscriptions(c)
    BY <2>5 DEF StartSubscriptions
  <2> QED BY <1>1, <2>1, <2>2, <2>3, <2>4, <2>5 DEF StartHook
<1>2. CASE StopHook(c)
  <2> USE DEF stopFrame, Stopping
  <2>1. CASE StopConn(c)
    BY <2>1 DEF StopConn
  <2>2. CASE StopRoot(c) \/ StopQuiet(c) \/ Drained(c) \/ GraceOver(c)
    BY <2>2 DEF StopRoot, StopQuiet, Drained, GraceOver, DrainingGRPC
  <2>3. CASE CloseWebSockets(c) \/ ShutdownHTTP(c) \/ ShutdownWorker(c)
              \/ ShutdownScheduler(c) \/ ShutdownGRPC(c)
    BY <2>3 DEF CloseWebSockets, ShutdownHTTP, ShutdownWorker, ShutdownScheduler,
                ShutdownGRPC
  <2> QED BY <1>2, <2>1, <2>2, <2>3 DEF StopHook
<1> QED BY <1>1, <1>2

\* The goroutines that serve and the work in flight may bring trouble and no more.
LEMMA WorkFault ==
  ASSUME FaultOK, Work
  PROVE  FaultOK' /\ (Unseen \/ Supervised!Trouble)
<1> USE Codes DEF FaultOK, Upward, Phases, Unseen, status, Supervised!Trouble,
        Supervised!Alive, Living, serveFrame
<1>1. ASSUME NEW c \in Component, Serve(c) \/ ServeFails(c)
      PROVE  FaultOK' /\ (Unseen \/ Supervised!Trouble)
  BY <1>1 DEF Serve, ServeFails, Shutdown
<1>2. ASSUME NEW c \in Component, Begin(c) \/ Finish(c) \/ Upgrade(c)
      PROVE  FaultOK' /\ (Unseen \/ Supervised!Trouble)
  BY <1>2 DEF Begin, Finish, Upgrade
<1>3. CASE SocketCloses \/ OSSignal
  BY <1>3 DEF SocketCloses, OSSignal
<1> QED BY <1>1, <1>2, <1>3 DEF Work

\* The steps of ProvideAndRun itself are steps the supervisor expects.
LEMMA RunFault ==
  ASSUME FaultOK,
         Build \/ StartReturns \/ TakeSignal \/ StopReturns \/ DeadlineExceeded \/ Tick
  PROVE  FaultOK' /\ (Unseen \/ Supervised!Next)
<1> USE Codes DEF FaultOK, Upward, Phases, Unseen, status, Supervised!Next,
        Supervised!Alive, sigVars, buildVars
<1>1. CASE Build
  BY <1>1 DEF Build, Invoke, Resolve, Construct, ConstructFails, GraphBuilt, End,
              Supervised!Exit
<1>2. CASE StartReturns \/ TakeSignal
  BY <1>2 DEF StartReturns, TakeSignal, startFrame, Supervised!Start, Supervised!AskStop
<1>3. CASE StopReturns \/ DeadlineExceeded
  BY <1>3 DEF StopReturns, DeadlineExceeded, End, Supervised!Exit
<1>4. CASE Tick
  BY <1>4 DEF Tick
<1> QED BY <1>1, <1>2, <1>3, <1>4

\* Every step of the lifecycle is a step of the supervised process, or unseen.
LEMMA FaultStep ==
  ASSUME FaultOK, [Next]_vars
  PROVE  FaultOK' /\ [Supervised!Next]_(Supervised!vars)
<1>1. CASE UNCHANGED vars
  BY <1>1 DEF vars, sigVars, FaultOK, Supervised!vars, status
<1>2. CASE Next
  <2>1. FaultOK' /\ (Unseen \/ Supervised!Next)
    BY <1>2, HookFault, WorkFault, RunFault DEF Next, Run, Supervised!Next
  <2> QED BY <2>1 DEF Unseen, Supervised!vars
<1> QED BY <1>1, <1>2

\* The exit code tells the truth: the process behaves towards its supervisor as
\* SupervisedProcess says, whatever is built, served, stopped or left unfinished.
\* It leaves with 0 exactly when it was asked to stop and nothing went wrong.
THEOREM TruthfulExit == Spec => Supervised!Safety
<1>1. Init => FaultOK /\ Supervised!Init
  BY Codes DEF Init, FaultOK, Upward, Phases, Supervised!Init, status
<1> QED BY <1>1, FaultStep, PTL DEF Spec, Supervised!Safety

-----------------------------------------------------------------------------
(* Hooks and their places *)

\* The hook of c has started and was not stopped.
Started(c) == pos[c] \in 1..numStarted

\* The constructors under way: none has run, and each waits for the next.
StackOK ==
    /\ \A i \in 1..Len(stack) : pos[stack[i]] = 0
    /\ \A i \in 1..(Len(stack) - 1) :
          \E j \in DOMAIN Params[stack[i]] : Params[stack[i]][j] = stack[i + 1]

\* Hooks have places of their own, behind those of what they were built from.
PlacesOK ==
    /\ \A c \in Component : pos[c] <= built
    /\ \A c, d \in Component : pos[c] > 0 /\ pos[c] = pos[d] => c = d
    /\ \A c \in Component : \A i \in DOMAIN Params[c] :
          pos[c] > 0 => pos[Params[c][i]] > 0 /\ pos[Params[c][i]] < pos[c]

PhaseOK ==
    /\ phase = "building" => numStarted = 0 /\ subscribed = 0
    /\ phase = "waiting" => numStarted = built
    /\ exit = 0 => phase = "exited" /\ numStarted = 0

\* What c holds, by the place of its hook.
Held(c) ==
    /\ pos[c] = 0 => st[c] = "off"
    /\ pos[c] > 0 /\ Kind[c] = "root" /\ phase \in Upward => st[c] = "up"
    /\ Started(c) /\ (Conn(c) \/ Kind[c] = "root") => st[c] = "up"
    /\ Started(c) /\ Kind[c] \in ServingKinds =>
          \/ st[c] = "up"
          \/ /\ st[c] \in {"silenced", "closing"}
             /\ pos[c] = numStarted /\ phase \notin Upward
    /\ ~Started(c) /\ phase \in Upward => st[c] # "down" /\ goroutine[c] = "none"
    /\ ~Started(c) => goroutine[c] = "none" \/ st[c] = "down"
    /\ ~Started(c) /\ pos[c] > 0 /\ (phase = "stopping" \/ exit = 0) =>
          st[c] = "down" \/ Kind[c] \in QuietKinds

\* Who works, and since when.
Occupied(c) ==
    /\ goroutine[c] # "none" => Kind[c] \in ServingKinds /\ pos[c] > 0
    /\ inflight[c] > 0 /\ Kind[c] # "subscriptions" => Started(c) /\ goroutine[c] # "none"
    /\ inflight[c] > 0 /\ Kind[c] = "subscriptions" => subscribed > 0

\* Subscriptions start when everything they were built from has started.
Fed(c) ==
    subscribed > 0 /\ Kind[c] = "subscriptions" =>
        /\ pos[c] > 0
        /\ \A i \in DOMAIN Params[c] :
              \/ Started(Params[c][i])
              \/ /\ phase \notin Upward
                 /\ st[Params[c][i]] = "down" \/ Kind[Params[c][i]] \in QuietKinds

GraphTypes ==
    /\ invocations \in Seq(Component) /\ stack \in Seq(Component)
    /\ built \in Nat /\ pos \in [Component -> Nat] /\ registered \in 0..Tasks

CountTypes ==
    /\ numStarted \in Nat /\ numStarted <= built
    /\ budget \in 0..Timeout /\ grace \in 0..GracefulStopTimeout
    /\ sockets \in 0..MaxInFlight /\ subscribed \in 0..Subscriptions

HeldTypes ==
    /\ st \in [Component -> Stages]
    /\ goroutine \in [Component -> {"none", "launched", "serving", "returned"}]
    /\ inflight \in [Component -> 0..MaxInFlight]

SocketsOK ==
    sockets > 0 => \E c \in Component : Kind[c] = "http" /\ Started(c) /\ st[c] = "up"

LifeInv ==
    /\ invocations \in Programs
    /\ GraphTypes /\ CountTypes /\ HeldTypes
    /\ FaultOK /\ StackOK /\ PlacesOK /\ PhaseOK
    /\ \A c \in Component : Held(c) /\ Occupied(c) /\ Fed(c)
    /\ SocketsOK

-----------------------------------------------------------------------------
(* Facts about the constants and the operators *)

\* A set of natural numbers has a smallest element.
LEMMA Smallest ==
  ASSUME NEW S \in SUBSET Nat, S # {}
  PROVE  \E i \in S : \A j \in S : i <= j
<1>1. PICK i \in S : \A j \in S : <<j, i>> \notin OpToRel(<, Nat)
  BY NatLessThanWellFounded, WFMin, Zenon
<1>2. \A j \in S : ~(j < i)
  BY <1>1 DEF OpToRel
<1> QED BY <1>2

\* What FirstMissing finds is one of the list, and has not been provided.
LEMMA FirstMissingIs ==
  ASSUME NEW list \in Seq(Component), Missing(list) # {}
  PROVE  \E i \in DOMAIN list : FirstMissing(list) = list[i] /\ pos[list[i]] = 0
<1>1. Missing(list) \in SUBSET Nat /\ Missing(list) \subseteq DOMAIN list
  BY DEF Missing
<1>2. \E i \in Missing(list) : \A j \in Missing(list) : i <= j
  BY <1>1, Smallest
<1> DEFINE First(i) == i \in Missing(list) /\ \A j \in Missing(list) : i <= j
<1>3. PICK i : First(i) /\ FirstMissing(list) = list[i]
  BY <1>2 DEF FirstMissing
<1> QED BY <1>1, <1>3 DEF Missing

\* Which kinds exclude which.
LEMMA KindFacts ==
  ASSUME NEW c \in Component
  PROVE  /\ Conn(c) => Kind[c] \notin ServingKinds \cup QuietKinds \cup {"root", "http"}
         /\ Kind[c] \in ServingKinds => Kind[c] \notin QuietKinds \cup {"root"}
         /\ Kind[c] = "root" => Kind[c] \notin QuietKinds
         /\ Kind[c] = "subscriber" => Conn(c)
<1>1. ConnKinds = {"redis", "cache", "db", "keydb", "storage", "grpcclt", "publisher",
                   "subscriber"}
  BY DEF ConnKinds, Connections
<1> QED BY <1>1 DEF Conn, ServingKinds, ServerKinds, QuietKinds

\* What a constructor takes are components.
LEMMA ParamsAre ==
  ASSUME NEW c \in Component
  PROVE  Params[c] \in Seq(Component) /\ \A i \in DOMAIN Params[c] : Params[c][i] \in Component
  BY ConstantsAssumption

\* A component's parameters have places before its own.
LEMMA ParamPlaces ==
  ASSUME PlacesOK, GraphTypes, NEW c \in Component, pos[c] > 0, NEW i \in DOMAIN Params[c]
  PROVE  \E p \in Component : p = Params[c][i] /\ pos[p] \in Nat \ {0} /\ pos[p] < pos[c]
<1>1. PICK p \in Component : p = Params[c][i]
  BY ParamsAre
<1>2. pos[p] > 0 /\ pos[p] < pos[c]
  BY <1>1 DEF PlacesOK
<1> QED BY <1>1, <1>2 DEF GraphTypes

\* What is left of a sequence without its last element.
LEMMA Popped ==
  ASSUME NEW s \in Seq(Component), s # <<>>
  PROVE  LET r == SubSeq(s, 1, Len(s) - 1)
         IN  /\ r \in Seq(Component) /\ Len(r) = Len(s) - 1
             /\ \A j \in 1..(Len(s) - 1) : r[j] = s[j] /\ s[j] \in Component
<1>1. Len(s) \in Nat \ {0}
  OBVIOUS
<1>2. \A j \in 1..(Len(s) - 1) : s[j] \in Component
  BY <1>1
<1> DEFINE m == Len(s) - 1
           r == SubSeq(s, 1, m)
<1>3. m \in Int /\ m >= 0 /\ \A i \in 1..m : s[i] \in Component
  BY <1>1, <1>2
<1> HIDE DEF m
<1>4. /\ r \in Seq(Component) /\ Len(r) = IF 1 <= m THEN m - 1 + 1 ELSE 0
      /\ \A i \in 1..(m - 1 + 1) : r[i] = s[1 + i - 1]
  BY <1>3, SubSeqProperties
<1>5. Len(r) = m /\ \A i \in 1..m : r[i] = s[i]
  BY <1>3, <1>4
<1> QED BY <1>2, <1>4, <1>5 DEF m

\* The constants are of their kinds.
LEMMA Bounds ==
  /\ Timeout \in Nat /\ GracefulStopTimeout \in Nat /\ Subscriptions \in Nat
  /\ Tasks \in Nat /\ MaxInFlight \in Nat /\ Programs \subseteq Seq(Component)
  BY ConstantsAssumption

-----------------------------------------------------------------------------
(* Start hooks *)

Types == GraphTypes /\ CountTypes /\ HeldTypes

Routines == {"none", "launched", "serving", "returned"}

\* The hook of c answers nil: c holds s, and g runs for it.
LEMMA HookStarts ==
  ASSUME LifeInv, FaultOK', NEW c \in Component, Starting(c), HookStarted,
         NEW s \in Stages, NEW g \in Routines,
         st' = [st EXCEPT ![c] = s], goroutine' = [goroutine EXCEPT ![c] = g],
         UNCHANGED <<startFrame, subscribed>>,
         Conn(c) \/ Kind[c] \in ServingKinds \cup {"root"} => s = "up",
         g # "none" => Kind[c] \in ServingKinds
  PROVE  LifeInv'
<1>f. /\ phase' = phase /\ phase = "starting" /\ phase \in Upward
      /\ numStarted' = numStarted + 1 /\ pos[c] = numStarted + 1
      /\ UNCHANGED <<buildVars, workVars, grace, budget, exit, subscribed>>
  BY DEF Starting, HookStarted, startFrame, Upward
<1>i. /\ Types /\ StackOK /\ PlacesOK /\ PhaseOK /\ SocketsOK /\ invocations \in Programs
      /\ \A d \in Component : Held(d) /\ Occupied(d) /\ Fed(d)
  BY DEF LifeInv, Types
<1>1. Types'
  <2>1. numStarted + 1 <= built
    BY <1>i, <1>f DEF PlacesOK
  <2> QED BY <1>i, <1>f, <2>1 DEF Types, GraphTypes, CountTypes, HeldTypes, Routines,
                buildVars, workVars
<1>2. invocations' \in Programs /\ StackOK' /\ PlacesOK' /\ PhaseOK'
  BY <1>i, <1>f DEF StackOK, PlacesOK, PhaseOK, buildVars, FaultOK, Upward
<1>3. ASSUME NEW d \in Component
      PROVE  Started(d)' <=> Started(d) \/ d = c
  BY <1>i, <1>f DEF Types, GraphTypes, CountTypes, PlacesOK, Started, buildVars
<1>4. ~Started(c) /\ pos[c] > 0
  BY <1>i, <1>f DEF Types, CountTypes, Started
<1>5. ASSUME NEW d \in Component
      PROVE  Held(d)' /\ Occupied(d)' /\ Fed(d)'
  <2> st \in [Component -> Stages] /\ goroutine \in [Component -> Routines]
    BY <1>i DEF Types, HeldTypes, Routines
  <2> Held(d) /\ Occupied(d) /\ Fed(d)
    BY <1>i
  <2>0. Fed(d)'
    BY <1>3, <1>f, ParamsAre DEF Fed, buildVars
  <2>1. CASE d = c
    <3>1. Started(c)' /\ st'[c] = s /\ goroutine'[c] = g
      BY <1>3
    <3>2. Held(c)'
      BY <1>4, <1>f, <3>1 DEF Held, buildVars, Conn, QuietKinds
    <3>3. Occupied(c)'
      BY <1>4, <1>f, <3>1, <2>1 DEF Occupied, buildVars, workVars
    <3> QED BY <2>0, <2>1, <3>2, <3>3
  <2>2. CASE d # c
    <3>1. st'[d] = st[d] /\ goroutine'[d] = goroutine[d] /\ (Started(d)' <=> Started(d))
      BY <1>3, <2>2
    <3>2. Held(d)'
      BY <1>f, <3>1 DEF Held, buildVars, Conn
    <3>3. Occupied(d)'
      BY <1>f, <3>1 DEF Occupied, buildVars, workVars
    <3> QED BY <2>0, <3>2, <3>3
  <2> QED BY <2>1, <2>2
<1>6. SocketsOK'
  <2>1. SUFFICES ASSUME sockets > 0
                 PROVE  SocketsOK'
    BY <1>f DEF SocketsOK, workVars
  <2>2. PICK d \in Component : Kind[d] = "http" /\ Started(d) /\ st[d] = "up"
    BY <2>1, <1>i DEF SocketsOK
  <2>3. Started(d)' /\ st'[d] = "up"
    BY <1>3, <1>4, <1>i, <2>2 DEF Types, HeldTypes
  <2> QED BY <2>2, <2>3 DEF SocketsOK
<1> QED BY <1>1, <1>2, <1>5, <1>6 DEF LifeInv, Types

\* The hook of c answers an error, with c holding what it held or a connection.
LEMMA HookFails ==
  ASSUME LifeInv, FaultOK', NEW c \in Component, Starting(c), HookFailed,
         NEW s \in {st[c], "up"}, st' = [st EXCEPT ![c] = s],
         UNCHANGED <<startFrame, goroutine, subscribed>>
  PROVE  LifeInv'
<1>f. /\ phase' = "rollback" /\ phase = "starting" /\ phase \in Upward
      /\ phase' \notin Upward /\ numStarted' = numStarted /\ pos[c] = numStarted + 1
      /\ UNCHANGED <<buildVars, workVars, grace, budget, exit, subscribed, goroutine>>
  BY DEF Starting, HookFailed, startFrame, Upward
<1>i. /\ Types /\ StackOK /\ PlacesOK /\ PhaseOK /\ SocketsOK /\ invocations \in Programs
      /\ \A d \in Component : Held(d) /\ Occupied(d) /\ Fed(d)
  BY DEF LifeInv, Types
<1>1. Types'
  BY <1>i, <1>f DEF Types, GraphTypes, CountTypes, HeldTypes, Stages, buildVars, workVars
<1>2. invocations' \in Programs /\ StackOK' /\ PlacesOK' /\ PhaseOK'
  BY <1>i, <1>f DEF StackOK, PlacesOK, PhaseOK, buildVars
<1>3. ASSUME NEW d \in Component
      PROVE  Started(d)' <=> Started(d)
  BY <1>f DEF Started, buildVars
<1>4. ~Started(c) /\ pos[c] > 0
  BY <1>i, <1>f DEF Types, CountTypes, Started
<1>e. exit # 0
  BY <1>i, <1>f DEF PhaseOK
<1>5. ASSUME NEW d \in Component
      PROVE  Held(d)' /\ Occupied(d)' /\ Fed(d)'
  <2> st \in [Component -> Stages]
    BY <1>i DEF Types, HeldTypes
  <2> Held(d) /\ Occupied(d) /\ Fed(d)
    BY <1>i
  <2>1. Fed(d)'
    <3>1. ASSUME NEW i \in DOMAIN Params[d], subscribed > 0, Kind[d] = "subscriptions"
          PROVE  Started(Params[d][i])
      BY <3>1, <1>f DEF Fed
    <3> QED BY <1>3, <1>f, <3>1, ParamsAre DEF Fed, buildVars
  <2>2. Held(d)'
    <3>1. CASE d = c
      BY <1>4, <1>3, <1>f, <1>e, <3>1 DEF Held, buildVars, Conn
    <3>2. CASE d # c
      BY <1>3, <1>f, <1>e, <3>2 DEF Held, buildVars, Conn
    <3> QED BY <3>1, <3>2
  <2>3. Occupied(d)'
    BY <1>3, <1>f DEF Occupied, buildVars, workVars
  <2> QED BY <2>1, <2>2, <2>3
<1>6. SocketsOK'
  <2>1. SUFFICES ASSUME sockets > 0
                 PROVE  SocketsOK'
    BY <1>f DEF SocketsOK, workVars
  <2>2. PICK d \in Component : Kind[d] = "http" /\ Started(d) /\ st[d] = "up"
    BY <2>1, <1>i DEF SocketsOK
  <2>3. Started(d)' /\ st'[d] = "up"
    BY <1>3, <1>4, <1>i, <2>2 DEF Types, HeldTypes
  <2> QED BY <2>2, <2>3 DEF SocketsOK
<1> QED BY <1>1, <1>2, <1>5, <1>6 DEF LifeInv, Types

\* One more subscription receives: everything it was built from has started.
LEMMA OneMoreSubscription ==
  ASSUME LifeInv, FaultOK', NEW c \in Component, Kind[c] = "subscriptions", Starting(c),
         subscribed < Subscriptions, subscribed' = subscribed + 1,
         st' = [st EXCEPT ![c] = "up"],
         UNCHANGED <<startFrame, goroutine, phase, numStarted>>
  PROVE  LifeInv'
<1>f. /\ phase' = phase /\ phase = "starting" /\ phase \in Upward
      /\ numStarted' = numStarted /\ pos[c] = numStarted + 1
      /\ UNCHANGED <<buildVars, workVars, grace, budget, exit, goroutine>>
  BY DEF Starting, startFrame, Upward
<1>i. /\ Types /\ StackOK /\ PlacesOK /\ PhaseOK /\ SocketsOK /\ invocations \in Programs
      /\ \A d \in Component : Held(d) /\ Occupied(d) /\ Fed(d)
  BY DEF LifeInv, Types
<1>0. subscribed \in 0..Subscriptions
  BY <1>i DEF Types, CountTypes
<1>1. Types'
  BY <1>i, <1>f, Bounds DEF Types, GraphTypes, CountTypes, HeldTypes, Stages, buildVars,
                            workVars
<1>2. invocations' \in Programs /\ StackOK' /\ PlacesOK' /\ PhaseOK'
  BY <1>i, <1>f DEF StackOK, PlacesOK, PhaseOK, buildVars
<1>3. ASSUME NEW d \in Component
      PROVE  Started(d)' <=> Started(d)
  BY <1>f DEF Started, buildVars
<1>4. ~Started(c) /\ pos[c] > 0
  BY <1>i, <1>f DEF Types, CountTypes, Started
<1>5. ASSUME NEW d \in Component
      PROVE  Held(d)' /\ Occupied(d)' /\ Fed(d)'
  <2> st \in [Component -> Stages]
    BY <1>i DEF Types, HeldTypes
  <2> Held(d) /\ Occupied(d) /\ Fed(d)
    BY <1>i
  <2>1. Fed(d)'
    <3>1. ASSUME NEW i \in DOMAIN Params[c]
          PROVE  Started(Params[c][i])
      <4>1. PICK p \in Component : p = Params[c][i] /\ pos[p] \in Nat \ {0} /\ pos[p] < pos[c]
        BY <1>i, <1>4, ParamPlaces DEF Types
      <4> QED BY <1>i, <1>f, <4>1 DEF Types, CountTypes, Started
    <3>2. Kind[d] = "subscriptions" => d = c
      BY SubscriptionsAssumption
    <3> QED BY <1>3, <1>4, <1>f, <3>1, <3>2, ParamsAre DEF Fed, buildVars
  <2>2. Held(d)'
    <3>1. CASE d = c
      <4>1. ~Conn(c) /\ Kind[c] \notin ServingKinds \cup {"root"}
        BY KindFacts DEF QuietKinds
      <4>2. pos'[c] > 0 /\ st'[c] = "up" /\ ~Started(c)' /\ goroutine'[c] = "none"
        BY <1>3, <1>4, <1>f, <3>1 DEF Held, buildVars
      <4> QED BY <1>f, <3>1, <4>1, <4>2 DEF Held, Conn, QuietKinds
    <3>2. CASE d # c
      BY <1>3, <1>f, <3>2 DEF Held, buildVars, Conn
    <3> QED BY <3>1, <3>2
  <2>3. Occupied(d)'
    BY <1>3, <1>f, <1>0, Bounds DEF Occupied, buildVars, workVars
  <2> QED BY <2>1, <2>2, <2>3
<1>6. SocketsOK'
  <2>1. SUFFICES ASSUME sockets > 0
                 PROVE  SocketsOK'
    BY <1>f DEF SocketsOK, workVars
  <2>2. PICK d \in Component : Kind[d] = "http" /\ Started(d) /\ st[d] = "up"
    BY <2>1, <1>i DEF SocketsOK
  <2>3. Started(d)' /\ st'[d] = "up"
    BY <1>3, <1>4, <1>i, <2>2 DEF Types, HeldTypes
  <2> QED BY <2>2, <2>3 DEF SocketsOK
<1> QED BY <1>1, <1>2, <1>5, <1>6 DEF LifeInv, Types

\* A start hook, whatever it opens and however it fails.
LEMMA StartStep ==
  ASSUME LifeInv, FaultOK', NEW c \in Component, StartHook(c)
  PROVE  LifeInv'
<1>i. st \in [Component -> Stages] /\ goroutine \in [Component -> Routines] /\ Held(c)
  BY DEF LifeInv, HeldTypes, Routines
<1>s. st[c] \in Stages /\ goroutine[c] \in Routines
      /\ st = [st EXCEPT ![c] = st[c]] /\ goroutine = [goroutine EXCEPT ![c] = goroutine[c]]
  BY <1>i
<1>u. "up" \in Stages /\ {"none", "launched", "serving"} \subseteq Routines
  BY DEF Stages, Routines
<1>k. /\ Starting(c) /\ pos[c] > 0 /\ phase \in Upward
      /\ goroutine[c] = "none"
  <2>1. Starting(c)
    BY DEF StartHook, StartConn, StartConnFails, StartRoot, Ready, StartHTTP, StartGRPC,
           StartWorker, StartScheduler, StartSubscriptions
  <2>2. pos[c] > 0 /\ phase \in Upward /\ ~Started(c)
    BY <2>1 DEF Starting, Upward, Started, LifeInv, CountTypes
  <2> QED BY <1>i, <2>1, <2>2 DEF Held
<1>1. CASE StartConn(c)
  BY <1>1, <1>s, <1>u, <1>k, HookStarts DEF StartConn
<1>2. CASE StartConnFails(c)
  <2>1. PICK s \in {st[c], "up"} : st' = [st EXCEPT ![c] = s]
    BY <1>2 DEF StartConnFails
  <2> QED BY <1>2, <2>1, HookFails DEF StartConnFails
<1>3. CASE StartRoot(c)
  <2>1. st[c] = "up"
    BY <1>3, <1>i, <1>k DEF Held, StartRoot
  <2> QED BY <1>3, <1>s, <1>k, <2>1, HookStarts DEF StartRoot
<1>4. CASE Ready(c)
  <2>1. ~Conn(c) /\ Kind[c] \notin ServingKinds \cup {"root"}
    BY <1>4, KindFacts DEF Ready, QuietKinds
  <2>2. CASE HookStarted
    BY <1>4, <1>s, <1>k, <2>1, <2>2, HookStarts DEF Ready
  <2>3. CASE HookFailed
    BY <1>4, <1>s, <1>k, <2>3, HookFails DEF Ready
  <2> QED BY <1>4, <2>2, <2>3 DEF Ready
<1>5. CASE StartHTTP(c) \/ StartWorker(c)
  <2>1. Kind[c] \in ServingKinds
    BY <1>5 DEF StartHTTP, StartWorker, ServingKinds, ServerKinds
  <2> QED BY <1>5, <1>u, <1>k, <2>1, HookStarts DEF StartHTTP, StartWorker
<1>6. CASE StartGRPC(c) \/ StartScheduler(c)
  <2>1. Kind[c] \in ServingKinds
    BY <1>6 DEF StartGRPC, StartScheduler, ServingKinds, ServerKinds
  <2>2. CASE HookStarted
    <3>1. PICK g \in {"launched", "serving"} :
             st' = [st EXCEPT ![c] = "up"] /\ goroutine' = [goroutine EXCEPT ![c] = g]
      BY <1>6, <2>2 DEF StartGRPC, StartScheduler, HookStarted, HookFailed, Starting
    <3> QED BY <1>6, <1>u, <1>k, <2>1, <2>2, <3>1, HookStarts DEF StartGRPC, StartScheduler
  <2>3. CASE HookFailed /\ UNCHANGED <<st, goroutine>>
    BY <1>6, <1>s, <1>k, <2>3, HookFails DEF StartGRPC, StartScheduler
  <2> QED BY <1>6, <2>2, <2>3 DEF StartGRPC, StartScheduler
<1>7. CASE StartSubscriptions(c)
  <2>1. ~Conn(c) /\ Kind[c] \notin ServingKinds \cup {"root"}
    BY <1>7, KindFacts DEF StartSubscriptions, QuietKinds
  <2>2. CASE HookStarted /\ UNCHANGED <<st, subscribed>>
    BY <1>7, <1>s, <1>k, <2>1, <2>2, HookStarts DEF StartSubscriptions
  <2>3. CASE HookFailed /\ UNCHANGED <<st, subscribed>>
    BY <1>7, <1>s, <1>k, <2>3, HookFails DEF StartSubscriptions
  <2>4. CASE /\ subscribed # Subscriptions /\ subscribed' = subscribed + 1
             /\ st' = [st EXCEPT ![c] = "up"] /\ UNCHANGED <<phase, numStarted, fault>>
    <3>1. subscribed < Subscriptions
      BY <2>4, Bounds DEF LifeInv, CountTypes
    <3> QED BY <1>7, <1>k, <2>4, <3>1, OneMoreSubscription DEF StartSubscriptions
  <2> QED BY <1>7, <2>2, <2>3, <2>4 DEF StartSubscriptions
<1> QED BY <1>1, <1>2, <1>3, <1>4, <1>5, <1>6, <1>7 DEF StartHook

-----------------------------------------------------------------------------
(* Steps of ProvideAndRun *)

\* ProvideAndRun moves on and nothing else does.
LEMMA PhaseMoves ==
  ASSUME LifeInv, FaultOK', PhaseOK',
         UNCHANGED <<buildVars, numStarted, st, goroutine, workVars, subscribed>>,
         budget' \in 0..Timeout, grace' \in 0..GracefulStopTimeout,
         phase' \in Upward => phase \in Upward,
         phase' = "stopping" \/ exit' = 0 =>
             phase = "stopping" \/ exit = 0 \/ numStarted = built
  PROVE  LifeInv'
<1>i. /\ Types /\ StackOK /\ PlacesOK /\ PhaseOK /\ SocketsOK /\ invocations \in Programs
      /\ \A d \in Component : Held(d) /\ Occupied(d) /\ Fed(d)
  BY DEF LifeInv, Types
<1>1. Types'
  BY <1>i DEF Types, GraphTypes, CountTypes, HeldTypes, buildVars, workVars
<1>2. invocations' \in Programs /\ StackOK' /\ PlacesOK'
  BY <1>i DEF StackOK, PlacesOK, buildVars
<1>3. ASSUME NEW d \in Component
      PROVE  Started(d)' <=> Started(d)
  BY DEF Started, buildVars
<1>4. ASSUME NEW d \in Component
      PROVE  Held(d)' /\ Occupied(d)' /\ Fed(d)'
  <2> Held(d) /\ Occupied(d) /\ Fed(d)
    BY <1>i
  <2>1. pos[d] > 0 /\ numStarted = built => Started(d)
    BY <1>i DEF Types, GraphTypes, CountTypes, PlacesOK, Started
  <2>2. Held(d)'
    BY <1>3, <2>1 DEF Held, buildVars, Conn
  <2>3. Occupied(d)'
    BY <1>3 DEF Occupied, buildVars, workVars
  <2>4. Fed(d)'
    BY <1>3, ParamsAre DEF Fed, buildVars
  <2> QED BY <2>2, <2>3, <2>4
<1>5. SocketsOK'
  BY <1>i, <1>3 DEF SocketsOK, workVars
<1> QED BY <1>1, <1>2, <1>4, <1>5 DEF LifeInv, Types

\* The steps that only move ProvideAndRun, its clock and its signals.
LEMMA RunStep ==
  ASSUME LifeInv, FaultOK',
         ConstructFails \/ GraphBuilt \/ StartReturns \/ TakeSignal \/ StopReturns
             \/ DeadlineExceeded \/ Tick \/ OSSignal
  PROVE  LifeInv'
<1>i. PhaseOK /\ CountTypes /\ FaultOK
  BY DEF LifeInv
<1> USE DEF buildVars, workVars
<1>1. CASE ConstructFails \/ GraphBuilt
  <2>1. PhaseOK'
    BY <1>1, <1>i, Codes DEF PhaseOK, ConstructFails, GraphBuilt, End
  <2>2. exit' # 0 /\ phase' # "stopping" /\ phase \in Upward
    BY <1>1, <1>i, Codes DEF PhaseOK, ConstructFails, GraphBuilt, End, Upward
  <2>3. budget' \in 0..Timeout /\ grace' \in 0..GracefulStopTimeout
    BY <1>1, <1>i, Bounds DEF CountTypes, ConstructFails, GraphBuilt
  <2> QED BY <1>1, <2>1, <2>2, <2>3, PhaseMoves DEF ConstructFails, GraphBuilt
<1>2. CASE StartReturns
  <2>1. PhaseOK'
    BY <1>2, <1>i DEF PhaseOK, StartReturns, startFrame
  <2> QED BY <1>2, <1>i, <2>1, PhaseMoves
          DEF PhaseOK, CountTypes, StartReturns, startFrame, Upward
<1>3. CASE TakeSignal
  <2>1. PhaseOK'
    BY <1>3, <1>i DEF PhaseOK, TakeSignal
  <2> QED BY <1>3, <1>i, <2>1, Bounds, PhaseMoves DEF PhaseOK, CountTypes, TakeSignal, Upward
<1>4. CASE StopReturns
  <2>1. PhaseOK'
    BY <1>4, <1>i DEF PhaseOK, StopReturns, End
  <2>2. exit' = 0 => phase = "stopping"
    BY <1>4, Codes DEF StopReturns, End
  <2> QED BY <1>4, <1>i, <2>1, <2>2, PhaseMoves DEF CountTypes, StopReturns, End, Upward
<1>5. CASE DeadlineExceeded
  <2>1. PhaseOK'
    BY <1>5, <1>i, Codes DEF PhaseOK, DeadlineExceeded, End
  <2> QED BY <1>5, <1>i, <2>1, PhaseMoves DEF CountTypes, DeadlineExceeded, End, Upward
<1>6. CASE Tick
  <2>1. PhaseOK'
    BY <1>6, <1>i DEF PhaseOK, Tick
  <2>2. budget' \in 0..Timeout /\ grace' \in 0..GracefulStopTimeout
    BY <1>6, <1>i, Bounds DEF CountTypes, Tick
  <2> QED BY <1>6, <2>1, <2>2, PhaseMoves DEF Tick
<1>7. CASE OSSignal
  <2>1. PhaseOK'
    BY <1>7, <1>i DEF PhaseOK, OSSignal, serveFrame
  <2> QED BY <1>7, <1>i, <2>1, PhaseMoves DEF CountTypes, OSSignal, serveFrame
<1> QED BY <1>1, <1>2, <1>3, <1>4, <1>5, <1>6, <1>7

-----------------------------------------------------------------------------
(* Constructors *)

\* A constructor is begun: only the stack grows.
LEMMA StackGrows ==
  ASSUME LifeInv, FaultOK', stack' \in Seq(Component), StackOK',
         UNCHANGED <<invocations, phase, built, pos, registered, numStarted, budget, st,
                     goroutine, workVars, grace, subscribed, exit>>
  PROVE  LifeInv'
<1>i. /\ Types /\ PlacesOK /\ PhaseOK /\ SocketsOK /\ invocations \in Programs
      /\ \A d \in Component : Held(d) /\ Occupied(d) /\ Fed(d)
  BY DEF LifeInv, Types
<1>1. Types'
  BY <1>i DEF Types, GraphTypes, CountTypes, HeldTypes, workVars
<1>2. PlacesOK' /\ PhaseOK' /\ SocketsOK'
  BY <1>i DEF PlacesOK, PhaseOK, SocketsOK, Started, workVars
<1>3. ASSUME NEW d \in Component
      PROVE  Held(d)' /\ Occupied(d)' /\ Fed(d)'
  BY <1>i DEF Held, Occupied, Fed, Started, Conn, workVars
<1> QED BY <1>i, <1>1, <1>2, <1>3 DEF LifeInv, Types

\* An invocation begins to be resolved.
LEMMA InvokeStep ==
  ASSUME LifeInv, FaultOK', Invoke
  PROVE  LifeInv'
<1>1. invocations \in Seq(Component) /\ pos \in [Component -> Nat]
  BY DEF LifeInv, GraphTypes
<1>2. PICK i \in DOMAIN invocations :
         FirstMissing(invocations) = invocations[i] /\ pos[invocations[i]] = 0
  BY <1>1, FirstMissingIs DEF Invoke
<1>3. PICK x \in Component : stack' = <<x>> /\ pos[x] = 0
  BY <1>1, <1>2 DEF Invoke
<1>4. stack' \in Seq(Component) /\ Len(stack') = 1 /\ stack'[1] = x
  BY <1>3
<1>5. StackOK'
  BY <1>3, <1>4 DEF StackOK, Invoke
<1> QED BY <1>4, <1>5, StackGrows DEF Invoke

\* A parameter is resolved before the component that takes it.
LEMMA ResolveStep ==
  ASSUME LifeInv, FaultOK', Resolve
  PROVE  LifeInv'
<1>1. stack \in Seq(Component) /\ stack # <<>> /\ StackOK /\ Top \in Component
  BY DEF LifeInv, GraphTypes, Resolve, Top
<1>2. PICK i \in DOMAIN Params[Top] :
         FirstMissing(Params[Top]) = Params[Top][i] /\ pos[Params[Top][i]] = 0
  BY <1>1, ParamsAre, FirstMissingIs DEF Resolve
<1>3. PICK x \in Component : x = Params[Top][i] /\ stack' = Append(stack, x) /\ pos[x] = 0
  BY <1>1, <1>2, ParamsAre DEF Resolve
<1>4. /\ stack' \in Seq(Component) /\ Len(stack') = Len(stack) + 1
      /\ \A j \in 1..Len(stack) : stack'[j] = stack[j]
      /\ stack'[Len(stack) + 1] = x /\ Len(stack) \in Nat \ {0}
  BY <1>1, <1>3
<1>5. StackOK'
  <2>1. ASSUME NEW j \in 1..Len(stack')
        PROVE  pos'[stack'[j]] = 0
    <3>1. CASE j \in 1..Len(stack)
      BY <1>1, <1>4, <3>1 DEF StackOK, Resolve
    <3>2. CASE j = Len(stack) + 1
      BY <1>3, <1>4, <3>2 DEF Resolve
    <3> QED BY <1>4, <2>1, <3>1, <3>2
  <2>2. ASSUME NEW j \in 1..(Len(stack') - 1)
        PROVE  \E k \in DOMAIN Params[stack'[j]] : Params[stack'[j]][k] = stack'[j + 1]
    <3>1. CASE j \in 1..(Len(stack) - 1)
      BY <1>1, <1>4, <3>1 DEF StackOK
    <3>2. CASE j = Len(stack)
      BY <1>3, <1>4, <3>2 DEF Top
    <3> QED BY <1>4, <2>2, <3>1, <3>2
  <2> QED BY <2>1, <2>2 DEF StackOK
<1> QED BY <1>4, <1>5, StackGrows DEF Resolve

\* The innermost constructor runs: it gets the last place, and those it waited
\* for are not its own.
LEMMA ConstructStep ==
  ASSUME LifeInv, FaultOK', Construct
  PROVE  LifeInv'
<1>i. /\ Types /\ StackOK /\ PlacesOK /\ PhaseOK /\ SocketsOK /\ invocations \in Programs
      /\ \A d \in Component : Held(d) /\ Occupied(d) /\ Fed(d)
  BY DEF LifeInv, Types
<1>g. /\ stack \in Seq(Component) /\ built \in Nat /\ pos \in [Component -> Nat]
      /\ numStarted \in Nat /\ st \in [Component -> Stages]
  BY <1>i DEF Types, GraphTypes, CountTypes, HeldTypes
<1> DEFINE n == Len(stack)
<1>t. /\ n \in Nat \ {0} /\ Top \in Component /\ Top = stack[n] /\ stack # <<>>
      /\ pos[Top] = 0
  BY <1>i, <1>g DEF Construct, Top, StackOK
<1>c. /\ phase = "building" /\ phase' = phase /\ phase \in Upward /\ numStarted = 0
      /\ built' = built + 1 /\ subscribed = 0
      /\ pos' = [pos EXCEPT ![Top] = built + 1]
      /\ UNCHANGED <<invocations, numStarted, budget, goroutine, workVars, grace,
                     subscribed, exit>>
  BY <1>i DEF Construct, PhaseOK, Upward
<1>s. PICK s \in {"up", "off"} :
         st' = [st EXCEPT ![Top] = s] /\ (Kind[Top] = "root" => s = "up")
  BY DEF Construct, Opens
<1>m. \A i \in DOMAIN Params[Top] : pos[Params[Top][i]] # 0
  BY DEF Construct, Missing
<1>q. /\ stack' \in Seq(Component) /\ Len(stack') = n - 1
      /\ \A j \in 1..(n - 1) : stack'[j] = stack[j] /\ stack[j] \in Component
  BY <1>g, <1>t, Popped DEF Construct
<1> HIDE DEF n
<1>1. Types'
  <2>1. registered' \in 0..Tasks
    BY <1>i DEF Construct, RegisterTasks, Types, GraphTypes
  <2>2. GraphTypes'
    <3>1. pos' \in [Component -> Nat] /\ built' \in Nat
      <4>1. built + 1 \in Nat /\ built' = built + 1
        BY <1>c, <1>g
      <4>2. pos' = [pos EXCEPT ![Top] = built + 1] /\ pos \in [Component -> Nat]
        BY <1>c, <1>g
      <4> QED BY <4>1, <4>2
    <3> QED BY <1>i, <1>c, <1>q, <2>1, <3>1 DEF Types, GraphTypes
  <2>3. CountTypes'
    BY <1>i, <1>c, <1>g DEF Types, CountTypes, workVars
  <2>4. HeldTypes'
    BY <1>i, <1>c, <1>s, <1>t DEF Types, HeldTypes, workVars, Stages
  <2> QED BY <2>2, <2>3, <2>4 DEF Types
<1>2. ASSUME NEW j \in 1..(n - 1)
      PROVE  stack[j] # Top
  <2>1. PICK k \in DOMAIN Params[stack[j]] : Params[stack[j]][k] = stack[j + 1]
    BY <1>i DEF StackOK, n
  <2>2. pos[stack[j + 1]] = 0
    BY <1>i, <1>t DEF StackOK, n
  <2> QED BY <1>m, <2>1, <2>2
<1>3. StackOK'
  <2>1. ASSUME NEW j \in 1..Len(stack')
        PROVE  pos'[stack'[j]] = 0
    <3>1. j \in 1..(n - 1) /\ j \in 1..n
      BY <1>q, <1>t
    <3> QED BY <1>2, <1>c, <1>g, <1>q, <1>i, <3>1 DEF StackOK, n
  <2>2. ASSUME NEW j \in 1..(Len(stack') - 1)
        PROVE  \E k \in DOMAIN Params[stack'[j]] : Params[stack'[j]][k] = stack'[j + 1]
    <3>1. j \in 1..(n - 1) /\ j + 1 \in 1..(n - 1)
      BY <1>q, <1>t
    <3> QED BY <1>q, <1>i, <3>1 DEF StackOK, n
  <2> QED BY <2>1, <2>2 DEF StackOK
<1>4. PlacesOK'
  <2>1. ASSUME NEW d \in Component
        PROVE  /\ pos'[d] <= built'
               /\ \A e \in Component : pos'[d] > 0 /\ pos'[d] = pos'[e] => d = e
    <3>1. pos[d] <= built /\ \A e \in Component : pos[e] <= built
      BY <1>i DEF PlacesOK
    <3> QED BY <1>c, <1>g, <1>i, <1>t, <3>1 DEF PlacesOK
  <2>2. ASSUME NEW d \in Component, NEW i \in DOMAIN Params[d], pos'[d] > 0
        PROVE  pos'[Params[d][i]] > 0 /\ pos'[Params[d][i]] < pos'[d]
    <3>1. PICK e \in Component : e = Params[d][i]
      BY ParamsAre
    <3>2. CASE d = Top
      <4>1. pos[e] # 0 /\ e # Top
        BY <1>m, <1>t, <3>1, <3>2
      <4>2. pos[e] \in Nat /\ pos[e] <= built
        BY <1>g, <1>i DEF PlacesOK
      <4> QED BY <1>c, <1>g, <1>t, <3>1, <3>2, <4>1, <4>2
    <3>3. CASE d # Top
      <4>1. pos[d] > 0 /\ pos'[d] = pos[d]
        BY <1>c, <1>g, <2>2, <3>3
      <4>2. pos[e] > 0 /\ pos[e] < pos[d]
        BY <1>i, <3>1, <4>1 DEF PlacesOK
      <4>3. e # Top
        BY <1>t, <4>2
      <4> QED BY <1>c, <1>g, <3>1, <4>1, <4>2, <4>3
    <3> QED BY <3>2, <3>3
  <2> QED BY <2>1, <2>2 DEF PlacesOK
<1>5. ASSUME NEW d \in Component
      PROVE  ~Started(d) /\ ~Started(d)'
  BY <1>c DEF Started
<1>6. ASSUME NEW d \in Component
      PROVE  Held(d)' /\ Occupied(d)' /\ Fed(d)'
  <2> Held(d) /\ Occupied(d)
    BY <1>i
  <2>1. Held(d)'
    <3>0. goroutine'[d] = "none" /\ exit # 0
      BY <1>c, <1>5, <1>i DEF Held, PhaseOK
    <3>1. CASE d = Top
      <4>1. pos'[d] # 0 /\ st'[d] = s
        BY <1>c, <1>g, <1>s, <3>1
      <4> QED BY <1>5, <1>c, <1>s, <3>0, <3>1, <4>1 DEF Held
    <3>2. CASE d # Top
      <4>1. pos'[d] = pos[d] /\ st'[d] = st[d]
        BY <1>c, <1>g, <1>s, <3>2
      <4> QED BY <1>5, <1>c, <3>0, <4>1 DEF Held
    <3> QED BY <3>1, <3>2
  <2>2. Occupied(d)'
    <3>1. goroutine'[d] = "none" /\ inflight'[d] = inflight[d]
      BY <1>c, <1>5, <1>i DEF Held, workVars
    <3> QED BY <1>5, <1>c, <3>1 DEF Occupied
  <2>3. Fed(d)'
    BY <1>c DEF Fed
  <2> QED BY <2>1, <2>2, <2>3
<1>7. SocketsOK' /\ PhaseOK'
  BY <1>i, <1>c, <1>5 DEF SocketsOK, PhaseOK, workVars
<1> QED BY <1>1, <1>3, <1>4, <1>6, <1>7, <1>c, <1>i DEF LifeInv, Types

-----------------------------------------------------------------------------
(* Work *)

\* Nothing but the goroutines and the work in flight changes.
LEMMA WorkMoves ==
  ASSUME LifeInv, FaultOK', UNCHANGED serveFrame,
         goroutine' \in [Component -> Routines],
         inflight' \in [Component -> 0..MaxInFlight], sockets' \in 0..MaxInFlight,
         \A d \in Component : goroutine'[d] = "none" <=> goroutine[d] = "none",
         \A d \in Component : Occupied(d)',
         SocketsOK'
  PROVE  LifeInv'
<1> USE DEF serveFrame
<1>i. /\ Types /\ StackOK /\ PlacesOK /\ PhaseOK /\ invocations \in Programs
      /\ \A d \in Component : Held(d) /\ Fed(d)
  BY DEF LifeInv, Types
<1>1. Types'
  BY <1>i DEF Types, GraphTypes, CountTypes, HeldTypes, buildVars, Routines
<1>2. invocations' \in Programs /\ StackOK' /\ PlacesOK' /\ PhaseOK'
  BY <1>i DEF StackOK, PlacesOK, PhaseOK, buildVars
<1>3. ASSUME NEW d \in Component
      PROVE  Started(d)' <=> Started(d)
  BY DEF Started, buildVars
<1>4. ASSUME NEW d \in Component
      PROVE  Held(d)' /\ Fed(d)'
  <2>1. Held(d)'
    BY <1>3, <1>i DEF Held, buildVars, Conn
  <2>2. Fed(d)'
    BY <1>3, <1>i, ParamsAre DEF Fed, buildVars
  <2> QED BY <2>1, <2>2
<1> QED BY <1>1, <1>2, <1>4 DEF LifeInv, Types

\* A server begins to serve, or its Serve returns.
LEMMA ServeStep ==
  ASSUME LifeInv, FaultOK', NEW c \in Component, Serve(c) \/ ServeFails(c)
  PROVE  LifeInv'
<1>i. goroutine \in [Component -> Routines] /\ \A d \in Component : Occupied(d)
  BY DEF LifeInv, HeldTypes, Routines
<1>w. inflight \in [Component -> 0..MaxInFlight] /\ sockets \in 0..MaxInFlight /\ SocketsOK
  BY DEF LifeInv, HeldTypes, CountTypes
<1>1. PICK g \in {"serving", "returned"} : goroutine' = [goroutine EXCEPT ![c] = g]
  BY DEF Serve, ServeFails
<1>2. goroutine[c] # "none"
  BY DEF Serve, ServeFails
<1>3. UNCHANGED <<serveFrame, workVars>>
  BY DEF Serve, ServeFails
<1>4. goroutine' \in [Component -> Routines]
  BY <1>i, <1>1 DEF Routines
<1>5. ASSUME NEW d \in Component
      PROVE  (goroutine'[d] = "none" <=> goroutine[d] = "none") /\ Occupied(d)'
  <2>1. goroutine'[d] = "none" <=> goroutine[d] = "none"
    BY <1>i, <1>1, <1>2
  <2> QED BY <1>i, <1>3, <2>1 DEF Occupied, Started, serveFrame, buildVars, workVars
<1>6. SocketsOK'
  BY <1>w, <1>3 DEF SocketsOK, Started, serveFrame, buildVars, workVars
<1> QED BY <1>w, <1>3, <1>4, <1>5, <1>6, WorkMoves DEF workVars

\* Only a component that has started, or a subscription that receives, takes work.
LEMMA InFlightStep ==
  ASSUME LifeInv, FaultOK', NEW c \in Component, Begin(c) \/ Finish(c) \/ Upgrade(c)
  PROVE  LifeInv'
<1>i. /\ \A d \in Component : Occupied(d) /\ Held(d)
      /\ goroutine \in [Component -> Routines] /\ SocketsOK
      /\ inflight \in [Component -> 0..MaxInFlight] /\ sockets \in 0..MaxInFlight
  BY DEF LifeInv, HeldTypes, CountTypes, Routines
<1>f. UNCHANGED <<serveFrame, goroutine>>
  BY DEF Begin, Finish, Upgrade
<1>1. /\ inflight' \in [Component -> 0..MaxInFlight]
      /\ \A d \in Component : d # c => inflight'[d] = inflight[d]
  BY <1>i, Bounds DEF Begin, Finish, Upgrade
<1>2. sockets' \in 0..MaxInFlight
  BY <1>i, Bounds DEF Begin, Finish, Upgrade
<1>3. ASSUME NEW d \in Component
      PROVE  Occupied(d)'
  <2>1. Started(d)' <=> Started(d)
    BY <1>f DEF Started, serveFrame, buildVars
  <2>2. CASE inflight'[d] > 0 => inflight[d] > 0
    BY <1>i, <1>f, <2>1, <2>2 DEF Occupied, serveFrame, buildVars
  <2>3. CASE d = c /\ Begin(c)
    <3>1. CASE goroutine[c] = "serving" /\ st[c] \in {"up", "silenced"}
      <4>1. Started(c) /\ Kind[c] \in ServingKinds /\ pos[c] > 0
        BY <1>i, <3>1 DEF Held, Occupied
      <4>2. Kind[c] # "subscriptions"
        BY <4>1 DEF ServingKinds, ServerKinds
      <4> QED BY <1>f, <2>1, <2>3, <3>1, <4>1, <4>2 DEF Occupied, serveFrame, buildVars
    <3>2. CASE Delivering(c)
      BY <1>i, <1>f, <2>1, <2>3, <3>2 DEF Delivering, Occupied, serveFrame, buildVars
    <3> QED BY <2>3, <3>1, <3>2 DEF Begin, Accepting
  <2>4. CASE d = c /\ (Finish(c) \/ Upgrade(c))
    <3>1. inflight'[d] > 0 => inflight[d] > 0
      BY <1>i, <2>4 DEF Finish, Upgrade
    <3> QED BY <2>2, <3>1
  <2> QED BY <1>1, <2>2, <2>3, <2>4
<1>4. SocketsOK'
  <2>1. CASE sockets' = sockets
    BY <1>i, <1>f, <2>1 DEF SocketsOK, Started, serveFrame, buildVars
  <2>2. CASE Upgrade(c) /\ st[c] = "up"
    <3>1. Kind[c] = "http" /\ Started(c)
      BY <1>i, <2>2 DEF Upgrade, Occupied
    <3>2. Started(c)' /\ st'[c] = "up"
      BY <1>f, <2>2, <3>1 DEF Started, serveFrame, buildVars
    <3> QED BY <3>1, <3>2 DEF SocketsOK
  <2> QED BY <2>1, <2>2 DEF Begin, Finish, Upgrade
<1> QED BY <1>i, <1>f, <1>1, <1>2, <1>3, <1>4, WorkMoves

\* Work begins, goes on and ends.
LEMMA WorkStep ==
  ASSUME LifeInv, FaultOK', Work
  PROVE  LifeInv'
<1>1. CASE SocketCloses
  <2>1. /\ \A d \in Component : Occupied(d)
        /\ goroutine \in [Component -> Routines] /\ SocketsOK
        /\ inflight \in [Component -> 0..MaxInFlight] /\ sockets \in 0..MaxInFlight
    BY DEF LifeInv, HeldTypes, CountTypes, Routines
  <2>2. sockets' \in 0..MaxInFlight /\ sockets > 0
    BY <1>1, <2>1, Bounds DEF SocketCloses
  <2>3. SocketsOK'
    BY <1>1, <2>1, <2>2 DEF SocketsOK, SocketCloses, Started, serveFrame, buildVars
  <2>4. \A d \in Component : Occupied(d)'
    BY <1>1, <2>1 DEF Occupied, SocketCloses, Started, serveFrame, buildVars
  <2> QED BY <1>1, <2>1, <2>2, <2>3, <2>4, WorkMoves DEF SocketCloses
<1> QED BY <1>1, ServeStep, InFlightStep, RunStep DEF Work

-----------------------------------------------------------------------------
(* Stop hooks *)

\* The hook of c, the last that was started, has been stopped: c is down, or it
\* is of a kind whose hook has no OnStop.
LEMMA HookStops ==
  ASSUME LifeInv, FaultOK', NEW c \in Component, Stopping(c), numStarted' = numStarted - 1,
         NEW s \in Stages, st' = [st EXCEPT ![c] = s],
         s = "down" \/ (Kind[c] \in QuietKinds /\ s = st[c]),
         inflight' \in [Component -> 0..MaxInFlight],
         \A d \in Component : inflight'[d] > 0 => inflight[d] > 0,
         Kind[c] # "subscriptions" => inflight'[c] = 0,
         Kind[c] = "http" => st[c] # "up",
         UNCHANGED <<stopFrame, sockets, grace>>
  PROVE  LifeInv'
<1>f. /\ phase \in {"stopping", "rollback"} /\ phase \notin Upward
      /\ pos[c] = numStarted /\ numStarted > 0
      /\ UNCHANGED <<phase, buildVars, budget, goroutine, subscribed, exit, sockets, grace>>
  BY DEF Stopping, stopFrame, Upward
<1>i. /\ Types /\ StackOK /\ PlacesOK /\ PhaseOK /\ SocketsOK /\ invocations \in Programs
      /\ \A d \in Component : Held(d) /\ Occupied(d) /\ Fed(d)
  BY DEF LifeInv, Types
<1>1. Types'
  BY <1>i, <1>f DEF Types, GraphTypes, CountTypes, HeldTypes, buildVars
<1>e. exit # 0
  BY <1>i, <1>f DEF PhaseOK
<1>2. invocations' \in Programs /\ StackOK' /\ PlacesOK' /\ PhaseOK'
  BY <1>i, <1>f, <1>e DEF StackOK, PlacesOK, PhaseOK, buildVars
<1>3. ASSUME NEW d \in Component
      PROVE  Started(d)' <=> Started(d) /\ d # c
  BY <1>i, <1>f DEF Types, GraphTypes, CountTypes, PlacesOK, Started, buildVars
<1>4. ASSUME NEW d \in Component, d # c
      PROVE  pos[d] # numStarted
  BY <1>i, <1>f, <1>4 DEF PlacesOK
<1>q. Kind[c] \in QuietKinds => goroutine[c] = "none"
  BY <1>i, KindFacts DEF Occupied
<1>5. ASSUME NEW d \in Component
      PROVE  Held(d)' /\ Occupied(d)' /\ Fed(d)'
  <2> st \in [Component -> Stages]
    BY <1>i DEF Types, HeldTypes
  <2> Held(d) /\ Occupied(d) /\ Fed(d)
    BY <1>i
  <2>1. Held(d)'
    <3>1. CASE d = c
      <4>1. st'[c] = s /\ pos'[c] > 0 /\ ~Started(c)'
        BY <1>3, <1>f DEF buildVars
      <4> QED BY <1>f, <1>q, <3>1, <4>1 DEF Held
    <3>2. CASE d # c
      <4>1. st'[d] = st[d] /\ (Started(d)' <=> Started(d)) /\ pos[d] # numStarted
        BY <1>3, <1>4, <3>2
      <4> QED BY <1>f, <4>1 DEF Held, buildVars, Conn
    <3> QED BY <3>1, <3>2
  <2>2. Occupied(d)'
    BY <1>3, <1>f DEF Occupied, buildVars
  <2>3. Fed(d)'
    <3>1. ASSUME NEW i \in DOMAIN Params[d], subscribed > 0, Kind[d] = "subscriptions"
          PROVE  \/ Started(Params[d][i])'
                 \/ st'[Params[d][i]] = "down" \/ Kind[Params[d][i]] \in QuietKinds
      <4>1. PICK e \in Component : e = Params[d][i]
        BY ParamsAre
      <4>2. Started(e) \/ st[e] = "down" \/ Kind[e] \in QuietKinds
        BY <3>1, <4>1 DEF Fed
      <4> QED BY <1>3, <4>1, <4>2
    <3> QED BY <1>f, <3>1 DEF Fed, buildVars
  <2> QED BY <2>1, <2>2, <2>3
<1>6. SocketsOK'
  <2>1. SUFFICES ASSUME sockets > 0
                 PROVE  SocketsOK'
    BY <1>f DEF SocketsOK
  <2>2. PICK d \in Component : Kind[d] = "http" /\ Started(d) /\ st[d] = "up"
    BY <2>1, <1>i DEF SocketsOK
  <2>3. Started(d)' /\ st'[d] = "up"
    BY <1>3, <1>i, <2>2 DEF Types, HeldTypes
  <2> QED BY <2>2, <2>3 DEF SocketsOK
<1> QED BY <1>1, <1>2, <1>5, <1>6 DEF LifeInv, Types

\* The hook of c is being stopped: a server, worker or scheduler on its way down.
LEMMA OnItsWayDown ==
  ASSUME LifeInv, FaultOK', NEW c \in Component, Stopping(c), Kind[c] \in ServingKinds,
         NEW s \in {"silenced", "closing"}, st' = [st EXCEPT ![c] = s],
         sockets' = 0 \/ (sockets' = sockets /\ (Kind[c] = "http" => st[c] # "up")),
         grace' \in 0..GracefulStopTimeout,
         UNCHANGED <<stopFrame, numStarted, inflight>>
  PROVE  LifeInv'
<1>f. /\ phase \in {"stopping", "rollback"} /\ phase \notin Upward
      /\ pos[c] = numStarted /\ numStarted > 0
      /\ UNCHANGED <<phase, buildVars, budget, goroutine, subscribed, exit, numStarted,
                     inflight>>
  BY DEF Stopping, stopFrame, Upward
<1>i. /\ Types /\ StackOK /\ PlacesOK /\ PhaseOK /\ SocketsOK /\ invocations \in Programs
      /\ \A d \in Component : Held(d) /\ Occupied(d) /\ Fed(d)
  BY DEF LifeInv, Types
<1>1. Types'
  BY <1>i, <1>f, Bounds DEF Types, GraphTypes, CountTypes, HeldTypes, buildVars, Stages
<1>2. invocations' \in Programs /\ StackOK' /\ PlacesOK' /\ PhaseOK'
  BY <1>i, <1>f DEF StackOK, PlacesOK, PhaseOK, buildVars
<1>3. ASSUME NEW d \in Component
      PROVE  Started(d)' <=> Started(d)
  BY <1>f DEF Started, buildVars
<1>4. Started(c) /\ pos[c] > 0 /\ ~Conn(c) /\ Kind[c] # "root"
  BY <1>f, <1>i, KindFacts DEF Started, Types, CountTypes
<1>5. ASSUME NEW d \in Component
      PROVE  Held(d)' /\ Occupied(d)' /\ Fed(d)'
  <2> st \in [Component -> Stages]
    BY <1>i DEF Types, HeldTypes
  <2> Held(d) /\ Occupied(d) /\ Fed(d)
    BY <1>i
  <2>1. Held(d)'
    <3>1. CASE d = c
      <4>1. st'[c] = s /\ pos'[c] > 0 /\ Started(c)' /\ pos'[c] = numStarted'
        BY <1>3, <1>4, <1>f DEF buildVars
      <4> QED BY <1>f, <1>4, <3>1, <4>1 DEF Held, Conn
    <3>2. CASE d # c
      <4>1. st'[d] = st[d] /\ (Started(d)' <=> Started(d))
        BY <1>3, <3>2
      <4> QED BY <1>f, <4>1 DEF Held, buildVars, Conn
    <3> QED BY <3>1, <3>2
  <2>2. Occupied(d)'
    BY <1>3, <1>f DEF Occupied, buildVars
  <2>3. Fed(d)'
    <3>1. ASSUME NEW i \in DOMAIN Params[d], subscribed > 0, Kind[d] = "subscriptions"
          PROVE  \/ Started(Params[d][i])'
                 \/ st'[Params[d][i]] = "down" \/ Kind[Params[d][i]] \in QuietKinds
      <4>1. PICK e \in Component : e = Params[d][i]
        BY ParamsAre
      <4>2. Started(e) \/ st[e] = "down" \/ Kind[e] \in QuietKinds
        BY <3>1, <4>1 DEF Fed
      <4> QED BY <1>3, <1>4, <4>1, <4>2
    <3> QED BY <1>f, <3>1 DEF Fed, buildVars
  <2> QED BY <2>1, <2>2, <2>3
<1>6. SocketsOK'
  <2>1. SUFFICES ASSUME sockets' > 0
                 PROVE  SocketsOK'
    BY DEF SocketsOK
  <2>2. PICK d \in Component : Kind[d] = "http" /\ Started(d) /\ st[d] = "up"
    BY <2>1, <1>i DEF SocketsOK
  <2>3. Started(d)' /\ st'[d] = "up"
    BY <1>3, <1>i, <2>1, <2>2 DEF Types, HeldTypes
  <2> QED BY <2>2, <2>3 DEF SocketsOK
<1> QED BY <1>1, <1>2, <1>5, <1>6 DEF LifeInv, Types

\* A stop hook, at each of the stages it may stop in.
LEMMA StopStep ==
  ASSUME LifeInv, FaultOK', NEW c \in Component, StopHook(c)
  PROVE  LifeInv'
<1>i. /\ st \in [Component -> Stages] /\ inflight \in [Component -> 0..MaxInFlight]
      /\ grace \in 0..GracefulStopTimeout /\ Occupied(c)
  BY DEF LifeInv, HeldTypes, CountTypes
<1>s. /\ st[c] \in Stages /\ st = [st EXCEPT ![c] = st[c]]
      /\ "down" \in Stages
  BY <1>i DEF Stages
<1>o. inflight[c] > 0 => Kind[c] \in ServingKinds \/ Kind[c] = "subscriptions"
  BY <1>i DEF Occupied
<1>1. CASE StopConn(c) \/ StopRoot(c)
  <2>1. Kind[c] \notin ServingKinds /\ Kind[c] # "http" /\ Kind[c] # "subscriptions"
    BY <1>1, KindFacts DEF StopConn, StopRoot, ServingKinds, ServerKinds, QuietKinds
  <2>2. inflight[c] = 0
    BY <1>i, <1>o, <2>1, Bounds
  <2> QED BY <1>1, <1>i, <1>s, <2>1, <2>2, HookStops
          DEF StopConn, StopRoot, HookStopped, workVars
<1>2. CASE StopQuiet(c)
  <2>1. Kind[c] \in QuietKinds /\ Kind[c] # "http"
    BY <1>2 DEF StopQuiet, QuietKinds
  <2>2. Kind[c] # "subscriptions" => inflight[c] = 0
    BY <1>i, <1>o, <2>1, KindFacts, Bounds
  <2> QED BY <1>2, <1>i, <1>s, <2>1, <2>2, HookStops DEF StopQuiet, workVars
<1>3. CASE Drained(c)
  BY <1>3, <1>i, <1>s, HookStops DEF Drained, HookStopped, workVars
<1>4. CASE GraceOver(c)
  <2>1. inflight' \in [Component -> 0..MaxInFlight] /\ inflight'[c] = 0
        /\ \A d \in Component : inflight'[d] > 0 => inflight[d] > 0
    BY <1>4, <1>i, Bounds DEF GraceOver
  <2> QED BY <1>4, <1>s, <2>1, HookStops DEF GraceOver, DrainingGRPC, HookStopped
<1>5. CASE CloseWebSockets(c) \/ ShutdownHTTP(c)
  BY <1>5, <1>i, OnItsWayDown
     DEF CloseWebSockets, ShutdownHTTP, ServingKinds, ServerKinds, workVars
<1>6. CASE ShutdownWorker(c) \/ ShutdownScheduler(c)
  BY <1>6, <1>i, OnItsWayDown
     DEF ShutdownWorker, ShutdownScheduler, ServingKinds, workVars
<1>7. CASE ShutdownGRPC(c)
  <2>1. grace' \in 0..GracefulStopTimeout
    BY <1>7, Bounds DEF ShutdownGRPC
  <2> QED BY <1>7, <2>1, OnItsWayDown DEF ShutdownGRPC, ServingKinds, ServerKinds, workVars
<1> QED BY <1>1, <1>2, <1>3, <1>4, <1>5, <1>6, <1>7 DEF StopHook

-----------------------------------------------------------------------------
(* The invariant and what follows from it *)

\* A process that has built nothing is in order.
LEMMA LifeInit == Init => LifeInv
<1> SUFFICES ASSUME Init
             PROVE  LifeInv
  OBVIOUS
<1> USE DEF Init
<1>1. FaultOK
  BY Codes DEF FaultOK, Upward, Phases
<1>2. GraphTypes /\ CountTypes /\ HeldTypes
  BY Bounds DEF GraphTypes, CountTypes, HeldTypes, Stages
<1>3. StackOK /\ PlacesOK /\ PhaseOK /\ SocketsOK
  BY Codes DEF StackOK, PlacesOK, PhaseOK, SocketsOK
<1>4. ASSUME NEW c \in Component
      PROVE  Held(c) /\ Occupied(c) /\ Fed(c)
  BY Codes DEF Held, Occupied, Fed, Started, Upward
<1> QED BY <1>1, <1>2, <1>3, <1>4 DEF LifeInv

\* One case per action.
LEMMA LifeStep == LifeInv /\ [Next]_vars => LifeInv'
<1> SUFFICES ASSUME LifeInv, [Next]_vars
             PROVE  LifeInv'
  OBVIOUS
<1>1. FaultOK'
  BY FaultStep DEF LifeInv
<1>2. CASE UNCHANGED vars
  <2> USE <1>2 DEF vars, buildVars, workVars, sigVars
  <2>1. (GraphTypes /\ CountTypes /\ HeldTypes)'
    BY DEF LifeInv, GraphTypes, CountTypes, HeldTypes
  <2>2. (invocations \in Programs /\ StackOK /\ PlacesOK /\ PhaseOK /\ SocketsOK)'
    BY DEF LifeInv, StackOK, PlacesOK, PhaseOK, SocketsOK, Started
  <2>3. ASSUME NEW c \in Component
        PROVE  Held(c)' /\ Occupied(c)' /\ Fed(c)'
    BY DEF LifeInv, Held, Occupied, Fed, Started, Conn
  <2> QED BY <1>1, <2>1, <2>2, <2>3 DEF LifeInv
<1>3. CASE Build
  BY <1>1, <1>3, InvokeStep, ResolveStep, ConstructStep, RunStep DEF Build
<1> QED BY <1>1, <1>2, <1>3, RunStep, StartStep, StopStep, WorkStep DEF Next, Run

\* The lifecycle keeps its invariant.
LEMMA LifeAlways == Spec => []LifeInv
  BY LifeInit, LifeStep, PTL DEF Spec

\* Every variable of a process keeps its type, whatever is built, started and
\* stopped; no more hooks are ever started than were appended.
THEOREM TypeCorrect == Spec => []TypeOK
<1>1. LifeInv => TypeOK
  BY DEF LifeInv, GraphTypes, CountTypes, HeldTypes, FaultOK, TypeOK
<1> QED BY <1>1, LifeAlways, PTL

\* A start that failed half way, or any other end after which every hook is
\* stopped, leaves no server accepting and no subscription receiving.
THEOREM RolledBack == Spec => []FailedStartIsUndone
<1>1. ASSUME LifeInv, exit # NoCode, numStarted = 0, NEW c \in Component
      PROVE  ~Accepting(c)
  <2>1. phase \notin Upward
    BY <1>1 DEF LifeInv, FaultOK, Upward
  <2>2. \A d \in Component : ~Started(d)
    BY <1>1 DEF Started
  <2>3. ~(goroutine[c] = "serving" /\ st[c] \in {"up", "silenced"})
    BY <1>1, <2>2 DEF LifeInv, Held
  <2>4. ~Delivering(c)
    <3>1. SUFFICES ASSUME Delivering(c)
                   PROVE  FALSE
      OBVIOUS
    <3>2. PICK i \in DOMAIN Params[c] : Kind[Params[c][i]] = "subscriber"
      BY <3>1, SubscriptionsAssumption DEF Delivering
    <3>3. PICK d \in Component : d = Params[c][i]
      BY ParamsAre
    <3>4. st[d] = "up"
      BY <3>1, <3>2, <3>3 DEF Delivering
    <3>5. st[d] = "down" \/ Kind[d] \in QuietKinds
      BY <1>1, <2>2, <3>1, <3>3 DEF LifeInv, Fed, Delivering
    <3> QED BY <3>2, <3>3, <3>4, <3>5 DEF QuietKinds
  <2> QED BY <2>3, <2>4 DEF Accepting
<1>2. LifeInv => FailedStartIsUndone
  BY <1>1 DEF FailedStartIsUndone
<1> QED BY <1>2, LifeAlways, PTL

\* A process that leaves with 0 has stopped everything: no connection is open and
\* nothing takes work.
THEOREM CleanExit == Spec => []CleanExitIsClean
<1>1. FailedStartIsUndone /\ LifeInv => CleanExitIsClean
  <2> SUFFICES ASSUME FailedStartIsUndone, LifeInv, exit = 0, NEW c \in Component
               PROVE  ~Accepting(c) /\ (Conn(c) => st[c] # "up")
    BY DEF CleanExitIsClean
  <2>1. numStarted = 0 /\ exit # NoCode
    BY Codes DEF LifeInv, PhaseOK
  <2>2. ~Accepting(c)
    BY <2>1 DEF FailedStartIsUndone
  <2>3. ASSUME Conn(c)
        PROVE  st[c] # "up"
    <3>1. ~Started(c) /\ Kind[c] \notin QuietKinds
      BY <2>1, <2>3, KindFacts DEF Started
    <3>2. pos[c] = 0 \/ pos[c] > 0
      BY DEF LifeInv, GraphTypes
    <3> QED BY <3>1, <3>2 DEF LifeInv, Held
  <2> QED BY <2>2, <2>3
<1> QED BY <1>1, RolledBack, LifeAlways, PTL

\* One HTTP server is built: the sockets are its own.
OneHTTP ==
    \A c, d \in Component :
        Kind[c] = "http" /\ Kind[d] = "http" /\ pos[c] > 0 /\ pos[d] > 0 => c = d

\* The root context of the subscriptions is built after what their handlers use,
\* so that it is cancelled before that is closed.
RootAfterInfra ==
    \A c \in Component : Kind[c] = "subscriptions" /\ pos[c] > 0 =>
        \E i \in DOMAIN Params[c] :
            Kind[Params[c][i]] = "root" /\ \A d \in Uses(c) : pos[d] < pos[Params[c][i]]

\* What stands before a started hook has started, and holds what it should.
LEMMA BeforeStarted ==
  ASSUME LifeInv, NEW c \in Component, Started(c),
         NEW d \in Component, pos[d] > 0, pos[d] < pos[c],
         Conn(d) \/ Kind[d] = "worker"
  PROVE  st[d] = "up"
<1>1. Started(d) /\ pos[d] # numStarted
  BY DEF LifeInv, GraphTypes, CountTypes, Started
<1>2. Kind[d] = "worker" => Kind[d] \in ServingKinds
  BY DEF ServingKinds
<1> QED BY <1>1, <1>2 DEF LifeInv, Held

\* Nothing is closed under work that has not been told to end, wherever the build
\* came out with one HTTP server and with the subscriptions' root context behind
\* what their handlers use.
THEOREM InfraOutlivesWork == Spec => [](OneHTTP /\ RootAfterInfra => WorkHasItsInfra)
<1>1. ASSUME LifeInv, OneHTTP, RootAfterInfra, NEW c \in Component, AtWork(c),
             NEW d \in Uses(c)
      PROVE  st[d] = "up"
  <2>1. PICK i \in DOMAIN Params[c] :
           d = Params[c][i] /\ Kind[d] \in (ConnKinds \ {"subscriber"}) \cup {"worker"}
    BY <1>1 DEF Uses
  <2>2. d \in Component /\ (Conn(d) \/ Kind[d] = "worker")
    BY <2>1, ParamsAre DEF Conn
  <2>3. ASSUME pos[c] > 0
        PROVE  pos[d] > 0 /\ pos[d] < pos[c]
    <3>1. PICK p \in Component : p = Params[c][i] /\ pos[p] \in Nat \ {0} /\ pos[p] < pos[c]
      BY <1>1, <2>3, ParamPlaces DEF LifeInv
    <3> QED BY <2>1, <3>1
  <2>4. CASE Started(c)
    <3>1. pos[c] > 0
      BY <2>4, <1>1 DEF Started, LifeInv, CountTypes
    <3> QED BY <1>1, <2>2, <2>3, <2>4, <3>1, BeforeStarted
  <2>5. CASE Kind[c] = "http" /\ pos[c] > 0 /\ sockets > 0
    <3>1. PICK e \in Component : Kind[e] = "http" /\ Started(e)
      BY <1>1, <2>5 DEF LifeInv, SocketsOK
    <3>2. pos[e] > 0
      BY <1>1, <3>1 DEF Started, LifeInv, CountTypes
    <3>3. e = c
      BY <1>1, <2>5, <3>1, <3>2 DEF OneHTTP
    <3> QED BY <2>4, <3>1, <3>3
  <2>6. CASE inflight[c] > 0 /\ ~Told(c) /\ Kind[c] = "subscriptions"
    <3>1. subscribed > 0
      BY <1>1, <2>6 DEF LifeInv, Occupied
    <3>2. pos[c] > 0
      BY <1>1, <2>6, <3>1 DEF LifeInv, Fed
    <3>3. PICK j \in DOMAIN Params[c] :
             Kind[Params[c][j]] = "root" /\ pos[d] < pos[Params[c][j]]
      BY <1>1, <2>6, <3>2 DEF RootAfterInfra
    <3>4. PICK r \in Component : r = Params[c][j]
      BY ParamsAre
    <3>5. st[r] # "down"
      BY <2>6, <3>3, <3>4 DEF Told
    <3>6. Started(r)
      BY <1>1, <2>6, <3>1, <3>3, <3>4, <3>5 DEF LifeInv, Fed, QuietKinds
    <3> QED BY <1>1, <2>2, <2>3, <3>2, <3>3, <3>4, <3>6, BeforeStarted
  <2>7. inflight[c] > 0 /\ Kind[c] # "subscriptions" => Started(c)
    BY <1>1 DEF LifeInv, Occupied
  <2> QED BY <1>1, <2>4, <2>5, <2>6, <2>7 DEF AtWork
<1>2. LifeInv => (OneHTTP /\ RootAfterInfra => WorkHasItsInfra)
  BY <1>1 DEF WorkHasItsInfra
<1> QED BY <1>2, LifeAlways, PTL

=============================================================================
