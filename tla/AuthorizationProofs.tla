------------------------ MODULE AuthorizationProofs ------------------------
(***************************************************************************)
(* Two parts of authorization, proved side by side; they share no state.   *)
(*                                                                         *)
(* Scopes: the policy NewScopeImplications resolves is the transitive      *)
(* closure of its table, for every table over any set of scopes.  The      *)
(* recursion needs no induction over the table.  The frames of the stack   *)
(* carry it: what a frame has gathered is made of names that are resolved, *)
(* and each frame implies the frames above it.                             *)
(*                                                                         *)
(* Resource rules: what the order handlers write is what their rule        *)
(* allowed, for any orders, callers, limits and amounts.  OrdersInv says   *)
(* of a handler what it has read and been allowed, and of an order who     *)
(* wrote it last and what that request wrote.                              *)
(***************************************************************************)
EXTENDS ScopeImplications, Orders, TLAPS

-----------------------------------------------------------------------------
(* Scopes: the inductive invariant *)

\* The table the walk reads: no scope in its own row, no row for a scope the
\* application did not list, and no row for the empty name.
RowsOK ==
    /\ \A s \in Scopes : s \notin direct[s]
    /\ \A s \in Scopes : s \notin DOMAIN table => direct[s] = {}
    /\ DOMAIN table \subseteq Names /\ \A s \in DOMAIN table : table[s] \subseteq Names
    /\ result \in {"resolve", "cycle", "done"} => DOMAIN table \subseteq Scopes

\* Nothing has happened before the table is normalised, and no row is left out
\* when the walk is done.
Fresh ==
    /\ result = "normalize" =>
        stack = <<>> /\ \A s \in Scopes : state[s] = "unvisited"
    /\ result = "done" => \A s \in DOMAIN table : state[s] = "resolved"

\* What a resolved scope implies is resolved, and does not hold the scope.  No
\* other scope implies anything yet.
ResolvedOK ==
    \A s \in Scopes :
        /\ state[s] = "resolved" =>
            s \notin closure[s] /\ \A r \in closure[s] : state[r] = "resolved"
        /\ state[s] # "resolved" => closure[s] = {}

\* The names frame f has taken.
Taken(f) == direct[f.scope] \ f.todo

FrameOK(f) ==
    /\ state[f.scope] = "visiting"
    /\ f.todo \subseteq direct[f.scope]
    /\ \A n \in Taken(f) : state[n] = "resolved"
    /\ f.out = Taken(f) \cup UNION {closure[n] : n \in Taken(f)}

\* The frames are the scopes being walked, each once, each implying the ones
\* above it.
StackOK ==
    /\ \A i \in DOMAIN stack : FrameOK(stack[i])
    /\ \A s \in Scopes : state[s] = "visiting" => \E i \in DOMAIN stack : stack[i].scope = s
    /\ \A i, j \in DOMAIN stack : i < j =>
        stack[i].scope # stack[j].scope /\ Reaches(stack[i].scope, stack[j].scope)

IInv == TypeOK /\ RowsOK /\ Fresh /\ ClosureIsExact /\ ResolvedOK /\ StackOK /\ CycleIsReal

-----------------------------------------------------------------------------
(* Facts about a table that does not change *)

\* Reaching, closure and cycles are about the table alone.
LEMMA SameTable ==
    ASSUME direct' = direct
    PROVE  /\ \A s, r : Reaches(s, r)' <=> Reaches(s, r)
           /\ \A s, T : IsReach(s, T)' <=> IsReach(s, T)
           /\ Cycle' <=> Cycle
  BY DEF Reaches, IsReach, ClosedSet, Cycle

\* A name of a row is implied, and so is everything it implies.
LEMMA StepReaches ==
    ASSUME TypeOK, NEW s \in Scopes, NEW t \in Scopes, NEW n \in direct[t]
    PROVE  /\ Reaches(t, n)
           /\ Reaches(s, t) => Reaches(s, n)
  BY DEF TypeOK, Reaches, ClosedSet

\* A frame that has taken its whole row holds exactly what its scope implies.
LEMMA FullFrame ==
    ASSUME TypeOK, ClosureIsExact, NEW f \in Frame, FrameOK(f), f.todo = {}
    PROVE  IsReach(f.scope, f.out)
<1> DEFINE row == direct[f.scope]
<1>0. row \in SUBSET Scopes /\ f.out = row \cup UNION {closure[n] : n \in row}
  BY DEF TypeOK, Frame, FrameOK, Taken
<1>1. \A n \in row : IsReach(n, closure[n])
  BY <1>0 DEF FrameOK, Taken, ClosureIsExact
<1>2. row \subseteq f.out
  BY <1>0
<1>3. ClosedSet(f.out)
  <2> SUFFICES ASSUME NEW x \in f.out PROVE direct[x] \subseteq f.out
    BY DEF ClosedSet
  <2>1. CASE x \in row
    BY <2>1, <1>0, <1>1 DEF IsReach
  <2>2. CASE \E n \in row : x \in closure[n]
    <3> PICK n \in row : x \in closure[n] BY <2>2
    <3> QED BY <1>0, <1>1 DEF IsReach, ClosedSet
  <2> QED BY <2>1, <2>2, <1>0
<1>4. ASSUME NEW S \in SUBSET Scopes, ClosedSet(S), row \subseteq S
      PROVE  f.out \subseteq S
  <2> SUFFICES ASSUME NEW n \in row PROVE closure[n] \subseteq S
    BY <1>4, <1>0
  <2> QED BY <1>4, <1>1 DEF IsReach, ClosedSet
<1> QED BY <1>2, <1>3, <1>4 DEF IsReach

-----------------------------------------------------------------------------
(* The steps *)

\* A table that has not been read is in order.
LEMMA InitInv == Init => IInv
<1> SUFFICES ASSUME Init PROVE IInv OBVIOUS
<1> USE DEF Init
<1>1. TypeOK BY DEF TypeOK, Nothing
<1>2. RowsOK BY DEF RowsOK, Nothing, Tables, Names
<1>3. Fresh /\ CycleIsReal BY DEF Fresh, CycleIsReal
<1>4. ClosureIsExact /\ ResolvedOK BY DEF ClosureIsExact, ResolvedOK, Nothing
<1>5. StackOK BY DEF StackOK
<1> QED BY <1>1, <1>2, <1>3, <1>4, <1>5 DEF IInv

\* normalize refuses an empty name and drops what a scope says of itself.
LEMMA NormalizeInv == IInv /\ normalize => IInv'
<1> SUFFICES ASSUME IInv, normalize PROVE IInv' OBVIOUS
<1> USE DEF IInv, normalize
<1>0. stack = <<>> /\ \A s \in Scopes : state[s] = "unvisited"
  BY DEF Fresh
<1>1. TypeOK'
  <2>1. direct' \in [Scopes -> SUBSET Scopes]
    <3>1. CASE direct' = direct BY <3>1 DEF TypeOK
    <3>2. CASE ~(Empty \in DOMAIN table \/ \E s \in DOMAIN table : Empty \in table[s])
      <4> SUFFICES ASSUME NEW s \in Scopes, s \in DOMAIN table
                   PROVE  table[s] \ {s} \subseteq Scopes
        BY <3>2
      <4>1. table[s] \subseteq Names
        BY DEF RowsOK
      <4> QED BY <4>1, <3>2 DEF Names
    <3> QED BY <3>1, <3>2
  <2> QED BY <2>1 DEF TypeOK
<1>2. RowsOK' BY DEF RowsOK, TypeOK, Names
<1>3. Fresh' /\ CycleIsReal' BY DEF Fresh, CycleIsReal
<1>4. ClosureIsExact' /\ ResolvedOK' BY <1>0 DEF ClosureIsExact, ResolvedOK
<1>5. StackOK' BY <1>0 DEF StackOK
<1> QED BY <1>1, <1>2, <1>3, <1>4, <1>5

\* A call of resolve is entered from the loop or from the frame below it.
LEMMA EnterInv ==
    ASSUME IInv, NEW s \in Scopes, state[s] = "unvisited", Enter(s, stack),
           result = "resolve",
           UNCHANGED <<table, direct, closure, result>>,
           stack # <<>> => s \in direct[Top.scope]
    PROVE  IInv'
<1> USE DEF IInv
<1> DEFINE frame == [scope |-> s, todo |-> direct[s], out |-> {}]
<1>x. /\ Len(stack) \in Nat /\ stack \in Seq(Frame)
      /\ DOMAIN stack = 1..Len(stack)
      /\ \A i \in DOMAIN stack : stack[i] \in Frame
  BY DEF TypeOK
<1>y. frame \in Frame
  BY DEF TypeOK, Frame
<1>z. stack' = Append(stack, frame)
  BY DEF Enter
<1> HIDE DEF frame
<1>0. /\ stack' \in Seq(Frame) /\ Len(stack') = Len(stack) + 1
      /\ stack'[Len(stack) + 1] = frame
      /\ \A i \in DOMAIN stack : stack'[i] = stack[i] /\ stack[i] \in Frame
      /\ DOMAIN stack = 1..Len(stack) /\ DOMAIN stack' = 1..(Len(stack) + 1)
      /\ Len(stack) \in Nat
  BY <1>x, <1>y, <1>z
<1>a. state' = [state EXCEPT ![s] = "visiting"]
  BY DEF Enter
<1>b. /\ \A r \in Scopes : state'[r] = "resolved" <=> state[r] = "resolved"
      /\ \A r \in Scopes : state[r] = "visiting" => state'[r] = "visiting"
      /\ \A r \in Scopes : state'[r] = "visiting" => state[r] = "visiting" \/ r = s
      /\ state'[s] = "visiting"
  BY <1>a DEF TypeOK
<1>1. TypeOK' BY <1>0, <1>a DEF TypeOK
<1>2. RowsOK' /\ Fresh' BY DEF RowsOK, Fresh
<1>3. CycleIsReal' BY SameTable DEF CycleIsReal
<1>4. ClosureIsExact' BY <1>b, SameTable DEF ClosureIsExact
<1>5. ResolvedOK' BY <1>b DEF ResolvedOK, TypeOK
<1>6. StackOK'
  <2>1. ASSUME NEW i \in DOMAIN stack' PROVE FrameOK(stack[i])'
    <3>1. CASE i \in DOMAIN stack
      <4>1. FrameOK(stack[i]) /\ stack[i].scope \in Scopes
        BY <3>1, <1>0 DEF StackOK, Frame
      <4>2. Taken(stack[i]) \subseteq Scopes
        BY <4>1 DEF Taken, TypeOK
      <4>3. stack'[i] = stack[i] BY <3>1, <1>0
      <4> QED BY <4>1, <4>2, <4>3, <1>b DEF FrameOK, Taken
    <3>2. CASE i = Len(stack) + 1
      <4>1. stack'[i] = frame BY <3>2, <1>0
      <4> QED BY <4>1, <1>b DEF frame, FrameOK, Taken
    <3> QED BY <3>1, <3>2, <1>0
  <2>2. ASSUME NEW r \in Scopes, state'[r] = "visiting"
        PROVE  \E i \in DOMAIN stack' : stack'[i].scope = r
    <3>1. CASE r = s
      <4>1. Len(stack) + 1 \in DOMAIN stack' /\ stack'[Len(stack) + 1].scope = s
        BY <1>0 DEF frame
      <4> QED BY <4>1, <3>1
    <3>2. CASE state[r] = "visiting"
      <4>1. PICK i \in DOMAIN stack : stack[i].scope = r BY <3>2 DEF StackOK
      <4>2. i \in DOMAIN stack' /\ stack'[i].scope = r BY <4>1, <1>0
      <4> QED BY <4>2
    <3> QED BY <2>2, <3>1, <3>2, <1>b
  <2>3. ASSUME NEW i \in DOMAIN stack', NEW j \in DOMAIN stack', i < j
        PROVE  stack'[i].scope # stack'[j].scope
                /\ Reaches(stack'[i].scope, stack'[j].scope)
    <3>1. CASE j \in DOMAIN stack
      BY <2>3, <3>1, <1>0 DEF StackOK
    <3>2. CASE j = Len(stack) + 1
      <4>1. i \in DOMAIN stack /\ stack # <<>> /\ stack'[i] = stack[i]
            /\ stack'[j].scope = s /\ Len(stack) \in DOMAIN stack
            /\ stack[i].scope \in Scopes /\ Top.scope \in Scopes
        BY <2>3, <3>2, <1>0 DEF frame, Frame, Top
      <4>2. stack[i].scope # s
        BY <4>1 DEF StackOK, FrameOK
      <4>3. Reaches(Top.scope, s)
            /\ (Reaches(stack[i].scope, Top.scope) => Reaches(stack[i].scope, s))
        BY <4>1, StepReaches
      <4>4. stack[i].scope = Top.scope \/ Reaches(stack[i].scope, Top.scope)
        BY <4>1, <1>0 DEF StackOK, Top
      <4> QED BY <4>1, <4>2, <4>3, <4>4
    <3> QED BY <3>1, <3>2, <1>0
  <2>4. \A i, j \in DOMAIN stack' : i < j =>
            (stack[i].scope # stack[j].scope)' /\ Reaches(stack[i].scope, stack[j].scope)'
    BY <2>3, SameTable
  <2> QED BY <2>1, <2>2, <2>4 DEF StackOK
<1> QED BY <1>1, <1>2, <1>3, <1>4, <1>5, <1>6

\* The walk turns to the next row.
LEMMA NextRowInv == IInv /\ NextRow => IInv'
<1> SUFFICES ASSUME IInv, NextRow PROVE IInv' OBVIOUS
<1>1. CASE Unresolved = {}
  <2> USE <1>1 DEF IInv, NextRow
  <2>1. TypeOK' /\ RowsOK' /\ Fresh' BY DEF TypeOK, RowsOK, Fresh, Unresolved
  <2>2. ClosureIsExact' BY SameTable DEF ClosureIsExact
  <2>3. ResolvedOK' BY DEF ResolvedOK
  <2>4. StackOK' BY DEF StackOK
  <2>5. CycleIsReal' BY DEF CycleIsReal
  <2> QED BY <2>1, <2>2, <2>3, <2>4, <2>5
<1>2. CASE Unresolved # {}
  <2>1. PICK s \in Unresolved : Enter(s, stack) BY <1>2 DEF NextRow
  <2>2. /\ result = "resolve" /\ stack = <<>>
        /\ UNCHANGED <<table, direct, closure, result>>
    BY <1>2 DEF NextRow
  <2>3. s \in Scopes /\ state[s] # "resolved"
    BY <2>2 DEF IInv, RowsOK, Unresolved
  <2>4. state[s] # "visiting"
    BY <2>2, <2>3 DEF IInv, StackOK
  <2>5. state[s] = "unvisited"
    BY <2>3, <2>4 DEF IInv, TypeOK
  <2> QED BY <2>1, <2>2, <2>3, <2>5, EnterInv
<1> QED BY <1>1, <1>2

\* The top frame takes a name that is resolved.
LEMMA TakeInv ==
    ASSUME IInv, NEW name \in Scopes, result = "resolve", stack # <<>>,
           name \in Top.todo, state[name] = "resolved", stack' = Implied(name),
           UNCHANGED <<table, direct, closure, state, result>>
    PROVE  IInv'
<1> USE DEF IInv
<1> DEFINE n == Len(stack)
           new == [scope |-> Top.scope, todo |-> Top.todo \ {name},
                   out |-> Top.out \cup {name} \cup closure[name]]
<1>1. /\ stack \in Seq(Frame) /\ n \in DOMAIN stack /\ DOMAIN stack = 1..n
      /\ \A i \in DOMAIN stack : stack[i] \in Frame
      /\ Top \in Frame
  BY DEF TypeOK, Top
<1>2. closure[name] \in SUBSET Scopes BY DEF TypeOK
<1>3. new \in Frame BY <1>1, <1>2 DEF Frame
<1>4. stack' = [stack EXCEPT ![n] = new] BY DEF Implied, Top
<1> HIDE DEF new
<1>5. /\ stack' \in Seq(Frame) /\ DOMAIN stack' = DOMAIN stack
      /\ stack'[n] = new
      /\ \A i \in DOMAIN stack : i # n => stack'[i] = stack[i]
  BY <1>1, <1>3, <1>4
<1>6. new.scope = Top.scope /\ \A i \in DOMAIN stack : stack'[i].scope = stack[i].scope
  BY <1>5 DEF new, Top
<1>7. FrameOK(new)
  <2>1. FrameOK(Top) BY <1>1 DEF StackOK, Top
  <2>2. Taken(new) = Taken(Top) \cup {name}
    BY <2>1 DEF new, Taken, FrameOK
  <2>3. new.out = Taken(new) \cup UNION {closure[x] : x \in Taken(new)}
    BY <2>1, <2>2 DEF new, FrameOK
  <2> QED BY <2>1, <2>2, <2>3 DEF new, FrameOK
<1>a. TypeOK' /\ RowsOK' /\ Fresh' BY <1>5 DEF TypeOK, RowsOK, Fresh
<1>b. ClosureIsExact' BY SameTable DEF ClosureIsExact
<1>c. ResolvedOK' BY DEF ResolvedOK
<1>d. CycleIsReal' BY DEF CycleIsReal
<1>e. StackOK'
  <2>1. ASSUME NEW i \in DOMAIN stack' PROVE FrameOK(stack[i])'
    <3>1. CASE i = n
      <4>1. stack'[i] = new BY <3>1, <1>5
      <4> QED BY <4>1, <1>7 DEF FrameOK, Taken
    <3>2. CASE i # n
      <4>1. stack'[i] = stack[i] /\ FrameOK(stack[i]) BY <3>2, <1>5 DEF StackOK
      <4> QED BY <4>1 DEF FrameOK, Taken
    <3> QED BY <3>1, <3>2
  <2>2. \A r \in Scopes : state'[r] = "visiting" => \E i \in DOMAIN stack' : stack'[i].scope = r
    BY <1>5, <1>6 DEF StackOK
  <2>3. \A i, j \in DOMAIN stack' : i < j =>
            (stack[i].scope # stack[j].scope)' /\ Reaches(stack[i].scope, stack[j].scope)'
    BY <1>5, <1>6, SameTable DEF StackOK
  <2> QED BY <2>1, <2>2, <2>3 DEF StackOK
<1> QED BY <1>a, <1>b, <1>c, <1>d, <1>e

\* A scope reached again while it is walked is a cycle: its frame implies the
\* top frame, and the top frame's row names it.
LEMMA CycleInv ==
    ASSUME IInv, NEW name \in Scopes, result = "resolve", stack # <<>>,
           name \in Top.todo, state[name] = "visiting", result' = "cycle",
           UNCHANGED <<table, direct, closure, state, stack>>
    PROVE  IInv'
<1> USE DEF IInv
<1>0. /\ stack \in Seq(Frame) /\ Len(stack) \in DOMAIN stack
      /\ DOMAIN stack = 1..Len(stack) /\ Top \in Frame
  BY DEF TypeOK, Top
<1>1. Len(stack) \in DOMAIN stack /\ DOMAIN stack = 1..Len(stack) /\ Top.scope \in Scopes
  BY <1>0 DEF Frame
<1>2. name \in direct[Top.scope]
  BY <1>1 DEF StackOK, FrameOK, Top
<1>3. PICK i \in DOMAIN stack : stack[i].scope = name
  BY DEF StackOK
<1>4. name # Top.scope
  BY <1>1, <1>2 DEF RowsOK
<1>5. Reaches(name, Top.scope)
  BY <1>1, <1>3, <1>4 DEF StackOK, Top
<1>6. Reaches(Top.scope, name)
  BY <1>1, <1>2, StepReaches
<1>7. Cycle'
  BY <1>1, <1>4, <1>5, <1>6, SameTable DEF Cycle
<1>a. TypeOK' /\ RowsOK' /\ Fresh' BY DEF TypeOK, RowsOK, Fresh
<1>b. ClosureIsExact' BY SameTable DEF ClosureIsExact
<1>c. ResolvedOK' BY DEF ResolvedOK
<1>d. CycleIsReal' BY <1>7 DEF CycleIsReal
<1>e. StackOK'
  <2>1. \A k \in DOMAIN stack' : FrameOK(stack[k])'
    BY DEF StackOK, FrameOK, Taken
  <2>2. \A k, j \in DOMAIN stack' : k < j =>
            (stack[k].scope # stack[j].scope)' /\ Reaches(stack[k].scope, stack[j].scope)'
    BY SameTable DEF StackOK
  <2> QED BY <2>1, <2>2 DEF StackOK
<1> QED BY <1>a, <1>b, <1>c, <1>d, <1>e

\* One name of a row: into its own row, past a resolved one, or onto a cycle.
LEMMA ResolveInv == ASSUME NEW name \in Scopes, IInv, resolve(name) PROVE IInv'
<1>1. CASE state[name] = "resolved"
  BY <1>1, TakeInv DEF resolve
<1>2. CASE state[name] = "visiting"
  BY <1>2, CycleInv DEF resolve
<1>3. CASE state[name] = "unvisited"
  <2>1. /\ Enter(name, stack) /\ result = "resolve" /\ stack # <<>> /\ name \in Top.todo
        /\ UNCHANGED <<table, direct, closure, result>>
    BY <1>3 DEF resolve
  <2>2. name \in direct[Top.scope]
    BY <2>1 DEF IInv, TypeOK, StackOK, FrameOK, Top
  <2> QED BY <1>3, <2>1, <2>2, EnterInv
<1> QED BY <1>1, <1>2, <1>3 DEF IInv, TypeOK

\* A call returns: its frame holds exactly what its scope implies, all of it
\* resolved, so the scope, which was being walked, is not in it.
LEMMA ReturnsInv == IInv /\ resolveReturns => IInv'
<1> SUFFICES ASSUME IInv, resolveReturns PROVE IInv' OBVIOUS
<1> USE DEF IInv
<1> DEFINE n == Len(stack)
           t == Top.scope
<1>0. /\ stack \in Seq(Frame) /\ n \in Nat /\ n >= 1 /\ n \in DOMAIN stack
      /\ DOMAIN stack = 1..n
      /\ \A i \in DOMAIN stack : stack[i] \in Frame
      /\ Top \in Frame /\ Top.todo = {}
  BY DEF TypeOK, Top, resolveReturns
<1>1. /\ stack \in Seq(Frame) /\ n \in Nat /\ n >= 1 /\ n \in DOMAIN stack
      /\ DOMAIN stack = 1..n
      /\ \A i \in DOMAIN stack : stack[i] \in Frame /\ stack[i].scope \in Scopes
      /\ Top \in Frame /\ t \in Scopes /\ Top.out \in SUBSET Scopes /\ Top.todo = {}
  BY <1>0 DEF Frame
<1>2. /\ stack' = SubSeq(stack, 1, n - 1) /\ stack' \in Seq(Frame)
      /\ DOMAIN stack' = 1..(n - 1)
      /\ \A i \in DOMAIN stack' : stack'[i] = stack[i] /\ i \in DOMAIN stack /\ i # n
  BY <1>1 DEF resolveReturns
<1>3. /\ state' = [state EXCEPT ![t] = "resolved"]
      /\ closure' = [closure EXCEPT ![t] = Top.out]
      /\ UNCHANGED <<table, direct, result>> /\ result = "resolve"
  BY DEF resolveReturns
<1>4. FrameOK(Top) /\ state[t] = "visiting"
  BY <1>1 DEF StackOK, FrameOK, Top
<1>5. IsReach(t, Top.out)
  BY <1>1, <1>4, FullFrame
<1> HIDE DEF t
<1>6. /\ state'[t] = "resolved" /\ closure'[t] = Top.out
      /\ \A s \in Scopes : s # t => state'[s] = state[s] /\ closure'[s] = closure[s]
  BY <1>1, <1>3 DEF TypeOK
<1>7. \A r \in Top.out : state[r] = "resolved"
  <2> SUFFICES ASSUME NEW r \in Top.out PROVE state[r] = "resolved" OBVIOUS
  <2>1. \A m \in Taken(Top) : state[m] = "resolved" /\ m \in Scopes
    BY <1>1, <1>4 DEF FrameOK, Taken, TypeOK, t
  <2>2. r \in Taken(Top) \/ \E m \in Taken(Top) : r \in closure[m]
    BY <1>4 DEF FrameOK
  <2> QED BY <2>1, <2>2 DEF ResolvedOK
<1>a. TypeOK' BY <1>1, <1>2, <1>3 DEF TypeOK
<1>b. RowsOK' /\ Fresh' BY <1>3 DEF RowsOK, Fresh
<1>c. CycleIsReal' BY <1>3 DEF CycleIsReal
<1>d. ClosureIsExact'
  BY <1>3, <1>5, <1>6, SameTable DEF ClosureIsExact
<1>e. ResolvedOK'
  <2>0. \A s \in Scopes : state'[s] # "resolved" => closure'[s] = {}
    BY <1>6 DEF ResolvedOK
  <2> SUFFICES ASSUME NEW s \in Scopes, state'[s] = "resolved"
               PROVE  s \notin closure'[s] /\ \A r \in closure'[s] : state'[r] = "resolved"
    BY <2>0 DEF ResolvedOK
  <2>1. CASE s = t
    BY <2>1, <1>1, <1>4, <1>6, <1>7
  <2>2. CASE s # t
    <3>1. state[s] = "resolved" /\ closure'[s] = closure[s] BY <2>2, <1>6
    <3>2. closure[s] \subseteq Scopes BY DEF TypeOK
    <3> QED BY <3>1, <3>2, <1>6 DEF ResolvedOK
  <2> QED BY <2>1, <2>2
<1>f. StackOK'
  <2>0. \A i \in DOMAIN stack' : stack[i].scope # t
    BY <1>1, <1>2 DEF StackOK, Top, t
  <2>1. ASSUME NEW i \in DOMAIN stack' PROVE FrameOK(stack[i])'
    <3>1. stack'[i] = stack[i] /\ FrameOK(stack[i]) /\ stack[i].scope \in Scopes
          /\ stack[i].scope # t
      BY <1>1, <1>2, <2>0 DEF StackOK
    <3>2. \A m \in Taken(stack[i]) : m \in Scopes /\ m # t /\ state[m] = "resolved"
      BY <3>1, <1>4 DEF FrameOK, Taken, TypeOK
    <3>3. \A m \in Taken(stack[i]) : state'[m] = "resolved" /\ closure'[m] = closure[m]
      BY <3>2, <1>6
    <3>4. state'[stack[i].scope] = "visiting"
      BY <3>1, <1>6 DEF FrameOK
    <3>5. Taken(stack[i])' = Taken(stack[i])
      BY <3>1, <1>3 DEF Taken
    <3>6. UNION {closure'[m] : m \in Taken(stack[i])} = UNION {closure[m] : m \in Taken(stack[i])}
      BY <3>3
    <3> QED BY <3>1, <3>3, <3>4, <3>5, <3>6, <1>3 DEF FrameOK
  <2>2. ASSUME NEW r \in Scopes, state'[r] = "visiting"
        PROVE  \E i \in DOMAIN stack' : stack'[i].scope = r
    <3>1. r # t /\ state[r] = "visiting" BY <2>2, <1>6
    <3>2. PICK i \in DOMAIN stack : stack[i].scope = r BY <3>1 DEF StackOK
    <3>3. i # n BY <3>1, <3>2 DEF Top, t
    <3> QED BY <3>2, <3>3, <1>1, <1>2
  <2>3. \A i, j \in DOMAIN stack' : i < j =>
            (stack[i].scope # stack[j].scope)' /\ Reaches(stack[i].scope, stack[j].scope)'
    BY <1>2, <1>3, SameTable DEF StackOK
  <2> QED BY <2>1, <2>2, <2>3 DEF StackOK
<1> QED BY <1>a, <1>b, <1>c, <1>d, <1>e, <1>f

\* A step that changes nothing.
LEMMA StutterInv == IInv /\ UNCHANGED vars => IInv'
<1> SUFFICES ASSUME IInv, UNCHANGED vars PROVE IInv' OBVIOUS
<1> USE DEF IInv, vars
<1>1. TypeOK' /\ RowsOK' /\ Fresh' /\ ResolvedOK' BY DEF TypeOK, RowsOK, Fresh, ResolvedOK
<1>2. ClosureIsExact' /\ CycleIsReal' BY SameTable DEF ClosureIsExact, CycleIsReal
<1>3. \A k \in DOMAIN stack' : FrameOK(stack[k])' BY DEF StackOK, FrameOK, Taken
<1>4. \A k, j \in DOMAIN stack' : k < j =>
          (stack[k].scope # stack[j].scope)' /\ Reaches(stack[k].scope, stack[j].scope)'
  BY SameTable DEF StackOK
<1>5. StackOK' BY <1>3, <1>4 DEF StackOK
<1> QED BY <1>1, <1>2, <1>5

\* The walk keeps its invariant.
LEMMA Invariance == Spec => []IInv
<1>1. IInv /\ [Next]_vars => IInv'
  BY NormalizeInv, NextRowInv, ResolveInv, ReturnsInv, StutterInv DEF Next
<1> QED BY <1>1, InitInv, PTL DEF Spec

\* A policy without unresolved rows has no cycle: of two scopes that imply each
\* other, the closure of one would hold the scope itself.
LEMMA ResolvedIsAcyclic ==
    ASSUME IInv, \A s \in Scopes : s \in DOMAIN table => state[s] = "resolved"
    PROVE  ~Cycle
<1> SUFFICES ASSUME NEW s \in Scopes, NEW r \in Scopes, Reaches(s, r), Reaches(r, s)
             PROVE  FALSE
  BY DEF Cycle
<1> USE DEF IInv
<1>1. direct[s] # {}
  BY DEF Reaches, ClosedSet
<1>2. state[s] = "resolved" /\ IsReach(s, closure[s]) /\ closure[s] \in SUBSET Scopes
  BY <1>1 DEF RowsOK, ClosureIsExact, TypeOK
<1>3. r \in closure[s]
  BY <1>2 DEF IsReach, Reaches
<1>4. direct[r] \subseteq closure[s]
  BY <1>2, <1>3 DEF IsReach, ClosedSet
<1>5. s \in closure[s]
  BY <1>2, <1>4 DEF IsReach, Reaches
<1> QED BY <1>2, <1>5 DEF ResolvedOK

\* Everything a caller holds is resolved or implies nothing, so that what one
\* expansion gives is closed under the table and under expansion.
LEMMA ExpandIsClosed ==
    ASSUME IInv, result = "done", NEW held \in SUBSET Scopes
    PROVE  /\ ClosedSet(Expand(held))
           /\ Expand(Expand(held)) = Expand(held)
<1> USE DEF IInv
<1>1. \A s \in Scopes :
        direct[s] \subseteq closure[s] /\ ClosedSet(closure[s]) /\ closure[s] \subseteq Scopes
  <2> SUFFICES ASSUME NEW s \in Scopes
               PROVE  direct[s] \subseteq closure[s] /\ ClosedSet(closure[s])
                        /\ closure[s] \subseteq Scopes
    OBVIOUS
  <2>1. CASE state[s] = "resolved"
    BY <2>1 DEF ClosureIsExact, IsReach, TypeOK
  <2>2. CASE state[s] # "resolved"
    <3>1. closure[s] = {} /\ direct[s] = {}
      BY <2>2 DEF ResolvedOK, Fresh, RowsOK
    <3> QED BY <3>1 DEF ClosedSet
  <2> QED BY <2>1, <2>2
<1>2. \A s \in Scopes : \A x \in closure[s] : closure[x] \subseteq closure[s]
  <2> SUFFICES ASSUME NEW s \in Scopes, NEW x \in closure[s]
               PROVE  closure[x] \subseteq closure[s]
    OBVIOUS
  <2>1. x \in Scopes /\ state[x] = "resolved"
    BY <1>1 DEF ResolvedOK
  <2>2. direct[x] \subseteq closure[s] BY <1>1 DEF ClosedSet
  <2> QED BY <2>1, <2>2, <1>1 DEF ClosureIsExact, IsReach
<1>3. ClosedSet(Expand(held))
  <2> SUFFICES ASSUME NEW x \in Expand(held) PROVE direct[x] \subseteq Expand(held)
    BY DEF ClosedSet
  <2>1. CASE x \in held
    BY <2>1, <1>1 DEF Expand
  <2>2. CASE \E s \in held : x \in closure[s]
    <3> PICK s \in held : x \in closure[s] BY <2>2
    <3>1. direct[x] \subseteq closure[s] BY <1>1 DEF ClosedSet
    <3> QED BY <3>1 DEF Expand
  <2> QED BY <2>1, <2>2 DEF Expand
<1>4. Expand(Expand(held)) \subseteq Expand(held)
  <2> SUFFICES ASSUME NEW x \in Expand(held) PROVE closure[x] \subseteq Expand(held)
    BY DEF Expand
  <2>1. CASE x \in held
    BY <2>1 DEF Expand
  <2>2. CASE \E s \in held : x \in closure[s]
    <3> PICK s \in held : x \in closure[s] BY <2>2
    <3>1. closure[x] \subseteq closure[s] BY <1>2
    <3> QED BY <3>1 DEF Expand
  <2> QED BY <2>1, <2>2 DEF Expand
<1>5. Expand(held) \subseteq Expand(Expand(held))
  BY DEF Expand
<1> QED BY <1>3, <1>4, <1>5

-----------------------------------------------------------------------------
(* The theorems *)

\* resolve keeps its tables well typed for every policy.
THEOREM TypeCorrect == Spec => []TypeOK
  BY Invariance, PTL DEF IInv

\* The memo of resolve holds exact transitive closures from the first entry on,
\* for every table.
THEOREM ClosureCorrect == Spec => []ClosureIsExact
  BY Invariance, PTL DEF IInv

\* Every cycle is refused: a policy that starts has none.
THEOREM AcyclicCorrect == Spec => []DoneIsAcyclic
<1>1. IInv => DoneIsAcyclic
  BY ResolvedIsAcyclic DEF DoneIsAcyclic, IInv, Fresh
<1> QED BY <1>1, Invariance, PTL

\* Nothing else is refused as one.
THEOREM CycleCorrect == Spec => []CycleIsReal
  BY Invariance, PTL DEF IInv

\* Expanding a caller's scopes once gives everything they imply.
THEOREM ExpandCorrect == Spec => []ExpandOnceIsEnough
<1>1. IInv => ExpandOnceIsEnough
  BY ExpandIsClosed DEF ExpandOnceIsEnough
<1> QED BY <1>1, Invariance, PTL

-----------------------------------------------------------------------------
(* Orders: the inductive invariant *)

\* The totals the map can hold: the largest int only on a processor that gives it
\* back for the amount it is shown as.
Storable == {t \in Totals : t = MaxTotal => OutOfRange = MaxTotal}

\* What the rule has been asked about, and what the handler goes on with.
Past(r) == req[r].pc \in {"authorize", "load", "save", "writing"}
Passed(r) == req[r].pc \in {"load", "save", "writing"}

BodyOK(r) ==
    /\ req[r].kind = "put" => req[r].amount \in Amounts
    /\ Past(r) => req[r].id \in Ids

ReadOK(r) ==
    Past(r) =>
        /\ req[r].read \in Shown
        /\ req[r].read.owner = Stored[req[r].id].owner
        /\ \E t \in Storable : req[r].read.amount = AsAmount(t)

PassedOK(r) ==
    Passed(r) =>
        /\ Allowed(req[r], req[r].read)
        /\ req[r].kind = "approve" => req[r].amount = req[r].read.amount
        /\ req[r].amount \in Int

LoadedOK(r) ==
    req[r].pc \in {"save", "writing"} =>
        req[r].loaded = [owner |-> Stored[req[r].id].owner,
                         total |-> int(req[r].amount), status |-> req[r].status]

\* Nobody writes twice, so the same writer means the same amount.
SinceOK(r) ==
    Past(r) =>
        /\ req[r].since # None => req[req[r].since].pc = "done"
        /\ req[r].since = writer[req[r].id]
             => req[r].read.amount = AsAmount(orders[req[r].id].total)

DoneOK(r) ==
    /\ req[r].pc # "done" => req[r].code \in {None, "request_timeout"}
    /\ req[r].pc = "done" /\ req[r].code = "ok"
         => req[r].id \in Ids /\ writer[req[r].id] # None

RequestOK(r) ==
    req[r] # Idle => /\ req[r] \in Handling
                     /\ BodyOK(r) /\ ReadOK(r) /\ PassedOK(r) /\ LoadedOK(r)
                     /\ SinceOK(r) /\ DoneOK(r)

\* What a request that has written put there, and why it might.
WrittenBy(w, i) ==
    /\ req[w] \in Handling /\ req[w].pc = "done" /\ req[w].id = i
    /\ orders[i].status = req[w].status
    /\ req[w].kind = "put" => /\ req[w].by = Stored[i].owner
                              /\ orders[i].total = int(req[w].amount)
                              /\ req[w].amount \in Amounts
    /\ req[w].kind = "approve" => /\ Limit[req[w].by] # None
                                  /\ AsAmount(orders[i].total) <= Limit[req[w].by]

OrderOK(i) ==
    /\ orders[i] \in Order
    /\ orders[i].owner = Stored[i].owner /\ orders[i].total \in Storable
    /\ writer[i] # None => WrittenBy(writer[i], i)

OrdersInv ==
    /\ OrdersTypeOK
    /\ \A r \in Request : RequestOK(r)
    /\ \A i \in Ids : OrderOK(i)
-----------------------------------------------------------------------------
(* Orders: conversions *)

\* Every total is shown as some amount.
LEMMA AmountIsInt ==
  ASSUME NEW t \in Totals
  PROVE  AsAmount(t) \in Int
  BY OrdersAssumption DEF AsAmount, Totals, MinTotal

\* What int gives is a total, for an amount of a body a storable one.
LEMMA IntIsStorable ==
  ASSUME NEW x \in Int
  PROVE  /\ int(x) \in Totals
         /\ x \in Amounts => int(x) \in Storable
<1>1. OutOfRange \in Totals /\ (OutOfRange = MaxTotal \/ OutOfRange # MaxTotal)
  BY OrdersAssumption DEF Totals, MinTotal
<1>2. x \in Amounts => x \div 2 # MaxTotal
  BY OrdersAssumption
<1> QED BY <1>1, <1>2 DEF int, Storable

\* The way out and back is exact for every storable total.
LEMMA RoundTrip ==
  ASSUME NEW t \in Storable
  PROVE  int(AsAmount(t)) = t
<1>1. t \in Int /\ MaxTotal \in Nat /\ t \in MinTotal .. MaxTotal
  BY OrdersAssumption DEF Storable, Totals, MinTotal
<1>2. CASE t = MaxTotal
  <2>1. AsAmount(t) \div 2 = MaxTotal + 1
    BY <1>1, <1>2 DEF AsAmount
  <2>2. MaxTotal + 1 \notin Totals
    BY <1>1 DEF Totals, MinTotal
  <2> QED BY <2>1, <2>2, <1>2 DEF int, Storable
<1>3. CASE t # MaxTotal
  <2>1. AsAmount(t) = 2 * t /\ (2 * t) \div 2 = t
    BY <1>1, <1>3 DEF AsAmount
  <2> QED BY <2>1, <1>1 DEF int, Totals
<1> QED BY <1>2, <1>3

\* What the handler shows of an order: its owner, and an amount.
LEMMA ShownIs ==
  ASSUME NEW m \in Order
  PROVE  /\ ToOrder(m) \in Shown
         /\ ToOrder(m).owner = m.owner /\ ToOrder(m).amount = AsAmount(m.total)
  BY AmountIsInt DEF ToOrder, Order, Shown

\* What UpdateOrder makes of the copy it is handed.
LEMMA CopyIs ==
  ASSUME NEW m \in Order, NEW total, NEW status
  PROVE  [m EXCEPT !.total = total, !.status = status]
           = [owner |-> m.owner, total |-> total, status |-> status]
<1> DEFINE copy == [m EXCEPT !.total = total, !.status = status]
           built == [owner |-> m.owner, total |-> total, status |-> status]
<1>1. /\ copy = [f \in DOMAIN m |-> copy[f]]
      /\ built = [f \in DOMAIN built |-> built[f]]
  OBVIOUS
<1>2. DOMAIN m = {"owner", "total", "status"} /\ DOMAIN built = DOMAIN m
  BY DEF Order
<1>3. \A f \in DOMAIN m : copy[f] = built[f]
  <2>1. copy.owner = m.owner /\ copy.total = total /\ copy.status = status
    BY DEF Order
  <2>2. built.owner = m.owner /\ built.total = total /\ built.status = status
    OBVIOUS
  <2> HIDE DEF copy, built
  <2> QED BY <1>2, <2>1, <2>2
<1> QED BY <1>1, <1>2, <1>3

\* A request that is being handled is not idle.
LEMMA NotIdle ==
  ASSUME NEW q \in Handling
  PROVE  q # Idle /\ q.pc \in Stages
<1>1. q.pc \in Stages
  BY DEF Handling
<1>2. Idle.pc \notin Stages
  BY DEF Idle, Stages
<1> QED BY <1>1, <1>2

-----------------------------------------------------------------------------
(* Orders: steps *)

\* The invariant holds at first: the map holds what it was given.
LEMMA InitOK == OrdersInit => OrdersInv
<1> SUFFICES ASSUME OrdersInit PROVE OrdersInv
  OBVIOUS
<1>1. \A r \in Request : req[r] = Idle /\ RequestOK(r)
  BY DEF OrdersInit, RequestOK
<1>2. ASSUME NEW i \in Ids PROVE OrderOK(i)
  <2>1. writer[i] = None /\ orders[i] = Stored[i]
    BY DEF OrdersInit, Ids
  <2>2. Stored[i].total \in Storable
    <3>1. MaxTotal \in Nat /\ Stored[i].total \in MinTotal .. (MaxTotal - 1)
      BY OrdersAssumption
    <3> QED BY <3>1 DEF Storable, Totals, MinTotal
  <2>3. Stored[i] \in Order
    <3>1. Stored[i].owner \in Owners /\ Stored[i].status \in AllStatuses
      BY DEF Owners, AllStatuses
    <3>2. Stored[i] = [owner |-> Stored[i].owner, total |-> Stored[i].total,
                       status |-> Stored[i].status]
      BY OrdersAssumption
    <3> QED BY <3>1, <3>2, <2>2 DEF Order, Storable
  <2> QED BY <2>1, <2>2, <2>3 DEF OrderOK
<1>3. OrdersTypeOK
  <2>1. orders \in [Ids -> Order]
    <3>1. orders = Stored /\ Stored = [i \in Ids |-> Stored[i]]
      BY OrdersAssumption DEF OrdersInit
    <3> QED BY <1>2, <3>1 DEF OrderOK
  <2> QED BY <2>1, <1>1 DEF OrdersInit, OrdersTypeOK, Idle
<1> QED BY <1>1, <1>2, <1>3 DEF OrdersInv

\* A step that changes one unfinished request and no order leaves the others'
\* promises as they are.
LEMMA OthersKeep ==
  ASSUME OrdersInv, NEW r \in Request, req[r].pc # "done", NEW q \in Handling,
         req' = [req EXCEPT ![r] = q], UNCHANGED <<orders, writer>>,
         alive' \in BOOLEAN, RequestOK(r)'
  PROVE  OrdersInv'
<1>1. /\ req \in [Request -> Handling \cup {Idle}]
      /\ \A s \in Request \ {r} : req'[s] = req[s]
      /\ req'[r] = q
  BY DEF OrdersInv, OrdersTypeOK
<1>2. ASSUME NEW s \in Request, req[s].pc = "done" PROVE req'[s] = req[s]
  BY <1>1, <1>2
<1>3. ASSUME NEW s \in Request PROVE RequestOK(s)'
  <2>1. CASE s = r
    BY <2>1
  <2>2. CASE s # r
    <3>1. req'[s] = req[s] /\ RequestOK(s)
      BY <1>1, <2>2 DEF OrdersInv
    <3>2. req[s] # Idle => BodyOK(s)' /\ ReadOK(s)' /\ PassedOK(s)' /\ LoadedOK(s)' /\ DoneOK(s)'
      BY <3>1 DEF RequestOK, BodyOK, ReadOK, PassedOK, LoadedOK, DoneOK, Past, Passed
    <3>3. req[s] # Idle => SinceOK(s)'
      <4> SUFFICES ASSUME req[s] # Idle, Past(s) PROVE SinceOK(s)'
        BY <3>1 DEF SinceOK, Past
      <4>1. SinceOK(s) /\ req[s].since \in Request \cup {None}
        BY <3>1 DEF RequestOK, Handling
      <4> QED BY <3>1, <4>1, <1>2 DEF SinceOK, Past
    <3> QED BY <3>1, <3>2, <3>3 DEF RequestOK
  <2> QED BY <2>1, <2>2
<1>4. ASSUME NEW i \in Ids PROVE OrderOK(i)'
  <2>1. OrderOK(i) /\ writer[i] \in Request \cup {None}
    BY DEF OrdersInv, OrdersTypeOK
  <2>2. writer[i] # None => req'[writer[i]] = req[writer[i]]
    BY <2>1, <1>2 DEF OrderOK, WrittenBy
  <2> QED BY <2>1, <2>2 DEF OrderOK, WrittenBy
<1>5. OrdersTypeOK'
  <2>1. ASSUME NEW s \in Request, req'[s].pc \in {"save", "writing"}
        PROVE  req'[s].loaded \in Order
    <3>1. CASE s # r
      BY <1>1, <2>1, <3>1 DEF OrdersInv, OrdersTypeOK
    <3>2. CASE s = r
      <4>1. RequestOK(r)' /\ q # Idle
        BY NotIdle
      <4>2. LoadedOK(r)' /\ BodyOK(r)' /\ PassedOK(r)'
        BY <4>1, <1>1 DEF RequestOK
      <4>3. /\ req'[r].loaded = [owner |-> Stored[q.id].owner,
                                 total |-> int(q.amount), status |-> q.status]
            /\ q.id \in Ids /\ q.amount \in Int
        BY <4>2, <1>1, <2>1, <3>2 DEF LoadedOK, BodyOK, PassedOK, Past, Passed
      <4>4. q.status \in AllStatuses /\ Stored[q.id].owner \in Owners
        BY <4>3 DEF Handling, Owners
      <4> QED BY <4>3, <4>4, <3>2, IntIsStorable DEF Order
    <3> QED BY <3>1, <3>2
  <2> QED BY <1>1, <2>1 DEF OrdersInv, OrdersTypeOK
<1> QED BY <1>3, <1>4, <1>5 DEF OrdersInv

\* What the invariant says of a request that is being handled.
LEMMA Current ==
  ASSUME OrdersInv, NEW r \in Request, req[r].pc # "idle"
  PROVE  /\ req[r] \in Handling
         /\ BodyOK(r) /\ ReadOK(r) /\ PassedOK(r) /\ LoadedOK(r) /\ SinceOK(r) /\ DoneOK(r)
<1>1. req[r] # Idle
  BY DEF Idle
<1> QED BY <1>1 DEF OrdersInv, RequestOK

\* An answer that is no order.
LEMMA Refused ==
  ASSUME OrdersInv, NEW r \in Request, req[r].pc \notin {"idle", "done"},
         NEW code \in Codes \ {"ok"}, Answer(r, code), UNCHANGED <<orders, alive, writer>>
  PROVE  OrdersInv'
<1> DEFINE q == [req[r] EXCEPT !.pc = "done", !.code = IF @ = None THEN code ELSE @]
<1>1. req[r] \in Handling /\ DoneOK(r) /\ req \in [Request -> Handling \cup {Idle}]
  BY Current DEF OrdersInv, OrdersTypeOK
<1>2. q \in Handling /\ q.pc = "done" /\ q.code # "ok"
  <2> DEFINE c == IF req[r].code = None THEN code ELSE req[r].code
  <2>1. c \in Codes /\ c # "ok"
    BY <1>1 DEF DoneOK, Codes
  <2> HIDE DEF c
  <2>2. [req[r] EXCEPT !.pc = "done", !.code = c] \in Handling
    BY <1>1, <2>1 DEF Handling, Stages
  <2>3. /\ [req[r] EXCEPT !.pc = "done", !.code = c].pc = "done"
        /\ [req[r] EXCEPT !.pc = "done", !.code = c].code = c
    BY <1>1 DEF Handling
  <2> QED BY <2>1, <2>2, <2>3 DEF c
<1>3. req' = [req EXCEPT ![r] = q] /\ req'[r] = q
  BY <1>1 DEF Answer
<1> HIDE DEF q
<1>4. RequestOK(r)'
  <2>1. BodyOK(r)'
    BY <1>2, <1>3, Current DEF BodyOK, Past, q
  <2>2. ReadOK(r)' /\ PassedOK(r)' /\ LoadedOK(r)' /\ SinceOK(r)'
    BY <1>2, <1>3 DEF ReadOK, PassedOK, LoadedOK, SinceOK, Past, Passed
  <2> QED BY <2>1, <2>2, <1>2, <1>3 DEF RequestOK, DoneOK
<1>5. alive' \in BOOLEAN
  BY DEF OrdersInv, OrdersTypeOK
<1> QED BY <1>2, <1>3, <1>4, <1>5, OthersKeep

\* A request that arrives has not been checked.
LEMMA ArriveKeeps ==
  ASSUME OrdersInv, NEW r \in Request, Arrive(r)
  PROVE  OrdersInv'
<1>1. PICK by \in Caller, id \in Ids \cup {UnknownId, BadId} :
         \/ \E a \in Amounts, s \in Statuses :
              req' = [req EXCEPT ![r] =
                [pc |-> "find", kind |-> "put", by |-> by, id |-> id,
                 amount |-> a, status |-> s,
                 read |-> None, loaded |-> None, since |-> None, code |-> None]]
         \/ req' = [req EXCEPT ![r] =
                [pc |-> "find", kind |-> "approve", by |-> by, id |-> id,
                 amount |-> None, status |-> approvedStatus,
                 read |-> None, loaded |-> None, since |-> None, code |-> None]]
  BY DEF Arrive
<1>2. Statuses \cup {approvedStatus} \subseteq AllStatuses /\ Amounts \subseteq Int
  BY OrdersAssumption DEF AllStatuses
<1>3. PICK q \in Handling :
         /\ req' = [req EXCEPT ![r] = q] /\ q.pc = "find" /\ q.code = None
         /\ q.kind = "put" => q.amount \in Amounts
  <2>1. CASE req' = [req EXCEPT ![r] =
                [pc |-> "find", kind |-> "approve", by |-> by, id |-> id,
                 amount |-> None, status |-> approvedStatus,
                 read |-> None, loaded |-> None, since |-> None, code |-> None]]
    <3> DEFINE q == [pc |-> "find", kind |-> "approve", by |-> by, id |-> id,
                     amount |-> None, status |-> approvedStatus,
                     read |-> None, loaded |-> None, since |-> None, code |-> None]
    <3>1. approvedStatus \in AllStatuses
      BY <1>2
    <3>2. q \in Handling /\ q.pc = "find" /\ q.code = None /\ q.kind = "approve"
      BY <3>1 DEF Handling, Stages
    <3> QED BY <2>1, <3>2
  <2>2. CASE \E a \in Amounts, s \in Statuses :
              req' = [req EXCEPT ![r] =
                [pc |-> "find", kind |-> "put", by |-> by, id |-> id,
                 amount |-> a, status |-> s,
                 read |-> None, loaded |-> None, since |-> None, code |-> None]]
    <3>1. PICK a \in Amounts, s \in Statuses :
              req' = [req EXCEPT ![r] =
                [pc |-> "find", kind |-> "put", by |-> by, id |-> id,
                 amount |-> a, status |-> s,
                 read |-> None, loaded |-> None, since |-> None, code |-> None]]
      BY <2>2
    <3> DEFINE q == [pc |-> "find", kind |-> "put", by |-> by, id |-> id,
                     amount |-> a, status |-> s,
                     read |-> None, loaded |-> None, since |-> None, code |-> None]
    <3>2. a \in Int /\ s \in AllStatuses
      BY <1>2
    <3>3. q \in Handling /\ q.pc = "find" /\ q.code = None /\ q.amount \in Amounts
      BY <3>2 DEF Handling, Stages
    <3> QED BY <3>1, <3>3
  <2> QED BY <1>1, <2>1, <2>2
<1>4. req'[r] = q /\ req[r].pc # "done" /\ alive' \in BOOLEAN /\ UNCHANGED <<orders, writer>>
  BY <1>3 DEF Arrive, Idle, OrdersInv, OrdersTypeOK
<1>5. RequestOK(r)'
  BY <1>3, <1>4 DEF RequestOK, BodyOK, ReadOK, PassedOK, LoadedOK, SinceOK, DoneOK, Past, Passed
<1> QED BY <1>3, <1>4, <1>5, OthersKeep

\* The order is shown as it is stored, and who wrote it is done.
LEMMA FindOrderKeeps ==
  ASSUME OrdersInv, NEW r \in Request, FindOrder(r)
  PROVE  OrdersInv'
<1>1. req[r].pc = "find" /\ UNCHANGED <<orders, alive, writer>>
  BY DEF FindOrder
<1>2. CASE Answer(r, "invalid_order_id") \/ Answer(r, "order_not_found")
  BY <1>1, <1>2, Refused DEF Codes
<1>3. CASE /\ req[r].id \in Ids
           /\ req' = [req EXCEPT ![r].pc = "authorize",
                                 ![r].read = ToOrder(orders[req[r].id]),
                                 ![r].since = writer[req[r].id]]
  <2> DEFINE shown == ToOrder(orders[req[r].id])
             q == [req[r] EXCEPT !.pc = "authorize", !.read = shown,
                                 !.since = writer[req[r].id]]
  <2>1. /\ req[r] \in Handling /\ BodyOK(r) /\ DoneOK(r) /\ OrderOK(req[r].id)
        /\ req \in [Request -> Handling \cup {Idle}]
        /\ writer[req[r].id] \in Request \cup {None} /\ alive \in BOOLEAN
    BY <1>1, <1>3, Current DEF OrdersInv, OrdersTypeOK
  <2>2. /\ shown \in Shown /\ shown.owner = Stored[req[r].id].owner
        /\ shown.amount = AsAmount(orders[req[r].id].total)
        /\ orders[req[r].id].total \in Storable
    BY <2>1, ShownIs DEF OrderOK
  <2> HIDE DEF shown
  <2>3. /\ q \in Handling /\ q.pc = "authorize" /\ q.kind = req[r].kind
        /\ q.amount = req[r].amount /\ q.id = req[r].id /\ q.code = req[r].code
        /\ q.read = shown /\ q.since = writer[req[r].id]
    BY <2>1, <2>2 DEF Handling, Stages
  <2>4. req' = [req EXCEPT ![r] = q] /\ req'[r] = q
    BY <1>3, <2>1 DEF shown
  <2> HIDE DEF q
  <2>5. writer[req[r].id] # None =>
           writer[req[r].id] # r /\ req'[writer[req[r].id]].pc = "done"
    BY <2>1, <2>4, <1>1 DEF OrderOK, WrittenBy
  <2>6. BodyOK(r)' /\ DoneOK(r)' /\ PassedOK(r)' /\ LoadedOK(r)'
    BY <1>1, <1>3, <2>1, <2>3, <2>4 DEF BodyOK, DoneOK, PassedOK, LoadedOK, Past, Passed
  <2>7. ReadOK(r)' /\ SinceOK(r)'
    BY <1>1, <2>2, <2>3, <2>4, <2>5 DEF ReadOK, SinceOK, Past
  <2> QED BY <1>1, <2>1, <2>3, <2>4, <2>6, <2>7, OthersKeep DEF RequestOK
<1> QED BY <1>2, <1>3 DEF FindOrder

\* The handler goes on only when the rule allows it, with the amount it was
\* asked about if it approves.
LEMMA AuthorizeKeeps ==
  ASSUME OrdersInv, NEW r \in Request, authorize(r)
  PROVE  OrdersInv'
<1>1. req[r].pc = "authorize" /\ UNCHANGED <<orders, alive, writer>>
  BY DEF authorize
<1>2. CASE Answer(r, "forbidden")
  BY <1>1, <1>2, Refused DEF Codes
<1>3. CASE Allowed(req[r], req[r].read) /\ req' = [req EXCEPT ![r] = carryOver(req[r])]
  <2> DEFINE q == carryOver(req[r])
  <2>1. /\ req[r] \in Handling /\ BodyOK(r) /\ ReadOK(r) /\ SinceOK(r) /\ DoneOK(r)
        /\ req \in [Request -> Handling \cup {Idle}] /\ alive \in BOOLEAN
    BY <1>1, Current DEF OrdersInv, OrdersTypeOK
  <2> DEFINE a == IF req[r].kind = "approve" THEN req[r].read.amount ELSE req[r].amount
  <2>2. a \in Int /\ (req[r].kind = "put" => a = req[r].amount)
    <3>1. req[r].read \in Shown /\ req[r].kind \in {"put", "approve"}
      BY <1>1, <2>1 DEF ReadOK, Past, Handling
    <3>2. req[r].read.amount \in Int
      BY <3>1 DEF Shown
    <3>3. req[r].kind = "put" => req[r].amount \in Int
      BY <2>1, OrdersAssumption DEF BodyOK
    <3> QED BY <3>1, <3>2, <3>3
  <2>3. q = [req[r] EXCEPT !.pc = "load", !.amount = a]
    BY DEF carryOver
  <2> HIDE DEF a
  <2>4. /\ q \in Handling /\ q.pc = "load" /\ q.kind = req[r].kind /\ q.by = req[r].by
        /\ q.amount = a /\ q.id = req[r].id /\ q.code = req[r].code
        /\ q.read = req[r].read /\ q.since = req[r].since
    BY <2>1, <2>2, <2>3 DEF Handling, Stages
  <2>5. req'[r] = q
    BY <1>3, <2>1
  <2> HIDE DEF q
  <2>6. BodyOK(r)' /\ DoneOK(r)' /\ LoadedOK(r)' /\ ReadOK(r)'
    BY <1>1, <2>1, <2>2, <2>4, <2>5 DEF BodyOK, DoneOK, LoadedOK, ReadOK, Past
  <2>7. PassedOK(r)'
    BY <1>1, <1>3, <2>2, <2>4, <2>5 DEF PassedOK, Allowed, a
  <2>8. SinceOK(r)'
    BY <1>1, <1>3, <2>1, <2>4, <2>5 DEF SinceOK, Past, q
  <2>9. req[r].pc # "done" /\ req' = [req EXCEPT ![r] = q]
    BY <1>1, <1>3 DEF q
  <2> QED BY <1>1, <2>1, <2>4, <2>5, <2>6, <2>7, <2>8, <2>9, OthersKeep DEF RequestOK
<1> QED BY <1>2, <1>3 DEF authorize

\* The copy has the order's owner and what the request says.
LEMMA LoadKeeps ==
  ASSUME OrdersInv, NEW r \in Request, Load(r)
  PROVE  OrdersInv'
<1> DEFINE i == req[r].id
           loaded == [owner |-> Stored[i].owner, total |-> int(req[r].amount),
                      status |-> req[r].status]
           q == [req[r] EXCEPT !.pc = "save", !.loaded = loaded]
<1>1. /\ req[r] \in Handling /\ BodyOK(r) /\ ReadOK(r) /\ PassedOK(r) /\ SinceOK(r) /\ DoneOK(r)
      /\ req \in [Request -> Handling \cup {Idle}] /\ alive \in BOOLEAN
      /\ req[r].pc = "load" /\ UNCHANGED <<orders, alive, writer>>
  BY Current DEF OrdersInv, OrdersTypeOK, Load
<1>2. i \in Ids /\ req[r].amount \in Int /\ req[r].status \in AllStatuses
  BY <1>1 DEF BodyOK, PassedOK, Past, Passed, Handling
<1>3. orders[i] \in Order /\ orders[i].owner = Stored[i].owner
  BY <1>2 DEF OrdersInv, OrderOK
<1>4. req[r].amount # None
  BY <1>2, OrdersAssumption
<1>5. [orders[i] EXCEPT !.total = int(req[r].amount), !.status = req[r].status] = loaded
  <2>1. [orders[i] EXCEPT !.total = int(req[r].amount), !.status = req[r].status]
          = [owner |-> orders[i].owner, total |-> int(req[r].amount), status |-> req[r].status]
    <3>1. ASSUME NEW m \in Order
          PROVE  [m EXCEPT !.total = int(req[r].amount), !.status = req[r].status]
                   = [owner |-> m.owner, total |-> int(req[r].amount), status |-> req[r].status]
      BY CopyIs
    <3> QED BY <1>3, <3>1, Zenon
  <2> QED BY <2>1, <1>3
<1>6. req' = [req EXCEPT ![r] = q] /\ req'[r] = q
  BY <1>1, <1>4, <1>5 DEF Load
<1>7. loaded \in Order
  <2>1. Stored[i].owner \in Owners /\ int(req[r].amount) \in Totals
    BY <1>2, IntIsStorable DEF Owners
  <2> QED BY <2>1, <1>2 DEF Order
<1> HIDE DEF loaded
<1>8. /\ q \in Handling /\ q.pc = "save" /\ q.kind = req[r].kind /\ q.by = req[r].by
      /\ q.amount = req[r].amount /\ q.id = req[r].id /\ q.code = req[r].code
      /\ q.read = req[r].read /\ q.since = req[r].since /\ q.loaded = loaded
      /\ q.status = req[r].status
  BY <1>1, <1>7 DEF Handling, Stages
<1> HIDE DEF q
<1>9. BodyOK(r)' /\ DoneOK(r)' /\ ReadOK(r)' /\ LoadedOK(r)'
  BY <1>1, <1>6, <1>8 DEF BodyOK, DoneOK, ReadOK, LoadedOK, Past, loaded
<1>10. PassedOK(r)'
  BY <1>1, <1>6, <1>8 DEF PassedOK, Passed, Allowed
<1>11. SinceOK(r)'
  BY <1>1, <1>6, <1>8 DEF SinceOK, Past, q
<1> QED BY <1>1, <1>6, <1>8, <1>9, <1>10, <1>11, OthersKeep DEF RequestOK

\* The assignment begins.
LEMMA BeginSaveKeeps ==
  ASSUME OrdersInv, NEW r \in Request, BeginSave(r)
  PROVE  OrdersInv'
<1> DEFINE q == [req[r] EXCEPT !.pc = "writing"]
<1>1. /\ req[r] \in Handling /\ BodyOK(r) /\ ReadOK(r) /\ PassedOK(r) /\ LoadedOK(r)
      /\ SinceOK(r) /\ DoneOK(r)
      /\ req \in [Request -> Handling \cup {Idle}] /\ alive \in BOOLEAN
      /\ req[r].pc = "save" /\ UNCHANGED <<orders, alive, writer>>
  BY Current DEF OrdersInv, OrdersTypeOK, BeginSave
<1>2. req' = [req EXCEPT ![r] = q] /\ req'[r] = q
  BY <1>1 DEF BeginSave, Goto
<1>3. /\ q \in Handling /\ q.pc = "writing" /\ q.kind = req[r].kind /\ q.by = req[r].by
      /\ q.amount = req[r].amount /\ q.id = req[r].id /\ q.code = req[r].code
      /\ q.read = req[r].read /\ q.since = req[r].since /\ q.loaded = req[r].loaded
      /\ q.status = req[r].status
  BY <1>1 DEF Handling, Stages
<1> HIDE DEF q
<1>4. BodyOK(r)' /\ DoneOK(r)' /\ ReadOK(r)' /\ LoadedOK(r)'
  BY <1>1, <1>2, <1>3 DEF BodyOK, DoneOK, ReadOK, LoadedOK, Past
<1>5. PassedOK(r)'
  BY <1>1, <1>2, <1>3 DEF PassedOK, Passed, Allowed
<1>6. SinceOK(r)'
  BY <1>1, <1>2, <1>3 DEF SinceOK, Past, q
<1> QED BY <1>1, <1>2, <1>3, <1>4, <1>5, <1>6, OthersKeep DEF RequestOK

\* The caller has its answer, the handler goes on.
LEMMA TimeoutKeeps ==
  ASSUME OrdersInv, NEW r \in Request, Timeout(r)
  PROVE  OrdersInv'
<1> DEFINE q == [req[r] EXCEPT !.code = "request_timeout"]
<1>1. /\ req[r] \in Handling /\ BodyOK(r) /\ ReadOK(r) /\ PassedOK(r) /\ LoadedOK(r)
      /\ SinceOK(r) /\ DoneOK(r)
      /\ req \in [Request -> Handling \cup {Idle}] /\ alive \in BOOLEAN
      /\ req[r].pc \notin {"idle", "done"} /\ UNCHANGED <<orders, alive, writer>>
  BY Current DEF OrdersInv, OrdersTypeOK, Timeout
<1>2. req' = [req EXCEPT ![r] = q] /\ req'[r] = q
  BY <1>1 DEF Timeout
<1>3. /\ q \in Handling /\ q.pc = req[r].pc /\ q.kind = req[r].kind /\ q.by = req[r].by
      /\ q.amount = req[r].amount /\ q.id = req[r].id /\ q.code = "request_timeout"
      /\ q.read = req[r].read /\ q.since = req[r].since /\ q.loaded = req[r].loaded
      /\ q.status = req[r].status
  BY <1>1 DEF Handling, Codes
<1> HIDE DEF q
<1>4. BodyOK(r)' /\ DoneOK(r)' /\ ReadOK(r)' /\ LoadedOK(r)'
  BY <1>1, <1>2, <1>3 DEF BodyOK, DoneOK, ReadOK, LoadedOK, Past
<1>5. PassedOK(r)'
  BY <1>1, <1>2, <1>3 DEF PassedOK, Passed, Allowed
<1>6. SinceOK(r)'
  BY <1>1, <1>2, <1>3 DEF SinceOK, Past, q
<1> QED BY <1>1, <1>2, <1>3, <1>4, <1>5, <1>6, OthersKeep DEF RequestOK

\* What is about to be written is what the request says, and allowed.
LEMMA WrittenIsAllowed ==
  ASSUME OrdersInv, NEW r \in Request, req[r].pc = "writing"
  PROVE  /\ req[r].loaded \in Order /\ req[r].loaded.owner = Stored[req[r].id].owner
         /\ req[r].loaded.total \in Storable /\ req[r].loaded.status = req[r].status
         /\ req[r].kind = "put" =>
              /\ req[r].by = Stored[req[r].id].owner
              /\ req[r].loaded.total = int(req[r].amount)
         /\ req[r].kind = "approve" =>
              /\ req[r].read.amount = AsAmount(req[r].loaded.total)
              /\ Limit[req[r].by] # None
              /\ AsAmount(req[r].loaded.total) <= Limit[req[r].by]
<1>1. /\ req[r] \in Handling /\ BodyOK(r) /\ ReadOK(r) /\ PassedOK(r) /\ LoadedOK(r)
      /\ req[r].loaded \in Order
  BY Current DEF OrdersInv, OrdersTypeOK
<1>2. /\ req[r].loaded.owner = Stored[req[r].id].owner
      /\ req[r].loaded.total = int(req[r].amount) /\ req[r].loaded.status = req[r].status
  BY <1>1 DEF LoadedOK
<1>3. Allowed(req[r], req[r].read) /\ (req[r].kind = "approve" => req[r].amount = req[r].read.amount)
  BY <1>1 DEF PassedOK, Passed
<1>4. CASE req[r].kind = "put"
  <2>1. req[r].amount \in Amounts /\ req[r].amount \in Int
    BY <1>1, <1>4, OrdersAssumption DEF BodyOK
  <2>2. req[r].read.owner = Stored[req[r].id].owner
    BY <1>1 DEF ReadOK, Past
  <2> QED BY <1>1, <1>2, <1>3, <1>4, <2>1, <2>2, IntIsStorable DEF Allowed, IsOwner
<1>5. CASE req[r].kind = "approve"
  <2>1. PICK t \in Storable : req[r].read.amount = AsAmount(t)
    BY <1>1 DEF ReadOK, Past
  <2>2. req[r].loaded.total = t
    BY <1>2, <1>3, <1>5, <2>1, RoundTrip
  <2> QED BY <1>1, <1>2, <1>3, <1>5, <2>1, <2>2 DEF Allowed, WithinApprovalLimit
<1> QED BY <1>1, <1>4, <1>5 DEF Handling

\* The order that is written is what its writer may write, and nobody who has
\* read it mistakes the new writer for the one it read from.
LEMMA EndSaveKeeps ==
  ASSUME OrdersInv, NEW r \in Request, EndSave(r)
  PROVE  OrdersInv'
<1> DEFINE i == req[r].id
           c == IF req[r].code = None THEN "ok" ELSE req[r].code
           q == [req[r] EXCEPT !.pc = "done", !.code = c]
<1>1. /\ req[r] \in Handling /\ BodyOK(r) /\ DoneOK(r) /\ req[r].pc = "writing"
      /\ req \in [Request -> Handling \cup {Idle}] /\ alive' \in BOOLEAN
      /\ orders \in [Ids -> Order] /\ writer \in [Ids -> Request \cup {None}]
  BY Current DEF OrdersInv, OrdersTypeOK, EndSave
<1>2. i \in Ids /\ c \in Codes
  BY <1>1 DEF BodyOK, DoneOK, Past, Codes
<1>3. req' = [req EXCEPT ![r] = q]
  BY <1>1 DEF EndSave, Answer
<1>4. /\ q \in Handling /\ q.pc = "done" /\ q.kind = req[r].kind /\ q.by = req[r].by
      /\ q.amount = req[r].amount /\ q.id = i /\ q.status = req[r].status
  <2> HIDE DEF c
  <2> QED BY <1>1, <1>2 DEF Handling, Stages
<1> HIDE DEF q
<1>5. /\ req'[r] = q /\ \A s \in Request \ {r} : req'[s] = req[s]
      /\ \A s \in Request : req[s].pc = "done" => req'[s] = req[s]
  BY <1>1, <1>3
<1>6. /\ orders'[i] = req[r].loaded /\ writer'[i] = r /\ r # None
      /\ \A j \in Ids \ {i} : orders'[j] = orders[j] /\ writer'[j] = writer[j]
  BY <1>1, <1>2, OrdersAssumption DEF EndSave
<1>7. ASSUME NEW s \in Request PROVE RequestOK(s)'
  <2>1. CASE s = r
    <3>1. BodyOK(r)'
      BY <1>1, <1>4, <1>5 DEF BodyOK, Past
    <3>2. ReadOK(r)' /\ PassedOK(r)' /\ LoadedOK(r)' /\ SinceOK(r)'
      BY <1>4, <1>5 DEF ReadOK, PassedOK, LoadedOK, SinceOK, Past, Passed
    <3>3. DoneOK(r)'
      BY <1>2, <1>4, <1>5, <1>6 DEF DoneOK
    <3> QED BY <2>1, <3>1, <3>2, <3>3, <1>4, <1>5 DEF RequestOK
  <2>2. CASE s # r
    <3>1. req'[s] = req[s] /\ RequestOK(s)
      BY <1>5, <2>2 DEF OrdersInv
    <3>2. req[s] # Idle => BodyOK(s)' /\ ReadOK(s)' /\ PassedOK(s)' /\ LoadedOK(s)'
      BY <3>1 DEF RequestOK, BodyOK, ReadOK, PassedOK, LoadedOK, Past, Passed
    <3>3. req[s] # Idle => DoneOK(s)'
      BY <3>1, <1>6 DEF RequestOK, DoneOK
    <3>4. req[s] # Idle => SinceOK(s)'
      <4> SUFFICES ASSUME req[s] # Idle, Past(s) PROVE SinceOK(s)'
        BY <3>1 DEF SinceOK, Past
      <4>1. SinceOK(s) /\ req[s].since \in Request \cup {None} /\ req[s].id \in Ids
        BY <3>1 DEF RequestOK, BodyOK, Handling
      <4>2. req[s].since # None => req'[req[s].since].pc = "done" /\ req[s].since # r
        BY <4>1, <1>1, <1>5 DEF SinceOK
      <4>3. req[s].since = writer'[req[s].id] => req[s].id # i
        BY <4>2, <1>6
      <4>4. req[s].since = writer'[req[s].id] =>
              req[s].read.amount = AsAmount(orders'[req[s].id].total)
        BY <4>1, <4>3, <1>6 DEF SinceOK
      <4> QED BY <3>1, <4>2, <4>4 DEF SinceOK
    <3> QED BY <3>1, <3>2, <3>3, <3>4 DEF RequestOK
  <2> QED BY <2>1, <2>2
<1>8. ASSUME NEW j \in Ids PROVE OrderOK(j)'
  <2>1. CASE j = i
    <3>1. /\ req[r].loaded \in Order /\ req[r].loaded.owner = Stored[i].owner
          /\ req[r].loaded.total \in Storable
      BY <1>1, WrittenIsAllowed
    <3>2. req'[r] \in Handling /\ req'[r].pc = "done" /\ req'[r].id = i
      BY <1>4, <1>5
    <3>3. orders'[i].status = req'[r].status
      BY <1>1, <1>4, <1>5, <1>6, WrittenIsAllowed
    <3>4. req'[r].kind = "put" => /\ req'[r].by = Stored[i].owner
                                  /\ orders'[i].total = int(req'[r].amount)
                                  /\ req'[r].amount \in Amounts
      BY <1>1, <1>4, <1>5, <1>6, WrittenIsAllowed DEF BodyOK
    <3>5. req'[r].kind = "approve" => /\ Limit[req'[r].by] # None
                                      /\ AsAmount(orders'[i].total) <= Limit[req'[r].by]
      BY <1>1, <1>4, <1>5, <1>6, WrittenIsAllowed
    <3> QED BY <2>1, <3>1, <3>2, <3>3, <3>4, <3>5, <1>6 DEF OrderOK, WrittenBy
  <2>2. CASE j # i
    <3>1. OrderOK(j) /\ orders'[j] = orders[j] /\ writer'[j] = writer[j]
      BY <1>6, <2>2 DEF OrdersInv
    <3>2. writer[j] # None => req'[writer[j]] = req[writer[j]]
      BY <3>1, <1>1, <1>5 DEF OrderOK, WrittenBy
    <3> QED BY <3>1, <3>2 DEF OrderOK, WrittenBy
  <2> QED BY <2>1, <2>2
<1>9. OrdersTypeOK'
  <2>1. req[r].loaded \in Order
    BY <1>1, WrittenIsAllowed
  <2>2. orders' \in [Ids -> Order] /\ writer' \in [Ids -> Request \cup {None}]
    BY <1>1, <2>1 DEF EndSave
  <2>3. \A s \in Request : req'[s].pc \in {"save", "writing"} => req'[s].loaded \in Order
    BY <1>4, <1>5 DEF OrdersInv, OrdersTypeOK
  <2> QED BY <1>1, <1>3, <1>4, <2>2, <2>3 DEF OrdersTypeOK
<1> QED BY <1>7, <1>8, <1>9 DEF OrdersInv

\* Every step keeps the invariant.
LEMMA OrdersStep == OrdersInv /\ [OrdersNext]_orderVars => OrdersInv'
<1> SUFFICES ASSUME OrdersInv, [OrdersNext]_orderVars PROVE OrdersInv'
  OBVIOUS
<1>1. ASSUME NEW r \in Request, Fatal(r) PROVE OrdersInv'
  BY <1>1 DEF Fatal, OrdersInv, OrdersTypeOK, RequestOK, BodyOK, ReadOK, PassedOK, LoadedOK,
              SinceOK, DoneOK, Past, Passed, OrderOK, WrittenBy
<1>2. CASE UNCHANGED orderVars
  BY <1>2 DEF orderVars, OrdersInv, OrdersTypeOK, RequestOK, BodyOK, ReadOK, PassedOK, LoadedOK,
              SinceOK, DoneOK, Past, Passed, OrderOK, WrittenBy
<1>3. CASE OrdersNext
  BY <1>1, <1>3, ArriveKeeps, FindOrderKeeps, AuthorizeKeeps, LoadKeeps, BeginSaveKeeps,
     EndSaveKeeps, TimeoutKeeps DEF OrdersNext
<1> QED BY <1>2, <1>3

\* The invariant of the order handlers.
LEMMA OrdersInvariant == OrdersSpec => []OrdersInv
  BY InitOK, OrdersStep, PTL DEF OrdersSpec

-----------------------------------------------------------------------------
(* Orders: theorems *)

\* The map keeps every order it started with, each with a total an int can hold.
THEOREM OrdersTypeCorrect == OrdersSpec => []OrdersTypeOK
<1>1. OrdersInv => OrdersTypeOK
  BY DEF OrdersInv
<1> QED BY <1>1, OrdersInvariant, PTL

\* For any orders, callers, limits and amounts: what an order holds was written by
\* its owner, or by an approver whose limit covers it.
THEOREM AuthorizedWrites == OrdersSpec => []LastWriteIsAuthorized
<1>1. ASSUME OrdersInv PROVE LastWriteIsAuthorized
  <2> SUFFICES ASSUME NEW i \in Ids
               PROVE  /\ orders[i].owner = Stored[i].owner
                      /\ writer[i] # None =>
                           LET q == req[writer[i]] IN
                           CASE q.kind = "put" -> q.by = orders[i].owner
                             [] q.kind = "approve" -> /\ Limit[q.by] # None
                                                      /\ AsAmount(orders[i].total) <= Limit[q.by]
    BY DEF LastWriteIsAuthorized
  <2>1. OrderOK(i)
    BY <1>1 DEF OrdersInv
  <2>2. writer[i] # None => WrittenBy(writer[i], i) /\ req[writer[i]].kind \in {"put", "approve"}
    BY <2>1 DEF OrderOK, WrittenBy, Handling
  <2> QED BY <2>1, <2>2 DEF OrderOK, WrittenBy
<1> QED BY <1>1, OrdersInvariant, PTL

\* A PUT that is sent again is one PUT, however many times, and however late the
\* handlers finish that a timeout abandoned.
THEOREM RetriedPut == OrdersSpec => []RetriedPutIsOnePut
<1>1. ASSUME OrdersInv PROVE RetriedPutIsOnePut
  <2> SUFFICES ASSUME NEW r \in Request, req[r].pc = "done", req[r].code = "ok",
                      \A q \in Request : req[q] # Idle =>
                          \/ req[q].id # req[r].id
                          \/ /\ req[q].kind = "put" /\ req[q].amount = req[r].amount
                             /\ req[q].status = req[r].status
               PROVE  /\ orders[req[r].id].total = int(req[r].amount)
                      /\ orders[req[r].id].status = req[r].status
    BY DEF RetriedPutIsOnePut
  <2>1. req[r].id \in Ids /\ writer[req[r].id] # None
    BY <1>1, Current DEF DoneOK
  <2> DEFINE w == writer[req[r].id]
  <2>2. WrittenBy(w, req[r].id) /\ w \in Request
    BY <1>1, <2>1 DEF OrdersInv, OrdersTypeOK, OrderOK
  <2>3. req[w] # Idle /\ req[w].id = req[r].id
    BY <2>2, NotIdle DEF WrittenBy
  <2> QED BY <2>2, <2>3 DEF WrittenBy
<1> QED BY <1>1, OrdersInvariant, PTL

\* An approval during which nobody else wrote keeps the amount, whatever the amount
\* and whichever way the processor rounds what no int can hold.
THEOREM ApprovalKeepsAmount == OrdersSpec => AloneItKeepsTheAmount
<1>1. ASSUME OrdersInv, NEW r \in Request, EndSave(r), req[r].kind = "approve",
             req[r].since = writer[req[r].id]
      PROVE  orders'[req[r].id].total = orders[req[r].id].total
  <2> DEFINE i == req[r].id
  <2>1. req[r].pc = "writing" /\ BodyOK(r) /\ SinceOK(r)
    BY <1>1, Current DEF EndSave
  <2>2. i \in Ids /\ OrderOK(i) /\ orders \in [Ids -> Order]
    BY <1>1, <2>1 DEF BodyOK, Past, OrdersInv, OrdersTypeOK
  <2>3. /\ req[r].read.amount = AsAmount(orders[i].total)
        /\ req[r].read.amount = AsAmount(req[r].loaded.total)
        /\ req[r].loaded.total \in Storable /\ orders[i].total \in Storable
    BY <1>1, <2>1, <2>2, WrittenIsAllowed DEF SinceOK, Past, OrderOK
  <2>4. req[r].loaded.total = orders[i].total
    BY <2>3, RoundTrip
  <2>5. orders'[i] = req[r].loaded
    BY <1>1, <2>2 DEF EndSave
  <2> QED BY <2>4, <2>5
<1>2. OrdersInv /\ [OrdersNext]_orderVars =>
        [\A r \in Request :
           EndSave(r) /\ req[r].kind = "approve" /\ req[r].since = writer[req[r].id]
             => orders'[req[r].id].total = orders[req[r].id].total]_orderVars
  BY <1>1
<1> QED BY <1>2, OrdersInvariant, PTL DEF OrdersSpec, AloneItKeepsTheAmount
=============================================================================
