------------------------- MODULE ScopeImplications -------------------------
(***************************************************************************)
(* authkit.NewScopeImplications: how the table "this scope implies these   *)
(* scopes" is resolved at startup, and Expand, which judges callers by the *)
(* result.  The recursion of resolve is a stack of frames, one step per    *)
(* name of a row; a scope is a number and its order is the sort order.     *)
(*                                                                         *)
(* A row is a set: the code keeps the order a row is written in, and the   *)
(* model takes its names in every order.                                   *)
(***************************************************************************)
EXTENDS Integers, Sequences

CONSTANTS
    Scopes,
    Empty       \* the empty scope name

ASSUME ScopesAssumption == Scopes \subseteq Nat /\ Empty \notin Scopes

VARIABLES
    table,      \* as the application writes it
    direct,     \* the normalised table; a scope without a row implies nothing
    state,      \* of each scope: unvisited, visiting or resolved
    closure,    \* everything a resolved scope implies
    stack,      \* the calls of resolve, innermost last
    result      \* of NewScopeImplications

vars == <<table, direct, state, closure, stack, result>>

Names == Scopes \cup {Empty}
Nothing == [s \in Scopes |-> {}]

\* A table that was never written has no rows; rows of no names are kept.
Tables == UNION {[keys -> SUBSET Names] : keys \in SUBSET Names}

Frame == [scope : Scopes, todo : SUBSET Scopes, out : SUBSET Scopes]

TypeOK ==
    /\ direct \in [Scopes -> SUBSET Scopes]
    /\ state \in [Scopes -> {"unvisited", "visiting", "resolved"}]
    /\ closure \in [Scopes -> SUBSET Scopes]
    /\ stack \in Seq(Frame)
    /\ result \in {"normalize", "resolve", "invalid", "cycle", "done"}

Init ==
    /\ table \in Tables
    /\ direct = Nothing /\ closure = Nothing
    /\ state = [s \in Scopes |-> "unvisited"]
    /\ stack = <<>> /\ result = "normalize"

-----------------------------------------------------------------------------

\* Mutant: a scope that implies itself is kept.
normalizeKeepsSelf ==
    /\ result = "normalize"
    /\ IF Empty \in DOMAIN table \/ \E s \in DOMAIN table : Empty \in table[s]
       THEN result' = "invalid" /\ UNCHANGED direct
       ELSE /\ result' = "resolve"
            /\ direct' = [s \in Scopes |-> IF s \in DOMAIN table THEN table[s] ELSE {}]
    /\ UNCHANGED <<table, state, closure, stack>>

\* A scope that implies itself says nothing; an empty name is refused.
normalize ==
    /\ result = "normalize"
    /\ IF Empty \in DOMAIN table \/ \E s \in DOMAIN table : Empty \in table[s]
       THEN result' = "invalid" /\ UNCHANGED direct
       ELSE /\ result' = "resolve"
            /\ direct' = [s \in Scopes |->
                            IF s \in DOMAIN table THEN table[s] \ {s} ELSE {}]
    /\ UNCHANGED <<table, state, closure, stack>>

\* A call of resolve for a scope not seen yet.
Enter(s, frames) ==
    /\ state' = [state EXCEPT ![s] = "visiting"]
    /\ stack' = Append(frames, [scope |-> s, todo |-> direct[s], out |-> {}])

\* Mutant: rows that are resolved are walked again.
UnresolvedAll == DOMAIN table

Unresolved == {s \in DOMAIN table : state[s] # "resolved"}

\* The loop over the sorted rows: the next one that no earlier row has reached.
NextRow ==
    /\ result = "resolve" /\ stack = <<>>
    /\ IF Unresolved = {}
       THEN result' = "done" /\ UNCHANGED <<state, stack>>
       ELSE /\ \E s \in Unresolved : (\A r \in Unresolved : s <= r) /\ Enter(s, stack)
            /\ UNCHANGED result
    /\ UNCHANGED <<table, direct, closure>>

Top == stack[Len(stack)]

\* Mutant: what the name implies in its turn is left out.
ImpliedShallow(name) ==
    [stack EXCEPT ![Len(stack)] =
        [scope |-> @.scope, todo |-> @.todo \ {name}, out |-> @.out \cup {name}]]

\* The frame after it has taken name, which is resolved, and what it implies.
Implied(name) ==
    [stack EXCEPT ![Len(stack)] =
        [scope |-> @.scope, todo |-> @.todo \ {name},
         out |-> @.out \cup {name} \cup closure[name]]]

\* Mutant: the error of a scope reached again while it is walked is dropped.
resolveIgnoresCycle(name) ==
    /\ result = "resolve" /\ stack # <<>> /\ name \in Top.todo
    /\ \/ /\ state[name] = "resolved"
          /\ stack' = Implied(name)
          /\ UNCHANGED <<state, result>>
       \/ /\ state[name] = "visiting"
          /\ result' = "done"
          /\ UNCHANGED <<state, stack>>
       \/ /\ state[name] = "unvisited"
          /\ Enter(name, stack)
          /\ UNCHANGED result
    /\ UNCHANGED <<table, direct, closure>>

\* One name of the row being walked.  A name not seen before is walked first,
\* and taken when its own call has returned.
resolve(name) ==
    /\ result = "resolve" /\ stack # <<>> /\ name \in Top.todo
    /\ \/ /\ state[name] = "resolved"
          /\ stack' = Implied(name)
          /\ UNCHANGED <<state, result>>
       \/ /\ state[name] = "visiting"
          /\ result' = "cycle"
          /\ UNCHANGED <<state, stack>>
       \/ /\ state[name] = "unvisited"
          /\ Enter(name, stack)
          /\ UNCHANGED result
    /\ UNCHANGED <<table, direct, closure>>

resolveReturns ==
    /\ result = "resolve" /\ stack # <<>> /\ Top.todo = {}
    /\ closure' = [closure EXCEPT ![Top.scope] = Top.out]
    /\ state' = [state EXCEPT ![Top.scope] = "resolved"]
    /\ stack' = SubSeq(stack, 1, Len(stack) - 1)
    /\ UNCHANGED <<table, direct, result>>

\* Mutant: one step of the table, not a chain.
ExpandOneStep(held) == held \cup UNION {direct[s] : s \in held}

\* Expand: the scopes held, and everything they imply.
Expand(held) == held \cup UNION {closure[s] : s \in held}

\* Closure, for the reader of the policy: the rows that say something.
Closure == [s \in {r \in DOMAIN table : closure[r] # {}} |-> closure[s]]

Next == normalize \/ NextRow \/ (\E name \in Scopes : resolve(name)) \/ resolveReturns

Spec == Init /\ [][Next]_vars

\* A computation that is not stopped goes on.
FairSpec == Spec /\ WF_vars(Next)

-----------------------------------------------------------------------------
(* Properties *)

\* Closed under the table.
ClosedSet(S) == \A s \in S : direct[s] \subseteq S

\* T is what s implies, through chains of any length: the least closed set that
\* holds its row.
IsReach(s, T) ==
    /\ direct[s] \subseteq T /\ ClosedSet(T)
    /\ \A S \in SUBSET Scopes : ClosedSet(S) /\ direct[s] \subseteq S => T \subseteq S

\* What a resolved scope implies is its transitive closure, no less and no
\* more, at every moment of the walk and not only at its end: resolve answers
\* from the memo while other scopes are still being walked.
ClosureIsExact == \A s \in Scopes : state[s] = "resolved" => IsReach(s, closure[s])

\* r is among what s implies.
Reaches(s, r) ==
    \A S \in SUBSET Scopes : ClosedSet(S) /\ direct[s] \subseteq S => r \in S

\* Two names for one permission.
Cycle == \E s, r \in Scopes : s # r /\ Reaches(s, r) /\ Reaches(r, s)

\* A policy that starts has no two scopes that imply each other, however long
\* the way round.
DoneIsAcyclic == result = "done" => ~Cycle

\* The other way round: a table is refused as a cycle only if it has one, and
\* a scope that implies itself is none.
CycleIsReal == result = "cycle" => Cycle

\* Once the policy is resolved, expanding is a closure operator for every set
\* of scopes a caller may hold: a caller is judged the same whether the
\* credential carried the scopes or the policy added them.
ExpandOnceIsEnough ==
    result = "done" =>
        \A held \in SUBSET Scopes :
            /\ ClosedSet(Expand(held))
            /\ Expand(Expand(held)) = Expand(held)

\* NewScopeImplications answers for every table.
Terminates == <>(result \in {"invalid", "cycle", "done"})

=============================================================================
