--------------------------- MODULE MCSessionStore ---------------------------
(* SessionStore on small instances; each cfg gives the constants. *)
EXTENDS SessionStore, TLC

Symmetric == Permutations(Callers) \cup Permutations(Ids)

\* The behaviours in which calls for one session do not overlap.
ApartSpec == Init /\ [][Next /\ Apart' /\ RevokesApart]_vars

-----------------------------------------------------------------------------
(* What SessionStore.cfg tells states apart by.  No action reads what is   *)
(* left out, and no property of that run does: late, ended and lastUse are *)
(* other runs' histories; a floor counts only by whether it reaches the    *)
(* session's creation; a request about to forget knows no more than an id; *)
(* and once a session is settled, the uses of it excuse nothing more.      *)

Settled(i) ==
    \/ i \in condemned
    \/ born[i] # None /\ marked[born[i].owner] >= born[i].created

Reached(floor, session) ==
    IF session # None /\ floor >= session.created THEN 0 ELSE Never

Readable(o) ==
    IF o.pc = "forget" THEN [Idle EXCEPT !.pc = "forget", !.id = o.id]
    ELSE [o EXCEPT !.late = FALSE, !.floor = Reached(@, o.session)]

Said == IF answer = None THEN None
        ELSE [answer EXCEPT !.late = FALSE, !.floor = Reached(@, answer.session)]

SafetyView ==
    <<clock, cacheVars, [p \in Procs |-> Readable(op[p])], Said,
      born, held, condemned, barrier, marked,
      {p \in met : op[p].id \in Ids /\ ~Settled(op[p].id)},
      [i \in Ids |-> IF Settled(i) THEN Never ELSE soleUse[i]]>>
=============================================================================
