------------------------- MODULE SupervisedProcess -------------------------
(***************************************************************************)
(* What a supervisor (systemd, a Kubernetes restartPolicy) may rely on: a  *)
(* process is starting, running, being stopped, or gone, and the code it   *)
(* leaves behind is 0 exactly when it was asked to stop and nothing went   *)
(* wrong.  AppLifecycle implements this; README.md of the repository       *)
(* states the promise under "A server that dies after it has started".     *)
(***************************************************************************)
EXTENDS Integers

CONSTANT NoCode

VARIABLES
    status,     \* "starting", "running", "stopping" or "exited"
    trouble,    \* something happened that the exit code has to tell
    code        \* the exit code, NoCode while the process lives

vars == <<status, trouble, code>>

Init == status = "starting" /\ trouble = FALSE /\ code = NoCode

Alive == status # "exited"

Start == status = "starting" /\ status' = "running" /\ UNCHANGED <<trouble, code>>

AskStop == status = "running" /\ status' = "stopping" /\ UNCHANGED <<trouble, code>>

Trouble == Alive /\ trouble' = TRUE /\ UNCHANGED <<status, code>>

\* Trouble may show in the very step that ends the process.
Exit ==
    /\ Alive
    /\ status' = "exited"
    /\ trouble' \in {trouble, TRUE}
    /\ code' = IF trouble' THEN 1 ELSE 0
    /\ status # "stopping" => trouble'

Next == Start \/ AskStop \/ Trouble \/ Exit

Safety == Init /\ [][Next]_vars

Spec == Safety /\ WF_vars(Exit /\ status = "stopping")

=============================================================================
