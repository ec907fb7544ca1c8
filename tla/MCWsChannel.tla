---------------------------- MODULE MCWsChannel ----------------------------
(* WsChannel on small instances: the sample channel /ws/user, as it is and  *)
(* closed to all but sessions, with two connections.                        *)
EXTENDS WsChannel, TLC

\* The names of Handlers stand for the messages; two scopes, one the policy
\* lets stand for the other.
CONSTANTS admin, announce
AdminImplies == admin :> {announce} @@ announce :> {}

\* With nothing verified the sample is refused at startup, or would be wrongly
\* served; with sessions only, a bearer token is bad.
SampleDeployments ==
    {[verifies |-> {"jwt", "session"}, entries |-> {}],
     [verifies |-> {"session"}, entries |-> Sites],
     [verifies |-> {}, entries |-> {Wildcard}]}
SampleSecurities ==
    {[public |-> TRUE, schemes |-> {}, scopes |-> {}],
     [public |-> FALSE, schemes |-> {"session"}, scopes |-> {announce}]}
SampleCatalogs ==
    {"handleEcho" :> None @@ "handleWhoAmI" :> [scopes |-> {}]
        @@ "handleAnnounce" :> [scopes |-> {announce}]}
Symmetric == Permutations(Conn)
=============================================================================
