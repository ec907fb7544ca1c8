---------------------------- MODULE MCInitiator ----------------------------
(* Initiator on a small instance. *)
EXTENDS Initiator, TLC

CONSTANTS tenant, email, scope, alice, cloud

Lists == {{}, {tenant}, {scope}, {tenant, EmptyName}}

\* Well formed, without the convention, and malformed in each way.
Wire(kind, id, names) == [kind |-> kind, id |-> id, claims |-> names]
OtherProducers ==
    {NoHeaders, Wire("service_account", cloud, {tenant, email}),
     Wire(None, cloud, None), Wire("user", cloud, NotAnObject),
     Wire("user", cloud, {scope, tenant})}
=============================================================================
