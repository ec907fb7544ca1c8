--------------------------- MODULE MCAppLifecycle ---------------------------
(* Two small programs: the graph of server.Run and that of scheduler.Start, *)
(* with one connection of every sort that matters between them.  A server   *)
(* builds db and the others once; the scheduler program's HTTP server is a  *)
(* component of its own.                                                    *)
EXTENDS AppLifecycle

AppParams ==
    [db |-> <<>>, publisher |-> <<>>, root |-> <<>>, subscriber |-> <<>>,
     worker |-> <<"db">>,
     http |-> <<"publisher", "worker">>,
     grpc |-> <<"db">>,
     subscriptions |-> <<"root", "subscriber", "db">>,
     redis |-> <<>>, cache |-> <<>>, storage |-> <<>>, grpcclt |-> <<>>,
     keydb |-> <<>>, ready |-> <<"keydb">>,
     scheduler |-> <<"redis", "grpcclt">>,
     admin |-> <<"cache", "storage", "ready", "scheduler">>]
Components == DOMAIN AppParams
ComponentKind == [c \in Components |-> IF c = "admin" THEN "http" ELSE c]
Server == <<"http", "grpc", "subscriptions">>
Scheduler == <<"scheduler", "admin">>
AllPrograms == {Server, Scheduler}
OnlyServer == {Server}
OnlyScheduler == {Scheduler}
=============================================================================
