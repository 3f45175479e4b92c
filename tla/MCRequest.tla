----------------------------- MODULE MCRequest -----------------------------
(* Instances of Request for TLC. *)
EXTENDS Request

Mount(prefix, tail, methods) ==
    [prefix |-> prefix, tail |-> tail, methods |-> methods, handler |-> "inner"]
Leaf(methods) == [prefix |-> <<"x">>, tail |-> "exact", methods |-> methods, handler |-> "leaf"]
All == {"GET", "OPTIONS"}

\* /a/* and ^/c(?P<_>/.*)$ are a mux that mounts itself likewise.
MCRoutes ==
    [outer |-> <<Mount(<<"a">>, "*", All), Mount(<<"c">>, "_", All), Leaf({"GET"})>>,
     inner |-> <<Mount(<<"b">>, "*", All), Mount(<<"d">>, "_", All), Leaf({"GET"}),
                 Leaf({"PUT", "OPTIONS"})>>]

Default == <<"RequestID", "Logger", "Recoverer", "AutomaticOptions">>
MCStacks ==
    [outer : {Default, Append(Default, "Router"), <<"AutomaticOptions", "Logger">>,
              <<"Router", "AutomaticOptions">>},
     inner : {<<"SubRouter">>, <<"Router">>, <<"SubRouter", "Router", "Recoverer">>,
              <<"Router", "SubRouter">>, <<"SubRouter", "Logger", "AutomaticOptions">>, <<>>}]
MCRequests ==
    [method : All,
     path : {<<"x">>, <<"a", "x">>, <<"a", "b", "x">>, <<"a", "b", "b", "x">>, <<"y">>,
             <<"c", "x">>, <<"c", "b", "x">>, <<"c", "d", "x">>, <<"a", "d", "x">>}]
\* net/http's writers for HTTP/1 and HTTP/2.
MCServers == {{"CloseNotifier", "Flusher", "Hijacker", "ReaderFrom"}, {"CloseNotifier", "Flusher"}}
=============================================================================
