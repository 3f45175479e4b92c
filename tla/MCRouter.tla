------------------------------ MODULE MCRouter ------------------------------
(* Instances of Router for TLC. *)
EXTENDS Router, RouteCompiler

\* Bytes 1 < 2.  A prefix that others extend, siblings within it, one longer
\* than a chunk, and an order that makes segments split.
MCAdditions == [prefix : {<<2>>}, methods : {{"GET", "HEAD"}}] \cup
               [prefix : {<<>>, <<1>>, <<2, 1>>, <<2, 2, 2, 2>>}, methods : {{"POST"}}]
MCPaths == {<<1>>, <<2>>, <<2, 1>>, <<2, 2, 2>>, <<2, 2, 2, 2>>}
MCMethod == "GET"

(* A request that runs reads nothing that others write, so its steps       *)
(* commute with theirs: they are let wait until it has finished.           *)
RunAlone == (\E q \in Requests : Looking(q)) => UNCHANGED routerVars
=============================================================================
