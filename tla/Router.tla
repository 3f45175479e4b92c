------------------------------- MODULE Router -------------------------------
(***************************************************************************)
(* web.router: routes are added under a lock while requests look theirs up *)
(* in a compiled machine that they read, and replace, without asking the   *)
(* goroutines that add.  A request runs the bytecode one instruction at a  *)
(* time; which patterns match its path is arbitrary, and settled before    *)
(* the first of them is asked.  The bytecode of a list of routes is a      *)
(* parameter: RouteCompiler has the code's.                                *)
(***************************************************************************)
EXTENDS RouteMachine

CONSTANTS Registrars, Requests,   \* goroutines that add routes, and that route
          Additions,              \* the routes that are added: prefix and methods
          Paths,                  \* of the requests
          Method,                 \* the method of the requests
          MaxRoutes,              \* bound on the number of routes
          Bytecode(_),            \* what compile makes of a list of routes
          NoProc, NoMachine

Procs == Registrars \cup Requests

ASSUME RouterAssumption ==
    /\ Registrars \cap Requests = {} /\ NoProc \notin Procs
    /\ Additions \subseteq [prefix : Seq(Nat), methods : SUBSET STRING]
    /\ Paths \subseteq Seq(Nat) /\ MaxRoutes \in Nat

VARIABLES
    lock, routes, machine,          \* the router
    pc,
    rm, path, known,                \* a request, its machine, the routes before it
    matching,                       \* the routes whose patterns match, asked or not
    at, cursor,                     \* rm's next instruction; bytes of path consumed
    methods,                        \* of the routes whose pattern matched
    visited, trail                  \* history: patterns asked, instructions executed

routerVars  == <<lock, routes, machine>>
lookupVars  == <<rm, path, known, matching>>
runVars     == <<at, cursor, methods>>
historyVars == <<visited, trail>>
vars == <<routerVars, pc, lookupVars, runVars, historyVars>>

Init ==
    /\ lock = NoProc /\ routes = <<>> /\ machine = NoMachine
    /\ pc = [p \in Procs |-> "ready"]
    /\ rm = [q \in Requests |-> NoMachine] /\ path = [q \in Requests |-> <<>>]
    /\ known = [q \in Requests |-> 0]
    /\ at = [q \in Requests |-> 0] /\ cursor = [q \in Requests |-> 0]
    /\ methods = [q \in Requests |-> {}]
    /\ matching = [q \in Requests |-> {}]
    /\ visited = [q \in Requests |-> <<>>] /\ trail = [q \in Requests |-> {}]

At(p, l) == pc[p] = l
Goto(p, l) == pc' = [pc EXCEPT ![p] = l]

-----------------------------------------------------------------------------
(* router.handle.  The route's number is the order of its addition.        *)

HandleLock(r) ==
    /\ At(r, "ready") /\ Len(routes) < MaxRoutes
    /\ lock = NoProc /\ lock' = r /\ Goto(r, "clear")
    /\ UNCHANGED <<routes, machine, lookupVars, runVars, historyVars>>

HandleClear(r) ==
    /\ At(r, "clear") /\ Goto(r, "add")
    /\ machine' = NoMachine
    /\ UNCHANGED <<lock, routes, lookupVars, runVars, historyVars>>

HandleAdd(r, new) ==
    /\ At(r, "add") /\ Goto(r, "ready")
    /\ routes' = Handled(routes,
                    [id |-> Len(routes) + 1, prefix |-> new.prefix, methods |-> new.methods])
    /\ lock' = NoProc
    /\ UNCHANGED <<machine, lookupVars, runVars, historyVars>>

-----------------------------------------------------------------------------
(* router.getMatch: the machine in place, or else one compiled now.        *)

Begin(q, p) ==
    /\ At(q, "ready")
    /\ rm' = [rm EXCEPT ![q] = machine]
    /\ Goto(q, IF machine = NoMachine THEN "compile" ELSE "start")
    /\ path' = [path EXCEPT ![q] = p]
    /\ known' = [known EXCEPT ![q] = Len(routes)]
    /\ UNCHANGED <<routerVars, matching, runVars, historyVars>>

\* Mutant: compile does not hold the lock until it has stored the machine.
CompileRoutes_NoLock(q) ==
    /\ At(q, "compile") /\ Goto(q, "store")
    /\ rm' = [rm EXCEPT ![q] = [sm |-> Bytecode(routes), routes |-> routes]]
    /\ UNCHANGED <<routerVars, path, known, matching, runVars, historyVars>>

CompileRoutes(q) ==
    /\ At(q, "compile") /\ Goto(q, "store")
    /\ lock = NoProc /\ lock' = q
    /\ rm' = [rm EXCEPT ![q] = [sm |-> Bytecode(routes), routes |-> routes]]
    /\ UNCHANGED <<routes, machine, path, known, matching, runVars, historyVars>>

StoreMachine(q) ==
    /\ At(q, "store") /\ Goto(q, "start")
    /\ machine' = rm[q]
    /\ lock' = IF lock = q THEN NoProc ELSE lock
    /\ UNCHANGED <<routes, lookupVars, runVars, historyVars>>

-----------------------------------------------------------------------------
(* routeMachine.route: one iteration of its loop is one step.              *)

\* All that Prefix promises is that a path the pattern matches begins with it
\* (pattern.go:17-22).
Answers(q) == SUBSET Plausible(rm[q].routes, path[q])

Start(q) ==
    /\ At(q, "start")
    /\ Goto(q, IF rm[q].sm = <<>> THEN "none" ELSE "run")
    /\ \E answer \in Answers(q) : matching' = [matching EXCEPT ![q] = answer]
    /\ UNCHANGED <<routerVars, rm, path, known, runVars, historyVars>>

Ins(q) == rm[q].sm[at[q] + 1]
Rest(q) == SubSeq(path[q], cursor[q] + 1, Len(path[q]))
Continue(q, i) ==
    /\ at' = [at EXCEPT ![q] = i]
    /\ trail' = [trail EXCEPT ![q] = @ \cup {at[q]}]

SetCursor(q) ==
    /\ At(q, "run") /\ Ins(q).op = "cursor"
    /\ cursor' = [cursor EXCEPT ![q] = Ins(q).i]
    /\ Continue(q, at[q] + 1)
    /\ UNCHANGED <<routerVars, pc, lookupVars, methods, visited>>

Compare(q) ==
    LET ins == Ins(q)
        match == HasPrefix(Rest(q), ins.bs)
    IN
    /\ At(q, "run") /\ ins.op \in {"jump", "skip"}
    /\ cursor' = [cursor EXCEPT ![q] = IF match THEN @ + Len(ins.bs) ELSE @]
    /\ Continue(q, IF match <=> ins.op = "jump" THEN ins.i ELSE at[q] + 1)
    /\ UNCHANGED <<routerVars, pc, lookupVars, methods, visited>>

Fail(q) ==
    /\ At(q, "run") /\ Ins(q).op = "fail"
    /\ Goto(q, "none")
    /\ UNCHANGED <<routerVars, lookupVars, runVars, historyVars>>

\* Mutant: methods are collected only for the route that is taken.
Allowed_Taken(q, route) == IF Method \in route.methods THEN route.methods ELSE {}
Allowed(q, route) == route.methods

\* matchRoute
MatchRoute(q) ==
    LET route == rm[q].routes[Ins(q).i + 1]
        hit == route \in matching[q]
    IN
    /\ At(q, "run") /\ Ins(q).op = "route"
    /\ visited' = [visited EXCEPT ![q] = Append(@, route.id)]
    /\ methods' = IF hit THEN [methods EXCEPT ![q] = @ \cup Allowed(q, route)] ELSE methods
    /\ \/ /\ hit /\ Method \in route.methods
          /\ Goto(q, "found")
          /\ UNCHANGED <<at, trail>>
       \/ /\ hit => Method \notin route.methods
          /\ Continue(q, at[q] + 1)
          /\ UNCHANGED pc
    /\ UNCHANGED <<routerVars, lookupVars, cursor>>

\* getMatch returns: the lookup's variables are gone.
Finish(q) ==
    /\ pc[q] \in {"found", "none"} /\ Goto(q, "ready")
    /\ rm' = [rm EXCEPT ![q] = NoMachine]
    /\ path' = [path EXCEPT ![q] = <<>>] /\ known' = [known EXCEPT ![q] = 0]
    /\ at' = [at EXCEPT ![q] = 0] /\ cursor' = [cursor EXCEPT ![q] = 0]
    /\ methods' = [methods EXCEPT ![q] = {}]
    /\ matching' = [matching EXCEPT ![q] = {}]
    /\ visited' = [visited EXCEPT ![q] = <<>>] /\ trail' = [trail EXCEPT ![q] = {}]
    /\ UNCHANGED routerVars

-----------------------------------------------------------------------------
Handle(r) ==
    \/ HandleLock(r) \/ HandleClear(r)
    \/ \E new \in Additions : HandleAdd(r, new)

Route(q) ==
    \/ \E p \in Paths : Begin(q, p)
    \/ CompileRoutes(q) \/ StoreMachine(q) \/ Start(q)
    \/ SetCursor(q) \/ Compare(q) \/ Fail(q) \/ MatchRoute(q)
    \/ Finish(q)

Next == (\E r \in Registrars : Handle(r)) \/ (\E q \in Requests : Route(q))

Spec == Init /\ [][Next]_vars

-----------------------------------------------------------------------------
(* Properties.                                                             *)

Looking(q) == pc[q] \in {"start", "run", "found", "none"}

(* The router's types; of a request: the next instruction exists, and so   *)
(* do the route and the bytes of the path it refers to.                    *)
TypeOK ==
    /\ lock \in Procs \cup {NoProc}
    /\ {r.id : r \in ToSet(routes)} = 1 .. Len(routes)
    /\ machine # NoMachine => ToSet(machine.routes) \subseteq ToSet(routes)
    /\ \A q \in Requests :
          /\ cursor[q] \in 0 .. Len(path[q])
          /\ At(q, "run") =>
                /\ at[q] \in 0 .. Len(rm[q].sm) - 1
                /\ Ins(q).op = "route" => Ins(q).i \in 0 .. Len(rm[q].routes) - 1

(* "Routes are processed in the order they are added, and the first        *)
(* matching route will be executed" (mux.go:17-19): sorted and compiled as *)
(* they are, exactly the routes whose prefix the path has are asked, in    *)
(* the order of their addition, until one matches or none is left.         *)
NaiveRouting ==
    \A q \in Requests : Looking(q) =>
        LET plausible == {r.id : r \in Plausible(rm[q].routes, path[q])}
            asked == ToSet(visited[q])
        IN  /\ \A i, j \in DOMAIN visited[q] : i < j => visited[q][i] < visited[q][j]
            /\ asked \subseteq plausible
            /\ \A v \in asked, w \in plausible \ asked : v < w
            /\ At(q, "none") => asked = plausible

(* Whatever list of routes is compiled, the bytecode is lawful: no route   *)
(* is asked that another could precede, passed over while a path might     *)
(* still match it, or compared from a place the cursor is not at.          *)
MachinesLawful == \A q \in Requests : At(q, "store") => Lawful(rm[q])

(* No instruction is executed twice for a request, so routing ends within  *)
(* the length of the bytecode, although code jumps backwards.              *)
NoLoop == \A q \in Requests : At(q, "run") => at[q] \notin trail[q]

(* A request is routed over every route that was added before it: a        *)
(* machine compiled from an older list is never put in place.              *)
NoStaleMachine ==
    \A q \in Requests : Looking(q) => known[q] <= Len(rm[q].routes)

(* A NotFound handler is told the methods "that would have been allowed"   *)
(* (router.go:30-31): those of every route in the list whose pattern       *)
(* matches the path, whether the bytecode has come by it or not.           *)
AllowedMethods ==
    \A q \in Requests : At(q, "none") => methods[q] = UNION {r.methods : r \in matching[q]}
=============================================================================
