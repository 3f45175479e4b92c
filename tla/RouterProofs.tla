---------------------------- MODULE RouterProofs ----------------------------
(***************************************************************************)
(* For any number of goroutines and routes, and whatever bytecode a list   *)
(* is compiled to: a request never misses a route that was added before    *)
(* it, and the list that it routes over, like every list the router has    *)
(* had, is in an order that no request can tell from the order of          *)
(* addition.  And if the bytecode is lawful, which is a condition on the   *)
(* code of one list and not on runs, then a lookup stays within the code,  *)
(* ends, and asks what a scan of the list would ask.                       *)
(***************************************************************************)
EXTENDS Router, RouteTableProofs

\* The list is complete and ordered.
Table(s) ==
    /\ s \in Seq(Routes) /\ Ordered(s)
    /\ {r.id : r \in ToSet(s)} = 1 .. Len(s)

\* The lock is held by whoever is between taking it and giving it back.
Holders ==
    /\ lock \in Procs \cup {NoProc}
    /\ pc \in [Procs -> {"ready", "clear", "add", "compile", "store", "start", "run", "found",
                         "none"}]
    /\ \A r \in Registrars : pc[r] \in {"ready", "clear", "add"}
    /\ \A q \in Requests : pc[q] \notin {"clear", "add"}
    /\ \A p \in Procs : pc[p] \in {"clear", "add", "store"} <=> lock = p

\* The machine in place, if there is one, and one that is about to be put in
\* place are of the list as it is.
Current ==
    /\ machine # NoMachine => machine.routes = routes
    /\ \A r \in Registrars : pc[r] = "add" => machine = NoMachine
    /\ \A q \in Requests : pc[q] = "store" => rm[q].routes = routes

\* A request has the machine of a list that is complete up to known.
Lookups ==
    /\ DOMAIN rm = Requests /\ known \in [Requests -> Nat]
    /\ \A q \in Requests : known[q] <= Len(routes)
    /\ \A q \in Requests : pc[q] = "store" \/ Looking(q) =>
          Table(rm[q].routes) /\ known[q] <= Len(rm[q].routes)

IInv == Table(routes) /\ Holders /\ Current /\ Lookups

-----------------------------------------------------------------------------
USE RouterAssumption DEF routerVars, lookupVars, runVars, historyVars, At, Goto, Procs

LEMMA InitInv == Init => IInv
<1> SUFFICES ASSUME Init PROVE IInv
  OBVIOUS
<1>1. Table(routes)
  <2>1. routes = <<>> /\ Len(routes) = 0 /\ DOMAIN routes = {}
    BY DEF Init
  <2>2. ToSet(routes) = {}
    BY <2>1 DEF ToSet
  <2> QED BY <2>1, <2>2 DEF Table, Ordered
<1>2. Holders
  BY DEF Init, Holders
<1>3. Current
  BY DEF Init, Current
<1>4. Lookups
  BY DEF Init, Lookups, Looking
<1> QED BY <1>1, <1>2, <1>3, <1>4 DEF IInv

\* A route that is added follows those that are there.
LEMMA TableHandled ==
    ASSUME NEW s, Table(s), NEW new \in Additions
    PROVE  LET route == [id |-> Len(s) + 1, prefix |-> new.prefix, methods |-> new.methods]
           IN  Table(Handled(s, route)) /\ Len(Handled(s, route)) = Len(s) + 1
<1> DEFINE route == [id |-> Len(s) + 1, prefix |-> new.prefix, methods |-> new.methods]
           long == Handled(s, route)
<1>1. s \in Seq(Routes) /\ Len(s) \in Nat /\ DOMAIN s = 1 .. Len(s)
  BY LenProperties DEF Table
<1>2. route \in Routes
  BY <1>1 DEF Routes, Strings
<1>3. \A i \in DOMAIN s : s[i].id < route.id
  <2>1. \A i \in DOMAIN s : s[i].id \in {r.id : r \in ToSet(s)}
    BY DEF ToSet
  <2>2. \A i \in DOMAIN s : s[i].id \in 1 .. Len(s)
    BY <2>1 DEF Table
  <2> QED BY <1>1, <2>2
<1>4. long \in Seq(Routes) /\ Ordered(long)
  BY <1>1, <1>2, <1>3, HandleKeepsOrder DEF Table
<1>5. Len(long) = Len(s) + 1
  BY <1>1, <1>2, HandledIs
<1>6. ToSet(long) = ToSet(s) \cup {route}
  BY <1>1, <1>2, HandledHas
<1>7. route.id = Len(s) + 1
  OBVIOUS
<1> HIDE DEF long, route
<1>8. {r.id : r \in ToSet(long)} = {r.id : r \in ToSet(s)} \cup {route.id}
  BY <1>6, Zenon
<1>9. {r.id : r \in ToSet(s)} = 1 .. Len(s)
  BY DEF Table
<1>10. 1 .. Len(s) \cup {Len(s) + 1} = 1 .. Len(s) + 1
  BY <1>1
<1>11. {r.id : r \in ToSet(long)} = 1 .. Len(long)
  BY <1>5, <1>7, <1>8, <1>9, <1>10
<1>12. Table(long)
  BY <1>4, <1>11 DEF Table
<1> QED BY <1>5, <1>12 DEF long, route

(* router.handle.                                                          *)
LEMMA HandleStep ==
    ASSUME IInv, NEW r \in Registrars, Handle(r)
    PROVE  IInv'
<1> USE DEF IInv
<1>1. CASE HandleLock(r)
  <2>1. Table(routes)' /\ Lookups'
    BY <1>1 DEF HandleLock, Table, Ordered, Lookups, Looking, Holders
  <2>2. Holders'
    BY <1>1 DEF HandleLock, Holders
  <2>3. Current'
    BY <1>1 DEF HandleLock, Holders, Current
  <2> QED BY <2>1, <2>2, <2>3
<1>2. CASE HandleClear(r)
  <2>1. Table(routes)' /\ Lookups'
    BY <1>2 DEF HandleClear, Table, Ordered, Lookups, Looking, Holders
  <2>2. Holders'
    BY <1>2 DEF HandleClear, Holders
  <2>3. Current'
    BY <1>2 DEF HandleClear, Holders, Current
  <2> QED BY <2>1, <2>2, <2>3
<1>3. ASSUME NEW new \in Additions, HandleAdd(r, new) PROVE IInv'
  <2>1. Table(routes') /\ Len(routes') = Len(routes) + 1
    BY <1>3, TableHandled DEF HandleAdd
  <2>2. Holders'
    BY <1>3 DEF HandleAdd, Holders
  <2>3. lock = r /\ \A q \in Requests : pc[q] # "store"
    BY <1>3 DEF HandleAdd, Holders
  <2>4. Current'
    BY <1>3, <2>3 DEF HandleAdd, Holders, Current
  <2>5. Lookups'
    <3>1. Len(routes) \in Nat
      BY LenProperties DEF Table
    <3>2. UNCHANGED <<rm, known>> /\ \A q \in Requests : pc'[q] = pc[q]
      BY <1>3 DEF HandleAdd, Holders
    <3> QED BY <2>1, <3>1, <3>2 DEF Lookups, Looking, Table, Ordered
  <2> QED BY <2>1, <2>2, <2>4, <2>5
<1> QED BY <1>1, <1>2, <1>3 DEF Handle

\* A step of a request that leaves the router and its own machine alone.
LEMMA RunKeeps ==
    ASSUME IInv, NEW q \in Requests, UNCHANGED <<routerVars, rm, known>>,
           pc' \in {pc, [pc EXCEPT ![q] = "run"], [pc EXCEPT ![q] = "found"],
                    [pc EXCEPT ![q] = "none"]},
           Looking(q)
    PROVE  IInv'
<1> USE DEF IInv
<1>1. Table(routes)'
  BY DEF Table, Ordered
<1>2. Holders'
  BY DEF Holders, Looking
<1>3. Current'
  BY DEF Current, Holders
<1>4. Lookups'
  BY DEF Lookups, Looking, Holders, Table, Ordered
<1> QED BY <1>1, <1>2, <1>3, <1>4

(* router.getMatch and the loop of routeMachine.route.                     *)
LEMMA RouteStep ==
    ASSUME IInv, NEW q \in Requests, Route(q)
    PROVE  IInv'
<1> USE DEF IInv
<1>1. ASSUME NEW p \in Paths, Begin(q, p) PROVE IInv'
  <2>1. Table(routes)'
    BY <1>1 DEF Begin, Table, Ordered
  <2>2. Holders'
    BY <1>1 DEF Begin, Holders
  <2>3. Current'
    BY <1>1 DEF Begin, Holders, Current
  <2>4. Lookups'
    <3>1. Len(routes) \in Nat
      BY LenProperties DEF Table
    <3>2. machine # NoMachine => machine.routes = routes
      BY DEF Current
    <3>3. /\ rm'[q] = machine /\ known'[q] = Len(routes)
          /\ DOMAIN rm' = Requests /\ known' \in [Requests -> Nat] /\ routes' = routes
      BY <1>1, <3>1 DEF Begin, Lookups
    <3>4. \A o \in Requests \ {q} : rm'[o] = rm[o] /\ known'[o] = known[o] /\ pc'[o] = pc[o]
      BY <1>1 DEF Begin, Lookups, Holders
    <3>5. pc'[q] = IF machine = NoMachine THEN "compile" ELSE "start"
      BY <1>1 DEF Begin, Holders
    <3>6. pc'[q] = "store" \/ Looking(q)' =>
             Table(rm'[q].routes) /\ known'[q] <= Len(rm'[q].routes)
      <4>1. CASE machine = NoMachine
        BY <3>5, <4>1 DEF Looking
      <4>2. CASE machine # NoMachine
        BY <3>1, <3>2, <3>3, <4>2
      <4> QED BY <4>1, <4>2
    <3>7. ASSUME NEW o \in Requests \ {q}, pc'[o] = "store" \/ Looking(o)'
          PROVE  Table(rm'[o].routes) /\ known'[o] <= Len(rm'[o].routes)
      BY <3>4, <3>7 DEF Lookups, Looking
    <3>8. \A o \in Requests : known'[o] <= Len(routes')
      BY <3>1, <3>3, <3>4 DEF Lookups
    <3>9. \A o \in Requests : (pc[o] = "store" \/ Looking(o))' =>
             (Table(rm[o].routes) /\ known[o] <= Len(rm[o].routes))'
      BY <3>6, <3>7 DEF Looking, Table, Ordered
    <3> QED BY <3>3, <3>8, <3>9 DEF Lookups
  <2> QED BY <2>1, <2>2, <2>3, <2>4
<1>2. CASE CompileRoutes(q)
  <2>1. Table(routes)'
    BY <1>2 DEF CompileRoutes, Table, Ordered
  <2>2. Holders'
    BY <1>2 DEF CompileRoutes, Holders
  <2>3. rm'[q].routes = routes /\ \A o \in Requests \ {q} : rm'[o] = rm[o]
    BY <1>2 DEF CompileRoutes, Lookups
  <2>4. Current'
    BY <1>2, <2>3 DEF CompileRoutes, Holders, Current
  <2>5. Lookups'
    BY <1>2, <2>3 DEF CompileRoutes, Lookups, Looking, Holders, Table, Ordered
  <2> QED BY <2>1, <2>2, <2>4, <2>5
<1>3. CASE StoreMachine(q)
  <2>1. Table(routes)'
    BY <1>3 DEF StoreMachine, Table, Ordered
  <2>2. Holders'
    BY <1>3 DEF StoreMachine, Holders
  <2>3. Current'
    BY <1>3 DEF StoreMachine, Holders, Current
  <2>4. Lookups'
    BY <1>3 DEF StoreMachine, Lookups, Looking, Holders, Table, Ordered
  <2> QED BY <2>1, <2>2, <2>3, <2>4
<1>4. CASE Start(q)
  BY <1>4, RunKeeps DEF Start, Looking
<1>5. CASE SetCursor(q) \/ Compare(q) \/ Fail(q)
  BY <1>5, RunKeeps DEF SetCursor, Compare, Fail, Looking
<1>6. CASE MatchRoute(q)
  BY <1>6, RunKeeps DEF MatchRoute, Looking
<1>7. CASE Finish(q)
  <2>1. Table(routes)'
    BY <1>7 DEF Finish, Table, Ordered
  <2>2. Holders'
    BY <1>7 DEF Finish, Holders
  <2>3. Current'
    BY <1>7 DEF Finish, Holders, Current
  <2>4. Lookups'
    <3>1. Len(routes) \in Nat
      BY LenProperties DEF Table
    <3> QED BY <1>7, <3>1 DEF Finish, Lookups, Looking, Holders, Table, Ordered
  <2> QED BY <2>1, <2>2, <2>3, <2>4
<1> QED BY <1>1, <1>2, <1>3, <1>4, <1>5, <1>6, <1>7 DEF Route

-----------------------------------------------------------------------------
(* The lists of routes are complete and ordered, and the machine in place  *)
(* is never of an older list than the router's own.                        *)
THEOREM RouterInvariant == Spec => []IInv
<1>1. IInv /\ [Next]_vars => IInv'
  <2> SUFFICES ASSUME IInv, [Next]_vars PROVE IInv'
    OBVIOUS
  <2>1. CASE Next
    BY <2>1, HandleStep, RouteStep DEF Next
  <2>2. CASE UNCHANGED vars
    BY <2>2 DEF vars, IInv, Table, Ordered, Holders, Current, Lookups, Looking
  <2> QED BY <2>1, <2>2
<1> QED BY InitInv, <1>1, PTL DEF Spec

(* A machine compiled before the newest route was added is never used by a *)
(* request that began after it: handle clears the machine before it        *)
(* changes the list, and compile stores one under the same lock.           *)
THEOREM MachinesAreCurrent == Spec => []NoStaleMachine
<1>1. IInv => NoStaleMachine
  BY DEF IInv, Lookups, NoStaleMachine
<1> QED BY <1>1, RouterInvariant, PTL

\* What the list of a lookup holds: every route that was there at its start, and of
\* two that may match one path the older first.
ListsComplete ==
    \A q \in Requests : Looking(q) =>
        /\ 1 .. known[q] \subseteq {r.id : r \in ToSet(rm[q].routes)}
        /\ Ordered(rm[q].routes)

(* "Routes are processed in the order they are added" (mux.go:17): of the  *)
(* routes a path may match, the list a request is routed over has every    *)
(* one that was added before, and has them in that order.                  *)
THEOREM ListsAreComplete == Spec => []ListsComplete
<1>1. IInv => ListsComplete
  <2> SUFFICES ASSUME IInv, NEW q \in Requests, Looking(q)
               PROVE  /\ 1 .. known[q] \subseteq {r.id : r \in ToSet(rm[q].routes)}
                      /\ Ordered(rm[q].routes)
    BY DEF ListsComplete
  <2>1. Table(rm[q].routes) /\ known[q] <= Len(rm[q].routes) /\ known[q] \in Nat
    BY DEF IInv, Lookups
  <2>2. Len(rm[q].routes) \in Nat
    BY <2>1, LenProperties DEF Table
  <2>3. 1 .. known[q] \subseteq 1 .. Len(rm[q].routes)
    BY <2>1, <2>2
  <2> QED BY <2>1, <2>3 DEF Table
<1> QED BY <1>1, RouterInvariant, PTL

-----------------------------------------------------------------------------
(* The bytecode.  What follows holds of a router whose machines are all    *)
(* lawful (RouteMachine): the hypothesis []MachinesLawful.                 *)

LEMMA PrefixIs ==
    ASSUME NEW s \in Strings, NEW t \in Strings
    PROVE  HasPrefix(t, s) <=> Len(s) <= Len(t) /\ \A i \in 1 .. Len(s) : s[i] = t[i]
<1>1. Len(s) \in Nat /\ Len(t) \in Nat
  BY LenProperties DEF Strings
<1>2. ASSUME HasPrefix(t, s) PROVE Len(s) <= Len(t) /\ \A i \in 1 .. Len(s) : s[i] = t[i]
  <2>1. Len(s) <= Len(t) /\ SubSeq(s, 1, Len(s)) = SubSeq(t, 1, Len(s))
    BY <1>2 DEF HasPrefix, IsPrefix
  <2> SUFFICES ASSUME NEW i \in 1 .. Len(s) PROVE s[i] = t[i]
    BY <2>1
  <2>2. SubSeq(s, 1, Len(s))[i] = SubSeq(t, 1, Len(s))[i]
    BY <2>1
  <2> QED BY <1>1, <2>1, <2>2 DEF Strings
<1>3. ASSUME Len(s) <= Len(t), \A i \in 1 .. Len(s) : s[i] = t[i] PROVE HasPrefix(t, s)
  <2>1. SubSeq(s, 1, Len(s)) = SubSeq(t, 1, Len(s))
    BY <1>1, <1>3 DEF Strings
  <2> QED BY <1>3, <2>1 DEF HasPrefix, IsPrefix
<1> QED BY <1>2, <1>3

LEMMA PrefixOfPrefix ==
    ASSUME NEW r \in Strings, NEW s \in Strings, NEW t \in Strings,
           HasPrefix(t, s), HasPrefix(s, r)
    PROVE  HasPrefix(t, r)
<1>1. Len(r) \in Nat /\ Len(s) \in Nat /\ Len(t) \in Nat
  BY LenProperties DEF Strings
<1> QED BY <1>1, PrefixIs

\* What is compared at the end of a prefix of the path.
LEMMA ComparedThere ==
    ASSUME NEW p \in Strings, NEW s \in Strings, NEW bs \in Strings, HasPrefix(p, s)
    PROVE  /\ s \o bs \in Strings /\ Len(s \o bs) = Len(s) + Len(bs)
           /\ HasPrefix(SubSeq(p, Len(s) + 1, Len(p)), bs) <=> HasPrefix(p, s \o bs)
<1> DEFINE rest == SubSeq(p, Len(s) + 1, Len(p))
           met == s \o bs
<1>1. Len(p) \in Nat /\ Len(s) \in Nat /\ Len(bs) \in Nat
  BY LenProperties DEF Strings
<1>2. Len(s) <= Len(p) /\ \A i \in 1 .. Len(s) : s[i] = p[i]
  BY PrefixIs
<1>3. /\ rest \in Strings /\ Len(rest) = Len(p) - Len(s)
      /\ \A i \in 1 .. Len(p) - Len(s) : rest[i] = p[Len(s) + i]
  BY <1>1, <1>2 DEF Strings
<1>4. /\ met \in Strings /\ Len(met) = Len(s) + Len(bs)
      /\ \A i \in 1 .. Len(s) : met[i] = s[i]
      /\ \A i \in 1 .. Len(bs) : met[Len(s) + i] = bs[i]
  BY <1>1 DEF Strings
<1> HIDE DEF rest, met
<1>5. ASSUME HasPrefix(rest, bs) PROVE HasPrefix(p, met)
  <2>1. Len(bs) <= Len(rest) /\ \A i \in 1 .. Len(bs) : bs[i] = rest[i]
    BY <1>3, <1>5, PrefixIs
  <2>2. Len(met) <= Len(p)
    BY <1>1, <1>3, <1>4, <2>1
  <2>3. ASSUME NEW i \in 1 .. Len(met) PROVE met[i] = p[i]
    <3>1. CASE i <= Len(s)
      BY <1>1, <1>2, <1>4, <3>1
    <3>2. CASE i > Len(s)
      <4> DEFINE j == i - Len(s)
      <4>1. i \in Int /\ i <= Len(s) + Len(bs) /\ j \in 1 .. Len(bs)
        <5>1. Len(met) = Len(s) + Len(bs)
          BY <1>4
        <5> QED BY <1>1, <3>2, <5>1
      <4> HIDE DEF j
      <4>2. i = Len(s) + j /\ j \in 1 .. Len(p) - Len(s)
        <5>1. Len(bs) <= Len(rest) /\ Len(rest) = Len(p) - Len(s)
          BY <1>1, <1>3, <1>4, <2>2
        <5>2. i = Len(s) + j
          BY <1>1, <4>1 DEF j
        <5> QED BY <1>1, <4>1, <5>1, <5>2
      <4>3. met[i] = bs[j] /\ rest[j] = p[i] /\ bs[j] = rest[j]
        BY <1>3, <1>4, <2>1, <4>1, <4>2
      <4> QED BY <4>3
    <3> QED BY <1>1, <1>4, <3>1, <3>2
  <2> QED BY <1>4, <2>2, <2>3, PrefixIs
<1>6. ASSUME HasPrefix(p, met) PROVE HasPrefix(rest, bs)
  <2>1. Len(met) <= Len(p) /\ \A i \in 1 .. Len(met) : met[i] = p[i]
    BY <1>4, <1>6, PrefixIs
  <2>2. Len(bs) <= Len(rest)
    BY <1>1, <1>3, <1>4, <2>1
  <2>3. ASSUME NEW i \in 1 .. Len(bs) PROVE bs[i] = rest[i]
    <3>1. Len(s) + i \in 1 .. Len(met) /\ i \in 1 .. Len(p) - Len(s)
      BY <1>1, <1>4, <2>1
    <3> QED BY <1>3, <1>4, <2>1, <3>1
  <2> QED BY <1>3, <2>2, <2>3, PrefixIs
<1> QED BY <1>4, <1>5, <1>6 DEF rest, met

\* Labels that the instructions of a machine keep.
Sound(m, l) ==
    /\ l.done \in [Places(m) -> 0 .. Len(m.routes)] /\ l.read \in [Places(m) -> Strings]
    /\ m.sm = <<>> => m.routes = <<>>
    /\ m.sm # <<>> => 0 \in Places(m) /\ l.done[0] = 0 /\ l.read[0] = <<>>
    /\ \A i \in Places(m) : LawfulAt(m, l, i)

LEMMA LawfulSound ==
    ASSUME NEW m, Lawful(m)
    PROVE  Sound(m, Labels(m))
BY DEF Lawful, Sound, Strings

LEMMA ExcludedRight ==
    ASSUME NEW m, m.routes \in Seq(Routes), NEW p \in Strings, NEW s \in Strings,
           HasPrefix(p, s), NEW k \in Excluded(m, s)
    PROVE  ~HasPrefix(p, m.routes[k].prefix)
<1> SUFFICES ASSUME HasPrefix(p, m.routes[k].prefix) PROVE FALSE
  OBVIOUS
<1> DEFINE r == m.routes[k].prefix
<1>1. r \in Strings /\ ~HasPrefix(r, s) /\ ~HasPrefix(s, r)
  <2>1. k \in DOMAIN m.routes /\ ~HasPrefix(r, s) /\ ~HasPrefix(s, r)
    BY DEF Excluded
  <2>2. m.routes[k] \in Routes
    BY <2>1
  <2> QED BY <2>1, <2>2 DEF Routes
<1>2. Len(r) \in Nat /\ Len(s) \in Nat
  BY <1>1, LenProperties DEF Strings
<1> QED BY <1>1, <1>2, PrefixesOfOne

LEMMA DemandingRight ==
    ASSUME NEW m, m.routes \in Seq(Routes), NEW p \in Strings, NEW s \in Strings,
           ~HasPrefix(p, s), NEW k \in Demanding(m, s)
    PROVE  ~HasPrefix(p, m.routes[k].prefix)
<1>1. m.routes[k].prefix \in Strings /\ HasPrefix(m.routes[k].prefix, s)
  <2>1. k \in DOMAIN m.routes /\ HasPrefix(m.routes[k].prefix, s)
    BY DEF Demanding
  <2>2. m.routes[k] \in Routes
    BY <2>1
  <2> QED BY <2>1, <2>2 DEF Routes
<1> QED BY <1>1, PrefixOfPrefix

\* Progress is an order: strict,
LEMMA AheadNotItself ==
    ASSUME NEW m, NEW done \in [Places(m) -> Nat], NEW i \in Places(m)
    PROVE  ~Ahead(m, done, i, i)
<1>1. i \in Int /\ done[i] \in Nat
  BY DEF Places
<1> QED BY <1>1 DEF Ahead

\* and transitive.
LEMMA AheadTransitive ==
    ASSUME NEW m, NEW done \in [Places(m) -> Nat],
           NEW i \in Places(m), NEW j \in Places(m), NEW k \in Places(m),
           Ahead(m, done, i, j), Ahead(m, done, j, k)
    PROVE  Ahead(m, done, i, k)
<1>1. done[i] \in Nat /\ done[j] \in Nat /\ done[k] \in Nat
  OBVIOUS
<1>2. i \in Int /\ j \in Int /\ k \in Int
  BY DEF Places
<1> QED BY <1>1, <1>2 DEF Ahead

-----------------------------------------------------------------------------
(* What a lookup has asked.                                                *)

\* Of the first n routes, those whose prefix the path has.
Due(m, p, n) == {k \in 1 .. n : HasPrefix(p, m.routes[k].prefix)}
Rising(v) == \A i, j \in DOMAIN v : i < j => v[i] < v[j]

\* The patterns asked are those of the first n routes that the path may match, and
\* the methods are those of the routes that match (hit) among the first n.
Asked(m, p, n, asked, hit, told) ==
    /\ n \in 0 .. Len(m.routes)
    /\ asked \in Seq(Nat) /\ Rising(asked)
    /\ ToSet(asked) = {m.routes[k].id : k \in Due(m, p, n)}
    /\ told = UNION {m.routes[k].methods : k \in {j \in Due(m, p, n) : m.routes[j] \in hit}}

\* Routes that the path cannot match need not be asked.
LEMMA AskedOn ==
    ASSUME NEW m, NEW p, NEW n, NEW asked, NEW hit, NEW told, m.routes \in Seq(Routes),
           Asked(m, p, n, asked, hit, told), NEW more \in n .. Len(m.routes),
           \A k \in n + 1 .. more : ~HasPrefix(p, m.routes[k].prefix)
    PROVE  Asked(m, p, more, asked, hit, told)
<1>1. n \in Nat /\ more \in Nat /\ n <= more /\ Len(m.routes) \in Nat
  BY LenProperties DEF Asked
<1>2. 1 .. more = 1 .. n \cup n + 1 .. more
  BY <1>1
<1>3. Due(m, p, more) = Due(m, p, n)
  BY <1>2 DEF Due
<1>4. more \in 0 .. Len(m.routes)
  BY <1>1
<1> QED BY <1>3, <1>4 DEF Asked

\* The routes of a table that one path may match are in the order of their addition.
LEMMA DueInOrder ==
    ASSUME NEW m, Table(m.routes), NEW p \in Strings,
           NEW i \in DOMAIN m.routes, NEW j \in DOMAIN m.routes, i < j,
           HasPrefix(p, m.routes[i].prefix), HasPrefix(p, m.routes[j].prefix)
    PROVE  m.routes[i].id < m.routes[j].id
BY DEF Table, Ordered, Rivals

LEMMA ToSetAppend ==
    ASSUME NEW v \in Seq(Nat), NEW x \in Nat
    PROVE  /\ Append(v, x) \in Seq(Nat) /\ ToSet(Append(v, x)) = ToSet(v) \cup {x}
           /\ Rising(v) /\ (\A y \in ToSet(v) : y < x) => Rising(Append(v, x))
<1> DEFINE w == Append(v, x)
<1>1. /\ w \in Seq(Nat) /\ Len(v) \in Nat /\ DOMAIN v = 1 .. Len(v) /\ DOMAIN w = 1 .. Len(v) + 1
      /\ w[Len(v) + 1] = x /\ \A i \in 1 .. Len(v) : w[i] = v[i]
  BY LenProperties, AppendProperties
<1> HIDE DEF w
<1>2. 1 .. Len(v) + 1 = 1 .. Len(v) \cup {Len(v) + 1}
  BY <1>1
<1>3. ToSet(w) = ToSet(v) \cup {x}
  BY <1>1, <1>2 DEF ToSet
<1>4. ASSUME Rising(v), \A y \in ToSet(v) : y < x PROVE Rising(w)
  <2> SUFFICES ASSUME NEW i \in DOMAIN w, NEW j \in DOMAIN w, i < j PROVE w[i] < w[j]
    BY DEF Rising
  <2>1. i \in 1 .. Len(v) /\ w[i] = v[i] /\ v[i] \in ToSet(v)
    BY <1>1 DEF ToSet
  <2>2. CASE j = Len(v) + 1
    BY <1>1, <1>4, <2>1, <2>2
  <2>3. CASE j # Len(v) + 1
    <3>1. j \in 1 .. Len(v)
      BY <1>1, <2>3
    <3> QED BY <1>1, <1>4, <2>1, <3>1 DEF Rising
  <2> QED BY <2>2, <2>3
<1> QED BY <1>1, <1>3, <1>4 DEF w

\* One route more is asked.
LEMMA AskedOne ==
    ASSUME NEW m, NEW p \in Strings, NEW n, NEW asked, NEW hit, NEW told, Table(m.routes),
           Asked(m, p, n, asked, hit, told), n + 1 \in DOMAIN m.routes,
           HasPrefix(p, m.routes[n + 1].prefix)
    PROVE  LET r == m.routes[n + 1] IN
           Asked(m, p, n + 1, Append(asked, r.id), hit,
                 IF r \in hit THEN told \cup r.methods ELSE told)
<1> DEFINE r == m.routes[n + 1]
           long == Append(asked, r.id)
           id(k) == m.routes[k].id
<1>1. /\ m.routes \in Seq(Routes) /\ Len(m.routes) \in Nat /\ DOMAIN m.routes = 1 .. Len(m.routes)
      /\ n \in 0 .. Len(m.routes) /\ n + 1 \in 0 .. Len(m.routes)
  BY LenProperties DEF Asked, Table
<1>2. r \in Routes /\ r.id \in Nat
  <2>1. r \in Routes
    BY <1>1
  <2> QED BY <2>1 DEF Routes
<1>3. 1 .. n + 1 = 1 .. n \cup {n + 1} /\ n + 1 \notin 1 .. n
  BY <1>1
<1>4. Due(m, p, n + 1) = Due(m, p, n) \cup {n + 1}
  BY <1>3 DEF Due
<1>5. \A k \in Due(m, p, n) : id(k) < r.id /\ id(k) \in Nat
  <2> SUFFICES ASSUME NEW k \in Due(m, p, n) PROVE id(k) < r.id /\ id(k) \in Nat
    OBVIOUS
  <2>1. k \in DOMAIN m.routes /\ k < n + 1 /\ HasPrefix(p, m.routes[k].prefix)
    BY <1>1 DEF Due
  <2>2. m.routes[k] \in Routes
    BY <1>1, <2>1
  <2>3. id(k) \in Nat
    BY <2>2 DEF Routes
  <2>4. id(k) < r.id
    BY <2>1, DueInOrder
  <2> QED BY <2>3, <2>4
<1>6. \A y \in ToSet(asked) : y < r.id
  BY <1>5 DEF Asked
<1>7. long \in Seq(Nat) /\ Rising(long) /\ ToSet(long) = ToSet(asked) \cup {r.id}
  BY <1>2, <1>6, ToSetAppend DEF Asked
<1> HIDE DEF long
<1>8. ToSet(long) = {id(k) : k \in Due(m, p, n + 1)}
  BY <1>4, <1>7 DEF Asked
<1> DEFINE D == {k \in Due(m, p, n) : m.routes[k] \in hit}
           E == {k \in Due(m, p, n + 1) : m.routes[k] \in hit}
<1>9. told = UNION {m.routes[k].methods : k \in D}
  BY DEF Asked
<1>10. CASE r \in hit
  <2>1. E = D \cup {n + 1}
    BY <1>4, <1>10
  <2> HIDE DEF D, E
  <2>2. told \cup r.methods = UNION {m.routes[k].methods : k \in E}
    BY <1>9, <2>1, Zenon
  <2> QED BY <1>1, <1>7, <1>8, <1>10, <2>2 DEF Asked, E, long
<1>11. CASE r \notin hit
  <2>1. E = D
    BY <1>4, <1>11
  <2>2. told = UNION {m.routes[k].methods : k \in E}
    BY <1>9, <2>1
  <2> QED BY <1>1, <1>7, <1>8, <1>11, <2>2 DEF Asked, long
<1> QED BY <1>10, <1>11

-----------------------------------------------------------------------------
(* One instruction.                                                        *)

\* What an exit that is taken leads to.
LEMMA ExitTaken ==
    ASSUME NEW m, NEW l, Sound(m, l), NEW i \in Places(m), NEW e \in Exits(m, i, l.read[i]),
           NEW p \in Strings, e.read \in Strings, HasPrefix(p, e.read)
    PROVE  /\ e.to \in Places(m) /\ HasPrefix(p, l.read[e.to]) /\ Ahead(m, l.done, i, e.to)
           /\ l.done[i] \in Nat /\ l.done[e.to] \in l.done[i] .. Len(m.routes)
           /\ l.done[i] + 1 .. l.done[e.to] \subseteq e.gone
           /\ Reads(InsAt(m, e.to)) => l.read[e.to] = e.read /\ ~WayOut(InsAt(m, i))
<1>1. LawfulExit(m, l, i, e)
  BY DEF Sound, LawfulAt
<1>2. e.to \in Places(m) /\ Ahead(m, l.done, i, e.to) /\ HasPrefix(e.read, l.read[e.to])
  BY <1>1 DEF LawfulExit
<1>3. l.read[e.to] \in Strings /\ l.done[i] \in 0 .. Len(m.routes) /\ l.done[e.to] \in 0 .. Len(m.routes)
  BY <1>2 DEF Sound
<1>4. HasPrefix(p, l.read[e.to])
  BY <1>2, <1>3, PrefixOfPrefix
<1>5. l.done[i] <= l.done[e.to]
  BY <1>2, <1>3 DEF Ahead
<1> QED BY <1>1, <1>2, <1>3, <1>4, <1>5 DEF LawfulExit

\* Instruction i is reached with a path p, the cursor at c and after those in trail.
Placed(m, l, p, i, c, passed) ==
    /\ i \in Places(m) /\ HasPrefix(p, l.read[i])
    /\ Reads(InsAt(m, i)) => c = Len(l.read[i])
    /\ passed \subseteq Places(m) /\ \A j \in passed : Ahead(m, l.done, j, i)

LEMMA PlacedOn ==
    ASSUME NEW m, NEW l, Sound(m, l), NEW p \in Strings, NEW i, NEW c, NEW passed,
           Placed(m, l, p, i, c, passed),
           NEW e \in Exits(m, i, l.read[i]), e.read \in Strings, HasPrefix(p, e.read),
           NEW d, ~WayOut(InsAt(m, i)) => d = Len(e.read)
    PROVE  Placed(m, l, p, e.to, d, passed \cup {i})
<1>1. i \in Places(m) /\ passed \subseteq Places(m) /\ \A j \in passed : Ahead(m, l.done, j, i)
  BY DEF Placed
<1>2. /\ e.to \in Places(m) /\ HasPrefix(p, l.read[e.to]) /\ Ahead(m, l.done, i, e.to)
      /\ Reads(InsAt(m, e.to)) => l.read[e.to] = e.read /\ ~WayOut(InsAt(m, i))
  BY <1>1, ExitTaken
<1>3. l.done \in [Places(m) -> Nat]
  BY DEF Sound
<1>4. \A j \in passed \cup {i} : Ahead(m, l.done, j, e.to)
  BY <1>1, <1>2, <1>3, AheadTransitive
<1> QED BY <1>1, <1>2, <1>4 DEF Placed

\* No route that is passed over could match.
LEMMA AskedAlong ==
    ASSUME NEW m, NEW l, Sound(m, l), m.routes \in Seq(Routes), NEW i \in Places(m),
           NEW p \in Strings, NEW e \in Exits(m, i, l.read[i]), e.read \in Strings,
           HasPrefix(p, e.read), \A k \in e.gone : ~HasPrefix(p, m.routes[k].prefix),
           NEW asked, NEW hit, NEW told, Asked(m, p, l.done[i], asked, hit, told)
    PROVE  Asked(m, p, l.done[e.to], asked, hit, told)
<1>1. /\ l.done[i] \in Nat /\ l.done[e.to] \in l.done[i] .. Len(m.routes)
      /\ l.done[i] + 1 .. l.done[e.to] \subseteq e.gone
  BY ExitTaken
<1>2. \A k \in l.done[i] + 1 .. l.done[e.to] : ~HasPrefix(p, m.routes[k].prefix)
  BY <1>1
<1> QED BY <1>1, <1>2, AskedOn

LEMMA CursorSet ==
    ASSUME NEW m, NEW l, Sound(m, l), m.routes \in Seq(Routes), NEW i \in Places(m),
           NEW p \in Strings, HasPrefix(p, l.read[i]), InsAt(m, i).op = "cursor"
    PROVE  /\ InsAt(m, i).i \in 0 .. Len(p)
           /\ \E e \in Exits(m, i, l.read[i]) :
                 /\ e.to = i + 1 /\ e.read \in Strings /\ HasPrefix(p, e.read)
                 /\ Len(e.read) = InsAt(m, i).i
                 /\ \A k \in e.gone : ~HasPrefix(p, m.routes[k].prefix)
<1> DEFINE ins == InsAt(m, i)
           s == l.read[i]
           e == [to |-> i + 1, read |-> SubSeq(s, 1, ins.i), gone |-> Excluded(m, s)]
<1>1. s \in Strings /\ Len(s) \in Nat /\ Len(p) \in Nat
  BY LenProperties DEF Sound, Strings
<1>2. LawfulAt(m, l, i)
  BY DEF Sound
<1>3. ins.i \in 0 .. Len(s)
  BY <1>2 DEF LawfulAt, Tests, WayOut
<1>4. Len(s) <= Len(p)
  BY <1>1, PrefixIs
<1>5. e \in Exits(m, i, s)
  <2>1. ins.op = "cursor" /\ ins.i <= Len(s) /\ ~WayOut(ins) /\ ~Tests(ins)
    BY <1>1, <1>3 DEF WayOut, Tests
  <2>2. Exits(m, i, s) = {e}
    BY <2>1 DEF Exits
  <2> QED BY <2>2
<1>6. e.read \in Strings /\ Len(e.read) = ins.i /\ HasPrefix(s, e.read)
  <2> DEFINE r == SubSeq(s, 1, ins.i)
  <2>1. r \in Strings /\ Len(r) = ins.i /\ \A j \in 1 .. ins.i : r[j] = s[j]
    BY <1>1, <1>3 DEF Strings
  <2> HIDE DEF r
  <2>2. HasPrefix(s, r)
    BY <1>1, <1>3, <2>1, PrefixIs
  <2>3. e.read = r
    BY DEF r
  <2> QED BY <2>1, <2>2, <2>3
<1>7. HasPrefix(p, e.read)
  BY <1>1, <1>6, PrefixOfPrefix
<1>8. \A k \in e.gone : ~HasPrefix(p, m.routes[k].prefix)
  BY <1>1, ExcludedRight
<1>9. ins.i \in 0 .. Len(p) /\ e.to = i + 1
  BY <1>1, <1>3, <1>4
<1> HIDE DEF e
<1> QED BY <1>5, <1>6, <1>7, <1>8, <1>9

LEMMA Compared ==
    ASSUME NEW m, NEW l, Sound(m, l), m.routes \in Seq(Routes), NEW i \in Places(m),
           NEW p \in Strings, HasPrefix(p, l.read[i]), InsAt(m, i).op \in {"jump", "skip"},
           NEW c \in 0 .. Len(p), Reads(InsAt(m, i)) => c = Len(l.read[i])
    PROVE  LET ins == InsAt(m, i)
               match == HasPrefix(SubSeq(p, c + 1, Len(p)), ins.bs)
               d == IF match THEN c + Len(ins.bs) ELSE c
           IN  /\ d \in 0 .. Len(p)
               /\ \E e \in Exits(m, i, l.read[i]) :
                     /\ e.to = IF match <=> ins.op = "jump" THEN ins.i ELSE i + 1
                     /\ e.read \in Strings /\ HasPrefix(p, e.read)
                     /\ ~WayOut(ins) => d = Len(e.read)
                     /\ \A k \in e.gone : ~HasPrefix(p, m.routes[k].prefix)
<1> DEFINE ins == InsAt(m, i)
           s == l.read[i]
           met == s \o ins.bs
           rest == SubSeq(p, c + 1, Len(p))
           match == HasPrefix(rest, ins.bs)
           d == IF match THEN c + Len(ins.bs) ELSE c
           t == IF match <=> ins.op = "jump" THEN ins.i ELSE i + 1
           exit(to, r, gone) == [to |-> to, read |-> r, gone |-> gone]
           Good(e) == /\ e \in Exits(m, i, s) /\ e.to = t
                      /\ e.read \in Strings /\ HasPrefix(p, e.read)
                      /\ ~WayOut(ins) => d = Len(e.read)
                      /\ \A k \in e.gone : ~HasPrefix(p, m.routes[k].prefix)
<1>1. s \in Strings /\ Len(s) \in Nat /\ Len(p) \in Nat
  BY LenProperties DEF Sound, Strings
<1>2. LawfulAt(m, l, i)
  BY DEF Sound
<1>3. ins.bs \in Strings /\ (Tests(ins) \/ WayOut(ins)) /\ Len(ins.bs) \in Nat
  BY <1>2, LenProperties DEF LawfulAt, Strings
<1>4. CASE WayOut(ins)
  <2>1. ins.bs = <<>> /\ ins.op = "jump" /\ Len(ins.bs) = 0 /\ ~Tests(ins)
    BY <1>4 DEF WayOut, Tests
  <2>2. rest \in Strings
    BY <1>1 DEF Strings
  <2>3. match
    <3>1. <<>> \in Strings /\ Len(<<>>) = 0 /\ Len(rest) \in Nat
      BY <2>2, LenProperties DEF Strings
    <3> HIDE DEF rest
    <3>2. HasPrefix(rest, <<>>)
      BY <2>2, <3>1, PrefixIs
    <3> QED BY <2>1, <3>2
  <2> HIDE DEF match
  <2>4. exit(ins.i, s, Excluded(m, s)) \in Exits(m, i, s)
    BY <1>4, <2>1 DEF Exits
  <2>5. \A k \in Excluded(m, s) : ~HasPrefix(p, m.routes[k].prefix)
    BY <1>1, ExcludedRight
  <2>6. Good(exit(ins.i, s, Excluded(m, s)))
    BY <1>1, <1>4, <2>1, <2>3, <2>4, <2>5
  <2> HIDE DEF Good
  <2>7. \E e \in Exits(m, i, s) : Good(e)
    BY <2>4, <2>6
  <2>8. d \in 0 .. Len(p)
    BY <1>1, <2>1
  <2> QED BY <2>7, <2>8 DEF Good, match
<1>5. CASE Tests(ins)
  <2>1. c = Len(s) /\ ~WayOut(ins)
    BY <1>5 DEF Reads, Tests, WayOut
  <2>2. met \in Strings /\ Len(met) = Len(s) + Len(ins.bs) /\ (match <=> HasPrefix(p, met))
    BY <1>1, <1>3, <2>1, ComparedThere
  <2> DEFINE failed == Excluded(m, s) \cup Demanding(m, met)
  <2>3. Exits(m, i, s) = IF ins.op = "jump"
                         THEN {exit(ins.i, met, Excluded(m, met)), exit(i + 1, s, failed)}
                         ELSE {exit(i + 1, met, Excluded(m, met)), exit(ins.i, s, failed)}
    BY <1>5, <2>1 DEF Exits
  <2> HIDE DEF met, match
  <2>4. CASE match
    <3> DEFINE e == exit(t, met, Excluded(m, met))
    <3>1. e \in Exits(m, i, s)
      BY <2>3, <2>4
    <3>2. \A k \in Excluded(m, met) : ~HasPrefix(p, m.routes[k].prefix)
      BY <2>2, <2>4, ExcludedRight
    <3>3. Good(e)
      BY <2>1, <2>2, <2>4, <3>1, <3>2
    <3>4. Len(met) <= Len(p)
      BY <2>2, <2>4, PrefixIs
    <3>5. d \in 0 .. Len(p)
      <4>1. d = c + Len(ins.bs)
        BY <2>4
      <4>2. Len(met) = Len(s) + Len(ins.bs)
        BY <2>2
      <4>3. d = Len(met)
        BY <2>1, <4>1, <4>2
      <4>4. Len(met) \in Nat
        BY <2>2, LenProperties DEF Strings
      <4> HIDE DEF d, met
      <4> QED BY <1>1, <3>4, <4>3, <4>4
    <3> HIDE DEF Good, e
    <3> QED BY <3>1, <3>3, <3>5 DEF Good, match
  <2>5. CASE ~match
    <3> DEFINE e == exit(t, s, failed)
    <3>1. e \in Exits(m, i, s)
      BY <2>3, <2>5
    <3>2. \A k \in failed : ~HasPrefix(p, m.routes[k].prefix)
      BY <1>1, <2>2, <2>5, ExcludedRight, DemandingRight
    <3>3. Good(e)
      BY <1>1, <2>1, <2>5, <3>1, <3>2
    <3>4. d \in 0 .. Len(p)
      BY <2>5
    <3> HIDE DEF Good, e
    <3> QED BY <3>1, <3>3, <3>4 DEF Good, match
  <2> QED BY <2>4, <2>5
<1> QED BY <1>3, <1>4, <1>5

-----------------------------------------------------------------------------
(* One request.                                                            *)

Before == {"ready", "compile", "store", "start"}

\* What the variables of a request say of each other: where it is, its machine and
\* path, and what it has of the run.
Fits(loc, m, p, i, c, told, asked, hit, passed) ==
    /\ p \in Strings /\ c \in 0 .. Len(p)
    /\ loc \in Before =>
          i = 0 /\ c = 0 /\ told = {} /\ asked = <<>> /\ passed = {}
    /\ loc \in {"start", "run", "found", "none"} => Lawful(m)
    /\ loc = "run" => /\ Placed(m, Labels(m), p, i, c, passed)
                      /\ Asked(m, p, Labels(m).done[i], asked, hit, told)
    /\ loc = "found" => \E n \in Nat : Asked(m, p, n, asked, hit, told)
    /\ loc = "none" => Asked(m, p, Len(m.routes), asked, hit, told)

Local(q) ==
    Fits(pc[q], rm[q], path[q], at[q], cursor[q], methods[q], visited[q], matching[q], trail[q])

RunInv ==
    /\ IInv
    /\ DOMAIN path = Requests /\ DOMAIN at = Requests /\ DOMAIN cursor = Requests
    /\ DOMAIN methods = Requests /\ DOMAIN visited = Requests /\ DOMAIN matching = Requests
    /\ DOMAIN trail = Requests
    /\ machine # NoMachine => Lawful(machine)
    /\ \A q \in Requests : Local(q)

LEMMA InitRun == Init => RunInv
<1> SUFFICES ASSUME Init PROVE RunInv
  OBVIOUS
<1>1. <<>> \in Strings /\ Len(<<>>) = 0
  BY DEF Strings
<1>2. \A q \in Requests : Local(q)
  BY <1>1 DEF Init, Local, Fits, Before
<1> QED BY <1>2, InitInv DEF Init, RunInv

\* A step that is not this request's own leaves it alone.
LEMMA OthersFit ==
    ASSUME NEW q \in Requests, Local(q), pc'[q] = pc[q], rm'[q] = rm[q], path'[q] = path[q],
           at'[q] = at[q], cursor'[q] = cursor[q], methods'[q] = methods[q],
           visited'[q] = visited[q], matching'[q] = matching[q], trail'[q] = trail[q]
    PROVE  Local(q)'
BY DEF Local

\* What a request has while its machine runs.
LEMMA Facts ==
    ASSUME RunInv, NEW q \in Requests, At(q, "run")
    PROVE  LET m == rm[q] l == Labels(m) i == at[q] IN
           /\ Table(m.routes) /\ m.routes \in Seq(Routes) /\ Lawful(m) /\ Sound(m, l)
           /\ path[q] \in Strings /\ cursor[q] \in 0 .. Len(path[q])
           /\ i \in Places(m) /\ InsAt(m, i) = Ins(q) /\ HasPrefix(path[q], l.read[i])
           /\ Reads(InsAt(m, i)) => cursor[q] = Len(l.read[i])
           /\ Placed(m, l, path[q], i, cursor[q], trail[q])
           /\ Asked(m, path[q], l.done[i], visited[q], matching[q], methods[q])
           /\ LawfulAt(m, l, i)
<1> DEFINE m == rm[q]
           l == Labels(m)
           i == at[q]
<1>1. Table(m.routes)
  BY DEF RunInv, IInv, Lookups, Looking
<1>2. Fits("run", m, path[q], i, cursor[q], methods[q], visited[q], matching[q], trail[q])
  BY DEF RunInv, Local
<1>3. /\ path[q] \in Strings /\ cursor[q] \in 0 .. Len(path[q]) /\ Lawful(m)
      /\ Placed(m, l, path[q], i, cursor[q], trail[q])
      /\ Asked(m, path[q], l.done[i], visited[q], matching[q], methods[q])
  BY <1>2 DEF Fits
<1>4. Sound(m, l)
  BY <1>3, LawfulSound
<1> HIDE DEF l
<1>5. /\ i \in Places(m) /\ HasPrefix(path[q], l.read[i])
      /\ Reads(InsAt(m, i)) => cursor[q] = Len(l.read[i])
  BY <1>3 DEF Placed
<1>6. LawfulAt(m, l, i)
  BY <1>4, <1>5 DEF Sound
<1>7. InsAt(m, i) = Ins(q)
  BY DEF InsAt, Ins
<1>8. m.routes \in Seq(Routes)
  BY <1>1 DEF Table
<1> QED BY <1>1, <1>3, <1>4, <1>5, <1>6, <1>7, <1>8 DEF l

\* The machine goes on to the next instruction: by an exit that is true of the path
\* and with the cursor where it reads from.
LEMMA GoesOn ==
    ASSUME RunInv, NEW q \in Requests, At(q, "run"),
           NEW e \in Exits(rm[q], at[q], Labels(rm[q]).read[at[q]]),
           e.read \in Strings, HasPrefix(path[q], e.read),
           NEW d \in 0 .. Len(path[q]), ~WayOut(Ins(q)) => d = Len(e.read),
           NEW asked, NEW hit, NEW told,
           Asked(rm[q], path[q], Labels(rm[q]).done[e.to], asked, hit, told)
    PROVE  Fits("run", rm[q], path[q], e.to, d, told, asked, hit, trail[q] \cup {at[q]})
<1> DEFINE m == rm[q]
           l == Labels(m)
           i == at[q]
<1>1. /\ Lawful(m) /\ Sound(m, l) /\ path[q] \in Strings /\ InsAt(m, i) = Ins(q)
      /\ Placed(m, l, path[q], i, cursor[q], trail[q])
  BY Facts
<1> HIDE DEF l
<1>2. Placed(m, l, path[q], e.to, d, trail[q] \cup {i})
  BY <1>1, PlacedOn DEF l
<1> QED BY <1>1, <1>2 DEF Fits, Before, l

LEMMA SetCursorFits ==
    ASSUME RunInv, NEW q \in Requests, SetCursor(q)
    PROVE  Local(q)'
<1> DEFINE m == rm[q]
           l == Labels(m)
           i == at[q]
           p == path[q]
<1>1. At(q, "run") /\ Ins(q).op = "cursor"
  BY DEF SetCursor
<1>2. /\ m.routes \in Seq(Routes) /\ Sound(m, l) /\ p \in Strings
      /\ i \in Places(m) /\ InsAt(m, i) = Ins(q) /\ HasPrefix(p, l.read[i])
      /\ Asked(m, p, l.done[i], visited[q], matching[q], methods[q])
  BY <1>1, Facts
<1> HIDE DEF l, m, i, p
<1>3. /\ InsAt(m, i).i \in 0 .. Len(p)
      /\ \E e \in Exits(m, i, l.read[i]) :
            /\ e.to = i + 1 /\ e.read \in Strings /\ HasPrefix(p, e.read)
            /\ Len(e.read) = InsAt(m, i).i
            /\ \A k \in e.gone : ~HasPrefix(p, m.routes[k].prefix)
  BY <1>1, <1>2, CursorSet
<1>4. PICK e \in Exits(m, i, l.read[i]) :
            /\ e.to = i + 1 /\ e.read \in Strings /\ HasPrefix(p, e.read) /\ Len(e.read) = Ins(q).i
            /\ \A k \in e.gone : ~HasPrefix(p, m.routes[k].prefix)
  BY <1>2, <1>3
<1>5. Asked(m, p, l.done[e.to], visited[q], matching[q], methods[q])
  BY <1>2, <1>4, AskedAlong
<1>6. Fits("run", m, p, e.to, Ins(q).i, methods[q], visited[q], matching[q], trail[q] \cup {i})
  BY <1>1, <1>2, <1>3, <1>4, <1>5, GoesOn DEF l, m, i, p
<1>7. /\ pc'[q] = "run" /\ rm'[q] = m /\ path'[q] = p /\ at'[q] = i + 1 /\ cursor'[q] = Ins(q).i
      /\ methods'[q] = methods[q] /\ visited'[q] = visited[q] /\ matching'[q] = matching[q]
      /\ trail'[q] = trail[q] \cup {i}
  BY <1>1 DEF SetCursor, Continue, RunInv, m, i, p
<1> QED BY <1>4, <1>6, <1>7 DEF Local

LEMMA CompareFits ==
    ASSUME RunInv, NEW q \in Requests, Compare(q)
    PROVE  Local(q)'
<1> DEFINE m == rm[q]
           l == Labels(m)
           i == at[q]
           p == path[q]
           c == cursor[q]
           match == HasPrefix(SubSeq(p, c + 1, Len(p)), InsAt(m, i).bs)
           d == IF match THEN c + Len(InsAt(m, i).bs) ELSE c
           t == IF match <=> InsAt(m, i).op = "jump" THEN InsAt(m, i).i ELSE i + 1
           Good(e) == /\ e.to = t /\ e.read \in Strings /\ HasPrefix(p, e.read)
                      /\ ~WayOut(InsAt(m, i)) => d = Len(e.read)
                      /\ \A k \in e.gone : ~HasPrefix(p, m.routes[k].prefix)
<1>1. At(q, "run") /\ InsAt(m, i).op \in {"jump", "skip"} /\ InsAt(m, i) = Ins(q)
  BY DEF Compare, InsAt, Ins
<1>2. /\ m.routes \in Seq(Routes) /\ Sound(m, l) /\ p \in Strings /\ c \in 0 .. Len(p)
      /\ i \in Places(m) /\ HasPrefix(p, l.read[i])
      /\ Reads(InsAt(m, i)) => c = Len(l.read[i])
      /\ Asked(m, p, l.done[i], visited[q], matching[q], methods[q])
  BY <1>1, Facts
<1>3. /\ pc'[q] = "run" /\ rm'[q] = m /\ path'[q] = p /\ at'[q] = t /\ cursor'[q] = d
      /\ methods'[q] = methods[q] /\ visited'[q] = visited[q] /\ matching'[q] = matching[q]
      /\ trail'[q] = trail[q] \cup {i}
  BY <1>1 DEF Compare, Continue, RunInv, Rest
<1> HIDE DEF l, m, i, p, c
<1>4. d \in 0 .. Len(p) /\ \E e \in Exits(m, i, l.read[i]) : Good(e)
  BY <1>1, <1>2, Compared
<1> HIDE DEF t, d
<1>5. PICK e \in Exits(m, i, l.read[i]) : Good(e)
  BY <1>4
<1>6. Asked(m, p, l.done[e.to], visited[q], matching[q], methods[q])
  BY <1>2, <1>5, AskedAlong
<1>7. Fits("run", m, p, e.to, d, methods[q], visited[q], matching[q], trail[q] \cup {i})
  BY <1>1, <1>2, <1>4, <1>5, <1>6, GoesOn DEF l, m, i, p
<1> QED BY <1>3, <1>5, <1>7 DEF Local

\* The route that is asked is the first that has not been dealt with, and the path
\* has its prefix.
LEMMA MatchFits ==
    ASSUME RunInv, NEW q \in Requests, MatchRoute(q)
    PROVE  Local(q)'
<1> DEFINE m == rm[q]
           l == Labels(m)
           i == at[q]
           p == path[q]
           s == l.read[i]
           n == l.done[i]
           r == m.routes[n + 1]
           e == [to |-> i + 1, read |-> s, gone |-> Excluded(m, s) \cup {n + 1}]
           A(x) == Asked(m, p, x, visited'[q], matching'[q], methods'[q])
<1>1. At(q, "run") /\ InsAt(m, i).op = "route" /\ InsAt(m, i) = Ins(q)
  BY DEF MatchRoute, InsAt, Ins
<1>2. /\ Table(m.routes) /\ m.routes \in Seq(Routes) /\ Lawful(m) /\ Sound(m, l) /\ p \in Strings
      /\ cursor[q] \in 0 .. Len(p) /\ i \in Places(m) /\ HasPrefix(p, s)
      /\ Reads(InsAt(m, i)) => cursor[q] = Len(s)
      /\ Asked(m, p, n, visited[q], matching[q], methods[q])
      /\ LawfulAt(m, l, i)
  BY <1>1, Facts
<1> HIDE DEF l
<1>3. /\ InsAt(m, i).i = n /\ n + 1 \in DOMAIN m.routes /\ HasPrefix(s, r.prefix)
      /\ n < l.done[i + 1]
  BY <1>1, <1>2 DEF LawfulAt, Tests, WayOut
<1>4. s \in Strings /\ n \in 0 .. Len(m.routes)
  BY <1>2 DEF Sound
<1>5. r \in Routes /\ r.prefix \in Strings /\ HasPrefix(p, r.prefix)
  <2>1. r \in Routes
    BY <1>2, <1>3
  <2>2. r.prefix \in Strings
    BY <2>1 DEF Routes
  <2> QED BY <1>2, <1>3, <1>4, <2>1, <2>2, PrefixOfPrefix
<1>6. /\ visited'[q] = Append(visited[q], r.id)
      /\ matching'[q] = matching[q]
      /\ methods'[q] = IF r \in matching[q] THEN methods[q] \cup r.methods ELSE methods[q]
      /\ rm'[q] = m /\ path'[q] = p /\ cursor'[q] = cursor[q]
  <2>1. Ins(q).i = n
    BY <1>1, <1>3
  <2> HIDE DEF m, n, i, p
  <2>2. r = rm[q].routes[Ins(q).i + 1]
    BY <2>1 DEF m
  <2> HIDE DEF r
  <2>3. UNCHANGED <<rm, path, cursor, matching>>
    BY DEF MatchRoute
  <2> QED BY <2>2, <2>3 DEF MatchRoute, Allowed, RunInv, m, p
<1>7. A(n + 1)
  <2> HIDE DEF n, m, p
  <2>1. Asked(m, p, n + 1, Append(visited[q], r.id), matching[q],
              IF r \in matching[q] THEN methods[q] \cup r.methods ELSE methods[q])
    BY <1>2, <1>3, <1>5, AskedOne
  <2> QED BY <1>6, <2>1
<1>8. CASE pc'[q] = "found"
  <2>1. n + 1 \in Nat
    BY <1>4
  <2> HIDE DEF n, m, p, i
  <2>2. \E x \in Nat : Asked(m, p, x, visited'[q], matching'[q], methods'[q])
    BY <1>7, <2>1
  <2>3. Fits("found", m, p, at'[q], cursor[q], methods'[q], visited'[q], matching'[q], trail'[q])
    BY <1>2, <2>2 DEF Fits, Before
  <2> QED BY <1>6, <1>8, <2>3 DEF Local
<1>9. CASE pc'[q] # "found"
  <2>1. pc'[q] = "run" /\ at'[q] = i + 1 /\ trail'[q] = trail[q] \cup {i}
    BY <1>1, <1>9 DEF MatchRoute, Continue, RunInv, IInv, Holders
  <2> HIDE DEF e, A, n, m, p, i
  <2>2. e \in Exits(m, i, s) /\ e.to = i + 1 /\ e.read = s
    <3>1. ~WayOut(InsAt(m, i)) /\ ~Tests(InsAt(m, i))
      BY <1>1 DEF WayOut, Tests
    <3>2. Exits(m, i, s) = {[to |-> i + 1, read |-> s,
                             gone |-> Excluded(m, s) \cup {InsAt(m, i).i + 1}]}
      BY <1>1, <3>1 DEF Exits
    <3> QED BY <1>3, <3>2 DEF e
  <2>3. /\ e.to \in Places(m) /\ l.done[e.to] \in n .. Len(m.routes)
        /\ n + 1 .. l.done[e.to] \subseteq e.gone
    BY <1>2, <1>4, <2>2, ExitTaken DEF n
  <2>4. l.done[e.to] \in n + 1 .. Len(m.routes)
    <3>1. l.done[e.to] \in Int /\ l.done[e.to] <= Len(m.routes) /\ n < l.done[e.to] /\ n \in Int
      BY <1>3, <1>4, <2>2, <2>3
    <3> QED BY <3>1, <1>2, LenProperties
  <2>5. \A k \in n + 2 .. l.done[e.to] : ~HasPrefix(p, m.routes[k].prefix)
    <3> SUFFICES ASSUME NEW k \in n + 2 .. l.done[e.to] PROVE ~HasPrefix(p, m.routes[k].prefix)
      OBVIOUS
    <3>1. k \in n + 1 .. l.done[e.to] /\ k # n + 1
      BY <1>4, <2>3
    <3>2. k \in Excluded(m, s)
      BY <2>3, <3>1 DEF e
    <3> QED BY <1>2, <1>4, <3>2, ExcludedRight
  <2>6. A(l.done[e.to])
    <3>1. (n + 1) + 1 = n + 2
      BY <1>4
    <3>2. \A k \in (n + 1) + 1 .. l.done[e.to] : ~HasPrefix(p, m.routes[k].prefix)
      BY <2>5, <3>1
    <3> QED BY <1>2, <1>7, <2>4, <3>2, AskedOn DEF A
  <2>7. Fits("run", m, p, e.to, cursor[q], methods'[q], visited'[q], matching'[q],
             trail[q] \cup {i})
    <3>1. cursor[q] = Len(e.read)
      BY <1>1, <1>2, <2>2 DEF Reads
    <3> QED BY <1>1, <1>2, <1>4, <2>2, <2>6, <3>1, GoesOn DEF A, l, m, p, i
  <2> QED BY <1>6, <2>1, <2>2, <2>7 DEF Local
<1> QED BY <1>8, <1>9

LEMMA FailFits ==
    ASSUME RunInv, NEW q \in Requests, Fail(q)
    PROVE  Local(q)'
<1> DEFINE m == rm[q]
           l == Labels(m)
           i == at[q]
           p == path[q]
<1>1. At(q, "run") /\ InsAt(m, i).op = "fail" /\ InsAt(m, i) = Ins(q)
  BY DEF Fail, InsAt, Ins
<1>2. /\ m.routes \in Seq(Routes) /\ Lawful(m) /\ Sound(m, l) /\ p \in Strings
      /\ cursor[q] \in 0 .. Len(p) /\ i \in Places(m) /\ HasPrefix(p, l.read[i])
      /\ Asked(m, p, l.done[i], visited[q], matching[q], methods[q])
      /\ LawfulAt(m, l, i)
  BY <1>1, Facts
<1>3. /\ pc'[q] = "none" /\ UNCHANGED <<rm, path, at, cursor, methods, visited, matching, trail>>
  BY DEF Fail, RunInv, IInv, Holders
<1> HIDE DEF l, m, i, p
<1>4. l.done[i] + 1 .. Len(m.routes) \subseteq Excluded(m, l.read[i])
  BY <1>1, <1>2 DEF LawfulAt, Tests, WayOut
<1>5. l.read[i] \in Strings /\ l.done[i] \in 0 .. Len(m.routes) /\ Len(m.routes) \in Nat
  BY <1>2, LenProperties DEF Sound
<1>6. \A k \in l.done[i] + 1 .. Len(m.routes) : ~HasPrefix(p, m.routes[k].prefix)
  BY <1>2, <1>4, <1>5, ExcludedRight
<1>7. Asked(m, p, Len(m.routes), visited[q], matching[q], methods[q])
  <2>1. Len(m.routes) \in l.done[i] .. Len(m.routes)
    BY <1>5
  <2> QED BY <1>2, <1>6, <2>1, AskedOn
<1>8. Fits("none", m, p, at[q], cursor[q], methods[q], visited[q], matching[q], trail[q])
  BY <1>2, <1>7 DEF Fits, Before
<1> QED BY <1>3, <1>8 DEF Local, m, p

\* The steps before the run, and the end of the lookup.
LEMMA OwnStepFits ==
    ASSUME RunInv, NEW q \in Requests,
           MachinesLawful \/ ~StoreMachine(q), Route(q)
    PROVE  Local(q)'
<1> DEFINE Idle == /\ at[q] = 0 /\ cursor[q] = 0 /\ methods[q] = {} /\ visited[q] = <<>>
                   /\ trail[q] = {} /\ path[q] \in Strings
<1>1. pc[q] \in Before => Idle
  BY DEF RunInv, Local, Fits
<1> USE DEF Before
<1>2. ASSUME NEW p \in Paths, Begin(q, p) PROVE Local(q)'
  <2>1. /\ pc'[q] = IF machine = NoMachine THEN "compile" ELSE "start"
        /\ rm'[q] = machine /\ path'[q] = p
        /\ UNCHANGED <<at, cursor, methods, visited, matching, trail>>
    BY <1>2 DEF Begin, RunInv, IInv, Holders, Lookups, runVars, historyVars
  <2>2. p \in Strings /\ Len(p) \in Nat /\ Idle
    BY <1>1, <1>2, LenProperties DEF Begin, Strings
  <2>3. pc'[q] = "start" => Lawful(machine)
    BY <2>1 DEF RunInv
  <2>4. pc'[q] \in {"compile", "start"}
    BY <2>1
  <2>5. Fits(pc'[q], machine, p, 0, 0, {}, <<>>, matching[q], {})
    BY <2>2, <2>3, <2>4 DEF Fits
  <2> QED BY <2>1, <2>2, <2>5 DEF Local
<1>3. CASE CompileRoutes(q)
  <2>1. /\ pc'[q] = "store" /\ pc[q] = "compile"
        /\ UNCHANGED <<path, at, cursor, methods, visited, matching, trail>>
    BY <1>3 DEF CompileRoutes, RunInv, IInv, Holders, runVars, historyVars
  <2>2. Idle /\ cursor[q] \in 0 .. Len(path[q])
    BY <1>1, <2>1 DEF RunInv, Local, Fits
  <2>3. Fits(pc'[q], rm'[q], path[q], 0, 0, {}, <<>>, matching[q], {})
    BY <2>1, <2>2 DEF Fits
  <2> QED BY <2>1, <2>2, <2>3 DEF Local
<1>4. CASE StoreMachine(q)
  <2>1. /\ pc'[q] = "start" /\ pc[q] = "store"
        /\ UNCHANGED <<rm, path, at, cursor, methods, visited, matching, trail>>
    BY <1>4 DEF StoreMachine, RunInv, IInv, Holders, lookupVars, runVars, historyVars
  <2>2. Idle /\ cursor[q] \in 0 .. Len(path[q])
    BY <1>1, <2>1 DEF RunInv, Local, Fits
  <2>3. Lawful(rm[q])
    BY <1>4, <2>1 DEF MachinesLawful
  <2>4. Fits(pc'[q], rm[q], path[q], 0, 0, {}, <<>>, matching[q], {})
    BY <2>1, <2>2, <2>3 DEF Fits
  <2> QED BY <2>1, <2>2, <2>4 DEF Local
<1>5. CASE Start(q)
  <2> DEFINE m == rm[q]
             l == Labels(m)
  <2>1. /\ pc'[q] = (IF m.sm = <<>> THEN "none" ELSE "run") /\ pc[q] = "start"
        /\ UNCHANGED <<rm, path, at, cursor, methods, visited, trail>>
    BY <1>5 DEF Start, RunInv, IInv, Holders, lookupVars, runVars, historyVars
  <2>2. Idle /\ cursor[q] \in 0 .. Len(path[q]) /\ Lawful(m)
    BY <1>1, <2>1 DEF RunInv, Local, Fits
  <2>3. Sound(m, l)
    BY <2>2, LawfulSound
  <2>4. Table(m.routes)
    BY <2>1 DEF RunInv, IInv, Lookups, Looking
  <2> HIDE DEF l, m
  <2>5. Asked(m, path[q], 0, <<>>, matching'[q], {})
    <3>1. Len(m.routes) \in Nat
      BY <2>4, LenProperties DEF Table
    <3>2. Due(m, path[q], 0) = {}
      BY DEF Due
    <3>3. <<>> \in Seq(Nat) /\ Rising(<<>>) /\ ToSet(<<>>) = {}
      BY DEF Rising, ToSet
    <3> QED BY <3>1, <3>2, <3>3 DEF Asked
  <2>6. CASE m.sm = <<>>
    <3>1. Len(m.routes) = 0
      BY <2>3, <2>6 DEF Sound
    <3>2. Fits("none", m, path[q], 0, 0, {}, <<>>, matching'[q], {})
      BY <2>2, <2>5, <3>1 DEF Fits
    <3> QED BY <2>1, <2>2, <2>6, <3>2 DEF Local, m
  <2>7. CASE m.sm # <<>>
    <3>1. 0 \in Places(m) /\ l.done[0] = 0 /\ l.read[0] = <<>>
      BY <2>3, <2>7 DEF Sound
    <3>2. Len(<<>>) = 0 /\ <<>> \in Strings /\ Len(path[q]) \in Nat
      BY <2>2, LenProperties DEF Strings
    <3>3. HasPrefix(path[q], <<>>)
      BY <2>2, <3>2, PrefixIs
    <3>4. Placed(m, l, path[q], 0, 0, {})
      BY <3>1, <3>2, <3>3 DEF Placed
    <3>5. Fits("run", m, path[q], 0, 0, {}, <<>>, matching'[q], {})
      BY <2>2, <2>5, <3>1, <3>4 DEF Fits, l
    <3> QED BY <2>1, <2>2, <2>7, <3>5 DEF Local, m
  <2> QED BY <2>6, <2>7
<1>6. CASE SetCursor(q) \/ Compare(q) \/ Fail(q)
  BY <1>6, SetCursorFits, CompareFits, FailFits
<1>7. CASE MatchRoute(q)
  BY <1>7, MatchFits
<1>8. CASE Finish(q)
  <2>1. /\ pc'[q] = "ready" /\ path'[q] = <<>> /\ at'[q] = 0 /\ cursor'[q] = 0 /\ methods'[q] = {}
        /\ visited'[q] = <<>> /\ trail'[q] = {}
    BY <1>8 DEF Finish, RunInv, IInv, Holders
  <2>2. <<>> \in Strings /\ Len(<<>>) = 0
    BY DEF Strings
  <2>3. Fits("ready", rm'[q], <<>>, 0, 0, {}, <<>>, matching'[q], {})
    BY <2>2 DEF Fits
  <2> QED BY <2>1, <2>3 DEF Local
<1> QED BY <1>2, <1>3, <1>4, <1>5, <1>6, <1>7, <1>8 DEF Route

\* A step of a request changes its own variables only.
OthersAlone(q) ==
    /\ DOMAIN path' = Requests /\ DOMAIN at' = Requests /\ DOMAIN cursor' = Requests
    /\ DOMAIN methods' = Requests /\ DOMAIN visited' = Requests /\ DOMAIN matching' = Requests
    /\ DOMAIN trail' = Requests
    /\ \A o \in Requests \ {q} :
          /\ pc'[o] = pc[o] /\ rm'[o] = rm[o] /\ path'[o] = path[o] /\ at'[o] = at[o]
          /\ cursor'[o] = cursor[o] /\ methods'[o] = methods[o]
          /\ visited'[o] = visited[o] /\ matching'[o] = matching[o] /\ trail'[o] = trail[o]

LEMMA RouteKeeps ==
    ASSUME RunInv, NEW q \in Requests, Route(q)
    PROVE  OthersAlone(q)
<1> USE DEF RunInv, IInv, Holders, Lookups, OthersAlone
<1>1. ASSUME NEW p \in Paths, Begin(q, p) PROVE OthersAlone(q)
  BY <1>1 DEF Begin
<1>2. CASE CompileRoutes(q)
  BY <1>2 DEF CompileRoutes
<1>3. CASE StoreMachine(q)
  BY <1>3 DEF StoreMachine
<1>4. CASE Start(q)
  BY <1>4 DEF Start
<1>5. CASE SetCursor(q)
  BY <1>5 DEF SetCursor, Continue
<1>6. CASE Compare(q)
  BY <1>6 DEF Compare, Continue
<1>7. CASE Fail(q)
  BY <1>7 DEF Fail
<1>8. CASE MatchRoute(q)
  BY <1>8 DEF MatchRoute, Continue
<1>9. CASE Finish(q)
  BY <1>9 DEF Finish
<1> QED BY <1>1, <1>2, <1>3, <1>4, <1>5, <1>6, <1>7, <1>8, <1>9 DEF Route

LEMMA RouteRun ==
    ASSUME RunInv, MachinesLawful, NEW q \in Requests, Route(q)
    PROVE  RunInv'
<1>1. IInv'
  BY RouteStep DEF RunInv
<1>2. OthersAlone(q)
  BY RouteKeeps
<1>3. ASSUME NEW o \in Requests PROVE Local(o)'
  <2>1. CASE o = q
    BY <2>1, OwnStepFits
  <2>2. CASE o # q
    <3>1. Local(o)
      BY DEF RunInv
    <3> QED BY <1>2, <2>2, <3>1, OthersFit DEF OthersAlone
  <2> QED BY <2>1, <2>2
<1>4. machine' # NoMachine => Lawful(machine')
  <2>1. CASE StoreMachine(q)
    BY <2>1 DEF StoreMachine, MachinesLawful
  <2>2. CASE ~StoreMachine(q)
    <3>1. machine' = machine
      BY <2>2 DEF Route, Begin, CompileRoutes, Start, SetCursor, Compare, Fail, MatchRoute, Finish
    <3> QED BY <3>1 DEF RunInv
  <2> QED BY <2>1, <2>2
<1> QED BY <1>1, <1>2, <1>3, <1>4 DEF RunInv, OthersAlone

LEMMA HandleRun ==
    ASSUME RunInv, NEW r \in Registrars, Handle(r)
    PROVE  RunInv'
<1>1. IInv'
  BY HandleStep DEF RunInv
<1>2. UNCHANGED <<rm, path, at, cursor, methods, visited, matching, trail>>
  BY DEF Handle, HandleLock, HandleClear, HandleAdd
<1>3. \A q \in Requests : pc'[q] = pc[q]
  BY DEF Handle, HandleLock, HandleClear, HandleAdd, RunInv, IInv, Holders
<1>4. machine' = NoMachine \/ machine' = machine
  BY DEF Handle, HandleLock, HandleClear, HandleAdd
<1>5. \A q \in Requests : Local(q)'
  BY <1>2, <1>3, OthersFit DEF RunInv
<1> QED BY <1>1, <1>2, <1>4, <1>5 DEF RunInv

(* If every machine that is compiled is lawful, a lookup is where its      *)
(* labels say: it has asked the routes that the path may match of those    *)
(* that have been dealt with.                                              *)
THEOREM LookupInvariant == Spec /\ []MachinesLawful => []RunInv
<1>1. RunInv /\ MachinesLawful /\ [Next]_vars => RunInv'
  <2> SUFFICES ASSUME RunInv, MachinesLawful, [Next]_vars PROVE RunInv'
    OBVIOUS
  <2>1. CASE Next
    BY <2>1, HandleRun, RouteRun DEF Next
  <2>2. CASE UNCHANGED vars
    <3>1. IInv'
      BY <2>2 DEF vars, RunInv, IInv, Table, Ordered, Holders, Current, Lookups, Looking
    <3>2. \A q \in Requests : Local(q)'
      BY <2>2, OthersFit DEF vars, RunInv, runVars, historyVars
    <3> QED BY <2>2, <3>1, <3>2 DEF vars, RunInv, runVars, historyVars
  <2> QED BY <2>1, <2>2
<1> QED BY InitRun, <1>1, PTL DEF Spec

\* Whatever list the router may have is compiled to lawful bytecode.
LawfulCompiler == \A s : Table(s) => Lawful([sm |-> Bytecode(s), routes |-> s])

(* It is enough to look at the compiler: the list that is compiled is      *)
(* always complete and ordered, and no one touches the machine until it is *)
(* in place.                                                               *)
THEOREM CompilerSuffices == LawfulCompiler => (Spec => []MachinesLawful)
<1> SUFFICES ASSUME LawfulCompiler PROVE Spec => []MachinesLawful
  OBVIOUS
<1>1. Init => MachinesLawful
  BY DEF Init, MachinesLawful
<1>2. IInv /\ MachinesLawful /\ [Next]_vars => MachinesLawful'
  <2> SUFFICES ASSUME IInv, MachinesLawful, [Next]_vars, NEW q \in Requests, pc'[q] = "store"
               PROVE  Lawful(rm'[q])
    BY DEF MachinesLawful
  <2>1. CASE CompileRoutes(q)
    <3>1. rm'[q] = [sm |-> Bytecode(routes), routes |-> routes]
      BY <2>1 DEF CompileRoutes, IInv, Lookups
    <3> QED BY <3>1 DEF LawfulCompiler, IInv
  <2>2. CASE ~CompileRoutes(q)
    <3>1. pc[q] = "store" /\ rm'[q] = rm[q]
      <4>1. ASSUME NEW r \in Registrars, Handle(r) PROVE pc[q] = "store" /\ rm'[q] = rm[q]
        BY <4>1 DEF Handle, HandleLock, HandleClear, HandleAdd, IInv, Holders
      <4>2. ASSUME NEW o \in Requests, Route(o) PROVE pc[q] = "store" /\ rm'[q] = rm[q]
        <5> USE DEF IInv, Holders, Lookups
        <5>1. ASSUME NEW p \in Paths, Begin(o, p) PROVE pc[q] = "store" /\ rm'[q] = rm[q]
          BY <5>1 DEF Begin
        <5>2. CASE CompileRoutes(o) \/ StoreMachine(o) \/ Start(o)
          BY <2>2, <5>2 DEF CompileRoutes, StoreMachine, Start
        <5>3. CASE SetCursor(o) \/ Compare(o) \/ Fail(o)
          BY <5>3 DEF SetCursor, Compare, Fail
        <5>4. CASE MatchRoute(o)
          BY <5>4 DEF MatchRoute
        <5>5. CASE Finish(o)
          BY <5>5 DEF Finish
        <5> QED BY <4>2, <5>1, <5>2, <5>3, <5>4, <5>5 DEF Route
      <4>3. CASE UNCHANGED vars
        BY <4>3 DEF vars
      <4> QED BY <4>1, <4>2, <4>3 DEF Next
    <3> QED BY <3>1 DEF MachinesLawful
  <2> QED BY <2>1, <2>2
<1> QED BY <1>1, <1>2, RouterInvariant, PTL DEF Spec

(* A request refers to no instruction, route or byte that is not there:    *)
(* the machine's code, its list of routes and the path always go together. *)
THEOREM RouterTypes == Spec /\ []MachinesLawful => []TypeOK
<1>1. RunInv => TypeOK
  <2> SUFFICES ASSUME RunInv PROVE TypeOK
    OBVIOUS
  <2>1. lock \in Procs \cup {NoProc} /\ {r.id : r \in ToSet(routes)} = 1 .. Len(routes)
    BY DEF RunInv, IInv, Holders, Table
  <2>2. machine # NoMachine => ToSet(machine.routes) \subseteq ToSet(routes)
    BY DEF RunInv, IInv, Current
  <2>3. \A q \in Requests : cursor[q] \in 0 .. Len(path[q])
    BY DEF RunInv, Local, Fits
  <2>4. ASSUME NEW q \in Requests, At(q, "run")
        PROVE  /\ at[q] \in 0 .. Len(rm[q].sm) - 1
               /\ Ins(q).op = "route" => Ins(q).i \in 0 .. Len(rm[q].routes) - 1
    <3> DEFINE m == rm[q]
               l == Labels(m)
    <3>1. /\ at[q] \in Places(m) /\ InsAt(m, at[q]) = Ins(q) /\ LawfulAt(m, l, at[q]) /\ Sound(m, l)
          /\ m.routes \in Seq(Routes)
      BY <2>4, Facts
    <3> HIDE DEF l
    <3>2. Ins(q).op = "route" => Ins(q).i = l.done[at[q]] /\ Ins(q).i + 1 \in DOMAIN m.routes
      BY <3>1 DEF LawfulAt, Tests, WayOut
    <3>3. l.done[at[q]] \in Nat /\ Len(m.routes) \in Nat /\ DOMAIN m.routes = 1 .. Len(m.routes)
      BY <3>1, LenProperties DEF Sound
    <3>4. Ins(q).op = "route" => Ins(q).i \in 0 .. Len(m.routes) - 1
      <4> HIDE DEF m
      <4> QED BY <3>2, <3>3
    <3> QED BY <3>1, <3>4 DEF Places
  <2> QED BY <2>1, <2>2, <2>3, <2>4 DEF TypeOK
<1> QED BY <1>1, LookupInvariant, PTL

(* "Just like the naive router, our goal is to call each plausible         *)
(* pattern, in the order they were added, until we find one that matches"  *)
(* (bytecode_compiler.go:15-20): with lawful bytecode it does, for any     *)
(* list of routes and any path, whatever the patterns answer.              *)
THEOREM RoutesLikeNaiveRouter == Spec /\ []MachinesLawful => []NaiveRouting
<1>1. RunInv => NaiveRouting
  <2> SUFFICES ASSUME RunInv, NEW q \in Requests, Looking(q)
               PROVE  LET plausible == {r.id : r \in Plausible(rm[q].routes, path[q])}
                          asked == ToSet(visited[q])
                      IN  /\ \A i, j \in DOMAIN visited[q] : i < j => visited[q][i] < visited[q][j]
                          /\ asked \subseteq plausible
                          /\ \A v \in asked, w \in plausible \ asked : v < w
                          /\ At(q, "none") => asked = plausible
    BY DEF NaiveRouting
  <2> DEFINE m == rm[q]
             p == path[q]
             plausible == {r.id : r \in Plausible(m.routes, p)}
             asked == ToSet(visited[q])
             N == Len(m.routes)
  <2>1. /\ Table(m.routes)
        /\ Fits(pc[q], m, p, at[q], cursor[q], methods[q], visited[q], matching[q], trail[q])
    BY DEF RunInv, IInv, Lookups, Local
  <2>2. p \in Strings /\ m.routes \in Seq(Routes) /\ N \in Nat /\ DOMAIN m.routes = 1 .. N
    BY <2>1, LenProperties DEF Fits, Table
  <2> HIDE DEF m, p
  <2>3. plausible = {m.routes[k].id : k \in Due(m, p, N)}
    BY <2>2 DEF Plausible, ToSet, Due
  <2>4. PICK n \in 0 .. N : /\ asked = {m.routes[k].id : k \in Due(m, p, n)} /\ Rising(visited[q])
                            /\ At(q, "none") => n = N
    <3>1. CASE pc[q] = "start"
      <4>1. visited[q] = <<>>
        BY <2>1, <3>1 DEF Fits, Before
      <4>2. asked = {} /\ Rising(visited[q]) /\ Due(m, p, 0) = {}
        BY <4>1 DEF ToSet, Rising, Due
      <4> QED BY <2>2, <3>1, <4>2
    <3>2. CASE pc[q] # "start"
      <4>1. \E n \in 0 .. N : /\ Asked(m, p, n, visited[q], matching[q], methods[q])
                              /\ At(q, "none") => n = N
        BY <2>1, <2>2, <3>2 DEF Fits, Looking, Asked
      <4> QED BY <4>1 DEF Asked
    <3> QED BY <3>1, <3>2
  <2>5. Due(m, p, n) \subseteq Due(m, p, N)
    BY <2>2 DEF Due
  <2> HIDE DEF plausible, asked
  <2>6. asked \subseteq plausible
    BY <2>3, <2>4, <2>5
  <2>7. ASSUME NEW v \in asked, NEW w \in plausible \ asked PROVE v < w
    <3>1. PICK i \in Due(m, p, n) : v = m.routes[i].id
      BY <2>4
    <3>2. PICK j \in Due(m, p, N) : w = m.routes[j].id
      BY <2>3
    <3>3. j \notin Due(m, p, n)
      BY <2>4, <3>2
    <3>4. i \in 1 .. N /\ j \in 1 .. N /\ i < j /\ HasPrefix(p, m.routes[i].prefix)
          /\ HasPrefix(p, m.routes[j].prefix)
      BY <2>2, <3>3 DEF Due
    <3> QED BY <2>1, <2>2, <3>1, <3>2, <3>4, DueInOrder
  <2>8. At(q, "none") => asked = plausible
    BY <2>3, <2>4
  <2> QED BY <2>4, <2>6, <2>7, <2>8 DEF Rising, plausible, asked, m, p
<1> QED BY <1>1, LookupInvariant, PTL

(* Routing ends: no instruction is executed twice for one request.         *)
THEOREM RoutingEnds == Spec /\ []MachinesLawful => []NoLoop
<1>1. RunInv => NoLoop
  <2> SUFFICES ASSUME RunInv, NEW q \in Requests, At(q, "run"), at[q] \in trail[q] PROVE FALSE
    BY DEF NoLoop
  <2> DEFINE m == rm[q]
             l == Labels(m)
  <2>1. Sound(m, l) /\ Placed(m, l, path[q], at[q], cursor[q], trail[q])
    BY Facts
  <2> HIDE DEF m, l
  <2>2. at[q] \in Places(m) /\ Ahead(m, l.done, at[q], at[q])
    BY <2>1 DEF Placed
  <2>3. l.done \in [Places(m) -> Nat]
    BY <2>1 DEF Sound
  <2> QED BY <2>2, <2>3, AheadNotItself
<1> QED BY <1>1, LookupInvariant, PTL

\* The routes that match are of the list, and the path has their prefixes.
Answered ==
    /\ DOMAIN matching = Requests
    /\ \A q \in Requests : pc[q] \in {"run", "found", "none"} =>
          matching[q] \subseteq Plausible(rm[q].routes, path[q])

LEMMA AnsweredKept ==
    ASSUME RunInv, Answered, [Next]_vars
    PROVE  Answered'
<1> USE DEF Answered
<1>1. ASSUME NEW r \in Registrars, Handle(r) PROVE Answered'
  BY <1>1 DEF Handle, HandleLock, HandleClear, HandleAdd, RunInv, IInv, Holders, Plausible
<1>2. ASSUME NEW q \in Requests, Route(q) PROVE Answered'
  <2>1. OthersAlone(q)
    BY <1>2, RouteKeeps
  <2>2. ASSUME pc'[q] \in {"run", "found", "none"}
        PROVE  matching'[q] \subseteq Plausible(rm'[q].routes, path'[q])
    <3>1. CASE Start(q)
      BY <3>1 DEF Start, Answers, Plausible
    <3>2. CASE ~Start(q)
      <4>1. /\ UNCHANGED <<rm, path, matching>> /\ At(q, "run")
        BY <1>2, <2>2, <3>2 DEF Route, Begin, CompileRoutes, StoreMachine, SetCursor, Compare, Fail,
           MatchRoute, Finish, RunInv, IInv, Holders
      <4> QED BY <4>1
    <3> QED BY <3>1, <3>2
  <2>3. \A o \in Requests \ {q} : pc'[o] \in {"run", "found", "none"} =>
           matching'[o] \subseteq Plausible(rm'[o].routes, path'[o])
    BY <2>1 DEF OthersAlone
  <2> QED BY <2>1, <2>2, <2>3 DEF OthersAlone, Plausible
<1>3. CASE UNCHANGED vars
  BY <1>3 DEF vars, Plausible
<1> QED BY <1>1, <1>2, <1>3 DEF Next

(* "The set of methods that would have been allowed" (router.go:30-31):    *)
(* when no route is taken, a NotFound handler has been told the methods of *)
(* every route in the list whose pattern matches the path, and of no       *)
(* other, wherever in the bytecode the machine has been.                   *)
THEOREM AllowedIsComplete == Spec /\ []MachinesLawful => []AllowedMethods
<1>1. Init => Answered
  BY DEF Init, Answered
<1>2. RunInv /\ Answered => AllowedMethods
  <2> SUFFICES ASSUME RunInv, Answered, NEW q \in Requests, At(q, "none")
               PROVE  methods[q] = UNION {r.methods : r \in matching[q]}
    BY DEF AllowedMethods
  <2> DEFINE m == rm[q]
             p == path[q]
             N == Len(m.routes)
             D == {k \in Due(m, p, N) : m.routes[k] \in matching[q]}
  <2>1. /\ Table(m.routes)
        /\ Fits("none", m, p, at[q], cursor[q], methods[q], visited[q], matching[q], trail[q])
    BY DEF RunInv, IInv, Lookups, Looking, Local
  <2>2. m.routes \in Seq(Routes) /\ N \in Nat /\ DOMAIN m.routes = 1 .. N
    BY <2>1, LenProperties DEF Table
  <2>3. Asked(m, p, N, visited[q], matching[q], methods[q])
    BY <2>1 DEF Fits
  <2>4. matching[q] \subseteq Plausible(m.routes, p)
    BY DEF Answered
  <2> HIDE DEF m, p
  <2>5. methods[q] = UNION {m.routes[k].methods : k \in D}
    BY <2>3 DEF Asked
  <2>6. matching[q] = {m.routes[k] : k \in D}
    BY <2>2, <2>4 DEF Plausible, ToSet, Due
  <2> HIDE DEF D
  <2>7. {r.methods : r \in matching[q]} = {m.routes[k].methods : k \in D}
    BY <2>6, Zenon
  <2> QED BY <2>5, <2>7
<1> QED BY <1>1, <1>2, AnsweredKept, LookupInvariant, PTL DEF Spec
=============================================================================
