----------------------------- MODULE RouteTable -----------------------------
(***************************************************************************)
(* The list of routes a router keeps: ordered by prefix as far as that is  *)
(* possible without changing which route is first to match a path.  A      *)
(* string is a sequence of bytes.                                          *)
(***************************************************************************)
EXTENDS Integers, SequencesExt

\* strings.HasPrefix
HasPrefix(s, p) == IsPrefix(p, s)

\* The order of strings: the first byte that differs decides.
AtMost(s, t) ==
    \/ HasPrefix(t, s)
    \/ \E i \in DOMAIN s \cap DOMAIN t :
          s[i] < t[i] /\ \A j \in 1 .. i - 1 : s[j] = t[j]

\* Mutant: an extension of the new prefix is moved like any larger one.
StaysBefore_Sorted(rip, pp) == AtMost(rip, pp)
\* A route with prefix rip stays before a new one with prefix pp.
StaysBefore(rip, pp) == AtMost(rip, pp) \/ HasPrefix(rip, pp)

\* How many of the routes stay before it: the scan starts at the end.
Position(routes, pp) ==
    CHOOSE i \in 0 .. Len(routes) :
        /\ i > 0 => StaysBefore(routes[i].prefix, pp)
        /\ \A j \in i + 1 .. Len(routes) : ~StaysBefore(routes[j].prefix, pp)

\* The list router.handle makes of the old list and a new route.
Handled(routes, route) == InsertAt(routes, Position(routes, route.prefix) + 1, route)

\* The routes whose pattern may match a path.
Plausible(routes, path) == {r \in ToSet(routes) : HasPrefix(path, r.prefix)}
=============================================================================
