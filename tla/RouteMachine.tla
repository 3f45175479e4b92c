---------------------------- MODULE RouteMachine ----------------------------
(***************************************************************************)
(* When bytecode routes over a list of routes as the list itself would.    *)
(* Each instruction has two labels: how many routes of the list have been  *)
(* dealt with when it is reached, and a string that the path is known to   *)
(* begin with.  A machine is lawful if every instruction keeps what its    *)
(* own label says: a condition on one instruction and its successors, not  *)
(* on what a run does.  A machine is a record of the list and the code.    *)
(***************************************************************************)
EXTENDS RouteTable

Places(m) == 0 .. Len(m.sm) - 1
InsAt(m, i) == m.sm[i + 1]

\* A comparison that may fail; the way out of a trie, which always jumps; and what
\* relies on the cursor.
Tests(ins) == ins.op \in {"jump", "skip"} /\ ins.bs # <<>>
WayOut(ins) == ins.op = "jump" /\ ins.bs = <<>>
Reads(ins) == Tests(ins) \/ ins.op = "route"

\* The routes that no path can match that begins with s, and those that no
\* other path can.
Excluded(m, s) ==
    {k \in DOMAIN m.routes : ~HasPrefix(m.routes[k].prefix, s) /\ ~HasPrefix(s, m.routes[k].prefix)}
Demanding(m, s) == {k \in DOMAIN m.routes : HasPrefix(m.routes[k].prefix, s)}

\* Where instruction i may go with a path that begins with s: what is read of the
\* path then, and the routes that have been dealt with or ruled out on the way.
Exits(m, i, s) ==
    LET ins == InsAt(m, i)
        met == s \o ins.bs
        exit(t, r, gone) == [to |-> t, read |-> r, gone |-> gone]
        failed == Excluded(m, s) \cup Demanding(m, met)
    IN  CASE ins.op = "cursor" /\ ins.i <= Len(s) -> {exit(i + 1, SubSeq(s, 1, ins.i), Excluded(m, s))}
          [] ins.op = "route" -> {exit(i + 1, s, Excluded(m, s) \cup {ins.i + 1})}
          [] WayOut(ins) -> {exit(ins.i, s, Excluded(m, s))}
          [] ins.op = "jump" /\ Tests(ins) ->
                {exit(ins.i, met, Excluded(m, met)), exit(i + 1, s, failed)}
          [] ins.op = "skip" /\ Tests(ins) ->
                {exit(i + 1, met, Excluded(m, met)), exit(ins.i, s, failed)}
          [] OTHER -> {}

\* Progress: to later routes, and without one first out, to earlier code, and
\* then down, to later code.
Ahead(m, done, i, t) ==
    \/ done[i] < done[t]
    \/ /\ done[i] = done[t]
       /\ \/ WayOut(InsAt(m, i)) /\ (WayOut(InsAt(m, t)) => t < i)
          \/ ~WayOut(InsAt(m, i)) /\ ~WayOut(InsAt(m, t)) /\ i < t

LawfulExit(m, l, i, e) ==
    /\ e.to \in Places(m) /\ Ahead(m, l.done, i, e.to)
    /\ HasPrefix(e.read, l.read[e.to])
    /\ Reads(InsAt(m, e.to)) => l.read[e.to] = e.read /\ ~WayOut(InsAt(m, i))
    /\ l.done[i] + 1 .. l.done[e.to] \subseteq e.gone

LawfulAt(m, l, i) ==
    LET ins == InsAt(m, i)
        s == l.read[i]
    IN  /\ ins.bs \in Seq(Nat)
        /\ \A e \in Exits(m, i, s) : LawfulExit(m, l, i, e)
        /\ \/ ins.op = "cursor" /\ ins.i \in 0 .. Len(s)
           \/ /\ ins.op = "route" /\ ins.i = l.done[i] /\ ins.i + 1 \in DOMAIN m.routes
              /\ HasPrefix(s, m.routes[ins.i + 1].prefix) /\ l.done[i] < l.done[i + 1]
           \/ Tests(ins) \/ WayOut(ins)
           \/ ins.op = "fail" /\ l.done[i] + 1 .. Len(m.routes) \subseteq Excluded(m, s)

-----------------------------------------------------------------------------
(* The labels, by going over the code until they have spread everywhere.   *)

\* Applied to the empty set as often as there are instructions.
Spread(m, pass(_)) == FoldLeft(LAMBDA set, k : pass(set), {}, m.sm)

\* The places a machine may come to, each with what may have been read then.
Arrivals(m) ==
    LET pass(set) == {<<0, <<>>>>} \cup
                     UNION {{<<e.to, e.read>> : e \in Exits(m, x[1], x[2])} : x \in set}
    IN  Spread(m, pass)

\* The places, each with the number of a route that may be asked from there on.
Coming(m, flow) ==
    LET own == {<<i, InsAt(m, i).i>> : i \in {j \in Places(m) : InsAt(m, j).op = "route"}}
        pass(set) == own \cup UNION {{<<x[1], y[2]>> : x \in {f \in flow : f[2] = y[1]}} : y \in set}
    IN  Spread(m, pass)

Labels(m) ==
    LET arrivals == Arrivals(m)
        flow == UNION {{<<x[1], e.to>> : e \in Exits(m, x[1], x[2])} : x \in arrivals}
        coming == Coming(m, flow)
        of(set, i) == {x[2] : x \in {y \in set : y[1] = i}}
    IN  [ done |-> [i \in Places(m) |-> Min(of(coming, i) \cup {Len(m.routes)})],
          read |-> [i \in Places(m) |-> LongestCommonPrefix(of(arrivals, i) \cup
                        IF of(arrivals, i) = {} THEN {<<>>} ELSE {})] ]

(* The machine has labels that every instruction keeps.                    *)
Lawful(m) ==
    LET l == Labels(m) IN
    /\ l.done \in [Places(m) -> 0 .. Len(m.routes)] /\ l.read \in [Places(m) -> Seq(Nat)]
    /\ m.sm = <<>> => m.routes = <<>>
    /\ m.sm # <<>> => 0 \in Places(m) /\ l.done[0] = 0 /\ l.read[0] = <<>>
    /\ \A i \in Places(m) : LawfulAt(m, l, i)
=============================================================================
