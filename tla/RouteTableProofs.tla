-------------------------- MODULE RouteTableProofs --------------------------
(***************************************************************************)
(* Sorting the routes as they are added changes nothing that a request     *)
(* could notice: for any strings and any number of routes, two routes that *)
(* may both match one path stay in the order of their addition.            *)
(***************************************************************************)
EXTENDS RouteTable, SequenceTheorems, WellFoundedInduction, TLAPS

Strings == Seq(Nat)
Routes == [id : Nat, prefix : Strings, methods : SUBSET STRING]

\* Whether a path may match the patterns of both.
Rivals(r, s) ==
    \E path \in Strings : HasPrefix(path, r.prefix) /\ HasPrefix(path, s.prefix)

Ordered(routes) ==
    \A i, j \in DOMAIN routes :
        i < j /\ Rivals(routes[i], routes[j]) => routes[i].id < routes[j].id

-----------------------------------------------------------------------------
\* Of two prefixes of a path, the shorter is a prefix of the longer.
LEMMA PrefixesOfOne ==
    ASSUME NEW path \in Strings, NEW p \in Strings, NEW q \in Strings,
           HasPrefix(path, p), HasPrefix(path, q), Len(p) <= Len(q)
    PROVE  HasPrefix(q, p)
<1>1. Len(p) \in Nat /\ Len(q) \in Nat /\ Len(path) \in Nat
  BY LenProperties DEF Strings
<1>2. Len(q) <= Len(path)
  BY DEF HasPrefix, IsPrefix
<1>3. \A i \in 1 .. Len(p) : p[i] = path[i]
  <2> SUFFICES ASSUME NEW i \in 1 .. Len(p) PROVE p[i] = path[i]
    OBVIOUS
  <2>1. SubSeq(p, 1, Len(p))[i] = SubSeq(path, 1, Len(p))[i]
    BY DEF HasPrefix, IsPrefix
  <2> QED BY <1>1, <1>2, <2>1 DEF Strings
<1>4. \A i \in 1 .. Len(q) : q[i] = path[i]
  <2> SUFFICES ASSUME NEW i \in 1 .. Len(q) PROVE q[i] = path[i]
    OBVIOUS
  <2>1. SubSeq(q, 1, Len(q))[i] = SubSeq(path, 1, Len(q))[i]
    BY DEF HasPrefix, IsPrefix
  <2> QED BY <1>1, <1>2, <2>1 DEF Strings
<1>5. \A i \in 1 .. Len(p) : p[i] = q[i]
  BY <1>1, <1>3, <1>4
<1>6. SubSeq(p, 1, Len(p)) = SubSeq(q, 1, Len(p))
  BY <1>1, <1>5 DEF Strings
<1> QED BY <1>6 DEF HasPrefix, IsPrefix

\* A route that does not stay before another is no rival of it.
LEMMA RivalsStay ==
    ASSUME NEW r \in Routes, NEW s \in Routes, Rivals(r, s)
    PROVE  StaysBefore(r.prefix, s.prefix)
<1>1. r.prefix \in Strings /\ s.prefix \in Strings
  BY DEF Routes
<1>2. Len(r.prefix) \in Nat /\ Len(s.prefix) \in Nat
  BY <1>1, LenProperties DEF Strings
<1>3. HasPrefix(s.prefix, r.prefix) \/ HasPrefix(r.prefix, s.prefix)
  BY <1>1, <1>2, PrefixesOfOne DEF Rivals
<1> QED BY <1>3 DEF StaysBefore, AtMost

\* The scan from the end stops somewhere.
LEMMA PositionExists ==
    ASSUME NEW routes \in Seq(Routes), NEW pp
    PROVE  /\ Position(routes, pp) \in 0 .. Len(routes)
           /\ \A j \in Position(routes, pp) + 1 .. Len(routes) :
                 ~StaysBefore(routes[j].prefix, pp)
<1> DEFINE n == Len(routes)
           Stop(i) == /\ i > 0 => StaysBefore(routes[i].prefix, pp)
                      /\ \A j \in i + 1 .. n : ~StaysBefore(routes[j].prefix, pp)
           left == {k \in 0 .. n : n - k > 0 => StaysBefore(routes[n - k].prefix, pp)}
<1>1. n \in Nat
  BY LenProperties
<1> HIDE DEF n
<1>2. left \subseteq Nat /\ left # {}
  <2>1. n \in 0 .. n /\ ~(n - n > 0)
    BY <1>1
  <2>2. n \in left
    BY <2>1
  <2>3. 0 .. n \subseteq Nat
    BY <1>1
  <2> QED BY <2>2, <2>3
<1>3. PICK k \in left : \A l \in left : ~(<<l, k>> \in OpToRel(<, Nat))
  BY <1>2, WFMin, NatLessThanWellFounded
<1>4. \A l \in left : ~(l < k)
  BY <1>2, <1>3 DEF OpToRel
<1>5. k \in 0 .. n /\ (n - k > 0 => StaysBefore(routes[n - k].prefix, pp))
  OBVIOUS
<1>6. \A j \in (n - k) + 1 .. n : ~StaysBefore(routes[j].prefix, pp)
  <2> SUFFICES ASSUME NEW j \in (n - k) + 1 .. n, StaysBefore(routes[j].prefix, pp)
               PROVE FALSE
    OBVIOUS
  <2> HIDE DEF left
  <2>1. n - j \in 0 .. n /\ n - j < k /\ n - (n - j) = j
    BY <1>1, <1>5
  <2>2. n - j \in left
    BY <2>1 DEF left
  <2> QED BY <1>4, <2>1, <2>2
<1>7. n - k \in 0 .. n /\ Stop(n - k)
  <2> HIDE DEF left
  <2> QED BY <1>1, <1>5, <1>6
<1>8. \E i \in 0 .. n : Stop(i)
  BY <1>7
<1>9. Position(routes, pp) = CHOOSE i \in 0 .. n : Stop(i)
  BY DEF Position, n
<1> HIDE DEF Stop
<1>10. Position(routes, pp) \in 0 .. n /\ Stop(Position(routes, pp))
  BY <1>8, <1>9
<1> QED BY <1>10 DEF Stop, n

-----------------------------------------------------------------------------
\* The list with one route more: the new route behind those that stay before it.
LEMMA HandledIs ==
    ASSUME NEW routes \in Seq(Routes), NEW route \in Routes
    PROVE  LET p == Position(routes, route.prefix)
               n == Len(routes)
               new == Handled(routes, route)
               old(i) == IF i <= p THEN i ELSE i - 1
           IN  /\ new \in Seq(Routes) /\ Len(new) = n + 1 /\ DOMAIN new = 1 .. n + 1
               /\ new[p + 1] = route
               /\ \A i \in 1 .. n + 1 : i # p + 1 => old(i) \in 1 .. n /\ new[i] = routes[old(i)]
<1> DEFINE p == Position(routes, route.prefix)
           n == Len(routes)
           new == Handled(routes, route)
           old(i) == IF i <= p THEN i ELSE i - 1
<1>1. n \in Nat /\ p \in 0 .. n /\ DOMAIN routes = 1 .. n
  BY PositionExists, LenProperties
<1> HIDE DEF n
<1>2. /\ new \in Seq(Routes) /\ Len(new) = n + 1 /\ DOMAIN new = 1 .. n + 1
      /\ new[p + 1] = route
      /\ \A i \in 1 .. n + 1 : i # p + 1 => old(i) \in 1 .. n /\ new[i] = routes[old(i)]
  <2> HIDE DEF p
  <2>1. new = SubSeq(routes, 1, p) \o <<route>> \o SubSeq(routes, p + 1, n)
    <3>1. (p + 1) - 1 = p
      BY <1>1
    <3>2. new = SubSeq(routes, 1, (p + 1) - 1) \o <<route>> \o SubSeq(routes, p + 1, n)
      BY DEF Handled, InsertAt, p, n
    <3> QED BY <3>1, <3>2
  <2> DEFINE front == SubSeq(routes, 1, p)
             back == SubSeq(routes, p + 1, n)
  <2>2. /\ front \in Seq(Routes) /\ Len(front) = p
        /\ \A i \in 1 .. p : front[i] = routes[i]
    BY <1>1, SubSeqProperties DEF n
  <2>3. /\ back \in Seq(Routes) /\ Len(back) = n - p
        /\ \A i \in 1 .. n - p : back[i] = routes[p + i]
    <3>1. p + 1 \in Int /\ n \in Int /\ \A i \in p + 1 .. n : routes[i] \in Routes
      BY <1>1 DEF n
    <3>2. /\ back \in Seq(Routes)
          /\ Len(back) = IF p + 1 <= n THEN n - (p + 1) + 1 ELSE 0
          /\ \A i \in 1 .. n - (p + 1) + 1 : back[i] = routes[(p + 1) + i - 1]
      BY <3>1, SubSeqProperties
    <3> HIDE DEF back
    <3>3. n - (p + 1) + 1 = n - p /\ (p + 1 <= n \/ n - p = 0)
      BY <1>1
    <3>4. \A i \in 1 .. n - p : (p + 1) + i - 1 = p + i
      BY <1>1
    <3> QED BY <3>2, <3>3, <3>4
  <2> HIDE DEF front, back
  <2>4. new = (front \o <<route>>) \o back
    BY <2>1 DEF front, back
  <2> HIDE DEF new
  <2> DEFINE upto == front \o <<route>>
  <2>5. /\ upto \in Seq(Routes) /\ Len(upto) = p + 1 /\ upto[p + 1] = route
        /\ \A i \in 1 .. p : upto[i] = front[i]
    BY <1>1, <2>2
  <2> HIDE DEF upto
  <2>6. new = upto \o back
    BY <2>4 DEF upto
  <2>7. new \in Seq(Routes) /\ Len(new) = n + 1 /\ DOMAIN new = 1 .. n + 1
    BY <1>1, <2>3, <2>5, <2>6, ConcatProperties, LenProperties
  <2>8. /\ \A i \in 1 .. p : new[i] = front[i]
        /\ new[p + 1] = route
        /\ \A i \in p + 2 .. n + 1 : new[i] = back[i - (p + 1)]
    BY <1>1, <2>3, <2>5, <2>6
  <2>9. \A i \in 1 .. n + 1 : i # p + 1 => old(i) \in 1 .. n /\ new[i] = routes[old(i)]
    <3> SUFFICES ASSUME NEW i \in 1 .. n + 1, i # p + 1
                 PROVE  old(i) \in 1 .. n /\ new[i] = routes[old(i)]
      OBVIOUS
    <3>1. CASE i <= p
      BY <3>1, <1>1, <2>2, <2>8
    <3>2. CASE i > p
      <4>1. i \in p + 2 .. n + 1 /\ i - (p + 1) \in 1 .. n - p
        BY <3>2, <1>1
      <4>2. p + (i - (p + 1)) = i - 1
        BY <4>1, <1>1
      <4> QED BY <3>2, <4>1, <4>2, <1>1, <2>3, <2>8
    <3> QED BY <3>1, <3>2, <1>1
  <2> QED BY <2>7, <2>8, <2>9
<1> QED BY <1>2 DEF n

\* It has the old routes and the new one.
LEMMA HandledHas ==
    ASSUME NEW routes \in Seq(Routes), NEW route \in Routes
    PROVE  ToSet(Handled(routes, route)) = ToSet(routes) \cup {route}
<1> DEFINE p == Position(routes, route.prefix)
           n == Len(routes)
           new == Handled(routes, route)
           old(i) == IF i <= p THEN i ELSE i - 1
<1>1. n \in Nat /\ p \in 0 .. n /\ DOMAIN routes = 1 .. n
  BY PositionExists, LenProperties
<1> HIDE DEF n
<1>2. /\ new \in Seq(Routes) /\ Len(new) = n + 1 /\ DOMAIN new = 1 .. n + 1
      /\ new[p + 1] = route
      /\ \A i \in 1 .. n + 1 : i # p + 1 => old(i) \in 1 .. n /\ new[i] = routes[old(i)]
  BY HandledIs DEF n
<1> HIDE DEF p, new
<1>3. ToSet(new) = {new[i] : i \in 1 .. n + 1} /\ ToSet(routes) = {routes[i] : i \in 1 .. n}
  BY <1>1, <1>2 DEF ToSet
<1>4. ASSUME NEW j \in 1 .. n PROVE \E i \in 1 .. n + 1 : new[i] = routes[j]
  <2>1. CASE j <= p
    BY <1>1, <1>2, <2>1
  <2>2. CASE j > p
    <3>1. j + 1 \in 1 .. n + 1 /\ j + 1 # p + 1 /\ old(j + 1) = j
      BY <1>1, <2>2
    <3> QED BY <1>2, <3>1
  <2> QED BY <1>1, <2>1, <2>2
<1>5. ASSUME NEW i \in 1 .. n + 1 PROVE new[i] = route \/ \E j \in 1 .. n : new[i] = routes[j]
  <2> HIDE DEF old
  <2> QED BY <1>2
<1>6. p + 1 \in 1 .. n + 1
  BY <1>1
<1>7. ToSet(new) = ToSet(routes) \cup {route}
  BY <1>2, <1>3, <1>4, <1>5, <1>6
<1> QED BY <1>7 DEF new

(* "... a route may not be moved past a route that might also match the    *)
(* same string" (bytecode_compiler.go:21-22): router.handle, adding to an  *)
(* ordered list, puts the new route after every one that may match a path  *)
(* it may match, and leaves the others in their order.                     *)
THEOREM HandleKeepsOrder ==
    ASSUME NEW routes \in Seq(Routes), Ordered(routes),
           NEW route \in Routes, \A i \in DOMAIN routes : routes[i].id < route.id
    PROVE  Handled(routes, route) \in Seq(Routes) /\ Ordered(Handled(routes, route))
<1> DEFINE p == Position(routes, route.prefix)
           n == Len(routes)
           new == Handled(routes, route)
           old(i) == IF i <= p THEN i ELSE i - 1
<1>1. n \in Nat /\ p \in 0 .. n /\ DOMAIN routes = 1 .. n
  BY PositionExists, LenProperties
<1> HIDE DEF n
<1>2. /\ new \in Seq(Routes) /\ Len(new) = n + 1 /\ DOMAIN new = 1 .. n + 1
      /\ new[p + 1] = route
      /\ \A i \in 1 .. n + 1 : i # p + 1 => old(i) \in 1 .. n /\ new[i] = routes[old(i)]
  BY HandledIs DEF n
<1> HIDE DEF p, new
<1> SUFFICES ASSUME NEW i \in 1 .. n + 1, NEW j \in 1 .. n + 1, i < j,
                    Rivals(new[i], new[j])
             PROVE  new[i].id < new[j].id
  BY <1>2 DEF Ordered, new
<1>3. CASE i # p + 1 /\ j # p + 1
  <2>1. old(i) \in 1 .. n /\ old(j) \in 1 .. n /\ old(i) < old(j)
    BY <1>1, <1>2, <1>3
  <2> QED BY <1>1, <1>2, <1>3, <2>1 DEF Ordered
<1>4. CASE j = p + 1
  <2>1. old(i) \in DOMAIN routes /\ new[i] = routes[old(i)] /\ new[j] = route
    BY <1>1, <1>2, <1>4
  <2> QED BY <2>1
<1>5. CASE i = p + 1
  <2>1. old(j) \in p + 1 .. n /\ new[j] = routes[old(j)] /\ new[i] = route
    BY <1>1, <1>2, <1>5
  <2>2. ~StaysBefore(routes[old(j)].prefix, route.prefix)
    <3> HIDE DEF old
    <3>1. old(j) \in Position(routes, route.prefix) + 1 .. Len(routes)
      BY <2>1 DEF p, n
    <3> QED BY <3>1, PositionExists
  <2>3. Rivals(routes[old(j)], route) /\ routes[old(j)] \in Routes
    BY <1>1, <2>1 DEF Rivals
  <2> QED BY <2>2, <2>3, RivalsStay
<1> QED BY <1>3, <1>4, <1>5
=============================================================================
